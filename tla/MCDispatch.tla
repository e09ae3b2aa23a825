----------------------------- MODULE MCDispatch -----------------------------
(***************************************************************************)
(* Endpoints for the run of Dispatch.                                      *)
(***************************************************************************)
EXTENDS Dispatch

\* Every kind of endpoint on one command.
AllKinds == <<Subscription(2), Client(1), Service(2)>>
=============================================================================
