------------------------------ MODULE Mailroom ------------------------------
(***************************************************************************)
(* What the dispatch layer promises the receiving side: the containers of  *)
(* one command wait in no particular order until an endpoint they are      *)
(* meant for takes them, once each.  Only a container that comes when      *)
(* Capacity others are waiting costs one of them its place.                *)
(***************************************************************************)
EXTENDS Integers, BagsExt

CONSTANTS Content,           \* what containers can hold
          Endpoint,
          MeantFor(_, _),    \* MeantFor(e, c): c is addressed to endpoint e
          Capacity

VARIABLES waiting,           \* the bag of containers that arrived and wait:
                             \* how often each, of those that do
          count,             \* how many they are
          in_hand            \* the container being handled: {} or {<<e, c>>}

Init == /\ waiting = [c \in {} |-> 0]
        /\ count = 0
        /\ in_hand = {}

Arrive(c) == /\ \/ /\ count < Capacity
                   /\ waiting' = BagAdd(waiting, c)
                   /\ count' = count + 1
                \/ /\ count = Capacity
                   /\ \E lost \in DOMAIN waiting :
                        waiting' = BagAdd(BagRemove(waiting, lost), c)
                   /\ UNCHANGED count
             /\ UNCHANGED in_hand

Take(e, c) == /\ in_hand = {}
              /\ c \in DOMAIN waiting /\ MeantFor(e, c)
              /\ waiting' = BagRemove(waiting, c)
              /\ count' = count - 1
              /\ in_hand' = {<<e, c>>}

Handled == /\ in_hand # {}
           /\ in_hand' = {}
           /\ UNCHANGED <<waiting, count>>

Next == \/ \E c \in Content : Arrive(c)
        \/ \E e \in Endpoint, c \in DOMAIN waiting : Take(e, c)
        \/ Handled

Spec == Init /\ [][Next]_<<waiting, count, in_hand>>
=============================================================================
