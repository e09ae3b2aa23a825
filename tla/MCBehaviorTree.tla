--------------------------- MODULE MCBehaviorTree ---------------------------
(***************************************************************************)
(* Trees for the runs of BehaviorTree: every abort type in every position, *)
(* under and next to each kind of composite.                               *)
(***************************************************************************)
EXTENDS BehaviorTree

AbortType == {"NONE", "SELF", "LOW_PRIORITY", "BOTH"}

\* Two guarded actions and one without a guard, by priority.
Priorities ==
    {<<Selector(<<2, 4, 6>>), Precondition(a, 3), Action, Precondition(b, 5), Action, Action>> :
        a, b \in AbortType}

\* A guarded sequence against a sequence with a guard in it.
Sequences ==
    {<<Selector(<<2, 6>>), Precondition(a, 3), Sequence(<<4, 5>>), Action, Action,
       Sequence(<<7, 8>>), Action, Precondition(b, 9), Action>> : a \in {"SELF", "LOW_PRIORITY"}, b \in {"NONE", "BOTH"}}

\* A parallel node that a guard can abort, with a guard in it.
Parallels ==
    {<<Selector(<<2, 4>>), Precondition(a, 3), Action,
       Parallel(k, <<5, 7, 8>>), Precondition("BOTH", 6), Action, Action, Action>> :
        a \in {"NONE", "BOTH"}, k \in 1 .. 2}

\* Guards above and below a selector.
Nested ==
    {<<Selector(<<2, 7>>), Precondition(a, 3), Selector(<<4, 6>>), Precondition(b, 5), Action,
       Action, Action>> : a, b \in AbortType}

AllTrees == Priorities \cup Sequences \cup Parallels \cup Nested
=============================================================================
