---------------------------- MODULE BehaviorTree ----------------------------
(***************************************************************************)
(* roborts_decision/behavior_tree: the nodes of the decision's behavior    *)
(* tree and the loop that ticks its root.                                  *)
(*                                                                         *)
(* Everything happens in one thread: callbacks run in spin_some between    *)
(* two ticks.  Run calls Update, which runs the children; control passes   *)
(* down the tree and back up one call or return a step, and what a         *)
(* precondition function answers or an action returns is chosen when it    *)
(* is asked.  Through Reevaluation a node reaches up to its parent and     *)
(* across to a sibling.                                                    *)
(***************************************************************************)
EXTENDS Integers, SequencesExt

CONSTANT Trees    \* the trees to run, each a sequence of nodes, the root first

\* The nodes of a tree: behavior_type_, children_node_ptr_ (or the one
\* child_node_ptr_), abort_type_ and threshold_.
Action               == [type |-> "ACTION", children |-> << >>, abort |-> "NONE", threshold |-> 0]
Precondition(abort, child) ==
    [type |-> "PRECONDITION", children |-> <<child>>, abort |-> abort, threshold |-> 0]
Selector(children)   == [type |-> "SELECTOR", children |-> children, abort |-> "NONE", threshold |-> 0]
Sequence(children)   == [type |-> "SEQUENCE", children |-> children, abort |-> "NONE", threshold |-> 0]
Parallel(threshold, children) ==
    [type |-> "PARALLEL", children |-> children, abort |-> "NONE", threshold |-> threshold]

BehaviorNode ==
    [type : {"ACTION", "PRECONDITION", "SELECTOR", "SEQUENCE", "PARALLEL"}, children : Seq(Nat),
     abort : {"NONE", "SELF", "LOW_PRIORITY", "BOTH"}, threshold : Nat]

\* Nodes are numbered from the root on, every other node is a child of one
\* node and once, and those that are no actions have children.  A parallel
\* node waits for at least one of its children, and not for more than it has.
ASSUME TreesAssumption ==
    \A t \in Trees :
        /\ t \in Seq(BehaviorNode) /\ t # << >>
        /\ \A n \in DOMAIN t :
             /\ t[n].type = "ACTION" <=> t[n].children = << >>
             /\ t[n].type = "PRECONDITION" => Len(t[n].children) = 1
             /\ t[n].type = "PARALLEL" => t[n].threshold \in 1 .. Len(t[n].children)
             /\ \A i \in DOMAIN t[n].children : t[n].children[i] \in (n + 1) .. Len(t)
        /\ \A c \in 2 .. Len(t) : \E p \in DOMAIN t : \E i \in DOMAIN t[p].children :
             t[p].children[i] = c
        /\ \A p, q \in DOMAIN t : \A i \in DOMAIN t[p].children, j \in DOMAIN t[q].children :
             t[p].children[i] = t[q].children[j] => p = q /\ i = j

VARIABLES tree,       \* the tree that runs
          state, index, done, success, failure,    \* the fields of its nodes; index from 1
          pc, at,     \* where the thread is: at the start of Run or of Update of a node, or back from it
          active,     \* the nodes whose Run has not returned
          ticked,     \* the nodes run in this tick
          held,       \* the guards that were asked in this tick and held
          started     \* OnInitialize less OnTerminate of each node

vars == <<tree, state, index, done, success, failure, pc, at, active, ticked, held, started>>

Node         == DOMAIN tree
Type(n)      == tree[n].type
Children(n)  == tree[n].children
Child(n)     == Children(n)[1]
OfType(type) == {n \in Node : Type(n) = type}
Running      == {n \in Node : state[n] = "RUNNING"}

\* parent_node_ptr_, and where it has the node.
Parent(n)   == CHOOSE p \in Node : \E i \in DOMAIN Children(p) : Children(p)[i] = n
Position(n) == CHOOSE i \in DOMAIN Children(Parent(n)) : Children(Parent(n))[i] = n

\* SelectorNode::AddChildren: the children that are run again from the left.
AbortsRight(n) == Type(n) = "PRECONDITION" /\ tree[n].abort \in {"LOW_PRIORITY", "BOTH"}
AbortsSelf(n)  == Type(n) = "PRECONDITION" /\ tree[n].abort \in {"SELF", "BOTH"}

Init == /\ tree \in Trees
        /\ state   = [n \in Node |-> "IDLE"]
        /\ index   = [n \in Node |-> 1]
        /\ done    = [n \in Node |-> {}]
        /\ success = [n \in Node |-> 0]
        /\ failure = [n \in Node |-> 0]
        /\ pc = "idle" /\ at = 1
        /\ active = {} /\ ticked = {} /\ held = {}
        /\ started = [n \in Node |-> 0]

-----------------------------------------------------------------------------
(* Stopping                                                                 *)

\* The children that OnTerminate resets.  A guard ends its child unless it
\* succeeded with it; a selector or a sequence that is reset resets the child it
\* is at; a parallel node always resets all of its children.
TerminatePrecondition(n, result) == IF result = "SUCCESS" THEN {} ELSE {Child(n)}
TerminateComposite(n, result) == IF result = "IDLE" THEN {Children(n)[index[n]]} ELSE {}
TerminateParallel(n) == ToSet(Children(n))

\* Mutant: a sequence does not pass the reset on.
OnTerminateNotSequence(n, result) ==
    CASE Type(n) \in {"ACTION", "SEQUENCE"} -> {}
      [] Type(n) = "PRECONDITION" -> TerminatePrecondition(n, result)
      [] Type(n) = "SELECTOR"     -> TerminateComposite(n, result)
      [] Type(n) = "PARALLEL"     -> TerminateParallel(n)

OnTerminate(n, result) ==
    CASE Type(n) = "ACTION"       -> {}
      [] Type(n) = "PRECONDITION" -> TerminatePrecondition(n, result)
      [] Type(n) \in {"SELECTOR", "SEQUENCE"} -> TerminateComposite(n, result)
      [] Type(n) = "PARALLEL"     -> TerminateParallel(n)

\* Reset of some nodes stops those of them that run, and what they reset in turn.
Reset(nodes) ==
    LET whole(S) == /\ nodes \cap Running \subseteq S
                    /\ \A n \in S : OnTerminate(n, "IDLE") \cap Running \subseteq S
    IN  {n \in Running : \A S \in SUBSET Running : whole(S) => n \in S}

Stop(nodes) == [n \in Node |-> IF n \in nodes THEN "IDLE" ELSE state[n]]
Ended(nodes) == [n \in Node |-> IF n \in nodes THEN started[n] - 1 ELSE started[n]]

\* The second half of BehaviorNode::Run, once Update has a result.
Return(n, result) ==
    /\ IF result = "RUNNING"
       THEN /\ state' = [state EXCEPT ![n] = result]
            /\ UNCHANGED started
       ELSE LET stopped == Reset(OnTerminate(n, result))
            IN  /\ state' = [Stop(stopped) EXCEPT ![n] = result]
                /\ started' = Ended(stopped \cup {n})
    /\ active' = active \ {n}
    /\ pc' = "back" /\ at' = n

\* A node's Update runs a child.
Call(child) == /\ pc' = "run" /\ at' = child
               /\ UNCHANGED active

-----------------------------------------------------------------------------
(* Ticking                                                                  *)

\* One round of BehaviorTree::Run.
Tick == /\ pc = "idle"
        /\ pc' = "run" /\ at' = 1
        /\ ticked' = {} /\ held' = {}
        /\ UNCHANGED <<tree, state, index, done, success, failure, active, started>>

\* Mutant: a parallel node starts again with the children it had done.
OnInitializeKeepsDone(n) ==
    /\ index' = [index EXCEPT ![n] = 1]
    /\ success' = [success EXCEPT ![n] = 0]
    /\ failure' = [failure EXCEPT ![n] = 0]
    /\ started' = [started EXCEPT ![n] = @ + 1]
    /\ UNCHANGED done

\* Fields that a type of node has not are of no consequence.
OnInitialize(n) ==
    /\ index' = [index EXCEPT ![n] = 1]
    /\ done' = [done EXCEPT ![n] = {}]
    /\ success' = [success EXCEPT ![n] = 0]
    /\ failure' = [failure EXCEPT ![n] = 0]
    /\ started' = [started EXCEPT ![n] = @ + 1]

\* Mutant: a node that runs is initialized again.
RunAgain(n) == /\ OnInitialize(n)
               /\ pc' = "update" /\ active' = active \cup {n} /\ ticked' = ticked \cup {n}
               /\ UNCHANGED <<tree, state, at, held>>

\* The first half of BehaviorNode::Run.
Run(n) == /\ IF state[n] = "RUNNING" THEN UNCHANGED <<index, done, success, failure, started>>
                                     ELSE OnInitialize(n)
          /\ pc' = "update" /\ active' = active \cup {n} /\ ticked' = ticked \cup {n}
          /\ UNCHANGED <<tree, state, at, held>>

UpdateAction(n) ==
    /\ Type(n) = "ACTION"
    /\ \E result \in {"RUNNING", "SUCCESS", "FAILURE"} : Return(n, result)
    /\ UNCHANGED <<tree, index, done, success, failure, ticked, held>>

\* A guard reaches back to the selector it is a child of, left of the child that one is at.
ReachesBack(n) == /\ n # 1 /\ AbortsRight(n)
                  /\ Type(Parent(n)) = "SELECTOR"
                  /\ Position(n) < index[Parent(n)]

\* Mutant: a running child is not asked about again.
AsksOnce(n) == ReachesBack(n) \/ state[Child(n)] # "RUNNING"

\* Whether Reevaluation calls the precondition function.
Asks(n) == ReachesBack(n) \/ AbortsSelf(n) \/ state[Child(n)] # "RUNNING"

\* Mutant: the guard takes over without a word to the action on its right.
AbortSilently(n) == /\ index' = IF ReachesBack(n) THEN [index EXCEPT ![Parent(n)] = Position(n)]
                                ELSE index
                    /\ UNCHANGED <<state, started>>

\* The measures of an abort: what runs to the right stops, the guard takes over.
Abort(n) ==
    IF ReachesBack(n)
    THEN LET p == Parent(n)
             stopped == Reset({Children(p)[index[p]]})
         IN  /\ state' = Stop(stopped) /\ started' = Ended(stopped)
             /\ index' = [index EXCEPT ![p] = Position(n)]
    ELSE UNCHANGED <<state, started, index>>

UpdatePrecondition(n) ==
    /\ Type(n) = "PRECONDITION"
    /\ \/ /\ IF Asks(n) THEN held' = held \cup {n} ELSE UNCHANGED held
          /\ Abort(n)
          /\ Call(Child(n))
       \/ /\ Asks(n)
          /\ held' = held \ {n}
          /\ Return(n, "FAILURE")
          /\ UNCHANGED index
    /\ UNCHANGED <<tree, done, success, failure, ticked>>

\* Mutant: the first child is never asked again.
TurnFromSecond(n, i) ==
    Min({j \in (i + 1) .. (index[n] - 1) : j > 1 /\ AbortsRight(Children(n)[j])} \cup {index[n]})

\* Who comes after the i-th child: the guards to be asked again, then the child it is at.
Turn(n, i) ==
    Min({j \in (i + 1) .. (index[n] - 1) : AbortsRight(Children(n)[j])} \cup {index[n]})

UpdateSelector(n) ==
    /\ Type(n) = "SELECTOR"
    /\ Call(Children(n)[Turn(n, 0)])
    /\ UNCHANGED <<tree, state, index, done, success, failure, ticked, held, started>>

UpdateSequence(n) ==
    /\ Type(n) = "SEQUENCE"
    /\ Call(Children(n)[index[n]])
    /\ UNCHANGED <<tree, state, index, done, success, failure, ticked, held, started>>

\* The children of a parallel node after the i-th that are not among the done.
RunOthers(n, i, finished) ==
    LET others == {j \in (i + 1) .. Len(Children(n)) : j \notin finished}
    IN  IF others = {} THEN Return(n, "RUNNING")
        ELSE Call(Children(n)[Min(others)]) /\ UNCHANGED <<state, started>>

UpdateParallel(n) ==
    /\ Type(n) = "PARALLEL"
    /\ RunOthers(n, 0, done[n])
    /\ UNCHANGED <<tree, index, done, success, failure, ticked, held>>

-----------------------------------------------------------------------------
(* A child c has returned to its parent p.                                  *)

BackInPrecondition(p, c) ==
    /\ Type(p) = "PRECONDITION"
    /\ Return(p, state[c])
    /\ UNCHANGED <<tree, index, done, success, failure, ticked, held>>

\* The loop of a selector or a sequence goes on with the next child, or returns.
Advance(p, c, goOn) ==
    \/ /\ state[c] # goOn
       /\ Return(p, state[c])
       /\ UNCHANGED index
    \/ /\ state[c] = goOn /\ index[p] = Len(Children(p))
       /\ index' = [index EXCEPT ![p] = 1]
       /\ Return(p, goOn)
    \/ /\ state[c] = goOn /\ index[p] < Len(Children(p))
       /\ index' = [index EXCEPT ![p] = @ + 1]
       /\ Call(Children(p)[index[p] + 1])
       /\ UNCHANGED <<state, started>>

\* A child that was asked again and did not take over is passed.  One that did
\* is the child the selector is at: if it fails the next one follows, and is there.
BackInSelector(p, c) ==
    /\ Type(p) = "SELECTOR"
    /\ \/ /\ Position(c) < index[p]
          /\ Call(Children(p)[Turn(p, Position(c))])
          /\ UNCHANGED <<state, started, index>>
       \/ /\ Position(c) >= index[p]
          /\ Advance(p, c, "FAILURE")
    /\ UNCHANGED <<tree, done, success, failure, ticked, held>>

BackInSequence(p, c) ==
    /\ Type(p) = "SEQUENCE"
    /\ Advance(p, c, "SUCCESS")
    /\ UNCHANGED <<tree, done, success, failure, ticked, held>>

BackInParallel(p, c) ==
    LET i == Position(c)
    IN  /\ Type(p) = "PARALLEL"
        /\ \/ /\ state[c] = "SUCCESS"
              /\ done' = [done EXCEPT ![p] = @ \cup {i}]
              /\ success' = [success EXCEPT ![p] = @ + 1]
              /\ IF success[p] + 1 >= tree[p].threshold THEN Return(p, "SUCCESS")
                                                        ELSE RunOthers(p, i, done[p])
              /\ UNCHANGED failure
           \/ /\ state[c] = "FAILURE"
              /\ done' = [done EXCEPT ![p] = @ \cup {i}]
              /\ failure' = [failure EXCEPT ![p] = @ + 1]
              /\ IF failure[p] + 1 >= Len(Children(p)) - tree[p].threshold
                 THEN Return(p, "FAILURE") ELSE RunOthers(p, i, done[p])
              /\ UNCHANGED success
           \/ /\ state[c] \notin {"SUCCESS", "FAILURE"}
              /\ RunOthers(p, i, done[p])
              /\ UNCHANGED <<done, success, failure>>
        /\ UNCHANGED <<tree, index, ticked, held>>

\* The root has returned; the loop sleeps until the next round.
Finish == /\ at = 1
          /\ pc' = "idle"
          /\ UNCHANGED <<tree, state, index, done, success, failure, at, active, ticked, held, started>>

Update(n) == \/ UpdateAction(n)   \/ UpdatePrecondition(n)
             \/ UpdateSelector(n) \/ UpdateSequence(n)     \/ UpdateParallel(n)

Back(c) == LET p == Parent(c)
           IN  /\ c # 1
               /\ \/ BackInPrecondition(p, c) \/ BackInSelector(p, c)
                  \/ BackInSequence(p, c)     \/ BackInParallel(p, c)

Next == \/ Tick
        \/ pc = "run" /\ Run(at)
        \/ pc = "update" /\ Update(at)
        \/ pc = "back" /\ (Finish \/ Back(at))

Spec == Init /\ [][Next]_vars

-----------------------------------------------------------------------------
\* The fields have their types, and a parallel node has counted every child
\* it is done with once.
TypeOK == /\ tree \in Trees
          /\ state \in [Node -> {"RUNNING", "SUCCESS", "FAILURE", "IDLE"}]
          /\ index \in [Node -> Nat] /\ done \in [Node -> SUBSET Nat]
          /\ success \in [Node -> Nat] /\ failure \in [Node -> Nat] /\ started \in [Node -> Int]
          /\ pc \in {"idle", "run", "update", "back"} /\ at \in Node
          /\ active \subseteq Node /\ ticked \subseteq Node /\ held \subseteq Node
          /\ \A n \in Node : Type(n) # "ACTION" => index[n] \in DOMAIN Children(n)
          /\ \A n \in OfType("PARALLEL") :
               /\ done[n] \subseteq DOMAIN Children(n)
               /\ Cardinality(done[n]) = success[n] + failure[n]

\* OnInitialize and OnTerminate of a node alternate, and a node is between
\* the two exactly while it is RUNNING or its Run has not returned, whoever
\* resets it in whatever part of a tick: an action's executor is started once
\* and stopped once.
StartedIffRunning ==
    \A n \in Node : started[n] = IF n \in Running \cup active THEN 1 ELSE 0

\* No action goes on by itself.  What runs hangs from a parent that runs, or is
\* being run, and is at it, at any moment of a tick.  What runs after a tick was
\* ticked in it.
RunningHangsTogether ==
    /\ \A n \in Running \ {1} :
         LET p == Parent(n)
         IN  /\ p \in Running \cup active
             /\ Type(p) \in {"SELECTOR", "SEQUENCE"} => index[p] = Position(n)
             /\ Type(p) = "PARALLEL" => Position(n) \notin done[p]
    /\ pc = "idle" => Running \subseteq ticked

\* After a tick a guard that aborts itself has its subtree running only if it
\* was asked in that tick and held (AbortType SELF and BOTH).
GuardedWhileRunning ==
    pc = "idle" => \A n \in Running : AbortsSelf(n) => n \in held

\* A selector that stays at a child has in this tick run every guard to the
\* left that aborts lower priorities, and those that held got their turn.
LeftGuardsWentFirst ==
    pc = "idle" =>
        \A n \in Running \cap OfType("SELECTOR") : \A i \in 1 .. index[n] - 1 :
            LET left == Children(n)[i]
            IN  AbortsRight(left) => /\ left \in ticked
                                     /\ left \in held => Child(left) \in ticked

\* One command at a time: in a tree without parallel nodes no action is run before
\* the one it takes over from has been stopped, when a guard to the left
\* aborts it, a reset comes from above or one child gives way to the next.
OneActionRuns ==
    OfType("PARALLEL") = {} => \A a, b \in (Running \cup active) \cap OfType("ACTION") : a = b
=============================================================================
