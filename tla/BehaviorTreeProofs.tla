------------------------- MODULE BehaviorTreeProofs -------------------------
(***************************************************************************)
(* Theorems about BehaviorTree, for all trees: of any size, with guards of *)
(* any abort type anywhere.                                                *)
(***************************************************************************)
EXTENDS BehaviorTree, FiniteSetTheorems, NaturalsInduction, TLAPS

-----------------------------------------------------------------------------
(* The tree.                                                                *)

LEMMA TreeFacts ==
    ASSUME tree \in Trees
    PROVE  /\ Len(tree) \in Nat \ {0} /\ Node = 1 .. Len(tree)
           /\ 1 \in Node /\ Node \subseteq Nat
           /\ \A n \in Node : tree[n] \in BehaviorNode
<1>1. tree \in Seq(BehaviorNode) /\ tree # << >>
  BY TreesAssumption
<1>2. Len(tree) \in Nat \ {0} /\ DOMAIN tree = 1 .. Len(tree)
  BY <1>1
<1>3. \A n \in 1 .. Len(tree) : tree[n] \in BehaviorNode
  BY <1>1
<1> QED
  BY <1>2, <1>3 DEF Node

LEMMA NodeFacts ==
    ASSUME tree \in Trees, NEW n \in Node
    PROVE  /\ Type(n) \in {"ACTION", "PRECONDITION", "SELECTOR", "SEQUENCE", "PARALLEL"}
           /\ Children(n) \in Seq(Nat) /\ Len(Children(n)) \in Nat
           /\ DOMAIN Children(n) = 1 .. Len(Children(n))
           /\ Type(n) = "ACTION" => DOMAIN Children(n) = {}
           /\ Type(n) # "ACTION" => 1 \in DOMAIN Children(n)
           /\ Type(n) = "PRECONDITION" => DOMAIN Children(n) = {1}
           /\ Type(n) = "PARALLEL" => tree[n].threshold \in 1 .. Len(Children(n))
<1>1. tree[n] \in BehaviorNode
  BY TreeFacts
<1>2. /\ Type(n) \in {"ACTION", "PRECONDITION", "SELECTOR", "SEQUENCE", "PARALLEL"}
      /\ Children(n) \in Seq(Nat)
  BY <1>1 DEF BehaviorNode, Type, Children
<1>3. /\ Type(n) = "ACTION" <=> Children(n) = << >>
      /\ Type(n) = "PRECONDITION" => Len(Children(n)) = 1
      /\ Type(n) = "PARALLEL" => tree[n].threshold \in 1 .. Len(Children(n))
  BY TreesAssumption DEF Type, Children, Node
<1>4. Len(Children(n)) \in Nat /\ DOMAIN Children(n) = 1 .. Len(Children(n))
  BY <1>2
<1>5. Children(n) = << >> => DOMAIN Children(n) = {}
  OBVIOUS
<1>6. Children(n) # << >> => Len(Children(n)) # 0
  BY <1>2
<1>7. Type(n) # "ACTION" => 1 \in DOMAIN Children(n)
  BY <1>3, <1>4, <1>6
<1>8. Len(Children(n)) = 1 => DOMAIN Children(n) = {1}
  BY <1>4
<1> QED
  BY <1>2, <1>3, <1>4, <1>5, <1>7, <1>8

(* A child knows its parent and its place there.                            *)
LEMMA ChildFacts ==
    ASSUME tree \in Trees, NEW p \in Node, NEW i \in DOMAIN Children(p)
    PROVE  /\ Children(p)[i] \in Node \ {1} /\ Children(p)[i] > p
           /\ Parent(Children(p)[i]) = p
           /\ Position(Children(p)[i]) = i
<1> DEFINE c == Children(p)[i]
<1>1. c \in (p + 1) .. Len(tree)
  BY TreesAssumption DEF Node, Children
<1>2. c \in Node \ {1} /\ c > p
  BY <1>1, TreeFacts
<1>3. \A q \in Node : \A j \in DOMAIN Children(q) : Children(q)[j] = c => q = p /\ j = i
  BY TreesAssumption DEF Node, Children
<1> HIDE DEF c
<1>4. c = Children(p)[i]
  BY DEF c
<1>5. Parent(c) = p
  BY <1>3, <1>4 DEF Parent
<1>6. Position(c) = i
  BY <1>3, <1>4, <1>5 DEF Position
<1> QED
  BY <1>2, <1>5, <1>6 DEF c

LEMMA ParentFacts ==
    ASSUME tree \in Trees, NEW c \in Node, c # 1
    PROVE  /\ Parent(c) \in Node /\ Parent(c) < c /\ Type(Parent(c)) # "ACTION"
           /\ Position(c) \in DOMAIN Children(Parent(c)) /\ Position(c) \in Nat
           /\ Children(Parent(c))[Position(c)] = c
<1>1. c \in 2 .. Len(tree)
  BY TreeFacts
<1>2. \E p \in Node : \E i \in DOMAIN Children(p) : Children(p)[i] = c
  BY <1>1, TreesAssumption DEF Node, Children
<1>3. PICK p \in Node : \E i \in DOMAIN Children(p) : Children(p)[i] = c
  BY <1>2
<1>4. PICK i \in DOMAIN Children(p) : Children(p)[i] = c
  BY <1>3
<1>5. Parent(c) = p /\ Position(c) = i /\ c > p
  BY <1>4, ChildFacts
<1>6. Type(p) # "ACTION" /\ i \in Nat
  BY <1>4, NodeFacts
<1>7. p < c
  BY <1>5, TreeFacts
<1> QED
  BY <1>4, <1>5, <1>6, <1>7

(* A node is the child of its parent, the only one of a guard.              *)
LEMMA OnlyChild ==
    ASSUME tree \in Trees, NEW c \in Node, c # 1, Type(Parent(c)) = "PRECONDITION"
    PROVE  c = Child(Parent(c))
BY ParentFacts, NodeFacts DEF Child

LEMMA Siblings ==
    ASSUME tree \in Trees, NEW c \in Node, c # 1, NEW d \in Node, d # 1,
           Parent(c) = Parent(d), Position(c) = Position(d)
    PROVE  c = d
BY ParentFacts

-----------------------------------------------------------------------------
(* The inductive invariant.                                                 *)

\* A guard that is about to be asked again, left of what runs: its Run has
\* begun and yet it is not where its parent is.
Left == {n \in Node : pc = "update" /\ at = n /\ ReachesBack(n)}
On   == (Running \cup active) \ Left

IsAt(n) == LET p == Parent(n)
           IN  /\ Type(p) \in {"SELECTOR", "SEQUENCE"} => index[p] = Position(n)
               /\ Type(p) = "PARALLEL" => Position(n) \notin done[p]

Hangs == \A n \in On \ {1} : Parent(n) \in On /\ IsAt(n)

\* The Runs that have not returned lie on one way down from the root.
Path  == IF pc \in {"run", "back"} THEN active \cup {at} ELSE active

OneWay ==
    /\ pc = "idle" => active = {} /\ at = 1
    /\ pc \in {"run", "back"} => at \notin active
    /\ pc = "update" => at \in active
    /\ \A n \in Path \ {1} : Parent(n) \in active
    /\ \A m, n \in Path \ {1} : Parent(m) = Parent(n) => m = n
    /\ pc = "update" => \A n \in active \ {1} : Parent(n) # at

Begun == active \subseteq ticked /\ (pc = "back" => at \in ticked)

\* Which child a parent calls.
Fits(n) == LET p == Parent(n)
           IN  IF Type(p) = "SELECTOR"
               THEN \/ Position(n) = index[p]
                    \/ Position(n) < index[p] /\ AbortsRight(n)
               ELSE IsAt(n)

Called == pc \in {"run", "back"} /\ at # 1 => Fits(at)

\* Of the children of a node that is being run, those whose turn is to come.
ToCome(n) == \/ pc = "update" /\ at = Parent(n)
             \/ pc = "run" /\ at = n
             \/ \E c \in Path \ {1} : Parent(c) = Parent(n) /\ Position(c) < Position(n)

InTurn == \A n \in Running \ ticked :
            \/ n = 1 /\ pc = "run" /\ at = 1
            \/ n # 1 /\ (Parent(n) \notin ticked \/ ToCome(n))

Asked == \A n \in On \cap ticked : AbortsSelf(n) => n \in held \/ (pc = "update" /\ at = n)

Followed == \A n \in held : Child(n) \in ticked \/ (pc = "run" /\ at = Child(n))

LeftInTurn ==
    \A p \in On \cap ticked \cap OfType("SELECTOR") : \A i \in 1 .. index[p] - 1 :
        LET n == Children(p)[i]
        IN  AbortsRight(n) => n \in ticked \/ ToCome(n)

IInv == /\ TypeOK /\ StartedIffRunning
        /\ Hangs /\ OneWay /\ Begun /\ Called
        /\ InTurn /\ Asked /\ Followed /\ LeftInTurn

\* The types alone.
Types == /\ tree \in Trees
         /\ state \in [Node -> {"RUNNING", "SUCCESS", "FAILURE", "IDLE"}]
         /\ index \in [Node -> Nat] /\ done \in [Node -> SUBSET Nat]
         /\ success \in [Node -> Nat] /\ failure \in [Node -> Nat] /\ started \in [Node -> Int]
         /\ pc \in {"idle", "run", "update", "back"} /\ at \in Node
         /\ active \subseteq Node /\ ticked \subseteq Node /\ held \subseteq Node

Indexed == \A n \in Node : Type(n) # "ACTION" => index[n] \in DOMAIN Children(n)

Counted == \A n \in OfType("PARALLEL") :
               /\ done[n] \subseteq DOMAIN Children(n)
               /\ Cardinality(done[n]) = success[n] + failure[n]

LEMMA TypeOKParts == TypeOK <=> Types /\ Indexed /\ Counted
BY DEF TypeOK, Types, Indexed, Counted

(* What does not depend on the fields of the nodes stays with the tree.     *)
LEMMA SameTree ==
    ASSUME tree' = tree
    PROVE  /\ Node' = Node
           /\ \A n : /\ Type(n)' = Type(n) /\ Children(n)' = Children(n) /\ Child(n)' = Child(n)
                     /\ AbortsRight(n)' = AbortsRight(n) /\ AbortsSelf(n)' = AbortsSelf(n)
                     /\ OfType(n)' = OfType(n)
           /\ \A n : Parent(n)' = Parent(n)
           /\ \A n : Position(n)' = Position(n)
<1>1. /\ Node' = Node
      /\ \A n : Type(n)' = Type(n) /\ Children(n)' = Children(n) /\ Child(n)' = Child(n)
  BY DEF Node, Type, Children, Child
<1>2. \A n : AbortsRight(n)' = AbortsRight(n) /\ AbortsSelf(n)' = AbortsSelf(n)
  BY <1>1 DEF AbortsRight, AbortsSelf
<1>3. \A n : OfType(n)' = OfType(n)
  BY <1>1 DEF OfType
<1>4. \A n : Parent(n)' = Parent(n)
  BY <1>1 DEF Parent
<1>5. \A n : Position(n)' = Position(n)
  BY <1>1, <1>4 DEF Position
<1> QED
  BY <1>1, <1>2, <1>3, <1>4, <1>5

-----------------------------------------------------------------------------
(* Resets.                                                                  *)

LEMMA TerminateChildren ==
    ASSUME tree \in Trees, Indexed, NEW p \in Node, NEW result, NEW c \in OnTerminate(p, result)
    PROVE  c \in Node \ {1} /\ Parent(c) = p
<1>1. Type(p) # "ACTION" => index[p] \in DOMAIN Children(p) /\ 1 \in DOMAIN Children(p)
  BY NodeFacts DEF Indexed
<1>2. Type(p) # "ACTION" /\ \E i \in DOMAIN Children(p) : c = Children(p)[i]
  <2>1. CASE Type(p) = "ACTION"
    BY <2>1 DEF OnTerminate
  <2>2. CASE Type(p) = "PRECONDITION"
    BY <2>2, <1>1 DEF OnTerminate, TerminatePrecondition, Child
  <2>3. CASE Type(p) \in {"SELECTOR", "SEQUENCE"}
    BY <2>3, <1>1 DEF OnTerminate, TerminateComposite
  <2>4. CASE Type(p) = "PARALLEL"
    BY <2>4 DEF OnTerminate, TerminateParallel, ToSet
  <2> QED
    BY <2>1, <2>2, <2>3, <2>4, NodeFacts
<1> QED
  BY <1>2, ChildFacts

(* A child that a parent is at is reset with the parent.                    *)
LEMMA IdleReachesChild ==
    ASSUME tree \in Trees, NEW c \in Node, c # 1, IsAt(c)
    PROVE  c \in OnTerminate(Parent(c), "IDLE")
<1>1. /\ Type(Parent(c)) \in {"PRECONDITION", "SELECTOR", "SEQUENCE", "PARALLEL"}
      /\ Position(c) \in DOMAIN Children(Parent(c)) /\ Children(Parent(c))[Position(c)] = c
  BY ParentFacts, NodeFacts
<1>2. CASE Type(Parent(c)) = "PRECONDITION"
  BY <1>2, OnlyChild DEF OnTerminate, TerminatePrecondition
<1>3. CASE Type(Parent(c)) \in {"SELECTOR", "SEQUENCE"}
  BY <1>1, <1>3 DEF OnTerminate, TerminateComposite, IsAt
<1>4. CASE Type(Parent(c)) = "PARALLEL"
  BY <1>1, <1>4 DEF OnTerminate, TerminateParallel, ToSet
<1> QED
  BY <1>1, <1>2, <1>3, <1>4

LEMMA ResetFacts ==
    ASSUME NEW nodes
    PROVE  /\ Reset(nodes) \subseteq Running
           /\ nodes \cap Running \subseteq Reset(nodes)
           /\ \A n \in Reset(nodes) : OnTerminate(n, "IDLE") \cap Running \subseteq Reset(nodes)
           /\ \A S \in SUBSET Running :
                /\ nodes \cap Running \subseteq S
                /\ \A n \in S : OnTerminate(n, "IDLE") \cap Running \subseteq S
                => Reset(nodes) \subseteq S
BY DEF Reset

(* Resets go down: they spare a set of nodes that holds the parents of its  *)
(* members, when they do not begin in it.                                   *)
LEMMA ResetSpares ==
    ASSUME tree \in Trees, Indexed, NEW nodes, NEW spared,
           \A n \in spared \ {1} : Parent(n) \in spared,
           nodes \cap spared = {}
    PROVE  Reset(nodes) \cap spared = {}
<1> DEFINE S == Running \ spared
<1>1. nodes \cap Running \subseteq S
  OBVIOUS
<1>2. ASSUME NEW n \in S, NEW c \in OnTerminate(n, "IDLE") \cap Running
      PROVE  c \in S
  <2>1. n \in Node
    BY DEF Running
  <2>2. c # 1 /\ Parent(c) = n
    BY <2>1, TerminateChildren
  <2> QED
    BY <2>2
<1>3. S \in SUBSET Running /\ \A n \in S : OnTerminate(n, "IDLE") \cap Running \subseteq S
  BY <1>2
<1> HIDE DEF S
<1>4. Reset(nodes) \subseteq S
  BY <1>1, <1>3, ResetFacts
<1> QED
  BY <1>4 DEF S

(* Nothing is left running below what a reset stopped.                      *)
LEMMA ResetSweeps ==
    ASSUME tree \in Trees, NEW nodes, NEW c \in Running \ {1}, IsAt(c), Parent(c) \in Reset(nodes)
    PROVE  c \in Reset(nodes)
<1>1. c \in OnTerminate(Parent(c), "IDLE")
  BY IdleReachesChild DEF Running
<1> QED
  BY <1>1, ResetFacts

-----------------------------------------------------------------------------
(* Control passes.                                                          *)

\* Where control is and what runs.
Flow == /\ StartedIffRunning /\ Hangs /\ OneWay /\ Begun /\ Called
        /\ InTurn /\ Asked /\ Followed /\ LeftInTurn

LEMMA IInvParts == IInv <=> Types /\ Indexed /\ Counted /\ Flow
BY TypeOKParts DEF IInv, Flow

LEMMA IInvPartsNext == Types' /\ Indexed' /\ Counted' /\ Flow' => IInv'
BY DEF IInv, Flow, TypeOK, Types, Indexed, Counted

\* The node that Update is at: of the node in control, or of the parent that
\* has got a child back.
Updating(n) == \/ pc = "update" /\ at = n
               \/ pc = "back" /\ at # 1 /\ Parent(at) = n

LEMMA UpdatingFacts ==
    ASSUME Types, OneWay, Begun, NEW n, Updating(n)
    PROVE  /\ n \in active /\ n \in Node /\ n \in ticked
           /\ \A c \in active \ {1} : Parent(c) # n
           /\ \A c \in Path \ {1} : Parent(c) # n => c \in active
<1>1. n \in active
  BY DEF Updating, OneWay, Path
<1>2. ASSUME NEW c \in active \ {1}
      PROVE  Parent(c) # n
  <2>1. CASE pc = "update" /\ at = n
    BY <2>1 DEF OneWay
  <2>2. CASE pc = "back" /\ at # 1 /\ Parent(at) = n
    BY <2>2 DEF OneWay, Path
  <2> QED
    BY <2>1, <2>2 DEF Updating
<1>3. ASSUME NEW c \in Path \ {1}, Parent(c) # n
      PROVE  c \in active
  BY <1>3 DEF Updating, Path
<1> QED
  BY <1>1, <1>2, <1>3 DEF Types, Begun

(* A node that is being run fits its parent.                                *)
LEMMA ActiveFits ==
    ASSUME Types, Hangs, NEW n \in active \ {1}
    PROVE  Fits(n)
<1>1. CASE n \in Left
  BY <1>1 DEF Left, ReachesBack, Fits
<1>2. CASE n \notin Left
  <2>1. IsAt(n)
    BY <1>2 DEF On, Hangs
  <2> QED
    BY <2>1 DEF Fits, IsAt
<1> QED
  BY <1>1, <1>2

(* A return: a node stops being run, and unless it goes on running nothing  *)
(* runs below it any more.                                                  *)
LEMMA ReturnStep ==
    ASSUME Types, Indexed, Flow, UNCHANGED <<tree, ticked>>,
           NEW n, Updating(n),
           NEW result \in {"RUNNING", "SUCCESS", "FAILURE", "IDLE"},
           Return(n, result),
           \A m \in Node \ {n} : index'[m] = index[m] /\ done'[m] = done[m],
           held' = held \/ (result # "RUNNING" /\ held' = held \ {n}),
           result = "RUNNING" =>
               /\ n \notin Left /\ index'[n] = index[n]
               /\ \A c \in Running \ {1} : Parent(c) = n =>
                    c \in ticked /\ (Type(n) = "PARALLEL" => Position(c) \notin done'[n])
               /\ Type(n) = "SELECTOR" => \A i \in 1 .. index[n] - 1 :
                    AbortsRight(Children(n)[i]) => Children(n)[i] \in ticked
               /\ AbortsSelf(n) => n \in held,
           result # "RUNNING" =>
               \A c \in Running \ {1} : Parent(c) = n => c \in OnTerminate(n, result)
    PROVE  Flow'
<1> DEFINE stopped == IF result = "RUNNING" THEN {} ELSE Reset(OnTerminate(n, result))
<1>1. tree \in Trees /\ tree' = tree /\ ticked' = ticked /\ pc' = "back" /\ at' = n
      /\ active' = active \ {n}
  BY DEF Types, Return
<1>2. /\ n \in active /\ n \in Node /\ n \in ticked
      /\ \A c \in active \ {1} : Parent(c) # n
      /\ \A c \in Path \ {1} : Parent(c) # n => c \in active
  BY UpdatingFacts DEF Flow
<1>3. /\ pc \in {"update", "back"}
      /\ pc = "update" => at = n
  BY DEF Updating
<1>4. \A c \in active \ {1} : Parent(c) \in active
  BY DEF Flow, OneWay, Path
<1>5. stopped \subseteq Running /\ stopped \cap active = {}
  <2>1. CASE result = "RUNNING"
    BY <2>1
  <2>2. CASE result # "RUNNING"
    <3>1. OnTerminate(n, result) \cap active = {}
      BY <1>1, <1>2, TerminateChildren
    <3>2. Reset(OnTerminate(n, result)) \cap active = {}
      BY <1>1, <1>4, <3>1, ResetSpares
    <3> QED
      BY <2>2, <3>2, ResetFacts
  <2> QED
    BY <2>1, <2>2
<1>6. ASSUME NEW c \in Running \ {1}, Parent(c) = n, result # "RUNNING"
      PROVE  c \in stopped
  BY <1>6, ResetFacts
<1>7. ASSUME NEW c \in Running \ {1}, IsAt(c), Parent(c) \in stopped
      PROVE  c \in stopped
  <2>1. result # "RUNNING" /\ Parent(c) \in Reset(OnTerminate(n, result))
    BY <1>7
  <2>2. c \in Reset(OnTerminate(n, result))
    BY <1>1, <1>7, <2>1, ResetSweeps
  <2> QED
    BY <2>1, <2>2
<1>8. /\ \A m \in Node \ {n} : state'[m] = IF m \in stopped THEN "IDLE" ELSE state[m]
      /\ state'[n] = result
      /\ \A m \in Node : started'[m] = IF m \in stopped \/ (m = n /\ result # "RUNNING")
                                       THEN started[m] - 1 ELSE started[m]
  <2>1. CASE result = "RUNNING"
    BY <1>2, <2>1 DEF Return, Types
  <2>2. CASE result # "RUNNING"
    BY <1>2, <2>2 DEF Return, Types, Stop, Ended
  <2> QED
    BY <2>1, <2>2
<1> HIDE DEF stopped
<1>9. /\ Node' = Node
      /\ \A m : Type(m)' = Type(m) /\ Children(m)' = Children(m) /\ Child(m)' = Child(m)
      /\ \A m : AbortsRight(m)' = AbortsRight(m) /\ AbortsSelf(m)' = AbortsSelf(m)
      /\ \A m : OfType(m)' = OfType(m)
      /\ \A m : Parent(m)' = Parent(m)
      /\ \A m : Position(m)' = Position(m)
  BY <1>1, SameTree
<1>10. \A m \in Node \ {n} : m \in Running' <=> m \in Running /\ m \notin stopped
  BY <1>8, <1>9 DEF Running
<1>11. n \in Running' <=> result = "RUNNING"
  BY <1>2, <1>8, <1>9 DEF Running
<1>12. Left' = {}
  BY <1>1 DEF Left
<1>13. On' = Running' \cup active'
  BY <1>12 DEF On
<1>14. \A m \in Node \ {n} : m \notin Left
  BY <1>3 DEF Left
<1>15. ASSUME NEW m \in Node \ {n}
       PROVE  m \in On' <=> m \in On /\ m \notin stopped
  BY <1>1, <1>5, <1>10, <1>13, <1>14 DEF On
<1>16. n \in On' <=> result = "RUNNING"
  BY <1>1, <1>11, <1>13
<1>17. ASSUME NEW m \in Node \ {1}
       PROVE  Parent(m) \in Node /\ Parent(m) < m /\ Parent(m) # m
  BY <1>1, ParentFacts, TreeFacts
<1>18. On' \subseteq Node /\ Running' \subseteq Node /\ active \subseteq Node
  BY <1>1, <1>9, <1>13 DEF Types, Running
<1>19. ASSUME NEW m \in Node \ {1}, Parent(m) # n, ToCome(m)
       PROVE  ToCome(m)'
  <2>1. PICK c \in Path \ {1} : Parent(c) = Parent(m) /\ Position(c) < Position(m)
    BY <1>3, <1>19 DEF ToCome
  <2>2. c \in Path' \ {1}
    BY <1>1, <1>2, <1>19, <2>1 DEF Path
  <2> QED
    BY <1>9, <2>1, <2>2 DEF ToCome
<1>20. StartedIffRunning'
  <2> SUFFICES ASSUME NEW m \in Node
               PROVE  started'[m] = IF m \in Running' \cup active' THEN 1 ELSE 0
    BY <1>9 DEF StartedIffRunning
  <2>1. started[m] = IF m \in Running \cup active THEN 1 ELSE 0
    BY DEF Flow, StartedIffRunning
  <2>2. CASE m = n
    BY <1>1, <1>2, <1>5, <1>8, <1>11, <2>1, <2>2
  <2>3. CASE m # n
    BY <1>1, <1>5, <1>8, <1>10, <2>1, <2>3
  <2> QED
    BY <2>2, <2>3
<1>21. Hangs'
  <2> SUFFICES ASSUME NEW m \in On' \ {1}
               PROVE  Parent(m) \in On' /\ IsAt(m)'
    BY <1>9 DEF Hangs
  <2>1. m \in Node \ {1} /\ Parent(m) \in Node /\ Parent(m) # m
    BY <1>17, <1>18
  <2>2. CASE m = n
    <3>1. n \in On /\ IsAt(n) /\ Parent(n) \in active
      BY <1>2, <1>4, <1>16, <2>2 DEF On, Flow, Hangs
    <3>2. Parent(n) \in On'
      BY <1>1, <1>13, <2>1, <2>2, <3>1
    <3>3. index'[Parent(n)] = index[Parent(n)] /\ done'[Parent(n)] = done[Parent(n)]
      BY <2>1, <2>2
    <3> QED
      BY <1>9, <2>2, <3>1, <3>2, <3>3 DEF IsAt
  <2>3. CASE m # n
    <3>1. m \in On /\ m \notin stopped
      BY <1>15, <2>1, <2>3
    <3>2. Parent(m) \in On /\ IsAt(m)
      BY <3>1 DEF Flow, Hangs
    <3>3. CASE Parent(m) = n
      <4>1. m \in Running
        BY <1>2, <2>1, <3>1, <3>3 DEF On
      <4>2. result = "RUNNING"
        BY <1>6, <2>1, <3>1, <3>3, <4>1
      <4>3. index'[n] = index[n] /\ (Type(n) = "PARALLEL" => Position(m) \notin done'[n])
        BY <2>1, <3>3, <4>1, <4>2
      <4> QED
        BY <1>9, <1>16, <3>2, <3>3, <4>2, <4>3 DEF IsAt
    <3>4. CASE Parent(m) # n
      <4>1. Parent(m) \notin stopped
        <5>1. CASE m \in active
          BY <1>4, <1>5, <2>1, <5>1
        <5>2. CASE m \notin active
          <6>1. m \in Running
            BY <3>1, <5>2 DEF On
          <6> QED
            BY <1>7, <2>1, <3>1, <3>2, <6>1
        <5> QED
          BY <5>1, <5>2
      <4>2. Parent(m) \in On'
        BY <1>15, <2>1, <3>2, <3>4, <4>1
      <4>3. index'[Parent(m)] = index[Parent(m)] /\ done'[Parent(m)] = done[Parent(m)]
        BY <2>1, <3>4
      <4> QED
        BY <1>9, <3>2, <4>2, <4>3 DEF IsAt
    <3> QED
      BY <3>3, <3>4
  <2> QED
    BY <2>2, <2>3
<1>22. OneWay'
  <2>1. Path' = active
    BY <1>1, <1>2 DEF Path
  <2>2. \A m \in Path' \ {1} : Parent(m) \in active'
    BY <1>1, <1>2, <1>4, <2>1
  <2>3. \A m, k \in active \ {1} : Parent(m) = Parent(k) => m = k
    BY DEF Flow, OneWay, Path
  <2> QED
    BY <1>1, <1>9, <2>1, <2>2, <2>3 DEF OneWay
<1>23. Begun'
  BY <1>1, <1>2 DEF Flow, Begun
<1>24. Called'
  <2> SUFFICES ASSUME n # 1 PROVE Fits(n)'
    BY <1>1 DEF Called
  <2>1. Fits(n)
    BY <1>2, ActiveFits DEF Flow
  <2>2. index'[Parent(n)] = index[Parent(n)] /\ done'[Parent(n)] = done[Parent(n)]
    BY <1>2, <1>17
  <2> QED
    BY <1>9, <2>1, <2>2 DEF Fits, IsAt
<1>25. InTurn'
  <2> SUFFICES ASSUME NEW m \in Running', m \notin ticked
               PROVE  m # 1 /\ (Parent(m) \notin ticked \/ ToCome(m)')
    BY <1>1, <1>9 DEF InTurn
  <2>1. m # n /\ m \in Node /\ m \in Running /\ m \notin stopped
    BY <1>2, <1>10, <1>18
  <2>2. m # 1 /\ (Parent(m) \notin ticked \/ ToCome(m))
    BY <1>3, <2>1 DEF Flow, InTurn
  <2>3. Parent(m) # n
    BY <1>6, <2>1, <2>2
  <2> QED
    BY <1>19, <2>1, <2>2, <2>3
<1>26. Asked'
  <2> SUFFICES ASSUME NEW m \in On', m \in ticked, AbortsSelf(m)
               PROVE  m \in held'
    BY <1>1, <1>9 DEF Asked
  <2>1. CASE m = n
    BY <1>16, <2>1
  <2>2. CASE m # n
    <3>1. m \in On
      BY <1>15, <1>18, <2>2
    <3>2. m \in held
      BY <1>3, <2>2, <3>1 DEF Flow, Asked
    <3> QED
      BY <2>2, <3>2
  <2> QED
    BY <2>1, <2>2
<1>27. Followed'
  <2> SUFFICES ASSUME NEW m \in held'
               PROVE  Child(m) \in ticked
    BY <1>1, <1>9 DEF Followed
  <2> QED
    BY <1>3 DEF Flow, Followed
<1>28. LeftInTurn'
  <2> SUFFICES ASSUME NEW p \in On', p \in ticked, Type(p) = "SELECTOR",
                      NEW i \in 1 .. index'[p] - 1, NEW c, c = Children(p)[i], AbortsRight(c)
               PROVE  c \in ticked \/ ToCome(c)'
    BY <1>1, <1>9 DEF LeftInTurn, OfType
  <2>1. CASE p = n
    BY <1>16, <2>1
  <2>2. CASE p # n
    <3>1. p \in On /\ p \in Node /\ index'[p] = index[p]
      BY <1>15, <1>18, <2>2
    <3>2. c \in ticked \/ ToCome(c)
      BY <3>1 DEF Flow, LeftInTurn, OfType
    <3>3. i \in DOMAIN Children(p)
      <4>1. index[p] \in 1 .. Len(Children(p)) /\ Len(Children(p)) \in Nat
        BY <1>1, <3>1, NodeFacts DEF Indexed
      <4>2. i \in 1 .. Len(Children(p))
        BY <3>1, <4>1
      <4> QED
        BY <1>1, <3>1, <4>2, NodeFacts
    <3>4. c \in Node \ {1} /\ Parent(c) = p
      BY <1>1, <3>1, <3>3, ChildFacts
    <3> QED
      BY <1>19, <2>2, <3>2, <3>4
  <2> QED
    BY <2>1, <2>2
<1> QED
  BY <1>20, <1>21, <1>22, <1>23, <1>24, <1>25, <1>26, <1>27, <1>28 DEF Flow

(* A call: of a child that fits, after which come those that are to come.   *)
LEMMA CallStep ==
    ASSUME Types, Indexed, Flow, UNCHANGED <<tree, ticked, state, started>>,
           NEW n, Updating(n), n \notin Left,
           NEW c \in Node \ {1}, Parent(c) = n, Call(c), Fits(c)',
           \A m \in Node \ {n} : index'[m] = index[m] /\ done'[m] = done[m],
           held' = held \/ (held' = held \cup {n} /\ c = Child(n)),
           pc = "update" => (AbortsSelf(n) => n \in held'),
           \A d \in Running \ {1} : Parent(d) = n =>
               IsAt(d)' /\ (d \in ticked \/ d = c \/ Position(c) < Position(d)),
           Type(n) = "SELECTOR" => \A i \in 1 .. index'[n] - 1 :
               AbortsRight(Children(n)[i]) =>
                   \/ Children(n)[i] \in ticked
                   \/ Children(n)[i] = c
                   \/ Position(c) < Position(Children(n)[i]) /\ Parent(Children(n)[i]) = n
    PROVE  Flow'
<1>1. tree \in Trees /\ tree' = tree /\ ticked' = ticked /\ state' = state /\ started' = started
      /\ pc' = "run" /\ at' = c /\ active' = active
  BY DEF Types, Call
<1>2. /\ n \in active /\ n \in Node /\ n \in ticked
      /\ \A d \in active \ {1} : Parent(d) # n
      /\ \A d \in Path \ {1} : Parent(d) # n => d \in active
  BY UpdatingFacts DEF Flow
<1>3. /\ pc \in {"update", "back"}
      /\ pc = "update" => at = n
  BY DEF Updating
<1>4. /\ Node' = Node
      /\ \A m : Type(m)' = Type(m) /\ Children(m)' = Children(m) /\ Child(m)' = Child(m)
      /\ \A m : AbortsRight(m)' = AbortsRight(m) /\ AbortsSelf(m)' = AbortsSelf(m)
      /\ \A m : OfType(m)' = OfType(m)
      /\ \A m : Parent(m)' = Parent(m)
      /\ \A m : Position(m)' = Position(m)
  BY <1>1, SameTree
<1>5. Running' = Running /\ Running \subseteq Node
  BY <1>1, <1>4 DEF Running
<1>6. Left' = {} /\ Left = {}
  BY <1>1, <1>3 DEF Left
<1>7. On' = On /\ On = Running \cup active
  BY <1>1, <1>5, <1>6 DEF On
<1>8. On \subseteq Node /\ active \subseteq Node
  BY <1>5, <1>7 DEF Types
<1>9. Path' = active \cup {c} /\ c \notin active
  BY <1>1, <1>2 DEF Path
<1>10. ASSUME NEW m \in Node \ {1}, Parent(m) # n, ToCome(m)
       PROVE  ToCome(m)'
  <2>1. PICK d \in Path \ {1} : Parent(d) = Parent(m) /\ Position(d) < Position(m)
    BY <1>3, <1>10 DEF ToCome
  <2>2. d \in Path' \ {1}
    BY <1>2, <1>9, <1>10, <2>1
  <2> QED
    BY <1>4, <2>1, <2>2 DEF ToCome
<1>11. ASSUME NEW m, m = c \/ (Parent(m) = n /\ Position(c) < Position(m))
       PROVE  ToCome(m)'
  <2>1. c \in Path' \ {1}
    BY <1>9
  <2> QED
    BY <1>1, <1>4, <1>11, <2>1 DEF ToCome
<1>12. StartedIffRunning'
  BY <1>1, <1>4, <1>5 DEF Flow, StartedIffRunning
<1>13. Hangs'
  <2> SUFFICES ASSUME NEW m \in On \ {1}
               PROVE  Parent(m) \in On /\ IsAt(m)'
    BY <1>4, <1>7 DEF Hangs
  <2>1. Parent(m) \in On /\ IsAt(m)
    BY DEF Flow, Hangs
  <2>2. CASE Parent(m) = n
    BY <1>2, <1>7, <2>1, <2>2
  <2>3. CASE Parent(m) # n
    <3>1. index'[Parent(m)] = index[Parent(m)] /\ done'[Parent(m)] = done[Parent(m)]
      BY <1>8, <2>1, <2>3
    <3> QED
      BY <1>4, <2>1, <3>1 DEF IsAt
  <2> QED
    BY <2>2, <2>3
<1>14. OneWay'
  <2>1. \A m \in active \ {1} : Parent(m) \in active
    BY DEF Flow, OneWay, Path
  <2>2. \A m, k \in active \ {1} : Parent(m) = Parent(k) => m = k
    BY DEF Flow, OneWay, Path
  <2> QED
    BY <1>1, <1>2, <1>4, <1>9, <2>1, <2>2 DEF OneWay
<1>15. Begun'
  BY <1>1 DEF Flow, Begun
<1>16. Called'
  <2>1. Fits(at)'
    BY <1>1 DEF Fits, IsAt
  <2> QED
    BY <2>1 DEF Called
<1>17. InTurn'
  <2> SUFFICES ASSUME NEW m \in Running, m \notin ticked
               PROVE  m # 1 /\ (Parent(m) \notin ticked \/ ToCome(m)')
    BY <1>1, <1>4, <1>5 DEF InTurn
  <2>1. m # 1 /\ (Parent(m) \notin ticked \/ ToCome(m))
    BY <1>3 DEF Flow, InTurn
  <2>2. CASE Parent(m) = n
    BY <1>11, <2>1, <2>2
  <2>3. CASE Parent(m) # n
    BY <1>5, <1>10, <2>1, <2>3
  <2> QED
    BY <2>2, <2>3
<1>18. Asked'
  <2> SUFFICES ASSUME NEW m \in On, m \in ticked, AbortsSelf(m)
               PROVE  m \in held'
    BY <1>1, <1>4, <1>7 DEF Asked
  <2>1. m \in held \/ (pc = "update" /\ at = m)
    BY DEF Flow, Asked
  <2> QED
    BY <1>3, <2>1
<1>19. Followed'
  <2> SUFFICES ASSUME NEW m \in held'
               PROVE  Child(m) \in ticked \/ Child(m) = c
    BY <1>1, <1>4 DEF Followed
  <2> QED
    BY <1>3 DEF Flow, Followed
<1>20. LeftInTurn'
  <2> SUFFICES ASSUME NEW p \in On, p \in ticked, Type(p) = "SELECTOR",
                      NEW i \in 1 .. index'[p] - 1, NEW d, d = Children(p)[i], AbortsRight(d)
               PROVE  d \in ticked \/ ToCome(d)'
    BY <1>1, <1>4, <1>7 DEF LeftInTurn, OfType
  <2>1. CASE p = n
    BY <1>11, <2>1
  <2>2. CASE p # n
    <3>1. p \in Node /\ index'[p] = index[p]
      BY <1>8, <2>2
    <3>2. d \in ticked \/ ToCome(d)
      BY <3>1 DEF Flow, LeftInTurn, OfType
    <3>3. i \in DOMAIN Children(p)
      <4>1. index[p] \in 1 .. Len(Children(p)) /\ Len(Children(p)) \in Nat
        BY <1>1, <3>1, NodeFacts DEF Indexed
      <4>2. i \in 1 .. Len(Children(p))
        BY <3>1, <4>1
      <4> QED
        BY <1>1, <3>1, <4>2, NodeFacts
    <3>4. d \in Node \ {1} /\ Parent(d) = p
      BY <1>1, <3>1, <3>3, ChildFacts
    <3> QED
      BY <1>10, <2>2, <3>2, <3>4
  <2> QED
    BY <2>1, <2>2
<1> QED
  BY <1>12, <1>13, <1>14, <1>15, <1>16, <1>17, <1>18, <1>19, <1>20 DEF Flow

LEMMA LeftChild ==
    ASSUME tree \in Trees, Indexed, NEW p \in Node, Type(p) = "SELECTOR",
           NEW i \in 1 .. index[p] - 1
    PROVE  /\ Children(p)[i] \in Node \ {1} /\ Parent(Children(p)[i]) = p
           /\ Position(Children(p)[i]) = i
<1>1. index[p] \in 1 .. Len(Children(p)) /\ Len(Children(p)) \in Nat
  BY NodeFacts DEF Indexed
<1>2. i \in 1 .. Len(Children(p))
  BY <1>1
<1> QED
  BY <1>2, NodeFacts, ChildFacts

(* A guard takes over: what ran to its right has stopped altogether, and    *)
(* its selector is at it.                                                   *)
LEMMA AbortStep ==
    ASSUME Types, Indexed, Flow, UNCHANGED <<tree, ticked, done>>,
           NEW n, pc = "update", at = n, n \in Left, Type(n) = "PRECONDITION",
           Abort(n), Call(Child(n)), held' = held \cup {n}
    PROVE  Flow'
<1> DEFINE p == Parent(n)
           s == Children(p)[index[p]]
           stopped == Reset({s})
           c == Child(n)
<1>1. tree \in Trees /\ tree' = tree /\ ticked' = ticked /\ done' = done
      /\ pc' = "run" /\ at' = c /\ active' = active
  BY DEF Types, Call
<1>2. /\ n \in active /\ n \in Node /\ n \in ticked
      /\ \A d \in active \ {1} : Parent(d) # n
  BY UpdatingFacts DEF Flow, Updating
<1>3. n # 1 /\ Type(p) = "SELECTOR" /\ Position(n) < index[p] /\ ReachesBack(n)
  BY DEF Left, ReachesBack
<1>4. p \in Node /\ p # n /\ Position(n) \in Nat
  BY <1>1, <1>2, <1>3, ParentFacts, TreeFacts
<1>5. p \in active
  BY <1>2, <1>3 DEF Flow, OneWay, Path
<1>6. index[p] \in DOMAIN Children(p)
  BY <1>3, <1>4 DEF Indexed
<1>7. s \in Node \ {1} /\ Parent(s) = p /\ Position(s) = index[p]
  BY <1>1, <1>4, <1>6, ChildFacts
<1>8. s # n
  BY <1>3, <1>4, <1>7
<1>9. s \notin active
  BY <1>2, <1>3, <1>7, <1>8 DEF Flow, OneWay, Path
<1>10. \A d \in active \ {1} : Parent(d) \in active
  BY DEF Flow, OneWay, Path
<1>11. stopped \cap active = {} /\ stopped \subseteq Running
  <2>1. {s} \cap active = {}
    BY <1>9
  <2>2. Reset({s}) \cap active = {}
    BY <1>1, <1>10, <2>1, ResetSpares
  <2> QED
    BY <2>2, ResetFacts
<1>12. s \in Running => s \in stopped
  BY ResetFacts
<1>13. ASSUME NEW d \in Running \ {1}, IsAt(d), Parent(d) \in stopped
       PROVE  d \in stopped
  BY <1>1, <1>13, ResetSweeps
<1>14. /\ state' = Stop(stopped) /\ started' = Ended(stopped)
       /\ index' = [index EXCEPT ![p] = Position(n)]
  BY <1>3 DEF Abort
<1> HIDE DEF stopped
<1>15. /\ \A m \in Node : state'[m] = IF m \in stopped THEN "IDLE" ELSE state[m]
       /\ \A m \in Node : started'[m] = IF m \in stopped THEN started[m] - 1 ELSE started[m]
  BY <1>14 DEF Stop, Ended
<1>16. index'[p] = Position(n) /\ \A m \in Node \ {p} : index'[m] = index[m]
  BY <1>4, <1>14 DEF Types
<1>17. c \in Node \ {1} /\ Parent(c) = n
  BY <1>1, <1>2, NodeFacts, ChildFacts DEF Child
<1> HIDE DEF p, s, c
<1>18. /\ Node' = Node
       /\ \A m : Type(m)' = Type(m) /\ Children(m)' = Children(m) /\ Child(m)' = Child(m)
       /\ \A m : AbortsRight(m)' = AbortsRight(m) /\ AbortsSelf(m)' = AbortsSelf(m)
       /\ \A m : OfType(m)' = OfType(m)
       /\ \A m : Parent(m)' = Parent(m)
       /\ \A m : Position(m)' = Position(m)
  BY <1>1, SameTree
<1>19. \A m \in Node : m \in Running' <=> m \in Running /\ m \notin stopped
  BY <1>15, <1>18 DEF Running
<1>20. Running' \subseteq Node /\ Running \subseteq Node /\ active \subseteq Node
  BY <1>18 DEF Running, Types
<1>21. Left' = {} /\ Left = {n}
  BY <1>1, <1>2, <1>3 DEF Left
<1>22. On' = Running' \cup active /\ On = (Running \cup active) \ {n}
  BY <1>1, <1>21 DEF On
<1>23. \A m \in Node \ {n} : m \in On' <=> m \in On /\ m \notin stopped
  BY <1>11, <1>19, <1>22
<1>24. On' \subseteq Node /\ On \subseteq Node /\ n \in On' /\ p \in On'
  BY <1>2, <1>5, <1>20, <1>22
<1>25. Path' = active \cup {c} /\ Path = active /\ c \notin active
  BY <1>1, <1>2, <1>17 DEF Path
<1>26. ASSUME NEW m \in Node \ {1}, ToCome(m)
       PROVE  ToCome(m)'
  <2>1. CASE at = Parent(m)
    <3>1. m = c
      BY <1>1, <2>1, OnlyChild DEF c
    <3> QED
      BY <1>1, <3>1 DEF ToCome
  <2>2. CASE at # Parent(m)
    <3>1. PICK d \in Path \ {1} : Parent(d) = Parent(m) /\ Position(d) < Position(m)
      BY <1>26, <2>2 DEF ToCome
    <3>2. d \in Path' \ {1}
      BY <1>25, <3>1
    <3> QED
      BY <1>18, <3>1, <3>2 DEF ToCome
  <2> QED
    BY <2>1, <2>2
<1>27. StartedIffRunning'
  <2> SUFFICES ASSUME NEW m \in Node
               PROVE  started'[m] = IF m \in Running' \cup active THEN 1 ELSE 0
    BY <1>1, <1>18 DEF StartedIffRunning
  <2>1. started[m] = IF m \in Running \cup active THEN 1 ELSE 0
    BY DEF Flow, StartedIffRunning
  <2> QED
    BY <1>11, <1>15, <1>19, <2>1
<1>28. Hangs'
  <2> SUFFICES ASSUME NEW m \in On' \ {1}
               PROVE  Parent(m) \in On' /\ IsAt(m)'
    BY <1>18 DEF Hangs
  <2>1. CASE m = n
    <3>1. Parent(m) \in On' /\ Type(Parent(m)) = "SELECTOR" /\ index'[Parent(m)] = Position(m)
      BY <1>3, <1>16, <1>24, <2>1 DEF p
    <3> QED
      BY <1>18, <3>1 DEF IsAt
  <2>2. CASE m # n
    <3>1. m \in Node /\ m \in On /\ m \notin stopped
      BY <1>23, <1>24, <2>2
    <3>2. Parent(m) \in On /\ IsAt(m)
      BY <3>1 DEF Flow, Hangs
    <3>3. Parent(m) # p
      <4> SUFFICES ASSUME Parent(m) = p PROVE FALSE
        OBVIOUS
      <4>1. Position(m) = index[p]
        BY <1>3, <3>2 DEF IsAt, p
      <4>2. m = s
        BY <1>1, <1>7, <3>1, <4>1, Siblings
      <4>3. m \in Running
        BY <1>9, <1>22, <3>1, <4>2
      <4> QED
        BY <1>12, <3>1, <4>2, <4>3
    <3>4. Parent(m) \in Node /\ Parent(m) # n
      BY <1>22, <1>24, <3>2
    <3>5. Parent(m) \notin stopped
      <4>1. CASE m \in active
        BY <1>10, <1>11, <4>1
      <4>2. CASE m \notin active
        <5>1. m \in Running
          BY <1>22, <3>1, <4>2
        <5> QED
          BY <1>13, <3>1, <3>2, <5>1
      <4> QED
        BY <4>1, <4>2
    <3>6. Parent(m) \in On'
      BY <1>23, <3>2, <3>4, <3>5
    <3>7. index'[Parent(m)] = index[Parent(m)]
      BY <1>16, <3>3, <3>4
    <3> QED
      BY <1>1, <1>18, <3>2, <3>6, <3>7 DEF IsAt
  <2> QED
    BY <2>1, <2>2
<1>29. OneWay'
  <2>1. \A m, k \in active \ {1} : Parent(m) = Parent(k) => m = k
    BY DEF Flow, OneWay, Path
  <2> QED
    BY <1>1, <1>2, <1>10, <1>17, <1>18, <1>25, <2>1 DEF OneWay
<1>30. Begun'
  BY <1>1 DEF Flow, Begun
<1>31. Called'
  <2>1. PICK d : d = c
    OBVIOUS
  <2>2. at' = d /\ Parent(d)' = n /\ Type(n)' = "PRECONDITION"
    BY <1>1, <1>17, <1>18, <2>1
  <2>3. Fits(d)'
    BY <2>2 DEF Fits, IsAt
  <2>4. Fits(at)'
    BY <2>2, <2>3 DEF Fits, IsAt
  <2> QED
    BY <2>4 DEF Called
<1>32. InTurn'
  <2> SUFFICES ASSUME NEW m \in Running', m \notin ticked
               PROVE  m # 1 /\ (Parent(m) \notin ticked \/ ToCome(m)')
    BY <1>1, <1>18 DEF InTurn
  <2>1. m \in Node /\ m \in Running
    BY <1>19, <1>20
  <2>2. m # 1 /\ (Parent(m) \notin ticked \/ ToCome(m))
    BY <2>1 DEF Flow, InTurn
  <2> QED
    BY <1>26, <2>1, <2>2
<1>33. Asked'
  <2> SUFFICES ASSUME NEW m \in On', m \in ticked, AbortsSelf(m), m # n
               PROVE  m \in held
    BY <1>1, <1>18 DEF Asked
  <2>1. m \in On
    BY <1>23, <1>24
  <2> QED
    BY <2>1 DEF Flow, Asked
<1>34. Followed'
  <2> SUFFICES ASSUME NEW m \in held'
               PROVE  Child(m) \in ticked \/ Child(m) = c
    BY <1>1, <1>18 DEF Followed
  <2>1. m \in held \/ m = n
    OBVIOUS
  <2> QED
    BY <2>1 DEF Flow, Followed, c
<1>35. LeftInTurn'
  <2> SUFFICES ASSUME NEW q \in On', q \in ticked, Type(q) = "SELECTOR",
                      NEW i \in 1 .. index'[q] - 1, NEW d, d = Children(q)[i], AbortsRight(d)
               PROVE  d \in ticked \/ ToCome(d)'
    BY <1>1, <1>18 DEF LeftInTurn, OfType
  <2>1. q # n /\ q \in Node /\ q \in On
    BY <1>23, <1>24
  <2>2. i \in 1 .. index[q] - 1
    <3>1. CASE q = p
      <4>1. index[p] \in Nat
        BY <1>4 DEF Types
      <4>2. i \in 1 .. Position(n) - 1
        BY <1>16, <3>1
      <4> QED
        BY <1>3, <1>4, <3>1, <4>1, <4>2
    <3>2. CASE q # p
      BY <1>16, <2>1, <3>2
    <3> QED
      BY <3>1, <3>2
  <2>3. d \in ticked \/ ToCome(d)
    BY <2>1, <2>2 DEF Flow, LeftInTurn, OfType
  <2>4. d \in Node \ {1}
    BY <1>1, <2>1, <2>2, LeftChild
  <2> QED
    BY <1>26, <2>3, <2>4
<1> QED
  BY <1>27, <1>28, <1>29, <1>30, <1>31, <1>32, <1>33, <1>34, <1>35 DEF Flow

(* A set of nodes without the root and with the parents of its members is   *)
(* empty: its first member would have a parent before it.                   *)
LEMMA ParentsRunOut ==
    ASSUME tree \in Trees, NEW S \in SUBSET Node,
           \A m \in S : m # 1 /\ Parent(m) \in S
    PROVE  S = {}
<1> SUFFICES ASSUME S # {} PROVE FALSE
  OBVIOUS
<1>1. S \in SUBSET Nat
  BY TreeFacts
<1>2. PICK m \in S : \A k \in S : ~(<<k, m>> \in OpToRel(<, Nat))
  BY <1>1, WFMin, NatLessThanWellFounded
<1>3. Parent(m) \in S /\ Parent(m) < m /\ m # 1
  BY ParentFacts
<1>4. <<Parent(m), m>> \in OpToRel(<, Nat)
  BY <1>1, <1>3 DEF OpToRel
<1> QED
  BY <1>2, <1>3, <1>4

LEMMA RunStep ==
    ASSUME Types, Indexed, Flow, pc = "run", Run(at)
    PROVE  Flow'
<1>1. PICK n : n = at
  OBVIOUS
<1>2. tree \in Trees /\ tree' = tree /\ state' = state /\ pc' = "update" /\ at' = n
      /\ active' = active \cup {n} /\ ticked' = ticked \cup {n} /\ held' = held
  BY <1>1 DEF Types, Run
<1>3. n \in Node /\ n \notin active
  BY <1>1 DEF Types, Flow, OneWay
<1>4. /\ Node' = Node
      /\ \A m : Type(m)' = Type(m) /\ Children(m)' = Children(m) /\ Child(m)' = Child(m)
      /\ \A m : AbortsRight(m)' = AbortsRight(m) /\ AbortsSelf(m)' = AbortsSelf(m)
      /\ \A m : OfType(m)' = OfType(m)
      /\ \A m : Parent(m)' = Parent(m)
      /\ \A m : Position(m)' = Position(m)
  BY <1>2, SameTree
<1>5. Running' = Running /\ Running \subseteq Node /\ active \subseteq Node
  BY <1>2, <1>4 DEF Running, Types
<1>6. Left = {} /\ On = Running \cup active
  BY DEF Left, On
<1>7. \A m \in Node \ {n} : index'[m] = index[m] /\ done'[m] = done[m] /\ started'[m] = started[m]
  BY <1>1, <1>3 DEF Run, OnInitialize, Types
<1>8. n \in Running => index' = index /\ done' = done /\ started' = started
  BY <1>1 DEF Run, Running
<1>9. n \notin Running => index'[n] = 1 /\ started'[n] = started[n] + 1
  BY <1>1, <1>3 DEF Run, Running, OnInitialize, Types
<1>10. n # 1 => Parent(n) \in Node /\ Parent(n) # n /\ Parent(n) \in active /\ Fits(n)
  BY <1>1, <1>2, <1>3, ParentFacts, TreeFacts DEF Flow, OneWay, Path, Called
<1>11. Left' \subseteq {n}
  BY <1>2 DEF Left
<1>12. n # 1 => n \in Left' \/ IsAt(n)
  <2> SUFFICES ASSUME n # 1, ~IsAt(n) PROVE n \in Left'
    OBVIOUS
  <2>1. Type(Parent(n)) = "SELECTOR" /\ Position(n) < index[Parent(n)] /\ AbortsRight(n)
    BY <1>10 DEF Fits, IsAt
  <2>2. index'[Parent(n)] = index[Parent(n)]
    BY <1>7, <1>10
  <2> QED
    BY <1>2, <1>3, <1>4, <2>1, <2>2 DEF Left, ReachesBack
<1>13. n \in Running => n \notin Left'
  <2> SUFFICES ASSUME n \in Running, n \in Left' PROVE FALSE
    OBVIOUS
  <2>1. /\ n # 1 /\ Type(Parent(n)) = "SELECTOR"
        /\ Position(n) < index[Parent(n)]
    BY <1>4, <1>8 DEF Left, ReachesBack
  <2>2. IsAt(n)
    BY <1>6, <2>1 DEF Flow, Hangs
  <2>3. index[Parent(n)] \in Nat
    BY <1>10, <2>1 DEF Types
  <2> QED
    BY <2>1, <2>2, <2>3 DEF IsAt
<1>14. On' = (On \cup {n}) \ Left'
  BY <1>2, <1>5, <1>6, <1>11, <1>13 DEF On
<1>15. \A m \in Node \ {n} : m \in On' <=> m \in On
  BY <1>11, <1>14
<1>16. On' \subseteq Node
  BY <1>3, <1>5, <1>6, <1>14
<1>17. Path' = Path /\ Path = active \cup {n}
  BY <1>1, <1>2 DEF Path
<1>18. ASSUME NEW m, ToCome(m), m # n
       PROVE  ToCome(m)'
  <2>1. PICK d \in Path \ {1} : Parent(d) = Parent(m) /\ Position(d) < Position(m)
    BY <1>1, <1>18 DEF ToCome
  <2> QED
    BY <1>4, <1>17, <2>1 DEF ToCome
<1>19. StartedIffRunning'
  <2> SUFFICES ASSUME NEW m \in Node
               PROVE  started'[m] = IF m \in Running \cup active \cup {n} THEN 1 ELSE 0
    BY <1>2, <1>4, <1>5 DEF StartedIffRunning
  <2>1. started[m] = IF m \in Running \cup active THEN 1 ELSE 0
    BY DEF Flow, StartedIffRunning
  <2> QED
    BY <1>3, <1>7, <1>8, <1>9, <2>1
<1>20. Hangs'
  <2> SUFFICES ASSUME NEW m \in On' \ {1}
               PROVE  Parent(m) \in On' /\ IsAt(m)'
    BY <1>4 DEF Hangs
  <2>1. CASE m = n
    <3>1. IsAt(n)
      BY <1>12, <1>14, <2>1
    <3>2. Parent(n) \in On' /\ index'[Parent(n)] = index[Parent(n)] /\ done'[Parent(n)] = done[Parent(n)]
      BY <1>6, <1>7, <1>10, <1>15, <2>1
    <3> QED
      BY <1>4, <2>1, <3>1, <3>2 DEF IsAt
  <2>2. CASE m # n
    <3>1. Parent(m) \in On /\ IsAt(m)
      BY <1>15, <1>16, <2>2 DEF Flow, Hangs
    <3>2. Parent(m) \in Node
      BY <1>5, <1>6, <3>1
    <3>3. CASE Parent(m) = n
      <4>1. n \in Running
        BY <1>3, <1>6, <3>1, <3>3
      <4> QED
        BY <1>4, <1>8, <1>13, <1>14, <3>1, <3>3, <4>1 DEF IsAt
    <3>4. CASE Parent(m) # n
      <4>1. Parent(m) \in On' /\ index'[Parent(m)] = index[Parent(m)] /\ done'[Parent(m)] = done[Parent(m)]
        BY <1>7, <1>15, <3>1, <3>2, <3>4
      <4> QED
        BY <1>4, <3>1, <4>1 DEF IsAt
    <3> QED
      BY <3>3, <3>4
  <2> QED
    BY <2>1, <2>2
<1>21. OneWay'
  <2>1. \A m \in Path \ {1} : Parent(m) \in active
    BY DEF Flow, OneWay
  <2>2. \A m, k \in Path \ {1} : Parent(m) = Parent(k) => m = k
    BY DEF Flow, OneWay
  <2>3. \A m \in active' \ {1} : Parent(m) # n
    BY <1>2, <1>3, <1>17, <2>1
  <2> QED
    BY <1>2, <1>4, <1>17, <2>1, <2>2, <2>3 DEF OneWay
<1>22. Begun'
  BY <1>2 DEF Flow, Begun
<1>23. Called'
  BY <1>2 DEF Called
<1>24. InTurn'
  <2> SUFFICES ASSUME NEW m \in Running, m \notin ticked, m # n
               PROVE  m # 1 /\ (Parent(m) \notin ticked \cup {n} \/ ToCome(m)')
    BY <1>2, <1>4, <1>5 DEF InTurn
  <2>1. m # 1 /\ (Parent(m) \notin ticked \/ ToCome(m))
    BY <1>1 DEF Flow, InTurn
  <2>2. CASE Parent(m) = n
    BY <1>2, <1>4, <2>1, <2>2 DEF ToCome
  <2>3. CASE Parent(m) # n
    BY <1>18, <2>1, <2>3
  <2> QED
    BY <2>2, <2>3
<1>25. Asked'
  <2> SUFFICES ASSUME NEW m \in On', m \in ticked, AbortsSelf(m), m # n
               PROVE  m \in held
    BY <1>2, <1>4 DEF Asked
  <2>1. m \in On
    BY <1>15, <1>16
  <2> QED
    BY <2>1 DEF Flow, Asked
<1>26. Followed'
  BY <1>1, <1>2, <1>4 DEF Flow, Followed
<1>27. LeftInTurn'
  <2> SUFFICES ASSUME NEW p \in On', p \in ticked \cup {n}, Type(p) = "SELECTOR",
                      NEW i \in 1 .. index'[p] - 1, NEW d, d = Children(p)[i], AbortsRight(d)
               PROVE  d \in ticked \cup {n} \/ ToCome(d)'
    BY <1>2, <1>4 DEF LeftInTurn, OfType
  <2>1. p \in Node
    BY <1>16
  <2>2. CASE p = n
    <3>1. index'[p] = index[p]
      BY <1>8, <1>9, <2>2
    <3>2. Parent(d) = n
      BY <1>2, <2>1, <2>2, <3>1, LeftChild
    <3> QED
      BY <1>2, <1>4, <3>2 DEF ToCome
  <2>3. CASE p # n
    <3>1. p \in On /\ p \in ticked /\ index'[p] = index[p]
      BY <1>7, <1>15, <2>1, <2>3
    <3>2. d \in ticked \/ ToCome(d)
      BY <2>1, <3>1 DEF Flow, LeftInTurn, OfType
    <3> QED
      BY <1>18, <3>2
  <2> QED
    BY <2>2, <2>3
<1> QED
  BY <1>19, <1>20, <1>21, <1>22, <1>23, <1>24, <1>25, <1>26, <1>27 DEF Flow

LEMMA TickStep ==
    ASSUME Types, Indexed, Flow, Tick
    PROVE  Flow'
<1>1. tree \in Trees /\ tree' = tree /\ state' = state /\ index' = index /\ done' = done
      /\ started' = started /\ active' = active /\ pc = "idle" /\ pc' = "run" /\ at' = 1
      /\ ticked' = {} /\ held' = {}
  BY DEF Types, Tick
<1>2. active = {}
  BY <1>1 DEF Flow, OneWay
<1>3. /\ Node' = Node
      /\ \A m : Type(m)' = Type(m) /\ OfType(m)' = OfType(m)
      /\ \A m : Parent(m)' = Parent(m)
      /\ \A m : Position(m)' = Position(m)
  BY <1>1, SameTree
<1>4. Running' = Running
  BY <1>1, <1>3 DEF Running
<1>5. On = Running /\ On' = Running
  BY <1>1, <1>2, <1>4 DEF On, Left
<1>6. \A m : IsAt(m)' = IsAt(m)
  BY <1>1, <1>3 DEF IsAt
<1>7. Path' = {1}
  BY <1>1, <1>2 DEF Path
<1>8. StartedIffRunning' /\ Begun' /\ Called' /\ Followed'
  BY <1>1, <1>2, <1>3, <1>4 DEF Flow, StartedIffRunning, Begun, Called, Followed
<1>9. Hangs'
  BY <1>3, <1>5, <1>6 DEF Flow, Hangs
<1>10. OneWay'
  BY <1>1, <1>2, <1>7 DEF OneWay
<1>11. InTurn'
  BY <1>1 DEF InTurn
<1>12. Asked' /\ LeftInTurn'
  BY <1>1 DEF Asked, LeftInTurn
<1> QED
  BY <1>8, <1>9, <1>10, <1>11, <1>12 DEF Flow

LEMMA FinishStep ==
    ASSUME Types, Indexed, Flow, pc = "back", Finish
    PROVE  Flow'
<1>1. tree \in Trees /\ tree' = tree /\ state' = state /\ index' = index /\ done' = done
      /\ started' = started /\ active' = active /\ pc' = "idle" /\ at = 1 /\ at' = 1
      /\ ticked' = ticked /\ held' = held
  BY DEF Types, Finish
<1>2. active = {}
  <2>1. \A m \in active : m # 1 /\ Parent(m) \in active
    BY <1>1 DEF Flow, OneWay, Path
  <2>2. active \in SUBSET Node
    BY DEF Types
  <2> QED
    BY <1>1, <2>1, <2>2, ParentsRunOut
<1>3. Path = {1} /\ \A m : ~ToCome(m)
  BY <1>1, <1>2 DEF Path, ToCome
<1>4. /\ Node' = Node
      /\ \A m : Type(m)' = Type(m) /\ Children(m)' = Children(m) /\ Child(m)' = Child(m)
      /\ \A m : AbortsRight(m)' = AbortsRight(m) /\ AbortsSelf(m)' = AbortsSelf(m)
      /\ \A m : OfType(m)' = OfType(m)
      /\ \A m : Parent(m)' = Parent(m)
      /\ \A m : Position(m)' = Position(m)
  BY <1>1, SameTree
<1>5. Running' = Running
  BY <1>1, <1>4 DEF Running
<1>6. On = Running /\ On' = Running
  BY <1>1, <1>2, <1>5 DEF On, Left
<1>7. \A m : IsAt(m)' = IsAt(m)
  BY <1>1, <1>4 DEF IsAt
<1>8. StartedIffRunning' /\ Begun' /\ Called'
  BY <1>1, <1>2, <1>4, <1>5 DEF Flow, StartedIffRunning, Begun, Called
<1>9. Hangs'
  BY <1>4, <1>6, <1>7 DEF Flow, Hangs
<1>10. OneWay'
  BY <1>1, <1>2 DEF OneWay, Path
<1>11. InTurn'
  BY <1>1, <1>3, <1>4, <1>5 DEF Flow, InTurn
<1>12. Asked'
  BY <1>1, <1>4, <1>6 DEF Flow, Asked
<1>13. Followed'
  BY <1>1, <1>4 DEF Flow, Followed
<1>14. LeftInTurn'
  <2> SUFFICES ASSUME NEW p \in On', p \in ticked, Type(p) = "SELECTOR",
                      NEW i \in 1 .. index[p] - 1, NEW d, d = Children(p)[i], AbortsRight(d)
               PROVE  d \in ticked
    BY <1>1, <1>4 DEF LeftInTurn, OfType
  <2>1. p \in Node
    BY <1>6 DEF Running
  <2> QED
    BY <1>3, <1>6, <2>1 DEF Flow, LeftInTurn, OfType
<1> QED
  BY <1>8, <1>9, <1>10, <1>11, <1>12, <1>13, <1>14 DEF Flow

-----------------------------------------------------------------------------
(* The types, and the steps of Update one by one.                           *)

LEMMA ReturnTypes ==
    ASSUME Types, tree' = tree, NEW n \in Node,
           NEW result \in {"RUNNING", "SUCCESS", "FAILURE", "IDLE"}, Return(n, result),
           index' \in [Node -> Nat], done' \in [Node -> SUBSET Nat],
           success' \in [Node -> Nat], failure' \in [Node -> Nat],
           ticked' = ticked, held' \subseteq Node
    PROVE  Types'
<1>1. Node' = Node
  BY SameTree
<1>2. /\ state' \in [Node -> {"RUNNING", "SUCCESS", "FAILURE", "IDLE"}]
      /\ started' \in [Node -> Int]
  <2>1. CASE result = "RUNNING"
    BY <2>1 DEF Types, Return
  <2>2. CASE result # "RUNNING"
    <3>1. PICK stopped : /\ state' = [Stop(stopped) EXCEPT ![n] = result]
                         /\ started' = Ended(stopped \cup {n})
      BY <2>2 DEF Return
    <3>2. Stop(stopped) \in [Node -> {"RUNNING", "SUCCESS", "FAILURE", "IDLE"}]
      BY DEF Types, Stop
    <3>3. started' \in [Node -> Int]
      BY <3>1 DEF Types, Ended
    <3> QED
      BY <3>1, <3>2, <3>3
  <2> QED
    BY <2>1, <2>2
<1> QED
  BY <1>1, <1>2 DEF Types, Return

LEMMA CallTypes ==
    ASSUME Types, tree' = tree, NEW c \in Node, Call(c),
           state' \in [Node -> {"RUNNING", "SUCCESS", "FAILURE", "IDLE"}],
           started' \in [Node -> Int],
           index' \in [Node -> Nat], done' \in [Node -> SUBSET Nat],
           success' \in [Node -> Nat], failure' \in [Node -> Nat],
           ticked' = ticked, held' \subseteq Node
    PROVE  Types'
<1>1. Node' = Node
  BY SameTree
<1> QED
  BY <1>1 DEF Types, Call

LEMMA SameIndexed ==
    ASSUME Indexed, tree' = tree, index' = index
    PROVE  Indexed'
BY SameTree DEF Indexed

LEMMA SameCounted ==
    ASSUME Counted, tree' = tree, UNCHANGED <<done, success, failure>>
    PROVE  Counted'
BY SameTree DEF Counted

(* What runs is where its parent is.                                        *)
LEMMA RunningIsAt ==
    ASSUME Types, Hangs, NEW n, Updating(n), NEW d \in Running \ {1}, Parent(d) = n
    PROVE  IsAt(d)
<1>1. d \notin Left
  <2> SUFFICES ASSUME d \in Left PROVE FALSE
    OBVIOUS
  <2>1. pc = "update" /\ at = d /\ d \in Node
    BY DEF Left
  <2>2. n = d
    BY <2>1 DEF Updating
  <2> QED
    BY <2>1, <2>2, ParentFacts, TreeFacts DEF Types
<1> QED
  BY <1>1 DEF On, Hangs

LEMMA UpdateActionStep ==
    ASSUME IInv, pc = "update", UpdateAction(at)
    PROVE  IInv'
<1>1. PICK n : n = at
  OBVIOUS
<1>2. /\ Types /\ Indexed /\ Counted /\ Flow
      /\ tree \in Trees /\ n \in Node /\ Type(n) = "ACTION"
      /\ UNCHANGED <<tree, index, done, success, failure, ticked, held>>
  BY <1>1, IInvParts DEF Types, UpdateAction
<1>3. PICK result \in {"RUNNING", "SUCCESS", "FAILURE"} : Return(n, result)
  BY <1>1 DEF UpdateAction
<1>4. Updating(n)
  BY <1>1 DEF Updating
<1>5. n \notin Left /\ ~AbortsSelf(n)
  BY <1>2 DEF Left, ReachesBack, AbortsRight, AbortsSelf
<1>6. \A c \in Running \ {1} : Parent(c) # n
  BY <1>2, ParentFacts DEF Running
<1>7. Flow'
  BY <1>2, <1>3, <1>4, <1>5, <1>6, ReturnStep
<1>8. Types'
  BY <1>2, <1>3, ReturnTypes DEF Types
<1> QED
  BY <1>2, <1>7, <1>8, SameIndexed, SameCounted, IInvPartsNext

LEMMA UpdatePreconditionStep ==
    ASSUME IInv, pc = "update", UpdatePrecondition(at)
    PROVE  IInv'
<1>1. PICK n : n = at
  OBVIOUS
<1>2. /\ Types /\ Indexed /\ Counted /\ Flow
      /\ tree \in Trees /\ n \in Node /\ Type(n) = "PRECONDITION"
      /\ UNCHANGED <<tree, done, success, failure, ticked>>
      /\ UpdatePrecondition(n)
  BY <1>1, IInvParts DEF Types, UpdatePrecondition
<1>3. Updating(n)
  BY <1>1 DEF Updating
<1>4. Child(n) \in Node \ {1} /\ Parent(Child(n)) = n
  BY <1>2, NodeFacts, ChildFacts DEF Child
<1>5. \A d \in Running \ {1} : Parent(d) = n => d = Child(n)
  BY <1>2, OnlyChild DEF Running
<1>6. n \in Left <=> ReachesBack(n)
  BY <1>1, <1>2 DEF Left
<1>7. CASE /\ IF Asks(n) THEN held' = held \cup {n} ELSE UNCHANGED held
           /\ Abort(n)
           /\ Call(Child(n))
  <2>1. held' \subseteq Node
    BY <1>2, <1>7 DEF Types
  <2>2. CASE ReachesBack(n)
    <3>1. held' = held \cup {n}
      BY <1>7, <2>2 DEF Asks
    <3>2. Flow'
      BY <1>1, <1>2, <1>6, <1>7, <2>2, <3>1, AbortStep
    <3>3. PICK p, stopped, i : p = Parent(n) /\ stopped = Reset({Children(p)[index[p]]}) /\ i = Position(n)
      OBVIOUS
    <3>4. /\ p \in Node /\ i \in DOMAIN Children(p) /\ i \in Nat
          /\ state' = Stop(stopped) /\ started' = Ended(stopped)
          /\ index' = [index EXCEPT ![p] = i]
      BY <1>2, <1>7, <2>2, <3>3, ParentFacts DEF Abort, ReachesBack
    <3>5. /\ state' \in [Node -> {"RUNNING", "SUCCESS", "FAILURE", "IDLE"}]
          /\ started' \in [Node -> Int] /\ index' \in [Node -> Nat]
      BY <1>2, <3>4 DEF Stop, Ended, Types
    <3>6. Types'
      BY <1>2, <1>4, <1>7, <2>1, <3>5, CallTypes DEF Types
    <3>7. Indexed'
      BY <1>2, <3>4, SameTree DEF Indexed, Types
    <3> QED
      BY <1>2, <3>2, <3>6, <3>7, SameCounted, IInvPartsNext
  <2>3. CASE ~ReachesBack(n)
    <3>1. UNCHANGED <<state, started, index>>
      BY <1>7, <2>3 DEF Abort
    <3>2. PICK c : c = Child(n)
      OBVIOUS
    <3>3. Type(Parent(c))' = "PRECONDITION"
      BY <1>2, <1>4, <3>2, SameTree
    <3>4. Fits(c)'
      BY <3>3 DEF Fits, IsAt
    <3>5. AbortsSelf(n) => n \in held'
      BY <1>7 DEF Asks
    <3>6. held' = held \/ (held' = held \cup {n} /\ c = Child(n))
      BY <1>7, <3>2
    <3>7. IsAt(c)'
      BY <3>3 DEF IsAt
    <3>8. \A d \in Running \ {1} : Parent(d) = n =>
            IsAt(d)' /\ (d \in ticked \/ d = c \/ Position(c) < Position(d))
      BY <1>5, <3>2, <3>7
    <3>9. c \in Node \ {1} /\ Parent(c) = n /\ Call(c)
      BY <1>4, <1>7, <3>2
    <3>10. \A m \in Node \ {n} : index'[m] = index[m] /\ done'[m] = done[m]
      BY <1>2, <3>1
    <3>11. n \notin Left /\ Type(n) # "SELECTOR"
      BY <1>2, <1>6, <2>3
    <3>12. Flow'
      BY <1>2, <1>3, <3>1, <3>4, <3>5, <3>6, <3>8, <3>9, <3>10, <3>11, CallStep
    <3>13. Types'
      BY <1>2, <2>1, <3>1, <3>9, CallTypes DEF Types
    <3> QED
      BY <1>2, <3>1, <3>12, <3>13, SameIndexed, SameCounted, IInvPartsNext
  <2> QED
    BY <2>2, <2>3
<1>8. CASE Asks(n) /\ held' = held \ {n} /\ Return(n, "FAILURE") /\ UNCHANGED index
  <2>1. \A d \in Running \ {1} : Parent(d) = n => d \in OnTerminate(n, "FAILURE")
    BY <1>2, <1>5 DEF OnTerminate, TerminatePrecondition
  <2>2. Flow'
    BY <1>2, <1>3, <1>8, <2>1, ReturnStep
  <2>3. Types'
    BY <1>2, <1>8, ReturnTypes DEF Types
  <2> QED
    BY <1>2, <1>8, <2>2, <2>3, SameIndexed, SameCounted, IInvPartsNext
<1> QED
  BY <1>2, <1>7, <1>8 DEF UpdatePrecondition

(* The lowest of a nonempty set of numbers.                                 *)
LEMMA MinIsFirst ==
    ASSUME NEW S \in SUBSET Nat, S # {}
    PROVE  Min(S) \in S /\ \A k \in S : Min(S) <= k
<1>1. PICK m \in S : \A k \in S : ~(<<k, m>> \in OpToRel(<, Nat))
  BY WFMin, NatLessThanWellFounded
<1>2. ASSUME NEW k \in S
      PROVE  m =< k
  <2>1. k \in Nat /\ m \in Nat
    OBVIOUS
  <2>2. <<k, m>> \in OpToRel(<, Nat) <=> k < m
    BY <2>1 DEF OpToRel
  <2>3. ~(<<k, m>> \in OpToRel(<, Nat))
    BY <1>1
  <2>4. ~(k < m)
    BY <2>2, <2>3
  <2> QED
    BY <2>1, <2>4
<1> QED
  BY <1>2 DEF Min

(* Whose turn it is comes before every other that is to be asked again.     *)
LEMMA TurnFacts ==
    ASSUME Types, Indexed, NEW n \in Node, Type(n) = "SELECTOR", NEW i \in Nat, i < index[n]
    PROVE  /\ Turn(n, i) \in DOMAIN Children(n) /\ Turn(n, i) > i /\ Turn(n, i) <= index[n]
           /\ Turn(n, i) # index[n] => AbortsRight(Children(n)[Turn(n, i)])
           /\ \A j \in 1 .. index[n] - 1 : j > i /\ AbortsRight(Children(n)[j]) => Turn(n, i) <= j
<1> DEFINE S == {j \in (i + 1) .. (index[n] - 1) : AbortsRight(Children(n)[j])} \cup {index[n]}
<1>1. /\ index[n] \in DOMAIN Children(n) /\ index[n] \in Nat
      /\ DOMAIN Children(n) = 1 .. Len(Children(n)) /\ Len(Children(n)) \in Nat
  BY NodeFacts DEF Types, Indexed
<1>2. S \in SUBSET Nat /\ index[n] \in S
  BY <1>1
<1>3. Turn(n, i) = Min(S)
  BY DEF Turn
<1>4. \A j \in 1 .. index[n] - 1 : j > i /\ AbortsRight(Children(n)[j]) => j \in S
  BY <1>1
<1>5. \A t \in S : t > i /\ t <= index[n] /\ (t # index[n] => AbortsRight(Children(n)[t]))
  BY <1>1
<1> HIDE DEF S
<1>6. Turn(n, i) \in S /\ \A k \in S : Turn(n, i) <= k
  BY <1>2, <1>3, MinIsFirst
<1>7. PICK t : t = Turn(n, i)
  OBVIOUS
<1>8. t \in S /\ t \in Nat /\ t > i /\ t <= index[n] /\ (t # index[n] => AbortsRight(Children(n)[t]))
  BY <1>2, <1>5, <1>6, <1>7
<1>9. t \in DOMAIN Children(n)
  BY <1>1, <1>8
<1>10. \A j \in 1 .. index[n] - 1 : j > i /\ AbortsRight(Children(n)[j]) => t <= j
  BY <1>4, <1>6, <1>7
<1> QED
  BY <1>7, <1>8, <1>9, <1>10

\* A call of a selector: what comes before has had its turn.
LEMMA TurnStep ==
    ASSUME Types, Indexed, Flow, UNCHANGED <<tree, state, index, done, held, started, ticked>>,
           NEW n, Updating(n), Type(n) = "SELECTOR",
           NEW i \in Nat, i < index[n], Call(Children(n)[Turn(n, i)]),
           \A j \in 1 .. index[n] - 1 :
               j <= i /\ AbortsRight(Children(n)[j]) => Children(n)[j] \in ticked
    PROVE  Flow'
<1>1. tree \in Trees /\ n \in Node
  BY UpdatingFacts DEF Flow, Types
<1>2. PICK t : t = Turn(n, i)
  OBVIOUS
<1>3. /\ t \in DOMAIN Children(n) /\ t > i /\ t <= index[n] /\ t \in Nat /\ index[n] \in Nat
      /\ t # index[n] => AbortsRight(Children(n)[t])
      /\ \A j \in 1 .. index[n] - 1 : j > i /\ AbortsRight(Children(n)[j]) => t <= j
  <2>1. DOMAIN Children(n) \subseteq Nat /\ index[n] \in Nat
    BY <1>1, NodeFacts DEF Types
  <2> QED
    BY <1>1, <1>2, <2>1, TurnFacts
<1>4. PICK c : c = Children(n)[t]
  OBVIOUS
<1>5. c \in Node \ {1} /\ Parent(c) = n /\ Position(c) = t /\ Call(c)
  BY <1>1, <1>2, <1>3, <1>4, ChildFacts
<1>6. \A m : Type(m)' = Type(m) /\ Parent(m)' = Parent(m) /\ Position(m)' = Position(m)
             /\ AbortsRight(m)' = AbortsRight(m)
  BY SameTree
<1>7. Fits(c)'
  BY <1>3, <1>4, <1>5, <1>6 DEF Fits
<1>8. n \notin Left /\ ~AbortsSelf(n)
  BY DEF Left, ReachesBack, AbortsRight, AbortsSelf
<1>9. ASSUME NEW d \in Running \ {1}, Parent(d) = n
      PROVE  IsAt(d)' /\ (d \in ticked \/ d = c \/ Position(c) < Position(d))
  <2>1. IsAt(d) /\ d \in Node
    BY <1>9, RunningIsAt DEF Flow, Running
  <2>2. Position(d) = index[n]
    BY <1>9, <2>1 DEF IsAt
  <2>3. IsAt(d)'
    BY <1>6, <2>1 DEF IsAt
  <2>4. t = index[n] => d = c
    BY <1>1, <1>5, <1>9, <2>1, <2>2, Siblings
  <2>5. t # index[n] => Position(c) < Position(d)
    BY <1>3, <1>5, <2>2
  <2> QED
    BY <2>3, <2>4, <2>5
<1>10. ASSUME NEW j \in 1 .. index[n] - 1, AbortsRight(Children(n)[j])
       PROVE  \/ Children(n)[j] \in ticked
              \/ Children(n)[j] = c
              \/ Position(c) < Position(Children(n)[j]) /\ Parent(Children(n)[j]) = n
  <2>1. CASE j <= i
    BY <1>10, <2>1
  <2>2. CASE j > i
    <3>1. t <= j
      BY <1>3, <1>10, <2>2
    <3>2. Position(Children(n)[j]) = j /\ Parent(Children(n)[j]) = n
      BY <1>1, LeftChild
    <3>3. CASE t = j
      BY <1>4, <3>3
    <3>4. CASE t # j
      BY <1>3, <1>5, <3>1, <3>2, <3>4
    <3> QED
      BY <3>3, <3>4
  <2> QED
    BY <1>3, <2>1, <2>2
<1> QED
  BY <1>5, <1>7, <1>8, <1>9, <1>10, CallStep

LEMMA UpdateSelectorStep ==
    ASSUME IInv, pc = "update", UpdateSelector(at)
    PROVE  IInv'
<1>1. PICK n : n = at
  OBVIOUS
<1>2. /\ Types /\ Indexed /\ Counted /\ Flow
      /\ tree \in Trees /\ n \in Node /\ Type(n) = "SELECTOR"
      /\ UNCHANGED <<tree, state, index, done, success, failure, ticked, held, started>>
      /\ Call(Children(n)[Turn(n, 0)])
  BY <1>1, IInvParts DEF Types, UpdateSelector
<1>3. Updating(n)
  BY <1>1 DEF Updating
<1>4. 0 < index[n]
  BY <1>2, NodeFacts DEF Indexed
<1>5. Flow'
  BY <1>2, <1>3, <1>4, TurnStep
<1>6. Children(n)[Turn(n, 0)] \in Node
  BY <1>2, <1>4, TurnFacts, ChildFacts
<1>7. Types'
  BY <1>2, <1>6, CallTypes DEF Types
<1> QED
  BY <1>2, <1>5, <1>7, SameIndexed, SameCounted, IInvPartsNext

LEMMA UpdateSequenceStep ==
    ASSUME IInv, pc = "update", UpdateSequence(at)
    PROVE  IInv'
<1>1. PICK n, c : n = at /\ c = Children(n)[index[n]]
  OBVIOUS
<1>2. /\ Types /\ Indexed /\ Counted /\ Flow
      /\ tree \in Trees /\ n \in Node /\ Type(n) = "SEQUENCE"
      /\ UNCHANGED <<tree, state, index, done, success, failure, ticked, held, started>>
      /\ Call(c)
  BY <1>1, IInvParts DEF Types, UpdateSequence
<1>3. Updating(n)
  BY <1>1 DEF Updating
<1>4. c \in Node \ {1} /\ Parent(c) = n /\ Position(c) = index[n]
  BY <1>1, <1>2, ChildFacts DEF Indexed
<1>5. \A m : Type(m)' = Type(m) /\ Parent(m)' = Parent(m) /\ Position(m)' = Position(m)
  BY <1>2, SameTree
<1>6. Fits(c)'
  BY <1>2, <1>4, <1>5 DEF Fits, IsAt
<1>7. n \notin Left /\ ~AbortsSelf(n)
  BY <1>2 DEF Left, ReachesBack, AbortsRight, AbortsSelf
<1>8. ASSUME NEW d \in Running \ {1}, Parent(d) = n
      PROVE  IsAt(d)' /\ d = c
  <2>1. IsAt(d) /\ d \in Node
    BY <1>2, <1>3, <1>8, RunningIsAt DEF Flow, Running
  <2>2. Position(d) = index[n]
    BY <1>2, <1>8, <2>1 DEF IsAt
  <2>3. d = c
    BY <1>2, <1>4, <1>8, <2>1, <2>2, Siblings
  <2> QED
    BY <1>2, <1>5, <2>1, <2>3 DEF IsAt
<1>9. Flow'
  BY <1>2, <1>3, <1>4, <1>6, <1>7, <1>8, CallStep
<1>10. Types'
  BY <1>2, <1>4, CallTypes DEF Types
<1> QED
  BY <1>2, <1>9, <1>10, SameIndexed, SameCounted, IInvPartsNext

(* A parallel node goes on to its next child, or stays at those that run.   *)
LEMMA OthersStep ==
    ASSUME Types, Indexed, Flow, UNCHANGED <<tree, index, held, ticked>>,
           NEW n, Updating(n), Type(n) = "PARALLEL", NEW i \in Nat,
           \A m \in Node \ {n} : done'[m] = done[m],
           \/ pc = "update" /\ i = 0 /\ done'[n] = done[n]
           \/ /\ pc = "back" /\ i = Position(at)
              /\ \/ done'[n] = done[n]
                 \/ done'[n] = done[n] \cup {i} /\ state[at] # "RUNNING",
           RunOthers(n, i, done[n])
    PROVE  Flow'
<1> DEFINE others == {j \in (i + 1) .. Len(Children(n)) : j \notin done[n]}
<1>1. tree \in Trees /\ n \in Node /\ n \in ticked
  BY UpdatingFacts DEF Flow, Types
<1>2. n \notin Left /\ ~AbortsSelf(n)
  BY DEF Left, ReachesBack, AbortsRight, AbortsSelf
<1>3. \A m : Type(m)' = Type(m) /\ Parent(m)' = Parent(m) /\ Position(m)' = Position(m)
  BY SameTree
<1>4. Len(Children(n)) \in Nat /\ DOMAIN Children(n) = 1 .. Len(Children(n))
  BY <1>1, NodeFacts
<1>5. ASSUME NEW d \in Running \ {1}, Parent(d) = n
      PROVE  /\ d \in Node /\ Position(d) \in 1 .. Len(Children(n))
             /\ Position(d) \notin done[n] /\ Position(d) \notin done'[n]
             /\ Position(d) > i \/ d \in ticked
  <2>1. d \in Node /\ Position(d) \in 1 .. Len(Children(n))
    BY <1>1, <1>4, <1>5, ParentFacts DEF Running
  <2>2. Position(d) \notin done[n]
    BY <1>5, RunningIsAt DEF IsAt, Flow
  <2>3. CASE pc = "update" /\ i = 0 /\ done'[n] = done[n]
    BY <2>1, <2>2, <2>3
  <2>4. CASE pc = "back" /\ i = Position(at)
    <3>1. at # 1 /\ Parent(at) = n /\ at \in Node /\ at \in ticked
      BY <2>4 DEF Updating, Types, Flow, Begun
    <3>2. CASE d = at
      <4>1. state[at] = "RUNNING"
        BY <3>2 DEF Running
      <4> QED
        BY <2>1, <2>2, <2>4, <3>1, <3>2, <4>1
    <3>3. CASE d # at
      <4>1. Position(d) # i
        BY <1>1, <1>5, <2>1, <2>4, <3>1, <3>3, Siblings
      <4>2. d \in ticked \/ ToCome(d)
        BY <1>1, <1>5, <2>4 DEF Flow, InTurn
      <4>3. ToCome(d) => i < Position(d)
        <5> SUFFICES ASSUME ToCome(d) PROVE i < Position(d)
          OBVIOUS
        <5>1. PICK e \in Path \ {1} : Parent(e) = n /\ Position(e) < Position(d)
          BY <1>5, <2>4 DEF ToCome
        <5>2. at \in Path \ {1}
          BY <2>4, <3>1 DEF Path
        <5>3. e = at
          BY <3>1, <5>1, <5>2 DEF Flow, OneWay
        <5> QED
          BY <2>4, <5>1, <5>3
      <4>4. d \in ticked \/ Position(d) > i
        BY <2>1, <4>2, <4>3
      <4>5. Position(d) \notin done'[n]
        BY <2>2, <2>4, <4>1
      <4> QED
        BY <2>1, <2>2, <4>4, <4>5
    <3> QED
      BY <3>2, <3>3
  <2> QED
    BY <2>3, <2>4
<1>6. CASE others = {}
  <2>1. Return(n, "RUNNING")
    BY <1>6 DEF RunOthers
  <2>2. ASSUME NEW d \in Running \ {1}, Parent(d) = n
        PROVE  d \in ticked /\ Position(d) \notin done'[n]
    <3>1. ~(Position(d) > i)
      <4> SUFFICES ASSUME Position(d) > i PROVE FALSE
        OBVIOUS
      <4>1. Position(d) \in others
        BY <1>4, <1>5, <2>2
      <4> QED
        BY <1>6, <4>1
    <3> QED
      BY <1>5, <2>2, <3>1
  <2> QED
    BY <1>1, <1>2, <2>1, <2>2, ReturnStep
<1>7. CASE others # {}
  <2>1. others \in SUBSET Nat
    BY <1>4
  <2>2. Min(others) \in others /\ \A k \in others : Min(others) <= k
    BY <1>7, <2>1, MinIsFirst
  <2>3. PICK t : t = Min(others)
    OBVIOUS
  <2>4. /\ t \in DOMAIN Children(n) /\ t > i /\ t \notin done[n] /\ t \in Nat
        /\ \A k \in 1 .. Len(Children(n)) : k > i /\ k \notin done[n] => t <= k
    <3>1. t \in others /\ \A k \in others : t <= k
      BY <2>2, <2>3
    <3>2. \A k \in 1 .. Len(Children(n)) : k > i /\ k \notin done[n] => k \in others
      BY <1>4
    <3>3. t \in DOMAIN Children(n) /\ t > i /\ t \notin done[n] /\ t \in Nat
      BY <1>4, <3>1
    <3> QED
      BY <3>1, <3>2, <3>3
  <2>5. PICK c : c = Children(n)[t]
    OBVIOUS
  <2>6. c \in Node \ {1} /\ Parent(c) = n /\ Position(c) = t
    BY <1>1, <2>4, <2>5, ChildFacts
  <2>7. Call(c) /\ UNCHANGED <<state, started>>
    BY <1>7, <2>3, <2>5 DEF RunOthers
  <2>8. t \notin done'[n]
    BY <2>4
  <2>9. Fits(c)'
    BY <1>3, <2>6, <2>8 DEF Fits, IsAt
  <2>10. ASSUME NEW d \in Running \ {1}, Parent(d) = n
         PROVE  IsAt(d)' /\ (d \in ticked \/ d = c \/ Position(c) < Position(d))
    <3>1. IsAt(d)'
      BY <1>3, <1>5, <2>10 DEF IsAt
    <3>2. Position(d) > i => t <= Position(d)
      BY <1>5, <2>4, <2>10
    <3>3. t = Position(d) => d = c
      BY <1>1, <1>5, <2>6, <2>10, Siblings
    <3>4. Position(d) \in Nat
      BY <1>4, <1>5, <2>10
    <3>5. Position(d) > i => d = c \/ Position(c) < Position(d)
      BY <2>4, <2>6, <3>2, <3>3, <3>4
    <3> QED
      BY <1>5, <2>10, <3>1, <3>5
  <2> QED
    BY <1>2, <2>6, <2>7, <2>9, <2>10, CallStep
<1> QED
  BY <1>6, <1>7

LEMMA OthersTypes ==
    ASSUME Types, tree' = tree, NEW n \in Node, Type(n) = "PARALLEL", NEW i \in Nat,
           RunOthers(n, i, done[n]),
           index' \in [Node -> Nat], done' \in [Node -> SUBSET Nat],
           success' \in [Node -> Nat], failure' \in [Node -> Nat],
           ticked' = ticked, held' \subseteq Node
    PROVE  Types'
<1> DEFINE others == {j \in (i + 1) .. Len(Children(n)) : j \notin done[n]}
<1>1. CASE others = {}
  <2>1. Return(n, "RUNNING")
    BY <1>1 DEF RunOthers
  <2> QED
    BY <2>1, ReturnTypes
<1>2. CASE others # {}
  <2>1. DOMAIN Children(n) = 1 .. Len(Children(n)) /\ Len(Children(n)) \in Nat
    BY NodeFacts DEF Types
  <2>2. others \in SUBSET Nat /\ others \subseteq DOMAIN Children(n)
    BY <2>1
  <2>3. Min(others) \in DOMAIN Children(n)
    BY <1>2, <2>2, MinIsFirst
  <2>4. PICK c : c = Children(n)[Min(others)]
    OBVIOUS
  <2>5. c \in Node
    BY <2>3, <2>4, ChildFacts DEF Types
  <2>6. Call(c) /\ state' = state /\ started' = started
    BY <1>2, <2>4 DEF RunOthers
  <2>7. /\ state' \in [Node -> {"RUNNING", "SUCCESS", "FAILURE", "IDLE"}]
        /\ started' \in [Node -> Int]
    BY <2>6 DEF Types
  <2> QED
    BY <2>5, <2>6, <2>7, CallTypes
<1> QED
  BY <1>1, <1>2

LEMMA UpdateParallelStep ==
    ASSUME IInv, pc = "update", UpdateParallel(at)
    PROVE  IInv'
<1>1. PICK n : n = at
  OBVIOUS
<1>2. /\ Types /\ Indexed /\ Counted /\ Flow
      /\ tree \in Trees /\ n \in Node /\ Type(n) = "PARALLEL"
      /\ UNCHANGED <<tree, index, done, success, failure, ticked, held>>
      /\ RunOthers(n, 0, done[n])
  BY <1>1, IInvParts DEF Types, UpdateParallel
<1>3. Updating(n)
  BY <1>1 DEF Updating
<1>4. Flow'
  BY <1>2, <1>3, OthersStep
<1>5. Types'
  BY <1>2, OthersTypes DEF Types
<1> QED
  BY <1>2, <1>4, <1>5, SameIndexed, SameCounted, IInvPartsNext

-----------------------------------------------------------------------------
(* The steps of a parent that has got a child back.                         *)

LEMMA BackFacts ==
    ASSUME IInv, pc = "back", NEW c, c = at, c # 1, NEW p, p = Parent(c)
    PROVE  /\ Types /\ Indexed /\ Counted /\ Flow /\ Updating(p)
           /\ tree \in Trees /\ p \in Node /\ p # c /\ p \in ticked
           /\ c \in Node /\ c # 1 /\ c \in ticked
           /\ Position(c) \in DOMAIN Children(p) /\ Position(c) \in Nat
           /\ Children(p)[Position(c)] = c
           /\ state[c] \in {"RUNNING", "SUCCESS", "FAILURE", "IDLE"}
           /\ p \in On /\ p \notin Left
           /\ Fits(c)
<1>1. Types /\ Indexed /\ Counted /\ Flow /\ tree \in Trees /\ c \in Node /\ Updating(p)
  BY IInvParts DEF Types, Updating
<1>2. p \in active /\ p \in ticked
  BY <1>1, UpdatingFacts DEF Flow
<1>3. p \in On /\ p \notin Left
  BY <1>2 DEF On, Left
<1>4. Fits(c)
  BY <1>1 DEF Flow, Called
<1>5. c \in ticked
  BY <1>1 DEF Flow, Begun
<1>6. /\ p \in Node /\ p # c /\ Position(c) \in DOMAIN Children(p) /\ Position(c) \in Nat
      /\ Children(p)[Position(c)] = c
  BY <1>1, ParentFacts, TreeFacts
<1> QED
  BY <1>1, <1>2, <1>3, <1>4, <1>5, <1>6 DEF Types

LEMMA BackInPreconditionStep ==
    ASSUME IInv, pc = "back", NEW c, c = at, c # 1, NEW p, p = Parent(c),
           BackInPrecondition(p, c)
    PROVE  IInv'
<1>1. /\ Types /\ Indexed /\ Counted /\ Flow /\ Updating(p)
      /\ tree \in Trees /\ p \in Node /\ p \in ticked /\ c \in Node /\ c # 1 /\ c \in ticked
      /\ state[c] \in {"RUNNING", "SUCCESS", "FAILURE", "IDLE"}
      /\ p \in On /\ p \notin Left
  BY BackFacts
<1>2. /\ Type(p) = "PRECONDITION" /\ Return(p, state[c])
      /\ UNCHANGED <<tree, index, done, success, failure, ticked, held>>
  BY DEF BackInPrecondition
<1>3. \A d \in Running \ {1} : Parent(d) = p => d = c
  BY <1>1, <1>2, OnlyChild DEF Running
<1>4. AbortsSelf(p) => p \in held
  BY <1>1 DEF Flow, Asked
<1>5. c \in Running => state[c] = "RUNNING"
  BY DEF Running
<1>6. Flow'
  BY <1>1, <1>2, <1>3, <1>4, <1>5, ReturnStep
<1>7. Types'
  BY <1>1, <1>2, ReturnTypes DEF Types
<1> QED
  BY <1>1, <1>2, <1>6, <1>7, SameIndexed, SameCounted, IInvPartsNext

(* When a selector gets a child back, the guards before that one have had   *)
(* their turn.                                                              *)
LEMMA LeftTicked ==
    ASSUME IInv, pc = "back", NEW c, c = at, c # 1, NEW p, p = Parent(c), Type(p) = "SELECTOR",
           NEW j \in 1 .. index[p] - 1, j <= Position(c), AbortsRight(Children(p)[j])
    PROVE  Children(p)[j] \in ticked
<1>1. /\ Types /\ Indexed /\ Flow /\ tree \in Trees /\ p \in Node /\ p \in ticked /\ p \in On
      /\ c \in Node /\ c # 1 /\ c \in ticked /\ Position(c) \in Nat
      /\ Children(p)[Position(c)] = c
  BY BackFacts
<1>2. PICK d : d = Children(p)[j]
  OBVIOUS
<1>3. d \in Node \ {1} /\ Parent(d) = p /\ Position(d) = j
  BY <1>1, <1>2, LeftChild
<1>4. d \in ticked \/ ToCome(d)
  BY <1>1, <1>2 DEF Flow, LeftInTurn, OfType
<1>5. CASE ToCome(d)
  <2>1. PICK e \in Path \ {1} : Parent(e) = p /\ Position(e) < j
    BY <1>3, <1>5 DEF ToCome
  <2>2. c \in Path \ {1}
    BY <1>1 DEF Path
  <2>3. e = c
    BY <1>1, <2>1, <2>2 DEF Flow, OneWay
  <2> QED
    BY <1>1, <2>1, <2>3
<1> QED
  BY <1>2, <1>4, <1>5

(* A selector or a sequence has got the child back that it is at.           *)
LEMMA AdvanceStep ==
    ASSUME IInv, pc = "back", NEW c, c = at, c # 1, NEW p, p = Parent(c),
           NEW goOn \in {"SUCCESS", "FAILURE"}, Type(p) \in {"SELECTOR", "SEQUENCE"},
           Position(c) = index[p], Advance(p, c, goOn),
           UNCHANGED <<tree, done, success, failure, ticked, held>>
    PROVE  IInv'
<1>1. /\ Types /\ Indexed /\ Counted /\ Flow /\ Updating(p)
      /\ tree \in Trees /\ p \in Node /\ p \in ticked /\ c \in Node /\ c # 1 /\ c \in ticked
      /\ Position(c) \in DOMAIN Children(p) /\ Position(c) \in Nat
      /\ Children(p)[Position(c)] = c
      /\ state[c] \in {"RUNNING", "SUCCESS", "FAILURE", "IDLE"}
      /\ p \in On /\ p \notin Left
  BY BackFacts
<1>2. /\ ~AbortsSelf(p) /\ Type(p) # "PARALLEL"
      /\ Len(Children(p)) \in Nat /\ DOMAIN Children(p) = 1 .. Len(Children(p))
      /\ 1 \in DOMAIN Children(p)
  BY <1>1, NodeFacts DEF AbortsSelf
<1>3. ASSUME NEW d \in Running \ {1}, Parent(d) = p
      PROVE  d = c
  <2>1. IsAt(d) /\ d \in Node
    BY <1>1, <1>3, RunningIsAt DEF Flow, Running
  <2>2. Position(d) = index[p]
    BY <1>3, <2>1 DEF IsAt
  <2> QED
    BY <1>1, <1>3, <2>1, <2>2, Siblings
<1>4. c \in Running <=> state[c] = "RUNNING"
  BY <1>1 DEF Running
<1>5. ASSUME Type(p) = "SELECTOR", NEW j \in 1 .. index[p], AbortsRight(Children(p)[j])
      PROVE  Children(p)[j] \in ticked
  <2>1. CASE j = index[p]
    BY <1>1, <2>1
  <2>2. CASE j # index[p]
    <3>1. j \in 1 .. index[p] - 1 /\ j <= Position(c)
      BY <1>1, <2>2
    <3> QED
      BY <1>5, <3>1, LeftTicked
  <2> QED
    BY <2>1, <2>2
<1>6. \A m : Type(m)' = Type(m) /\ Parent(m)' = Parent(m) /\ Position(m)' = Position(m)
             /\ Children(m)' = Children(m)
  BY SameTree
<1>7. Node' = Node
  BY SameTree
<1>8. CASE state[c] # goOn /\ Return(p, state[c]) /\ UNCHANGED index
  <2>1. state[c] = "RUNNING" =>
            /\ \A d \in Running \ {1} : Parent(d) = p => d \in ticked
            /\ Type(p) = "SELECTOR" => \A i \in 1 .. index[p] - 1 :
                 AbortsRight(Children(p)[i]) => Children(p)[i] \in ticked
    BY <1>1, <1>3, <1>5
  <2>2. state[c] # "RUNNING" => \A d \in Running \ {1} : Parent(d) # p
    BY <1>3, <1>4
  <2>3. Flow'
    BY <1>1, <1>2, <1>8, <2>1, <2>2, ReturnStep
  <2>4. Types'
    BY <1>1, <1>8, ReturnTypes DEF Types
  <2> QED
    BY <1>1, <1>8, <2>3, <2>4, SameIndexed, SameCounted, IInvPartsNext
<1>9. CASE state[c] = goOn /\ index[p] = Len(Children(p)) /\ Return(p, goOn)
           /\ index' = [index EXCEPT ![p] = 1]
  <2>1. \A d \in Running \ {1} : Parent(d) # p
    BY <1>3, <1>4, <1>9
  <2>2. \A m \in Node \ {p} : index'[m] = index[m]
    BY <1>1, <1>9 DEF Types
  <2>3. Flow'
    BY <1>1, <1>9, <2>1, <2>2, ReturnStep
  <2>4. index' \in [Node -> Nat]
    BY <1>1, <1>9 DEF Types
  <2>5. Types'
    BY <1>1, <1>9, <2>4, ReturnTypes DEF Types
  <2>6. Indexed'
    BY <1>1, <1>2, <1>6, <1>7, <1>9 DEF Indexed, Types
  <2> QED
    BY <1>1, <2>3, <2>5, <2>6, SameCounted, IInvPartsNext
<1>10. CASE /\ state[c] = goOn /\ index[p] < Len(Children(p))
            /\ index' = [index EXCEPT ![p] = @ + 1]
            /\ Call(Children(p)[index[p] + 1])
            /\ UNCHANGED <<state, started>>
  <2>1. \A d \in Running \ {1} : Parent(d) # p
    BY <1>3, <1>4, <1>10
  <2>2. /\ \A m \in Node \ {p} : index'[m] = index[m]
        /\ index'[p] = index[p] + 1 /\ index[p] \in Nat
        /\ index' \in [Node -> Nat]
    BY <1>1, <1>10 DEF Types
  <2>3. PICK d : d = Children(p)[index[p] + 1]
    OBVIOUS
  <2>4. index[p] + 1 \in DOMAIN Children(p)
    BY <1>1, <1>2, <1>10, <2>2
  <2>5. d \in Node \ {1} /\ Parent(d) = p /\ Position(d) = index[p] + 1 /\ Call(d)
    BY <1>1, <1>10, <2>3, <2>4, ChildFacts
  <2>6. Fits(d)'
    BY <1>2, <1>6, <2>2, <2>5 DEF Fits, IsAt
  <2>7. Type(p) = "SELECTOR" => \A j \in 1 .. index'[p] - 1 :
          AbortsRight(Children(p)[j]) => Children(p)[j] \in ticked
    BY <1>5, <2>2
  <2>8. Flow'
    BY <1>1, <1>2, <1>10, <2>1, <2>2, <2>5, <2>6, <2>7, CallStep
  <2>9. Types'
    BY <1>1, <1>10, <2>2, <2>5, CallTypes DEF Types
  <2>10. Indexed'
    BY <1>1, <1>6, <1>7, <2>2, <2>4 DEF Indexed
  <2> QED
    BY <1>1, <2>8, <2>9, <2>10, SameCounted, IInvPartsNext
<1> QED
  BY <1>8, <1>9, <1>10 DEF Advance

LEMMA BackInSelectorStep ==
    ASSUME IInv, pc = "back", NEW c, c = at, c # 1, NEW p, p = Parent(c), BackInSelector(p, c)
    PROVE  IInv'
<1>1. /\ Types /\ Indexed /\ Counted /\ Flow /\ Updating(p)
      /\ tree \in Trees /\ p \in Node /\ Position(c) \in Nat /\ Fits(c)
      /\ index[p] \in Nat
  BY BackFacts DEF Types
<1>2. Type(p) = "SELECTOR" /\ UNCHANGED <<tree, done, success, failure, ticked, held>>
  BY DEF BackInSelector
<1>3. CASE Position(c) < index[p] /\ Call(Children(p)[Turn(p, Position(c))])
           /\ UNCHANGED <<state, started, index>>
  <2>1. \A j \in 1 .. index[p] - 1 :
          j <= Position(c) /\ AbortsRight(Children(p)[j]) => Children(p)[j] \in ticked
    BY <1>2, LeftTicked
  <2>2. PICK i : i = Position(c)
    OBVIOUS
  <2>3. Flow'
    BY <1>1, <1>2, <1>3, <2>1, <2>2, TurnStep
  <2>4. Children(p)[Turn(p, i)] \in Node
    BY <1>1, <1>2, <1>3, <2>2, TurnFacts, ChildFacts
  <2>5. Types'
    BY <1>1, <1>2, <1>3, <2>2, <2>4, CallTypes DEF Types
  <2> QED
    BY <1>1, <1>2, <1>3, <2>3, <2>5, SameIndexed, SameCounted, IInvPartsNext
<1>4. CASE Position(c) >= index[p] /\ Advance(p, c, "FAILURE")
  <2>1. Position(c) = index[p]
    BY <1>1, <1>2, <1>4 DEF Fits
  <2> QED
    BY <1>2, <1>4, <2>1, AdvanceStep
<1> QED
  BY <1>3, <1>4 DEF BackInSelector

LEMMA BackInSequenceStep ==
    ASSUME IInv, pc = "back", NEW c, c = at, c # 1, NEW p, p = Parent(c), BackInSequence(p, c)
    PROVE  IInv'
<1>1. /\ Type(p) = "SEQUENCE" /\ Advance(p, c, "SUCCESS")
      /\ UNCHANGED <<tree, done, success, failure, ticked, held>>
  BY DEF BackInSequence
<1>2. Fits(c)
  BY BackFacts
<1>3. Position(c) = index[p]
  BY <1>1, <1>2 DEF Fits, IsAt
<1> QED
  BY <1>1, <1>3, AdvanceStep

(* A parallel node is done with a child: it counts it, and it had not before. *)
LEMMA DoneStep ==
    ASSUME IInv, pc = "back", NEW c, c = at, c # 1, NEW p, p = Parent(c), Type(p) = "PARALLEL",
           NEW i, i = Position(c), state[c] \in {"SUCCESS", "FAILURE"},
           done' = [done EXCEPT ![p] = @ \cup {i}],
           success' \in [Node -> Nat], failure' \in [Node -> Nat],
           success'[p] + failure'[p] = success[p] + failure[p] + 1,
           \A m \in Node \ {p} : success'[m] = success[m] /\ failure'[m] = failure[m],
           UNCHANGED <<tree, index, ticked, held>>,
           \/ \E result \in {"SUCCESS", "FAILURE"} : Return(p, result)
           \/ RunOthers(p, i, done[p])
    PROVE  IInv'
<1>1. /\ Types /\ Indexed /\ Counted /\ Flow /\ Updating(p)
      /\ tree \in Trees /\ p \in Node /\ c \in Node /\ c # 1
      /\ i \in DOMAIN Children(p) /\ i \in Nat /\ Fits(c)
  BY BackFacts
<1>2. /\ done' \in [Node -> SUBSET Nat] /\ done'[p] = done[p] \cup {i}
      /\ \A m \in Node \ {p} : done'[m] = done[m]
  BY <1>1 DEF Types
<1>3. Types' /\ Flow'
  <2>1. ASSUME NEW result \in {"SUCCESS", "FAILURE"}, Return(p, result)
        PROVE  Types' /\ Flow'
    <3>1. Types'
      BY <1>1, <1>2, <2>1, ReturnTypes DEF Types
    <3>2. ASSUME NEW d \in Running \ {1}, Parent(d) = p
          PROVE  d \in OnTerminate(p, result)
      <4>1. d \in Node /\ Position(d) \in DOMAIN Children(p) /\ Children(p)[Position(d)] = d
        BY <1>1, <3>2, ParentFacts DEF Running
      <4>2. OnTerminate(p, result) = ToSet(Children(p))
        BY DEF OnTerminate, TerminateParallel
      <4> QED
        BY <4>1, <4>2 DEF ToSet
    <3>3. Flow'
      BY <1>1, <1>2, <2>1, <3>2, ReturnStep
    <3> QED
      BY <3>1, <3>3
  <2>2. ASSUME RunOthers(p, i, done[p])
        PROVE  Types' /\ Flow'
    <3>1. Types'
      BY <1>1, <1>2, <2>2, OthersTypes DEF Types
    <3>2. state[at] # "RUNNING"
      OBVIOUS
    <3>3. Flow'
      BY <1>1, <1>2, <2>2, <3>2, OthersStep
    <3> QED
      BY <3>1, <3>3
  <2> QED
    BY <2>1, <2>2
<1>4. i \notin done[p]
  BY <1>1 DEF Fits, IsAt
<1>5. Counted'
  <2>1. Node' = Node /\ \A m : Type(m)' = Type(m) /\ Children(m)' = Children(m)
        /\ OfType(m)' = OfType(m)
    BY SameTree
  <2>2. /\ done[p] \subseteq DOMAIN Children(p)
        /\ Cardinality(done[p]) = success[p] + failure[p]
    BY <1>1 DEF Counted, OfType
  <2>3. IsFiniteSet(done[p])
    <3>1. DOMAIN Children(p) = 1 .. Len(Children(p)) /\ Len(Children(p)) \in Nat
      BY <1>1, NodeFacts
    <3>2. Len(Children(p)) \in Int
      BY <3>1
    <3> DEFINE k == Len(Children(p))
    <3>3. IsFiniteSet(1 .. k)
      BY <3>2, FS_Interval
    <3>4. IsFiniteSet(DOMAIN Children(p))
      BY <3>1, <3>3
    <3> QED
      BY <2>2, <3>4, FS_Subset
  <2>4. Cardinality(done[p] \cup {i}) = Cardinality(done[p]) + 1
    BY <1>4, <2>3, FS_AddElement
  <2>5. Cardinality(done'[p]) = success'[p] + failure'[p]
    BY <1>2, <2>2, <2>4
  <2>6. done'[p] \subseteq DOMAIN Children(p)
    BY <1>1, <1>2, <2>2
  <2>7. ASSUME NEW m \in Node, Type(m) = "PARALLEL"
        PROVE  /\ done'[m] \subseteq DOMAIN Children(m)
               /\ Cardinality(done'[m]) = success'[m] + failure'[m]
    <3>1. CASE m = p
      BY <2>5, <2>6, <3>1
    <3>2. CASE m # p
      BY <1>1, <1>2, <2>7, <3>2 DEF Counted, OfType
    <3> QED
      BY <3>1, <3>2
  <2> QED
    BY <2>1, <2>7 DEF Counted, OfType
<1>6. Indexed'
  BY <1>1, SameIndexed
<1> QED
  BY <1>3, <1>5, <1>6, IInvPartsNext

LEMMA BackInParallelStep ==
    ASSUME IInv, pc = "back", NEW c, c = at, c # 1, NEW p, p = Parent(c), BackInParallel(p, c)
    PROVE  IInv'
<1>1. /\ Types /\ Indexed /\ Counted /\ Flow /\ Updating(p)
      /\ tree \in Trees /\ p \in Node /\ c \in Node /\ c # 1 /\ Position(c) \in Nat
      /\ success \in [Node -> Nat] /\ failure \in [Node -> Nat]
  BY BackFacts DEF Types
<1>2. PICK i : i = Position(c)
  OBVIOUS
<1>3. Type(p) = "PARALLEL" /\ UNCHANGED <<tree, index, ticked, held>>
  BY DEF BackInParallel
<1>4. CASE /\ state[c] = "SUCCESS"
           /\ done' = [done EXCEPT ![p] = @ \cup {i}]
           /\ success' = [success EXCEPT ![p] = @ + 1]
           /\ UNCHANGED failure
           /\ \/ \E result \in {"SUCCESS", "FAILURE"} : Return(p, result)
              \/ RunOthers(p, i, done[p])
  <2>1. /\ success' \in [Node -> Nat] /\ failure' \in [Node -> Nat]
        /\ success'[p] + failure'[p] = success[p] + failure[p] + 1
        /\ \A m \in Node \ {p} : success'[m] = success[m] /\ failure'[m] = failure[m]
    BY <1>1, <1>4
  <2> QED
    BY <1>2, <1>3, <1>4, <2>1, DoneStep
<1>5. CASE /\ state[c] = "FAILURE"
           /\ done' = [done EXCEPT ![p] = @ \cup {i}]
           /\ failure' = [failure EXCEPT ![p] = @ + 1]
           /\ UNCHANGED success
           /\ \/ \E result \in {"SUCCESS", "FAILURE"} : Return(p, result)
              \/ RunOthers(p, i, done[p])
  <2>1. /\ success' \in [Node -> Nat] /\ failure' \in [Node -> Nat]
        /\ success'[p] + failure'[p] = success[p] + failure[p] + 1
        /\ \A m \in Node \ {p} : success'[m] = success[m] /\ failure'[m] = failure[m]
    BY <1>1, <1>5
  <2> QED
    BY <1>2, <1>3, <1>5, <2>1, DoneStep
<1>6. CASE /\ state[c] \notin {"SUCCESS", "FAILURE"}
           /\ RunOthers(p, i, done[p])
           /\ UNCHANGED <<done, success, failure>>
  <2>1. Flow'
    BY <1>1, <1>2, <1>3, <1>6, OthersStep
  <2>2. Types'
    BY <1>1, <1>2, <1>3, <1>6, OthersTypes DEF Types
  <2> QED
    BY <1>1, <1>3, <1>6, <2>1, <2>2, SameIndexed, SameCounted, IInvPartsNext
<1>7. \/ /\ state[c] = "SUCCESS"
         /\ done' = [done EXCEPT ![p] = @ \cup {i}]
         /\ success' = [success EXCEPT ![p] = @ + 1]
         /\ UNCHANGED failure
         /\ Return(p, "SUCCESS") \/ RunOthers(p, i, done[p])
      \/ /\ state[c] = "FAILURE"
         /\ done' = [done EXCEPT ![p] = @ \cup {i}]
         /\ failure' = [failure EXCEPT ![p] = @ + 1]
         /\ UNCHANGED success
         /\ Return(p, "FAILURE") \/ RunOthers(p, i, done[p])
      \/ /\ state[c] \notin {"SUCCESS", "FAILURE"}
         /\ RunOthers(p, i, done[p])
         /\ UNCHANGED <<done, success, failure>>
  BY <1>2 DEF BackInParallel
<1> QED
  BY <1>4, <1>5, <1>6, <1>7

-----------------------------------------------------------------------------
(* The rest: a tick begins, a node is run, a tick ends.                     *)

LEMMA RunPreserves ==
    ASSUME IInv, pc = "run", Run(at)
    PROVE  IInv'
<1>1. PICK n : n = at
  OBVIOUS
<1>2. /\ Types /\ Indexed /\ Counted /\ Flow /\ tree \in Trees /\ n \in Node
      /\ UNCHANGED <<tree, state, at, held>>
      /\ pc' = "update" /\ active' = active \cup {n} /\ ticked' = ticked \cup {n}
  BY <1>1, IInvParts DEF Types, Run
<1>3. Node' = Node /\ \A m : Type(m)' = Type(m) /\ Children(m)' = Children(m)
      /\ OfType(m)' = OfType(m)
  BY <1>2, SameTree
<1>4. Flow'
  BY <1>2, RunStep
<1>5. CASE UNCHANGED <<index, done, success, failure, started>>
  <2>1. Types'
    BY <1>2, <1>3, <1>5 DEF Types
  <2> QED
    BY <1>2, <1>4, <1>5, <2>1, SameIndexed, SameCounted, IInvPartsNext
<1>6. CASE OnInitialize(n)
  <2>1. Types'
    BY <1>2, <1>3, <1>6 DEF Types, OnInitialize
  <2>2. /\ index'[n] = 1 /\ done'[n] = {} /\ success'[n] = 0 /\ failure'[n] = 0
        /\ \A m \in Node \ {n} : /\ index'[m] = index[m] /\ done'[m] = done[m]
                                 /\ success'[m] = success[m] /\ failure'[m] = failure[m]
    BY <1>2, <1>6 DEF Types, OnInitialize
  <2>3. Type(n) # "ACTION" => 1 \in DOMAIN Children(n)
    BY <1>2, NodeFacts
  <2>4. Indexed'
    BY <1>2, <1>3, <2>2, <2>3 DEF Indexed
  <2>5. Cardinality({}) = 0
    BY FS_EmptySet
  <2>6. ASSUME NEW m \in Node, Type(m) = "PARALLEL"
        PROVE  /\ done'[m] \subseteq DOMAIN Children(m)
               /\ Cardinality(done'[m]) = success'[m] + failure'[m]
    <3>1. CASE m = n
      BY <2>2, <2>5, <3>1
    <3>2. CASE m # n
      BY <1>2, <2>2, <2>6, <3>2 DEF Counted, OfType
    <3> QED
      BY <3>1, <3>2
  <2>7. Counted'
    BY <1>3, <2>6 DEF Counted, OfType
  <2> QED
    BY <1>4, <2>1, <2>4, <2>7, IInvPartsNext
<1> QED
  BY <1>1, <1>5, <1>6 DEF Run

LEMMA TickPreserves ==
    ASSUME IInv, Tick
    PROVE  IInv'
<1>1. /\ Types /\ Indexed /\ Counted /\ Flow
      /\ UNCHANGED <<tree, state, index, done, success, failure, active, started>>
      /\ pc' = "run" /\ at' = 1 /\ ticked' = {} /\ held' = {}
  BY IInvParts DEF Tick
<1>2. Node' = Node /\ 1 \in Node
  BY <1>1, SameTree, TreeFacts DEF Types
<1>3. Types'
  BY <1>1, <1>2 DEF Types
<1> QED
  BY <1>1, <1>3, TickStep, SameIndexed, SameCounted, IInvPartsNext

LEMMA FinishPreserves ==
    ASSUME IInv, pc = "back", Finish
    PROVE  IInv'
<1>1. /\ Types /\ Indexed /\ Counted /\ Flow
      /\ UNCHANGED <<tree, state, index, done, success, failure, at, active, ticked, held, started>>
      /\ pc' = "idle"
  BY IInvParts DEF Finish
<1>2. Node' = Node
  BY <1>1, SameTree
<1>3. Types'
  BY <1>1, <1>2 DEF Types
<1> QED
  BY <1>1, <1>3, FinishStep, SameIndexed, SameCounted, IInvPartsNext

LEMMA InitIInv == Init => IInv
<1> SUFFICES ASSUME Init PROVE IInv
  OBVIOUS
<1>1. tree \in Trees /\ Node \subseteq Nat /\ 1 \in Node
  BY TreeFacts DEF Init
<1>2. Running = {} /\ active = {} /\ ticked = {} /\ held = {} /\ pc = "idle" /\ at = 1
  BY DEF Init, Running
<1>3. On = {}
  BY <1>2 DEF On
<1>4. Types
  BY <1>1 DEF Init, Types
<1>5. Indexed
  <2>1. \A n \in Node : index[n] = 1
    BY DEF Init
  <2> QED
    BY <1>1, <2>1, NodeFacts DEF Indexed
<1>6. Counted
  <2>1. Cardinality({}) = 0
    BY FS_EmptySet
  <2>2. \A n \in Node : done[n] = {} /\ success[n] = 0 /\ failure[n] = 0
    BY DEF Init
  <2> QED
    BY <2>1, <2>2 DEF Counted, OfType
<1>7. StartedIffRunning
  BY <1>2 DEF Init, StartedIffRunning
<1>8. Hangs /\ OneWay /\ Begun /\ Called /\ InTurn /\ Asked /\ Followed /\ LeftInTurn
  BY <1>2, <1>3 DEF Hangs, OneWay, Path, Begun, Called, InTurn, Asked, Followed, LeftInTurn
<1> QED
  BY <1>4, <1>5, <1>6, <1>7, <1>8, IInvParts DEF Flow

LEMMA NextIInv == IInv /\ [Next]_vars => IInv'
<1> SUFFICES ASSUME IInv, [Next]_vars PROVE IInv'
  OBVIOUS
<1>1. CASE Tick
  BY <1>1, TickPreserves
<1>2. CASE pc = "run" /\ Run(at)
  BY <1>2, RunPreserves
<1>3. CASE pc = "update" /\ Update(at)
  BY <1>3, UpdateActionStep, UpdatePreconditionStep, UpdateSelectorStep, UpdateSequenceStep,
     UpdateParallelStep DEF Update
<1>4. CASE pc = "back" /\ Finish
  BY <1>4, FinishPreserves
<1>5. CASE pc = "back" /\ Back(at)
  <2>1. PICK c : c = at
    OBVIOUS
  <2>2. PICK p : p = Parent(c)
    OBVIOUS
  <2>3. c # 1
    BY <1>5, <2>1 DEF Back
  <2>4. CASE BackInPrecondition(p, c)
    BY <1>5, <2>1, <2>2, <2>3, <2>4, BackInPreconditionStep
  <2>5. CASE BackInSelector(p, c)
    BY <1>5, <2>1, <2>2, <2>3, <2>5, BackInSelectorStep
  <2>6. CASE BackInSequence(p, c)
    BY <1>5, <2>1, <2>2, <2>3, <2>6, BackInSequenceStep
  <2>7. CASE BackInParallel(p, c)
    BY <1>5, <2>1, <2>2, <2>3, <2>7, BackInParallelStep
  <2> QED
    BY <1>5, <2>1, <2>2, <2>4, <2>5, <2>6, <2>7 DEF Back
<1>6. CASE UNCHANGED vars
  <2>1. /\ UNCHANGED <<tree, state, index, done, success, failure, pc, at, active, ticked, held, started>>
    BY <1>6 DEF vars
  <2>2. Types' /\ Indexed' /\ Counted'
    BY <2>1, IInvParts, SameIndexed, SameCounted DEF Types, Node
  <2>3. /\ Node' = Node
        /\ \A n : Type(n)' = Type(n) /\ Children(n)' = Children(n) /\ Child(n)' = Child(n)
        /\ \A n : AbortsRight(n)' = AbortsRight(n) /\ AbortsSelf(n)' = AbortsSelf(n)
        /\ \A n : OfType(n)' = OfType(n)
        /\ \A n : Parent(n)' = Parent(n)
        /\ \A n : Position(n)' = Position(n)
    BY <2>1, SameTree
  <2>4. Running' = Running /\ Path' = Path
    BY <2>1, <2>3 DEF Running, Path
  <2>5. \A n : ReachesBack(n)' = ReachesBack(n) /\ IsAt(n)' = IsAt(n) 
    BY <2>1, <2>3 DEF ReachesBack, IsAt
  <2>6. On' = On
    BY <2>1, <2>3, <2>4, <2>5 DEF On, Left
  <2>7. \A n : Fits(n)' = Fits(n) /\ ToCome(n)' = ToCome(n)
    BY <2>1, <2>3, <2>4, <2>5 DEF Fits, ToCome
  <2>8. StartedIffRunning' /\ Begun' /\ Called' /\ Followed'
    BY <2>1, <2>3, <2>4, <2>7, IInvParts DEF Flow, StartedIffRunning, Begun, Called, Followed
  <2>9. Hangs' /\ OneWay' /\ InTurn' /\ Asked'
    BY <2>1, <2>3, <2>4, <2>5, <2>6, <2>7, IInvParts DEF Flow, Hangs, OneWay, InTurn, Asked
  <2>10. LeftInTurn'
    <3> SUFFICES ASSUME NEW p \in On, p \in ticked, Type(p) = "SELECTOR",
                        NEW i \in 1 .. index[p] - 1, NEW d, d = Children(p)[i], AbortsRight(d)
                 PROVE  d \in ticked \/ ToCome(d)
      BY <2>1, <2>3, <2>6, <2>7 DEF LeftInTurn, OfType
    <3> QED
      BY IInvParts DEF Flow, LeftInTurn, OfType, On, Running, IInv, TypeOK
  <2> QED
    BY <2>2, <2>8, <2>9, <2>10, IInvPartsNext DEF Flow
<1> QED
  BY <1>1, <1>2, <1>3, <1>4, <1>5, <1>6 DEF Next

(* No guard that runs is asked from the left: it is where its parent is.    *)
LEMMA LeftStep ==
    IInv /\ Left \cap Running = {} /\ [Next]_vars => (Left \cap Running = {})'
<1> SUFFICES ASSUME IInv, Left \cap Running = {}, [Next]_vars, NEW n, n \in Left', n \in Running'
             PROVE  FALSE
  OBVIOUS
<1>1. pc' = "update" /\ at' = n /\ ReachesBack(n)'
  BY DEF Left
<1>2. CASE pc = "run" /\ Run(at)
  <2>1. /\ UNCHANGED <<tree, state>> /\ at = n
        /\ state[n] = "RUNNING" => UNCHANGED index
    BY <1>1, <1>2 DEF Run
  <2>2. n \in Running /\ UNCHANGED index
    BY <2>1 DEF Running, Node
  <2>3. n # 1 /\ Type(Parent(n)) = "SELECTOR" /\ Position(n) < index[Parent(n)]
    BY <1>1, <2>1, <2>2, SameTree DEF ReachesBack
  <2>4. n \in On
    BY <1>2, <2>2 DEF On, Left
  <2>5. IsAt(n)
    BY <2>3, <2>4 DEF IInv, Hangs
  <2>6. Position(n) \in Nat
    BY <2>2, <2>3, ParentFacts DEF IInv, TypeOK, Running
  <2> QED
    BY <2>3, <2>5, <2>6 DEF IsAt
<1>3. CASE UNCHANGED vars
  <2>1. UNCHANGED <<tree, state, index, pc, at>>
    BY <1>3 DEF vars
  <2>2. n \in Left /\ n \in Running
    BY <2>1, SameTree DEF Left, Running, ReachesBack
  <2> QED
    BY <2>2
<1>4. CASE Tick
  BY <1>1, <1>4 DEF Tick
<1>5. CASE pc = "back" /\ Finish
  BY <1>1, <1>5 DEF Finish
<1>6. CASE pc = "update" /\ Update(at)
  <2>1. pc' \in {"run", "back"}
    BY <1>6 DEF Update, UpdateAction, UpdatePrecondition, UpdateSelector, UpdateSequence,
                UpdateParallel, RunOthers, Return, Call
  <2> QED
    BY <1>1, <2>1
<1>7. CASE pc = "back" /\ Back(at)
  <2>1. pc' \in {"run", "back"}
    BY <1>7 DEF Back, BackInPrecondition, BackInSelector, BackInSequence, BackInParallel,
                Advance, RunOthers, Return, Call
  <2> QED
    BY <1>1, <2>1
<1> QED
  BY <1>2, <1>3, <1>4, <1>5, <1>6, <1>7 DEF Next

LEMMA SpecIInv == Spec => [](IInv /\ Left \cap Running = {})
<1>1. Init => IInv /\ Left \cap Running = {}
  BY InitIInv DEF Init, Left
<1>2. IInv /\ Left \cap Running = {} /\ [Next]_vars => (IInv /\ Left \cap Running = {})'
  BY NextIInv, LeftStep
<1> QED
  BY <1>1, <1>2, PTL DEF Spec

-----------------------------------------------------------------------------
(* The theorems.                                                            *)

(* After a tick nobody is being run, and everything that runs was.          *)
LEMMA IdleFacts ==
    ASSUME IInv, pc = "idle"
    PROVE  /\ On = Running /\ Running \subseteq ticked
           /\ \A n : ~ToCome(n)
<1>1. active = {} /\ tree \in Trees
  BY DEF IInv, OneWay, TypeOK
<1>2. On = Running
  BY <1>1 DEF On, Left
<1>3. \A n : ~ToCome(n)
  BY <1>1 DEF ToCome, Path
<1>4. \A n \in Running \ ticked : n # 1 /\ Parent(n) \in Running \ ticked
  BY <1>2, <1>3 DEF IInv, InTurn, Hangs
<1>5. Running \ ticked \in SUBSET Node
  BY DEF Running
<1>6. Running \ ticked = {}
  BY <1>1, <1>4, <1>5, ParentsRunOut
<1> QED
  BY <1>2, <1>3, <1>6

\* The fields keep their types, index_ stays among the children, and a
\* ParallelNode counts each child it is done with once
\* (behavior_tree/behavior_node.h: ParallelNode::Update).
THEOREM BehaviorTypes == Spec => []TypeOK
<1>1. IInv => TypeOK
  BY DEF IInv
<1> QED
  BY <1>1, SpecIInv, PTL

\* Whatever resets a node and wherever in a tick, its OnInitialize and
\* OnTerminate alternate (BehaviorNode::Run and Reset).
THEOREM StartedOnceStoppedOnce == Spec => []StartedIffRunning
<1>1. IInv => StartedIffRunning
  BY DEF IInv
<1> QED
  BY <1>1, SpecIInv, PTL

\* At any moment what runs hangs from a parent that runs and is at it, and
\* after a tick it was run in that tick: an abort leaves nothing behind
\* (PreconditionNode::Reevaluation and the OnTerminate of every node).
THEOREM NothingRunsAlone == Spec => []RunningHangsTogether
<1>1. IInv /\ Left \cap Running = {} => RunningHangsTogether
  <2> SUFFICES ASSUME IInv, Left \cap Running = {} PROVE RunningHangsTogether
    OBVIOUS
  <2>1. ASSUME NEW n \in Running \ {1}
        PROVE  Parent(n) \in Running \cup active /\ IsAt(n)
    BY DEF On, IInv, Hangs
  <2>2. pc = "idle" => Running \subseteq ticked
    BY IdleFacts
  <2> QED
    BY <2>1, <2>2 DEF RunningHangsTogether, IsAt
<1> QED
  BY <1>1, SpecIInv, PTL

\* A guard with AbortType SELF or BOTH is asked on every tick of the subtree
\* it guards (PreconditionNode::Update).
THEOREM GuardsAreAsked == Spec => []GuardedWhileRunning
<1>1. IInv => GuardedWhileRunning
  BY IdleFacts DEF IInv, Asked, GuardedWhileRunning
<1> QED
  BY <1>1, SpecIInv, PTL

\* Before a selector goes on with its child it has given every guard to the
\* left that aborts lower priorities its turn (SelectorNode::Update).
THEOREM PriorityIsKept == Spec => []LeftGuardsWentFirst
<1>1. IInv => LeftGuardsWentFirst
  <2> SUFFICES ASSUME IInv, pc = "idle",
                      NEW n \in Running, Type(n) = "SELECTOR", NEW i \in 1 .. index[n] - 1,
                      NEW d, d = Children(n)[i], AbortsRight(d)
               PROVE  d \in ticked /\ (d \in held => Child(d) \in ticked)
    BY DEF LeftGuardsWentFirst, OfType
  <2>1. n \in On /\ n \in ticked /\ n \in Node
    BY IdleFacts DEF Running
  <2>2. d \in ticked
    BY <2>1, IdleFacts DEF IInv, LeftInTurn, OfType
  <2>3. d \in held => Child(d) \in ticked
    BY DEF IInv, Followed
  <2> QED
    BY <2>2, <2>3
<1> QED
  BY <1>1, SpecIInv, PTL

\* In a tree without parallel nodes at most one action runs, at any moment of a
\* tick (BehaviorNode::Run, PreconditionNode::Reevaluation).  The nodes that run
\* are on one way down: were there two actions, two others would have one parent.
THEOREM OneCommandAtATime == Spec => []OneActionRuns
<1>1. IInv => OneActionRuns
  <2> SUFFICES ASSUME IInv, OfType("PARALLEL") = {},
                      NEW a \in Running \cup active, NEW b \in Running \cup active,
                      Type(a) = "ACTION", Type(b) = "ACTION", a # b
               PROVE  FALSE
    BY DEF OneActionRuns, OfType
  <2>1. /\ tree \in Trees /\ a \in On /\ b \in On
        /\ \A n \in On : n \in Node
        /\ \A n \in On \ {1} : Parent(n) \in On /\ IsAt(n)
    BY DEF On, Left, ReachesBack, AbortsRight, Running, IInv, TypeOK, Hangs
  <2> DEFINE S == On \ {1}
             T == (On \ {a}) \ {b}
             f == [n \in S |-> Parent(n)]
  <2>2. ASSUME NEW n \in S
        PROVE  Parent(n) \in T
    <3>1. Parent(n) \in On /\ Type(Parent(n)) # "ACTION"
      BY <2>1, <2>2, ParentFacts
    <3> QED
      BY <3>1
  <2>3. IsFiniteSet(On)
    <3>1. Len(tree) \in Int /\ On \subseteq 1 .. Len(tree)
      BY <2>1, TreeFacts
    <3>2. IsFiniteSet(1 .. Len(tree))
      BY <3>1, FS_Interval
    <3> QED
      BY <3>1, <3>2, FS_Subset
  <2>4. /\ IsFiniteSet(S) /\ Cardinality(On) \in Nat
        /\ Cardinality(S) >= Cardinality(On) - 1
    <3>1. Cardinality(On) \in Nat
      BY <2>3, FS_CardinalityType
    <3>2. IsFiniteSet(S)
      BY <2>3, FS_RemoveElement
    <3>3. Cardinality(S) = IF 1 \in On THEN Cardinality(On) - 1 ELSE Cardinality(On)
      BY <2>3, FS_RemoveElement
    <3> QED
      BY <3>1, <3>2, <3>3
  <2>5. IsFiniteSet(T) /\ Cardinality(T) = Cardinality(On) - 2
    <3>1. IsFiniteSet(On \ {a}) /\ Cardinality(On \ {a}) = Cardinality(On) - 1
      BY <2>1, <2>3, FS_RemoveElement
    <3>2. b \in On \ {a}
      BY <2>1
    <3>3. IsFiniteSet(T) /\ Cardinality(T) = Cardinality(On \ {a}) - 1
      BY <3>1, <3>2, FS_RemoveElement
    <3> QED
      BY <2>4, <3>1, <3>3
  <2>6. f \in [S -> T]
    BY <2>2
  <2>7. Cardinality(T) < Cardinality(S)
    <3>1. Cardinality(S) \in Nat /\ Cardinality(T) \in Nat
      BY <2>4, <2>5, FS_CardinalityType
    <3> QED
      BY <2>4, <2>5, <3>1
  <2> HIDE DEF T, f
  <2>8. \E x, y \in S : x # y /\ f[x] = f[y]
    BY <2>4, <2>5, <2>6, <2>7, FS_PigeonHole
  <2>9. PICK x \in S, y \in S : x # y /\ f[x] = f[y]
    BY <2>8
  <2>10. Parent(x) = Parent(y)
    BY <2>9 DEF f
  <2>11. PICK p : p = Parent(x)
    OBVIOUS
  <2>12. /\ x \in Node /\ y \in Node /\ x # 1 /\ y # 1 /\ IsAt(x) /\ IsAt(y)
         /\ p \in Node /\ p = Parent(x) /\ p = Parent(y)
         /\ Type(p) \in {"PRECONDITION", "SELECTOR", "SEQUENCE"}
    <3>1. x \in Node /\ y \in Node /\ x # 1 /\ y # 1 /\ IsAt(x) /\ IsAt(y)
      BY <2>1
    <3>2. p \in Node /\ Type(p) # "ACTION"
      BY <2>1, <2>11, <3>1, ParentFacts
    <3>3. Type(p) # "PARALLEL"
      BY <3>2 DEF OfType
    <3>4. Type(p) \in {"ACTION", "PRECONDITION", "SELECTOR", "SEQUENCE", "PARALLEL"}
      BY <2>1, <3>2, NodeFacts
    <3> QED
      BY <2>10, <2>11, <3>1, <3>2, <3>3, <3>4
  <2>13. CASE Type(p) = "PRECONDITION"
    BY <2>1, <2>9, <2>12, <2>13, OnlyChild
  <2>14. CASE Type(p) \in {"SELECTOR", "SEQUENCE"}
    <3>1. Position(x) = Position(y)
      BY <2>12, <2>14 DEF IsAt
    <3> QED
      BY <2>1, <2>9, <2>12, <3>1, Siblings
  <2> QED
    BY <2>12, <2>13, <2>14
<1> QED
  BY <1>1, SpecIInv, PTL
=============================================================================
