----------------------- MODULE LocalPlannerNodeProofs -----------------------
(***************************************************************************)
(* Proofs about LocalPlannerNode, for any number of goals, overlapping in  *)
(* any way.                                                                *)
(***************************************************************************)
EXTENDS LocalPlannerNode, TLAPS

\* Where an Execute is that will look at the thread before it ends.
Owning == {"loop", "answer", "set_idle", "stop_check", "stop_join", "stop_joining"}

Before == {"entry", "try_lock", "set_plan"}
Starting == {"begin", "start_check", "set_running", "assign"}

\* A thread that runs is to be joined, one that has exited has stopped the wheels.
ThreadKept == /\ loop_pc # "exited" => joinable
              /\ loop_pc = "exited" => velocity = None

\* Whoever started the thread has not ended before it was joined.
Owned == joinable => \E g \in Goal : pc[g] \in Owning

\* What is known while a goal is alone.
LoneGoal(g) ==
  /\ \A h \in Goal : InPlay(h) => h = g
  /\ ~terminated
  /\ pc[g] \in Before \cup Starting \cup Owning
  /\ pc[g] \in Starting \cup Owning => plan = g
  /\ pc[g] = "stop_join" => joinable
  /\ velocity \in {g, None}

Lone == \A g \in Goal : alone[g] /\ InPlay(g) => LoneGoal(g)

Known == \A g \in Goal : handle[g] = "unknown" => pc[g] = "unknown"

IInv == TypeOK /\ Known /\ ThreadKept /\ Owned /\ Lone

LEMMA InitHolds == Init => IInv
<1> SUFFICES ASSUME Init PROVE IInv
  OBVIOUS
<1>1. TypeOK
  <2>1. error_count \in 0 .. max_error_ + 1
    BY PlannerAssumption DEF Init
  <2>2. joinable \in BOOLEAN /\ terminated \in BOOLEAN
    BY DEF Init
  <2>3. alone \in [Goal -> BOOLEAN]
    BY Zenon DEF Init
  <2> QED  BY <2>1, <2>2, <2>3 DEF Init, TypeOK, NodeState
<1>2. Known /\ ThreadKept /\ Owned /\ Lone
  BY DEF Init, Known, ThreadKept, Owned, Lone, InPlay
<1> QED  BY <1>1, <1>2 DEF IInv

\* What every step of an Execute has in common: it moves, and leaves alone what is not its own.
LEMMA ExecuteFrame ==
  ASSUME TypeOK, NEW g \in Goal, Execute(g)
  PROVE  /\ InPlay(g)
         /\ pc' = [pc EXCEPT ![g] = pc'[g]]
         /\ UNCHANGED <<alone, velocity>>
         /\ \A h \in Goal : handle[h] = "unknown" => handle'[h] = "unknown" \/ h = g
<1> USE DEF TypeOK
<1>1. CASE Enter(g) \/ TryLock(g) \/ SetPlan(g) \/ Begin(g)
  BY <1>1 DEF Enter, TryLock, SetPlan, Begin, MoveTo, Reply, InPlay, loop
<1>2. CASE StartPlanning(g)
  BY <1>2 DEF StartPlanning, CheckJoinable, Join, Joined, SetRunning, Assign, MoveTo, InPlay, loop
<1>3. CASE Canceled(g) \/ Poll(g) \/ Answer(g)
  BY <1>3 DEF Canceled, Poll, Answer, MoveTo, Reply, InPlay, loop
<1>4. CASE StopPlanning(g)
  BY <1>4 DEF StopPlanning, CheckJoinable, Join, Joined, SetIdle, MoveTo, InPlay, loop
<1> QED  BY <1>1, <1>2, <1>3, <1>4 DEF Execute

LEMMA TypeStep == TypeOK /\ [Next]_vars => TypeOK'
<1> SUFFICES ASSUME TypeOK, [Next]_vars PROVE TypeOK'
  OBVIOUS
<1> USE PlannerAssumption DEF TypeOK, NodeState
<1>1. ASSUME NEW g \in Goal, Accept(g) PROVE TypeOK'
  BY <1>1 DEF Accept, MoveTo, Reply, loop, InPlay
<1>2. ASSUME NEW g \in Goal, Cancel(g) PROVE TypeOK'
  BY <1>2 DEF Cancel, Reply, loop
<1>3. ASSUME NEW g \in Goal, Enter(g) PROVE TypeOK'
  BY <1>3 DEF Enter, MoveTo, Reply, loop
<1>4. ASSUME NEW g \in Goal, TryLock(g) \/ SetPlan(g) \/ Begin(g) PROVE TypeOK'
  BY <1>4 DEF TryLock, SetPlan, Begin, MoveTo, loop
<1>5. ASSUME NEW g \in Goal, StartPlanning(g) PROVE TypeOK'
  <2>1. CASE SetRunning(g)
    BY <2>1 DEF SetRunning, MoveTo, loop
  <2>5. CASE Assign(g)
    <3>1. joinable' \in BOOLEAN /\ terminated' \in BOOLEAN
      BY <2>5 DEF Assign
    <3>2. 0 \in 0 .. max_error_ + 1
      OBVIOUS
    <3> QED  BY <2>5, <3>1, <3>2 DEF Assign, MoveTo, loop
  <2>2. CASE CheckJoinable(g, "start_check", "start_join", "set_running")
    BY <2>2 DEF CheckJoinable, MoveTo, loop
  <2>3. CASE Join(g, "start_join", "start_joining")
    BY <2>3 DEF Join, MoveTo, loop
  <2>4. CASE Joined(g, "start_joining", "set_running")
    BY <2>4 DEF Joined, MoveTo, loop
  <2> QED  BY <1>5, <2>1, <2>2, <2>3, <2>4, <2>5 DEF StartPlanning
<1>6. ASSUME NEW g \in Goal, Canceled(g) \/ Poll(g) \/ Answer(g) PROVE TypeOK'
  BY <1>6 DEF Canceled, Poll, Answer, MoveTo, Reply, loop
<1>7. ASSUME NEW g \in Goal, StopPlanning(g) PROVE TypeOK'
  <2>1. CASE SetIdle(g)
    BY <2>1 DEF SetIdle, MoveTo, loop
  <2>2. CASE CheckJoinable(g, "stop_check", "stop_join", "done")
    BY <2>2 DEF CheckJoinable, MoveTo, loop
  <2>3. CASE Join(g, "stop_join", "stop_joining")
    BY <2>3 DEF Join, MoveTo, loop
  <2>4. CASE Joined(g, "stop_joining", "done")
    BY <2>4 DEF Joined, MoveTo, loop
  <2> QED  BY <1>7, <2>1, <2>2, <2>3, <2>4 DEF StopPlanning
<1>8. ASSUME Initialize \/ While \/ Reached \/ GiveUp \/ Halt PROVE TypeOK'
  BY <1>8 DEF Initialize, While, Reached, GiveUp, Halt, outside, server
<1>9. ASSUME Drive PROVE TypeOK'
  BY <1>9 DEF Drive, outside, server
<1>10. ASSUME Retry PROVE TypeOK'
  BY <1>10 DEF Retry, outside, server
<1>11. ASSUME UNCHANGED vars PROVE TypeOK'
  BY <1>11 DEF vars, loop, server
<1> QED  BY <1>1, <1>2, <1>3, <1>4, <1>5, <1>6, <1>7, <1>8, <1>9, <1>10, <1>11
         DEF Next, Execute, Loop

LEMMA KnownStep == TypeOK /\ Known /\ [Next]_vars => Known'
<1> SUFFICES ASSUME TypeOK, Known, [Next]_vars PROVE Known'
  OBVIOUS
<1> USE DEF TypeOK, Known
<1>1. ASSUME NEW g \in Goal, Accept(g) PROVE Known'
  BY <1>1 DEF Accept, MoveTo, Reply
<1>2. ASSUME NEW g \in Goal, Cancel(g) PROVE Known'
  BY <1>2 DEF Cancel, Reply
<1>3. ASSUME NEW g \in Goal, Execute(g) PROVE Known'
  <2>1. handle'[g] # "unknown" /\ \A h \in Goal \ {g} : handle'[h] = handle[h]
    BY <1>3, ExecuteFrame DEF Execute, Enter, TryLock, SetPlan, Begin, StartPlanning, Canceled, Poll,
       Answer, StopPlanning, CheckJoinable, Join, Joined, SetRunning, Assign, SetIdle, Reply, InPlay
  <2>2. pc' = [pc EXCEPT ![g] = pc'[g]]
    BY <1>3, ExecuteFrame
  <2> QED  BY <2>1, <2>2
<1>4. Loop \/ UNCHANGED vars => UNCHANGED server
  BY DEF Loop, Initialize, While, Drive, Reached, Retry, GiveUp, Halt, outside, vars
<1>5. ASSUME UNCHANGED server PROVE Known'
  BY <1>5 DEF server
<1> QED  BY <1>1, <1>2, <1>3, <1>4, <1>5 DEF Next

-----------------------------------------------------------------------------
LEMMA ThreadKeptStep == TypeOK /\ ThreadKept /\ [Next]_vars => ThreadKept'
<1> SUFFICES ASSUME TypeOK, ThreadKept, [Next]_vars PROVE ThreadKept'
  OBVIOUS
<1> USE DEF TypeOK, ThreadKept
<1>1. ASSUME NEW g \in Goal, Accept(g) \/ Cancel(g) \/ Enter(g) \/ TryLock(g) \/ SetPlan(g) \/ Begin(g)
      PROVE  ThreadKept'
  BY <1>1 DEF Accept, Cancel, Enter, TryLock, SetPlan, Begin, loop
<1>2. ASSUME NEW g \in Goal, StartPlanning(g) PROVE ThreadKept'
  BY <1>2 DEF StartPlanning, CheckJoinable, Join, Joined, SetRunning, Assign, loop
<1>3. ASSUME NEW g \in Goal, Canceled(g) \/ Poll(g) \/ Answer(g) \/ StopPlanning(g)
      PROVE  ThreadKept'
  BY <1>3 DEF Canceled, Poll, Answer, StopPlanning, SetIdle, CheckJoinable, Join, Joined, loop
<1>4. ASSUME Loop PROVE ThreadKept'
  BY <1>4 DEF Loop, Initialize, While, Drive, Reached, Retry, GiveUp, Halt, outside
<1>5. ASSUME UNCHANGED vars PROVE ThreadKept'
  BY <1>5 DEF vars, loop
<1> QED  BY <1>1, <1>2, <1>3, <1>4, <1>5 DEF Next, Execute

\* The Execute that started the thread leaves only when it is joined, by itself or another.
LEMMA OwnedStep == TypeOK /\ Known /\ Owned /\ [Next]_vars => Owned'
<1> SUFFICES ASSUME TypeOK, Known, Owned, [Next]_vars, joinable'
             PROVE  \E g \in Goal : pc'[g] \in Owning
  BY DEF Owned
<1> USE DEF TypeOK
<1>1. ASSUME NEW g \in Goal, Assign(g) PROVE \E h \in Goal : pc'[h] \in Owning
  BY <1>1 DEF Assign, MoveTo, Owned, Owning
<1>2. ASSUME joinable PROVE \E h \in Goal : pc[h] \in Owning
  BY <1>2 DEF Owned
<1>3. ASSUME NEW g \in Goal, Accept(g) \/ Cancel(g) PROVE \E h \in Goal : pc'[h] \in Owning
  <2>1. PICK h \in Goal : pc[h] \in Owning
    BY <1>2, <1>3 DEF Accept, Cancel
  <2>2. pc'[h] = pc[h]
    BY <1>3, <2>1 DEF Accept, Cancel, MoveTo, Known, Owning
  <2> QED  BY <2>1, <2>2
<1>4. ASSUME NEW g \in Goal,
             Enter(g) \/ TryLock(g) \/ SetPlan(g) \/ Begin(g) \/ SetRunning(g)
               \/ CheckJoinable(g, "start_check", "start_join", "set_running")
               \/ Join(g, "start_join", "start_joining") \/ Joined(g, "start_joining", "set_running")
      PROVE  \E h \in Goal : pc'[h] \in Owning
  <2>1. joinable /\ pc[g] \notin Owning
    BY <1>4 DEF Enter, TryLock, SetPlan, Begin, SetRunning, CheckJoinable, Join, Joined, Owning
  <2>2. PICK h \in Goal : pc[h] \in Owning
    BY <1>2, <2>1
  <2>3. pc'[h] = pc[h]
    BY <1>4, <2>1, <2>2 DEF Enter, TryLock, SetPlan, Begin, SetRunning, CheckJoinable, Join, Joined, MoveTo
  <2> QED  BY <2>2, <2>3
<1>5. ASSUME NEW g \in Goal, Canceled(g) \/ Poll(g) \/ Answer(g) \/ StopPlanning(g)
      PROVE  \E h \in Goal : pc'[h] \in Owning
  <2>1. pc'[g] \in Owning
    BY <1>5 DEF Canceled, Poll, Answer, StopPlanning, SetIdle, CheckJoinable, Join, Joined, MoveTo, Owning
  <2> QED  BY <2>1
<1>6. ASSUME Loop \/ UNCHANGED vars PROVE \E h \in Goal : pc'[h] \in Owning
  <2>1. pc' = pc /\ joinable
    BY <1>6 DEF Loop, Initialize, While, Drive, Reached, Retry, GiveUp, Halt, outside, vars, server
  <2> QED  BY <1>2, <2>1
<1> QED  BY <1>1, <1>3, <1>4, <1>5, <1>6 DEF Next, Execute, StartPlanning

\* A goal that comes alone finds the thread joined, starts it itself and has no one to race.
LEMMA LoneStep == TypeOK /\ ThreadKept /\ Owned /\ Lone /\ [Next]_vars => Lone'
<1> SUFFICES ASSUME TypeOK, ThreadKept, Owned, Lone, [Next]_vars,
                    NEW g \in Goal, alone'[g], InPlay(g)'
             PROVE  LoneGoal(g)'
  BY DEF Lone
<1> USE DEF TypeOK
<1>1. ASSUME ~terminated, NEW h \in Goal, Accept(h) PROVE LoneGoal(g)'
  <2>1. h = g /\ \A i \in Goal : ~InPlay(i)
    BY <1>1 DEF Accept, MoveTo, InPlay
  <2>2. ~joinable
    BY <2>1 DEF Owned, Owning, InPlay
  <2>3. velocity = None
    BY <2>2 DEF ThreadKept
  <2>4. pc' = [pc EXCEPT ![g] = "entry"] /\ velocity' = velocity /\ ~terminated'
    BY <1>1, <2>1 DEF Accept, MoveTo, loop
  <2> QED  BY <2>1, <2>3, <2>4 DEF LoneGoal, InPlay, Before, Starting, Owning
<1>2. ASSUME NEW h \in Goal, Cancel(h) PROVE LoneGoal(g)'
  <2>1. LoneGoal(g)
    BY <1>2 DEF Cancel, InPlay, Lone
  <2> QED  BY <1>2, <2>1 DEF Cancel, LoneGoal, InPlay, loop
<1>3. ASSUME NEW h \in Goal, Execute(h) PROVE LoneGoal(g)'
  <2>1. /\ InPlay(h) /\ pc' = [pc EXCEPT ![h] = pc'[h]] /\ UNCHANGED <<alone, velocity>>
    BY <1>3, ExecuteFrame
  <2>2. LoneGoal(g) /\ h = g
    BY <2>1 DEF InPlay, Lone, LoneGoal
  <2>3. \A i \in Goal : InPlay(i)' => i = g
    BY <2>1, <2>2 DEF LoneGoal, InPlay
  <2>4. pc[g] \in Before \cup Starting => ~joinable
    <3>1. \A i \in Goal : pc[i] \in Owning => i = g
      BY <2>2 DEF LoneGoal, InPlay, Owning
    <3> QED  BY <3>1 DEF Owned, Before, Starting, Owning
  <2>5. \A i \in Goal : i # g => ~InPlay(i)
    BY <2>2 DEF LoneGoal
  <2> USE DEF Before, Starting, Owning
  <2>6. CASE Enter(g)
    BY <2>6, <2>1, <2>2, <2>3 DEF Enter, MoveTo, LoneGoal, InPlay
  <2>7. CASE TryLock(g)
    <3>1. ~ \E i \in Goal : pc[i] = "set_plan"
      BY <2>7, <2>5 DEF TryLock, InPlay
    <3> QED  BY <2>7, <3>1, <2>1, <2>2, <2>3 DEF TryLock, MoveTo, LoneGoal
  <2>8. CASE SetPlan(g) \/ Begin(g)
    BY <2>8, <2>1, <2>2, <2>3 DEF SetPlan, Begin, MoveTo, LoneGoal
  <2>9. CASE SetRunning(g) \/ CheckJoinable(g, "start_check", "start_join", "set_running")
    BY <2>9, <2>1, <2>2, <2>3, <2>4 DEF SetRunning, CheckJoinable, MoveTo, LoneGoal
  <2>10. CASE Join(g, "start_join", "start_joining") \/ Joined(g, "start_joining", "set_running")
    BY <2>10, <2>2 DEF Join, Joined, LoneGoal
  <2>11. CASE Assign(g)
    BY <2>11, <2>1, <2>2, <2>3, <2>4 DEF Assign, MoveTo, LoneGoal
  <2>12. CASE Canceled(g) \/ Poll(g) \/ Answer(g) \/ SetIdle(g)
    BY <2>12, <2>1, <2>2, <2>3 DEF Canceled, Poll, Answer, SetIdle, MoveTo, LoneGoal
  <2>13. CASE CheckJoinable(g, "stop_check", "stop_join", "done")
    BY <2>13, <2>1, <2>2, <2>3 DEF CheckJoinable, MoveTo, LoneGoal, InPlay
  <2>14. CASE Join(g, "stop_join", "stop_joining")
    <3>1. \A i \in Goal : pc[i] \notin {"start_joining", "stop_joining"}
      BY <2>14, <2>5 DEF Join, InPlay
    <3>2. joinable
      BY <2>14, <2>2 DEF Join, LoneGoal
    <3> QED  BY <2>14, <3>1, <3>2, <2>1, <2>2, <2>3 DEF Join, MoveTo, LoneGoal
  <2>15. CASE Joined(g, "stop_joining", "done")
    BY <2>15, <2>1 DEF Joined, MoveTo, InPlay
  <2> QED  BY <1>3, <2>2, <2>6, <2>7, <2>8, <2>9, <2>10, <2>11, <2>12, <2>13, <2>14, <2>15
           DEF Execute, StartPlanning, StopPlanning
<1>4. ASSUME Loop PROVE LoneGoal(g)'
  <2>1. alone' = alone /\ pc' = pc /\ terminated' = terminated /\ plan' = plan
    BY <1>4 DEF Loop, Initialize, While, Drive, Reached, Retry, GiveUp, Halt, outside, server
  <2>2. LoneGoal(g)
    BY <2>1 DEF Lone, InPlay
  <2>3. loop_pc # "exited"
    BY <1>4 DEF Loop, Initialize, While, Drive, Reached, Retry, GiveUp, Halt
  <2>4. pc[g] \in Owning
    BY <2>2, <2>3 DEF ThreadKept, Owned, LoneGoal, InPlay, Owning
  <2>5. velocity' \in {velocity, plan, None}
    BY <1>4 DEF Loop, Initialize, While, Drive, Reached, Retry, GiveUp, Halt
  <2>6. joinable' = joinable
    BY <1>4 DEF Loop, Initialize, While, Drive, Reached, Retry, GiveUp, Halt, outside
  <2> QED  BY <2>1, <2>2, <2>4, <2>5, <2>6 DEF LoneGoal, InPlay
<1>5. ASSUME UNCHANGED vars PROVE LoneGoal(g)'
  <2>1. LoneGoal(g)
    BY <1>5 DEF vars, server, InPlay, Lone
  <2> QED  BY <1>5, <2>1 DEF vars, server, loop, LoneGoal, InPlay
<1> QED  BY <1>1, <1>2, <1>3, <1>4, <1>5 DEF Next

LEMMA Inductive == Spec => []IInv
<1>1. IInv /\ [Next]_vars => IInv'
  BY TypeStep, KnownStep, ThreadKeptStep, OwnedStep, LoneStep DEF IInv
<1> QED  BY <1>1, InitHolds, PTL DEF Spec

-----------------------------------------------------------------------------
\* The threads of the local planner keep the types of what they share.
THEOREM PlannerTyped == Spec => []TypeOK
<1>1. IInv => TypeOK
  BY DEF IInv
<1> QED  BY <1>1, Inductive, PTL

\* However goals and cancels overlap, the loop has exited and the wheels stand still when no
\* Execute is left; and a goal that is alone drives its own route and joins its thread once.
THEOREM WheelsAlwaysObey == Spec => []WheelsObey
<1>1. IInv => WheelsObey
  <2> SUFFICES ASSUME IInv PROVE WheelsObey
    OBVIOUS
  <2>1. ASSUME \A g \in Goal : ~InPlay(g) PROVE loop_pc = "exited" /\ velocity = None
    BY <2>1 DEF IInv, ThreadKept, Owned, Owning, InPlay
  <2> QED  BY <2>1 DEF IInv, Lone, LoneGoal, WheelsObey
<1> QED  BY <1>1, Inductive, PTL
=============================================================================
