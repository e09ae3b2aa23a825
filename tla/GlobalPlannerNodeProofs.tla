---------------------- MODULE GlobalPlannerNodeProofs ----------------------
(***************************************************************************)
(* Proofs about GlobalPlannerNode, for any number of goals.                *)
(***************************************************************************)
EXTENDS GlobalPlannerNode, TLAPS

Early == {"set_goal", "get_state", "set_running"}    \* before RUNNING is sure
Asking == {"notify", "loop", "answer", "set_idle"}   \* and after

\* An Execute that waits for a verdict was there when the one it sees was given.
Waiting == \A g \in Goal : pc[g] \in {"notify", "loop"} /\ node_state_ \in Verdict
                           => g \in verdict.waiting

\* The planner is only told to plan by an Execute that has not ended.
Wanted == node_state_ = "RUNNING" => \E g \in Goal : pc[g] \in Asking

\* What is known while a goal is alone.
LoneGoal(g) ==
  /\ \A h \in Goal : InPlay(h) => h = g
  /\ pc[g] \in Early => plan_pc \in {"asleep", "await"}
  /\ pc[g] \in {"get_state", "set_running"} \cup Asking => goal_ = g
  /\ pc[g] \in Asking => /\ plan_pc \in {"convert", "plan", "decide", "near"} => current_goal = g
                         /\ node_state_ \in Verdict => verdict.about = g

Lone == \A g \in Goal : alone[g] /\ InPlay(g) => LoneGoal(g)

Answered == \A g \in Goal :
              alone[g] /\ (pc[g] = "answer" \/ handle[g] \in {"succeeded", "aborted"})
              => answer[g] = g

Known == \A g \in Goal : handle[g] = "unknown" => pc[g] = "unknown"

IInv == TypeOK /\ Known /\ Waiting /\ Wanted /\ Lone /\ Answered

LEMMA InitHolds == Init => IInv
<1> SUFFICES ASSUME Init PROVE IInv
  OBVIOUS
<1>1. TypeOK
  <2>1. retries \in 0 .. max_retries_ + 1
    BY PlannerAssumption DEF Init
  <2>3. late \in BOOLEAN
    BY DEF Init
  <2>4. alone \in [Goal -> BOOLEAN]
    BY Zenon DEF Init
  <2>2. verdict \in [about : Goal \cup {NoGoal}, waiting : SUBSET Goal]
    BY DEF Init
  <2> QED  BY <2>1, <2>2, <2>3, <2>4 DEF Init, TypeOK, NodeState
<1>2. Known /\ Waiting /\ Wanted /\ Lone /\ Answered
  BY DEF Init, Known, Waiting, Wanted, Lone, Answered, InPlay, Verdict
<1> QED  BY <1>1, <1>2 DEF IInv

LEMMA TypeStep == TypeOK /\ [Next]_vars => TypeOK'
<1> SUFFICES ASSUME TypeOK, [Next]_vars PROVE TypeOK'
  OBVIOUS
<1> USE PlannerAssumption DEF TypeOK, NodeState, Verdict
<1>1. ASSUME NEW g \in Goal, Accept(g) PROVE TypeOK'
  BY <1>1 DEF Accept, MoveTo, planner, InPlay
<1>2. ASSUME NEW g \in Goal, Cancel(g) PROVE TypeOK'
  BY <1>2 DEF Cancel, planner
<1>3. ASSUME NEW g \in Goal, SetGoal(g) PROVE TypeOK'
  BY <1>3 DEF SetGoal, MoveTo, planner
<1>4. ASSUME NEW g \in Goal, GetState(g) PROVE TypeOK'
  BY <1>4 DEF GetState, MoveTo, planner
<1>5. ASSUME NEW g \in Goal, SetRunning(g) PROVE TypeOK'
  BY <1>5 DEF SetRunning, MoveTo, planner
<1>6. ASSUME NEW g \in Goal, Notify(g) PROVE TypeOK'
  BY <1>6 DEF Notify, MoveTo, planner
<1>7. ASSUME NEW g \in Goal, Canceled(g) PROVE TypeOK'
  BY <1>7 DEF Canceled, MoveTo, planner
<1>8. ASSUME NEW g \in Goal, Poll(g) PROVE TypeOK'
  BY <1>8 DEF Poll, MoveTo, planner
<1>9. ASSUME NEW g \in Goal, Answer(g) PROVE TypeOK'
  BY <1>9 DEF Answer, MoveTo, planner
<1>10. ASSUME NEW g \in Goal, SetIdle(g) PROVE TypeOK'
  BY <1>10 DEF SetIdle, MoveTo, planner
<1>11. ASSUME Wake \/ GoOnPlanning \/ GetGoal \/ ConvertGoal \/ Plan \/ KeepEnd PROVE TypeOK'
  BY <1>11 DEF Wake, GoOnPlanning, GetGoal, ConvertGoal, Plan, KeepEnd, server
<1>12. ASSUME ComeNear PROVE TypeOK'
  BY <1>12 DEF ComeNear, Sleep, Decided, server
<1>13. ASSUME GiveUp PROVE TypeOK'
  BY <1>13 DEF GiveUp, Sleep, Decided, server
<1>14. ASSUME Retry PROVE TypeOK'
  BY <1>14 DEF Retry, Sleep, server
<1>15. ASSUME UNCHANGED vars PROVE TypeOK'
  BY <1>15 DEF vars, planner, server
<1> QED  BY <1>1, <1>2, <1>3, <1>4, <1>5, <1>6, <1>7, <1>8, <1>9, <1>10, <1>11, <1>12,
            <1>13, <1>14, <1>15 DEF Next, PlanThread, Execute

\* A verdict is given in view of every Execute that waits; one that begins to wait does so
\* at RUNNING.
LEMMA WaitingStep == TypeOK /\ Waiting /\ [Next]_vars => Waiting'
<1> SUFFICES ASSUME TypeOK, Waiting, [Next]_vars PROVE Waiting'
  OBVIOUS
<1> USE DEF TypeOK, NodeState, Verdict, Waiting
<1>1. ASSUME NEW g \in Goal, Accept(g) \/ Cancel(g) \/ SetGoal(g) \/ GetState(g)
      PROVE  Waiting'
  BY <1>1 DEF Accept, Cancel, SetGoal, GetState, MoveTo
<1>2. ASSUME NEW g \in Goal, SetRunning(g) \/ Notify(g) \/ Canceled(g) PROVE Waiting'
  BY <1>2 DEF SetRunning, Notify, Canceled, MoveTo
<1>3. ASSUME NEW g \in Goal, Poll(g) \/ Answer(g) \/ SetIdle(g) PROVE Waiting'
  BY <1>3 DEF Poll, Answer, SetIdle, MoveTo
<1>4. ASSUME Wake \/ GoOnPlanning \/ GetGoal \/ ConvertGoal \/ Plan \/ KeepEnd \/ Retry
      PROVE  Waiting'
  BY <1>4 DEF Wake, GoOnPlanning, GetGoal, ConvertGoal, Plan, KeepEnd, Retry, server
<1>5. ASSUME ComeNear \/ GiveUp PROVE Waiting'
  BY <1>5 DEF ComeNear, GiveUp, Decided, server
<1>6. ASSUME UNCHANGED vars PROVE Waiting'
  BY <1>6 DEF vars, server
<1> QED  BY <1>1, <1>2, <1>3, <1>4, <1>5, <1>6 DEF Next, PlanThread, Execute

LEMMA KnownStep == TypeOK /\ Known /\ [Next]_vars => Known'
<1> SUFFICES ASSUME TypeOK, Known, [Next]_vars PROVE Known'
  OBVIOUS
<1> USE DEF TypeOK, Known
<1>1. ASSUME NEW g \in Goal, Accept(g) \/ Cancel(g) \/ SetGoal(g) \/ GetState(g)
      PROVE  Known'
  BY <1>1 DEF Accept, Cancel, SetGoal, GetState, MoveTo
<1>2. ASSUME NEW g \in Goal, SetRunning(g) \/ Notify(g) \/ Canceled(g) PROVE Known'
  BY <1>2 DEF SetRunning, Notify, Canceled, MoveTo
<1>3. ASSUME NEW g \in Goal, Poll(g) \/ Answer(g) \/ SetIdle(g) PROVE Known'
  BY <1>3 DEF Poll, Answer, SetIdle, MoveTo
<1>4. ASSUME UNCHANGED server PROVE Known'
  BY <1>4 DEF server
<1>5. PlanThread \/ UNCHANGED vars => UNCHANGED server
  BY DEF PlanThread, Wake, GoOnPlanning, GetGoal, ConvertGoal, Plan, KeepEnd, Retry, ComeNear,
         GiveUp, vars
<1> QED  BY <1>1, <1>2, <1>3, <1>4, <1>5 DEF Next, Execute

\* An Execute that began to ask takes RUNNING with it when it ends.
LEMMA WantedStep == TypeOK /\ Known /\ Wanted /\ [Next]_vars => Wanted'
<1> SUFFICES ASSUME TypeOK, Known, Wanted, [Next]_vars, node_state_' = "RUNNING"
             PROVE  \E g \in Goal : pc'[g] \in Asking
  BY DEF Wanted, Asking
<1> USE DEF TypeOK, Asking
<1>1. ASSUME NEW g \in Goal, SetRunning(g) PROVE \E h \in Goal : pc'[h] \in Asking
  BY <1>1 DEF SetRunning, MoveTo
<1>2. ASSUME node_state_' = node_state_ PROVE \E h \in Goal : pc[h] \in Asking
  BY <1>2 DEF Wanted
<1>3. ASSUME NEW g \in Goal, Accept(g) \/ Cancel(g) \/ SetGoal(g) \/ GetState(g)
      PROVE  \E h \in Goal : pc'[h] \in Asking
  <2>1. node_state_' = node_state_
    BY <1>3 DEF Accept, Cancel, SetGoal, GetState
  <2>2. PICK h \in Goal : pc[h] \in Asking
    BY <1>2, <2>1
  <2>3. pc'[h] = pc[h]
    BY <1>3, <2>2 DEF Accept, Cancel, SetGoal, GetState, MoveTo, Known
  <2> QED  BY <2>2, <2>3
<1>4. ASSUME NEW g \in Goal, Notify(g) \/ Canceled(g) \/ Poll(g) \/ Answer(g)
      PROVE  \E h \in Goal : pc'[h] \in Asking
  BY <1>4 DEF Notify, Canceled, Poll, Answer, MoveTo
<1>5. ASSUME NEW g \in Goal, SetIdle(g) PROVE FALSE
  BY <1>5 DEF SetIdle
<1>6. ASSUME PlanThread \/ UNCHANGED vars PROVE \E h \in Goal : pc'[h] \in Asking
  <2>1. pc' = pc
    BY <1>6 DEF PlanThread, Wake, GoOnPlanning, GetGoal, ConvertGoal, Plan, KeepEnd, Retry,
                ComeNear, GiveUp, vars, server
  <2>2. node_state_' = node_state_
    BY <1>6 DEF PlanThread, Wake, GoOnPlanning, GetGoal, ConvertGoal, Plan, KeepEnd, Retry,
                ComeNear, GiveUp, Decided, vars
  <2> QED  BY <1>2, <2>1, <2>2
<1> QED  BY <1>1, <1>3, <1>4, <1>5, <1>6 DEF Next, Execute

-----------------------------------------------------------------------------
\* A goal that comes alone finds the planner between two rounds, and nobody but it gives
\* the planner something to do.
LEMMA LoneStep == TypeOK /\ Wanted /\ Lone /\ [Next]_vars => Lone'
<1> SUFFICES ASSUME TypeOK, Wanted, Lone, [Next]_vars,
                    NEW g \in Goal, alone'[g], InPlay(g)'
             PROVE  LoneGoal(g)'
  BY DEF Lone
<1> USE DEF TypeOK, Verdict
<1>1. ASSUME NEW h \in Goal, Accept(h) PROVE LoneGoal(g)'
  <2>1. h = g
    BY <1>1 DEF Accept, MoveTo, InPlay
  <2>2. /\ \A i \in Goal : ~InPlay(i)
        /\ plan_pc \in {"asleep", "await"}
    BY <1>1, <2>1 DEF Accept
  <2>3. pc' = [pc EXCEPT ![g] = "set_goal"] /\ plan_pc' = plan_pc
    BY <1>1, <2>1 DEF Accept, MoveTo, planner
  <2> QED  BY <2>2, <2>3 DEF LoneGoal, InPlay, Early, Asking
<1>2. ASSUME alone' = alone, InPlay(g) PROVE LoneGoal(g)
  BY <1>2 DEF Lone
<1>3. ASSUME NEW h \in Goal, Cancel(h) PROVE LoneGoal(g)'
  <2>1. LoneGoal(g)
    BY <1>2, <1>3 DEF Cancel, InPlay
  <2> QED  BY <1>3, <2>1 DEF Cancel, LoneGoal, InPlay, planner
<1>4. ASSUME NEW h \in Goal, Execute(h) PROVE LoneGoal(g)'
  <2>1. alone' = alone /\ InPlay(h) /\ UNCHANGED <<planner, verdict>>
    BY <1>4 DEF Execute, SetGoal, GetState, SetRunning, Notify, Canceled, Poll, Answer, SetIdle, InPlay
  <2>2. pc' = [pc EXCEPT ![h] = pc'[h]]
    BY <1>4 DEF Execute, SetGoal, GetState, SetRunning, Notify, Canceled, Poll, Answer, SetIdle, MoveTo
  <2>3. InPlay(g)
    BY <2>1, <2>2 DEF InPlay
  <2>4. LoneGoal(g) /\ h = g
    BY <1>2, <2>1, <2>3 DEF LoneGoal
  <2>5. \A i \in Goal : InPlay(i)' => i = g
    BY <2>2, <2>4 DEF LoneGoal, InPlay
  <2>6. CASE SetGoal(g)
    BY <2>6, <2>1, <2>4, <2>5 DEF SetGoal, MoveTo, LoneGoal, Early, Asking, planner
  <2>7. CASE GetState(g)
    <3>1. pc[g] \in Early /\ goal_' = goal_ /\ node_state_' = node_state_
      BY <2>7 DEF GetState, Early
    <3>2. node_state_ # "RUNNING"
      <4>1. \A i \in Goal : pc[i] \in Asking => i = g
        BY <2>4 DEF LoneGoal, InPlay, Asking
      <4> QED  BY <4>1, <3>1 DEF Wanted, Early, Asking
    <3>3. pc'[g] = "set_running"
      BY <2>7, <3>2 DEF GetState, MoveTo
    <3> QED  BY <2>7, <3>1, <3>3, <2>1, <2>4, <2>5 DEF GetState, LoneGoal, Early, Asking, planner
  <2>8. CASE SetRunning(g)
    BY <2>8, <2>1, <2>4, <2>5 DEF SetRunning, MoveTo, LoneGoal, Early, Asking, planner
  <2>9. CASE Notify(g) \/ Canceled(g) \/ Poll(g) \/ Answer(g)
    BY <2>9, <2>1, <2>4, <2>5
    DEF Notify, Canceled, Poll, Answer, MoveTo, LoneGoal, Early, Asking, planner
  <2>10. CASE SetIdle(g)
    BY <2>10, <2>3 DEF SetIdle, MoveTo, InPlay
  <2> QED  BY <1>4, <2>4, <2>6, <2>7, <2>8, <2>9, <2>10 DEF Execute
<1>5. ASSUME PlanThread PROVE LoneGoal(g)'
  <2>1. alone' = alone /\ pc' = pc
    BY <1>5 DEF PlanThread, Wake, GoOnPlanning, GetGoal, ConvertGoal, Plan, KeepEnd, Retry,
                ComeNear, GiveUp, server
  <2>2. LoneGoal(g) /\ \A i \in Goal : InPlay(i)' => i = g
    BY <1>2, <2>1 DEF InPlay, LoneGoal
  <2>3. pc[g] \in Early \cup Asking
    BY <2>1 DEF InPlay, Early, Asking
  <2>4. node_state_ = "RUNNING" => pc[g] \in Asking
    <3>1. \A i \in Goal : pc[i] \in Asking => i = g
      BY <2>2 DEF LoneGoal, InPlay, Asking
    <3> QED  BY <3>1 DEF Wanted
  <2>5. CASE Wake
    BY <2>5, <2>1, <2>2 DEF Wake, LoneGoal
  <2>6. CASE GoOnPlanning
    BY <2>6, <2>1, <2>2, <2>4 DEF GoOnPlanning, LoneGoal, Early, Asking
  <2>7. CASE GetGoal
    BY <2>7, <2>1, <2>2, <2>3 DEF GetGoal, LoneGoal, Early, Asking
  <2>8. CASE ConvertGoal \/ Plan \/ KeepEnd
    BY <2>8, <2>1, <2>2, <2>3 DEF ConvertGoal, Plan, KeepEnd, LoneGoal, Early, Asking
  <2>9. CASE ComeNear
    BY <2>9, <2>1, <2>2, <2>3 DEF ComeNear, Sleep, Decided, LoneGoal, Early, Asking
  <2>10. CASE GiveUp
    BY <2>10, <2>1, <2>2, <2>3 DEF GiveUp, Sleep, Decided, LoneGoal, Early, Asking
  <2>11. CASE Retry
    BY <2>11, <2>1, <2>2, <2>3 DEF Retry, Sleep, LoneGoal, Early, Asking
  <2> QED  BY <1>5, <2>5, <2>6, <2>7, <2>8, <2>9, <2>10, <2>11 DEF PlanThread
<1>6. ASSUME UNCHANGED vars PROVE LoneGoal(g)'
  <2>1. LoneGoal(g)
    BY <1>2, <1>6 DEF vars, server, InPlay
  <2> QED  BY <1>6, <2>1 DEF vars, server, planner, LoneGoal, InPlay
<1> QED  BY <1>1, <1>3, <1>4, <1>5, <1>6 DEF Next

LEMMA AnsweredStep == TypeOK /\ Lone /\ Answered /\ [Next]_vars => Answered'
<1> SUFFICES ASSUME TypeOK, Lone, Answered, [Next]_vars PROVE Answered'
  OBVIOUS
<1> USE DEF TypeOK, Answered
<1>1. ASSUME NEW g \in Goal, Accept(g) PROVE Answered'
  BY <1>1 DEF Accept, MoveTo
<1>2. ASSUME NEW g \in Goal, Cancel(g) \/ SetGoal(g) \/ GetState(g) PROVE Answered'
  BY <1>2 DEF Cancel, SetGoal, GetState, MoveTo
<1>3. ASSUME NEW g \in Goal, SetRunning(g) \/ Notify(g) \/ Canceled(g) PROVE Answered'
  BY <1>3 DEF SetRunning, Notify, Canceled, MoveTo
<1>4. ASSUME NEW g \in Goal, Poll(g) PROVE Answered'
  <2>1. alone[g] => verdict.about = g
    BY <1>4 DEF Poll, Lone, LoneGoal, InPlay, Asking
  <2> QED  BY <1>4, <2>1 DEF Poll, MoveTo
<1>5. ASSUME NEW g \in Goal, Answer(g) \/ SetIdle(g) PROVE Answered'
  BY <1>5 DEF Answer, SetIdle, MoveTo
<1>6. ASSUME UNCHANGED <<server, alone>> PROVE Answered'
  BY <1>6 DEF server
<1>7. PlanThread \/ UNCHANGED vars => UNCHANGED <<server, alone>>
  BY DEF PlanThread, Wake, GoOnPlanning, GetGoal, ConvertGoal, Plan, KeepEnd, Retry, ComeNear,
         GiveUp, vars
<1> QED  BY <1>1, <1>2, <1>3, <1>4, <1>5, <1>6, <1>7 DEF Next, Execute

LEMMA Inductive == Spec => []IInv
<1>1. IInv /\ [Next]_vars => IInv'
  BY TypeStep, KnownStep, WaitingStep, WantedStep, LoneStep, AnsweredStep DEF IInv
<1> QED  BY <1>1, InitHolds, PTL DEF Spec

-----------------------------------------------------------------------------
\* The threads of the global planner keep the types of what they share.
THEOREM PlannerTyped == Spec => []TypeOK
<1>1. IInv => TypeOK
  BY DEF IInv
<1> QED  BY <1>1, Inductive, PTL

\* No goal ends with a SUCCESS or FAILURE that was there when it came (lines 121-123 and 140).
THEOREM VerdictsAreFresh == Spec => FreshVerdict
<1>1. IInv /\ [Next]_vars => [\A g \in Goal : Poll(g) => g \in verdict.waiting]_vars
  BY DEF IInv, Waiting, Poll
<1> QED  BY <1>1, Inductive, PTL DEF Spec, FreshVerdict

\* A goal that comes when nothing is going on, and that no other joins, is answered with the
\* verdict on itself.
THEOREM LoneGoalsGetTheirOwn == Spec => []OwnResult
<1>1. IInv => OwnResult
  BY DEF IInv, Answered, OwnResult
<1> QED  BY <1>1, Inductive, PTL

\* The planner is not told to plan when every goal has ended.
THEOREM PlannerIsWanted == Spec => []Wanted
<1>1. IInv => Wanted
  BY DEF IInv
<1> QED  BY <1>1, Inductive, PTL
=============================================================================
