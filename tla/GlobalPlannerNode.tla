------------------------- MODULE GlobalPlannerNode -------------------------
(***************************************************************************)
(* global_planner_node.cpp: an action server with a detached Execute       *)
(* thread per accepted goal, and one planning thread for all of them.  The *)
(* threads share goal_, node_state_ and plan_mutex_, and nothing ties a    *)
(* verdict in node_state_ to the goal it is about.                         *)
(*                                                                         *)
(* A step is an access to one of the three.  What Execute tells its client *)
(* in between (path and error of the feedback) decides nothing and is left *)
(* out.  The planning thread holds plan_mutex_ but when it is asleep.      *)
(***************************************************************************)
EXTENDS Integers

CONSTANTS Goal,               \* the goals a client sends
          NoGoal,             \* goal_ before the first
          max_retries_        \* of the configuration

ASSUME PlannerAssumption == NoGoal \notin Goal /\ max_retries_ \in Nat \ {0}

VARIABLES goal_, node_state_, \* the fields
          handle,             \* of each goal: its state in the action protocol
          pc,                 \* of each goal: where its Execute is
          seen,               \* of each goal: node_state_ as its Execute read it last
          plan_pc,            \* where PlanThread is
          current_goal, outcome, retries,    \* its locals
          late,               \* sleep_time is 0: no round yet, or the last took longer than its cycle
          verdict,            \* history: the goal the last verdict is about, and who
                              \* had looked at node_state_ when it was given
          answer,             \* history, of each goal: the goal its result is about
          alone               \* history, of each goal: nothing else was going on

planner == <<plan_pc, current_goal, outcome, retries, late>>
server == <<handle, pc, seen, answer>>
vars == <<goal_, node_state_, verdict, alone, planner, server>>

Verdict == {"SUCCESS", "FAILURE"}
NodeState == {"IDLE", "RUNNING"} \cup Verdict

TypeOK == /\ goal_ \in Goal \cup {NoGoal}
          /\ node_state_ \in NodeState
          /\ handle \in [Goal -> {"unknown", "executing", "canceling",
                                  "succeeded", "aborted", "canceled"}]
          /\ pc \in [Goal -> {"unknown", "set_goal", "get_state", "set_running", "notify",
                              "loop", "answer", "set_idle", "done"}]
          /\ seen \in [Goal -> NodeState]
          /\ plan_pc \in {"asleep", "await", "pose", "convert", "plan", "decide", "near"}
          /\ current_goal \in Goal \cup {NoGoal}
          /\ outcome \in {"path", "no_path", "invalid"}
          /\ retries \in 0 .. max_retries_ + 1
          /\ late \in BOOLEAN
          /\ verdict \in [about : Goal \cup {NoGoal}, waiting : SUBSET Goal]
          /\ answer \in [Goal -> Goal \cup {NoGoal}]
          /\ alone \in [Goal -> BOOLEAN]

InPlay(g) == pc[g] \notin {"unknown", "done"}

Ended(g) == handle[g] \in {"succeeded", "aborted", "canceled"}

-----------------------------------------------------------------------------
\* InitializeNode ends in StartPlanning.
Init == /\ goal_ = NoGoal
        /\ node_state_ = "IDLE"
        /\ handle = [g \in Goal |-> "unknown"]
        /\ pc = [g \in Goal |-> "unknown"]
        /\ seen = [g \in Goal |-> "IDLE"]
        /\ plan_pc = "asleep"
        /\ current_goal = NoGoal
        /\ outcome = "no_path"
        /\ retries = 0
        /\ late = TRUE
        /\ verdict = [about |-> NoGoal, waiting |-> {}]
        /\ answer = [g \in Goal |-> NoGoal]
        /\ alone = [g \in Goal |-> FALSE]

MoveTo(g, where) == pc' = [pc EXCEPT ![g] = where]

\* HandleGoal accepts every goal, HandleAccepted starts a thread for it.  The goal is
\* alone when no other Execute is left and the planner is not in the middle of a round.
Accept(g) ==
  /\ handle[g] = "unknown"
  /\ handle' = [handle EXCEPT ![g] = "executing"]
  /\ MoveTo(g, "set_goal")
  /\ alone' = [h \in Goal |-> IF h = g THEN /\ \A i \in Goal : ~InPlay(i)
                                            /\ plan_pc \in {"asleep", "await"}
                                       ELSE alone[h] /\ ~InPlay(h)]
  /\ UNCHANGED <<goal_, node_state_, verdict, planner, seen, answer>>

\* A client asks to cancel; HandleCancel accepts.
Cancel(g) == /\ handle[g] = "executing"
             /\ handle' = [handle EXCEPT ![g] = "canceling"]
             /\ UNCHANGED <<goal_, node_state_, verdict, alone, planner, pc, seen, answer>>

SetGoal(g) == /\ pc[g] = "set_goal"
              /\ goal_' = g
              /\ MoveTo(g, "get_state")
              /\ UNCHANGED <<node_state_, verdict, alone, planner, handle, seen, answer>>

\* Mutant: RUNNING is only set over IDLE.
GetStateIdle(g) ==
  /\ pc[g] = "get_state"
  /\ MoveTo(g, IF node_state_ = "IDLE" THEN "set_running" ELSE "notify")
  /\ UNCHANGED <<goal_, node_state_, verdict, alone, planner, handle, seen, answer>>

GetState(g) ==
  /\ pc[g] = "get_state"
  /\ MoveTo(g, IF node_state_ # "RUNNING" THEN "set_running" ELSE "notify")
  /\ UNCHANGED <<goal_, node_state_, verdict, alone, planner, handle, seen, answer>>

SetRunning(g) == /\ pc[g] = "set_running"
                 /\ node_state_' = "RUNNING"
                 /\ MoveTo(g, "notify")
                 /\ UNCHANGED <<goal_, verdict, alone, planner, handle, seen, answer>>

\* Under plan_mutex_.  The planner wakes up by itself, so notify_one only hastens it.
Notify(g) == /\ pc[g] = "notify"
             /\ plan_pc = "asleep"
             /\ MoveTo(g, "loop")
             /\ UNCHANGED <<goal_, node_state_, verdict, alone, planner, handle, seen, answer>>

Canceled(g) == /\ pc[g] = "loop"
               /\ handle[g] = "canceling"
               /\ handle' = [handle EXCEPT ![g] = "canceled"]
               /\ MoveTo(g, "set_idle")
               /\ UNCHANGED <<goal_, node_state_, verdict, alone, planner, seen, answer>>

\* A turn of the loop that finds a verdict; one that finds RUNNING or IDLE changes nothing.
Poll(g) == /\ pc[g] = "loop"
           /\ handle[g] # "canceling"
           /\ node_state_ \in Verdict
           /\ seen' = [seen EXCEPT ![g] = node_state_]
           /\ answer' = [answer EXCEPT ![g] = verdict.about]
           /\ MoveTo(g, "answer")
           /\ UNCHANGED <<goal_, node_state_, verdict, alone, planner, handle>>

Answer(g) ==
  /\ pc[g] = "answer"
  /\ handle' = [handle EXCEPT ![g] = IF seen[g] = "SUCCESS" THEN "succeeded" ELSE "aborted"]
  /\ MoveTo(g, "set_idle")
  /\ UNCHANGED <<goal_, node_state_, verdict, alone, planner, seen, answer>>

\* The client has its result before this step.
SetIdle(g) == /\ pc[g] = "set_idle"
              /\ node_state_' = "IDLE"
              /\ MoveTo(g, "done")
              /\ UNCHANGED <<goal_, verdict, alone, planner, handle, seen, answer>>

Execute(g) == \/ SetGoal(g) \/ GetState(g) \/ SetRunning(g) \/ Notify(g)
              \/ Canceled(g) \/ Poll(g) \/ Answer(g) \/ SetIdle(g)

-----------------------------------------------------------------------------
\* wait_for returns, by notify_one or by its time, with plan_mutex_.  Who waits for the
\* mutex gets it while the planner sleeps; when it does not sleep, perhaps.
Wake == /\ plan_pc = "asleep"
        /\ late \/ \A g \in Goal : pc[g] # "notify"
        /\ plan_pc' = "await"
        /\ UNCHANGED <<goal_, node_state_, verdict, alone, server, current_goal, outcome, retries, late>>

GoOnPlanning == /\ plan_pc = "await"
                /\ node_state_ = "RUNNING"
                /\ plan_pc' = "pose"
                /\ UNCHANGED <<goal_, node_state_, verdict, alone, server,
                               current_goal, outcome, retries, late>>

\* Mutant: the goal is only read for a first attempt.
GetGoalOnce == /\ plan_pc = "pose"
               /\ current_goal' = IF retries = 0 THEN goal_ ELSE current_goal
               /\ plan_pc' \in {"convert", "plan"}
               /\ UNCHANGED <<goal_, node_state_, verdict, alone, server, outcome, retries, late>>

\* The pose of the robot is known at last; then the goal is read.  One that is not in the
\* frame of the map is converted and written back.
GetGoal == /\ plan_pc = "pose"
           /\ current_goal' = goal_
           /\ plan_pc' \in {"convert", "plan"}
           /\ UNCHANGED <<goal_, node_state_, verdict, alone, server, outcome, retries, late>>

ConvertGoal == /\ plan_pc = "convert"
               /\ goal_' = current_goal
               /\ plan_pc' = "plan"
               /\ UNCHANGED <<node_state_, verdict, alone, server, current_goal, outcome, retries, late>>

Plan == /\ plan_pc = "plan"
        /\ outcome' \in {"path", "no_path", "invalid"}
        /\ plan_pc' = "decide"
        /\ UNCHANGED <<goal_, node_state_, verdict, alone, server, current_goal, retries, late>>

\* The end of the path becomes the goal.
KeepEnd == /\ plan_pc = "decide"
           /\ outcome = "path"
           /\ retries' = 0
           /\ goal_' = current_goal
           /\ plan_pc' = "near"
           /\ UNCHANGED <<node_state_, verdict, alone, server, current_goal, outcome, late>>

\* SetNodeState by the planner, and what it means.
Decided(state) ==
  /\ node_state_' = state
  /\ verdict' = [about |-> current_goal,
                 waiting |-> {g \in Goal :
                                pc[g] \notin {"unknown", "set_goal", "get_state", "set_running"}}]

\* The round is over, in time or not.
Sleep == plan_pc' = "asleep" /\ late' \in BOOLEAN

\* The robot is at the goal, or it is not.
ComeNear == /\ plan_pc = "near"
            /\ \/ Decided("SUCCESS")
               \/ UNCHANGED <<node_state_, verdict>>
            /\ Sleep
            /\ UNCHANGED <<goal_, alone, server, current_goal, outcome, retries>>

GiveUp == /\ plan_pc = "decide"
          /\ outcome # "path"
          /\ retries > max_retries_ \/ outcome = "invalid"
          /\ Decided("FAILURE")
          /\ retries' = 0
          /\ Sleep
          /\ UNCHANGED <<goal_, alone, server, current_goal, outcome>>

\* Mutant: attempts are not counted.
RetryForever == /\ plan_pc = "decide"
                /\ outcome = "no_path"
                /\ retries <= max_retries_
                /\ Sleep
                /\ UNCHANGED <<goal_, node_state_, verdict, alone, server, current_goal, outcome, retries>>

Retry == /\ plan_pc = "decide"
         /\ outcome = "no_path"
         /\ retries <= max_retries_
         /\ retries' = retries + 1
         /\ Sleep
         /\ UNCHANGED <<goal_, node_state_, verdict, alone, server, current_goal, outcome>>

PlanThread == \/ Wake \/ GoOnPlanning \/ GetGoal \/ ConvertGoal \/ Plan
              \/ KeepEnd \/ ComeNear \/ GiveUp \/ Retry

Next == PlanThread \/ \E g \in Goal : Accept(g) \/ Cancel(g) \/ Execute(g)

Spec == Init /\ [][Next]_vars

\* Both kinds of threads loop without end, and the pose of the robot comes.  Nothing is
\* assumed of the clients, nor of what the planner finds.
FairSpec == /\ Spec
            /\ WF_vars(PlanThread)
            /\ \A g \in Goal : WF_vars(Execute(g))

-----------------------------------------------------------------------------
\* Whatever clients do, a goal never ends with a verdict that was there when it came: its
\* Execute replaces one by RUNNING (line 121), and reads a verdict given after that.
FreshVerdict == [][\A g \in Goal : Poll(g) => g \in verdict.waiting]_vars

\* A goal that came when nothing was going on, and that no other goal joined, ends with the
\* verdict on itself.  A verdict on a goal that was canceled in the middle of a round, or a
\* goal_ written back by that round, is what can get in its way.
OwnResult ==
  \A g \in Goal : alone[g] /\ handle[g] \in {"succeeded", "aborted"} => answer[g] = g

\* Such a goal is answered when it is canceled, and when the planner never finds a path for
\* it: its Execute is not forgotten at node_state_ IDLE.  After a late round it may be: the
\* planner can take plan_mutex_ again before Execute has it and wait for RUNNING with it.
LoneGoalsEnd ==
  \A g \in Goal :
    /\ (alone[g] /\ handle[g] = "canceling") ~> (Ended(g) \/ ~alone[g] \/ late)
    /\ (alone[g] /\ InPlay(g)) ~> (Ended(g) \/ ~alone[g] \/ late \/ outcome = "path")
=============================================================================
