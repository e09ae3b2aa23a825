-------------------------- MODULE LocalPlannerNode --------------------------
(***************************************************************************)
(* local_planner_node.cpp: an action server with a detached Execute thread *)
(* per accepted goal, and a control loop in local_planner_thread_ that the *)
(* Executes start, stop and join by themselves.  ChassisExecutor sends a   *)
(* goal for every path it is told, so Executes overlap; nothing but        *)
(* node_state_ keeps them from the thread object at the same time.         *)
(*                                                                         *)
(* A step is an access to what is shared.  Error codes are left out.       *)
(***************************************************************************)
EXTENDS Integers

CONSTANTS Goal,               \* the goals a client sends, and their routes
          None,               \* no route; zero velocity
          max_error_

ASSUME PlannerAssumption == None \notin Goal /\ max_error_ \in Nat \ {0}

VARIABLES node_state_,        \* the field
          plan,               \* the route local_planner_ has
          joinable,           \* local_planner_thread_ is a thread to be joined
          terminated,         \* std::terminate: a thread was joined twice or assigned over
          velocity,           \* what cmd_vel_ was published for last
          loop_pc, error_count,    \* the control loop
          handle,             \* of each goal: its state in the action protocol
          pc, seen,           \* of each goal: where its Execute is, the node_state it read
          alone               \* history, of each goal: no other was in play with it

loop == <<velocity, loop_pc, error_count>>
server == <<handle, pc, seen>>
vars == <<node_state_, plan, joinable, terminated, loop, server, alone>>

NodeState == {"IDLE", "RUNNING", "SUCCESS", "FAILURE"}

TypeOK == /\ node_state_ \in NodeState
          /\ plan \in Goal \cup {None}
          /\ joinable \in BOOLEAN
          /\ terminated \in BOOLEAN
          /\ velocity \in Goal \cup {None}
          /\ loop_pc \in {"exited", "initialize", "while", "compute", "reached", "halt"}
          /\ error_count \in 0 .. max_error_ + 1
          /\ handle \in [Goal -> {"unknown", "executing", "canceling",
                                  "succeeded", "aborted", "canceled"}]
          /\ pc \in [Goal -> {"unknown", "entry", "try_lock", "set_plan", "begin",
                              "start_check", "start_join", "start_joining", "set_running", "assign",
                              "loop", "answer",
                              "set_idle", "stop_check", "stop_join", "stop_joining", "done"}]
          /\ seen \in [Goal -> NodeState]
          /\ alone \in [Goal -> BOOLEAN]

InPlay(g) == pc[g] \notin {"unknown", "done"}

Ended(g) == handle[g] \in {"succeeded", "aborted", "canceled"}

-----------------------------------------------------------------------------
\* InitializeNode; when it fails the program ends.
Init == /\ node_state_ = "IDLE"
        /\ plan = None
        /\ joinable = FALSE
        /\ terminated = FALSE
        /\ velocity = None
        /\ loop_pc = "exited"
        /\ error_count = 0
        /\ handle = [g \in Goal |-> "unknown"]
        /\ pc = [g \in Goal |-> "unknown"]
        /\ seen = [g \in Goal |-> "IDLE"]
        /\ alone = [g \in Goal |-> FALSE]

MoveTo(g, where) == pc' = [pc EXCEPT ![g] = where]

Reply(g, status) == handle' = [handle EXCEPT ![g] = status]

\* HandleGoal accepts every goal, HandleAccepted starts a thread for it.
Accept(g) ==
  /\ handle[g] = "unknown"
  /\ Reply(g, "executing")
  /\ MoveTo(g, "entry")
  /\ alone' = [h \in Goal |-> IF h = g THEN \A i \in Goal : ~InPlay(i)
                                       ELSE alone[h] /\ ~InPlay(h)]
  /\ UNCHANGED <<node_state_, plan, joinable, terminated, loop, seen>>

\* A client asks to cancel; HandleCancel accepts.
Cancel(g) == /\ handle[g] = "executing"
             /\ Reply(g, "canceling")
             /\ UNCHANGED <<node_state_, plan, joinable, terminated, loop, pc, seen, alone>>

Enter(g) == /\ pc[g] = "entry"
            /\ seen' = [seen EXCEPT ![g] = node_state_]
            /\ IF node_state_ = "FAILURE"
               THEN Reply(g, "aborted") /\ MoveTo(g, "done")
               ELSE MoveTo(g, "try_lock") /\ UNCHANGED handle
            /\ UNCHANGED <<node_state_, plan, joinable, terminated, loop, alone>>

\* plan_mtx_ is held by an Execute in set_plan; the control loop does not know it.
TryLock(g) ==
  /\ pc[g] = "try_lock"
  /\ MoveTo(g, IF \E h \in Goal : pc[h] = "set_plan" THEN "begin" ELSE "set_plan")
  /\ UNCHANGED <<node_state_, plan, joinable, terminated, loop, handle, seen, alone>>

SetPlan(g) == /\ pc[g] = "set_plan"
              /\ plan' = g
              /\ MoveTo(g, "begin")
              /\ UNCHANGED <<node_state_, joinable, terminated, loop, handle, seen, alone>>

\* Planning is started by who found IDLE when it entered.
Begin(g) == /\ pc[g] = "begin"
            /\ MoveTo(g, IF seen[g] = "IDLE" THEN "start_check" ELSE "loop")
            /\ UNCHANGED <<node_state_, plan, joinable, terminated, loop, handle, seen, alone>>

\* "if joinable() join()" of the thread object, in four steps: the answer of joinable, the
\* call of join, which throws when the thread has been joined or is being joined, and its
\* return when the thread has exited.
CheckJoinable(g, check, join, after) ==
  /\ pc[g] = check
  /\ MoveTo(g, IF joinable THEN join ELSE after)
  /\ UNCHANGED <<node_state_, plan, joinable, terminated, loop, handle, seen, alone>>

Join(g, join, joining) ==
  /\ pc[g] = join
  /\ IF joinable /\ \A h \in Goal : pc[h] \notin {"start_joining", "stop_joining"}
     THEN MoveTo(g, joining) /\ UNCHANGED terminated
     ELSE terminated' = TRUE /\ UNCHANGED pc
  /\ UNCHANGED <<node_state_, plan, joinable, loop, handle, seen, alone>>

Joined(g, joining, after) ==
  /\ pc[g] = joining
  /\ loop_pc = "exited"
  /\ joinable' = FALSE
  /\ MoveTo(g, after)
  /\ UNCHANGED <<node_state_, plan, terminated, loop, handle, seen, alone>>

\* StartPlanning.
SetRunning(g) == /\ pc[g] = "set_running"
                 /\ node_state_' = "RUNNING"
                 /\ MoveTo(g, "assign")
                 /\ UNCHANGED <<plan, joinable, terminated, loop, handle, seen, alone>>

\* To assign over a thread that is to be joined terminates.
Assign(g) ==
  /\ pc[g] = "assign"
  /\ IF joinable
     THEN terminated' = TRUE /\ UNCHANGED <<joinable, pc, loop>>
     ELSE /\ joinable' = TRUE
          /\ loop_pc' = "initialize"
          /\ error_count' = 0
          /\ MoveTo(g, "loop")
          /\ UNCHANGED <<terminated, velocity>>
  /\ UNCHANGED <<node_state_, plan, handle, seen, alone>>

StartPlanning(g) == \/ CheckJoinable(g, "start_check", "start_join", "set_running")
                    \/ Join(g, "start_join", "start_joining")
                    \/ Joined(g, "start_joining", "set_running")
                    \/ SetRunning(g)
                    \/ Assign(g)

\* Mutant: StopPlanning waits for the loop without telling it to end.
SetIdleNot(g) == /\ pc[g] = "set_idle"
                 /\ MoveTo(g, "stop_check")
                 /\ UNCHANGED <<node_state_, plan, joinable, terminated, loop, handle, seen, alone>>

SetIdle(g) == /\ pc[g] = "set_idle"
              /\ node_state_' = "IDLE"
              /\ MoveTo(g, "stop_check")
              /\ UNCHANGED <<plan, joinable, terminated, loop, handle, seen, alone>>

\* Mutant: the loop is told to end, but not waited for.
StopPlanningNoJoin(g) == SetIdle(g) \/ CheckJoinable(g, "stop_check", "done", "done")

StopPlanning(g) == \/ SetIdle(g)
                   \/ CheckJoinable(g, "stop_check", "stop_join", "done")
                   \/ Join(g, "stop_join", "stop_joining")
                   \/ Joined(g, "stop_joining", "done")

Canceled(g) == /\ pc[g] = "loop"
               /\ handle[g] = "canceling"
               /\ Reply(g, "canceled")
               /\ MoveTo(g, "set_idle")
               /\ UNCHANGED <<node_state_, plan, joinable, terminated, loop, seen, alone>>

\* A turn of the loop that finds a verdict; one that finds RUNNING or IDLE changes nothing.
Poll(g) == /\ pc[g] = "loop"
           /\ handle[g] # "canceling"
           /\ node_state_ \in {"SUCCESS", "FAILURE"}
           /\ seen' = [seen EXCEPT ![g] = node_state_]
           /\ MoveTo(g, "answer")
           /\ UNCHANGED <<node_state_, plan, joinable, terminated, loop, handle, alone>>

Answer(g) == /\ pc[g] = "answer"
             /\ Reply(g, IF seen[g] = "SUCCESS" THEN "succeeded" ELSE "aborted")
             /\ MoveTo(g, "set_idle")
             /\ UNCHANGED <<node_state_, plan, joinable, terminated, loop, seen, alone>>

Execute(g) == \/ Enter(g) \/ TryLock(g) \/ SetPlan(g) \/ Begin(g) \/ StartPlanning(g)
              \/ Canceled(g) \/ Poll(g) \/ Answer(g) \/ StopPlanning(g)

-----------------------------------------------------------------------------
outside == <<plan, joinable, terminated, server, alone>>

Initialize == /\ loop_pc = "initialize"
              /\ node_state_' \in {node_state_, "FAILURE"}
              /\ loop_pc' = "while"
              /\ UNCHANGED <<outside, velocity, error_count>>

While == /\ loop_pc = "while"
         /\ loop_pc' = IF node_state_ = "RUNNING" THEN "compute" ELSE "halt"
         /\ UNCHANGED <<outside, node_state_, velocity, error_count>>

\* ComputeVelocityCommands succeeds, and the goal is reached or not.
Drive == /\ loop_pc = "compute"
         /\ velocity' = plan
         /\ error_count' = 0
         /\ loop_pc' \in {"reached", "while"}
         /\ UNCHANGED <<outside, node_state_>>

Reached == /\ loop_pc = "reached"
           /\ node_state_' = "SUCCESS"
           /\ loop_pc' = "while"
           /\ UNCHANGED <<outside, velocity, error_count>>

Retry == /\ loop_pc = "compute"
         /\ error_count <= max_error_
         /\ error_count' = error_count + 1
         /\ loop_pc' = "while"
         /\ UNCHANGED <<outside, node_state_, velocity>>

GiveUp == /\ loop_pc = "compute"
          /\ error_count > max_error_
          /\ node_state_' = "FAILURE"
          /\ loop_pc' = "while"
          /\ UNCHANGED <<outside, velocity, error_count>>

Halt == /\ loop_pc = "halt"
        /\ velocity' = None
        /\ loop_pc' = "exited"
        /\ UNCHANGED <<outside, node_state_, error_count>>

Loop == Initialize \/ While \/ Drive \/ Reached \/ Retry \/ GiveUp \/ Halt

Next == /\ ~terminated
        /\ Loop \/ \E g \in Goal : Accept(g) \/ Cancel(g) \/ Execute(g)

Spec == Init /\ [][Next]_vars

\* Threads run.  Nothing is assumed of the clients, nor of what the planner computes.
FairSpec == /\ Spec
            /\ WF_vars(~terminated /\ Loop)
            /\ \A g \in Goal : WF_vars(~terminated /\ Execute(g))

-----------------------------------------------------------------------------
\* When the last Execute has ended the wheels stand still and no thread moves them, however
\* goals and cancels overlapped (lines 157, 178: the result is out before StopPlanning).
\* While a goal is alone they follow no other route, and its thread is joined once.
WheelsObey ==
  /\ (\A g \in Goal : ~InPlay(g)) => loop_pc = "exited" /\ velocity = None
  /\ \A g \in Goal : alone[g] /\ InPlay(g) => velocity \in {g, None} /\ ~terminated

\* A goal that no other joins ends, with its thread, when it is canceled or when the loop
\* has a verdict: StopPlanning waits for no thread that goes on.
LoneGoalsEnd ==
  \A g \in Goal :
    alone[g] /\ InPlay(g) /\ (handle[g] # "executing" \/ node_state_ \in {"SUCCESS", "FAILURE"})
      ~> ~InPlay(g) \/ ~alone[g]
=============================================================================
