# RoboRTS in TLA+

RoboRTS is the ROS 2 software of a RoboMaster robot: a serial SDK for the chassis and the gimbal,
planners, localization, armor detection and a behavior tree that decides. This directory models the
parts of it in which several threads, devices or callbacks meet: TLA+ modules translated from the
sources, TLC configurations that check them on small instances, and proofs of what holds in every
instance. `tlc -config X.cfg M` runs a check, `tlapm M.tla` a proof; PROJECT.json says which module each
configuration belongs to, and which source lines each definition stands for.

## The system

| part | source | state | operations | interacts with |
| --- | --- | --- | --- | --- |
| SDK circular buffer | roborts_sdk/utilities/circular_buffer.h | ring, head, tail, full | Push, Pop, Reset | one per command, filled by the receive thread, emptied by Spin |
| SDK memory pool | roborts_sdk/utilities/memory_pool.h | block table, bytes | AllocMemory, FreeMemory | packets of all sessions |
| SDK sessions | roborts_sdk/protocol | command sessions, ack sessions, sequence number | SendCMD, SendACK, AutoRepeatSendCheck, ContainerHandler | pool, serial line, dispatch |
| SDK stream parser | roborts_sdk/protocol | receive stream, reuse index | ByteHandler, CheckStream, ReuseStream | serial device, sessions |
| SDK dispatch | roborts_sdk/dispatch | pending requests of clients, turn of Spin | Spin, Take, AsyncSendRequest, HandleResponse | rings, sessions, base nodes |
| Serial device | roborts_sdk/hardware | file descriptor | Read, Write, reconnect | parser |
| Base nodes | roborts_base | subscriptions, heartbeat threads | copy fields | SDK, ROS |
| Global planner node | roborts_planning/global_planner | goal, path, node state, error | Execute per goal, PlanThread | executor, costmap |
| Local planner node | roborts_planning/local_planner | plan, node state, thread | Execute per goal, Loop, Start/StopPlanning | executor, costmap, chassis |
| A* | roborts_planning/global_planner/a_star_planner | scores, parents, open list | Plan, SearchPath | global planner node, costmap |
| TEB | roborts_planning/local_planner/timed_elastic_band | optimisation graph | ComputeVelocityCommands | local planner node, costmap |
| Executors | roborts_decision/executor | mode, goal handle | Execute, Update, Cancel, callbacks | behaviors, planner nodes |
| Behavior tree | roborts_decision/behavior_tree | state, index and counters of each node | Run, Reset, Reevaluation | behaviors |
| Blackboard, behaviors | roborts_decision | goals, enemy pose | Run, Cancel | executors, detection, tf |
| Armor detection node | roborts_detection/armor_detection | node state, thread, undetected count | Start/Pause/StopThread, ExecuteLoop | decision, camera |
| Armor detection algorithm | constraint_set, gimbal_control | images | DetectArmor | node |
| Costmap interface | roborts_costmap | initialized, stopped flags | MapUpdateLoop, Start, Stop, Pause, Resume | planner nodes, layers |
| Costmap layers | roborts_costmap | master grid, a grid per layer, bounds of the last update | UpdateMap, UpdateBounds, UpdateCosts, InComingMap, ClearCostMap | interface, both planners |
| Localization | roborts_localization | particles | AMCL update | tf |
| Tracking, vslam, camera, bringup | | images, launch files | | |

What is hard in it, and what makes each part right:

* Sessions. The application, the poll thread and the receive thread share the session tables; flags
  are read outside the lock that guards them. Packets are lost, acks come late and twice, the other side
  repeats its commands. Right means: a request is answered at most once and its session comes back; it
  is sent at most retry_time times, but for late transmissions that an answer has overtaken; a command of the other side is delivered once and its repetitions
  get its own answer; packets share a pool of bytes that moves them about, and nobody's packet is lost.
* Dispatch. Spin visits the ring of each command; what is not for the visitor goes back to the tail.
  Right means: no item lost but by overflow, every response finds its request.
* Behavior tree. Resets and guards reach across the tree in the middle of a tick. Right means: a node
  is started and stopped in turn, nothing runs that was not asked for, guards hold.
* Stream parser. Bytes of damaged frames are fed to the parser again out of the buffer it fills. Right
  means: every place of the stream is looked at once, the two parts of the buffer never meet, a replay
  ends.
* Planner nodes. Every goal has a detached thread; they share one node state with the planning thread
  and nothing ties a verdict to its goal. Right means: no goal ends with a verdict older than itself, a
  goal alone ends with its own, a cancel is answered, and the wheels stand still when nobody wants
  anything any more.
* A*. Scores are not refreshed in the heap and neighbors are offsets of indices. Right means: a path is
  a chain of accessible neighbors, a failure means that there is none.
* Costmap layers. An update redoes a window only, found from the bounds that the layers touch. Right
  means: what the windows leave alone still fits what the layers hold.
* Executors, armor detection node, costmap interface: not modelled; hazards are listed in PROJECT.json.

## Modules

| module | models | proofs |
| --- | --- | --- |
| CircularBuffer | circular_buffer.h, one action per operation | CircularBufferProofs |
| DropOldestFifo | abstract: a queue that drops its oldest item when full | |
| MemoryPool | memory_pool.h as operators on a pool value | ProtocolProofs |
| PoolUsers | any sequence of the calls the sessions make of a pool | ProtocolProofs |
| BlockStore | abstract: blocks by handle that keep their contents | |
| Protocol | the sessions and their three threads, over MemoryPool, with the line and the devices | ProtocolProofs |
| StreamParser, MCStreamParser | ByteHandler and StreamHandler over the receive buffer; a toy frame layout | StreamParserProofs |
| FrameScanner | abstract: a scanner that decides place after place whether a frame stands there | |
| Dispatch, MCDispatch | Spin, rings, clients, subscriptions and services over a compressed protocol; a cast of endpoints | DispatchProofs |
| Mailroom | abstract: the bag of a command's messages, each taken once by whom it is for, one lost per overflow | |
| BehaviorTree, MCBehaviorTree | behavior_node.h and the loop of behavior_tree.h; families of trees | BehaviorTreeProofs |
| GlobalPlannerNode | global_planner_node.cpp: an Execute per goal and the planning thread | GlobalPlannerNodeProofs |
| LocalPlannerNode | local_planner_node.cpp: an Execute per goal, the control loop, its thread object | LocalPlannerNodeProofs |
| AStarPlanner, MCAStarPlanner | a_star_planner.cpp: one call of Plan; a family of maps | AStarPlannerProofs |
| LayeredCostmap, MCLayeredCostmap | UpdateMap over the static, obstacle and inflation layers; rays and maps | |

How code and model correspond:

* CircularBuffer. `buf`, `head`, `tail`, `full` are the fields; Push, Pop (PopEmpty, PopItem) and Reset
  are actions. Each holds the buffer's mutex throughout, so each is one step.
* MemoryPool. The block table with its two sentinels; a pointer is an index of a cell. The bubble sort
  is the order it produces, the search for the best gap a choice with the code's tie-break, the
  compaction moves table entries and contents as memmove does. FreeMemory only clears usage_flag. Sums
  are counted and orders are numbered, without recursion, so that Protocol, which holds a pool, can be
  reasoned about too. PoolUsers calls its pool `shared`; BlockStore has the blocks and the cells in use.
* Protocol. A call that holds LockMemory throughout is one action. SendCMD is two: usage_flag is set first,
  and the others read that flag without the lock (SendCMD, PackAndSend). AutoRepeatSendCheck is PollCheck
  (flag and time, no lock) and then PollGiveUp or PollResend (with the lock, on what the session has
  become). ContainerHandler is ReceiveAck and CompleteSession for acks, and one action per branch of the
  switch on the ack session for commands. PeerReceive, PeerCommand and PeerRepeat are the firmware at the
  other end, known only by what the code expects of it: it answers or not, repeats, gives up. A packet is
  a record; a damaged one is a lost one. The reads of uninitialised fields in SetupSession's sessions
  are a choice in Init. The counters and `issued`, the commands each device has made, are history.
* Dispatch. The ring is the sequence of items CircularBuffer is shown to be. Spin is a turn over the
  endpoints; Take is TakeEmpty, TakeMatch and TakeMismatch; AsyncSendRequest is SendRequest and
  FileRequest: pending_requests_mutex_ is held over both, but only HandleResponse waits for it (calling),
  so that acks arrive, are taken and come back to the ring in between.
* StreamParser. One StreamHandler call is a step: FeedByte for a byte of the line (with the return to
  Receive, which hands the last byte of a frame in twice), ReplayByte for one of the end of the buffer.
  VerifyHeader, VerifyData and CheckStream are the cases Collect, Reject, Accept, Reuse and Overflow. What a
  header, a length and a checksum are is a constant. Protocol takes up where ContainerHandler is called.
* GlobalPlannerNode, LocalPlannerNode. A step is an access to what the threads share: node_state_, goal_
  and plan_mutex_ in the first; node_state_, the plan and local_planner_thread_ in the second, whose
  joinable and join are steps of their own, as several Executes can be between them. What the planner or
  the optimiser finds is chosen freely. The variables `verdict`, `answer` and `alone` are history.
  GlobalPlannerNode calls the A* planner, under the mutex of the costmap.
* AStarPlanner. Poses are cells, cells are indices as in the code. The heap is the set of its cells with
  any least one on top: no f_score_ changes while its cell is in it (the code keeps the old one), nothing is
  pushed twice. Unsigned arithmetic near the low edges and cells past the high edges are kept (Tried).
* LayeredCostmap. UpdateMap is UpdateBounds and UpdateCosts, because InComingMap and ClearCostMap do not
  take the mutex of the master and can come between. Lengths are in half cells, so that points lie off the
  corners of cells and a radius need not be a number of cells. Rays, clipping, Bresenham, the roll of a map
  (with the half cell that GetSizeXWorld is short of the size), extra bounds, windows and the bins of the
  inflation are as in the code; a layer is the set of its lethal cells, which is all that shows in the
  master when use_maximum and trinary_map are on and unknown space is not tracked, as the repository's
  configurations have it. Rays are cut at raytrace_range and marks end at
  obstacle_range. `forgot` is history: the obstacles that vanished outside of what was touched.
* BehaviorTree. The thread is alone (callbacks run in spin_some between ticks), but it is followed call by
  call: Run is the first half of BehaviorNode::Run up to Update, UpdateX what a node does until it runs a
  child or has a result, BackInX what it does with the state a child came back with, Return the second half of
  Run. `pc` and `at` say where the thread is, `active` is its stack. A guard's Reevaluation is part of its
  Update and resets a sibling and moves its parent's index while the parent is half way through its own
  loop. What a precondition function answers or an action returns is chosen when it is asked. Reset with
  all that it passes on is one step, as nothing is called in it that could come back: the nodes it reaches
  are the least set that holds the running ones it was called for and what their OnTerminate resets.
  `ticked`, `held` and `started` are history.

## Runs

| run | instance | shows |
| --- | --- | --- |
| CircularBuffer | 3 cells, 3 items | the ring is a DropOldestFifo |
| PoolUsers | 4 cells, 3 handles, blocks of up to 3, requests of 1 to 5 | blocks never overlap; the pool is a BlockStore: refuses only for want of cells or handles, contents survive compaction |
| ProtocolRequests | 3 requests, 2 sessions that retry, sequence numbers modulo 2 | AnsweredOnce, RetriesBounded, ThreadsFindABlock, SequenceMoves |
| ProtocolShared | 2 requests, 3 commands of a device that numbers them modulo 2, one pool | PacketsKept, BlocksAccounted, DeliveredOnce, RightAnswerRepeated |
| ProtocolLiveness | 2 requests, a message of a device, fair poll thread | SessionsComeBack |
| Dispatch | a subscription, a client and a service on rings of two | PromiseSetOnce, AnswersFindTheirRequest, refinement of Mailroom |
| BehaviorTree | 40 trees of 6 to 9 nodes, guards in every position, stopped at every call and return | StartedIffRunning, RunningHangsTogether, OneActionRuns, GuardedWhileRunning, LeftGuardsWentFirst |
| StreamParser | frames of 3 to 6 bytes of a toy alphabet of 3, a buffer of 7, any line | StreamFits, NothingUndecided, ReplayEnds, refinement of FrameScanner |
| GlobalPlannerNode | 2 goals, 1 retry | OwnResult, FreshVerdict, LoneGoalsEnd |
| LocalPlannerNode | 2 goals, 1 error | WheelsObey, LoneGoalsEnd |
| AStarPlanner | any start and goal, on and off 384 maps of 3 by 3 | PathConnects, FailsRightly, PlanReturns |
| LayeredCostmap | 7 by 2 cells, radii of 1 and 1.5 cells, rays cut at a range of 2 cells, one that stays and one that rolls | NeverTooLow, WindowIsRight, WholeMapIsRight |

Bounds. MaxRequests, MaxCommands and MaxWire (Protocol), MaxRequests and MaxMessages (Dispatch) bound what
the environment does; every other number is a parameter of the code, only smaller. Two sessions that
retry are what two requests need to compete and one session to be used again; retry_time 2 is one
retransmission and the one after which the session is given up; a sequence width of 2 makes the number
wrap between any two requests of a session, and a device's third command have the number of its first; two packets per direction let an ack wait on the line while
another overtakes the session it was for. A ring of two cells overflows at the third item. The pool of
4 cells is fragmented and compacted by blocks of one to three. The trees put two guards of
every pair of abort types side by side in a selector and one above the other around a selector, and guards that
abort themselves or what is to their right next to and inside sequences and parallel nodes (there is no other
difference between the types below a node that is not a selector).

The toy bytes of StreamParser are also lengths and checksums, so damaged frames hold headers of other
damaged frames, and the buffer of 7 is the shortest in which a frame, its damage and a second frame
meet; a frame longer than what is left of the buffer overflows it. Two goals are one and one that comes
in any state of it: the proofs show that more change nothing of what is proved. One retry and one error are
enough for a round that goes on and one that gives up. On a map of 3 by 3 every cell but the middle lies on an edge, where the tests of neighbors differ;
one corner is kept free and the middle may cost as much as a detour, for cells reached first by the dearer
way; a tolerance of 1 reaches over every edge. IntMax is only above any score. In LayeredCostmap the map
is longer than the window of a short ray, so that cells keep costs for many updates; one scan marks where
another clears, two mark beside each other, two leave the map over its corners (at slopes at which
clipping needs no fraction), and the robot's second pose rolls the map by two cells. The ranges of the laser are
two cells, and one ray is longer: it is cut, and clears a cell beyond the point that it touches. What the three
properties except (fractional radii, obstacles forgotten by a reset or cleared by a cut ray, rolled-in cells) does happen in this instance: without the
exception each is violated.  Far is beyond any map.

When requests, commands and wire are spent nothing happens any more, and a client whose answer was
lost waits for ever; so the runs of Protocol and Dispatch switch the deadlock check off. So do those of the planner nodes (all
goals sent, or the program terminated) and of AStarPlanner (Plan has returned). The ring, the pool, the
tree, the parser and the costmap never stop and are checked for deadlock.

Fairness. FairSpec of Protocol: the poll thread loops without end over the sessions (WF of PollCheck per
session and of the step that follows it), the holder of the lock runs to its unlock (WF of PackAndSend)
and clocks go on (WF of Timeout). Nothing is assumed of the line, the devices or the application.
StreamParser: ByteHandler does not block, so a replay goes on (WF of ReplayByte); bytes need not come.
GlobalPlannerNode and LocalPlannerNode: every thread that can take a step takes one in the end (WF per
Execute and of the planning thread or the loop); goals and cancels come as they like, and what is planned
succeeds or not. plan_mutex_ is not fair: before the first round (sleep_time starts at 0, line 225) and
after one longer than its cycle the planner can take it again for ever, and LoneGoalsEnd excepts this
(`late`). AStarPlanner: Plan runs on. BehaviorTree has no liveness property: an action may run for ever.

## What is proved

* CircularBufferProofs: TypeCorrect and Refinement, for every capacity and item set. The invariant is
  that indices are in the ring and that a full ring has both on one cell; without the second part the
  abstract queue (the items from tail on, max_size of them when full) would lose a step in PopItem. The refinement
  maps Push to the queue's Push, which drops the oldest when full, step by step.
* ProtocolProofs, first part: PoolTyped, BlocksStayApart and PoolIsStore, for every table, memory and block size. The
  invariant MemorySound says that the blocks in use, sentinels included, lie apart and inside the memory,
  are not empty, and that freed entries still point into it. What the sums of the code mean is shown by
  counting cells: the sizes of blocks that lie apart add up to the cells they cover (TotalCountsCells), so
  the blocks below an address (UsedMemoryCounts, NewPtrCounts) and the gaps (GapsCount) are counted, and if
  there are as many free cells as are asked for, the gaps reach that size somewhere (GapsSuffice). Hence the
  compaction keeps every block's contents (CompressMemory) and AllocMemory refuses only for want of cells or
  of an entry (AllocMemoryWorks), which is the refinement of BlockStore.
* ProtocolProofs, second part, for every number of sessions, width of the sequence number, pool and bound. By itself
  SessionsTyped gives SequenceNumbersMove: that the lock is held for session 0 only in mode SESSION_0 is what
  lets PackAndSend conclude that a session that keeps its packet got its number from the test against
  pre_seq_num; NextSeqIsNew does the arithmetic of the wrap, where SeqWidth > 1 is needed. The others
  need the pool: ITyped adds MemorySound and gives ProtocolTyped, IAccounted gives NoBlockLeaks.
  - PacketsStayKept (IKept: a live session's block is in use and holds its packet, an ack session's its
    answer; that two sessions have different blocks follows from what is in them). An ack session whose
    answer was refused is excepted for good (Lost): in any session but 1 the application owes one answer at
    a time (IOwed), so nothing is delivered, freed or answered there again. With no command in session
    1 that gives ScarcePacketsStayKept, for every memory.
  - BlocksAreFound (IFound), RequestsAnsweredOnce (IOnce: the session an ack is on its way to holds a request
    that nothing completed, not necessarily the one the ack is for).
  - RetriesStayBounded (IBounded). Every late transmission has been paid for by an answer: a session that
    the poll thread found and that is free by now was freed by an ack since.
  - CommandsDeliveredOnce (IDelivered: as long as a delivered command can come again, its session is in
    process or stores its answer; refused ones stay in process), over ILine: on the line the commands of a
    device are in their order.
  - RightAnswersRepeated, for any number of devices and commands, with any number of wraps. IIssued says of every
    command on the line and in the inbox that a device made it, and of every stored answer that it is that of a
    command with its number and session. A device's numbers rise until they are 0 again (Rising), so two of its
    commands with one number are a round apart. That the stored answer is always that of the very command
    does not hold, neither for two devices nor after a wrap, and the property says which others there are.
  - MemorySuffices and SendingIsSafe. By IAccounted there are no more blocks in use than live sessions and
    remembered answers; so while these leave an entry and two cells for one more (Light), no packet is refused
    its memory, however the blocks came and went, and the first three hold.
* StreamParserProofs, for every frame layout, buffer and line of bytes. StreamTyped and StreamKeepsClear:
  TypeOK and StreamFits are inductive together; the lemmas say what each way out of StreamHandler leaves.
  NothingIsUndecided: the stream in the buffer is undecided during a replay too (IUndecided), which is
  stronger than the property and inductive. StreamIsScanner: FeedByte is an arrival at the scanner;
  in a replay, the scanner's line is the stream followed by the bytes to feed again, and Reject,
  Accept and Reuse each decide its first place, Collect none (RejectDecides, AcceptDecides, ReuseDecides). What
  these two take of the layout is HeaderAssumption: the length is a field of the header and a header
  that stands names less than MAX_PACK_SIZE. StreamFits does without, as Overflow bounds the stream.
* DispatchProofs, for every list of endpoints, ring size and number of requests: DispatchTyped,
  PromisesSetOnce, AnswersArrive and RingIsMailroom. The invariant: a request waits in one place at
  most (OnePlace), a promise that is set has left (SettledHasLeft) and was set by one answer (OneAnswer),
  what was asked was asked by an endpoint (AsksFollowed), and a container answers something asked or comes
  from a device (ContainersKnown). The ring is the bag of its items; a put-back leaves the bag as it is, so
  Spin's hand-to-and-fro is a stutter, and an overflow costs one item.
* GlobalPlannerNodeProofs: PlannerTyped, VerdictsAreFresh, LoneGoalsGetTheirOwn and PlannerIsWanted, for
  any number of goals. Waiting (who waits for a verdict was there when it was given) carries the first;
  LoneGoal says that before a goal that is alone has set RUNNING the planner is asleep or waits for RUNNING,
  and that from then on it plans for that goal or has not read goal_ yet; Wanted, that RUNNING means an
  Execute that will still set IDLE, rules out a round for a canceled goal that nobody waits for.
* LocalPlannerNodeProofs: PlannerTyped and WheelsAlwaysObey, for any number of goals. ThreadKept (a loop
  that runs is joinable, one that has exited has stopped the wheels) and Owned (a joinable thread has an
  Execute that will look at it before it ends) give the first half, LoneGoal the second.
* AStarPlannerProofs: SearchTyped, PathsConnect and FailuresAreRight, for any map, costs and tolerance. The
  invariant: open cells have been reached (Queue, Scored: a score is at most 269 for every closed cell,
  which is why no score reaches IntMax), a parent is closed, touches its cell and has a lower score
  (Parented: so no chain closes to a ring), what is beside a closed cell is reached or inaccessible
  (Explored: so when the heap is empty the closed cells are the region of FailsRightly), and the path so
  far is a chain of falling scores (Traced). RowAndColumn and Unique tie indices to rows and columns.
* BehaviorTreeProofs: BehaviorTypes, StartedOnceStoppedOnce, NothingRunsAlone, GuardsAreAsked, PriorityIsKept
  and OneCommandAtATime, for trees of any size and shape. None of the properties is inductive, as each
  speaks of where a tick has got to only at its end. What is inductive says it at every call and return:
  - Hangs: a node that runs or is being run (On) has a parent that is, and is where the parent is at. One kind
    of node is excepted: a guard left of what runs that is just being asked again (Left). With it every
    OnTerminate finds the child it has to reset (IdleReachesChild), so a reset leaves nothing below it
    (ResetSweeps) and spares what is above it and beside it (ResetSpares).
  - OneWay: the Runs that have not returned lie on one way down, and Called: the child being run is one that
    its parent may run now. Begun, Followed and Asked say what of this tick is behind every one of them.
  - InTurn: what runs and was not run in this tick has its turn still to come (ToCome) or hangs below such a
    node. At the end of a tick no turn is to come, so what was not run would have a parent that was not,
    and there is none above the root (ParentsRunOut). LeftInTurn says the same of the guards to the left.
  Each is kept by a return of a node (ReturnStep) and by a call of a child (CallStep), whatever the type of
  node; the steps of the types only show that theirs is such a return or call. OneCommandAtATime counts: the
  parents of the running nodes are running nodes but no actions, so two actions would leave fewer parents
  than children, and two of these with one parent, which only a parallel node can be at.

The proofs assume the ASSUMEs of the modules and, where a theorem says so, one of these:

| hypothesis | says | without it |
| --- | --- | --- |
| RequestsFindMemory | SendCMD gets its block | a refused request gives back a session that a thread has found in use: it has no block, or the pointer and the request it had before |
| OneFindsMemory | SendACK gets its block in session 1 | AllocACKSession has freed the answer before, and the session, still USING, points to a block that goes to someone else. Any other session stays in PROCESS |
| Light | the live sessions and remembered answers leave an entry and two cells for one more packet | the two above are not granted. The code has SESSION_TABLE_NUM entries, two of them sentinels, and 4096 bytes (protocol.cpp:54-57) for up to 31 requests and 31 answers: up to 29 of them in packets of up to 136 bytes are light, with every session in use the pool refuses |
| RetriesLimited | retry_time has a bound and is not 0 | 0 means no limit (protocol.cpp:95) |
| OnePeer | one device | the table of answers has one row for all devices (protocol.cpp:828) |
| PeerAvoidsOne | no device sends in session 1 | session 1 is left IDLE, a repetition is delivered again (protocol.cpp:832) |
| DevicesApart | no two clients of a command talk to one device | their requests can have one session id and the one's answer be taken for the other's |

Under Light MemorySuffices grants the first two, and OneFindsMemory holds when PeerAvoidsOne does. None of them is idle:
when one is dropped TLC violates a property it is for, on an instance not much larger than those of the runs.

RetriesBounded once said that nothing is sent more often than its retry_time, which holds of three
requests and is false of four: the poll thread finds a session due, an ack frees it and its block goes to the
next request before the thread gets the lock; PollResend then sends that request's packet, not counted
by its session. It can happen once per ack, which is what the property says now and the proof needs.

## What is only model-checked, and why

* Liveness (SessionsComeBack, ReplayEnds, LoneGoalsEnd, PlanReturns): TLAPS does not handle fairness.
* LayeredCostmap (NeverTooLow, WindowIsRight, WholeMapIsRight). The inflation is recursive over its list, and
  what it computes has to be shown by induction over that list. The three are no theorems for every radius:
  beyond two cells the search itself is not exact (next section), so they are stated up to there (Exact) and
  the run's radii are 1 and 1.5 cells.

## Read in the code, without a run

* An ack session for session 1 leaves IDLE in SendACK (protocol.cpp:594) although the comment at
  protocol.cpp:822 treats it as never stored.
* The table of ack sessions has one row in use, that of the local address (TODO at protocol.cpp:828): two
  devices that use the same session id share the stored answer, and the one can get the other's.
  ProtocolShared has one device; RightAnswersRepeated is for any number of them.
* SendResponse hands command_info->receiver to SendACK (protocol.cpp:237), which for a service is the
  local address, while protocol.h:272 calls it the sender of the command.
* Take looks only at the head of its ring, whatever protocol.h:215-217 says of finding a container.
* "Abort any nodes to the right" (behavior_node.h:46) reaches the siblings of a precondition in its
  own selector, not what is right of that selector.
* A parallel node fails as soon as its failures reach size - threshold, when it could still succeed.
* When the ack is released between PollCheck and the lock, the poll thread sends an answered packet once
  more (protocol.cpp:101); a late ack completes the next request of its session, as only session_id is
  compared (protocol.cpp:770); and Spin may give it to that request's promise (dispatch.h:240).
* With too little room for an answer AllocACKSession frees the old one and returns (protocol.cpp:321): the
  session stays in PROCESS and drops every later command, and session 1, which can owe two answers, stays
  USING the block it freed.
* Two clients of one command (the version, chassis.cpp:33 and gimbal.cpp:35): with the second one's answer in
  front, the first puts it at the tail and the second then puts the first one's back, in every spin.
* protocol.h:305 promises that ByteHandler returns true when a full frame is got; a frame completed
  inside a replay and not by its last byte is written to the container and never returned.
* Global planner: the result is out before node_state_ is IDLE (line 165), so the next goal's RUNNING can be
  overwritten and the goal polls for ever; a goal set while the planner plans is overwritten by the end
  of the older path (line 268); new_path_ is not cleared (line 155), so the first feedback of a goal may be
  the path of a canceled one; after a late round the planner can wait for RUNNING with the mutex that the
  Execute needs before it polls for its own cancel.
* Local planner: SUCCESS and FAILURE can be set after StopPlanning's IDLE and stay (line 223): the next goal
  succeeds at once, or every later one is refused. Overlapping Executes can join one thread twice (line 281),
  which terminates the program. SetPlan is guarded by plan_mtx_, the computation by plan_mutex_.
* A*: a free cell beside an inaccessible goal at the low edges is not found (unsigned underflow, line 92);
  at the high edges the goal may be moved to another row or a cost read behind the map (line 98); when the
  nearest valid cell is the start, the path ends at the inaccessible goal (line 127). Paths are not always
  the cheapest, as the heap keeps old scores.
* Costmap: with a radius that is no number of cells (0.7 m and 0.04 m in the local configuration) a ring of
  cost stays around obstacles that were cleared; forgotten obstacles stay in the master outside the
  windows; so may a part of the ring around an obstacle in the last cell of a ray that is cut at raytrace_range,
  which can lie one beyond the point touched (obstacle_layer.cpp:356-361); a cell that rolls in beside a known obstacle is free until a window covers it. Bounds that
  ClearLayer adds while UseExtraBounds resets them are lost, and a resize by InComingMap takes no mutex of
  an update under way.
* Costmap: cells keep the obstacle they were first reached from, and the bins are visited once. From a
  radius of three cells on that need not be the nearest: with obstacles at (0,0), (1,2) and (3,3) and a radius of
  3 cells, cell (3,0) costs what is due at a distance of 3 and not of the root of 8. On random maps the
  error stayed below 0.35 of a cell, and at radii of 5 and 17 cells a cell at the rim was left free.
* The trees have no composite without children and no precondition without a child: their Update returns
  SUCCESS at once, so they are never RUNNING and never reset.

## Not modelled

Numerical and image code (TEB, AMCL, armor detection, tracking), devices (serial, camera), field copying
between messages, and launch files: no protocol of their own, or data out of TLC's reach. They are most
of the repository by size, the vendored drivers of lidar and depth camera above all. The base nodes
appear as the endpoints of MCDispatch. Of the modelled parts: the large-data branch of Receive (marked
unhandled in the code), path and error codes of the planners' feedback, orientations, the observation
buffers of the obstacle layer, unknown space and a rolling static layer, changes of a map's size. Pause,
Resume, Start and Stop of the costmap interface are called by nothing in the repository.

## Plan

1. Done: circular buffer, pool, sessions, stream parser, dispatch, behavior tree, both planner nodes, A*,
   costmap layers; theorems about all but the last.
2. Navigation: ChassisExecutor with both servers; no local goal after Cancel, Update reports the goal
   last sent. The planner nodes already take any goals and cancels, so what is left is the client's side.
3. ArmorDetectionNode: Start, Pause, Stop against ExecuteLoop (lost wake-up, join of a paused thread).
4. Protocol's receive path composed with StreamParser.
5. Proofs: of the costmap what does not depend on the inflation, that an obstacle in a window shows in the
   master. It needs the recursion of Inflated written as a recursive function.
