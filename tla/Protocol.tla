------------------------------ MODULE Protocol ------------------------------
(***************************************************************************)
(* roborts_sdk/protocol/protocol.cpp: the sessions of the serial protocol. *)
(*                                                                         *)
(* Command sessions carry the packets this side sends: session 0 needs no  *)
(* ack, session 1 keeps its packet until an ack or one timeout, and        *)
(* sessions 2 .. SESSION_TABLE_NUM - 1 are allocated per request and       *)
(* resend until an ack or retry_time transmissions.  Ack sessions remember *)
(* the answer to a command of the other side, to send it again when the    *)
(* command is repeated.  All packets live in one memory pool.              *)
(*                                                                         *)
(* Threads: the application's (SendCMD, SendACK), AutoRepeatSendCheck and  *)
(* ReceivePool.  They exclude one another only inside LockMemory ..        *)
(* UnlockMemory; the flags read outside it are read while another thread   *)
(* may be anywhere, so those reads are steps of their own.  Bytes, CRCs    *)
(* and framing are below this module: a packet is a record, and a packet   *)
(* whose bytes were damaged is a lost one.                                 *)
(***************************************************************************)
EXTENDS MemoryPool, SequencesExt

CONSTANTS SESSION_TABLE_NUM,  \* sessions 0 .. SESSION_TABLE_NUM - 1
          SeqWidth,           \* seq_num_ counts modulo this (2^16)
          RetryTime,          \* values of SendCMD's retry_time
          SendModes,          \* session modes the application uses
          Peers,              \* addresses of the devices on the line
          PeerSessions,       \* sessions in which the peers send commands
          LargeAcks,          \* commands whose answer takes two cells of memory;
                              \* every other packet takes one
          MaxRequests,        \* bound: calls of SendCMD
          MaxCommands,        \* bound: distinct commands of the peers
          MaxWire             \* bound: packets under way in one direction

ASSUME ProtocolAssumption ==
    /\ SESSION_TABLE_NUM \in Nat /\ SESSION_TABLE_NUM > 2
    /\ SeqWidth \in Nat /\ SeqWidth > 1
    /\ RetryTime \subseteq Nat
    /\ LargeAcks \subseteq Nat
    /\ SendModes \subseteq {"SESSION_0", "SESSION_1", "AUTO"}
    /\ Peers # {}
    /\ PeerSessions \subseteq 0 .. SESSION_TABLE_NUM - 1
    /\ MaxRequests \in Nat /\ MaxCommands \in Nat /\ MaxWire \in Nat

Local      == 0                               \* DEVICE
Requested  == CHOOSE p \in Peers : TRUE       \* the device the requests go to
Session    == 0 .. SESSION_TABLE_NUM - 1
AckSession == 1 .. SESSION_TABLE_NUM - 1
Request    == 1 .. MaxRequests                \* calls of SendCMD, in order
Command    == 1 .. MaxCommands                \* commands of the peers, in order
Seq_num    == 0 .. SeqWidth - 1

\* number names the request or the command a packet carries or answers: the
\* payload, as far as the properties look at it.
Packet(is_ack, session_id, seq_num, sender, receiver, number) ==
    [is_ack |-> is_ack, session_id |-> session_id, seq_num |-> seq_num,
     sender |-> sender, receiver |-> receiver, number |-> number]

\* What memory and threads hold when they hold no packet.
NoPacket == Packet(FALSE, 0, 0, Local, Local, 0)

VARIABLES
    pool,               \* the packets' memory
    cmd_session_table,
    ack_session_table,  \* the row of the local address, the only one in use
    seq_num_,
    packing,            \* the SendCMD that holds the lock after it set
                        \* usage_flag: its session and mode, or Idle
    poll,               \* session AutoRepeatSendCheck found due, 0 if none
    recv,               \* ack ReceivePool found a used session for
    inbox,              \* commands delivered and not yet answered
    to_peer, from_peer, \* packets on the serial line
    peer,               \* peer -> the command it keeps sending
    requests,           \* calls of SendCMD so far
    commands,           \* commands of the peers so far
    issued,             \* peer -> the commands it has made, in order
    transmitted,        \* request -> how often its packet was sent
    answered,           \* request -> how often an ack completed it
    delivered           \* command -> how often the application got it

line   == <<to_peer, from_peer>>
tables == <<cmd_session_table, ack_session_table, pool, seq_num_>>
counts == <<transmitted, answered, delivered>>
vars   == <<tables, packing, poll, recv, inbox, line, peer, requests, commands, issued, counts>>

Idle == [session |-> 0, mode |-> "none"]

\* LockMemory succeeds only while no SendCMD is between its two steps; every
\* other critical section is one step.
LockFree == packing = Idle

\* What a thread reads through memory_block_ptr: the first cell it points
\* to, whoever packed it last.
PacketAt(block) == pool.memory[pool.table[block].memory_ptr]

\* The line takes a packet or, when the bound is reached, loses it.
Wire(queue, packet) == IF Len(queue) < MaxWire THEN Append(queue, packet) ELSE queue

\* DeviceSend: what Write answers is logged and otherwise ignored.
DeviceSend(packet) ==
    /\ to_peer' = Wire(to_peer, packet)
    /\ transmitted' = [r \in Request |->
                         IF ~packet.is_ack /\ packet.number = r
                         THEN transmitted[r] + 1 ELSE transmitted[r]]

-----------------------------------------------------------------------------
(* Sending: SendCMD, SendACK                                                *)

\* SetupSession and the constructor; the other fields of a session, its
\* time stamp among them, are uninitialised until the first SendCMD.
Init ==
    /\ pool = EmptyPool(NoPacket)
    /\ \E old_retry \in {0, 1}, old_seq \in {0, SeqWidth} :
         cmd_session_table =
             [i \in Session |-> [usage_flag |-> FALSE, memory_block_ptr |-> Null,
                                 request |-> 0, sent |-> 0, retry_time |-> old_retry,
                                 due |-> TRUE, pre_seq_num |-> old_seq]]
    /\ ack_session_table =
         [i \in AckSession |-> [session_status |-> "IDLE", memory_block_ptr |-> Null]]
    /\ seq_num_ = 0
    /\ packing = Idle
    /\ poll = 0
    /\ recv = NoPacket
    /\ inbox = << >>
    /\ to_peer = << >> /\ from_peer = << >>
    /\ peer = [p \in Peers |-> NoPacket]
    /\ requests = 0
    /\ commands = 0
    /\ issued = [p \in Peers |-> << >>]
    /\ transmitted = [r \in Request |-> 0]
    /\ answered = [r \in Request |-> 0]
    /\ delivered = [c \in Command |-> 0]

\* The session AllocCMDSession tries, none if all it may use are taken.
FreeSessions(mode) ==
    LET wanted == CASE mode = "SESSION_0" -> {0}
                    [] mode = "SESSION_1" -> {1}
                    [] mode = "AUTO"      -> Session \ {0, 1}
    IN  {i \in wanted : ~cmd_session_table[i].usage_flag}

\* SendCMD up to usage_flag = 1: from here on the other threads see the
\* session as used, though it holds no packet yet.
SendCMD(mode) ==
    /\ LockFree
    /\ requests < MaxRequests
    /\ requests' = requests + 1
    /\ IF FreeSessions(mode) = {}
       THEN UNCHANGED <<cmd_session_table, packing>>
       ELSE LET i == Min(FreeSessions(mode))
            IN  /\ cmd_session_table' = [cmd_session_table EXCEPT ![i].usage_flag = TRUE]
                /\ packing' = [session |-> i, mode |-> mode]
    /\ UNCHANGED <<ack_session_table, pool, seq_num_, poll, recv, inbox, line, peer,
                   commands, issued, counts>>

\* Mutants: the number is not moved on; it does not wrap.
NextSeqSame(i) == seq_num_
NextSeqNoWrap(i) ==
    IF packing.mode # "SESSION_0" /\ seq_num_ = cmd_session_table[i].pre_seq_num
    THEN seq_num_ + 1 ELSE seq_num_

\* A session is not given the sequence number of its previous packet.
NextSeq(i) ==
    IF packing.mode # "SESSION_0" /\ seq_num_ = cmd_session_table[i].pre_seq_num
    THEN (seq_num_ + 1) % SeqWidth
    ELSE seq_num_

\* The rest of SendCMD up to UnlockMemory: allocate, pack, send.
PackAndSend ==
    /\ ~LockFree
    /\ packing' = Idle
    /\ LET i == packing.session
           a == AllocMemory(pool, 1)
           q == NextSeq(i)
           p == Packet(FALSE, i, q, Local, Requested, requests)
       IN  IF a.block = Null
           THEN /\ pool' = a.pool
                /\ cmd_session_table' = [cmd_session_table EXCEPT ![i].usage_flag = FALSE]
                /\ UNCHANGED <<seq_num_, to_peer, transmitted>>
           ELSE /\ DeviceSend(p)
                /\ seq_num_' = (q + 1) % SeqWidth
                /\ IF packing.mode = "SESSION_0"
                   THEN /\ pool' = FreeMemory(Pack(a.pool, a.block, p), a.block)
                        /\ cmd_session_table' =
                             [cmd_session_table EXCEPT ![i].usage_flag = FALSE,
                                                       ![i].memory_block_ptr = a.block]
                   ELSE /\ pool' = Pack(a.pool, a.block, p)
                        /\ \E retry \in (IF packing.mode = "SESSION_1" THEN {1} ELSE RetryTime) :
                             cmd_session_table' =
                                 [cmd_session_table EXCEPT ![i] =
                                    [usage_flag |-> TRUE, memory_block_ptr |-> a.block,
                                     request |-> requests, sent |-> 1, retry_time |-> retry,
                                     due |-> FALSE, pre_seq_num |-> q]]
    /\ UNCHANGED <<ack_session_table, poll, recv, inbox, from_peer, peer, requests,
                   commands, issued, answered, delivered>>

\* Mutants: the session stays used; its pointer is cleared along with it.
FreeCMDSessionStaysUsed(i) ==
    /\ pool' = FreeMemory(pool, cmd_session_table[i].memory_block_ptr)
    /\ UNCHANGED cmd_session_table
FreeCMDSessionClears(i) ==
    IF cmd_session_table[i].usage_flag
    THEN /\ pool' = FreeMemory(pool, cmd_session_table[i].memory_block_ptr)
         /\ cmd_session_table' = [cmd_session_table EXCEPT ![i].usage_flag = FALSE,
                                                           ![i].memory_block_ptr = Null]
    ELSE UNCHANGED <<pool, cmd_session_table>>

\* FreeCMDSession: what it frees is whatever block the session points to.
FreeCMDSession(i) ==
    IF cmd_session_table[i].usage_flag
    THEN /\ pool' = FreeMemory(pool, cmd_session_table[i].memory_block_ptr)
         /\ cmd_session_table' = [cmd_session_table EXCEPT ![i].usage_flag = FALSE]
    ELSE UNCHANGED <<pool, cmd_session_table>>

\* Where SendResponse addresses an ack: the receiver of the service's own
\* CommandInfo, which is the receiver of the commands it serves.
AckReceiver(command) == command.receiver

\* Mutant: the old answer is forgotten instead of freed.
AllocAckForgets(i, size) == AllocMemory(pool, size)

\* AllocACKSession: the old answer is freed first, and stays freed when there
\* is no memory for the new one.
AllocAck(i, size) ==
    LET old == ack_session_table[i].memory_block_ptr
    IN  AllocMemory(IF old = Null THEN pool ELSE FreeMemory(pool, old), size)

AnswerSize(command) == IF command.number \in LargeAcks THEN 2 ELSE 1

\* SendACK for the k-th command the application has dealt with.
SendACK(k) ==
    /\ LockFree
    /\ inbox' = RemoveAt(inbox, k)
    /\ LET command == inbox[k]
           i    == command.session_id
           a    == AllocAck(i, AnswerSize(command))
           ack  == Packet(TRUE, i, command.seq_num, Local, AckReceiver(command), command.number)
       IN  IF a.block = Null
           THEN /\ pool' = a.pool
                /\ UNCHANGED <<ack_session_table, to_peer, transmitted>>
           ELSE /\ pool' = Pack(a.pool, a.block, ack)
                /\ DeviceSend(ack)
                /\ ack_session_table' =
                     [ack_session_table EXCEPT ![i] = [session_status |-> "USING",
                                                       memory_block_ptr |-> a.block]]
    /\ UNCHANGED <<cmd_session_table, seq_num_, packing, poll, recv, from_peer, peer,
                   requests, commands, issued, answered, delivered>>

-----------------------------------------------------------------------------
(* AutoRepeatSendCheck                                                      *)

\* ack_timeout passes; the clock of a session runs whether it is used or not.
Timeout(i) ==
    /\ ~cmd_session_table[i].due
    /\ cmd_session_table' = [cmd_session_table EXCEPT ![i].due = TRUE]
    /\ UNCHANGED <<ack_session_table, pool, seq_num_, packing, poll, recv, inbox, line,
                   peer, requests, commands, issued, counts>>

\* The test of usage_flag and of the time, before the lock is taken.
PollCheck(i) ==
    /\ poll = 0
    /\ cmd_session_table[i].usage_flag /\ cmd_session_table[i].due
    /\ poll' = i
    /\ UNCHANGED <<tables, packing, recv, inbox, line, peer, requests, commands, issued, counts>>

\* Mutant: one transmission too many.
GivesUpLate(i) == /\ cmd_session_table[i].retry_time > 0
                  /\ cmd_session_table[i].sent > cmd_session_table[i].retry_time

\* With the lock, on whatever the session has become: give up or resend.
\* (Through a null memory_block_ptr the program would not go on: no step.)
GivesUp(i) == /\ cmd_session_table[i].retry_time > 0
              /\ cmd_session_table[i].sent >= cmd_session_table[i].retry_time

PollGiveUp ==
    /\ poll # 0 /\ LockFree
    /\ GivesUp(poll)
    /\ FreeCMDSession(poll)
    /\ poll' = 0
    /\ UNCHANGED <<ack_session_table, seq_num_, packing, recv, inbox, line, peer, requests,
                   commands, issued, counts>>

\* Only the retries of a session with a limit are counted.
PollResend ==
    /\ poll # 0 /\ LockFree
    /\ ~GivesUp(poll)
    /\ cmd_session_table[poll].memory_block_ptr # Null
    /\ DeviceSend(PacketAt(cmd_session_table[poll].memory_block_ptr))
    /\ cmd_session_table' =
         [cmd_session_table EXCEPT ![poll].due = FALSE,
            ![poll].sent = IF cmd_session_table[poll].retry_time > 0 THEN @ + 1 ELSE @]
    /\ poll' = 0
    /\ UNCHANGED <<ack_session_table, pool, seq_num_, packing, recv, inbox, from_peer, peer,
                   requests, commands, issued, answered, delivered>>

-----------------------------------------------------------------------------
(* ReceivePool: Receive and ContainerHandler, one packet at a time          *)

Deliver(command) ==
    /\ inbox' = IF command.session_id = 0 THEN inbox ELSE Append(inbox, command)
    /\ delivered' = [delivered EXCEPT ![command.number] = @ + 1]

\* An ack: its session is looked up without the lock.
ReceiveAck ==
    /\ recv = NoPacket
    /\ from_peer # << >> /\ Head(from_peer).is_ack
    /\ from_peer' = Tail(from_peer)
    /\ recv' = IF cmd_session_table[Head(from_peer).session_id].usage_flag
               THEN Head(from_peer) ELSE NoPacket
    /\ UNCHANGED <<tables, packing, poll, inbox, to_peer, peer, requests, commands, issued, counts>>

\* Mutant: the session is not freed by its ack.
CompleteSessionKeepsIt ==
    /\ recv # NoPacket /\ LockFree
    /\ cmd_session_table[recv.session_id].memory_block_ptr # Null
    /\ recv' = NoPacket
    /\ answered' = [answered EXCEPT ![cmd_session_table[recv.session_id].request] = @ + 1]
    /\ UNCHANGED <<tables, packing, poll, inbox, line, peer, requests, commands, issued,
                   transmitted, delivered>>

\* With the lock: only the session id of the packet in the session's block is
\* compared; the container names the command the session stands for now.
CompleteSession ==
    /\ recv # NoPacket /\ LockFree
    /\ cmd_session_table[recv.session_id].memory_block_ptr # Null
    /\ recv' = NoPacket
    /\ LET i == recv.session_id
       IN  IF PacketAt(cmd_session_table[i].memory_block_ptr).session_id = i
           THEN /\ FreeCMDSession(i)
                /\ answered' = [answered EXCEPT ![cmd_session_table[i].request] = @ + 1]
           ELSE UNCHANGED <<pool, cmd_session_table, answered>>
    /\ UNCHANGED <<ack_session_table, seq_num_, packing, poll, inbox, line, peer, requests,
                   commands, issued, transmitted, delivered>>

\* A command of a peer is at the head of the line and the thread is free.
Arrived == Head(from_peer)
Status(i) == ack_session_table[i].session_status

CommandArrives ==
    /\ recv = NoPacket
    /\ from_peer # << >> /\ ~Arrived.is_ack
    /\ from_peer' = Tail(from_peer)
    /\ UNCHANGED <<cmd_session_table, pool, seq_num_, packing, poll, recv, peer, requests,
                   commands, issued, answered>>

\* Mutant: the session stays as it was.
SetProcessSkipped(i) == UNCHANGED ack_session_table

SetProcess(i) ==
    ack_session_table' = [ack_session_table EXCEPT ![i].session_status = "PROCESS"]

ReceiveMessage ==
    /\ CommandArrives
    /\ Arrived.session_id = 0
    /\ Deliver(Arrived)
    /\ UNCHANGED <<ack_session_table, to_peer, transmitted>>

\* Session 1 is left idle here.
ReceiveFirst ==
    /\ CommandArrives
    /\ Arrived.session_id # 0 /\ Status(Arrived.session_id) = "IDLE"
    /\ IF Arrived.session_id > 1
       THEN LockFree /\ SetProcess(Arrived.session_id)
       ELSE UNCHANGED ack_session_table
    /\ Deliver(Arrived)
    /\ UNCHANGED <<to_peer, transmitted>>

\* The application still owes the answer to the previous command.
ReceiveBusy ==
    /\ CommandArrives
    /\ Arrived.session_id # 0 /\ Status(Arrived.session_id) = "PROCESS"
    /\ UNCHANGED <<ack_session_table, inbox, to_peer, transmitted, delivered>>

StoredAnswer(i) == PacketAt(ack_session_table[i].memory_block_ptr)

\* Mutant: any command of the session gets the stored answer.
ReceiveRepeatedAny ==
    /\ CommandArrives
    /\ LockFree
    /\ Arrived.session_id # 0 /\ Status(Arrived.session_id) = "USING"
    /\ DeviceSend(StoredAnswer(Arrived.session_id))
    /\ UNCHANGED <<ack_session_table, inbox, delivered>>

\* A command whose answer is stored is answered again and not delivered.
ReceiveRepeated ==
    /\ CommandArrives
    /\ LockFree
    /\ Arrived.session_id # 0 /\ Status(Arrived.session_id) = "USING"
    /\ StoredAnswer(Arrived.session_id).seq_num = Arrived.seq_num
    /\ DeviceSend(StoredAnswer(Arrived.session_id))
    /\ UNCHANGED <<ack_session_table, inbox, delivered>>

ReceiveNew ==
    /\ CommandArrives
    /\ LockFree
    /\ Arrived.session_id # 0 /\ Status(Arrived.session_id) = "USING"
    /\ StoredAnswer(Arrived.session_id).seq_num # Arrived.seq_num
    /\ SetProcess(Arrived.session_id)
    /\ Deliver(Arrived)
    /\ UNCHANGED <<to_peer, transmitted>>

-----------------------------------------------------------------------------
(* The other end of the line: the firmware of the chassis and the gimbal.   *)

\* A packet gets lost, is one that asks for nothing, or is answered.
PeerReceive ==
    /\ to_peer # << >>
    /\ to_peer' = Tail(to_peer)
    /\ LET p == Head(to_peer)
       IN  \/ UNCHANGED from_peer
           \/ /\ ~p.is_ack /\ p.session_id # 0
              /\ from_peer' = Wire(from_peer, Packet(TRUE, p.session_id, p.seq_num,
                                                     p.receiver, Local, p.number))
    /\ UNCHANGED <<tables, packing, poll, recv, inbox, peer, requests, commands, issued, counts>>

\* A peer goes on to its next command: the answer to the last one came, or
\* it gave up waiting.  It numbers its commands by itself.
PeerCommand(p, i) ==
    /\ commands < MaxCommands
    /\ commands' = commands + 1
    /\ LET seq == IF peer[p] = NoPacket THEN 0 ELSE (peer[p].seq_num + 1) % SeqWidth
       IN  peer' = [peer EXCEPT ![p] = Packet(FALSE, i, seq, p, Local, commands')]
    /\ issued' = [issued EXCEPT ![p] = Append(@, peer'[p])]
    /\ from_peer' \in {from_peer, Wire(from_peer, peer'[p])}
    /\ UNCHANGED <<tables, packing, poll, recv, inbox, to_peer, requests, counts>>

\* No answer in time: the same command once more, if it wants an answer.
PeerRepeat(p) ==
    /\ peer[p].session_id # 0
    /\ Len(from_peer) < MaxWire
    /\ from_peer' = Append(from_peer, peer[p])
    /\ UNCHANGED <<tables, packing, poll, recv, inbox, to_peer, peer, requests, commands, issued,
                   counts>>

-----------------------------------------------------------------------------
Next == \/ \E mode \in SendModes : SendCMD(mode)
        \/ PackAndSend
        \/ \E k \in DOMAIN inbox : SendACK(k)
        \/ \E i \in AckSession : Timeout(i)
        \/ \E i \in AckSession : PollCheck(i)
        \/ PollGiveUp
        \/ PollResend
        \/ ReceiveAck
        \/ CompleteSession
        \/ ReceiveMessage
        \/ ReceiveFirst
        \/ ReceiveBusy
        \/ ReceiveRepeated
        \/ ReceiveNew
        \/ PeerReceive
        \/ \E p \in Peers, i \in PeerSessions : PeerCommand(p, i)
        \/ \E p \in Peers : PeerRepeat(p)

Spec == Init /\ [][Next]_vars

\* AutoRepeatSendCheck visits every session again and again, the holder of
\* the lock comes to its unlock, and time passes.
Fairness == /\ WF_vars(PackAndSend)
            /\ WF_vars(PollGiveUp \/ PollResend)
            /\ \A i \in AckSession : WF_vars(Timeout(i)) /\ WF_vars(PollCheck(i))

FairSpec == Spec /\ Fairness

-----------------------------------------------------------------------------
PacketType == [is_ack : BOOLEAN, session_id : Session, seq_num : Seq_num,
               sender : Peers \cup {Local}, receiver : Peers \cup {Local}, number : Nat]

BlockPtr == Handle \cup {Null}

\* What SendCMD can be packing: the session AllocCMDSession found for a mode.
Packing == {[session |-> 0, mode |-> "SESSION_0"], [session |-> 1, mode |-> "SESSION_1"]}
           \cup [session : 2 .. SESSION_TABLE_NUM - 1, mode : {"AUTO"}]

\* The part of the type invariant that needs no assumption about the memory.
SessionsTyped ==
    /\ cmd_session_table \in
         [Session -> [usage_flag : BOOLEAN, memory_block_ptr : BlockPtr,
                      request : 0 .. MaxRequests, sent : Nat, retry_time : Nat,
                      due : BOOLEAN, pre_seq_num : 0 .. SeqWidth]]
    /\ seq_num_ \in Seq_num
    /\ packing \in Packing \cup {Idle}
    /\ poll \in Session
    /\ requests \in 0 .. MaxRequests

\* Sessions, packets and counters have their types; the sequence number stays
\* in its width and the packet memory in its pool.
TypeOK ==
    /\ SessionsTyped
    /\ pool.memory \in [Cell -> PacketType]
    /\ ack_session_table \in
         [AckSession -> [session_status : {"IDLE", "PROCESS", "USING"},
                         memory_block_ptr : BlockPtr]]
    /\ recv \in PacketType
    /\ \A k \in DOMAIN inbox : inbox[k] \in PacketType
    /\ peer \in [Peers -> PacketType]
    /\ issued \in [Peers -> Seq(PacketType)]
    /\ transmitted \in [Request -> Nat] /\ answered \in [Request -> Nat]
    /\ delivered \in [Command -> Nat]

HoldsBlock(block) == block # Null /\ pool.table[block].usage_flag

\* Every session that is to send a packet (again) finds that very packet in a
\* block of its own, whatever the other sessions allocated, freed and
\* answered meanwhile: AllocCMDSession, AllocACKSession and their Free.
PacketsKept ==
    /\ \A i \in AckSession :
         cmd_session_table[i].usage_flag /\ i # packing.session =>
             LET s == cmd_session_table[i]
                 p == PacketAt(s.memory_block_ptr)
             IN  /\ HoldsBlock(s.memory_block_ptr)
                 /\ ~p.is_ack /\ p.session_id = i /\ p.number = s.request
    /\ \A i \in AckSession :
         ack_session_table[i].session_status = "USING" =>
             LET p == StoredAnswer(i)
             IN  /\ HoldsBlock(ack_session_table[i].memory_block_ptr)
                 /\ p.is_ack /\ p.session_id = i

\* The pool's few blocks do not leak: every block in use belongs to a command
\* session in use or is the last answer of an ack session, after refused
\* requests and failed allocations too.
BlocksAccounted ==
    LockFree =>
        \A h \in Handle : pool.table[h].usage_flag =>
            \/ \E i \in AckSession : /\ cmd_session_table[i].usage_flag
                                     /\ cmd_session_table[i].memory_block_ptr = h
            \/ \E i \in AckSession : ack_session_table[i].memory_block_ptr = h

\* No thread comes to use a session that never had a block, though it looked
\* at usage_flag while SendCMD was setting the session up.
ThreadsFindABlock ==
    LockFree =>
        /\ poll # 0 /\ ~GivesUp(poll) => cmd_session_table[poll].memory_block_ptr # Null
        /\ recv # NoPacket => cmd_session_table[recv.session_id].memory_block_ptr # Null

\* An ack that comes twice, or races with the timeout of its session,
\* completes a request at most once (ContainerHandler, FreeCMDSession).
AnsweredOnce == \A r \in Request : answered[r] <= 1

\* Requests that an ack has completed.
Answered == {r \in Request : answered[r] > 0}

\* No request goes out more often than its retry_time, the first time
\* included, but for one transmission per answered request: the poll thread
\* found its session due, waited for the lock while the ack freed it, and
\* sends whatever packet its block holds by then (AutoRepeatSendCheck).
RetriesBounded ==
    LET late == Cardinality(Answered)
    IN  /\ \A r \in Request : transmitted[r] <= Max(RetryTime \cup {1}) + late
        /\ \A i \in AckSession :
             LET s == cmd_session_table[i]
             IN  s.usage_flag /\ i # packing.session /\ s.retry_time > 0 =>
                     transmitted[s.request] <= s.retry_time + late

\* Two requests that follow one another in a session differ in their
\* sequence number, though seq_num_ wraps: the peer tells a new request from
\* a repetition by it (pre_seq_num in SendCMD).
SequenceMoves ==
    [][\A i \in AckSession :
         cmd_session_table'[i].request # cmd_session_table[i].request =>
             cmd_session_table'[i].pre_seq_num # cmd_session_table[i].pre_seq_num]_vars

\* Every request ends: its session comes back after an ack or after the
\* last retry, whatever the line loses.
SessionsComeBack ==
    \A i \in AckSession :
        cmd_session_table[i].usage_flag ~> ~cmd_session_table[i].usage_flag

\* A command of a peer reaches the application at most once, however often
\* the peer repeats it and whenever the answer is sent (ack_session_table).
DeliveredOnce == \A c \in Command : delivered[c] <= 1

\* The number of p has come around between its k-th command and its l-th.
CameAround(p, k, l) ==
    \E m \in DOMAIN issued[p] : /\ issued[p][m].seq_num = 0
                               /\ \/ k < m /\ m <= l
                                  \/ l < m /\ m <= k

\* The stored answer that is sent again (protocol.cpp:861) is that of a command with the session
\* and number of the one it is sent for: of this very command, of one its device made a whole
\* round of numbers from it, or of another device's, as the ack sessions do not tell the devices.
RightAnswerRepeated ==
    [][ReceiveRepeated =>
         \E p \in Peers : \E k \in DOMAIN issued[p] :
           LET a == StoredAnswer(Arrived.session_id)
               c == issued[p][k]
           IN  /\ a.number = c.number
               /\ c.session_id = Arrived.session_id /\ c.seq_num = Arrived.seq_num
               /\ p = Arrived.sender =>
                     \E l \in DOMAIN issued[p] : /\ issued[p][l] = Arrived
                                                /\ \/ l = k
                                                   \/ CameAround(p, k, l)]_vars
=============================================================================
