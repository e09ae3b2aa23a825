------------------------------ MODULE Dispatch ------------------------------
(***************************************************************************)
(* roborts_sdk/dispatch: the subscriptions, clients and services that      *)
(* share one (command set, command id), between the protocol's threads and *)
(* the application.                                                        *)
(*                                                                         *)
(* ReceivePool pushes a container into the ring of its command; Spin lets  *)
(* every endpoint take one from it in turn and handle it; AsyncSendRequest *)
(* sends a request and files its promise under the session id of the       *)
(* request.  The three run in threads of their own: mutex_ covers one Push *)
(* or one Take, pending_requests_mutex_ one AsyncSendRequest or the look-  *)
(* up of one response.  Of Protocol's sessions only their use is kept.     *)
(***************************************************************************)
EXTENDS Integers, SequencesExt

CONSTANTS Endpoints,     \* the endpoints in the order Spin visits them
          Session,       \* ids of the sessions a request can get
          RingSize,      \* 100 in ReceivePool
          MaxRequests,   \* bound: calls of AsyncSendRequest
          MaxMessages    \* bound: messages and commands of the devices

Local == 0               \* the address of this side

\* The CommandInfo of each kind of endpoint, opposite a device.
Subscription(device) == [need_ack |-> FALSE, sender |-> device, receiver |-> Local]
Service(device)      == [need_ack |-> TRUE,  sender |-> device, receiver |-> Local]
Client(device)       == [need_ack |-> TRUE,  sender |-> Local,  receiver |-> device]

Address     == 0 .. 255   \* uint8_t
CommandInfo == [need_ack : BOOLEAN, sender : Address, receiver : Address]

ASSUME DispatchAssumption ==
    /\ Endpoints \in Seq(CommandInfo) /\ Endpoints # << >>
    /\ Session # {} /\ Session \subseteq Nat \ {0}
    /\ RingSize \in Nat \ {0}
    /\ MaxRequests \in Nat /\ MaxMessages \in Nat

Turn     == 1 .. Len(Endpoints)
IsClient(e) == e.sender = Local
Clients  == {t \in Turn : IsClient(Endpoints[t])}
Request  == 1 .. MaxRequests
Message  == 1 .. MaxMessages

\* number stands for the data: of which request this is the response, or
\* which message it is.
Container(is_ack, need_ack, sender, session_id, number) ==
    [is_ack |-> is_ack, need_ack |-> need_ack, sender |-> sender,
     receiver |-> Local, session_id |-> session_id, number |-> number]

None == Container(FALSE, FALSE, Local, 0, 0)
NoCall == [session_id |-> 0, number |-> 0]

VARIABLES
    sessions,   \* session -> the request that uses it, 0 if free
    asked,      \* what the devices received: they may ack it any time, again
    received,   \* the container ReceivePool is about to push
    ring,       \* buffer_pool_map_ at this command
    turn,       \* the endpoint Spin is at
    taken,      \* what Take gave that endpoint
    calling,    \* client -> what its AsyncSendRequest has sent, not yet filed
    pending_requests_,  \* client -> session id -> the request filed, 0 if none
    requests, messages, \* so far
    resolved,   \* request -> the responses its promise was set to
    broken      \* requests whose promise was destroyed before

protocol == <<sessions, asked, received>>
spin     == <<turn, taken>>
client   == <<calling, pending_requests_, requests, resolved, broken>>
vars     == <<protocol, ring, spin, client, messages>>

Init == /\ sessions = [s \in Session |-> 0]
        /\ asked = {}
        /\ received = None
        /\ ring = << >>
        /\ turn = 1
        /\ taken = None
        /\ calling = [t \in Clients |-> NoCall]
        /\ pending_requests_ = [t \in Clients |-> [s \in Session \cup {0} |-> 0]]
        /\ requests = 0 /\ messages = 0
        /\ resolved = [r \in Request |-> {}]
        /\ broken = {}

-----------------------------------------------------------------------------
(* The protocol layer below                                                 *)

\* CircularBuffer's Push (module CircularBuffer shows the ring to be this).
Pushed(queue, c) == Append(IF Len(queue) = RingSize THEN Tail(queue) ELSE queue, c)

\* ContainerHandler: an ack frees the session it finds used.
ReceiveAck(a) ==
    /\ received = None
    /\ sessions[a.session_id] # 0
    /\ sessions' = [sessions EXCEPT ![a.session_id] = 0]
    /\ received' = Container(TRUE, TRUE, a.device, a.session_id, a.number)
    /\ UNCHANGED <<asked, ring, spin, client, messages>>

\* A message or a command of a device, for an endpoint that is no client.
ReceiveCommand(e) ==
    /\ received = None
    /\ ~IsClient(e)
    /\ messages < MaxMessages
    /\ messages' = messages + 1
    /\ received' = Container(FALSE, e.need_ack, e.sender, 0, messages')
    /\ UNCHANGED <<sessions, asked, ring, spin, client>>

ReceivePush ==
    /\ received # None
    /\ ring' = Pushed(ring, received)
    /\ received' = None
    /\ UNCHANGED <<sessions, asked, spin, client, messages>>

\* AutoRepeatSendCheck gives a session up after its last retry.
Expire(s) ==
    /\ sessions[s] # 0
    /\ sessions' = [sessions EXCEPT ![s] = 0]
    /\ UNCHANGED <<asked, received, ring, spin, client, messages>>

-----------------------------------------------------------------------------
(* AsyncSendRequest                                                         *)

\* With pending_requests_mutex_: SendRequest allocates a session and sends.
\* When it fails the header stays as make_shared made it, all zero.
SendRequest(t) ==
    /\ calling[t] = NoCall
    /\ requests < MaxRequests
    /\ requests' = requests + 1
    /\ LET free == {s \in Session : sessions[s] = 0}
           s    == IF free = {} THEN 0 ELSE Min(free)
       IN  /\ calling' = [calling EXCEPT ![t] = [session_id |-> s, number |-> requests']]
           /\ IF s = 0 THEN UNCHANGED <<sessions, asked>>
              ELSE /\ sessions' = [sessions EXCEPT ![s] = requests']
                   /\ asked' = asked \cup {[device |-> Endpoints[t].receiver,
                                            session_id |-> s, number |-> requests']}
    /\ UNCHANGED <<received, ring, spin, pending_requests_, resolved, broken, messages>>

\* The rest: the promise is filed, sent or not, over one that is there still.
FileRequest(t) ==
    /\ calling[t] # NoCall
    /\ LET s   == calling[t].session_id
           old == pending_requests_[t][s]
       IN  /\ pending_requests_' = [pending_requests_ EXCEPT ![t][s] = calling[t].number]
           /\ broken' = IF old = 0 THEN broken ELSE broken \cup {old}
    /\ calling' = [calling EXCEPT ![t] = NoCall]
    /\ UNCHANGED <<protocol, ring, spin, requests, resolved, messages>>

-----------------------------------------------------------------------------
(* Spin                                                                     *)

\* Mutant: the last endpoint is followed by none.
NextTurnOn(t) == t + 1

NextTurn(t) == IF t = Len(Endpoints) THEN 1 ELSE t + 1

\* The comparisons of Take.  (A length of its own never differs where the
\* rest is equal: both sides compile the same structures.)
Matches(e, c) ==
    /\ c.need_ack = e.need_ack
    /\ IF c.is_ack THEN c.receiver = e.sender /\ c.sender = e.receiver
       ELSE c.receiver = e.receiver /\ c.sender = e.sender

TakeEmpty ==
    /\ taken = None
    /\ ring = << >>
    /\ turn' = NextTurn(turn)
    /\ UNCHANGED <<protocol, ring, taken, client, messages>>

TakeMatch ==
    /\ taken = None
    /\ ring # << >> /\ Matches(Endpoints[turn], Head(ring))
    /\ taken' = Head(ring)
    /\ ring' = Tail(ring)
    /\ UNCHANGED <<protocol, turn, client, messages>>

\* Mutant: what does not match is gone.
TakeMismatchDrops ==
    /\ taken = None
    /\ ring # << >> /\ ~Matches(Endpoints[turn], Head(ring))
    /\ ring' = Tail(ring)
    /\ turn' = NextTurn(turn)
    /\ UNCHANGED <<protocol, taken, client, messages>>

\* Back to the tail, behind the younger ones.
TakeMismatch ==
    /\ taken = None
    /\ ring # << >> /\ ~Matches(Endpoints[turn], Head(ring))
    /\ ring' = Pushed(Tail(ring), Head(ring))
    /\ turn' = NextTurn(turn)
    /\ UNCHANGED <<protocol, taken, client, messages>>

HandleCommand ==
    /\ taken # None /\ turn \notin Clients
    /\ taken' = None
    /\ turn' = NextTurn(turn)
    /\ UNCHANGED <<protocol, ring, client, messages>>

\* Mutants: the response is dropped when the mutex is taken; the entry of the
\* request stays.
HandleResponseTryLock ==
    /\ taken # None /\ turn \in Clients
    /\ LET s == taken.session_id
           r == pending_requests_[turn][s]
       IN  IF r = 0 \/ calling[turn] # NoCall THEN UNCHANGED <<pending_requests_, resolved>>
           ELSE /\ pending_requests_' = [pending_requests_ EXCEPT ![turn][s] = 0]
                /\ resolved' = [resolved EXCEPT ![r] = @ \cup {taken.number}]
    /\ taken' = None
    /\ turn' = NextTurn(turn)
    /\ UNCHANGED <<protocol, ring, calling, requests, broken, messages>>
HandleResponseKeepsEntry ==
    /\ taken # None /\ turn \in Clients
    /\ calling[turn] = NoCall
    /\ LET r == pending_requests_[turn][taken.session_id]
       IN  resolved' = IF r = 0 THEN resolved
                       ELSE [resolved EXCEPT ![r] = @ \cup {taken.number}]
    /\ taken' = None
    /\ turn' = NextTurn(turn)
    /\ UNCHANGED <<protocol, ring, calling, pending_requests_, requests, broken, messages>>

\* With pending_requests_mutex_: a response with no entry is ignored.
HandleResponse ==
    /\ taken # None /\ turn \in Clients
    /\ calling[turn] = NoCall
    /\ LET s == taken.session_id
           r == pending_requests_[turn][s]
       IN  IF r = 0 THEN UNCHANGED <<pending_requests_, resolved>>
           ELSE /\ pending_requests_' = [pending_requests_ EXCEPT ![turn][s] = 0]
                /\ resolved' = [resolved EXCEPT ![r] = @ \cup {taken.number}]
    /\ taken' = None
    /\ turn' = NextTurn(turn)
    /\ UNCHANGED <<protocol, ring, calling, requests, broken, messages>>

-----------------------------------------------------------------------------
Next == \/ \E a \in asked : ReceiveAck(a)
        \/ \E t \in Turn : ReceiveCommand(Endpoints[t])
        \/ ReceivePush
        \/ \E s \in Session : Expire(s)
        \/ \E t \in Clients : SendRequest(t)
        \/ \E t \in Clients : FileRequest(t)
        \/ TakeEmpty
        \/ TakeMatch
        \/ TakeMismatch
        \/ HandleCommand
        \/ HandleResponse

Spec == Init /\ [][Next]_vars

-----------------------------------------------------------------------------
ContainerType == [is_ack : BOOLEAN, need_ack : BOOLEAN,
                  sender : {e.sender : e \in ToSet(Endpoints)}
                           \cup {e.receiver : e \in ToSet(Endpoints)} \cup {Local},
                  receiver : {Local}, session_id : Session \cup {0},
                  number : 0 .. MaxRequests + MaxMessages]

TypeOK == /\ sessions \in [Session -> 0 .. MaxRequests]
          /\ received \in ContainerType
          /\ ring \in Seq(ContainerType) /\ Len(ring) <= RingSize
          /\ turn \in Turn
          /\ taken \in ContainerType
          /\ calling \in [Clients -> [session_id : Session \cup {0}, number : 0 .. MaxRequests]]
          /\ pending_requests_ \in [Clients -> [Session \cup {0} -> 0 .. MaxRequests]]
          /\ resolved \in [Request -> SUBSET Request]
          /\ broken \subseteq Request

\* What a queue holds, in whatever order.
BagOf(queue) == [c \in ToSet(queue) |-> Cardinality({k \in DOMAIN queue : queue[k] = c})]

Room == INSTANCE Mailroom
        WITH Content <- ContainerType, Endpoint <- ToSet(Endpoints),
             MeantFor <- Matches, Capacity <- RingSize,
             waiting <- BagOf(ring), count <- Len(ring),
             in_hand <- IF taken = None THEN {} ELSE {<<Endpoints[turn], taken>>}

\* Take's putting back loses, doubles and misdirects nothing, though the
\* receiving thread pushes between any two of them.
ImplementsMailroom == Room!Spec

\* A promise is set at most once (a second set_value would throw in Spin),
\* and never after it was destroyed.
PromiseSetOnce == /\ \A r \in Request : Cardinality(resolved[r]) <= 1
                  /\ \A r \in broken : resolved[r] = {}

Settled(r) == r \in broken \/ resolved[r] # {}

\* No two clients of the command talk to the same device (chassis.cpp:33 and
\* gimbal.cpp:35 make one each): Take tells their responses apart.
DevicesApart == \A t, u \in Clients :
                    Endpoints[t].receiver = Endpoints[u].receiver => t = u

\* A response that comes before AsyncSendRequest filed its request is not
\* ignored: HandleResponse ignores only what answers a settled request.
AnswersFindTheirRequest ==
    [][HandleResponse /\ resolved' = resolved => Settled(taken.number)]_vars
=============================================================================
