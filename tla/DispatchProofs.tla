--------------------------- MODULE DispatchProofs ---------------------------
(***************************************************************************)
(* Theorems about the dispatch layer, for every list of endpoints, ring    *)
(* size and set of sessions: where a request can be between the call of    *)
(* AsyncSendRequest and the end of its promise, and that Take keeps what   *)
(* the ring holds.                                                         *)
(***************************************************************************)
EXTENDS Dispatch, FiniteSetTheorems, SequenceTheorems, TLAPS

-----------------------------------------------------------------------------
(* The inductive invariant.                                                 *)

(* A request is with the call that sent it or in one entry of the pending   *)
(* requests, never in two places.                                           *)
OnePlace ==
    /\ \A t \in Clients : calling[t].number \in 0 .. requests
    /\ \A t, u \in Clients :
         calling[t].number = calling[u].number /\ calling[t].number # 0 => t = u
    /\ \A t, u \in Clients, s \in Session \cup {0} :
         pending_requests_[u][s] # 0 => pending_requests_[u][s] # calling[t].number
    /\ \A t \in Clients, s \in Session \cup {0} : pending_requests_[t][s] \in 0 .. requests
    /\ \A t, u \in Clients, s, v \in Session \cup {0} :
         pending_requests_[t][s] = pending_requests_[u][v] /\ pending_requests_[t][s] # 0
         => t = u /\ s = v

(* A settled request was sent and has left both places.                     *)
SettledHasLeft ==
    \A r \in Request : Settled(r) =>
        /\ r <= requests
        /\ \A t \in Clients : calling[t].number # r
        /\ \A t \in Clients, s \in Session \cup {0} : pending_requests_[t][s] # r

(* What PromiseSetOnce says, without counting.                              *)
OneAnswer ==
    \A r \in Request : resolved[r] = {} \/ (r \notin broken /\ \E n \in Request : resolved[r] = {n})

(* A device was asked by a client, which has the request still or settled   *)
(* it.                                                                      *)
Followed(a) ==
    \E t \in Clients :
        /\ a.device = Endpoints[t].receiver
        /\ \/ calling[t] = [session_id |-> a.session_id, number |-> a.number]
           \/ pending_requests_[t][a.session_id] = a.number
           \/ Settled(a.number)

AskType == [device : {Endpoints[t].receiver : t \in Turn}, session_id : Session,
            number : Request]

AsksFollowed == /\ asked \subseteq AskType
                /\ \A a \in asked : Followed(a)

(* A container is the ack of something asked, or comes from a device.       *)
AskOf(c) == [device |-> c.sender, session_id |-> c.session_id, number |-> c.number]
FromDevice(c) == IF c.is_ack THEN AskOf(c) \in asked ELSE c.sender # Local

ContainersKnown ==
    /\ received = None \/ FromDevice(received)
    /\ taken = None \/ (FromDevice(taken) /\ Matches(Endpoints[turn], taken))
    /\ \A k \in 1 .. Len(ring) : ring[k] # None /\ FromDevice(ring[k])

Counted == requests \in 0 .. MaxRequests /\ messages \in 0 .. MaxMessages

IInv == /\ TypeOK
        /\ Counted
        /\ OnePlace
        /\ SettledHasLeft
        /\ OneAnswer
        /\ AsksFollowed
        /\ ContainersKnown

-----------------------------------------------------------------------------
(* The operators the model is built from.                                   *)

LEMMA EndpointTyped ==
    /\ Len(Endpoints) \in Nat /\ 1 \in Turn
    /\ \A t \in Turn : Endpoints[t] \in CommandInfo /\ Endpoints[t] \in ToSet(Endpoints)
BY DispatchAssumption DEF Turn, ToSet

LEMMA NextTurnIsTurn ==
    ASSUME NEW t \in Turn
    PROVE  NextTurn(t) \in Turn
BY EndpointTyped DEF NextTurn, Turn

(* The lowest free session exists when any is free.                         *)
LEMMA MinInSet ==
    ASSUME NEW S \in SUBSET Nat, S # {}
    PROVE  Min(S) \in S
<1>1. PICK x \in S : \A y \in S : ~(<<y, x>> \in OpToRel(<, Nat))
  BY WFMin, NatLessThanWellFounded
<1>2. ASSUME NEW y \in S
      PROVE  x =< y
  <2>1. y < x => <<y, x>> \in {ss \in Nat \X Nat : ss[1] < ss[2]}
    OBVIOUS
  <2>2. OpToRel(<, Nat) = {ss \in Nat \X Nat : ss[1] < ss[2]}
    BY DEF OpToRel
  <2>3. ~(y < x)
    BY <1>1, <2>1, <2>2
  <2> QED
    BY <2>3
<1> QED
  BY <1>2 DEF Min

(* Push keeps to the ring's size and adds nothing but c.                    *)
LEMMA PushedTyped ==
    ASSUME NEW S, NEW q \in Seq(S), Len(q) <= RingSize, NEW c \in S
    PROVE  /\ Pushed(q, c) \in Seq(S) /\ Len(Pushed(q, c)) <= RingSize
           /\ \A k \in 1 .. Len(Pushed(q, c)) :
                Pushed(q, c)[k] = c \/ \E j \in 1 .. Len(q) : Pushed(q, c)[k] = q[j]
<1>a. RingSize \in Nat \ {0}
  BY DispatchAssumption
<1>1. CASE Len(q) = RingSize
  <2>1. q # << >>
    BY <1>a, <1>1
  <2>2. Tail(q) \in Seq(S) /\ Len(Tail(q)) = Len(q) - 1
        /\ \A k \in 1 .. Len(Tail(q)) : Tail(q)[k] = q[k + 1] /\ k + 1 \in 1 .. Len(q)
    BY <2>1, HeadTailProperties
  <2> DEFINE r == Tail(q)
  <2>3. Append(r, c) \in Seq(S) /\ Len(Append(r, c)) = Len(q)
        /\ \A k \in 1 .. Len(q) : Append(r, c)[k] = IF k = Len(q) THEN c ELSE r[k]
    <3> r \in Seq(S) /\ Len(q) \in Nat /\ Len(r) = Len(q) - 1
      BY <2>2
    <3> HIDE DEF r
    <3>1. Append(r, c) \in Seq(S) /\ Len(Append(r, c)) = Len(r) + 1
          /\ \A k \in 1 .. Len(r) : Append(r, c)[k] = r[k]
          /\ Append(r, c)[Len(r) + 1] = c
      BY AppendProperties
    <3> QED
      BY <3>1
  <2>4. Pushed(q, c) = Append(Tail(q), c)
    BY <1>1 DEF Pushed
  <2> QED
    BY <1>a, <1>1, <2>2, <2>3, <2>4
<1>2. CASE Len(q) # RingSize
  <2>1. Append(q, c) \in Seq(S) /\ Len(Append(q, c)) = Len(q) + 1
        /\ \A k \in 1 .. Len(q) + 1 :
             Append(q, c)[k] = IF k = Len(q) + 1 THEN c ELSE q[k]
    BY AppendProperties
  <2>2. Pushed(q, c) = Append(q, c)
    BY <1>2 DEF Pushed
  <2> QED
    BY <1>a, <1>2, <2>1, <2>2
<1> QED
  BY <1>1, <1>2

(* The rest of a queue holds what the queue held.                           *)
LEMMA TailTyped ==
    ASSUME NEW S, NEW q \in Seq(S), q # << >>
    PROVE  /\ Head(q) \in S /\ Head(q) = q[1] /\ 1 \in 1 .. Len(q)
           /\ Tail(q) \in Seq(S) /\ Len(Tail(q)) = Len(q) - 1
           /\ \A k \in 1 .. Len(Tail(q)) :
                Tail(q)[k] = q[k + 1] /\ k + 1 \in 1 .. Len(q)
BY HeadTailProperties


(* What a client takes is an ack of what was asked of its device.           *)
LEMMA ResponseWasAsked ==
    ASSUME IInv, taken # None, turn \in Clients
    PROVE  /\ taken.is_ack /\ AskOf(taken) \in asked
           /\ taken.sender = Endpoints[turn].receiver
           /\ taken.number \in Request /\ taken.session_id \in Session
<1>1. FromDevice(taken) /\ Matches(Endpoints[turn], taken)
  BY DEF IInv, ContainersKnown
<1>2. Endpoints[turn].sender = Local
  BY DEF Clients, IsClient
<1>3. taken.is_ack
  BY <1>1, <1>2 DEF FromDevice, Matches
<1>4. AskOf(taken) \in asked
  BY <1>1, <1>3 DEF FromDevice
<1>5. AskOf(taken) \in AskType
  BY <1>4 DEF IInv, AsksFollowed
<1>6. taken.number \in Request /\ taken.session_id \in Session
  BY <1>5 DEF AskOf, AskType
<1> QED
  BY <1>1, <1>3, <1>4, <1>6 DEF Matches

-----------------------------------------------------------------------------
(* Every step keeps the types.                                              *)

SenderType == {e.sender : e \in ToSet(Endpoints)}
              \cup {e.receiver : e \in ToSet(Endpoints)} \cup {Local}

LEMMA ContainerTyped ==
    ASSUME NEW is_ack \in BOOLEAN, NEW need_ack \in BOOLEAN, NEW sender \in SenderType,
           NEW session_id \in Session \cup {0}, NEW number \in 0 .. MaxRequests + MaxMessages
    PROVE  Container(is_ack, need_ack, sender, session_id, number) \in ContainerType
BY DEF Container, ContainerType, SenderType

LEMMA NoneTyped == None \in ContainerType
<1>1. 0 \in 0 .. MaxRequests + MaxMessages /\ Local \in SenderType
  BY DispatchAssumption DEF SenderType
<1> QED
  BY <1>1, ContainerTyped DEF None

LEMMA InitTyped == Init => TypeOK /\ Counted
<1> SUFFICES ASSUME Init
             PROVE  TypeOK /\ Counted
  OBVIOUS
<1>1. NoCall \in [session_id : Session \cup {0}, number : 0 .. MaxRequests]
  BY DispatchAssumption DEF NoCall
<1>2. /\ 0 \in 0 .. MaxRequests /\ 0 \in 0 .. MaxMessages
      /\ << >> \in Seq(ContainerType) /\ Len(<< >>) <= RingSize
  BY DispatchAssumption
<1> QED
  BY <1>1, <1>2, NoneTyped, EndpointTyped DEF Init, TypeOK, Counted

(* The parts of TypeOK: the receiving side, and the sending side.           *)
ReceivingTyped == /\ received \in ContainerType
                  /\ ring \in Seq(ContainerType) /\ Len(ring) <= RingSize
                  /\ turn \in Turn
                  /\ taken \in ContainerType
                  /\ messages \in 0 .. MaxMessages
SendingTyped ==
    /\ sessions \in [Session -> 0 .. MaxRequests]
    /\ calling \in [Clients -> [session_id : Session \cup {0}, number : 0 .. MaxRequests]]
    /\ pending_requests_ \in [Clients -> [Session \cup {0} -> 0 .. MaxRequests]]
    /\ resolved \in [Request -> SUBSET Request]
    /\ broken \subseteq Request
    /\ requests \in 0 .. MaxRequests

LEMMA ReceivingStaysTyped ==
    ASSUME IInv, [Next]_vars
    PROVE  ReceivingTyped'
<1> USE DEF ReceivingTyped
<1>0. ReceivingTyped
  BY DEF IInv, TypeOK, Counted
<1>a. ring # << >> => /\ Head(ring) \in ContainerType
                      /\ Tail(ring) \in Seq(ContainerType) /\ Len(Tail(ring)) <= RingSize
  BY <1>0, TailTyped, DispatchAssumption
<1>1. ASSUME NEW a \in asked, ReceiveAck(a)
      PROVE  ReceivingTyped'
  <2>1. a \in AskType
    BY DEF IInv, AsksFollowed
  <2>2. a.device \in SenderType
    BY <2>1, EndpointTyped DEF AskType, SenderType
  <2>3. a.session_id \in Session \cup {0} /\ a.number \in 0 .. MaxRequests + MaxMessages
    BY <2>1, DispatchAssumption DEF AskType, Request
  <2>4. received' \in ContainerType
    BY <1>1, <2>2, <2>3, ContainerTyped DEF ReceiveAck
  <2> QED
    BY <1>0, <1>1, <2>4 DEF ReceiveAck, spin
<1>2. ASSUME NEW t \in Turn, ReceiveCommand(Endpoints[t])
      PROVE  ReceivingTyped'
  <2>1. Endpoints[t].sender \in SenderType /\ Endpoints[t].need_ack \in BOOLEAN
    BY EndpointTyped DEF SenderType, CommandInfo
  <2>2. messages' \in 0 .. MaxMessages /\ messages' \in 0 .. MaxRequests + MaxMessages
    BY <1>0, <1>2, DispatchAssumption DEF ReceiveCommand
  <2>3. received' \in ContainerType
    BY <1>2, <2>1, <2>2, ContainerTyped DEF ReceiveCommand
  <2> QED
    BY <1>0, <1>2, <2>2, <2>3 DEF ReceiveCommand, spin
<1>3. CASE ReceivePush
  <2>1. ring' \in Seq(ContainerType) /\ Len(ring') <= RingSize
    BY <1>0, <1>3, PushedTyped DEF ReceivePush
  <2> QED
    BY <1>0, <1>3, <2>1, NoneTyped DEF ReceivePush, spin
<1>4. ASSUME NEW s \in Session, Expire(s)
      PROVE  ReceivingTyped'
  BY <1>0, <1>4 DEF Expire, spin
<1>5. ASSUME NEW t \in Clients, SendRequest(t) \/ FileRequest(t)
      PROVE  ReceivingTyped'
  BY <1>0, <1>5 DEF SendRequest, FileRequest, spin, protocol
<1>6. CASE TakeEmpty
  BY <1>0, <1>6, NextTurnIsTurn DEF TakeEmpty, protocol
<1>7. CASE TakeMatch
  BY <1>0, <1>a, <1>7 DEF TakeMatch, protocol
<1>8. CASE TakeMismatch
  <2>1. ring' \in Seq(ContainerType) /\ Len(ring') <= RingSize
    BY <1>a, <1>8, PushedTyped DEF TakeMismatch
  <2> QED
    BY <1>0, <1>8, <2>1, NextTurnIsTurn DEF TakeMismatch, protocol
<1>9. CASE HandleCommand
  BY <1>0, <1>9, NextTurnIsTurn, NoneTyped DEF HandleCommand, protocol
<1>10. CASE HandleResponse
  BY <1>0, <1>10, NextTurnIsTurn, NoneTyped DEF HandleResponse, protocol
<1>11. CASE UNCHANGED vars
  BY <1>0, <1>11 DEF vars, protocol, spin
<1> QED
  BY <1>1, <1>2, <1>3, <1>4, <1>5, <1>6, <1>7, <1>8, <1>9, <1>10, <1>11 DEF Next

(* The session SendRequest gets is free, or 0 when none is.                 *)
LEMMA SessionFound ==
    ASSUME NEW free, free = {s \in Session : sessions[s] = 0}
    PROVE  /\ (IF free = {} THEN 0 ELSE Min(free)) \in Session \cup {0}
           /\ (IF free = {} THEN 0 ELSE Min(free)) # 0 =>
                (IF free = {} THEN 0 ELSE Min(free)) \in Session
<1>1. free \in SUBSET Nat /\ free \subseteq Session
  BY DispatchAssumption
<1>2. CASE free = {}
  BY <1>2
<1>3. CASE free # {}
  BY <1>1, <1>3, MinInSet
<1> QED
  BY <1>2, <1>3

(* What SendRequest leaves with the caller, and what it sends.              *)
LEMMA SendRequestDoes ==
    ASSUME SendingTyped, NEW t \in Clients, SendRequest(t)
    PROVE  /\ requests < MaxRequests /\ requests' = requests + 1
           /\ calling[t] = NoCall
           /\ \E s \in Session \cup {0} :
                /\ calling' = [calling EXCEPT ![t] = [session_id |-> s, number |-> requests']]
                /\ \/ UNCHANGED <<sessions, asked>>
                   \/ /\ s \in Session
                      /\ sessions' = [sessions EXCEPT ![s] = requests']
                      /\ asked' = asked \cup {[device |-> Endpoints[t].receiver,
                                               session_id |-> s, number |-> requests']}
           /\ UNCHANGED <<received, ring, spin, pending_requests_, resolved, broken, messages>>
<1> DEFINE free == {s \in Session : sessions[s] = 0}
           s    == IF free = {} THEN 0 ELSE Min(free)
<1>1. s \in Session \cup {0} /\ (s # 0 => s \in Session)
  BY SessionFound
<1>2. calling' = [calling EXCEPT ![t] = [session_id |-> s, number |-> requests']]
  BY DEF SendRequest
<1>3. \/ UNCHANGED <<sessions, asked>>
      \/ /\ s # 0
         /\ sessions' = [sessions EXCEPT ![s] = requests']
         /\ asked' = asked \cup {[device |-> Endpoints[t].receiver,
                                  session_id |-> s, number |-> requests']}
  BY DEF SendRequest
<1>4. /\ requests < MaxRequests /\ requests' = requests + 1 /\ calling[t] = NoCall
      /\ UNCHANGED <<received, ring, spin, pending_requests_, resolved, broken, messages>>
  BY DEF SendRequest
<1> HIDE DEF s
<1> QED
  BY <1>1, <1>2, <1>3, <1>4

(* Writing an entry of the pending requests.                                *)
LEMMA EntryTyped ==
    ASSUME NEW S, NEW p \in [Clients -> [Session \cup {0} -> S]], NEW t \in Clients,
           NEW s \in Session \cup {0}, NEW n \in S
    PROVE  /\ [p EXCEPT ![t][s] = n] \in [Clients -> [Session \cup {0} -> S]]
           /\ \A u \in Clients, v \in Session \cup {0} :
                [p EXCEPT ![t][s] = n][u][v] = IF u = t /\ v = s THEN n ELSE p[u][v]
OBVIOUS

LEMMA SendingStaysTyped ==
    ASSUME IInv, [Next]_vars
    PROVE  SendingTyped'
<1> USE DEF SendingTyped
<1>0. SendingTyped
  BY DEF IInv, TypeOK, Counted
<1>m. MaxRequests \in Nat /\ 0 \in 0 .. MaxRequests
  BY DispatchAssumption
<1>1. ASSUME NEW a \in asked, ReceiveAck(a)
      PROVE  SendingTyped'
  BY <1>0, <1>1, <1>m DEF ReceiveAck, client
<1>2. ASSUME NEW t \in Turn, ReceiveCommand(Endpoints[t])
      PROVE  SendingTyped'
  BY <1>0, <1>2 DEF ReceiveCommand, client
<1>3. CASE ReceivePush
  BY <1>0, <1>3 DEF ReceivePush, client
<1>4. ASSUME NEW s \in Session, Expire(s)
      PROVE  SendingTyped'
  BY <1>0, <1>4, <1>m DEF Expire, client
<1>5. ASSUME NEW t \in Clients, SendRequest(t)
      PROVE  SendingTyped'
  <2>1. PICK s \in Session \cup {0} :
          /\ calling' = [calling EXCEPT ![t] = [session_id |-> s, number |-> requests']]
          /\ \/ UNCHANGED <<sessions, asked>>
             \/ s \in Session /\ sessions' = [sessions EXCEPT ![s] = requests']
    BY <1>0, <1>5, SendRequestDoes
  <2>2. requests' \in 0 .. MaxRequests
    BY <1>0, <1>5, <1>m DEF SendRequest
  <2>3. sessions' \in [Session -> 0 .. MaxRequests]
    BY <1>0, <2>1, <2>2
  <2>4. calling' \in [Clients -> [session_id : Session \cup {0}, number : 0 .. MaxRequests]]
    BY <1>0, <2>1, <2>2
  <2> QED
    BY <1>0, <1>5, <2>2, <2>3, <2>4 DEF SendRequest
<1>6. ASSUME NEW t \in Clients, FileRequest(t)
      PROVE  SendingTyped'
  <2> DEFINE s   == calling[t].session_id
             old == pending_requests_[t][s]
  <2>1. s \in Session \cup {0} /\ calling[t].number \in 0 .. MaxRequests
    BY <1>0
  <2>2. old \in 0 .. MaxRequests
    BY <1>0, <2>1
  <2>3. /\ pending_requests_' = [pending_requests_ EXCEPT ![t][s] = calling[t].number]
        /\ broken' = IF old = 0 THEN broken ELSE broken \cup {old}
        /\ calling' = [calling EXCEPT ![t] = NoCall]
        /\ UNCHANGED <<sessions, requests, resolved>>
    BY <1>6 DEF FileRequest, protocol
  <2>5. NoCall \in [session_id : Session \cup {0}, number : 0 .. MaxRequests]
    BY <1>m DEF NoCall
  <2> HIDE DEF s, old
  <2>4. broken' \subseteq Request
    <3>1. old = 0 \/ old \in Request
      BY <2>2, <1>m DEF Request
    <3> QED
      BY <1>0, <2>3, <3>1
  <2>6. pending_requests_' \in [Clients -> [Session \cup {0} -> 0 .. MaxRequests]]
    BY <1>0, <2>1, <2>3
  <2> QED
    BY <1>0, <2>3, <2>4, <2>5, <2>6
<1>7. CASE TakeEmpty \/ TakeMatch \/ TakeMismatch \/ HandleCommand
  BY <1>0, <1>7 DEF TakeEmpty, TakeMatch, TakeMismatch, HandleCommand, protocol, client
<1>8. CASE HandleResponse
  <2> DEFINE s == taken.session_id
             r == pending_requests_[turn][s]
  <2>1. /\ turn \in Clients /\ s \in Session /\ taken.number \in Request
    BY <1>8, ResponseWasAsked DEF HandleResponse
  <2>2. r \in 0 .. MaxRequests
    BY <1>0, <2>1
  <2>3. /\ IF r = 0 THEN UNCHANGED <<pending_requests_, resolved>>
           ELSE /\ pending_requests_' = [pending_requests_ EXCEPT ![turn][s] = 0]
                /\ resolved' = [resolved EXCEPT ![r] = @ \cup {taken.number}]
        /\ UNCHANGED <<protocol, calling, requests, broken>>
    BY <1>8 DEF HandleResponse
  <2>4. r # 0 => r \in Request
    BY <2>2, <1>m DEF Request
  <2> HIDE DEF s, r
  <2>5. pending_requests_' \in [Clients -> [Session \cup {0} -> 0 .. MaxRequests]]
    <3>1. s \in Session \cup {0} /\ turn \in Clients
      BY <2>1
    <3>2. CASE r = 0
      BY <1>0, <2>3, <3>2
    <3>3. CASE r # 0
      <4>1. pending_requests_' = [pending_requests_ EXCEPT ![turn][s] = 0]
        BY <2>3, <3>3
      <4>2. pending_requests_ \in [Clients -> [Session \cup {0} -> 0 .. MaxRequests]]
        BY <1>0
      <4> QED
        BY <1>m, <3>1, <4>1, <4>2, EntryTyped
    <3> QED
      BY <3>2, <3>3
  <2>6. resolved' \in [Request -> SUBSET Request]
    BY <1>0, <2>1, <2>3, <2>4
  <2> QED
    BY <1>0, <2>3, <2>5, <2>6 DEF protocol
<1>9. CASE UNCHANGED vars
  BY <1>0, <1>9 DEF vars, protocol, client
<1> QED
  BY <1>1, <1>2, <1>3, <1>4, <1>5, <1>6, <1>7, <1>8, <1>9 DEF Next

-----------------------------------------------------------------------------
(* Every request stays in one place, and is settled once.                   *)

Requests == OnePlace /\ SettledHasLeft /\ OneAnswer

LEMMA RequestsStay ==
    ASSUME IInv, [Next]_vars
    PROVE  Requests'
<1> DEFINE Ids == Session \cup {0}
<1>0. /\ OnePlace /\ SettledHasLeft /\ OneAnswer
      /\ requests \in 0 .. MaxRequests
      /\ calling \in [Clients -> [session_id : Ids, number : 0 .. MaxRequests]]
      /\ pending_requests_ \in [Clients -> [Ids -> 0 .. MaxRequests]]
      /\ resolved \in [Request -> SUBSET Request]
      /\ broken \subseteq Request
  BY DEF IInv, TypeOK, Counted
<1>m. MaxRequests \in Nat /\ 0 \in 0 .. MaxRequests
  BY DispatchAssumption
<1>u. ASSUME UNCHANGED client
      PROVE  Requests'
  BY <1>0, <1>u DEF client, Requests, OnePlace, SettledHasLeft, OneAnswer, Settled
<1>1. ASSUME NEW a \in asked, ReceiveAck(a)
      PROVE  Requests'
  BY <1>1, <1>u DEF ReceiveAck
<1>2. ASSUME NEW t \in Turn, ReceiveCommand(Endpoints[t])
      PROVE  Requests'
  BY <1>2, <1>u DEF ReceiveCommand
<1>3. CASE ReceivePush
  BY <1>3, <1>u DEF ReceivePush
<1>4. ASSUME NEW s \in Session, Expire(s)
      PROVE  Requests'
  BY <1>4, <1>u DEF Expire
<1>5. ASSUME NEW t \in Clients, SendRequest(t)
      PROVE  Requests'
  <2>1. /\ requests' = requests + 1
        /\ UNCHANGED <<pending_requests_, resolved, broken>>
    BY <1>5 DEF SendRequest
  <2>2. PICK s \in Ids :
          calling' = [calling EXCEPT ![t] = [session_id |-> s, number |-> requests']]
    BY <1>0, <1>5, SendRequestDoes DEF SendingTyped, IInv, TypeOK, Counted
  <2>3. \A u \in Clients : calling'[u].number = IF u = t THEN requests + 1
                                                ELSE calling[u].number
    BY <1>0, <2>1, <2>2
  <2>i. requests \in Nat /\ \A u \in Clients : calling[u].number \in 0 .. requests
    BY <1>0, <1>m DEF OnePlace
  <2>4. OnePlace'
    <3>1. \A u \in Clients : calling'[u].number \in 0 .. requests'
      BY <2>1, <2>3, <2>i
    <3>2. \A u, w \in Clients :
            calling'[u].number = calling'[w].number /\ calling'[u].number # 0 => u = w
      BY <1>0, <2>3, <2>i DEF OnePlace
    <3>3. \A u \in Clients, v \in Ids : pending_requests_'[u][v] \in 0 .. requests
      BY <1>0, <2>1 DEF OnePlace
    <3>4. \A u, w \in Clients, v \in Ids :
            pending_requests_'[w][v] # 0 => pending_requests_'[w][v] # calling'[u].number
      BY <1>0, <2>1, <2>3, <2>i, <3>3 DEF OnePlace
    <3>5. \A u \in Clients, v \in Ids : pending_requests_'[u][v] \in 0 .. requests'
      BY <2>1, <2>i, <3>3
    <3> QED
      BY <1>0, <2>1, <3>1, <3>2, <3>4, <3>5 DEF OnePlace
  <2>5. SettledHasLeft'
    <3> SUFFICES ASSUME NEW r \in Request, Settled(r)
                 PROVE  /\ r <= requests'
                        /\ \A u \in Clients : calling'[u].number # r
                        /\ \A u \in Clients, v \in Ids : pending_requests_'[u][v] # r
      BY <2>1 DEF SettledHasLeft, Settled
    <3>1. /\ r <= requests
          /\ \A u \in Clients : calling[u].number # r
          /\ \A u \in Clients, v \in Ids : pending_requests_[u][v] # r
      BY <1>0 DEF SettledHasLeft
    <3> QED
      BY <2>1, <2>3, <2>i, <3>1 DEF Request
  <2> QED
    BY <1>0, <2>1, <2>4, <2>5 DEF Requests, OneAnswer
<1>6. ASSUME NEW t \in Clients, FileRequest(t)
      PROVE  Requests'
  <2> DEFINE s   == calling[t].session_id
             n   == calling[t].number
             old == pending_requests_[t][s]
  <2>1. s \in Ids /\ n \in 0 .. MaxRequests
    BY <1>0
  <2>2. old \in 0 .. MaxRequests
    BY <1>0, <2>1
  <2>3. /\ pending_requests_' = [pending_requests_ EXCEPT ![t][s] = n]
        /\ broken' = IF old = 0 THEN broken ELSE broken \cup {old}
        /\ calling' = [calling EXCEPT ![t] = NoCall]
        /\ UNCHANGED <<requests, resolved>>
    BY <1>6 DEF FileRequest
  <2>4. n = calling[t].number /\ old = pending_requests_[t][s]
    OBVIOUS
  <2> HIDE DEF s, n, old
  <2>5. \A u \in Clients, v \in Ids :
          pending_requests_'[u][v] = IF u = t /\ v = s THEN n ELSE pending_requests_[u][v]
    BY <1>0, <2>1, <2>3, EntryTyped
  <2>6. \A u \in Clients : calling'[u].number = IF u = t THEN 0 ELSE calling[u].number
    BY <1>0, <2>3 DEF NoCall
  <2>7. OnePlace'
    <3>1. \A u \in Clients : calling'[u].number \in 0 .. requests'
      BY <1>0, <2>3, <2>6 DEF OnePlace
    <3>2. \A u, w \in Clients :
            calling'[u].number = calling'[w].number /\ calling'[u].number # 0 => u = w
      BY <1>0, <2>6 DEF OnePlace
    <3>3. \A u, w \in Clients, v \in Ids :
            pending_requests_'[w][v] # 0 => pending_requests_'[w][v] # calling'[u].number
      BY <1>0, <2>4, <2>5, <2>6 DEF OnePlace
    <3>4. \A u \in Clients, v \in Ids : pending_requests_'[u][v] \in 0 .. requests'
      BY <1>0, <2>3, <2>4, <2>5 DEF OnePlace
    <3>5. \A u, w \in Clients, v, x \in Ids :
            pending_requests_'[u][v] = pending_requests_'[w][x] /\ pending_requests_'[u][v] # 0
            => u = w /\ v = x
      BY <1>0, <2>4, <2>5 DEF OnePlace
    <3> QED
      BY <3>1, <3>2, <3>3, <3>4, <3>5 DEF OnePlace
  <2>8. old # 0 => ~Settled(old)
    BY <1>0, <2>1, <2>2, <2>4 DEF SettledHasLeft, Request
  <2>9. SettledHasLeft'
    <3> SUFFICES ASSUME NEW r \in Request, Settled(r)'
                 PROVE  /\ r <= requests'
                        /\ \A u \in Clients : calling'[u].number # r
                        /\ \A u \in Clients, v \in Ids : pending_requests_'[u][v] # r
      BY DEF SettledHasLeft
    <3>1. Settled(r) \/ (r = old /\ old # 0)
      BY <2>3 DEF Settled
    <3>2. CASE Settled(r)
      <4>1. /\ r <= requests
            /\ \A u \in Clients : calling[u].number # r
            /\ \A u \in Clients, v \in Ids : pending_requests_[u][v] # r
        BY <1>0, <3>2 DEF SettledHasLeft
      <4> QED
        BY <2>3, <2>4, <2>5, <2>6, <4>1 DEF Request
    <3>3. CASE r = old /\ old # 0
      <4>1. r <= requests
        BY <1>0, <2>1, <2>4, <3>3 DEF OnePlace
      <4>2. \A u \in Clients : calling[u].number # r
        BY <1>0, <2>1, <2>4, <3>3 DEF OnePlace
      <4>3. \A u \in Clients, v \in Ids : pending_requests_[u][v] = r => u = t /\ v = s
        BY <1>0, <2>1, <2>4, <3>3 DEF OnePlace
      <4> QED
        BY <2>3, <2>4, <2>5, <2>6, <3>3, <4>1, <4>2, <4>3
    <3> QED
      BY <3>1, <3>2, <3>3
  <2>10. OneAnswer'
    BY <1>0, <2>3, <2>8 DEF OneAnswer, Settled
  <2> QED
    BY <2>7, <2>9, <2>10 DEF Requests
<1>7. CASE TakeEmpty \/ TakeMatch \/ TakeMismatch \/ HandleCommand
  BY <1>7, <1>u DEF TakeEmpty, TakeMatch, TakeMismatch, HandleCommand
<1>8. CASE HandleResponse
  <2> DEFINE s == taken.session_id
             r == pending_requests_[turn][s]
  <2>1. turn \in Clients /\ s \in Ids /\ taken.number \in Request
    BY <1>8, ResponseWasAsked DEF HandleResponse
  <2>2. r \in 0 .. MaxRequests
    BY <1>0, <2>1
  <2>3. /\ IF r = 0 THEN UNCHANGED <<pending_requests_, resolved>>
           ELSE /\ pending_requests_' = [pending_requests_ EXCEPT ![turn][s] = 0]
                /\ resolved' = [resolved EXCEPT ![r] = @ \cup {taken.number}]
        /\ UNCHANGED <<calling, requests, broken>>
    BY <1>8 DEF HandleResponse
  <2>4. r = pending_requests_[turn][s]
    OBVIOUS
  <2> HIDE DEF s, r
  <2>5. CASE r = 0
    BY <1>u, <2>3, <2>5 DEF client
  <2>6. CASE r # 0
    <3>1. \A u \in Clients, v \in Ids :
            pending_requests_'[u][v] =
              IF u = turn /\ v = s THEN 0 ELSE pending_requests_[u][v]
      BY <1>0, <1>m, <2>1, <2>3, <2>6, EntryTyped
    <3>2. r \in Request
      BY <2>2, <2>6 DEF Request
    <3>3. ~Settled(r)
      BY <1>0, <2>1, <2>4, <3>2 DEF SettledHasLeft
    <3>4. \A q \in Request : resolved'[q] = IF q = r THEN {taken.number} ELSE resolved[q]
      BY <1>0, <2>3, <2>6, <3>2, <3>3 DEF Settled
    <3>5. OnePlace'
      BY <1>0, <2>3, <3>1 DEF OnePlace
    <3>6. \A q \in Request : Settled(q)' => Settled(q) \/ q = r
      BY <2>3, <3>4 DEF Settled
    <3>7. SettledHasLeft'
      <4> SUFFICES ASSUME NEW q \in Request, Settled(q)'
                   PROVE  /\ q <= requests'
                          /\ \A u \in Clients : calling'[u].number # q
                          /\ \A u \in Clients, v \in Ids : pending_requests_'[u][v] # q
        BY DEF SettledHasLeft
      <4>1. CASE Settled(q)
        <5>1. /\ q <= requests
              /\ \A u \in Clients : calling[u].number # q
              /\ \A u \in Clients, v \in Ids : pending_requests_[u][v] # q
          BY <1>0, <4>1 DEF SettledHasLeft
        <5> QED
          BY <2>3, <3>1, <5>1 DEF Request
      <4>2. CASE q = r
        <5>1. q <= requests /\ \A u \in Clients : calling[u].number # q
          BY <1>0, <2>1, <2>4, <2>6, <4>2 DEF OnePlace
        <5>2. \A u \in Clients, v \in Ids : pending_requests_[u][v] = q => u = turn /\ v = s
          BY <1>0, <2>1, <2>4, <2>6, <4>2 DEF OnePlace
        <5> QED
          BY <2>3, <2>6, <3>1, <4>2, <5>1, <5>2
      <4> QED
        BY <3>6, <4>1, <4>2
    <3>8. OneAnswer'
      BY <1>0, <2>1, <2>3, <3>3, <3>4 DEF OneAnswer, Settled
    <3> QED
      BY <3>5, <3>7, <3>8 DEF Requests
  <2> QED
    BY <2>5, <2>6
<1>9. CASE UNCHANGED vars
  BY <1>9, <1>u DEF vars
<1> QED
  BY <1>1, <1>2, <1>3, <1>4, <1>5, <1>6, <1>7, <1>8, <1>9 DEF Next

-----------------------------------------------------------------------------
(* What was asked is followed up, and what the ring holds is known.         *)

LEMMA AsksStay ==
    ASSUME IInv, [Next]_vars
    PROVE  AsksFollowed' /\ asked \subseteq asked'
<1> DEFINE Ids == Session \cup {0}
           Good == AsksFollowed' /\ asked \subseteq asked'
<1>0. /\ asked \subseteq AskType /\ \A a \in asked : Followed(a)
      /\ requests \in 0 .. MaxRequests
      /\ calling \in [Clients -> [session_id : Ids, number : 0 .. MaxRequests]]
      /\ pending_requests_ \in [Clients -> [Ids -> 0 .. MaxRequests]]
      /\ resolved \in [Request -> SUBSET Request]
  BY DEF IInv, TypeOK, Counted, AsksFollowed
<1>a. ASSUME NEW a \in asked
      PROVE  a.session_id \in Session /\ a.number \in Request
  BY <1>0 DEF AskType
<1>m. MaxRequests \in Nat /\ 0 \in 0 .. MaxRequests
  BY DispatchAssumption
<1>u. ASSUME UNCHANGED <<asked, client>>
      PROVE  Good
  BY <1>0, <1>u DEF client, AsksFollowed, Followed, Settled
<1>1. ASSUME NEW a \in asked, ReceiveAck(a)
      PROVE  Good
  BY <1>1, <1>u DEF ReceiveAck
<1>2. ASSUME NEW t \in Turn, ReceiveCommand(Endpoints[t])
      PROVE  Good
  BY <1>2, <1>u DEF ReceiveCommand
<1>3. CASE ReceivePush
  BY <1>3, <1>u DEF ReceivePush
<1>4. ASSUME NEW s \in Session, Expire(s)
      PROVE  Good
  BY <1>4, <1>u DEF Expire
<1>5. ASSUME NEW t \in Clients, SendRequest(t)
      PROVE  Good
  <2>1. /\ requests < MaxRequests /\ requests' = requests + 1 /\ calling[t] = NoCall
        /\ UNCHANGED <<pending_requests_, resolved, broken>>
    BY <1>5 DEF SendRequest
  <2>2. PICK s \in Ids :
          /\ calling' = [calling EXCEPT ![t] = [session_id |-> s, number |-> requests']]
          /\ \/ UNCHANGED asked
             \/ /\ s \in Session
                /\ asked' = asked \cup {[device |-> Endpoints[t].receiver,
                                         session_id |-> s, number |-> requests']}
    BY <1>0, <1>5, SendRequestDoes DEF SendingTyped, IInv, TypeOK, Counted
  <2>3. ASSUME NEW a \in asked
        PROVE  Followed(a)'
    <3>1. PICK u \in Clients :
            /\ a.device = Endpoints[u].receiver
            /\ \/ calling[u] = [session_id |-> a.session_id, number |-> a.number]
               \/ pending_requests_[u][a.session_id] = a.number
               \/ Settled(a.number)
      BY <1>0 DEF Followed
    <3>2. calling[u] = [session_id |-> a.session_id, number |-> a.number] => u # t
      BY <1>a, <2>1 DEF NoCall, Request
    <3>3. calling[u] = [session_id |-> a.session_id, number |-> a.number]
          => calling'[u] = [session_id |-> a.session_id, number |-> a.number]
      BY <1>0, <2>2, <3>2
    <3> QED
      BY <2>1, <3>1, <3>3 DEF Followed, Settled
  <2>4. requests' \in Request /\ t \in Turn
    BY <1>0, <1>m, <2>1 DEF Request, Clients
  <2>5. ASSUME NEW a, s \in Session,
               a = [device |-> Endpoints[t].receiver, session_id |-> s, number |-> requests']
        PROVE  a \in AskType /\ Followed(a)'
    <3>1. calling'[t] = [session_id |-> a.session_id, number |-> a.number]
      BY <1>0, <2>2, <2>5
    <3>2. a \in AskType
      BY <2>4, <2>5 DEF AskType
    <3> QED
      BY <2>5, <3>1, <3>2 DEF Followed
  <2>6. ASSUME NEW a \in asked'
        PROVE  a \in AskType /\ Followed(a)'
    BY <1>0, <2>2, <2>3, <2>5, <2>6
  <2>7. AskType' = AskType
    BY DEF AskType
  <2>8. asked \subseteq asked'
    BY <2>2
  <2> QED
    BY <2>6, <2>7, <2>8 DEF AsksFollowed
<1>6. ASSUME NEW t \in Clients, FileRequest(t)
      PROVE  Good
  <2> DEFINE s   == calling[t].session_id
             n   == calling[t].number
             old == pending_requests_[t][s]
  <2>1. s \in Ids /\ n \in 0 .. MaxRequests
    BY <1>0
  <2>2. /\ pending_requests_' = [pending_requests_ EXCEPT ![t][s] = n]
        /\ broken' = IF old = 0 THEN broken ELSE broken \cup {old}
        /\ calling' = [calling EXCEPT ![t] = NoCall]
        /\ UNCHANGED <<asked, resolved>>
    BY <1>6 DEF FileRequest, protocol
  <2>3. /\ s = calling[t].session_id /\ n = calling[t].number
        /\ old = pending_requests_[t][s]
    OBVIOUS
  <2> HIDE DEF s, n, old
  <2>4. \A u \in Clients, v \in Ids :
          pending_requests_'[u][v] = IF u = t /\ v = s THEN n ELSE pending_requests_[u][v]
    BY <1>0, <2>1, <2>2, EntryTyped
  <2>5. \A u \in Clients : u # t => calling'[u] = calling[u]
    BY <1>0, <2>2
  <2>6. ASSUME NEW a \in asked
        PROVE  Followed(a)'
    <3>1. PICK u \in Clients :
            /\ a.device = Endpoints[u].receiver
            /\ \/ calling[u] = [session_id |-> a.session_id, number |-> a.number]
               \/ pending_requests_[u][a.session_id] = a.number
               \/ Settled(a.number)
      BY <1>0 DEF Followed
    <3>i. a.session_id \in Ids /\ a.number # 0
      BY <1>a DEF Request
    <3>2. CASE calling[u] = [session_id |-> a.session_id, number |-> a.number]
      <4>1. u = t => pending_requests_'[u][a.session_id] = a.number
        BY <2>3, <2>4, <3>i, <3>2
      <4>2. u # t => calling'[u] = [session_id |-> a.session_id, number |-> a.number]
        BY <2>5, <3>2
      <4> QED
        BY <3>1, <4>1, <4>2 DEF Followed
    <3>3. CASE pending_requests_[u][a.session_id] = a.number
      <4>1. CASE u = t /\ a.session_id = s
        <5>1. a.number \in broken'
          BY <2>2, <2>3, <3>i, <3>3, <4>1
        <5> QED
          BY <3>1, <5>1 DEF Followed, Settled
      <4>2. CASE ~(u = t /\ a.session_id = s)
        BY <2>4, <3>1, <3>3, <3>i, <4>2 DEF Followed
      <4> QED
        BY <4>1, <4>2
    <3>4. CASE Settled(a.number)
      BY <2>2, <3>1, <3>4 DEF Followed, Settled
    <3> QED
      BY <3>1, <3>2, <3>3, <3>4
  <2> QED
    BY <1>0, <2>2, <2>6 DEF AsksFollowed
<1>7. CASE TakeEmpty \/ TakeMatch \/ TakeMismatch \/ HandleCommand
  BY <1>7, <1>u DEF TakeEmpty, TakeMatch, TakeMismatch, HandleCommand, protocol
<1>8. CASE HandleResponse
  <2> DEFINE s == taken.session_id
             r == pending_requests_[turn][s]
  <2>1. turn \in Clients /\ s \in Ids /\ taken.number \in Request
    BY <1>8, ResponseWasAsked DEF HandleResponse
  <2>2. r \in 0 .. MaxRequests
    BY <1>0, <2>1
  <2>3. /\ IF r = 0 THEN UNCHANGED <<pending_requests_, resolved>>
           ELSE /\ pending_requests_' = [pending_requests_ EXCEPT ![turn][s] = 0]
                /\ resolved' = [resolved EXCEPT ![r] = @ \cup {taken.number}]
        /\ UNCHANGED <<asked, calling, requests, broken>>
    BY <1>8 DEF HandleResponse, protocol
  <2>4. r = pending_requests_[turn][s]
    OBVIOUS
  <2> HIDE DEF s, r
  <2>5. CASE r = 0
    BY <1>u, <2>3, <2>5 DEF client
  <2>6. CASE r # 0
    <3>1. \A u \in Clients, v \in Ids :
            pending_requests_'[u][v] =
              IF u = turn /\ v = s THEN 0 ELSE pending_requests_[u][v]
      BY <1>0, <1>m, <2>1, <2>3, <2>6, EntryTyped
    <3>2. r \in Request
      BY <2>2, <2>6 DEF Request
    <3>3. \A q \in Request : resolved[q] \subseteq resolved'[q]
      BY <1>0, <2>3, <2>6, <3>2
    <3>4. taken.number \in resolved'[r]
      BY <1>0, <2>1, <2>3, <2>6, <3>2
    <3>5. ASSUME NEW a \in asked
          PROVE  Followed(a)'
      <4>1. PICK u \in Clients :
              /\ a.device = Endpoints[u].receiver
              /\ \/ calling[u] = [session_id |-> a.session_id, number |-> a.number]
                 \/ pending_requests_[u][a.session_id] = a.number
                 \/ Settled(a.number)
        BY <1>0 DEF Followed
      <4>i. a.session_id \in Ids /\ a.number \in Request
        BY <1>a
      <4>2. CASE calling[u] = [session_id |-> a.session_id, number |-> a.number]
        BY <2>3, <4>1, <4>2 DEF Followed
      <4>3. CASE pending_requests_[u][a.session_id] = a.number
        <5>1. CASE u = turn /\ a.session_id = s
          <6>1. resolved'[a.number] # {}
            BY <2>4, <3>4, <4>3, <5>1
          <6> QED
            BY <4>1, <6>1 DEF Followed, Settled
        <5>2. CASE ~(u = turn /\ a.session_id = s)
          BY <3>1, <4>1, <4>3, <4>i, <5>2 DEF Followed
        <5> QED
          BY <5>1, <5>2
      <4>4. CASE Settled(a.number)
        <5>1. Settled(a.number)'
          BY <2>3, <3>3, <4>4, <4>i DEF Settled
        <5> QED
          BY <4>1, <5>1 DEF Followed
      <4> QED
        BY <4>1, <4>2, <4>3, <4>4
    <3> QED
      BY <1>0, <2>3, <3>5 DEF AsksFollowed
  <2> QED
    BY <2>5, <2>6
<1>9. CASE UNCHANGED vars
  BY <1>9, <1>u DEF vars, protocol
<1> QED
  BY <1>1, <1>2, <1>3, <1>4, <1>5, <1>6, <1>7, <1>8, <1>9 DEF Next

LEMMA ContainersStay ==
    ASSUME IInv, [Next]_vars, asked \subseteq asked'
    PROVE  ContainersKnown'
<1> DEFINE Ring == ring' \in Seq(ContainerType)
                   /\ \A k \in 1 .. Len(ring') : ring'[k] # None /\ FromDevice(ring'[k])
<1>0. /\ received = None \/ FromDevice(received)
      /\ taken = None \/ (FromDevice(taken) /\ Matches(Endpoints[turn], taken))
      /\ ring \in Seq(ContainerType) /\ Len(ring) <= RingSize
      /\ \A k \in 1 .. Len(ring) : ring[k] # None /\ FromDevice(ring[k])
  BY DEF IInv, TypeOK, ContainersKnown
<1>k. ASSUME NEW c, FromDevice(c)
      PROVE  FromDevice(c)'
  BY <1>k DEF FromDevice
<1>t. ring # << >> => /\ Head(ring) \in ContainerType
                      /\ Head(ring) # None /\ FromDevice(Head(ring))
                      /\ Tail(ring) \in Seq(ContainerType) /\ Len(Tail(ring)) <= RingSize
                      /\ \A k \in 1 .. Len(Tail(ring)) :
                           Tail(ring)[k] # None /\ FromDevice(Tail(ring)[k])
  <2> SUFFICES ASSUME ring # << >>
               PROVE  /\ Head(ring) \in ContainerType
                      /\ Head(ring) # None /\ FromDevice(Head(ring))
                      /\ Tail(ring) \in Seq(ContainerType) /\ Len(Tail(ring)) <= RingSize
                      /\ \A k \in 1 .. Len(Tail(ring)) :
                           Tail(ring)[k] # None /\ FromDevice(Tail(ring)[k])
    OBVIOUS
  <2>1. /\ Head(ring) \in ContainerType /\ Head(ring) = ring[1] /\ 1 \in 1 .. Len(ring)
        /\ Tail(ring) \in Seq(ContainerType) /\ Len(Tail(ring)) = Len(ring) - 1
        /\ \A k \in 1 .. Len(Tail(ring)) :
             Tail(ring)[k] = ring[k + 1] /\ k + 1 \in 1 .. Len(ring)
    BY <1>0, TailTyped
  <2>2. Len(Tail(ring)) <= RingSize
    BY <1>0, <2>1, DispatchAssumption
  <2>3. \A k \in 1 .. Len(Tail(ring)) : Tail(ring)[k] # None /\ FromDevice(Tail(ring)[k])
    BY <1>0, <2>1
  <2> QED
    BY <1>0, <2>1, <2>2, <2>3
<1>p. ASSUME NEW q \in Seq(ContainerType), Len(q) <= RingSize, NEW c \in ContainerType,
             c # None, FromDevice(c),
             \A k \in 1 .. Len(q) : q[k] # None /\ FromDevice(q[k])
      PROVE  \A k \in 1 .. Len(Pushed(q, c)) :
               Pushed(q, c)[k] # None /\ FromDevice(Pushed(q, c)[k])
  <2>1. \A k \in 1 .. Len(Pushed(q, c)) :
          Pushed(q, c)[k] = c \/ \E j \in 1 .. Len(q) : Pushed(q, c)[k] = q[j]
    BY <1>p, PushedTyped
  <2> QED
    BY <1>p, <2>1
<1>1. ASSUME NEW a \in asked, ReceiveAck(a)
      PROVE  ContainersKnown'
  <2>1. received' = Container(TRUE, TRUE, a.device, a.session_id, a.number)
        /\ UNCHANGED <<asked, ring, turn, taken>>
    BY <1>1 DEF ReceiveAck, spin
  <2>2. AskOf(received') = a
    BY <2>1 DEF AskOf, Container, IInv, AsksFollowed, AskType
  <2>3. FromDevice(received)'
    BY <2>1, <2>2 DEF FromDevice, Container, AskOf
  <2> QED
    BY <1>0, <1>k, <2>1, <2>3 DEF ContainersKnown
<1>2. ASSUME NEW t \in Turn, ReceiveCommand(Endpoints[t])
      PROVE  ContainersKnown'
  <2>1. /\ ~received'.is_ack /\ received'.sender = Endpoints[t].sender
        /\ Endpoints[t].sender # Local
        /\ UNCHANGED <<asked, ring, turn, taken>>
    BY <1>2 DEF ReceiveCommand, Container, IsClient, spin
  <2>2. FromDevice(received)'
    BY <2>1 DEF FromDevice
  <2> QED
    BY <1>0, <1>k, <2>1, <2>2 DEF ContainersKnown
<1>3. CASE ReceivePush
  <2>1. ring' = Pushed(ring, received) /\ received # None /\ received' = None
        /\ UNCHANGED <<asked, turn, taken>>
    BY <1>3 DEF ReceivePush, spin
  <2>2. received \in ContainerType
    BY DEF IInv, TypeOK
  <2>3. \A k \in 1 .. Len(ring') : ring'[k] # None /\ FromDevice(ring'[k])
    BY <1>0, <1>p, <2>1, <2>2
  <2> QED
    BY <1>0, <1>k, <2>1, <2>3 DEF ContainersKnown, FromDevice
<1>4. ASSUME NEW s \in Session, Expire(s)
      PROVE  ContainersKnown'
  BY <1>0, <1>4, <1>k DEF Expire, spin, ContainersKnown
<1>5. ASSUME NEW t \in Clients, SendRequest(t) \/ FileRequest(t)
      PROVE  ContainersKnown'
  <2>1. UNCHANGED <<received, ring, turn, taken>>
    BY <1>5 DEF SendRequest, FileRequest, protocol, spin
  <2> QED
    BY <1>0, <1>k, <2>1 DEF ContainersKnown
<1>6. CASE TakeEmpty
  BY <1>0, <1>6, <1>k DEF TakeEmpty, protocol, ContainersKnown
<1>7. CASE TakeMatch
  <2>1. /\ ring # << >> /\ Matches(Endpoints[turn], Head(ring))
        /\ taken' = Head(ring) /\ ring' = Tail(ring)
        /\ UNCHANGED <<asked, received, turn>>
    BY <1>7 DEF TakeMatch, protocol
  <2>2. FromDevice(taken') /\ Matches(Endpoints[turn'], taken')
    BY <1>t, <2>1
  <2>3. \A k \in 1 .. Len(ring') : ring'[k] # None /\ FromDevice(ring'[k])
    BY <1>t, <2>1
  <2> QED
    BY <1>0, <1>k, <2>1, <2>2, <2>3 DEF ContainersKnown, FromDevice
<1>8. CASE TakeMismatch
  <2>1. /\ taken = None /\ ring # << >>
        /\ ring' = Pushed(Tail(ring), Head(ring))
        /\ UNCHANGED <<asked, received, taken>>
    BY <1>8 DEF TakeMismatch, protocol
  <2>2. \A k \in 1 .. Len(ring') : ring'[k] # None /\ FromDevice(ring'[k])
    BY <1>p, <1>t, <2>1
  <2> QED
    BY <1>0, <1>k, <2>1, <2>2 DEF ContainersKnown, FromDevice
<1>9. CASE HandleCommand \/ HandleResponse
  <2>1. taken' = None /\ UNCHANGED <<asked, received, ring>>
    BY <1>9 DEF HandleCommand, HandleResponse, protocol
  <2> QED
    BY <1>0, <1>k, <2>1 DEF ContainersKnown
<1>10. CASE UNCHANGED vars
  BY <1>0, <1>10, <1>k DEF vars, protocol, spin, ContainersKnown
<1> QED
  BY <1>1, <1>2, <1>3, <1>4, <1>5, <1>6, <1>7, <1>8, <1>9, <1>10 DEF Next

-----------------------------------------------------------------------------
(* The theorems.                                                            *)

LEMMA InitInvariant == Init => IInv
<1> SUFFICES ASSUME Init
             PROVE  IInv
  OBVIOUS
<1>1. TypeOK /\ Counted
  BY InitTyped
<1>2. /\ \A t \in Clients : calling[t].number = 0
      /\ \A t \in Clients, s \in Session \cup {0} : pending_requests_[t][s] = 0
      /\ requests = 0
  BY DEF Init, NoCall
<1>3. \A r \in Request : ~Settled(r) /\ resolved[r] = {}
  BY DEF Init, Settled
<1>4. OnePlace
  BY <1>2 DEF OnePlace
<1>5. SettledHasLeft /\ OneAnswer
  BY <1>3 DEF SettledHasLeft, OneAnswer
<1>6. AsksFollowed /\ ContainersKnown
  BY DEF Init, AsksFollowed, ContainersKnown
<1> QED
  BY <1>1, <1>4, <1>5, <1>6 DEF IInv

LEMMA StepInvariant == IInv /\ [Next]_vars => IInv'
<1> SUFFICES ASSUME IInv, [Next]_vars
             PROVE  IInv'
  OBVIOUS
<1>1. ReceivingTyped' /\ SendingTyped'
  BY ReceivingStaysTyped, SendingStaysTyped
<1>2. TypeOK' /\ Counted'
  BY <1>1 DEF ReceivingTyped, SendingTyped, TypeOK, Counted
<1>3. OnePlace' /\ SettledHasLeft' /\ OneAnswer'
  BY RequestsStay DEF Requests
<1>4. AsksFollowed' /\ ContainersKnown'
  BY AsksStay, ContainersStay
<1> QED
  BY <1>2, <1>3, <1>4 DEF IInv

LEMMA Invariant == Spec => []IInv
BY InitInvariant, StepInvariant, PTL DEF Spec

(* The type invariant of the dispatch layer: the ring never holds more than *)
(* RingSize containers, and a promise is only set to answers of requests.   *)
THEOREM DispatchTyped == Spec => []TypeOK
<1>1. IInv => TypeOK
  BY DEF IInv
<1> QED
  BY <1>1, Invariant, PTL

(* Whatever the number of clients, sessions and late or repeated acks:      *)
(* HandleResponse sets no promise twice, and none that AsyncSendRequest has *)
(* destroyed by filing over it.                                             *)
THEOREM PromisesSetOnce == Spec => []PromiseSetOnce
<1>1. IInv => PromiseSetOnce
  <2> SUFFICES ASSUME IInv
               PROVE  PromiseSetOnce
    OBVIOUS
  <2>1. OneAnswer /\ broken \subseteq Request
    BY DEF IInv, TypeOK
  <2>2. \A r \in Request : Cardinality(resolved[r]) <= 1
    <3> SUFFICES ASSUME NEW r \in Request
                 PROVE  Cardinality(resolved[r]) <= 1
      OBVIOUS
    <3>1. resolved[r] = {} \/ \E n \in Request : resolved[r] = {n}
      BY <2>1 DEF OneAnswer
    <3>2. Cardinality({}) = 0 /\ \A n \in Request : Cardinality({n}) = 1
      BY FS_EmptySet, FS_Singleton
    <3>3. CASE resolved[r] = {}
      BY <3>2, <3>3
    <3>4. CASE \E n \in Request : resolved[r] = {n}
      <4>1. Cardinality(resolved[r]) = 1
        BY <3>2, <3>4
      <4> QED
        BY <4>1
    <3> QED
      BY <3>1, <3>3, <3>4
  <2>3. \A r \in broken : resolved[r] = {}
    BY <2>1 DEF OneAnswer
  <2> QED
    BY <2>2, <2>3 DEF PromiseSetOnce
<1> QED
  BY <1>1, Invariant, PTL

(* What HandleResponse does to the promises when they stay as they are.     *)
LEMMA IgnoredIsSettled ==
    ASSUME DevicesApart, IInv, HandleResponse, resolved' = resolved
    PROVE  Settled(taken.number)
<1> DEFINE s == taken.session_id
           r == pending_requests_[turn][s]
           n == taken.number
<1>1. turn \in Clients /\ taken # None /\ calling[turn] = NoCall
  BY DEF HandleResponse
<1>2. /\ AskOf(taken) \in asked /\ taken.sender = Endpoints[turn].receiver
      /\ n \in Request /\ s \in Session
  BY <1>1, ResponseWasAsked
<1>3. Followed(AskOf(taken))
  BY <1>2 DEF IInv, AsksFollowed
<1>4. PICK t \in Clients :
        /\ taken.sender = Endpoints[t].receiver
        /\ \/ calling[t] = [session_id |-> s, number |-> n]
           \/ pending_requests_[t][s] = n
           \/ Settled(n)
  BY <1>3 DEF Followed, AskOf
<1>5. t = turn
  BY <1>1, <1>2, <1>4 DEF DevicesApart
<1>6. calling[turn] # [session_id |-> s, number |-> n]
  BY <1>1, <1>2 DEF NoCall, Request
<1>7. CASE r = n
  <2>1. r \in Request /\ r # 0
    BY <1>2, <1>7 DEF Request
  <2>2. resolved' = [resolved EXCEPT ![r] = @ \cup {n}]
    BY <2>1 DEF HandleResponse
  <2>3. resolved \in [Request -> SUBSET Request]
    BY DEF IInv, TypeOK
  <2>4. n \in resolved'[r]
    BY <2>1, <2>2, <2>3
  <2>5. resolved[n] # {}
    BY <1>7, <2>4
  <2> QED
    BY <2>5 DEF Settled
<1> QED
  BY <1>4, <1>5, <1>6, <1>7

(* Where the clients of a command talk to devices of their own,             *)
(* HandleResponse drops no answer of a request that still waits for it,     *)
(* however early it comes: AsyncSendRequest holds pending_requests_mutex_   *)
(* from before the request is sent until it is filed.                       *)
THEOREM AnswersArrive == DevicesApart => (Spec => AnswersFindTheirRequest)
<1> SUFFICES ASSUME DevicesApart
             PROVE  Spec => AnswersFindTheirRequest
  OBVIOUS
<1>1. IInv /\ [Next]_vars
      => [HandleResponse /\ resolved' = resolved => Settled(taken.number)]_vars
  BY IgnoredIsSettled
<1> QED
  BY <1>1, Invariant, PTL DEF Spec, AnswersFindTheirRequest

-----------------------------------------------------------------------------
(* The ring as a bag.                                                       *)

Places(q, c) == {k \in 1 .. Len(q) : q[k] = c}

LEMMA BagOfCounts ==
    ASSUME NEW S, NEW q \in Seq(S)
    PROVE  /\ BagOf(q) = [c \in ToSet(q) |-> Cardinality(Places(q, c))]
           /\ \A c : IsFiniteSet(Places(q, c)) /\ Cardinality(Places(q, c)) \in Nat
           /\ \A c : Cardinality(Places(q, c)) = 0 <=> c \notin ToSet(q)
           /\ \A c : c \in ToSet(q) <=> \E k \in 1 .. Len(q) : q[k] = c
<1>1. DOMAIN q = 1 .. Len(q) /\ Len(q) \in Nat
  BY LenProperties
<1>2. BagOf(q) = [c \in ToSet(q) |-> Cardinality(Places(q, c))]
  BY <1>1 DEF BagOf, Places
<1>3. \A c : c \in ToSet(q) <=> \E k \in 1 .. Len(q) : q[k] = c
  BY <1>1 DEF ToSet
<1>4. ASSUME NEW c
      PROVE  /\ IsFiniteSet(Places(q, c)) /\ Cardinality(Places(q, c)) \in Nat
             /\ Cardinality(Places(q, c)) = 0 <=> c \notin ToSet(q)
  <2>1. IsFiniteSet(1 .. Len(q))
    BY <1>1, FS_Interval
  <2>2. Places(q, c) \in SUBSET (1 .. Len(q))
    BY DEF Places
  <2>3. IsFiniteSet(Places(q, c))
    BY <2>1, <2>2, FS_Subset
  <2>4. Cardinality(Places(q, c)) \in Nat
    BY <2>3, FS_CardinalityType
  <2>5. Cardinality(Places(q, c)) = 0 <=> Places(q, c) = {}
    BY <2>3, FS_EmptySet
  <2>6. Places(q, c) = {} <=> c \notin ToSet(q)
    BY <1>3 DEF Places
  <2> QED
    BY <2>3, <2>4, <2>5, <2>6
<1> QED
  BY <1>2, <1>3, <1>4

(* Appending adds to the bag.                                               *)
LEMMA BagOfAppend ==
    ASSUME NEW S, NEW q \in Seq(S), NEW c \in S
    PROVE  BagOf(Append(q, c)) = Room!BagAdd(BagOf(q), c)
<1> DEFINE r == Append(q, c)
           B == BagOf(q)
<1>1. /\ r \in Seq(S) /\ Len(q) \in Nat /\ Len(r) = Len(q) + 1
      /\ \A k \in 1 .. Len(q) : r[k] = q[k]
      /\ r[Len(q) + 1] = c
  BY AppendProperties
<1> HIDE DEF r
<1>2. \A e : e # c => Places(r, e) = Places(q, e)
  BY <1>1 DEF Places
<1>3. Places(r, c) = Places(q, c) \cup {Len(q) + 1} /\ Len(q) + 1 \notin Places(q, c)
  BY <1>1 DEF Places
<1>4. IsFiniteSet(Places(q, c)) /\ Cardinality(Places(q, c)) \in Nat
  BY BagOfCounts
<1>5. Cardinality(Places(r, c)) = Cardinality(Places(q, c)) + 1
  BY <1>3, <1>4, FS_AddElement
<1>6. /\ BagOf(r) = [e \in ToSet(r) |-> Cardinality(Places(r, e))]
      /\ \A e : e \in ToSet(r) <=> \E k \in 1 .. Len(r) : r[k] = e
  BY <1>1, BagOfCounts
<1>7. /\ B = [e \in ToSet(q) |-> Cardinality(Places(q, e))]
      /\ \A e : e \in ToSet(q) <=> \E k \in 1 .. Len(q) : q[k] = e
      /\ \A e : Cardinality(Places(q, e)) = 0 <=> e \notin ToSet(q)
  BY BagOfCounts
<1>8. ToSet(r) = ToSet(q) \cup {c}
  <2>1. ASSUME NEW e
        PROVE  (\E k \in 1 .. Len(r) : r[k] = e)
               <=> (\E k \in 1 .. Len(q) : q[k] = e) \/ e = c
    BY <1>1
  <2>2. \A e : e \in ToSet(r) <=> e \in ToSet(q) \/ e = c
    BY <1>6, <1>7, <2>1
  <2> QED
    BY <2>2
<1> HIDE DEF B
<1>9. CASE c \in ToSet(q)
  <2>1. BagOf(r) = [e \in DOMAIN B |-> IF e = c THEN B[e] + 1 ELSE B[e]]
    BY <1>2, <1>5, <1>6, <1>7, <1>8, <1>9
  <2> QED
    BY <1>7, <1>9, <2>1 DEF Room!BagAdd, r, B
<1>10. CASE c \notin ToSet(q)
  <2>1. BagOf(r) = [e \in DOMAIN B \cup {c} |-> IF e = c THEN 1 ELSE B[e]]
    BY <1>2, <1>4, <1>5, <1>6, <1>7, <1>8, <1>10
  <2> QED
    BY <1>7, <1>10, <2>1 DEF Room!BagAdd, r, B
<1> QED
  BY <1>9, <1>10

(* Taking the head away takes it from the bag.                              *)
LEMMA BagOfTail ==
    ASSUME NEW S, NEW q \in Seq(S), q # << >>
    PROVE  /\ BagOf(Tail(q)) = Room!BagRemove(BagOf(q), Head(q))
           /\ Head(q) \in DOMAIN BagOf(q)
<1> DEFINE r == Tail(q)
           h == Head(q)
           B == BagOf(q)
<1>1. /\ r \in Seq(S) /\ Len(q) \in Nat /\ Len(r) = Len(q) - 1 /\ 1 \in 1 .. Len(q)
      /\ h = q[1]
      /\ \A k \in 1 .. Len(r) : r[k] = q[k + 1] /\ k + 1 \in 1 .. Len(q)
  BY TailTyped
<1> HIDE DEF r, h
<1>2. ASSUME NEW e
      PROVE  Cardinality(Places(q, e) \ {1}) = Cardinality(Places(r, e))
  <2> DEFINE f == [k \in Places(r, e) |-> k + 1]
  <2>1. f \in [Places(r, e) -> Places(q, e) \ {1}]
    BY <1>1 DEF Places
  <2>2. \A k, l \in Places(r, e) : f[k] = f[l] => k = l
    BY <1>1 DEF Places
  <2>3. ASSUME NEW j \in Places(q, e) \ {1}
        PROVE  \E k \in Places(r, e) : f[k] = j
    <3>1. j - 1 \in 1 .. Len(r) /\ (j - 1) + 1 = j /\ q[j] = e
      BY <1>1 DEF Places
    <3>2. j - 1 \in Places(r, e)
      BY <1>1, <3>1 DEF Places
    <3> QED
      BY <3>1, <3>2
  <2>4. f \in Bijection(Places(r, e), Places(q, e) \ {1})
    BY <2>1, <2>2, <2>3 DEF Bijection, Injection, IsInjective, Surjection
  <2>5. ExistsBijection(Places(r, e), Places(q, e) \ {1})
    BY <2>4 DEF ExistsBijection
  <2>6. IsFiniteSet(Places(r, e))
    BY <1>1, BagOfCounts
  <2> QED
    BY <2>5, <2>6, FS_Bijection
<1>3. \A e : e # h => Places(q, e) \ {1} = Places(q, e)
  BY <1>1 DEF Places
<1>4. /\ BagOf(r) = [e \in ToSet(r) |-> Cardinality(Places(r, e))]
      /\ \A e : Cardinality(Places(r, e)) = 0 <=> e \notin ToSet(r)
  BY <1>1, BagOfCounts
<1>5. /\ B = [e \in ToSet(q) |-> Cardinality(Places(q, e))]
      /\ \A e : IsFiniteSet(Places(q, e)) /\ Cardinality(Places(q, e)) \in Nat
      /\ \A e : Cardinality(Places(q, e)) = 0 <=> e \notin ToSet(q)
      /\ \A e : e \in ToSet(q) <=> \E k \in 1 .. Len(q) : q[k] = e
  BY BagOfCounts
<1>6. 1 \in Places(q, h) /\ h \in ToSet(q)
  BY <1>1, <1>5 DEF Places
<1>7. Cardinality(Places(r, h)) = Cardinality(Places(q, h)) - 1
  BY <1>2, <1>5, <1>6, FS_RemoveElement
<1>8. \A e : e # h => Cardinality(Places(r, e)) = Cardinality(Places(q, e))
  BY <1>2, <1>3
<1>9. \A e : e # h => (e \in ToSet(r) <=> e \in ToSet(q))
  BY <1>4, <1>5, <1>8
<1>10. DOMAIN B = ToSet(q) /\ B[h] = Cardinality(Places(q, h))
  BY <1>5, <1>6
<1> HIDE DEF B
<1>11. CASE B[h] = 1
  <2>1. h \notin ToSet(r)
    BY <1>4, <1>7, <1>10, <1>11
  <2>2. ToSet(r) = ToSet(q) \ {h}
    BY <1>9, <2>1
  <2>3. BagOf(r) = [e \in DOMAIN B \ {h} |-> B[e]]
    BY <1>4, <1>5, <1>8, <1>10, <2>2
  <2> QED
    BY <1>6, <1>10, <1>11, <2>3 DEF Room!BagRemove, r, h, B
<1>12. CASE B[h] # 1
  <2>1. h \in ToSet(r)
    BY <1>4, <1>5, <1>6, <1>7, <1>10, <1>12
  <2>2. ToSet(r) = ToSet(q)
    <3>1. \A e : e \in ToSet(r) <=> e \in ToSet(q)
      BY <1>6, <1>9, <2>1
    <3> QED
      BY <3>1
  <2>3. BagOf(r) = [e \in DOMAIN B |-> IF e = h THEN B[e] - 1 ELSE B[e]]
    BY <1>4, <1>5, <1>7, <1>8, <1>10, <2>2
  <2> QED
    BY <1>6, <1>10, <1>12, <2>3 DEF Room!BagRemove, r, h, B
<1> QED
  BY <1>11, <1>12

(* What Take puts back leaves the bag as it was.                            *)
LEMMA PutBackKeepsBag ==
    ASSUME NEW S, NEW q \in Seq(S), q # << >>
    PROVE  BagOf(Append(Tail(q), Head(q))) = BagOf(q)
<1> DEFINE B == BagOf(q)
           h == Head(q)
<1>1. Tail(q) \in Seq(S) /\ h \in S
  BY TailTyped
<1>2. BagOf(Append(Tail(q), h)) = Room!BagAdd(Room!BagRemove(B, h), h)
  BY <1>1, BagOfAppend, BagOfTail
<1>3. h \in DOMAIN B
  BY BagOfTail
<1>4. B = [e \in DOMAIN B |-> B[e]] /\ B[h] \in Nat
  BY <1>3, BagOfCounts
<1> HIDE DEF B, h
<1>5. CASE B[h] = 1
  <2>1. Room!BagRemove(B, h) = [e \in DOMAIN B \ {h} |-> B[e]]
    BY <1>3, <1>5 DEF Room!BagRemove
  <2>2. Room!BagAdd([e \in DOMAIN B \ {h} |-> B[e]], h) = [e \in DOMAIN B |-> B[e]]
    BY <1>3, <1>5 DEF Room!BagAdd
  <2> QED
    BY <1>2, <1>4, <2>1, <2>2 DEF B, h
<1>6. CASE B[h] # 1
  <2> DEFINE C == [e \in DOMAIN B |-> IF e = h THEN B[e] - 1 ELSE B[e]]
  <2>1. Room!BagRemove(B, h) = C
    BY <1>3, <1>6 DEF Room!BagRemove
  <2>2. Room!BagAdd(C, h) = [e \in DOMAIN B |-> IF e = h THEN C[e] + 1 ELSE C[e]]
    BY <1>3 DEF Room!BagAdd
  <2>3. Room!BagAdd(C, h) = [e \in DOMAIN B |-> B[e]]
    BY <1>3, <1>4, <2>2
  <2> QED
    BY <1>2, <1>4, <2>1, <2>3 DEF B, h
<1> QED
  BY <1>5, <1>6

-----------------------------------------------------------------------------
(* The refinement.                                                          *)

InHand == IF taken = None THEN {} ELSE {<<Endpoints[turn], taken>>}
roomvars == <<BagOf(ring), Len(ring), InHand>>

(* A Push of c is the arrival of c, at the cost of the head when the ring   *)
(* is full.                                                                 *)
LEMMA PushArrives ==
    ASSUME ring \in Seq(ContainerType), Len(ring) <= RingSize, NEW c \in ContainerType,
           ring' = Pushed(ring, c), UNCHANGED <<taken, turn>>
    PROVE  Room!Arrive(c)
<1>a. RingSize \in Nat \ {0} /\ Len(ring) \in Nat
  BY DispatchAssumption
<1>1. CASE Len(ring) = RingSize
  <2>1. ring # << >>
    BY <1>a, <1>1
  <2>2. Tail(ring) \in Seq(ContainerType) /\ Len(Tail(ring)) = Len(ring) - 1
    BY <2>1, TailTyped
  <2>3. ring' = Append(Tail(ring), c)
    BY <1>1 DEF Pushed
  <2>4. Len(Append(Tail(ring), c)) = Len(Tail(ring)) + 1
    BY <2>2, AppendProperties
  <2>5. Len(ring') = Len(ring)
    BY <1>a, <2>2, <2>3, <2>4
  <2>6. BagOf(ring') = Room!BagAdd(Room!BagRemove(BagOf(ring), Head(ring)), c)
    BY <2>1, <2>2, <2>3, BagOfAppend, BagOfTail
  <2>7. Head(ring) \in DOMAIN BagOf(ring)
    BY <2>1, BagOfTail
  <2>8. BagOf(ring)' = BagOf(ring')
    BY DEF BagOf, ToSet
  <2> QED
    BY <1>1, <2>5, <2>6, <2>7, <2>8 DEF Room!Arrive
<1>2. CASE Len(ring) # RingSize
  <2>1. ring' = Append(ring, c) /\ Len(ring) < RingSize
    BY <1>a, <1>2 DEF Pushed
  <2>2. Len(ring') = Len(ring) + 1
    BY <2>1, AppendProperties
  <2>3. BagOf(ring') = Room!BagAdd(BagOf(ring), c)
    BY <2>1, BagOfAppend
  <2>4. BagOf(ring)' = BagOf(ring')
    BY DEF BagOf, ToSet
  <2> QED
    BY <2>1, <2>2, <2>3, <2>4 DEF Room!Arrive
<1> QED
  BY <1>1, <1>2

LEMMA InitIsEmptyRoom == Init => Room!Init
<1> SUFFICES ASSUME Init
             PROVE  Room!Init
  OBVIOUS
<1>1. ring = << >> /\ taken = None /\ Len(ring) = 0
  BY DEF Init
<1>2. ToSet(ring) = {}
  BY <1>1 DEF ToSet
<1>3. BagOf(ring) = [c \in {} |-> 0]
  BY <1>2 DEF BagOf
<1> QED
  BY <1>1, <1>3 DEF Room!Init

LEMMA StepIsRoomStep ==
    ASSUME IInv, [Next]_vars
    PROVE  Room!Next \/ UNCHANGED roomvars
<1>0. /\ ring \in Seq(ContainerType) /\ Len(ring) <= RingSize /\ Len(ring) \in Nat
      /\ received \in ContainerType /\ turn \in Turn
  BY DEF IInv, TypeOK
<1>u. ASSUME UNCHANGED <<ring, taken>>, taken = None \/ turn' = turn
      PROVE  UNCHANGED roomvars
  BY <1>u DEF roomvars, InHand, BagOf, ToSet
<1>1. ASSUME NEW a \in asked, ReceiveAck(a)
      PROVE  UNCHANGED roomvars
  BY <1>1, <1>u DEF ReceiveAck, spin
<1>2. ASSUME NEW t \in Turn, ReceiveCommand(Endpoints[t])
      PROVE  UNCHANGED roomvars
  BY <1>2, <1>u DEF ReceiveCommand, spin
<1>3. CASE ReceivePush
  <2>1. Room!Arrive(received)
    BY <1>0, <1>3, PushArrives DEF ReceivePush, spin
  <2> QED
    BY <1>0, <2>1 DEF Room!Next
<1>4. ASSUME NEW s \in Session, Expire(s)
      PROVE  UNCHANGED roomvars
  BY <1>4, <1>u DEF Expire, spin
<1>5. ASSUME NEW t \in Clients, SendRequest(t) \/ FileRequest(t)
      PROVE  UNCHANGED roomvars
  BY <1>5, <1>u DEF SendRequest, FileRequest, spin
<1>6. CASE TakeEmpty
  BY <1>6, <1>u DEF TakeEmpty
<1>7. CASE TakeMatch
  <2> DEFINE e == Endpoints[turn]
             c == Head(ring)
  <2>1. /\ taken = None /\ ring # << >> /\ Matches(e, c)
        /\ taken' = c /\ ring' = Tail(ring) /\ turn' = turn
    BY <1>7 DEF TakeMatch
  <2>2. c # None
    <3>1. c = ring[1] /\ 1 \in 1 .. Len(ring)
      BY <1>0, <2>1, TailTyped
    <3> QED
      BY <3>1 DEF IInv, ContainersKnown
  <2>3. Len(ring') = Len(ring) - 1
    BY <1>0, <2>1, TailTyped
  <2>4. BagOf(ring') = Room!BagRemove(BagOf(ring), c) /\ c \in DOMAIN BagOf(ring)
    BY <1>0, <2>1, BagOfTail
  <2>5. BagOf(ring)' = BagOf(ring')
    BY DEF BagOf, ToSet
  <2>6. e \in ToSet(Endpoints)
    BY <1>0, EndpointTyped
  <2>7. Room!Take(e, c)
    BY <2>1, <2>2, <2>3, <2>4, <2>5 DEF Room!Take
  <2> QED
    BY <2>4, <2>6, <2>7 DEF Room!Next
<1>8. CASE TakeMismatch
  <2>1. /\ taken = None /\ taken' = None /\ ring # << >>
        /\ ring' = Pushed(Tail(ring), Head(ring))
    BY <1>8 DEF TakeMismatch
  <2>2. /\ Tail(ring) \in Seq(ContainerType) /\ Len(Tail(ring)) = Len(ring) - 1
        /\ Head(ring) \in ContainerType
    BY <1>0, <2>1, TailTyped
  <2>3. Len(Tail(ring)) # RingSize
    <3>1. RingSize \in Nat
      BY DispatchAssumption
    <3>2. \A m, n \in Nat : m <= n => m - 1 # n
      OBVIOUS
    <3> QED
      BY <1>0, <2>2, <3>1, <3>2
  <2>4. ring' = Append(Tail(ring), Head(ring))
    BY <2>1, <2>3 DEF Pushed
  <2>5. Len(Append(Tail(ring), Head(ring))) = Len(Tail(ring)) + 1
    BY <2>2, AppendProperties
  <2>6. Len(ring') = Len(ring)
    BY <1>0, <2>2, <2>4, <2>5
  <2>7. BagOf(ring') = BagOf(ring)
    BY <1>0, <2>1, <2>4, PutBackKeepsBag
  <2>8. BagOf(ring)' = BagOf(ring')
    BY DEF BagOf, ToSet
  <2> QED
    BY <2>1, <2>6, <2>7, <2>8 DEF roomvars, InHand
<1>9. CASE HandleCommand \/ HandleResponse
  <2>1. taken # None /\ taken' = None /\ UNCHANGED ring
    BY <1>9 DEF HandleCommand, HandleResponse
  <2>2. UNCHANGED <<BagOf(ring), Len(ring)>>
    BY <2>1 DEF BagOf, ToSet
  <2>3. Room!Handled
    BY <2>1, <2>2 DEF Room!Handled
  <2> QED
    BY <2>3 DEF Room!Next
<1>10. CASE UNCHANGED vars
  BY <1>10, <1>u DEF vars, spin
<1> QED
  BY <1>1, <1>2, <1>3, <1>4, <1>5, <1>6, <1>7, <1>8, <1>9, <1>10 DEF Next

(* Whatever the endpoints and the size of the ring, Take and Push are a     *)
(* Mailroom: Take's putting back loses, doubles and misdirects nothing, and *)
(* a full ring costs exactly one container its place.                       *)
THEOREM RingIsMailroom == Spec => ImplementsMailroom
<1>1. IInv /\ [Next]_vars => [Room!Next]_roomvars
  BY StepIsRoomStep
<1>2. Room!Spec <=> Room!Init /\ [][Room!Next]_roomvars
  BY DEF Room!Spec, roomvars, InHand
<1> QED
  BY <1>1, <1>2, InitIsEmptyRoom, Invariant, PTL DEF Spec, ImplementsMailroom

=============================================================================
