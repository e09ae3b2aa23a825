--------------------------- MODULE DropOldestFifo ---------------------------
(***************************************************************************)
(* What a circular buffer of the SDK promises its users: a first-in        *)
(* first-out queue of at most Capacity items in which a Push to a full     *)
(* queue discards the oldest item instead of failing or blocking.          *)
(* ReceivePool is the producer and Take the consumer.                      *)
(***************************************************************************)
EXTENDS Integers, Sequences

CONSTANTS Item,      \* what is stored: the received containers
          Capacity   \* the argument of the constructor (100 in ReceivePool)

VARIABLES queue,     \* the stored items, oldest first
          output     \* the answer of the last Pop: <<>> or <<item>>

PushItem(q, item) == Append(IF Len(q) = Capacity THEN Tail(q) ELSE q, item)

Init == /\ queue = << >>
        /\ output = << >>

Push(item) == /\ queue' = PushItem(queue, item)
              /\ UNCHANGED output

PopSome == /\ queue # << >>
           /\ output' = << Head(queue) >>
           /\ queue' = Tail(queue)

PopNone == /\ queue = << >>
           /\ output' = << >>
           /\ UNCHANGED queue

Reset == /\ queue' = << >>
         /\ UNCHANGED output

Next == \/ \E item \in Item : Push(item)
        \/ PopSome
        \/ PopNone
        \/ Reset

Spec == Init /\ [][Next]_<<queue, output>>
=============================================================================
