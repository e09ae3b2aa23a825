--------------------------- MODULE CircularBuffer ---------------------------
(***************************************************************************)
(* roborts_sdk/utilities/circular_buffer.h: the ring in which ReceivePool  *)
(* keeps the containers of one (command set, command id) until Take.       *)
(* Every operation holds mutex_ from its first to its last statement, so   *)
(* each is one action.                                                     *)
(***************************************************************************)
EXTENDS Integers, Sequences

CONSTANTS Item,       \* the values of the template parameter T
          max_size    \* the argument of the constructor

ASSUME MaxSizeAssumption == max_size \in Nat \ {0}

VARIABLES buf,        \* buf_
          head,       \* head_: the cell the next Push writes
          tail,       \* tail_: the cell the next Pop reads
          full,       \* full_: tells a full ring from an empty one
          output      \* what the last Pop gave its caller: <<>> or <<item>>

vars == <<buf, head, tail, full, output>>

Index == 0 .. max_size - 1

TypeOK == /\ buf \in [Index -> Item]
          /\ head \in Index
          /\ tail \in Index
          /\ full \in BOOLEAN
          /\ output \in {<< >>} \cup {<<item>> : item \in Item}

\* Mutant: the index does not wrap.
AdvanceOn(i) == i + 1

Advance(i) == (i + 1) % max_size

IsEmpty == ~full /\ head = tail

GetSize == IF full THEN max_size
           ELSE IF head >= tail THEN head - tail
           ELSE max_size + head - tail

-----------------------------------------------------------------------------
\* The array comes from new T[size]: its cells hold any value at first.
Init == /\ buf \in [Index -> Item]
        /\ head = 0
        /\ tail = 0
        /\ full = FALSE
        /\ output = << >>

\* Mutant: a Push to a full ring leaves the oldest item where it is.
PushKeepsTail(item) == /\ buf' = [buf EXCEPT ![head] = item]
                       /\ head' = Advance(head)
                       /\ full' = (head' = tail)
                       /\ UNCHANGED <<tail, output>>

Push(item) == /\ buf' = [buf EXCEPT ![head] = item]
              /\ tail' = IF full THEN Advance(tail) ELSE tail
              /\ head' = Advance(head)
              /\ full' = (head' = tail')
              /\ UNCHANGED output

PopEmpty == /\ IsEmpty
            /\ output' = << >>
            /\ UNCHANGED <<buf, head, tail, full>>

PopItem == /\ ~IsEmpty
           /\ output' = <<buf[tail]>>
           /\ full' = FALSE
           /\ tail' = Advance(tail)
           /\ UNCHANGED <<buf, head>>

Reset == /\ head' = tail
         /\ full' = FALSE
         /\ UNCHANGED <<buf, tail, output>>

Next == \/ \E item \in Item : Push(item)
        \/ PopEmpty
        \/ PopItem
        \/ Reset

Spec == Init /\ [][Next]_vars

-----------------------------------------------------------------------------
\* The cell of the i-th oldest stored item.
CellOf(i) == IF tail + i - 1 < max_size THEN tail + i - 1
             ELSE tail + i - 1 - max_size

Stored == [i \in 1 .. GetSize |-> buf[CellOf(i)]]

Fifo == INSTANCE DropOldestFifo
        WITH queue <- Stored, output <- output, Capacity <- max_size

\* The ring with its two indices and its flag behaves as a queue that drops
\* its oldest item when full: nothing is lost, duplicated or reordered by a
\* Push that wraps, a Pop after an overflow or a Reset.
ImplementsFifo == Fifo!Spec
=============================================================================
