------------------------ MODULE CircularBufferProofs ------------------------
(***************************************************************************)
(* Theorems about the circular buffer, for every capacity and item set.    *)
(***************************************************************************)
EXTENDS CircularBuffer, TLAPS

(* One step around the ring stays inside it and wraps only at the last      *)
(* cell: what the % of Push and Pop computes.                               *)
LEMMA AdvanceStep ==
    ASSUME NEW i \in Index
    PROVE  /\ Advance(i) \in Index
           /\ Advance(i) = IF i = max_size - 1 THEN 0 ELSE i + 1
<1>1. max_size \in Nat /\ max_size > 0
  BY MaxSizeAssumption
<1>2. CASE i = max_size - 1
  <2>1. Advance(i) = max_size % max_size
    BY <1>1, <1>2 DEF Advance, Index
  <2>2. max_size % max_size = 0
    BY <1>1
  <2> QED
    BY <1>1, <1>2, <2>1, <2>2 DEF Index
<1>3. CASE i # max_size - 1
  <2>1. i + 1 \in 0 .. max_size - 1
    BY <1>1, <1>3 DEF Index
  <2>2. (i + 1) % max_size = i + 1
    BY <1>1, <2>1
  <2> QED
    BY <1>1, <1>3, <2>1, <2>2 DEF Index, Advance
<1> QED
  BY <1>2, <1>3

-----------------------------------------------------------------------------
(* The inductive invariant: the indices stay in the ring, and a full ring   *)
(* has its indices on the same cell.                                        *)
IndInv == TypeOK /\ (full => head = tail)

LEMMA InitInv == Init => IndInv
<1> SUFFICES ASSUME Init
             PROVE  IndInv
  OBVIOUS
<1>1. buf \in [Index -> Item] /\ full = FALSE /\ output = << >>
  BY DEF Init
<1>2. head \in Index /\ tail \in Index
  BY MaxSizeAssumption DEF Init, Index
<1> QED
  BY <1>1, <1>2 DEF IndInv, TypeOK

(* Every operation keeps the invariant.                                     *)
LEMMA StepInv == IndInv /\ [Next]_vars => IndInv'
<1> SUFFICES ASSUME IndInv, [Next]_vars
             PROVE  IndInv'
  OBVIOUS
<1> USE DEF IndInv, TypeOK
<1>1. ASSUME NEW item \in Item, Push(item)
      PROVE  IndInv'
  <2>1. /\ Advance(head) \in Index
        /\ Advance(tail) \in Index
    BY AdvanceStep
  <2>2. head' \in Index /\ tail' \in Index
    BY <1>1, <2>1 DEF Push
  <2>3. buf' \in [Index -> Item]
    BY <1>1 DEF Push
  <2>4. full' \in BOOLEAN /\ (full' => head' = tail') /\ output' = output
    BY <1>1 DEF Push
  <2> QED
    BY <2>2, <2>3, <2>4
<1>2. CASE PopEmpty
  BY <1>2 DEF PopEmpty
<1>3. CASE PopItem
  <2>1. tail' \in Index
    BY <1>3, AdvanceStep DEF PopItem
  <2>2. output' \in {<<item>> : item \in Item}
    BY <1>3 DEF PopItem
  <2>3. buf' = buf /\ head' = head /\ full' = FALSE
    BY <1>3 DEF PopItem
  <2> QED
    BY <2>1, <2>2, <2>3
<1>4. CASE Reset
  BY <1>4 DEF Reset
<1>5. CASE UNCHANGED vars
  BY <1>5 DEF vars
<1> QED
  BY <1>1, <1>2, <1>3, <1>4, <1>5 DEF Next

(* The indices of the ring never leave it, whatever Push, Pop and Reset of  *)
(* circular_buffer.h do to them, for every capacity.                        *)
THEOREM TypeCorrect == Spec => []TypeOK
<1>1. Init => IndInv
  BY InitInv
<1>2. IndInv /\ [Next]_vars => IndInv'
  BY StepInv
<1> QED
  BY <1>1, <1>2, PTL DEF Spec, IndInv

-----------------------------------------------------------------------------
(* The number of stored items is what GetSize computes: between 0 and the   *)
(* capacity, 0 only for an empty ring, the capacity only for a full one.    *)
LEMMA SizeFacts ==
    ASSUME IndInv
    PROVE  /\ GetSize \in 0 .. max_size
           /\ (GetSize = 0) <=> IsEmpty
           /\ (GetSize = max_size) <=> full
  BY MaxSizeAssumption DEF IndInv, TypeOK, Index, GetSize, IsEmpty

(* The stored items are a sequence of length GetSize.                       *)
LEMMA StoredFacts ==
    ASSUME IndInv
    PROVE  /\ Stored \in Seq(Item)
           /\ Len(Stored) = GetSize
           /\ \A i \in 1 .. GetSize : CellOf(i) \in Index /\ Stored[i] = buf[CellOf(i)]
<1>1. GetSize \in Nat /\ GetSize \in 0 .. max_size
  BY SizeFacts, MaxSizeAssumption
<1>2. \A i \in 1 .. GetSize : CellOf(i) \in Index
  BY <1>1, MaxSizeAssumption DEF IndInv, TypeOK, Index, CellOf
<1>3. Stored \in [1 .. GetSize -> Item]
  BY <1>2 DEF Stored, IndInv, TypeOK
<1>4. Stored \in Seq(Item) /\ Len(Stored) = GetSize
  BY <1>1, <1>3
<1> QED
  BY <1>2, <1>4 DEF Stored

(* The same facts about the state a step leads to.                          *)
LEMMA StoredFactsNext ==
    (IndInv => Stored \in Seq(Item) /\ Len(Stored) = GetSize)'
<1>1. IndInv => Stored \in Seq(Item) /\ Len(Stored) = GetSize
  BY StoredFacts
<1> QED
  BY <1>1, PTL

(* A Push to a ring with room appends; a Push to a full ring replaces the   *)
(* oldest item and makes the second oldest the first.                       *)
LEMMA PushRefines ==
    ASSUME IndInv, IndInv', NEW item \in Item, Push(item)
    PROVE  Fifo!Push(item)
<1> USE DEF IndInv, TypeOK
<1> DEFINE size == GetSize
<1>1. max_size \in Nat \ {0} /\ size \in 0 .. max_size
  BY MaxSizeAssumption, SizeFacts
<1>2. /\ Advance(head) = IF head = max_size - 1 THEN 0 ELSE head + 1
      /\ Advance(tail) = IF tail = max_size - 1 THEN 0 ELSE tail + 1
  BY AdvanceStep
<1>3. CASE full
  <2>1. size = max_size /\ head = tail /\ tail' = Advance(tail) /\ head' = tail' /\ full'
    BY <1>3, SizeFacts DEF Push
  <2>2. GetSize' = max_size
    BY <2>1 DEF GetSize
  <2>3. Stored' = [i \in 1 .. max_size |-> buf'[CellOf(i)']]
    BY <2>2 DEF Stored
  <2>4. ASSUME NEW i \in 1 .. max_size
        PROVE  Stored'[i] = IF i = max_size THEN item ELSE Stored[i + 1]
    <3>1. CellOf(i)' = IF i = max_size THEN head ELSE CellOf(i + 1)
      BY <1>1, <1>2, <2>1, <2>4 DEF CellOf, Index
    <3>2. i # max_size => CellOf(i + 1) # head /\ CellOf(i + 1) \in Index
      BY <1>1, <2>1, <2>4 DEF CellOf, Index
    <3>3. i # max_size => Stored[i + 1] = buf[CellOf(i + 1)]
      BY <1>1, <2>1, <2>4, StoredFacts
    <3>4. Stored'[i] = buf'[CellOf(i)']
      BY <2>3, <2>4
    <3> QED
      BY <3>1, <3>2, <3>3, <3>4 DEF Push
  <2>5. Stored' = Append(Tail(Stored), item)
    <3>1. Stored \in Seq(Item) /\ Len(Stored) = max_size
      BY <2>1, StoredFacts
    <3>2. Stored' \in Seq(Item) /\ Len(Stored') = max_size
      BY <2>2, StoredFactsNext
    <3> HIDE DEF IndInv, TypeOK
    <3> QED
      BY <1>1, <2>4, <3>1, <3>2
  <2> QED
    BY <2>1, <2>5, StoredFacts DEF Fifo!Push, Fifo!PushItem, Push
<1>4. CASE ~full
  <2>1. size < max_size /\ tail' = tail /\ head' = Advance(head) /\ full' = (head' = tail')
    BY <1>1, <1>4, SizeFacts DEF Push
  <2>2. GetSize' = size + 1
    BY <1>1, <1>2, <1>4, <2>1 DEF GetSize, Index
  <2>3. Stored' = [i \in 1 .. size + 1 |-> buf'[CellOf(i)]]
    BY <2>1, <2>2 DEF Stored, CellOf
  <2>4. ASSUME NEW i \in 1 .. size + 1
        PROVE  Stored'[i] = IF i = size + 1 THEN item ELSE Stored[i]
    <3>1. i = size + 1 => CellOf(i) = head
      BY <1>1, <1>4, <2>4 DEF CellOf, Index, GetSize
    <3>2. i # size + 1 => CellOf(i) # head /\ CellOf(i) \in Index
      BY <1>1, <1>4, <2>4 DEF CellOf, Index, GetSize
    <3>3. i # size + 1 => Stored[i] = buf[CellOf(i)]
      BY <1>1, <2>4, StoredFacts
    <3> QED
      BY <2>3, <2>4, <3>1, <3>2, <3>3 DEF Push
  <2>5. Stored' = Append(Stored, item)
    <3>1. Stored \in Seq(Item) /\ Len(Stored) = size
      BY StoredFacts
    <3>2. Stored' \in Seq(Item) /\ Len(Stored') = size + 1
      BY <2>2, StoredFactsNext
    <3> HIDE DEF IndInv, TypeOK, size
    <3> QED
      BY <1>1, <2>4, <3>1, <3>2
  <2> QED
    BY <2>1, <2>5, StoredFacts DEF Fifo!Push, Fifo!PushItem, Push
<1> QED
  BY <1>3, <1>4

(* A Pop of a ring that is not empty takes the oldest item and leaves the   *)
(* rest in order.                                                           *)
LEMMA PopRefines ==
    ASSUME IndInv, IndInv', PopItem
    PROVE  Fifo!PopSome
<1> USE DEF IndInv, TypeOK
<1> DEFINE size == GetSize
<1>1. max_size \in Nat \ {0} /\ size \in 1 .. max_size
  BY MaxSizeAssumption, SizeFacts DEF PopItem
<1>2. tail' = IF tail = max_size - 1 THEN 0 ELSE tail + 1
  BY AdvanceStep DEF PopItem
<1>3. head' = head /\ buf' = buf /\ full' = FALSE /\ output' = <<buf[tail]>>
  BY DEF PopItem
<1>4. GetSize' = size - 1
  BY <1>1, <1>2, <1>3 DEF GetSize, Index, PopItem, IsEmpty
<1>5. Stored \in Seq(Item) /\ Len(Stored) = size /\ Stored[1] = buf[tail]
  <2>1. CellOf(1) = tail
    BY <1>1 DEF CellOf, Index
  <2> QED
    BY <1>1, <2>1, StoredFacts
<1>6. Stored' \in Seq(Item) /\ Len(Stored') = size - 1
  BY <1>4, StoredFactsNext
<1>7. ASSUME NEW i \in 1 .. size - 1
      PROVE  Stored'[i] = Stored[i + 1]
  <2>1. CellOf(i)' = CellOf(i + 1)
    BY <1>1, <1>2, <1>7 DEF CellOf, Index
  <2>2. Stored'[i] = buf'[CellOf(i)']
    BY <1>4, <1>7 DEF Stored
  <2>3. Stored[i + 1] = buf[CellOf(i + 1)]
    BY <1>1, <1>7, StoredFacts
  <2> QED
    BY <1>3, <2>1, <2>2, <2>3
<1>8. Stored' = Tail(Stored)
  <2> HIDE DEF size, IndInv, TypeOK
  <2> QED
    BY <1>1, <1>5, <1>6, <1>7
<1>9. Stored # << >> /\ output' = <<Head(Stored)>>
  <2> HIDE DEF size, IndInv, TypeOK
  <2> QED
    BY <1>1, <1>3, <1>5
<1> QED
  BY <1>8, <1>9 DEF Fifo!PopSome

-----------------------------------------------------------------------------
(* The ring of circular_buffer.h implements a queue that drops its oldest   *)
(* item when full, for every capacity: no Push, Pop or Reset, in any order, *)
(* loses, duplicates or reorders an item otherwise.                         *)
THEOREM Refinement == Spec => ImplementsFifo
<1>1. Init => Fifo!Init
  <2> SUFFICES ASSUME Init
               PROVE  Fifo!Init
    OBVIOUS
  <2>1. IndInv /\ GetSize = 0
    BY InitInv DEF Init, GetSize
  <2>2. Stored \in Seq(Item) /\ Len(Stored) = 0
    BY <2>1, StoredFacts
  <2> QED
    BY <2>2 DEF Fifo!Init, Init
<1>2. IndInv /\ IndInv' /\ [Next]_vars => [Fifo!Next]_<<Stored, output>>
  <2> SUFFICES ASSUME IndInv, IndInv', [Next]_vars
               PROVE  [Fifo!Next]_<<Stored, output>>
    OBVIOUS
  <2>1. ASSUME NEW item \in Item, Push(item)
        PROVE  Fifo!Next
    BY <2>1, PushRefines DEF Fifo!Next
  <2>2. CASE PopEmpty
    <3>1. Stored = << >>
      BY <2>2, SizeFacts, StoredFacts DEF PopEmpty
    <3>2. Stored' = Stored
      BY <2>2 DEF PopEmpty, Stored, GetSize, CellOf
    <3> QED
      BY <2>2, <3>1, <3>2 DEF PopEmpty, Fifo!Next, Fifo!PopNone
  <2>3. CASE PopItem
    BY <2>3, PopRefines DEF Fifo!Next
  <2>4. CASE Reset
    <3>1. GetSize' = 0
      BY <2>4 DEF Reset, GetSize, IndInv, TypeOK, Index
    <3>2. Stored' \in Seq(Item) /\ Len(Stored') = 0
      BY <3>1, StoredFactsNext
    <3> QED
      BY <2>4, <3>2 DEF Reset, Fifo!Next, Fifo!Reset
  <2>5. CASE UNCHANGED vars
    BY <2>5 DEF vars, Stored, GetSize, CellOf
  <2> QED
    BY <2>1, <2>2, <2>3, <2>4, <2>5 DEF Next
<1>3. Spec => []IndInv
  BY InitInv, StepInv, PTL DEF Spec
<1> QED
  BY <1>1, <1>2, <1>3, PTL DEF Spec, ImplementsFifo, Fifo!Spec
=============================================================================
