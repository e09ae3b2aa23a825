------------------------- MODULE StreamParserProofs -------------------------
(***************************************************************************)
(* Proofs about StreamParser, for every alphabet, header, length of frame, *)
(* checksum and size of the buffer: every access to recv_buff is inside    *)
(* it, and the stream and the bytes to replay never meet.                  *)
(***************************************************************************)
EXTENDS StreamParser, SequenceTheorems, TLAPS

IInv == TypeOK /\ StreamFits

\* memmove and memset leave bytes in the buffer, provided what is moved lies in it.
LEMMA MovedIsBuffer ==
  ASSUME NEW buff \in [Cell -> Byte], NEW dest \in Nat, NEW src \in Nat, NEW n \in Nat,
         src + n <= MAX_PACK_SIZE
  PROVE  Moved(buff, dest, src, n) \in [Cell -> Byte]
<1>1. ASSUME NEW c \in Cell, c \in dest .. dest + n - 1
      PROVE  c - dest + src \in Cell
  BY <1>1, StreamAssumption DEF Cell
<1> QED  BY <1>1 DEF Moved

LEMMA ClearedIsBuffer ==
  ASSUME NEW buff \in [Cell -> Byte], NEW from, NEW n
  PROVE  Cleared(buff, from, n) \in [Cell -> Byte]
BY StreamAssumption DEF Cleared

\* What a call of StreamHandler leaves, when the stream had n bytes with its new byte and
\* the replay goes on at cell replay.
Left(n, replay) == /\ recv_buff' \in [Cell -> Byte]
                   /\ recv_index' \in Nat
                   /\ recv_index' <= n
                   /\ reuse_index' \in Nat
                   /\ recv_index' <= reuse_index'
                   /\ reuse_index' <= replay
                   /\ is_frame' \in BOOLEAN
                   /\ frame' \in Seq(Byte)

LEMMA StreamIsBytes ==
  ASSUME NEW buff \in [Cell -> Byte], NEW n \in Nat, n <= MAX_PACK_SIZE
  PROVE  Stream(buff, n) \in Seq(Byte)
<1>1. \A i \in 1 .. n : i - 1 \in Cell
  BY StreamAssumption DEF Cell
<1>2. Stream(buff, n) \in [1 .. n -> Byte]
  BY <1>1 DEF Stream
<1> QED  BY <1>2

\* The branches of CheckStream that do not go back.
LEMMA HandlerLeaves ==
  ASSUME TypeOK, NEW b \in Byte, NEW replay \in Nat, replay <= MAX_PACK_SIZE,
         recv_index < replay \/ recv_index = MAX_PACK_SIZE,
         StreamHandler(b, replay)
  PROVE  /\ Left(recv_index + 1, replay)
         /\ reuse_index' = replay
<1> DEFINE buff == [recv_buff EXCEPT ![recv_index] = b]
           n == recv_index + 1
<1>1. recv_index \in Nat /\ frame \in Seq(Byte) /\ recv_buff \in [Cell -> Byte]
  BY StreamAssumption DEF TypeOK
<1>2. buff \in [Cell -> Byte]
  BY <1>1
<1>3. HasRoom => n \in Nat /\ n <= MAX_PACK_SIZE /\ n <= replay
  BY <1>1, StreamAssumption DEF HasRoom
<1>4. CASE Checked(b, Collect, replay)
  <2>1. HasRoom /\ Collect(buff, n, replay)
    BY <1>4 DEF Checked
  <2> HIDE DEF buff, n
  <2>2. /\ recv_buff' = buff /\ recv_index' = n /\ reuse_index' = replay /\ frame' = frame
        /\ is_frame' \in BOOLEAN
    BY <2>1 DEF Collect
  <2>3. Left(n, replay)
    BY <2>2, <2>1, <1>1, <1>2, <1>3 DEF Left
  <2> QED  BY <2>2, <2>3 DEF n
<1>5. CASE Checked(b, Reject, replay)
  <2>1. HasRoom /\ Reject(buff, n, replay)
    BY <1>5 DEF Checked
  <2> HIDE DEF buff
  <2>2. n = HEADER_LEN
    BY <2>1 DEF Reject, NoHeader
  <2>3. /\ recv_buff' = Moved(buff, 0, 1, n - 1) /\ recv_index' = n - 1
        /\ reuse_index' = replay /\ is_frame' \in BOOLEAN /\ frame' = frame
    BY <2>1 DEF Reject, ShiftStream
  <2>4. recv_buff' \in [Cell -> Byte]
    <3>1. n - 1 \in Nat /\ 1 + (n - 1) <= MAX_PACK_SIZE
      BY <2>2, StreamAssumption
    <3> HIDE DEF n
    <3> QED  BY <3>1, <2>3, <1>2, MovedIsBuffer
  <2>5. Left(n, replay)
    BY <2>2, <2>3, <2>4, <2>1, <1>1, <1>3, StreamAssumption DEF Left
  <2> QED  BY <2>3, <2>5 DEF n
<1>6. CASE Checked(b, Accept, replay)
  <2>1. HasRoom /\ Accept(buff, n, replay)
    BY <1>6 DEF Checked
  <2> HIDE DEF buff
  <2>2. n >= HEADER_LEN
    BY <2>1, <1>1, StreamAssumption DEF Accept, WholeFrame
  <2> DEFINE m == n - (HEADER_LEN - 1)
  <2>3. /\ recv_buff' = Cleared(Moved(buff, 0, m, HEADER_LEN - 1), HEADER_LEN - 1, m)
        /\ recv_index' = HEADER_LEN - 1
        /\ reuse_index' = replay /\ is_frame' \in BOOLEAN /\ frame' = Stream(buff, n)
    BY <2>1 DEF Accept, PrepareStream
  <2>4. /\ HEADER_LEN - 1 \in Nat /\ m \in Nat /\ m + (HEADER_LEN - 1) <= MAX_PACK_SIZE
        /\ HEADER_LEN - 1 < n
    BY <2>1, <2>2, <1>1, <1>3, StreamAssumption
  <2> HIDE DEF n, m
  <2>5. recv_buff' \in [Cell -> Byte]
    BY <2>3, <2>4, <1>2, MovedIsBuffer, ClearedIsBuffer
  <2>6. frame' \in Seq(Byte)
    BY <2>3, <2>1, <1>2, <1>3, StreamIsBytes
  <2>7. Left(n, replay)
    BY <2>3, <2>4, <2>5, <2>6, <2>1, <1>3, StreamAssumption DEF Left
  <2> QED  BY <2>3, <2>7 DEF n
<1>7. CASE Overflow(replay)
  <2>1. /\ recv_buff' = Cleared(recv_buff, 0, recv_index) /\ recv_index' = 0
        /\ reuse_index' = replay /\ is_frame' \in BOOLEAN /\ frame' = frame
    BY <1>7 DEF Overflow
  <2>2. recv_buff' \in [Cell -> Byte]
    BY <2>1, <1>1, ClearedIsBuffer
  <2>3. 0 <= replay /\ 0 <= recv_index + 1
    BY <1>1
  <2>4. Left(recv_index + 1, replay)
    BY <2>1, <2>2, <2>3, <1>1 DEF Left
  <2> QED  BY <2>1, <2>4
<1> QED  BY <1>4, <1>5, <1>6, <1>7 DEF StreamHandler

\* A damaged frame: there is room for its data in front of what is left to replay.
LEMMA ReuseLeaves ==
  ASSUME TypeOK, NEW b \in Byte, NEW replay \in Nat, replay <= MAX_PACK_SIZE,
         recv_index < replay, Checked(b, Reuse, replay)
  PROVE  /\ Left(recv_index + 1, replay)
         /\ reuse_index' < MAX_PACK_SIZE
         /\ recv_index' < reuse_index'
<1> DEFINE buff == [recv_buff EXCEPT ![recv_index] = b]
           n == recv_index + 1
           d == n - HEADER_LEN
<1>1. recv_index \in Nat /\ frame \in Seq(Byte) /\ recv_buff \in [Cell -> Byte]
  BY StreamAssumption DEF TypeOK
<1>2. buff \in [Cell -> Byte]
  BY <1>1
<1>3. HasRoom /\ Reuse(buff, n, replay)
  BY DEF Checked
<1> HIDE DEF buff
<1>4. n > HEADER_LEN
  BY <1>3 DEF Reuse, DamagedFrame
<1>5. /\ recv_buff' = Moved(Moved(buff, replay - d, HEADER_LEN, d), 0, 1, HEADER_LEN - 1)
      /\ recv_index' = HEADER_LEN - 1
      /\ reuse_index' = replay - d
      /\ is_frame' \in BOOLEAN /\ frame' = frame
  BY <1>3 DEF Reuse, ReuseStream
<1>6. /\ d \in Nat /\ d > 0 /\ HEADER_LEN \in Nat /\ HEADER_LEN - 1 \in Nat
      /\ replay - d \in Nat /\ replay - d >= HEADER_LEN
      /\ HEADER_LEN + d <= MAX_PACK_SIZE /\ 1 + (HEADER_LEN - 1) <= MAX_PACK_SIZE
  BY <1>1, <1>3, <1>4, StreamAssumption DEF HasRoom
<1>7. recv_buff' \in [Cell -> Byte]
  <2> HIDE DEF n, d
  <2>1. Moved(buff, replay - d, HEADER_LEN, d) \in [Cell -> Byte]
    BY <1>2, <1>6, MovedIsBuffer
  <2> QED  BY <2>1, <1>5, <1>6, MovedIsBuffer
<1> QED  BY <1>1, <1>4, <1>5, <1>6, <1>7, StreamAssumption DEF Left

\* Inductive: a step of the line or of the replay leaves the two parts of the buffer apart.
LEMMA StepKeepsIInv == IInv /\ [Next]_vars => IInv'
<1> SUFFICES ASSUME IInv, [Next]_vars PROVE IInv'
  OBVIOUS
<1> USE StreamAssumption
<1>1. TypeOK /\ StreamFits
  BY DEF IInv
<1>2. ASSUME NEW b \in Byte, FeedByte(b) PROVE IInv'
  <2>1. recv_index < MAX_PACK_SIZE \/ recv_index = MAX_PACK_SIZE
    BY <1>1 DEF TypeOK
  <2>2. CASE StreamHandler(b, MAX_PACK_SIZE) /\ ReturnToReceive(b)
    <3>1. Left(recv_index + 1, MAX_PACK_SIZE) /\ reuse_index' = MAX_PACK_SIZE
      BY <1>1, <2>1, <2>2, HandlerLeaves
    <3>2. replaying' \in BOOLEAN /\ ~replaying' /\ held' \in Byte \cup {NoByte}
      BY <2>2 DEF ReturnToReceive
    <3> QED  BY <3>1, <3>2 DEF IInv, TypeOK, StreamFits, Left
  <2>3. CASE Checked(b, Reuse, MAX_PACK_SIZE) /\ replaying' = TRUE /\ held' = b
    <3>1. recv_index < MAX_PACK_SIZE
      BY <2>3 DEF Checked, HasRoom
    <3>2. /\ Left(recv_index + 1, MAX_PACK_SIZE) /\ reuse_index' < MAX_PACK_SIZE
          /\ recv_index' < reuse_index'
      BY <1>1, <2>3, <3>1, ReuseLeaves
    <3>3. replaying' = TRUE /\ replaying' \in BOOLEAN /\ held' \in Byte \cup {NoByte}
      BY <2>3
    <3> QED  BY <3>2, <3>3 DEF IInv, TypeOK, StreamFits, Left
  <2> QED  BY <1>2, <2>2, <2>3 DEF FeedByte
<1>3. ASSUME ReplayByte PROVE IInv'
  <2> DEFINE b == recv_buff[reuse_index]
             replay == reuse_index + 1
  <2>1. /\ replaying = TRUE /\ reuse_index \in Cell /\ recv_index \in Nat /\ recv_index < reuse_index
        /\ replay \in Nat /\ replay <= MAX_PACK_SIZE /\ recv_index < replay
    BY <1>1, <1>3 DEF ReplayByte, TypeOK, StreamFits, Cell
  <2>2. b \in Byte
    BY <1>1, <2>1 DEF TypeOK
  <2>3. StreamHandler(b, replay) \/ Checked(b, Reuse, replay)
    BY <1>3 DEF ReplayByte
  <2>4. IF reuse_index' < MAX_PACK_SIZE THEN UNCHANGED <<replaying, held>> ELSE ReturnToReceive(held)
    BY <1>3 DEF ReplayByte
  <2> HIDE DEF b, replay
  <2>5. Left(recv_index + 1, replay) /\ (recv_index' < reuse_index' \/ reuse_index' = replay)
    BY <1>1, <2>1, <2>2, <2>3, HandlerLeaves, ReuseLeaves
  <2>6. recv_index' < reuse_index'
    BY <2>1, <2>5 DEF Left, replay
  <2>7. reuse_index' \in Nat /\ reuse_index' <= MAX_PACK_SIZE
    BY <2>1, <2>5 DEF Left
  <2>8. /\ held' \in Byte \cup {NoByte}
        /\ reuse_index' < MAX_PACK_SIZE => replaying' = TRUE
        /\ ~ (reuse_index' < MAX_PACK_SIZE) => replaying' = FALSE
    BY <1>1, <2>1, <2>4 DEF ReturnToReceive, TypeOK
  <2>9. replaying' \in BOOLEAN
    BY <2>8
  <2> QED  BY <2>1, <2>5, <2>6, <2>7, <2>8, <2>9 DEF IInv, TypeOK, StreamFits, Left
<1>4. ASSUME UNCHANGED vars PROVE IInv'
  BY <1>1, <1>4 DEF IInv, TypeOK, StreamFits, vars
<1> QED  BY <1>2, <1>3, <1>4 DEF Next

LEMMA InitIsFit == Init => IInv
<1> SUFFICES ASSUME Init PROVE TypeOK /\ StreamFits
  BY DEF IInv
<1>1. recv_buff \in [Cell -> Byte] /\ frame \in Seq(Byte) /\ held \in Byte \cup {NoByte}
  BY StreamAssumption DEF Init
<1>2. recv_index = 0 /\ reuse_index = MAX_PACK_SIZE /\ ~replaying
  BY DEF Init
<1>3. replaying \in BOOLEAN /\ is_frame \in BOOLEAN
  BY DEF Init
<1>4. TypeOK
  BY <1>1, <1>2, <1>3, StreamAssumption DEF TypeOK
<1>5. StreamFits
  BY <1>2, StreamAssumption DEF StreamFits
<1> QED  BY <1>4, <1>5

\* Every index of the stream parser stays in recv_buff (protocol.h:149-158), for every
\* buffer size and every line.
THEOREM StreamTyped == Spec => []TypeOK
<1>1. IInv => TypeOK
  BY DEF IInv
<1> QED  BY <1>1, InitIsFit, StepKeepsIInv, PTL DEF Spec

\* ReuseStream never moves data over the stream, nor StreamHandler a byte over data that
\* wait to be fed again (protocol.h:350-371), however many damaged frames are nested.
THEOREM StreamKeepsClear == Spec => []StreamFits
<1>1. IInv => StreamFits
  BY DEF IInv
<1> QED  BY <1>1, InitIsFit, StepKeepsIInv, PTL DEF Spec

-----------------------------------------------------------------------------
\* What stands in the stream with n bytes and, from cell replay on, waits to be fed again.
Line(buff, n, replay) == Stream(buff, n) \o Between(buff, replay, MAX_PACK_SIZE)

LEMMA StreamIs ==
  ASSUME NEW buff \in [Cell -> Byte], NEW n \in 0 .. MAX_PACK_SIZE
  PROVE  /\ Stream(buff, n) \in Seq(Byte)
         /\ Len(Stream(buff, n)) = n
         /\ \A i \in 1 .. n : Stream(buff, n)[i] = buff[i - 1]
<1>1. n \in Nat /\ n <= MAX_PACK_SIZE
  BY StreamAssumption
<1>2. Stream(buff, n) \in Seq(Byte)
  BY <1>1, StreamIsBytes
<1>3. DOMAIN Stream(buff, n) = 1 .. n
  BY DEF Stream
<1>4. Len(Stream(buff, n)) = n
  BY <1>1, <1>2, <1>3, LenProperties
<1> QED  BY <1>2, <1>4 DEF Stream

LEMMA LineIs ==
  ASSUME NEW buff \in [Cell -> Byte], NEW n \in 0 .. MAX_PACK_SIZE,
         NEW replay \in 0 .. MAX_PACK_SIZE
  PROVE  /\ Line(buff, n, replay) \in Seq(Byte)
         /\ Len(Line(buff, n, replay)) = n + (MAX_PACK_SIZE - replay)
         /\ \A i \in 1 .. n : Line(buff, n, replay)[i] = buff[i - 1]
         /\ \A i \in 1 .. n + (MAX_PACK_SIZE - replay) :
              i > n => Line(buff, n, replay)[i] = buff[replay + (i - n) - 1]
<1> DEFINE t == Stream(buff, n)
           r == Between(buff, replay, MAX_PACK_SIZE)
           m == MAX_PACK_SIZE - replay
<1>1. m \in Nat /\ n \in Nat /\ replay \in Nat /\ MAX_PACK_SIZE \in Nat
  BY StreamAssumption
<1>2. \A i \in 1 .. m : replay + i - 1 \in Cell
  BY <1>1 DEF Cell
<1>3. r \in [1 .. m -> Byte]
  BY <1>2 DEF Between
<1>4. r \in Seq(Byte) /\ DOMAIN r = 1 .. m
  BY <1>1, <1>3
<1>5. Len(r) = m
  BY <1>1, <1>4, LenProperties
<1>6. \A i \in 1 .. m : r[i] = buff[replay + i - 1]
  BY DEF Between
<1>7. t \in Seq(Byte) /\ Len(t) = n /\ \A i \in 1 .. n : t[i] = buff[i - 1]
  BY StreamIs
<1> HIDE DEF t, r
<1>8. /\ t \o r \in Seq(Byte) /\ Len(t \o r) = n + m
      /\ \A i \in 1 .. n + m : (t \o r)[i] = IF i <= n THEN t[i] ELSE r[i - n]
  <2>1. /\ t \o r \in Seq(Byte) /\ Len(t \o r) = Len(t) + Len(r)
        /\ \A i \in 1 .. Len(t) + Len(r) : (t \o r)[i] = IF i <= Len(t) THEN t[i] ELSE r[i - Len(t)]
    BY <1>4, <1>7, ConcatProperties
  <2>2. Len(t) = n /\ Len(r) = n + m - n /\ Len(t) + Len(r) = n + m
    BY <1>1, <1>5, <1>7
  <2> HIDE DEF m
  <2> QED  BY <2>1, <2>2
<1>9. Line(buff, n, replay) = t \o r
  BY DEF Line, t, r
<1>10. \A i \in 1 .. n : i \in 1 .. n + m /\ i <= n
  BY <1>1
<1>11. ASSUME NEW i \in 1 .. n + m, i > n PROVE (t \o r)[i] = buff[replay + (i - n) - 1]
  <2>1. i - n \in 1 .. m /\ ~ (i <= n)
    BY <1>1, <1>11
  <2> QED  BY <1>6, <1>8, <2>1
<1> QED  BY <1>7, <1>8, <1>9, <1>10, <1>11

\* The parser reads the length of a header in the stream, the scanner in the line.
LEMMA HeaderKnown ==
  ASSUME NEW s \in Seq(Byte), HEADER_LEN <= Len(s), Len(s) <= MAX_PACK_SIZE + 1
  PROVE  /\ LengthIn(s) \in Nat
         /\ LengthIn(s) = LengthIn(SubSeq(s, 1, HEADER_LEN))
         /\ HeaderStands(SubSeq(s, 1, HEADER_LEN)) => LengthIn(s) < MAX_PACK_SIZE
<1>1. s \in [1 .. Len(s) -> Byte] /\ Len(s) \in Nat
  BY LenProperties
<1>2. Len(s) \in HEADER_LEN .. MAX_PACK_SIZE + 1
  BY <1>1, StreamAssumption
<1> QED  BY <1>1, <1>2, HeaderAssumption

LEMMA SamePrefix ==
  ASSUME NEW s \in Seq(Byte), NEW t \in Seq(Byte), NEW k \in Nat, k <= Len(s), k <= Len(t),
         \A i \in 1 .. k : s[i] = t[i]
  PROVE  SubSeq(s, 1, k) = SubSeq(t, 1, k)
<1>1. \A i \in 1 .. k : s[i] \in Byte /\ t[i] \in Byte
  <2>1. Len(s) \in Nat /\ Len(t) \in Nat
    BY LenProperties
  <2>2. \A i \in 1 .. k : i \in 1 .. Len(s) /\ i \in 1 .. Len(t)
    BY <2>1
  <2> QED  BY <2>2, ElementOfSeq
<1>2. SubSeq(s, 1, k) = [i \in 1 .. k |-> s[i]] /\ SubSeq(t, 1, k) = [i \in 1 .. k |-> t[i]]
  BY <1>1
<1> QED  BY <1>2

-----------------------------------------------------------------------------
\* The part of the line that stands in the stream is undecided, also while bytes wait to be
\* fed again; NothingUndecided alone says nothing of the middle of a replay.
IUndecided == Scanner!Undecided(Stream(recv_buff, recv_index))

\* The buffer when byte b has been put at the end of the stream.
With(b) == [recv_buff EXCEPT ![recv_index] = b]

LEMMA WithIs ==
  ASSUME TypeOK, HasRoom, NEW b \in Byte
  PROVE  /\ With(b) \in [Cell -> Byte] /\ recv_index \in Cell
         /\ recv_index + 1 \in 0 .. MAX_PACK_SIZE
         /\ With(b)[recv_index] = b
         /\ \A c \in Cell \ {recv_index} : With(b)[c] = recv_buff[c]
BY StreamAssumption DEF TypeOK, With, HasRoom, Cell

\* The stream with its new byte: what is known of its header was known before.
LEMMA Grown ==
  ASSUME TypeOK, IUndecided, HasRoom, NEW b \in Byte,
         NEW n, n = recv_index + 1, NEW t, t = Stream(With(b), n)
  PROVE  /\ n \in 1 .. MAX_PACK_SIZE /\ t \in Seq(Byte) /\ Len(t) = n
         /\ n = HEADER_LEN => SubSeq(t, 1, HEADER_LEN) = t
         /\ n >= HEADER_LEN => LengthIn(t) \in Nat
         /\ n > HEADER_LEN => /\ HeaderStands(SubSeq(t, 1, HEADER_LEN))
                              /\ LengthIn(t) < HEADER_LEN \/ LengthIn(t) >= n
<1> DEFINE old == Stream(recv_buff, recv_index)
<1>1. /\ n \in 1 .. MAX_PACK_SIZE /\ n \in 0 .. MAX_PACK_SIZE /\ recv_index \in 0 .. MAX_PACK_SIZE
      /\ recv_index \in Nat /\ n \in Nat /\ MAX_PACK_SIZE \in Nat /\ HEADER_LEN \in Nat
  BY WithIs, StreamAssumption DEF TypeOK
<1>2. t \in Seq(Byte) /\ Len(t) = n /\ \A i \in 1 .. n : t[i] = With(b)[i - 1]
  BY <1>1, WithIs, StreamIs
<1>3. old \in Seq(Byte) /\ Len(old) = recv_index /\ \A i \in 1 .. recv_index : old[i] = recv_buff[i - 1]
  BY <1>1, StreamIs DEF TypeOK
<1>4. ASSUME NEW i \in 1 .. recv_index PROVE i \in 1 .. n /\ old[i] = t[i]
  <2>1. i \in 1 .. n /\ i - 1 \in Cell \ {recv_index}
    BY <1>1, WithIs DEF Cell
  <2> QED  BY <1>2, <1>3, <2>1, WithIs
<1> HIDE DEF old
<1>5. ASSUME n >= HEADER_LEN
      PROVE  LengthIn(t) \in Nat /\ LengthIn(t) = LengthIn(SubSeq(t, 1, HEADER_LEN))
  BY <1>1, <1>2, <1>5, HeaderKnown
<1>6. ASSUME n = HEADER_LEN PROVE SubSeq(t, 1, HEADER_LEN) = t
  <2>1. \A i \in 1 .. n : t[i] \in Byte
    BY <1>2, ElementOfSeq
  <2>2. SubSeq(t, 1, n) = [i \in 1 .. n |-> t[i]]
    BY <1>1, <2>1
  <2>3. t = [i \in 1 .. n |-> t[i]]
    BY <1>2, LenProperties
  <2> QED  BY <1>6, <2>2, <2>3
<1>7. ASSUME n > HEADER_LEN
      PROVE  /\ HeaderStands(SubSeq(t, 1, HEADER_LEN))
             /\ LengthIn(t) < HEADER_LEN \/ LengthIn(t) >= n
  <2>1. HEADER_LEN <= recv_index /\ recv_index <= MAX_PACK_SIZE + 1 /\ n >= HEADER_LEN
    BY <1>1, <1>7
  <2>2. SubSeq(old, 1, HEADER_LEN) = SubSeq(t, 1, HEADER_LEN)
    <3>1. HEADER_LEN <= Len(old) /\ HEADER_LEN <= Len(t)
      BY <1>2, <1>3, <2>1
    <3>2. \A i \in 1 .. HEADER_LEN : i \in 1 .. recv_index
      BY <1>1, <2>1
    <3>3. \A i \in 1 .. HEADER_LEN : old[i] = t[i]
      BY <1>4, <3>2
    <3> QED  BY <1>1, <1>2, <1>3, <3>1, <3>3, SamePrefix
  <2>3. LengthIn(old) \in Nat /\ LengthIn(old) = LengthIn(SubSeq(old, 1, HEADER_LEN))
    BY <1>3, <2>1, HeaderKnown
  <2>4. LengthIn(old) = LengthIn(t)
    BY <1>5, <2>1, <2>2, <2>3
  <2>5. Scanner!Undecided(old)
    BY DEF IUndecided, old
  <2>6. ~ (Len(old) < HEADER_LEN)
    BY <1>1, <1>3, <2>1
  <2>7. /\ HeaderStands(SubSeq(old, 1, HEADER_LEN))
        /\ LengthIn(old) < HEADER_LEN \/ recv_index < LengthIn(old)
    BY <1>3, <2>5, <2>6 DEF Scanner!Undecided
  <2>8. HeaderStands(SubSeq(t, 1, HEADER_LEN))
    BY <2>2, <2>7, Zenon
  <2>9. LengthIn(t) < HEADER_LEN \/ recv_index < LengthIn(t)
    BY <2>4, <2>7
  <2>10. LengthIn(t) \in Nat
    BY <2>3, <2>4
  <2>11. LengthIn(t) < HEADER_LEN \/ LengthIn(t) >= n
    BY <1>1, <2>9, <2>10
  <2> QED  BY <2>8, <2>11
<1> QED  BY <1>1, <1>2, <1>5, <1>6, <1>7

\* A byte that is only collected leaves the stream undecided.
LEMMA CollectWaits ==
  ASSUME TypeOK, IUndecided, HasRoom, NEW b \in Byte, Incomplete(With(b), recv_index + 1)
  PROVE  Scanner!Undecided(Stream(With(b), recv_index + 1))
<1>1. PICK n, t : n = recv_index + 1 /\ t = Stream(With(b), n)
  OBVIOUS
<1>2. /\ n \in 1 .. MAX_PACK_SIZE /\ Len(t) = n
      /\ n = HEADER_LEN => SubSeq(t, 1, HEADER_LEN) = t
      /\ n >= HEADER_LEN => LengthIn(t) \in Nat
      /\ n > HEADER_LEN => /\ HeaderStands(SubSeq(t, 1, HEADER_LEN))
                           /\ LengthIn(t) < HEADER_LEN \/ LengthIn(t) >= n
  BY <1>1, Grown
<1>3. \/ n < HEADER_LEN
      \/ n = HEADER_LEN /\ HeaderStands(t) /\ LengthIn(t) # HEADER_LEN
      \/ n > HEADER_LEN /\ LengthIn(t) # n
  BY <1>1 DEF Incomplete
<1>4. HEADER_LEN \in Nat /\ MAX_PACK_SIZE \in Nat
  BY StreamAssumption
<1>5. \/ n < HEADER_LEN
      \/ /\ HeaderStands(SubSeq(t, 1, HEADER_LEN))
         /\ IF LengthIn(t) < HEADER_LEN THEN n <= MAX_PACK_SIZE ELSE n < LengthIn(t)
  <2>1. CASE n = HEADER_LEN
    <3>1. HeaderStands(t)
      BY <1>3, <1>2, <1>4, <2>1
    <3>2. HeaderStands(SubSeq(t, 1, HEADER_LEN))
      BY <1>2, <2>1, <3>1, Zenon
    <3>3. LengthIn(t) # n /\ LengthIn(t) \in Nat
      BY <1>2, <1>3, <1>4, <2>1
    <3>4. IF LengthIn(t) < HEADER_LEN THEN n <= MAX_PACK_SIZE ELSE n < LengthIn(t)
      BY <1>2, <1>4, <2>1, <3>3
    <3> QED  BY <3>2, <3>4
  <2>2. CASE n > HEADER_LEN
    <3>1. HeaderStands(SubSeq(t, 1, HEADER_LEN))
      BY <1>2, <2>2
    <3>2. LengthIn(t) # n /\ LengthIn(t) \in Nat /\ (LengthIn(t) < HEADER_LEN \/ LengthIn(t) >= n)
      BY <1>2, <1>3, <1>4, <2>2
    <3>3. IF LengthIn(t) < HEADER_LEN THEN n <= MAX_PACK_SIZE ELSE n < LengthIn(t)
      BY <1>2, <1>4, <2>2, <3>2
    <3> QED  BY <3>1, <3>3
  <2> QED  BY <1>3, <2>1, <2>2
<1>6. Scanner!Undecided(t)
  BY <1>2, <1>5 DEF Scanner!Undecided
<1> QED  BY <1>1, <1>6

\* A stream shorter than a header is undecided.
LEMMA ShortWaits ==
  ASSUME recv_buff' \in [Cell -> Byte], recv_index' \in 0 .. MAX_PACK_SIZE, recv_index' < HEADER_LEN
  PROVE  IUndecided'
<1>1. PICK t : t = Stream(recv_buff', recv_index')
  OBVIOUS
<1>2. Len(t) < HEADER_LEN
  BY <1>1, StreamIs
<1>3. Scanner!Undecided(t)
  BY <1>2 DEF Scanner!Undecided
<1> QED  BY <1>1, <1>3 DEF IUndecided

LEMMA HandlerUndecided ==
  ASSUME TypeOK, IUndecided, NEW b \in Byte, NEW replay \in Nat, replay <= MAX_PACK_SIZE,
         recv_index < replay \/ recv_index = MAX_PACK_SIZE,
         StreamHandler(b, replay) \/ (recv_index < replay /\ Checked(b, Reuse, replay))
  PROVE  IUndecided'
<1> DEFINE n == recv_index + 1
<1>1. recv_buff' \in [Cell -> Byte] /\ recv_index' \in Nat /\ recv_index' <= recv_index + 1
  BY HandlerLeaves, ReuseLeaves DEF Left
<1>2. recv_index \in Nat /\ recv_index <= MAX_PACK_SIZE /\ MAX_PACK_SIZE \in Nat
      /\ HEADER_LEN \in Nat \ {0} /\ HEADER_LEN <= MAX_PACK_SIZE
  BY StreamAssumption DEF TypeOK
<1>3. CASE Checked(b, Collect, replay)
  <2>1. HasRoom /\ Incomplete(With(b), n) /\ recv_buff' = With(b) /\ recv_index' = n
    BY <1>3 DEF Checked, Collect, With
  <2> QED  BY <2>1, CollectWaits DEF IUndecided
<1>4. CASE Checked(b, Reject, replay) \/ Checked(b, Accept, replay) \/ Overflow(replay)
           \/ Checked(b, Reuse, replay)
  <2>1. recv_index' < HEADER_LEN
    <3>1. CASE Checked(b, Reject, replay)
      <4>1. n = HEADER_LEN /\ recv_index' = n - 1
        BY <3>1 DEF Checked, Reject, NoHeader, ShiftStream
      <4> QED  BY <1>2, <4>1
    <3>2. CASE Checked(b, Accept, replay)
      <4>1. recv_index' = HEADER_LEN - 1
        BY <3>2 DEF Checked, Accept, PrepareStream
      <4> QED  BY <1>2, <4>1
    <3>3. CASE Overflow(replay)
      BY <1>2, <3>3 DEF Overflow
    <3>4. CASE Checked(b, Reuse, replay)
      <4>1. recv_index' = HEADER_LEN - 1
        BY <3>4 DEF Checked, Reuse, ReuseStream
      <4> QED  BY <1>2, <4>1
    <3> QED  BY <1>4, <3>1, <3>2, <3>3, <3>4
  <2>2. recv_index' \in 0 .. MAX_PACK_SIZE
    BY <1>1, <1>2, <2>1
  <2> QED  BY <1>1, <2>1, <2>2, ShortWaits
<1> QED  BY <1>3, <1>4 DEF StreamHandler

-----------------------------------------------------------------------------
LEMMA SuffixIs ==
  ASSUME NEW s \in Seq(Byte), NEW t \in Seq(Byte), NEW d \in Nat, Len(t) + d = Len(s),
         \A i \in 1 .. Len(t) : t[i] = s[i + d]
  PROVE  /\ t = SubSeq(s, d + 1, Len(s))
         /\ d = 1 => t = Tail(s)
<1>1. Len(s) \in Nat /\ Len(t) \in Nat
  BY LenProperties
<1>2. \A i \in d + 1 .. Len(s) : s[i] \in Byte
  <2>1. \A i \in d + 1 .. Len(s) : i \in 1 .. Len(s)
    BY <1>1
  <2> QED  BY <2>1, ElementOfSeq
<1>3. PICK u : u = SubSeq(s, d + 1, Len(s))
  OBVIOUS
<1>4. /\ u \in Seq(Byte)
      /\ Len(u) = IF d + 1 <= Len(s) THEN Len(s) - (d + 1) + 1 ELSE 0
      /\ \A i \in 1 .. Len(s) - (d + 1) + 1 : u[i] = s[d + 1 + i - 1]
  BY <1>1, <1>2, <1>3, SubSeqProperties
<1>5. Len(u) = Len(t) /\ Len(s) - (d + 1) + 1 = Len(t)
  BY <1>1, <1>4
<1>6. \A i \in 1 .. Len(t) : t[i] = u[i]
  <2>1. \A i \in 1 .. Len(t) : d + 1 + i - 1 = i + d
    BY <1>1
  <2> QED  BY <1>4, <1>5, <2>1
<1>7. t = u
  BY <1>4, <1>5, <1>6, SeqEqual
<1>8. ASSUME d = 1 PROVE t = Tail(s)
  <2>1. Len(s) > 0 /\ Tail(s) \in Seq(Byte) /\ Len(Tail(s)) = Len(s) - 1
        /\ \A i \in 1 .. Len(s) - 1 : Tail(s)[i] = s[i + 1]
    BY <1>1, <1>8
  <2>2. Len(t) = Len(s) - 1
    BY <1>1, <1>8
  <2>3. \A i \in 1 .. Len(t) : t[i] = Tail(s)[i]
    BY <1>8, <2>1, <2>2
  <2> QED  BY <2>1, <2>2, <2>3, SeqEqual
<1> QED  BY <1>3, <1>7, <1>8

\* The line with byte b taken in: its stream is its beginning.
LEMMA LineFed ==
  ASSUME TypeOK, HasRoom, NEW b \in Byte, NEW replay \in 0 .. MAX_PACK_SIZE, recv_index < replay,
         recv_index + 1 >= HEADER_LEN
  PROVE  LET n == recv_index + 1
             t == Stream(With(b), n)
             s == Line(With(b), n, replay)
         IN  /\ s \in Seq(Byte) /\ Len(s) = n + (MAX_PACK_SIZE - replay)
             /\ SubSeq(s, 1, n) = t
             /\ SubSeq(s, 1, HEADER_LEN) = SubSeq(t, 1, HEADER_LEN)
             /\ LengthIn(s) = LengthIn(t)
<1>0. PICK n, t, s : n = recv_index + 1 /\ t = Stream(With(b), n) /\ s = Line(With(b), n, replay)
  OBVIOUS
<1>1. /\ n \in 0 .. MAX_PACK_SIZE /\ n \in Nat /\ HEADER_LEN \in Nat /\ MAX_PACK_SIZE \in Nat
      /\ recv_index \in Nat /\ With(b) \in [Cell -> Byte]
  BY <1>0, WithIs, StreamAssumption DEF TypeOK
<1>2. t \in Seq(Byte) /\ Len(t) = n /\ \A i \in 1 .. n : t[i] = With(b)[i - 1]
  BY <1>0, <1>1, StreamIs
<1>3. /\ s \in Seq(Byte) /\ Len(s) = n + (MAX_PACK_SIZE - replay)
      /\ \A i \in 1 .. n : s[i] = With(b)[i - 1]
  BY <1>0, <1>1, LineIs
<1>4. n <= Len(s) /\ n <= Len(t) /\ HEADER_LEN <= Len(s) /\ HEADER_LEN <= Len(t)
      /\ Len(s) <= MAX_PACK_SIZE + 1 /\ Len(t) <= MAX_PACK_SIZE + 1
  BY <1>0, <1>1, <1>2, <1>3
<1>5. \A i \in 1 .. n : s[i] = t[i]
  BY <1>2, <1>3
<1>6. SubSeq(s, 1, n) = SubSeq(t, 1, n)
  BY <1>1, <1>2, <1>3, <1>4, <1>5, SamePrefix
<1>7. SubSeq(t, 1, n) = t
  BY <1>2
<1>8. SubSeq(s, 1, HEADER_LEN) = SubSeq(t, 1, HEADER_LEN)
  <2>1. \A i \in 1 .. HEADER_LEN : i \in 1 .. n
    BY <1>0, <1>1
  <2>2. \A i \in 1 .. HEADER_LEN : s[i] = t[i]
    BY <1>5, <2>1
  <2> QED  BY <1>1, <1>2, <1>3, <1>4, <2>2, SamePrefix
<1>9. LengthIn(s) = LengthIn(t)
  BY <1>2, <1>3, <1>4, <1>8, HeaderKnown
<1> QED  BY <1>0, <1>3, <1>6, <1>7, <1>8, <1>9

\* A stream cut to its last k bytes, in front of the same bytes to replay.
LEMMA StreamCut ==
  ASSUME NEW buff \in [Cell -> Byte], NEW left \in [Cell -> Byte],
         NEW n \in 0 .. MAX_PACK_SIZE, NEW k \in 0 .. n, NEW replay \in n .. MAX_PACK_SIZE,
         \A i \in 1 .. k : left[i - 1] = buff[i - 1 + (n - k)],
         \A c \in replay .. MAX_PACK_SIZE - 1 : left[c] = buff[c]
  PROVE  /\ Line(left, k, replay) = SubSeq(Line(buff, n, replay), n - k + 1,
                                          Len(Line(buff, n, replay)))
         /\ n - k = 1 => Line(left, k, replay) = Tail(Line(buff, n, replay))
<1> DEFINE r == MAX_PACK_SIZE - replay
<1>1. /\ n \in Nat /\ k \in Nat /\ replay \in Nat /\ MAX_PACK_SIZE \in Nat /\ k <= n
      /\ k \in 0 .. MAX_PACK_SIZE /\ replay \in 0 .. MAX_PACK_SIZE /\ r \in Nat /\ n - k \in Nat
      /\ n <= replay /\ replay <= MAX_PACK_SIZE
  BY StreamAssumption
<1>2. PICK s, t : s = Line(buff, n, replay) /\ t = Line(left, k, replay)
  OBVIOUS
<1>3. /\ s \in Seq(Byte) /\ Len(s) = n + r
      /\ \A i \in 1 .. n : s[i] = buff[i - 1]
      /\ \A i \in 1 .. n + r : i > n => s[i] = buff[replay + (i - n) - 1]
  BY <1>1, <1>2, LineIs
<1>4. /\ t \in Seq(Byte) /\ Len(t) = k + r
      /\ \A i \in 1 .. k : t[i] = left[i - 1]
      /\ \A i \in 1 .. k + r : i > k => t[i] = left[replay + (i - k) - 1]
  BY <1>1, <1>2, LineIs
<1>5. ASSUME NEW i \in 1 .. k + r PROVE t[i] = s[i + (n - k)]
  <2>1. CASE i <= k
    <3>1. i \in 1 .. k /\ i + (n - k) \in 1 .. n /\ i + (n - k) - 1 = i - 1 + (n - k)
      BY <1>1, <2>1
    <3>2. t[i] = left[i - 1] /\ left[i - 1] = buff[i - 1 + (n - k)]
      BY <1>4, <3>1
    <3>3. s[i + (n - k)] = buff[i - 1 + (n - k)]
      BY <1>3, <3>1
    <3> QED  BY <3>2, <3>3
  <2>2. CASE i > k
    <3>1. /\ i + (n - k) \in 1 .. n + r /\ i + (n - k) > n
          /\ replay + (i + (n - k) - n) - 1 = replay + (i - k) - 1
          /\ replay + (i - k) - 1 \in replay .. MAX_PACK_SIZE - 1
      BY <1>1, <2>2
    <3>2. t[i] = left[replay + (i - k) - 1]
      BY <1>4, <2>2
    <3>3. left[replay + (i - k) - 1] = buff[replay + (i - k) - 1]
      BY <3>1
    <3>4. s[i + (n - k)] = buff[replay + (i - k) - 1]
      BY <1>3, <3>1
    <3> QED  BY <3>2, <3>3, <3>4
  <2> QED  BY <1>1, <2>1, <2>2
<1>6. Len(t) + (n - k) = Len(s) /\ \A i \in 1 .. Len(t) : t[i] = s[i + (n - k)]
  BY <1>1, <1>3, <1>4, <1>5
<1> QED  BY <1>1, <1>2, <1>3, <1>4, <1>6, SuffixIs

\* The data of a damaged frame of n bytes in front of what was left to replay, the header
\* without its first byte in the stream.
LEMMA StreamReused ==
  ASSUME NEW buff \in [Cell -> Byte], NEW left \in [Cell -> Byte],
         NEW n \in 1 .. MAX_PACK_SIZE, NEW replay \in n .. MAX_PACK_SIZE, n > HEADER_LEN,
         NEW d, d = n - HEADER_LEN,
         \A i \in 1 .. HEADER_LEN - 1 : left[i - 1] = buff[i],
         \A c \in replay - d .. replay - 1 : left[c] = buff[c - (replay - d) + HEADER_LEN],
         \A c \in replay .. MAX_PACK_SIZE - 1 : left[c] = buff[c]
  PROVE  Line(left, HEADER_LEN - 1, replay - d) = Tail(Line(buff, n, replay))
<1> DEFINE r == MAX_PACK_SIZE - replay
<1>1. /\ n \in Nat /\ replay \in Nat /\ MAX_PACK_SIZE \in Nat /\ HEADER_LEN \in Nat \ {0}
      /\ n \in 0 .. MAX_PACK_SIZE /\ replay \in 0 .. MAX_PACK_SIZE /\ r \in Nat /\ d \in Nat
      /\ HEADER_LEN - 1 \in 0 .. MAX_PACK_SIZE /\ replay - d \in 0 .. MAX_PACK_SIZE
      /\ n <= replay /\ replay <= MAX_PACK_SIZE
  BY StreamAssumption
<1>2. PICK s, t, k, q : /\ s = Line(buff, n, replay) /\ t = Line(left, k, q)
                        /\ k = HEADER_LEN - 1 /\ q = replay - d
  OBVIOUS
<1>3. /\ s \in Seq(Byte) /\ Len(s) = n + r
      /\ \A i \in 1 .. n : s[i] = buff[i - 1]
      /\ \A i \in 1 .. n + r : i > n => s[i] = buff[replay + (i - n) - 1]
  <2>1. /\ Line(buff, n, replay) \in Seq(Byte)
        /\ Len(Line(buff, n, replay)) = n + (MAX_PACK_SIZE - replay)
        /\ \A i \in 1 .. n : Line(buff, n, replay)[i] = buff[i - 1]
        /\ \A i \in 1 .. n + (MAX_PACK_SIZE - replay) :
             i > n => Line(buff, n, replay)[i] = buff[replay + (i - n) - 1]
    <3>1. n \in 0 .. MAX_PACK_SIZE /\ replay \in 0 .. MAX_PACK_SIZE
      BY <1>1
    <3> QED  BY <3>1, LineIs
  <2> QED  BY <1>2, <2>1
<1>4. /\ k \in 0 .. MAX_PACK_SIZE /\ q \in 0 .. MAX_PACK_SIZE
      /\ k + (MAX_PACK_SIZE - q) = n - 1 + r
  BY <1>1, <1>2
<1>5. /\ t \in Seq(Byte) /\ Len(t) = n - 1 + r
      /\ \A i \in 1 .. HEADER_LEN - 1 : t[i] = left[i - 1]
      /\ \A i \in 1 .. n - 1 + r :
           i > HEADER_LEN - 1 => t[i] = left[replay - d + (i - (HEADER_LEN - 1)) - 1]
  <2>1. /\ t \in Seq(Byte) /\ Len(t) = k + (MAX_PACK_SIZE - q)
        /\ \A i \in 1 .. k : t[i] = left[i - 1]
        /\ \A i \in 1 .. k + (MAX_PACK_SIZE - q) : i > k => t[i] = left[q + (i - k) - 1]
    <3>1. /\ Line(left, k, q) \in Seq(Byte)
          /\ Len(Line(left, k, q)) = k + (MAX_PACK_SIZE - q)
          /\ \A i \in 1 .. k : Line(left, k, q)[i] = left[i - 1]
          /\ \A i \in 1 .. k + (MAX_PACK_SIZE - q) :
               i > k => Line(left, k, q)[i] = left[q + (i - k) - 1]
      BY <1>4, LineIs
    <3> QED  BY <1>2, <3>1
  <2> QED  BY <1>2, <1>4, <2>1
<1>6. ASSUME NEW i \in 1 .. n - 1 + r PROVE t[i] = s[i + 1]
  <2>1. CASE i <= HEADER_LEN - 1
    <3>1. i \in 1 .. HEADER_LEN - 1 /\ i + 1 \in 1 .. n /\ i + 1 - 1 = i
      BY <1>1, <2>1
    <3>2. t[i] = left[i - 1] /\ left[i - 1] = buff[i]
      BY <1>5, <3>1
    <3>3. s[i + 1] = buff[i]
      BY <1>3, <3>1
    <3> QED  BY <3>2, <3>3
  <2>2. ASSUME i > HEADER_LEN - 1 PROVE t[i] = s[i + 1]
    <3>1. PICK c : c = replay - d + (i - (HEADER_LEN - 1)) - 1
      OBVIOUS
    <3>2. t[i] = left[c]
      BY <1>5, <2>2, <3>1
    <3>3. CASE i < n
      <4>1. /\ c \in replay - d .. replay - 1 /\ c - (replay - d) + HEADER_LEN = i
            /\ i + 1 \in 1 .. n /\ i + 1 - 1 = i
        BY <1>1, <2>2, <3>1, <3>3
      <4>2. left[c] = buff[i]
        BY <4>1
      <4>3. s[i + 1] = buff[i]
        BY <1>3, <4>1
      <4> QED  BY <3>2, <4>2, <4>3
    <3>4. CASE ~(i < n)
      <4>1. /\ c \in replay .. MAX_PACK_SIZE - 1 /\ c = replay + (i + 1 - n) - 1
            /\ i + 1 \in 1 .. n + r /\ i + 1 > n
        BY <1>1, <2>2, <3>1, <3>4
      <4>2. left[c] = buff[c]
        BY <4>1
      <4>3. s[i + 1] = buff[c]
        BY <1>3, <4>1
      <4> QED  BY <3>2, <4>2, <4>3
    <3> QED  BY <3>3, <3>4
  <2> QED  BY <1>1, <2>1, <2>2
<1>7. Len(t) + 1 = Len(s) /\ 1 \in Nat /\ \A i \in 1 .. Len(t) : t[i] = s[i + 1]
  BY <1>1, <1>3, <1>5, <1>6
<1> QED  BY <1>2, <1>3, <1>5, <1>7, SuffixIs

-----------------------------------------------------------------------------
\* A check that does not just collect decides one place of the line.
LEMMA RejectDecides ==
  ASSUME TypeOK, IUndecided, NEW b \in Byte, NEW replay \in 0 .. MAX_PACK_SIZE,
         recv_index < replay, Checked(b, Reject, replay)
  PROVE  Scanner!Decide(Line(With(b), recv_index + 1, replay))
<1>1. PICK n, buff : n = recv_index + 1 /\ buff = With(b)
  OBVIOUS
<1>2. PICK s, t : s = Line(buff, n, replay) /\ t = Stream(buff, n)
  OBVIOUS
<1>3. HasRoom /\ NoHeader(buff, n) /\ ShiftStream(buff, n, replay) /\ frame' = frame
  BY <1>1 DEF Checked, Reject, With
<1>4. n = HEADER_LEN /\ ~HeaderStands(t)
  BY <1>2, <1>3 DEF NoHeader
<1>5. recv_buff' = Moved(buff, 0, 1, n - 1) /\ recv_index' = n - 1 /\ reuse_index' = replay
  BY <1>3 DEF ShiftStream
<1>6. /\ buff \in [Cell -> Byte] /\ n \in 1 .. MAX_PACK_SIZE /\ n <= replay
      /\ replay <= MAX_PACK_SIZE /\ MAX_PACK_SIZE \in Nat /\ n \in Nat
      /\ recv_index \in Nat /\ replay \in Nat
  BY <1>1, <1>3, WithIs, StreamAssumption DEF TypeOK
<1>7. recv_buff' \in [Cell -> Byte]
  <2>1. n - 1 \in Nat /\ 1 + (n - 1) <= MAX_PACK_SIZE /\ 0 \in Nat /\ 1 \in Nat
    BY <1>6
  <2> QED  BY <1>5, <1>6, <2>1, MovedIsBuffer
<1>8. SubSeq(t, 1, HEADER_LEN) = t
  BY <1>1, <1>2, <1>3, <1>4, Grown
<1>9. /\ Len(s) = n + (MAX_PACK_SIZE - replay)
      /\ SubSeq(s, 1, HEADER_LEN) = SubSeq(t, 1, HEADER_LEN)
  <2>1. n >= HEADER_LEN
    BY <1>4, <1>6
  <2> QED  BY <1>1, <1>2, <1>3, <2>1, LineFed
<1>10. ~HeaderStands(SubSeq(s, 1, HEADER_LEN))
  BY <1>4, <1>8, <1>9, Zenon
<1>11. Pending' = Tail(s)
  <2>1. \A i \in 1 .. n - 1 : recv_buff'[i - 1] = buff[i - 1 + (n - (n - 1))]
    <3>1. ASSUME NEW i \in 1 .. n - 1 PROVE recv_buff'[i - 1] = buff[i - 1 + (n - (n - 1))]
      <4>1. i - 1 \in Cell /\ i - 1 \in 0 .. 0 + (n - 1) - 1 /\ i - 1 - 0 + 1 = i - 1 + (n - (n - 1))
        BY <1>6 DEF Cell
      <4> QED  BY <1>5, <4>1 DEF Moved
    <3> QED  BY <3>1
  <2>2. \A c \in replay .. MAX_PACK_SIZE - 1 : recv_buff'[c] = buff[c]
    <3>1. ASSUME NEW c \in replay .. MAX_PACK_SIZE - 1 PROVE recv_buff'[c] = buff[c]
      <4>1. c \in Cell /\ c \notin 0 .. 0 + (n - 1) - 1
        BY <1>6 DEF Cell
      <4> QED  BY <1>5, <4>1 DEF Moved
    <3> QED  BY <3>1
  <2>3. n - 1 \in 0 .. n /\ replay \in n .. MAX_PACK_SIZE /\ n \in 0 .. MAX_PACK_SIZE /\ n - (n - 1) = 1
    BY <1>6
  <2>4. Line(recv_buff', n - 1, replay) = Tail(s)
    BY <1>2, <1>6, <1>7, <2>1, <2>2, <2>3, StreamCut
  <2> QED  BY <1>5, <2>4 DEF Pending, Line
<1>12. ~Scanner!Undecided(s)
  <2>1. ~(Len(s) < HEADER_LEN)
    BY <1>4, <1>6, <1>9
  <2> QED  BY <1>10, <2>1 DEF Scanner!Undecided
<1>13. Scanner!GiveUpByte(s)
  BY <1>3, <1>10, <1>11 DEF Scanner!GiveUpByte
<1> QED  BY <1>1, <1>2, <1>12, <1>13 DEF Scanner!Decide

LEMMA AcceptDecides ==
  ASSUME TypeOK, IUndecided, NEW b \in Byte, NEW replay \in 0 .. MAX_PACK_SIZE,
         recv_index < replay, Checked(b, Accept, replay)
  PROVE  Scanner!Decide(Line(With(b), recv_index + 1, replay))
<1>1. PICK n, buff : n = recv_index + 1 /\ buff = With(b)
  OBVIOUS
<1>2. PICK s, t : s = Line(buff, n, replay) /\ t = Stream(buff, n)
  OBVIOUS
<1>3. HasRoom /\ WholeFrame(buff, n) /\ PrepareStream(buff, n, replay) /\ frame' = t
  BY <1>1, <1>2 DEF Checked, Accept, With
<1>4. PICK k, m : k = HEADER_LEN - 1 /\ m = n - k
  OBVIOUS
<1>5. recv_buff' = Cleared(Moved(buff, 0, m, k), k, m) /\ recv_index' = k /\ reuse_index' = replay
  BY <1>3, <1>4 DEF PrepareStream
<1>6. /\ n >= HEADER_LEN /\ LengthIn(t) = n
      /\ n = HEADER_LEN \/ CRCTailCheck(t)
      /\ n = HEADER_LEN => HeaderStands(t)
  <2>1. HEADER_LEN \in Nat /\ n \in Nat
    BY <1>1, StreamAssumption DEF TypeOK
  <2>2. \/ n = HEADER_LEN /\ HeaderStands(t) /\ LengthIn(t) = n
        \/ n > HEADER_LEN /\ LengthIn(t) = n /\ CRCTailCheck(t)
    BY <1>2, <1>3 DEF WholeFrame
  <2> QED  BY <2>1, <2>2
<1>7. /\ buff \in [Cell -> Byte] /\ n \in 1 .. MAX_PACK_SIZE /\ n <= replay
      /\ replay <= MAX_PACK_SIZE /\ MAX_PACK_SIZE \in Nat /\ n \in Nat
      /\ recv_index \in Nat /\ replay \in Nat /\ HEADER_LEN \in Nat \ {0}
  BY <1>1, <1>3, WithIs, StreamAssumption DEF TypeOK
<1>8. k \in Nat /\ m \in Nat /\ k + m = n /\ k < n /\ m + k <= MAX_PACK_SIZE /\ 0 \in Nat
  BY <1>4, <1>6, <1>7
<1>9. recv_buff' \in [Cell -> Byte]
  BY <1>5, <1>7, <1>8, MovedIsBuffer, ClearedIsBuffer
<1>10. HeaderStands(SubSeq(t, 1, HEADER_LEN))
  <2>1. /\ n = HEADER_LEN => SubSeq(t, 1, HEADER_LEN) = t
        /\ n > HEADER_LEN => HeaderStands(SubSeq(t, 1, HEADER_LEN))
    BY <1>1, <1>2, <1>3, Grown
  <2>2. n = HEADER_LEN \/ n > HEADER_LEN
    BY <1>6, <1>7
  <2> QED  BY <1>6, <2>1, <2>2, Zenon
<1>11. /\ s \in Seq(Byte) /\ Len(s) = n + (MAX_PACK_SIZE - replay) /\ SubSeq(s, 1, n) = t
       /\ SubSeq(s, 1, HEADER_LEN) = SubSeq(t, 1, HEADER_LEN) /\ LengthIn(s) = LengthIn(t)
  BY <1>1, <1>2, <1>3, <1>6, LineFed
<1>12. HeaderStands(SubSeq(s, 1, HEADER_LEN))
  BY <1>10, <1>11, Zenon
<1>13. LengthIn(s) = n
  BY <1>6, <1>11
<1>14. Pending' = SubSeq(s, n - HEADER_LEN + 2, Len(s))
  <2>1. \A i \in 1 .. k : recv_buff'[i - 1] = buff[i - 1 + (n - k)]
    <3>1. ASSUME NEW i \in 1 .. k PROVE recv_buff'[i - 1] = buff[i - 1 + (n - k)]
      <4>1. /\ i - 1 \in Cell /\ i - 1 \in 0 .. 0 + k - 1 /\ i - 1 \notin k .. k + m - 1
            /\ i - 1 - 0 + m = i - 1 + (n - k)
        BY <1>7, <1>8 DEF Cell
      <4>2. recv_buff'[i - 1] = Moved(buff, 0, m, k)[i - 1]
        BY <1>5, <4>1 DEF Cleared
      <4> QED  BY <4>1, <4>2 DEF Moved
    <3> QED  BY <3>1
  <2>2. \A c \in replay .. MAX_PACK_SIZE - 1 : recv_buff'[c] = buff[c]
    <3>1. ASSUME NEW c \in replay .. MAX_PACK_SIZE - 1 PROVE recv_buff'[c] = buff[c]
      <4>1. c \in Cell /\ c \notin 0 .. 0 + k - 1 /\ c \notin k .. k + m - 1
        BY <1>7, <1>8 DEF Cell
      <4>2. recv_buff'[c] = Moved(buff, 0, m, k)[c]
        BY <1>5, <4>1 DEF Cleared
      <4> QED  BY <4>1, <4>2 DEF Moved
    <3> QED  BY <3>1
  <2>3. /\ k \in 0 .. n /\ replay \in n .. MAX_PACK_SIZE /\ n \in 0 .. MAX_PACK_SIZE
        /\ n - k + 1 = n - HEADER_LEN + 2
    BY <1>4, <1>7, <1>8
  <2>4. Line(recv_buff', k, replay) = SubSeq(s, n - k + 1, Len(s))
    BY <1>2, <1>7, <1>9, <2>1, <2>2, <2>3, StreamCut
  <2> QED  BY <1>5, <2>3, <2>4 DEF Pending, Line
<1>15. ~Scanner!Undecided(s)
  <2>1. ~(Len(s) < HEADER_LEN) /\ ~(n < HEADER_LEN) /\ ~(Len(s) < n)
    BY <1>6, <1>7, <1>11
  <2>2. ~(IF LengthIn(s) < HEADER_LEN THEN Len(s) <= MAX_PACK_SIZE ELSE Len(s) < LengthIn(s))
    BY <1>13, <2>1
  <2> QED  BY <2>1, <2>2 DEF Scanner!Undecided
<1>16. Scanner!Sound(s)
  <2>1. CASE n = HEADER_LEN
    BY <1>13, <2>1 DEF Scanner!Sound
  <2>2. CASE n # HEADER_LEN
    <3>1. LengthIn(s) > HEADER_LEN
      BY <1>6, <1>7, <1>13, <2>2
    <3>2. SubSeq(s, 1, LengthIn(s)) = t
      BY <1>11, <1>13
    <3>3. CRCTailCheck(SubSeq(s, 1, LengthIn(s)))
      BY <1>6, <2>2, <3>2, Zenon
    <3> QED  BY <3>1, <3>3 DEF Scanner!Sound
  <2> QED  BY <2>1, <2>2
<1>17. Scanner!HandOver(s)
  <2>1. frame' = SubSeq(s, 1, LengthIn(s))
    BY <1>3, <1>11, <1>13
  <2>2. Pending' = SubSeq(s, LengthIn(s) - HEADER_LEN + 2, Len(s))
    BY <1>13, <1>14
  <2> QED  BY <1>12, <1>16, <2>1, <2>2 DEF Scanner!HandOver
<1> QED  BY <1>1, <1>2, <1>15, <1>17 DEF Scanner!Decide

LEMMA ReuseDecides ==
  ASSUME TypeOK, IUndecided, NEW b \in Byte, NEW replay \in 0 .. MAX_PACK_SIZE,
         recv_index < replay, Checked(b, Reuse, replay)
  PROVE  Scanner!Decide(Line(With(b), recv_index + 1, replay))
<1>1. PICK n, buff : n = recv_index + 1 /\ buff = With(b)
  OBVIOUS
<1>2. PICK s, t : s = Line(buff, n, replay) /\ t = Stream(buff, n)
  OBVIOUS
<1>3. HasRoom /\ DamagedFrame(buff, n) /\ ReuseStream(buff, n, replay) /\ frame' = frame
  BY <1>1 DEF Checked, Reuse, With
<1>4. PICK d, moved : d = n - HEADER_LEN /\ moved = Moved(buff, replay - d, HEADER_LEN, d)
  OBVIOUS
<1>5. /\ recv_buff' = Moved(moved, 0, 1, HEADER_LEN - 1)
      /\ recv_index' = HEADER_LEN - 1 /\ reuse_index' = replay - d
  BY <1>3, <1>4 DEF ReuseStream
<1>6. n > HEADER_LEN /\ LengthIn(t) = n /\ ~CRCTailCheck(t)
  BY <1>2, <1>3 DEF DamagedFrame
<1>7. /\ buff \in [Cell -> Byte] /\ n \in 1 .. MAX_PACK_SIZE /\ n <= replay
      /\ replay <= MAX_PACK_SIZE /\ MAX_PACK_SIZE \in Nat /\ n \in Nat
      /\ recv_index \in Nat /\ replay \in Nat /\ HEADER_LEN \in Nat \ {0}
      /\ HEADER_LEN < MAX_PACK_SIZE
  BY <1>1, <1>3, WithIs, StreamAssumption DEF TypeOK
<1>8. /\ d \in Nat /\ replay - d \in Nat /\ replay - d >= HEADER_LEN /\ HEADER_LEN + d = n
      /\ HEADER_LEN - 1 \in Nat
  BY <1>4, <1>6, <1>7
<1>9. recv_buff' \in [Cell -> Byte]
  BY <1>1, ReuseLeaves, <1>7 DEF Left
<1>10. /\ SubSeq(s, 1, n) = t /\ Len(s) = n + (MAX_PACK_SIZE - replay)
       /\ SubSeq(s, 1, HEADER_LEN) = SubSeq(t, 1, HEADER_LEN) /\ LengthIn(s) = LengthIn(t)
  <2>1. recv_index + 1 >= HEADER_LEN
    BY <1>1, <1>6, <1>7
  <2> QED  BY <1>1, <1>2, <1>3, <2>1, LineFed
<1>11. LengthIn(s) = n /\ LengthIn(s) > HEADER_LEN
  BY <1>6, <1>10
<1>12. Pending' = Tail(s)
  <2>1. \A i \in 1 .. HEADER_LEN - 1 : recv_buff'[i - 1] = buff[i]
    <3>1. ASSUME NEW i \in 1 .. HEADER_LEN - 1 PROVE recv_buff'[i - 1] = buff[i]
      <4>1. /\ i - 1 \in Cell /\ i - 1 \in 0 .. 0 + (HEADER_LEN - 1) - 1 /\ i - 1 - 0 + 1 = i
            /\ i \in Cell /\ i \notin replay - d .. replay - d + d - 1
        BY <1>7, <1>8 DEF Cell
      <4>2. recv_buff'[i - 1] = moved[i]
        BY <1>5, <4>1 DEF Moved
      <4> QED  BY <1>4, <4>1, <4>2 DEF Moved
    <3> QED  BY <3>1
  <2>2. ASSUME NEW c \in Cell, c >= HEADER_LEN PROVE recv_buff'[c] = moved[c]
    <3>1. c \notin 0 .. 0 + (HEADER_LEN - 1) - 1
      BY <1>7, <2>2 DEF Cell
    <3> QED  BY <1>5, <3>1 DEF Moved
  <2>3. \A c \in replay - d .. replay - 1 : recv_buff'[c] = buff[c - (replay - d) + HEADER_LEN]
    <3>1. ASSUME NEW c \in replay - d .. replay - 1
          PROVE  recv_buff'[c] = buff[c - (replay - d) + HEADER_LEN]
      <4>1. c \in Cell /\ c >= HEADER_LEN /\ c \in replay - d .. replay - d + d - 1
        BY <1>7, <1>8 DEF Cell
      <4>2. moved[c] = buff[c - (replay - d) + HEADER_LEN]
        BY <1>4, <4>1 DEF Moved
      <4> QED  BY <2>2, <4>1, <4>2
    <3> QED  BY <3>1
  <2>4. \A c \in replay .. MAX_PACK_SIZE - 1 : recv_buff'[c] = buff[c]
    <3>1. ASSUME NEW c \in replay .. MAX_PACK_SIZE - 1 PROVE recv_buff'[c] = buff[c]
      <4>1. c \in Cell /\ c >= HEADER_LEN /\ c \notin replay - d .. replay - d + d - 1
        BY <1>7, <1>8 DEF Cell
      <4>2. moved[c] = buff[c]
        BY <1>4, <4>1 DEF Moved
      <4> QED  BY <2>2, <4>1, <4>2
    <3> QED  BY <3>1
  <2>5. /\ replay \in n .. MAX_PACK_SIZE /\ n \in 1 .. MAX_PACK_SIZE /\ n > HEADER_LEN
        /\ buff \in [Cell -> Byte] /\ d = n - HEADER_LEN
    BY <1>4, <1>6, <1>7
  <2>6. Line(recv_buff', HEADER_LEN - 1, replay - d) = Tail(Line(buff, n, replay))
    BY <1>9, <2>1, <2>3, <2>4, <2>5, StreamReused
  <2> QED  BY <1>2, <1>5, <2>6 DEF Pending, Line
<1>13. ~Scanner!Undecided(s)
  <2>1. ~(Len(s) < HEADER_LEN) /\ ~(n < HEADER_LEN) /\ ~(Len(s) < n)
    BY <1>6, <1>7, <1>10
  <2>2. ~(IF LengthIn(s) < HEADER_LEN THEN Len(s) <= MAX_PACK_SIZE ELSE Len(s) < LengthIn(s))
    BY <1>11, <2>1
  <2> QED  BY <2>1, <2>2 DEF Scanner!Undecided
<1>14. ~Scanner!Sound(s)
  <2>1. SubSeq(s, 1, LengthIn(s)) = t
    BY <1>10, <1>11
  <2>2. ~CRCTailCheck(SubSeq(s, 1, LengthIn(s)))
    BY <1>6, <2>1, Zenon
  <2>3. LengthIn(s) # HEADER_LEN
    BY <1>7, <1>11
  <2> QED  BY <2>2, <2>3 DEF Scanner!Sound
<1>15. Scanner!GiveUpByte(s)
  BY <1>3, <1>11, <1>12, <1>14 DEF Scanner!GiveUpByte
<1> QED  BY <1>1, <1>2, <1>13, <1>15 DEF Scanner!Decide

\* A byte that is only collected changes nothing for the scanner but that it has arrived.
LEMMA CollectKeeps ==
  ASSUME NEW b \in Byte, NEW replay, Checked(b, Collect, replay)
  PROVE  /\ Pending' = Line(With(b), recv_index + 1, replay)
         /\ UNCHANGED frame
BY DEF Checked, Collect, Pending, Line, With

\* When nothing is left to replay, the stream is all there is.
LEMMA LineAlone ==
  ASSUME NEW buff \in [Cell -> Byte], NEW n \in 0 .. MAX_PACK_SIZE
  PROVE  Line(buff, n, MAX_PACK_SIZE) = Stream(buff, n)
<1>1. PICK q, t : q = Line(buff, n, MAX_PACK_SIZE) /\ t = Stream(buff, n)
  OBVIOUS
<1>2. MAX_PACK_SIZE \in 0 .. MAX_PACK_SIZE /\ n + (MAX_PACK_SIZE - MAX_PACK_SIZE) = n
  BY StreamAssumption
<1>3. q \in Seq(Byte) /\ Len(q) = n /\ \A i \in 1 .. n : q[i] = buff[i - 1]
  BY <1>1, <1>2, LineIs
<1>4. t \in Seq(Byte) /\ Len(t) = n /\ \A i \in 1 .. n : t[i] = buff[i - 1]
  BY <1>1, StreamIs
<1>5. \A i \in 1 .. Len(q) : q[i] = t[i]
  BY <1>3, <1>4
<1> QED  BY <1>1, <1>3, <1>4, <1>5, SeqEqual

-----------------------------------------------------------------------------
\* A byte of the line: the scanner decides at most one place, or waits.
LEMMA FeedArrives ==
  ASSUME IInv, IUndecided, NEW b \in Byte, FeedByte(b)
  PROVE  Scanner!Arrive(b)
<1>1. /\ TypeOK /\ ~replaying /\ reuse_index = MAX_PACK_SIZE /\ recv_buff \in [Cell -> Byte]
      /\ recv_index \in 0 .. MAX_PACK_SIZE /\ recv_index \in Nat /\ recv_index <= MAX_PACK_SIZE
      /\ MAX_PACK_SIZE \in Nat /\ MAX_PACK_SIZE \in 0 .. MAX_PACK_SIZE
      /\ HEADER_LEN \in Nat \ {0} /\ HEADER_LEN < MAX_PACK_SIZE
  BY StreamAssumption DEF FeedByte, IInv, TypeOK, StreamFits
<1>2. PICK p : p = Pending
  OBVIOUS
<1>3. p = Stream(recv_buff, recv_index)
  BY <1>1, <1>2, LineAlone DEF Pending, Line
<1>4. p \in Seq(Byte) /\ Len(p) = recv_index /\ \A i \in 1 .. recv_index : p[i] = recv_buff[i - 1]
  BY <1>1, <1>3, StreamIs
<1>5. Scanner!Undecided(p)
  BY <1>3 DEF IUndecided
<1>6. PICK n, a : n = recv_index + 1 /\ a = Append(p, b)
  OBVIOUS
<1>7. a \in Seq(Byte) /\ Len(a) = n /\ (\A i \in 1 .. recv_index : a[i] = p[i]) /\ a[n] = b
  BY <1>4, <1>6, AppendProperties
<1>8. ASSUME HasRoom
      PROVE  a = Stream(With(b), n) /\ a = Line(With(b), n, MAX_PACK_SIZE)
  <2>1. n \in 0 .. MAX_PACK_SIZE /\ With(b) \in [Cell -> Byte]
    BY <1>1, <1>6, <1>8, WithIs
  <2>2. PICK q : q = Stream(With(b), n)
    OBVIOUS
  <2>3. q \in Seq(Byte) /\ Len(q) = n /\ \A i \in 1 .. n : q[i] = With(b)[i - 1]
    BY <2>1, <2>2, StreamIs
  <2>4. ASSUME NEW i \in 1 .. n PROVE a[i] = q[i]
    <3>1. CASE i = n
      <4>1. i - 1 = recv_index
        BY <1>1, <1>6, <3>1
      <4> QED  BY <1>1, <1>7, <1>8, <2>3, <3>1, <4>1, WithIs
    <3>2. CASE i # n
      <4>1. i \in 1 .. recv_index /\ i - 1 \in Cell \ {recv_index}
        BY <1>1, <1>6, <3>2 DEF Cell
      <4>2. With(b)[i - 1] = recv_buff[i - 1]
        BY <1>1, <1>8, <4>1, WithIs
      <4> QED  BY <1>4, <1>7, <2>3, <4>1, <4>2
    <3> QED  BY <3>1, <3>2
  <2>5. a = q
    BY <1>7, <2>3, <2>4, SeqEqual
  <2>6. Line(With(b), n, MAX_PACK_SIZE) = q
    BY <2>1, <2>2, LineAlone
  <2> QED  BY <2>2, <2>5, <2>6
<1>9. CASE \/ Checked(b, Reject, MAX_PACK_SIZE) \/ Checked(b, Accept, MAX_PACK_SIZE)
           \/ Checked(b, Reuse, MAX_PACK_SIZE)
  <2>1. HasRoom /\ recv_index < MAX_PACK_SIZE
    BY <1>9 DEF Checked, HasRoom
  <2>2. Scanner!Decide(Line(With(b), recv_index + 1, MAX_PACK_SIZE))
    BY <1>1, <1>9, <2>1, RejectDecides, AcceptDecides, ReuseDecides
  <2>3. Scanner!Decide(Append(p, b))
    BY <1>6, <1>8, <2>1, <2>2
  <2> QED  BY <1>2, <1>5, <2>3 DEF Scanner!Arrive
<1>10. CASE Checked(b, Collect, MAX_PACK_SIZE)
  <2>1. HasRoom /\ Incomplete(With(b), recv_index + 1)
    BY <1>10 DEF Checked, Collect, With
  <2>2. Pending' = Line(With(b), recv_index + 1, MAX_PACK_SIZE) /\ frame' = frame
    BY <1>10, CollectKeeps
  <2>3. Pending' = a
    BY <1>6, <1>8, <2>1, <2>2
  <2>4. Scanner!Undecided(Stream(With(b), recv_index + 1))
    BY <1>1, <2>1, CollectWaits
  <2>5. Scanner!Undecided(a)
    BY <1>6, <1>8, <2>1, <2>4
  <2>6. Scanner!Wait(a)
    BY <2>2, <2>3, <2>5 DEF Scanner!Wait
  <2> QED  BY <1>2, <1>5, <1>6, <2>6 DEF Scanner!Arrive
<1>11. CASE Overflow(MAX_PACK_SIZE)
  <2>1. /\ recv_index = MAX_PACK_SIZE
        /\ recv_buff' = Cleared(recv_buff, 0, recv_index) /\ recv_index' = 0
        /\ reuse_index' = MAX_PACK_SIZE /\ frame' = frame
    BY <1>1, <1>11 DEF Overflow, HasRoom
  <2>2. Pending' = << >>
    <3>1. Line(recv_buff', 0, MAX_PACK_SIZE) = Stream(recv_buff', 0)
      BY <1>1, <2>1, LineAlone, ClearedIsBuffer
    <3>2. Stream(recv_buff', 0) = << >>
      BY DEF Stream
    <3> QED  BY <2>1, <3>1, <3>2 DEF Pending, Line
  <2>3. /\ LengthIn(p) \in Nat /\ LengthIn(p) = LengthIn(SubSeq(p, 1, HEADER_LEN))
        /\ HeaderStands(SubSeq(p, 1, HEADER_LEN)) => LengthIn(p) < MAX_PACK_SIZE
    <3>1. HEADER_LEN <= Len(p) /\ Len(p) <= MAX_PACK_SIZE + 1
      BY <1>1, <1>4, <2>1
    <3> QED  BY <1>4, <3>1, HeaderKnown
  <2>4. /\ HeaderStands(SubSeq(p, 1, HEADER_LEN))
        /\ LengthIn(p) < HEADER_LEN \/ recv_index < LengthIn(p)
    <3>1. ~(Len(p) < HEADER_LEN)
      BY <1>1, <1>4, <2>1
    <3> QED  BY <1>4, <1>5, <3>1 DEF Scanner!Undecided
  <2>5. LengthIn(p) < HEADER_LEN
    BY <1>1, <2>1, <2>3, <2>4
  <2>6. SubSeq(a, 1, HEADER_LEN) = SubSeq(p, 1, HEADER_LEN)
    <3>1. HEADER_LEN <= Len(a) /\ HEADER_LEN <= Len(p) /\ HEADER_LEN \in Nat
      BY <1>1, <1>4, <1>6, <1>7, <2>1
    <3>2. \A i \in 1 .. HEADER_LEN : a[i] = p[i]
      BY <1>1, <1>7, <2>1
    <3> QED  BY <1>4, <1>7, <3>1, <3>2, SamePrefix
  <2>7. LengthIn(a) = LengthIn(p)
    <3>1. HEADER_LEN <= Len(a) /\ Len(a) <= MAX_PACK_SIZE + 1
      BY <1>1, <1>6, <1>7, <2>1
    <3> QED  BY <1>7, <2>3, <2>6, <3>1, HeaderKnown
  <2>8. HeaderStands(SubSeq(a, 1, HEADER_LEN))
    BY <2>4, <2>6, Zenon
  <2>9. ~Scanner!Undecided(a)
    <3>1. ~(Len(a) < HEADER_LEN) /\ ~(Len(a) <= MAX_PACK_SIZE)
      BY <1>1, <1>6, <1>7, <2>1
    <3>2. LengthIn(a) < HEADER_LEN
      BY <2>5, <2>7
    <3> QED  BY <3>1, <3>2 DEF Scanner!Undecided
  <2>10. LengthIn(a) < HEADER_LEN
    BY <2>5, <2>7
  <2>11. Scanner!GiveUpAll(a)
    BY <2>1, <2>2, <2>8, <2>10 DEF Scanner!GiveUpAll
  <2> QED  BY <1>2, <1>5, <1>6, <2>9, <2>11 DEF Scanner!Arrive, Scanner!Decide
<1> QED  BY <1>9, <1>10, <1>11 DEF FeedByte, StreamHandler

\* A byte fed again has arrived before: the scanner decides one place, or stands still.
LEMMA ReplayDecides ==
  ASSUME IInv, IUndecided, ReplayByte
  PROVE  Scanner!Decide(Pending) \/ (Pending' = Pending /\ frame' = frame)
<1> DEFINE b == recv_buff[reuse_index]
           replay == reuse_index + 1
<1>1. /\ TypeOK /\ replaying /\ reuse_index \in Cell /\ recv_index \in Nat /\ recv_index < reuse_index
      /\ recv_buff \in [Cell -> Byte] /\ recv_index \in 0 .. MAX_PACK_SIZE
      /\ reuse_index \in 0 .. MAX_PACK_SIZE /\ reuse_index \in Nat /\ MAX_PACK_SIZE \in Nat
      /\ reuse_index < MAX_PACK_SIZE
  BY StreamAssumption DEF ReplayByte, IInv, TypeOK, StreamFits, Cell
<1>2. /\ b \in Byte /\ replay \in 0 .. MAX_PACK_SIZE /\ recv_index < replay /\ HasRoom
  BY <1>1 DEF HasRoom
<1>3. StreamHandler(b, replay) \/ Checked(b, Reuse, replay)
  BY DEF ReplayByte
<1> HIDE DEF b
<1>4. Line(With(b), recv_index + 1, replay) = Pending
  <2>1. PICK n, q, p, c : /\ n = recv_index + 1 /\ q = Line(With(b), n, c) /\ p = Pending
                          /\ c = replay
    OBVIOUS
  <2>2. /\ n \in 0 .. MAX_PACK_SIZE /\ c \in 0 .. MAX_PACK_SIZE /\ With(b) \in [Cell -> Byte]
        /\ n + (MAX_PACK_SIZE - c) = recv_index + (MAX_PACK_SIZE - reuse_index)
    BY <1>1, <1>2, <2>1, WithIs
  <2>3. /\ q \in Seq(Byte) /\ Len(q) = n + (MAX_PACK_SIZE - c)
        /\ \A i \in 1 .. n : q[i] = With(b)[i - 1]
        /\ \A i \in 1 .. n + (MAX_PACK_SIZE - c) : i > n => q[i] = With(b)[c + (i - n) - 1]
    BY <2>1, <2>2, LineIs
  <2>4. /\ p \in Seq(Byte) /\ Len(p) = recv_index + (MAX_PACK_SIZE - reuse_index)
        /\ \A i \in 1 .. recv_index : p[i] = recv_buff[i - 1]
        /\ \A i \in 1 .. recv_index + (MAX_PACK_SIZE - reuse_index) :
             i > recv_index => p[i] = recv_buff[reuse_index + (i - recv_index) - 1]
    <3>1. p = Line(recv_buff, recv_index, reuse_index)
      BY <2>1 DEF Pending, Line
    <3> QED  BY <1>1, <3>1, LineIs
  <2>5. ASSUME NEW i \in 1 .. Len(q) PROVE q[i] = p[i]
    <3>1. i \in 1 .. n + (MAX_PACK_SIZE - c) /\ i \in 1 .. recv_index + (MAX_PACK_SIZE - reuse_index)
      BY <2>2, <2>3
    <3>2. CASE i <= recv_index
      <4>1. i \in 1 .. n /\ i \in 1 .. recv_index /\ i - 1 \in Cell \ {recv_index}
        BY <1>1, <2>1, <3>1, <3>2 DEF Cell
      <4> QED  BY <1>1, <1>2, <2>3, <2>4, <4>1, WithIs
    <3>3. CASE i = n
      <4>1. /\ i \in 1 .. n /\ i - 1 = recv_index /\ i > recv_index
            /\ reuse_index + (i - recv_index) - 1 = reuse_index
        BY <1>1, <2>1, <3>1, <3>3
      <4>2. q[i] = b
        BY <1>1, <1>2, <2>3, <4>1, WithIs
      <4>3. p[i] = b
        BY <2>4, <3>1, <4>1 DEF b
      <4> QED  BY <4>2, <4>3
    <3>4. CASE i > n
      <4>1. /\ i > recv_index /\ c + (i - n) - 1 = reuse_index + (i - recv_index) - 1
            /\ c + (i - n) - 1 \in Cell \ {recv_index}
        BY <1>1, <2>1, <2>2, <3>1, <3>4 DEF Cell
      <4>2. q[i] = With(b)[c + (i - n) - 1]
        BY <2>3, <3>1, <3>4
      <4>3. p[i] = recv_buff[c + (i - n) - 1]
        BY <2>4, <3>1, <4>1
      <4> QED  BY <1>1, <1>2, <4>1, <4>2, <4>3, WithIs
    <3> QED  BY <1>1, <2>1, <3>1, <3>2, <3>3, <3>4
  <2> QED  BY <2>1, <2>2, <2>3, <2>4, <2>5, SeqEqual
<1>5. CASE Checked(b, Reject, replay) \/ Checked(b, Accept, replay) \/ Checked(b, Reuse, replay)
  BY <1>1, <1>2, <1>4, <1>5, RejectDecides, AcceptDecides, ReuseDecides
<1>6. CASE Checked(b, Collect, replay)
  BY <1>2, <1>4, <1>6, CollectKeeps
<1>7. ~Overflow(replay)
  BY <1>2 DEF Overflow
<1> QED  BY <1>3, <1>5, <1>6, <1>7 DEF StreamHandler

-----------------------------------------------------------------------------
LEMMA UndecidedStep == IInv /\ IUndecided /\ [Next]_vars => IUndecided'
<1> SUFFICES ASSUME IInv, IUndecided, [Next]_vars PROVE IUndecided'
  OBVIOUS
<1>1. TypeOK /\ StreamFits /\ MAX_PACK_SIZE \in Nat
  BY StreamAssumption DEF IInv
<1>2. ASSUME NEW b \in Byte, FeedByte(b) PROVE IUndecided'
  <2>1. recv_index < MAX_PACK_SIZE \/ recv_index = MAX_PACK_SIZE
    BY <1>1 DEF TypeOK
  <2>2. \/ StreamHandler(b, MAX_PACK_SIZE)
        \/ recv_index < MAX_PACK_SIZE /\ Checked(b, Reuse, MAX_PACK_SIZE)
    BY <1>2 DEF FeedByte, Checked, HasRoom
  <2>3. MAX_PACK_SIZE <= MAX_PACK_SIZE
    BY <1>1
  <2> QED  BY <1>1, <2>1, <2>2, <2>3, HandlerUndecided
<1>3. ASSUME ReplayByte PROVE IUndecided'
  <2>1. PICK b, replay : b = recv_buff[reuse_index] /\ replay = reuse_index + 1
    OBVIOUS
  <2>2. /\ b \in Byte /\ replay \in Nat /\ replay <= MAX_PACK_SIZE /\ recv_index < replay
    BY <1>1, <1>3, <2>1 DEF ReplayByte, TypeOK, StreamFits, Cell
  <2>3. StreamHandler(b, replay) \/ Checked(b, Reuse, replay)
    BY <1>3, <2>1 DEF ReplayByte
  <2> QED  BY <1>1, <2>2, <2>3, HandlerUndecided
<1>4. ASSUME UNCHANGED vars PROVE IUndecided'
  BY <1>4 DEF IUndecided, vars
<1> QED  BY <1>2, <1>3, <1>4 DEF Next

LEMMA InitUndecided == Init => IUndecided /\ Pending = << >> /\ frame = << >>
<1> SUFFICES ASSUME Init PROVE IUndecided /\ Pending = << >> /\ frame = << >>
  OBVIOUS
<1>1. /\ recv_buff \in [Cell -> Byte] /\ recv_index = 0 /\ reuse_index = MAX_PACK_SIZE
      /\ frame = << >> /\ 0 \in 0 .. MAX_PACK_SIZE /\ 0 < HEADER_LEN
  BY StreamAssumption DEF Init
<1>2. PICK t : t = Stream(recv_buff, 0)
  OBVIOUS
<1>3. t = << >> /\ Len(t) = 0
  BY <1>2 DEF Stream
<1>4. Scanner!Undecided(t)
  BY <1>1, <1>3 DEF Scanner!Undecided
<1>5. Pending = << >>
  BY <1>1, <1>2, <1>3, LineAlone DEF Pending, Line
<1> QED  BY <1>1, <1>2, <1>4, <1>5 DEF IUndecided

\* When Receive waits for the line, no sound frame and no place that could be given up is left
\* in recv_buff (protocol.cpp:673-686: the loop of ByteHandler runs to its end).
THEOREM NothingIsUndecided == Spec => []NothingUndecided
<1>1. IInv /\ IUndecided => NothingUndecided
  <2> SUFFICES ASSUME IInv, IUndecided, ~replaying PROVE Scanner!Undecided(Pending)
    BY DEF NothingUndecided
  <2>1. /\ reuse_index = MAX_PACK_SIZE /\ recv_buff \in [Cell -> Byte]
        /\ recv_index \in 0 .. MAX_PACK_SIZE
    BY DEF IInv, TypeOK, StreamFits
  <2>2. Pending = Stream(recv_buff, recv_index)
    BY <2>1, LineAlone DEF Pending, Line
  <2> QED  BY <2>2 DEF IUndecided
<1> QED  BY <1>1, InitIsFit, StepKeepsIInv, InitUndecided, UndecidedStep, PTL DEF Spec

\* Whatever is moved, cleared and fed again in the one buffer, the parser looks at every place
\* of the line in turn (protocol.cpp:906-940): every step is one of the scanner, or none.
THEOREM StreamIsScanner == Spec => ImplementsScanner
<1>1. Init => Scanner!Init
  BY InitUndecided DEF Scanner!Init
<1>2. IInv /\ IUndecided /\ [Next]_vars => [Scanner!Next]_<<Pending, frame>>
  <2> SUFFICES ASSUME IInv, IUndecided, [Next]_vars PROVE [Scanner!Next]_<<Pending, frame>>
    OBVIOUS
  <2>1. ASSUME NEW b \in Byte, FeedByte(b) PROVE Scanner!Next
    BY <2>1, FeedArrives DEF Scanner!Next
  <2>2. CASE ReplayByte
    BY <2>2, ReplayDecides DEF Scanner!Next
  <2>3. CASE UNCHANGED vars
    BY <2>3 DEF vars, Pending
  <2> QED  BY <2>1, <2>2, <2>3 DEF Next
<1> QED  BY <1>1, <1>2, InitIsFit, StepKeepsIInv, InitUndecided, UndecidedStep, PTL
         DEF Spec, ImplementsScanner, Scanner!Spec
=============================================================================
