---------------------------- MODULE StreamParser ----------------------------
(***************************************************************************)
(* The receive stream of roborts_sdk/protocol: Receive feeds the bytes of  *)
(* the serial line one by one to ByteHandler, which collects them in       *)
(* recv_buff until a header and then a whole frame stand there.  When the  *)
(* data of a frame are damaged, ReuseStream moves them to the end of the   *)
(* same buffer and ByteHandler feeds them again from there.                *)
(*                                                                         *)
(* Every call of StreamHandler is a step: FeedByte for a byte of the line, *)
(* ReplayByte for one of the end of the buffer.  The receive thread is     *)
(* alone with this state.                                                  *)
(***************************************************************************)
EXTENDS Integers, Sequences

CONSTANTS Byte,               \* the values of a byte
          Zero,               \* what memset leaves
          NoByte,             \* not a byte
          HEADER_LEN,         \* sizeof(Header)
          MAX_PACK_SIZE,      \* the size of recv_buff
          HeaderStands(_),    \* the test in VerifyHeader, of HEADER_LEN bytes
          LengthIn(_),        \* header_ptr->length, of at least HEADER_LEN bytes
          CRCTailCheck(_)     \* of a whole frame

ASSUME StreamAssumption == /\ HEADER_LEN \in Nat \ {0}
                           /\ MAX_PACK_SIZE \in Nat
                           /\ HEADER_LEN < MAX_PACK_SIZE
                           /\ Zero \in Byte
                           /\ NoByte \notin Byte

\* The length is a field of the header, and a header stands only with a length below
\* MAX_PACK_SIZE (one of the tests).
ASSUME HeaderAssumption ==
  \A n \in HEADER_LEN .. MAX_PACK_SIZE + 1 : \A s \in [1 .. n -> Byte] :
    /\ LengthIn(s) \in Nat
    /\ LengthIn(s) = LengthIn(SubSeq(s, 1, HEADER_LEN))
    /\ HeaderStands(SubSeq(s, 1, HEADER_LEN)) => LengthIn(s) < MAX_PACK_SIZE

VARIABLES recv_buff,          \* the buffer: the stream in front, bytes to replay at the end
          recv_index,         \* how many bytes the stream has
          reuse_index,        \* the first byte to replay; MAX_PACK_SIZE when there is none
          replaying,          \* ByteHandler is in its loop
          is_frame,           \* the result of the last StreamHandler
          held,               \* the byte at recv_buff_read_pos_ while Receive is not past it
          frame               \* what ContainerHandler was given last

vars == <<recv_buff, recv_index, reuse_index, replaying, is_frame, held, frame>>

Cell == 0 .. MAX_PACK_SIZE - 1

TypeOK == /\ recv_buff \in [Cell -> Byte]
          /\ recv_index \in 0 .. MAX_PACK_SIZE
          /\ reuse_index \in 0 .. MAX_PACK_SIZE
          /\ replaying \in BOOLEAN
          /\ is_frame \in BOOLEAN
          /\ held \in Byte \cup {NoByte}
          /\ frame \in Seq(Byte)

\* The first n bytes of a buffer, and those between two of its cells.
Stream(buff, n) == [i \in 1 .. n |-> buff[i - 1]]

Between(buff, from, to) == [i \in 1 .. to - from |-> buff[from + i - 1]]

\* memmove of n bytes.
Moved(buff, dest, src, n) ==
  [c \in Cell |-> IF c \in dest .. dest + n - 1 THEN buff[c - dest + src] ELSE buff[c]]

Cleared(buff, from, n) ==
  [c \in Cell |-> IF c \in from .. from + n - 1 THEN Zero ELSE buff[c]]

-----------------------------------------------------------------------------
Init == /\ recv_buff \in {[c \in Cell |-> Zero]}
        /\ recv_index = 0
        /\ reuse_index = MAX_PACK_SIZE
        /\ replaying = FALSE
        /\ is_frame = FALSE
        /\ held = NoByte
        /\ frame = << >>

\* Nothing stands in the stream yet, or a header stands and its frame is not complete.
\* The length is compared with =: a header that promises fewer bytes than a header has
\* waits until the buffer is full.
Incomplete(buff, n) ==
  \/ n < HEADER_LEN
  \/ n = HEADER_LEN /\ HeaderStands(Stream(buff, n)) /\ LengthIn(Stream(buff, n)) # HEADER_LEN
  \/ n > HEADER_LEN /\ LengthIn(Stream(buff, n)) # n

\* VerifyHeader fails.
NoHeader(buff, n) == n = HEADER_LEN /\ ~HeaderStands(Stream(buff, n))

\* VerifyHeader finds a frame of nothing but a header, or VerifyData a sound frame.
WholeFrame(buff, n) ==
  \/ n = HEADER_LEN /\ HeaderStands(Stream(buff, n)) /\ LengthIn(Stream(buff, n)) = n
  \/ n > HEADER_LEN /\ LengthIn(Stream(buff, n)) = n /\ CRCTailCheck(Stream(buff, n))

DamagedFrame(buff, n) ==
  n > HEADER_LEN /\ LengthIn(Stream(buff, n)) = n /\ ~CRCTailCheck(Stream(buff, n))

\* Keep the last HEADER_LEN - 1 bytes.
PrepareStream(buff, n, replay) ==
  LET bytes_to_move == HEADER_LEN - 1
      index_of_move == n - bytes_to_move
  IN  /\ recv_buff' = Cleared(Moved(buff, 0, index_of_move, bytes_to_move),
                              bytes_to_move, index_of_move)
      /\ recv_index' = bytes_to_move
      /\ reuse_index' = replay

ShiftStream(buff, n, replay) ==
  /\ recv_buff' = Moved(buff, 0, 1, n - 1)
  /\ recv_index' = n - 1
  /\ reuse_index' = replay

\* Mutant: the data go to the end of the buffer, whatever waits there already.
ReuseOverReplay(buff, n, replay) ==
  LET n_dest_index == MAX_PACK_SIZE - (n - HEADER_LEN)
  IN  /\ recv_buff' = Moved(Moved(buff, n_dest_index, HEADER_LEN, n - HEADER_LEN),
                            0, 1, HEADER_LEN - 1)
      /\ recv_index' = HEADER_LEN - 1
      /\ reuse_index' = n_dest_index

\* Mutant: the whole damaged frame is fed again, its first byte too.
ReuseAll(buff, n, replay) ==
  /\ recv_buff' = Moved(buff, replay - n, 0, n)
  /\ recv_index' = 0
  /\ reuse_index' = replay - n

\* Mutant: the header goes with the data and stays in the stream as well.
ReuseHeaderToo(buff, n, replay) ==
  /\ recv_buff' = Moved(Moved(buff, replay - n, 0, n), 0, 1, HEADER_LEN - 1)
  /\ recv_index' = HEADER_LEN - 1
  /\ reuse_index' = replay - n

\* The data in front of what is left to replay, the header one byte to the left.
ReuseStream(buff, n, replay) ==
  LET bytes_to_move == n - HEADER_LEN
      n_dest_index == replay - bytes_to_move
  IN  /\ recv_buff' = Moved(Moved(buff, n_dest_index, HEADER_LEN, bytes_to_move),
                            0, 1, HEADER_LEN - 1)
      /\ recv_index' = HEADER_LEN - 1
      /\ reuse_index' = n_dest_index

\* StreamHandler and CheckStream on byte b, with the replay beginning at cell replay;
\* what follows a damaged frame is the caller's.
Collect(buff, n, replay) == /\ Incomplete(buff, n)
                            /\ recv_buff' = buff
                            /\ recv_index' = n
                            /\ reuse_index' = replay
                            /\ is_frame' = FALSE
                            /\ UNCHANGED frame

Reject(buff, n, replay) == /\ NoHeader(buff, n)
                           /\ ShiftStream(buff, n, replay)
                           /\ is_frame' = FALSE
                           /\ UNCHANGED frame

\* ContainerHandler fills the container or, for an ack nobody waits for, says no.
Accept(buff, n, replay) == /\ WholeFrame(buff, n)
                           /\ frame' = Stream(buff, n)
                           /\ is_frame' \in BOOLEAN
                           /\ PrepareStream(buff, n, replay)

Reuse(buff, n, replay) == /\ DamagedFrame(buff, n)
                          /\ ReuseStream(buff, n, replay)
                          /\ is_frame' = FALSE
                          /\ UNCHANGED frame

\* Room for one more byte.
HasRoom == recv_index < MAX_PACK_SIZE

\* The buffer is full: the stream is thrown away and the byte with it.
Overflow(replay) == /\ ~HasRoom
                    /\ recv_buff' = Cleared(recv_buff, 0, recv_index)
                    /\ recv_index' = 0
                    /\ reuse_index' = replay
                    /\ is_frame' = FALSE
                    /\ UNCHANGED frame

\* Byte b at the end of the stream, and then the check.
Checked(b, Check(_, _, _), replay) ==
  /\ HasRoom
  /\ Check([recv_buff EXCEPT ![recv_index] = b], recv_index + 1, replay)

StreamHandler(b, replay) == \/ Checked(b, Collect, replay)
                            \/ Checked(b, Reject, replay)
                            \/ Checked(b, Accept, replay)
                            \/ Overflow(replay)

\* ByteHandler returns to Receive, which returns a frame without ++recv_buff_read_pos_:
\* the same byte is fed again by the next Receive.
ReturnToReceive(b) == /\ replaying' = FALSE
                      /\ held' = IF is_frame' THEN b ELSE NoByte

FeedByte(b) == /\ ~replaying
               /\ held \in {b, NoByte}
               /\ \/ StreamHandler(b, MAX_PACK_SIZE) /\ ReturnToReceive(b)
                  \/ /\ Checked(b, Reuse, MAX_PACK_SIZE)
                     /\ replaying' = TRUE
                     /\ held' = b

\* Mutant: the bytes that wait are not fed again in a loop but one per byte of the line.
ReplayOnce == /\ replaying
              /\ LET b == recv_buff[reuse_index]
                 IN  StreamHandler(b, reuse_index + 1) \/ Checked(b, Reuse, reuse_index + 1)
              /\ ReturnToReceive(held)

\* One turn of the loop of ByteHandler; is_frame is what the last turn says.
ReplayByte == /\ replaying
              /\ LET b == recv_buff[reuse_index]
                 IN  StreamHandler(b, reuse_index + 1) \/ Checked(b, Reuse, reuse_index + 1)
              /\ IF reuse_index' < MAX_PACK_SIZE
                 THEN UNCHANGED <<replaying, held>>
                 ELSE ReturnToReceive(held)

Next == ReplayByte \/ \E b \in Byte : FeedByte(b)

Spec == Init /\ [][Next]_vars

\* The receive thread runs on: ByteHandler does not block.
FairSpec == Spec /\ WF_vars(ReplayByte)

-----------------------------------------------------------------------------
\* The stream grows from the left, the bytes to replay wait on the right: protocol.h:350-371
\* draws them side by side in one buffer, and neither ever reaches into the other, however
\* often a replay is interrupted by the next damaged frame.
StreamFits == /\ recv_index <= reuse_index
              /\ replaying => recv_index < reuse_index /\ reuse_index < MAX_PACK_SIZE
              /\ ~replaying => reuse_index = MAX_PACK_SIZE

\* What the parser has not given up yet.
Pending == Stream(recv_buff, recv_index) \o Between(recv_buff, reuse_index, MAX_PACK_SIZE)

Scanner == INSTANCE FrameScanner WITH bytes <- Pending

\* Whatever is moved, cleared and fed again, the parser looks at every place of the line in
\* turn: no byte of a damaged frame is lost or seen twice, and the frame behind it is found.
ImplementsScanner == Scanner!Spec

\* When Receive waits for the line, everything that can be decided has been: a sound frame
\* never waits for the bytes that come after it.
NothingUndecided == ~replaying => Scanner!Undecided(Pending)

\* A replay that meets one damaged frame after the other goes back every time, and ends.
ReplayEnds == replaying ~> ~replaying
=============================================================================
