---------------------------- MODULE FrameScanner ----------------------------
(***************************************************************************)
(* What the stream parser of the SDK promises: the bytes of the line are   *)
(* looked at in their order and none is passed over.  A place where no     *)
(* header stands is given up byte by byte; so is one whose header stands   *)
(* but whose data are damaged; a sound frame is handed over once and takes *)
(* all its bytes with it but the last HEADER_LEN - 1.                      *)
(***************************************************************************)
EXTENDS Integers, Sequences

CONSTANTS Byte,               \* the values of a byte
          HEADER_LEN,         \* sizeof(Header)
          MAX_PACK_SIZE,      \* the size of the stream buffer
          HeaderStands(_),    \* is this sequence of HEADER_LEN bytes a header?
          LengthIn(_),        \* the length a header promises
          CRCTailCheck(_)     \* does the last part of this frame match the rest?

VARIABLES bytes,              \* arrived and not yet given up, oldest first
          frame               \* the frame handed over last

\* A header that stands before fewer bytes than a header has is believed until
\* the buffer overflows.
Undecided(s) == \/ Len(s) < HEADER_LEN
                \/ /\ HeaderStands(SubSeq(s, 1, HEADER_LEN))
                   /\ IF LengthIn(s) < HEADER_LEN THEN Len(s) <= MAX_PACK_SIZE
                                                  ELSE Len(s) < LengthIn(s)

\* No frame is just a header, but a header that says so is taken at its word.
Sound(s) == \/ LengthIn(s) = HEADER_LEN
            \/ LengthIn(s) > HEADER_LEN /\ CRCTailCheck(SubSeq(s, 1, LengthIn(s)))

GiveUpByte(s) == /\ \/ ~HeaderStands(SubSeq(s, 1, HEADER_LEN))
                    \/ LengthIn(s) > HEADER_LEN /\ ~Sound(s)
                 /\ bytes' = Tail(s)
                 /\ UNCHANGED frame

HandOver(s) == /\ HeaderStands(SubSeq(s, 1, HEADER_LEN))
               /\ Sound(s)
               /\ frame' = SubSeq(s, 1, LengthIn(s))
               /\ bytes' = SubSeq(s, LengthIn(s) - HEADER_LEN + 2, Len(s))

GiveUpAll(s) == /\ HeaderStands(SubSeq(s, 1, HEADER_LEN))
                /\ LengthIn(s) < HEADER_LEN
                /\ bytes' = << >>
                /\ UNCHANGED frame

Decide(s) == ~Undecided(s) /\ (GiveUpByte(s) \/ HandOver(s) \/ GiveUpAll(s))

Wait(s) == /\ Undecided(s)
           /\ bytes' = s
           /\ UNCHANGED frame

Init == bytes = << >> /\ frame = << >>

\* A byte arrives only when nothing is left to decide; it decides at most one place.
Arrive(b) == /\ Undecided(bytes)
             /\ Decide(Append(bytes, b)) \/ Wait(Append(bytes, b))

Next == Decide(bytes) \/ \E b \in Byte : Arrive(b)

Spec == Init /\ [][Next]_<<bytes, frame>>
=============================================================================
