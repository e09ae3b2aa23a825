--------------------------- MODULE MCStreamParser ---------------------------
(***************************************************************************)
(* StreamParser with few kinds of bytes.  0 is the start of a frame and a  *)
(* length too small for any; a header is 0 and a length, which a header of *)
(* three bytes repeats for its checksum; the last byte of a frame is the   *)
(* sum of the others.                                                      *)
(***************************************************************************)
EXTENDS StreamParser, SequencesExt

CONSTANT Lengths    \* the lengths a header can name, and all the bytes there are

ToyHeader(s) == s[1] = 0 /\ s[2] = s[HEADER_LEN]

ToyLength(s) == s[2]

\* A byte is what is nearest to the sum below it.
ToyTail(s) == LET sum == FoldLeft(LAMBDA x, y : x + y, 0, SubSeq(s, 2, Len(s) - 1))
              IN  s[Len(s)] = Max({b \in Lengths : b <= sum % MAX_PACK_SIZE})
=============================================================================
