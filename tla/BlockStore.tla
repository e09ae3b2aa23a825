----------------------------- MODULE BlockStore -----------------------------
(***************************************************************************)
(* What the memory pool promises the sessions that pack their packets in   *)
(* it: blocks named by handles, each holding what its owner packed until   *)
(* the owner frees it; an allocation fails only for want of memory or of a *)
(* handle, never because the free memory is scattered.                     *)
(***************************************************************************)
EXTENDS Integers, FiniteSetsExt

CONSTANTS Byte,       \* what a cell of memory can hold
          Size,       \* the sizes asked for
          Handle,     \* the handles an allocation can return
          Null,       \* the answer of a failed allocation
          Memory,     \* cells in all
          MaxBlock    \* cells in one block at most

VARIABLES blocks,     \* handle in use -> its contents, cell by cell
          used,       \* cells in blocks
          result      \* the answer of the last allocation

InUse == DOMAIN blocks

Room(size) == /\ size <= MaxBlock
              /\ used + size <= Memory
              /\ InUse # Handle

Init == /\ blocks = << >>
        /\ used = 0
        /\ result = Null

\* The new block gets the lowest handle that is free; its owner fills it.
Allocate(size, byte) ==
    /\ Room(size)
    /\ result' = Min(Handle \ InUse)
    /\ blocks' = [h \in InUse \cup {result'} |->
                    IF h = result' THEN [i \in 1 .. size |-> byte] ELSE blocks[h]]
    /\ used' = used + size

Refuse(size) == /\ ~Room(size)
                /\ result' = Null
                /\ UNCHANGED <<blocks, used>>

Free(h) == /\ blocks' = [g \in InUse \ {h} |-> blocks[g]]
           /\ used' = used - Cardinality(DOMAIN blocks[h])
           /\ UNCHANGED result

Next == \/ \E size \in Size, byte \in Byte : Allocate(size, byte)
        \/ \E size \in Size : Refuse(size)
        \/ \E h \in InUse : Free(h)

Spec == Init /\ [][Next]_<<blocks, used, result>>
=============================================================================
