----------------------------- MODULE PoolUsers -----------------------------
(***************************************************************************)
(* The memory pool under any sequence of the calls its users, the sessions *)
(* of Protocol, make: allocate a block and pack it, free a block.  Its     *)
(* callers hold memory_mutex_ around an allocation and the packing of the  *)
(* block, hence one action.  The names are the pool's own, so that the     *)
(* theorems about it can be cited beside Protocol.                         *)
(***************************************************************************)
EXTENDS MemoryPool

CONSTANTS Byte,             \* what a cell can hold
          Size              \* the sizes asked for

ASSUME SizeAssumption == Size \subseteq Nat \ {0}

VARIABLES shared,     \* the pool
          result      \* the answer of the last AllocMemory

PoolInit == /\ \E filler \in Byte : shared = EmptyPool(filler)
            /\ result = Null

Allocate(size, byte) ==
    LET a == AllocMemory(shared, size)
    IN  /\ result' = a.block
        /\ shared' = IF a.block = Null THEN a.pool ELSE Pack(a.pool, a.block, byte)

Free(block) == /\ shared.table[block].usage_flag
               /\ shared' = FreeMemory(shared, block)
               /\ UNCHANGED result

PoolNext == \/ \E size \in Size, byte \in Byte : Allocate(size, byte)
            \/ \E block \in Handle : Free(block)

PoolSpec == PoolInit /\ [][PoolNext]_<<shared, result>>

-----------------------------------------------------------------------------
BlockType == [usage_flag : BOOLEAN, memory_ptr : 0 .. memory_size, memory_size : 0 .. memory_size]

PoolTypeOK == /\ shared \in [table : [Slot -> BlockType], memory : [Cell -> Byte]]
              /\ result \in Handle \cup {Null}

\* No two blocks in use share a cell and none reaches past the memory,
\* whatever was freed, best-fitted and compressed before: a packet being
\* packed never writes over another session's packet (memory_pool.h AllocMemory).
BlocksDisjoint ==
    \A i, j \in UsedSlots(shared) :
        /\ BlockEnd(shared, i) <= memory_size
        /\ i # j => \/ BlockEnd(shared, i) <= shared.table[j].memory_ptr
                    \/ BlockEnd(shared, j) <= shared.table[i].memory_ptr

Store == INSTANCE BlockStore
         WITH blocks <- [h \in UsedSlots(shared) \cap Handle |-> Contents(shared, h)],
              used <- UsedMemory(shared),
              Memory <- memory_size, MaxBlock <- max_block_size

\* The pool behaves as a store of blocks: memmove keeps every packet intact
\* for its owner, and AllocMemory fails only when the cells or the entries
\* run out, however scattered the free memory is.
ImplementsStore == Store!Spec
=============================================================================
