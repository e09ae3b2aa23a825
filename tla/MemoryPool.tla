----------------------------- MODULE MemoryPool -----------------------------
(***************************************************************************)
(* roborts_sdk/utilities/memory_pool.h: the fixed memory in which every    *)
(* session keeps its packet.  A table of memory_table_num blocks points    *)
(* into memory_size cells; the first and the last entry are sentinels at   *)
(* the two ends of the memory and are never handed out.                    *)
(*                                                                         *)
(* The operators work on a pool as a value, a record of its table and its  *)
(* memory, so that Protocol can hold one.  Its callers hold memory_mutex_  *)
(* around an allocation and the packing of the block, hence one action.    *)
(***************************************************************************)
EXTENDS Integers, Sequences, FiniteSetsExt

CONSTANTS memory_table_num, \* entries of the table, sentinels included
          memory_size,      \* cells of the memory
          max_block_size    \* cells of the largest block

ASSUME PoolAssumption ==
    /\ memory_table_num \in Nat /\ memory_table_num > 2
    /\ memory_size \in Nat \ {0}
    /\ max_block_size \in Nat \ {0}

Slot   == 0 .. memory_table_num - 1
Handle == 1 .. memory_table_num - 2     \* entries that can be handed out
Null   == 0                             \* the null MemoryBlock pointer
Cell   == 0 .. memory_size - 1

Block(used, ptr, size) == [usage_flag |-> used, memory_ptr |-> ptr, memory_size |-> size]

\* Mutant: the end sentinel lies one cell past the memory.
EmptyPoolPastEnd(filler) ==
    [table  |-> [i \in Slot |->
                   IF i = 0 THEN Block(TRUE, 0, 0)
                   ELSE IF i = memory_table_num - 1 THEN Block(TRUE, memory_size + 1, 0)
                   ELSE Block(FALSE, 0, 0)],
     memory |-> [c \in Cell |-> filler]]

\* Init: only the sentinels are in use; the memory is new uint8_t[], filler
\* being whatever it holds.
EmptyPool(filler) ==
    [table  |-> [i \in Slot |->
                   IF i = 0 THEN Block(TRUE, 0, 0)
                   ELSE IF i = memory_table_num - 1 THEN Block(TRUE, memory_size, 0)
                   ELSE Block(FALSE, 0, 0)],
     memory |-> [c \in Cell |-> filler]]

UsedSlots(pool) == {i \in Slot : pool.table[i].usage_flag}

\* The sum of f over its domain, counted.
Total(f) == Cardinality(UNION {{i} \X (1 .. f[i]) : i \in DOMAIN f})

UsedMemory(pool) == Total([i \in UsedSlots(pool) |-> pool.table[i].memory_size])

BlockEnd(pool, i) == pool.table[i].memory_ptr + pool.table[i].memory_size

\* The bubble sort of AllocMemory: entries in use in the order of their
\* memory, an entry before a later one at the same address.
Before(pool, i, j) ==
    \/ pool.table[i].memory_ptr < pool.table[j].memory_ptr
    \/ /\ pool.table[i].memory_ptr = pool.table[j].memory_ptr
       /\ i < j

Place(pool, i) == 1 + Cardinality({j \in UsedSlots(pool) : Before(pool, j, i)})

MemoryOrder(pool) ==
    [k \in 1 .. Cardinality(UsedSlots(pool)) |->
       CHOOSE i \in UsedSlots(pool) : Place(pool, i) = k]

\* The free cells between the k-th block in memory order and the next.
Gap(pool, order, k) == pool.table[order[k + 1]].memory_ptr - BlockEnd(pool, order[k])

Gaps(order) == 1 .. Len(order) - 1

\* Mutant: a gap one cell too small will do.
BestFitTight(pool, order, size) ==
    LET fits == {k \in Gaps(order) : Gap(pool, order, k) >= size - 1}
    IN  IF fits = {} THEN 0
        ELSE CHOOSE k \in fits : \A m \in fits : Gap(pool, order, k) <= Gap(pool, order, m)

\* The first of the smallest gaps that hold size cells, 0 if none does.
BestFit(pool, order, size) ==
    LET fits == {k \in Gaps(order) : Gap(pool, order, k) >= size}
    IN  IF fits = {} THEN 0
        ELSE CHOOSE k \in fits : \A m \in fits :
               \/ Gap(pool, order, k) < Gap(pool, order, m)
               \/ Gap(pool, order, k) = Gap(pool, order, m) /\ k <= m

\* The first block at which the gaps so far add up to size cells.
GapsReach(pool, order, size) ==
    Min({k \in Gaps(order) : Total([m \in 1 .. k |-> Gap(pool, order, m)]) >= size})

\* Where the m-th block lies when those before it are pushed together.
NewPtr(pool, order, m) ==
    Total([n \in 1 .. m - 1 |-> pool.table[order[n]].memory_size])

\* Mutant: the table entries move and the contents stay behind.
CompressTableOnly(pool, order, k) ==
    [pool EXCEPT !.table =
       [i \in Slot |->
          IF \E m \in 2 .. k : order[m] = i
          THEN [pool.table[i] EXCEPT !.memory_ptr =
                  NewPtr(pool, order, CHOOSE m \in 2 .. k : order[m] = i)]
          ELSE pool.table[i]]]

\* Push the first k blocks together at the start of the memory: their table
\* entries move, and memmove carries their contents along.
Compress(pool, order, k) ==
    LET Moved     == 2 .. k
        Source(c) == {m \in Moved : /\ NewPtr(pool, order, m) <= c
                                    /\ c < NewPtr(pool, order, m + 1)}
    IN  [table  |-> [i \in Slot |->
                       IF \E m \in Moved : order[m] = i
                       THEN [pool.table[i] EXCEPT !.memory_ptr =
                               NewPtr(pool, order, CHOOSE m \in Moved : order[m] = i)]
                       ELSE pool.table[i]],
         memory |-> [c \in Cell |->
                       IF Source(c) = {} THEN pool.memory[c]
                       ELSE LET m == CHOOSE m \in Source(c) : TRUE
                            IN  pool.memory[pool.table[order[m]].memory_ptr
                                            + c - NewPtr(pool, order, m)]]]

\* Hand out the lowest free entry for size cells from ptr on, if there is one.
TakeEntry(pool, ptr, size) ==
    LET free == {i \in Handle : ~pool.table[i].usage_flag}
    IN  IF free = {} THEN [pool |-> pool, block |-> Null]
        ELSE [pool  |-> [pool EXCEPT !.table[Min(free)] = Block(TRUE, ptr, size)],
              block |-> Min(free)]

AllocMemory(pool, size) ==
    LET order == MemoryOrder(pool)
        fit   == BestFit(pool, order, size)
        last  == GapsReach(pool, order, size)
        tight == Compress(pool, order, last)
    IN  IF \/ size > max_block_size \/ size > memory_size
           \/ UsedMemory(pool) + size > memory_size
        THEN [pool |-> pool, block |-> Null]
        ELSE IF UsedMemory(pool) = 0
        THEN [pool |-> [pool EXCEPT !.table[1] = Block(TRUE, 0, size)], block |-> 1]
        ELSE IF fit # 0
        THEN TakeEntry(pool, BlockEnd(pool, order[fit]), size)
        ELSE TakeEntry(tight, BlockEnd(tight, order[last]), size)

FreeMemory(pool, block) ==
    IF block \in Handle THEN [pool EXCEPT !.table[block].usage_flag = FALSE]
    ELSE pool

\* What the owner of a block reads through memory_ptr.
Contents(pool, block) ==
    [i \in 1 .. pool.table[block].memory_size |->
       pool.memory[pool.table[block].memory_ptr + i - 1]]

\* The owner packs the whole block.
Pack(pool, block, byte) ==
    [pool EXCEPT !.memory = [c \in Cell |->
        IF pool.table[block].memory_ptr <= c /\ c < BlockEnd(pool, block)
        THEN byte ELSE pool.memory[c]]]
=============================================================================
