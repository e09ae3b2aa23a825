--------------------------- MODULE ProtocolProofs ---------------------------
(***************************************************************************)
(* Theorems about the memory pool (PoolUsers) and about the sessions of    *)
(* Protocol, the packets they keep in their pools and the commands of the  *)
(* devices, for every number of table entries and sessions, size of the    *)
(* memory, width of the sequence number and bound on requests and          *)
(* commands.                                                               *)
(*                                                                         *)
(* First the pool: blocks in use never overlap, and it implements          *)
(* BlockStore.  Its lemmas speak of a pool as a value, whatever its cells  *)
(* hold, so that the proofs about Protocol use them; the variables of      *)
(* PoolUsers, shared and result, play no part in those.                    *)
(*                                                                         *)
(* The sums of AllocMemory are cardinalities, and every one of them is     *)
(* shown to count cells of the memory: the used or the free ones below the *)
(* address of a block.  Compaction is then a matter of comparing sets.     *)
(***************************************************************************)
EXTENDS Protocol, PoolUsers, FiniteSetTheorems, SequenceTheorems, TLAPS

(* The lowest member that AllocMemory and AllocCMDSession look for exists.  *)
LEMMA MinInSet ==
    ASSUME NEW S \in SUBSET Nat, S # {}
    PROVE  Min(S) \in S /\ \A x \in S : Min(S) <= x
<1>1. PICK x \in S : \A y \in S : ~(<<y, x>> \in OpToRel(<, Nat))
  BY WFMin, NatLessThanWellFounded
<1>2. ASSUME NEW y \in S
      PROVE  x =< y
  <2>1. y < x => <<y, x>> \in {ss \in Nat \X Nat : ss[1] < ss[2]}
    OBVIOUS
  <2>2. OpToRel(<, Nat) = {ss \in Nat \X Nat : ss[1] < ss[2]}
    BY DEF OpToRel
  <2>3. ~(y < x)
    BY <1>1, <2>1, <2>2
  <2> QED
    BY <2>3
<1> QED
  BY <1>2 DEF Min

-----------------------------------------------------------------------------
(* Sums.                                                                    *)

Cells(f) == UNION {{i} \X (1 .. f[i]) : i \in DOMAIN f}

(* The sizes of disjoint intervals add up to the cells that they cover.     *)
LEMMA TotalCountsCells ==
    ASSUME NEW D, NEW f \in [D -> Nat], NEW start \in [D -> Int],
           NEW C, IsFiniteSet(C),
           \A i, j \in D : i # j => \/ start[i] + f[i] <= start[j]
                                    \/ start[j] + f[j] <= start[i],
           \A c : c \in C <=> /\ c \in Int
                              /\ \E i \in D : start[i] <= c /\ c < start[i] + f[i]
    PROVE  Total(f) = Cardinality(C)
<1> DEFINE g == [u \in Cells(f) |-> start[u[1]] + u[2] - 1]
<1>1. \A u \in Cells(f) : /\ u = <<u[1], u[2]>> /\ u[1] \in D /\ u[2] \in Int
                          /\ 1 <= u[2] /\ u[2] <= f[u[1]]
  BY DEF Cells
<1>2. \A i \in D, c \in Int : 1 <= c /\ c <= f[i] => <<i, c>> \in Cells(f)
  BY DEF Cells
<1>3. ASSUME NEW u \in Cells(f)
      PROVE  g[u] \in C
  <2>1. PICK s \in Int, n \in Nat, c \in Int : s = start[u[1]] /\ n = f[u[1]] /\ c = u[2]
    BY <1>1
  <2>2. s <= s + c - 1 /\ s + c - 1 < s + n /\ s + c - 1 \in Int
    BY <1>1, <2>1
  <2> QED
    BY <1>1, <2>1, <2>2
<1>4. ASSUME NEW u \in Cells(f), NEW w \in Cells(f), g[u] = g[w]
      PROVE  u = w
  <2>1. PICK s \in Int, n \in Nat, c \in Int : s = start[u[1]] /\ n = f[u[1]] /\ c = u[2]
    BY <1>1
  <2>2. PICK t \in Int, m \in Nat, d \in Int : t = start[w[1]] /\ m = f[w[1]] /\ d = w[2]
    BY <1>1
  <2>3. s + c - 1 = t + d - 1
    BY <1>4, <2>1, <2>2
  <2>4. 1 <= c /\ c <= n /\ 1 <= d /\ d <= m
    BY <1>1, <2>1, <2>2
  <2>5. CASE u[1] = w[1]
    <3>1. c = d
      BY <2>1, <2>2, <2>3, <2>5
    <3> QED
      BY <1>1, <2>1, <2>2, <2>5, <3>1
  <2>6. CASE u[1] # w[1]
    <3>1. s + n <= t \/ t + m <= s
      BY <1>1, <2>1, <2>2, <2>6
    <3> QED
      BY <2>3, <2>4, <3>1
  <2> QED
    BY <2>5, <2>6
<1>5. ASSUME NEW c \in C
      PROVE  \E u \in Cells(f) : g[u] = c
  <2>1. PICK i \in D : c \in Int /\ start[i] <= c /\ c < start[i] + f[i]
    OBVIOUS
  <2>2. PICK s \in Int, n \in Nat : s = start[i] /\ n = f[i]
    OBVIOUS
  <2>3. c - s + 1 \in Int /\ 1 <= c - s + 1 /\ c - s + 1 <= n /\ s + (c - s + 1) - 1 = c
    BY <2>1, <2>2
  <2>4. <<i, c - s + 1>> \in Cells(f)
    BY <1>2, <2>2, <2>3
  <2>5. g[<<i, c - s + 1>>] = s + (c - s + 1) - 1
    BY <2>2, <2>4
  <2> QED
    BY <2>3, <2>4, <2>5
<1> HIDE DEF g
<1>6. g \in [Cells(f) -> C]
  BY <1>3 DEF g
<1>7. g \in Injection(Cells(f), C) /\ g \in Surjection(Cells(f), C)
  BY <1>4, <1>5, <1>6 DEF Injection, IsInjective, Surjection
<1>8. Cardinality(Cells(f)) = Cardinality(C)
  BY <1>7, FS_Injection
<1> QED
  BY <1>8 DEF Total, Cells

(* A finite sum is a number, and grows by what is added to it.              *)
LEMMA CellsFinite ==
    ASSUME NEW D, IsFiniteSet(D), NEW f \in [D -> Nat]
    PROVE  IsFiniteSet(Cells(f)) /\ Total(f) \in Nat
<1> DEFINE S == {{i} \X (1 .. f[i]) : i \in D}
           g == [i \in D |-> {i} \X (1 .. f[i])]
<1>1. g \in Surjection(D, S)
  BY DEF Surjection
<1>2. IsFiniteSet(S)
  BY <1>1, FS_Surjection
<1>3. ASSUME NEW T \in S
      PROVE  IsFiniteSet(T)
  <2>1. PICK i \in D : T = {i} \X (1 .. f[i])
    OBVIOUS
  <2>2. IsFiniteSet({i})
    BY FS_Singleton
  <2>3. \A n \in Nat : IsFiniteSet(1 .. n)
    BY FS_Interval
  <2> QED
    BY <2>1, <2>2, <2>3, FS_Product
<1>4. IsFiniteSet(UNION S)
  BY <1>2, <1>3, FS_UNION
<1>5. Cells(f) = UNION S
  BY DEF Cells
<1> QED
  BY <1>4, <1>5, FS_CardinalityType DEF Total, Cells

LEMMA TotalGrows ==
    ASSUME NEW D, IsFiniteSet(D), NEW f \in [D -> Nat], NEW x, x \notin D, NEW n \in Nat,
           NEW g, g = [i \in D \cup {x} |-> IF i = x THEN n ELSE f[i]]
    PROVE  Total(g) = Total(f) + n
<1> DEFINE B == {x} \X (1 .. n)
<1>1. IsFiniteSet(Cells(f)) /\ Total(f) \in Nat
  BY CellsFinite
<1>2. IsFiniteSet(B) /\ Cardinality(B) = n
  <2>1. IsFiniteSet({x}) /\ Cardinality({x}) = 1
    BY FS_Singleton
  <2>2. IsFiniteSet(1 .. n) /\ Cardinality(1 .. n) = n
    BY FS_Interval
  <2>3. /\ IsFiniteSet(B)
        /\ Cardinality(B) = Cardinality({x}) * Cardinality(1 .. n)
    BY <2>1, <2>2, FS_Product
  <2> QED
    BY <2>1, <2>2, <2>3
<1>3. Cells(f) \cap B = {}
  BY DEF Cells
<1>4. Cells(g) = Cells(f) \cup B
  <2>1. ASSUME NEW u \in Cells(g)
        PROVE  u \in Cells(f) \cup B
    <3>1. PICK i \in D \cup {x} : u \in {i} \X (1 .. g[i])
      BY DEF Cells
    <3>2. CASE i = x
      BY <3>1, <3>2
    <3>3. CASE i # x
      BY <3>1, <3>3 DEF Cells
    <3> QED
      BY <3>2, <3>3
  <2>2. ASSUME NEW u \in Cells(f)
        PROVE  u \in Cells(g)
    BY DEF Cells
  <2>3. ASSUME NEW u \in B
        PROVE  u \in Cells(g)
    BY DEF Cells
  <2> QED
    BY <2>1, <2>2, <2>3
<1> HIDE DEF B
<1>5. Cardinality(Cells(f) \cup B) =
        Cardinality(Cells(f)) + Cardinality(B) - Cardinality(Cells(f) \cap B)
  BY <1>1, <1>2, FS_Union
<1>6. Cardinality({}) = 0
  BY FS_EmptySet
<1> QED
  <2>1. Total(f) = Cardinality(Cells(f)) /\ Total(g) = Cardinality(Cells(g))
    BY DEF Total, Cells
  <2>2. Cardinality(Cells(f) \cap B) = 0 /\ Cardinality(Cells(g)) = Cardinality(Cells(f) \cup B)
    BY <1>3, <1>4, <1>6
  <2> QED
    BY <1>1, <1>2, <1>5, <2>1, <2>2

-----------------------------------------------------------------------------
(* What holds of every pool its users can come to hold.  The strengthening  *)
(* of BlocksDisjoint is that blocks are never empty and that the entries    *)
(* that were freed still point into the memory.                             *)

PoolType(B) == [table : [Slot -> BlockType], memory : [Cell -> B]]

Apart(p, i, j) == \/ BlockEnd(p, i) <= p.table[j].memory_ptr
                  \/ BlockEnd(p, j) <= p.table[i].memory_ptr

EndSlot == memory_table_num - 1

Used(p, i) == p.table[i].usage_flag

MemorySound(p, B) ==
    /\ p \in PoolType(B)
    /\ p.table[0] = Block(TRUE, 0, 0)
    /\ p.table[EndSlot] = Block(TRUE, memory_size, 0)
    /\ \A h \in Handle : p.table[h].memory_ptr < memory_size
    /\ \A h \in Handle : Used(p, h) => /\ p.table[h].memory_size > 0
                                       /\ BlockEnd(p, h) <= memory_size
    /\ \A g, h \in Handle : Used(p, g) /\ Used(p, h) /\ g # h => Apart(p, g, h)

LEMMA Slots ==
    /\ Slot = Handle \cup {0, EndSlot} /\ EndSlot \in Nat /\ EndSlot > 1
    /\ 0 \notin Handle /\ EndSlot \notin Handle
    /\ Slot \in SUBSET Nat /\ IsFiniteSet(Slot)
    /\ memory_size \in Nat /\ memory_size > 0
    /\ Null \notin Handle /\ 1 \in Handle /\ Handle \in SUBSET Nat
<1>1. memory_table_num \in Nat /\ memory_table_num > 2 /\ memory_size \in Nat \ {0}
  BY PoolAssumption
<1>2. IsFiniteSet(Slot)
  BY <1>1, FS_Interval DEF Slot
<1> QED
  BY <1>1, <1>2 DEF Slot, Handle, EndSlot, Null

LEMMA EntryTypes ==
    ASSUME NEW p, NEW B, p \in PoolType(B), NEW i \in Slot
    PROVE  /\ p.table[i].usage_flag \in BOOLEAN
           /\ p.table[i].memory_ptr \in 0 .. memory_size
           /\ p.table[i].memory_size \in 0 .. memory_size
           /\ p.table[i].memory_ptr \in Nat /\ p.table[i].memory_size \in Nat
           /\ BlockEnd(p, i) \in Nat
<1>1. p.table[i] \in BlockType
  BY DEF PoolType
<1>2. /\ p.table[i].usage_flag \in BOOLEAN
      /\ p.table[i].memory_ptr \in 0 .. memory_size
      /\ p.table[i].memory_size \in 0 .. memory_size
  BY <1>1 DEF BlockType
<1> QED
  BY <1>2, Slots DEF BlockEnd

(* The sentinels are always in use.                                         *)
LEMMA UsedFinite ==
    ASSUME NEW p, NEW B, MemorySound(p, B)
    PROVE  /\ 0 \in UsedSlots(p) /\ EndSlot \in UsedSlots(p)
           /\ UsedSlots(p) \subseteq Slot
           /\ IsFiniteSet(UsedSlots(p))
           /\ Cardinality(UsedSlots(p)) \in Nat
<1>1. 0 \in UsedSlots(p) /\ EndSlot \in UsedSlots(p)
  BY Slots DEF MemorySound, UsedSlots, Block
<1>2. UsedSlots(p) \subseteq Slot
  BY DEF UsedSlots
<1> QED
  BY <1>1, <1>2, Slots, FS_Subset, FS_CardinalityType

(* Blocks in use, sentinels among them, do not overlap, and one that lies   *)
(* before another ends before it.                                           *)
LEMMA UsedApart ==
    ASSUME NEW p, NEW B, MemorySound(p, B), NEW i \in UsedSlots(p), NEW j \in UsedSlots(p)
    PROVE  /\ BlockEnd(p, i) <= memory_size
           /\ i # j => Apart(p, i, j)
           /\ Before(p, i, j) => BlockEnd(p, i) <= p.table[j].memory_ptr
<1> DEFINE a == p.table[i].memory_ptr
           m == p.table[i].memory_size
           b == p.table[j].memory_ptr
           n == p.table[j].memory_size
<1>1. i \in Slot /\ j \in Slot /\ Used(p, i) /\ Used(p, j)
  BY DEF UsedSlots, Used
<1>2. /\ a \in 0 .. memory_size /\ m \in 0 .. memory_size
      /\ b \in 0 .. memory_size /\ n \in 0 .. memory_size
  BY <1>1, EntryTypes DEF MemorySound
<1>3. BlockEnd(p, i) = a + m /\ BlockEnd(p, j) = b + n
  BY DEF BlockEnd
<1>4. /\ i = 0 => a = 0 /\ m = 0
      /\ j = 0 => b = 0 /\ n = 0
      /\ i = EndSlot => a = memory_size /\ m = 0
      /\ j = EndSlot => b = memory_size /\ n = 0
  BY DEF MemorySound, Block
<1>5. /\ i \in Handle => m > 0 /\ a + m <= memory_size
      /\ j \in Handle => n > 0 /\ b + n <= memory_size
      /\ i \in Handle /\ j \in Handle /\ i # j => a + m <= b \/ b + n <= a
  BY <1>1, <1>3 DEF MemorySound, Apart
<1>6. i \in Handle \cup {0, EndSlot} /\ j \in Handle \cup {0, EndSlot}
  BY <1>1, Slots
<1>7. Before(p, i, j) => a < b \/ (a = b /\ i < j)
  BY DEF Before
<1>8. Apart(p, i, j) <=> a + m <= b \/ b + n <= a
  BY <1>3 DEF Apart
<1>9. memory_size \in Nat /\ i \in Nat /\ j \in Nat /\ i <= EndSlot /\ j <= EndSlot
  BY <1>1, Slots, PoolAssumption DEF Slot, EndSlot
<1>13. b = p.table[j].memory_ptr
  OBVIOUS
<1> HIDE DEF a, b, m, n
<1>10. a + m <= memory_size /\ b + n <= memory_size
  BY <1>2, <1>4, <1>5, <1>6, <1>9
<1>11. i # j => a + m <= b \/ b + n <= a
  BY <1>2, <1>4, <1>5, <1>6, <1>9, <1>10
<1>12. a < b \/ (a = b /\ i < j) => a + m <= b
  <2>1. CASE j = 0
    BY <1>2, <1>4, <1>9, <2>1
  <2>2. CASE j = EndSlot
    BY <1>4, <1>10, <2>2
  <2>3. CASE j \in Handle
    <3>1. CASE i = 0
      BY <1>2, <1>4, <3>1
    <3>2. CASE i = EndSlot
      BY <1>2, <1>4, <1>5, <1>9, <2>3, <3>2
    <3>3. CASE i \in Handle /\ i # j
      BY <1>2, <1>5, <1>9, <2>3, <3>3
    <3>4. CASE i = j
      <4>1. ~(i < j) /\ a = b
        BY <1>9, <3>4 DEF a, b
      <4> QED
        BY <1>2, <4>1
    <3> QED
      BY <1>6, <3>1, <3>2, <3>3, <3>4
  <2> QED
    BY <1>6, <2>1, <2>2, <2>3
<1> QED
  BY <1>3, <1>7, <1>8, <1>10, <1>11, <1>12, <1>13

-----------------------------------------------------------------------------
(* The order of the blocks in memory.                                       *)

LEMMA BeforeIsOrder ==
    ASSUME NEW p, NEW B, MemorySound(p, B)
    PROVE  \A i, j, k \in UsedSlots(p) :
              /\ ~Before(p, i, i)
              /\ i # j => Before(p, i, j) \/ Before(p, j, i)
              /\ Before(p, i, j) /\ Before(p, j, k) => Before(p, i, k)
<1>1. \A i \in UsedSlots(p) : i \in Nat /\ p.table[i].memory_ptr \in Nat
  BY UsedFinite, EntryTypes, Slots DEF MemorySound
<1> QED
  BY <1>1 DEF Before

LEMMA PlacesDiffer ==
    ASSUME NEW p, NEW B, MemorySound(p, B)
    PROVE  /\ \A i \in UsedSlots(p) : Place(p, i) \in 1 .. Cardinality(UsedSlots(p))
           /\ \A i, j \in UsedSlots(p) : Before(p, i, j) => Place(p, i) < Place(p, j)
<1> DEFINE U == UsedSlots(p)
           First(i) == {j \in U : Before(p, j, i)}
<1>1. IsFiniteSet(U) /\ Cardinality(U) \in Nat
  BY UsedFinite
<1>2. \A i \in U : Place(p, i) = 1 + Cardinality(First(i))
  BY DEF Place
<1>3. \A i \in U : IsFiniteSet(First(i)) /\ Cardinality(First(i)) \in Nat
  BY <1>1, FS_Subset, FS_CardinalityType
<1>4. ASSUME NEW i \in U
      PROVE  Cardinality(First(i)) <= Cardinality(U) - 1
  <2>1. First(i) \in SUBSET (U \ {i})
    BY BeforeIsOrder
  <2>2. IsFiniteSet(U \ {i}) /\ Cardinality(U \ {i}) = Cardinality(U) - 1
    BY <1>1, FS_RemoveElement
  <2> HIDE DEF First
  <2> QED
    BY <2>1, <2>2, FS_Subset
<1>5. ASSUME NEW i \in U, NEW j \in U, Before(p, i, j)
      PROVE  Cardinality(First(i)) < Cardinality(First(j))
  <2>1. First(i) \in SUBSET (First(j) \ {i})
    BY <1>5, BeforeIsOrder
  <2>2. i \in First(j)
    BY <1>5
  <2> HIDE DEF First
  <2>3. IsFiniteSet(First(j) \ {i}) /\ Cardinality(First(j) \ {i}) = Cardinality(First(j)) - 1
    BY <1>3, <2>2, FS_RemoveElement
  <2>4. Cardinality(First(i)) <= Cardinality(First(j) \ {i})
    BY <2>1, <2>3, FS_Subset
  <2> QED
    BY <1>3, <2>3, <2>4
<1> HIDE DEF First
<1>6. ASSUME NEW i \in U
      PROVE  Place(p, i) \in 1 .. Cardinality(U)
  BY <1>1, <1>2, <1>3, <1>4
<1>7. ASSUME NEW i \in U, NEW j \in U, Before(p, i, j)
      PROVE  Place(p, i) < Place(p, j)
  BY <1>2, <1>3, <1>5, <1>7
<1> QED
  BY <1>6, <1>7

Sorted(p, o, n) ==
    /\ n \in Nat /\ n > 1 /\ Len(o) = n
    /\ o \in [1 .. n -> UsedSlots(p)]
    /\ \A i \in UsedSlots(p) : \E k \in 1 .. n : o[k] = i
    /\ \A j, k \in 1 .. n : j # k => o[j] # o[k]
    /\ \A j, k \in 1 .. n : j < k => BlockEnd(p, o[j]) <= p.table[o[k]].memory_ptr
    /\ o[1] = 0 /\ o[n] = EndSlot

(* MemoryOrder lists every block in use once, in the order of the memory:   *)
(* the bubble sort sorts.                                                   *)
LEMMA OrderSorted ==
    ASSUME NEW p, NEW B, MemorySound(p, B),
           NEW o, o = MemoryOrder(p), NEW n, n = Cardinality(UsedSlots(p))
    PROVE  Sorted(p, o, n)
<1> DEFINE U == UsedSlots(p)
           f == [i \in U |-> Place(p, i)]
<1>1. IsFiniteSet(U) /\ n \in Nat /\ U \subseteq Slot /\ 0 \in U /\ EndSlot \in U
  BY UsedFinite
<1>2. \A i \in U : f[i] \in 1 .. n /\ f[i] = Place(p, i)
  BY PlacesDiffer
<1>3. \A i, j \in U : i # j => f[i] # f[j]
  BY <1>2, PlacesDiffer, BeforeIsOrder
<1>4. f \in Injection(U, 1 .. n)
  <2>1. f \in [U -> 1 .. n]
    BY <1>2
  <2> QED
    BY <1>3, <2>1 DEF Injection, IsInjective
<1>5. IsFiniteSet(1 .. n) /\ Cardinality(1 .. n) = n
  BY <1>1, FS_Interval
<1>6. f \in Surjection(U, 1 .. n)
  BY <1>1, <1>4, <1>5, FS_Injection
<1> HIDE DEF f
<1>7. \A k \in 1 .. n : \E i \in U : Place(p, i) = k
  BY <1>2, <1>6 DEF Surjection
<1>8. o = [k \in 1 .. n |-> CHOOSE i \in U : Place(p, i) = k]
  BY DEF MemoryOrder
<1>9. \A k \in 1 .. n : o[k] \in U /\ Place(p, o[k]) = k
  BY <1>7, <1>8
<1>10. o \in [1 .. n -> U]
  BY <1>8, <1>9
<1>11. Len(o) = n
  BY <1>1, <1>8
<1>12. \A i \in U : \E k \in 1 .. n : o[k] = i
  BY <1>2, <1>3, <1>9
<1>13. \A j, k \in 1 .. n : j # k => o[j] # o[k]
  BY <1>9
<1>14. ASSUME NEW j \in 1 .. n, NEW k \in 1 .. n, j < k
       PROVE  Before(p, o[j], o[k])
  <2>1. o[j] # o[k] /\ o[j] \in U /\ o[k] \in U
    BY <1>9, <1>14
  <2>2. ~Before(p, o[k], o[j])
    BY <1>9, <1>14, <2>1, PlacesDiffer
  <2> QED
    BY <2>1, <2>2, BeforeIsOrder
<1>15. PICK a \in 1 .. n, b \in 1 .. n : o[a] = 0 /\ o[b] = EndSlot
  BY <1>1, <1>12
<1>16. n > 1
  BY <1>1, <1>15, Slots
<1>17. /\ \A i \in U : i \in Nat /\ i <= EndSlot /\ p.table[i].memory_ptr \in 0 .. memory_size
       /\ p.table[0].memory_ptr = 0 /\ p.table[EndSlot].memory_ptr = memory_size
  BY <1>1, EntryTypes, PoolAssumption DEF MemorySound, Block, Slot, EndSlot
<1>18. a = 1
  <2>1. ~Before(p, o[1], 0)
    <3>1. o[1] \in Nat /\ p.table[o[1]].memory_ptr \in 0 .. memory_size
      BY <1>1, <1>9, <1>16, <1>17
    <3> QED
      BY <1>17, <3>1, Slots DEF Before
  <2> QED
    BY <1>1, <1>14, <1>15, <2>1
<1>19. b = n
  <2>1. ~Before(p, EndSlot, o[n])
    <3>1. /\ o[n] \in Nat /\ o[n] <= EndSlot
          /\ p.table[o[n]].memory_ptr \in 0 .. memory_size
      BY <1>1, <1>9, <1>16, <1>17
    <3> QED
      BY <1>17, <3>1, Slots DEF Before
  <2> QED
    BY <1>1, <1>14, <1>15, <1>16, <2>1
<1> QED
  <2>1. \A j, k \in 1 .. n : j < k => BlockEnd(p, o[j]) <= p.table[o[k]].memory_ptr
    BY <1>9, <1>14, UsedApart
  <2> QED
    BY <1>1, <1>10, <1>11, <1>12, <1>13, <1>15, <1>16, <1>18, <1>19, <2>1 DEF Sorted

-----------------------------------------------------------------------------
(* The sums of AllocMemory, in cells.                                       *)

LEMMA Positions ==
    ASSUME NEW p, NEW B, MemorySound(p, B), NEW o, NEW n, Sorted(p, o, n),
           NEW k \in 1 .. n
    PROVE  /\ o[k] \in Slot
           /\ p.table[o[k]].memory_ptr \in 0 .. memory_size
           /\ p.table[o[k]].memory_ptr \in Nat
           /\ p.table[o[k]].memory_size \in Nat
           /\ BlockEnd(p, o[k]) \in Nat
           /\ BlockEnd(p, o[k]) = p.table[o[k]].memory_ptr + p.table[o[k]].memory_size
           /\ \A j \in 1 .. k : p.table[o[j]].memory_ptr <= p.table[o[k]].memory_ptr
           /\ p.table[o[1]].memory_ptr = 0 /\ p.table[o[n]].memory_ptr = memory_size
<1>1. \A j \in 1 .. n : /\ o[j] \in Slot
                        /\ p.table[o[j]].memory_ptr \in 0 .. memory_size
                        /\ p.table[o[j]].memory_ptr \in Nat
                        /\ p.table[o[j]].memory_size \in Nat
                        /\ BlockEnd(p, o[j]) \in Nat
                        /\ BlockEnd(p, o[j]) = p.table[o[j]].memory_ptr + p.table[o[j]].memory_size
  BY UsedFinite, EntryTypes DEF Sorted, MemorySound, BlockEnd
<1>2. ASSUME NEW j \in 1 .. k
      PROVE  p.table[o[j]].memory_ptr <= p.table[o[k]].memory_ptr
  <2>1. j \in 1 .. n /\ n \in Nat
    BY DEF Sorted
  <2>2. CASE j = k
    BY <1>1, <2>2
  <2>3. CASE j < k
    <3>1. BlockEnd(p, o[j]) <= p.table[o[k]].memory_ptr
      BY <2>1, <2>3 DEF Sorted
    <3> QED
      BY <1>1, <2>1, <3>1
  <2> QED
    BY <2>1, <2>2, <2>3
<1> QED
  BY <1>1, <1>2 DEF Sorted, MemorySound, Block

UsedBelow(p, b) ==
    {c \in 0 .. b - 1 : \E i \in UsedSlots(p) : p.table[i].memory_ptr <= c /\ c < BlockEnd(p, i)}

LEMMA UsedBelowFinite ==
    ASSUME NEW p, NEW b \in Nat
    PROVE  /\ IsFiniteSet(UsedBelow(p, b)) /\ Cardinality(UsedBelow(p, b)) \in Nat
           /\ Cardinality(UsedBelow(p, b)) <= b
           /\ IsFiniteSet((0 .. b - 1) \ UsedBelow(p, b))
           /\ Cardinality((0 .. b - 1) \ UsedBelow(p, b)) = b - Cardinality(UsedBelow(p, b))
<1> DEFINE S == 0 .. b - 1
<1>1. IsFiniteSet(S) /\ Cardinality(S) = b
  <2>1. IsFiniteSet(S) /\ Cardinality(S) = IF 0 > b - 1 THEN 0 ELSE b - 1 - 0 + 1
    BY FS_Interval
  <2> QED
    BY <2>1
<1>2. UsedBelow(p, b) \in SUBSET S /\ S \cap UsedBelow(p, b) = UsedBelow(p, b)
  BY DEF UsedBelow
<1> HIDE DEF S
<1>3. IsFiniteSet(UsedBelow(p, b)) /\ Cardinality(UsedBelow(p, b)) <= b
  BY <1>1, <1>2, FS_Subset
<1>4. /\ IsFiniteSet(S \ UsedBelow(p, b))
      /\ Cardinality(S \ UsedBelow(p, b)) = Cardinality(S) - Cardinality(S \cap UsedBelow(p, b))
  BY <1>1, FS_Difference
<1> QED
  BY <1>1, <1>2, <1>3, <1>4, FS_CardinalityType DEF S

LEMMA UsedMemoryCounts ==
    ASSUME NEW p, NEW B, MemorySound(p, B)
    PROVE  /\ UsedMemory(p) = Cardinality(UsedBelow(p, memory_size))
           /\ UsedMemory(p) \in Nat
<1> DEFINE D == UsedSlots(p)
           f == [i \in D |-> p.table[i].memory_size]
           start == [i \in D |-> p.table[i].memory_ptr]
           C == UsedBelow(p, memory_size)
<1>1. \A i \in D : /\ i \in Slot
                   /\ p.table[i].memory_ptr \in Nat /\ p.table[i].memory_size \in Nat
                   /\ BlockEnd(p, i) = p.table[i].memory_ptr + p.table[i].memory_size
  BY UsedFinite, EntryTypes DEF MemorySound, BlockEnd
<1>2. f \in [D -> Nat] /\ start \in [D -> Int]
  BY <1>1
<1>3. IsFiniteSet(C)
  BY UsedBelowFinite, Slots
<1>4. \A i, j \in D : i # j => \/ start[i] + f[i] <= start[j]
                               \/ start[j] + f[j] <= start[i]
  BY <1>1, UsedApart DEF Apart
<1>5. ASSUME NEW c
      PROVE  c \in C <=> c \in Int /\ \E i \in D : start[i] <= c /\ c < start[i] + f[i]
  <2>1. ASSUME c \in Int, NEW i \in D, start[i] <= c, c < start[i] + f[i]
        PROVE  c \in C
    <3>1. /\ p.table[i].memory_ptr \in Nat /\ p.table[i].memory_ptr <= c /\ c < BlockEnd(p, i)
          /\ BlockEnd(p, i) \in Nat /\ BlockEnd(p, i) <= memory_size
      BY <1>1, <2>1, UsedApart
    <3>2. c \in 0 .. memory_size - 1
      BY <2>1, <3>1, Slots
    <3> QED
      BY <3>1, <3>2 DEF UsedBelow
  <2>2. ASSUME c \in C
        PROVE  c \in Int /\ \E i \in D : start[i] <= c /\ c < start[i] + f[i]
    BY <1>1, <2>2 DEF UsedBelow
  <2> QED
    BY <2>1, <2>2
<1> HIDE DEF f, start, C, D
<1>6. Total(f) = Cardinality(C)
  BY <1>2, <1>3, <1>4, <1>5, TotalCountsCells
<1> QED
  BY <1>3, <1>6, FS_CardinalityType DEF f, C, D, UsedMemory

(* Where a block lies after the blocks before it were pushed together: as   *)
(* far in as there are used cells below it.                                 *)
LEMMA NewPtrCounts ==
    ASSUME NEW p, NEW B, MemorySound(p, B), NEW o, NEW n, Sorted(p, o, n),
           NEW k \in 1 .. n
    PROVE  /\ NewPtr(p, o, k) = Cardinality(UsedBelow(p, p.table[o[k]].memory_ptr))
           /\ NewPtr(p, o, k) \in Nat
           /\ NewPtr(p, o, k) <= p.table[o[k]].memory_ptr
<1> DEFINE D == 1 .. k - 1
           f == [m \in D |-> p.table[o[m]].memory_size]
           start == [m \in D |-> p.table[o[m]].memory_ptr]
           b == p.table[o[k]].memory_ptr
           C == UsedBelow(p, b)
<1>1. n \in Nat /\ D \subseteq 1 .. n /\ \A m \in D : m < k
  BY DEF Sorted
<1>2. \A m \in 1 .. n : /\ p.table[o[m]].memory_ptr \in Nat /\ p.table[o[m]].memory_size \in Nat
                        /\ BlockEnd(p, o[m]) = p.table[o[m]].memory_ptr + p.table[o[m]].memory_size
                        /\ BlockEnd(p, o[m]) \in Nat
  BY Positions
<1>3. f \in [D -> Nat] /\ start \in [D -> Int] /\ b \in Nat
  BY <1>1, <1>2
<1>4. IsFiniteSet(C) /\ Cardinality(C) \in Nat /\ Cardinality(C) <= b
  BY <1>3, UsedBelowFinite
<1>5. \A i, j \in D : i # j => \/ start[i] + f[i] <= start[j]
                               \/ start[j] + f[j] <= start[i]
  <2>1. ASSUME NEW i \in D, NEW j \in D, i < j
        PROVE  start[i] + f[i] <= start[j]
    <3>1. i \in 1 .. n /\ j \in 1 .. n
      BY <1>1
    <3>2. BlockEnd(p, o[i]) <= p.table[o[j]].memory_ptr
      BY <2>1, <3>1 DEF Sorted
    <3>3. BlockEnd(p, o[i]) = p.table[o[i]].memory_ptr + p.table[o[i]].memory_size
      BY <1>2, <3>1
    <3> QED
      BY <3>2, <3>3
  <2> QED
    BY <1>1, <2>1
<1>6. ASSUME NEW c
      PROVE  c \in C <=> c \in Int /\ \E m \in D : start[m] <= c /\ c < start[m] + f[m]
  <2>1. ASSUME c \in Int, NEW m \in D, start[m] <= c, c < start[m] + f[m]
        PROVE  c \in C
    <3>1. /\ p.table[o[m]].memory_ptr \in Nat /\ p.table[o[m]].memory_ptr <= c
          /\ c < BlockEnd(p, o[m]) /\ BlockEnd(p, o[m]) \in Nat
      BY <1>1, <1>2, <2>1
    <3>2. BlockEnd(p, o[m]) <= b /\ o[m] \in UsedSlots(p)
      BY <1>1 DEF Sorted
    <3>3. c \in 0 .. b - 1
      BY <1>3, <2>1, <3>1, <3>2
    <3> QED
      BY <3>1, <3>2, <3>3 DEF UsedBelow
  <2>2. ASSUME c \in C
        PROVE  c \in Int /\ \E m \in D : start[m] <= c /\ c < start[m] + f[m]
    <3>1. PICK i \in UsedSlots(p) : p.table[i].memory_ptr <= c /\ c < BlockEnd(p, i)
      BY <2>2 DEF UsedBelow
    <3>2. PICK m \in 1 .. n : o[m] = i
      BY DEF Sorted
    <3>3. c \in Int /\ c < b
      BY <1>3, <2>2 DEF UsedBelow
    <3>4. ~(k <= m)
      <4>1. ASSUME k <= m
            PROVE  b <= p.table[o[m]].memory_ptr
        <5>1. k \in 1 .. m
          BY <1>1, <4>1
        <5> QED
          BY <5>1, Positions
      <4> QED
        BY <1>2, <1>3, <3>1, <3>2, <3>3, <4>1
    <3>5. m \in D
      BY <1>1, <3>4
    <3> QED
      BY <1>2, <3>1, <3>2, <3>3, <3>5
  <2> QED
    BY <2>1, <2>2
<1>7. NewPtr(p, o, k) = Total(f)
  BY DEF NewPtr
<1>8. b = p.table[o[k]].memory_ptr
  OBVIOUS
<1> HIDE DEF f, start, C, D, b
<1>9. Total(f) = Cardinality(C)
  BY <1>3, <1>4, <1>5, <1>6, TotalCountsCells
<1> QED
  BY <1>4, <1>7, <1>8, <1>9 DEF C

LEMMA NewPtrSteps ==
    ASSUME NEW p, NEW B, MemorySound(p, B), NEW o, NEW n, Sorted(p, o, n)
    PROVE  /\ NewPtr(p, o, 1) = 0
           /\ \A m \in 1 .. n - 1 : NewPtr(p, o, m + 1) = NewPtr(p, o, m) + p.table[o[m]].memory_size
           /\ \A j, k \in 1 .. n : j <= k => NewPtr(p, o, j) <= NewPtr(p, o, k)
<1>1. n \in Nat /\ n > 1
  BY DEF Sorted
<1>2. NewPtr(p, o, 1) = 0
  <2>1. 1 \in 1 .. n
    BY <1>1
  <2>2. p.table[o[1]].memory_ptr = 0
    BY <2>1, Positions
  <2> QED
    BY <2>1, <2>2, NewPtrCounts
<1>3. ASSUME NEW m \in 1 .. n - 1
      PROVE  NewPtr(p, o, m + 1) = NewPtr(p, o, m) + p.table[o[m]].memory_size
  <2> DEFINE D == 1 .. m - 1
             f == [i \in D |-> p.table[o[i]].memory_size]
             s == p.table[o[m]].memory_size
             g == [i \in D \cup {m} |-> IF i = m THEN s ELSE f[i]]
  <2>1. \A i \in 1 .. n : p.table[o[i]].memory_size \in Nat
    BY Positions
  <2>2. m \in 1 .. n /\ D \subseteq 1 .. n /\ D \cup {m} = 1 .. m
    BY <1>1
  <2>11. m \notin D
    OBVIOUS
  <2>3. f \in [D -> Nat] /\ s \in Nat
    BY <2>1, <2>2
  <2>10. IsFiniteSet(D)
    <3>1. m - 1 \in Int
      OBVIOUS
    <3> QED
      BY <3>1, FS_Interval
  <2>4. g = [i \in 1 .. m |-> p.table[o[i]].memory_size]
    BY <2>2
  <2>5. m = (m + 1) - 1
    OBVIOUS
  <2>6. NewPtr(p, o, m + 1) = Total(g)
    BY <2>4, <2>5 DEF NewPtr
  <2>7. NewPtr(p, o, m) = Total(f) /\ s = p.table[o[m]].memory_size
    BY DEF NewPtr
  <2>8. g = [i \in D \cup {m} |-> IF i = m THEN s ELSE f[i]]
    OBVIOUS
  <2> HIDE DEF D, f, s, g
  <2>9. Total(g) = Total(f) + s
    BY <2>3, <2>8, <2>10, <2>11, TotalGrows
  <2> QED
    BY <2>6, <2>7, <2>9
<1>4. ASSUME NEW j \in 1 .. n, NEW k \in 1 .. n, j <= k
      PROVE  NewPtr(p, o, j) <= NewPtr(p, o, k)
  <2> DEFINE a == p.table[o[j]].memory_ptr
             b == p.table[o[k]].memory_ptr
  <2>1. j \in 1 .. k
    BY <1>4
  <2>2. a \in Nat /\ b \in Nat /\ a <= b
    BY <2>1, Positions
  <2>3. UsedBelow(p, a) \in SUBSET UsedBelow(p, b)
    BY <2>2 DEF UsedBelow
  <2>4. IsFiniteSet(UsedBelow(p, b))
    BY <2>2, UsedBelowFinite
  <2>5. Cardinality(UsedBelow(p, a)) <= Cardinality(UsedBelow(p, b))
    BY <2>3, <2>4, FS_Subset
  <2> QED
    BY <2>5, NewPtrCounts
<1> QED
  BY <1>2, <1>3, <1>4

(* Below a block lie the blocks before it and the gaps before it.           *)
LEMMA GapsCount ==
    ASSUME NEW p, NEW B, MemorySound(p, B), NEW o, NEW n, Sorted(p, o, n),
           NEW k \in 1 .. n - 1
    PROVE  LET gaps == Total([m \in 1 .. k |-> Gap(p, o, m)])
           IN  gaps \in Nat /\ NewPtr(p, o, k + 1) + gaps = p.table[o[k + 1]].memory_ptr
<1> DEFINE D == 1 .. k
           f == [m \in D |-> Gap(p, o, m)]
           start == [m \in D |-> BlockEnd(p, o[m])]
           b == p.table[o[k + 1]].memory_ptr
           C == (0 .. b - 1) \ UsedBelow(p, b)
<1>1. n \in Nat /\ k + 1 \in 1 .. n /\ k + 1 \in Nat
  BY DEF Sorted
<1>2. \A m \in 1 .. n : /\ p.table[o[m]].memory_ptr \in Nat /\ p.table[o[m]].memory_size \in Nat
                        /\ BlockEnd(p, o[m]) = p.table[o[m]].memory_ptr + p.table[o[m]].memory_size
                        /\ BlockEnd(p, o[m]) \in Nat
  BY Positions
<1>14. \A m \in 1 .. n : /\ p.table[o[m]].memory_ptr <= BlockEnd(p, o[m])
                         /\ o[m] \in UsedSlots(p)
  <2>1. \A m \in 1 .. n : o[m] \in UsedSlots(p)
    BY DEF Sorted
  <2> QED
    BY <1>2, <2>1
<1>3. \A m \in D : /\ m \in 1 .. n /\ m + 1 \in 1 .. n /\ m \in Nat
                   /\ BlockEnd(p, o[m]) <= p.table[o[m + 1]].memory_ptr
                   /\ Gap(p, o, m) = p.table[o[m + 1]].memory_ptr - BlockEnd(p, o[m])
  <2>1. \A m \in D : m \in 1 .. n /\ m + 1 \in 1 .. n /\ m \in Nat /\ m < m + 1
    BY <1>1
  <2> QED
    BY <2>1 DEF Sorted, Gap
<1>4. \A m \in D : /\ f[m] \in Nat /\ start[m] \in Int
                   /\ start[m] = BlockEnd(p, o[m])
                   /\ start[m] + f[m] = p.table[o[m + 1]].memory_ptr
  BY <1>2, <1>3
<1>5. f \in [D -> Nat] /\ start \in [D -> Int]
  BY <1>4
<1>6. b \in Nat
  BY <1>1, <1>2
<1>7. /\ IsFiniteSet(C)
      /\ Cardinality(C) = b - NewPtr(p, o, k + 1)
      /\ NewPtr(p, o, k + 1) \in Nat /\ NewPtr(p, o, k + 1) <= b
  BY <1>1, <1>6, UsedBelowFinite, NewPtrCounts
<1>8. \A i, j \in 1 .. n : i <= j => p.table[o[i]].memory_ptr <= p.table[o[j]].memory_ptr
  <2>1. ASSUME NEW i \in 1 .. n, NEW j \in 1 .. n, i <= j
        PROVE  p.table[o[i]].memory_ptr <= p.table[o[j]].memory_ptr
    <3>1. i \in 1 .. j
      BY <2>1
    <3> QED
      BY <3>1, Positions
  <2> QED
    BY <2>1
<1>9. \A i, j \in D : i # j => \/ start[i] + f[i] <= start[j]
                               \/ start[j] + f[j] <= start[i]
  <2>1. ASSUME NEW i \in D, NEW j \in D, i < j
        PROVE  start[i] + f[i] <= start[j]
    <3>1. i + 1 <= j
      BY <2>1
    <3>2. p.table[o[i + 1]].memory_ptr <= p.table[o[j]].memory_ptr
      BY <1>3, <1>8, <3>1
    <3>3. start[i] + f[i] = p.table[o[i + 1]].memory_ptr /\ start[j] = BlockEnd(p, o[j])
      BY <1>4
    <3>4. i + 1 \in 1 .. n /\ j \in 1 .. n
      BY <1>3
    <3> QED
      BY <1>2, <1>14, <3>2, <3>3, <3>4
  <2> QED
    BY <1>3, <2>1
<1>10. ASSUME NEW c
       PROVE  c \in C <=> c \in Int /\ \E m \in D : start[m] <= c /\ c < start[m] + f[m]
  <2>1. ASSUME c \in Int, NEW m \in D, start[m] <= c, c < start[m] + f[m]
        PROVE  c \in C
    <3>1. BlockEnd(p, o[m]) <= c /\ c < p.table[o[m + 1]].memory_ptr
      BY <1>4, <2>1
    <3>2. p.table[o[m + 1]].memory_ptr <= b
      BY <1>1, <1>3, <1>8
    <3>3. c \in 0 .. b - 1
      BY <1>2, <1>3, <1>6, <2>1, <3>1, <3>2
    <3>4. ASSUME NEW i \in UsedSlots(p), p.table[i].memory_ptr <= c, c < BlockEnd(p, i)
          PROVE  FALSE
      <4>1. PICK q \in 1 .. n : o[q] = i
        BY DEF Sorted
      <4>2. q \in Nat /\ m \in Nat
        BY <1>3
      <4>3. CASE q = m
        BY <1>2, <1>3, <2>1, <3>1, <3>4, <4>1, <4>3
      <4>4. CASE q < m
        <5>1. BlockEnd(p, o[q]) <= p.table[o[m]].memory_ptr
          BY <1>3, <4>4 DEF Sorted
        <5>2. BlockEnd(p, o[q]) <= BlockEnd(p, o[m])
          <6>1. m \in 1 .. n
            BY <1>3
          <6> QED
            BY <1>2, <1>14, <5>1, <6>1
        <5> QED
          BY <1>2, <1>3, <2>1, <3>1, <3>4, <4>1, <5>2
      <4>5. CASE m + 1 <= q
        <5>1. m + 1 \in 1 .. n
          BY <1>3
        <5>2. p.table[o[m + 1]].memory_ptr <= p.table[o[q]].memory_ptr
          BY <1>8, <4>1, <4>5, <5>1
        <5>3. p.table[o[m + 1]].memory_ptr \in Nat /\ p.table[o[q]].memory_ptr \in Nat
          BY <1>2, <4>1, <5>1
        <5>4. c < p.table[o[m + 1]].memory_ptr /\ p.table[o[q]].memory_ptr <= c
          BY <3>1, <3>4, <4>1
        <5> QED
          BY <2>1, <5>2, <5>3, <5>4
      <4> QED
        BY <4>2, <4>3, <4>4, <4>5
    <3> QED
      BY <3>3, <3>4 DEF UsedBelow
  <2>2. ASSUME c \in C
        PROVE  c \in Int /\ \E m \in D : start[m] <= c /\ c < start[m] + f[m]
    <3> DEFINE Past == {q \in 1 .. k + 1 : p.table[o[q]].memory_ptr > c}
    <3>1. c \in Int /\ 0 <= c /\ c < b /\ c \notin UsedBelow(p, b) /\ c \in 0 .. b - 1
      BY <1>6, <2>2
    <3>2. k + 1 \in Past
      BY <1>1, <1>6, <3>1
    <3>3. Past \in SUBSET Nat
      OBVIOUS
    <3>4. PICK q \in Past : \A r \in Past : q <= r
      BY <3>2, <3>3, MinInSet
    <3>5. q \in 1 .. k + 1 /\ p.table[o[q]].memory_ptr > c
      OBVIOUS
    <3>6. q # 1
      <4>1. p.table[o[1]].memory_ptr = 0
        BY <1>1, Positions
      <4> QED
        BY <3>1, <3>5, <4>1
    <3>7. q - 1 \in D /\ (q - 1) + 1 = q /\ q - 1 \in 1 .. k + 1 /\ ~(q <= q - 1)
      BY <3>5, <3>6
    <3>8. ~(p.table[o[q - 1]].memory_ptr > c)
      BY <3>4, <3>7
    <3>9. BlockEnd(p, o[q - 1]) <= c
      <4>1. q - 1 \in 1 .. n
        BY <1>3, <3>7
      <4>2. p.table[o[q - 1]].memory_ptr <= c
        BY <1>2, <3>1, <3>8, <4>1
      <4>3. ~(c < BlockEnd(p, o[q - 1]))
        BY <1>14, <3>1, <4>1, <4>2 DEF UsedBelow
      <4> QED
        BY <1>2, <3>1, <4>1, <4>3
    <3>10. start[q - 1] <= c /\ c < start[q - 1] + f[q - 1]
      <4>1. start[q - 1] + f[q - 1] = p.table[o[q]].memory_ptr /\ start[q - 1] = BlockEnd(p, o[q - 1])
        BY <1>4, <3>7
      <4>2. p.table[o[q]].memory_ptr \in Nat
        BY <1>1, <1>2, <3>5
      <4> QED
        BY <3>1, <3>5, <3>9, <4>1, <4>2
    <3> QED
      BY <3>1, <3>7, <3>10
  <2> QED
    BY <2>1, <2>2
<1>11. b = p.table[o[k + 1]].memory_ptr
  OBVIOUS
<1> HIDE DEF f, start, C, D, b
<1>12. Total(f) = Cardinality(C)
  BY <1>5, <1>7, <1>9, <1>10, TotalCountsCells
<1>13. Total(f) \in Nat /\ NewPtr(p, o, k + 1) + Total(f) = b
  BY <1>6, <1>7, <1>12
<1> QED
  BY <1>11, <1>13 DEF f, D

-----------------------------------------------------------------------------
(* Compaction.                                                              *)

(* The gaps up to the one that GapsReach finds hold the new block.  It      *)
(* finds one whenever there are enough free cells in all.                   *)
LEMMA GapsSuffice ==
    ASSUME NEW p, NEW B, MemorySound(p, B), NEW o, NEW n, Sorted(p, o, n),
           NEW size \in Nat \ {0}, UsedMemory(p) + size <= memory_size,
           NEW k, k = GapsReach(p, o, size)
    PROVE  k \in 1 .. n - 1 /\ NewPtr(p, o, k + 1) + size <= p.table[o[k + 1]].memory_ptr
<1> DEFINE T(j) == Total([m \in 1 .. j |-> Gap(p, o, m)])
           S == {j \in 1 .. n - 1 : T(j) >= size}
<1>1. n \in Nat /\ n > 1 /\ Gaps(o) = 1 .. n - 1
  BY DEF Sorted, Gaps
<1>2. k = Min(S)
  BY <1>1 DEF GapsReach
<1>3. \A j \in 1 .. n - 1 : T(j) \in Nat /\ NewPtr(p, o, j + 1) + T(j) = p.table[o[j + 1]].memory_ptr
  BY GapsCount
<1> HIDE DEF T
<1>4. n - 1 \in S
  <2>1. n \in 1 .. n /\ n - 1 \in 1 .. n - 1 /\ (n - 1) + 1 = n
    BY <1>1
  <2>2. p.table[o[n]].memory_ptr = memory_size
    BY <2>1, Positions
  <2>3. NewPtr(p, o, n) = UsedMemory(p) /\ UsedMemory(p) \in Nat
    BY <2>1, <2>2, NewPtrCounts, UsedMemoryCounts
  <2>4. T(n - 1) \in Nat /\ UsedMemory(p) + T(n - 1) = memory_size
    BY <1>3, <2>1, <2>2, <2>3
  <2>5. T(n - 1) >= size
    BY <2>3, <2>4, Slots
  <2> QED
    BY <2>1, <2>5
<1>5. k \in S
  <2>1. S \in SUBSET Nat
    OBVIOUS
  <2> HIDE DEF S
  <2> QED
    BY <1>2, <1>4, <2>1, MinInSet
<1>6. k \in 1 .. n - 1 /\ T(k) >= size
  BY <1>5
<1>7. k + 1 \in 1 .. n
  BY <1>1, <1>6
<1>8. NewPtr(p, o, k + 1) \in Nat
  BY <1>7, NewPtrCounts
<1> QED
  BY <1>3, <1>6, <1>8

(* The same blocks with the same contents, wherever they lie.               *)
SameBlocks(p, q) ==
    /\ UsedSlots(q) = UsedSlots(p)
    /\ \A i \in Slot : /\ q.table[i].usage_flag = p.table[i].usage_flag
                       /\ q.table[i].memory_size = p.table[i].memory_size
    /\ \A h \in UsedSlots(p) : Contents(q, h) = Contents(p, h)

LEMMA CompressTable ==
    ASSUME NEW p, NEW B, MemorySound(p, B), NEW o, NEW n, Sorted(p, o, n),
           NEW k \in 1 .. n - 1, NEW t, t = Compress(p, o, k)
    PROVE  /\ \A i \in Slot : /\ t.table[i].usage_flag = p.table[i].usage_flag
                              /\ t.table[i].memory_size = p.table[i].memory_size
                              /\ i \notin UsedSlots(p) => t.table[i] = p.table[i]
           /\ \A m \in 1 .. k : t.table[o[m]].memory_ptr = NewPtr(p, o, m)
           /\ \A m \in k + 1 .. n : t.table[o[m]] = p.table[o[m]]
           /\ t.table \in [Slot -> BlockType]
           /\ UsedSlots(t) = UsedSlots(p)
           /\ t.table[0] = p.table[0] /\ t.table[EndSlot] = p.table[EndSlot]
<1> DEFINE M(i) == \E m \in 2 .. k : o[m] = i
<1>1. n \in Nat /\ n > 1 /\ 2 .. k \subseteq 1 .. n /\ k < n /\ k \in Nat
  BY DEF Sorted
<1>2. t.table = [i \in Slot |->
                   IF M(i)
                   THEN [p.table[i] EXCEPT !.memory_ptr =
                           NewPtr(p, o, CHOOSE m \in 2 .. k : o[m] = i)]
                   ELSE p.table[i]]
  BY DEF Compress
<1>3. \A j, m \in 1 .. n : j # m => o[j] # o[m]
  BY DEF Sorted
<1>4. \A m \in 1 .. n : o[m] \in Slot /\ o[m] \in UsedSlots(p)
  BY UsedFinite DEF Sorted
<1>5. \A i \in Slot : p.table[i] \in BlockType
  BY DEF MemorySound, PoolType
<1>6. ASSUME NEW m \in 2 .. k
      PROVE  t.table[o[m]] = [p.table[o[m]] EXCEPT !.memory_ptr = NewPtr(p, o, m)]
  <2>1. M(o[m]) /\ o[m] \in Slot
    BY <1>1, <1>4
  <2>2. (CHOOSE j \in 2 .. k : o[j] = o[m]) = m
    BY <1>1, <1>3
  <2> HIDE DEF M
  <2> QED
    BY <1>2, <2>1, <2>2
<1>7. ASSUME NEW i \in Slot, ~M(i)
      PROVE  t.table[i] = p.table[i]
  <2> HIDE DEF M
  <2> QED
    BY <1>2, <1>7
<1>8. \A m \in 2 .. k : /\ t.table[o[m]].usage_flag = p.table[o[m]].usage_flag
                        /\ t.table[o[m]].memory_size = p.table[o[m]].memory_size
                        /\ t.table[o[m]].memory_ptr = NewPtr(p, o, m)
                        /\ t.table[o[m]] \in BlockType
  <2>1. ASSUME NEW m \in 2 .. k
        PROVE  NewPtr(p, o, m) \in 0 .. memory_size
    <3>1. m \in 1 .. n
      BY <1>1
    <3>2. p.table[o[m]].memory_ptr \in 0 .. memory_size
      BY <3>1, Positions
    <3>3. NewPtr(p, o, m) \in Nat /\ NewPtr(p, o, m) <= p.table[o[m]].memory_ptr
      BY <3>1, NewPtrCounts
    <3> QED
      BY <3>2, <3>3, Slots
  <2>2. \A m \in 2 .. k : p.table[o[m]] \in BlockType
    BY <1>1, <1>4, <1>5
  <2> QED
    BY <1>6, <2>1, <2>2 DEF BlockType
<1>9. \A m \in 1 .. n : m \notin 2 .. k => ~M(o[m])
  BY <1>1, <1>3
<1>10. \A i \in Slot : i \notin UsedSlots(p) => ~M(i)
  BY <1>1, <1>4
<1>11. \A i \in Slot : M(i) => \E m \in 2 .. k : o[m] = i
  OBVIOUS
<1> HIDE DEF M
<1>12. ASSUME NEW i \in Slot
       PROVE  /\ t.table[i].usage_flag = p.table[i].usage_flag
              /\ t.table[i].memory_size = p.table[i].memory_size
              /\ i \notin UsedSlots(p) => t.table[i] = p.table[i]
              /\ t.table[i] \in BlockType
  BY <1>5, <1>7, <1>8, <1>10, <1>11
<1>13. ASSUME NEW m \in 1 .. k
       PROVE  t.table[o[m]].memory_ptr = NewPtr(p, o, m)
  <2>1. CASE m = 1
    <3>1. 1 \in 1 .. n /\ 1 \notin 2 .. k
      BY <1>1
    <3>2. t.table[o[1]] = p.table[o[1]] /\ p.table[o[1]].memory_ptr = 0
      BY <1>4, <1>7, <1>9, <3>1, Positions
    <3> QED
      BY <2>1, <3>2, NewPtrSteps
  <2>2. CASE m # 1
    BY <1>1, <1>8, <2>2
  <2> QED
    BY <2>1, <2>2
<1>14. ASSUME NEW m \in k + 1 .. n
       PROVE  t.table[o[m]] = p.table[o[m]]
  BY <1>1, <1>4, <1>7, <1>9
<1>15. t.table \in [Slot -> BlockType]
  <2>1. t.table = [i \in Slot |-> t.table[i]]
    BY <1>2
  <2> QED
    BY <1>12, <2>1
<1>16. UsedSlots(t) = UsedSlots(p)
  BY <1>12 DEF UsedSlots
<1>17. t.table[0] = p.table[0] /\ t.table[EndSlot] = p.table[EndSlot]
  <2>1. o[1] = 0 /\ o[n] = EndSlot /\ 1 \in 1 .. n /\ n \in 1 .. n
    BY <1>1 DEF Sorted
  <2>2. 1 \notin 2 .. k /\ n \notin 2 .. k
    BY <1>1
  <2> QED
    BY <1>4, <1>7, <1>9, <2>1, <2>2
<1> QED
  BY <1>12, <1>13, <1>14, <1>15, <1>16, <1>17

(* memmove: every block finds its contents where it lies now.               *)
LEMMA CompressMemory ==
    ASSUME NEW p, NEW B, MemorySound(p, B), NEW o, NEW n, Sorted(p, o, n),
           NEW k \in 1 .. n - 1, NEW t, t = Compress(p, o, k)
    PROVE  /\ t.memory \in [Cell -> B]
           /\ \A h \in UsedSlots(p) : Contents(t, h) = Contents(p, h)
<1> DEFINE Source(c) == {m \in 2 .. k : NewPtr(p, o, m) <= c /\ c < NewPtr(p, o, m + 1)}
           ptr(m) == p.table[o[m]].memory_ptr
           sz(m) == p.table[o[m]].memory_size
           new(m) == NewPtr(p, o, m)
<1>1. n \in Nat /\ n > 1 /\ k \in Nat /\ k < n
  BY DEF Sorted
<1>2. t.memory = [c \in Cell |->
                    IF Source(c) = {} THEN p.memory[c]
                    ELSE LET m == CHOOSE m \in Source(c) : TRUE
                         IN  p.memory[ptr(m) + c - new(m)]]
  BY DEF Compress
<1>3. \A m \in 1 .. n : /\ ptr(m) \in Nat /\ sz(m) \in Nat /\ ptr(m) + sz(m) <= memory_size
                        /\ new(m) \in Nat /\ new(m) <= ptr(m)
  <2>1. ASSUME NEW m \in 1 .. n
        PROVE  /\ ptr(m) \in Nat /\ sz(m) \in Nat /\ ptr(m) + sz(m) <= memory_size
               /\ new(m) \in Nat /\ new(m) <= ptr(m)
    <3>1. o[m] \in UsedSlots(p)
      BY DEF Sorted
    <3>2. BlockEnd(p, o[m]) <= memory_size
      BY <3>1, UsedApart
    <3> QED
      BY <3>2, Positions, NewPtrCounts
  <2> QED
    BY <2>1
<1>4. \A m \in 1 .. n - 1 : new(m + 1) = new(m) + sz(m)
  BY NewPtrSteps
<1>5. \A i, j \in 1 .. n : i <= j => new(i) <= new(j)
  BY NewPtrSteps
<1>6. p.memory \in [Cell -> B]
  BY DEF MemorySound, PoolType
<1>7. \A i, j \in 1 .. n : i <= j => ptr(i) <= ptr(j)
  <2>1. ASSUME NEW i \in 1 .. n, NEW j \in 1 .. n, i <= j
        PROVE  ptr(i) <= ptr(j)
    <3>1. i \in 1 .. j
      BY <2>1
    <3> QED
      BY <3>1, Positions
  <2> QED
    BY <2>1
<1>8. /\ \A c : \A m \in Source(c) : m \in 2 .. k /\ new(m) <= c /\ c < new(m + 1)
      /\ \A c : \A m \in 2 .. k : new(m) <= c /\ c < new(m + 1) => m \in Source(c)
  OBVIOUS
<1>9. \A m : /\ ptr(m) = p.table[o[m]].memory_ptr /\ sz(m) = p.table[o[m]].memory_size
             /\ new(m) = NewPtr(p, o, m)
  OBVIOUS
<1> HIDE DEF Source, ptr, sz, new
<1>10. \A m \in 2 .. k : m \in 1 .. n /\ m \in 1 .. n - 1 /\ m + 1 \in 1 .. n
  BY <1>1
<1>11. ASSUME NEW c \in Cell
       PROVE  t.memory[c] \in B
  <2>1. CASE Source(c) = {}
    BY <1>2, <1>6, <2>1
  <2>2. CASE Source(c) # {}
    <3> DEFINE m == CHOOSE m \in Source(c) : TRUE
    <3>1. m \in Source(c)
      BY <2>2
    <3>2. t.memory[c] = p.memory[ptr(m) + c - new(m)]
      BY <1>2, <2>2
    <3> HIDE DEF m
    <3>3. m \in 2 .. k /\ new(m) <= c /\ c < new(m) + sz(m)
      BY <1>4, <1>8, <1>10, <3>1
    <3>4. ptr(m) + c - new(m) \in Cell
      BY <1>3, <1>10, <3>3, Slots DEF Cell
    <3> QED
      BY <1>6, <3>2, <3>4
  <2> QED
    BY <2>1, <2>2
<1>12. t.memory \in [Cell -> B]
  BY <1>2, <1>11
<1>13. ASSUME NEW h \in UsedSlots(p)
       PROVE  Contents(t, h) = Contents(p, h)
  <2>1. PICK m \in 1 .. n : o[m] = h
    BY DEF Sorted
  <2>2. h \in Slot /\ t.table[h].memory_size = sz(m) /\ p.table[h].memory_size = sz(m)
        /\ p.table[h].memory_ptr = ptr(m)
    BY <1>9, <2>1, CompressTable, UsedFinite
  <2>3. Contents(p, h) = [x \in 1 .. sz(m) |-> p.memory[ptr(m) + x - 1]]
    BY <2>2 DEF Contents
  <2>4. Contents(t, h) = [x \in 1 .. sz(m) |-> t.memory[t.table[h].memory_ptr + x - 1]]
    BY <2>2 DEF Contents
  <2>5. ASSUME NEW x \in 1 .. sz(m)
        PROVE  t.memory[t.table[h].memory_ptr + x - 1] = p.memory[ptr(m) + x - 1]
    <3>1. CASE m \in 2 .. k
      <4>1. t.table[h].memory_ptr = new(m)
        BY <1>9, <2>1, <3>1, CompressTable
      <4>2. PICK c \in Cell : c = new(m) + x - 1
        BY <1>3, <2>5, Slots DEF Cell
      <4>3. new(m) <= c /\ c < new(m + 1)
        BY <1>3, <1>4, <1>10, <2>5, <3>1, <4>2
      <4>4. m \in Source(c)
        BY <1>8, <3>1, <4>3
      <4>5. ASSUME NEW j \in Source(c)
            PROVE  j = m
        <5>1. j \in 2 .. k /\ new(j) <= c /\ c < new(j + 1)
          BY <1>8
        <5>2. ~(j < m)
          <6>1. j < m => new(j + 1) <= new(m)
            BY <1>5, <1>10, <5>1
          <6> QED
            BY <1>3, <1>10, <4>2, <4>3, <5>1, <6>1
        <5>3. ~(m < j)
          <6>1. m < j => new(m + 1) <= new(j)
            BY <1>5, <1>10, <3>1, <5>1
          <6> QED
            BY <1>3, <1>10, <3>1, <4>2, <4>3, <5>1, <6>1
        <5> QED
          BY <5>1, <5>2, <5>3
      <4>6. (CHOOSE j \in Source(c) : TRUE) = m
        BY <4>4, <4>5
      <4>7. t.memory[c] = p.memory[ptr(m) + c - new(m)]
        BY <1>2, <4>4, <4>6
      <4>8. ptr(m) + c - new(m) = ptr(m) + x - 1
        BY <1>3, <2>5, <4>2
      <4> QED
        BY <4>1, <4>2, <4>7, <4>8
    <3>2. CASE m \notin 2 .. k
      <4>1. CASE m = 1
        <5>1. sz(m) = 0
          <6>1. h = 0
            BY <2>1, <4>1 DEF Sorted
          <6> QED
            BY <2>2, <6>1 DEF MemorySound, Block
        <5> QED
          BY <2>5, <5>1
      <4>2. CASE m \in k + 1 .. n
        <5>1. t.table[h].memory_ptr = ptr(m)
          BY <1>9, <2>1, <4>2, CompressTable
        <5>2. PICK c \in Cell : c = ptr(m) + x - 1
          BY <1>3, <2>5, Slots DEF Cell
        <5>3. Source(c) = {}
          <6>1. ASSUME NEW j \in Source(c)
                PROVE  FALSE
            <7>1. j \in 2 .. k /\ c < new(j + 1)
              BY <1>8
            <7>2. j + 1 \in 1 .. n /\ j + 1 <= m
              BY <1>1, <4>2, <7>1
            <7>3. new(j + 1) <= ptr(j + 1) /\ ptr(j + 1) <= ptr(m)
              BY <1>3, <1>7, <7>2
            <7> QED
              BY <1>3, <2>5, <5>2, <7>1, <7>2, <7>3
          <6> QED
            BY <6>1
        <5>4. t.memory[c] = p.memory[c]
          BY <1>2, <5>3
        <5> QED
          BY <5>1, <5>2, <5>4
      <4> QED
        BY <1>1, <3>2, <4>1, <4>2
    <3> QED
      BY <3>1, <3>2
  <2> HIDE DEF sz
  <2> QED
    BY <2>3, <2>4, <2>5
<1> QED
  BY <1>12, <1>13

LEMMA CompressSound ==
    ASSUME NEW p, NEW B, MemorySound(p, B), NEW o, NEW n, Sorted(p, o, n),
           NEW k \in 1 .. n - 1, NEW t, t = Compress(p, o, k)
    PROVE  /\ MemorySound(t, B) /\ SameBlocks(p, t)
           /\ BlockEnd(t, o[k]) = NewPtr(p, o, k + 1)
           /\ \A i \in UsedSlots(t) : \/ BlockEnd(t, i) <= NewPtr(p, o, k + 1)
                                      \/ p.table[o[k + 1]].memory_ptr <= t.table[i].memory_ptr
<1> DEFINE ptr(m) == p.table[o[m]].memory_ptr
           sz(m) == p.table[o[m]].memory_size
           new(m) == NewPtr(p, o, m)
<1>1. n \in Nat /\ n > 1 /\ k \in Nat /\ k < n /\ k + 1 \in 1 .. n /\ k \in 1 .. n
  BY DEF Sorted
<1>2. \A m \in 1 .. n : /\ ptr(m) \in Nat /\ sz(m) \in Nat /\ ptr(m) + sz(m) <= memory_size
                        /\ new(m) \in Nat /\ new(m) <= ptr(m)
                        /\ BlockEnd(p, o[m]) = ptr(m) + sz(m) /\ o[m] \in Slot
  <2>1. ASSUME NEW m \in 1 .. n
        PROVE  /\ ptr(m) \in Nat /\ sz(m) \in Nat /\ ptr(m) + sz(m) <= memory_size
               /\ new(m) \in Nat /\ new(m) <= ptr(m)
               /\ BlockEnd(p, o[m]) = ptr(m) + sz(m) /\ o[m] \in Slot
    <3>1. o[m] \in UsedSlots(p)
      BY DEF Sorted
    <3>2. BlockEnd(p, o[m]) <= memory_size
      BY <3>1, UsedApart
    <3> QED
      BY <3>2, Positions, NewPtrCounts
  <2> QED
    BY <2>1
<1>3. \A m \in 1 .. n - 1 : new(m + 1) = new(m) + sz(m)
  BY NewPtrSteps
<1>4. \A i, j \in 1 .. n : i <= j => new(i) <= new(j)
  BY NewPtrSteps
<1>5. \A i, j \in 1 .. n : i <= j => ptr(i) <= ptr(j)
  <2>1. ASSUME NEW i \in 1 .. n, NEW j \in 1 .. n, i <= j
        PROVE  ptr(i) <= ptr(j)
    <3>1. i \in 1 .. j
      BY <2>1
    <3> QED
      BY <3>1, Positions
  <2> QED
    BY <2>1
<1>6. \A i, j \in 1 .. n : i < j => ptr(i) + sz(i) <= ptr(j)
  <2>1. \A i, j \in 1 .. n : i < j => BlockEnd(p, o[i]) <= p.table[o[j]].memory_ptr
    BY DEF Sorted
  <2> QED
    BY <1>2, <2>1
<1>7. \A m \in 1 .. n : /\ t.table[o[m]].memory_size = sz(m)
                        /\ BlockEnd(t, o[m]) = t.table[o[m]].memory_ptr + sz(m)
                        /\ m <= k => t.table[o[m]].memory_ptr = new(m)
                        /\ k < m => t.table[o[m]].memory_ptr = ptr(m)
  <2>1. ASSUME NEW m \in 1 .. n
        PROVE  /\ t.table[o[m]].memory_size = sz(m)
               /\ BlockEnd(t, o[m]) = t.table[o[m]].memory_ptr + sz(m)
    BY <1>2, CompressTable DEF BlockEnd
  <2>2. ASSUME NEW m \in 1 .. n, m <= k
        PROVE  t.table[o[m]].memory_ptr = new(m)
    <3>1. m \in 1 .. k
      BY <1>1, <2>2
    <3> QED
      BY <3>1, CompressTable
  <2>3. ASSUME NEW m \in 1 .. n, k < m
        PROVE  t.table[o[m]].memory_ptr = ptr(m)
    <3>1. m \in k + 1 .. n
      BY <1>1, <2>3
    <3> QED
      BY <3>1, CompressTable
  <2> QED
    BY <2>1, <2>2, <2>3
<1>8. \A m : ptr(m) = p.table[o[m]].memory_ptr /\ new(m) = NewPtr(p, o, m)
  OBVIOUS
<1>9. \A m \in 1 .. n : o[m] \in Handle => sz(m) > 0
  <2>1. \A m \in 1 .. n : Used(p, o[m])
    BY DEF Sorted, UsedSlots, Used
  <2> QED
    BY <2>1 DEF MemorySound
<1> HIDE DEF ptr, sz, new
<1>10. ASSUME NEW i \in 1 .. n, NEW j \in 1 .. n, i < j
       PROVE  BlockEnd(t, o[i]) <= t.table[o[j]].memory_ptr
  <2>1. CASE j <= k
    <3>1. i \in 1 .. n - 1 /\ i + 1 \in 1 .. n /\ i + 1 <= j /\ i <= k
      BY <1>1, <1>10, <2>1
    <3>2. new(i) + sz(i) <= new(j)
      BY <1>3, <1>4, <3>1
    <3> QED
      BY <1>7, <2>1, <3>1, <3>2
  <2>2. CASE i <= k /\ k < j
    <3>1. i \in 1 .. n - 1 /\ i + 1 \in 1 .. n /\ i + 1 <= k + 1 /\ k + 1 <= j
      BY <1>1, <1>10, <2>2
    <3>2. new(i) + sz(i) <= new(k + 1) /\ new(k + 1) <= ptr(k + 1) /\ ptr(k + 1) <= ptr(j)
      BY <1>1, <1>2, <1>3, <1>4, <1>5, <3>1
    <3>3. new(i) \in Nat /\ sz(i) \in Nat /\ new(k + 1) \in Nat /\ ptr(k + 1) \in Nat /\ ptr(j) \in Nat
      BY <1>1, <1>2
    <3> QED
      BY <1>7, <2>2, <3>2, <3>3
  <2>3. CASE k < i
    <3>1. k < j
      BY <1>1, <1>10, <2>3
    <3> QED
      BY <1>6, <1>7, <1>10, <2>3, <3>1
  <2> QED
    BY <1>1, <2>1, <2>2, <2>3
<1>11. ASSUME NEW m \in 1 .. n
       PROVE  BlockEnd(t, o[m]) <= memory_size /\ BlockEnd(t, o[m]) \in Nat
              /\ t.table[o[m]].memory_ptr \in Nat
  <2>1. CASE m <= k
    <3>1. new(m) \in Nat /\ ptr(m) \in Nat /\ sz(m) \in Nat /\ new(m) <= ptr(m)
          /\ ptr(m) + sz(m) <= memory_size /\ memory_size \in Nat
      BY <1>2, Slots
    <3> QED
      BY <1>7, <2>1, <3>1
  <2>2. CASE k < m
    <3>1. ptr(m) \in Nat /\ sz(m) \in Nat /\ ptr(m) + sz(m) <= memory_size /\ memory_size \in Nat
      BY <1>2, Slots
    <3> QED
      BY <1>7, <2>2, <3>1
  <2> QED
    BY <1>1, <2>1, <2>2
<1>12. \A i \in UsedSlots(p) : \E m \in 1 .. n : o[m] = i
  BY DEF Sorted
<1>13. MemorySound(t, B)
  <2>1. t \in PoolType(B)
    <3>1. t = [table |-> t.table, memory |-> t.memory]
      BY DEF Compress
    <3>2. t.table \in [Slot -> BlockType] /\ t.memory \in [Cell -> B]
      BY CompressTable, CompressMemory
    <3> QED
      BY <3>1, <3>2 DEF PoolType
  <2>2. t.table[0] = Block(TRUE, 0, 0) /\ t.table[EndSlot] = Block(TRUE, memory_size, 0)
    <3>1. t.table[0] = p.table[0] /\ t.table[EndSlot] = p.table[EndSlot]
      BY CompressTable
    <3> QED
      BY <3>1 DEF MemorySound
  <2>3. \A h \in Handle : Used(t, h) => h \in UsedSlots(p)
    BY CompressTable, Slots DEF Used, UsedSlots
  <2>4. ASSUME NEW h \in Handle, Used(t, h)
        PROVE  /\ t.table[h].memory_size > 0 /\ BlockEnd(t, h) <= memory_size
               /\ t.table[h].memory_ptr < memory_size
    <3>1. PICK m \in 1 .. n : o[m] = h
      BY <1>12, <2>3, <2>4
    <3>2. sz(m) > 0 /\ sz(m) \in Nat
      BY <1>2, <1>9, <3>1
    <3>3. /\ BlockEnd(t, h) \in Nat /\ BlockEnd(t, h) <= memory_size
          /\ t.table[h].memory_size = sz(m) /\ t.table[h].memory_ptr \in Nat
          /\ BlockEnd(t, h) = t.table[h].memory_ptr + sz(m)
      BY <1>7, <1>11, <3>1
    <3> QED
      BY <3>2, <3>3, Slots
  <2>5. ASSUME NEW h \in Handle, ~Used(t, h)
        PROVE  t.table[h].memory_ptr < memory_size
    <3>1. h \in Slot
      BY Slots
    <3>2. h \notin UsedSlots(p)
      BY <2>5, <3>1, CompressTable DEF Used, UsedSlots
    <3>3. t.table[h] = p.table[h]
      BY <3>1, <3>2, CompressTable
    <3> QED
      BY <3>3 DEF MemorySound
  <2>6. ASSUME NEW g \in Handle, NEW h \in Handle, Used(t, g), Used(t, h), g # h
        PROVE  Apart(t, g, h)
    <3>1. PICK i \in 1 .. n, j \in 1 .. n : o[i] = g /\ o[j] = h
      BY <1>12, <2>3, <2>6
    <3>2. i < j \/ j < i
      BY <1>1, <2>6, <3>1
    <3> QED
      BY <1>10, <3>1, <3>2 DEF Apart
  <2> QED
    BY <2>1, <2>2, <2>4, <2>5, <2>6 DEF MemorySound
<1>14. SameBlocks(p, t)
  BY CompressTable, CompressMemory DEF SameBlocks
<1>15. BlockEnd(t, o[k]) = NewPtr(p, o, k + 1)
  BY <1>1, <1>3, <1>7, <1>8
<1>16. ASSUME NEW i \in UsedSlots(t)
       PROVE  \/ BlockEnd(t, i) <= NewPtr(p, o, k + 1)
              \/ p.table[o[k + 1]].memory_ptr <= t.table[i].memory_ptr
  <2>1. PICK m \in 1 .. n : o[m] = i
    BY <1>12, CompressTable
  <2>2. CASE m <= k
    <3>1. m \in 1 .. n - 1 /\ m + 1 \in 1 .. n /\ m + 1 <= k + 1
      BY <1>1, <2>2
    <3>2. BlockEnd(t, i) = new(m + 1) /\ new(m + 1) <= new(k + 1)
      BY <1>1, <1>3, <1>4, <1>7, <2>1, <2>2, <3>1
    <3> QED
      BY <1>8, <3>2
  <2>3. CASE k < m
    <3>1. t.table[i].memory_ptr = ptr(m) /\ ptr(k + 1) <= ptr(m)
      BY <1>1, <1>5, <1>7, <2>1, <2>3
    <3> QED
      BY <1>8, <3>1
  <2> QED
    BY <1>1, <2>2, <2>3
<1> QED
  BY <1>13, <1>14, <1>15, <1>16

-----------------------------------------------------------------------------
(* Allocation.                                                              *)

FreeHandles(p) == {i \in Handle : ~p.table[i].usage_flag}

Fits(p, ptr, size) ==
    /\ ptr \in Nat /\ ptr + size <= memory_size
    /\ \A i \in UsedSlots(p) : \/ BlockEnd(p, i) <= ptr
                               \/ ptr + size <= p.table[i].memory_ptr

(* q is p with a block of size cells more, the lowest handle that was free. *)
Taken(p, q, h, size) ==
    /\ h = Min(FreeHandles(p)) /\ h \in Handle /\ ~Used(p, h)
    /\ Used(q, h) /\ q.table[h].memory_size = size
    /\ UsedSlots(q) = UsedSlots(p) \cup {h}
    /\ \A i \in Slot \ {h} : /\ q.table[i].usage_flag = p.table[i].usage_flag
                             /\ q.table[i].memory_size = p.table[i].memory_size
    /\ \A g \in UsedSlots(p) : Contents(q, g) = Contents(p, g)

LEMMA ContentsStay ==
    ASSUME NEW p, NEW q, NEW g, q.table[g] = p.table[g], q.memory = p.memory
    PROVE  Contents(q, g) = Contents(p, g)
BY DEF Contents

LEMMA TakenSound ==
    ASSUME NEW p, NEW B, MemorySound(p, B), NEW size \in Nat \ {0},
           NEW ptr, Fits(p, ptr, size), NEW h, h = Min(FreeHandles(p)), FreeHandles(p) # {},
           NEW q, q = [p EXCEPT !.table[h] = Block(TRUE, ptr, size)]
    PROVE  MemorySound(q, B) /\ Taken(p, q, h, size)
<1>1. h \in Handle /\ ~Used(p, h) /\ h \in Slot /\ h # 0 /\ h # EndSlot
  <2>1. FreeHandles(p) \in SUBSET Nat
    BY Slots DEF FreeHandles
  <2>2. h \in FreeHandles(p)
    BY <2>1, MinInSet
  <2> QED
    BY <2>2, Slots DEF FreeHandles, Used
<1>2. p.table \in [Slot -> BlockType] /\ p.memory \in [Cell -> B]
      /\ p = [table |-> p.table, memory |-> p.memory]
  BY DEF MemorySound, PoolType
<1>3. /\ q.table = [p.table EXCEPT ![h] = Block(TRUE, ptr, size)]
      /\ q.memory = p.memory /\ q = [table |-> q.table, memory |-> q.memory]
  BY <1>2
<1>4. /\ q.table[h] = Block(TRUE, ptr, size)
      /\ \A i \in Slot : i # h => q.table[i] = p.table[i]
  BY <1>1, <1>2, <1>3
<1>5. /\ q.table[h].usage_flag = TRUE /\ q.table[h].memory_ptr = ptr
      /\ q.table[h].memory_size = size /\ BlockEnd(q, h) = ptr + size
  BY <1>4 DEF Block, BlockEnd
<1>6. \A i \in Slot : i # h => BlockEnd(q, i) = BlockEnd(p, i)
  BY <1>4 DEF BlockEnd
<1>7. ptr \in Nat /\ ptr + size <= memory_size /\ memory_size \in Nat /\ size \in Nat /\ size > 0
  BY Slots DEF Fits
<1>8. q \in PoolType(B)
  <2>1. Block(TRUE, ptr, size) \in BlockType
    <3>1. ptr \in 0 .. memory_size /\ size \in 0 .. memory_size
      BY <1>7
    <3> QED
      BY <3>1 DEF Block, BlockType
  <2>2. q.table \in [Slot -> BlockType] /\ q.memory \in [Cell -> B]
    BY <1>2, <1>3, <2>1
  <2> QED
    BY <1>3, <2>2 DEF PoolType
<1>9. ASSUME NEW g \in Handle, g # h, Used(q, g)
      PROVE  Apart(q, g, h) /\ Apart(q, h, g)
  <2>1. g \in UsedSlots(p) /\ g \in Slot
    BY <1>4, <1>9, Slots DEF Used, UsedSlots
  <2>2. BlockEnd(p, g) <= ptr \/ ptr + size <= p.table[g].memory_ptr
    BY <2>1 DEF Fits
  <2> QED
    BY <1>4, <1>5, <1>6, <1>9, <2>1, <2>2 DEF Apart
<1>10. MemorySound(q, B)
  <2>1. q.table[0] = Block(TRUE, 0, 0) /\ q.table[EndSlot] = Block(TRUE, memory_size, 0)
    <3>1. q.table[0] = p.table[0] /\ q.table[EndSlot] = p.table[EndSlot]
      BY <1>1, <1>4, Slots
    <3> QED
      BY <3>1 DEF MemorySound
  <2>2. ASSUME NEW g \in Handle
        PROVE  /\ q.table[g].memory_ptr < memory_size
               /\ Used(q, g) => q.table[g].memory_size > 0 /\ BlockEnd(q, g) <= memory_size
    <3>1. CASE g = h
      <4>1. /\ q.table[g].memory_ptr = ptr /\ q.table[g].memory_size = size
            /\ BlockEnd(q, g) = ptr + size
        BY <1>5, <3>1
      <4>2. ptr < memory_size /\ size > 0 /\ ptr + size <= memory_size
        BY <1>7
      <4> QED
        BY <4>1, <4>2
    <3>2. CASE g # h
      <4>1. g \in Slot
        BY Slots
      <4>2. q.table[g] = p.table[g] /\ BlockEnd(q, g) = BlockEnd(p, g)
        BY <1>4, <1>6, <3>2, <4>1
      <4>3. /\ p.table[g].memory_ptr < memory_size
            /\ Used(p, g) => p.table[g].memory_size > 0 /\ BlockEnd(p, g) <= memory_size
        BY DEF MemorySound
      <4>4. Used(q, g) <=> Used(p, g)
        BY <4>2 DEF Used
      <4> QED
        BY <4>2, <4>3, <4>4
    <3> QED
      BY <3>1, <3>2
  <2>3. ASSUME NEW f \in Handle, NEW g \in Handle, Used(q, f), Used(q, g), f # g
        PROVE  Apart(q, f, g)
    <3>1. CASE f = h \/ g = h
      BY <1>9, <2>3, <3>1
    <3>2. CASE f # h /\ g # h
      <4>1. f \in Slot /\ g \in Slot
        BY Slots
      <4>2. q.table[f] = p.table[f] /\ q.table[g] = p.table[g]
            /\ BlockEnd(q, f) = BlockEnd(p, f) /\ BlockEnd(q, g) = BlockEnd(p, g)
        BY <1>4, <1>6, <3>2, <4>1
      <4>3. Apart(p, f, g)
        BY <2>3, <4>2 DEF MemorySound, Used
      <4> QED
        BY <4>2, <4>3 DEF Apart
    <3> QED
      BY <3>1, <3>2
  <2> QED
    BY <1>8, <2>1, <2>2, <2>3 DEF MemorySound
<1>11. UsedSlots(q) = UsedSlots(p) \cup {h}
  BY <1>1, <1>4, <1>5 DEF UsedSlots
<1>12. \A g \in UsedSlots(p) : Contents(q, g) = Contents(p, g)
  <2>1. ASSUME NEW g \in UsedSlots(p)
        PROVE  Contents(q, g) = Contents(p, g)
    <3>1. q.table[g] = p.table[g]
      BY <1>1, <1>4 DEF UsedSlots, Used
    <3>2. q.memory = p.memory
      BY <1>3
    <3> QED
      BY <3>1, <3>2, ContentsStay
  <2> QED
    BY <2>1
<1> QED
  BY <1>1, <1>4, <1>5, <1>10, <1>11, <1>12 DEF Taken, Used

(* A gap that fits has room for the block behind the one before it.         *)
LEMMA BestFitFits ==
    ASSUME NEW p, NEW B, MemorySound(p, B), NEW o, NEW n, Sorted(p, o, n),
           NEW size \in Nat \ {0}, NEW k, k = BestFit(p, o, size), k # 0
    PROVE  Fits(p, BlockEnd(p, o[k]), size)
<1> DEFINE S == {j \in 1 .. n - 1 : Gap(p, o, j) >= size}
           Best(j) == \A m \in S : \/ Gap(p, o, j) < Gap(p, o, m)
                                   \/ Gap(p, o, j) = Gap(p, o, m) /\ j <= m
<1>1. n \in Nat /\ Gaps(o) = 1 .. n - 1
  BY DEF Sorted, Gaps
<1>2. k = IF S = {} THEN 0 ELSE CHOOSE j \in S : Best(j)
  BY <1>1 DEF BestFit
<1>3. ASSUME NEW j \in 1 .. n - 1
      PROVE  Gap(p, o, j) \in Nat
  <2>1. j \in 1 .. n /\ j + 1 \in 1 .. n /\ j < j + 1
    BY <1>1
  <2>2. BlockEnd(p, o[j]) <= p.table[o[j + 1]].memory_ptr
    BY <2>1 DEF Sorted
  <2>3. BlockEnd(p, o[j]) \in Nat /\ p.table[o[j + 1]].memory_ptr \in Nat
    BY <2>1, Positions
  <2> QED
    BY <2>2, <2>3 DEF Gap
<1>4. S # {}
  BY <1>2
<1>5. \E j \in S : Best(j)
  <2> DEFINE G == {Gap(p, o, j) : j \in S}
             s == Min(G)
             F == {j \in S : Gap(p, o, j) = s}
  <2>1. G \in SUBSET Nat /\ G # {}
    BY <1>3, <1>4
  <2>2. s \in G /\ \A x \in G : s <= x
    <3> HIDE DEF G
    <3> QED
      BY <2>1, MinInSet
  <2>3. PICK i \in S : Gap(p, o, i) = s
    BY <2>2
  <2>4. F \in SUBSET Nat /\ F # {}
    <3>1. S \in SUBSET Nat
      OBVIOUS
    <3> HIDE DEF S, s
    <3> QED
      BY <2>3, <3>1
  <2>5. Min(F) \in F /\ \A x \in F : Min(F) <= x
    <3> HIDE DEF F
    <3> QED
      BY <2>4, MinInSet
  <2>6. \A m \in S : Gap(p, o, m) \in G /\ Gap(p, o, m) \in Nat /\ s \in Nat
    BY <1>3, <2>1, <2>2
  <2>7. Best(Min(F))
    <3> HIDE DEF G, s
    <3> QED
      BY <2>2, <2>5, <2>6
  <2>8. Min(F) \in S
    BY <2>5
  <2> HIDE DEF F, Best
  <2> QED
    BY <2>7, <2>8
<1>6. k \in S
  <2> HIDE DEF Best
  <2> QED
    BY <1>2, <1>4, <1>5
<1>7. k \in 1 .. n /\ k + 1 \in 1 .. n /\ Gap(p, o, k) >= size
  BY <1>1, <1>6
<1>8. /\ BlockEnd(p, o[k]) \in Nat /\ p.table[o[k + 1]].memory_ptr \in Nat
      /\ p.table[o[k + 1]].memory_ptr \in 0 .. memory_size
  BY <1>7, Positions
<1>9. BlockEnd(p, o[k]) + size <= p.table[o[k + 1]].memory_ptr
  BY <1>7, <1>8 DEF Gap
<1>10. ASSUME NEW i \in UsedSlots(p)
       PROVE  \/ BlockEnd(p, i) <= BlockEnd(p, o[k])
              \/ BlockEnd(p, o[k]) + size <= p.table[i].memory_ptr
  <2>1. PICK m \in 1 .. n : o[m] = i
    BY DEF Sorted
  <2>2. /\ p.table[i].memory_ptr \in Nat /\ BlockEnd(p, i) \in Nat
        /\ p.table[o[k]].memory_ptr \in Nat /\ p.table[o[k]].memory_size \in Nat
        /\ BlockEnd(p, o[k]) = p.table[o[k]].memory_ptr + p.table[o[k]].memory_size
    BY <1>7, <2>1, Positions
  <2>3. CASE m = k
    BY <2>1, <2>2, <2>3
  <2>4. CASE m < k
    <3>1. BlockEnd(p, i) <= p.table[o[k]].memory_ptr
      BY <1>7, <2>1, <2>4 DEF Sorted
    <3> QED
      BY <2>2, <3>1
  <2>5. CASE k < m
    <3>1. k + 1 \in 1 .. m
      BY <1>1, <1>7, <2>5
    <3>2. p.table[o[k + 1]].memory_ptr <= p.table[i].memory_ptr
      BY <2>1, <3>1, Positions
    <3> QED
      BY <1>8, <1>9, <2>2, <3>2
  <2> QED
    BY <1>1, <1>7, <2>3, <2>4, <2>5
<1>11. BlockEnd(p, o[k]) + size <= memory_size
  BY <1>8, <1>9, Slots
<1> QED
  BY <1>8, <1>10, <1>11 DEF Fits

(* What AllocMemory answers: Null with every block as it was, or a handle.  *)
Answer(p, a, B, size) ==
    /\ MemorySound(a.pool, B)
    /\ a.block = Null => SameBlocks(p, a.pool)
    /\ a.block # Null => Taken(p, a.pool, a.block, size)

LEMMA TakeEntryWorks ==
    ASSUME NEW p, NEW B, MemorySound(p, B), NEW size \in Nat \ {0},
           NEW q, MemorySound(q, B), SameBlocks(p, q), NEW ptr, Fits(q, ptr, size),
           NEW a, a = TakeEntry(q, ptr, size)
    PROVE  Answer(p, a, B, size) /\ (a.block = Null <=> FreeHandles(p) = {})
<1>1. FreeHandles(q) = FreeHandles(p)
  BY Slots DEF FreeHandles, SameBlocks
<1>2. CASE FreeHandles(q) = {}
  <2>1. a = [pool |-> q, block |-> Null]
    BY <1>2 DEF TakeEntry, FreeHandles
  <2>2. a.pool = q /\ a.block = Null
    BY <2>1
  <2> QED
    BY <1>1, <1>2, <2>2 DEF Answer
<1>3. CASE FreeHandles(q) # {}
  <2> DEFINE h == Min(FreeHandles(q))
             r == [q EXCEPT !.table[h] = Block(TRUE, ptr, size)]
  <2>1. a = [pool |-> r, block |-> h]
    BY <1>3 DEF TakeEntry, FreeHandles
  <2>2. a.pool = r /\ a.block = h
    BY <2>1
  <2>3. MemorySound(r, B) /\ Taken(q, r, h, size)
    BY <1>3, TakenSound
  <2> HIDE DEF h, r
  <2>4. h # Null
    BY <2>3, Slots DEF Taken
  <2>5. Taken(p, r, h, size)
    <3>1. UsedSlots(q) = UsedSlots(p) /\ h \in Slot
      BY <2>3, Slots DEF SameBlocks, Taken
    <3>2. ~Used(p, h)
      BY <2>3, <3>1 DEF Taken, SameBlocks, Used
    <3>3. \A i \in Slot \ {h} : /\ r.table[i].usage_flag = p.table[i].usage_flag
                                /\ r.table[i].memory_size = p.table[i].memory_size
      BY <2>3 DEF Taken, SameBlocks
    <3>4. \A g \in UsedSlots(p) : Contents(r, g) = Contents(p, g)
      BY <2>3, <3>1 DEF Taken, SameBlocks
    <3> QED
      BY <1>1, <2>3, <3>1, <3>2, <3>3, <3>4 DEF Taken
  <2> QED
    BY <1>1, <1>3, <2>2, <2>3, <2>4, <2>5 DEF Answer
<1> QED
  BY <1>2, <1>3

(* An empty memory has no block in use.                                     *)
LEMMA NothingUsed ==
    ASSUME NEW p, NEW B, MemorySound(p, B), UsedMemory(p) = 0
    PROVE  FreeHandles(p) = Handle /\ UsedSlots(p) = {0, EndSlot}
<1>1. UsedBelow(p, memory_size) = {}
  <2>1. IsFiniteSet(UsedBelow(p, memory_size)) /\ Cardinality(UsedBelow(p, memory_size)) = 0
    BY Slots, UsedMemoryCounts, UsedBelowFinite
  <2> QED
    BY <2>1, FS_EmptySet
<1>2. ASSUME NEW h \in Handle, Used(p, h)
      PROVE  FALSE
  <2>1. h \in UsedSlots(p) /\ h \in Slot
    BY <1>2, Slots DEF UsedSlots, Used
  <2>2. /\ p.table[h].memory_ptr \in Nat /\ p.table[h].memory_size \in Nat
        /\ p.table[h].memory_size > 0 /\ p.table[h].memory_ptr < memory_size
    BY <1>2, <2>1, EntryTypes DEF MemorySound
  <2>3. /\ p.table[h].memory_ptr \in 0 .. memory_size - 1
        /\ p.table[h].memory_ptr < BlockEnd(p, h)
    BY <2>2, Slots DEF BlockEnd
  <2>4. p.table[h].memory_ptr <= p.table[h].memory_ptr
    BY <2>2
  <2>5. p.table[h].memory_ptr \in UsedBelow(p, memory_size)
    BY <2>1, <2>3, <2>4 DEF UsedBelow
  <2> QED
    BY <1>1, <2>5
<1>3. FreeHandles(p) = Handle
  BY <1>2 DEF FreeHandles, Used
<1>4. UsedSlots(p) \subseteq {0, EndSlot}
  BY <1>2, Slots DEF UsedSlots, Used
<1> QED
  BY <1>3, <1>4, UsedFinite

(* AllocMemory keeps the blocks apart and their contents, compaction        *)
(* included, and refuses only for want of cells or of an entry.             *)
LEMMA AllocMemoryWorks ==
    ASSUME NEW p, NEW B, MemorySound(p, B), NEW size \in Nat \ {0},
           NEW a, a = AllocMemory(p, size)
    PROVE  /\ Answer(p, a, B, size)
           /\ a.block = Null <=> \/ size > max_block_size
                                 \/ UsedMemory(p) + size > memory_size
                                 \/ FreeHandles(p) = {}
<1> DEFINE o == MemoryOrder(p)
           n == Cardinality(UsedSlots(p))
           fit == BestFit(p, o, size)
           k == GapsReach(p, o, size)
           t == Compress(p, o, k)
<1>1. Sorted(p, o, n)
  BY OrderSorted
<1>2. UsedMemory(p) \in Nat /\ memory_size \in Nat /\ max_block_size \in Nat /\ size \in Nat
  BY UsedMemoryCounts, Slots, PoolAssumption
<1>3. a = IF \/ size > max_block_size \/ size > memory_size
             \/ UsedMemory(p) + size > memory_size
          THEN [pool |-> p, block |-> Null]
          ELSE IF UsedMemory(p) = 0
          THEN [pool |-> [p EXCEPT !.table[1] = Block(TRUE, 0, size)], block |-> 1]
          ELSE IF fit # 0
          THEN TakeEntry(p, BlockEnd(p, o[fit]), size)
          ELSE TakeEntry(t, BlockEnd(t, o[k]), size)
  BY DEF AllocMemory
<1>4. SameBlocks(p, p)
  BY DEF SameBlocks
<1> HIDE DEF fit, o, n, k, t
<1>5. CASE size > max_block_size \/ UsedMemory(p) + size > memory_size
  <2>1. a = [pool |-> p, block |-> Null]
    BY <1>3, <1>5
  <2>2. a.pool = p /\ a.block = Null
    BY <2>1
  <2> QED
    BY <1>4, <1>5, <2>2 DEF Answer
<1> DEFINE Roomy == ~(size > max_block_size) /\ ~(UsedMemory(p) + size > memory_size)
<1>6. ASSUME Roomy
      PROVE  ~(size > memory_size) /\ UsedMemory(p) + size <= memory_size
  BY <1>2, <1>6
<1>7. ASSUME Roomy, UsedMemory(p) = 0
      PROVE  Answer(p, a, B, size) /\ (a.block = Null <=> FreeHandles(p) = {})
  <2>1. FreeHandles(p) = Handle /\ UsedSlots(p) = {0, EndSlot}
    BY <1>7, NothingUsed
  <2>2. Min(Handle) = 1
    <3>1. Min(Handle) \in Handle /\ Min(Handle) <= 1
      BY Slots, MinInSet
    <3> QED
      BY <3>1 DEF Handle
  <2>3. a = TakeEntry(p, 0, size)
    <3>1. a = [pool |-> [p EXCEPT !.table[1] = Block(TRUE, 0, size)], block |-> 1]
      BY <1>3, <1>6, <1>7
    <3> QED
      BY <2>1, <2>2, <3>1, Slots DEF TakeEntry, FreeHandles
  <2>4. Fits(p, 0, size)
    <3>1. BlockEnd(p, 0) = 0 /\ p.table[EndSlot].memory_ptr = memory_size
      BY DEF MemorySound, Block, BlockEnd
    <3> QED
      BY <1>2, <1>6, <1>7, <2>1, <3>1 DEF Fits
  <2> QED
    BY <1>4, <2>3, <2>4, TakeEntryWorks
<1>8. ASSUME Roomy, UsedMemory(p) # 0, fit # 0
      PROVE  Answer(p, a, B, size) /\ (a.block = Null <=> FreeHandles(p) = {})
  <2>1. a = TakeEntry(p, BlockEnd(p, o[fit]), size)
    BY <1>3, <1>6, <1>8
  <2>2. Fits(p, BlockEnd(p, o[fit]), size)
    BY <1>1, <1>8, BestFitFits DEF fit
  <2> QED
    BY <1>4, <2>1, <2>2, TakeEntryWorks
<1>9. ASSUME Roomy, UsedMemory(p) # 0, fit = 0
      PROVE  Answer(p, a, B, size) /\ (a.block = Null <=> FreeHandles(p) = {})
  <2>1. a = TakeEntry(t, BlockEnd(t, o[k]), size)
    BY <1>3, <1>6, <1>9
  <2>2. k \in 1 .. n - 1 /\ NewPtr(p, o, k + 1) + size <= p.table[o[k + 1]].memory_ptr
    BY <1>1, <1>6, <1>9, GapsSuffice DEF k
  <2>3. /\ MemorySound(t, B) /\ SameBlocks(p, t)
        /\ BlockEnd(t, o[k]) = NewPtr(p, o, k + 1)
        /\ \A i \in UsedSlots(t) : \/ BlockEnd(t, i) <= NewPtr(p, o, k + 1)
                                   \/ p.table[o[k + 1]].memory_ptr <= t.table[i].memory_ptr
    BY <1>1, <2>2, CompressSound DEF t
  <2>4. k + 1 \in 1 .. n
    BY <1>1, <2>2 DEF Sorted
  <2>5. /\ NewPtr(p, o, k + 1) \in Nat /\ p.table[o[k + 1]].memory_ptr \in Nat
        /\ p.table[o[k + 1]].memory_ptr <= memory_size
    BY <1>1, <2>4, NewPtrCounts, Positions
  <2>6. \A i \in UsedSlots(t) : t.table[i].memory_ptr \in Nat
    BY <2>3, UsedFinite, EntryTypes DEF MemorySound
  <2>7. NewPtr(p, o, k + 1) + size <= memory_size
    BY <1>2, <2>2, <2>5
  <2>8. ASSUME NEW i \in UsedSlots(t)
        PROVE  \/ BlockEnd(t, i) <= NewPtr(p, o, k + 1)
               \/ NewPtr(p, o, k + 1) + size <= t.table[i].memory_ptr
    <3>1. CASE BlockEnd(t, i) <= NewPtr(p, o, k + 1)
      BY <3>1
    <3>2. CASE p.table[o[k + 1]].memory_ptr <= t.table[i].memory_ptr
      BY <1>2, <2>2, <2>5, <2>6, <3>2
    <3> QED
      BY <2>3, <3>1, <3>2
  <2>9. Fits(t, NewPtr(p, o, k + 1), size)
    BY <2>5, <2>7, <2>8 DEF Fits
  <2> QED
    BY <2>1, <2>3, <2>9, TakeEntryWorks
<1> QED
  BY <1>5, <1>7, <1>8, <1>9

(* Freeing a block leaves the others as they are, and the entry pointing    *)
(* into the memory.                                                         *)
LEMMA FreeMemoryWorks ==
    ASSUME NEW p, NEW B, MemorySound(p, B), NEW h,
           NEW q, q = FreeMemory(p, h)
    PROVE  /\ MemorySound(q, B)
           /\ UsedSlots(q) = UsedSlots(p) \ ({h} \cap Handle)
           /\ q.memory = p.memory
           /\ \A i \in Slot : /\ i # h => q.table[i] = p.table[i]
                              /\ q.table[i].memory_ptr = p.table[i].memory_ptr
                              /\ q.table[i].memory_size = p.table[i].memory_size
           /\ \A g \in Slot : Contents(q, g) = Contents(p, g)
<1>1. CASE h \notin Handle
  <2>1. q = p
    BY <1>1 DEF FreeMemory
  <2> QED
    BY <1>1, <2>1
<1>2. CASE h \in Handle
  <2>1. p.table \in [Slot -> BlockType] /\ p.memory \in [Cell -> B]
        /\ p = [table |-> p.table, memory |-> p.memory]
    BY DEF MemorySound, PoolType
  <2>2. q = [p EXCEPT !.table[h].usage_flag = FALSE]
    BY <1>2 DEF FreeMemory
  <2>3. h \in Slot /\ h # 0 /\ h # EndSlot
    BY <1>2, Slots
  <2>4. /\ q.table = [p.table EXCEPT ![h].usage_flag = FALSE]
        /\ q.memory = p.memory /\ q = [table |-> q.table, memory |-> q.memory]
    BY <2>1, <2>2
  <2>5. /\ \A i \in Slot : i # h => q.table[i] = p.table[i]
        /\ q.table[h] = [p.table[h] EXCEPT !.usage_flag = FALSE]
    BY <2>1, <2>3, <2>4
  <2>6. p.table[h] \in BlockType
    BY <2>1, <2>3
  <2>7. /\ q.table[h] \in BlockType /\ q.table[h].usage_flag = FALSE
        /\ q.table[h].memory_ptr = p.table[h].memory_ptr
        /\ q.table[h].memory_size = p.table[h].memory_size
    BY <2>5, <2>6 DEF BlockType
  <2>8. q.table \in [Slot -> BlockType]
    <3>1. q.table = [i \in Slot |-> q.table[i]]
      BY <2>1, <2>4
    <3>2. \A i \in Slot : q.table[i] \in BlockType
      BY <2>1, <2>5, <2>7
    <3> QED
      BY <3>1, <3>2
  <2>9. \A i \in Slot : /\ q.table[i].memory_ptr = p.table[i].memory_ptr
                        /\ q.table[i].memory_size = p.table[i].memory_size
    BY <2>5, <2>7
  <2>10. UsedSlots(q) = UsedSlots(p) \ {h}
    BY <2>3, <2>5, <2>7 DEF UsedSlots
  <2>11. \A i \in Slot : BlockEnd(q, i) = BlockEnd(p, i)
    BY <2>9 DEF BlockEnd
  <2>12. \A g \in Slot : Contents(q, g) = Contents(p, g)
    BY <2>4, <2>9 DEF Contents
  <2>13. q \in PoolType(B)
    <3>1. q.memory \in [Cell -> B]
      BY <2>1, <2>4
    <3> QED
      BY <2>4, <2>8, <3>1 DEF PoolType
  <2>14. \A g \in Handle : Used(q, g) => Used(p, g) /\ g # h
    BY <2>5, <2>7, Slots DEF Used
  <2>15. q.table[0] = p.table[0] /\ q.table[EndSlot] = p.table[EndSlot]
    BY <2>3, <2>5, Slots
  <2>16. \A g, f \in Handle : Apart(p, f, g) => Apart(q, f, g)
    BY <2>9, <2>11, Slots DEF Apart
  <2>17. MemorySound(q, B)
    <3>1. \A g \in Handle : g \in Slot
      BY Slots
    <3>2. \A g \in Handle : q.table[g].memory_ptr < memory_size
      BY <2>9, <3>1 DEF MemorySound
    <3>3. \A g \in Handle : Used(q, g) => q.table[g].memory_size > 0 /\ BlockEnd(q, g) <= memory_size
      BY <2>9, <2>11, <2>14, <3>1 DEF MemorySound
    <3>4. \A g, f \in Handle : Used(q, f) /\ Used(q, g) /\ f # g => Apart(q, f, g)
      BY <2>14, <2>16 DEF MemorySound
    <3> QED
      BY <2>13, <2>15, <3>2, <3>3, <3>4 DEF MemorySound
  <2> QED
    BY <1>2, <2>4, <2>5, <2>9, <2>10, <2>12, <2>17
<1> QED
  BY <1>1, <1>2

(* Packing a block touches no other.                                        *)
LEMMA PackWorks ==
    ASSUME NEW p, NEW B, MemorySound(p, B), NEW h \in Handle, Used(p, h), NEW byte \in B,
           NEW q, q = Pack(p, h, byte)
    PROVE  /\ MemorySound(q, B) /\ q.table = p.table
           /\ Contents(q, h) = [i \in 1 .. p.table[h].memory_size |-> byte]
           /\ \A g \in UsedSlots(p) : g # h => Contents(q, g) = Contents(p, g)
           /\ q.memory[p.table[h].memory_ptr] = byte
<1>1. p.table \in [Slot -> BlockType] /\ p.memory \in [Cell -> B]
      /\ p = [table |-> p.table, memory |-> p.memory]
  BY DEF MemorySound, PoolType
<1> DEFINE ptr == p.table[h].memory_ptr
           sz == p.table[h].memory_size
<1>2. /\ q.table = p.table
      /\ q.memory = [c \in Cell |-> IF ptr <= c /\ c < BlockEnd(p, h) THEN byte ELSE p.memory[c]]
      /\ q = [table |-> q.table, memory |-> q.memory]
  BY <1>1 DEF Pack
<1>3. h \in Slot /\ h \in UsedSlots(p)
  BY Slots DEF UsedSlots, Used
<1>4. /\ ptr \in Nat /\ sz \in Nat /\ sz > 0 /\ ptr + sz <= memory_size
      /\ BlockEnd(p, h) = ptr + sz /\ memory_size \in Nat
  BY <1>3, EntryTypes, UsedApart, Slots DEF BlockEnd, MemorySound
<1>5. ptr = p.table[h].memory_ptr /\ sz = p.table[h].memory_size
  OBVIOUS
<1> HIDE DEF ptr, sz
<1>6. q.memory \in [Cell -> B]
  BY <1>1, <1>2
<1>7. MemorySound(q, B)
  <2>1. q \in PoolType(B)
    BY <1>1, <1>2, <1>6 DEF PoolType
  <2>2. \A i : BlockEnd(q, i) = BlockEnd(p, i)
    BY <1>2 DEF BlockEnd
  <2>3. \A i, j : Apart(p, i, j) <=> Apart(q, i, j)
    BY <1>2, <2>2 DEF Apart
  <2>4. \A i : Used(q, i) <=> Used(p, i)
    BY <1>2 DEF Used
  <2>5. /\ q.table[0] = Block(TRUE, 0, 0)
        /\ q.table[EndSlot] = Block(TRUE, memory_size, 0)
        /\ \A g \in Handle : q.table[g].memory_ptr < memory_size
    BY <1>2 DEF MemorySound
  <2>6. \A g \in Handle : Used(q, g) => /\ q.table[g].memory_size > 0
                                        /\ BlockEnd(q, g) <= memory_size
    BY <1>2, <2>2, <2>4 DEF MemorySound
  <2>7. \A g, f \in Handle : Used(q, g) /\ Used(q, f) /\ g # f => Apart(q, g, f)
    BY <2>3, <2>4 DEF MemorySound
  <2> QED
    BY <2>1, <2>5, <2>6, <2>7 DEF MemorySound
<1>8. Contents(q, h) = [i \in 1 .. sz |-> byte]
  <2>1. ASSUME NEW i \in 1 .. sz
        PROVE  q.memory[ptr + i - 1] = byte
    <3>1. PICK c \in Cell : c = ptr + i - 1
      BY <1>4 DEF Cell
    <3>2. ptr <= c /\ c < BlockEnd(p, h)
      BY <1>4, <3>1
    <3> QED
      BY <1>2, <3>1, <3>2
  <2>2. Contents(q, h) = [i \in 1 .. sz |-> q.memory[ptr + i - 1]]
    BY <1>2, <1>5 DEF Contents
  <2> QED
    BY <2>1, <2>2
<1>9. ASSUME NEW g \in UsedSlots(p), g # h
      PROVE  Contents(q, g) = Contents(p, g)
  <2> DEFINE a == p.table[g].memory_ptr
             m == p.table[g].memory_size
  <2>1. g \in Slot /\ a \in Nat /\ m \in Nat /\ BlockEnd(p, g) = a + m /\ a + m <= memory_size
    BY UsedFinite, EntryTypes, UsedApart DEF BlockEnd, MemorySound
  <2>2. a + m <= ptr \/ ptr + sz <= a
    BY <1>3, <1>4, <1>5, <1>9, <2>1, UsedApart DEF Apart
  <2>3. a = p.table[g].memory_ptr /\ m = p.table[g].memory_size
    OBVIOUS
  <2> HIDE DEF a, m
  <2>4. ASSUME NEW i \in 1 .. m
        PROVE  q.memory[a + i - 1] = p.memory[a + i - 1]
    <3>1. PICK c \in Cell : c = a + i - 1
      BY <1>4, <2>1 DEF Cell
    <3>2. ~(ptr <= c /\ c < BlockEnd(p, h))
      BY <1>4, <2>1, <2>2, <3>1
    <3> QED
      BY <1>2, <3>1, <3>2
  <2>5. /\ Contents(q, g) = [i \in 1 .. m |-> q.memory[a + i - 1]]
        /\ Contents(p, g) = [i \in 1 .. m |-> p.memory[a + i - 1]]
    BY <1>2, <2>3 DEF Contents
  <2> QED
    BY <2>4, <2>5
<1>10. q.memory[ptr] = byte
  <2>1. ptr \in Cell /\ ptr <= ptr /\ ptr < BlockEnd(p, h)
    BY <1>4 DEF Cell
  <2> QED
    BY <1>2, <2>1
<1> QED
  BY <1>2, <1>5, <1>7, <1>8, <1>9, <1>10

-----------------------------------------------------------------------------
(* The calls of the users.                                                  *)

(* Init makes a sound pool.                                                 *)
LEMMA EmptyPoolSound ==
    ASSUME NEW B, NEW filler \in B, NEW p, p = EmptyPool(filler)
    PROVE  MemorySound(p, B) /\ UsedSlots(p) = {0, EndSlot} /\ UsedMemory(p) = 0
<1>1. /\ p.table = [i \in Slot |-> IF i = 0 THEN Block(TRUE, 0, 0)
                                   ELSE IF i = EndSlot THEN Block(TRUE, memory_size, 0)
                                   ELSE Block(FALSE, 0, 0)]
      /\ p.memory = [c \in Cell |-> filler]
      /\ p = [table |-> p.table, memory |-> p.memory]
  BY DEF EmptyPool, EndSlot
<1>2. /\ p.table[0] = Block(TRUE, 0, 0) /\ p.table[EndSlot] = Block(TRUE, memory_size, 0)
      /\ \A h \in Handle : p.table[h] = Block(FALSE, 0, 0)
  <2>1. /\ 0 \in Slot /\ EndSlot \in Slot /\ EndSlot # 0
        /\ \A h \in Handle : h \in Slot /\ h # 0 /\ h # EndSlot
    BY Slots
  <2>2. \A i \in Slot : p.table[i] = IF i = 0 THEN Block(TRUE, 0, 0)
                                     ELSE IF i = EndSlot THEN Block(TRUE, memory_size, 0)
                                     ELSE Block(FALSE, 0, 0)
    BY <1>1
  <2> QED
    BY <2>1, <2>2
<1>3. /\ Block(TRUE, 0, 0) \in BlockType /\ Block(FALSE, 0, 0) \in BlockType
      /\ Block(TRUE, memory_size, 0) \in BlockType
  BY Slots DEF Block, BlockType
<1>4. p.table \in [Slot -> BlockType] /\ p.memory \in [Cell -> B]
  BY <1>1, <1>3
<1>5. p \in PoolType(B)
  BY <1>1, <1>4 DEF PoolType
<1>6. \A h \in Handle : p.table[h].memory_ptr = 0 /\ ~Used(p, h)
  BY <1>2 DEF Block, Used
<1>7. MemorySound(p, B)
  BY <1>2, <1>5, <1>6, Slots DEF MemorySound
<1>8. UsedSlots(p) = {0, EndSlot}
  <2>1. 0 \in UsedSlots(p) /\ EndSlot \in UsedSlots(p)
    BY <1>7, UsedFinite
  <2> QED
    BY <1>6, <2>1, Slots DEF UsedSlots, Used
<1>9. UsedMemory(p) = 0
  <2>1. p.table[0].memory_size = 0 /\ p.table[EndSlot].memory_size = 0
    BY <1>2 DEF Block
  <2> DEFINE f == [i \in UsedSlots(p) |-> p.table[i].memory_size]
  <2>2. \A i \in DOMAIN f : 1 .. f[i] = {}
    BY <1>8, <2>1
  <2>3. UNION {{i} \X (1 .. f[i]) : i \in DOMAIN f} = {}
    BY <2>2
  <2> QED
    BY <2>3, FS_EmptySet DEF UsedMemory, Total
<1> QED
  BY <1>7, <1>8, <1>9

(* The cells in use, when no block comes or goes.                           *)
LEMMA UsedMemoryStays ==
    ASSUME NEW p, NEW q, UsedSlots(q) = UsedSlots(p),
           \A i \in UsedSlots(p) : q.table[i].memory_size = p.table[i].memory_size
    PROVE  UsedMemory(q) = UsedMemory(p)
<1>1. [i \in UsedSlots(q) |-> q.table[i].memory_size] = [i \in UsedSlots(p) |-> p.table[i].memory_size]
  OBVIOUS
<1> QED
  BY <1>1 DEF UsedMemory

(* ... and when one comes (or goes, with p and q swapped).                  *)
LEMMA UsedMemoryGrows ==
    ASSUME NEW p, NEW B, MemorySound(p, B), NEW q, NEW h \in Slot, h \notin UsedSlots(p),
           UsedSlots(q) = UsedSlots(p) \cup {h}, q.table[h].memory_size \in Nat,
           \A i \in UsedSlots(p) : q.table[i].memory_size = p.table[i].memory_size
    PROVE  UsedMemory(q) = UsedMemory(p) + q.table[h].memory_size
<1> DEFINE D == UsedSlots(p)
           f == [i \in D |-> p.table[i].memory_size]
           g == [i \in D \cup {h} |-> IF i = h THEN q.table[h].memory_size ELSE f[i]]
<1>1. IsFiniteSet(D) /\ D \subseteq Slot
  BY UsedFinite
<1>2. f \in [D -> Nat]
  BY <1>1, EntryTypes DEF MemorySound
<1>3. Total(g) = Total(f) + q.table[h].memory_size
  <2> HIDE DEF f, D
  <2>1. h \notin D
    BY DEF D
  <2> QED
    BY <1>1, <1>2, <2>1, TotalGrows
<1>4. g = [i \in UsedSlots(q) |-> q.table[i].memory_size]
  OBVIOUS
<1> QED
  BY <1>3, <1>4 DEF UsedMemory

(* The block that a successful allocation adds, packed by its owner.        *)
Added(p, q, h, size, byte) ==
    /\ h = Min(FreeHandles(p)) /\ h \in Handle /\ h \notin UsedSlots(p)
    /\ UsedSlots(q) = UsedSlots(p) \cup {h}
    /\ UsedMemory(q) = UsedMemory(p) + size
    /\ Contents(q, h) = [i \in 1 .. size |-> byte]
    /\ q.memory[q.table[h].memory_ptr] = byte
    /\ \A g \in UsedSlots(p) : Contents(q, g) = Contents(p, g)

LEMMA PackedBlock ==
    ASSUME NEW p, NEW B, MemorySound(p, B), NEW size \in Nat \ {0}, NEW byte \in B,
           NEW a, a = AllocMemory(p, size), a.block # Null,
           NEW q, q = Pack(a.pool, a.block, byte)
    PROVE  MemorySound(q, B) /\ Added(p, q, a.block, size, byte)
<1> DEFINE h == a.block
           t == a.pool
<1>1. MemorySound(t, B) /\ Taken(p, t, h, size)
  BY AllocMemoryWorks DEF Answer
<1>2. h \in Handle /\ Used(t, h) /\ ~Used(p, h) /\ h = Min(FreeHandles(p)) /\ h \in Slot
  BY <1>1, Slots DEF Taken
<1>3. q = Pack(t, h, byte)
  OBVIOUS
<1> HIDE DEF h, t
<1>4. /\ MemorySound(q, B) /\ q.table = t.table
      /\ Contents(q, h) = [i \in 1 .. t.table[h].memory_size |-> byte]
      /\ \A g \in UsedSlots(t) : g # h => Contents(q, g) = Contents(t, g)
      /\ q.memory[t.table[h].memory_ptr] = byte
  BY <1>1, <1>2, <1>3, PackWorks
<1>5. t.table[h].memory_size = size /\ UsedSlots(t) = UsedSlots(p) \cup {h}
  BY <1>1 DEF Taken
<1>6. UsedSlots(q) = UsedSlots(t)
  BY <1>4 DEF UsedSlots
<1>7. h \notin UsedSlots(p)
  BY <1>2 DEF UsedSlots, Used
<1>8. UsedMemory(q) = UsedMemory(p) + size
  <2>1. \A i \in UsedSlots(p) : q.table[i].memory_size = p.table[i].memory_size
    <3>1. \A i \in UsedSlots(p) : i \in Slot /\ i # h
      BY <1>7, UsedFinite
    <3> QED
      BY <1>1, <1>4, <3>1 DEF Taken
  <2>2. q.table[h].memory_size = size
    BY <1>4, <1>5
  <2> QED
    BY <1>2, <1>5, <1>6, <1>7, <2>1, <2>2, UsedMemoryGrows
<1>9. \A g \in UsedSlots(p) : Contents(q, g) = Contents(p, g)
  BY <1>1, <1>4, <1>5, <1>7 DEF Taken
<1> QED
  BY <1>2, <1>4, <1>5, <1>6, <1>7, <1>8, <1>9 DEF Added, h

(* A freed block gives its cells back.                                      *)
LEMMA FreedBlock ==
    ASSUME NEW p, NEW B, MemorySound(p, B), NEW h \in Handle, Used(p, h),
           NEW q, q = FreeMemory(p, h)
    PROVE  /\ MemorySound(q, B) /\ UsedSlots(q) = UsedSlots(p) \ {h}
           /\ UsedMemory(q) = UsedMemory(p) - p.table[h].memory_size
           /\ p.table[h].memory_size \in Nat
           /\ \A g \in UsedSlots(q) : Contents(q, g) = Contents(p, g)
<1>1. /\ MemorySound(q, B) /\ UsedSlots(q) = UsedSlots(p) \ ({h} \cap Handle)
      /\ \A i \in Slot : q.table[i].memory_size = p.table[i].memory_size
      /\ \A g \in Slot : Contents(q, g) = Contents(p, g)
  BY FreeMemoryWorks
<1>2. UsedSlots(q) = UsedSlots(p) \ {h} /\ h \in UsedSlots(p) /\ h \in Slot
  BY <1>1, Slots DEF UsedSlots, Used
<1>3. p.table[h].memory_size \in Nat
  BY <1>2, EntryTypes DEF MemorySound
<1>4. UsedMemory(p) = UsedMemory(q) + p.table[h].memory_size
  <2>1. \A i \in UsedSlots(q) : p.table[i].memory_size = q.table[i].memory_size
    BY <1>1, UsedFinite
  <2>2. UsedSlots(p) = UsedSlots(q) \cup {h} /\ h \notin UsedSlots(q)
    BY <1>2
  <2>3. MemorySound(q, B) /\ h \in Slot /\ p.table[h].memory_size \in Nat
    BY <1>1, <1>2, <1>3
  <2> HIDE DEF MemorySound
  <2> QED
    BY <2>1, <2>2, <2>3, UsedMemoryGrows
<1>5. UsedMemory(q) = UsedMemory(p) - p.table[h].memory_size
  BY <1>1, <1>3, <1>4, UsedMemoryCounts
<1>6. \A g \in UsedSlots(q) : Contents(q, g) = Contents(p, g)
  BY <1>1, UsedFinite
<1> QED
  BY <1>1, <1>2, <1>3, <1>5, <1>6

-----------------------------------------------------------------------------
(* The pool under any sequence of calls.                                    *)

PoolInv == MemorySound(shared, Byte) /\ result \in Handle \cup {Null}

LEMMA PoolInvInit == PoolInit => PoolInv
<1> SUFFICES ASSUME PoolInit PROVE PoolInv
  OBVIOUS
<1>1. PICK filler \in Byte : shared = EmptyPool(filler)
  BY DEF PoolInit
<1>2. MemorySound(shared, Byte)
  BY <1>1, EmptyPoolSound
<1> QED
  BY <1>2 DEF PoolInv, PoolInit

LEMMA PoolInvNext == PoolInv /\ [PoolNext]_<<shared, result>> => PoolInv'
<1> SUFFICES ASSUME PoolInv, [PoolNext]_<<shared, result>> PROVE PoolInv'
  OBVIOUS
<1>1. MemorySound(shared, Byte) /\ result \in Handle \cup {Null}
  BY DEF PoolInv
<1>2. ASSUME NEW size \in Size, NEW byte \in Byte, Allocate(size, byte)
      PROVE  PoolInv'
  <2> DEFINE a == AllocMemory(shared, size)
  <2>1. /\ result' = a.block
        /\ shared' = IF a.block = Null THEN a.pool ELSE Pack(a.pool, a.block, byte)
    BY <1>2 DEF Allocate
  <2>2. size \in Nat \ {0}
    BY SizeAssumption
  <2>3. Answer(shared, a, Byte, size)
    BY <1>1, <2>2, AllocMemoryWorks
  <2>4. a = AllocMemory(shared, size)
    OBVIOUS
  <2> HIDE DEF a
  <2>5. CASE a.block = Null
    <3>1. MemorySound(shared', Byte)
      BY <2>1, <2>3, <2>5 DEF Answer
    <3> QED
      BY <2>1, <2>5, <3>1 DEF PoolInv
  <2>6. CASE a.block # Null
    <3>1. shared' = Pack(a.pool, a.block, byte)
      BY <2>1, <2>6
    <3>2. MemorySound(shared', Byte) /\ Added(shared, shared', a.block, size, byte)
      BY <1>1, <2>2, <2>4, <2>6, <3>1, PackedBlock
    <3>3. result' \in Handle
      BY <2>1, <3>2 DEF Added
    <3> QED
      BY <3>2, <3>3 DEF PoolInv
  <2> QED
    BY <2>5, <2>6
<1>3. ASSUME NEW block \in Handle, Free(block)
      PROVE  PoolInv'
  <2>1. MemorySound(shared', Byte)
    BY <1>1, <1>3, FreeMemoryWorks DEF Free
  <2> QED
    BY <1>1, <1>3, <2>1 DEF Free, PoolInv
<1>4. ASSUME UNCHANGED <<shared, result>>
      PROVE  PoolInv'
  BY <1>1, <1>4 DEF PoolInv
<1> QED
  BY <1>2, <1>3, <1>4 DEF PoolNext

LEMMA PoolInvAlways == PoolSpec => []PoolInv
BY PoolInvInit, PoolInvNext, PTL DEF PoolSpec

(* Every value the pool takes is well formed: every entry, used or freed,   *)
(* points into the memory, and AllocMemory answers with an entry that can   *)
(* be handed out or with the null pointer.                                  *)
THEOREM PoolTyped == PoolSpec => []PoolTypeOK
<1>1. PoolInv => PoolTypeOK
  BY DEF PoolInv, PoolTypeOK, MemorySound, PoolType
<1> QED
  BY <1>1, PoolInvAlways, PTL

(* Blocks in use never share a cell nor reach past the memory, after any    *)
(* sequence of allocations, compactions and frees.                          *)
THEOREM BlocksStayApart == PoolSpec => []BlocksDisjoint
<1>1. PoolInv => BlocksDisjoint
  <2> SUFFICES ASSUME PoolInv, NEW i \in UsedSlots(shared), NEW j \in UsedSlots(shared)
               PROVE  /\ BlockEnd(shared, i) <= memory_size
                      /\ i # j => Apart(shared, i, j)
    BY DEF BlocksDisjoint, Apart
  <2> QED
    BY UsedApart DEF PoolInv
<1> QED
  BY <1>1, PoolInvAlways, PTL

(* AllocMemory and FreeMemory implement the store of blocks: an allocation  *)
(* fails only for want of cells or of an entry, however scattered the free  *)
(* cells are, and compaction leaves every owner its packet.                 *)
THEOREM PoolIsStore == PoolSpec => ImplementsStore
<1> DEFINE Blocks(p) == [h \in UsedSlots(p) \cap Handle |-> Contents(p, h)]
<1>1. PoolInit => Store!Init
  <2> SUFFICES ASSUME PoolInit PROVE Store!Init
    OBVIOUS
  <2>1. PICK filler \in Byte : shared = EmptyPool(filler)
    BY DEF PoolInit
  <2>2. UsedSlots(shared) \cap Handle = {} /\ UsedMemory(shared) = 0
    BY <2>1, EmptyPoolSound, Slots
  <2>3. Blocks(shared) = << >>
    <3>1. << >> \in [1 .. 0 -> {}] /\ 1 .. 0 = {}
      BY EmptySeq
    <3> QED
      BY <2>2, <3>1
  <2> QED
    BY <2>2, <2>3 DEF PoolInit, Store!Init
<1>2. PoolInv /\ [PoolNext]_<<shared, result>>
      => [Store!Next]_<<Blocks(shared), UsedMemory(shared), result>>
  <2> SUFFICES ASSUME PoolInv, [PoolNext]_<<shared, result>>
               PROVE  Store!Next \/ /\ Blocks(shared)' = Blocks(shared)
                                    /\ UsedMemory(shared)' = UsedMemory(shared)
                                    /\ result' = result
    OBVIOUS
  <2>1. MemorySound(shared, Byte)
    BY DEF PoolInv
  <2>2. Store!InUse = UsedSlots(shared) \cap Handle
    BY DEF Store!InUse
  <2>3. FreeHandles(shared) = Handle \ Store!InUse
    BY <2>2, Slots DEF FreeHandles, UsedSlots
  <2>4. ASSUME NEW size \in Size, NEW byte \in Byte, Allocate(size, byte)
        PROVE  Store!Next
    <3> DEFINE a == AllocMemory(shared, size)
    <3>1. /\ result' = a.block
          /\ shared' = IF a.block = Null THEN a.pool ELSE Pack(a.pool, a.block, byte)
      BY <2>4 DEF Allocate
    <3>2. size \in Nat \ {0}
      BY SizeAssumption
    <3>3. /\ Answer(shared, a, Byte, size)
          /\ a.block = Null <=> \/ size > max_block_size
                                \/ UsedMemory(shared) + size > memory_size
                                \/ FreeHandles(shared) = {}
      BY <2>1, <3>2, AllocMemoryWorks
    <3>4. a = AllocMemory(shared, size)
      OBVIOUS
    <3> HIDE DEF a
    <3>5. Store!Room(size) <=> a.block # Null
      <4>1. UsedMemory(shared) \in Nat /\ size \in Nat /\ memory_size \in Nat /\ max_block_size \in Nat
        BY <2>1, <3>2, UsedMemoryCounts, PoolAssumption
      <4>2. Store!InUse # Handle <=> FreeHandles(shared) # {}
        BY <2>2, <2>3
      <4> QED
        BY <3>3, <4>1, <4>2 DEF Store!Room
    <3>6. CASE a.block = Null
      <4>1. shared' = a.pool /\ SameBlocks(shared, shared')
        BY <3>1, <3>3, <3>6 DEF Answer
      <4>2. /\ UsedSlots(shared') = UsedSlots(shared)
            /\ \A i \in UsedSlots(shared) : shared'.table[i].memory_size = shared.table[i].memory_size
            /\ \A h \in UsedSlots(shared) : Contents(shared', h) = Contents(shared, h)
        BY <2>1, <4>1, UsedFinite DEF SameBlocks
      <4>3. UsedMemory(shared') = UsedMemory(shared)
        BY <4>2, UsedMemoryStays
      <4>4. Blocks(shared') = Blocks(shared)
        BY <4>2
      <4>5. Store!Refuse(size)
        BY <3>1, <3>5, <3>6, <4>3, <4>4 DEF Store!Refuse
      <4> QED
        BY <4>5 DEF Store!Next
    <3>7. CASE a.block # Null
      <4> DEFINE h == a.block
      <4>1. shared' = Pack(a.pool, h, byte)
        BY <3>1, <3>7
      <4>2. Added(shared, shared', h, size, byte)
        BY <2>1, <3>2, <3>4, <3>7, <4>1, PackedBlock
      <4>3. h = Min(Handle \ Store!InUse) /\ h = result'
        BY <2>3, <3>1, <4>2 DEF Added
      <4>4. h = Store!Min(Handle \ Store!InUse)
        BY <4>3 DEF Min, Store!Min
      <4> HIDE DEF h
      <4>5. Blocks(shared') = [g \in Store!InUse \cup {h} |->
                                 IF g = h THEN [i \in 1 .. size |-> byte] ELSE Blocks(shared)[g]]
        <5>1. UsedSlots(shared') \cap Handle = Store!InUse \cup {h}
          BY <2>2, <4>2 DEF Added
        <5>2. \A g \in Store!InUse : Blocks(shared)[g] = Contents(shared', g) /\ g # h
          BY <2>2, <4>2 DEF Added
        <5>3. Contents(shared', h) = [i \in 1 .. size |-> byte]
          BY <4>2 DEF Added
        <5> QED
          BY <5>1, <5>2, <5>3
      <4>6. UsedMemory(shared') = UsedMemory(shared) + size
        BY <4>2 DEF Added
      <4>7. Store!Allocate(size, byte)
        BY <3>5, <3>7, <4>3, <4>4, <4>5, <4>6 DEF Store!Allocate
      <4> QED
        BY <4>7 DEF Store!Next
    <3> QED
      BY <3>6, <3>7
  <2>5. ASSUME NEW h \in Handle, Free(h)
        PROVE  Store!Next
    <3>1. Used(shared, h) /\ shared' = FreeMemory(shared, h) /\ result' = result
      BY <2>5 DEF Free, Used
    <3>2. /\ UsedSlots(shared') = UsedSlots(shared) \ {h}
          /\ UsedMemory(shared') = UsedMemory(shared) - shared.table[h].memory_size
          /\ shared.table[h].memory_size \in Nat
          /\ \A g \in UsedSlots(shared') : Contents(shared', g) = Contents(shared, g)
      BY <2>1, <3>1, FreedBlock
    <3>3. h \in Store!InUse
      BY <2>2, <3>1, Slots DEF UsedSlots, Used
    <3>4. Cardinality(DOMAIN Blocks(shared)[h]) = shared.table[h].memory_size
      <4>1. DOMAIN Blocks(shared)[h] = 1 .. shared.table[h].memory_size
        BY <2>2, <3>3 DEF Contents
      <4>2. \A n \in Nat : Cardinality(1 .. n) = n
        BY FS_Interval
      <4> QED
        BY <3>2, <4>1, <4>2
    <3>5. Blocks(shared') = [g \in Store!InUse \ {h} |-> Blocks(shared)[g]]
      <4>1. UsedSlots(shared') \cap Handle = Store!InUse \ {h}
        BY <2>2, <3>2
      <4>2. \A g \in Store!InUse \ {h} : Blocks(shared)[g] = Contents(shared', g)
        BY <2>2, <3>2
      <4> QED
        BY <4>1, <4>2
    <3>6. Store!Free(h)
      BY <3>1, <3>2, <3>4, <3>5 DEF Store!Free, Cardinality, Store!Cardinality
    <3> QED
      BY <3>3, <3>6 DEF Store!Next
  <2>6. CASE UNCHANGED <<shared, result>>
    BY <2>6
  <2> QED
    BY <2>4, <2>5, <2>6 DEF PoolNext
<1> QED
  BY <1>1, <1>2, PoolInvAlways, PTL DEF PoolSpec, ImplementsStore, Store!Spec

-----------------------------------------------------------------------------
(* The sessions of Protocol.                                                *)

(* Whatever the pool holds, an allocation answers a handle or Null.         *)
LEMMA TakeEntryBlock ==
    ASSUME NEW p, NEW ptr, NEW size
    PROVE  TakeEntry(p, ptr, size).block \in BlockPtr
<1> DEFINE free == {i \in Handle : ~p.table[i].usage_flag}
<1>1. CASE free = {}
  BY <1>1 DEF TakeEntry, BlockPtr
<1>2. CASE free # {}
  <2>1. free \in SUBSET Nat
    BY PoolAssumption DEF Handle
  <2>2. Min(free) \in Handle
    BY <1>2, <2>1, MinInSet
  <2> QED
    BY <1>2, <2>2 DEF TakeEntry, BlockPtr
<1> QED
  BY <1>1, <1>2

LEMMA AllocMemoryBlock ==
    ASSUME NEW p, NEW size
    PROVE  AllocMemory(p, size).block \in BlockPtr
<1>1. Null \in BlockPtr /\ 1 \in BlockPtr
  BY PoolAssumption DEF BlockPtr, Handle
<1> QED
  BY <1>1, TakeEntryBlock DEF AllocMemory

(* AllocCMDSession gives a session that suits the mode.                     *)
LEMMA SessionSuitsMode ==
    ASSUME NEW mode \in SendModes, FreeSessions(mode) # {}
    PROVE  [session |-> Min(FreeSessions(mode)), mode |-> mode] \in Packing
<1>1. mode \in {"SESSION_0", "SESSION_1", "AUTO"} /\ SESSION_TABLE_NUM \in Nat
  BY ProtocolAssumption
<1>2. FreeSessions(mode) \in SUBSET Nat
  BY <1>1 DEF FreeSessions, Session
<1>3. Min(FreeSessions(mode)) \in FreeSessions(mode)
  BY <1>2, MinInSet
<1>4. CASE mode = "SESSION_0"
  BY <1>3, <1>4 DEF FreeSessions, Packing
<1>5. CASE mode = "SESSION_1"
  BY <1>3, <1>5 DEF FreeSessions, Packing
<1>6. CASE mode = "AUTO"
  BY <1>1, <1>3, <1>6 DEF FreeSessions, Session, Packing
<1> QED
  BY <1>1, <1>4, <1>5, <1>6

-----------------------------------------------------------------------------
(* Types of the sessions.                                                   *)

LEMMA SeqInWidth ==
    ASSUME NEW q \in Seq_num
    PROVE  (q + 1) % SeqWidth \in Seq_num /\ (q + 1) % SeqWidth # q
<1>1. SeqWidth \in Nat /\ SeqWidth > 1
  BY ProtocolAssumption
<1>2. CASE q = SeqWidth - 1
  <2>1. SeqWidth % SeqWidth = 0
    BY <1>1
  <2> QED
    BY <1>1, <1>2, <2>1 DEF Seq_num
<1>3. CASE q # SeqWidth - 1
  <2>1. q + 1 \in 0 .. SeqWidth - 1
    BY <1>1, <1>3 DEF Seq_num
  <2>2. (q + 1) % SeqWidth = q + 1
    BY <1>1, <2>1
  <2> QED
    BY <1>1, <2>1, <2>2 DEF Seq_num
<1> QED
  BY <1>2, <1>3

LEMMA NextSeqInWidth ==
    ASSUME SessionsTyped, NEW i
    PROVE  NextSeq(i) \in Seq_num
BY SeqInWidth DEF NextSeq, SessionsTyped

SessionType == [usage_flag : BOOLEAN, memory_block_ptr : BlockPtr,
                request : 0 .. MaxRequests, sent : Nat, retry_time : Nat,
                due : BOOLEAN, pre_seq_num : 0 .. SeqWidth]

LEMMA InitTyped == Init => SessionsTyped
<1> SUFFICES ASSUME Init
             PROVE  SessionsTyped
  OBVIOUS
<1>1. PICK old_retry \in {0, 1}, old_seq \in {0, SeqWidth} :
        cmd_session_table =
             [i \in Session |-> [usage_flag |-> FALSE, memory_block_ptr |-> Null,
                                 request |-> 0, sent |-> 0, retry_time |-> old_retry,
                                 due |-> TRUE, pre_seq_num |-> old_seq]]
  BY DEF Init
<1>2. Null \in BlockPtr /\ 0 \in 0 .. MaxRequests /\ old_seq \in 0 .. SeqWidth
  BY ProtocolAssumption DEF BlockPtr
<1>3. cmd_session_table \in [Session -> SessionType]
  BY <1>1, <1>2 DEF SessionType
<1>4. 0 \in Seq_num /\ 0 \in Session
  BY ProtocolAssumption DEF Seq_num, Session
<1> QED
  BY <1>2, <1>3, <1>4 DEF Init, SessionsTyped, SessionType

(* The request of every session and its number stay what they are.          *)
NumbersStay ==
    \A j \in Session : /\ cmd_session_table'[j].request = cmd_session_table[j].request
                        /\ cmd_session_table'[j].pre_seq_num = cmd_session_table[j].pre_seq_num

(* Freeing a session changes its flag and nothing else.                     *)
LEMMA FreeCMDSessionTyped ==
    ASSUME SessionsTyped, NEW i, FreeCMDSession(i)
    PROVE  cmd_session_table' \in [Session -> SessionType] /\ NumbersStay
<1>1. cmd_session_table \in [Session -> SessionType]
  BY DEF SessionsTyped, SessionType
<1>2. CASE cmd_session_table' = cmd_session_table
  BY <1>1, <1>2 DEF NumbersStay
<1>3. CASE cmd_session_table' = [cmd_session_table EXCEPT ![i].usage_flag = FALSE]
  <2>1. CASE i \in Session
    BY <1>1, <1>3, <2>1 DEF SessionType, NumbersStay
  <2>2. CASE i \notin Session
    <3>1. cmd_session_table' = cmd_session_table
      BY <1>1, <1>3, <2>2
    <3> QED
      BY <1>1, <3>1 DEF NumbersStay
  <2> QED
    BY <2>1, <2>2
<1> QED
  BY <1>2, <1>3 DEF FreeCMDSession

(* Every step but PackAndSend keeps the types and the numbers.              *)
LEMMA OtherSteps ==
    ASSUME SessionsTyped, Next, ~PackAndSend
    PROVE  SessionsTyped' /\ NumbersStay
<1> DEFINE Typed == cmd_session_table' \in [Session -> SessionType] /\ NumbersStay
<1>t. cmd_session_table \in [Session -> SessionType]
  BY DEF SessionsTyped, SessionType
<1>u. ASSUME UNCHANGED cmd_session_table
      PROVE  Typed
  BY <1>t, <1>u DEF NumbersStay
<1>s. AckSession \subseteq Session /\ 0 \in Session
  BY ProtocolAssumption DEF AckSession, Session
<1>1. ASSUME NEW mode \in SendModes, SendCMD(mode)
      PROVE  SessionsTyped' /\ NumbersStay
  <2> DEFINE i == Min(FreeSessions(mode))
  <2>1. requests' \in 0 .. MaxRequests
    BY <1>1, ProtocolAssumption DEF SendCMD, SessionsTyped
  <2>2. CASE FreeSessions(mode) = {}
    BY <1>1, <1>u, <2>1, <2>2 DEF SendCMD, SessionsTyped, SessionType
  <2>3. CASE FreeSessions(mode) # {}
    <3>1. [session |-> i, mode |-> mode] \in Packing
      BY <2>3, SessionSuitsMode
    <3>2. i \in Session
      BY <3>1, ProtocolAssumption DEF Packing, Session
    <3>3. cmd_session_table' = [cmd_session_table EXCEPT ![i].usage_flag = TRUE]
      BY <1>1, <2>3 DEF SendCMD
    <3>4. Typed
      BY <1>t, <3>2, <3>3 DEF SessionType, NumbersStay
    <3>5. UNCHANGED <<seq_num_, poll>> /\ packing' = [session |-> i, mode |-> mode]
      BY <1>1, <2>3 DEF SendCMD
    <3> QED
      BY <2>1, <3>1, <3>4, <3>5 DEF SessionsTyped, SessionType
  <2> QED
    BY <2>2, <2>3
<1>2. ASSUME NEW k \in DOMAIN inbox, SendACK(k)
      PROVE  SessionsTyped' /\ NumbersStay
  BY <1>2, <1>u DEF SendACK, SessionsTyped, SessionType
<1>3. ASSUME NEW i \in AckSession, Timeout(i)
      PROVE  SessionsTyped' /\ NumbersStay
  <2>1. Typed
    BY <1>3, <1>s, <1>t DEF Timeout, SessionType, NumbersStay
  <2> QED
    BY <1>3, <2>1 DEF Timeout, SessionsTyped, SessionType
<1>4. ASSUME NEW i \in AckSession, PollCheck(i)
      PROVE  SessionsTyped' /\ NumbersStay
  BY <1>4, <1>s, <1>u DEF PollCheck, tables, SessionsTyped, SessionType
<1>5. CASE PollGiveUp
  <2>1. Typed
    BY <1>5, FreeCMDSessionTyped DEF PollGiveUp
  <2> QED
    BY <1>5, <1>s, <2>1 DEF PollGiveUp, SessionsTyped, SessionType
<1>6. CASE PollResend
  <2>1. poll \in Session
    BY DEF SessionsTyped
  <2> DEFINE sent == IF cmd_session_table[poll].retry_time > 0
                     THEN cmd_session_table[poll].sent + 1 ELSE cmd_session_table[poll].sent
  <2>2. sent \in Nat
    BY <1>t, <2>1 DEF SessionType
  <2>3. cmd_session_table' =
          [cmd_session_table EXCEPT ![poll].due = FALSE, ![poll].sent = sent]
    BY <1>6, <1>t, <2>1 DEF PollResend, SessionType
  <2> HIDE DEF sent
  <2>4. Typed
    BY <1>t, <2>1, <2>2, <2>3 DEF SessionType, NumbersStay
  <2> QED
    BY <1>6, <1>s, <2>4 DEF PollResend, SessionsTyped, SessionType
<1>7. CASE ReceiveAck
  BY <1>7, <1>u DEF ReceiveAck, tables, SessionsTyped, SessionType
<1>8. CASE CompleteSession
  <2>1. Typed
    BY <1>8, <1>u, FreeCMDSessionTyped DEF CompleteSession
  <2> QED
    BY <1>8, <2>1 DEF CompleteSession, SessionsTyped, SessionType
<1>9. CASE CommandArrives
  BY <1>9, <1>u DEF CommandArrives, SessionsTyped, SessionType
<1>10. CASE PeerReceive
  BY <1>10, <1>u DEF PeerReceive, tables, SessionsTyped, SessionType
<1>11. ASSUME NEW p \in Peers, NEW i \in PeerSessions, PeerCommand(p, i)
       PROVE  SessionsTyped' /\ NumbersStay
  BY <1>11, <1>u DEF PeerCommand, tables, SessionsTyped, SessionType
<1>12. ASSUME NEW p \in Peers, PeerRepeat(p)
       PROVE  SessionsTyped' /\ NumbersStay
  BY <1>12, <1>u DEF PeerRepeat, tables, SessionsTyped, SessionType
<1> QED
  BY <1>1, <1>2, <1>3, <1>4, <1>5, <1>6, <1>7, <1>8, <1>9, <1>10, <1>11, <1>12
  DEF Next, ReceiveMessage, ReceiveFirst, ReceiveBusy, ReceiveRepeated, ReceiveNew

-----------------------------------------------------------------------------
(* SendCMD packs a request: the one step that gives a session a number.     *)

Moves ==
    \A i \in AckSession :
         cmd_session_table'[i].request # cmd_session_table[i].request =>
             cmd_session_table'[i].pre_seq_num # cmd_session_table[i].pre_seq_num

LEMMA NextSeqIsNew ==
    ASSUME SessionsTyped, NEW i, packing.mode # "SESSION_0"
    PROVE  NextSeq(i) # cmd_session_table[i].pre_seq_num
BY SeqInWidth DEF NextSeq, SessionsTyped

LEMMA PackStep ==
    ASSUME SessionsTyped, PackAndSend
    PROVE  SessionsTyped' /\ Moves
<1> DEFINE i == packing.session
           a == AllocMemory(pool, 1)
           q == NextSeq(i)
<1>1. packing \in Packing /\ packing' = Idle /\ UNCHANGED <<poll, requests>>
  BY DEF PackAndSend, LockFree, SessionsTyped
<1>2. i \in Session /\ (packing.mode = "SESSION_0" => i = 0)
  BY <1>1, ProtocolAssumption DEF Packing, Session
<1>3. cmd_session_table \in [Session -> SessionType]
  BY DEF SessionsTyped, SessionType
<1>4. a.block \in BlockPtr
  BY AllocMemoryBlock
<1>5. q \in Seq_num /\ (q + 1) % SeqWidth \in Seq_num
  BY NextSeqInWidth, SeqInWidth
<1>6. AckSession \subseteq Session /\ 0 \notin AckSession
  BY ProtocolAssumption DEF AckSession, Session
<1> HIDE DEF a, q, i
<1>7. CASE a.block = Null
  <2>1. /\ cmd_session_table' = [cmd_session_table EXCEPT ![i].usage_flag = FALSE]
        /\ seq_num_' = seq_num_
    BY <1>7 DEF PackAndSend, a, i
  <2>2. cmd_session_table' \in [Session -> SessionType] /\ Moves
    BY <1>2, <1>3, <1>6, <2>1 DEF SessionType, Moves
  <2> QED
    BY <1>1, <2>1, <2>2 DEF SessionsTyped, SessionType
<1>8. CASE a.block # Null /\ packing.mode = "SESSION_0"
  <2>1. /\ cmd_session_table' = [cmd_session_table EXCEPT ![i].usage_flag = FALSE,
                                                         ![i].memory_block_ptr = a.block]
        /\ seq_num_' = (q + 1) % SeqWidth
    BY <1>8 DEF PackAndSend, a, i, q
  <2>2. cmd_session_table' \in [Session -> SessionType] /\ Moves
    BY <1>2, <1>3, <1>4, <1>6, <1>8, <2>1 DEF SessionType, Moves
  <2> QED
    BY <1>1, <1>5, <2>1, <2>2 DEF SessionsTyped, SessionType
<1>9. CASE a.block # Null /\ packing.mode # "SESSION_0"
  <2>1. /\ \E retry \in (IF packing.mode = "SESSION_1" THEN {1} ELSE RetryTime) :
              cmd_session_table' =
                  [cmd_session_table EXCEPT ![i] =
                     [usage_flag |-> TRUE, memory_block_ptr |-> a.block,
                      request |-> requests, sent |-> 1, retry_time |-> retry,
                      due |-> FALSE, pre_seq_num |-> q]]
        /\ seq_num_' = (q + 1) % SeqWidth
    BY <1>9 DEF PackAndSend, a, i, q
  <2>2. PICK retry \in Nat :
              cmd_session_table' =
                  [cmd_session_table EXCEPT ![i] =
                     [usage_flag |-> TRUE, memory_block_ptr |-> a.block,
                      request |-> requests, sent |-> 1, retry_time |-> retry,
                      due |-> FALSE, pre_seq_num |-> q]]
    BY <2>1, ProtocolAssumption
  <2>3. requests \in 0 .. MaxRequests /\ q \in 0 .. SeqWidth
    BY <1>5, ProtocolAssumption DEF SessionsTyped, Seq_num
  <2>4. cmd_session_table' \in [Session -> SessionType]
    BY <1>2, <1>3, <1>4, <2>2, <2>3 DEF SessionType
  <2>5. q # cmd_session_table[i].pre_seq_num
    BY <1>9, NextSeqIsNew DEF q
  <2>6. Moves
    BY <1>2, <1>3, <1>6, <2>2, <2>5 DEF Moves
  <2> QED
    BY <1>1, <1>5, <2>1, <2>4, <2>6 DEF SessionsTyped, SessionType
<1> QED
  BY <1>7, <1>8, <1>9

LEMMA StepTyped == SessionsTyped /\ [Next]_vars => SessionsTyped' /\ [Moves]_vars
<1>1. ASSUME SessionsTyped, PackAndSend
      PROVE  SessionsTyped' /\ Moves
  BY <1>1, PackStep
<1>2. ASSUME SessionsTyped, Next, ~PackAndSend
      PROVE  SessionsTyped' /\ Moves
  <2>1. AckSession \subseteq Session
    BY ProtocolAssumption DEF AckSession, Session
  <2> QED
    BY <1>2, <2>1, OtherSteps DEF NumbersStay, Moves
<1>3. ASSUME SessionsTyped, UNCHANGED vars
      PROVE  SessionsTyped'
  BY <1>3 DEF vars, tables, SessionsTyped
<1> QED
  BY <1>1, <1>2, <1>3

(* The sessions keep their types: the sequence number stays in its width,   *)
(* the lock is held for a session that suits its mode, and AllocCMDSession  *)
(* and AllocMemory give what exists, whatever the line and the peers do.    *)
THEOREM SessionsStayTyped == Spec => []SessionsTyped
<1> QED
  BY InitTyped, StepTyped, PTL DEF Spec

(* Two requests that follow one another in a session differ in their        *)
(* sequence number (pre_seq_num in SendCMD), across the wrap of the number, *)
(* for every width, every number of sessions and every size of the memory.  *)
THEOREM SequenceNumbersMove == Spec => SequenceMoves
<1>1. Spec => [][Moves]_vars
  BY InitTyped, StepTyped, PTL DEF Spec
<1> QED
  BY <1>1 DEF SequenceMoves, Moves

-----------------------------------------------------------------------------
(* Packets and the memory that holds them.                                  *)

(* The number of the next request; while one is being packed, its own.      *)
Fresh == IF LockFree THEN requests + 1 ELSE requests

(* Packets that memory can hold: of the requests, only those handed out.    *)
PacketsBelow(n) == {p \in PacketType : ~p.is_ack => p.number < n}

AckType == [session_status : {"IDLE", "PROCESS", "USING"}, memory_block_ptr : BlockPtr]

(* Packets of the sessions with acks, and what comes from the line.         *)
InSession == {p \in PacketType : p.session_id # 0}
Incoming  == {p \in PacketType : p.is_ack => p.session_id # 0}

(* What makes TypeOK inductive: a sound pool, and typed packets in it and   *)
(* on the line.                                                             *)
ITyped ==
    /\ SessionsTyped
    /\ MemorySound(pool, PacketsBelow(Fresh))
    /\ ack_session_table \in [AckSession -> AckType]
    /\ recv \in InSession \cup {NoPacket}
    /\ inbox \in Seq(InSession)
    /\ to_peer \in Seq(PacketType) /\ from_peer \in Seq(Incoming)
    /\ peer \in [Peers -> PacketType]
    /\ transmitted \in [Request -> Nat] /\ answered \in [Request -> Nat]
    /\ delivered \in [Command -> Nat]
    /\ commands \in Nat
    /\ Fresh \in Nat \ {0}

(* What the owner of a block finds where memory_block_ptr leads.            *)
First(p, b) == p.memory[p.table[b].memory_ptr]

LEMMA Sessions ==
    /\ AckSession \subseteq Session /\ 0 \in Session /\ 0 \notin AckSession
    /\ Session \subseteq Nat /\ AckSession = Session \ {0}
    /\ Null \in BlockPtr /\ Null \notin Handle /\ Handle \subseteq BlockPtr
    /\ \A b \in BlockPtr : b # Null => b \in Handle
BY ProtocolAssumption, PoolAssumption DEF AckSession, Session, BlockPtr, Null, Handle

LEMMA SlotOfPtr ==
    ASSUME NEW b \in BlockPtr
    PROVE  b \in Slot /\ (b # Null => b \in Handle)
BY Slots DEF BlockPtr, Null

LEMMA IdleIsFree ==
    /\ Idle.session = 0 /\ Idle.mode = "none" /\ Idle \notin Packing
    /\ (packing = Idle <=> LockFree)
<1>1. Idle.session = 0 /\ Idle.mode = "none"
  BY DEF Idle
<1>2. \A p \in Packing : p.mode \in {"SESSION_0", "SESSION_1", "AUTO"}
  BY DEF Packing
<1> QED
  BY <1>1, <1>2 DEF LockFree

LEMMA PackingType ==
    ASSUME SessionsTyped, ~LockFree
    PROVE  /\ packing \in Packing /\ packing.session \in Session
           /\ (packing.mode = "SESSION_0" <=> packing.session = 0)
<1>1. packing \in Packing
  BY DEF SessionsTyped, LockFree
<1> QED
  BY <1>1, ProtocolAssumption DEF Packing, Session

LEMMA Devices ==
    /\ Requested \in Peers /\ Local \in Peers \cup {Local}
    /\ 0 \in Seq_num /\ NoPacket \in PacketType /\ NoPacket.number = 0
    /\ ~NoPacket.is_ack /\ NoPacket.session_id = 0
    /\ PeerSessions \subseteq Session
<1>1. Requested \in Peers /\ PeerSessions \subseteq Session
  BY ProtocolAssumption DEF Requested, Session
<1>2. 0 \in Seq_num
  BY ProtocolAssumption DEF Seq_num
<1>3. Local \in Peers \cup {Local}
  OBVIOUS
<1>4. /\ NoPacket \in PacketType /\ ~NoPacket.is_ack /\ NoPacket.session_id = 0
      /\ NoPacket.number = 0
  BY <1>2, <1>3, Sessions DEF NoPacket, Packet, PacketType
<1> QED
  BY <1>1, <1>2, <1>3, <1>4

LEMMA WireTyped ==
    ASSUME NEW S, NEW q \in Seq(S), NEW p \in S
    PROVE  Wire(q, p) \in Seq(S) /\ (Wire(q, p) = q \/ Wire(q, p) = Append(q, p))
BY DEF Wire

LEMMA Concatenated ==
    ASSUME NEW S, NEW a \in Seq(S), NEW b \in Seq(S)
    PROVE  /\ a \o b \in Seq(S) /\ Len(a \o b) = Len(a) + Len(b)
           /\ \A m \in 1 .. Len(a) + Len(b) :
                (a \o b)[m] = IF m <= Len(a) THEN a[m] ELSE b[m - Len(a)]
OBVIOUS

(* SendACK takes a command out of the inbox.                                *)
LEMMA RemoveAtWorks ==
    ASSUME NEW S, NEW s \in Seq(S), NEW k \in DOMAIN s, NEW t, t = RemoveAt(s, k)
    PROVE  /\ t \in Seq(S) /\ Len(t) = Len(s) - 1
           /\ \A m \in DOMAIN t : \/ m \in DOMAIN s /\ m # k /\ m < k /\ t[m] = s[m]
                                  \/ m + 1 \in DOMAIN s /\ m + 1 > k /\ t[m] = s[m + 1]
<1> DEFINE a == SubSeq(s, 1, k - 1)
           b == SubSeq(s, k + 1, Len(s))
<1>1. Len(s) \in Nat /\ k \in 1 .. Len(s) /\ \A m \in 1 .. Len(s) : s[m] \in S
  OBVIOUS
<1>2. a \in Seq(S) /\ Len(a) = k - 1 /\ \A m \in 1 .. k - 1 : a[m] = s[m]
  BY <1>1
<1>3. b \in Seq(S) /\ Len(b) = Len(s) - k /\ \A m \in 1 .. Len(s) - k : b[m] = s[m + k]
  BY <1>1
<1>4. t = a \o b
  BY DEF RemoveAt
<1> HIDE DEF a, b
<1>5. /\ t \in Seq(S) /\ Len(t) = Len(s) - 1
      /\ \A m \in 1 .. Len(s) - 1 : t[m] = IF m <= k - 1 THEN a[m] ELSE b[m - (k - 1)]
  <2>1. /\ a \o b \in Seq(S) /\ Len(a \o b) = Len(a) + Len(b)
        /\ \A m \in 1 .. Len(a) + Len(b) :
             (a \o b)[m] = IF m <= Len(a) THEN a[m] ELSE b[m - Len(a)]
    BY <1>2, <1>3, Concatenated
  <2>2. Len(a) + Len(b) = Len(s) - 1 /\ Len(a) = k - 1
    BY <1>1, <1>2, <1>3
  <2>3. /\ a \o b \in Seq(S) /\ Len(a \o b) = Len(s) - 1
        /\ \A m \in 1 .. Len(s) - 1 : (a \o b)[m] = IF m <= k - 1 THEN a[m] ELSE b[m - (k - 1)]
    BY <2>1, <2>2
  <2> QED
    BY <1>4, <2>3
<1>6. ASSUME NEW m \in 1 .. Len(s) - 1
      PROVE  \/ m \in DOMAIN s /\ m # k /\ m < k /\ t[m] = s[m]
             \/ m + 1 \in DOMAIN s /\ m + 1 > k /\ t[m] = s[m + 1]
  <2>1. CASE m <= k - 1
    <3>1. m \in 1 .. k - 1 /\ m < k /\ m \in DOMAIN s
      BY <1>1, <2>1
    <3>2. t[m] = a[m]
      BY <1>5, <2>1
    <3> QED
      BY <1>2, <3>1, <3>2
  <2>2. CASE ~(m <= k - 1)
    <3>1. m - (k - 1) \in 1 .. Len(s) - k /\ m - (k - 1) + k = m + 1
      BY <1>1, <2>2
    <3>2. t[m] = s[m + 1]
      BY <1>3, <1>5, <2>2, <3>1
    <3> QED
      BY <1>1, <2>2, <3>2
  <2> QED
    BY <2>1, <2>2
<1> QED
  BY <1>1, <1>5, <1>6

(* Reading through a pointer: always some packet, and the owner's own while *)
(* its contents stay.                                                       *)
LEMMA FirstTyped ==
    ASSUME NEW p, NEW B, MemorySound(p, B), NEW b \in BlockPtr
    PROVE  First(p, b) \in B
<1>1. b = Null \/ b \in Handle
  BY DEF BlockPtr
<1>2. b \in Slot
  BY SlotOfPtr
<1>3. p.table[b].memory_ptr \in Nat /\ p.table[b].memory_ptr < memory_size
  <2>1. p.table[b].memory_ptr \in Nat
    BY <1>2, EntryTypes DEF MemorySound
  <2>2. CASE b = Null
    <3>1. p.table[b].memory_ptr = 0
      BY <2>2 DEF MemorySound, Block, Null
    <3> QED
      BY <2>1, <3>1, Slots
  <2>3. CASE b \in Handle
    BY <2>1, <2>3 DEF MemorySound
  <2> QED
    BY <1>1, <2>2, <2>3
<1>4. p.table[b].memory_ptr \in Cell
  BY <1>3, Slots DEF Cell
<1> QED
  BY <1>4 DEF First, MemorySound, PoolType

LEMMA MemoryWidens ==
    ASSUME NEW p, NEW B, MemorySound(p, B), NEW C, B \subseteq C
    PROVE  MemorySound(p, C)
<1>1. p \in PoolType(C)
  BY DEF MemorySound, PoolType
<1> QED
  BY <1>1 DEF MemorySound

LEMMA FirstIsContents ==
    ASSUME NEW p, NEW B, MemorySound(p, B), NEW h \in Handle, h \in UsedSlots(p)
    PROVE  First(p, h) = Contents(p, h)[1]
<1>1. h \in Slot /\ p.table[h].memory_ptr \in Nat /\ p.table[h].memory_size \in Nat
  BY UsedFinite, EntryTypes DEF MemorySound
<1>2. p.table[h].memory_size > 0
  BY DEF MemorySound, UsedSlots, Used
<1>3. 1 \in 1 .. p.table[h].memory_size
  BY <1>1, <1>2
<1>4. p.table[h].memory_ptr + 1 - 1 = p.table[h].memory_ptr
  BY <1>1
<1>5. Contents(p, h)[1] = p.memory[p.table[h].memory_ptr + 1 - 1]
  BY <1>3 DEF Contents
<1> QED
  BY <1>4, <1>5 DEF First

(* Every block in use that keeps its contents keeps its packet.             *)
LEMMA FirstStays ==
    ASSUME NEW p, NEW q, NEW B, MemorySound(p, B), NEW C, MemorySound(q, C),
           NEW h \in Handle, h \in UsedSlots(p), h \in UsedSlots(q),
           Contents(q, h) = Contents(p, h)
    PROVE  First(q, h) = First(p, h)
BY FirstIsContents

-----------------------------------------------------------------------------
(* What the three places that allocate and free do to the memory.           *)

BlocksUsed(p) == UsedSlots(p) \cap Handle

(* The blocks of G and their packets.                                       *)
SamePackets(p, q, G) == \A g \in G : First(q, g) = First(p, g)

(* A block of its own for a packet, and nothing else changed.               *)
NewPacket(p, q, b, packet) ==
    /\ b \in Handle /\ b \notin BlocksUsed(p)
    /\ BlocksUsed(q) = BlocksUsed(p) \cup {b}
    /\ First(q, b) = packet
    /\ SamePackets(p, q, BlocksUsed(p))

LEMMA AllocatedPacket ==
    ASSUME NEW p, NEW B, MemorySound(p, B), NEW size \in Nat \ {0}, NEW packet \in B,
           NEW a, a = AllocMemory(p, size)
    PROVE  /\ a.block = Null => /\ MemorySound(a.pool, B)
                                /\ BlocksUsed(a.pool) = BlocksUsed(p)
                                /\ SamePackets(p, a.pool, BlocksUsed(p))
           /\ a.block # Null => /\ MemorySound(Pack(a.pool, a.block, packet), B)
                                /\ NewPacket(p, Pack(a.pool, a.block, packet), a.block, packet)
<1>1. Answer(p, a, B, size)
  BY AllocMemoryWorks
<1>2. ASSUME a.block = Null
      PROVE  /\ MemorySound(a.pool, B) /\ BlocksUsed(a.pool) = BlocksUsed(p)
             /\ SamePackets(p, a.pool, BlocksUsed(p))
  <2>1. MemorySound(a.pool, B) /\ SameBlocks(p, a.pool)
    BY <1>1, <1>2 DEF Answer
  <2>2. UsedSlots(a.pool) = UsedSlots(p)
    BY <2>1 DEF SameBlocks
  <2>3. ASSUME NEW g \in BlocksUsed(p)
        PROVE  First(a.pool, g) = First(p, g)
    <3>1. g \in Handle /\ g \in UsedSlots(p) /\ Contents(a.pool, g) = Contents(p, g)
      BY <2>1 DEF SameBlocks, BlocksUsed
    <3> QED
      BY <2>1, <2>2, <3>1, FirstStays
  <2> QED
    BY <2>1, <2>2, <2>3 DEF BlocksUsed, SamePackets
<1>3. ASSUME a.block # Null, NEW q, q = Pack(a.pool, a.block, packet)
      PROVE  MemorySound(q, B) /\ NewPacket(p, q, a.block, packet)
  <2>1. MemorySound(q, B) /\ Added(p, q, a.block, size, packet)
    BY <1>3, PackedBlock
  <2>2. /\ a.block \in Handle /\ a.block \notin UsedSlots(p)
        /\ UsedSlots(q) = UsedSlots(p) \cup {a.block} /\ First(q, a.block) = packet
        /\ \A g \in UsedSlots(p) : Contents(q, g) = Contents(p, g)
    BY <2>1 DEF Added, First
  <2>3. ASSUME NEW g \in BlocksUsed(p)
        PROVE  First(q, g) = First(p, g)
    <3>1. g \in Handle /\ g \in UsedSlots(p) /\ g \in UsedSlots(q) /\ Contents(q, g) = Contents(p, g)
      BY <2>2 DEF BlocksUsed
    <3> QED
      BY <2>1, <3>1, FirstStays
  <2> QED
    BY <2>1, <2>2, <2>3 DEF NewPacket, BlocksUsed, SamePackets
<1> QED
  BY <1>2, <1>3

LEMMA FreedPacket ==
    ASSUME NEW p, NEW B, MemorySound(p, B), NEW b \in BlockPtr,
           NEW q, q = FreeMemory(p, b)
    PROVE  /\ MemorySound(q, B) /\ BlocksUsed(q) = BlocksUsed(p) \ {b}
           /\ SamePackets(p, q, BlockPtr)
<1>1. /\ MemorySound(q, B) /\ UsedSlots(q) = UsedSlots(p) \ ({b} \cap Handle)
      /\ q.memory = p.memory
      /\ \A i \in Slot : q.table[i].memory_ptr = p.table[i].memory_ptr
  BY FreeMemoryWorks
<1>2. BlocksUsed(q) = BlocksUsed(p) \ {b}
  BY <1>1 DEF BlocksUsed
<1>3. SamePackets(p, q, BlockPtr)
  BY <1>1, SlotOfPtr DEF SamePackets, First
<1> QED
  BY <1>1, <1>2, <1>3

(* FreeCMDSession unuses a session and, if it was used, frees its block.    *)
LEMMA FreeCMDSessionWorks ==
    ASSUME ITyped, NEW i \in Session, FreeCMDSession(i),
           NEW s, s = cmd_session_table[i]
    PROVE  /\ MemorySound(pool', PacketsBelow(Fresh))
           /\ BlocksUsed(pool') = IF s.usage_flag THEN BlocksUsed(pool) \ {s.memory_block_ptr}
                                  ELSE BlocksUsed(pool)
           /\ SamePackets(pool, pool', BlockPtr)
           /\ cmd_session_table' = [cmd_session_table EXCEPT ![i].usage_flag = FALSE]
<1>1. cmd_session_table \in [Session -> SessionType]
  BY DEF ITyped, SessionsTyped, SessionType
<1>2. s \in SessionType /\ s.usage_flag \in BOOLEAN /\ s.memory_block_ptr \in BlockPtr
  BY <1>1 DEF SessionType
<1>3. MemorySound(pool, PacketsBelow(Fresh))
  BY DEF ITyped
<1>4. CASE s.usage_flag
  <2>1. /\ pool' = FreeMemory(pool, s.memory_block_ptr)
        /\ cmd_session_table' = [cmd_session_table EXCEPT ![i].usage_flag = FALSE]
    BY <1>4 DEF FreeCMDSession
  <2> QED
    BY <1>2, <1>3, <1>4, <2>1, FreedPacket
<1>5. CASE ~s.usage_flag
  <2>1. pool' = pool /\ cmd_session_table' = cmd_session_table
    BY <1>5 DEF FreeCMDSession
  <2>2. [s EXCEPT !.usage_flag = FALSE] = s
    BY <1>2, <1>5 DEF SessionType
  <2>3. [cmd_session_table EXCEPT ![i].usage_flag = FALSE] = cmd_session_table
    BY <1>1, <2>2
  <2> QED
    BY <1>3, <1>5, <2>1, <2>3 DEF SamePackets
<1> QED
  BY <1>2, <1>4, <1>5

-----------------------------------------------------------------------------
(* SendCMD's second half and SendACK, by what becomes of their packets.     *)

Outgoing(i) == Packet(FALSE, i, NextSeq(i), Local, Requested, requests)

RequestRefused == PackAndSend /\ AllocMemory(pool, 1).block = Null

(* No memory: the session is given back.                                    *)
PackRefused(i) ==
    /\ BlocksUsed(pool') = BlocksUsed(pool) /\ SamePackets(pool, pool', BlocksUsed(pool))
    /\ cmd_session_table' = [cmd_session_table EXCEPT ![i].usage_flag = FALSE]
    /\ UNCHANGED <<seq_num_, to_peer, transmitted>>

(* Session 0: the block serves for the transmission only.                   *)
PackedAndFreed(i, b) ==
    /\ i = 0
    /\ BlocksUsed(pool') = BlocksUsed(pool) /\ SamePackets(pool, pool', BlocksUsed(pool))
    /\ cmd_session_table' = [cmd_session_table EXCEPT ![i].usage_flag = FALSE,
                                                      ![i].memory_block_ptr = b]
    /\ DeviceSend(Outgoing(i))

(* The session keeps its packet and a limit for its transmissions.          *)
PackedAndKept(i, b) ==
    /\ i # 0
    /\ NewPacket(pool, pool', b, Outgoing(i))
    /\ DeviceSend(Outgoing(i))
    /\ \E retry \in Nat :
         /\ retry = 1 \/ retry \in RetryTime
         /\ cmd_session_table' =
              [cmd_session_table EXCEPT ![i] =
                 [usage_flag |-> TRUE, memory_block_ptr |-> b, request |-> requests, sent |-> 1,
                  retry_time |-> retry, due |-> FALSE, pre_seq_num |-> NextSeq(i)]]

LEMMA PackEffect ==
    ASSUME ITyped, PackAndSend, NEW i, i = packing.session
    PROVE  /\ MemorySound(pool', PacketsBelow(requests + 1))
           /\ \/ RequestRefused /\ PackRefused(i)
              \/ ~RequestRefused /\ \E b \in Handle : PackedAndFreed(i, b)
              \/ ~RequestRefused /\ \E b \in Handle : PackedAndKept(i, b)
           /\ packing' = Idle /\ LockFree' /\ i \in Session
           /\ Outgoing(i) \in PacketType
           /\ ~Outgoing(i).is_ack /\ Outgoing(i).number = requests /\ Outgoing(i).session_id = i
<1> DEFINE a == AllocMemory(pool, 1)
           q == NextSeq(i)
           p == Packet(FALSE, i, q, Local, Requested, requests)
           B == PacketsBelow(requests + 1)
<1>1. SessionsTyped /\ ~LockFree /\ packing' = Idle /\ requests \in Nat
  BY ProtocolAssumption DEF PackAndSend, ITyped, SessionsTyped
<1>2. i \in Session /\ (packing.mode = "SESSION_0" <=> i = 0)
  BY <1>1, PackingType
<1>3. q \in Seq_num
  BY <1>1, NextSeqInWidth
<1>4. Local \in Peers \cup {Local} /\ Requested \in Peers \cup {Local} /\ FALSE \in BOOLEAN
  BY Devices
<1> HIDE DEF q
<1>5. p \in PacketType /\ ~p.is_ack /\ p.number = requests /\ p.session_id = i
  BY <1>1, <1>2, <1>3, <1>4 DEF Packet, PacketType
<1>6. a = AllocMemory(pool, 1) /\ p = Outgoing(i) /\ 1 \in Nat \ {0}
  BY DEF Outgoing, q
<1>a. p \in B
  <2> HIDE DEF p
  <2>1. p.number < requests + 1
    BY <1>1, <1>5
  <2> QED
    BY <1>5, <2>1 DEF PacketsBelow
<1>7. MemorySound(pool, B)
  <2>1. Fresh = requests
    BY <1>1 DEF Fresh
  <2>2. PacketsBelow(Fresh) \subseteq B
    <3>1. \A r \in PacketType : r.number \in Nat
      BY DEF PacketType
    <3> QED
      BY <1>1, <2>1, <3>1 DEF PacketsBelow
  <2> QED
    BY <2>2, MemoryWidens DEF ITyped
<1>9. RequestRefused <=> a.block = Null
  BY DEF RequestRefused
<1>10. IF a.block = Null
       THEN /\ pool' = a.pool
            /\ cmd_session_table' = [cmd_session_table EXCEPT ![i].usage_flag = FALSE]
            /\ UNCHANGED <<seq_num_, to_peer, transmitted>>
       ELSE /\ DeviceSend(p)
            /\ seq_num_' = (q + 1) % SeqWidth
            /\ IF packing.mode = "SESSION_0"
               THEN /\ pool' = FreeMemory(Pack(a.pool, a.block, p), a.block)
                    /\ cmd_session_table' =
                         [cmd_session_table EXCEPT ![i].usage_flag = FALSE,
                                                   ![i].memory_block_ptr = a.block]
               ELSE /\ pool' = Pack(a.pool, a.block, p)
                    /\ \E retry \in (IF packing.mode = "SESSION_1" THEN {1} ELSE RetryTime) :
                         cmd_session_table' =
                             [cmd_session_table EXCEPT ![i] =
                                [usage_flag |-> TRUE, memory_block_ptr |-> a.block,
                                 request |-> requests, sent |-> 1, retry_time |-> retry,
                                 due |-> FALSE, pre_seq_num |-> q]]
  BY DEF PackAndSend, q
<1>11. LockFree'
  BY <1>1 DEF LockFree
<1> HIDE DEF a, p, B
<1>8. /\ a.block = Null => /\ MemorySound(a.pool, B)
                           /\ BlocksUsed(a.pool) = BlocksUsed(pool)
                           /\ SamePackets(pool, a.pool, BlocksUsed(pool))
      /\ a.block # Null => /\ MemorySound(Pack(a.pool, a.block, p), B)
                           /\ NewPacket(pool, Pack(a.pool, a.block, p), a.block, p)
  BY <1>6, <1>7, <1>a, AllocatedPacket
<1>12. Outgoing(i) = p
  BY <1>6
<1>13. a.block # Null => a.block \in Handle
  BY <1>8 DEF NewPacket
<1>14. CASE a.block = Null
  <2>1. MemorySound(pool', B) /\ PackRefused(i)
    BY <1>8, <1>10, <1>14 DEF PackRefused
  <2> QED
    BY <1>1, <1>2, <1>5, <1>9, <1>11, <1>12, <1>14, <2>1 DEF B
<1>15. CASE a.block # Null /\ packing.mode = "SESSION_0"
  <2> DEFINE t == Pack(a.pool, a.block, p)
  <2>1. MemorySound(t, B) /\ NewPacket(pool, t, a.block, p) /\ a.block \in BlockPtr /\ a.block \in Handle
    BY <1>8, <1>13, <1>15, Sessions
  <2>2. pool' = FreeMemory(t, a.block) /\ DeviceSend(p) /\ i = 0
        /\ cmd_session_table' = [cmd_session_table EXCEPT ![i].usage_flag = FALSE,
                                                         ![i].memory_block_ptr = a.block]
    BY <1>2, <1>10, <1>15
  <2> HIDE DEF t
  <2>3. /\ MemorySound(pool', B) /\ BlocksUsed(pool') = BlocksUsed(t) \ {a.block}
        /\ SamePackets(t, pool', BlockPtr)
    BY <2>1, <2>2, FreedPacket
  <2>4. BlocksUsed(pool') = BlocksUsed(pool)
    BY <2>1, <2>3 DEF NewPacket
  <2>5. SamePackets(pool, pool', BlocksUsed(pool))
    BY <2>1, <2>3, Sessions DEF NewPacket, SamePackets, BlocksUsed
  <2>6. PackedAndFreed(i, a.block)
    BY <1>12, <2>2, <2>4, <2>5 DEF PackedAndFreed
  <2> QED
    BY <1>1, <1>2, <1>5, <1>9, <1>11, <1>12, <1>15, <2>1, <2>3, <2>6 DEF B
<1>16. CASE a.block # Null /\ packing.mode # "SESSION_0"
  <2>1. MemorySound(pool', B) /\ NewPacket(pool, pool', a.block, p) /\ DeviceSend(p) /\ i # 0
    BY <1>2, <1>8, <1>10, <1>16
  <2>2. PICK retry \in (IF packing.mode = "SESSION_1" THEN {1} ELSE RetryTime) :
               cmd_session_table' =
                   [cmd_session_table EXCEPT ![i] =
                      [usage_flag |-> TRUE, memory_block_ptr |-> a.block,
                       request |-> requests, sent |-> 1, retry_time |-> retry,
                       due |-> FALSE, pre_seq_num |-> q]]
    BY <1>10, <1>16
  <2>3. retry \in Nat /\ (retry = 1 \/ retry \in RetryTime)
    BY ProtocolAssumption
  <2>4. PackedAndKept(i, a.block)
    BY <1>12, <2>1, <2>2, <2>3 DEF PackedAndKept, q
  <2> QED
    BY <1>1, <1>2, <1>5, <1>9, <1>11, <1>12, <1>13, <1>16, <2>1, <2>4 DEF B
<1> QED
  BY <1>14, <1>15, <1>16

(* The answer that SendACK packs.                                           *)
AnswerTo(command) ==
    Packet(TRUE, command.session_id, command.seq_num, Local, AckReceiver(command), command.number)

NoMemoryFor(command) ==
    AllocAck(command.session_id, AnswerSize(command)).block = Null

(* The answer before is gone in any case; the new one has a block or none.  *)
AckEffects(command, i, old) ==
    \/ /\ NoMemoryFor(command)
       /\ BlocksUsed(pool') = BlocksUsed(pool) \ {old}
       /\ SamePackets(pool, pool', BlocksUsed(pool) \ {old})
       /\ UNCHANGED <<ack_session_table, to_peer, transmitted>>
    \/ /\ ~NoMemoryFor(command)
       /\ \E b \in Handle :
            /\ b \notin BlocksUsed(pool) \ {old}
            /\ BlocksUsed(pool') = (BlocksUsed(pool) \ {old}) \cup {b}
            /\ SamePackets(pool, pool', BlocksUsed(pool) \ {old})
            /\ First(pool', b) = AnswerTo(command)
            /\ DeviceSend(AnswerTo(command))
            /\ ack_session_table' =
                 [ack_session_table EXCEPT ![i] = [session_status |-> "USING",
                                                   memory_block_ptr |-> b]]

LEMMA AckEffect ==
    ASSUME ITyped, NEW k \in DOMAIN inbox, SendACK(k),
           NEW command, command = inbox[k],
           NEW i, i = command.session_id,
           NEW old, old = ack_session_table[i].memory_block_ptr
    PROVE  /\ MemorySound(pool', PacketsBelow(Fresh))
           /\ AckEffects(command, i, old)
           /\ command \in InSession /\ i \in AckSession /\ old \in BlockPtr
           /\ AnswerTo(command) \in PacketType /\ AnswerTo(command).is_ack
           /\ AnswerTo(command).session_id = i /\ AnswerTo(command).number = command.number
           /\ AnswerTo(command).seq_num = command.seq_num
<1> DEFINE B == PacketsBelow(Fresh)
           p == AnswerTo(command)
           size == AnswerSize(command)
           t == IF old = Null THEN pool ELSE FreeMemory(pool, old)
           a == AllocMemory(t, size)
<1>1. command \in InSession
  BY DEF ITyped
<1>2. command \in PacketType /\ i # 0 /\ i \in Session /\ i \in AckSession
  BY <1>1, Sessions DEF InSession, PacketType
<1>3. old \in BlockPtr
  BY <1>2 DEF ITyped, AckType
<1>4. /\ command.seq_num \in Seq_num /\ command.number \in Nat
      /\ AckReceiver(command) \in Peers \cup {Local}
  BY <1>2 DEF PacketType, AckReceiver
<1>5. /\ p \in PacketType /\ p.is_ack /\ p.session_id = i
      /\ p.number = command.number /\ p.seq_num = command.seq_num
  BY <1>2, <1>4 DEF AnswerTo, Packet, PacketType
<1>6. p \in B
  BY <1>5 DEF PacketsBelow
<1>7. size \in Nat \ {0}
  BY DEF AnswerSize
<1>8. MemorySound(t, B) /\ BlocksUsed(t) = BlocksUsed(pool) \ {old} /\ SamePackets(pool, t, BlockPtr)
  <2>1. MemorySound(pool, B)
    BY DEF ITyped
  <2>2. CASE old = Null
    <3>1. old \notin BlocksUsed(pool)
      BY <2>2, Sessions DEF BlocksUsed
    <3> QED
      BY <2>1, <2>2, <3>1 DEF SamePackets
  <2>3. CASE old # Null
    BY <1>3, <2>1, <2>3, FreedPacket
  <2> QED
    BY <2>2, <2>3
<1>9. a = AllocAck(i, size) /\ size = AnswerSize(command) /\ p = AnswerTo(command)
  BY DEF AllocAck
<1>12. a = AllocMemory(t, size)
  OBVIOUS
<1> HIDE DEF a, p, B, t, size
<1>10. IF a.block = Null
       THEN /\ pool' = a.pool
            /\ UNCHANGED <<ack_session_table, to_peer, transmitted>>
       ELSE /\ pool' = Pack(a.pool, a.block, p)
            /\ DeviceSend(p)
            /\ ack_session_table' =
                 [ack_session_table EXCEPT ![i] = [session_status |-> "USING",
                                                   memory_block_ptr |-> a.block]]
  BY <1>9 DEF SendACK, AnswerTo
<1>11. NoMemoryFor(command) <=> a.block = Null
  BY <1>9 DEF NoMemoryFor
<1>13. /\ a.block = Null => /\ MemorySound(a.pool, B)
                            /\ BlocksUsed(a.pool) = BlocksUsed(t)
                            /\ SamePackets(t, a.pool, BlocksUsed(t))
       /\ a.block # Null => /\ MemorySound(Pack(a.pool, a.block, p), B)
                            /\ NewPacket(t, Pack(a.pool, a.block, p), a.block, p)
  BY <1>6, <1>7, <1>8, <1>12, AllocatedPacket
<1>14. ASSUME SamePackets(t, pool', BlocksUsed(t))
       PROVE  SamePackets(pool, pool', BlocksUsed(pool) \ {old})
  BY <1>8, <1>14, Sessions DEF SamePackets, BlocksUsed
<1>15. CASE a.block = Null
  <2>1. /\ MemorySound(pool', B) /\ BlocksUsed(pool') = BlocksUsed(pool) \ {old}
        /\ SamePackets(t, pool', BlocksUsed(t))
    BY <1>8, <1>10, <1>13, <1>15
  <2>2. AckEffects(command, i, old)
    BY <1>10, <1>11, <1>14, <1>15, <2>1 DEF AckEffects
  <2> QED
    BY <1>1, <1>2, <1>3, <1>5, <2>1, <2>2 DEF B, p
<1>16. CASE a.block # Null
  <2>1. MemorySound(pool', B) /\ NewPacket(t, pool', a.block, p) /\ DeviceSend(p)
    BY <1>10, <1>13, <1>16
  <2>2. /\ a.block \in Handle /\ a.block \notin BlocksUsed(pool) \ {old}
        /\ BlocksUsed(pool') = (BlocksUsed(pool) \ {old}) \cup {a.block}
        /\ SamePackets(t, pool', BlocksUsed(t)) /\ First(pool', a.block) = p
    BY <1>8, <2>1 DEF NewPacket
  <2>3. AckEffects(command, i, old)
    BY <1>10, <1>11, <1>14, <1>16, <2>1, <2>2 DEF AckEffects, p
  <2> QED
    BY <1>1, <1>2, <1>3, <1>5, <2>1, <2>3 DEF B, p
<1> QED
  BY <1>15, <1>16

-----------------------------------------------------------------------------
(* Types, all of them.                                                      *)

LEMMA InitITyped == Init => ITyped
<1> SUFFICES ASSUME Init PROVE ITyped
  OBVIOUS
<1>1. SessionsTyped
  BY InitTyped
<1>2. LockFree /\ Fresh = 1
  BY DEF Init, LockFree, Fresh
<1>3. MemorySound(pool, PacketsBelow(Fresh))
  <2>1. NoPacket \in PacketsBelow(Fresh)
    BY <1>2, Devices DEF PacketsBelow
  <2> QED
    BY <2>1, EmptyPoolSound DEF Init
<1>4. ack_session_table \in [AckSession -> AckType]
  BY Sessions DEF Init, AckType
<1>5. inbox \in Seq(InSession) /\ to_peer \in Seq(PacketType) /\ from_peer \in Seq(Incoming)
  BY EmptySeq DEF Init
<1>6. recv \in InSession \cup {NoPacket} /\ peer \in [Peers -> PacketType]
  BY Devices DEF Init
<1>7. /\ transmitted \in [Request -> Nat] /\ answered \in [Request -> Nat]
      /\ delivered \in [Command -> Nat] /\ commands \in Nat
  BY DEF Init
<1> QED
  BY <1>1, <1>2, <1>3, <1>4, <1>5, <1>6, <1>7 DEF ITyped

IssuedTyped == issued \in [Peers -> Seq(PacketType)]

LEMMA ITypedTypeOK == ITyped /\ IssuedTyped => TypeOK
<1> SUFFICES ASSUME ITyped, IssuedTyped PROVE TypeOK
  OBVIOUS
<1>1. pool.memory \in [Cell -> PacketType]
  BY DEF ITyped, MemorySound, PoolType, PacketsBelow
<1>2. \A k \in DOMAIN inbox : inbox[k] \in PacketType
  BY DEF ITyped, InSession
<1>3. recv \in PacketType
  BY Devices DEF ITyped, InSession
<1> QED
  BY <1>1, <1>2, <1>3 DEF ITyped, IssuedTyped, TypeOK, AckType

LEMMA SendTyped ==
    ASSUME ITyped, NEW p \in PacketType, DeviceSend(p)
    PROVE  to_peer' \in Seq(PacketType) /\ transmitted' \in [Request -> Nat]
<1>1. to_peer' \in Seq(PacketType)
  BY WireTyped DEF ITyped, DeviceSend
<1>2. transmitted \in [Request -> Nat]
  BY DEF ITyped
<1> QED
  BY <1>1, <1>2 DEF DeviceSend

(* The lock and the numbers of the requests are SendCMD's.                  *)
LEMMA FreshStays ==
    ASSUME UNCHANGED <<requests, packing>>
    PROVE  Fresh' = Fresh /\ (LockFree' <=> LockFree)
BY DEF Fresh, LockFree

LEMMA CountTyped ==
    ASSUME NEW D, NEW f \in [D -> Nat], NEW x
    PROVE  [f EXCEPT ![x] = @ + 1] \in [D -> Nat]
<1>1. CASE x \in D
  BY <1>1
<1>2. CASE x \notin D
  <2>1. [f EXCEPT ![x] = @ + 1] = f
    BY <1>2
  <2> QED
    BY <2>1
<1> QED
  BY <1>1, <1>2

LEMMA SendCMDTyped ==
    ASSUME ITyped, SessionsTyped', NEW mode \in SendModes, SendCMD(mode)
    PROVE  ITyped'
<1>1. requests \in Nat /\ requests' = requests + 1 /\ LockFree
  BY ProtocolAssumption DEF ITyped, SessionsTyped, SendCMD
<1>2. Fresh' \in Nat \ {0} /\ Fresh <= Fresh' /\ Fresh \in Nat
  BY <1>1 DEF Fresh
<1>3. PacketsBelow(Fresh) \subseteq PacketsBelow(Fresh')
  <2>1. \A p \in PacketType : p.number \in Nat
    BY DEF PacketType
  <2> QED
    BY <1>2, <2>1 DEF PacketsBelow
<1>4. MemorySound(pool', PacketsBelow(Fresh'))
  BY <1>3, MemoryWidens DEF ITyped, SendCMD
<1>5. UNCHANGED <<ack_session_table, recv, inbox, to_peer, from_peer, peer, transmitted,
                  answered, delivered, commands>>
  BY DEF SendCMD, line, counts
<1> QED
  BY <1>2, <1>4, <1>5 DEF ITyped

LEMMA PackTyped ==
    ASSUME ITyped, SessionsTyped', PackAndSend
    PROVE  ITyped'
<1> DEFINE i == packing.session
<1>1. /\ MemorySound(pool', PacketsBelow(requests + 1))
      /\ LockFree' /\ Outgoing(i) \in PacketType
      /\ (PackRefused(i) \/ DeviceSend(Outgoing(i)))
  BY PackEffect DEF PackedAndFreed, PackedAndKept
<1>2. requests' = requests /\ requests \in Nat
  BY ProtocolAssumption DEF ITyped, SessionsTyped, PackAndSend
<1>3. Fresh' = requests + 1 /\ Fresh' \in Nat \ {0}
  BY <1>1, <1>2 DEF Fresh
<1>4. to_peer' \in Seq(PacketType) /\ transmitted' \in [Request -> Nat]
  BY <1>1, SendTyped DEF PackRefused, ITyped
<1>5. UNCHANGED <<ack_session_table, recv, inbox, from_peer, peer, answered, delivered,
                  commands>>
  BY DEF PackAndSend
<1> QED
  BY <1>1, <1>3, <1>4, <1>5 DEF ITyped

LEMMA SendACKTyped ==
    ASSUME ITyped, SessionsTyped', NEW k \in DOMAIN inbox, SendACK(k)
    PROVE  ITyped'
<1> DEFINE c == inbox[k]
           i == c.session_id
           old == ack_session_table[i].memory_block_ptr
<1>1. /\ MemorySound(pool', PacketsBelow(Fresh)) /\ AckEffects(c, i, old)
      /\ i \in AckSession /\ AnswerTo(c) \in PacketType
  BY AckEffect
<1> HIDE DEF i, old
<1>2. Fresh' = Fresh
  BY FreshStays DEF SendACK
<1>3. to_peer' \in Seq(PacketType) /\ transmitted' \in [Request -> Nat]
  BY <1>1, SendTyped DEF AckEffects, ITyped
<1>4. ack_session_table' \in [AckSession -> AckType]
  <2>1. ack_session_table \in [AckSession -> AckType]
    BY DEF ITyped
  <2>2. \A b \in Handle : [session_status |-> "USING", memory_block_ptr |-> b] \in AckType
    BY Sessions DEF AckType
  <2> QED
    BY <1>1, <2>1, <2>2 DEF AckEffects
<1>5. inbox' \in Seq(InSession)
  BY RemoveAtWorks DEF SendACK, ITyped
<1>6. UNCHANGED <<recv, from_peer, peer, answered, delivered, commands>>
  BY DEF SendACK
<1> QED
  BY <1>1, <1>2, <1>3, <1>4, <1>5, <1>6 DEF ITyped

LEMMA PollTyped ==
    ASSUME ITyped, SessionsTyped', PollGiveUp \/ PollResend
    PROVE  ITyped'
<1>1. poll \in Session /\ cmd_session_table \in [Session -> SessionType]
  BY DEF ITyped, SessionsTyped, SessionType
<1>2. Fresh' = Fresh
  BY FreshStays DEF PollGiveUp, PollResend
<1>3. CASE PollGiveUp
  <2>1. MemorySound(pool', PacketsBelow(Fresh))
    BY <1>1, <1>3, FreeCMDSessionWorks DEF PollGiveUp
  <2>2. UNCHANGED <<ack_session_table, recv, inbox, to_peer, from_peer, peer, transmitted,
                    answered, delivered, commands>>
    BY <1>3 DEF PollGiveUp, line, counts
  <2> QED
    BY <1>2, <2>1, <2>2 DEF ITyped
<1>4. CASE PollResend
  <2>1. cmd_session_table[poll].memory_block_ptr \in BlockPtr
    BY <1>1 DEF SessionType
  <2>2. PacketAt(cmd_session_table[poll].memory_block_ptr) \in PacketsBelow(Fresh)
    BY <2>1, FirstTyped DEF ITyped, First, PacketAt
  <2>3. to_peer' \in Seq(PacketType) /\ transmitted' \in [Request -> Nat]
    BY <1>4, <2>2, SendTyped DEF PollResend, PacketsBelow
  <2>4. UNCHANGED <<ack_session_table, pool, recv, inbox, from_peer, peer, answered, delivered,
                    commands>>
    BY <1>4 DEF PollResend
  <2> QED
    BY <1>2, <2>3, <2>4 DEF ITyped
<1> QED
  BY <1>3, <1>4

LEMMA CompleteSessionTyped ==
    ASSUME ITyped, SessionsTyped', CompleteSession
    PROVE  ITyped'
<1>1. recv.session_id \in Session
  BY Devices DEF ITyped, InSession, PacketType
<1>2. Fresh' = Fresh
  BY FreshStays DEF CompleteSession
<1>3. MemorySound(pool', PacketsBelow(Fresh))
  <2>1. CASE FreeCMDSession(recv.session_id)
    BY <1>1, <2>1, FreeCMDSessionWorks
  <2>2. CASE UNCHANGED pool
    BY <2>2 DEF ITyped
  <2> QED
    BY <2>1, <2>2 DEF CompleteSession
<1>4. answered' \in [Request -> Nat]
  <2>1. answered \in [Request -> Nat]
    BY DEF ITyped
  <2>2. \/ answered' = answered
        \/ \E x : answered' = [answered EXCEPT ![x] = @ + 1]
    BY DEF CompleteSession
  <2> QED
    BY <2>1, <2>2, CountTyped
<1>5. recv' \in InSession \cup {NoPacket}
  BY DEF CompleteSession
<1>6. UNCHANGED <<ack_session_table, inbox, to_peer, from_peer, peer, transmitted, delivered,
                  commands>>
  BY DEF CompleteSession, line
<1> QED
  BY <1>2, <1>3, <1>4, <1>5, <1>6 DEF ITyped

LEMMA CommandTyped ==
    ASSUME ITyped, SessionsTyped',
           ReceiveMessage \/ ReceiveFirst \/ ReceiveBusy \/ ReceiveRepeated \/ ReceiveNew
    PROVE  ITyped'
<1>1. CommandArrives
  BY DEF ReceiveMessage, ReceiveFirst, ReceiveBusy, ReceiveRepeated, ReceiveNew
<1>2. Fresh' = Fresh /\ UNCHANGED <<pool, recv, peer, answered, commands>>
  BY <1>1, FreshStays DEF CommandArrives
<1>3. from_peer' \in Seq(Incoming) /\ Arrived \in PacketType
  BY <1>1, HeadTailProperties DEF CommandArrives, ITyped, Arrived, Incoming
<1>4. Arrived.session_id # 0 => Arrived.session_id \in AckSession /\ Arrived \in InSession
  BY <1>3, Sessions DEF PacketType, InSession
<1>5. ASSUME Deliver(Arrived)
      PROVE  inbox' \in Seq(InSession) /\ delivered' \in [Command -> Nat]
  <2>1. inbox' \in Seq(InSession)
    BY <1>4, <1>5, AppendProperties DEF Deliver, ITyped
  <2> QED
    BY <1>5, <2>1, CountTyped DEF Deliver, ITyped
<1>6. ASSUME NEW i \in AckSession, SetProcess(i) \/ UNCHANGED ack_session_table
      PROVE  ack_session_table' \in [AckSession -> AckType]
  <2>1. ack_session_table \in [AckSession -> AckType]
    BY DEF ITyped
  <2> QED
    BY <1>6, <2>1 DEF SetProcess, AckType
<1>7. CASE ReceiveMessage
  BY <1>2, <1>3, <1>5, <1>7 DEF ReceiveMessage, ITyped
<1>8. CASE ReceiveFirst
  <2>1. SetProcess(Arrived.session_id) \/ UNCHANGED ack_session_table
    BY <1>8 DEF ReceiveFirst
  <2>2. ack_session_table' \in [AckSession -> AckType]
    BY <1>4, <1>6, <1>8, <2>1 DEF ReceiveFirst
  <2> QED
    BY <1>2, <1>3, <1>5, <1>8, <2>2 DEF ReceiveFirst, ITyped
<1>9. CASE ReceiveBusy
  BY <1>2, <1>3, <1>9 DEF ReceiveBusy, ITyped
<1>10. CASE ReceiveRepeated
  <2>1. ack_session_table[Arrived.session_id].memory_block_ptr \in BlockPtr
    BY <1>4, <1>10 DEF ReceiveRepeated, ITyped, AckType
  <2>2. StoredAnswer(Arrived.session_id) \in PacketsBelow(Fresh)
    BY <2>1, FirstTyped DEF ITyped, First, PacketAt, StoredAnswer
  <2>3. to_peer' \in Seq(PacketType) /\ transmitted' \in [Request -> Nat]
    BY <1>10, <2>2, SendTyped DEF ReceiveRepeated, PacketsBelow
  <2> QED
    BY <1>2, <1>3, <1>10, <2>3 DEF ReceiveRepeated, ITyped
<1>11. CASE ReceiveNew
  <2>1. ack_session_table' \in [AckSession -> AckType]
    BY <1>4, <1>6, <1>11 DEF ReceiveNew
  <2> QED
    BY <1>2, <1>3, <1>5, <1>11, <2>1 DEF ReceiveNew, ITyped
<1> QED
  BY <1>7, <1>8, <1>9, <1>10, <1>11

(* What the line carries.                                                   *)
LEMMA LineTyped ==
    ASSUME ITyped, SessionsTyped',
           \/ ReceiveAck
           \/ PeerReceive
           \/ \E p \in Peers, i \in PeerSessions : PeerCommand(p, i)
           \/ \E p \in Peers : PeerRepeat(p)
    PROVE  ITyped'
<1>1. Fresh' = Fresh /\ UNCHANGED <<pool, ack_session_table, inbox, transmitted, answered, delivered>>
  BY FreshStays DEF ReceiveAck, PeerReceive, PeerCommand, PeerRepeat, tables, counts
<1>c. (ReceiveAck \/ PeerReceive \/ \E p \in Peers : PeerRepeat(p)) => commands' = commands
  BY DEF ReceiveAck, PeerReceive, PeerRepeat
<1>2. CASE ReceiveAck
  <2>1. Head(from_peer) \in Incoming /\ from_peer' \in Seq(Incoming)
    BY <1>2, HeadTailProperties DEF ReceiveAck, ITyped
  <2>2. recv' \in InSession \cup {NoPacket}
    BY <1>2, <2>1 DEF ReceiveAck, Incoming, InSession
  <2> QED
    BY <1>1, <1>2, <1>c, <2>1, <2>2 DEF ReceiveAck, ITyped
<1>3. CASE PeerReceive
  <2> DEFINE p == Head(to_peer)
             a == Packet(TRUE, p.session_id, p.seq_num, p.receiver, Local, p.number)
  <2>1. p \in PacketType /\ to_peer' \in Seq(PacketType)
    BY <1>3, HeadTailProperties DEF PeerReceive, ITyped
  <2>2. a \in PacketType /\ a.session_id = p.session_id
    BY <2>1 DEF PacketType, Packet
  <2>3. from_peer' = from_peer \/ (p.session_id # 0 /\ from_peer' = Wire(from_peer, a))
    BY <1>3 DEF PeerReceive
  <2> HIDE DEF a, p
  <2>4. from_peer' \in Seq(Incoming)
    <3>1. p.session_id # 0 => a \in Incoming
      BY <2>2 DEF Incoming
    <3> QED
      BY <2>3, <3>1, WireTyped DEF ITyped
  <2> QED
    BY <1>1, <1>3, <1>c, <2>1, <2>4 DEF PeerReceive, ITyped
<1>4. ASSUME NEW p \in Peers, NEW i \in PeerSessions, PeerCommand(p, i)
      PROVE  ITyped'
  <2> DEFINE seq == IF peer[p] = NoPacket THEN 0 ELSE (peer[p].seq_num + 1) % SeqWidth
             c == Packet(FALSE, i, seq, p, Local, commands')
  <2>1. commands' \in Nat
    BY <1>4 DEF PeerCommand, ITyped
  <2>2. seq \in Seq_num
    BY SeqInWidth, Devices DEF ITyped, PacketType
  <2>3. i \in Session
    BY Devices
  <2>4. peer' = [peer EXCEPT ![p] = c]
    BY <1>4 DEF PeerCommand
  <2> HIDE DEF seq
  <2>5. c \in PacketType /\ c \in Incoming
    BY <2>1, <2>2, <2>3 DEF Packet, PacketType, Incoming
  <2> HIDE DEF c
  <2>6. peer \in [Peers -> PacketType]
    BY DEF ITyped
  <2>7. peer' \in [Peers -> PacketType] /\ peer'[p] = c
    BY <2>4, <2>5, <2>6
  <2>8. from_peer' \in Seq(Incoming)
    <3>1. from_peer' = from_peer \/ from_peer' = Wire(from_peer, c)
      BY <1>4, <2>7 DEF PeerCommand
    <3> QED
      BY <2>5, <3>1, WireTyped DEF ITyped
  <2> QED
    BY <1>1, <1>4, <2>1, <2>7, <2>8 DEF PeerCommand, ITyped
<1>5. ASSUME NEW p \in Peers, PeerRepeat(p)
      PROVE  ITyped'
  <2>1. from_peer' \in Seq(Incoming)
    <3>1. peer[p] \in Incoming
      BY <1>5 DEF PeerRepeat, ITyped, Incoming
    <3> QED
      BY <1>5, <3>1, AppendProperties DEF PeerRepeat, ITyped
  <2> QED
    BY <1>1, <1>5, <1>c, <2>1 DEF PeerRepeat, ITyped
<1> QED
  BY <1>2, <1>3, <1>4, <1>5

LEMMA ITypedNext == ITyped /\ [Next]_vars => ITyped'
<1> SUFFICES ASSUME ITyped, [Next]_vars PROVE ITyped'
  OBVIOUS
<1>1. SessionsTyped'
  BY StepTyped DEF ITyped
<1>2. ASSUME NEW mode \in SendModes, SendCMD(mode)
      PROVE  ITyped'
  BY <1>1, <1>2, SendCMDTyped
<1>3. CASE PackAndSend
  BY <1>1, <1>3, PackTyped
<1>4. ASSUME NEW k \in DOMAIN inbox, SendACK(k)
      PROVE  ITyped'
  BY <1>1, <1>4, SendACKTyped
<1>5. ASSUME NEW i \in AckSession, Timeout(i) \/ PollCheck(i)
      PROVE  ITyped'
  <2>1. /\ UNCHANGED <<ack_session_table, pool, recv, inbox, to_peer, from_peer, peer,
                       transmitted, answered, delivered, commands>>
        /\ Fresh' = Fresh
    BY <1>5, FreshStays DEF Timeout, PollCheck, tables, line, counts
  <2> QED
    BY <1>1, <2>1 DEF ITyped
<1>6. CASE PollGiveUp \/ PollResend
  BY <1>1, <1>6, PollTyped
<1>7. CASE CompleteSession
  BY <1>1, <1>7, CompleteSessionTyped
<1>8. CASE ReceiveMessage \/ ReceiveFirst \/ ReceiveBusy \/ ReceiveRepeated \/ ReceiveNew
  BY <1>1, <1>8, CommandTyped
<1>9. CASE \/ ReceiveAck
           \/ PeerReceive
           \/ \E p \in Peers, i \in PeerSessions : PeerCommand(p, i)
           \/ \E p \in Peers : PeerRepeat(p)
  BY <1>1, <1>9, LineTyped
<1>10. CASE UNCHANGED vars
  <2>1. /\ UNCHANGED <<ack_session_table, pool, recv, inbox, to_peer, from_peer, peer,
                       transmitted, answered, delivered, commands>>
        /\ Fresh' = Fresh
    BY <1>10, FreshStays DEF vars, tables, line, counts
  <2> QED
    BY <1>1, <2>1 DEF ITyped
<1> QED
  BY <1>2, <1>3, <1>4, <1>5, <1>6, <1>7, <1>8, <1>9, <1>10 DEF Next

LEMMA AlwaysTyped == Spec => []ITyped
BY InitITyped, ITypedNext, PTL DEF Spec

(* A device's commands are written down when it makes them.                 *)
LEMMA IssuedSteps ==
    ASSUME [Next]_vars
    PROVE  \/ UNCHANGED <<issued, peer>>
           \/ \E p \in Peers, i \in PeerSessions : PeerCommand(p, i)
<1>1. CASE UNCHANGED vars
  BY <1>1 DEF vars
<1>2. CASE \/ \E mode \in SendModes : SendCMD(mode)
           \/ PackAndSend
           \/ \E k \in DOMAIN inbox : SendACK(k)
           \/ \E i \in AckSession : Timeout(i)
           \/ \E i \in AckSession : PollCheck(i)
           \/ PollGiveUp \/ PollResend \/ ReceiveAck \/ CompleteSession \/ PeerReceive
           \/ \E p \in Peers : PeerRepeat(p)
  BY <1>2 DEF SendCMD, PackAndSend, SendACK, Timeout, PollCheck, PollGiveUp, PollResend,
              ReceiveAck, CompleteSession, PeerReceive, PeerRepeat
<1>3. CASE ReceiveMessage \/ ReceiveFirst \/ ReceiveBusy \/ ReceiveRepeated \/ ReceiveNew
  BY <1>3 DEF ReceiveMessage, ReceiveFirst, ReceiveBusy, ReceiveRepeated, ReceiveNew, CommandArrives
<1> QED
  BY <1>1, <1>2, <1>3 DEF Next

LEMMA NextIssued == ITyped /\ ITyped' /\ IssuedTyped /\ [Next]_vars => IssuedTyped'
<1> SUFFICES ASSUME ITyped', IssuedTyped, [Next]_vars PROVE IssuedTyped'
  OBVIOUS
<1>1. CASE UNCHANGED <<issued, peer>>
  BY <1>1 DEF IssuedTyped
<1>2. ASSUME NEW p \in Peers, NEW i \in PeerSessions, PeerCommand(p, i)
      PROVE  IssuedTyped'
  <2>1. PICK new : new = peer'[p] /\ new \in PacketType
    BY DEF ITyped
  <2>2. issued' = [issued EXCEPT ![p] = Append(issued[p], new)]
    BY <1>2, <2>1 DEF PeerCommand
  <2> QED
    BY <2>1, <2>2 DEF IssuedTyped
<1> QED
  BY <1>1, <1>2, IssuedSteps

LEMMA AlwaysIssued == Spec => []IssuedTyped
<1>1. Init => IssuedTyped
  BY DEF Init, IssuedTyped
<1> QED
  BY <1>1, NextIssued, AlwaysTyped, PTL DEF Spec

(* Sessions, packets in memory, on the line and in the inbox, and counters  *)
(* keep their types, whatever is refused, lost, repeated or reordered.      *)
THEOREM ProtocolTyped == Spec => []TypeOK
BY AlwaysTyped, AlwaysIssued, ITypedTypeOK, PTL

-----------------------------------------------------------------------------
(* The sessions that hold a packet, and what every step makes of them.      *)

Live(i) == cmd_session_table[i].usage_flag /\ i # packing.session
LiveSessions == {i \in AckSession : Live(i)}

(* The fields that go with the packet.                                      *)
KeepsPacket(i) ==
    /\ cmd_session_table'[i].memory_block_ptr = cmd_session_table[i].memory_block_ptr
    /\ cmd_session_table'[i].request = cmd_session_table[i].request
    /\ cmd_session_table'[i].retry_time = cmd_session_table[i].retry_time

Keeps(i) == KeepsPacket(i) /\ cmd_session_table'[i].sent = cmd_session_table[i].sent

SessionsStay == LiveSessions' = LiveSessions /\ \A i \in AckSession : Keeps(i)

LEMMA SameTable ==
    ASSUME UNCHANGED <<cmd_session_table, packing>>
    PROVE  SessionsStay
BY DEF LiveSessions, Live, SessionsStay, Keeps, KeepsPacket

LEMMA SendCMDSessions ==
    ASSUME ITyped, NEW mode \in SendModes, SendCMD(mode)
    PROVE  /\ SessionsStay /\ LockFree
           /\ \/ LockFree' /\ UNCHANGED cmd_session_table
              \/ ~LockFree' /\ packing'.session \in Session
<1>1. cmd_session_table \in [Session -> SessionType] /\ LockFree
  BY DEF ITyped, SessionsTyped, SessionType, SendCMD
<1>2. packing.session = 0
  BY <1>1, IdleIsFree
<1>3. CASE FreeSessions(mode) = {}
  <2>1. UNCHANGED <<cmd_session_table, packing>>
    BY <1>3 DEF SendCMD
  <2> QED
    BY <1>1, <2>1, SameTable DEF LockFree
<1>4. CASE FreeSessions(mode) # {}
  <2> DEFINE i == Min(FreeSessions(mode))
  <2>1. i \in FreeSessions(mode) /\ [session |-> i, mode |-> mode] \in Packing
    <3>1. mode \in {"SESSION_0", "SESSION_1", "AUTO"}
      BY ProtocolAssumption
    <3>2. FreeSessions(mode) \in SUBSET Nat
      BY <3>1, Sessions DEF FreeSessions
    <3> QED
      BY <1>4, <3>2, MinInSet, SessionSuitsMode
  <2>2. /\ cmd_session_table' = [cmd_session_table EXCEPT ![i].usage_flag = TRUE]
        /\ packing' = [session |-> i, mode |-> mode]
    BY <1>4 DEF SendCMD
  <2> HIDE DEF i
  <2>3. i \in Session /\ ~cmd_session_table[i].usage_flag
    <3>1. i \in Session
      BY <2>1, ProtocolAssumption DEF Packing, Session
    <3> QED
      BY <2>1, <3>1 DEF FreeSessions
  <2>4. packing'.session = i /\ ~LockFree'
    BY <2>1, <2>2, IdleIsFree DEF LockFree
  <2>5. ASSUME NEW j \in AckSession
        PROVE  (Live(j)' <=> Live(j)) /\ Keeps(j)
    <3>1. j \in Session /\ j # 0
      BY Sessions
    <3>2. CASE j = i
      BY <1>1, <2>2, <2>3, <2>4, <3>1, <3>2 DEF Live, Keeps, KeepsPacket, SessionType
    <3>3. CASE j # i
      BY <1>1, <1>2, <2>2, <2>4, <3>1, <3>3 DEF Live, Keeps, KeepsPacket
    <3> QED
      BY <3>2, <3>3
  <2> QED
    BY <1>1, <2>3, <2>4, <2>5 DEF SessionsStay, LiveSessions
<1> QED
  BY <1>3, <1>4

LEMMA PackSessions ==
    ASSUME ITyped, PackAndSend, NEW i, i = packing.session
    PROVE  /\ i \notin LiveSessions
           /\ PackRefused(i) => SessionsStay
           /\ \A b \in Handle : PackedAndFreed(i, b) => SessionsStay
           /\ \A b \in Handle : PackedAndKept(i, b) =>
                /\ LiveSessions' = LiveSessions \cup {i} /\ i \in AckSession
                /\ \A j \in AckSession \ {i} : Keeps(j)
                /\ cmd_session_table'[i].memory_block_ptr = b
                /\ cmd_session_table'[i].request = requests
                /\ cmd_session_table'[i].sent = 1
                /\ cmd_session_table'[i].retry_time \in RetryTime \cup {1}
<1>1. cmd_session_table \in [Session -> SessionType] /\ packing' = Idle /\ packing'.session = 0
  BY IdleIsFree DEF ITyped, SessionsTyped, SessionType, PackAndSend
<1>2. i \in Session
  BY PackEffect
<1>3. i \notin LiveSessions
  BY DEF LiveSessions, Live
<1>4. ASSUME PackRefused(i), NEW j \in AckSession
      PROVE  (Live(j)' <=> Live(j)) /\ Keeps(j)
  <2>1. cmd_session_table' = [cmd_session_table EXCEPT ![i].usage_flag = FALSE]
    BY <1>4 DEF PackRefused
  <2>2. j \in Session /\ j # 0
    BY Sessions
  <2>3. CASE j = i
    BY <1>1, <2>1, <2>2, <2>3 DEF Live, Keeps, KeepsPacket, SessionType
  <2>4. CASE j # i
    BY <1>1, <2>1, <2>2, <2>4 DEF Live, Keeps, KeepsPacket
  <2> QED
    BY <2>3, <2>4
<1>5. ASSUME NEW b \in Handle, PackedAndFreed(i, b), NEW j \in AckSession
      PROVE  (Live(j)' <=> Live(j)) /\ Keeps(j)
  <2>1. /\ i = 0
        /\ cmd_session_table' = [cmd_session_table EXCEPT ![i].usage_flag = FALSE,
                                                         ![i].memory_block_ptr = b]
    BY <1>5 DEF PackedAndFreed
  <2>2. j \in Session /\ j # 0
    BY Sessions
  <2> QED
    BY <1>1, <2>1, <2>2 DEF Live, Keeps, KeepsPacket
<1>6. ASSUME NEW b \in Handle, PackedAndKept(i, b)
      PROVE  /\ LiveSessions' = LiveSessions \cup {i} /\ i \in AckSession
             /\ \A j \in AckSession \ {i} : Keeps(j)
             /\ cmd_session_table'[i].memory_block_ptr = b
             /\ cmd_session_table'[i].request = requests
             /\ cmd_session_table'[i].sent = 1
             /\ cmd_session_table'[i].retry_time \in RetryTime \cup {1}
  <2>1. PICK retry \in Nat :
          /\ retry = 1 \/ retry \in RetryTime
          /\ cmd_session_table' =
               [cmd_session_table EXCEPT ![i] =
                  [usage_flag |-> TRUE, memory_block_ptr |-> b, request |-> requests, sent |-> 1,
                   retry_time |-> retry, due |-> FALSE, pre_seq_num |-> NextSeq(i)]]
    BY <1>6 DEF PackedAndKept
  <2>2. i \in AckSession /\ i # 0
    BY <1>2, <1>6, Sessions DEF PackedAndKept
  <2>3. /\ cmd_session_table'[i].usage_flag
        /\ cmd_session_table'[i].memory_block_ptr = b
        /\ cmd_session_table'[i].request = requests
        /\ cmd_session_table'[i].sent = 1
        /\ cmd_session_table'[i].retry_time = retry
    BY <1>1, <1>2, <2>1
  <2>4. Live(i)'
    BY <1>1, <2>2, <2>3 DEF Live
  <2>5. ASSUME NEW j \in AckSession, j # i
        PROVE  (Live(j)' <=> Live(j)) /\ Keeps(j)
    <3>1. cmd_session_table'[j] = cmd_session_table[j] /\ j # 0
      BY <1>1, <2>1, <2>5, Sessions
    <3> QED
      BY <1>1, <2>5, <3>1 DEF Live, Keeps, KeepsPacket
  <2>6. LiveSessions' = LiveSessions \cup {i}
    BY <2>2, <2>4, <2>5 DEF LiveSessions
  <2> QED
    BY <2>1, <2>2, <2>3, <2>5, <2>6
<1> QED
  BY <1>3, <1>4, <1>5, <1>6 DEF SessionsStay, LiveSessions

LEMMA FreeSessionsEffect ==
    ASSUME ITyped, LockFree, NEW i \in Session, FreeCMDSession(i), UNCHANGED packing
    PROVE  LiveSessions' = LiveSessions \ {i} /\ \A j \in AckSession : Keeps(j)
<1>1. cmd_session_table \in [Session -> SessionType]
  BY DEF ITyped, SessionsTyped, SessionType
<1>2. cmd_session_table' = [cmd_session_table EXCEPT ![i].usage_flag = FALSE]
  BY FreeCMDSessionWorks
<1>3. ASSUME NEW j \in AckSession
      PROVE  (Live(j)' <=> Live(j) /\ j # i) /\ Keeps(j)
  <2>1. j \in Session
    BY Sessions
  <2>2. CASE j = i
    BY <1>1, <1>2, <2>1, <2>2 DEF Live, Keeps, KeepsPacket, SessionType
  <2>3. CASE j # i
    BY <1>1, <1>2, <2>1, <2>3 DEF Live, Keeps, KeepsPacket
  <2> QED
    BY <2>2, <2>3
<1> QED
  BY <1>3 DEF LiveSessions

LEMMA TimeoutSessions ==
    ASSUME ITyped, NEW i \in AckSession, Timeout(i)
    PROVE  SessionsStay
<1>1. cmd_session_table \in [Session -> SessionType] /\ packing' = packing
      /\ cmd_session_table' = [cmd_session_table EXCEPT ![i].due = TRUE]
  BY DEF ITyped, SessionsTyped, SessionType, Timeout
<1>2. ASSUME NEW j \in AckSession
      PROVE  (Live(j)' <=> Live(j)) /\ Keeps(j)
  <2>1. j \in Session
    BY Sessions
  <2> QED
    BY <1>1, <2>1 DEF Live, Keeps, KeepsPacket, SessionType
<1> QED
  BY <1>2 DEF SessionsStay, LiveSessions

LEMMA ResendSessions ==
    ASSUME ITyped, PollResend
    PROVE  /\ LiveSessions' = LiveSessions
           /\ \A j \in AckSession : KeepsPacket(j)
           /\ \A j \in AckSession : j # poll => Keeps(j)
           /\ cmd_session_table'[poll].sent =
                IF cmd_session_table[poll].retry_time > 0
                THEN cmd_session_table[poll].sent + 1 ELSE cmd_session_table[poll].sent
<1>1. cmd_session_table \in [Session -> SessionType] /\ packing' = packing /\ poll \in Session
  BY DEF ITyped, SessionsTyped, SessionType, PollResend
<1> DEFINE sent == IF cmd_session_table[poll].retry_time > 0
                   THEN cmd_session_table[poll].sent + 1 ELSE cmd_session_table[poll].sent
<1>2. cmd_session_table' = [cmd_session_table EXCEPT ![poll].due = FALSE, ![poll].sent = sent]
  BY <1>1 DEF PollResend, SessionType
<1> HIDE DEF sent
<1>3. cmd_session_table'[poll].sent = sent
  BY <1>1, <1>2 DEF SessionType
<1>4. ASSUME NEW j \in AckSession
      PROVE  (Live(j)' <=> Live(j)) /\ KeepsPacket(j) /\ (j # poll => Keeps(j))
  <2>1. j \in Session
    BY Sessions
  <2> QED
    BY <1>1, <1>2, <2>1 DEF Live, Keeps, KeepsPacket, SessionType
<1> QED
  BY <1>3, <1>4 DEF LiveSessions, sent

(* Sessions of the other side keep their answers.                           *)
AnswersStay(K) ==
    \A i \in K :
        /\ ack_session_table'[i].memory_block_ptr = ack_session_table[i].memory_block_ptr
        /\ ack_session_table'[i].session_status = "USING"
             => ack_session_table[i].session_status = "USING"

(* The steps that touch neither the memory nor the sessions that hold       *)
(* packets: they read the line, and set the status of an ack session.       *)
Quiet == /\ UNCHANGED <<pool, cmd_session_table, packing, requests>>
         /\ AnswersStay(AckSession)

LEMMA RecvSession ==
    ASSUME ITyped, recv # NoPacket
    PROVE  recv.session_id \in AckSession
BY Sessions DEF ITyped, InSession, PacketType

LEMMA SetProcessQuiet ==
    ASSUME ITyped, NEW i, SetProcess(i) \/ UNCHANGED ack_session_table
    PROVE  AnswersStay(AckSession)
<1>1. ack_session_table \in [AckSession -> AckType]
  BY DEF ITyped
<1> QED
  BY <1>1 DEF SetProcess, AckType, AnswersStay

LEMMA QuietSteps ==
    ASSUME ITyped,
           \/ \E i \in AckSession : PollCheck(i)
           \/ ReceiveAck
           \/ ReceiveMessage \/ ReceiveFirst \/ ReceiveBusy \/ ReceiveRepeated \/ ReceiveNew
           \/ PeerReceive
           \/ \E p \in Peers, i \in PeerSessions : PeerCommand(p, i)
           \/ \E p \in Peers : PeerRepeat(p)
           \/ UNCHANGED vars
    PROVE  Quiet
<1>1. CASE \/ \E i \in AckSession : PollCheck(i)
           \/ ReceiveAck
           \/ PeerReceive
           \/ \E p \in Peers, i \in PeerSessions : PeerCommand(p, i)
           \/ \E p \in Peers : PeerRepeat(p)
           \/ UNCHANGED vars
  <2>1. UNCHANGED <<pool, cmd_session_table, packing, requests, ack_session_table>>
    BY <1>1 DEF PollCheck, ReceiveAck, PeerReceive, PeerCommand, PeerRepeat, vars, tables
  <2> QED
    BY <2>1, SetProcessQuiet DEF Quiet
<1>2. CASE ReceiveMessage \/ ReceiveFirst \/ ReceiveBusy \/ ReceiveRepeated \/ ReceiveNew
  <2>1. UNCHANGED <<pool, cmd_session_table, packing, requests>>
    BY <1>2 DEF ReceiveMessage, ReceiveFirst, ReceiveBusy, ReceiveRepeated, ReceiveNew,
                CommandArrives
  <2>2. \E i : SetProcess(i) \/ UNCHANGED ack_session_table
    BY <1>2 DEF ReceiveMessage, ReceiveFirst, ReceiveBusy, ReceiveRepeated, ReceiveNew
  <2> QED
    BY <2>1, <2>2, SetProcessQuiet DEF Quiet
<1> QED
  BY <1>1, <1>2

-----------------------------------------------------------------------------
(* No block leaks.                                                          *)

Holder(h) == \/ \E i \in LiveSessions : cmd_session_table[i].memory_block_ptr = h
             \/ \E i \in AckSession : ack_session_table[i].memory_block_ptr = h

(* BlocksAccounted, while a SendCMD holds the lock too: the session it has  *)
(* taken holds nothing yet, whatever its old pointer says.                  *)
IAccounted == \A h \in BlocksUsed(pool) : Holder(h)

LEMMA HolderStays ==
    ASSUME SessionsStay, NEW K, AnswersStay(K), NEW h, Holder(h),
           \A i \in AckSession \ K : ack_session_table[i].memory_block_ptr # h
    PROVE  Holder(h)'
<1>1. CASE \E i \in LiveSessions : cmd_session_table[i].memory_block_ptr = h
  <2>1. PICK i \in LiveSessions : cmd_session_table[i].memory_block_ptr = h
    BY <1>1
  <2>2. i \in LiveSessions' /\ cmd_session_table'[i].memory_block_ptr = h
    BY <2>1 DEF SessionsStay, Keeps, KeepsPacket, LiveSessions
  <2> QED
    BY <2>2 DEF Holder
<1>2. CASE \E i \in AckSession : ack_session_table[i].memory_block_ptr = h
  <2>1. PICK i \in AckSession : ack_session_table[i].memory_block_ptr = h
    BY <1>2
  <2>2. ack_session_table'[i].memory_block_ptr = h
    BY <2>1 DEF AnswersStay
  <2> QED
    BY <2>2 DEF Holder
<1> QED
  BY <1>1, <1>2 DEF Holder

LEMMA InitAccounted == Init => IAccounted
<1> SUFFICES ASSUME Init PROVE IAccounted
  OBVIOUS
<1>1. UsedSlots(pool) = {0, EndSlot}
  BY Devices, EmptyPoolSound DEF Init
<1> QED
  BY <1>1, Slots DEF IAccounted, BlocksUsed

(* A session that is freed, with its block.                                 *)
LEMMA FreeAccounted ==
    ASSUME ITyped, IAccounted, LockFree, NEW i \in Session, FreeCMDSession(i),
           UNCHANGED <<packing, ack_session_table>>
    PROVE  IAccounted'
<1>1. LiveSessions' = LiveSessions \ {i} /\ \A j \in AckSession : Keeps(j)
  BY FreeSessionsEffect
<1>2. BlocksUsed(pool') = IF cmd_session_table[i].usage_flag
                          THEN BlocksUsed(pool) \ {cmd_session_table[i].memory_block_ptr}
                          ELSE BlocksUsed(pool)
  BY FreeCMDSessionWorks
<1>3. ASSUME NEW h \in BlocksUsed(pool')
      PROVE  Holder(h)'
  <2>1. h \in BlocksUsed(pool)
        /\ (cmd_session_table[i].usage_flag => h # cmd_session_table[i].memory_block_ptr)
    BY <1>2, <1>3
  <2>2. CASE \E j \in LiveSessions : cmd_session_table[j].memory_block_ptr = h
    <3>1. PICK j \in LiveSessions : cmd_session_table[j].memory_block_ptr = h
      BY <2>2
    <3>2. j # i /\ j \in AckSession
      BY <2>1, <3>1 DEF LiveSessions, Live
    <3>3. j \in LiveSessions' /\ cmd_session_table'[j].memory_block_ptr = h
      BY <1>1, <3>1, <3>2 DEF Keeps, KeepsPacket
    <3> QED
      BY <3>3 DEF Holder
  <2>3. CASE \E j \in AckSession : ack_session_table[j].memory_block_ptr = h
    BY <2>3 DEF Holder
  <2> QED
    BY <2>1, <2>2, <2>3 DEF IAccounted, Holder
<1> QED
  BY <1>3 DEF IAccounted

LEMMA NextAccounted == ITyped /\ IAccounted /\ [Next]_vars => IAccounted'
<1> SUFFICES ASSUME ITyped, IAccounted, [Next]_vars PROVE IAccounted'
  OBVIOUS
<1>1. ASSUME SessionsStay, AnswersStay(AckSession), BlocksUsed(pool') \subseteq BlocksUsed(pool)
      PROVE  IAccounted'
  BY <1>1, HolderStays DEF IAccounted
<1>2. ASSUME NEW mode \in SendModes, SendCMD(mode)
      PROVE  IAccounted'
  <2>1. UNCHANGED <<pool, ack_session_table>>
    BY <1>2 DEF SendCMD
  <2> QED
    BY <1>1, <1>2, <2>1, SendCMDSessions, SetProcessQuiet
<1>3. CASE PackAndSend
  <2> DEFINE i == packing.session
  <2>1. AnswersStay(AckSession)
    BY <1>3, SetProcessQuiet DEF PackAndSend
  <2>2. CASE PackRefused(i) \/ \E b \in Handle : PackedAndFreed(i, b)
    <3>1. SessionsStay /\ BlocksUsed(pool') = BlocksUsed(pool)
      BY <1>3, <2>2, PackSessions DEF PackRefused, PackedAndFreed
    <3> QED
      BY <1>1, <2>1, <3>1
  <2>3. ASSUME NEW b \in Handle, PackedAndKept(i, b)
        PROVE  IAccounted'
    <3>1. /\ LiveSessions' = LiveSessions \cup {i} /\ i \notin LiveSessions
          /\ \A j \in AckSession \ {i} : Keeps(j)
          /\ cmd_session_table'[i].memory_block_ptr = b
      BY <1>3, <2>3, PackSessions
    <3>2. BlocksUsed(pool') = BlocksUsed(pool) \cup {b}
      BY <2>3 DEF PackedAndKept, NewPacket
    <3> HIDE DEF i
    <3>3. Holder(b)'
      BY <3>1 DEF Holder
    <3>4. ASSUME NEW h \in BlocksUsed(pool)
          PROVE  Holder(h)'
      <4>1. CASE \E j \in LiveSessions : cmd_session_table[j].memory_block_ptr = h
        <5>1. PICK j \in LiveSessions : cmd_session_table[j].memory_block_ptr = h
          BY <4>1
        <5>2. j \in AckSession \ {i}
          BY <3>1, <5>1 DEF LiveSessions
        <5>3. j \in LiveSessions' /\ cmd_session_table'[j].memory_block_ptr = h
          BY <3>1, <5>1, <5>2 DEF Keeps, KeepsPacket
        <5> QED
          BY <5>3 DEF Holder
      <4>2. CASE \E j \in AckSession : ack_session_table[j].memory_block_ptr = h
        BY <2>1, <4>2 DEF AnswersStay, Holder
      <4> QED
        BY <3>4, <4>1, <4>2 DEF IAccounted, Holder
    <3> QED
      BY <3>2, <3>3, <3>4 DEF IAccounted
  <2> QED
    BY <1>3, <2>2, <2>3, PackEffect
<1>4. ASSUME NEW k \in DOMAIN inbox, SendACK(k)
      PROVE  IAccounted'
  <2> DEFINE i == inbox[k].session_id
             old == ack_session_table[i].memory_block_ptr
  <2>1. AckEffects(inbox[k], i, old) /\ i \in AckSession
    BY <1>4, AckEffect
  <2>2. SessionsStay
    BY <1>4, SameTable DEF SendACK
  <2>3. ack_session_table \in [AckSession -> AckType] /\ old = ack_session_table[i].memory_block_ptr
    BY DEF ITyped
  <2> HIDE DEF i, old
  <2>4. AnswersStay(AckSession \ {i})
    BY <2>1, <2>3 DEF AckEffects, AnswersStay
  <2>5. ASSUME NEW h \in BlocksUsed(pool) \ {old}
        PROVE  Holder(h)'
    <3>1. \A j \in AckSession \ (AckSession \ {i}) : ack_session_table[j].memory_block_ptr # h
      BY <2>3
    <3> QED
      BY <2>2, <2>4, <3>1, HolderStays DEF IAccounted
  <2>6. CASE BlocksUsed(pool') = BlocksUsed(pool) \ {old}
    BY <2>5, <2>6 DEF IAccounted
  <2>7. ASSUME NEW b \in Handle,
               BlocksUsed(pool') = (BlocksUsed(pool) \ {old}) \cup {b},
               ack_session_table' =
                 [ack_session_table EXCEPT ![i] = [session_status |-> "USING",
                                                   memory_block_ptr |-> b]]
        PROVE  IAccounted'
    <3>1. Holder(b)'
      BY <2>1, <2>3, <2>7 DEF Holder
    <3> QED
      BY <2>5, <2>7, <3>1 DEF IAccounted
  <2> QED
    BY <2>1, <2>6, <2>7 DEF AckEffects
<1>5. ASSUME NEW i \in AckSession, Timeout(i)
      PROVE  IAccounted'
  <2>1. UNCHANGED <<pool, ack_session_table>>
    BY <1>5 DEF Timeout
  <2> QED
    BY <1>1, <1>5, <2>1, TimeoutSessions, SetProcessQuiet
<1>6. CASE PollGiveUp
  <2>1. poll \in Session
    BY DEF ITyped, SessionsTyped
  <2> QED
    BY <1>6, <2>1, FreeAccounted DEF PollGiveUp
<1>7. CASE PollResend
  <2>1. UNCHANGED <<pool, ack_session_table>>
    BY <1>7 DEF PollResend
  <2>2. LiveSessions' = LiveSessions /\ \A i \in AckSession : KeepsPacket(i)
    BY <1>7, ResendSessions
  <2>3. ASSUME NEW h \in BlocksUsed(pool)
        PROVE  Holder(h)'
    BY <2>1, <2>2 DEF IAccounted, Holder, KeepsPacket, LiveSessions
  <2> QED
    BY <2>1, <2>3 DEF IAccounted
<1>8. CASE CompleteSession
  <2>1. recv.session_id \in Session /\ LockFree /\ UNCHANGED <<packing, ack_session_table>>
    BY <1>8, RecvSession, Sessions DEF CompleteSession
  <2>2. CASE FreeCMDSession(recv.session_id)
    BY <2>1, <2>2, FreeAccounted
  <2>3. CASE UNCHANGED <<pool, cmd_session_table>>
    BY <1>1, <2>1, <2>3, SameTable, SetProcessQuiet
  <2> QED
    BY <1>8, <2>2, <2>3 DEF CompleteSession
<1>9. CASE Quiet
  BY <1>1, <1>9, SameTable DEF Quiet
<1> QED
  BY <1>2, <1>3, <1>4, <1>5, <1>6, <1>7, <1>8, <1>9, QuietSteps DEF Next

(* The pool's few blocks do not leak: every block in use belongs to a       *)
(* session, after refused requests, failed allocations and stale acks too.  *)
THEOREM NoBlockLeaks == Spec => []BlocksAccounted
<1>1. ITyped /\ IAccounted => BlocksAccounted
  <2> SUFFICES ASSUME IAccounted, ITyped, NEW h \in Handle, pool.table[h].usage_flag
               PROVE  \/ \E i \in AckSession : /\ cmd_session_table[i].usage_flag
                                               /\ cmd_session_table[i].memory_block_ptr = h
                      \/ \E i \in AckSession : ack_session_table[i].memory_block_ptr = h
    BY DEF BlocksAccounted
  <2>1. h \in BlocksUsed(pool)
    BY Slots DEF BlocksUsed, UsedSlots
  <2> QED
    BY <2>1 DEF IAccounted, Holder, LiveSessions, Live
<1> QED
  BY <1>1, InitAccounted, NextAccounted, AlwaysTyped, PTL DEF Spec

-----------------------------------------------------------------------------
(* Every session finds its packet.  SendACK frees the answer before first,  *)
(* and when the memory then has no room for the next one, the session still *)
(* points to the block it freed, which goes to the next packet              *)
(* (AllocACKSession).  In session 1 that does harm, as the application may  *)
(* owe two of its answers.  Any other session stays in PROCESS for good:    *)
(* it delivers nothing more, and nobody looks at its pointer again.  A      *)
(* refused request does no harm here.                                       *)

RefusedInOne ==
    \E k \in DOMAIN inbox :
      inbox[k].session_id = 1 /\ SendACK(k) /\ NoMemoryFor(inbox[k])

OneFindsMemory == [][~RefusedInOne]_vars

(* The application owes one answer per session, but for session 1, which    *)
(* ReceiveFirst leaves idle.                                                *)
IOwed ==
    \A k \in DOMAIN inbox : inbox[k].session_id # 1 =>
      /\ Status(inbox[k].session_id) = "PROCESS"
      /\ \A m \in DOMAIN inbox : m # k => inbox[m].session_id # inbox[k].session_id

(* The answer of such a session was refused.                                *)
Lost(i) == /\ i # 1 /\ Status(i) = "PROCESS"
           /\ \A k \in DOMAIN inbox : inbox[k].session_id # i

Storing == {i \in AckSession : ~Lost(i)}

LEMMA InboxSteps ==
    ASSUME ITyped, [Next]_vars
    PROVE  \/ UNCHANGED <<inbox, ack_session_table>>
           \/ \E k \in DOMAIN inbox : SendACK(k)
           \/ ReceiveFirst \/ ReceiveNew
<1>1. CASE UNCHANGED vars
  BY <1>1 DEF vars, tables
<1>2. CASE \/ \E mode \in SendModes : SendCMD(mode)
           \/ PackAndSend
           \/ \E i \in AckSession : Timeout(i)
           \/ \E i \in AckSession : PollCheck(i)
           \/ PollGiveUp \/ PollResend
  BY <1>2 DEF SendCMD, PackAndSend, Timeout, PollCheck, PollGiveUp, PollResend, tables, counts
<1>3. CASE \/ ReceiveAck \/ CompleteSession
           \/ ReceiveMessage \/ ReceiveBusy \/ ReceiveRepeated
           \/ PeerReceive
           \/ \E p \in Peers, i \in PeerSessions : PeerCommand(p, i)
           \/ \E p \in Peers : PeerRepeat(p)
  BY <1>3 DEF ReceiveAck, CompleteSession, ReceiveMessage, ReceiveBusy, ReceiveRepeated, Deliver,
              PeerReceive, PeerCommand, PeerRepeat, tables, counts
<1> QED
  BY <1>1, <1>2, <1>3 DEF Next

LEMMA ArrivalEffect ==
    ASSUME ITyped, ReceiveFirst \/ ReceiveNew, NEW i, i = Arrived.session_id
    PROVE  /\ i \in AckSession /\ Status(i) # "PROCESS"
           /\ inbox' = Append(inbox, Arrived) /\ Arrived \in InSession
           /\ \A j \in AckSession \ {i} : Status(j)' = Status(j)
           /\ i # 1 => Status(i)' = "PROCESS"
<1>1. /\ CommandArrives /\ i # 0 /\ Deliver(Arrived)
      /\ Status(i) \in {"IDLE", "USING"}
      /\ UNCHANGED ack_session_table \/ SetProcess(i)
      /\ i > 1 => SetProcess(i)
  BY DEF ReceiveFirst, ReceiveNew
<1>2. Arrived \in Incoming
  BY <1>1, HeadTailProperties DEF CommandArrives, Arrived, ITyped
<1>3. Arrived \in InSession /\ i \in AckSession
  BY <1>1, <1>2, Sessions DEF Incoming, InSession, PacketType
<1>4. i # 1 => SetProcess(i)
  <2>1. i # 1 => i > 1
    BY <1>3 DEF AckSession
  <2> QED
    BY <1>1, <2>1
<1>5. SetProcess(i) => /\ \A j \in AckSession \ {i} : Status(j)' = Status(j)
                       /\ Status(i)' = "PROCESS"
  <2>1. ack_session_table \in [AckSession -> AckType]
    BY DEF ITyped
  <2> QED
    BY <1>3, <2>1 DEF SetProcess, Status, AckType
<1>6. UNCHANGED ack_session_table => \A j \in AckSession \ {i} : Status(j)' = Status(j)
  BY DEF Status
<1> QED
  BY <1>1, <1>3, <1>4, <1>5, <1>6 DEF Deliver

LEMMA AnswerEffect ==
    ASSUME ITyped, NEW k \in DOMAIN inbox, SendACK(k), NEW i, i = inbox[k].session_id
    PROVE  /\ i \in AckSession
           /\ \A j \in AckSession \ {i} : Status(j)' = Status(j)
           /\ DOMAIN inbox' \subseteq Nat /\ DOMAIN inbox \subseteq Nat
           /\ \A m \in DOMAIN inbox' : \E n \in DOMAIN inbox :
                n # k /\ inbox'[m] = inbox[n] /\ ((n = m /\ m < k) \/ (n = m + 1 /\ m + 1 > k))
<1>1. ack_session_table \in [AckSession -> AckType] /\ inbox \in Seq(InSession)
  BY DEF ITyped
<1>2. /\ AckEffects(inbox[k], i, ack_session_table[i].memory_block_ptr) /\ i \in AckSession
      /\ inbox' = RemoveAt(inbox, k)
  BY AckEffect DEF SendACK
<1>3. \A j \in AckSession \ {i} : Status(j)' = Status(j)
  BY <1>1, <1>2 DEF AckEffects, Status
<1>4. /\ inbox' \in Seq(InSession)
      /\ \A m \in DOMAIN inbox' :
           \/ m \in DOMAIN inbox /\ m # k /\ m < k /\ inbox'[m] = inbox[m]
           \/ m + 1 \in DOMAIN inbox /\ m + 1 > k /\ inbox'[m] = inbox[m + 1]
  BY <1>1, <1>2, RemoveAtWorks
<1>5. DOMAIN inbox' \subseteq Nat /\ DOMAIN inbox \subseteq Nat
  BY <1>1, <1>4
<1>6. ASSUME NEW m \in DOMAIN inbox'
      PROVE  \E n \in DOMAIN inbox :
               n # k /\ inbox'[m] = inbox[n] /\ ((n = m /\ m < k) \/ (n = m + 1 /\ m + 1 > k))
  <2>1. CASE m \in DOMAIN inbox /\ m # k /\ m < k /\ inbox'[m] = inbox[m]
    BY <2>1
  <2>2. CASE m + 1 \in DOMAIN inbox /\ m + 1 > k /\ inbox'[m] = inbox[m + 1]
    <3>1. m + 1 # k
      BY <1>5, <2>2
    <3> QED
      BY <2>2, <3>1
  <2> QED
    BY <1>4, <2>1, <2>2
<1> QED
  BY <1>2, <1>3, <1>5, <1>6

LEMMA InitOwed == Init => IOwed
BY DEF Init, IOwed

LEMMA NextOwed == ITyped /\ IOwed /\ [Next]_vars => IOwed'
<1> SUFFICES ASSUME ITyped, IOwed, [Next]_vars PROVE IOwed'
  OBVIOUS
<1>1. inbox \in Seq(InSession) /\ \A k \in DOMAIN inbox : inbox[k].session_id \in AckSession
  BY Sessions DEF ITyped, InSession, PacketType
<1>2. CASE UNCHANGED <<inbox, ack_session_table>>
  BY <1>2 DEF IOwed, Status
<1>3. CASE ReceiveFirst \/ ReceiveNew
  <2>0. PICK i : i = Arrived.session_id
    OBVIOUS
  <2>1. /\ i \in AckSession /\ Status(i) # "PROCESS"
        /\ inbox' = Append(inbox, Arrived) /\ Arrived \in InSession
        /\ \A j \in AckSession \ {i} : Status(j)' = Status(j)
        /\ i # 1 => Status(i)' = "PROCESS"
    BY <1>3, <2>0, ArrivalEffect
  <2>2. \A k \in DOMAIN inbox' : \/ inbox'[k] = Arrived /\ k = Len(inbox) + 1
                                 \/ k \in DOMAIN inbox /\ inbox'[k] = inbox[k]
    BY <1>1, <2>1
  <2>3. i # 1 => \A k \in DOMAIN inbox : inbox[k].session_id # i
    BY <2>1 DEF IOwed
  <2>4. ASSUME NEW k \in DOMAIN inbox', inbox'[k].session_id # 1
        PROVE  ack_session_table'[inbox'[k].session_id].session_status = "PROCESS"
    <3>1. CASE inbox'[k] = Arrived
      BY <2>0, <2>1, <2>4, <3>1 DEF Status
    <3>2. CASE k \in DOMAIN inbox /\ inbox'[k] = inbox[k]
      <4>1. PICK j \in AckSession : j = inbox[k].session_id
        BY <1>1, <3>2
      <4>2. j # 1 /\ j # i /\ Status(j) = "PROCESS"
        BY <2>1, <2>4, <3>2, <4>1 DEF IOwed
      <4>3. Status(j)' = "PROCESS"
        BY <2>1, <4>2
      <4> QED
        BY <3>2, <4>1, <4>3 DEF Status
    <3> QED
      BY <2>2, <3>1, <3>2
  <2>5. ASSUME NEW k \in DOMAIN inbox', inbox'[k].session_id # 1, NEW m \in DOMAIN inbox', m # k
        PROVE  inbox'[m].session_id # inbox'[k].session_id
    BY <2>0, <2>2, <2>3, <2>5 DEF IOwed
  <2> QED
    BY <2>4, <2>5 DEF IOwed, Status
<1>4. ASSUME NEW k \in DOMAIN inbox, SendACK(k)
      PROVE  IOwed'
  <2>0. PICK i : i = inbox[k].session_id
    OBVIOUS
  <2>1. /\ \A j \in AckSession \ {i} : Status(j)' = Status(j)
        /\ DOMAIN inbox' \subseteq Nat /\ DOMAIN inbox \subseteq Nat
        /\ \A m \in DOMAIN inbox' : \E n \in DOMAIN inbox :
             n # k /\ inbox'[m] = inbox[n] /\ ((n = m /\ m < k) \/ (n = m + 1 /\ m + 1 > k))
    BY <1>4, <2>0, AnswerEffect
  <2>2. ASSUME NEW m \in DOMAIN inbox', inbox'[m].session_id # 1
        PROVE  /\ ack_session_table'[inbox'[m].session_id].session_status = "PROCESS"
               /\ \A m2 \in DOMAIN inbox' : m2 # m => inbox'[m2].session_id # inbox'[m].session_id
    <3>1. PICK n \in DOMAIN inbox : /\ n # k /\ inbox'[m] = inbox[n]
                                    /\ (n = m /\ m < k) \/ (n = m + 1 /\ m + 1 > k)
      BY <2>1
    <3>2. PICK j \in AckSession : j = inbox[n].session_id
      BY <1>1
    <3>3. j # 1 /\ j # i /\ Status(j) = "PROCESS"
      BY <2>0, <2>2, <3>1, <3>2 DEF IOwed
    <3>4. Status(j)' = "PROCESS"
      BY <2>1, <3>3
    <3>5. ASSUME NEW m2 \in DOMAIN inbox', m2 # m
          PROVE  inbox'[m2].session_id # j
      <4>1. PICK n2 \in DOMAIN inbox : /\ n2 # k /\ inbox'[m2] = inbox[n2]
                                       /\ (n2 = m2 /\ m2 < k) \/ (n2 = m2 + 1 /\ m2 + 1 > k)
        BY <2>1
      <4>2. n2 # n
        BY <2>1, <3>1, <3>5, <4>1
      <4> QED
        BY <3>2, <3>3, <4>1, <4>2 DEF IOwed
    <3> QED
      BY <3>1, <3>2, <3>4, <3>5 DEF Status
  <2> QED
    BY <2>2 DEF IOwed, Status
<1> QED
  BY <1>2, <1>3, <1>4, InboxSteps

LEMMA AlwaysOwed == Spec => []IOwed
BY InitOwed, NextOwed, AlwaysTyped, PTL DEF Spec

(* A lost session stays lost.                                               *)
LEMMA LostStays ==
    ASSUME ITyped, [Next]_vars, NEW i \in AckSession, Lost(i)
    PROVE  Lost(i)'
<1>1. inbox \in Seq(InSession)
  BY DEF ITyped
<1>2. CASE UNCHANGED <<inbox, ack_session_table>>
  BY <1>2 DEF Lost, Status
<1>3. CASE ReceiveFirst \/ ReceiveNew
  <2>0. PICK j : j = Arrived.session_id
    OBVIOUS
  <2>1. /\ Status(j) # "PROCESS"
        /\ inbox' = Append(inbox, Arrived) /\ Arrived \in InSession
        /\ \A l \in AckSession \ {j} : Status(l)' = Status(l)
    BY <1>3, <2>0, ArrivalEffect
  <2>2. j # i
    BY <2>1 DEF Lost
  <2>3. \A k \in DOMAIN inbox' : inbox'[k] = Arrived \/ (k \in DOMAIN inbox /\ inbox'[k] = inbox[k])
    BY <1>1, <2>1
  <2>4. \A k \in DOMAIN inbox' : inbox'[k].session_id # i
    BY <2>0, <2>2, <2>3 DEF Lost
  <2>5. Status(i)' = "PROCESS"
    BY <2>1, <2>2 DEF Lost
  <2> QED
    BY <2>4, <2>5 DEF Lost
<1>4. ASSUME NEW k \in DOMAIN inbox, SendACK(k)
      PROVE  Lost(i)'
  <2>0. PICK j : j = inbox[k].session_id
    OBVIOUS
  <2>1. /\ \A l \in AckSession \ {j} : Status(l)' = Status(l)
        /\ \A m \in DOMAIN inbox' : \E n \in DOMAIN inbox : inbox'[m] = inbox[n]
    BY <1>4, <2>0, AnswerEffect
  <2>2. j # i
    BY <2>0 DEF Lost
  <2>3. \A m \in DOMAIN inbox' : inbox'[m].session_id # i
    BY <2>1 DEF Lost
  <2>4. Status(i)' = "PROCESS"
    BY <2>1, <2>2 DEF Lost
  <2> QED
    BY <2>3, <2>4 DEF Lost
<1> QED
  BY <1>2, <1>3, <1>4, InboxSteps

KeepsRequest(i) ==
    LET b == cmd_session_table[i].memory_block_ptr
    IN  /\ b \in BlocksUsed(pool)
        /\ ~First(pool, b).is_ack /\ First(pool, b).session_id = i
        /\ First(pool, b).number = cmd_session_table[i].request

KeepsAnswer(i) ==
    LET b == ack_session_table[i].memory_block_ptr
    IN  /\ ack_session_table[i].session_status = "USING" => b # Null
        /\ b # Null => /\ b \in BlocksUsed(pool)
                       /\ First(pool, b).is_ack /\ First(pool, b).session_id = i

(* That the blocks of two sessions differ follows from what is in them.     *)
IKept == /\ \A i \in LiveSessions : KeepsRequest(i)
         /\ \A i \in Storing : KeepsAnswer(i)

LEMMA RequestStays ==
    ASSUME NEW i, KeepsRequest(i), KeepsPacket(i), NEW G,
           SamePackets(pool, pool', G), G \subseteq BlocksUsed(pool'),
           cmd_session_table[i].memory_block_ptr \in G
    PROVE  KeepsRequest(i)'
BY DEF KeepsRequest, KeepsPacket, SamePackets

LEMMA AnswerStays ==
    ASSUME NEW i \in AckSession, KeepsAnswer(i), NEW K, AnswersStay(K), i \in K, NEW G,
           SamePackets(pool, pool', G), G \subseteq BlocksUsed(pool'),
           ack_session_table[i].memory_block_ptr # Null
              => ack_session_table[i].memory_block_ptr \in G
    PROVE  KeepsAnswer(i)'
<1> DEFINE b == ack_session_table[i].memory_block_ptr
<1>1. /\ ack_session_table'[i].memory_block_ptr = b
      /\ ack_session_table'[i].session_status = "USING" => ack_session_table[i].session_status = "USING"
  BY DEF AnswersStay
<1>2. b # Null => b \in BlocksUsed(pool') /\ First(pool', b) = First(pool, b)
  BY DEF SamePackets
<1> QED
  BY <1>1, <1>2 DEF KeepsAnswer

(* Two holders hold different blocks.                                       *)
LEMMA HeldApart ==
    ASSUME IKept
    PROVE  /\ \A i, j \in LiveSessions : i # j =>
                cmd_session_table[i].memory_block_ptr # cmd_session_table[j].memory_block_ptr
           /\ \A i \in LiveSessions, j \in Storing :
                cmd_session_table[i].memory_block_ptr # ack_session_table[j].memory_block_ptr
                \/ ack_session_table[j].memory_block_ptr = Null
           /\ \A i, j \in Storing : i # j =>
                ack_session_table[i].memory_block_ptr # ack_session_table[j].memory_block_ptr
                \/ ack_session_table[j].memory_block_ptr = Null
           /\ \A i \in LiveSessions : /\ cmd_session_table[i].memory_block_ptr \in BlocksUsed(pool)
                                      /\ cmd_session_table[i].memory_block_ptr # Null
<1>1. \A i \in LiveSessions : cmd_session_table[i].memory_block_ptr # Null
  BY Sessions DEF IKept, KeepsRequest, BlocksUsed
<1> QED
  BY <1>1 DEF IKept, KeepsRequest, KeepsAnswer

LEMMA InitKept == Init => IKept
<1> SUFFICES ASSUME Init PROVE IKept
  OBVIOUS
<1>1. LiveSessions = {}
  BY Sessions DEF LiveSessions, Live, Init
<1>2. ASSUME NEW i \in AckSession
      PROVE  KeepsAnswer(i)
  BY <1>2 DEF Init, KeepsAnswer
<1> QED
  BY <1>1, <1>2 DEF IKept, Storing

LEMMA StoringShrinks == ITyped /\ [Next]_vars => Storing' \subseteq Storing
BY LostStays DEF Storing

(* What a step is to leave: the sessions that are storing now still do.     *)
StillKept == /\ \A i \in LiveSessions' : KeepsRequest(i)'
             /\ \A i \in Storing : KeepsAnswer(i)'

LEMMA FreeKept ==
    ASSUME ITyped, IKept, LockFree, NEW i \in AckSession, FreeCMDSession(i),
           UNCHANGED <<packing, ack_session_table>>
    PROVE  StillKept
<1> DEFINE b == cmd_session_table[i].memory_block_ptr
           G == BlocksUsed(pool')
<1>1. LiveSessions' = LiveSessions \ {i} /\ \A j \in AckSession : Keeps(j)
  BY Sessions, FreeSessionsEffect
<1>2. /\ BlocksUsed(pool') = IF cmd_session_table[i].usage_flag THEN BlocksUsed(pool) \ {b}
                             ELSE BlocksUsed(pool)
      /\ SamePackets(pool, pool', BlockPtr)
  BY Sessions, FreeCMDSessionWorks
<1>3. SamePackets(pool, pool', G)
  BY <1>2, Sessions DEF SamePackets, BlocksUsed
<1>4. cmd_session_table[i].usage_flag => i \in LiveSessions
  BY IdleIsFree, Sessions DEF LiveSessions, Live
<1>5. ASSUME NEW j \in LiveSessions'
      PROVE  KeepsRequest(j)'
  <2>1. j \in LiveSessions /\ j # i /\ KeepsRequest(j) /\ KeepsPacket(j)
    BY <1>1 DEF IKept, Keeps, LiveSessions
  <2>2. cmd_session_table[j].memory_block_ptr \in G
    BY <1>2, <1>4, <2>1, HeldApart
  <2> QED
    BY <1>3, <2>1, <2>2, RequestStays
<1>6. ASSUME NEW j \in Storing
      PROVE  KeepsAnswer(j)'
  <2>1. KeepsAnswer(j) /\ AnswersStay(AckSession) /\ j \in AckSession
    BY SetProcessQuiet DEF IKept, Storing
  <2>2. ack_session_table[j].memory_block_ptr # Null => ack_session_table[j].memory_block_ptr \in G
    BY <1>2, <1>4, <2>1, HeldApart DEF KeepsAnswer
  <2> QED
    BY <1>3, <2>1, <2>2, AnswerStays
<1> QED
  BY <1>5, <1>6 DEF StillKept

LEMMA NextKept == ITyped /\ IOwed /\ IKept /\ [Next]_vars /\ [~RefusedInOne]_vars => IKept'
<1> SUFFICES ASSUME ITyped, IOwed, IKept, [Next]_vars, [~RefusedInOne]_vars PROVE IKept'
  OBVIOUS
<1>0. StillKept => IKept'
  BY StoringShrinks DEF StillKept, IKept
<1>1. ASSUME SessionsStay \/ (LiveSessions' = LiveSessions /\ \A i \in AckSession : KeepsPacket(i)),
             AnswersStay(AckSession), BlocksUsed(pool') = BlocksUsed(pool),
             SamePackets(pool, pool', BlocksUsed(pool))
      PROVE  StillKept
  <2>1. LiveSessions' = LiveSessions /\ \A i \in LiveSessions : KeepsPacket(i)
    BY <1>1 DEF SessionsStay, Keeps, LiveSessions
  <2>2. ASSUME NEW i \in LiveSessions
        PROVE  KeepsRequest(i)'
    <3>1. KeepsRequest(i) /\ KeepsPacket(i) /\ cmd_session_table[i].memory_block_ptr \in BlocksUsed(pool)
      BY <2>1, HeldApart DEF IKept
    <3> QED
      BY <1>1, <3>1, RequestStays
  <2>3. ASSUME NEW i \in Storing
        PROVE  KeepsAnswer(i)'
    <3>1. KeepsAnswer(i) /\ i \in AckSession
      BY DEF IKept, Storing
    <3>2. ack_session_table[i].memory_block_ptr # Null
            => ack_session_table[i].memory_block_ptr \in BlocksUsed(pool)
      BY <3>1 DEF KeepsAnswer
    <3> QED
      BY <1>1, <3>1, <3>2, AnswerStays
  <2> QED
    BY <2>1, <2>2, <2>3 DEF StillKept
<1>s. UNCHANGED pool => BlocksUsed(pool') = BlocksUsed(pool) /\ SamePackets(pool, pool', BlocksUsed(pool))
  BY DEF SamePackets
<1>2. ASSUME NEW mode \in SendModes, SendCMD(mode)
      PROVE  StillKept
  <2>1. UNCHANGED <<pool, ack_session_table>>
    BY <1>2 DEF SendCMD
  <2> QED
    BY <1>1, <1>2, <1>s, <2>1, SendCMDSessions, SetProcessQuiet
<1>3. ASSUME PackAndSend
      PROVE  StillKept
  <2>0. PICK i : i = packing.session
    OBVIOUS
  <2>1. AnswersStay(AckSession)
    BY <1>3, SetProcessQuiet DEF PackAndSend
  <2>2. CASE PackRefused(i) \/ \E b \in Handle : PackedAndFreed(i, b)
    <3>1. /\ SessionsStay /\ BlocksUsed(pool') = BlocksUsed(pool)
          /\ SamePackets(pool, pool', BlocksUsed(pool))
      BY <1>3, <2>0, <2>2, PackSessions DEF PackRefused, PackedAndFreed
    <3> QED
      BY <1>1, <2>1, <3>1
  <2>3. ASSUME NEW b \in Handle, PackedAndKept(i, b)
        PROVE  StillKept
    <3>1. /\ LiveSessions' = LiveSessions \cup {i} /\ i \notin LiveSessions
          /\ \A j \in AckSession \ {i} : Keeps(j)
          /\ cmd_session_table'[i].memory_block_ptr = b
          /\ cmd_session_table'[i].request = requests
      BY <1>3, <2>0, <2>3, PackSessions
    <3>2. /\ BlocksUsed(pool') = BlocksUsed(pool) \cup {b}
          /\ SamePackets(pool, pool', BlocksUsed(pool))
          /\ First(pool', b) = Outgoing(i)
      BY <2>3 DEF PackedAndKept, NewPacket
    <3>3. ~Outgoing(i).is_ack /\ Outgoing(i).number = requests /\ Outgoing(i).session_id = i
      BY <1>3, <2>0, PackEffect
    <3>4. KeepsRequest(i)'
      BY <3>1, <3>2, <3>3 DEF KeepsRequest
    <3>5. ASSUME NEW j \in LiveSessions
          PROVE  KeepsRequest(j)'
      <4>1. KeepsRequest(j) /\ KeepsPacket(j)
            /\ cmd_session_table[j].memory_block_ptr \in BlocksUsed(pool)
        BY <3>1, HeldApart DEF IKept, Keeps, LiveSessions
      <4> QED
        BY <3>2, <4>1, RequestStays
    <3>6. ASSUME NEW j \in Storing
          PROVE  KeepsAnswer(j)'
      <4>1. KeepsAnswer(j) /\ j \in AckSession
        BY DEF IKept, Storing
      <4>2. ack_session_table[j].memory_block_ptr # Null
              => ack_session_table[j].memory_block_ptr \in BlocksUsed(pool)
        BY <4>1 DEF KeepsAnswer
      <4> QED
        BY <2>1, <3>2, <4>1, <4>2, AnswerStays
    <3> QED
      BY <3>1, <3>4, <3>5, <3>6 DEF StillKept
  <2> QED
    BY <1>3, <2>0, <2>2, <2>3, PackEffect
<1>4. ASSUME UNCHANGED vars
      PROVE  StillKept
  <2>1. UNCHANGED pool /\ SessionsStay /\ AnswersStay(AckSession)
    BY <1>4, QuietSteps, SameTable DEF Quiet
  <2> QED
    BY <1>1, <1>s, <2>1
<1>5. ASSUME NEW k \in DOMAIN inbox, SendACK(k), ~RefusedInOne
      PROVE  IKept'
  <2>0. PICK i : i = inbox[k].session_id
    OBVIOUS
  <2> DEFINE old == ack_session_table[i].memory_block_ptr
             G == BlocksUsed(pool) \ {old}
  <2>1. /\ AckEffects(inbox[k], i, old) /\ i \in AckSession
        /\ AnswerTo(inbox[k]).is_ack /\ AnswerTo(inbox[k]).session_id = i
    BY <1>5, <2>0, AckEffect
  <2>2. SessionsStay
    BY <1>5, SameTable DEF SendACK
  <2>3. ack_session_table \in [AckSession -> AckType] /\ old = ack_session_table[i].memory_block_ptr
    BY DEF ITyped
  <2>4. i \in Storing
    BY <2>0, <2>1 DEF Storing, Lost
  <2>5. G = BlocksUsed(pool) \ {old}
    OBVIOUS
  <2> HIDE DEF old, G
  <2>6. ASSUME NEW j \in Storing, j # i, AnswersStay(AckSession \ {i}),
               G \subseteq BlocksUsed(pool'), SamePackets(pool, pool', G)
        PROVE  KeepsAnswer(j)'
    <3>1. KeepsAnswer(j) /\ j \in AckSession
      BY DEF IKept, Storing
    <3>2. ack_session_table[j].memory_block_ptr # Null => ack_session_table[j].memory_block_ptr \in G
      BY <2>3, <2>4, <2>5, <2>6, <3>1, HeldApart DEF KeepsAnswer
    <3> QED
      BY <2>6, <3>1, <3>2, AnswerStays
  <2>7. ASSUME NEW j \in LiveSessions, G \subseteq BlocksUsed(pool'), SamePackets(pool, pool', G)
        PROVE  KeepsRequest(j)'
    <3>1. KeepsRequest(j) /\ KeepsPacket(j)
      BY <2>2 DEF IKept, SessionsStay, Keeps, LiveSessions
    <3>2. cmd_session_table[j].memory_block_ptr \in G
      BY <2>3, <2>4, <2>5, HeldApart
    <3> QED
      BY <2>7, <3>1, <3>2, RequestStays
  <2>8. CASE NoMemoryFor(inbox[k])
    <3>1. BlocksUsed(pool') = G /\ SamePackets(pool, pool', G) /\ UNCHANGED ack_session_table
      BY <2>1, <2>5, <2>8 DEF AckEffects
    <3>2. i # 1
      BY <1>5, <2>0, <2>8 DEF RefusedInOne
    <3>3. Status(i)' = "PROCESS"
      BY <2>0, <3>1, <3>2 DEF IOwed, Status
    <3>4. \A m \in DOMAIN inbox' : inbox'[m].session_id # i
      <4>1. \A m \in DOMAIN inbox' : \E n \in DOMAIN inbox : n # k /\ inbox'[m] = inbox[n]
        BY <1>5, <2>0, AnswerEffect
      <4> QED
        BY <2>0, <3>2, <4>1 DEF IOwed
    <3>5. i \notin Storing'
      BY <3>2, <3>3, <3>4 DEF Storing, Lost
    <3>6. AnswersStay(AckSession \ {i})
      BY <3>1 DEF AnswersStay
    <3>7. \A j \in Storing' : j \in Storing /\ j # i
      BY <3>5, StoringShrinks
    <3> QED
      BY <2>2, <2>6, <2>7, <3>1, <3>6, <3>7 DEF IKept, SessionsStay
  <2>9. CASE ~NoMemoryFor(inbox[k])
    <3>1. PICK b \in Handle :
            /\ BlocksUsed(pool') = G \cup {b}
            /\ SamePackets(pool, pool', G)
            /\ First(pool', b) = AnswerTo(inbox[k])
            /\ ack_session_table' =
                 [ack_session_table EXCEPT ![i] = [session_status |-> "USING",
                                                   memory_block_ptr |-> b]]
      BY <2>1, <2>5, <2>9 DEF AckEffects
    <3>2. AnswersStay(AckSession \ {i})
      BY <2>3, <3>1 DEF AnswersStay
    <3>3. ack_session_table'[i].memory_block_ptr = b
      BY <2>1, <2>3, <3>1
    <3>4. KeepsAnswer(i)'
      <4>1. b \in BlocksUsed(pool') /\ b # Null
        BY <3>1, Sessions
      <4> QED
        BY <2>1, <3>1, <3>3, <4>1 DEF KeepsAnswer
    <3>5. G \subseteq BlocksUsed(pool')
      BY <3>1
    <3> QED
      BY <1>0, <2>2, <2>6, <2>7, <3>1, <3>2, <3>4, <3>5 DEF StillKept, SessionsStay
  <2> QED
    BY <2>8, <2>9
<1>6. ASSUME NEW i \in AckSession, Timeout(i)
      PROVE  StillKept
  <2>1. UNCHANGED <<pool, ack_session_table>>
    BY <1>6 DEF Timeout
  <2> QED
    BY <1>1, <1>6, <1>s, <2>1, TimeoutSessions, SetProcessQuiet
<1>7. ASSUME PollGiveUp
      PROVE  StillKept
  <2>1. poll \in AckSession
    BY <1>7, Sessions DEF PollGiveUp, ITyped, SessionsTyped
  <2> QED
    BY <1>7, <2>1, FreeKept DEF PollGiveUp
<1>8. ASSUME PollResend
      PROVE  StillKept
  <2>1. UNCHANGED <<pool, ack_session_table>>
    BY <1>8 DEF PollResend
  <2> QED
    BY <1>1, <1>8, <1>s, <2>1, ResendSessions, SetProcessQuiet
<1>9. ASSUME CompleteSession
      PROVE  StillKept
  <2>1. recv.session_id \in AckSession /\ LockFree /\ UNCHANGED <<packing, ack_session_table>>
    BY <1>9, RecvSession DEF CompleteSession
  <2>2. CASE FreeCMDSession(recv.session_id)
    BY <2>1, <2>2, FreeKept
  <2>3. CASE UNCHANGED <<pool, cmd_session_table>>
    BY <1>1, <1>s, <2>1, <2>3, SameTable, SetProcessQuiet
  <2> QED
    BY <1>9, <2>2, <2>3 DEF CompleteSession
<1>10. ASSUME Quiet
       PROVE  StillKept
  BY <1>1, <1>s, <1>10, SameTable DEF Quiet
<1> QED
  BY <1>0, <1>2, <1>3, <1>4, <1>5, <1>6, <1>7, <1>8, <1>9, <1>10, QuietSteps DEF Next

LEMMA AlwaysKept == Spec /\ OneFindsMemory => []IKept
BY InitKept, NextKept, AlwaysTyped, AlwaysOwed, PTL DEF Spec, OneFindsMemory

(* Every session that is to send a packet again finds that very packet in a *)
(* block of its own, as long as no answer of session 1 was refused its      *)
(* memory.                                                                  *)
THEOREM PacketsStayKept == Spec /\ OneFindsMemory => []PacketsKept
<1>1. ITyped /\ IKept => PacketsKept
  <2> SUFFICES ASSUME ITyped, IKept PROVE PacketsKept
    OBVIOUS
  <2>1. ASSUME NEW b \in BlocksUsed(pool)
        PROVE  HoldsBlock(b) /\ PacketAt(b) = First(pool, b)
    BY Sessions DEF HoldsBlock, PacketAt, First, BlocksUsed, UsedSlots
  <2>2. ASSUME NEW i \in AckSession, cmd_session_table[i].usage_flag, i # packing.session
        PROVE  KeepsRequest(i)
    BY <2>2 DEF IKept, LiveSessions, Live
  <2>3. ASSUME NEW i \in AckSession, ack_session_table[i].session_status = "USING"
        PROVE  /\ HoldsBlock(ack_session_table[i].memory_block_ptr)
               /\ StoredAnswer(i).is_ack /\ StoredAnswer(i).session_id = i
    <3>1. ack_session_table[i].memory_block_ptr \in BlocksUsed(pool)
      BY <2>3 DEF IKept, KeepsAnswer, Storing, Lost, Status
    <3> QED
      BY <2>1, <2>3, <3>1 DEF IKept, KeepsAnswer, Storing, Lost, Status, StoredAnswer
  <2> QED
    BY <2>1, <2>2, <2>3 DEF PacketsKept, KeepsRequest
<1> QED
  BY <1>1, AlwaysTyped, AlwaysKept, PTL

-----------------------------------------------------------------------------
(* The threads find a block, and an answer finds its request, as long as    *)
(* SendCMD gets its memory.  A refused request gives back a session that    *)
(* the poll thread or an ack has found in use meanwhile: it never had a     *)
(* block, or still has the request before and its pointer.                  *)

RequestsFindMemory == [][~RequestRefused]_vars

(* ReceivePool is on its way to session i, which is not being set up.       *)
AckComes(i) == recv # NoPacket /\ i = recv.session_id /\ i # packing.session

(* The sessions that a thread uses, or will use when it gets the lock.      *)
Reached(i) == i \in LiveSessions \/ (i = poll /\ i # packing.session) \/ AckComes(i)

IFound == \A i \in AckSession : Reached(i) => cmd_session_table[i].memory_block_ptr # Null

LEMMA InitFound == Init => IFound
<1> SUFFICES ASSUME Init PROVE IFound
  OBVIOUS
<1>1. LiveSessions = {} /\ poll = 0 /\ recv = NoPacket
  BY Sessions DEF LiveSessions, Live, Init
<1> QED
  BY <1>1, Sessions DEF IFound, Reached, AckComes

LEMMA FoundStays ==
    ASSUME IFound, \A i \in AckSession : Reached(i)' => Reached(i) /\ KeepsPacket(i)
    PROVE  IFound'
BY DEF IFound, KeepsPacket

LEMMA NextFound == ITyped /\ IFound /\ [Next]_vars /\ [~RequestRefused]_vars => IFound'
<1> SUFFICES ASSUME ITyped, IFound, [Next]_vars, [~RequestRefused]_vars PROVE IFound'
  OBVIOUS
<1>1. ASSUME SessionsStay \/ (LiveSessions' \subseteq LiveSessions /\ \A i \in AckSession : KeepsPacket(i)),
             poll' = poll \/ poll' = 0, recv' = recv \/ recv' = NoPacket,
             packing' = packing \/ LockFree
      PROVE  IFound'
  <2>1. LiveSessions' \subseteq LiveSessions /\ \A i \in AckSession : KeepsPacket(i)
    BY <1>1 DEF SessionsStay, Keeps
  <2>2. packing' = packing \/ packing.session = 0
    BY <1>1, IdleIsFree
  <2>3. ASSUME NEW i \in AckSession, Reached(i)'
        PROVE  Reached(i)
    <3>1. i # 0
      BY Sessions
    <3>2. CASE i \in LiveSessions'
      BY <2>1, <3>2 DEF Reached
    <3>3. CASE i = poll' /\ i # packing'.session
      BY <1>1, <2>2, <3>1, <3>3 DEF Reached
    <3>4. CASE AckComes(i)'
      BY <1>1, <2>2, <3>1, <3>4 DEF Reached, AckComes
    <3> QED
      BY <2>3, <3>2, <3>3, <3>4 DEF Reached
  <2> QED
    BY <2>1, <2>3, FoundStays
<1>2. ASSUME NEW mode \in SendModes, SendCMD(mode)
      PROVE  IFound'
  <2>1. UNCHANGED <<poll, recv>>
    BY <1>2 DEF SendCMD
  <2> QED
    BY <1>1, <1>2, <2>1, SendCMDSessions
<1>3. CASE UNCHANGED vars
  <2>1. UNCHANGED <<cmd_session_table, packing, poll, recv>>
    BY <1>3 DEF vars, tables
  <2> QED
    BY <1>1, <2>1, SameTable
<1>4. CASE PackAndSend /\ ~RequestRefused
  <2>0. PICK i : i = packing.session
    OBVIOUS
  <2>1. UNCHANGED <<poll, recv>> /\ packing' = Idle /\ packing'.session = 0
    BY <1>4, IdleIsFree DEF PackAndSend
  <2>2. ASSUME NEW b \in Handle, PackedAndFreed(i, b)
        PROVE  IFound'
    <3>1. SessionsStay /\ i = 0
      BY <1>4, <2>0, <2>2, PackSessions DEF PackedAndFreed
    <3>2. packing'.session = packing.session
      BY <2>0, <2>1, <3>1
    <3>3. ASSUME NEW j \in AckSession, Reached(j)'
          PROVE  Reached(j) /\ KeepsPacket(j)
      BY <2>1, <3>1, <3>2, <3>3 DEF Reached, AckComes, SessionsStay, Keeps
    <3> QED
      BY <3>3, FoundStays
  <2>3. ASSUME NEW b \in Handle, PackedAndKept(i, b)
        PROVE  IFound'
    <3>1. /\ LiveSessions' = LiveSessions \cup {i}
          /\ \A j \in AckSession \ {i} : Keeps(j)
          /\ cmd_session_table'[i].memory_block_ptr = b /\ b # Null
      BY <1>4, <2>0, <2>3, PackSessions, Sessions
    <3>2. ASSUME NEW j \in AckSession, Reached(j)', j # i
          PROVE  Reached(j) /\ KeepsPacket(j)
      BY <2>0, <2>1, <3>1, <3>2 DEF Reached, AckComes, Keeps
    <3> QED
      BY <3>1, <3>2 DEF IFound, KeepsPacket
  <2> QED
    BY <1>4, <2>0, <2>2, <2>3, PackEffect
<1>5. ASSUME NEW k \in DOMAIN inbox, SendACK(k)
      PROVE  IFound'
  <2>1. UNCHANGED <<cmd_session_table, packing, poll, recv>>
    BY <1>5 DEF SendACK
  <2> QED
    BY <1>1, <2>1, SameTable
<1>6. ASSUME NEW i \in AckSession, Timeout(i)
      PROVE  IFound'
  <2>1. UNCHANGED <<packing, poll, recv>>
    BY <1>6 DEF Timeout
  <2> QED
    BY <1>1, <1>6, <2>1, TimeoutSessions
<1>7. ASSUME NEW i \in AckSession, PollCheck(i)
      PROVE  IFound'
  <2>1. UNCHANGED <<cmd_session_table, packing, recv>> /\ poll' = i /\ cmd_session_table[i].usage_flag
    BY <1>7 DEF PollCheck, tables
  <2>2. SessionsStay
    BY <2>1, SameTable
  <2>3. ASSUME NEW j \in AckSession, Reached(j)'
        PROVE  Reached(j) /\ KeepsPacket(j)
    BY <2>1, <2>2, <2>3 DEF Reached, AckComes, SessionsStay, Keeps, LiveSessions, Live
  <2> QED
    BY <2>3, FoundStays
<1>8. CASE PollGiveUp
  <2>1. poll \in Session /\ LockFree /\ UNCHANGED <<packing, recv>> /\ poll' = 0
    BY <1>8 DEF PollGiveUp, ITyped, SessionsTyped
  <2>2. LiveSessions' \subseteq LiveSessions /\ \A i \in AckSession : KeepsPacket(i)
    BY <1>8, <2>1, FreeSessionsEffect DEF PollGiveUp, Keeps
  <2> QED
    BY <1>1, <2>1, <2>2
<1>9. CASE PollResend
  <2>1. UNCHANGED <<packing, recv>> /\ poll' = 0
    BY <1>9 DEF PollResend
  <2> QED
    BY <1>1, <1>9, <2>1, ResendSessions
<1>10. CASE ReceiveAck
  <2>1. /\ UNCHANGED <<cmd_session_table, packing, poll>>
        /\ recv' # NoPacket => cmd_session_table[recv'.session_id].usage_flag
    BY <1>10 DEF ReceiveAck, tables
  <2>2. SessionsStay
    BY <2>1, SameTable
  <2>3. ASSUME NEW j \in AckSession, Reached(j)'
        PROVE  Reached(j) /\ KeepsPacket(j)
    BY <2>1, <2>2, <2>3 DEF Reached, AckComes, SessionsStay, Keeps, LiveSessions, Live
  <2> QED
    BY <2>3, FoundStays
<1>11. CASE CompleteSession
  <2>1. /\ recv.session_id \in Session /\ LockFree /\ UNCHANGED <<packing, poll>>
        /\ recv' = NoPacket
    BY <1>11, RecvSession, Sessions DEF CompleteSession
  <2>2. CASE FreeCMDSession(recv.session_id)
    <3>1. LiveSessions' \subseteq LiveSessions /\ \A i \in AckSession : KeepsPacket(i)
      BY <2>1, <2>2, FreeSessionsEffect DEF Keeps
    <3> QED
      BY <1>1, <2>1, <3>1
  <2>3. CASE UNCHANGED cmd_session_table
    BY <1>1, <2>1, <2>3, SameTable
  <2> QED
    BY <1>11, <2>2, <2>3 DEF CompleteSession
<1>12. CASE \/ ReceiveMessage \/ ReceiveFirst \/ ReceiveBusy \/ ReceiveRepeated \/ ReceiveNew
            \/ PeerReceive
            \/ \E p \in Peers, i \in PeerSessions : PeerCommand(p, i)
            \/ \E p \in Peers : PeerRepeat(p)
  <2>1. UNCHANGED <<cmd_session_table, packing, poll, recv>>
    BY <1>12 DEF ReceiveMessage, ReceiveFirst, ReceiveBusy, ReceiveRepeated, ReceiveNew,
                 CommandArrives, PeerReceive, PeerCommand, PeerRepeat, tables
  <2> QED
    BY <1>1, <2>1, SameTable
<1> QED
  BY <1>2, <1>3, <1>4, <1>5, <1>6, <1>7, <1>8, <1>9, <1>10, <1>11, <1>12 DEF Next, vars

LEMMA AlwaysFound == Spec /\ RequestsFindMemory => []IFound
BY InitFound, NextFound, AlwaysTyped, PTL DEF Spec, RequestsFindMemory

(* No thread comes to use a session that never had a block, though it       *)
(* looked at usage_flag while SendCMD was setting the session up, as long   *)
(* as no request was refused its memory.                                    *)
THEOREM BlocksAreFound == Spec /\ RequestsFindMemory => []ThreadsFindABlock
<1>1. ITyped /\ IFound => ThreadsFindABlock
  <2> SUFFICES ASSUME ITyped, IFound, LockFree
               PROVE  /\ poll # 0 => cmd_session_table[poll].memory_block_ptr # Null
                      /\ recv # NoPacket
                           => cmd_session_table[recv.session_id].memory_block_ptr # Null
    BY DEF ThreadsFindABlock
  <2>1. packing.session = 0 /\ (poll # 0 => poll \in AckSession)
    BY IdleIsFree, Sessions DEF ITyped, SessionsTyped
  <2>2. recv # NoPacket => recv.session_id \in AckSession /\ recv.session_id # 0
    BY RecvSession, Sessions
  <2> QED
    BY <2>1, <2>2 DEF IFound, Reached, AckComes
<1> QED
  BY <1>1, AlwaysTyped, AlwaysFound, PTL

-----------------------------------------------------------------------------
(* A request is completed once, as long as SendCMD gets its memory.  An ack *)
(* that ReceivePool is on its way with finds in the session a request that  *)
(* nothing has completed, the one it answers or a later one.                *)

Awaited(i) == i \in LiveSessions \/ AckComes(i)

IOnce ==
    /\ \A r \in Request : answered[r] <= 1 /\ (r >= Fresh => answered[r] = 0)
    /\ \A i \in AckSession : cmd_session_table[i].request < Fresh
    /\ \A i, j \in AckSession :
         i # j /\ cmd_session_table[i].request = cmd_session_table[j].request =>
             cmd_session_table[i].request = 0
    /\ \A i \in AckSession : Awaited(i) =>
         /\ cmd_session_table[i].request \in Request
         /\ answered[cmd_session_table[i].request] = 0

LEMMA InitOnce == Init => IOnce
<1> SUFFICES ASSUME Init PROVE IOnce
  OBVIOUS
<1>1. LiveSessions = {} /\ recv = NoPacket /\ Fresh = 1
  BY Sessions DEF LiveSessions, Live, Init, Fresh, LockFree
<1>2. \A i \in AckSession : cmd_session_table[i].request = 0 /\ ~Awaited(i)
  BY <1>1, Sessions DEF Init, Awaited, AckComes
<1>3. \A r \in Request : answered[r] = 0
  BY DEF Init
<1> QED
  BY <1>1, <1>2, <1>3 DEF IOnce

LEMMA OnceStays ==
    ASSUME ITyped, ITyped', IOnce, answered' = answered, Fresh <= Fresh',
           \A i \in AckSession : KeepsPacket(i) /\ (Awaited(i)' => Awaited(i))
    PROVE  IOnce'
<1>1. \A i \in AckSession : cmd_session_table'[i].request = cmd_session_table[i].request
  BY DEF KeepsPacket
<1>2. /\ Fresh \in Nat /\ Fresh' \in Nat /\ Request \subseteq Nat
      /\ \A i \in AckSession : cmd_session_table[i].request \in Nat
  <2>1. Fresh \in Nat /\ Fresh' \in Nat /\ Request \subseteq Nat
    BY DEF ITyped, Request
  <2>2. cmd_session_table \in [Session -> SessionType] /\ AckSession \subseteq Session
    BY Sessions DEF ITyped, SessionsTyped, SessionType
  <2>3. \A i \in AckSession : cmd_session_table[i].request \in Nat
    BY <2>2, ProtocolAssumption DEF SessionType
  <2> QED
    BY <2>1, <2>3
<1>3. \A r \in Request : r >= Fresh' => r >= Fresh
  BY <1>2
<1>4. \A i \in AckSession : cmd_session_table'[i].request < Fresh'
  <2>1. \A i \in AckSession : cmd_session_table[i].request < Fresh
    BY DEF IOnce
  <2> QED
    BY <1>1, <1>2, <2>1
<1> QED
  BY <1>1, <1>3, <1>4 DEF IOnce

(* The request that SendCMD hands to a session is new.                      *)
LEMMA PackOnce ==
    ASSUME ITyped, IOnce, PackAndSend, NEW i, i = packing.session,
           NEW b \in Handle, PackedAndKept(i, b)
    PROVE  /\ IOnce' /\ requests \in Request /\ Fresh = requests
           /\ \A j \in AckSession \ {i} : cmd_session_table[j].request # requests
<1>1. /\ UNCHANGED <<poll, recv, answered, requests>> /\ packing' = Idle /\ packing'.session = 0
      /\ Fresh = requests
  BY IdleIsFree DEF PackAndSend, Fresh
<1>2. requests \in Request
  BY <1>1, ProtocolAssumption DEF ITyped, SessionsTyped, Request
<1>3. Fresh' = requests + 1
  BY <1>1 DEF Fresh, LockFree
<1>4. /\ LiveSessions' = LiveSessions \cup {i} /\ i \in AckSession
      /\ \A j \in AckSession \ {i} : Keeps(j)
      /\ cmd_session_table'[i].request = requests
  BY PackSessions
<1>5. \A j \in AckSession : cmd_session_table[j].request < requests
  BY <1>1 DEF IOnce
<1>6. requests \in Nat /\ \A j \in AckSession : cmd_session_table[j].request \in Nat
  BY <1>2, Sessions, ProtocolAssumption DEF ITyped, SessionsTyped, Request
<1>7. \A j \in AckSession \ {i} : /\ cmd_session_table'[j].request = cmd_session_table[j].request
                                  /\ cmd_session_table[j].request < requests
                                  /\ cmd_session_table[j].request # requests
  BY <1>4, <1>5, <1>6 DEF Keeps, KeepsPacket
<1>8. ASSUME NEW r \in Request
      PROVE  answered'[r] <= 1 /\ (r >= Fresh' => answered'[r] = 0)
  <2>1. answered[r] <= 1 /\ (r >= requests => answered[r] = 0) /\ r \in Nat
    BY <1>1 DEF IOnce, Request
  <2> QED
    BY <1>1, <1>3, <1>6, <2>1
<1>9. ASSUME NEW j \in AckSession
      PROVE  cmd_session_table'[j].request < Fresh'
  <2>1. cmd_session_table'[j].request \in Nat /\ cmd_session_table'[j].request <= requests
    BY <1>4, <1>6, <1>7
  <2> QED
    BY <1>3, <1>6, <2>1
<1>10. ASSUME NEW j \in AckSession, NEW k \in AckSession, j # k,
              cmd_session_table'[j].request = cmd_session_table'[k].request
       PROVE  cmd_session_table'[j].request = 0
  <2>1. j # i /\ k # i
    BY <1>4, <1>7, <1>10
  <2> QED
    BY <1>7, <1>10, <2>1 DEF IOnce
<1>11. ASSUME NEW j \in AckSession, Awaited(j)'
       PROVE  /\ cmd_session_table'[j].request \in Request
              /\ answered'[cmd_session_table'[j].request] = 0
  <2>1. CASE j = i
    <3>1. answered[requests] = 0
      <4>1. requests >= Fresh
        BY <1>1, <1>6
      <4> QED
        BY <1>2, <4>1 DEF IOnce
    <3> QED
      BY <1>1, <1>2, <1>4, <2>1, <3>1
  <2>2. CASE j # i
    <3>1. Awaited(j)
      BY <1>1, <1>4, <1>11, <2>2 DEF Awaited, AckComes
    <3> QED
      BY <1>1, <1>7, <2>2, <3>1 DEF IOnce
  <2> QED
    BY <2>1, <2>2
<1>12. IOnce'
  BY <1>8, <1>9, <1>10, <1>11 DEF IOnce
<1> QED
  BY <1>1, <1>2, <1>7, <1>12

LEMMA CompleteOnce ==
    ASSUME ITyped, IOnce, CompleteSession, NEW i, i = recv.session_id,
           FreeCMDSession(i), answered' = [answered EXCEPT ![cmd_session_table[i].request] = @ + 1]
    PROVE  IOnce' /\ cmd_session_table[i].request \in Request /\ answered[cmd_session_table[i].request] = 0
<1> DEFINE q == cmd_session_table[i].request
<1>1. /\ recv # NoPacket /\ LockFree /\ recv' = NoPacket /\ UNCHANGED <<packing, requests>>
      /\ i \in AckSession
  BY RecvSession DEF CompleteSession
<1>2. LiveSessions' = LiveSessions \ {i} /\ \A j \in AckSession : Keeps(j)
  BY <1>1, Sessions, FreeSessionsEffect
<1>3. Fresh' = Fresh /\ packing.session = 0
  BY <1>1, IdleIsFree, FreshStays
<1>4. Awaited(i)
  BY <1>1, <1>3, Sessions DEF Awaited, AckComes
<1>5. q \in Request /\ answered[q] = 0 /\ q < Fresh
  BY <1>1, <1>4 DEF IOnce
<1>6. answered \in [Request -> Nat]
  BY DEF ITyped
<1>f. Fresh \in Nat /\ Request \subseteq Nat
  BY DEF ITyped, Request
<1>7. \A j \in AckSession : cmd_session_table'[j].request = cmd_session_table[j].request
  BY <1>2 DEF Keeps, KeepsPacket
<1>10. answered' = [answered EXCEPT ![q] = @ + 1] /\ q = cmd_session_table[i].request
  OBVIOUS
<1> HIDE DEF q
<1>8. ASSUME NEW r \in Request
      PROVE  answered'[r] <= 1 /\ (r >= Fresh' => answered'[r] = 0)
  <2>1. answered[r] <= 1 /\ (r >= Fresh => answered[r] = 0)
    BY DEF IOnce
  <2>2. CASE r = q
    <3>1. answered'[r] = 1 /\ ~(r >= Fresh)
      BY <1>5, <1>6, <1>10, <1>f, <2>2
    <3> QED
      BY <1>3, <3>1
  <2>3. CASE r # q
    BY <1>3, <1>6, <1>10, <2>1, <2>3
  <2> QED
    BY <2>2, <2>3
<1>9. ASSUME NEW j \in AckSession, Awaited(j)'
      PROVE  /\ cmd_session_table'[j].request \in Request
             /\ answered'[cmd_session_table'[j].request] = 0
  <2>1. j \in LiveSessions /\ j # i
    BY <1>1, <1>2, <1>9 DEF Awaited, AckComes
  <2>2. cmd_session_table[j].request \in Request /\ answered[cmd_session_table[j].request] = 0
    BY <2>1 DEF Awaited, IOnce
  <2>3. cmd_session_table[j].request # q
    <3>1. cmd_session_table[j].request # 0
      BY <2>2 DEF Request
    <3> QED
      BY <1>1, <1>10, <2>1, <3>1 DEF IOnce
  <2> QED
    BY <1>6, <1>7, <1>10, <2>2, <2>3
<1>11. \A j \in AckSession : cmd_session_table'[j].request < Fresh'
  BY <1>3, <1>7 DEF IOnce
<1>12. \A j, k \in AckSession :
         j # k /\ cmd_session_table'[j].request = cmd_session_table'[k].request =>
             cmd_session_table'[j].request = 0
  BY <1>7 DEF IOnce
<1>13. IOnce'
  BY <1>8, <1>9, <1>11, <1>12 DEF IOnce
<1> QED
  BY <1>5, <1>10, <1>13

LEMMA NextOnce ==
    ITyped /\ ITyped' /\ IOnce /\ [Next]_vars /\ [~RequestRefused]_vars => IOnce'
<1> SUFFICES ASSUME ITyped, ITyped', IOnce, [Next]_vars, [~RequestRefused]_vars PROVE IOnce'
  OBVIOUS
<1>1. ASSUME LiveSessions' \subseteq LiveSessions, \A i \in AckSession : KeepsPacket(i),
             recv' = recv \/ recv' = NoPacket, packing' = packing \/ packing.session = 0,
             answered' = answered, Fresh <= Fresh'
      PROVE  IOnce'
  <2>1. ASSUME NEW i \in AckSession, Awaited(i)'
        PROVE  Awaited(i)
    <3>1. i # 0
      BY Sessions
    <3> QED
      BY <1>1, <2>1, <3>1 DEF Awaited, AckComes
  <2> QED
    BY <1>1, <2>1, OnceStays
<1>f. Fresh \in Nat /\ requests \in Nat
  BY ProtocolAssumption DEF ITyped, SessionsTyped
<1>2. ASSUME UNCHANGED <<cmd_session_table, packing, requests, recv, answered>>
      PROVE  IOnce'
  <2>1. LiveSessions' \subseteq LiveSessions /\ \A i \in AckSession : KeepsPacket(i)
    BY <1>2, SameTable DEF SessionsStay, Keeps
  <2>2. Fresh <= Fresh'
    BY <1>2, <1>f, FreshStays
  <2> QED
    BY <1>1, <1>2, <2>1, <2>2
<1>3. ASSUME NEW mode \in SendModes, SendCMD(mode)
      PROVE  IOnce'
  <2>1. UNCHANGED <<answered, recv>> /\ LockFree /\ packing.session = 0 /\ requests' = requests + 1
    BY <1>3, IdleIsFree DEF SendCMD, counts
  <2>2. Fresh <= Fresh'
    BY <1>f, <2>1 DEF Fresh
  <2>3. LiveSessions' = LiveSessions /\ \A i \in AckSession : KeepsPacket(i)
    BY <1>3, SendCMDSessions DEF SessionsStay, Keeps
  <2> QED
    BY <1>1, <2>1, <2>2, <2>3
<1>4. CASE PackAndSend /\ ~RequestRefused
  <2>0. PICK i : i = packing.session
    OBVIOUS
  <2>1. /\ UNCHANGED <<recv, answered, requests>> /\ packing' = Idle /\ packing'.session = 0
        /\ Fresh = requests /\ Fresh' = requests + 1
    BY <1>4, IdleIsFree DEF PackAndSend, Fresh, LockFree
  <2>2. ASSUME NEW b \in Handle, PackedAndFreed(i, b)
        PROVE  IOnce'
    <3>1. LiveSessions' = LiveSessions /\ \A j \in AckSession : KeepsPacket(j)
      BY <1>4, <2>0, <2>2, PackSessions DEF SessionsStay, Keeps
    <3>2. packing.session = 0
      BY <2>0, <2>2 DEF PackedAndFreed
    <3> QED
      BY <1>1, <1>f, <2>1, <3>1, <3>2
  <2>3. ASSUME NEW b \in Handle, PackedAndKept(i, b)
        PROVE  IOnce'
    BY <1>4, <2>0, <2>3, PackOnce
  <2> QED
    BY <1>4, <2>0, <2>2, <2>3, PackEffect
<1>5. ASSUME NEW i \in AckSession, Timeout(i)
      PROVE  IOnce'
  <2>1. UNCHANGED <<packing, requests, recv, answered>>
    BY <1>5 DEF Timeout, counts
  <2>2. LiveSessions' = LiveSessions /\ \A j \in AckSession : KeepsPacket(j)
    BY <1>5, TimeoutSessions DEF SessionsStay, Keeps
  <2> QED
    BY <1>1, <1>f, <2>1, <2>2, FreshStays
<1>6. CASE PollGiveUp
  <2>1. poll \in Session /\ LockFree /\ UNCHANGED <<packing, requests, recv, answered>>
    BY <1>6 DEF PollGiveUp, counts, ITyped, SessionsTyped
  <2>2. LiveSessions' \subseteq LiveSessions /\ \A i \in AckSession : KeepsPacket(i)
    BY <1>6, <2>1, FreeSessionsEffect DEF PollGiveUp, Keeps
  <2> QED
    BY <1>1, <1>f, <2>1, <2>2, FreshStays
<1>7. CASE PollResend
  <2>1. UNCHANGED <<packing, requests, recv, answered>>
    BY <1>7 DEF PollResend
  <2>2. LiveSessions' = LiveSessions /\ \A i \in AckSession : KeepsPacket(i)
    BY <1>7, ResendSessions
  <2> QED
    BY <1>1, <1>f, <2>1, <2>2, FreshStays
<1>8. CASE ReceiveAck
  <2>1. /\ UNCHANGED <<cmd_session_table, packing, requests, answered>>
        /\ recv' # NoPacket => cmd_session_table[recv'.session_id].usage_flag
    BY <1>8 DEF ReceiveAck, tables, counts
  <2>2. SessionsStay
    BY <2>1, SameTable
  <2>3. ASSUME NEW j \in AckSession, Awaited(j)'
        PROVE  Awaited(j) /\ KeepsPacket(j)
    BY <2>1, <2>2, <2>3 DEF Awaited, AckComes, SessionsStay, Keeps, LiveSessions, Live
  <2>4. \A j \in AckSession : KeepsPacket(j)
    BY <2>2 DEF SessionsStay, Keeps
  <2> QED
    BY <1>f, <2>1, <2>3, <2>4, OnceStays, FreshStays
<1>9. CASE CompleteSession
  <2>1. LockFree /\ UNCHANGED <<packing, requests>> /\ recv' = NoPacket
    BY <1>9 DEF CompleteSession
  <2>0. PICK i : i = recv.session_id
    OBVIOUS
  <2>2. CASE FreeCMDSession(i) /\ answered' = [answered EXCEPT ![cmd_session_table[i].request] = @ + 1]
    BY <1>9, <2>0, <2>2, CompleteOnce
  <2>3. CASE UNCHANGED <<cmd_session_table, answered>>
    <3>1. LiveSessions' = LiveSessions /\ \A j \in AckSession : KeepsPacket(j)
      BY <2>1, <2>3, SameTable DEF SessionsStay, Keeps
    <3> QED
      BY <1>1, <1>f, <2>1, <2>3, <3>1, FreshStays
  <2> QED
    BY <1>9, <2>0, <2>2, <2>3 DEF CompleteSession
<1>10. CASE \/ \E k \in DOMAIN inbox : SendACK(k)
            \/ \E i \in AckSession : PollCheck(i)
            \/ ReceiveMessage \/ ReceiveFirst \/ ReceiveBusy \/ ReceiveRepeated \/ ReceiveNew
            \/ PeerReceive
            \/ \E p \in Peers, i \in PeerSessions : PeerCommand(p, i)
            \/ \E p \in Peers : PeerRepeat(p)
            \/ UNCHANGED vars
  <2>1. UNCHANGED <<cmd_session_table, packing, requests, recv, answered>>
    BY <1>10 DEF SendACK, PollCheck, ReceiveMessage, ReceiveFirst, ReceiveBusy, ReceiveRepeated,
                 ReceiveNew, CommandArrives, PeerReceive, PeerCommand, PeerRepeat, tables, counts, vars
  <2> QED
    BY <1>2, <2>1
<1> QED
  BY <1>3, <1>4, <1>5, <1>6, <1>7, <1>8, <1>9, <1>10 DEF Next, vars

LEMMA AlwaysOnce == Spec /\ RequestsFindMemory => []IOnce
BY InitOnce, NextOnce, AlwaysTyped, PTL DEF Spec, RequestsFindMemory

(* An ack that comes twice, or races with the timeout of its session,       *)
(* completes a request at most once, as long as no request was refused its  *)
(* memory.                                                                  *)
THEOREM RequestsAnsweredOnce == Spec /\ RequestsFindMemory => []AnsweredOnce
<1>1. IOnce => AnsweredOnce
  BY DEF IOnce, AnsweredOnce
<1> QED
  BY <1>1, AlwaysOnce, PTL

-----------------------------------------------------------------------------
(* The number of transmissions.  The poll thread sends without the lock's   *)
(* protection once per session it found: a session that an ack frees before *)
(* the thread gets the lock costs one transmission too many, of whatever    *)
(* packet its block holds by then, and every such session cost an answer.   *)

MaxRetry == Max(RetryTime \cup {1})

Late == Cardinality(Answered)

(* The session the poll thread found has been freed meanwhile.              *)
Stale == IF poll # 0 /\ ~cmd_session_table[poll].usage_flag THEN 1 ELSE 0

RequestBounded(r) == /\ r >= Fresh => transmitted[r] = 0
                     /\ transmitted[r] + Stale <= MaxRetry + Late

SessionBounded(i) ==
    LET s == cmd_session_table[i]
    IN  /\ s.retry_time \in 1 .. MaxRetry /\ s.sent <= s.retry_time
        /\ transmitted[s.request] + Stale <= s.sent + Late

IBounded == /\ Stale <= Late
            /\ \A r \in Request : RequestBounded(r)
            /\ \A i \in LiveSessions : SessionBounded(i)

(* retry_time has a bound and is never 0, which means no limit.             *)
RetriesLimited == \E n \in Nat : RetryTime \subseteq 1 .. n

LEMMA MaxInSet ==
    ASSUME NEW n \in Nat, NEW S \in SUBSET (1 .. n), S # {}
    PROVE  Max(S) \in S /\ \A x \in S : x <= Max(S)
<1> DEFINE D == {n - x : x \in S}
<1>1. D \in SUBSET Nat /\ D # {}
  <2>1. \A x \in S : x \in Nat /\ n - x \in Nat
    OBVIOUS
  <2> QED
    BY <2>1
<1>2. Min(D) \in D /\ \A d \in D : Min(D) <= d
  BY <1>1, MinInSet
<1>3. PICK m \in S : Min(D) = n - m
  BY <1>2
<1> HIDE DEF D
<1>4. ASSUME NEW x \in S
      PROVE  x <= m
  <2>1. n - x \in D
    BY DEF D
  <2>2. n - m <= n - x
    BY <1>2, <1>3, <2>1
  <2> QED
    BY <2>2
<1>5. \E x \in S : \A y \in S : x >= y
  BY <1>4
<1> QED
  BY <1>5 DEF Max

LEMMA MaxRetryBounds ==
    ASSUME RetriesLimited
    PROVE  /\ MaxRetry \in Nat /\ 1 <= MaxRetry
           /\ \A retry \in RetryTime \cup {1} : retry \in 1 .. MaxRetry
<1>1. PICK n \in Nat : RetryTime \subseteq 1 .. n
  BY DEF RetriesLimited
<1>2. RetryTime \cup {1} \in SUBSET (1 .. n + 1) /\ RetryTime \cup {1} # {} /\ n + 1 \in Nat
  BY <1>1
<1>3. MaxRetry \in RetryTime \cup {1} /\ \A x \in RetryTime \cup {1} : x <= MaxRetry
  BY <1>2, MaxInSet DEF MaxRetry
<1> QED
  BY <1>2, <1>3

LEMMA CountOf ==
    ASSUME NEW S \in SUBSET Request
    PROVE  /\ Cardinality(S) \in Nat
           /\ \A r \in Request \ S : Cardinality(S \cup {r}) = Cardinality(S) + 1
<1>1. IsFiniteSet(Request)
  BY FS_Interval, ProtocolAssumption DEF Request
<1>2. IsFiniteSet(S)
  BY <1>1, FS_Subset
<1> QED
  BY <1>2, FS_CardinalityType, FS_AddElement

(* The numbers that the bounds are about.                                   *)
LEMMA BoundsTyped ==
    ASSUME ITyped
    PROVE  /\ transmitted \in [Request -> Nat] /\ answered \in [Request -> Nat]
           /\ Late \in Nat /\ Stale \in {0, 1} /\ Fresh \in Nat /\ Request \subseteq Nat
           /\ cmd_session_table \in [Session -> SessionType]
           /\ \A i \in AckSession : /\ cmd_session_table[i].sent \in Nat
                                    /\ cmd_session_table[i].retry_time \in Nat
                                    /\ cmd_session_table[i].request \in 0 .. MaxRequests
<1>1. Late \in Nat
  BY CountOf DEF Late, Answered
<1>2. cmd_session_table \in [Session -> SessionType]
  BY DEF ITyped, SessionsTyped, SessionType
<1>3. \A i \in AckSession : /\ cmd_session_table[i].sent \in Nat
                            /\ cmd_session_table[i].retry_time \in Nat
                            /\ cmd_session_table[i].request \in 0 .. MaxRequests
  BY <1>2, Sessions DEF SessionType
<1>4. Stale \in {0, 1}
  BY DEF Stale
<1> QED
  BY <1>1, <1>2, <1>3, <1>4 DEF ITyped, Request

LEMMA InitBounded == Init /\ RetriesLimited => IBounded
<1> SUFFICES ASSUME Init, RetriesLimited PROVE IBounded
  OBVIOUS
<1>1. LiveSessions = {} /\ Stale = 0
  BY Sessions DEF LiveSessions, Live, Init, Stale
<1>2. \A r \in Request : transmitted[r] = 0
  BY DEF Init
<1>3. Late \in Nat /\ MaxRetry \in Nat
  BY CountOf, MaxRetryBounds DEF Late, Answered
<1>4. Stale <= Late /\ 0 + Stale <= MaxRetry + Late
  BY <1>1, <1>3
<1> QED
  BY <1>1, <1>2, <1>4 DEF IBounded, RequestBounded

LEMMA Shift ==
    ASSUME NEW t \in Nat, NEW m \in Nat, NEW s \in Nat, NEW l \in Nat,
           NEW s1 \in Nat, NEW l1 \in Nat, t + s <= m + l, s1 + l <= s + l1
    PROVE  t + s1 <= m + l1
OBVIOUS

(* A session may go stale with the answer that frees it.                    *)
LEMMA BoundedStays ==
    ASSUME RetriesLimited, ITyped, ITyped', IBounded, IOnce, transmitted' = transmitted,
           Fresh <= Fresh', Stale' + Late <= Stale + Late', Late <= Late',
           LiveSessions' \subseteq LiveSessions, \A i \in LiveSessions' : Keeps(i)
    PROVE  IBounded'
<1>1. /\ transmitted \in [Request -> Nat] /\ MaxRetry \in Nat /\ Request \subseteq Nat
      /\ Late \in Nat /\ Stale \in Nat /\ Fresh \in Nat
      /\ LiveSessions \subseteq AckSession
  BY BoundsTyped, MaxRetryBounds DEF LiveSessions
<1>2. Late' \in Nat /\ Stale' \in Nat /\ Fresh' \in Nat
  <2>1. Late' \in Nat
    BY CountOf DEF Late, Answered
  <2>2. Stale' \in Nat
    BY DEF Stale
  <2> QED
    BY <2>1, <2>2 DEF ITyped
<1>3. Stale' <= Late'
  <2>1. PICK s \in Nat, l \in Nat, s1 \in Nat, l1 \in Nat :
          s = Stale /\ l = Late /\ s1 = Stale' /\ l1 = Late'
    BY <1>1, <1>2
  <2>2. s <= l /\ s1 + l <= s + l1
    BY <2>1 DEF IBounded
  <2>3. s1 <= l1
    BY <2>2
  <2> QED
    BY <2>1, <2>3
<1>4. ASSUME NEW r \in Request
      PROVE  RequestBounded(r)'
  <2>1. /\ r >= Fresh => transmitted[r] = 0
        /\ transmitted[r] + Stale <= MaxRetry + Late
        /\ transmitted[r] \in Nat /\ r \in Nat
    BY <1>1 DEF IBounded, RequestBounded
  <2>2. r >= Fresh' => transmitted[r] = 0
    BY <1>1, <1>2, <2>1
  <2>3. transmitted[r] + Stale' <= MaxRetry + Late'
    BY <1>1, <1>2, <2>1, Shift
  <2> QED
    BY <2>2, <2>3 DEF RequestBounded
<1>5. ASSUME NEW i \in LiveSessions'
      PROVE  SessionBounded(i)'
  <2>0. PICK s : s = cmd_session_table[i]
    OBVIOUS
  <2>1. /\ cmd_session_table'[i].sent = s.sent
        /\ cmd_session_table'[i].retry_time = s.retry_time
        /\ cmd_session_table'[i].request = s.request
    BY <1>5, <2>0 DEF Keeps, KeepsPacket
  <2>2. /\ s.retry_time \in 1 .. MaxRetry /\ s.sent <= s.retry_time
        /\ transmitted[s.request] + Stale <= s.sent + Late
    BY <1>5, <2>0 DEF IBounded, SessionBounded
  <2>3. i \in LiveSessions /\ i \in AckSession
    BY <1>1, <1>5
  <2>4. s.request \in Request
    BY <2>0, <2>3 DEF IOnce, Awaited
  <2>5. transmitted[s.request] \in Nat /\ s.sent \in Nat
    BY <1>1, <2>0, <2>3, <2>4, BoundsTyped
  <2>6. transmitted[s.request] + Stale' <= s.sent + Late'
    BY <1>1, <1>2, <2>2, <2>5, Shift
  <2> QED
    BY <2>1, <2>2, <2>6 DEF SessionBounded
<1> QED
  BY <1>3, <1>4, <1>5 DEF IBounded

LEMMA SentOnce ==
    ASSUME ITyped, NEW p \in PacketType, DeviceSend(p)
    PROVE  \A r \in Request :
             transmitted'[r] = IF ~p.is_ack /\ p.number = r THEN transmitted[r] + 1 ELSE transmitted[r]
BY DEF DeviceSend

LEMMA AnswerNotCounted ==
    ASSUME ITyped, NEW p \in PacketType, p.is_ack, DeviceSend(p)
    PROVE  transmitted' = transmitted
<1>1. transmitted \in [Request -> Nat]
  BY DEF ITyped
<1> QED
  BY <1>1 DEF DeviceSend

(* A request goes out for the first time: its bound is that of its session, *)
(* or of the one transmission of session 0.                                 *)
LEMMA PackBounded ==
    ASSUME RetriesLimited, ITyped, IBounded, IOnce, PackAndSend, ~RequestRefused
    PROVE  IBounded'
<1>0. PICK i : i = packing.session
  OBVIOUS
<1>1. /\ UNCHANGED <<poll, answered, requests>> /\ packing' = Idle
      /\ Fresh = requests /\ ~LockFree
  BY DEF PackAndSend, Fresh
<1>2. requests \in Request /\ Fresh' = requests + 1
  <2>1. requests \in Request
    BY <1>1, ProtocolAssumption DEF ITyped, SessionsTyped, Request
  <2>2. Fresh' = requests + 1
    BY <1>1 DEF Fresh, LockFree
  <2> QED
    BY <2>1, <2>2
<1>3. /\ i \in Session /\ Outgoing(i) \in PacketType /\ ~Outgoing(i).is_ack
      /\ Outgoing(i).number = requests
      /\ (\E b \in Handle : PackedAndFreed(i, b)) \/ (\E b \in Handle : PackedAndKept(i, b))
  BY <1>0, PackEffect
<1>4. DeviceSend(Outgoing(i))
  BY <1>3 DEF PackedAndFreed, PackedAndKept
<1>5. \A r \in Request : transmitted'[r] = IF r = requests THEN transmitted[r] + 1 ELSE transmitted[r]
  BY <1>3, <1>4, SentOnce
<1>6. cmd_session_table \in [Session -> SessionType] /\ poll \in Session
  BY DEF ITyped, SessionsTyped, SessionType
<1>7. Stale' = 0 \/ Stale' = Stale
  <2>1. ASSUME NEW b \in Handle, PackedAndFreed(i, b), poll # 0
        PROVE  cmd_session_table'[poll].usage_flag = cmd_session_table[poll].usage_flag
    <3>1. /\ i = 0
          /\ cmd_session_table' = [cmd_session_table EXCEPT ![i].usage_flag = FALSE,
                                                           ![i].memory_block_ptr = b]
      BY <2>1 DEF PackedAndFreed
    <3> QED
      BY <1>3, <1>6, <2>1, <3>1
  <2>2. ASSUME NEW b \in Handle, PackedAndKept(i, b), poll # 0
        PROVE  cmd_session_table'[poll].usage_flag
               \/ cmd_session_table'[poll].usage_flag = cmd_session_table[poll].usage_flag
    <3>1. PICK retry \in Nat :
            cmd_session_table' =
              [cmd_session_table EXCEPT ![i] =
                 [usage_flag |-> TRUE, memory_block_ptr |-> b, request |-> requests, sent |-> 1,
                  retry_time |-> retry, due |-> FALSE, pre_seq_num |-> NextSeq(i)]]
      BY <2>2 DEF PackedAndKept
    <3> QED
      BY <1>3, <1>6, <3>1
  <2> QED
    BY <1>1, <1>3, <2>1, <2>2 DEF Stale
<1>8. PICK m \in Nat, l \in Nat, s \in Nat, s1 \in Nat :
        /\ m = MaxRetry /\ l = Late /\ s = Stale /\ s1 = Stale' /\ l = Late'
        /\ m >= 1 /\ s1 <= s /\ s <= l
  <2>1. Late' = Late
    BY <1>1 DEF Late, Answered
  <2> QED
    BY <1>7, <2>1, BoundsTyped, MaxRetryBounds DEF IBounded
<1>b. s1 <= s /\ s <= l /\ m >= 1
  BY <1>8
<1>t. transmitted \in [Request -> Nat] /\ Request \subseteq Nat
  BY BoundsTyped
<1>u. transmitted[requests] = 0
  <2>1. requests >= Fresh
    BY <1>1, <1>2, <1>t
  <2> QED
    BY <1>2, <2>1 DEF IBounded, RequestBounded
<1>9. ASSUME NEW r \in Request
      PROVE  RequestBounded(r)'
  <2>1. PICK t \in Nat : t = transmitted[r]
    BY <1>t
  <2>2. (r >= requests => t = 0) /\ t + s <= m + l /\ r \in Nat /\ requests \in Nat
    BY <1>1, <1>2, <1>8, <1>t, <2>1 DEF IBounded, RequestBounded
  <2>3. CASE r = requests
    <3>1. transmitted'[r] = 1
      BY <1>5, <1>u, <2>3
    <3>2. ~(r >= requests + 1) /\ 1 + s1 <= m + l
      BY <1>b, <2>2, <2>3
    <3> QED
      BY <1>2, <1>8, <3>1, <3>2 DEF RequestBounded
  <2>4. CASE r # requests
    <3>1. transmitted'[r] = t
      BY <1>5, <2>1, <2>4
    <3>2. (r >= requests + 1 => t = 0) /\ t + s1 <= m + l
      BY <1>b, <2>2
    <3> QED
      BY <1>2, <1>8, <3>1, <3>2 DEF RequestBounded
  <2> QED
    BY <2>3, <2>4
<1>10. ASSUME NEW j \in LiveSessions, Keeps(j)
       PROVE  SessionBounded(j)'
  <2>0. PICK w : w = cmd_session_table[j]
    OBVIOUS
  <2>1. /\ cmd_session_table'[j].sent = w.sent
        /\ cmd_session_table'[j].retry_time = w.retry_time
        /\ cmd_session_table'[j].request = w.request
    BY <1>10, <2>0 DEF Keeps, KeepsPacket
  <2>2. /\ w.retry_time \in 1 .. MaxRetry /\ w.sent <= w.retry_time
        /\ transmitted[w.request] + Stale <= w.sent + Late
    BY <1>10, <2>0 DEF IBounded, SessionBounded
  <2>3. w.request \in Request /\ w.request < requests /\ w.sent \in Nat
    BY <1>1, <1>10, <2>0, BoundsTyped DEF IOnce, Awaited, LiveSessions
  <2>4. PICK t \in Nat : t = transmitted[w.request]
    BY <1>t, <2>3
  <2>5. transmitted'[w.request] = t
    <3>1. w.request # requests
      BY <1>2, <1>t, <2>3
    <3> QED
      BY <1>5, <2>3, <2>4, <3>1
  <2>6. PICK n \in Nat : n = w.sent
    BY <2>3
  <2>7. t + s1 <= n + l
    <3>1. t + s <= n + l
      BY <1>8, <2>2, <2>4, <2>6
    <3> QED
      BY <1>b, <3>1
  <2>8. transmitted'[w.request] + Stale' <= w.sent + Late'
    BY <1>8, <2>5, <2>6, <2>7
  <2> QED
    BY <2>1, <2>2, <2>8 DEF SessionBounded
<1>11. ASSUME NEW b \in Handle, PackedAndFreed(i, b)
       PROVE  IBounded'
  <2>1. LiveSessions' = LiveSessions /\ \A j \in LiveSessions : Keeps(j)
    BY <1>0, <1>11, PackSessions DEF SessionsStay, LiveSessions
  <2>2. Stale' <= Late'
    BY <1>8
  <2> QED
    BY <1>9, <1>10, <2>1, <2>2 DEF IBounded
<1>12. ASSUME NEW b \in Handle, PackedAndKept(i, b)
       PROVE  IBounded'
  <2>1. /\ LiveSessions' = LiveSessions \cup {i} /\ i \notin LiveSessions
        /\ \A j \in LiveSessions : Keeps(j)
        /\ cmd_session_table'[i].request = requests
        /\ cmd_session_table'[i].sent = 1
        /\ cmd_session_table'[i].retry_time \in RetryTime \cup {1}
    BY <1>0, <1>12, PackSessions DEF LiveSessions
  <2>2. SessionBounded(i)'
    <3>1. cmd_session_table'[i].retry_time \in 1 .. MaxRetry
      BY <2>1, MaxRetryBounds
    <3>2. transmitted'[requests] = 1 /\ 1 + s1 <= 1 + l
      <4>1. 1 + s1 <= 1 + l
        BY <1>b
      <4> QED
        BY <1>2, <1>5, <1>u, <4>1
    <3>3. cmd_session_table'[i].sent <= cmd_session_table'[i].retry_time
      BY <2>1, <3>1, MaxRetryBounds
    <3> QED
      BY <1>8, <2>1, <3>1, <3>2, <3>3 DEF SessionBounded
  <2>3. Stale' <= Late'
    BY <1>8
  <2> QED
    BY <1>9, <1>10, <2>1, <2>2, <2>3 DEF IBounded
<1> QED
  BY <1>3, <1>11, <1>12

(* The poll thread sends: a packet of the session it found, counted by it,  *)
(* or of whatever session has the block of a stale one.                     *)
LEMMA ResendBounded ==
    ASSUME RetriesLimited, ITyped, IBounded, IOnce, IKept, PollResend
    PROVE  IBounded'
<1>0. PICK i \in AckSession : i = poll
  BY Sessions DEF PollResend, ITyped, SessionsTyped
<1>1. /\ UNCHANGED <<answered, requests, packing>> /\ LockFree /\ poll' = 0
      /\ packing.session = 0 /\ i # 0
  BY <1>0, IdleIsFree, Sessions DEF PollResend
<1>2. cmd_session_table \in [Session -> SessionType] /\ cmd_session_table[i].memory_block_ptr \in BlockPtr
  BY Sessions DEF ITyped, SessionsTyped, SessionType
<1>3. PICK p : p = First(pool, cmd_session_table[i].memory_block_ptr)
  OBVIOUS
<1>4. p \in PacketType /\ (~p.is_ack => p.number < Fresh) /\ DeviceSend(p)
  <2>1. p \in PacketsBelow(Fresh)
    BY <1>2, <1>3, FirstTyped DEF ITyped
  <2>2. DeviceSend(p)
    BY <1>0, <1>3 DEF PollResend, PacketAt, First
  <2> QED
    BY <2>1, <2>2 DEF PacketsBelow
<1>5. \A r \in Request :
        transmitted'[r] = IF ~p.is_ack /\ p.number = r THEN transmitted[r] + 1 ELSE transmitted[r]
  BY <1>4, SentOnce
<1>6. Fresh' = Fresh /\ Fresh \in Nat
  BY <1>1, FreshStays DEF ITyped
<1>7. PICK m \in Nat, l \in Nat, s \in {0, 1} :
        m = MaxRetry /\ l = Late /\ s = Stale /\ Stale' = 0 /\ l = Late' /\ m >= 1 /\ s <= l
  <2>1. Late' = Late /\ Stale' = 0
    BY <1>1 DEF Late, Answered, Stale
  <2> QED
    BY <2>1, BoundsTyped, MaxRetryBounds DEF IBounded
<1>t. transmitted \in [Request -> Nat] /\ Request \subseteq Nat
  BY BoundsTyped
<1>8. /\ LiveSessions' = LiveSessions
      /\ \A j \in AckSession : KeepsPacket(j) /\ (j # i => Keeps(j))
      /\ cmd_session_table'[i].sent =
           IF cmd_session_table[i].retry_time > 0
           THEN cmd_session_table[i].sent + 1 ELSE cmd_session_table[i].sent
  BY <1>0, ResendSessions
<1>9. ASSUME NEW r \in Request
      PROVE  /\ transmitted[r] \in Nat
             /\ r >= Fresh' => transmitted'[r] = 0
             /\ transmitted[r] + s <= m + l
  <2>1. PICK t \in Nat : t = transmitted[r]
    BY <1>t
  <2>2. (r >= Fresh => t = 0) /\ t + s <= m + l
    BY <1>7, <2>1 DEF IBounded, RequestBounded
  <2>3. ASSUME r >= Fresh
        PROVE  transmitted'[r] = 0
    <3>1. ~(~p.is_ack /\ p.number = r)
      BY <1>4, <1>6, <1>t, <2>3 DEF PacketType
    <3> QED
      BY <1>5, <2>1, <2>2, <2>3, <3>1
  <2> QED
    BY <1>6, <2>1, <2>2, <2>3
<1>10. ASSUME NEW j \in LiveSessions
       PROVE  /\ cmd_session_table[j].retry_time \in 1 .. MaxRetry
              /\ cmd_session_table[j].sent \in Nat
              /\ cmd_session_table[j].sent <= cmd_session_table[j].retry_time
              /\ cmd_session_table[j].request \in Request
              /\ transmitted[cmd_session_table[j].request] + s <= cmd_session_table[j].sent + l
  BY <1>7, <1>10, BoundsTyped DEF IBounded, SessionBounded, IOnce, Awaited, LiveSessions
<1>11. CASE s = 1
  <2>1. i \notin LiveSessions
    BY <1>0, <1>7, <1>11 DEF Stale, LiveSessions, Live
  <2>2. ASSUME NEW r \in Request
        PROVE  transmitted'[r] \in Nat /\ transmitted'[r] <= transmitted[r] + s
    BY <1>5, <1>9, <1>11
  <2>3. ASSUME NEW r \in Request
        PROVE  RequestBounded(r)'
    <3>1. PICK t \in Nat, t1 \in Nat : t = transmitted[r] /\ t1 = transmitted'[r]
      BY <1>9, <2>2
    <3>2. t1 <= t + s /\ t + s <= m + l
      BY <1>9, <2>2, <3>1
    <3>3. t1 + 0 <= m + l
      BY <3>2
    <3> QED
      BY <1>7, <1>9, <3>1, <3>3 DEF RequestBounded
  <2>4. ASSUME NEW j \in LiveSessions
        PROVE  SessionBounded(j)'
    <3>0. PICK w : w = cmd_session_table[j]
      OBVIOUS
    <3>1. /\ cmd_session_table'[j].sent = w.sent
          /\ cmd_session_table'[j].retry_time = w.retry_time
          /\ cmd_session_table'[j].request = w.request
      BY <1>8, <2>1, <3>0 DEF Keeps, KeepsPacket, LiveSessions
    <3>2. PICK t \in Nat, t1 \in Nat, n \in Nat :
            t = transmitted[w.request] /\ t1 = transmitted'[w.request] /\ n = w.sent
      BY <1>9, <1>10, <2>2, <3>0
    <3>3. t1 <= t + s /\ t + s <= n + l
      BY <1>10, <2>2, <3>0, <3>2
    <3>4. t1 + 0 <= n + l
      BY <3>3
    <3> QED
      BY <1>7, <1>10, <3>0, <3>1, <3>2, <3>4 DEF SessionBounded
  <2>5. 0 <= l
    OBVIOUS
  <2> QED
    BY <1>7, <1>8, <2>3, <2>4, <2>5 DEF IBounded
<1>12. CASE s = 0
  <2>1. i \in LiveSessions
    <3>1. cmd_session_table[i].usage_flag
      BY <1>0, <1>1, <1>7, <1>12 DEF Stale
    <3> QED
      BY <1>1, <3>1 DEF LiveSessions, Live
  <2>0. PICK q : q = cmd_session_table[i].request
    OBVIOUS
  <2>2. ~p.is_ack /\ p.number = q
    BY <1>3, <2>0, <2>1 DEF IKept, KeepsRequest
  <2>3. PICK n \in Nat, k \in Nat, t \in Nat :
          /\ n = cmd_session_table[i].sent /\ k = cmd_session_table[i].retry_time
          /\ t = transmitted[q] /\ q \in Request
          /\ 1 <= k /\ k <= m /\ n <= k /\ t + s <= n + l
    BY <1>7, <1>9, <1>10, <2>0, <2>1
  <2>4. ~(n >= k)
    BY <1>0, <2>3 DEF PollResend, GivesUp
  <2>5. cmd_session_table'[i].sent = n + 1 /\ n + 1 <= k
    BY <1>8, <2>3, <2>4
  <2>6. transmitted'[q] = t + 1 /\ t + 1 + 0 <= n + 1 + l /\ t + 1 + 0 <= m + l
    <3>1. transmitted'[q] = t + 1
      BY <1>5, <2>2, <2>3
    <3>2. t + 1 <= n + 1 + l /\ t + 1 <= m + l
      BY <1>12, <2>3, <2>5
    <3> QED
      BY <3>1, <3>2
  <2>7. ASSUME NEW r \in Request, r # q
        PROVE  transmitted'[r] = transmitted[r]
    BY <1>5, <2>2, <2>7
  <2>8. ASSUME NEW r \in Request
        PROVE  RequestBounded(r)'
    <3>1. transmitted'[r] + 0 <= m + l
      <4>1. CASE r = q
        BY <2>6, <4>1
      <4>2. CASE r # q
        BY <1>9, <1>12, <2>7, <4>2
      <4> QED
        BY <4>1, <4>2
    <3> QED
      BY <1>7, <1>9, <3>1 DEF RequestBounded
  <2>9. SessionBounded(i)'
    <3>1. cmd_session_table'[i].request = q /\ cmd_session_table'[i].retry_time = k
      BY <1>8, <2>0, <2>3 DEF KeepsPacket
    <3>2. k \in 1 .. MaxRetry
      BY <1>7, <2>3
    <3>3. transmitted'[q] + Stale' <= n + 1 + Late'
      BY <1>7, <2>6
    <3> QED
      BY <2>5, <3>1, <3>2, <3>3 DEF SessionBounded
  <2>10. ASSUME NEW j \in LiveSessions, j # i
         PROVE  SessionBounded(j)'
    <3>0. PICK w : w = cmd_session_table[j]
      OBVIOUS
    <3>1. /\ cmd_session_table'[j].sent = w.sent
          /\ cmd_session_table'[j].retry_time = w.retry_time
          /\ cmd_session_table'[j].request = w.request
      BY <1>8, <2>10, <3>0 DEF Keeps, KeepsPacket, LiveSessions
    <3>2. w.request # q
      <4>1. j \in AckSession /\ q # 0
        BY <1>t, <2>3 DEF LiveSessions, Request
      <4> QED
        BY <2>0, <2>10, <3>0, <4>1 DEF IOnce
    <3>3. transmitted'[w.request] = transmitted[w.request]
      BY <1>10, <2>7, <3>0, <3>2
    <3>4. transmitted[w.request] + 0 <= w.sent + l
      BY <1>10, <1>12, <3>0
    <3> QED
      BY <1>7, <1>10, <3>0, <3>1, <3>3, <3>4 DEF SessionBounded
  <2>11. 0 <= l
    OBVIOUS
  <2> QED
    BY <1>7, <1>8, <2>8, <2>9, <2>10, <2>11 DEF IBounded
<1> QED
  BY <1>11, <1>12

LEMMA NextBounded ==
    /\ RetriesLimited /\ ITyped /\ ITyped' /\ IBounded /\ IOnce /\ IKept
    /\ [Next]_vars /\ [~RequestRefused]_vars
    => IBounded'
<1> SUFFICES ASSUME RetriesLimited, ITyped, ITyped', IBounded, IOnce, IKept,
                    [Next]_vars, [~RequestRefused]_vars
             PROVE  IBounded'
  OBVIOUS
<1>1. Late \in Nat /\ Stale \in Nat /\ Fresh \in Nat /\ requests \in Nat
  <2>1. requests \in Nat
    BY ProtocolAssumption DEF ITyped, SessionsTyped
  <2> QED
    BY <2>1, BoundsTyped
<1>2. ASSUME transmitted' = transmitted, answered' = answered, Fresh <= Fresh',
             Stale' = 0 \/ Stale' = Stale,
             LiveSessions' \subseteq LiveSessions, \A i \in AckSession : Keeps(i)
      PROVE  IBounded'
  <2>1. Late' = Late
    BY <1>2 DEF Late, Answered
  <2>2. Stale' + Late <= Stale + Late' /\ Late <= Late'
    BY <1>1, <1>2, <2>1
  <2>3. \A i \in LiveSessions' : Keeps(i)
    BY <1>2 DEF LiveSessions
  <2> QED
    BY <1>2, <2>2, <2>3, BoundedStays
<1>3. ASSUME UNCHANGED <<cmd_session_table, packing, poll, requests, answered>>,
             transmitted' = transmitted
      PROVE  IBounded'
  <2>1. SessionsStay /\ Fresh <= Fresh' /\ Stale' = Stale
    BY <1>1, <1>3, SameTable, FreshStays DEF Stale
  <2> QED
    BY <1>2, <1>3, <2>1 DEF SessionsStay
<1>4. ASSUME NEW mode \in SendModes, SendCMD(mode)
      PROVE  IBounded'
  <2>1. UNCHANGED <<transmitted, answered, poll>> /\ requests' = requests + 1 /\ LockFree
    BY <1>4 DEF SendCMD, counts
  <2>2. Fresh <= Fresh'
    BY <1>1, <2>1 DEF Fresh
  <2>3. SessionsStay
    BY <1>4, SendCMDSessions
  <2>4. Stale' = 0 \/ Stale' = Stale
    <3>1. \/ cmd_session_table' = cmd_session_table
          \/ \E i : cmd_session_table' = [cmd_session_table EXCEPT ![i].usage_flag = TRUE]
      BY <1>4 DEF SendCMD
    <3>2. cmd_session_table \in [Session -> SessionType] /\ poll \in Session
      BY DEF ITyped, SessionsTyped, SessionType
    <3>3. \/ cmd_session_table'[poll].usage_flag = cmd_session_table[poll].usage_flag
          \/ cmd_session_table'[poll].usage_flag
      <4>1. ASSUME NEW i, cmd_session_table' = [cmd_session_table EXCEPT ![i].usage_flag = TRUE]
            PROVE  \/ cmd_session_table'[poll] = cmd_session_table[poll]
                   \/ cmd_session_table'[poll].usage_flag = TRUE
        <5>1. CASE i = poll
          BY <3>2, <4>1, <5>1 DEF SessionType
        <5>2. CASE i # poll
          BY <3>2, <4>1, <5>2
        <5> QED
          BY <5>1, <5>2
      <4> QED
        BY <3>1, <4>1
    <3> QED
      BY <2>1, <3>3 DEF Stale
  <2> QED
    BY <1>2, <2>1, <2>2, <2>3, <2>4 DEF SessionsStay
<1>5. CASE PackAndSend /\ ~RequestRefused
  BY <1>5, PackBounded
<1>6. ASSUME NEW k \in DOMAIN inbox, SendACK(k)
      PROVE  IBounded'
  <2>0. PICK i, old : i = inbox[k].session_id /\ old = ack_session_table[i].memory_block_ptr
    OBVIOUS
  <2>1. /\ AckEffects(inbox[k], i, old)
        /\ AnswerTo(inbox[k]) \in PacketType /\ AnswerTo(inbox[k]).is_ack
    BY <1>6, <2>0, AckEffect
  <2>2. transmitted' = transmitted
    BY <2>1, AnswerNotCounted DEF AckEffects
  <2>3. UNCHANGED <<cmd_session_table, packing, poll, requests, answered>>
    BY <1>6 DEF SendACK
  <2> QED
    BY <1>3, <2>2, <2>3
<1>7. ASSUME NEW i \in AckSession, Timeout(i)
      PROVE  IBounded'
  <2>1. /\ UNCHANGED <<packing, poll, requests, transmitted, answered>>
        /\ cmd_session_table' = [cmd_session_table EXCEPT ![i].due = TRUE]
    BY <1>7 DEF Timeout, counts
  <2>2. Stale' = Stale
    <3>1. cmd_session_table \in [Session -> SessionType] /\ poll \in Session
      BY DEF ITyped, SessionsTyped, SessionType
    <3>2. cmd_session_table'[poll].usage_flag = cmd_session_table[poll].usage_flag
      BY <2>1, <3>1 DEF SessionType
    <3> QED
      BY <2>1, <3>2 DEF Stale
  <2>3. SessionsStay /\ Fresh <= Fresh'
    BY <1>1, <1>7, <2>1, TimeoutSessions, FreshStays
  <2> QED
    BY <1>2, <2>1, <2>2, <2>3 DEF SessionsStay
<1>8. ASSUME NEW i \in AckSession, PollCheck(i)
      PROVE  IBounded'
  <2>1. /\ UNCHANGED <<cmd_session_table, packing, requests, transmitted, answered>>
        /\ poll' = i /\ cmd_session_table[i].usage_flag
    BY <1>8 DEF PollCheck, tables, counts
  <2>2. Stale' = 0
    BY <2>1 DEF Stale
  <2>3. SessionsStay /\ Fresh <= Fresh'
    BY <1>1, <2>1, SameTable, FreshStays
  <2> QED
    BY <1>2, <2>1, <2>2, <2>3 DEF SessionsStay
<1>9. CASE PollGiveUp
  <2>1. /\ poll \in Session /\ LockFree /\ poll' = 0
        /\ UNCHANGED <<packing, requests, transmitted, answered>>
    BY <1>9 DEF PollGiveUp, counts, ITyped, SessionsTyped
  <2>2. LiveSessions' \subseteq LiveSessions /\ \A i \in AckSession : Keeps(i)
    BY <1>9, <2>1, FreeSessionsEffect DEF PollGiveUp
  <2>3. Stale' = 0 /\ Fresh <= Fresh'
    BY <1>1, <2>1, FreshStays DEF Stale
  <2> QED
    BY <1>2, <2>1, <2>2, <2>3
<1>10. CASE PollResend
  BY <1>10, ResendBounded
<1>11. CASE CompleteSession
  <2>0. PICK i : i = recv.session_id
    OBVIOUS
  <2>1. /\ LockFree /\ UNCHANGED <<packing, requests, transmitted, poll>> /\ i \in AckSession
    BY <1>11, <2>0, RecvSession DEF CompleteSession, counts
  <2>2. ASSUME FreeCMDSession(i),
               answered' = [answered EXCEPT ![cmd_session_table[i].request] = @ + 1]
        PROVE  IBounded'
    <3>0. PICK q : q = cmd_session_table[i].request
      OBVIOUS
    <3>1. q \in Request /\ answered[q] = 0
      BY <1>11, <2>0, <2>2, <3>0, CompleteOnce
    <3>2. LiveSessions' \subseteq LiveSessions /\ \A j \in AckSession : Keeps(j)
      BY <2>1, <2>2, Sessions, FreeSessionsEffect
    <3>3. Late' = Late + 1
      <4>1. answered \in [Request -> Nat] /\ answered' = [answered EXCEPT ![q] = @ + 1]
        BY <2>2, <3>0 DEF ITyped
      <4>2. answered'[q] = 1 /\ \A r \in Request \ {q} : answered'[r] = answered[r]
        BY <3>1, <4>1
      <4>3. Answered' = Answered \cup {q}
        BY <3>1, <4>2 DEF Answered
      <4>4. q \in Request \ Answered /\ Answered \in SUBSET Request
        BY <3>1 DEF Answered
      <4>5. Cardinality(Answered \cup {q}) = Cardinality(Answered) + 1
        BY <4>4, CountOf
      <4> QED
        BY <4>3, <4>5 DEF Late
    <3>4. Stale' + Late <= Stale + Late' /\ Late <= Late'
      <4>1. Stale' = 0 \/ Stale' = 1
        BY DEF Stale
      <4> QED
        BY <1>1, <3>3, <4>1
    <3>5. Fresh <= Fresh' /\ \A j \in LiveSessions' : Keeps(j)
      BY <1>1, <2>1, <3>2, FreshStays DEF LiveSessions
    <3> QED
      BY <2>1, <3>2, <3>4, <3>5, BoundedStays
  <2>3. CASE UNCHANGED <<cmd_session_table, answered>>
    BY <1>3, <2>1, <2>3
  <2> QED
    BY <1>11, <2>0, <2>2, <2>3 DEF CompleteSession
<1>12. CASE ReceiveRepeated
  <2>0. PICK i : i = Arrived.session_id
    OBVIOUS
  <2>1. /\ UNCHANGED <<cmd_session_table, packing, poll, requests, answered>>
        /\ i # 0 /\ Status(i) = "USING" /\ DeviceSend(StoredAnswer(i))
        /\ from_peer # << >>
    BY <1>12, <2>0 DEF ReceiveRepeated, CommandArrives
  <2>2. i \in AckSession
    <3>1. Arrived \in PacketType
      BY <2>1 DEF ITyped, Arrived, Incoming
    <3> QED
      BY <2>0, <2>1, <3>1, Sessions DEF PacketType
  <2>3. StoredAnswer(i) \in PacketType /\ StoredAnswer(i).is_ack
    <3>1. /\ ack_session_table[i].memory_block_ptr \in BlockPtr
          /\ ack_session_table[i].session_status = "USING"
      BY <2>1, <2>2 DEF ITyped, AckType, Status
    <3>2. StoredAnswer(i) = First(pool, ack_session_table[i].memory_block_ptr)
      BY DEF StoredAnswer, PacketAt, First
    <3>3. StoredAnswer(i) \in PacketsBelow(Fresh)
      BY <3>1, <3>2, FirstTyped DEF ITyped
    <3>4. StoredAnswer(i).is_ack
      BY <2>2, <3>1, <3>2 DEF IKept, KeepsAnswer, Storing, Lost, Status
    <3> QED
      BY <3>3, <3>4 DEF PacketsBelow
  <2>4. transmitted' = transmitted
    BY <2>1, <2>3, AnswerNotCounted
  <2> QED
    BY <1>3, <2>1, <2>4
<1>13. CASE \/ ReceiveAck
            \/ ReceiveMessage \/ ReceiveFirst \/ ReceiveBusy \/ ReceiveNew
            \/ PeerReceive
            \/ \E p \in Peers, i \in PeerSessions : PeerCommand(p, i)
            \/ \E p \in Peers : PeerRepeat(p)
            \/ UNCHANGED vars
  <2>1. UNCHANGED <<cmd_session_table, packing, poll, requests, answered, transmitted>>
    BY <1>13 DEF ReceiveAck, ReceiveMessage, ReceiveFirst, ReceiveBusy, ReceiveNew, CommandArrives,
                 PeerReceive, PeerCommand, PeerRepeat, tables, counts, vars
  <2> QED
    BY <1>3, <2>1
<1> QED
  BY <1>4, <1>5, <1>6, <1>7, <1>8, <1>9, <1>10, <1>11, <1>12, <1>13 DEF Next, vars

(* No request goes out more often than its retry_time, but for one          *)
(* transmission per answered request, which the poll thread spends on a     *)
(* session that an ack frees before the thread has the lock; as long as the *)
(* memory refuses no request and nothing in session 1, and retry_time       *)
(* limits every request.                                                    *)
THEOREM RetriesStayBounded ==
    RetriesLimited => (Spec /\ RequestsFindMemory /\ OneFindsMemory => []RetriesBounded)
<1> SUFFICES ASSUME RetriesLimited
             PROVE  Spec /\ RequestsFindMemory /\ OneFindsMemory => []RetriesBounded
  OBVIOUS
<1>1. ITyped /\ IBounded /\ IOnce => RetriesBounded
  <2> SUFFICES ASSUME ITyped, IBounded, IOnce PROVE RetriesBounded
    OBVIOUS
  <2>1. /\ Late \in Nat /\ Stale \in Nat /\ MaxRetry \in Nat /\ transmitted \in [Request -> Nat]
    BY BoundsTyped, MaxRetryBounds
  <2>2. ASSUME NEW r \in Request
        PROVE  transmitted[r] <= MaxRetry + Late
    <3>1. transmitted[r] + Stale <= MaxRetry + Late /\ transmitted[r] \in Nat
      BY <2>1 DEF IBounded, RequestBounded
    <3> QED
      BY <2>1, <3>1
  <2>3. ASSUME NEW i \in AckSession, cmd_session_table[i].usage_flag, i # packing.session
        PROVE  transmitted[cmd_session_table[i].request] <= cmd_session_table[i].retry_time + Late
    <3>1. i \in LiveSessions
      BY <2>3 DEF LiveSessions, Live
    <3>2. /\ cmd_session_table[i].sent <= cmd_session_table[i].retry_time
          /\ transmitted[cmd_session_table[i].request] + Stale <= cmd_session_table[i].sent + Late
          /\ cmd_session_table[i].request \in Request
      BY <3>1 DEF IBounded, SessionBounded, IOnce, Awaited
    <3>3. /\ cmd_session_table[i].sent \in Nat /\ cmd_session_table[i].retry_time \in Nat
          /\ transmitted[cmd_session_table[i].request] \in Nat
      BY <2>1, <3>2, BoundsTyped
    <3> QED
      BY <2>1, <3>2, <3>3
  <2> QED
    BY <2>2, <2>3 DEF RetriesBounded, MaxRetry, Late
<1>2. Init => IBounded
  BY InitBounded
<1>3. /\ ITyped /\ ITyped' /\ IBounded /\ IOnce /\ IKept /\ [Next]_vars /\ [~RequestRefused]_vars
      => IBounded'
  BY NextBounded
<1> QED
  BY <1>1, <1>2, <1>3, AlwaysTyped, AlwaysOnce, AlwaysKept, PTL
  DEF Spec, RequestsFindMemory

-----------------------------------------------------------------------------
(* The commands of one peer come in their order: it repeats a command until *)
(* it goes on to the next, and the line does not overtake.                  *)

OnePeer == \A p, q \in Peers : p = q

CommandsOn(q) == {q[k] : k \in {m \in DOMAIN q : ~q[m].is_ack}}

(* The commands on the line, and the one the peer may repeat.               *)
Ongoing == CommandsOn(from_peer) \cup (IF commands = 0 THEN {} ELSE {peer[Requested]})

(* A message, in session 0, is not repeated.                                *)
Follows(c, d) == c.number <= d.number /\ (c.session_id = 0 => c.number < d.number)

Ordered(q) ==
    \A k, m \in DOMAIN q : k < m /\ ~q[k].is_ack /\ ~q[m].is_ack => Follows(q[k], q[m])

ILine ==
    /\ commands \in 0 .. MaxCommands
    /\ IF commands = 0 THEN peer[Requested] = NoPacket ELSE peer[Requested].number = commands
    /\ \A c \in Ongoing : /\ c \in PacketType /\ ~c.is_ack /\ c.session_id \in PeerSessions
                          /\ c.number \in 1 .. commands
    /\ \A c, d \in Ongoing : c.number = d.number => c = d
    /\ Ordered(from_peer)

LEMMA TailOfLine ==
    ASSUME NEW S, NEW q \in Seq(S), q # << >>, Ordered(q)
    PROVE  /\ Ordered(Tail(q)) /\ CommandsOn(Tail(q)) \subseteq CommandsOn(q)
           /\ ~Head(q).is_ack => /\ Head(q) \in CommandsOn(q)
                                 /\ \A c \in CommandsOn(Tail(q)) : Follows(Head(q), c)
<1> DEFINE t == Tail(q)
<1>1. /\ DOMAIN q = 1 .. Len(q) /\ Len(q) \in Nat /\ Len(q) >= 1
      /\ DOMAIN t = 1 .. Len(q) - 1 /\ Head(q) = q[1]
      /\ \A k \in 1 .. Len(q) - 1 : t[k] = q[k + 1]
  OBVIOUS
<1> HIDE DEF t
<1>2. \A k \in DOMAIN t : k + 1 \in DOMAIN q /\ t[k] = q[k + 1] /\ 1 < k + 1 /\ k \in Nat
  BY <1>1
<1>3. CommandsOn(t) \subseteq CommandsOn(q)
  BY <1>2 DEF CommandsOn
<1>4. Ordered(t)
  <2> SUFFICES ASSUME NEW k \in DOMAIN t, NEW m \in DOMAIN t, k < m, ~t[k].is_ack, ~t[m].is_ack
               PROVE  Follows(t[k], t[m])
    BY DEF Ordered
  <2>1. k + 1 \in DOMAIN q /\ m + 1 \in DOMAIN q /\ k + 1 < m + 1
    BY <1>2
  <2> QED
    BY <1>2, <2>1 DEF Ordered
<1>5. ASSUME ~Head(q).is_ack
      PROVE  Head(q) \in CommandsOn(q) /\ \A c \in CommandsOn(t) : Follows(Head(q), c)
  <2>1. 1 \in DOMAIN q /\ Head(q) = q[1]
    BY <1>1
  <2>2. Head(q) \in CommandsOn(q)
    BY <1>5, <2>1 DEF CommandsOn
  <2>3. ASSUME NEW c \in CommandsOn(t)
        PROVE  Follows(Head(q), c)
    <3>1. PICK k \in DOMAIN t : c = t[k] /\ ~t[k].is_ack
      BY DEF CommandsOn
    <3>2. k + 1 \in DOMAIN q /\ 1 < k + 1 /\ c = q[k + 1] /\ ~q[k + 1].is_ack
      BY <1>2, <3>1
    <3> QED
      BY <1>5, <2>1, <3>2 DEF Ordered
  <2> QED
    BY <2>2, <2>3
<1> QED
  BY <1>3, <1>4, <1>5 DEF t

LEMMA EndOfLine ==
    ASSUME NEW S, NEW q \in Seq(S), NEW x \in S, Ordered(q),
           ~x.is_ack => \A c \in CommandsOn(q) : Follows(c, x),
           NEW t, t = q \/ t = Append(q, x)
    PROVE  /\ Ordered(t) /\ CommandsOn(t) \subseteq CommandsOn(q) \cup {x}
           /\ x.is_ack => CommandsOn(t) \subseteq CommandsOn(q)
<1>1. CASE t = q
  BY <1>1
<1>2. CASE t = Append(q, x)
  <2>1. /\ DOMAIN q = 1 .. Len(q) /\ Len(q) \in Nat
        /\ DOMAIN t = 1 .. Len(q) + 1
        /\ t[Len(q) + 1] = x /\ \A k \in 1 .. Len(q) : t[k] = q[k]
    BY <1>2
  <2>2. PICK n : n = Len(q) + 1
    OBVIOUS
  <2>3. /\ \A k \in DOMAIN t : k = n \/ (k \in DOMAIN q /\ t[k] = q[k])
        /\ \A k, m \in DOMAIN t : k < m => k \in DOMAIN q
        /\ t[n] = x
    BY <2>1, <2>2
  <2>4. \A k \in DOMAIN q : ~q[k].is_ack => q[k] \in CommandsOn(q)
    BY DEF CommandsOn
  <2>5. ASSUME NEW c \in CommandsOn(t)
        PROVE  c \in CommandsOn(q) \/ (c = x /\ ~x.is_ack)
    <3>1. PICK k \in DOMAIN t : c = t[k] /\ ~t[k].is_ack
      BY DEF CommandsOn
    <3> QED
      BY <2>3, <2>4, <3>1
  <2>6. Ordered(t)
    <3> SUFFICES ASSUME NEW k \in DOMAIN t, NEW m \in DOMAIN t, k < m, ~t[k].is_ack, ~t[m].is_ack
                 PROVE  Follows(t[k], t[m])
      BY DEF Ordered
    <3>1. k \in DOMAIN q /\ t[k] = q[k]
      <4>1. k \in DOMAIN q
        BY <2>3
      <4> QED
        BY <2>1, <4>1
    <3>2. CASE m = n
      BY <2>3, <2>4, <3>1, <3>2
    <3>3. CASE m \in DOMAIN q /\ t[m] = q[m]
      BY <3>1, <3>3 DEF Ordered
    <3> QED
      BY <2>3, <3>2, <3>3
  <2> QED
    BY <2>5, <2>6
<1> QED
  BY <1>1, <1>2

LEMMA InitLine == Init => ILine
<1> SUFFICES ASSUME Init PROVE ILine
  OBVIOUS
<1>1. commands = 0 /\ from_peer = << >> /\ peer[Requested] = NoPacket
  BY Devices DEF Init
<1>2. DOMAIN from_peer = {}
  BY <1>1
<1>3. Ongoing = {} /\ Ordered(from_peer)
  BY <1>1, <1>2 DEF Ongoing, CommandsOn, Ordered
<1> QED
  BY <1>1, <1>3, ProtocolAssumption DEF ILine

(* What a step takes from the commands that are going on, and adds to them. *)
LEMMA LineStays ==
    ASSUME ILine, UNCHANGED <<peer, commands>>, Ordered(from_peer'),
           CommandsOn(from_peer') \subseteq Ongoing
    PROVE  ILine' /\ Ongoing' \subseteq Ongoing
<1>1. Ongoing' \subseteq Ongoing
  BY DEF Ongoing
<1>2. ILine'
  BY <1>1 DEF ILine
<1> QED
  BY <1>1, <1>2

LEMMA CommandOnLine ==
    ASSUME OnePeer, ITyped, ILine, NEW p \in Peers, NEW i \in PeerSessions, PeerCommand(p, i),
           NEW new, new = peer'[Requested]
    PROVE  /\ ILine' /\ Ongoing' \subseteq Ongoing \cup {new}
           /\ CommandsOn(from_peer') \subseteq CommandsOn(from_peer) \cup {new}
           /\ new.number = commands + 1 /\ commands' = commands + 1
           /\ new.session_id = i
           /\ new.seq_num = IF commands = 0 THEN 0 ELSE (peer[Requested].seq_num + 1) % SeqWidth
<1> DEFINE seq == IF peer[p] = NoPacket THEN 0 ELSE (peer[p].seq_num + 1) % SeqWidth
<1>1. p = Requested
  BY Devices DEF OnePeer
<1>2. /\ commands < MaxCommands /\ commands' = commands + 1 /\ commands \in Nat
      /\ MaxCommands \in Nat
  BY ProtocolAssumption DEF PeerCommand, ITyped
<1>3. /\ peer' = [peer EXCEPT ![p] = Packet(FALSE, i, seq, p, Local, commands')]
      /\ from_peer' \in {from_peer, Wire(from_peer, peer'[p])}
  BY DEF PeerCommand
<1>4. new = Packet(FALSE, i, seq, p, Local, commands')
  BY <1>1, <1>3 DEF ITyped
<1>5. commands = 0 <=> peer[p] = NoPacket
  <2>1. NoPacket.number = 0
    BY Devices
  <2> QED
    BY <1>1, <2>1 DEF ILine
<1>6. seq \in Seq_num
  <2>1. 0 \in Seq_num /\ peer[p].seq_num \in Seq_num
    BY Devices DEF ITyped, PacketType
  <2> QED
    BY <2>1, SeqInWidth
<1>8. seq = IF commands = 0 THEN 0 ELSE (peer[Requested].seq_num + 1) % SeqWidth
  BY <1>1, <1>5
<1> HIDE DEF seq
<1>7. /\ new \in PacketType /\ ~new.is_ack /\ new.session_id = i /\ new.number = commands + 1
      /\ new.seq_num = seq
  BY <1>2, <1>4, <1>6, Devices DEF Packet, PacketType
<1>9. new \in Incoming
  BY <1>7 DEF Incoming
<1>10. \A c \in Ongoing : c.number \in Nat /\ c.number < commands + 1
  BY <1>2 DEF ILine
<1>11. \A c \in CommandsOn(from_peer) : Follows(c, new)
  BY <1>2, <1>7, <1>10 DEF Follows, Ongoing
<1>12. from_peer' = from_peer \/ from_peer' = Append(from_peer, new)
  BY <1>1, <1>3 DEF Wire
<1>13. Ordered(from_peer') /\ CommandsOn(from_peer') \subseteq CommandsOn(from_peer) \cup {new}
  <2>1. from_peer \in Seq(Incoming) /\ Ordered(from_peer)
    BY DEF ITyped, ILine
  <2>2. ASSUME from_peer' = from_peer
        PROVE  /\ Ordered(from_peer')
               /\ CommandsOn(from_peer') \subseteq CommandsOn(from_peer) \cup {new}
    BY <2>1, <2>2
  <2>3. PICK x : x = new
    OBVIOUS
  <2>4. x \in Incoming /\ \A c \in CommandsOn(from_peer) : Follows(c, x)
    BY <1>9, <1>11, <2>3
  <2>5. ASSUME from_peer' = Append(from_peer, x)
        PROVE  /\ Ordered(from_peer')
               /\ CommandsOn(from_peer') \subseteq CommandsOn(from_peer) \cup {x}
    BY <2>1, <2>4, <2>5, EndOfLine
  <2> QED
    BY <1>12, <2>2, <2>3, <2>5
<1>14. Ongoing' \subseteq Ongoing \cup {new}
  BY <1>13 DEF Ongoing
<1>15. \A c \in Ongoing' : /\ c \in PacketType /\ ~c.is_ack /\ c.session_id \in PeerSessions
                           /\ c.number \in 1 .. commands'
  <2>1. \A c \in Ongoing : /\ c \in PacketType /\ ~c.is_ack /\ c.session_id \in PeerSessions
                           /\ c.number \in 1 .. commands'
    BY <1>2 DEF ILine
  <2>2. new.number \in 1 .. commands'
    BY <1>2, <1>7
  <2> QED
    BY <1>7, <1>14, <2>1, <2>2
<1>16. \A c, d \in Ongoing' : c.number = d.number => c = d
  <2>1. \A c \in Ongoing : c.number # new.number
    BY <1>2, <1>7, <1>10
  <2> QED
    BY <1>14, <2>1 DEF ILine
<1>17. commands' \in 0 .. MaxCommands /\ commands' # 0 /\ peer'[Requested].number = commands'
  BY <1>2, <1>7
<1>18. ILine'
  BY <1>13, <1>15, <1>16, <1>17 DEF ILine
<1> QED
  BY <1>2, <1>7, <1>8, <1>13, <1>14, <1>18

LEMMA RepeatOnLine ==
    ASSUME OnePeer, ITyped, ILine, NEW p \in Peers, PeerRepeat(p)
    PROVE  /\ ILine' /\ Ongoing' \subseteq Ongoing
           /\ \A c \in CommandsOn(from_peer') : c \in CommandsOn(from_peer) \/ c.session_id # 0
<1> DEFINE x == peer[p]
<1>1. p = Requested /\ x.session_id # 0 /\ from_peer' = Append(from_peer, x)
  BY Devices DEF OnePeer, PeerRepeat
<1>2. commands # 0 /\ x.number = commands /\ x \in Ongoing
  BY <1>1, Devices DEF ILine, Ongoing
<1>3. x \in Incoming
  BY <1>2 DEF ILine, Incoming
<1>4. ASSUME NEW c \in CommandsOn(from_peer)
      PROVE  Follows(c, x)
  <2>1. c \in Ongoing /\ c.number \in 1 .. commands /\ commands \in Nat
    BY DEF Ongoing, ILine, ITyped
  <2>2. c.number = commands => c = x
    BY <1>2, <2>1 DEF ILine
  <2> QED
    BY <1>1, <1>2, <2>1, <2>2 DEF Follows
<1> HIDE DEF x
<1>5. Ordered(from_peer') /\ CommandsOn(from_peer') \subseteq CommandsOn(from_peer) \cup {x}
  BY <1>1, <1>3, <1>4, EndOfLine DEF ITyped, ILine
<1>6. UNCHANGED <<peer, commands>>
  BY DEF PeerRepeat
<1>7. CommandsOn(from_peer') \subseteq Ongoing
  BY <1>2, <1>5 DEF Ongoing
<1>8. ILine' /\ Ongoing' \subseteq Ongoing
  BY <1>5, <1>6, <1>7, LineStays
<1> QED
  BY <1>1, <1>5, <1>8

(* What a step adds to the commands that are going on: a new one, or on the *)
(* line one that the peer repeats.                                          *)
LineMoves ==
    /\ commands <= commands'
    /\ \A c \in Ongoing' : c \in Ongoing \/ c.number > commands
    /\ \A c \in CommandsOn(from_peer') :
         c \in CommandsOn(from_peer) \/ c.session_id # 0 \/ c.number > commands

LEMMA LineShrinks ==
    ASSUME ITyped, ILine, UNCHANGED <<peer, commands>>,
           from_peer' = from_peer \/ (from_peer # << >> /\ from_peer' = Tail(from_peer))
    PROVE  ILine' /\ LineMoves
<1>1. Ordered(from_peer') /\ CommandsOn(from_peer') \subseteq CommandsOn(from_peer)
  BY TailOfLine DEF ITyped, ILine
<1>2. CommandsOn(from_peer') \subseteq Ongoing /\ commands <= commands'
  BY <1>1 DEF Ongoing, ITyped
<1>3. ILine' /\ Ongoing' \subseteq Ongoing
  BY <1>1, <1>2, LineStays
<1> QED
  BY <1>1, <1>2, <1>3 DEF LineMoves

LEMMA NextLine ==
    ASSUME OnePeer, ITyped, ILine, [Next]_vars
    PROVE  ILine' /\ LineMoves
<1>1. ASSUME NEW p \in Peers, NEW i \in PeerSessions, PeerCommand(p, i)
      PROVE  ILine' /\ LineMoves
  <2>1. PICK new : new = peer'[Requested]
    OBVIOUS
  <2>2. /\ ILine' /\ Ongoing' \subseteq Ongoing \cup {new}
        /\ CommandsOn(from_peer') \subseteq CommandsOn(from_peer) \cup {new}
        /\ new.number = commands + 1 /\ commands' = commands + 1
    BY <1>1, <2>1, CommandOnLine
  <2>3. commands \in Nat
    BY DEF ITyped
  <2>4. new.number > commands /\ commands <= commands'
    BY <2>2, <2>3
  <2> QED
    BY <2>2, <2>4 DEF LineMoves
<1>2. ASSUME NEW p \in Peers, PeerRepeat(p)
      PROVE  ILine' /\ LineMoves
  <2>1. commands <= commands'
    BY <1>2 DEF PeerRepeat, ITyped
  <2> QED
    BY <1>2, <2>1, RepeatOnLine DEF LineMoves
<1>3. CASE PeerReceive
  <2>1. UNCHANGED <<peer, commands>>
    BY <1>3 DEF PeerReceive
  <2>2. CASE from_peer' = from_peer
    BY <2>1, <2>2, LineShrinks
  <2>3. CASE /\ ~Head(to_peer).is_ack /\ Head(to_peer).session_id # 0
             /\ from_peer' = Wire(from_peer, Packet(TRUE, Head(to_peer).session_id,
                                Head(to_peer).seq_num, Head(to_peer).receiver, Local,
                                Head(to_peer).number))
    <3>1. PICK x : x = Packet(TRUE, Head(to_peer).session_id, Head(to_peer).seq_num,
                              Head(to_peer).receiver, Local, Head(to_peer).number)
      OBVIOUS
    <3>2. Head(to_peer) \in PacketType
      BY <1>3 DEF PeerReceive, ITyped
    <3>3. x.is_ack /\ x \in Incoming
      BY <2>3, <3>1, <3>2, Devices DEF Packet, PacketType, Incoming
    <3>4. from_peer' = from_peer \/ from_peer' = Append(from_peer, x)
      BY <2>3, <3>1 DEF Wire
    <3>5. Ordered(from_peer) /\ from_peer \in Seq(Incoming)
      BY DEF ITyped, ILine
    <3>6. CASE from_peer' = Append(from_peer, x)
      <4>1. Ordered(from_peer') /\ CommandsOn(from_peer') \subseteq CommandsOn(from_peer)
        BY <3>3, <3>5, <3>6, EndOfLine
      <4>2. CommandsOn(from_peer') \subseteq Ongoing /\ commands <= commands'
        BY <2>1, <4>1 DEF Ongoing, ITyped
      <4>3. ILine' /\ Ongoing' \subseteq Ongoing
        BY <2>1, <4>1, <4>2, LineStays
      <4> QED
        BY <4>1, <4>2, <4>3 DEF LineMoves
    <3> QED
      BY <2>1, <3>4, <3>6, LineShrinks
  <2> QED
    BY <1>3, <2>2, <2>3 DEF PeerReceive
<1>4. CASE ReceiveAck \/ CommandArrives
  <2>1. /\ UNCHANGED <<peer, commands>> /\ from_peer # << >> /\ from_peer' = Tail(from_peer)
    BY <1>4 DEF ReceiveAck, CommandArrives
  <2> QED
    BY <2>1, LineShrinks
<1>5. CASE \/ \E mode \in SendModes : SendCMD(mode)
           \/ PackAndSend
           \/ \E k \in DOMAIN inbox : SendACK(k)
           \/ \E i \in AckSession : Timeout(i)
           \/ \E i \in AckSession : PollCheck(i)
           \/ PollGiveUp \/ PollResend \/ CompleteSession \/ UNCHANGED vars
  <2>1. UNCHANGED <<peer, commands, from_peer>>
    BY <1>5 DEF SendCMD, PackAndSend, SendACK, Timeout, PollCheck, PollGiveUp, PollResend,
                CompleteSession, line, vars
  <2> QED
    BY <2>1, LineShrinks
<1> QED
  BY <1>1, <1>2, <1>3, <1>4, <1>5
  DEF Next, ReceiveMessage, ReceiveFirst, ReceiveBusy, ReceiveRepeated, ReceiveNew

(* The command at the head of the line, and those that come after it.       *)
LEMMA ArrivedFirst ==
    ASSUME OnePeer, ITyped, ILine, CommandArrives, NEW d, d = Arrived
    PROVE  /\ d \in CommandsOn(from_peer) /\ d \in Ongoing /\ d \in PacketType
           /\ d.number \in Command /\ d.number <= commands /\ d.session_id \in PeerSessions
           /\ Ongoing' \subseteq Ongoing
           /\ CommandsOn(from_peer') \subseteq CommandsOn(from_peer)
           /\ \A c \in Ongoing' : d.number <= c.number
           /\ \A c \in CommandsOn(from_peer') : d.session_id = 0 => d.number # c.number
<1>1. /\ UNCHANGED <<peer, commands>> /\ from_peer # << >> /\ from_peer' = Tail(from_peer)
      /\ ~d.is_ack /\ d = Head(from_peer)
  BY DEF CommandArrives, Arrived
<1>2. /\ CommandsOn(from_peer') \subseteq CommandsOn(from_peer) /\ d \in CommandsOn(from_peer)
      /\ \A c \in CommandsOn(from_peer') : Follows(d, c)
  BY <1>1, TailOfLine DEF ITyped, ILine
<1>3. Ongoing' \subseteq Ongoing /\ d \in Ongoing
  BY <1>1, <1>2 DEF Ongoing
<1>4. /\ \A c \in Ongoing : c \in PacketType /\ c.number \in 1 .. commands /\ c.session_id \in PeerSessions
      /\ commands \in 0 .. MaxCommands /\ MaxCommands \in Nat
  BY ProtocolAssumption DEF ILine
<1>5. d.number \in Command /\ d.number <= commands
  BY <1>3, <1>4 DEF Command
<1>6. ASSUME NEW c \in Ongoing'
      PROVE  d.number <= c.number
  <2>1. CASE c \in CommandsOn(from_peer')
    BY <1>2, <2>1 DEF Follows
  <2>2. CASE c = peer[Requested] /\ commands # 0
    BY <1>5, <2>2 DEF ILine
  <2> QED
    BY <1>1, <2>1, <2>2 DEF Ongoing
<1>7. ASSUME NEW c \in CommandsOn(from_peer'), d.session_id = 0
      PROVE  d.number # c.number
  <2>1. d.number < c.number /\ d.number \in Nat
    BY <1>2, <1>5, <1>7 DEF Follows, Command
  <2> QED
    BY <2>1
<1> QED
  BY <1>2, <1>3, <1>4, <1>5, <1>6, <1>7

-----------------------------------------------------------------------------
(* The answers that are stored, step by step.                               *)

SameAnswers(K) ==
    \A i \in K : /\ Status(i)' = Status(i)
                 /\ Status(i) = "USING" => StoredAnswer(i)' = StoredAnswer(i)

LEMMA AnswersSame ==
    ASSUME ITyped, IKept, UNCHANGED ack_session_table, SamePackets(pool, pool', BlocksUsed(pool))
    PROVE  SameAnswers(AckSession)
<1> SUFFICES ASSUME NEW i \in AckSession
             PROVE  /\ Status(i)' = Status(i)
                    /\ Status(i) = "USING" => StoredAnswer(i)' = StoredAnswer(i)
  BY DEF SameAnswers
<1>1. PICK b : b = ack_session_table[i].memory_block_ptr /\ b = ack_session_table'[i].memory_block_ptr
  OBVIOUS
<1>2. StoredAnswer(i) = First(pool, b) /\ StoredAnswer(i)' = First(pool', b)
  BY <1>1 DEF StoredAnswer, PacketAt, First
<1>3. Status(i) = "USING" => b \in BlocksUsed(pool)
  BY <1>1 DEF IKept, KeepsAnswer, Storing, Lost, Status
<1> QED
  BY <1>2, <1>3 DEF Status, SamePackets

(* Every step that leaves the answers' table alone.                         *)
LEMMA AnswersSameNext ==
    ASSUME ITyped, IKept, [Next]_vars, UNCHANGED ack_session_table,
           \A k \in DOMAIN inbox : ~SendACK(k)
    PROVE  SameAnswers(AckSession)
<1> SUFFICES SamePackets(pool, pool', BlocksUsed(pool))
  BY AnswersSame
<1>1. CASE UNCHANGED pool
  BY <1>1 DEF SamePackets
<1>2. ASSUME NEW i \in Session, FreeCMDSession(i)
      PROVE  SamePackets(pool, pool', BlocksUsed(pool))
  <2>1. SamePackets(pool, pool', BlockPtr)
    BY <1>2, FreeCMDSessionWorks
  <2> QED
    BY <2>1, Sessions DEF SamePackets, BlocksUsed
<1>3. CASE PackAndSend
  <2>0. PICK i : i = packing.session
    OBVIOUS
  <2>1. PackRefused(i) \/ (\E b \in Handle : PackedAndFreed(i, b))
        \/ (\E b \in Handle : PackedAndKept(i, b))
    BY <1>3, <2>0, PackEffect
  <2> QED
    BY <2>1 DEF PackRefused, PackedAndFreed, PackedAndKept, NewPacket
<1>4. CASE PollGiveUp
  BY <1>2, <1>4 DEF PollGiveUp, ITyped, SessionsTyped
<1>5. CASE CompleteSession
  <2>1. recv.session_id \in Session
    BY <1>5, RecvSession, Sessions DEF CompleteSession
  <2> QED
    BY <1>1, <1>2, <1>5, <2>1 DEF CompleteSession
<1>6. CASE \E mode \in SendModes : SendCMD(mode)
  BY <1>1, <1>6 DEF SendCMD
<1>7. CASE (\E i \in AckSession : Timeout(i)) \/ PollResend
  BY <1>1, <1>7 DEF Timeout, PollResend
<1> QED
  BY <1>1, <1>3, <1>4, <1>5, <1>6, <1>7, QuietSteps DEF Next, Quiet

(* SendACK stores its answer and leaves those of the other sessions; or the *)
(* memory refuses it, and the session is lost.                              *)
LEMMA AckStores ==
    ASSUME ITyped, IOwed, IKept, NEW k \in DOMAIN inbox, SendACK(k), ~RefusedInOne,
           NEW command, command = inbox[k], NEW i, i = command.session_id
    PROVE  /\ SameAnswers(AckSession \ {i}) /\ i \in AckSession
           /\ \/ Status(i)' = "USING" /\ StoredAnswer(i)' = AnswerTo(command)
              \/ Status(i)' = "PROCESS"
           /\ AnswerTo(command).seq_num = command.seq_num
           /\ AnswerTo(command).number = command.number
<1>0. PICK old : old = ack_session_table[i].memory_block_ptr
  OBVIOUS
<1>1. /\ AckEffects(command, i, old) /\ i \in AckSession
      /\ AnswerTo(command).seq_num = command.seq_num /\ AnswerTo(command).number = command.number
  BY <1>0, AckEffect
<1>2. SamePackets(pool, pool', BlocksUsed(pool) \ {old})
  BY <1>1 DEF AckEffects
<1>3. i \in Storing
  BY <1>1 DEF Storing, Lost
<1>4. ack_session_table \in [AckSession -> AckType]
  BY DEF ITyped
<1>5. \A j \in AckSession \ {i} : ack_session_table'[j] = ack_session_table[j]
  BY <1>1, <1>4 DEF AckEffects
<1>6. ASSUME NEW j \in AckSession \ {i}
      PROVE  /\ Status(j)' = Status(j)
             /\ Status(j) = "USING" => StoredAnswer(j)' = StoredAnswer(j)
  <2>1. PICK c : /\ c = ack_session_table[j].memory_block_ptr
                 /\ c = ack_session_table'[j].memory_block_ptr
    BY <1>5
  <2>2. StoredAnswer(j) = First(pool, c) /\ StoredAnswer(j)' = First(pool', c)
    BY <2>1 DEF StoredAnswer, PacketAt, First
  <2>3. Status(j) = "USING" => c \in BlocksUsed(pool) /\ c # Null /\ j \in Storing
    BY <2>1 DEF IKept, KeepsAnswer, Storing, Lost, Status
  <2>4. j \in Storing => c # old \/ c = Null
    <3>1. j # i
      OBVIOUS
    <3> QED
      BY <1>0, <1>3, <2>1, <3>1, HeldApart
  <2> QED
    BY <1>2, <1>5, <2>2, <2>3, <2>4 DEF Status, SamePackets
<1>7. CASE NoMemoryFor(command)
  <2>1. Status(i)' = Status(i)
    BY <1>1, <1>7 DEF AckEffects, Status
  <2>2. i # 1 => Status(i) = "PROCESS"
    BY DEF IOwed
  <2>3. i # 1
    BY <1>7 DEF RefusedInOne
  <2> QED
    BY <1>1, <1>6, <2>1, <2>2, <2>3 DEF SameAnswers
<1>8. CASE ~NoMemoryFor(command)
  <2>1. PICK b \in Handle :
          /\ First(pool', b) = AnswerTo(command)
          /\ ack_session_table' =
               [ack_session_table EXCEPT ![i] = [session_status |-> "USING", memory_block_ptr |-> b]]
    BY <1>1, <1>8 DEF AckEffects
  <2>2. /\ ack_session_table'[i].session_status = "USING"
        /\ ack_session_table'[i].memory_block_ptr = b
    BY <1>1, <1>4, <2>1
  <2>3. Status(i)' = "USING" /\ StoredAnswer(i)' = AnswerTo(command)
    BY <2>1, <2>2 DEF Status, StoredAnswer, PacketAt, First
  <2> QED
    BY <1>1, <1>6, <2>3 DEF SameAnswers
<1> QED
  BY <1>7, <1>8

(* A command that comes sets the status of its session, and no answer.      *)
LEMMA SetProcessStores ==
    ASSUME ITyped, UNCHANGED pool, NEW i \in AckSession, SetProcess(i)
    PROVE  SameAnswers(AckSession \ {i}) /\ Status(i)' = "PROCESS"
<1>1. /\ ack_session_table \in [AckSession -> AckType]
      /\ ack_session_table' = [ack_session_table EXCEPT ![i].session_status = "PROCESS"]
  BY DEF ITyped, SetProcess
<1>2. /\ ack_session_table'[i].session_status = "PROCESS"
      /\ \A j \in AckSession \ {i} : ack_session_table'[j] = ack_session_table[j]
  BY <1>1 DEF AckType
<1> QED
  BY <1>2 DEF SameAnswers, Status, StoredAnswer, PacketAt

-----------------------------------------------------------------------------
(* Every command is delivered once: as long as a delivered command may come *)
(* again, its session remembers it, as one in process or by its answer.  A  *)
(* lost session is one in process.                                          *)

IsDelivered(c) == delivered[c.number] > 0

Remembered(c) ==
    LET i == c.session_id
    IN  \/ Status(i) = "PROCESS"
        \/ Status(i) = "USING" /\ StoredAnswer(i).seq_num = c.seq_num

(* The application owes the answer to one command of a session at a time.   *)
Owed(k) ==
    LET o == inbox[k]
    IN  /\ Status(o.session_id) = "PROCESS"
        /\ \A c \in Ongoing : c.session_id = o.session_id /\ IsDelivered(c) => c.seq_num = o.seq_num
        /\ \A m \in DOMAIN inbox : m # k => inbox[m].session_id # o.session_id

IDelivered ==
    /\ \A n \in Command : delivered[n] <= 1 /\ (n > commands => delivered[n] = 0)
    /\ \A n \in Command, c \in Ongoing : delivered[n] > 0 => n <= c.number
    /\ \A c \in CommandsOn(from_peer) : c.session_id = 0 => ~IsDelivered(c)
    /\ \A c \in Ongoing : c.session_id # 0 /\ IsDelivered(c) => Remembered(c)
    /\ \A k \in DOMAIN inbox : Owed(k)

LEMMA InitDelivered == Init => IDelivered
<1> SUFFICES ASSUME Init PROVE IDelivered
  OBVIOUS
<1>1. DOMAIN from_peer = {} /\ DOMAIN inbox = {} /\ commands = 0
  BY DEF Init
<1>2. Ongoing = {} /\ CommandsOn(from_peer) = {}
  BY <1>1 DEF Ongoing, CommandsOn
<1>3. \A n \in Command : delivered[n] = 0
  BY DEF Init
<1> QED
  BY <1>1, <1>2, <1>3 DEF IDelivered

(* What is known of a command that is going on.                             *)
LEMMA OngoingTyped ==
    ASSUME ILine
    PROVE  \A c \in Ongoing : /\ c.number \in Command /\ c.number \in Nat
                              /\ c.session_id \in PeerSessions /\ c.session_id \in Session
                              /\ (c.session_id # 0 => c.session_id \in AckSession)
<1>1. \A c \in Ongoing : c.number \in 1 .. commands /\ c.session_id \in PeerSessions
  BY DEF ILine
<1>2. commands \in 0 .. MaxCommands /\ MaxCommands \in Nat
  BY ProtocolAssumption DEF ILine
<1>3. 1 .. commands \subseteq Command /\ Command \subseteq Nat
  BY <1>2 DEF Command
<1>4. \A i \in PeerSessions : i \in Session /\ (i # 0 => i \in AckSession)
  BY Sessions, Devices
<1> QED
  BY <1>1, <1>3, <1>4

(* A step that delivers nothing and answers nothing.                        *)
LEMMA DeliveredStays ==
    ASSUME ITyped, ILine, ILine', LineMoves, IDelivered, UNCHANGED <<delivered, inbox>>,
           SameAnswers(AckSession)
    PROVE  IDelivered'
<1>1. commands \in Nat /\ commands' \in Nat /\ commands <= commands' /\ Command \subseteq Nat
  BY ProtocolAssumption DEF ILine, LineMoves, Command
<1>2. \A n \in Command : delivered[n] \in Nat /\ (delivered[n] > 0 => n <= commands)
  <2>1. \A n \in Command : delivered[n] \in Nat /\ (n > commands => delivered[n] = 0)
    BY DEF ITyped, IDelivered
  <2> QED
    BY <1>1, <2>1
<1>3. \A c \in Ongoing' : /\ c.number \in Command /\ c.number \in Nat
                          /\ (c.session_id # 0 => c.session_id \in AckSession)
  <2>1. \A c \in Ongoing' : c.number \in 1 .. commands' /\ c.session_id \in PeerSessions
    BY DEF ILine
  <2>2. commands' \in 0 .. MaxCommands /\ MaxCommands \in Nat
    BY ProtocolAssumption DEF ILine
  <2>3. 1 .. commands' \subseteq Command /\ Command \subseteq Nat
    BY <2>2 DEF Command
  <2>4. \A i \in PeerSessions : i # 0 => i \in AckSession
    BY Sessions, Devices
  <2> QED
    BY <2>1, <2>3, <2>4
<1>4. ASSUME NEW c \in Ongoing', IsDelivered(c)'
      PROVE  c \in Ongoing /\ IsDelivered(c)
  <2>1. IsDelivered(c)
    BY <1>4 DEF IsDelivered
  <2>2. ~(c.number > commands)
    BY <1>1, <1>2, <1>3, <2>1 DEF IsDelivered
  <2> QED
    BY <2>1, <2>2 DEF LineMoves
<1>5. ASSUME NEW n \in Command
      PROVE  delivered'[n] <= 1 /\ (n > commands' => delivered'[n] = 0)
  <2>1. n > commands' => n > commands
    BY <1>1
  <2> QED
    BY <2>1 DEF IDelivered
<1>6. ASSUME NEW n \in Command, NEW c \in Ongoing', delivered'[n] > 0
      PROVE  n <= c.number
  <2>1. CASE c \in Ongoing
    BY <1>6, <2>1 DEF IDelivered
  <2>2. CASE c.number > commands
    BY <1>1, <1>2, <1>3, <1>6, <2>2
  <2> QED
    BY <2>1, <2>2 DEF LineMoves
<1>7. ASSUME NEW c \in CommandsOn(from_peer'), c.session_id = 0
      PROVE  ~IsDelivered(c)'
  <2>1. c \in Ongoing'
    BY DEF Ongoing
  <2>2. CASE c \in CommandsOn(from_peer)
    BY <1>7, <2>2 DEF IDelivered, IsDelivered
  <2>3. CASE c.number > commands
    BY <1>1, <1>2, <1>3, <2>1, <2>3 DEF IsDelivered
  <2> QED
    BY <1>7, <2>2, <2>3 DEF LineMoves
<1>8. ASSUME NEW c \in Ongoing', c.session_id # 0, IsDelivered(c)'
      PROVE  Remembered(c)'
  <2>1. Remembered(c) /\ c.session_id \in AckSession
    BY <1>3, <1>4, <1>8 DEF IDelivered
  <2> QED
    BY <2>1 DEF Remembered, SameAnswers
<1>9. ASSUME NEW k \in DOMAIN inbox'
      PROVE  Owed(k)'
  <2>1. Owed(k) /\ inbox[k].session_id \in AckSession
    BY Sessions DEF IDelivered, ITyped, InSession, PacketType
  <2>2. Status(inbox[k].session_id)' = "PROCESS"
    BY <2>1 DEF Owed, SameAnswers, Status
  <2>3. \A c \in Ongoing' : c.session_id = inbox'[k].session_id /\ IsDelivered(c)'
                              => c.seq_num = inbox'[k].seq_num
    BY <1>4, <2>1 DEF Owed
  <2> QED
    BY <2>1, <2>2, <2>3 DEF Owed
<1> QED
  BY <1>5, <1>6, <1>7, <1>8, <1>9 DEF IDelivered

(* A command is delivered: it was not before, and its session is the one    *)
(* that remembers it.                                                       *)
LEMMA DeliveredNow ==
    ASSUME OnePeer, ITyped, ILine, IDelivered, CommandArrives, Deliver(Arrived),
           NEW d, d = Arrived, NEW i, i = d.session_id,
           ~IsDelivered(d),
           \/ i = 0 /\ SameAnswers(AckSession)
           \/ i # 0 /\ Status(i) # "PROCESS" /\ SameAnswers(AckSession \ {i}) /\ Status(i)' = "PROCESS"
    PROVE  IDelivered'
<1>1. /\ d \in CommandsOn(from_peer) /\ d \in Ongoing /\ d \in PacketType
      /\ d.number \in Command /\ d.number <= commands
      /\ Ongoing' \subseteq Ongoing /\ CommandsOn(from_peer') \subseteq CommandsOn(from_peer)
      /\ \A c \in Ongoing' : d.number <= c.number
      /\ \A c \in CommandsOn(from_peer') : i = 0 => d.number # c.number
  BY ArrivedFirst
<1>2. /\ delivered \in [Command -> Nat] /\ commands' = commands /\ commands \in Nat
      /\ Command \subseteq Nat /\ inbox \in Seq(InSession)
  BY DEF ITyped, CommandArrives, Command
<1>3. /\ inbox' = IF i = 0 THEN inbox ELSE Append(inbox, d)
      /\ delivered' = [delivered EXCEPT ![d.number] = @ + 1]
  BY DEF Deliver
<1>4. delivered[d.number] = 0
  <2>1. delivered[d.number] \in Nat /\ ~(delivered[d.number] > 0)
    BY <1>1, <1>2 DEF IsDelivered
  <2> QED
    BY <2>1
<1>5. /\ delivered'[d.number] = 1
      /\ \A n \in Command : n # d.number => delivered'[n] = delivered[n]
  BY <1>1, <1>2, <1>3, <1>4
<1>6. \A c \in Ongoing : /\ c.number \in Command /\ c.number \in Nat
                         /\ (c.session_id # 0 => c.session_id \in AckSession)
                         /\ (c.number = d.number => c = d)
  BY <1>1, OngoingTyped DEF ILine
<1>7. ASSUME NEW c \in Ongoing', IsDelivered(c)', c # d
      PROVE  IsDelivered(c) /\ c \in Ongoing
  BY <1>1, <1>5, <1>6, <1>7 DEF IsDelivered
<1>8. ASSUME NEW n \in Command
      PROVE  delivered'[n] <= 1 /\ (n > commands' => delivered'[n] = 0)
  <2>1. CASE n = d.number
    <3>1. delivered'[n] = 1 /\ ~(n > commands)
      BY <1>1, <1>2, <1>5, <2>1
    <3> QED
      BY <1>2, <3>1
  <2>2. CASE n # d.number
    BY <1>2, <1>5, <2>2 DEF IDelivered
  <2> QED
    BY <2>1, <2>2
<1>9. ASSUME NEW n \in Command, NEW c \in Ongoing', delivered'[n] > 0
      PROVE  n <= c.number
  <2>1. CASE n = d.number
    BY <1>1, <2>1
  <2>2. CASE n # d.number
    BY <1>1, <1>5, <1>9, <2>2 DEF IDelivered
  <2> QED
    BY <2>1, <2>2
<1>10. ASSUME NEW c \in CommandsOn(from_peer'), c.session_id = 0
       PROVE  ~IsDelivered(c)'
  <2>1. c \in Ongoing /\ ~IsDelivered(c)
    BY <1>1, <1>10 DEF IDelivered, Ongoing
  <2>2. c.number # d.number
    <3>1. c.number = d.number => c = d
      BY <1>6, <2>1
    <3> QED
      BY <1>1, <1>10, <3>1
  <2> QED
    BY <1>5, <1>6, <2>1, <2>2 DEF IsDelivered
<1>11. ASSUME NEW c \in Ongoing', c.session_id # 0, IsDelivered(c)'
       PROVE  Remembered(c)'
  <2>1. CASE c.session_id = i
    BY <1>11, <2>1 DEF Remembered
  <2>2. CASE c.session_id # i
    <3>1. Remembered(c) /\ c.session_id \in AckSession
      BY <1>1, <1>6, <1>7, <1>11, <2>2 DEF IDelivered
    <3> QED
      BY <2>2, <3>1 DEF Remembered, SameAnswers
  <2> QED
    BY <2>1, <2>2
<1>12. ASSUME NEW k \in DOMAIN inbox
       PROVE  /\ Owed(k) /\ inbox[k].session_id \in AckSession /\ inbox[k].session_id # i
              /\ ack_session_table'[inbox[k].session_id].session_status = "PROCESS"
              /\ \A c \in Ongoing' : c.session_id = inbox[k].session_id /\ IsDelivered(c)'
                                       => c.seq_num = inbox[k].seq_num
  <2>1. Owed(k) /\ inbox[k].session_id \in AckSession
    BY <1>2, Sessions DEF IDelivered, InSession, PacketType
  <2>2. inbox[k].session_id # i
    BY <2>1, Sessions DEF Owed
  <2>3. ack_session_table'[inbox[k].session_id].session_status = "PROCESS"
    BY <2>1, <2>2 DEF Owed, SameAnswers, Status
  <2>4. \A c \in Ongoing' : c.session_id = inbox[k].session_id /\ IsDelivered(c)'
                              => c.seq_num = inbox[k].seq_num
    BY <1>1, <1>7, <2>1, <2>2 DEF Owed
  <2> QED
    BY <2>1, <2>2, <2>3, <2>4
<1>13. CASE i = 0
  <2>1. inbox' = inbox
    BY <1>3, <1>13
  <2>2. \A k \in DOMAIN inbox' : Owed(k)'
    BY <1>12, <2>1 DEF Owed, Status
  <2> QED
    BY <1>8, <1>9, <1>10, <1>11, <2>2 DEF IDelivered
<1>14. CASE i # 0
  <2>0. PICK e : e = Len(inbox) + 1
    OBVIOUS
  <2>1. inbox' = Append(inbox, d)
    BY <1>3, <1>14
  <2>2. /\ DOMAIN inbox' = DOMAIN inbox \cup {e} /\ e \notin DOMAIN inbox
        /\ inbox'[e] = d /\ \A k \in DOMAIN inbox : inbox'[k] = inbox[k]
    BY <1>2, <2>0, <2>1
  <2>3. Owed(e)'
    <3>1. ack_session_table'[i].session_status = "PROCESS"
      BY <1>14 DEF Status
    <3>2. ASSUME NEW c \in Ongoing', c.session_id = i, IsDelivered(c)'
          PROVE  c.seq_num = d.seq_num
      <4>1. CASE c # d
        <5>1. c \in Ongoing /\ delivered[c.number] > 0
          BY <1>7, <3>2, <4>1 DEF IsDelivered
        <5>2. c.number <= d.number /\ d.number <= c.number
          BY <1>1, <1>6, <5>1 DEF IDelivered
        <5>3. c.number = d.number
          BY <1>1, <1>6, <5>1, <5>2
        <5> QED
          BY <1>6, <5>1, <5>3
      <4> QED
        BY <4>1
    <3>3. \A m \in DOMAIN inbox' : m # e => inbox'[m].session_id # i
      BY <1>12, <2>2
    <3> QED
      BY <2>2, <3>1, <3>2, <3>3 DEF Owed, Status
  <2>4. ASSUME NEW k \in DOMAIN inbox
        PROVE  Owed(k)'
    <3>1. \A m \in DOMAIN inbox' : m # k => inbox'[m].session_id # inbox'[k].session_id
      BY <1>12, <2>2 DEF Owed
    <3> QED
      BY <1>12, <2>2, <3>1 DEF Owed, Status
  <2> QED
    BY <1>8, <1>9, <1>10, <1>11, <2>2, <2>3, <2>4 DEF IDelivered
<1> QED
  BY <1>13, <1>14

(* The answer takes the place of the command that was owed it.              *)
LEMMA AnswerDelivered ==
    ASSUME ITyped, IOwed, IKept, ILine, IDelivered,
           NEW k \in DOMAIN inbox, SendACK(k), ~RefusedInOne
    PROVE  IDelivered'
<1>0. PICK o, i : o = inbox[k] /\ i = o.session_id
  OBVIOUS
<1>1. /\ SameAnswers(AckSession \ {i}) /\ i \in AckSession
      /\ \/ Status(i)' = "USING" /\ StoredAnswer(i)' = AnswerTo(o)
         \/ Status(i)' = "PROCESS"
      /\ AnswerTo(o).seq_num = o.seq_num
  BY <1>0, AckStores
<1>2. UNCHANGED <<delivered, from_peer, peer, commands>> /\ inbox' = RemoveAt(inbox, k)
  BY DEF SendACK
<1>3. Ongoing' = Ongoing
  BY <1>2 DEF Ongoing
<1>4. \A c : IsDelivered(c)' <=> IsDelivered(c)
  BY <1>2 DEF IsDelivered
<1>5. Owed(k)
  BY DEF IDelivered
<1>6. ASSUME NEW c \in Ongoing', c.session_id # 0, IsDelivered(c)'
      PROVE  Remembered(c)'
  <2>1. Remembered(c) /\ c.session_id \in AckSession /\ c \in Ongoing /\ IsDelivered(c)
    BY <1>3, <1>4, <1>6, OngoingTyped DEF IDelivered
  <2>2. CASE c.session_id = i
    <3>1. c.seq_num = o.seq_num
      BY <1>0, <1>5, <2>1, <2>2 DEF Owed
    <3> QED
      BY <1>1, <2>2, <3>1 DEF Remembered, Status
  <2>3. CASE c.session_id # i
    BY <1>1, <2>1, <2>3 DEF Remembered, SameAnswers
  <2> QED
    BY <2>2, <2>3
<1>7. ASSUME NEW m \in DOMAIN inbox'
      PROVE  \/ m \in DOMAIN inbox /\ m # k /\ m < k /\ inbox'[m] = inbox[m]
             \/ m + 1 \in DOMAIN inbox /\ m + 1 > k /\ inbox'[m] = inbox[m + 1]
  BY <1>2, RemoveAtWorks DEF ITyped
<1>n. DOMAIN inbox \subseteq Nat /\ DOMAIN inbox' \subseteq Nat
  <2>1. inbox' \in Seq(InSession) /\ inbox \in Seq(InSession)
    BY <1>2, RemoveAtWorks DEF ITyped
  <2> QED
    BY <2>1
<1>8. ASSUME NEW m \in DOMAIN inbox'
      PROVE  Owed(m)'
  <2>1. PICK n \in DOMAIN inbox : /\ n # k /\ inbox'[m] = inbox[n]
                                  /\ (n = m /\ m < k) \/ (n = m + 1 /\ m + 1 > k)
    BY <1>7, <1>n
  <2>2. Owed(n) /\ inbox[n].session_id \in AckSession /\ inbox[n].session_id # i
    <3>1. Owed(n) /\ inbox[n].session_id \in AckSession
      BY Sessions DEF IDelivered, ITyped, InSession, PacketType
    <3> QED
      BY <1>0, <2>1, <3>1 DEF Owed
  <2>3. ack_session_table'[inbox[n].session_id].session_status = "PROCESS"
    BY <1>1, <2>2 DEF Owed, SameAnswers, Status
  <2>4. \A c \in Ongoing' : c.session_id = inbox[n].session_id /\ IsDelivered(c)'
                              => c.seq_num = inbox[n].seq_num
    BY <1>3, <1>4, <2>2 DEF Owed
  <2>5. ASSUME NEW m2 \in DOMAIN inbox', m2 # m
        PROVE  inbox'[m2].session_id # inbox[n].session_id
    <3>1. PICK n2 \in DOMAIN inbox : /\ n2 # k /\ inbox'[m2] = inbox[n2]
                                     /\ (n2 = m2 /\ m2 < k) \/ (n2 = m2 + 1 /\ m2 + 1 > k)
      BY <1>7, <1>n
    <3>2. n2 # n
      BY <1>n, <2>1, <2>5, <3>1
    <3> QED
      BY <2>2, <3>1, <3>2 DEF Owed
  <2> QED
    BY <2>1, <2>3, <2>4, <2>5 DEF Owed, Status
<1>9. /\ \A n \in Command : delivered'[n] <= 1 /\ (n > commands' => delivered'[n] = 0)
      /\ \A n \in Command, c \in Ongoing' : delivered'[n] > 0 => n <= c.number
      /\ \A c \in CommandsOn(from_peer') : c.session_id = 0 => ~IsDelivered(c)'
  BY <1>2, <1>3, <1>4 DEF IDelivered
<1> QED
  BY <1>6, <1>8, <1>9 DEF IDelivered

(* The peer uses session 0, and the sessions above 1: ReceiveFirst leaves   *)
(* session 1 idle, so that a repeated command is delivered again.           *)
PeerAvoidsOne == 1 \notin PeerSessions

LEMMA NextDelivered ==
    /\ OnePeer /\ PeerAvoidsOne
    /\ ITyped /\ IOwed /\ IKept /\ ILine /\ ILine' /\ IDelivered
    /\ [Next]_vars /\ [~RefusedInOne]_vars
    => IDelivered'
<1> SUFFICES ASSUME OnePeer, PeerAvoidsOne, ITyped, IOwed, IKept, ILine, ILine', IDelivered,
                    [Next]_vars, [~RefusedInOne]_vars
             PROVE  IDelivered'
  OBVIOUS
<1>1. LineMoves
  BY NextLine
<1>2. ASSUME NEW k \in DOMAIN inbox, SendACK(k), ~RefusedInOne
      PROVE  IDelivered'
  BY <1>2, AnswerDelivered
<1>3. ASSUME UNCHANGED <<ack_session_table, delivered, inbox>>, \A k \in DOMAIN inbox : ~SendACK(k)
      PROVE  IDelivered'
  BY <1>1, <1>3, AnswersSameNext, DeliveredStays
<1>4. ASSUME UNCHANGED vars
      PROVE  IDelivered'
  <2>1. UNCHANGED <<ack_session_table, delivered, inbox, pool>>
    BY <1>4 DEF vars, tables, counts
  <2>2. SameAnswers(AckSession)
    BY <2>1, AnswersSame DEF SamePackets
  <2> QED
    BY <1>1, <2>1, <2>2, DeliveredStays
<1>5. ASSUME CommandArrives, NEW d, d = Arrived, NEW i, i = d.session_id
      PROVE  /\ d \in Ongoing /\ d \in CommandsOn(from_peer) /\ i # 1
             /\ (i # 0 => i \in AckSession /\ Status(i) \in {"IDLE", "PROCESS", "USING"})
             /\ UNCHANGED pool
  <2>1. d \in Ongoing /\ d \in CommandsOn(from_peer) /\ i \in PeerSessions /\ d \in PacketType
    BY <1>5, ArrivedFirst
  <2>2. i # 0 => i \in AckSession
    BY <1>5, <2>1, Sessions DEF PacketType
  <2>3. i # 0 => Status(i) \in {"IDLE", "PROCESS", "USING"}
    BY <2>2 DEF ITyped, AckType, Status
  <2> QED
    BY <1>5, <2>1, <2>2, <2>3 DEF PeerAvoidsOne, CommandArrives
<1>6. CASE ReceiveMessage
  <2>0. PICK d, i : d = Arrived /\ i = d.session_id
    OBVIOUS
  <2>1. /\ CommandArrives /\ i = 0 /\ Deliver(Arrived) /\ UNCHANGED ack_session_table
    BY <1>6, <2>0 DEF ReceiveMessage
  <2>2. d \in CommandsOn(from_peer) /\ UNCHANGED pool
    BY <1>5, <2>0, <2>1
  <2>3. ~IsDelivered(d)
    BY <2>0, <2>1, <2>2 DEF IDelivered
  <2>4. SameAnswers(AckSession)
    BY <2>1, <2>2, AnswersSame DEF SamePackets
  <2> QED
    BY <2>0, <2>1, <2>3, <2>4, DeliveredNow
<1>7. CASE ReceiveFirst \/ ReceiveNew
  <2>0. PICK d, i : d = Arrived /\ i = d.session_id
    OBVIOUS
  <2>1. /\ CommandArrives /\ i # 0 /\ Deliver(Arrived)
        /\ Status(i) = "IDLE" \/ (Status(i) = "USING" /\ StoredAnswer(i).seq_num # d.seq_num)
    BY <1>7, <2>0 DEF ReceiveFirst, ReceiveNew
  <2>2. d \in Ongoing /\ i # 1 /\ i \in AckSession /\ UNCHANGED pool
    BY <1>5, <2>0, <2>1
  <2>3. SetProcess(i)
    <3>1. i > 1
      BY <2>1, <2>2, Sessions DEF AckSession
    <3> QED
      BY <1>7, <2>0, <3>1 DEF ReceiveFirst, ReceiveNew
  <2>4. ~IsDelivered(d)
    BY <2>0, <2>1, <2>2 DEF IDelivered, Remembered
  <2>5. SameAnswers(AckSession \ {i}) /\ Status(i)' = "PROCESS"
    BY <2>2, <2>3, SetProcessStores
  <2>6. Status(i) # "PROCESS"
    BY <2>1
  <2> QED
    BY <2>0, <2>1, <2>4, <2>5, <2>6, DeliveredNow
<1>8. CASE ReceiveBusy \/ ReceiveRepeated
  <2>1. CommandArrives /\ UNCHANGED <<ack_session_table, delivered, inbox>>
    BY <1>8 DEF ReceiveBusy, ReceiveRepeated
  <2>2. UNCHANGED pool
    BY <2>1 DEF CommandArrives
  <2>3. SameAnswers(AckSession)
    BY <2>1, <2>2, AnswersSame DEF SamePackets
  <2> QED
    BY <1>1, <2>1, <2>3, DeliveredStays
<1>9. ASSUME \/ \E mode \in SendModes : SendCMD(mode)
             \/ PackAndSend
             \/ \E i \in AckSession : Timeout(i)
             \/ \E i \in AckSession : PollCheck(i)
             \/ PollGiveUp \/ PollResend \/ ReceiveAck \/ CompleteSession
             \/ PeerReceive
             \/ \E p \in Peers, i \in PeerSessions : PeerCommand(p, i)
             \/ \E p \in Peers : PeerRepeat(p),
             \A k \in DOMAIN inbox : ~SendACK(k)
      PROVE  IDelivered'
  <2>1. UNCHANGED <<ack_session_table, delivered, inbox>>
    BY <1>9 DEF SendCMD, PackAndSend, Timeout, PollCheck, PollGiveUp, PollResend, ReceiveAck,
                CompleteSession, PeerReceive, PeerCommand, PeerRepeat, tables, counts
  <2> QED
    BY <1>3, <1>9, <2>1
<1>10. CASE ~UNCHANGED vars
  <2>1. Next /\ ~RefusedInOne
    BY <1>10
  <2>2. CASE \E k \in DOMAIN inbox : SendACK(k)
    BY <1>2, <2>1, <2>2
  <2>3. CASE \A k \in DOMAIN inbox : ~SendACK(k)
    BY <1>6, <1>7, <1>8, <1>9, <2>1, <2>3 DEF Next
  <2> QED
    BY <2>2, <2>3
<1> QED
  BY <1>4, <1>10

LEMMA AlwaysLine == OnePeer => (Spec => []ILine)
<1> SUFFICES ASSUME OnePeer PROVE Spec => []ILine
  OBVIOUS
<1>1. ITyped /\ ILine /\ [Next]_vars => ILine'
  BY NextLine
<1> QED
  BY <1>1, InitLine, AlwaysTyped, PTL DEF Spec

(* A peer that avoids session 1 never has an answer of it refused.          *)
IAvoided ==
    /\ \A p \in Peers : peer[p] = NoPacket \/ peer[p].session_id # 1
    /\ \A k \in DOMAIN from_peer : from_peer[k].is_ack \/ from_peer[k].session_id # 1
    /\ \A k \in DOMAIN inbox : inbox[k].session_id # 1

LEMMA NextAvoided == PeerAvoidsOne /\ ITyped /\ IAvoided /\ [Next]_vars => IAvoided'
<1> SUFFICES ASSUME PeerAvoidsOne, ITyped, IAvoided, [Next]_vars PROVE IAvoided'
  OBVIOUS
<1>t. /\ inbox \in Seq(InSession) /\ from_peer \in Seq(Incoming)
      /\ peer \in [Peers -> PacketType]
  BY DEF ITyped
<1>1. ASSUME from_peer # << >>, from_peer' = Tail(from_peer)
      PROVE  /\ \A k \in DOMAIN from_peer' : from_peer'[k].is_ack \/ from_peer'[k].session_id # 1
             /\ Head(from_peer).is_ack \/ Head(from_peer).session_id # 1
  <2>1. /\ 1 \in DOMAIN from_peer /\ Head(from_peer) = from_peer[1]
        /\ \A k \in DOMAIN from_peer' : k + 1 \in DOMAIN from_peer /\ from_peer'[k] = from_peer[k + 1]
    BY <1>t, <1>1
  <2> QED
    BY <2>1 DEF IAvoided
<1>2. ASSUME NEW x \in Incoming, x.is_ack \/ x.session_id # 1,
             from_peer' = from_peer \/ from_peer' = Append(from_peer, x)
      PROVE  \A k \in DOMAIN from_peer' : from_peer'[k].is_ack \/ from_peer'[k].session_id # 1
  <2>1. \A k \in DOMAIN from_peer' : from_peer'[k] = x \/ (k \in DOMAIN from_peer /\ from_peer'[k] = from_peer[k])
    BY <1>t, <1>2
  <2> QED
    BY <1>2, <2>1 DEF IAvoided
<1>3. CASE UNCHANGED <<peer, from_peer, inbox>>
  BY <1>3 DEF IAvoided
<1>4. CASE ReceiveAck
  BY <1>1, <1>4 DEF ReceiveAck, IAvoided
<1>5. CASE ReceiveMessage \/ ReceiveFirst \/ ReceiveBusy \/ ReceiveRepeated \/ ReceiveNew
  <2>1. CommandArrives /\ (inbox' = inbox \/ Deliver(Arrived))
    BY <1>5 DEF ReceiveMessage, ReceiveFirst, ReceiveBusy, ReceiveRepeated, ReceiveNew
  <2>2. /\ UNCHANGED peer /\ ~Arrived.is_ack
        /\ from_peer # << >> /\ from_peer' = Tail(from_peer) /\ Arrived = Head(from_peer)
    BY <2>1 DEF CommandArrives, Arrived
  <2>3. inbox' = inbox \/ inbox' = Append(inbox, Arrived)
    BY <2>1 DEF Deliver
  <2>4. Arrived.session_id # 1
    BY <1>1, <2>2
  <2>5. \A k \in DOMAIN inbox' : inbox'[k] = Arrived \/ (k \in DOMAIN inbox /\ inbox'[k] = inbox[k])
    BY <1>t, <2>3
  <2> QED
    BY <1>1, <2>2, <2>4, <2>5 DEF IAvoided
<1>6. ASSUME NEW k \in DOMAIN inbox, SendACK(k)
      PROVE  IAvoided'
  <2>1. \A m \in DOMAIN inbox' : \E n \in DOMAIN inbox : inbox'[m] = inbox[n]
    BY <1>6, AnswerEffect
  <2>2. UNCHANGED <<peer, from_peer>>
    BY <1>6 DEF SendACK
  <2> QED
    BY <2>1, <2>2 DEF IAvoided
<1>7. CASE PeerReceive
  <2>1. UNCHANGED <<peer, inbox>> /\ to_peer # << >>
    BY <1>7 DEF PeerReceive, tables
  <2>2. PICK p : p = Head(to_peer)
    OBVIOUS
  <2>3. p \in PacketType
    BY <2>1, <2>2, HeadTailProperties DEF ITyped
  <2>4. PICK a : a = Packet(TRUE, p.session_id, p.seq_num, p.receiver, Local, p.number)
    OBVIOUS
  <2>5. from_peer' = from_peer \/ (p.session_id # 0 /\ from_peer' = Wire(from_peer, a))
    BY <1>7, <2>2, <2>4 DEF PeerReceive
  <2>6. a \in PacketType /\ a.is_ack /\ a.session_id = p.session_id
    BY <2>3, <2>4 DEF Packet, PacketType
  <2>7. from_peer' = from_peer \/ (a \in Incoming /\ from_peer' = Append(from_peer, a))
    BY <2>5, <2>6 DEF Wire, Incoming
  <2> QED
    BY <1>2, <2>1, <2>6, <2>7 DEF IAvoided
<1>8. ASSUME NEW p \in Peers, NEW i \in PeerSessions, PeerCommand(p, i)
      PROVE  IAvoided'
  <2>1. PICK seq : peer' = [peer EXCEPT ![p] = Packet(FALSE, i, seq, p, Local, commands')]
    BY <1>8 DEF PeerCommand
  <2>2. PICK c : c = Packet(FALSE, i, seq, p, Local, commands')
    OBVIOUS
  <2>3. peer' = [peer EXCEPT ![p] = c] /\ peer'[p] = c
    BY <1>t, <2>1, <2>2
  <2>4. c.session_id = i /\ ~c.is_ack /\ i # 1
    BY <2>2 DEF Packet, PeerAvoidsOne
  <2>5. from_peer' = from_peer \/ from_peer' = Append(from_peer, c)
    BY <1>8, <2>3 DEF PeerCommand, Wire
  <2>6. c \in Incoming
    <3>1. ITyped'
      BY ITypedNext
    <3>2. peer'[p] \in PacketType
      BY <3>1 DEF ITyped
    <3> QED
      BY <2>3, <2>4, <3>2 DEF Incoming
  <2>7. UNCHANGED inbox
    BY <1>8 DEF PeerCommand
  <2>8. \A q \in Peers : peer'[q] = NoPacket \/ peer'[q].session_id # 1
    BY <1>t, <2>3, <2>4 DEF IAvoided
  <2> QED
    BY <1>2, <2>4, <2>5, <2>6, <2>7, <2>8 DEF IAvoided
<1>9. ASSUME NEW p \in Peers, PeerRepeat(p)
      PROVE  IAvoided'
  <2>1. /\ UNCHANGED <<peer, inbox>> /\ peer[p].session_id # 0
        /\ from_peer' = Append(from_peer, peer[p])
    BY <1>9 DEF PeerRepeat
  <2>2. peer[p].session_id # 1
    BY <2>1, Devices DEF IAvoided
  <2>3. peer[p] \in Incoming
    BY <1>t, <2>1 DEF Incoming
  <2> QED
    BY <1>2, <2>1, <2>2, <2>3 DEF IAvoided
<1>10. CASE \/ UNCHANGED vars
            \/ \E mode \in SendModes : SendCMD(mode)
            \/ PackAndSend
            \/ \E i \in AckSession : Timeout(i)
            \/ \E i \in AckSession : PollCheck(i)
            \/ PollGiveUp \/ PollResend \/ CompleteSession
  BY <1>3, <1>10 DEF SendCMD, PackAndSend, Timeout, PollCheck, PollGiveUp, PollResend,
                     CompleteSession, vars, tables, line, counts
<1> QED
  BY <1>4, <1>5, <1>6, <1>7, <1>8, <1>9, <1>10 DEF Next

LEMMA OneIsAvoided == PeerAvoidsOne => (Spec => OneFindsMemory)
<1> SUFFICES ASSUME PeerAvoidsOne PROVE Spec => OneFindsMemory
  OBVIOUS
<1>1. Init => IAvoided
  BY DEF Init, IAvoided
<1>2. ITyped /\ IAvoided /\ [Next]_vars => IAvoided'
  BY NextAvoided
<1>3. IAvoided => [~RefusedInOne]_vars
  BY DEF IAvoided, RefusedInOne
<1> QED
  BY <1>1, <1>2, <1>3, AlwaysTyped, PTL DEF Spec, OneFindsMemory

(* Every session finds its packet, however scarce the memory, as long as no *)
(* peer sends in session 1.                                                 *)
THEOREM ScarcePacketsStayKept == PeerAvoidsOne => (Spec => []PacketsKept)
BY OneIsAvoided, PacketsStayKept

(* A command of a peer reaches the application at most once, however often  *)
(* the peer repeats it, whenever the answer is sent, and also when the      *)
(* memory refuses it; for one peer, and not in session 1.                   *)
THEOREM CommandsDeliveredOnce ==
    OnePeer /\ PeerAvoidsOne => (Spec => []DeliveredOnce)
<1> SUFFICES ASSUME OnePeer, PeerAvoidsOne PROVE Spec => []DeliveredOnce
  OBVIOUS
<1>1. IDelivered => DeliveredOnce
  BY DEF IDelivered, DeliveredOnce
<1>2. /\ ITyped /\ IOwed /\ IKept /\ ILine /\ ILine' /\ IDelivered
      /\ [Next]_vars /\ [~RefusedInOne]_vars
      => IDelivered'
  BY NextDelivered
<1>3. Spec => []ILine
  BY AlwaysLine
<1>4. Spec => OneFindsMemory
  BY OneIsAvoided
<1> QED
  BY <1>1, <1>2, <1>3, <1>4, InitDelivered, AlwaysTyped, AlwaysOwed, AlwaysKept, PTL
  DEF Spec, OneFindsMemory

-----------------------------------------------------------------------------
(* The commands that the devices have made, and whose answers are stored.   *)

Made(c) == \E p \in Peers : \E k \in DOMAIN issued[p] : issued[p][k] = c

AnswersOne(a, i) ==
    \E p \in Peers : \E k \in DOMAIN issued[p] :
      /\ a.number = issued[p][k].number
      /\ issued[p][k].session_id = i /\ issued[p][k].seq_num = a.seq_num

(* Numbers that have not come around have grown.                            *)
Rising(s) ==
    \A k, l \in DOMAIN s : k < l /\ (\A m \in k + 1 .. l : s[m].seq_num # 0)
                             => s[k].seq_num < s[l].seq_num

Numbered(p) ==
    /\ IF issued[p] = << >> THEN peer[p] = NoPacket ELSE peer[p] = issued[p][Len(issued[p])]
    /\ \A k \in DOMAIN issued[p] : issued[p][k].sender = p /\ issued[p][k].number # 0
    /\ Rising(issued[p])

IIssued ==
    /\ IssuedTyped
    /\ \A p \in Peers : Numbered(p)
    /\ \A c \in CommandsOn(from_peer) : Made(c)
    /\ \A k \in DOMAIN inbox : Made(inbox[k])
    /\ \A i \in AckSession : Status(i) = "USING" => AnswersOne(StoredAnswer(i), i)

LEMMA InitNumbered == Init => IIssued
<1> SUFFICES ASSUME Init PROVE IIssued
  OBVIOUS
<1>1. DOMAIN from_peer = {} /\ DOMAIN inbox = {}
  BY DEF Init
<1>2. CommandsOn(from_peer) = {}
  BY <1>1 DEF CommandsOn
<1>3. \A i \in AckSession : Status(i) # "USING"
  BY DEF Init, Status
<1>4. \A p \in Peers : peer[p] = NoPacket /\ issued[p] = << >>
  BY DEF Init
<1>5. \A p \in Peers : Numbered(p)
  BY <1>4 DEF Numbered, Rising
<1>6. IssuedTyped
  BY DEF Init, IssuedTyped
<1> QED
  BY <1>1, <1>2, <1>3, <1>5, <1>6 DEF IIssued

(* The line, whatever its order.                                            *)
LEMMA FewerCommands ==
    ASSUME NEW S, NEW q \in Seq(S), q # << >>
    PROVE  /\ CommandsOn(Tail(q)) \subseteq CommandsOn(q)
           /\ ~Head(q).is_ack => Head(q) \in CommandsOn(q)
<1> DEFINE t == Tail(q)
<1>1. /\ DOMAIN q = 1 .. Len(q) /\ Len(q) \in Nat /\ Len(q) >= 1
      /\ DOMAIN t = 1 .. Len(q) - 1 /\ Head(q) = q[1]
      /\ \A k \in 1 .. Len(q) - 1 : t[k] = q[k + 1]
  OBVIOUS
<1> HIDE DEF t
<1>2. \A k \in DOMAIN t : k + 1 \in DOMAIN q /\ t[k] = q[k + 1]
  BY <1>1
<1>3. CommandsOn(t) \subseteq CommandsOn(q)
  BY <1>2 DEF CommandsOn
<1>4. 1 \in DOMAIN q
  BY <1>1
<1> QED
  BY <1>1, <1>3, <1>4 DEF CommandsOn, t

LEMMA MoreCommands ==
    ASSUME NEW S, NEW q \in Seq(S), NEW x \in S, NEW t, t = q \/ t = Append(q, x)
    PROVE  \A c \in CommandsOn(t) : c \in CommandsOn(q) \/ (c = x /\ ~x.is_ack)
<1>1. \A k \in DOMAIN t : t[k] = x \/ (k \in DOMAIN q /\ t[k] = q[k])
  OBVIOUS
<1> QED
  BY <1>1 DEF CommandsOn

(* What is written down stays.                                              *)
Grows == \A p \in Peers : \A k \in DOMAIN issued[p] :
           k \in DOMAIN issued'[p] /\ issued'[p][k] = issued[p][k]

LEMMA StillMade ==
    ASSUME Grows
    PROVE  /\ \A c : Made(c) => Made(c)'
           /\ \A a, i : AnswersOne(a, i) => AnswersOne(a, i)'
BY DEF Grows, Made, AnswersOne

(* A device makes a command.                                                *)
LEMMA CommandMade ==
    ASSUME ITyped, ITyped', IIssued, NEW p \in Peers, NEW i \in PeerSessions, PeerCommand(p, i),
           NEW new, new = peer'[p]
    PROVE  /\ Grows /\ IssuedTyped' /\ \A q \in Peers : Numbered(q)'
           /\ Made(new)' /\ new \in Incoming
<1> DEFINE seq == IF peer[p] = NoPacket THEN 0 ELSE (peer[p].seq_num + 1) % SeqWidth
<1>1. /\ commands' = commands + 1 /\ commands \in Nat
      /\ peer' = [peer EXCEPT ![p] = Packet(FALSE, i, seq, p, Local, commands')]
      /\ issued' = [issued EXCEPT ![p] = Append(issued[p], new)]
  BY DEF PeerCommand, ITyped
<1>2. peer \in [Peers -> PacketType] /\ issued \in [Peers -> Seq(PacketType)]
  BY DEF ITyped, IIssued, IssuedTyped
<1>3. new = Packet(FALSE, i, seq, p, Local, commands') /\ new \in PacketType
  BY <1>1, <1>2 DEF ITyped
<1>4. new.sender = p /\ new.number = commands + 1 /\ ~new.is_ack /\ new.seq_num = seq
  BY <1>1, <1>3 DEF Packet
<1>5. PICK s, t : s = issued[p] /\ t = issued'[p]
  OBVIOUS
<1>6. /\ s \in Seq(PacketType) /\ t = Append(s, new)
      /\ \A q \in Peers \ {p} : issued'[q] = issued[q] /\ peer'[q] = peer[q]
  BY <1>1, <1>2, <1>5
<1>7. /\ Len(s) \in Nat /\ DOMAIN s = 1 .. Len(s) /\ Len(t) = Len(s) + 1
      /\ DOMAIN t = 1 .. Len(s) + 1 /\ t # << >>
      /\ t[Len(s) + 1] = new /\ \A k \in 1 .. Len(s) : t[k] = s[k]
  <2>1. PICK x : x = new
    OBVIOUS
  <2>2. x \in PacketType /\ s \in Seq(PacketType) /\ t = Append(s, x)
    BY <1>3, <1>6, <2>1
  <2>3. /\ Len(s) \in Nat /\ DOMAIN s = 1 .. Len(s) /\ Len(t) = Len(s) + 1
        /\ DOMAIN t = 1 .. Len(s) + 1 /\ t # << >>
        /\ t[Len(s) + 1] = x /\ \A k \in 1 .. Len(s) : t[k] = s[k]
    BY <2>2
  <2> QED
    BY <2>1, <2>3
<1>8. Numbered(p)
  BY DEF IIssued
<1>9. Grows
  <2>1. ASSUME NEW q \in Peers, NEW k \in DOMAIN issued[q]
        PROVE  k \in DOMAIN issued'[q] /\ issued'[q][k] = issued[q][k]
    <3>1. CASE q = p
      <4>1. k \in DOMAIN s
        BY <1>5, <2>1, <3>1
      <4>2. k \in DOMAIN t /\ t[k] = s[k]
        BY <1>7, <4>1
      <4> QED
        BY <1>5, <3>1, <4>2
    <3>2. CASE q # p
      BY <1>6, <2>1, <3>2
    <3> QED
      BY <3>1, <3>2
  <2> QED
    BY <2>1 DEF Grows
<1>10. IssuedTyped'
  <2>1. PICK x : x = new
    OBVIOUS
  <2>2. x \in PacketType /\ issued' = [issued EXCEPT ![p] = Append(issued[p], x)]
    BY <1>1, <1>3, <2>1
  <2>3. issued' \in [Peers -> Seq(PacketType)]
    BY <1>2, <2>2
  <2> QED
    BY <2>3 DEF IssuedTyped
<1>11. ASSUME s # << >>, seq # 0
       PROVE  s[Len(s)].seq_num < seq
  <2>1. peer[p] = s[Len(s)] /\ s[Len(s)] \in PacketType
    <3>1. Len(s) \in DOMAIN s
      BY <1>6, <1>7, <1>11
    <3> QED
      BY <1>5, <1>6, <1>8, <1>11, <3>1 DEF Numbered
  <2>2. PICK last : last = s[Len(s)].seq_num
    OBVIOUS
  <2>3. last \in Nat /\ last <= SeqWidth - 1 /\ SeqWidth \in Nat /\ SeqWidth > 1
    BY <2>1, <2>2, ProtocolAssumption DEF PacketType, Seq_num
  <2>4. seq = (last + 1) % SeqWidth
    BY <1>11, <2>1, <2>2
  <2>5. CASE last + 1 = SeqWidth
    <3>1. SeqWidth % SeqWidth = 0
      BY <2>3
    <3> QED
      BY <1>11, <2>4, <2>5, <3>1
  <2>6. CASE last + 1 < SeqWidth
    <3>1. (last + 1) % SeqWidth = last + 1
      BY <2>3, <2>6
    <3> QED
      BY <2>2, <2>3, <2>4, <3>1
  <2> QED
    BY <2>3, <2>5, <2>6
<1> HIDE DEF seq
<1>12. Rising(t)
  <2>1. PICK n : n = Len(s) + 1
    OBVIOUS
  <2>2. ASSUME NEW k \in DOMAIN t, NEW l \in DOMAIN t, k < l, \A m \in k + 1 .. l : t[m].seq_num # 0
        PROVE  t[k].seq_num < t[l].seq_num
    <3>0. k \in Nat /\ l \in Nat /\ k >= 1 /\ l <= n /\ n \in Nat
      BY <1>7, <2>1
    <3>1. k \in DOMAIN s /\ t[k] = s[k] /\ k <= Len(s)
      BY <1>7, <2>1, <2>2, <3>0
    <3>2. Rising(s)
      BY <1>5, <1>8 DEF Numbered
    <3>3. CASE l <= Len(s)
      <4>1. l \in DOMAIN s /\ t[l] = s[l]
        BY <1>7, <3>0, <3>3
      <4>2. \A m \in k + 1 .. l : s[m].seq_num # 0
        BY <1>7, <2>2, <3>0, <3>3
      <4> QED
        BY <2>2, <3>1, <3>2, <4>1, <4>2 DEF Rising
    <3>4. CASE l = n
      <4>1. t[l] = new /\ t[l].seq_num # 0
        BY <1>7, <2>1, <2>2, <3>0, <3>4
      <4>2. s # << >> /\ Len(s) \in DOMAIN s
        BY <1>7, <3>1, <3>0
      <4>3. s[Len(s)].seq_num < seq
        BY <1>4, <1>11, <4>1, <4>2
      <4>4. k = Len(s) \/ s[k].seq_num < s[Len(s)].seq_num
        <5>1. \A m \in k + 1 .. Len(s) : s[m].seq_num # 0
          BY <1>7, <2>1, <2>2, <3>0, <3>4
        <5>2. CASE k < Len(s)
          BY <3>1, <3>2, <4>2, <5>1, <5>2 DEF Rising
        <5> QED
          BY <1>7, <3>0, <3>1, <5>2
      <4>5. s[k].seq_num \in Int /\ s[Len(s)].seq_num \in Int /\ seq \in Int
        <5>1. s[k] \in PacketType /\ s[Len(s)] \in PacketType
          BY <1>6, <3>1, <4>2
        <5>2. \A c \in PacketType : c.seq_num \in Int
          BY ProtocolAssumption DEF PacketType, Seq_num
        <5> QED
          BY <1>3, <1>4, <5>1, <5>2
      <4> QED
        BY <1>4, <3>1, <4>1, <4>3, <4>4, <4>5
    <3> QED
      BY <1>7, <2>1, <3>0, <3>3, <3>4
  <2> QED
    BY <2>2 DEF Rising
<1>13. Numbered(p)'
  <2>1. peer'[p] = t[Len(t)]
    BY <1>7
  <2>2. \A k \in DOMAIN t : t[k].sender = p /\ t[k].number # 0
    <3>1. new.number # 0
      <4>1. commands + 1 # 0
        BY <1>1
      <4> QED
        BY <1>4, <4>1
    <3>2. \A k \in 1 .. Len(s) : s[k].sender = p /\ s[k].number # 0
      BY <1>5, <1>7, <1>8 DEF Numbered
    <3> QED
      BY <1>4, <1>7, <3>1, <3>2
  <2> QED
    BY <1>5, <1>7, <1>12, <2>1, <2>2 DEF Numbered
<1>14. \A q \in Peers : Numbered(q)'
  <2>1. ASSUME NEW q \in Peers \ {p}
        PROVE  Numbered(q)'
    BY <1>6 DEF IIssued, Numbered
  <2> QED
    BY <1>13, <2>1
<1>15. Made(new)'
  <2>1. Len(s) + 1 \in DOMAIN t
    BY <1>7
  <2> QED
    BY <1>5, <1>7, <2>1 DEF Made
<1>16. new \in Incoming
  BY <1>3, <1>4 DEF Incoming
<1> QED
  BY <1>9, <1>10, <1>14, <1>15, <1>16

(* In every other step the devices' commands stay.                          *)
LEMMA NothingMade ==
    ASSUME IIssued, UNCHANGED <<issued, peer>>
    PROVE  Grows /\ IssuedTyped' /\ \A q \in Peers : Numbered(q)'
<1>1. Grows
  BY DEF Grows
<1>2. IssuedTyped'
  BY DEF IIssued, IssuedTyped
<1>3. ASSUME NEW q \in Peers
      PROVE  Numbered(q)'
  BY DEF IIssued, Numbered
<1> QED
  BY <1>1, <1>2, <1>3

(* What comes over the line has been made.                                  *)
LEMMA LineMade ==
    ASSUME ITyped, ITyped', IIssued, [Next]_vars, Grows
    PROVE  \A c \in CommandsOn(from_peer') : Made(c)'
<1>1. from_peer \in Seq(Incoming)
  BY DEF ITyped
<1>2. ASSUME CommandsOn(from_peer') \subseteq CommandsOn(from_peer)
      PROVE  \A c \in CommandsOn(from_peer') : Made(c)'
  BY <1>2, StillMade DEF IIssued
<1>3. ASSUME from_peer # << >>, from_peer' = Tail(from_peer)
      PROVE  \A c \in CommandsOn(from_peer') : Made(c)'
  BY <1>1, <1>2, <1>3, FewerCommands
<1>4. ASSUME NEW p \in Peers, NEW i \in PeerSessions, PeerCommand(p, i)
      PROVE  \A c \in CommandsOn(from_peer') : Made(c)'
  <2>1. PICK new : new = peer'[p]
    OBVIOUS
  <2>2. Made(new)' /\ new \in Incoming
    BY <1>4, <2>1, CommandMade
  <2>3. from_peer' = from_peer \/ from_peer' = Append(from_peer, new)
    BY <1>4, <2>1 DEF PeerCommand, Wire
  <2>4. \A c \in CommandsOn(from_peer') : c \in CommandsOn(from_peer) \/ c = new
    BY <1>1, <2>2, <2>3, MoreCommands
  <2> QED
    BY <2>2, <2>4, StillMade DEF IIssued
<1>5. ASSUME NEW p \in Peers, PeerRepeat(p)
      PROVE  \A c \in CommandsOn(from_peer') : Made(c)'
  <2>1. PICK old : old = peer[p]
    OBVIOUS
  <2>2. from_peer' = Append(from_peer, old) /\ old.session_id # 0
    BY <1>5, <2>1 DEF PeerRepeat
  <2>3. Numbered(p) /\ issued[p] \in Seq(PacketType)
    BY DEF IIssued, IssuedTyped
  <2>4. Made(old) /\ old \in Incoming
    <3>1. issued[p] # << >>
      BY <2>1, <2>2, <2>3, Devices DEF Numbered
    <3>2. Len(issued[p]) \in DOMAIN issued[p] /\ old = issued[p][Len(issued[p])]
      BY <2>1, <2>3, <3>1 DEF Numbered
    <3>3. Made(old)
      BY <3>2 DEF Made
    <3>4. old \in PacketType
      BY <2>1 DEF ITyped
    <3> QED
      BY <2>2, <3>3, <3>4 DEF Incoming
  <2>5. \A c \in CommandsOn(from_peer') : c \in CommandsOn(from_peer) \/ c = old
    BY <1>1, <2>2, <2>4, MoreCommands
  <2> QED
    BY <2>4, <2>5, StillMade DEF IIssued
<1>6. CASE PeerReceive
  <2>1. PICK x : x = Packet(TRUE, Head(to_peer).session_id, Head(to_peer).seq_num,
                            Head(to_peer).receiver, Local, Head(to_peer).number)
    OBVIOUS
  <2>2. CASE from_peer' = from_peer
    BY <1>2, <2>2
  <2>3. CASE from_peer' = Append(from_peer, x)
    <3>1. x.is_ack
      BY <2>1 DEF Packet
    <3>2. /\ DOMAIN from_peer' = 1 .. Len(from_peer) + 1 /\ Len(from_peer) \in Nat
          /\ DOMAIN from_peer = 1 .. Len(from_peer)
          /\ from_peer'[Len(from_peer) + 1] = x
          /\ \A k \in 1 .. Len(from_peer) : from_peer'[k] = from_peer[k]
      BY <1>1, <2>3
    <3>3. ASSUME NEW c \in CommandsOn(from_peer')
          PROVE  c \in CommandsOn(from_peer)
      <4>1. PICK k \in DOMAIN from_peer' : c = from_peer'[k] /\ ~from_peer'[k].is_ack
        BY DEF CommandsOn
      <4>2. k # Len(from_peer) + 1
        BY <3>1, <3>2, <4>1
      <4>3. k \in DOMAIN from_peer /\ from_peer'[k] = from_peer[k]
        BY <3>2, <4>1, <4>2
      <4> QED
        BY <4>1, <4>3 DEF CommandsOn
    <3> QED
      BY <1>2, <3>3
  <2> QED
    BY <1>6, <2>1, <2>2, <2>3 DEF PeerReceive, Wire
<1>7. CASE ReceiveMessage \/ ReceiveFirst \/ ReceiveBusy \/ ReceiveRepeated \/ ReceiveNew \/ ReceiveAck
  BY <1>3, <1>7 DEF ReceiveMessage, ReceiveFirst, ReceiveBusy, ReceiveRepeated, ReceiveNew,
                    CommandArrives, ReceiveAck
<1>8. CASE UNCHANGED from_peer
  BY <1>2, <1>8
<1>9. ASSUME \/ \E mode \in SendModes : SendCMD(mode)
             \/ PackAndSend
             \/ \E k \in DOMAIN inbox : SendACK(k)
             \/ \E i \in AckSession : Timeout(i)
             \/ \E i \in AckSession : PollCheck(i)
             \/ PollGiveUp \/ PollResend \/ CompleteSession
             \/ UNCHANGED vars
      PROVE  UNCHANGED from_peer
  BY <1>9 DEF SendCMD, PackAndSend, SendACK, Timeout, PollCheck, PollGiveUp, PollResend,
              CompleteSession, vars, line
<1> QED
  BY <1>4, <1>5, <1>6, <1>7, <1>8, <1>9 DEF Next

(* What waits in the inbox has been made, and what is stored answers one.   *)
LEMMA RestMade ==
    ASSUME ITyped, IOwed, IKept, IIssued, [Next]_vars, [~RefusedInOne]_vars, Grows
    PROVE  /\ \A k \in DOMAIN inbox' : Made(inbox[k])'
           /\ \A i \in AckSession : Status(i)' = "USING" => AnswersOne(StoredAnswer(i), i)'
<1> DEFINE InboxMade == \A k \in DOMAIN inbox' : Made(inbox[k])'
           AnswersMade == \A i \in AckSession :
                            Status(i)' = "USING" => AnswersOne(StoredAnswer(i), i)'
<1>1. ASSUME NEW K, SameAnswers(K), NEW i \in K \cap AckSession, Status(i)' = "USING"
      PROVE  AnswersOne(StoredAnswer(i), i)'
  <2>1. PICK a : a = StoredAnswer(i) /\ a = StoredAnswer(i)' /\ Status(i) = "USING"
    BY <1>1 DEF SameAnswers
  <2>2. AnswersOne(a, i)
    BY <2>1 DEF IIssued
  <2>3. AnswersOne(a, i)'
    BY <2>2, StillMade
  <2> QED
    BY <2>1, <2>3 DEF AnswersOne
<1>2. ASSUME inbox' = inbox
      PROVE  InboxMade
  BY <1>2, StillMade DEF IIssued
<1>3. ASSUME SameAnswers(AckSession)
      PROVE  AnswersMade
  BY <1>1, <1>3
<1>4. ASSUME NEW k \in DOMAIN inbox, SendACK(k), ~RefusedInOne
      PROVE  InboxMade /\ AnswersMade
  <2>0. PICK o, i : o = inbox[k] /\ i = o.session_id
    OBVIOUS
  <2>1. /\ SameAnswers(AckSession \ {i}) /\ i \in AckSession
        /\ Status(i)' = "USING" => StoredAnswer(i)' = AnswerTo(o)
        /\ AnswerTo(o).seq_num = o.seq_num /\ AnswerTo(o).number = o.number
    BY <1>4, <2>0, AckStores
  <2>2. inbox' = RemoveAt(inbox, k)
    BY <1>4 DEF SendACK
  <2>3. ASSUME NEW m \in DOMAIN inbox'
        PROVE  \E n \in DOMAIN inbox : inbox'[m] = inbox[n]
    BY <2>2, RemoveAtWorks DEF ITyped
  <2>4. InboxMade
    BY <2>3, StillMade DEF IIssued
  <2>5. PICK a : a = AnswerTo(o)
    OBVIOUS
  <2>6. AnswersOne(a, i)'
    <3>1. Made(o)
      BY <2>0 DEF IIssued
    <3>2. AnswersOne(a, i)
      BY <2>0, <2>1, <2>5, <3>1 DEF Made, AnswersOne
    <3> QED
      BY <3>2, StillMade
  <2>7. ASSUME NEW j \in AckSession, Status(j)' = "USING"
        PROVE  AnswersOne(StoredAnswer(j), j)'
    <3>1. CASE j = i
      <4>1. StoredAnswer(j)' = a
        BY <2>1, <2>5, <2>7, <3>1
      <4> QED
        BY <2>6, <3>1, <4>1 DEF AnswersOne
    <3>2. CASE j # i
      BY <1>1, <2>1, <2>7, <3>2
    <3> QED
      BY <3>1, <3>2
  <2> QED
    BY <2>4, <2>7
<1>5. ASSUME UNCHANGED <<ack_session_table, inbox>>, \A k \in DOMAIN inbox : ~SendACK(k)
      PROVE  InboxMade /\ AnswersMade
  BY <1>2, <1>3, <1>5, AnswersSameNext
<1>6. ASSUME UNCHANGED vars
      PROVE  InboxMade /\ AnswersMade
  <2>1. UNCHANGED <<ack_session_table, inbox, pool>>
    BY <1>6 DEF vars, tables
  <2>2. SameAnswers(AckSession)
    BY <2>1, AnswersSame DEF SamePackets
  <2> QED
    BY <1>2, <1>3, <2>1, <2>2
<1>7. ASSUME ReceiveMessage \/ ReceiveFirst \/ ReceiveBusy \/ ReceiveRepeated \/ ReceiveNew
      PROVE  InboxMade /\ AnswersMade
  <2>0. PICK d, i : d = Arrived /\ i = d.session_id
    OBVIOUS
  <2>1. /\ CommandArrives
        /\ (inbox' = inbox \/ Deliver(d))
        /\ (UNCHANGED ack_session_table \/ (i # 0 /\ SetProcess(i)))
    BY <1>7, <2>0 DEF ReceiveMessage, ReceiveFirst, ReceiveBusy, ReceiveRepeated, ReceiveNew
  <2>2. d \in CommandsOn(from_peer) /\ d \in Incoming /\ UNCHANGED pool
    BY <2>0, <2>1, FewerCommands, HeadTailProperties DEF CommandArrives, Arrived, ITyped
  <2>3. i # 0 => i \in AckSession
    BY <2>0, <2>2, Sessions DEF Incoming, PacketType
  <2>4. Made(d)'
    BY <2>2, StillMade DEF IIssued
  <2>5. inbox' = inbox \/ inbox' = Append(inbox, d)
    BY <2>1 DEF Deliver
  <2>6. InboxMade
    <3>1. CASE inbox' = inbox
      BY <1>2, <3>1
    <3>2. CASE inbox' = Append(inbox, d)
      <4>1. \A m \in DOMAIN inbox' : inbox'[m] = d \/ (m \in DOMAIN inbox /\ inbox'[m] = inbox[m])
        BY <3>2 DEF ITyped
      <4> QED
        BY <2>4, <4>1, StillMade DEF IIssued
    <3> QED
      BY <2>5, <3>1, <3>2
  <2>7. ASSUME NEW j \in AckSession, Status(j)' = "USING"
        PROVE  AnswersOne(StoredAnswer(j), j)'
    <3>1. CASE UNCHANGED ack_session_table
      <4>1. SameAnswers(AckSession)
        BY <2>2, <3>1, AnswersSame DEF SamePackets
      <4> QED
        BY <1>3, <2>7, <4>1
    <3>2. CASE i # 0 /\ SetProcess(i)
      <4>1. SameAnswers(AckSession \ {i}) /\ Status(i)' = "PROCESS"
        BY <2>2, <2>3, <3>2, SetProcessStores
      <4>2. j # i
        BY <2>7, <4>1
      <4> QED
        BY <1>1, <2>7, <4>1, <4>2
    <3> QED
      BY <2>1, <3>1, <3>2
  <2> QED
    BY <2>6, <2>7
<1>8. ASSUME \/ \E mode \in SendModes : SendCMD(mode)
             \/ PackAndSend
             \/ \E i \in AckSession : Timeout(i)
             \/ \E i \in AckSession : PollCheck(i)
             \/ PollGiveUp \/ PollResend \/ ReceiveAck \/ CompleteSession
             \/ PeerReceive
             \/ \E p \in Peers, i \in PeerSessions : PeerCommand(p, i)
             \/ \E p \in Peers : PeerRepeat(p),
             \A k \in DOMAIN inbox : ~SendACK(k)
      PROVE  InboxMade /\ AnswersMade
  <2>1. UNCHANGED <<ack_session_table, inbox>>
    BY <1>8 DEF SendCMD, PackAndSend, Timeout, PollCheck, PollGiveUp, PollResend, ReceiveAck,
                CompleteSession, PeerReceive, PeerCommand, PeerRepeat, tables
  <2> QED
    BY <1>5, <1>8, <2>1
<1> HIDE DEF InboxMade, AnswersMade
<1>9. ASSUME ~UNCHANGED vars
      PROVE  InboxMade /\ AnswersMade
  <2>1. Next /\ ~RefusedInOne
    BY <1>9
  <2>2. CASE \E k \in DOMAIN inbox : SendACK(k)
    BY <1>4, <2>1, <2>2
  <2>3. ASSUME \A k \in DOMAIN inbox : ~SendACK(k)
        PROVE  InboxMade /\ AnswersMade
    <3>1. CASE ReceiveMessage \/ ReceiveFirst \/ ReceiveBusy \/ ReceiveRepeated \/ ReceiveNew
      BY <1>7, <3>1
    <3>2. CASE \/ \E mode \in SendModes : SendCMD(mode)
               \/ PackAndSend
               \/ \E i \in AckSession : Timeout(i)
               \/ \E i \in AckSession : PollCheck(i)
               \/ PollGiveUp \/ PollResend \/ ReceiveAck \/ CompleteSession
               \/ PeerReceive
               \/ \E p \in Peers, i \in PeerSessions : PeerCommand(p, i)
               \/ \E p \in Peers : PeerRepeat(p)
      BY <1>8, <2>3, <3>2
    <3> QED
      BY <2>1, <2>3, <3>1, <3>2 DEF Next
  <2> QED
    BY <2>2, <2>3
<1>10. InboxMade /\ AnswersMade
  BY <1>6, <1>9
<1> QED
  BY <1>10 DEF InboxMade, AnswersMade

LEMMA NextNumbered ==
    ITyped /\ ITyped' /\ IOwed /\ IKept /\ IIssued /\ [Next]_vars /\ [~RefusedInOne]_vars
    => IIssued'
<1> SUFFICES ASSUME ITyped, ITyped', IOwed, IKept, IIssued, [Next]_vars, [~RefusedInOne]_vars
             PROVE  IIssued'
  OBVIOUS
<1>1. Grows /\ IssuedTyped' /\ \A q \in Peers : Numbered(q)'
  <2>1. CASE UNCHANGED <<issued, peer>>
    BY <2>1, NothingMade
  <2>2. ASSUME NEW p \in Peers, NEW i \in PeerSessions, PeerCommand(p, i)
        PROVE  Grows /\ IssuedTyped' /\ \A q \in Peers : Numbered(q)'
    BY <2>2, CommandMade
  <2> QED
    BY <2>1, <2>2, IssuedSteps
<1>2. \A c \in CommandsOn(from_peer') : Made(c)'
  BY <1>1, LineMade
<1>3. /\ \A k \in DOMAIN inbox' : Made(inbox[k])'
      /\ \A i \in AckSession : Status(i)' = "USING" => AnswersOne(StoredAnswer(i), i)'
  BY <1>1, RestMade
<1> QED
  BY <1>1, <1>2, <1>3 DEF IIssued

(* Equal numbers of one device: a round lies between them.                  *)
LEMMA SameNumber ==
    ASSUME IIssued, NEW p \in Peers, NEW k \in DOMAIN issued[p], NEW l \in DOMAIN issued[p],
           issued[p][k].seq_num = issued[p][l].seq_num
    PROVE  l = k \/ CameAround(p, k, l)
<1>1. PICK s : s = issued[p]
  OBVIOUS
<1>2. s \in Seq(PacketType) /\ Rising(s)
  BY <1>1 DEF IIssued, IssuedTyped, Numbered
<1>3. /\ k \in Nat /\ l \in Nat /\ k >= 1 /\ l >= 1
      /\ DOMAIN s = 1 .. Len(s) /\ Len(s) \in Nat /\ k <= Len(s) /\ l <= Len(s)
  BY <1>1, <1>2
<1>4. s[k].seq_num \in Int /\ s[l].seq_num \in Int
  <2>1. s[k] \in PacketType /\ s[l] \in PacketType
    BY <1>1, <1>2
  <2>2. \A c \in PacketType : c.seq_num \in Int
    BY ProtocolAssumption DEF PacketType, Seq_num
  <2> QED
    BY <2>1, <2>2
<1>5. CASE k < l
  <2>1. PICK m \in k + 1 .. l : s[m].seq_num = 0
    BY <1>1, <1>2, <1>4, <1>5 DEF Rising
  <2>2. m \in DOMAIN s /\ k < m /\ m <= l
    BY <1>3, <2>1
  <2> QED
    BY <1>1, <2>1, <2>2 DEF CameAround
<1>6. CASE l < k
  <2>1. PICK m \in l + 1 .. k : s[m].seq_num = 0
    BY <1>1, <1>2, <1>4, <1>6 DEF Rising
  <2>2. m \in DOMAIN s /\ l < m /\ m <= k
    BY <1>3, <2>1
  <2> QED
    BY <1>1, <2>1, <2>2 DEF CameAround
<1> QED
  BY <1>3, <1>5, <1>6

(* The stored answer that is sent again is that of a command with the       *)
(* session and number it is sent for: of this command, of one its device    *)
(* made a round of numbers away, or of another device's.  For any number of *)
(* devices and commands, as long as no answer of session 1 is refused its   *)
(* memory.                                                                  *)
THEOREM RightAnswersRepeated == Spec /\ OneFindsMemory => RightAnswerRepeated
<1> DEFINE Right ==
      \E p \in Peers : \E k \in DOMAIN issued[p] :
        LET a == StoredAnswer(Arrived.session_id)
            c == issued[p][k]
        IN  /\ a.number = c.number
            /\ c.session_id = Arrived.session_id /\ c.seq_num = Arrived.seq_num
            /\ p = Arrived.sender =>
                  \E l \in DOMAIN issued[p] : /\ issued[p][l] = Arrived
                                             /\ \/ l = k
                                                \/ CameAround(p, k, l)
<1>1. ASSUME ITyped, IIssued, ReceiveRepeated
      PROVE  Right
  <2>0. PICK d, i : d = Arrived /\ i = d.session_id
    OBVIOUS
  <2>1. CommandArrives /\ i # 0 /\ Status(i) = "USING" /\ StoredAnswer(i).seq_num = d.seq_num
    BY <1>1, <2>0 DEF ReceiveRepeated
  <2>2. d \in CommandsOn(from_peer) /\ d \in Incoming
    BY <1>1, <2>0, <2>1, FewerCommands, HeadTailProperties DEF CommandArrives, Arrived, ITyped
  <2>3. i \in AckSession
    BY <2>0, <2>1, <2>2, Sessions DEF Incoming, PacketType
  <2>4. PICK a : a = StoredAnswer(i)
    OBVIOUS
  <2>5. AnswersOne(a, i) /\ Made(d)
    BY <1>1, <2>1, <2>2, <2>3, <2>4 DEF IIssued
  <2>6. PICK p \in Peers : \E k \in DOMAIN issued[p] :
          /\ a.number = issued[p][k].number
          /\ issued[p][k].session_id = i /\ issued[p][k].seq_num = a.seq_num
    BY <2>5 DEF AnswersOne
  <2>7. PICK k \in DOMAIN issued[p] :
          /\ a.number = issued[p][k].number
          /\ issued[p][k].session_id = i /\ issued[p][k].seq_num = a.seq_num
    BY <2>6
  <2>8. ASSUME p = d.sender
        PROVE  \E l \in DOMAIN issued[p] : /\ issued[p][l] = d
                                          /\ \/ l = k
                                             \/ CameAround(p, k, l)
    <3>1. PICK q \in Peers : \E l \in DOMAIN issued[q] : issued[q][l] = d
      BY <2>5 DEF Made
    <3>2. PICK l \in DOMAIN issued[q] : issued[q][l] = d
      BY <3>1
    <3>3. q = p
      BY <1>1, <2>8, <3>2 DEF IIssued, Numbered
    <3>4. issued[p][k].seq_num = issued[p][l].seq_num
      BY <2>1, <2>4, <2>7, <3>2, <3>3
    <3>5. l = k \/ CameAround(p, k, l)
      BY <1>1, <3>2, <3>3, <3>4, SameNumber
    <3> QED
      BY <3>2, <3>3, <3>5
  <2>9. issued[p][k].seq_num = d.seq_num
    BY <2>1, <2>4, <2>7
  <2> QED
    BY <2>0, <2>4, <2>7, <2>8, <2>9
<1>2. ITyped /\ ITyped' /\ IOwed /\ IKept /\ IIssued /\ [Next]_vars /\ [~RefusedInOne]_vars
      => IIssued'
  BY NextNumbered
<1>3. ITyped /\ IIssued /\ [Next]_vars => [ReceiveRepeated => Right]_vars
  BY <1>1
<1> HIDE DEF Right
<1>4. Spec /\ OneFindsMemory => [][ReceiveRepeated => Right]_vars
  BY <1>2, <1>3, InitNumbered, AlwaysTyped, AlwaysOwed, AlwaysKept, PTL
  DEF Spec, OneFindsMemory
<1> USE DEF Right
<1> QED
  BY <1>4 DEF RightAnswerRepeated

-----------------------------------------------------------------------------
(* When the memory never fails.  The blocks are the packets of the requests *)
(* under way and the answers that are remembered, of one or two cells; the  *)
(* load is light while one more finds an entry and its cells.               *)

AnswerRefused == \E k \in DOMAIN inbox : SendACK(k) /\ NoMemoryFor(inbox[k])

AnswersFindMemory == [][~AnswerRefused]_vars

Answering == {i \in AckSession : ack_session_table[i].memory_block_ptr # Null}

Load == Cardinality(LiveSessions) + Cardinality(Answering)

HasRoom(n) == /\ n < memory_table_num - 2
              /\ 2 * (n + 1) <= memory_size
              /\ max_block_size >= 2

Light == HasRoom(Load)

SmallBlocks(p) == \A h \in BlocksUsed(p) : p.table[h].memory_size <= 2

LEMMA SmallFreed ==
    ASSUME NEW p, NEW B, MemorySound(p, B), SmallBlocks(p), NEW h
    PROVE  SmallBlocks(FreeMemory(p, h))
<1>1. PICK q : q = FreeMemory(p, h)
  OBVIOUS
<1>2. /\ UsedSlots(q) = UsedSlots(p) \ ({h} \cap Handle)
      /\ \A i \in Slot : q.table[i].memory_size = p.table[i].memory_size
  BY <1>1, FreeMemoryWorks
<1>3. \A i \in UsedSlots(p) : i \in Slot
  BY DEF UsedSlots
<1>4. SmallBlocks(q)
  BY <1>2, <1>3 DEF SmallBlocks, BlocksUsed
<1> QED
  BY <1>1, <1>4

LEMMA SmallAllocated ==
    ASSUME NEW p, NEW B, MemorySound(p, B), SmallBlocks(p), NEW size \in {1, 2},
           NEW packet \in B, NEW a, a = AllocMemory(p, size)
    PROVE  /\ a.block = Null => SmallBlocks(a.pool)
           /\ a.block # Null => SmallBlocks(Pack(a.pool, a.block, packet))
<1>1. Answer(p, a, B, size)
  BY AllocMemoryWorks
<1>2. \A i \in UsedSlots(p) : i \in Slot
  BY DEF UsedSlots
<1>3. ASSUME a.block = Null
      PROVE  SmallBlocks(a.pool)
  <2>1. SameBlocks(p, a.pool)
    BY <1>1, <1>3 DEF Answer
  <2> QED
    BY <1>2, <2>1 DEF SameBlocks, SmallBlocks, BlocksUsed
<1>4. ASSUME a.block # Null
      PROVE  SmallBlocks(Pack(a.pool, a.block, packet))
  <2>1. PICK t, h : t = a.pool /\ h = a.block
    OBVIOUS
  <2>2. MemorySound(t, B) /\ Taken(p, t, h, size)
    BY <1>1, <1>4, <2>1 DEF Answer
  <2>3. PICK q : q = Pack(t, h, packet)
    OBVIOUS
  <2>4. h \in Handle /\ Used(t, h)
    BY <2>2 DEF Taken
  <2>5. q.table = t.table
    BY <2>2, <2>3, <2>4, PackWorks
  <2>6. UsedSlots(q) = UsedSlots(t)
    BY <2>5 DEF UsedSlots
  <2>7. UsedSlots(t) = UsedSlots(p) \cup {h} /\ t.table[h].memory_size = size
        /\ \A i \in Slot \ {h} : t.table[i].memory_size = p.table[i].memory_size
    BY <2>2 DEF Taken
  <2>8. size <= 2
    OBVIOUS
  <2>9. SmallBlocks(q)
    BY <1>2, <2>5, <2>6, <2>7, <2>8 DEF SmallBlocks, BlocksUsed
  <2> QED
    BY <2>1, <2>3, <2>9
<1> QED
  BY <1>3, <1>4

(* The sentinels have no cells, the other blocks two at most.               *)
LEMMA SmallMemory ==
    ASSUME NEW p, NEW B, MemorySound(p, B), SmallBlocks(p)
    PROVE  /\ IsFiniteSet(BlocksUsed(p)) /\ Cardinality(BlocksUsed(p)) \in Nat
           /\ UsedMemory(p) \in Nat /\ UsedMemory(p) <= 2 * Cardinality(BlocksUsed(p))
<1>a. PICK two \in Nat : two = 2
  OBVIOUS
<1>1. UsedSlots(p) \subseteq Slot /\ IsFiniteSet(UsedSlots(p))
  BY UsedFinite
<1>2. IsFiniteSet(BlocksUsed(p)) /\ Cardinality(BlocksUsed(p)) \in Nat
  <2>1. BlocksUsed(p) \in SUBSET UsedSlots(p)
    BY DEF BlocksUsed
  <2> QED
    BY <1>1, <2>1, FS_Subset, FS_CardinalityType
<1>3. PICK f : f = [i \in UsedSlots(p) |-> p.table[i].memory_size]
  OBVIOUS
<1>4. f \in [UsedSlots(p) -> Nat]
  <2>1. \A i \in UsedSlots(p) : p.table[i].memory_size \in Nat
    BY <1>1, EntryTypes DEF MemorySound
  <2> QED
    BY <1>3, <2>1
<1>5. \A i \in UsedSlots(p) : /\ i \in BlocksUsed(p) => f[i] <= 2
                              /\ i \notin BlocksUsed(p) => f[i] = 0
  <2>1. p.table[0].memory_size = 0 /\ p.table[EndSlot].memory_size = 0
    BY DEF MemorySound, Block
  <2>2. \A i \in UsedSlots(p) : i \notin BlocksUsed(p) => i = 0 \/ i = EndSlot
    BY <1>1, Slots DEF BlocksUsed
  <2> QED
    BY <1>3, <2>1, <2>2 DEF SmallBlocks
<1>6. Cells(f) \in SUBSET (BlocksUsed(p) \X (1 .. two))
  <2>1. ASSUME NEW u \in Cells(f)
        PROVE  u \in BlocksUsed(p) \X (1 .. two)
    <3>1. PICK i \in UsedSlots(p) : \E c \in 1 .. f[i] : u = <<i, c>>
      BY <1>4 DEF Cells
    <3>4. PICK c \in 1 .. f[i] : u = <<i, c>>
      BY <3>1
    <3>2. f[i] \in Nat
      BY <1>4
    <3>3. i \in BlocksUsed(p) /\ c \in 1 .. two
      BY <1>5, <1>a, <3>2
    <3> QED
      BY <3>3, <3>4
  <2> QED
    BY <2>1
<1>7. /\ IsFiniteSet(BlocksUsed(p) \X (1 .. two))
      /\ Cardinality(BlocksUsed(p) \X (1 .. two)) = Cardinality(BlocksUsed(p)) * two
  <2>0. two \in Nat /\ two > 0
    BY <1>a
  <2>1. IsFiniteSet(1 .. two) /\ Cardinality(1 .. two) = two
    BY <2>0, FS_Interval
  <2> QED
    BY <1>2, <2>1, FS_Product
<1>8. Cardinality(Cells(f)) <= Cardinality(BlocksUsed(p) \X (1 .. two))
  BY <1>6, <1>7, FS_Subset
<1>9. UsedMemory(p) = Cardinality(Cells(f)) /\ UsedMemory(p) \in Nat
  <2>1. UsedMemory(p) = Total(f)
    BY <1>3 DEF UsedMemory
  <2>2. Total(f) = Cardinality(Cells(f)) /\ Total(f) \in Nat
    BY <1>1, <1>4, CellsFinite DEF Total, Cells
  <2> QED
    BY <2>1, <2>2
<1> QED
  BY <1>2, <1>7, <1>8, <1>9, <1>a

(* With so few blocks a packet finds its memory.                            *)
LEMMA FindsMemory ==
    ASSUME NEW n \in Nat, HasRoom(n), NEW p, NEW B, MemorySound(p, B), SmallBlocks(p),
           Cardinality(BlocksUsed(p)) <= n, NEW size \in {1, 2}
    PROVE  AllocMemory(p, size).block # Null
<1>1. /\ Cardinality(BlocksUsed(p)) \in Nat /\ UsedMemory(p) \in Nat
      /\ UsedMemory(p) <= 2 * Cardinality(BlocksUsed(p))
  BY SmallMemory
<1>2. memory_table_num \in Nat /\ memory_size \in Nat /\ max_block_size \in Nat
  BY PoolAssumption
<1>3. size \in Nat \ {0} /\ size <= 2
  OBVIOUS
<1>4. ~(size > max_block_size)
  BY <1>2, <1>3 DEF HasRoom
<1>5. ~(UsedMemory(p) + size > memory_size)
  BY <1>1, <1>2, <1>3 DEF HasRoom
<1>6. FreeHandles(p) # {}
  <2> SUFFICES ASSUME FreeHandles(p) = {} PROVE FALSE
    OBVIOUS
  <2>1. \A h \in Handle : h \in BlocksUsed(p)
    BY Slots DEF FreeHandles, BlocksUsed, UsedSlots
  <2>2. BlocksUsed(p) = Handle
    BY <2>1 DEF BlocksUsed
  <2>3. Cardinality(Handle) = memory_table_num - 2
    BY <1>2, PoolAssumption, FS_Interval DEF Handle
  <2> QED
    BY <1>1, <1>2, <2>2, <2>3 DEF HasRoom
<1>7. PICK a : a = AllocMemory(p, size)
  OBVIOUS
<1>8. a.block = Null <=> \/ size > max_block_size
                         \/ UsedMemory(p) + size > memory_size
                         \/ FreeHandles(p) = {}
  BY <1>3, <1>7, AllocMemoryWorks
<1> QED
  BY <1>4, <1>5, <1>6, <1>7, <1>8

(* No more blocks than sessions that hold one, by IAccounted.               *)
LEMMA FewBlocks ==
    ASSUME ITyped, IAccounted
    PROVE  /\ IsFiniteSet(BlocksUsed(pool)) /\ Load \in Nat
           /\ Cardinality(BlocksUsed(pool)) <= Load
<1> DEFINE R == {cmd_session_table[i].memory_block_ptr : i \in LiveSessions}
           A == {ack_session_table[i].memory_block_ptr : i \in Answering}
           f == [i \in LiveSessions |-> cmd_session_table[i].memory_block_ptr]
           g == [i \in Answering |-> ack_session_table[i].memory_block_ptr]
<1>1. IsFiniteSet(AckSession)
  BY ProtocolAssumption, FS_Interval DEF AckSession
<1>2. IsFiniteSet(LiveSessions) /\ IsFiniteSet(Answering)
  <2>1. LiveSessions \in SUBSET AckSession /\ Answering \in SUBSET AckSession
    BY DEF LiveSessions, Answering
  <2> QED
    BY <1>1, <2>1, FS_Subset
<1>3. f \in Surjection(LiveSessions, R) /\ g \in Surjection(Answering, A)
  BY DEF Surjection
<1>4. BlocksUsed(pool) \in SUBSET (R \cup A)
  <2>1. ASSUME NEW h \in BlocksUsed(pool)
        PROVE  h \in R \cup A
    <3>1. Holder(h) /\ h # Null
      BY Slots DEF IAccounted, BlocksUsed
    <3> QED
      BY <3>1 DEF Holder, Answering
  <2> QED
    BY <2>1
<1> HIDE DEF R, A, f, g
<1>5. IsFiniteSet(R) /\ Cardinality(R) <= Cardinality(LiveSessions)
  BY <1>2, <1>3, FS_Surjection
<1>6. IsFiniteSet(A) /\ Cardinality(A) <= Cardinality(Answering)
  BY <1>2, <1>3, FS_Surjection
<1>7. /\ IsFiniteSet(R \cup A)
      /\ Cardinality(R \cup A) = Cardinality(R) + Cardinality(A) - Cardinality(R \cap A)
  BY <1>5, <1>6, FS_Union
<1>8. R \cap A \in SUBSET R
  OBVIOUS
<1>9. IsFiniteSet(R \cap A)
  BY <1>5, <1>8, FS_Subset
<1>10. /\ Cardinality(R) \in Nat /\ Cardinality(A) \in Nat /\ Cardinality(R \cap A) \in Nat
       /\ Cardinality(R \cup A) \in Nat
       /\ Cardinality(LiveSessions) \in Nat /\ Cardinality(Answering) \in Nat
  BY <1>2, <1>5, <1>6, <1>7, <1>9, FS_CardinalityType
<1>11. /\ IsFiniteSet(BlocksUsed(pool))
       /\ Cardinality(BlocksUsed(pool)) <= Cardinality(R \cup A)
  BY <1>4, <1>7, FS_Subset
<1>12. Cardinality(BlocksUsed(pool)) \in Nat
  BY <1>11, FS_CardinalityType
<1> QED
  BY <1>5, <1>6, <1>7, <1>10, <1>11, <1>12 DEF Load

LEMMA FreeSmall ==
    ASSUME ITyped, SmallBlocks(pool), NEW i, FreeCMDSession(i)
    PROVE  SmallBlocks(pool')
<1>1. MemorySound(pool, PacketsBelow(Fresh))
  BY DEF ITyped
<1>2. pool' = pool \/ pool' = FreeMemory(pool, cmd_session_table[i].memory_block_ptr)
  BY DEF FreeCMDSession
<1> QED
  BY <1>1, <1>2, SmallFreed

LEMMA PackSmall ==
    ASSUME Light, ITyped, IAccounted, SmallBlocks(pool), PackAndSend
    PROVE  SmallBlocks(pool') /\ ~RequestRefused
<1>1. MemorySound(pool, PacketsBelow(requests + 1))
  <2>1. MemorySound(pool, PacketsBelow(Fresh)) /\ Fresh = requests
    BY DEF ITyped, PackAndSend, Fresh
  <2>2. PacketsBelow(Fresh) \subseteq PacketsBelow(requests + 1)
    <3>1. \A r \in PacketType : r.number \in Nat
      BY DEF PacketType
    <3>2. requests \in Nat
      BY ProtocolAssumption DEF ITyped, SessionsTyped
    <3> QED
      BY <2>1, <3>1, <3>2 DEF PacketsBelow
  <2> QED
    BY <2>1, <2>2, MemoryWidens
<1>2. PICK i : i = packing.session
  OBVIOUS
<1>3. Outgoing(i) \in PacketsBelow(requests + 1)
  <2>1. Outgoing(i) \in PacketType /\ Outgoing(i).number = requests
    BY <1>2, PackEffect
  <2>2. requests < requests + 1
    BY ProtocolAssumption DEF ITyped, SessionsTyped
  <2> QED
    BY <2>1, <2>2 DEF PacketsBelow
<1>4. PICK a : a = AllocMemory(pool, 1)
  OBVIOUS
<1>5. a.block # Null
  BY <1>1, <1>4, FewBlocks, FindsMemory DEF Light
<1>6. ~RequestRefused
  BY <1>4, <1>5 DEF RequestRefused
<1>7. PICK t : t = Pack(a.pool, a.block, Outgoing(i))
  OBVIOUS
<1>8. SmallBlocks(t) /\ MemorySound(t, PacketsBelow(requests + 1))
  <2>1. SmallBlocks(t)
    BY <1>1, <1>3, <1>4, <1>5, <1>7, SmallAllocated
  <2>2. 1 \in Nat \ {0}
    OBVIOUS
  <2>3. MemorySound(t, PacketsBelow(requests + 1))
    BY <1>1, <1>3, <1>4, <1>5, <1>7, <2>2, AllocatedPacket
  <2> QED
    BY <2>1, <2>3
<1>9. pool' = t \/ pool' = FreeMemory(t, a.block)
  BY <1>2, <1>4, <1>5, <1>7 DEF PackAndSend, Outgoing
<1> QED
  BY <1>6, <1>8, <1>9, SmallFreed

LEMMA SendACKSmall ==
    ASSUME Light, ITyped, IAccounted, SmallBlocks(pool), NEW k \in DOMAIN inbox, SendACK(k)
    PROVE  SmallBlocks(pool') /\ ~NoMemoryFor(inbox[k])
<1>1. PICK command, i : command = inbox[k] /\ i = command.session_id
  OBVIOUS
<1>2. PICK old : old = ack_session_table[i].memory_block_ptr
  OBVIOUS
<1>3. PICK t : t = IF old = Null THEN pool ELSE FreeMemory(pool, old)
  OBVIOUS
<1>4. PICK size, a : size = AnswerSize(command) /\ a = AllocMemory(t, size)
  OBVIOUS
<1>5. old \in BlockPtr /\ AnswerTo(command) \in PacketType /\ AnswerTo(command).is_ack
  BY <1>1, <1>2, AckEffect
<1>6. PICK B : B = PacketsBelow(Fresh)
  OBVIOUS
<1>7. MemorySound(pool, B) /\ AnswerTo(command) \in B
  BY <1>5, <1>6 DEF ITyped, PacketsBelow
<1>8. size \in {1, 2} /\ size \in Nat \ {0}
  BY <1>4 DEF AnswerSize
<1>9. /\ IsFiniteSet(BlocksUsed(pool)) /\ Load \in Nat
      /\ Cardinality(BlocksUsed(pool)) <= Load
  BY FewBlocks
<1>10. MemorySound(t, B) /\ SmallBlocks(t) /\ BlocksUsed(t) \in SUBSET BlocksUsed(pool)
  <2>1. CASE old = Null
    BY <1>3, <1>7, <2>1
  <2>2. CASE old # Null
    <3>1. t = FreeMemory(pool, old)
      BY <1>3, <2>2
    <3>2. MemorySound(t, B) /\ BlocksUsed(t) = BlocksUsed(pool) \ {old}
      BY <1>5, <1>7, <3>1, FreedPacket
    <3>3. SmallBlocks(t)
      BY <1>7, <3>1, SmallFreed
    <3> QED
      BY <3>2, <3>3
  <2> QED
    BY <2>1, <2>2
<1>11. Cardinality(BlocksUsed(t)) <= Load
  <2>1. IsFiniteSet(BlocksUsed(t)) /\ Cardinality(BlocksUsed(t)) <= Cardinality(BlocksUsed(pool))
    BY <1>9, <1>10, FS_Subset
  <2>2. Cardinality(BlocksUsed(t)) \in Nat /\ Cardinality(BlocksUsed(pool)) \in Nat
    BY <1>9, <2>1, FS_CardinalityType
  <2> QED
    BY <1>9, <2>1, <2>2
<1>12. a.block # Null
  BY <1>4, <1>8, <1>9, <1>10, <1>11, FindsMemory DEF Light
<1>13. a = AllocAck(i, size)
  BY <1>2, <1>3, <1>4 DEF AllocAck
<1>14. ~NoMemoryFor(inbox[k])
  BY <1>1, <1>4, <1>12, <1>13 DEF NoMemoryFor
<1>15. pool' = Pack(a.pool, a.block, AnswerTo(command))
  BY <1>1, <1>4, <1>12, <1>13 DEF SendACK, AnswerTo
<1>16. SmallBlocks(Pack(a.pool, a.block, AnswerTo(command)))
  BY <1>4, <1>7, <1>8, <1>10, <1>12, SmallAllocated
<1> QED
  BY <1>14, <1>15, <1>16

LEMMA NextSmall ==
    ASSUME Light, ITyped, IAccounted, SmallBlocks(pool), [Next]_vars
    PROVE  SmallBlocks(pool') /\ [~RequestRefused]_vars /\ [~AnswerRefused]_vars
<1>1. CASE PackAndSend
  <2>1. SmallBlocks(pool') /\ ~RequestRefused
    BY <1>1, PackSmall
  <2>2. ~AnswerRefused
    BY <1>1 DEF AnswerRefused, PackAndSend, SendACK
  <2> QED
    BY <2>1, <2>2
<1>2. ASSUME NEW k \in DOMAIN inbox, SendACK(k)
      PROVE  SmallBlocks(pool') /\ ~RequestRefused
  <2>1. SmallBlocks(pool')
    BY <1>2, SendACKSmall
  <2> QED
    BY <1>2, <2>1 DEF RequestRefused, PackAndSend, SendACK
<1>3. ~AnswerRefused
  BY SendACKSmall DEF AnswerRefused
<1>4. CASE \E i \in Session : FreeCMDSession(i) /\ ~PackAndSend
  BY <1>3, <1>4, FreeSmall DEF RequestRefused
<1>5. CASE UNCHANGED pool /\ ~PackAndSend
  BY <1>3, <1>5 DEF RequestRefused
<1>6. ASSUME NEW mode \in SendModes, SendCMD(mode)
      PROVE  UNCHANGED pool
  BY <1>6 DEF SendCMD
<1>7. CASE PollGiveUp
  <2>1. poll \in Session /\ FreeCMDSession(poll)
    BY <1>7 DEF PollGiveUp, ITyped, SessionsTyped
  <2> QED
    BY <1>1, <1>4, <2>1
<1>8. CASE CompleteSession
  <2>1. recv.session_id \in Session
    BY <1>8, RecvSession, Sessions DEF CompleteSession
  <2>2. FreeCMDSession(recv.session_id) \/ UNCHANGED pool
    BY <1>8 DEF CompleteSession
  <2> QED
    BY <1>1, <1>4, <1>5, <2>1, <2>2
<1>9. CASE Quiet
  BY <1>1, <1>5, <1>9 DEF Quiet
<1>10. ASSUME \/ \E i \in AckSession : Timeout(i)
              \/ PollResend
       PROVE  UNCHANGED pool
  BY <1>10 DEF Timeout, PollResend
<1>11. ASSUME UNCHANGED pool
       PROVE  SmallBlocks(pool') /\ [~RequestRefused]_vars /\ [~AnswerRefused]_vars
  BY <1>1, <1>5, <1>11
<1> QED
  BY <1>1, <1>2, <1>3, <1>6, <1>7, <1>8, <1>9, <1>10, <1>11, QuietSteps DEF Next

(* As long as the load is light no packet is refused its memory, whatever   *)
(* the order in which blocks came and went.  The code's pool has 30 entries *)
(* beside its sentinels and 4096 bytes for the 31 requests and 31 answers   *)
(* its sessions could hold (protocol.cpp:54-57): light is a load of up to   *)
(* 29 of them, in packets of up to 136 bytes.                               *)
THEOREM MemorySuffices == Spec /\ []Light => RequestsFindMemory /\ AnswersFindMemory
<1> DEFINE Small == SmallBlocks(pool)
<1>1. Init => Small
  <2> SUFFICES ASSUME Init PROVE Small
    OBVIOUS
  <2>1. UsedSlots(pool) = {0, EndSlot}
    BY Devices, EmptyPoolSound DEF Init
  <2> QED
    BY <2>1, Slots DEF SmallBlocks, BlocksUsed
<1>2. ITyped /\ IAccounted /\ Light /\ Small /\ [Next]_vars
      => Small' /\ [~RequestRefused]_vars /\ [~AnswerRefused]_vars
  BY NextSmall
<1> HIDE DEF Small
<1> QED
  BY <1>1, <1>2, InitAccounted, NextAccounted, AlwaysTyped, PTL
  DEF Spec, RequestsFindMemory, AnswersFindMemory

(* Under a light load sessions keep their packets and find their blocks,    *)
(* and a request is answered once: the three properties of sending without  *)
(* a word about what the pool answers.                                      *)
THEOREM SendingIsSafe ==
    Spec /\ []Light => [](PacketsKept /\ ThreadsFindABlock /\ AnsweredOnce)
<1>1. Spec /\ []Light => RequestsFindMemory /\ AnswersFindMemory
  BY MemorySuffices
<1>2. [~AnswerRefused]_vars => [~RefusedInOne]_vars
  BY DEF AnswerRefused, RefusedInOne
<1>3. AnswersFindMemory => OneFindsMemory
  BY <1>2, PTL DEF AnswersFindMemory, OneFindsMemory
<1> QED
  BY <1>1, <1>3, PacketsStayKept, BlocksAreFound, RequestsAnsweredOnce, PTL
=============================================================================
