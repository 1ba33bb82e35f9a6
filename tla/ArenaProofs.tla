---------------------------- MODULE ArenaProofs -----------------------------
(***************************************************************************)
(* Allocations are aligned and disjoint, whatever sizes are asked for and  *)
(* wherever calloc puts the blocks.                                        *)
(***************************************************************************)
EXTENDS Arena, SequenceTheorems, TLAPS

Block == [base : Nat, start : Nat]
Allocation == [block : Nat, start : Nat, size : Nat \ {0}]

\* The free bytes of a block begin in or behind its array, aligned unless it
\* has not been used.
GoodBlock(b) ==
  /\ b.base % 8 = 0
  /\ b.start >= ArenaOf(b)
  /\ b.start = ArenaOf(b) \/ b.start % 8 = 0

\* Two blocks, the pointers around their arrays included, do not meet.
BlocksApart(b, c) ==
  \/ b.base + ARENA_SIZE + 2 * POINTER <= c.base
  \/ c.base + ARENA_SIZE + 2 * POINTER <= b.base

\* The allocations of a block are between the beginning of its array and its
\* free bytes, and aligned.
GoodAllocation(a) ==
  /\ a.block \in DOMAIN blocks
  /\ ArenaOf(blocks[a.block]) <= a.start
  /\ a.start + a.size <= blocks[a.block].start
  /\ a.start = ArenaOf(blocks[a.block]) \/ a.start % 8 = 0

ArenaInv ==
  /\ blocks \in Seq(Block) /\ allocations \in Seq(Allocation)
  /\ \A k \in DOMAIN blocks : GoodBlock(blocks[k])
  /\ \A j, k \in DOMAIN blocks : j # k => BlocksApart(blocks[j], blocks[k])
  /\ \A k \in DOMAIN allocations : GoodAllocation(allocations[k])
  /\ \A j, k \in DOMAIN allocations :
       j # k /\ allocations[j].block = allocations[k].block =>
         Apart(allocations[j], allocations[k])

-----------------------------------------------------------------------------
\* RoundUp returns a multiple of 8 that is not smaller.
LEMMA RoundUpType ==
  ASSUME NEW address \in Nat
  PROVE  /\ RoundUp(address) \in Nat /\ RoundUp(address) >= address
         /\ RoundUp(address) % 8 = 0
BY DEF RoundUp

\* The constants are numbers.
LEMMA Constants ==
  /\ ARENA_SIZE \in Nat /\ POINTER \in {4, 8} /\ POINTER \in Nat
  /\ \A size \in Sizes : size \in Nat \ {0}
BY ArenaAssumption

\* The elements of two sequences of records.
LEMMA Elements ==
  /\ \A s \in Seq(Block) : \A k \in DOMAIN s :
       s[k] \in Block /\ s[k].base \in Nat /\ s[k].start \in Nat
  /\ \A s \in Seq(Allocation) : \A k \in DOMAIN s :
       /\ s[k] \in Allocation
       /\ s[k].block \in Nat /\ s[k].start \in Nat /\ s[k].size \in Nat
<1>1. \A b \in Block : b.base \in Nat /\ b.start \in Nat
  BY DEF Block
<1>2. \A a \in Allocation : a.block \in Nat /\ a.start \in Nat /\ a.size \in Nat
  BY DEF Allocation
<1>3. ASSUME NEW s \in Seq(Block), NEW k \in DOMAIN s PROVE s[k] \in Block
  BY <1>3, ElementOfSeq, LenProperties
<1>4. ASSUME NEW s \in Seq(Allocation), NEW k \in DOMAIN s
      PROVE  s[k] \in Allocation
  BY <1>4, ElementOfSeq, LenProperties
<1> QED
  BY <1>1, <1>2, <1>3, <1>4

\* What the invariant says of each block and each allocation.
LEMMA InvElements ==
  ASSUME ArenaInv
  PROVE  /\ DOMAIN blocks = 1 .. Len(blocks) /\ Len(blocks) \in Nat
         /\ \A k \in DOMAIN blocks :
              /\ blocks[k] \in Block /\ GoodBlock(blocks[k])
              /\ blocks[k].base \in Nat /\ blocks[k].start \in Nat
         /\ \A k \in DOMAIN allocations :
              /\ GoodAllocation(allocations[k])
              /\ allocations[k].block \in Nat
              /\ allocations[k].start \in Nat /\ allocations[k].size \in Nat
<1>1. blocks \in Seq(Block) /\ allocations \in Seq(Allocation)
  BY DEF ArenaInv
<1> QED
  BY <1>1, Elements, LenProperties DEF ArenaInv

\* The bytes of an allocation that stays in its block meet neither those of
\* one in another block, nor the pointers of any block.
LEMMA InsideIsApart ==
  ASSUME NEW b \in Block, NEW c \in Block, BlocksApart(b, c),
         NEW x \in Nat, NEW m \in Nat, NEW y \in Nat, NEW n \in Nat,
         ArenaOf(b) <= x, x + m <= EndOf(b),
         c.base <= y, y + n <= c.base + ARENA_SIZE + 2 * POINTER
  PROVE  x + m <= y \/ y + n <= x
<1>1. b.base \in Nat /\ c.base \in Nat
  BY DEF Block
<1> QED
  BY <1>1, Constants DEF BlocksApart, ArenaOf, EndOf

\* The invariant implies the properties.
LEMMA InvAligned == ArenaInv => Aligned
<1> SUFFICES ASSUME ArenaInv, NEW k \in DOMAIN allocations
             PROVE  LET a == allocations[k]
                    IN /\ a.start % POINTER = 0
                       /\ a.start % 8 # 0 =>
                            POINTER = 4 /\ a.start = ArenaOf(blocks[a.block])
  BY DEF Aligned
<1> DEFINE a == allocations[k]
           b == blocks[a.block]
<1>1. GoodAllocation(a) /\ a.start \in Nat
  BY InvElements
<1>2. b.base \in Nat /\ b.base % 8 = 0
  BY <1>1, InvElements DEF GoodBlock, GoodAllocation
<1>3. a.start = b.base + POINTER \/ a.start % 8 = 0
  BY <1>1 DEF GoodAllocation, ArenaOf
<1> HIDE DEF a, b
<1>4. CASE POINTER = 4
  BY <1>1, <1>2, <1>3, <1>4 DEF ArenaOf, a, b
<1>5. CASE POINTER = 8
  BY <1>1, <1>2, <1>3, <1>5 DEF ArenaOf, a, b
<1> QED
  BY <1>4, <1>5, Constants

LEMMA InvDisjoint == ArenaInv => Disjoint
<1> SUFFICES ASSUME ArenaInv, NEW j \in DOMAIN allocations
             PROVE  LET a == allocations[j]
                    IN /\ \A k \in DOMAIN allocations :
                            LET b == allocations[k]
                            IN j # k =>
                                 \/ Apart(a, b)
                                 \/ a.block # b.block /\ (PastEnd(a) \/ PastEnd(b))
                       /\ ~PastEnd(a) =>
                            \A k \in DOMAIN blocks :
                              \A p \in Pointers(blocks[k]) : Apart(a, p)
  BY DEF Disjoint
<1> DEFINE a == allocations[j]
<1>1. \A k \in DOMAIN allocations :
        /\ GoodAllocation(allocations[k])
        /\ allocations[k].start \in Nat /\ allocations[k].size \in Nat
  BY InvElements
<1>2. \A k \in DOMAIN blocks :
        blocks[k] \in Block /\ blocks[k].base \in Nat /\ GoodBlock(blocks[k])
  BY InvElements
<1>3. ASSUME NEW k \in DOMAIN allocations, j # k
      PROVE  \/ Apart(a, allocations[k])
             \/ /\ a.block # allocations[k].block
                /\ PastEnd(a) \/ PastEnd(allocations[k])
  <2> DEFINE b == allocations[k]
  <2>1. CASE a.block = b.block
    BY <1>3, <2>1 DEF ArenaInv
  <2>2. CASE a.block # b.block /\ ~PastEnd(a) /\ ~PastEnd(b)
    <3>1. a.block \in DOMAIN blocks /\ b.block \in DOMAIN blocks
      BY <1>1 DEF GoodAllocation
    <3>2. BlocksApart(blocks[a.block], blocks[b.block])
      BY <2>2, <3>1 DEF ArenaInv
    <3>3. /\ a.start \in Nat /\ a.size \in Nat
          /\ b.start \in Nat /\ b.size \in Nat
          /\ ArenaOf(blocks[a.block]) <= a.start
          /\ ArenaOf(blocks[b.block]) <= b.start
      BY <1>1 DEF GoodAllocation
    <3>4. /\ a.start + a.size <= EndOf(blocks[a.block])
          /\ b.start + b.size <= EndOf(blocks[b.block])
      <4>1. EndOf(blocks[a.block]) \in Nat /\ EndOf(blocks[b.block]) \in Nat
        BY <3>1, <1>2, Constants DEF EndOf, ArenaOf
      <4> QED
        BY <2>2, <3>3, <4>1 DEF PastEnd
    <3>5. /\ blocks[b.block].base <= b.start
          /\ b.start + b.size <= blocks[b.block].base + ARENA_SIZE + 2 * POINTER
      BY <3>1, <3>3, <3>4, <1>2, Constants DEF EndOf, ArenaOf
    <3>6. blocks[a.block] \in Block /\ blocks[b.block] \in Block
      BY <3>1, <1>2
    <3>7. Apart(a, b)
      <4> HIDE DEF a, b
      <4> QED
        BY <3>2, <3>3, <3>4, <3>5, <3>6, InsideIsApart DEF Apart
    <3> QED
      BY <3>7
  <2> QED
    BY <2>1, <2>2
<1>4. ASSUME ~PastEnd(a), NEW k \in DOMAIN blocks, NEW p \in Pointers(blocks[k])
      PROVE  Apart(a, p)
  <2> DEFINE c == blocks[k]
  <2>1. /\ a.block \in DOMAIN blocks /\ a.start \in Nat /\ a.size \in Nat
        /\ ArenaOf(blocks[a.block]) <= a.start
    BY <1>1 DEF GoodAllocation
  <2>2. a.start + a.size <= EndOf(blocks[a.block])
    <3>1. EndOf(blocks[a.block]) \in Nat
      BY <2>1, <1>2, Constants DEF EndOf, ArenaOf
    <3> QED
      BY <1>4, <2>1, <3>1 DEF PastEnd
  <2>3. /\ p.start \in Nat /\ p.size = POINTER
        /\ p.start = c.base \/ p.start = EndOf(c)
    BY <1>2, Constants DEF Pointers, EndOf, ArenaOf
  <2>4. /\ c.base <= p.start
        /\ p.start + p.size <= c.base + ARENA_SIZE + 2 * POINTER
    BY <2>3, <1>2, Constants DEF EndOf, ArenaOf
  <2> HIDE DEF a
  <2>5. CASE a.block = k
    BY <2>1, <2>2, <2>3, <2>5, <1>2, Constants DEF Apart, EndOf, ArenaOf
  <2>6. CASE a.block # k
    <3>1. BlocksApart(blocks[a.block], blocks[k])
      BY <2>1, <2>6 DEF ArenaInv
    <3> QED
      BY <2>1, <2>2, <2>3, <2>4, <3>1, <1>2, InsideIsApart, Constants DEF Apart
  <2> QED
    BY <2>5, <2>6
<1> HIDE DEF a
<1> QED
  BY <1>3, <1>4 DEF a

-----------------------------------------------------------------------------
\* A block that is used, or has just been allocated, keeps the invariant of
\* blocks, and allocations so far stay below their free bytes.
LEMMA RoomIsGood ==
  ASSUME ArenaInv, NEW size \in Sizes,
         NEW room \in IF NeedsBlock(size)
                      THEN { Append(blocks, fresh) : fresh \in FreshBlocks }
                      ELSE {blocks}
  PROVE  /\ room \in Seq(Block) /\ Len(room) \in DOMAIN room
         /\ Len(blocks) <= Len(room)
         /\ \A k \in DOMAIN room : GoodBlock(room[k])
         /\ \A j, k \in DOMAIN room : j # k => BlocksApart(room[j], room[k])
         /\ \A k \in DOMAIN blocks : k \in DOMAIN room /\ room[k] = blocks[k]
<1>1. CASE NeedsBlock(size)
  <2>1. PICK base \in Bases :
          /\ room = Append(blocks, [base |-> base, start |-> base + POINTER])
          /\ \A k \in DOMAIN blocks :
               \/ base + ARENA_SIZE + 2 * POINTER <= blocks[k].base
               \/ blocks[k].base + ARENA_SIZE + 2 * POINTER <= base
    BY <1>1 DEF FreshBlocks
  <2> DEFINE fresh == [base |-> base, start |-> base + POINTER]
  <2>2. base \in Nat /\ base % 8 = 0 /\ fresh \in Block /\ GoodBlock(fresh)
    BY ArenaAssumption, Constants DEF Block, GoodBlock, ArenaOf
  <2>3. \A k \in DOMAIN blocks : BlocksApart(fresh, blocks[k])
                                 /\ BlocksApart(blocks[k], fresh)
    BY <2>1 DEF BlocksApart
  <2> HIDE DEF fresh
  <2>4. /\ room \in Seq(Block) /\ Len(room) = Len(blocks) + 1
        /\ \A k \in 1 .. Len(blocks) : room[k] = blocks[k]
        /\ room[Len(blocks) + 1] = fresh
    BY <2>1, <2>2, AppendProperties DEF ArenaInv, fresh
  <2>5. DOMAIN room = 1 .. Len(blocks) + 1 /\ DOMAIN blocks = 1 .. Len(blocks)
        /\ Len(blocks) \in Nat
    BY <2>4, LenProperties DEF ArenaInv
  <2> QED
    BY <2>2, <2>3, <2>4, <2>5 DEF ArenaInv
<1>2. CASE ~NeedsBlock(size)
  <2>1. room = blocks /\ blocks # <<>>
    BY <1>2 DEF NeedsBlock
  <2>2. Len(blocks) \in DOMAIN blocks /\ Len(blocks) \in Nat
    BY <2>1, EmptySeq, LenProperties DEF ArenaInv
  <2> QED
    BY <2>1, <2>2 DEF ArenaInv
<1> QED
  BY <1>1, <1>2

\* An allocation is made from the first free byte of the current or of a new
\* block: everything before it in that block is below that byte.
LEMMA AllocateStep ==
  ASSUME ArenaInv, NEW size \in Sizes, ArenaAllocate(size)
  PROVE  ArenaInv'
<1>1. PICK room \in IF NeedsBlock(size)
                    THEN { Append(blocks, fresh) : fresh \in FreshBlocks }
                    ELSE {blocks} :
        /\ blocks' = [room EXCEPT ![Len(room)].start =
                        RoundUp(room[Len(room)].start + size)]
        /\ allocations' = Append(allocations,
             [block |-> Len(room), start |-> room[Len(room)].start,
              size |-> size])
  BY DEF ArenaAllocate
<1> DEFINE current == Len(room)
           old == room[current]
           end == RoundUp(old.start + size)
           new == [block |-> current, start |-> old.start, size |-> size]
<1>2. /\ room \in Seq(Block) /\ current \in DOMAIN room
      /\ \A k \in DOMAIN room : GoodBlock(room[k])
      /\ \A j, k \in DOMAIN room : j # k => BlocksApart(room[j], room[k])
      /\ \A k \in DOMAIN blocks : k \in DOMAIN room /\ room[k] = blocks[k]
  BY <1>1, RoomIsGood
<1>3. size \in Nat \ {0}
  BY Constants
<1>4. /\ old \in Block /\ old.base \in Nat /\ old.start \in Nat /\ GoodBlock(old)
      /\ current \in Nat
  BY <1>2, Elements, LenProperties
<1>5. end \in Nat /\ end >= old.start + size /\ end % 8 = 0
  <2>1. old.start + size \in Nat
    BY <1>3, <1>4
  <2> HIDE DEF old
  <2> QED
    BY <2>1, RoundUpType
<1>6. /\ blocks' = [room EXCEPT ![current] = [old EXCEPT !.start = end]]
      /\ allocations' = Append(allocations, new)
  BY <1>1, <1>2
<1> HIDE DEF end
<1>7. [old EXCEPT !.start = end] \in Block
  BY <1>4, <1>5 DEF Block
<1>8. /\ blocks' \in Seq(Block) /\ DOMAIN blocks' = DOMAIN room
      /\ \A k \in DOMAIN room :
           /\ blocks'[k].base = room[k].base
           /\ blocks'[k].start = IF k = current THEN end ELSE room[k].start
  <2>1. /\ blocks' \in Seq(Block) /\ Len(blocks') = current
        /\ \A k \in 1 .. current :
             blocks'[k] = IF k = current THEN [old EXCEPT !.start = end] ELSE room[k]
    BY <1>2, <1>6, <1>7, ExceptSeq, LenProperties
  <2>2. /\ [old EXCEPT !.start = end].base = old.base
        /\ [old EXCEPT !.start = end].start = end
    BY <1>4 DEF Block
  <2> QED
    BY <1>2, <2>1, <2>2, LenProperties
<1> HIDE DEF current, old
<1>9. new \in Allocation
  BY <1>3, <1>4 DEF Allocation
<1> DEFINE last == Len(allocations) + 1
<1>10. /\ allocations' \in Seq(Allocation)
       /\ DOMAIN allocations' = DOMAIN allocations \union {last}
       /\ last \notin DOMAIN allocations
       /\ \A k \in DOMAIN allocations : allocations'[k] = allocations[k]
       /\ allocations'[last] = new
  <2>1. allocations \in Seq(Allocation) /\ Len(allocations) \in Nat
    BY LenProperties DEF ArenaInv
  <2>2. /\ allocations' \in Seq(Allocation)
        /\ Len(allocations') = last
        /\ \A k \in 1 .. Len(allocations) : allocations'[k] = allocations[k]
        /\ allocations'[last] = new
    BY <1>6, <1>9, <2>1, AppendProperties
  <2> QED
    BY <2>1, <2>2, LenProperties
<1> HIDE DEF new, last
<1>11. new.block = current /\ new.start = old.start /\ new.size = size
  BY DEF new
<1>12. \A k \in DOMAIN room : ArenaOf(blocks'[k]) = ArenaOf(room[k])
  BY <1>8 DEF ArenaOf
<1>13. \A k \in DOMAIN room : GoodBlock(blocks'[k])
  <2> SUFFICES ASSUME NEW k \in DOMAIN room PROVE GoodBlock(blocks'[k])
    OBVIOUS
  <2>1. CASE k = current
    <3>1. ArenaOf(old) \in Nat /\ ArenaOf(old) <= old.start /\ old.base % 8 = 0
      BY <1>4, Constants DEF ArenaOf, GoodBlock
    <3>2. /\ blocks'[k].base = old.base /\ blocks'[k].start = end
          /\ ArenaOf(blocks'[k]) = ArenaOf(old)
      BY <2>1, <1>8, <1>12 DEF old
    <3> QED
      BY <1>3, <1>4, <1>5, <3>1, <3>2 DEF GoodBlock
  <2>2. CASE k # current
    BY <2>2, <1>2, <1>8, <1>12 DEF GoodBlock
  <2> QED
    BY <2>1, <2>2
<1>14. \A j, k \in DOMAIN room : j # k => BlocksApart(blocks'[j], blocks'[k])
  BY <1>2, <1>8 DEF BlocksApart
<1>15. ASSUME NEW k \in DOMAIN allocations
       PROVE  /\ GoodAllocation(allocations[k])'
              /\ allocations[k].block = current =>
                   allocations[k].start + allocations[k].size <= old.start
  <2> DEFINE a == allocations[k]
  <2>1. /\ a.block \in DOMAIN blocks
        /\ ArenaOf(blocks[a.block]) <= a.start
        /\ a.start + a.size <= blocks[a.block].start
        /\ a.start = ArenaOf(blocks[a.block]) \/ a.start % 8 = 0
        /\ a.start \in Nat /\ a.size \in Nat
    BY InvElements DEF GoodAllocation
  <2>2. /\ a.block \in DOMAIN room /\ room[a.block] = blocks[a.block]
        /\ room[a.block].start \in Nat
    BY <2>1, <1>2, Elements
  <2>3. /\ a.start + a.size <= blocks'[a.block].start
        /\ a.block = current => a.start + a.size <= old.start
    <3>1. a.start + a.size <= room[a.block].start
      BY <2>1, <2>2
    <3>2. a.block = current => room[a.block].start = old.start
      BY DEF old
    <3>3. blocks'[a.block].start = IF a.block = current THEN end
                                                      ELSE room[a.block].start
      BY <2>2, <1>8
    <3>4. a.start + a.size \in Nat /\ old.start \in Nat /\ end >= old.start
      BY <2>1, <1>3, <1>4, <1>5
    <3> HIDE DEF a
    <3>5. CASE a.block = current
      BY <3>1, <3>2, <3>3, <3>4, <3>5, <1>5
    <3>6. CASE a.block # current
      BY <3>1, <3>3, <3>6
    <3> QED
      BY <3>5, <3>6
  <2>4. allocations'[k] = a
    BY <1>10
  <2> HIDE DEF a
  <2>5. /\ a.block \in DOMAIN blocks'
        /\ ArenaOf(blocks'[a.block]) = ArenaOf(blocks[a.block])
    BY <2>1, <2>2, <1>8, <1>12
  <2> QED
    BY <2>1, <2>3, <2>4, <2>5 DEF GoodAllocation, a, ArenaOf
<1>16. GoodAllocation(new)'
  <2>1. /\ new' = new /\ new.block \in DOMAIN blocks'
        /\ blocks'[new.block].start = end
        /\ ArenaOf(blocks'[new.block]) = ArenaOf(old)
    BY <1>2, <1>8, <1>11, <1>12 DEF old
  <2>2. /\ ArenaOf(old) <= new.start
        /\ new.start = ArenaOf(old) \/ new.start % 8 = 0
    BY <1>4, <1>11 DEF GoodBlock
  <2> QED
    BY <1>5, <1>11, <2>1, <2>2 DEF GoodAllocation, ArenaOf
<1>17. (\A k \in DOMAIN allocations : GoodAllocation(allocations[k]))'
  BY <1>10, <1>15, <1>16 DEF GoodAllocation, ArenaOf
<1>18. (\A j, k \in DOMAIN allocations :
          j # k /\ allocations[j].block = allocations[k].block =>
            Apart(allocations[j], allocations[k]))'
  <2>1. \A k \in DOMAIN allocations :
          allocations[k].block = new.block =>
            Apart(allocations[k], new) /\ Apart(new, allocations[k])
    BY <1>15, <1>11 DEF Apart
  <2> QED
    BY <1>10, <2>1 DEF ArenaInv, Apart
<1> QED
  BY <1>8, <1>10, <1>13, <1>14, <1>17, <1>18 DEF ArenaInv, GoodBlock, BlocksApart,
     ArenaOf

\* The invariant holds initially and every step preserves it.
THEOREM ArenaInvariant == Spec => []ArenaInv
<1>1. ASSUME blocks = <<>>, allocations = <<>> PROVE ArenaInv
  BY <1>1 DEF ArenaInv
<1>2. ArenaInv /\ [Next]_vars => ArenaInv'
  <2> SUFFICES ASSUME ArenaInv, [Next]_vars PROVE ArenaInv'
    OBVIOUS
  <2>1. CASE \E size \in Sizes : ArenaAllocate(size)
    BY <2>1, AllocateStep
  <2>2. CASE FreeArena
    BY <2>2 DEF FreeArena, ArenaInv
  <2>3. CASE UNCHANGED vars
    BY <2>3 DEF vars, ArenaInv, GoodBlock, GoodAllocation, BlocksApart, Apart,
       ArenaOf
  <2> QED
    BY <2>1, <2>2, <2>3 DEF Next
<1>3. Init => ArenaInv
  BY <1>1 DEF Init
<1> QED
  BY <1>2, <1>3, PTL DEF Spec

\* Every allocation is aligned for pointers and, but for the first of a block
\* where a pointer has four bytes, for a uint64_t, for every size asked for.
THEOREM AllocationsAligned == Spec => []Aligned
BY ArenaInvariant, InvAligned, PTL

\* No two allocations overlap, nor an allocation and a pointer of a block, for
\* every size asked for and wherever blocks lie, as long as they stay in
\* their blocks; two of one block never do.
THEOREM AllocationsDisjoint == Spec => []Disjoint
BY ArenaInvariant, InvDisjoint, PTL

=============================================================================
