------------------------------- MODULE Arena --------------------------------
(***************************************************************************)
(* The arena (platform.c) that syntax trees and types are allocated from.  *)
(* It is a list of blocks; an allocation takes the next bytes of the       *)
(* current one, and all are freed together.  All addresses are of one      *)
(* memory, in which blocks lie wherever calloc puts them.                  *)
(***************************************************************************)
EXTENDS Integers, Sequences

CONSTANTS
  ARENA_SIZE,     \* bytes of the array in a block (2 MB)
  POINTER,        \* bytes of a pointer
  Bases,          \* addresses calloc may return
  Sizes,          \* the sizes asked for
  MaxAllocations  \* bound of the model: no more allocations

\* Memory from calloc is aligned for a uint64_t, and no caller asks for more
\* than a block holds: ArenaAllocate does not fail.
ASSUME ArenaAssumption ==
  /\ ARENA_SIZE \in Nat
  /\ POINTER \in {4, 8}
  /\ Bases \subseteq Nat /\ \A base \in Bases : base % 8 = 0
  /\ Sizes \subseteq 1 .. ARENA_SIZE
  /\ MaxAllocations \in Nat

VARIABLES
  blocks,       \* the blocks of the arena, with their start; the current last
  allocations,  \* what was handed out, in order: [block, start, size]
  live          \* whether the arena has not been freed

vars == <<blocks, allocations, live>>

\* MakeFreshArena.
Init == blocks = <<>> /\ allocations = <<>> /\ live = TRUE

\* Where the array of a block begins and ends.  In struct ArenaBlock it has a
\* pointer before it and one behind it.
ArenaOf(block) == block.base + POINTER
EndOf(block) == ArenaOf(block) + ARENA_SIZE

\* Mutation: the next allocation starts right behind.
RoundUpNot(address) == address

\* Mutation: rounded down.
RoundUpDown(address) == address - (address % 8)

\* The next multiple of 8.
RoundUp(address) ==
  IF address % 8 # 0 THEN address + 8 - (address % 8) ELSE address

\* The code's space_remaining is the space used.
NeedsBlock(size) ==
  \/ blocks = <<>>
  \/ size > blocks[Len(blocks)].start - ArenaOf(blocks[Len(blocks)])

\* Mutation: calloc is asked for the array alone.
FreshBlocksShort ==
  { [base |-> base, start |-> base + POINTER] :
      base \in { b \in Bases : \A k \in DOMAIN blocks :
                   \/ b + ARENA_SIZE <= blocks[k].base
                   \/ blocks[k].base + ARENA_SIZE <= b } }

\* What calloc may return for a block, its start set: memory that no other
\* block has.
FreshBlocks ==
  { [base |-> base, start |-> base + POINTER] :
      base \in { b \in Bases : \A k \in DOMAIN blocks :
                   \/ b + ARENA_SIZE + 2 * POINTER <= blocks[k].base
                   \/ blocks[k].base + ARENA_SIZE + 2 * POINTER <= b } }

ArenaAllocate(size) ==
  /\ live
  /\ Len(allocations) < MaxAllocations
  /\ \E room \in IF NeedsBlock(size)
                 THEN { Append(blocks, fresh) : fresh \in FreshBlocks }
                 ELSE {blocks} :
       LET current == Len(room)
           result == room[current].start
       IN /\ blocks' = [room EXCEPT ![current].start = RoundUp(result + size)]
          /\ allocations' = Append(allocations,
               [block |-> current, start |-> result, size |-> size])
  /\ UNCHANGED live

\* Where a next pointer has been written over, the walk over the list may
\* leave blocks behind or fault; none of them is used any more either way.
FreeArena ==
  /\ live
  /\ blocks' = <<>> /\ allocations' = <<>> /\ live' = FALSE

Next == (\E size \in Sizes : ArenaAllocate(size)) \/ FreeArena

Spec == Init /\ [][Next]_vars

-----------------------------------------------------------------------------
\* Every allocation is aligned for pointers, and for uint64_t but where it is
\* the first of its block: the array begins behind one pointer, which is no
\* multiple of eight where a pointer has four bytes, and only what comes after
\* an allocation is rounded (platform.c l. 69).
Aligned ==
  \A k \in DOMAIN allocations :
    LET a == allocations[k]
    IN /\ a.start % POINTER = 0
       /\ a.start % 8 # 0 => POINTER = 4 /\ a.start = ArenaOf(blocks[a.block])

Apart(a, b) == a.start + a.size <= b.start \/ b.start + b.size <= a.start

PastEnd(a) == a.start + a.size > EndOf(blocks[a.block])

\* The two pointers of a block, around its array.
Pointers(block) ==
  { [start |-> block.base, size |-> POINTER],
    [start |-> EndOf(block), size |-> POINTER] }

\* No byte of memory is handed out twice or is part of a pointer of a block,
\* wherever the blocks lie, but by an allocation that goes past the end of its
\* block (l. 57), and so into another or over the pointer behind the array.
Disjoint ==
  \A j \in DOMAIN allocations :
    LET a == allocations[j]
    IN /\ \A k \in DOMAIN allocations :
            LET b == allocations[k]
            IN j # k => \/ Apart(a, b)
                        \/ a.block # b.block /\ (PastEnd(a) \/ PastEnd(b))
       /\ ~PastEnd(a) =>
            \A k \in DOMAIN blocks : \A p \in Pointers(blocks[k]) : Apart(a, p)

\* No allocation goes past the end of its block.
InBlock == \A k \in DOMAIN allocations : ~PastEnd(allocations[k])

=============================================================================
