--------------------------- MODULE BuddyMemPool ---------------------------
(***************************************************************************)
(* MemoryManager (mllm/engine/MemoryManager.cpp) and the buddy allocator   *)
(* under it (mllm/engine/BuddyMemPool.cpp): segments, free lists by order, *)
(* split, merge and growth by a larger segment.                            *)
(*                                                                         *)
(* A block is its segment, its offset there and its order; it is 2^order   *)
(* bytes long. Segment capacities are powers of two, as by default. The    *)
(* small-object cache is off by default and nothing turns it on, so it is  *)
(* left out. Storages are allocated and freed by one thread.               *)
(***************************************************************************)
EXTENDS Integers, Sequences, FiniteSets, FiniteSetsExt

CONSTANTS
  Storages,     \* the storages of tensors
  Sizes,        \* their sizes, already aligned by allocSize()
  MinOrder,     \* buddy_min_order
  FirstOrder,   \* buddy_max_order: log2 of buddy_first_segment_cap
  LargestOrder, \* log2 of the largest segment (29 in the code)
  Threshold,    \* really_large_tensor_threshold
  MaxSegments   \* bound: segments the pool grows to

\* What the configuration of the pool must satisfy.
OrdersFit ==
  /\ MinOrder \in Nat /\ FirstOrder \in Nat /\ LargestOrder \in Nat
  /\ MinOrder <= FirstOrder /\ FirstOrder <= LargestOrder
  /\ LargestOrder <= 49

SizesFit ==
  Sizes \subseteq Nat \ {0} /\ Threshold \in Nat /\ Threshold <= 2^FirstOrder

VARIABLES
  segments,  \* by address: [id, order, used, free], free[o] the list of order o
  blocks     \* st_: the block of each allocated storage

vars == <<segments, blocks>>

-----------------------------------------------------------------------------
Allocated == DOMAIN blocks

\* A storage of at least Threshold bytes comes from the OS directly.
Large(size) == size >= Threshold

Orders(g) == MinOrder..g.order

\* _log2_ceil(), at least the minimal order. The code takes the logarithm of a double;
\* up to 2^49 it rounds to k only for 2^k itself, so that its ceiling is the exact
\* one for every size a segment can hold (OrdersFit).
OrderOf(size) == CHOOSE o \in MinOrder..LargestOrder :
                   2^o >= size /\ \A p \in MinOrder..(o - 1) : 2^p < size

NewSegment(id, order) ==
  [id |-> id, order |-> order, used |-> 0,
   free |-> [o \in MinOrder..order |-> IF o = order THEN <<0>> ELSE <<>>]]

Init ==
  /\ segments = <<NewSegment(1, FirstOrder)>>
  /\ blocks = [s \in {} |-> 0]

-----------------------------------------------------------------------------
Usable(g, size) == {o \in OrderOf(size)..g.order : g.free[o] # <<>>}

\* The segment has the bytes and, in some list, a block for them.
Fits(g, size) ==
  /\ (IF size < 2^MinOrder THEN 2^MinOrder ELSE size) <= 2^g.order - g.used
  /\ Usable(g, size) # {}

\* A mistake: the lower half goes to the free list, the upper one is used.
LowerHalf(off, o) == off

\* The half that a split of a block into two of order o leaves free.
FreeHalf(off, o) == off + 2^o

\* A mistake: the bytes asked for are counted, not those of the block.
ChargeSize(size) == size

Charge(size) == 2^OrderOf(size)

\* g after a block for size is taken: the first of the smallest usable order,
\* split until it has the right order.
Taken(g, size) ==
  LET o == OrderOf(size)
      top == Min(Usable(g, size))
      off == Head(g.free[top])
  IN [g EXCEPT
        !.used = @ + Charge(size),
        !.free = [p \in Orders(g) |->
          LET rest == IF p = top THEN Tail(g.free[p]) ELSE g.free[p]
          IN IF p \in o..(top - 1) THEN Append(rest, FreeHalf(off, p)) ELSE rest]]

BlockOf(g, size) ==
  [seg |-> g.id, off |-> Head(g.free[Min(Usable(g, size))]), order |-> OrderOf(size)]

Candidates(gs, size) == {i \in DOMAIN gs : Fits(gs[i], size)}

\* expandBuddySegment() doubles the largest capacity, up to a limit.
Grown == Min({Max({segments[i].order : i \in DOMAIN segments}) + 1, LargestOrder})

\* The segments with a new one, wherever the OS puts it.
Expansions ==
  LET g == NewSegment(Len(segments) + 1, Grown) IN
  {[i \in 1..(Len(segments) + 1) |->
      IF i < k THEN segments[i] ELSE IF i = k THEN g ELSE segments[i - 1]] :
   k \in 1..(Len(segments) + 1)}

\* alloc(s) in the segments gs, the first that fits.
TakeFrom(gs, s, size) ==
  LET i == Min(Candidates(gs, size)) IN
  /\ segments' = [gs EXCEPT ![i] = Taken(gs[i], size)]
  /\ blocks' = [t \in Allocated \cup {s} |->
       IF t = s THEN BlockOf(gs[i], size) ELSE blocks[t]]

Alloc(s, size) ==
  /\ s \notin Allocated
  /\ ~Large(size)
  /\ \/ Candidates(segments, size) # {} /\ TakeFrom(segments, s, size)
     \/ /\ Candidates(segments, size) = {}
        /\ Len(segments) < MaxSegments
        /\ \E gs \in Expansions : TakeFrom(gs, s, size)

\* A large storage, allocated around the pool: segment 0 stands for the OS.
AllocLarge(s, size) ==
  /\ s \notin Allocated
  /\ Large(size)
  /\ blocks' = [t \in Allocated \cup {s} |->
       IF t = s THEN [seg |-> 0, off |-> 0, order |-> 0] ELSE blocks[t]]
  /\ UNCHANGED segments

-----------------------------------------------------------------------------
Elements(list) == {list[i] : i \in DOMAIN list}

\* A mistake: the buddy is always looked for above the block.
BuddyAbove(off, o) == off + 2^o

\* The offset with bit o flipped.
Buddy(off, o) == IF (off \div 2^o) % 2 = 0 THEN off + 2^o ELSE off - 2^o

Base(off, o) == (off \div 2^o) * 2^o

\* The order a freed block of order o grows to by merging with free buddies.
MergedOrder(g, off, o) ==
  CHOOSE k \in o..g.order :
    /\ \A p \in o..(k - 1) : Buddy(Base(off, p), p) \in Elements(g.free[p])
    /\ k = g.order \/ Buddy(Base(off, k), k) \notin Elements(g.free[k])

Without(list, x) == SelectSeq(list, LAMBDA y : y # x)

\* g after freeBuddy().
Released(g, b) ==
  LET k == MergedOrder(g, b.off, b.order) IN
  [g EXCEPT
     !.used = @ - 2^b.order,
     !.free = [p \in Orders(g) |->
       IF p \in b.order..(k - 1) THEN Without(g.free[p], Buddy(Base(b.off, p), p))
       ELSE IF p = k THEN Append(g.free[p], Base(b.off, k))
       ELSE g.free[p]]]

Free(s) ==
  /\ s \in Allocated
  /\ segments' = [i \in DOMAIN segments |->
       IF segments[i].id = blocks[s].seg THEN Released(segments[i], blocks[s])
       ELSE segments[i]]
  /\ blocks' = [t \in Allocated \ {s} |-> blocks[t]]

Next ==
  \E s \in Storages :
    \/ \E size \in Sizes : Alloc(s, size) \/ AllocLarge(s, size)
    \/ Free(s)

Spec == Init /\ [][Next]_vars

-----------------------------------------------------------------------------
\* The blocks of a segment, free and used, as offset and order.
FreeBlocks(g) == {<<off, o>> \in (0..(2^g.order - 1)) \X Orders(g) : off \in Elements(g.free[o])}

UsedBlocks(g) == {<<blocks[s].off, blocks[s].order>> : s \in {t \in Allocated : blocks[t].seg = g.id}}

Bytes(B) == UNION {b[1]..(b[1] + 2^b[2] - 1) : b \in B}

Size(B) == MapThenSumSet(LAMBDA b : 2^b[2], B)

\* The blocks of a segment, free and used, cover it exactly: no two overlap, none
\* is lost, whatever was split and merged in which order; and no two storages
\* share one.
Tiled ==
  \A i \in DOMAIN segments :
    LET g == segments[i]
        B == FreeBlocks(g) \cup UsedBlocks(g)
    IN /\ Bytes(B) = 0..(2^g.order - 1)
       /\ Size(B) = 2^g.order
       /\ \A s, t \in Allocated :
            s # t /\ blocks[s].seg = g.id /\ blocks[t].seg = g.id => blocks[s].off # blocks[t].off

\* used, on which alloc() bases its choice of the segment, counts the bytes of
\* the used blocks, so a segment with room is never passed over.
UsedExact ==
  \A i \in DOMAIN segments : segments[i].used = Size(UsedBlocks(segments[i]))

\* Free buddies never stay apart: memory freed in any order merges back, and an
\* unused segment is one block again.
Coalesced ==
  \A i \in DOMAIN segments :
    \A o \in MinOrder..(segments[i].order - 1) :
      \A off \in Elements(segments[i].free[o]) :
        Buddy(off, o) \notin Elements(segments[i].free[o])
=============================================================================
