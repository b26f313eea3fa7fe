------------------------- MODULE AscendMemoryPool -------------------------
(***************************************************************************)
(* The device memory of the Ascend backend: AscendMemoryPool (best fit     *)
(* among freed blocks, else the next bytes of the pool; blocks are never   *)
(* split or merged) and AscendAllocator, which maps pointers of storages   *)
(* to block ids (mllm/backends/ascend/memory/AscendMemoryPool.cpp,         *)
(* mllm/backends/ascend/AscendAllocator.cpp). The pool and the map each    *)
(* have a mutex; alloc() and free() take one after the other.              *)
(***************************************************************************)
EXTENDS Integers, FiniteSets, FiniteSetsExt

CONSTANTS
  Threads,   \* threads that allocate and free
  Storages,  \* storages of tensors
  Sizes,     \* their sizes in bytes
  PoolSize   \* bytes of the pool

ASSUME SizesAssumption == Sizes \subseteq Nat
\* Blocks are made of 32 bytes, and so is the pool.
ASSUME PoolSizeAssumption == PoolSize \in Nat /\ PoolSize % 32 = 0

VARIABLES
  remain,   \* remain_size_
  cur,      \* cur_mem_ptr_, from the start of the pool
  used,     \* used_blocks_: block id -> [size, addr]
  free,     \* free_blocks_, likewise
  map,      \* storage_to_block_id_: address -> block id
  ptr,      \* ptr[s]: Storage::ptr_, -1 for none
  thread    \* thread[t]: [pc, s, block], a call under way

vars == <<remain, cur, used, free, map, ptr, thread>>

None == -1

NextId == Cardinality(DOMAIN used) + Cardinality(DOMAIN free)

Put(f, x, y) == [z \in DOMAIN f \cup {x} |-> IF z = x THEN y ELSE f[z]]

Drop(f, x) == [z \in DOMAIN f \ {x} |-> f[z]]

RoundUp(n, a) == ((n + a - 1) \div a) * a

\* The bytes of a block for a storage: 32 more than the aligned size.
AlignSize(size) == RoundUp(size, 32) + 32

Empty == [x \in {} |-> 0]

Init ==
  /\ remain = PoolSize /\ cur = 0
  /\ used = Empty /\ free = Empty /\ map = Empty
  /\ ptr = [s \in Storages |-> None]
  /\ thread = [t \in Threads |-> [pc |-> "idle", s |-> CHOOSE s \in Storages : TRUE, block |-> None]]

Busy(s) == \E t \in Threads : thread[t].pc # "idle" /\ thread[t].s = s

Goto(t, pc, s, block) == thread' = [thread EXCEPT ![t] = [pc |-> pc, s |-> s, block |-> block]]

-----------------------------------------------------------------------------
Large(n) == {b \in DOMAIN free : free[b].size >= n}

\* The smallest that is large enough; the map decides among equals.
BestFit(n) == {b \in Large(n) : \A c \in Large(n) : free[b].size <= free[c].size}

\* A mistake: the room that is left is compared without the aligned bytes.
RoomUnaligned(n) == remain + 32 > n

Room(n) == remain > n

\* allocateBlock() with the rest of the pool: the start is aligned to 64 bytes.
Carve(n) ==
  LET start == RoundUp(cur, 64) IN
  /\ used' = Put(used, NextId, [size |-> n, addr |-> start])
  /\ remain' = remain - (start - cur) - n
  /\ cur' = start + n

\* AscendAllocator::alloc(s): allocateBlock().
AllocateBlock(t, s, size) ==
  LET n == AlignSize(size) IN
  /\ thread[t].pc = "idle" /\ ptr[s] = None /\ ~Busy(s)
  /\ \/ \E b \in BestFit(n) :
          /\ used' = Put(used, b, free[b])
          /\ free' = Drop(free, b)
          /\ Goto(t, "pointer", s, b)
          /\ UNCHANGED <<remain, cur>>
     \/ /\ Large(n) = {}
        /\ Room(n)
        /\ Carve(n)
        /\ Goto(t, "pointer", s, NextId)
        /\ UNCHANGED free
  /\ UNCHANGED <<map, ptr>>

\* getBlockPtr()
GetBlockPtr(t) ==
  LET k == thread[t] IN
  /\ k.pc = "pointer"
  /\ ptr' = [ptr EXCEPT ![k.s] = used[k.block].addr]
  /\ Goto(t, "map", k.s, k.block)
  /\ UNCHANGED <<remain, cur, used, free, map>>

MapStorage(t) ==
  LET k == thread[t] IN
  /\ k.pc = "map"
  /\ map' = Put(map, ptr[k.s], k.block)
  /\ Goto(t, "idle", k.s, None)
  /\ UNCHANGED <<remain, cur, used, free, ptr>>

\* No free block is large enough, and the pool is used up: alloc() fails.
AllocFails(t, s, size) ==
  /\ thread[t].pc = "idle" /\ ptr[s] = None /\ ~Busy(s)
  /\ Large(AlignSize(size)) = {}
  /\ ~Room(AlignSize(size))
  /\ UNCHANGED vars

-----------------------------------------------------------------------------
\* AscendAllocator::free(s): the mapping goes first, then the block, then ptr_.
Unmap(t, s) ==
  /\ thread[t].pc = "idle" /\ ptr[s] # None /\ ~Busy(s)
  /\ map' = Drop(map, ptr[s])
  /\ Goto(t, "free", s, IF ptr[s] \in DOMAIN map THEN map[ptr[s]] ELSE None)
  /\ UNCHANGED <<remain, cur, used, free, ptr>>

\* A mistake: the block is copied to the free list but stays in use.
StaysUsed(b) == used

Unused(b) == Drop(used, b)

FreeBlock(t) ==
  LET k == thread[t] IN
  /\ k.pc = "free"
  /\ IF k.block \in DOMAIN used
     THEN free' = Put(free, k.block, used[k.block]) /\ used' = Unused(k.block)
     ELSE UNCHANGED <<free, used>>
  /\ Goto(t, "clear", k.s, None)
  /\ UNCHANGED <<remain, cur, map, ptr>>

ClearPtr(t) ==
  LET k == thread[t] IN
  /\ k.pc = "clear"
  /\ ptr' = [ptr EXCEPT ![k.s] = None]
  /\ Goto(t, "idle", k.s, None)
  /\ UNCHANGED <<remain, cur, used, free, map>>

Next ==
  \E t \in Threads :
    \/ \E s \in Storages :
         \/ \E size \in Sizes : AllocateBlock(t, s, size) \/ AllocFails(t, s, size)
         \/ Unmap(t, s)
    \/ GetBlockPtr(t) \/ MapStorage(t) \/ FreeBlock(t) \/ ClearPtr(t)

Spec == Init /\ [][Next]_vars

-----------------------------------------------------------------------------
AllBlocks == {used[b] : b \in DOMAIN used} \cup {free[b] : b \in DOMAIN free}

\* Blocks, used or free, lie inside the pool and share no bytes: the room is
\* compared with remain_size_ before the start is aligned, and still no block ends
\* past the pool, whatever was freed and taken again in between.
BlocksApart ==
  /\ DOMAIN used \cap DOMAIN free = {}
  /\ \A b \in AllBlocks : b.addr + b.size <= PoolSize
  /\ \A b, c \in AllBlocks : b # c => b.addr + b.size <= c.addr \/ c.addr + c.size <= b.addr
  /\ Cardinality(AllBlocks) = NextId
  /\ remain = PoolSize - cur

\* A storage that no call is working on owns the block at its address: the map
\* knows it, so that free() can give it back, and the block is in use, by no other
\* storage. And a block in use belongs to a storage or to a call: none leaks.
StoragesMatchBlocks ==
  /\ \A s \in Storages :
       ptr[s] # None /\ ~Busy(s) =>
         /\ ptr[s] \in DOMAIN map
         /\ map[ptr[s]] \in DOMAIN used
         /\ used[map[ptr[s]]].addr = ptr[s]
         /\ \A u \in Storages \ {s} : ptr[u] # ptr[s] \/ Busy(u)
  /\ \A b \in DOMAIN used :
       \/ \E a \in DOMAIN map : map[a] = b
       \/ \E t \in Threads : thread[t].block = b
=============================================================================
