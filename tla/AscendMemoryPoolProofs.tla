---------------------- MODULE AscendMemoryPoolProofs ----------------------
(***************************************************************************)
(* Proofs about AscendMemoryPool, for any threads, storages, sizes and     *)
(* pool. The two properties need each other's strengthenings:              *)
(*   - PoolInv speaks of the pool alone: block ids are 0, 1, ... in the    *)
(*     order they were carved, every block is made of 32-byte units and    *)
(*     ends below cur, which is made of such units too;                    *)
(*   - CallInv speaks of the calls between the two mutexes: the block of a *)
(*     call under way is in use, in no entry of the map and in no other    *)
(*     call, and an entry of the map leads to the block at its address.    *)
(***************************************************************************)
EXTENDS AscendMemoryPool, FiniteSetTheorems, TLAPS

Ids == DOMAIN used \cup DOMAIN free

Block(b) == IF b \in DOMAIN used THEN used[b] ELSE free[b]

Below(x, y) == x.addr + x.size <= y.addr

\* Ids are given in order, so the next one is new.
Numbered ==
  /\ DOMAIN used \cap DOMAIN free = {}
  /\ NextId \in Nat
  /\ Ids = 0..(NextId - 1)

\* cur splits the pool, and all is measured in units of 32 bytes.
Bump ==
  /\ cur \in Nat /\ cur <= PoolSize /\ cur % 32 = 0
  /\ remain = PoolSize - cur

\* Every block was carved below cur.
Carved ==
  \A b \in Ids :
    /\ Block(b) \in [size : Nat, addr : Nat]
    /\ Block(b).size > 0
    /\ Block(b).addr + Block(b).size <= cur

Apart ==
  \A b, c \in Ids : b # c => Below(Block(b), Block(c)) \/ Below(Block(c), Block(b))

PoolInv == Numbered /\ Bump /\ Carved /\ Apart

Phases == {"idle", "pointer", "map", "free", "clear"}

Types ==
  /\ ptr \in [Storages -> Int]
  /\ thread \in [Threads -> [pc : Phases, s : Storages \cup {CHOOSE s \in Storages : TRUE},
                             block : Int]]
  /\ \A t \in Threads : thread[t].pc # "idle" => thread[t].s \in Storages

\* The phases of a call in which it alone knows its block.
Holding(t) == thread[t].pc \in {"pointer", "map", "free"}

\* One call at a time works on a storage.
OneCall ==
  \A t, u \in Threads :
    thread[t].pc # "idle" /\ thread[u].pc # "idle" /\ thread[t].s = thread[u].s => t = u

\* A block in a call's hands is in use, and in nobody else's.
InHand ==
  \A t \in Threads :
    IF Holding(t)
    THEN /\ thread[t].block \in DOMAIN used
         /\ \A a \in DOMAIN map : map[a] # thread[t].block
         /\ \A u \in Threads : Holding(u) /\ thread[u].block = thread[t].block => u = t
    ELSE thread[t].block = None

\* The pointer of a storage that a call works on.
Pointers ==
  \A t \in Threads :
    /\ thread[t].pc = "pointer" => ptr[thread[t].s] = None
    /\ thread[t].pc \in {"map", "free"} => ptr[thread[t].s] = used[thread[t].block].addr

\* An entry of the map leads to the used block at its address.
Entries == \A a \in DOMAIN map : map[a] \in DOMAIN used /\ used[map[a]].addr = a

\* A storage at rest has an entry, and shares it with no other.
Resting(s) == ptr[s] # None /\ ~Busy(s)

AtRest ==
  /\ \A s \in Storages : Resting(s) => ptr[s] \in DOMAIN map
  /\ \A s, u \in Storages : Resting(s) /\ Resting(u) /\ ptr[s] = ptr[u] => s = u

\* No used block leaks.
Known ==
  \A b \in DOMAIN used :
    \/ \E a \in DOMAIN map : map[a] = b
    \/ \E t \in Threads : Holding(t) /\ thread[t].block = b

CallInv == Types /\ OneCall /\ InHand /\ Pointers /\ Entries /\ AtRest /\ Known

IInv == PoolInv /\ CallInv
-----------------------------------------------------------------------------
\* The two lists of blocks are finite.
LEMMA ListsFinite ==
  ASSUME Numbered
  PROVE  /\ IsFiniteSet(DOMAIN used) /\ IsFiniteSet(DOMAIN free)
         /\ Cardinality(DOMAIN used) \in Nat /\ Cardinality(DOMAIN free) \in Nat
<1>1. IsFiniteSet(Ids)
  BY FS_Interval DEF Numbered
<1>2. IsFiniteSet(DOMAIN used) /\ IsFiniteSet(DOMAIN free)
  BY <1>1, FS_Subset DEF Ids
<1>. QED BY <1>2, FS_CardinalityType

\* A block that only changes lists: the blocks as a whole stay what they are.
LEMMA SameBlocks ==
  ASSUME PoolInv, Ids' = Ids, NextId' = NextId, DOMAIN used' \cap DOMAIN free' = {},
         \A b \in Ids : Block(b)' = Block(b),
         UNCHANGED <<remain, cur>>
  PROVE  PoolInv'
<1>1. Numbered'
  BY DEF PoolInv, Numbered
<1>2. Bump'
  BY DEF PoolInv, Bump
<1>3. Carved'
  BY DEF PoolInv, Carved
<1>4. Apart'
  BY DEF PoolInv, Apart, Below
<1>. QED BY <1>1, <1>2, <1>3, <1>4 DEF PoolInv

\* allocateBlock() with a freed block.
LEMMA ReusePool ==
  ASSUME PoolInv, NEW b \in DOMAIN free,
         used' = Put(used, b, free[b]), free' = Drop(free, b), UNCHANGED <<remain, cur>>
  PROVE  PoolInv'
<1>1. /\ DOMAIN used' = DOMAIN used \cup {b} /\ used'[b] = free[b]
      /\ \A z \in DOMAIN used : z # b => used'[z] = used[z]
  BY DEF Put
<1>2. /\ DOMAIN free' = DOMAIN free \ {b}
      /\ \A z \in DOMAIN free : z # b => free'[z] = free[z]
  BY DEF Drop
<1>3. DOMAIN used \cap DOMAIN free = {}
  BY DEF PoolInv, Numbered
<1>4. Ids' = Ids /\ DOMAIN used' \cap DOMAIN free' = {}
  BY <1>1, <1>2, <1>3 DEF Ids
<1>5. NextId' = NextId
  <2>1. /\ IsFiniteSet(DOMAIN used) /\ IsFiniteSet(DOMAIN free)
        /\ Cardinality(DOMAIN used) \in Nat /\ Cardinality(DOMAIN free) \in Nat
    BY ListsFinite DEF PoolInv
  <2>2. Cardinality(DOMAIN used') = Cardinality(DOMAIN used) + 1
    BY <1>1, <1>3, <2>1, FS_AddElement
  <2>3. Cardinality(DOMAIN free') = Cardinality(DOMAIN free) - 1
    BY <1>2, <2>1, FS_RemoveElement
  <2>. QED BY <2>1, <2>2, <2>3 DEF NextId
<1>6. \A c \in Ids : Block(c)' = Block(c)
  BY <1>1, <1>2, <1>3 DEF Ids, Block
<1>. QED BY <1>4, <1>5, <1>6, SameBlocks

\* freeBlock(): the same, the other way round.
LEMMA GivePool ==
  ASSUME PoolInv, NEW b \in DOMAIN used,
         free' = Put(free, b, used[b]), used' = Drop(used, b), UNCHANGED <<remain, cur>>
  PROVE  PoolInv'
<1>1. /\ DOMAIN free' = DOMAIN free \cup {b} /\ free'[b] = used[b]
      /\ \A z \in DOMAIN free : z # b => free'[z] = free[z]
  BY DEF Put
<1>2. /\ DOMAIN used' = DOMAIN used \ {b}
      /\ \A z \in DOMAIN used : z # b => used'[z] = used[z]
  BY DEF Drop
<1>3. DOMAIN used \cap DOMAIN free = {}
  BY DEF PoolInv, Numbered
<1>4. Ids' = Ids /\ DOMAIN used' \cap DOMAIN free' = {}
  BY <1>1, <1>2, <1>3 DEF Ids
<1>5. NextId' = NextId
  <2>1. /\ IsFiniteSet(DOMAIN used) /\ IsFiniteSet(DOMAIN free)
        /\ Cardinality(DOMAIN used) \in Nat /\ Cardinality(DOMAIN free) \in Nat
    BY ListsFinite DEF PoolInv
  <2>2. Cardinality(DOMAIN free') = Cardinality(DOMAIN free) + 1
    BY <1>1, <1>3, <2>1, FS_AddElement
  <2>3. Cardinality(DOMAIN used') = Cardinality(DOMAIN used) - 1
    BY <1>2, <2>1, FS_RemoveElement
  <2>. QED BY <2>1, <2>2, <2>3 DEF NextId
<1>6. \A c \in Ids : Block(c)' = Block(c)
  BY <1>1, <1>2, <1>3 DEF Ids, Block
<1>. QED BY <1>4, <1>5, <1>6, SameBlocks

\* The bytes of a block are a positive number of units.
LEMMA AlignSizeIs ==
  ASSUME NEW size \in Nat
  PROVE  AlignSize(size) \in Nat /\ AlignSize(size) > 0 /\ AlignSize(size) % 32 = 0
BY DEF AlignSize, RoundUp

\* The room that is left is compared before the start is aligned. The alignment
\* takes at most one unit, and comparing with > leaves one unit to spare.
LEMMA CarveFits ==
  ASSUME Bump, NEW n \in Nat, n % 32 = 0, Room(n)
  PROVE  LET start == RoundUp(cur, 64) IN
           /\ start \in Nat /\ cur <= start
           /\ start + n <= PoolSize
           /\ (start + n) % 32 = 0
<1>1. /\ cur \in Nat /\ PoolSize \in Nat
      /\ cur % 32 = 0 /\ PoolSize % 32 = 0
      /\ n < PoolSize - cur
  BY PoolSizeAssumption DEF Bump, Room
<1>2. n + 32 <= PoolSize - cur
  BY <1>1
<1>3. /\ RoundUp(cur, 64) \in Nat /\ cur <= RoundUp(cur, 64)
      /\ RoundUp(cur, 64) <= cur + 32 /\ RoundUp(cur, 64) % 32 = 0
  BY <1>1 DEF RoundUp
<1>4. \A x \in Nat : x % 32 = 0 => (x + n) % 32 = 0
  OBVIOUS
<1>. QED BY <1>1, <1>2, <1>3, <1>4

\* allocateBlock() with the rest of the pool.
LEMMA CarvePool ==
  ASSUME PoolInv, NEW n \in Nat, n > 0, n % 32 = 0, Room(n), Carve(n), UNCHANGED free
  PROVE  PoolInv' /\ NextId \notin Ids
<1>. DEFINE start == RoundUp(cur, 64)
            new == [size |-> n, addr |-> start]
<1>a. PICK id : id = NextId
  OBVIOUS
<1>0. start \in Nat /\ cur <= start /\ start + n <= PoolSize /\ (start + n) % 32 = 0
  BY CarveFits DEF PoolInv
<1>1. /\ used' = Put(used, id, new)
      /\ remain' = remain - (start - cur) - n
      /\ cur' = start + n
  BY <1>a DEF Carve
<1>2. id \in Nat /\ Ids = 0..(id - 1) /\ DOMAIN used \cap DOMAIN free = {}
  BY <1>a DEF PoolInv, Numbered
<1>3. id \notin Ids
  BY <1>2
<1>. HIDE DEF start
<1>4. /\ DOMAIN used' = DOMAIN used \cup {id} /\ used'[id] = new
      /\ \A z \in DOMAIN used : z # id => used'[z] = used[z]
  <2>. HIDE DEF new
  <2>. QED BY <1>1 DEF Put
<1>5. Ids' = Ids \cup {id} /\ DOMAIN used' \cap DOMAIN free' = {}
  BY <1>2, <1>3, <1>4 DEF Ids
<1>6. NextId' = id + 1
  <2>1. /\ IsFiniteSet(DOMAIN used)
        /\ Cardinality(DOMAIN used) \in Nat /\ Cardinality(DOMAIN free) \in Nat
    BY ListsFinite DEF PoolInv
  <2>2. Cardinality(DOMAIN used') = Cardinality(DOMAIN used) + 1
    BY <1>3, <1>4, <2>1, FS_AddElement DEF Ids
  <2>. QED BY <1>a, <2>1, <2>2 DEF NextId
<1>7. Numbered'
  <2>1. Ids' = 0..id
    BY <1>2, <1>5
  <2>. QED BY <1>2, <1>5, <1>6, <2>1 DEF Numbered
<1>8. Bump'
  BY <1>0, <1>1, PoolSizeAssumption DEF PoolInv, Bump
<1>9. Block(id)' = new /\ \A c \in Ids : Block(c)' = Block(c)
  BY <1>3, <1>4 DEF Ids, Block
<1>10. new \in [size : Nat, addr : Nat] /\ new.size = n /\ new.addr = start
  BY <1>0
<1>11. cur \in Nat /\ cur <= cur'
  BY <1>0, <1>1 DEF PoolInv, Bump
<1>. HIDE DEF new
<1>12. Carved'
  <2>1. ASSUME NEW b \in Ids
        PROVE  /\ Block(b)' \in [size : Nat, addr : Nat]
               /\ Block(b)'.size > 0
               /\ Block(b)'.addr + Block(b)'.size <= cur'
    BY <1>1, <1>9, <1>11 DEF PoolInv, Carved
  <2>2. /\ Block(id)' \in [size : Nat, addr : Nat]
        /\ Block(id)'.size > 0
        /\ Block(id)'.addr + Block(id)'.size <= cur'
    BY <1>0, <1>1, <1>9, <1>10
  <2>. QED BY <1>5, <2>1, <2>2 DEF Carved
<1>13. Apart'
  <2>1. ASSUME NEW b \in Ids PROVE Below(Block(b)', Block(id)')
    BY <1>0, <1>9, <1>10, <1>11 DEF PoolInv, Carved, Below
  <2>2. ASSUME NEW b \in Ids, NEW c \in Ids, b # c
        PROVE  Below(Block(b)', Block(c)') \/ Below(Block(c)', Block(b)')
    BY <2>2, <1>9 DEF PoolInv, Apart
  <2>. QED BY <1>5, <2>1, <2>2 DEF Apart, Below
<1>. QED BY <1>a, <1>3, <1>7, <1>8, <1>12, <1>13 DEF PoolInv
\* Blocks of an id each, apart from one another, are as many as the ids.
LEMMA BlocksCounted ==
  ASSUME PoolInv
  PROVE  Cardinality(AllBlocks) = NextId
<1>. DEFINE f == [b \in Ids |-> Block(b)]
<1>1. AllBlocks = {Block(b) : b \in Ids}
  BY DEF AllBlocks, Ids, Block, PoolInv, Numbered
<1>2. f \in [Ids -> AllBlocks]
  BY <1>1
<1>3. \A x \in AllBlocks : \E b \in Ids : f[b] = x
  BY <1>1
<1>4. ASSUME NEW b \in Ids, NEW c \in Ids, f[b] = f[c] PROVE b = c
  <2>1. Block(b) = Block(c) /\ Block(b).size \in Nat /\ Block(b).addr \in Nat /\ Block(b).size > 0
    BY <1>4 DEF PoolInv, Carved
  <2>2. ~Below(Block(b), Block(c)) /\ ~Below(Block(c), Block(b))
    BY <2>1 DEF Below
  <2>. QED BY <2>2 DEF PoolInv, Apart
<1>5. f \in Bijection(Ids, AllBlocks)
  <2>. HIDE DEF f
  <2>1. f \in Injection(Ids, AllBlocks)
    BY <1>2, <1>4 DEF Injection, IsInjective
  <2>2. f \in Surjection(Ids, AllBlocks)
    BY <1>2, <1>3 DEF Surjection
  <2>. QED BY <2>1, <2>2 DEF Bijection
<1>6. IsFiniteSet(Ids) /\ Cardinality(Ids) = NextId
  BY FS_Interval DEF PoolInv, Numbered
<1>7. ExistsBijection(Ids, AllBlocks)
  BY <1>5 DEF ExistsBijection
<1>. QED BY <1>6, <1>7, FS_Bijection

\* The pool's part of the invariant says more than BlocksApart.
LEMMA PoolApart == PoolInv => BlocksApart
<1>. SUFFICES ASSUME PoolInv PROVE BlocksApart
  OBVIOUS
<1>1. AllBlocks = {Block(b) : b \in Ids}
  BY DEF AllBlocks, Ids, Block, PoolInv, Numbered
<1>2. ASSUME NEW x \in AllBlocks PROVE x.addr + x.size <= PoolSize
  <2>1. PICK b \in Ids : x = Block(b)
    BY <1>1
  <2>. QED BY <2>1, PoolSizeAssumption DEF PoolInv, Carved, Bump
<1>3. ASSUME NEW x \in AllBlocks, NEW y \in AllBlocks, x # y
      PROVE  x.addr + x.size <= y.addr \/ y.addr + y.size <= x.addr
  <2>1. PICK b \in Ids : x = Block(b)
    BY <1>1
  <2>2. PICK c \in Ids : y = Block(c)
    BY <1>1
  <2>. QED BY <1>3, <2>1, <2>2 DEF PoolInv, Apart, Below
<1>4. DOMAIN used \cap DOMAIN free = {} /\ remain = PoolSize - cur
  BY DEF PoolInv, Numbered, Bump
<1>. QED BY <1>2, <1>3, <1>4, BlocksCounted DEF BlocksApart

\* Two used blocks have two addresses, all of them real ones.
LEMMA AddressesDiffer ==
  ASSUME PoolInv
  PROVE  /\ \A b \in DOMAIN used : b \in Nat /\ used[b].addr \in Nat
         /\ \A b, c \in DOMAIN used : used[b].addr = used[c].addr => b = c
<1>1. ASSUME NEW b \in DOMAIN used
      PROVE  b \in Ids /\ Block(b) = used[b] /\ used[b].addr \in Nat
                       /\ used[b].size \in Nat /\ used[b].size > 0
  BY DEF PoolInv, Carved, Ids, Block
<1>2. ASSUME NEW b \in DOMAIN used, NEW c \in DOMAIN used, used[b].addr = used[c].addr
      PROVE  b = c
  <2>1. ~Below(Block(b), Block(c)) /\ ~Below(Block(c), Block(b))
    BY <1>1, <1>2 DEF Below
  <2>. QED BY <1>1, <2>1 DEF PoolInv, Apart
<1>3. \A b \in Ids : b \in Nat
  BY DEF PoolInv, Numbered
<1>. QED BY <1>1, <1>2, <1>3

-----------------------------------------------------------------------------
\* A step of one call leaves the others where they are.
LEMMA GotoIs ==
  ASSUME Types, NEW t \in Threads, NEW pc \in Phases, NEW s \in Storages, NEW b \in Int,
         Goto(t, pc, s, b)
  PROVE  /\ thread' \in [Threads -> [pc : Phases, s : Storages \cup {CHOOSE x \in Storages : TRUE},
                                     block : Int]]
         /\ thread'[t].pc = pc /\ thread'[t].s = s /\ thread'[t].block = b
         /\ \A u \in Threads : u # t => thread'[u] = thread[u]
         /\ \A u \in Threads : thread'[u].pc # "idle" => thread'[u].s \in Storages
<1>1. thread \in [Threads -> [pc : Phases, s : Storages \cup {CHOOSE x \in Storages : TRUE},
                              block : Int]]
  BY DEF Types
<1>. DEFINE r == [pc |-> pc, s |-> s, block |-> b]
<1>2. /\ r \in [pc : Phases, s : Storages \cup {CHOOSE x \in Storages : TRUE}, block : Int]
      /\ r.pc = pc /\ r.s = s /\ r.block = b
  OBVIOUS
<1>3. thread' = [thread EXCEPT ![t] = r]
  BY DEF Goto
<1>. HIDE DEF r
<1>4. /\ thread' \in [Threads -> [pc : Phases, s : Storages \cup {CHOOSE x \in Storages : TRUE},
                                  block : Int]]
      /\ thread'[t] = r
      /\ \A u \in Threads : u # t => thread'[u] = thread[u]
  BY <1>1, <1>2, <1>3
<1>5. ASSUME NEW u \in Threads, thread'[u].pc # "idle" PROVE thread'[u].s \in Storages
  BY <1>2, <1>4, <1>5 DEF Types
<1>. QED BY <1>2, <1>4, <1>5

\* allocateBlock(), from either place: a block that was not in use comes into the
\* hands of the call.
LEMMA HoldNew ==
  ASSUME CallInv, NEW t \in Threads, NEW s \in Storages, NEW b \in Int,
         thread[t].pc = "idle", ptr[s] = None, ~Busy(s),
         Goto(t, "pointer", s, b), UNCHANGED <<map, ptr>>,
         b \notin DOMAIN used, DOMAIN used' = DOMAIN used \cup {b},
         \A z \in DOMAIN used : used'[z] = used[z]
  PROVE  CallInv'
<1>1. /\ thread' \in [Threads -> [pc : Phases, s : Storages \cup {CHOOSE x \in Storages : TRUE},
                                  block : Int]]
      /\ thread'[t].pc = "pointer" /\ thread'[t].s = s /\ thread'[t].block = b
      /\ \A u \in Threads : u # t => thread'[u] = thread[u]
      /\ \A u \in Threads : thread'[u].pc # "idle" => thread'[u].s \in Storages
  BY GotoIs DEF CallInv, Phases
<1>2. Types'
  BY <1>1 DEF CallInv, Types
<1>3. OneCall'
  BY <1>1 DEF CallInv, OneCall, Busy
<1>4. /\ Holding(t)' /\ ~Holding(t)
      /\ \A u \in Threads : u # t => (Holding(u)' <=> Holding(u))
  BY <1>1 DEF Holding
<1>5. Entries'
  BY DEF CallInv, Entries
<1>6. InHand'
  <2>1. \A u \in Threads : Holding(u) => thread[u].block # b
    BY DEF CallInv, InHand
  <2>2. \A a \in DOMAIN map : map[a] # b
    BY DEF CallInv, Entries
  <2>. QED BY <1>1, <1>4, <2>1, <2>2 DEF CallInv, InHand
<1>7. Pointers'
  <2>1. \A u \in Threads : thread[u].pc \in {"map", "free"} => thread[u].block \in DOMAIN used
    BY DEF CallInv, InHand, Holding
  <2>. QED BY <1>1, <2>1 DEF CallInv, Pointers
<1>8. AtRest'
  <2>1. \A u \in Storages : Busy(u) => Busy(u)'
    BY <1>1 DEF Busy
  <2>2. \A u \in Storages : Resting(u)' => Resting(u)
    BY <2>1 DEF Resting
  <2>. QED BY <2>2 DEF CallInv, AtRest
<1>9. Known'
  <2>1. ASSUME NEW u \in Threads, Holding(u) PROVE Holding(u)' /\ thread'[u].block = thread[u].block
    BY <1>1, <1>4, <2>1
  <2>. QED BY <1>1, <1>4, <2>1 DEF CallInv, Known
<1>. QED BY <1>2, <1>3, <1>5, <1>6, <1>7, <1>8, <1>9 DEF CallInv
\* What Goto says of a call that goes on with its storage and its block.
LEMMA GoesOn ==
  ASSUME CallInv, NEW t \in Threads, thread[t].pc # "idle", NEW pc \in Phases, NEW b \in Int,
         Goto(t, pc, thread[t].s, b)
  PROVE  /\ Types' \/ ptr' \notin [Storages -> Int]
         /\ thread'[t].pc = pc /\ thread'[t].s = thread[t].s /\ thread'[t].block = b
         /\ \A u \in Threads : u # t => thread'[u] = thread[u]
         /\ OneCall'
<1>1. thread[t].s \in Storages
  BY DEF CallInv, Types
<1>2. /\ thread' \in [Threads -> [pc : Phases, s : Storages \cup {CHOOSE x \in Storages : TRUE},
                                  block : Int]]
      /\ thread'[t].pc = pc /\ thread'[t].s = thread[t].s /\ thread'[t].block = b
      /\ \A u \in Threads : u # t => thread'[u] = thread[u]
      /\ \A u \in Threads : thread'[u].pc # "idle" => thread'[u].s \in Storages
  <2>1. PICK s \in Storages : s = thread[t].s
    BY <1>1
  <2>2. Types /\ Goto(t, pc, s, b)
    BY <2>1 DEF CallInv
  <2>. QED BY <2>1, <2>2, GotoIs
<1>3. Types' \/ ptr' \notin [Storages -> Int]
  BY <1>2 DEF Types
<1>4. OneCall'
  BY <1>2 DEF CallInv, OneCall
<1>. QED BY <1>2, <1>3, <1>4

\* getBlockPtr(): the storage, still in the call's hands, gets the block's address.
LEMMA GetBlockPtrCalls ==
  ASSUME PoolInv, CallInv, NEW t \in Threads, GetBlockPtr(t)
  PROVE  CallInv'
<1>. DEFINE s == thread[t].s
            b == thread[t].block
<1>1. /\ thread[t].pc = "pointer"
      /\ ptr' = [ptr EXCEPT ![s] = used[b].addr]
      /\ Goto(t, "map", s, b)
      /\ UNCHANGED <<used, map>>
  BY DEF GetBlockPtr
<1>2. b \in DOMAIN used /\ b \in Int /\ s \in Storages /\ used[b].addr \in Int
  <2>1. b \in DOMAIN used
    BY <1>1 DEF CallInv, InHand, Holding
  <2>. QED BY <1>1, <2>1, AddressesDiffer DEF CallInv, Types
<1>3. /\ Types' \/ ptr' \notin [Storages -> Int]
      /\ thread'[t].pc = "map" /\ thread'[t].s = s /\ thread'[t].block = b
      /\ \A u \in Threads : u # t => thread'[u] = thread[u]
      /\ OneCall'
  BY <1>1, <1>2, GoesOn DEF Phases
<1>4. /\ ptr' \in [Storages -> Int] /\ ptr'[s] = used[b].addr
      /\ \A u \in Storages : u # s => ptr'[u] = ptr[u]
  BY <1>1, <1>2 DEF CallInv, Types
<1>5. Entries'
  BY <1>1 DEF CallInv, Entries
<1>6. /\ Holding(t) /\ Holding(t)'
      /\ \A u \in Threads : (Holding(u)' <=> Holding(u)) /\ thread'[u].block = thread[u].block
  BY <1>1, <1>3 DEF Holding
<1>7. InHand'
  BY <1>1, <1>6 DEF CallInv, InHand
<1>8. Pointers'
  <2>1. \A u \in Threads : u # t /\ thread[u].pc # "idle" => thread[u].s # s /\ thread[u].s \in Storages
    BY <1>1 DEF CallInv, OneCall, Types
  <2>2. \A u \in Threads : u # t =>
          /\ thread'[u].pc = "pointer" => ptr'[thread'[u].s] = None
          /\ thread'[u].pc \in {"map", "free"} => ptr'[thread'[u].s] = used'[thread'[u].block].addr
    BY <1>1, <1>3, <1>4, <2>1 DEF CallInv, Pointers
  <2>. QED BY <1>1, <1>3, <1>4, <2>2 DEF Pointers
<1>9. AtRest'
  <2>1. \A u \in Storages : u = s \/ Busy(u) => Busy(u)'
    BY <1>1, <1>3 DEF Busy
  <2>2. \A u \in Storages : Resting(u)' => Resting(u) /\ ptr'[u] = ptr[u]
    BY <1>4, <2>1 DEF Resting
  <2>. QED BY <1>1, <2>2 DEF CallInv, AtRest
<1>10. Known'
  BY <1>1, <1>6 DEF CallInv, Known
<1>. QED BY <1>3, <1>4, <1>5, <1>7, <1>8, <1>9, <1>10 DEF CallInv

\* The block passes from the call to the map. Its address had no entry before,
\* since entries lead to the blocks at their addresses: nothing is overwritten.
LEMMA MapStorageCalls ==
  ASSUME PoolInv, CallInv, NEW t \in Threads, MapStorage(t)
  PROVE  CallInv'
<1>. DEFINE s == thread[t].s
            b == thread[t].block
<1>1. /\ thread[t].pc = "map"
      /\ map' = Put(map, ptr[s], b)
      /\ Goto(t, "idle", s, None)
      /\ UNCHANGED <<used, ptr>>
  BY DEF MapStorage
<1>2. /\ b \in DOMAIN used /\ \A a \in DOMAIN map : map[a] # b
      /\ s \in Storages /\ ptr[s] = used[b].addr
  BY <1>1 DEF CallInv, InHand, Holding, Types, Pointers
<1>3. /\ Types' \/ ptr' \notin [Storages -> Int]
      /\ thread'[t].pc = "idle" /\ thread'[t].s = s /\ thread'[t].block = None
      /\ \A u \in Threads : u # t => thread'[u] = thread[u]
      /\ OneCall'
  BY <1>1, GoesOn DEF Phases, None
<1>4. ptr' \in [Storages -> Int] /\ ptr' = ptr
  BY <1>1 DEF CallInv, Types
<1>5. ptr[s] \notin DOMAIN map
  BY <1>2, AddressesDiffer DEF CallInv, Entries
<1>6. /\ DOMAIN map' = DOMAIN map \cup {ptr[s]} /\ map'[ptr[s]] = b
      /\ \A a \in DOMAIN map : map'[a] = map[a]
  BY <1>1, <1>5 DEF Put
<1>7. Entries'
  BY <1>1, <1>2, <1>6 DEF CallInv, Entries
<1>8. /\ Holding(t) /\ ~Holding(t)'
      /\ \A u \in Threads : u # t => (Holding(u)' <=> Holding(u)) /\ thread'[u].block = thread[u].block
  BY <1>1, <1>3 DEF Holding
<1>9. InHand'
  <2>1. \A u \in Threads : u # t /\ Holding(u) => thread[u].block # b
    BY <1>8 DEF CallInv, InHand
  <2>2. ASSUME NEW u \in Threads, u # t, Holding(u)
        PROVE  /\ thread[u].block \in DOMAIN used'
               /\ \A a \in DOMAIN map' : map'[a] # thread[u].block
               /\ \A v \in Threads : Holding(v) /\ thread[v].block = thread[u].block => v = u
    BY <1>1, <1>6, <2>1, <2>2 DEF CallInv, InHand
  <2>3. ASSUME NEW u \in Threads, u # t, ~Holding(u) PROVE thread[u].block = None
    BY <2>3 DEF CallInv, InHand
  <2>. QED BY <1>3, <1>8, <2>2, <2>3 DEF InHand
<1>10. Pointers'
  BY <1>1, <1>3 DEF CallInv, Pointers
<1>11. AtRest'
  <2>1. \A u \in Storages : u # s => (Busy(u)' <=> Busy(u))
    BY <1>1, <1>3 DEF Busy
  <2>2. \A u \in Storages : u # s => (Resting(u)' <=> Resting(u))
    BY <1>4, <2>1 DEF Resting
  <2>3. \A u \in Storages : Resting(u)' => ptr'[u] \in DOMAIN map'
    BY <1>4, <1>6, <2>2 DEF CallInv, AtRest
  <2>4. \A u \in Storages : u # s /\ Resting(u)' => ptr'[u] # ptr'[s]
    BY <1>4, <1>5, <2>2 DEF CallInv, AtRest
  <2>5. \A u, v \in Storages : Resting(u)' /\ Resting(v)' /\ ptr'[u] = ptr'[v] => u = v
    BY <1>4, <2>2, <2>4 DEF CallInv, AtRest
  <2>. QED BY <2>3, <2>5 DEF AtRest
<1>12. Known'
  <2>1. ASSUME NEW c \in DOMAIN used
        PROVE  \/ \E a \in DOMAIN map' : map'[a] = c
               \/ \E u \in Threads : Holding(u)' /\ thread'[u].block = c
    <3>1. CASE \E a \in DOMAIN map : map[a] = c
      BY <1>6, <3>1
    <3>2. CASE \E u \in Threads : Holding(u) /\ thread[u].block = c
      BY <1>6, <1>8, <3>2
    <3>. QED BY <3>1, <3>2 DEF CallInv, Known
  <2>. QED BY <1>1, <2>1 DEF Known
<1>. QED BY <1>3, <1>4, <1>7, <1>9, <1>10, <1>11, <1>12 DEF CallInv

\* free() takes the entry out of the map: the block is now in the call's hands only.
LEMMA UnmapCalls ==
  ASSUME PoolInv, CallInv, NEW t \in Threads, NEW s \in Storages, Unmap(t, s)
  PROVE  CallInv'
<1>1. /\ thread[t].pc = "idle" /\ ptr[s] # None /\ ~Busy(s)
      /\ map' = Drop(map, ptr[s])
      /\ UNCHANGED <<used, ptr>>
  BY DEF Unmap
<1>2. Resting(s) /\ ptr[s] \in DOMAIN map
  BY <1>1 DEF CallInv, AtRest, Resting
<1>3. PICK b : b = map[ptr[s]]
  OBVIOUS
<1>4. b \in DOMAIN used /\ used[b].addr = ptr[s] /\ b \in Int
  BY <1>2, <1>3, AddressesDiffer DEF CallInv, Entries
<1>5. Goto(t, "free", s, b)
  BY <1>2, <1>3 DEF Unmap
<1>6. /\ thread' \in [Threads -> [pc : Phases, s : Storages \cup {CHOOSE x \in Storages : TRUE},
                                  block : Int]]
      /\ thread'[t].pc = "free" /\ thread'[t].s = s /\ thread'[t].block = b
      /\ \A u \in Threads : u # t => thread'[u] = thread[u]
      /\ \A u \in Threads : thread'[u].pc # "idle" => thread'[u].s \in Storages
  BY <1>4, <1>5, GotoIs DEF CallInv, Phases
<1>7. Types' /\ ptr' = ptr
  BY <1>1, <1>6 DEF CallInv, Types
<1>8. OneCall'
  BY <1>1, <1>6 DEF CallInv, OneCall, Busy
<1>9. DOMAIN map' = DOMAIN map \ {ptr[s]} /\ \A a \in DOMAIN map' : map'[a] = map[a]
  BY <1>1 DEF Drop
<1>10. Entries'
  BY <1>1, <1>9 DEF CallInv, Entries
<1>11. /\ Holding(t)' /\ ~Holding(t)
       /\ \A u \in Threads : u # t => (Holding(u)' <=> Holding(u)) /\ thread'[u].block = thread[u].block
  BY <1>1, <1>6 DEF Holding
<1>12. InHand'
  <2>1. \A a \in DOMAIN map' : map'[a] # b
    BY <1>4, <1>9 DEF CallInv, Entries
  <2>2. \A u \in Threads : Holding(u) => thread[u].block # b
    BY <1>2, <1>3 DEF CallInv, InHand
  <2>3. ASSUME NEW u \in Threads, u # t, Holding(u)
        PROVE  /\ thread[u].block \in DOMAIN used'
               /\ \A a \in DOMAIN map' : map'[a] # thread[u].block
               /\ \A v \in Threads : Holding(v) /\ thread[v].block = thread[u].block => v = u
    BY <1>1, <1>9, <2>3 DEF CallInv, InHand
  <2>4. ASSUME NEW u \in Threads, u # t, ~Holding(u) PROVE thread[u].block = None
    BY <2>4 DEF CallInv, InHand
  <2>. QED BY <1>1, <1>4, <1>6, <1>11, <2>1, <2>2, <2>3, <2>4 DEF InHand
<1>13. Pointers'
  BY <1>1, <1>4, <1>6 DEF CallInv, Pointers
<1>14. AtRest'
  <2>1. Busy(s)' /\ \A u \in Storages : Busy(u) => Busy(u)'
    BY <1>1, <1>6 DEF Busy
  <2>2. \A u \in Storages : Resting(u)' => Resting(u) /\ u # s
    BY <1>7, <2>1 DEF Resting
  <2>3. \A u \in Storages : Resting(u)' => ptr[u] \in DOMAIN map /\ ptr[u] # ptr[s]
    BY <1>2, <2>2 DEF CallInv, AtRest
  <2>. QED BY <1>7, <1>9, <2>2, <2>3 DEF CallInv, AtRest
<1>15. Known'
  <2>1. ASSUME NEW c \in DOMAIN used
        PROVE  \/ \E a \in DOMAIN map' : map'[a] = c
               \/ \E u \in Threads : Holding(u)' /\ thread'[u].block = c
    <3>1. CASE \E a \in DOMAIN map : map[a] = c
      BY <1>3, <1>6, <1>9, <1>11, <3>1
    <3>2. CASE \E u \in Threads : Holding(u) /\ thread[u].block = c
      BY <1>11, <3>2
    <3>. QED BY <3>1, <3>2 DEF CallInv, Known
  <2>. QED BY <1>1, <2>1 DEF Known
<1>. QED BY <1>7, <1>8, <1>10, <1>12, <1>13, <1>14, <1>15 DEF CallInv
\* freeBlock(): the block leaves the call's hands and the used blocks together.
LEMMA FreeBlockCalls ==
  ASSUME PoolInv, CallInv, NEW t \in Threads, FreeBlock(t)
  PROVE  CallInv' /\ PoolInv'
<1>. DEFINE s == thread[t].s
<1>0. PICK b : b = thread[t].block
  OBVIOUS
<1>1. thread[t].pc = "free" /\ Goto(t, "clear", s, None) /\ UNCHANGED <<remain, cur, map, ptr>>
  BY DEF FreeBlock
<1>2. b \in DOMAIN used /\ \A a \in DOMAIN map : map[a] # b
  BY <1>0, <1>1 DEF CallInv, InHand, Holding
<1>3. free' = Put(free, b, used[b]) /\ used' = Drop(used, b)
  BY <1>0, <1>2 DEF FreeBlock, Unused
<1>4. PoolInv'
  BY <1>1, <1>2, <1>3, GivePool
<1>5. /\ Types' \/ ptr' \notin [Storages -> Int]
      /\ thread'[t].pc = "clear" /\ thread'[t].s = s /\ thread'[t].block = None
      /\ \A u \in Threads : u # t => thread'[u] = thread[u]
      /\ OneCall'
  BY <1>1, GoesOn DEF Phases, None
<1>6. Types' /\ ptr' = ptr
  BY <1>1, <1>5 DEF CallInv, Types
<1>7. DOMAIN used' = DOMAIN used \ {b} /\ \A c \in DOMAIN used' : used'[c] = used[c]
  BY <1>3 DEF Drop
<1>8. /\ Holding(t) /\ ~Holding(t)'
      /\ \A u \in Threads : u # t => (Holding(u)' <=> Holding(u)) /\ thread'[u].block = thread[u].block
  BY <1>1, <1>5 DEF Holding
<1>9. \A u \in Threads : u # t /\ Holding(u) => thread[u].block # b /\ thread[u].block \in DOMAIN used
  BY <1>0, <1>8 DEF CallInv, InHand
<1>10. Entries'
  BY <1>1, <1>2, <1>7 DEF CallInv, Entries
<1>11. InHand'
  <2>1. ASSUME NEW u \in Threads, u # t, Holding(u)
        PROVE  /\ thread[u].block \in DOMAIN used'
               /\ \A a \in DOMAIN map' : map'[a] # thread[u].block
               /\ \A v \in Threads : Holding(v) /\ thread[v].block = thread[u].block => v = u
    BY <1>1, <1>7, <1>9, <2>1 DEF CallInv, InHand
  <2>2. ASSUME NEW u \in Threads, u # t, ~Holding(u) PROVE thread[u].block = None
    BY <2>2 DEF CallInv, InHand
  <2>. QED BY <1>5, <1>8, <2>1, <2>2 DEF InHand
<1>12. Pointers'
  <2>1. \A u \in Threads : u # t /\ thread[u].pc \in {"map", "free"} =>
          used'[thread[u].block] = used[thread[u].block]
    BY <1>7, <1>9 DEF Holding
  <2>. QED BY <1>5, <1>6, <2>1 DEF CallInv, Pointers
<1>13. AtRest'
  <2>1. \A u \in Storages : Busy(u) => Busy(u)'
    BY <1>1, <1>5 DEF Busy
  <2>2. \A u \in Storages : Resting(u)' => Resting(u)
    BY <1>6, <2>1 DEF Resting
  <2>. QED BY <1>1, <2>2 DEF CallInv, AtRest
<1>14. Known'
  <2>1. ASSUME NEW c \in DOMAIN used, c # b
        PROVE  \/ \E a \in DOMAIN map' : map'[a] = c
               \/ \E u \in Threads : Holding(u)' /\ thread'[u].block = c
    <3>1. CASE \E a \in DOMAIN map : map[a] = c
      BY <1>1, <3>1
    <3>2. CASE \E u \in Threads : Holding(u) /\ thread[u].block = c
      BY <1>0, <1>8, <2>1, <3>2
    <3>. QED BY <3>1, <3>2 DEF CallInv, Known
  <2>. QED BY <1>7, <2>1 DEF Known
<1>. QED BY <1>4, <1>5, <1>6, <1>10, <1>11, <1>12, <1>13, <1>14 DEF CallInv

\* The end of free(): the storage has no pointer any more.
LEMMA ClearPtrCalls ==
  ASSUME CallInv, NEW t \in Threads, ClearPtr(t)
  PROVE  CallInv'
<1>. DEFINE s == thread[t].s
<1>1. /\ thread[t].pc = "clear"
      /\ ptr' = [ptr EXCEPT ![s] = None]
      /\ Goto(t, "idle", s, None)
      /\ UNCHANGED <<used, map>>
  BY DEF ClearPtr
<1>2. s \in Storages
  BY <1>1 DEF CallInv, Types
<1>3. /\ Types' \/ ptr' \notin [Storages -> Int]
      /\ thread'[t].pc = "idle" /\ thread'[t].s = s /\ thread'[t].block = None
      /\ \A u \in Threads : u # t => thread'[u] = thread[u]
      /\ OneCall'
  BY <1>1, GoesOn DEF Phases, None
<1>4. /\ ptr' \in [Storages -> Int] /\ ptr'[s] = None
      /\ \A u \in Storages : u # s => ptr'[u] = ptr[u]
  BY <1>1, <1>2 DEF CallInv, Types, None
<1>5. Entries'
  BY <1>1 DEF CallInv, Entries
<1>6. thread[t].block = None
  BY <1>1 DEF CallInv, InHand, Holding
<1>7. \A u \in Threads : (Holding(u)' <=> Holding(u)) /\ thread'[u].block = thread[u].block
  BY <1>1, <1>3, <1>6 DEF Holding
<1>8. InHand'
  BY <1>1, <1>7 DEF CallInv, InHand
<1>9. Pointers'
  <2>1. \A u \in Threads : u # t /\ thread[u].pc # "idle" => thread[u].s # s /\ thread[u].s \in Storages
    BY <1>1 DEF CallInv, OneCall, Types
  <2>2. ASSUME NEW u \in Threads, u # t
        PROVE  /\ thread'[u].pc = "pointer" => ptr'[thread'[u].s] = None
               /\ thread'[u].pc \in {"map", "free"} => ptr'[thread'[u].s] = used'[thread'[u].block].addr
    BY <1>1, <1>3, <1>4, <2>1, <2>2 DEF CallInv, Pointers
  <2>. QED BY <1>3, <2>2 DEF Pointers
<1>10. AtRest'
  <2>1. \A u \in Storages : u # s => (Busy(u)' <=> Busy(u))
    BY <1>1, <1>3 DEF Busy
  <2>2. \A u \in Storages : Resting(u)' => u # s /\ Resting(u) /\ ptr'[u] = ptr[u]
    BY <1>4, <2>1 DEF Resting
  <2>. QED BY <1>1, <2>2 DEF CallInv, AtRest
<1>11. Known'
  BY <1>1, <1>7 DEF CallInv, Known
<1>. QED BY <1>3, <1>4, <1>5, <1>8, <1>9, <1>10, <1>11 DEF CallInv

-----------------------------------------------------------------------------
\* An empty pool and no call under way.
LEMMA InitIInv == Init => IInv
<1>. SUFFICES ASSUME Init PROVE IInv
  OBVIOUS
<1>1. DOMAIN used = {} /\ DOMAIN free = {} /\ DOMAIN map = {} /\ cur = 0 /\ remain = PoolSize
  BY DEF Init, Empty
<1>2. Ids = {} /\ NextId = 0
  BY <1>1, FS_EmptySet DEF Ids, NextId
<1>3. PoolInv
  BY <1>1, <1>2, PoolSizeAssumption DEF PoolInv, Numbered, Bump, Carved, Apart
<1>4. /\ ptr = [s \in Storages |-> None]
      /\ thread = [t \in Threads |->
           [pc |-> "idle", s |-> CHOOSE s \in Storages : TRUE, block |-> None]]
  BY DEF Init
<1>5. Types
  BY <1>4 DEF Types, Phases, None
<1>6. \A t \in Threads : thread[t].pc = "idle" /\ thread[t].block = None /\ ~Holding(t)
  BY <1>4 DEF Holding
<1>7. OneCall /\ InHand /\ Pointers
  BY <1>6 DEF OneCall, InHand, Pointers
<1>8. Entries /\ Known
  BY <1>1 DEF Entries, Known
<1>9. AtRest
  BY <1>4 DEF AtRest, Resting
<1>. QED BY <1>3, <1>5, <1>7, <1>8, <1>9 DEF IInv, CallInv

\* allocateBlock() keeps the pool whole, whether it takes a freed block or carves one.
LEMMA AllocateBlockIInv ==
  ASSUME IInv, NEW t \in Threads, NEW s \in Storages, NEW size \in Sizes,
         AllocateBlock(t, s, size)
  PROVE  IInv'
<1>. DEFINE n == AlignSize(size)
<1>0. n \in Nat /\ n > 0 /\ n % 32 = 0
  BY AlignSizeIs, SizesAssumption
<1>. HIDE DEF n
<1>1. thread[t].pc = "idle" /\ ptr[s] = None /\ ~Busy(s) /\ UNCHANGED <<map, ptr>>
  BY DEF AllocateBlock
<1>2. ASSUME NEW b \in BestFit(n), used' = Put(used, b, free[b]), free' = Drop(free, b),
             Goto(t, "pointer", s, b), UNCHANGED <<remain, cur>>
      PROVE  IInv'
  <2>1. b \in DOMAIN free /\ b \notin DOMAIN used /\ b \in Int
    BY DEF BestFit, Large, IInv, PoolInv, Numbered, Ids
  <2>2. DOMAIN used' = DOMAIN used \cup {b} /\ \A z \in DOMAIN used : used'[z] = used[z]
    BY <1>2, <2>1 DEF Put
  <2>3. PoolInv'
    BY <1>2, <2>1, ReusePool DEF IInv
  <2>4. CallInv'
    BY <1>1, <1>2, <2>1, <2>2, HoldNew DEF IInv
  <2>. QED BY <2>3, <2>4 DEF IInv
<1>3. ASSUME Room(n), Carve(n), Goto(t, "pointer", s, NextId), UNCHANGED free
      PROVE  IInv'
  <2>1. PICK id : id = NextId
    OBVIOUS
  <2>2. PoolInv' /\ id \notin Ids
    BY <1>0, <1>3, <2>1, CarvePool DEF IInv
  <2>3. id \in Int /\ id \notin DOMAIN used
    BY <2>1, <2>2 DEF IInv, PoolInv, Numbered, Ids
  <2>4. DOMAIN used' = DOMAIN used \cup {id} /\ \A z \in DOMAIN used : used'[z] = used[z]
    BY <1>3, <2>1, <2>3 DEF Carve, Put
  <2>5. Goto(t, "pointer", s, id)
    BY <1>3, <2>1
  <2>6. CallInv'
    BY <1>1, <2>3, <2>4, <2>5, HoldNew DEF IInv
  <2>. QED BY <2>2, <2>6 DEF IInv
<1>. QED BY <1>2, <1>3 DEF AllocateBlock, n

\* A state that differs in nothing satisfies the same.
LEMMA StutterIInv == IInv /\ UNCHANGED vars => IInv'
<1>1. PoolInv /\ UNCHANGED vars => PoolInv'
  BY DEF vars, PoolInv, Numbered, Bump, Carved, Apart, Ids, NextId, Block, Below
<1>2. CallInv /\ UNCHANGED vars => CallInv'
  BY DEF vars, CallInv, Types, OneCall, InHand, Pointers, Entries, AtRest, Known,
     Holding, Resting, Busy
<1>. QED BY <1>1, <1>2 DEF IInv

\* Steps that touch neither list leave the pool as it is.
LEMMA PoolStays ==
  ASSUME PoolInv, UNCHANGED <<remain, cur, used, free>>
  PROVE  PoolInv'
BY DEF PoolInv, Numbered, Bump, Carved, Apart, Ids, NextId, Block, Below

\* Every step of every call keeps the invariant.
LEMMA NextIInv == IInv /\ [Next]_vars => IInv'
<1>. SUFFICES ASSUME IInv, [Next]_vars PROVE IInv'
  OBVIOUS
<1>0. PoolInv /\ CallInv
  BY DEF IInv
<1>1. CASE UNCHANGED vars
  BY <1>1, StutterIInv
<1>2. ASSUME NEW t \in Threads, NEW s \in Storages, NEW size \in Sizes, AllocateBlock(t, s, size)
      PROVE  IInv'
  BY <1>2, AllocateBlockIInv
<1>3. ASSUME NEW t \in Threads, NEW s \in Storages, NEW size \in Sizes, AllocFails(t, s, size)
      PROVE  IInv'
  BY <1>3, StutterIInv DEF AllocFails
<1>4. ASSUME NEW t \in Threads, NEW s \in Storages, Unmap(t, s) PROVE IInv'
  <2>1. UNCHANGED <<remain, cur, used, free>>
    BY <1>4 DEF Unmap
  <2>. QED BY <1>0, <1>4, <2>1, PoolStays, UnmapCalls DEF IInv
<1>5. ASSUME NEW t \in Threads, GetBlockPtr(t) PROVE IInv'
  <2>1. UNCHANGED <<remain, cur, used, free>>
    BY <1>5 DEF GetBlockPtr
  <2>. QED BY <1>0, <1>5, <2>1, PoolStays, GetBlockPtrCalls DEF IInv
<1>6. ASSUME NEW t \in Threads, MapStorage(t) PROVE IInv'
  <2>1. UNCHANGED <<remain, cur, used, free>>
    BY <1>6 DEF MapStorage
  <2>. QED BY <1>0, <1>6, <2>1, PoolStays, MapStorageCalls DEF IInv
<1>7. ASSUME NEW t \in Threads, FreeBlock(t) PROVE IInv'
  BY <1>0, <1>7, FreeBlockCalls DEF IInv
<1>8. ASSUME NEW t \in Threads, ClearPtr(t) PROVE IInv'
  <2>1. UNCHANGED <<remain, cur, used, free>>
    BY <1>8 DEF ClearPtr
  <2>. QED BY <1>0, <1>8, <2>1, PoolStays, ClearPtrCalls DEF IInv
<1>. QED BY <1>1, <1>2, <1>3, <1>4, <1>5, <1>6, <1>7, <1>8 DEF Next

\* The invariant holds in every state.
LEMMA Invariance == Spec => []IInv
<1>1. IInv /\ [Next]_vars => IInv'
  BY NextIInv
<1>. QED BY InitIInv, <1>1, PTL DEF Spec

\* Blocks of the device pool lie inside it and share no bytes, whatever the threads
\* allocate and free, although allocateBlock() compares the room before it aligns
\* the start.
THEOREM BlocksAlwaysApart == Spec => []BlocksApart
<1>1. IInv => BlocksApart
  BY PoolApart DEF IInv
<1>. QED BY Invariance, <1>1, PTL

\* Although alloc() and free() take the two mutexes one after the other, a storage at
\* rest owns the block at its address alone, the map leads there, and no block in use
\* is forgotten.
THEOREM StoragesAlwaysMatchBlocks == Spec => []StoragesMatchBlocks
<1>1. IInv => StoragesMatchBlocks
  <2>. SUFFICES ASSUME IInv PROVE StoragesMatchBlocks
    OBVIOUS
  <2>0. CallInv
    BY DEF IInv
  <2>1. ASSUME NEW s \in Storages, ptr[s] # None, ~Busy(s)
        PROVE  /\ ptr[s] \in DOMAIN map
               /\ map[ptr[s]] \in DOMAIN used
               /\ used[map[ptr[s]]].addr = ptr[s]
    BY <2>0, <2>1 DEF CallInv, AtRest, Resting, Entries
  <2>2. ASSUME NEW s \in Storages, NEW u \in Storages \ {s}, ptr[s] # None, ~Busy(s)
        PROVE  ptr[u] # ptr[s] \/ Busy(u)
    BY <2>0, <2>2 DEF CallInv, AtRest, Resting
  <2>3. ASSUME NEW b \in DOMAIN used
        PROVE  (\E a \in DOMAIN map : map[a] = b) \/ (\E t \in Threads : thread[t].block = b)
    BY <2>0 DEF CallInv, Known
  <2>. QED BY <2>1, <2>2, <2>3 DEF StoragesMatchBlocks
<1>. QED BY Invariance, <1>1, PTL
=============================================================================
