---------------------------- MODULE KVAllocator ----------------------------
(***************************************************************************)
(* TokenToKVPoolAllocator (pymllm/mem_cache/memory_pool.py): the two free  *)
(* lists, lazy merging, the sanitising free() and the batch-free API.      *)
(*                                                                         *)
(* The free lists are sets: the code passes both through torch.unique, so  *)
(* only their order is lost, and the order matters only for which pages    *)
(* alloc() takes first (Heads). All is counted in pages; with PageSize = 1 *)
(* a page is a KV index, the mode the model runner uses. free() maps the   *)
(* indices it is given to pages, and alloc() never splits a page, so the   *)
(* pages say everything about who may write where.                         *)
(***************************************************************************)
EXTENDS Integers, FiniteSets

CONSTANTS
  Size,      \* allocatable KV slots; slot 0 is padding and not counted
  PageSize,  \* KV slots per page
  NeedSort,  \* whether freed pages go to release_slots and merges sort
  Callers    \* requests, the prefix cache: whoever holds KV indices

ASSUME SizeAssumption == Size \in Nat \ {0}
ASSUME PageSizeAssumption == PageSize \in Nat \ {0}
ASSUME NeedSortAssumption == NeedSort \in BOOLEAN

VARIABLES
  free_slots,     \* pages alloc() takes from
  release_slots,  \* freed pages waiting for a merge
  in_free_group,  \* not _is_not_in_free_group
  free_group,     \* pages whose free() is deferred to free_group_end()
  held,           \* held[c]: the pages caller c got from alloc() and did not free
  answer          \* the last alloc(): [need |-> n, ok |-> was it served], or Idle

vars == <<free_slots, release_slots, in_free_group, free_group, held, answer>>

-----------------------------------------------------------------------------
NumPages == (Size + PageSize - 1) \div PageSize

Pages == 1..NumPages

\* Indices free() may be given that are not in the pool: the padding slot, and
\* a slot past the end.
Junk == {0, NumPages + 1}

\* The KV slots in the pages of P: the last page may be cut short by Size.
Tokens(P) ==
  Cardinality(P) * PageSize
    - (IF NumPages \in P THEN NumPages * PageSize - Size ELSE 0)

Free == free_slots \cup release_slots

available_size == Tokens(Free)

PagesFor(n) == (n + PageSize - 1) \div PageSize

Idle == [need |-> 0, ok |-> TRUE]

-----------------------------------------------------------------------------
\* A mistake: alloc() looks at free_slots only.
SourceUnmerged(n) == free_slots

\* merge_and_sort_free() runs when free_slots alone has too few pages.
Source(n) == IF PagesFor(n) > Cardinality(free_slots) THEN Free ELSE free_slots

\* A mistake: the merge forgets to empty release_slots.
UnmergedKept(n) == release_slots

\* What alloc(n) leaves in release_slots.
Unmerged(n) == IF Source(n) = free_slots THEN release_slots ELSE {}

\* P can be the first pages of the list F: the least ones when lists are sorted.
Heads(P, F) == NeedSort => \A p \in P, q \in F \ P : p < q

\* The pages alloc(n) can take from F: PagesFor(n) of them, and one more at a
\* time while a short last page leaves them below n slots.
Takes(F, n) ==
  {P \in SUBSET F :
     /\ Heads(P, F)
     /\ Cardinality(P) >= PagesFor(n)
     /\ Tokens(P) >= n
     /\ \/ Cardinality(P) = PagesFor(n)
        \/ \E p \in P : Heads(P \ {p}, P) /\ Tokens(P \ {p}) < n}

\* A mistake: the cut is off by one, and a page handed out stays in the list.
RestOffByOne(n, P) ==
  (Source(n) \ P) \cup {p \in P : \A q \in P : q <= p}

\* What alloc(n) leaves in free_slots when it takes P.
Rest(n, P) == Source(n) \ P

\* A mistake: the range check of free() is dropped.
SanitizedNot(S) == S

\* The pages free() really gives back: in the pool, and not free already.
Sanitized(S) == S \cap Pages

\* A mistake: free() does not look whether a page is free already.
NewlyFreeUnchecked(S) == Sanitized(S)

NewlyFree(S) == Sanitized(S) \ Free

Init ==
  /\ free_slots = Pages
  /\ release_slots = {}
  /\ in_free_group = FALSE
  /\ free_group = {}
  /\ held = [c \in Callers |-> {}]
  /\ answer = Idle

\* alloc(n) served.
Alloc(c, n) ==
  /\ n <= available_size
  /\ \E P \in Takes(Source(n), n) :
       /\ free_slots' = Rest(n, P)
       /\ held' = [held EXCEPT ![c] = @ \cup P]
  /\ release_slots' = Unmerged(n)
  /\ answer' = [need |-> n, ok |-> TRUE]
  /\ UNCHANGED <<in_free_group, free_group>>

\* alloc(n) returning None: too few slots in all, after a merge, or, for
\* PageSize > 1, too few slots in the pages of a free_slots that was not merged.
AllocNone(c, n) ==
  /\ \/ /\ n > available_size
        /\ free_slots' = Free
        /\ release_slots' = {}
     \/ /\ n <= available_size
        /\ Takes(Source(n), n) = {}
        /\ UNCHANGED <<free_slots, release_slots>>
  /\ answer' = [need |-> n, ok |-> FALSE]
  /\ UNCHANGED <<in_free_group, free_group, held>>

\* What free() and free_group_end() do with the pages S.
GiveBack(S) ==
  IF NeedSort
  THEN release_slots' = release_slots \cup NewlyFree(S) /\ UNCHANGED free_slots
  ELSE free_slots' = free_slots \cup NewlyFree(S) /\ UNCHANGED release_slots

\* free() outside a group, of pages S the caller holds, mixed with pages J
\* it should not free: padding, out of range, or freed before.
FreeNow(c, S, J) ==
  /\ ~in_free_group
  /\ GiveBack(S \cup J)
  /\ held' = [held EXCEPT ![c] = @ \ S]
  /\ answer' = Idle
  /\ UNCHANGED <<in_free_group, free_group>>

\* free() inside a group: appended to _free_group only.
FreeLater(c, S, J) ==
  /\ in_free_group
  /\ free_group' = free_group \cup Sanitized(S \cup J)
  /\ held' = [held EXCEPT ![c] = @ \ S]
  /\ answer' = Idle
  /\ UNCHANGED <<free_slots, release_slots, in_free_group>>

free_group_begin ==
  /\ ~in_free_group
  /\ in_free_group' = TRUE
  /\ free_group' = {}
  /\ answer' = Idle
  /\ UNCHANGED <<free_slots, release_slots, held>>

free_group_end ==
  /\ in_free_group
  /\ in_free_group' = FALSE
  /\ GiveBack(free_group)
  /\ free_group' = {}
  /\ answer' = Idle
  /\ UNCHANGED held

\* A caller holds what it frees. Outside a group it may also free, once more,
\* what is still free; inside a group only what this group already holds.
Next ==
  \/ \E c \in Callers, n \in 1..Size : Alloc(c, n) \/ AllocNone(c, n)
  \/ \E c \in Callers : \E S \in SUBSET held[c] :
       \/ \E J \in SUBSET (Free \cup Junk) : FreeNow(c, S, J)
       \/ \E J \in SUBSET (free_group \cup Junk) : FreeLater(c, S, J)
  \/ free_group_begin
  \/ free_group_end

Spec == Init /\ [][Next]_vars

-----------------------------------------------------------------------------
\* Every list holds pages of the pool only: slot 0, the padding slot of the KV
\* pool, is never handed out and a freed out-of-range index is dropped.
TypeOK ==
  /\ free_slots \in SUBSET Pages
  /\ release_slots \in SUBSET Pages
  /\ in_free_group \in BOOLEAN
  /\ free_group \in SUBSET Pages
  /\ held \in [Callers -> SUBSET Pages]
  /\ answer \in [need : 0..Size, ok : BOOLEAN]

ListsDisjoint ==
  /\ free_slots \cap release_slots = {}
  /\ Free \cap free_group = {}

HeldNotFree == \A c \in Callers : held[c] \cap (Free \cup free_group) = {}

HeldOnce == \A c, d \in Callers : c # d => held[c] \cap held[d] = {}

NothingLost ==
  Pages = Free \cup free_group \cup UNION {held[c] : c \in Callers}

GroupClosedIsEmpty == ~in_free_group => free_group = {}

\* Every page is in exactly one place: one free list, the pending group, or one
\* caller. So no page is handed out twice and none is lost, whatever is freed
\* twice, freed out of range, or freed inside a group.
OneHome ==
  /\ ListsDisjoint
  /\ HeldNotFree
  /\ HeldOnce
  /\ NothingLost
  /\ GroupClosedIsEmpty

\* alloc() says None only when fewer slots than asked for are free, in the two
\* lists together ("or None if the pool is exhausted", the docstring of alloc).
NoneMeansExhausted == ~answer.ok => available_size < answer.need

\* The allocator, with all its lazy lists, behaves as KVOwnership says.
Ownership == INSTANCE KVOwnership WITH owned <- held

OwnershipSpec == Ownership!Spec
=============================================================================
