------------------------- MODULE KVAllocatorProofs -------------------------
(***************************************************************************)
(* Proofs about KVAllocator, for every Size, PageSize, NeedSort and set of *)
(* callers. IInv is TypeOK and OneHome: OneHome is inductive once the      *)
(* types are known, since every action moves pages between two of the      *)
(* places OneHome names.                                                   *)
(***************************************************************************)
EXTENDS KVAllocator, DataTheorems

IInv == TypeOK /\ OneHome

\* alloc() takes its pages from the list it looks at, merged or not.
LEMMA TakesFromSource ==
  ASSUME NEW n, NEW P \in Takes(Source(n), n)
  PROVE  P \subseteq Source(n) /\ Source(n) \subseteq Free
BY DEF Takes, Source, Free

\* A cleared pool has every page in its free list.
LEMMA InitIInv == Init => IInv
<1> SUFFICES ASSUME Init PROVE IInv
  OBVIOUS
<1>1. TypeOK
  <2>1. answer \in [need : 0..Size, ok : BOOLEAN]
    BY SizeAssumption DEF Init, Idle
  <2>2. held \in [Callers -> SUBSET Pages]
    BY DEF Init
  <2>3. /\ free_slots \in SUBSET Pages
        /\ release_slots \in SUBSET Pages
        /\ in_free_group \in BOOLEAN
        /\ free_group \in SUBSET Pages
    BY DEF Init
  <2> QED BY <2>1, <2>2, <2>3 DEF TypeOK
<1>2. NothingLost
  <2>1. Free = Pages
    BY DEF Init, Free
  <2>2. \A c \in Callers : held[c] \subseteq Pages
    BY <1>1 DEF TypeOK
  <2>3. free_group \subseteq Pages
    BY <1>1 DEF TypeOK
  <2> QED BY <2>1, <2>2, <2>3 DEF NothingLost
<1>3. ListsDisjoint /\ HeldNotFree /\ HeldOnce /\ GroupClosedIsEmpty
  BY DEF Init, ListsDisjoint, HeldNotFree, HeldOnce, GroupClosedIsEmpty, Free
<1> QED BY <1>1, <1>2, <1>3 DEF IInv, OneHome

\* A served alloc() moves pages from the free lists to its caller.
LEMMA AllocIInv ==
  ASSUME IInv, NEW c \in Callers, NEW n \in 1..Size, Alloc(c, n)
  PROVE  IInv'
<1> USE DEF IInv, TypeOK, OneHome
<1>1. PICK P \in Takes(Source(n), n) :
        /\ free_slots' = Source(n) \ P
        /\ held' = [held EXCEPT ![c] = @ \cup P]
  BY DEF Alloc, Rest
<1>2. P \subseteq Source(n) /\ Source(n) \subseteq Free
  BY <1>1, TakesFromSource
<1>3. /\ release_slots' = Unmerged(n)
      /\ answer' = [need |-> n, ok |-> TRUE]
      /\ UNCHANGED <<in_free_group, free_group>>
  BY DEF Alloc
<1>4. /\ Free = Source(n) \cup Unmerged(n)
      /\ Source(n) \cap Unmerged(n) = {}
  BY DEF Source, Unmerged, Free, ListsDisjoint
<1>5. Free' = Free \ P /\ P \subseteq Free
  BY <1>1, <1>2, <1>3, <1>4 DEF Free
<1>6. /\ \A d \in Callers : held'[d] = IF d = c THEN held[c] \cup P ELSE held[d]
      /\ held' \in [Callers -> SUBSET Pages]
  BY <1>1, <1>2, <1>5 DEF Free
<1>7. TypeOK'
  BY <1>1, <1>2, <1>3, <1>6, SizeAssumption DEF Free, Unmerged
<1>8. ListsDisjoint'
  BY <1>1, <1>3, <1>4, <1>5 DEF ListsDisjoint
<1>9. HeldNotFree'
  BY <1>3, <1>5, <1>6 DEF HeldNotFree, ListsDisjoint
<1>10. HeldOnce'
  BY <1>5, <1>6 DEF HeldOnce, HeldNotFree
<1>11. NothingLost'
  BY <1>3, <1>5, <1>6 DEF NothingLost
<1>12. GroupClosedIsEmpty'
  BY <1>3 DEF GroupClosedIsEmpty
<1> QED BY <1>7, <1>8, <1>9, <1>10, <1>11, <1>12

\* A failed alloc() may merge the lists and changes nothing else.
LEMMA AllocNoneIInv ==
  ASSUME IInv, NEW c \in Callers, NEW n \in 1..Size, AllocNone(c, n)
  PROVE  IInv'
<1> USE DEF IInv, TypeOK, OneHome
<1>1. /\ Free' = Free
      /\ free_slots' \cap release_slots' = {}
      /\ free_slots' \subseteq Free /\ release_slots' \subseteq Free
      /\ answer' = [need |-> n, ok |-> FALSE]
      /\ UNCHANGED <<in_free_group, free_group, held>>
  BY DEF AllocNone, Free, ListsDisjoint
<1> QED
  BY <1>1, SizeAssumption DEF Free, ListsDisjoint, HeldNotFree, HeldOnce,
     NothingLost, GroupClosedIsEmpty

\* GiveBack puts into the free lists exactly the pages of S in the pool, once.
LEMMA GiveBackIsUnion ==
  ASSUME TypeOK, ListsDisjoint, NEW S, GiveBack(S)
  PROVE  /\ Free' = Free \cup Sanitized(S)
         /\ free_slots' \cap release_slots' = {}
         /\ free_slots' \in SUBSET Pages /\ release_slots' \in SUBSET Pages
<1>1. CASE NeedSort
  BY <1>1 DEF TypeOK, ListsDisjoint, GiveBack, NewlyFree, Sanitized, Free
<1>2. CASE ~NeedSort
  BY <1>2 DEF TypeOK, ListsDisjoint, GiveBack, NewlyFree, Sanitized, Free
<1> QED BY <1>1, <1>2

\* free() outside a group moves the caller's pages to the free lists; junk and
\* pages that are free already change nothing.
LEMMA FreeNowIInv ==
  ASSUME IInv, NEW c \in Callers, NEW S \in SUBSET held[c],
         NEW J \in SUBSET (Free \cup Junk), FreeNow(c, S, J)
  PROVE  IInv'
<1> USE DEF IInv, OneHome
<1>1. /\ GiveBack(S \cup J)
      /\ held' = [held EXCEPT ![c] = @ \ S]
      /\ answer' = Idle
      /\ ~in_free_group
      /\ UNCHANGED <<in_free_group, free_group>>
  BY DEF FreeNow
<1>2. NumPages \in Int
  BY SizeAssumption, PageSizeAssumption DEF NumPages
<1>3. Sanitized(S \cup J) \subseteq Free \cup S /\ S \subseteq Sanitized(S \cup J)
  BY <1>2 DEF Sanitized, Junk, Pages, TypeOK
<1>4. /\ Free' = Free \cup S
      /\ free_slots' \cap release_slots' = {}
      /\ free_slots' \in SUBSET Pages /\ release_slots' \in SUBSET Pages
  <2>1. Free' = Free \cup Sanitized(S \cup J)
    BY <1>1, GiveBackIsUnion
  <2> QED BY <1>1, <1>3, <2>1, GiveBackIsUnion
<1>5. /\ \A d \in Callers : held'[d] = IF d = c THEN held[c] \ S ELSE held[d]
      /\ held' \in [Callers -> SUBSET Pages]
  BY <1>1 DEF TypeOK
<1>6. free_group = {} /\ free_group' = {}
  BY <1>1 DEF GroupClosedIsEmpty
<1>7. TypeOK'
  BY <1>1, <1>4, <1>5, SizeAssumption DEF TypeOK, Idle
<1>8. ListsDisjoint'
  BY <1>4, <1>6 DEF ListsDisjoint
<1>9. HeldNotFree'
  BY <1>4, <1>5, <1>6 DEF HeldNotFree, HeldOnce
<1>10. HeldOnce'
  BY <1>5 DEF HeldOnce
<1>11. NothingLost'
  BY <1>4, <1>5, <1>6 DEF NothingLost
<1>12. GroupClosedIsEmpty'
  BY <1>6 DEF GroupClosedIsEmpty
<1> QED BY <1>7, <1>8, <1>9, <1>10, <1>11, <1>12

\* free() inside a group moves the caller's pages to the group.
LEMMA FreeLaterIInv ==
  ASSUME IInv, NEW c \in Callers, NEW S \in SUBSET held[c],
         NEW J \in SUBSET (free_group \cup Junk), FreeLater(c, S, J)
  PROVE  IInv'
<1> USE DEF IInv, OneHome
<1>1. /\ free_group' = free_group \cup Sanitized(S \cup J)
      /\ held' = [held EXCEPT ![c] = @ \ S]
      /\ answer' = Idle
      /\ in_free_group
      /\ UNCHANGED <<free_slots, release_slots, in_free_group>>
  BY DEF FreeLater
<1>2. NumPages \in Int
  BY SizeAssumption, PageSizeAssumption DEF NumPages
<1>3. /\ S \subseteq Pages
      /\ free_group' = free_group \cup S
      /\ Free' = Free
  <2>1. S \subseteq Pages /\ free_group \subseteq Pages
    BY DEF TypeOK
  <2>2. Junk \cap Pages = {}
    BY <1>2 DEF Junk, Pages
  <2>3. Sanitized(S \cup J) \subseteq free_group \cup S /\ S \subseteq Sanitized(S \cup J)
    BY <2>1, <2>2 DEF Sanitized
  <2>4. Free' = Free
    BY <1>1 DEF Free
  <2> QED BY <1>1, <2>1, <2>3, <2>4
<1>4. /\ \A d \in Callers : held'[d] = IF d = c THEN held[c] \ S ELSE held[d]
      /\ held' \in [Callers -> SUBSET Pages]
  BY <1>1 DEF TypeOK
<1>5. TypeOK'
  <2>1. Idle \in [need : 0..Size, ok : BOOLEAN]
    BY SizeAssumption DEF Idle
  <2> QED BY <1>1, <1>3, <1>4, <2>1 DEF TypeOK
<1>6. ListsDisjoint'
  BY <1>1, <1>3 DEF ListsDisjoint, HeldNotFree
<1>7. HeldNotFree'
  BY <1>3, <1>4 DEF HeldNotFree, HeldOnce
<1>8. HeldOnce'
  BY <1>4 DEF HeldOnce
<1>9. NothingLost'
  BY <1>3, <1>4 DEF NothingLost
<1>10. GroupClosedIsEmpty'
  BY <1>1 DEF GroupClosedIsEmpty
<1> QED BY <1>5, <1>6, <1>7, <1>8, <1>9, <1>10

\* Opening a group changes no list; closing one moves it to the free lists.
LEMMA GroupIInv ==
  ASSUME IInv, free_group_begin \/ free_group_end
  PROVE  IInv'
<1> USE DEF IInv, OneHome
<1>1. CASE free_group_begin
  BY <1>1, SizeAssumption DEF free_group_begin, TypeOK, ListsDisjoint, HeldNotFree,
     HeldOnce, NothingLost, GroupClosedIsEmpty, Free, Idle
<1>2. CASE free_group_end
  <2>1. /\ GiveBack(free_group)
        /\ free_group' = {} /\ in_free_group' = FALSE
        /\ answer' = Idle
        /\ UNCHANGED held
    BY <1>2 DEF free_group_end
  <2>2. Sanitized(free_group) = free_group
    BY DEF Sanitized, TypeOK
  <2>3. /\ Free' = Free \cup free_group
        /\ free_slots' \cap release_slots' = {}
        /\ free_slots' \in SUBSET Pages /\ release_slots' \in SUBSET Pages
    BY <2>1, <2>2, GiveBackIsUnion
  <2>4. TypeOK'
    <3>1. Idle \in [need : 0..Size, ok : BOOLEAN]
      BY SizeAssumption DEF Idle
    <3> QED BY <2>1, <2>3, <3>1 DEF TypeOK
  <2>5. ListsDisjoint' /\ GroupClosedIsEmpty'
    BY <2>1, <2>3 DEF ListsDisjoint, GroupClosedIsEmpty
  <2>6. HeldNotFree' /\ HeldOnce'
    BY <2>1, <2>3 DEF HeldNotFree, HeldOnce
  <2>7. NothingLost'
    BY <2>1, <2>3 DEF NothingLost
  <2> QED BY <2>4, <2>5, <2>6, <2>7
<1> QED BY <1>1, <1>2

\* Every call of the allocator keeps the invariant.
LEMMA NextIInv == IInv /\ [Next]_vars => IInv'
<1> SUFFICES ASSUME IInv, [Next]_vars PROVE IInv'
  OBVIOUS
<1>1. CASE UNCHANGED vars
  BY <1>1 DEF vars, IInv, TypeOK, OneHome, ListsDisjoint, HeldNotFree, HeldOnce,
     NothingLost, GroupClosedIsEmpty, Free
<1>2. ASSUME NEW c \in Callers, NEW n \in 1..Size, Alloc(c, n) PROVE IInv'
  BY <1>2, AllocIInv
<1>3. ASSUME NEW c \in Callers, NEW n \in 1..Size, AllocNone(c, n) PROVE IInv'
  BY <1>3, AllocNoneIInv
<1>4. ASSUME NEW c \in Callers, NEW S \in SUBSET held[c],
             NEW J \in SUBSET (Free \cup Junk), FreeNow(c, S, J)
      PROVE  IInv'
  BY <1>4, FreeNowIInv
<1>5. ASSUME NEW c \in Callers, NEW S \in SUBSET held[c],
             NEW J \in SUBSET (free_group \cup Junk), FreeLater(c, S, J)
      PROVE  IInv'
  BY <1>5, FreeLaterIInv
<1>6. CASE free_group_begin \/ free_group_end
  BY <1>6, GroupIInv
<1> QED BY <1>1, <1>2, <1>3, <1>4, <1>5, <1>6 DEF Next

\* The invariant holds in every state.
LEMMA Invariance == Spec => []IInv
<1>1. IInv /\ [Next]_vars => IInv' BY NextIInv
<1> QED BY InitIInv, <1>1, PTL DEF Spec

\* The lists of the allocator never hold anything but pages of the pool, so
\* slot 0 is never handed out.
THEOREM TypeCorrect == Spec => []TypeOK
<1>1. IInv => TypeOK BY DEF IInv
<1> QED BY Invariance, <1>1, PTL

\* No KV page is free and held, held twice, or lost, however callers mix
\* alloc(), free(), repeated frees and free groups.
THEOREM OneHomeAlways == Spec => []OneHome
<1>1. IInv => OneHome BY DEF IInv
<1> QED BY Invariance, <1>1, PTL

-----------------------------------------------------------------------------
\* Every step of the allocator is a step of KVOwnership, or leaves owned alone.
LEMMA StepRefines ==
  ASSUME IInv, [Next]_vars
  PROVE  [Ownership!Next]_held
<1> USE DEF Ownership!Next
<1>1. CASE UNCHANGED vars
  BY <1>1 DEF vars
<1>2. ASSUME NEW c \in Callers, NEW n \in 1..Size, Alloc(c, n)
      PROVE  Ownership!Next
  <2>1. PICK P \in Takes(Source(n), n) : held' = [held EXCEPT ![c] = @ \cup P]
    BY <1>2 DEF Alloc
  <2>2. P \subseteq Free
    BY <2>1, TakesFromSource
  <2>3. P \in SUBSET Pages /\ P \subseteq Ownership!Unowned
    BY <2>2 DEF IInv, TypeOK, OneHome, HeldNotFree, Free, Ownership!Unowned
  <2>4. Ownership!Acquire(c, P)
    BY <2>1, <2>3 DEF Ownership!Acquire
  <2> QED BY <2>3, <2>4
<1>3. ASSUME NEW c \in Callers, NEW n \in 1..Size, AllocNone(c, n)
      PROVE  UNCHANGED held
  BY <1>3 DEF AllocNone
<1>4. ASSUME NEW c \in Callers, NEW S \in SUBSET held[c],
             held' = [held EXCEPT ![c] = @ \ S]
      PROVE  Ownership!Next
  <2>1. S \in SUBSET Pages
    BY DEF IInv, TypeOK
  <2>2. Ownership!Release(c, S)
    BY <1>4 DEF Ownership!Release
  <2> QED BY <2>1, <2>2
<1>5. ASSUME NEW c \in Callers, NEW S \in SUBSET held[c], NEW J,
             FreeNow(c, S, J) \/ FreeLater(c, S, J)
      PROVE  Ownership!Next
  BY <1>4, <1>5 DEF FreeNow, FreeLater
<1>6. CASE free_group_begin \/ free_group_end
  BY <1>6 DEF free_group_begin, free_group_end
<1> QED BY <1>1, <1>2, <1>3, <1>5, <1>6 DEF Next

\* The dual free lists with lazy merging and batched frees implement plain
\* exclusive ownership of pages.
THEOREM ImplementsOwnership == Spec => OwnershipSpec
<1>1. Init => Ownership!Init
  BY DEF Init, Ownership!Init
<1>2. IInv /\ [Next]_vars => [Ownership!Next]_held
  BY StepRefines
<1> QED BY <1>1, <1>2, Invariance, PTL DEF Spec, OwnershipSpec, Ownership!Spec

-----------------------------------------------------------------------------
(***************************************************************************)
(* alloc() fails only for want of slots when no page is cut short. (With a *)
(* short last page it may fail earlier: free_slots can have the pages and  *)
(* not the slots, and then it is not merged with release_slots.)           *)
(***************************************************************************)
NoShortPage == NumPages * PageSize = Size

\* The number of pages for n slots: enough, and no more than needed.
LEMMA PagesForIsLeast ==
  ASSUME NEW n \in Nat
  PROVE  /\ PagesFor(n) \in Nat
         /\ n <= PagesFor(n) * PageSize
         /\ \A k \in Nat : n <= k * PageSize => PagesFor(n) <= k
<1>. DEFINE q == PagesFor(n)
<1>0. PageSize \in Nat /\ PageSize > 0
  BY PageSizeAssumption
<1>1. q \in Int /\ q * PageSize \in Int
      /\ q * PageSize <= n + PageSize - 1 /\ n + PageSize - 1 < q * PageSize + PageSize
  <2>1. \A a \in Nat, b \in Nat \ {0} :
          /\ a \div b \in Int /\ (a \div b) * b \in Int
          /\ (a \div b) * b <= a /\ a < (a \div b) * b + b
    OBVIOUS
  <2>. QED BY <1>0, <2>1 DEF PagesFor
<1>. HIDE DEF q
<1>2. \A a, b, c \in Int : c > 0 /\ a >= b + 1 => a * c >= b * c + c
  OBVIOUS
<1>3. q >= 0
  BY <1>0, <1>1, <1>2
<1>4. n <= q * PageSize
  BY <1>0, <1>1
<1>5. ASSUME NEW k \in Nat, n <= k * PageSize PROVE q <= k
  <2>1. SUFFICES ASSUME q >= k + 1 PROVE FALSE
    BY <1>1
  <2>2. q * PageSize >= k * PageSize + PageSize
    BY <1>0, <1>1, <1>2, <2>1
  <2>3. k * PageSize \in Int
    BY <1>0
  <2>. QED BY <1>0, <1>1, <1>5, <2>2, <2>3
<1>. QED BY <1>1, <1>3, <1>4, <1>5 DEF q

\* With no short page, a set of pages has as many slots as its pages say.
LEMMA TokensOfWholePages ==
  ASSUME NoShortPage, NEW P
  PROVE  Cardinality(P) \in Nat => Tokens(P) = Cardinality(P) * PageSize
BY SizeAssumption, PageSizeAssumption DEF NoShortPage, Tokens, NumPages

\* Then alloc(n) finds its pages whenever n slots are free: the merge of the lists
\* comes before the pages are counted out.
LEMMA EnoughIsServed ==
  ASSUME NoShortPage, TypeOK, NEW n \in 1..Size, n <= available_size
  PROVE  Takes(Source(n), n) # {}
<1>1. NumPages \in Int /\ n \in Nat
  BY SizeAssumption, PageSizeAssumption DEF NumPages
<1>2. IsFiniteSet(Pages) /\ Pages \in SUBSET Nat
  BY <1>1, FS_Interval DEF Pages
<1>3. /\ IsFiniteSet(Free) /\ IsFiniteSet(free_slots)
      /\ Free \in SUBSET Nat /\ free_slots \in SUBSET Nat
  BY <1>2, FS_Subset DEF TypeOK, Free
<1>4. Cardinality(Free) \in Nat /\ Cardinality(free_slots) \in Nat
  BY <1>3, FS_CardinalityType
<1>5. PagesFor(n) \in Nat /\ n <= PagesFor(n) * PageSize
  BY <1>1, PagesForIsLeast
<1>6. PagesFor(n) <= Cardinality(Free)
  <2>1. n <= Cardinality(Free) * PageSize
    BY <1>4, TokensOfWholePages DEF available_size
  <2>. QED BY <1>1, <1>4, <2>1, PagesForIsLeast
<1>7. Source(n) \in SUBSET Nat /\ IsFiniteSet(Source(n)) /\ PagesFor(n) <= Cardinality(Source(n))
  BY <1>3, <1>4, <1>5, <1>6 DEF Source
<1>8. PICK P \in SUBSET Source(n) :
        /\ Cardinality(P) = PagesFor(n)
        /\ \A p \in P, q \in Source(n) \ P : p < q
  BY <1>5, <1>7, FirstPart
<1>9. Tokens(P) >= n
  BY <1>1, <1>5, <1>8, TokensOfWholePages, PageSizeAssumption
<1>10. P \in Takes(Source(n), n)
  BY <1>5, <1>8, <1>9 DEF Takes, Heads
<1>. QED BY <1>10

\* Only a failed alloc() can make the property false, and it does not.
LEMMA NextExhausted ==
  ASSUME NoShortPage, IInv, NoneMeansExhausted, [Next]_vars
  PROVE  NoneMeansExhausted'
<1>1. CASE UNCHANGED vars
  BY <1>1 DEF vars, NoneMeansExhausted, available_size, Tokens, Free
<1>2. ASSUME NEW c \in Callers, NEW n \in 1..Size, AllocNone(c, n)
      PROVE  NoneMeansExhausted'
  <2>1. n > available_size /\ Free' = Free /\ answer'.need = n
    BY <1>2, EnoughIsServed DEF AllocNone, IInv, Free
  <2>2. available_size' = available_size
    BY <2>1 DEF available_size, Tokens
  <2>3. available_size \in Int
    <3>1. IsFiniteSet(Pages)
      BY SizeAssumption, PageSizeAssumption, FS_Interval DEF Pages, NumPages
    <3>2. Cardinality(Free) \in Nat
      BY <3>1, FS_Subset, FS_CardinalityType DEF IInv, TypeOK, Free
    <3>. QED BY <3>2, TokensOfWholePages, PageSizeAssumption DEF available_size
  <2>. QED BY <2>1, <2>2, <2>3 DEF NoneMeansExhausted
<1>3. ASSUME NEW c \in Callers, NEW n \in 1..Size, Alloc(c, n)
      PROVE  NoneMeansExhausted'
  BY <1>3 DEF Alloc, NoneMeansExhausted
<1>4. ASSUME NEW c \in Callers, NEW S, NEW J, FreeNow(c, S, J) \/ FreeLater(c, S, J)
      PROVE  NoneMeansExhausted'
  BY <1>4 DEF FreeNow, FreeLater, Idle, NoneMeansExhausted
<1>5. CASE free_group_begin \/ free_group_end
  BY <1>5 DEF free_group_begin, free_group_end, Idle, NoneMeansExhausted
<1>. QED BY <1>1, <1>2, <1>3, <1>4, <1>5 DEF Next

\* alloc() returns None only when fewer slots than asked for are free, the two lists
\* taken together, for every pool whose last page is whole; so for PageSize = 1, the
\* only page size the model runner uses.
THEOREM NoneAlwaysMeansExhausted ==
  ASSUME NoShortPage
  PROVE  Spec => []NoneMeansExhausted
<1>1. Init => NoneMeansExhausted
  BY DEF Init, Idle, NoneMeansExhausted
<1>2. IInv /\ NoneMeansExhausted /\ [Next]_vars => NoneMeansExhausted'
  BY NextExhausted
<1>. QED BY <1>1, <1>2, Invariance, PTL DEF Spec

\* Pages of one slot are never cut short.
LEMMA UnitPagesAreWhole == PageSize = 1 => NoShortPage
BY SizeAssumption DEF NoShortPage, NumPages
=============================================================================
