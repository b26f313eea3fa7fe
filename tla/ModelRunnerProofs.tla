-------------------------- MODULE ModelRunnerProofs --------------------------
(***************************************************************************)
(* Proofs about ModelRunner: first the locks on the nodes of the radix     *)
(* tree, then who has which KV slot, and with what data.                   *)
(*                                                                         *)
(* Locks. A tree is right for a map L from requests to the nodes they hold *)
(* when its nodes and paths fit together, every node is locked once for    *)
(* each request of L that reads through it, and protected counts the tokens*)
(* of the locked nodes. Each operation of RadixTree keeps this for the map *)
(* that it leaves behind; the folds over a batch are taken apart step by   *)
(* step.                                                                   *)
(*                                                                         *)
(* Slots. Each slot is free, cached for one path whose data it holds, or   *)
(* own to one live request; positions of a row hold the tokens of their    *)
(* request up to there, and past the written ones what an earlier request  *)
(* left. Each free row is in the list once, and live prompts are cached    *)
(* with all their slots. Allocation, eviction, the KV data of a forward    *)
(* pass, the insertion of a prompt and a release each keep this, and so do *)
(* the three actions, unless the position a release reads in excess can do *)
(* harm (ExcessReadBites).                                                 *)
(*                                                                         *)
(* Types. They follow while the process is up; when an allocation raises,  *)
(* taking the locks of a batch back leads to the tree as it was locked     *)
(* before. protected is bounded by the pool, since the tokens of locked    *)
(* nodes are paths of prompts, each cached with a slot of its own.         *)
(***************************************************************************)
EXTENDS ModelRunner, DataTheorems

\* The tokens of prompts and answers.
Tok == Nat \cup OutTokens

\* The token paths that can come up.
Paths == Seq(Tok)

-----------------------------------------------------------------------------
\* Paths, ordered by "is a prefix of".

\* What it means to lie along a path.
LEMMA AlongIs ==
  ASSUME NEW key \in Paths, NEW p
  PROVE  p \in Along(key) <=> /\ p \in Paths /\ Len(p) \in 1..Len(key)
                              /\ \A i \in 1..Len(p) : p[i] = key[i]
<1>1. ASSUME NEW n \in 1..Len(key)
      PROVE  /\ SubSeq(key, 1, n) \in Paths /\ Len(SubSeq(key, 1, n)) = n
             /\ \A i \in 1..n : SubSeq(key, 1, n)[i] = key[i]
  BY DEF Paths
<1>2. ASSUME p \in Along(key)
      PROVE  p \in Paths /\ Len(p) \in 1..Len(key) /\ \A i \in 1..Len(p) : p[i] = key[i]
  <2>1. PICK n \in 1..Len(key) : p = SubSeq(key, 1, n)
    BY <1>2 DEF Along
  <2>. QED BY <1>1, <2>1
<1>3. ASSUME p \in Paths, Len(p) \in 1..Len(key), \A i \in 1..Len(p) : p[i] = key[i]
      PROVE  p \in Along(key)
  <2>1. PICK q : q = SubSeq(key, 1, Len(p))
    OBVIOUS
  <2>2. q \in Paths /\ Len(q) = Len(p) /\ \A i \in 1..Len(p) : q[i] = key[i]
    BY <1>1, <1>3, <2>1
  <2>3. p = q
    BY <1>3, <2>2 DEF Paths
  <2>. QED BY <1>3, <2>1, <2>3 DEF Along
<1>. QED BY <1>2, <1>3

\* A path that is a prefix is no longer; the root lies along no path.
LEMMA AlongType ==
  ASSUME NEW key \in Paths, NEW p \in Along(key)
  PROVE  p \in Paths /\ p # Root /\ Len(p) \in Nat /\ Len(p) > 0 /\ Len(key) \in Nat /\ Len(p) <= Len(key)
<1>1. p \in Paths /\ Len(p) \in 1..Len(key)
  BY AlongIs
<1>2. Len(key) \in Nat /\ Len(p) \in Nat
  BY <1>1 DEF Paths
<1>3. p # Root
  BY <1>1, <1>2 DEF Root
<1>. QED BY <1>1, <1>2, <1>3

\* The root has nothing along it.
LEMMA AlongRoot == Along(Root) = {}
BY DEF Along, Root

\* A path is along itself.
LEMMA AlongSelf ==
  ASSUME NEW p \in Paths, p # Root PROVE p \in Along(p)
<1>1. Len(p) \in Nat /\ Len(p) # 0
  BY DEF Paths, Root
<1>. QED BY <1>1, AlongIs

\* Prefixes of a prefix.
LEMMA AlongTrans ==
  ASSUME NEW r \in Paths, NEW q \in Along(r), NEW p \in Along(q) PROVE p \in Along(r)
<1>1. q \in Paths /\ Len(q) \in 1..Len(r) /\ \A i \in 1..Len(q) : q[i] = r[i]
  BY AlongIs
<1>2. p \in Paths /\ Len(p) \in 1..Len(q) /\ \A i \in 1..Len(p) : p[i] = q[i]
  BY <1>1, AlongIs
<1>3. Len(r) \in Nat /\ Len(q) \in Nat /\ Len(p) \in Nat
  BY <1>1, <1>2 DEF Paths
<1>4. Len(p) \in 1..Len(r) /\ \A i \in 1..Len(p) : p[i] = r[i]
  BY <1>1, <1>2, <1>3
<1>. QED BY <1>2, <1>4, AlongIs

\* Two prefixes of a path are ordered by their lengths.
LEMMA AlongChain ==
  ASSUME NEW r \in Paths, NEW q \in Along(r), NEW p \in Along(r), Len(p) <= Len(q)
  PROVE  p \in Along(q)
<1>1. q \in Paths /\ Len(q) \in 1..Len(r) /\ \A i \in 1..Len(q) : q[i] = r[i]
  BY AlongIs
<1>2. p \in Paths /\ Len(p) \in 1..Len(r) /\ \A i \in 1..Len(p) : p[i] = r[i]
  BY AlongIs
<1>3. Len(r) \in Nat /\ Len(q) \in Nat /\ Len(p) \in Nat
  BY <1>1, <1>2 DEF Paths
<1>4. Len(p) \in 1..Len(q) /\ \A i \in 1..Len(p) : p[i] = q[i]
  BY <1>1, <1>2, <1>3
<1>. QED BY <1>1, <1>2, <1>4, AlongIs

\* A prefix of the same length is the path itself.
LEMMA AlongSame ==
  ASSUME NEW q \in Paths, NEW p \in Along(q), Len(q) <= Len(p) PROVE p = q
<1>1. p \in Paths /\ Len(p) \in 1..Len(q) /\ \A i \in 1..Len(p) : p[i] = q[i]
  BY AlongIs
<1>2. Len(q) \in Nat /\ Len(p) \in Nat
  BY <1>1 DEF Paths
<1>3. Len(p) = Len(q)
  BY <1>1, <1>2
<1>. QED BY <1>1, <1>3 DEF Paths

\* A node below a path is one that the path is along.
LEMMA StrictPrefix ==
  ASSUME NEW p \in Paths, p # Root, NEW n \in Paths
  PROVE  IsStrictPrefix(p, n) <=> p \in Along(n) /\ p # n
<1>1. Len(p) \in Nat /\ Len(n) \in Nat /\ Len(p) # 0
  BY DEF Paths, Root
<1>2. ASSUME Len(p) <= Len(n)
      PROVE  SubSeq(p, 1, Len(p)) = p /\ SubSeq(n, 1, Len(p)) \in Along(n)
             /\ Len(SubSeq(n, 1, Len(p))) = Len(p)
  BY <1>1, <1>2 DEF Paths, Along
<1>3. ASSUME IsPrefix(p, n) PROVE p \in Along(n)
  BY <1>2, <1>3 DEF IsPrefix
<1>4. ASSUME p \in Along(n) PROVE IsPrefix(p, n)
  <2>1. Len(p) \in 1..Len(n) /\ \A i \in 1..Len(p) : p[i] = n[i]
    BY <1>4, AlongIs
  <2>2. SubSeq(n, 1, Len(p)) \in Paths /\ Len(SubSeq(n, 1, Len(p))) = Len(p)
        /\ \A i \in 1..Len(p) : SubSeq(n, 1, Len(p))[i] = n[i]
    BY <1>1, <2>1 DEF Paths
  <2>3. SubSeq(n, 1, Len(p)) = p
    BY <1>1, <2>1, <2>2 DEF Paths
  <2>. QED BY <1>1, <1>2, <2>1, <2>3 DEF IsPrefix
<1>. QED BY <1>3, <1>4 DEF IsStrictPrefix

\* A set of prefixes of one path that is not empty has a longest and a shortest.
LEMMA ChainEnds ==
  ASSUME NEW key \in Paths, NEW S, S \subseteq Along(key), S # {}
  PROVE  /\ \E p \in S : \A q \in S : Len(q) <= Len(p)
         /\ \E p \in S : \A q \in S : Len(p) <= Len(q)
<1>1. \A p \in S : Len(p) \in Nat /\ Len(p) <= Len(key)
  BY AlongType
<1>2. Len(key) \in Nat
  BY DEF Paths
<1>3. \E p \in S : \A q \in S : Len(p) <= Len(q)
  <2>. DEFINE T == {Len(p) : p \in S}
  <2>1. T \subseteq Nat /\ T # {}
    BY <1>1
  <2>2. PICK n \in T : \A m \in T : n <= m
    <3>. HIDE DEF T
    <3>. QED BY <2>1, NatLeast
  <2>. QED BY <2>2
<1>4. \E p \in S : \A q \in S : Len(q) <= Len(p)
  <2>. DEFINE T == {Len(key) - Len(p) : p \in S}
  <2>1. T \subseteq Nat /\ T # {}
    BY <1>1, <1>2
  <2>2. PICK n \in T : \A m \in T : n <= m
    <3>. HIDE DEF T
    <3>. QED BY <2>1, NatLeast
  <2>3. PICK p \in S : n = Len(key) - Len(p)
    BY <2>2
  <2>4. ASSUME NEW q \in S PROVE Len(q) <= Len(p)
    <3>1. n <= Len(key) - Len(q)
      BY <2>2
    <3>. QED BY <1>1, <1>2, <2>3, <3>1
  <2>. QED BY <2>4
<1>. QED BY <1>3, <1>4

\* The longest of a set of prefixes of one path.
LEMMA LongestIs ==
  ASSUME NEW key \in Paths, NEW S, S \subseteq Along(key)
  PROVE  /\ S = {} => Longest(S) = Root
         /\ S # {} => Longest(S) \in S
         /\ Longest(S) \in Paths
         /\ \A q \in S : q \in Along(Longest(S))
<1>1. CASE S = {}
  BY <1>1 DEF Longest, Paths, Root
<1>2. CASE S # {}
  <2>1. Longest(S) = CHOOSE p \in S : \A q \in S : Len(q) <= Len(p)
    BY <1>2 DEF Longest
  <2>2. Longest(S) \in S /\ \A q \in S : Len(q) <= Len(Longest(S))
    BY <1>2, <2>1, ChainEnds
  <2>3. \A q \in S : q \in Along(Longest(S))
    BY <2>2, AlongChain
  <2>. QED BY <1>2, <2>2, <2>3, AlongType
<1>. QED BY <1>1, <1>2

-----------------------------------------------------------------------------
\* Trees that fit together, and what they say of the locks that requests hold.

\* A tree with its fields; the nodes end at cached paths.
IsTree(t) ==
  /\ t = [kv |-> t.kv, lock |-> t.lock, evictable |-> t.evictable, protected |-> t.protected]
  /\ t.lock \in [Nodes(t) -> Nat]
  /\ IsFiniteSet(Nodes(t))
  /\ DOMAIN t.kv \subseteq Paths \ {Root}
  /\ Nodes(t) \subseteq DOMAIN t.kv

\* What is cached for a path is cached for its prefixes.
Closed(t) == \A q \in DOMAIN t.kv : Along(q) \subseteq DOMAIN t.kv

\* Every cached path ends at a node or inside one.
Covered(t) == \A p \in DOMAIN t.kv : \E n \in Nodes(t) : p \in Along(n)

\* n is where the node that path p ends in has its own end.
FirstBelow(t, p, n) == n \in Below(t, p) /\ \A q \in Below(t, p) : n \in Along(q)

\* Paths part only where a node ends.
PartAtNodes(t) == \A p \in DOMAIN t.kv \ Nodes(t) : \E n : FirstBelow(t, p, n)

\* What holds of the nodes and paths of a tree, whoever holds them.
Shape(t) == IsTree(t) /\ Closed(t) /\ Covered(t) /\ PartAtNodes(t)

\* The requests of L that read through the node n.
Readers(L, n) == {r \in DOMAIN L : n \in Along(L[r])}

\* L says which node each request holds: a node is locked once for each reader.
Held(t, L) ==
  /\ IsFiniteSet(DOMAIN L)
  /\ \A r \in DOMAIN L : L[r] \in Nodes(t) \cup {Root}
  /\ \A n \in Nodes(t) : t.lock[n] = Cardinality(Readers(L, n))

\* The nodes that somebody holds.
Locked(t) == {n \in Nodes(t) : t.lock[n] > 0}

\* protected counts the tokens of the locked nodes.
Charged(t) == t.protected = TokensOf(t, Locked(t))

\* kv is a function, and what evictable counts, it counts in whole tokens.
Typed(t) == t.kv = [p \in DOMAIN t.kv |-> t.kv[p]] /\ t.evictable \in Int

\* A tree that is right for the holders L.
TreeInv(t, L) == Shape(t) /\ Held(t, L) /\ Charged(t) /\ Typed(t)

\* The nodes below a path, by the paths along them.
LEMMA BelowIs ==
  ASSUME NEW t, Nodes(t) \subseteq Paths, NEW p \in Paths, p # Root
  PROVE  Below(t, p) = {n \in Nodes(t) : p \in Along(n) /\ p # n}
BY StrictPrefix DEF Below

\* The path lies inside the first node below it, and there is one only.
LEMMA FirstBelowFacts ==
  ASSUME NEW t, IsTree(t), NEW p \in DOMAIN t.kv, NEW n, FirstBelow(t, p, n)
  PROVE  /\ n \in Nodes(t) /\ n \in Paths /\ p \in Along(n) /\ p # n /\ Len(p) < Len(n)
         /\ \A q \in Nodes(t) : p \in Along(q) /\ p # q => n \in Along(q)
<1>1. p \in Paths /\ p # Root /\ Nodes(t) \subseteq Paths
  BY DEF IsTree
<1>2. Below(t, p) = {q \in Nodes(t) : p \in Along(q) /\ p # q}
  BY <1>1, BelowIs
<1>3. n \in Nodes(t) /\ n \in Paths /\ p \in Along(n) /\ p # n
  BY <1>1, <1>2 DEF FirstBelow
<1>4. Len(p) < Len(n)
  <2>1. ~(Len(n) <= Len(p))
    BY <1>3, AlongSame
  <2>2. Len(n) \in Nat /\ Len(p) \in Nat
    BY <1>3, AlongType
  <2>. QED BY <2>1, <2>2
<1>. QED BY <1>2, <1>3, <1>4 DEF FirstBelow

\* How to show that a node is the first below a path.
LEMMA FirstBelowIs ==
  ASSUME NEW t, Nodes(t) \subseteq Paths, NEW p \in Paths, p # Root,
         NEW n \in Nodes(t), p \in Along(n), p # n,
         \A q \in Nodes(t) : p \in Along(q) /\ p # q => n \in Along(q)
  PROVE  FirstBelow(t, p, n)
<1>1. Below(t, p) = {q \in Nodes(t) : p \in Along(q) /\ p # q}
  BY BelowIs
<1>. QED BY <1>1 DEF FirstBelow

\* _split_node() reads the lock of the node that it cuts.
LEMMA SplitLockIs ==
  ASSUME NEW t, IsTree(t), NEW p \in DOMAIN t.kv, NEW n, FirstBelow(t, p, n)
  PROVE  SplitLock(t, p) = t.lock[n]
<1>. DEFINE m == CHOOSE m \in Below(t, p) : \A q \in Below(t, p) : Len(m) <= Len(q)
<1>1. n \in Below(t, p) /\ \A q \in Below(t, p) : n \in Along(q)
  BY DEF FirstBelow
<1>2. \A q \in Below(t, p) : q \in Paths
  BY DEF IsTree, Below
<1>3. \A q \in Below(t, p) : Len(n) <= Len(q)
  BY <1>1, <1>2, AlongType
<1>4. m \in Below(t, p) /\ \A q \in Below(t, p) : Len(m) <= Len(q)
  BY <1>1, <1>3
<1>5. SplitLock(t, p) = t.lock[m]
  BY DEF SplitLock
<1>. HIDE DEF m
<1>6. m \in Paths /\ n \in Along(m) /\ Len(m) <= Len(n)
  BY <1>1, <1>2, <1>4
<1>7. n = m
  BY <1>6, AlongSame
<1>. QED BY <1>5, <1>7

\* The tree s is t with a node boundary at p, inside node n.
IsSplit(s, t, p, n) ==
  /\ s.kv = t.kv /\ s.protected = t.protected /\ s.evictable = t.evictable /\ Nodes(s) = Nodes(t) \cup {p}
  /\ s.lock = [q \in Nodes(t) \cup {p} |-> IF q = p THEN t.lock[n] ELSE t.lock[q]]
  /\ s = [kv |-> s.kv, lock |-> s.lock, evictable |-> s.evictable, protected |-> s.protected]

\* _split_node() adds one node and leaves the rest alone.
LEMMA SplitIs ==
  ASSUME NEW t, Shape(t), NEW p \in DOMAIN t.kv, p \notin Nodes(t)
  PROVE  \E n : FirstBelow(t, p, n) /\ IsSplit(Split(t, p), t, p, n)
<1>1. PICK n : FirstBelow(t, p, n)
  BY DEF Shape, PartAtNodes
<1>2. p # Root /\ IsTree(t)
  BY DEF Shape, IsTree
<1>3. SplitLock(t, p) = t.lock[n]
  BY <1>1, <1>2, SplitLockIs
<1>4. PICK f : f = [q \in Nodes(t) \cup {p} |-> IF q = p THEN t.lock[n] ELSE t.lock[q]]
  OBVIOUS
<1>5. Split(t, p) = [t EXCEPT !.lock = f]
  BY <1>2, <1>3, <1>4 DEF Split
<1>6. PICK k, l, e, c : t = [kv |-> k, lock |-> l, evictable |-> e, protected |-> c]
  BY <1>2 DEF IsTree
<1>7. Split(t, p) = [kv |-> k, lock |-> f, evictable |-> e, protected |-> c]
  BY <1>5, <1>6
<1>8. DOMAIN f = Nodes(t) \cup {p}
  BY <1>4
<1>. QED BY <1>1, <1>4, <1>6, <1>7, <1>8 DEF IsSplit, Nodes

\* A node boundary inside a node leaves the tree well-formed.
LEMMA SplitShape ==
  ASSUME NEW t, Shape(t), NEW p \in DOMAIN t.kv, p \notin Nodes(t), NEW n,
         FirstBelow(t, p, n), NEW s, IsSplit(s, t, p, n)
  PROVE  Shape(s)
<1>0. IsTree(t) /\ Nodes(t) \subseteq Paths /\ p \in Paths /\ p # Root
  BY DEF Shape, IsTree
<1>1. n \in Nodes(t) /\ n \in Paths /\ p \in Along(n) /\ p # n
      /\ \A q \in Nodes(t) : p \in Along(q) /\ p # q => n \in Along(q)
  BY <1>0, FirstBelowFacts
<1>2. Nodes(s) = Nodes(t) \cup {p} /\ DOMAIN s.kv = DOMAIN t.kv
  BY DEF IsSplit
<1>3. IsTree(s)
  <2>1. s.lock \in [Nodes(s) -> Nat]
    BY <1>0, <1>1, <1>2 DEF IsSplit, IsTree
  <2>2. IsFiniteSet(Nodes(s))
    BY <1>0, <1>2, FS_AddElement DEF IsTree
  <2>. QED BY <1>0, <1>2, <2>1, <2>2 DEF IsTree, IsSplit
<1>4. Closed(s) /\ Covered(s)
  BY <1>2 DEF Shape, Closed, Covered
<1>5. ASSUME NEW x \in DOMAIN s.kv \ Nodes(s) PROVE \E m : FirstBelow(s, x, m)
  <2>1. x \in DOMAIN t.kv \ Nodes(t) /\ x # p /\ x \in Paths /\ x # Root
    BY <1>0, <1>2 DEF IsTree
  <2>2. PICK m : FirstBelow(t, x, m)
    BY <2>1 DEF Shape, PartAtNodes
  <2>3. m \in Nodes(t) /\ m \in Paths /\ x \in Along(m) /\ x # m
        /\ \A q \in Nodes(t) : x \in Along(q) /\ x # q => m \in Along(q)
    BY <1>0, <2>1, <2>2, FirstBelowFacts
  <2>4. Nodes(s) \subseteq Paths /\ m \in Nodes(s) /\ p \in Nodes(s)
    BY <1>0, <1>2, <2>3
  <2>5. CASE x \in Along(p)
    <3>1. x \in Along(n) /\ x # n
      <4>1. x \in Along(n)
        BY <1>1, <2>5, AlongTrans
      <4>. QED BY <1>1, <2>1, <4>1
    <3>2. m \in Along(n)
      BY <1>1, <2>3, <3>1
    <3>3. CASE Len(m) <= Len(p)
      <4>1. m \in Along(p)
        BY <1>1, <3>2, <3>3, AlongChain
      <4>2. \A q \in Nodes(s) : x \in Along(q) /\ x # q => m \in Along(q)
        BY <1>2, <2>3, <4>1
      <4>. QED BY <2>1, <2>3, <2>4, <4>2, FirstBelowIs
    <3>4. CASE Len(p) <= Len(m)
      <4>1. p \in Along(m)
        BY <1>1, <3>2, <3>4, AlongChain
      <4>2. ASSUME NEW q \in Nodes(s), x \in Along(q), x # q PROVE p \in Along(q)
        <5>1. CASE q = p
          BY <1>0, <5>1, AlongSelf
        <5>2. CASE q # p
          <6>1. q \in Nodes(t) /\ q \in Paths /\ m \in Along(q)
            BY <1>0, <1>2, <2>3, <4>2, <5>2
          <6>. QED BY <4>1, <6>1, AlongTrans
        <5>. QED BY <5>1, <5>2
      <4>. QED BY <2>1, <2>4, <2>5, <4>2, FirstBelowIs
    <3>5. Len(m) \in Nat /\ Len(p) \in Nat
      BY <1>0, <2>3 DEF Paths
    <3>. QED BY <3>3, <3>4, <3>5
  <2>6. CASE x \notin Along(p)
    <3>1. \A q \in Nodes(s) : x \in Along(q) /\ x # q => m \in Along(q)
      BY <1>2, <2>3, <2>6
    <3>. QED BY <2>1, <2>3, <2>4, <3>1, FirstBelowIs
  <2>. QED BY <2>5, <2>6
<1>. QED BY <1>3, <1>4, <1>5 DEF Shape, PartAtNodes

\* The requests that read through the new node are those that read through the
\* node it was cut from.
LEMMA SplitHeld ==
  ASSUME NEW t, Shape(t), NEW L, Held(t, L), NEW p \in DOMAIN t.kv, p \notin Nodes(t),
         NEW n, FirstBelow(t, p, n), NEW s, IsSplit(s, t, p, n)
  PROVE  Held(s, L)
<1>0. IsTree(t) /\ Nodes(t) \subseteq Paths /\ p \in Paths /\ p # Root
  BY DEF Shape, IsTree
<1>1. n \in Nodes(t) /\ n \in Paths /\ p \in Along(n) /\ p # n
      /\ \A q \in Nodes(t) : p \in Along(q) /\ p # q => n \in Along(q)
  BY <1>0, FirstBelowFacts
<1>2. ASSUME NEW r \in DOMAIN L PROVE p \in Along(L[r]) <=> n \in Along(L[r])
  <2>1. CASE L[r] = Root
    BY <2>1, AlongRoot
  <2>2. CASE L[r] \in Nodes(t)
    <3>1. L[r] \in Paths /\ L[r] # p
      BY <1>0, <2>2
    <3>2. p \in Along(L[r]) => n \in Along(L[r])
      BY <1>1, <2>2, <3>1
    <3>3. n \in Along(L[r]) => p \in Along(L[r])
      BY <1>1, <3>1, AlongTrans
    <3>. QED BY <3>2, <3>3
  <2>. QED BY <2>1, <2>2 DEF Held
<1>3. Readers(L, p) = Readers(L, n)
  BY <1>2 DEF Readers
<1>4. Nodes(s) = Nodes(t) \cup {p} /\ s.lock[p] = t.lock[n]
      /\ \A q \in Nodes(t) : s.lock[q] = t.lock[q]
  BY DEF IsSplit
<1>. QED BY <1>1, <1>3, <1>4 DEF Held

-----------------------------------------------------------------------------
\* Counting tokens.

\* One step of the sum of key lengths, and the function that it defines.
KeyStep(t, g, s) == IF s = {} THEN 0 ELSE KeyLen(t, First(s)) + g[s \ {First(s)}]

IsKeySumOn(t, g, S) == g = [s \in SUBSET S |-> KeyStep(t, g, s)]

\* TokensOf() is the sum of a function.
LEMMA TokensSum ==
  ASSUME NEW t, NEW D, NEW E, E \subseteq D, IsFiniteSet(E),
         NEW f, f = [n \in D |-> KeyLen(t, n)]
  PROVE  TokensOf(t, E) = SumFunctionOnSet(f, E)
<1>1. TokensOf(t, E) = (CHOOSE g : IsKeySumOn(t, g, E))[E]
  BY DEF TokensOf, MapThenSumSet, MapThenFoldSet, IsKeySumOn, KeyStep, First
<1>2. ASSUME NEW g PROVE IsKeySumOn(t, g, E) <=> IsSumOn(f, g, E)
  <2>1. ASSUME NEW s \in SUBSET E PROVE KeyStep(t, g, s) = SumStep(f, g, s)
    <3>1. CASE s = {}
      BY <3>1 DEF KeyStep, SumStep
    <3>2. CASE s # {}
      <4>1. First(s) \in D
        BY <3>2, FirstIn
      <4>2. f[First(s)] = KeyLen(t, First(s))
        BY <4>1
      <4>. QED BY <3>2, <4>2 DEF KeyStep, SumStep
    <3>. QED BY <3>1, <3>2
  <2>. QED BY <2>1 DEF IsKeySumOn, IsSumOn
<1>3. PICK h : h = CHOOSE g : IsKeySumOn(t, g, E)
  OBVIOUS
<1>4. IsSumOn(f, h, E)
  <2>1. \E g : IsSumOn(f, g, E)
    BY SumExists
  <2>2. \E g : IsKeySumOn(t, g, E)
    BY <1>2, <2>1
  <2>3. IsKeySumOn(t, h, E)
    BY <1>3, <2>2
  <2>. QED BY <1>2, <2>3
<1>5. PICK k : k = CHOOSE g : IsSumOn(f, g, E)
  OBVIOUS
<1>6. IsSumOn(f, k, E) /\ SumFunctionOnSet(f, E) = k[E]
  BY <1>5, SumExists, SumIsFold
<1>7. h[E] = k[E]
  BY <1>4, <1>6, SumUnique
<1>. QED BY <1>1, <1>3, <1>6, <1>7

\* The parent of a node: the last of the nodes on the way to it.
LEMMA ParentIs ==
  ASSUME NEW t, NEW n \in Paths
  PROVE  /\ ParentOf(t, n) \in Paths
         /\ \/ ParentOf(t, n) = Root
            \/ ParentOf(t, n) \in Nodes(t) /\ ParentOf(t, n) \in Along(n) /\ ParentOf(t, n) # n
         /\ \A q \in Nodes(t) : q \in Along(n) /\ q # n => q \in Along(ParentOf(t, n))
<1>. DEFINE S == (Along(n) \ {n}) \cap Nodes(t)
<1>1. S \subseteq Along(n) /\ ParentOf(t, n) = Longest(S)
  BY DEF ParentOf
<1>2. /\ S = {} => Longest(S) = Root
      /\ S # {} => Longest(S) \in S
      /\ Longest(S) \in Paths
      /\ \A q \in S : q \in Along(Longest(S))
  <2>. HIDE DEF S
  <2>. QED BY <1>1, LongestIs
<1>. QED BY <1>1, <1>2

\* A node has one parent.
LEMMA ParentUnique ==
  ASSUME NEW t, NEW n \in Paths, NEW m \in Paths,
         m = Root \/ (m \in Nodes(t) /\ m \in Along(n) /\ m # n),
         \A q \in Nodes(t) : q \in Along(n) /\ q # n => q \in Along(m)
  PROVE  ParentOf(t, n) = m
<1>. DEFINE p == ParentOf(t, n)
<1>1. /\ p \in Paths
      /\ p = Root \/ (p \in Nodes(t) /\ p \in Along(n) /\ p # n)
      /\ \A q \in Nodes(t) : q \in Along(n) /\ q # n => q \in Along(p)
  BY ParentIs
<1>. HIDE DEF p
<1>2. CASE m = Root
  <2>1. p = Root
    BY <1>1, <1>2, AlongRoot
  <2>. QED BY <1>2, <2>1 DEF p
<1>3. CASE m # Root
  <2>1. m \in Along(p)
    BY <1>1, <1>3
  <2>2. p # Root
    BY <2>1, AlongRoot
  <2>3. p \in Along(m)
    BY <1>1, <2>2
  <2>4. Len(p) <= Len(m)
    BY <2>3, AlongType
  <2>5. m = p
    BY <1>1, <2>1, <2>4, AlongSame
  <2>. QED BY <2>5 DEF p
<1>. QED BY <1>2, <1>3

\* The length of a key is a natural number.
LEMMA KeyLenType ==
  ASSUME NEW t, NEW n \in Paths
  PROVE  KeyLen(t, n) \in Nat
<1>1. ParentOf(t, n) \in Paths
      /\ (ParentOf(t, n) = Root \/ ParentOf(t, n) \in Along(n))
  BY ParentIs
<1>2. Len(n) \in Nat /\ Len(ParentOf(t, n)) \in Nat
  BY <1>1 DEF Paths
<1>3. Len(ParentOf(t, n)) <= Len(n)
  <2>1. CASE ParentOf(t, n) = Root
    BY <1>2, <2>1 DEF Root
  <2>2. CASE ParentOf(t, n) \in Along(n)
    BY <2>2, AlongType
  <2>. QED BY <1>1, <2>1, <2>2
<1>. QED BY <1>2, <1>3 DEF KeyLen

\* The tokens of a set of nodes are a natural number, and none for no nodes.
LEMMA TokensType ==
  ASSUME NEW t, NEW E, E \subseteq Paths, IsFiniteSet(E)
  PROVE  TokensOf(t, E) \in Nat
<1>. DEFINE f == [n \in E |-> KeyLen(t, n)]
<1>1. f \in [E -> Nat]
  BY KeyLenType
<1>2. TokensOf(t, E) = SumFunctionOnSet(f, E)
  BY TokensSum
<1>. HIDE DEF f
<1>. QED BY <1>1, <1>2, SumNat

\* No nodes have no tokens.
LEMMA TokensEmpty == ASSUME NEW t PROVE TokensOf(t, {}) = 0
<1>1. IsFiniteSet({})
  BY FS_EmptySet
<1>2. PICK f : f = [n \in {} |-> KeyLen(t, n)]
  OBVIOUS
<1>. QED BY <1>1, <1>2, TokensSum, SumEmpty

\* They depend on the lengths of these nodes only.
LEMMA TokensCong ==
  ASSUME NEW s, NEW t, NEW E, IsFiniteSet(E), \A n \in E : KeyLen(s, n) = KeyLen(t, n)
  PROVE  TokensOf(s, E) = TokensOf(t, E)
<1>. DEFINE f == [n \in E |-> KeyLen(t, n)]
<1>1. f = [n \in E |-> KeyLen(s, n)]
  OBVIOUS
<1>2. TokensOf(t, E) = SumFunctionOnSet(f, E)
  BY TokensSum
<1>. HIDE DEF f
<1>3. TokensOf(s, E) = SumFunctionOnSet(f, E)
  BY <1>1, TokensSum
<1>. QED BY <1>2, <1>3

\* One node more.
LEMMA TokensAdd ==
  ASSUME NEW t, NEW E, E \subseteq Paths, IsFiniteSet(E), NEW x \in Paths, x \notin E
  PROVE  TokensOf(t, E \cup {x}) = KeyLen(t, x) + TokensOf(t, E)
<1>. DEFINE F == E \cup {x}
            f == [n \in F |-> KeyLen(t, n)]
<1>1. f \in [F -> Int] /\ f[x] = KeyLen(t, x)
  BY KeyLenType
<1>2. IsFiniteSet(F)
  BY FS_AddElement
<1>3. E \subseteq F /\ F \subseteq F /\ x \in F \ E /\ F = E \cup {x}
  OBVIOUS
<1>. HIDE DEF F
<1>4. TokensOf(t, F) = SumFunctionOnSet(f, F) /\ TokensOf(t, E) = SumFunctionOnSet(f, E)
  BY <1>2, <1>3, TokensSum
<1>. HIDE DEF f
<1>5. SumFunctionOnSet(f, E \cup {x}) = f[x] + SumFunctionOnSet(f, E)
  BY <1>1, <1>3, SumAdd
<1>. QED BY <1>1, <1>3, <1>4, <1>5

\* The tokens of nodes in two sets that are apart.
LEMMA TokensUnion ==
  ASSUME NEW t, NEW E, E \subseteq Paths, IsFiniteSet(E),
         NEW F, F \subseteq Paths, IsFiniteSet(F), E \cap F = {}
  PROVE  TokensOf(t, E \cup F) = TokensOf(t, E) + TokensOf(t, F)
<1>. DEFINE G == {T \in SUBSET F : TokensOf(t, E \cup T) = TokensOf(t, E) + TokensOf(t, T)}
<1>1. ASSUME NEW T \in SUBSET F, \A U \in (SUBSET T) \ {T} : U \in G PROVE T \in G
  <2>1. CASE T = {}
    <3>1. E \cup T = E
      BY <2>1
    <3>2. TokensOf(t, T) = 0 /\ TokensOf(t, E) \in Nat
      BY <2>1, TokensEmpty, TokensType
    <3>. QED BY <3>1, <3>2
  <2>2. CASE T # {}
    <3>1. PICK x \in T : TRUE
      BY <2>2
    <3>2. PICK U : U = T \ {x}
      OBVIOUS
    <3>3. U \in (SUBSET T) \ {T} /\ x \in Paths /\ x \notin U /\ x \notin E \cup U
          /\ T = U \cup {x} /\ E \cup T = (E \cup U) \cup {x} /\ U \subseteq Paths
          /\ E \cup U \subseteq Paths /\ U \subseteq F
      BY <3>1, <3>2
    <3>4. TokensOf(t, E \cup U) = TokensOf(t, E) + TokensOf(t, U)
      BY <1>1, <3>3
    <3>5. IsFiniteSet(U) /\ IsFiniteSet(E \cup U)
      BY <3>3, FS_Subset, FS_Union
    <3>6. TokensOf(t, U \cup {x}) = KeyLen(t, x) + TokensOf(t, U)
      BY <3>3, <3>5, TokensAdd
    <3>7. TokensOf(t, (E \cup U) \cup {x}) = KeyLen(t, x) + TokensOf(t, E \cup U)
      BY <3>3, <3>5, TokensAdd
    <3>8. KeyLen(t, x) \in Nat /\ TokensOf(t, E) \in Nat /\ TokensOf(t, U) \in Nat
      BY <3>3, <3>5, KeyLenType, TokensType
    <3>9. /\ TokensOf(t, E \cup T) = KeyLen(t, x) + (TokensOf(t, E) + TokensOf(t, U))
          /\ TokensOf(t, T) = KeyLen(t, x) + TokensOf(t, U)
      <4>1. T = U \cup {x} /\ E \cup T = (E \cup U) \cup {x}
        BY <3>3
      <4>. QED BY <3>4, <3>6, <3>7, <4>1
    <3>10. PICK a, c, d : /\ a = KeyLen(t, x) /\ c = TokensOf(t, E) /\ d = TokensOf(t, U)
                          /\ a \in Nat /\ c \in Nat /\ d \in Nat
      BY <3>8
    <3>11. a + (c + d) = c + (a + d)
      BY <3>10
    <3>. QED BY <3>9, <3>10, <3>11
  <2>. QED BY <2>1, <2>2
<1>2. \A T \in SUBSET F : T \in G
  <2>. HIDE DEF G
  <2>. QED BY <1>1, FiniteInduction
<1>. QED BY <1>2

\* The locked nodes are finitely many nodes of the tree.
LEMMA LockedType ==
  ASSUME NEW t, IsTree(t)
  PROVE  Locked(t) \subseteq Nodes(t) /\ Locked(t) \subseteq Paths /\ IsFiniteSet(Locked(t))
BY FS_Subset DEF IsTree, Locked

\* How a split divides the tokens of the node it cuts.
LEMMA SplitLengths ==
  ASSUME NEW t, Shape(t), NEW p \in DOMAIN t.kv, p \notin Nodes(t), NEW n,
         FirstBelow(t, p, n), NEW s, IsSplit(s, t, p, n)
  PROVE  /\ \A q \in Nodes(t) \ {n} : KeyLen(s, q) = KeyLen(t, q)
         /\ KeyLen(s, n) + KeyLen(s, p) = KeyLen(t, n)
<1>0. IsTree(t) /\ Nodes(t) \subseteq Paths /\ p \in Paths /\ p # Root
  BY DEF Shape, IsTree
<1>1. n \in Nodes(t) /\ n \in Paths /\ p \in Along(n) /\ p # n /\ Len(p) < Len(n)
      /\ \A q \in Nodes(t) : p \in Along(q) /\ p # q => n \in Along(q)
  BY <1>0, FirstBelowFacts
<1>2. Nodes(s) = Nodes(t) \cup {p}
  BY DEF IsSplit
<1>3. ASSUME NEW q \in Nodes(t) \ {n} PROVE ParentOf(s, q) = ParentOf(t, q)
  <2>1. q \in Paths /\ q # p
    BY <1>0
  <2>2. CASE p \notin Along(q)
    <3>1. (Along(q) \ {q}) \cap Nodes(s) = (Along(q) \ {q}) \cap Nodes(t)
      BY <1>2, <2>2
    <3>. QED BY <3>1 DEF ParentOf
  <2>3. CASE p \in Along(q)
    <3>1. PICK m : m = ParentOf(t, q)
      OBVIOUS
    <3>2. /\ m \in Paths
          /\ m = Root \/ (m \in Nodes(t) /\ m \in Along(q) /\ m # q)
          /\ \A x \in Nodes(t) : x \in Along(q) /\ x # q => x \in Along(m)
      BY <2>1, <3>1, ParentIs
    <3>3. n \in Along(m)
      BY <1>1, <2>1, <2>3, <3>2
    <3>4. m # Root
      BY <3>3, AlongRoot
    <3>5. p \in Along(m)
      BY <1>1, <3>2, <3>3, AlongTrans
    <3>6. m \in Nodes(s) /\ m \in Along(q) /\ m # q
          /\ \A x \in Nodes(s) : x \in Along(q) /\ x # q => x \in Along(m)
      BY <1>2, <3>2, <3>4, <3>5
    <3>7. ParentOf(s, q) = m
      BY <2>1, <3>2, <3>6, ParentUnique
    <3>. QED BY <3>1, <3>7
  <2>. QED BY <2>2, <2>3
<1>4. ASSUME NEW x \in Nodes(t), x \in Along(n), x # n PROVE x \in Along(p)
  <2>1. x \in Paths /\ Len(x) \in Nat /\ Len(p) \in Nat
    BY <1>0 DEF Paths
  <2>2. CASE Len(x) <= Len(p)
    BY <1>1, <1>4, <2>2, AlongChain
  <2>3. CASE Len(p) <= Len(x)
    <3>1. p \in Along(x) /\ p # x
      BY <1>1, <1>4, <2>3, AlongChain
    <3>2. n \in Along(x)
      BY <1>1, <3>1
    <3>3. Len(n) <= Len(x)
      BY <2>1, <3>2, AlongType
    <3>4. x = n
      BY <1>1, <1>4, <3>3, AlongSame
    <3>. QED BY <1>4, <3>4
  <2>. QED BY <2>1, <2>2, <2>3
<1>5. ParentOf(s, n) = p
  <2>1. \A x \in Nodes(s) : x \in Along(n) /\ x # n => x \in Along(p)
    BY <1>0, <1>2, <1>4, AlongSelf
  <2>2. p \in Nodes(s)
    BY <1>2
  <2>. QED BY <1>0, <1>1, <2>1, <2>2, ParentUnique
<1>6. ParentOf(s, p) = ParentOf(t, n)
  <2>1. PICK m : m = ParentOf(t, n)
    OBVIOUS
  <2>2. /\ m \in Paths
        /\ m = Root \/ (m \in Nodes(t) /\ m \in Along(n) /\ m # n)
        /\ \A x \in Nodes(t) : x \in Along(n) /\ x # n => x \in Along(m)
    BY <1>1, <2>1, ParentIs
  <2>3. m = Root \/ (m \in Nodes(s) /\ m \in Along(p) /\ m # p)
    BY <1>2, <1>4, <2>2
  <2>4. ASSUME NEW x \in Nodes(s), x \in Along(p), x # p PROVE x \in Along(m)
    <3>1. x \in Nodes(t) /\ x \in Along(n)
      BY <1>1, <1>2, <2>4, AlongTrans
    <3>2. Len(x) <= Len(p) /\ Len(x) \in Nat /\ Len(p) \in Nat
      BY <1>0, <2>4, AlongType
    <3>3. x # n
      BY <1>1, <3>2
    <3>. QED BY <2>2, <3>1, <3>3
  <2>5. ParentOf(s, p) = m
    BY <1>0, <2>2, <2>3, <2>4, ParentUnique
  <2>. QED BY <2>1, <2>5
<1>7. \A q \in Nodes(t) \ {n} : KeyLen(s, q) = KeyLen(t, q)
  BY <1>3 DEF KeyLen
<1>8. KeyLen(s, n) + KeyLen(s, p) = KeyLen(t, n)
  <2>1. ParentOf(t, n) \in Paths
    BY <1>1, ParentIs
  <2>2. Len(n) \in Nat /\ Len(p) \in Nat /\ Len(ParentOf(t, n)) \in Nat
    BY <1>0, <1>1, <2>1 DEF Paths
  <2>3. /\ KeyLen(s, n) = Len(n) - Len(p)
        /\ KeyLen(s, p) = Len(p) - Len(ParentOf(t, n))
        /\ KeyLen(t, n) = Len(n) - Len(ParentOf(t, n))
    BY <1>5, <1>6 DEF KeyLen
  <2>. QED BY <2>2, <2>3
<1>. QED BY <1>7, <1>8

\* A split moves tokens between two nodes with the same lock: protected stays right.
LEMMA SplitCharged ==
  ASSUME NEW t, Shape(t), Charged(t), NEW p \in DOMAIN t.kv, p \notin Nodes(t), NEW n,
         FirstBelow(t, p, n), NEW s, IsSplit(s, t, p, n)
  PROVE  Charged(s)
<1>0. IsTree(t) /\ Nodes(t) \subseteq Paths /\ p \in Paths /\ n \in Nodes(t)
  BY FirstBelowFacts DEF Shape, IsTree
<1>1. /\ Nodes(s) = Nodes(t) \cup {p} /\ s.lock[p] = t.lock[n] /\ s.protected = t.protected
      /\ \A q \in Nodes(t) : s.lock[q] = t.lock[q]
  BY DEF IsSplit
<1>2. PICK E : E = Locked(t)
  OBVIOUS
<1>3. E \subseteq Nodes(t) /\ E \subseteq Paths /\ IsFiniteSet(E)
  BY <1>0, <1>2, LockedType
<1>4. /\ \A q \in Nodes(t) \ {n} : KeyLen(s, q) = KeyLen(t, q)
      /\ KeyLen(s, n) + KeyLen(s, p) = KeyLen(t, n)
  BY SplitLengths
<1>5. CASE n \notin E
  <2>1. Locked(s) = E
    BY <1>0, <1>1, <1>2, <1>5 DEF Locked
  <2>2. \A q \in E : KeyLen(s, q) = KeyLen(t, q)
    BY <1>3, <1>4, <1>5
  <2>3. TokensOf(s, E) = TokensOf(t, E)
    BY <1>3, <2>2, TokensCong
  <2>. QED BY <1>1, <1>2, <2>1, <2>3 DEF Charged
<1>6. CASE n \in E
  <2>1. Locked(s) = E \cup {p}
    BY <1>0, <1>1, <1>2, <1>6 DEF Locked
  <2>2. PICK F : F = E \ {n}
    OBVIOUS
  <2>3. F \subseteq Paths /\ IsFiniteSet(F) /\ n \notin F /\ E = F \cup {n} /\ n \in Paths
    BY <1>0, <1>3, <1>6, <2>2, FS_RemoveElement
  <2>4. \A q \in F : KeyLen(s, q) = KeyLen(t, q)
    BY <1>3, <1>4, <2>2
  <2>5. TokensOf(s, F) = TokensOf(t, F)
    BY <2>3, <2>4, TokensCong
  <2>6. TokensOf(t, F \cup {n}) = KeyLen(t, n) + TokensOf(t, F)
    BY <2>3, TokensAdd
  <2>7. TokensOf(s, F \cup {n}) = KeyLen(s, n) + TokensOf(s, F)
    BY <2>3, TokensAdd
  <2>8. p \notin E
    BY <1>3
  <2>9. TokensOf(s, E \cup {p}) = KeyLen(s, p) + TokensOf(s, E)
    BY <1>0, <1>3, <2>8, TokensAdd
  <2>10. KeyLen(s, n) \in Nat /\ KeyLen(s, p) \in Nat /\ TokensOf(t, F) \in Nat
    BY <1>0, <2>3, KeyLenType, TokensType
  <2>11. TokensOf(s, E \cup {p}) = TokensOf(t, E)
    BY <1>4, <2>3, <2>5, <2>6, <2>7, <2>9, <2>10
  <2>. QED BY <1>1, <1>2, <2>1, <2>11 DEF Charged
<1>. QED BY <1>5, <1>6

\* match_prefix(), and the first part of insert(): a split keeps the tree right.
LEMMA SplitKeeps ==
  ASSUME NEW t, NEW L, TreeInv(t, L), NEW p \in DOMAIN t.kv \cup {Root}
  PROVE  /\ TreeInv(Split(t, p), L) /\ Split(t, p).kv = t.kv
         /\ Nodes(Split(t, p)) = Nodes(t) \cup ({p} \ {Root})
<1>1. CASE p = Root \/ p \in Nodes(t)
  <2>1. Split(t, p) = t
    BY <1>1 DEF Split
  <2>. QED BY <1>1, <2>1
<1>2. CASE p # Root /\ p \notin Nodes(t)
  <2>1. p \in DOMAIN t.kv /\ Shape(t) /\ Held(t, L) /\ Charged(t)
    BY <1>2 DEF TreeInv
  <2>2. PICK n : FirstBelow(t, p, n) /\ IsSplit(Split(t, p), t, p, n)
    BY <1>2, <2>1, SplitIs
  <2>3. PICK s : s = Split(t, p)
    OBVIOUS
  <2>4. IsSplit(s, t, p, n)
    BY <2>2, <2>3
  <2>5. Shape(s) /\ Held(s, L) /\ Charged(s)
    BY <1>2, <2>1, <2>2, <2>4, SplitShape, SplitHeld, SplitCharged
  <2>6. s.kv = t.kv /\ Nodes(s) = Nodes(t) \cup {p}
    BY <2>4 DEF IsSplit
  <2>7. Typed(s)
    BY <2>4 DEF IsSplit, TreeInv, Typed
  <2>. QED BY <1>2, <2>3, <2>5, <2>6, <2>7 DEF TreeInv
<1>. QED BY <1>1, <1>2

-----------------------------------------------------------------------------
\* insert()

\* The prefixes of a path, by their lengths.
LEMMA PrefixAt ==
  ASSUME NEW key \in Paths
  PROVE  /\ Len(key) \in Nat
         /\ \A k \in 1..Len(key) : SubSeq(key, 1, k) \in Along(key) /\ Len(SubSeq(key, 1, k)) = k
         /\ \A q \in Along(key) : Len(q) \in 1..Len(key) /\ q = SubSeq(key, 1, Len(q))
<1>1. Len(key) \in Nat
  BY DEF Paths
<1>2. ASSUME NEW k \in 1..Len(key)
      PROVE  SubSeq(key, 1, k) \in Along(key) /\ Len(SubSeq(key, 1, k)) = k
  BY <1>1 DEF Along, Paths
<1>3. ASSUME NEW q \in Along(key)
      PROVE  Len(q) \in 1..Len(key) /\ q = SubSeq(key, 1, Len(q))
  BY <1>1, <1>2 DEF Along
<1>. QED BY <1>1, <1>2, <1>3

\* A path has as many prefixes as tokens.
LEMMA AlongCount ==
  ASSUME NEW key \in Paths
  PROVE  IsFiniteSet(Along(key)) /\ Cardinality(Along(key)) = Len(key) /\ Len(key) \in Nat
<1>1. Len(key) \in Nat
  BY DEF Paths
<1>2. IsFiniteSet(1..Len(key)) /\ Cardinality(1..Len(key)) = Len(key)
  <2>1. PICK n \in Nat : n = Len(key)
    BY <1>1
  <2>2. IsFiniteSet(1..n) /\ Cardinality(1..n) = IF 1 > n THEN 0 ELSE n - 1 + 1
    BY FS_Interval
  <2>3. Cardinality(1..n) = n
    BY <2>2
  <2>. QED BY <2>1, <2>2, <2>3
<1>3. PICK f : f = [n \in 1..Len(key) |-> SubSeq(key, 1, n)]
  OBVIOUS
<1>4. f \in Surjection(1..Len(key), Along(key))
  BY <1>3 DEF Surjection, Along
<1>5. f \in Injection(1..Len(key), Along(key))
  <2>1. \A m, n \in 1..Len(key) : f[m] = f[n] => m = n
    BY <1>3, PrefixAt
  <2>. QED BY <1>4, <2>1 DEF Injection, Surjection, IsInjective
<1>. QED BY <1>1, <1>2, <1>4, <1>5, FS_Surjection

\* Where the walk along key ends: at the longest cached prefix.
LEMMA HitIs ==
  ASSUME NEW t, NEW key \in Paths
  PROVE  /\ Hit(t, key) \in Paths
         /\ Hit(t, key) = Root \/ (Hit(t, key) \in DOMAIN t.kv /\ Hit(t, key) \in Along(key))
         /\ \A q \in DOMAIN t.kv : q \in Along(key) => q \in Along(Hit(t, key))
<1>. DEFINE S == Along(key) \cap DOMAIN t.kv
<1>1. S \subseteq Along(key) /\ Hit(t, key) = Longest(S)
  BY DEF Hit
<1>2. /\ S = {} => Longest(S) = Root
      /\ S # {} => Longest(S) \in S
      /\ Longest(S) \in Paths
      /\ \A q \in S : q \in Along(Longest(S))
  <2>. HIDE DEF S
  <2>. QED BY <1>1, LongestIs
<1>. QED BY <1>1, <1>2

\* The tree u is s with a leaf for the rest of key below the node p.
IsHung(u, s, p, key) ==
  /\ DOMAIN u.kv = DOMAIN s.kv \cup (Along(key) \ Along(p))
  /\ Nodes(u) = Nodes(s) \cup {key} /\ u.protected = s.protected
  /\ u.lock = [n \in Nodes(s) \cup {key} |-> IF n = key THEN 0 ELSE s.lock[n]]
  /\ u = [kv |-> u.kv, lock |-> u.lock, evictable |-> u.evictable, protected |-> u.protected]

\* p is where the walk along key ended in s, before the end of key.
EndsAt(s, p, key) ==
  /\ key \in Paths /\ key # Root /\ p # key
  /\ p = Root \/ (p \in Nodes(s) /\ p \in Along(key))
  /\ \A q \in DOMAIN s.kv : q \in Along(key) => q \in Along(p)

\* No cached path goes on along key.
LEMMA NothingThere ==
  ASSUME NEW s, Shape(s), NEW p, NEW key, EndsAt(s, p, key)
  PROVE  /\ key \notin DOMAIN s.kv /\ key \in Along(key) \ Along(p)
         /\ \A q \in Along(key) \ Along(p) : q \notin DOMAIN s.kv
         /\ \A q \in Along(key) \ Along(p) : \A n \in Nodes(s) : q \notin Along(n)
<1>1. key \in Along(key)
  BY AlongSelf DEF EndsAt
<1>2. key \notin Along(p)
  <2>1. CASE p = Root
    BY <2>1, AlongRoot
  <2>2. CASE p \in Along(key)
    <3>1. SUFFICES ASSUME key \in Along(p) PROVE FALSE
      OBVIOUS
    <3>2. key \in Paths /\ p \in Paths
      BY <2>2, AlongType DEF EndsAt
    <3>3. Len(key) <= Len(p)
      BY <3>1, <3>2, AlongType
    <3>4. p = key
      BY <2>2, <3>2, <3>3, AlongSame
    <3>. QED BY <3>4 DEF EndsAt
  <2>. QED BY <2>1, <2>2 DEF EndsAt
<1>3. \A q \in Along(key) \ Along(p) : q \notin DOMAIN s.kv
  BY DEF EndsAt
<1>4. \A n \in Nodes(s) : Along(n) \subseteq DOMAIN s.kv
  BY DEF Shape, IsTree, Closed
<1>. QED BY <1>1, <1>2, <1>3, <1>4

\* A new leaf leaves the tree well-formed.
LEMMA HungShape ==
  ASSUME NEW s, Shape(s), NEW p, NEW key, EndsAt(s, p, key), NEW u, IsHung(u, s, p, key)
  PROVE  Shape(u)
<1>. DEFINE new == Along(key) \ Along(p)
<1>0. IsTree(s) /\ Nodes(s) \subseteq Paths /\ key \in Paths /\ key # Root
  BY DEF Shape, IsTree, EndsAt
<1>1. /\ key \notin DOMAIN s.kv /\ key \in new
      /\ \A q \in new : q \notin DOMAIN s.kv
      /\ \A q \in new : \A n \in Nodes(s) : q \notin Along(n)
  BY NothingThere
<1>2. DOMAIN u.kv = DOMAIN s.kv \cup new /\ Nodes(u) = Nodes(s) \cup {key}
  BY DEF IsHung
<1>3. \A q \in new : q \in Paths /\ q # Root /\ q \in Along(key)
  BY <1>0, AlongType
<1>4. Along(p) \subseteq DOMAIN s.kv
  <2>1. CASE p = Root
    BY <2>1, AlongRoot
  <2>2. CASE p \in Nodes(s)
    BY <2>2 DEF Shape, IsTree, Closed
  <2>. QED BY <2>1, <2>2 DEF EndsAt
<1>5. Along(key) \subseteq DOMAIN u.kv
  BY <1>2, <1>4
<1>. HIDE DEF new
<1>6. IsTree(u)
  <2>1. u.lock \in [Nodes(u) -> Nat]
    BY <1>0, <1>2 DEF IsHung, IsTree
  <2>2. IsFiniteSet(Nodes(u))
    BY <1>0, <1>2, FS_AddElement DEF IsTree
  <2>3. DOMAIN u.kv \subseteq Paths \ {Root} /\ Nodes(u) \subseteq DOMAIN u.kv
    BY <1>0, <1>1, <1>2, <1>3 DEF IsTree
  <2>. QED BY <2>1, <2>2, <2>3 DEF IsTree, IsHung
<1>7. Closed(u)
  <2>1. ASSUME NEW q \in new PROVE Along(q) \subseteq DOMAIN u.kv
    BY <1>0, <1>3, <1>5, AlongTrans
  <2>. QED BY <1>2, <2>1 DEF Closed, Shape
<1>8. Covered(u)
  BY <1>2, <1>3 DEF Covered, Shape
<1>9. ASSUME NEW x \in DOMAIN u.kv \ Nodes(u) PROVE \E m : FirstBelow(u, x, m)
  <2>0. Nodes(u) \subseteq Paths /\ x \in Paths /\ x # Root /\ x # key
    BY <1>2, <1>6 DEF IsTree
  <2>1. CASE x \in new
    <3>1. key \in Nodes(u) /\ x \in Along(key) /\ key \in Along(key)
      BY <1>0, <1>2, <1>3, <2>1, AlongSelf
    <3>2. \A q \in Nodes(u) : x \in Along(q) /\ x # q => key \in Along(q)
      BY <1>1, <1>2, <2>1, <3>1
    <3>. QED BY <2>0, <3>1, <3>2, FirstBelowIs
  <2>2. CASE x \in DOMAIN s.kv
    <3>1. x \in DOMAIN s.kv \ Nodes(s)
      BY <1>2, <2>2
    <3>2. PICK m : FirstBelow(s, x, m)
      BY <3>1 DEF Shape, PartAtNodes
    <3>3. m \in Nodes(s) /\ m \in Paths /\ x \in Along(m) /\ x # m
          /\ \A q \in Nodes(s) : x \in Along(q) /\ x # q => m \in Along(q)
      BY <1>0, <2>2, <3>2, FirstBelowFacts
    <3>4. ASSUME x \in Along(key) PROVE m \in Along(key)
      <4>1. x \in Along(p)
        BY <2>2, <3>4 DEF EndsAt
      <4>2. p # Root
        BY <4>1, AlongRoot
      <4>3. p \in Nodes(s) /\ p \in Along(key) /\ x # p
        BY <3>1, <4>2 DEF EndsAt
      <4>4. m \in Along(p)
        BY <3>3, <4>1, <4>3
      <4>. QED BY <1>0, <4>3, <4>4, AlongTrans
    <3>5. m \in Nodes(u) /\ \A q \in Nodes(u) : x \in Along(q) /\ x # q => m \in Along(q)
      BY <1>2, <3>3, <3>4
    <3>. QED BY <2>0, <3>3, <3>5, FirstBelowIs
  <2>. QED BY <1>2, <2>1, <2>2
<1>. QED BY <1>6, <1>7, <1>8, <1>9 DEF Shape, PartAtNodes

\* Nobody reads through the new leaf yet, and it protects nothing.
LEMMA HungHeld ==
  ASSUME NEW s, Shape(s), NEW L, Held(s, L), Charged(s), NEW p, NEW key, EndsAt(s, p, key),
         NEW u, IsHung(u, s, p, key)
  PROVE  Held(u, L) /\ Charged(u)
<1>0. IsTree(s) /\ Nodes(s) \subseteq Paths
  BY DEF Shape, IsTree
<1>1. key \notin Nodes(s) /\ \A n \in Nodes(s) : key \notin Along(n)
  BY <1>0, NothingThere DEF IsTree
<1>2. Nodes(u) = Nodes(s) \cup {key} /\ u.lock[key] = 0 /\ u.protected = s.protected
      /\ \A n \in Nodes(s) : u.lock[n] = s.lock[n]
  BY <1>1 DEF IsHung
<1>3. Held(u, L)
  <2>1. \A r \in DOMAIN L : key \notin Along(L[r])
    BY <1>1, AlongRoot DEF Held
  <2>2. Readers(L, key) = {}
    BY <2>1 DEF Readers
  <2>3. Cardinality(Readers(L, key)) = 0
    BY <2>2, FS_EmptySet
  <2>. QED BY <1>2, <2>3 DEF Held
<1>4. Charged(u)
  <2>1. Locked(u) = Locked(s) /\ IsFiniteSet(Locked(s)) /\ Locked(s) \subseteq Nodes(s)
    BY <1>0, <1>2, LockedType DEF Locked
  <2>2. ASSUME NEW n \in Nodes(s) PROVE KeyLen(u, n) = KeyLen(s, n)
    <3>1. (Along(n) \ {n}) \cap Nodes(u) = (Along(n) \ {n}) \cap Nodes(s)
      BY <1>1, <1>2
    <3>. QED BY <3>1 DEF KeyLen, ParentOf
  <2>3. TokensOf(u, Locked(s)) = TokensOf(s, Locked(s))
    BY <2>1, <2>2, TokensCong
  <2>. QED BY <1>2, <2>1, <2>3 DEF Charged
<1>. QED BY <1>3, <1>4

\* After insert() the key ends at a node; the locks are as they were.
LEMMA InsertKeeps ==
  ASSUME NEW t, NEW L, TreeInv(t, L), NEW key \in Paths, key # Root, NEW value
  PROVE  /\ TreeInv(insert(t, key, value), L)
         /\ key \in Nodes(insert(t, key, value))
<1>1. PICK p : p = Hit(t, key)
  OBVIOUS
<1>2. /\ p \in Paths
      /\ p = Root \/ (p \in DOMAIN t.kv /\ p \in Along(key))
      /\ \A q \in DOMAIN t.kv : q \in Along(key) => q \in Along(p)
  BY <1>1, HitIs
<1>3. PICK s : s = Split(t, p)
  OBVIOUS
<1>4. TreeInv(s, L) /\ s.kv = t.kv /\ Nodes(s) = Nodes(t) \cup ({p} \ {Root})
  BY <1>2, <1>3, SplitKeeps
<1>5. CASE p = key
  <2>1. insert(t, key, value) = s
    BY <1>1, <1>3, <1>5 DEF insert
  <2>. QED BY <1>4, <1>5, <2>1
<1>6. CASE p # key
  <2>1. PICK f : f = [q \in DOMAIN s.kv \cup (Along(key) \ Along(p)) |->
                        IF q \in Along(key) \ Along(p) THEN value[Len(q)] ELSE s.kv[q]]
    OBVIOUS
  <2>2. PICK g : g = [n \in Nodes(s) \cup {key} |-> IF n = key THEN 0 ELSE s.lock[n]]
    OBVIOUS
  <2>3. PICK e : e = s.evictable - ParentCharge(s, p) + Cardinality(Along(key) \ Along(p))
    OBVIOUS
  <2>4. PICK u : u = [kv |-> f, lock |-> g, evictable |-> e, protected |-> s.protected]
    OBVIOUS
  <2>5. insert(t, key, value) = u
    BY <1>1, <1>3, <1>6, <2>1, <2>2, <2>3, <2>4 DEF insert
  <2>6. DOMAIN f = DOMAIN s.kv \cup (Along(key) \ Along(p)) /\ DOMAIN g = Nodes(s) \cup {key}
    BY <2>1, <2>2
  <2>7. IsHung(u, s, p, key)
    BY <2>2, <2>4, <2>6 DEF IsHung, Nodes
  <2>8. EndsAt(s, p, key)
    BY <1>2, <1>4, <1>6 DEF EndsAt
  <2>9. Shape(s) /\ Held(s, L) /\ Charged(s)
    BY <1>4 DEF TreeInv
  <2>10. Shape(u) /\ Held(u, L) /\ Charged(u)
    BY <2>7, <2>8, <2>9, HungShape, HungHeld
  <2>11. e \in Int
    <3>1. ParentCharge(s, p) \in Int
      BY <1>2, KeyLenType DEF ParentCharge
    <3>2. IsFiniteSet(Along(key))
      BY AlongCount
    <3>3. Cardinality(Along(key) \ Along(p)) \in Int
      BY <3>2, FS_Subset, FS_CardinalityType
    <3>4. s.evictable \in Int
      BY <1>4 DEF TreeInv, Typed
    <3>. QED BY <2>3, <3>1, <3>3, <3>4
  <2>12. Typed(u)
    <3>1. f = [q \in DOMAIN f |-> f[q]]
      BY <2>1
    <3>. QED BY <2>4, <2>11, <3>1 DEF Typed
  <2>. QED BY <2>5, <2>7, <2>10, <2>12 DEF TreeInv, IsHung
<1>. QED BY <1>5, <1>6

-----------------------------------------------------------------------------
\* inc_lock_ref() and dec_lock_ref()

\* A tree with the nodes and the paths of another has its shape.
LEMMA SameShape ==
  ASSUME NEW t, Shape(t), NEW u, IsTree(u), Nodes(u) = Nodes(t), u.kv = t.kv
  PROVE  Shape(u) /\ \A E : IsFiniteSet(E) => TokensOf(u, E) = TokensOf(t, E)
<1>1. \A p : Below(u, p) = Below(t, p)
  BY DEF Below
<1>2. Shape(u)
  BY <1>1 DEF Shape, Closed, Covered, PartAtNodes, FirstBelow
<1>3. \A n : KeyLen(u, n) = KeyLen(t, n)
  BY DEF KeyLen, ParentOf
<1>. QED BY <1>2, <1>3, TokensCong

\* Finitely many holders read through a node.
LEMMA ReadersFinite ==
  ASSUME NEW L, IsFiniteSet(DOMAIN L), NEW n
  PROVE  IsFiniteSet(Readers(L, n)) /\ Cardinality(Readers(L, n)) \in Nat
BY FS_Subset, FS_CardinalityType DEF Readers

\* The map M is L and the request r, which holds n.
IsHolding(M, L, r, n) ==
  /\ DOMAIN M = DOMAIN L \cup {r} /\ M[r] = n /\ r \notin DOMAIN L
  /\ \A x \in DOMAIN L : M[x] = L[x]

\* The readers of a node when one more request holds a node.
LEMMA HoldingReaders ==
  ASSUME NEW M, NEW L, NEW r, NEW n, IsHolding(M, L, r, n), IsFiniteSet(DOMAIN L), NEW q
  PROVE  /\ IsFiniteSet(DOMAIN M)
         /\ Cardinality(Readers(M, q)) = Cardinality(Readers(L, q)) + (IF q \in Along(n) THEN 1 ELSE 0)
<1>1. IsFiniteSet(DOMAIN M)
  BY FS_AddElement DEF IsHolding
<1>2. IsFiniteSet(Readers(L, q)) /\ Cardinality(Readers(L, q)) \in Nat /\ r \notin Readers(L, q)
  BY ReadersFinite DEF IsHolding, Readers
<1>3. CASE q \in Along(n)
  <2>1. Readers(M, q) = Readers(L, q) \cup {r}
    BY <1>3 DEF Readers, IsHolding
  <2>. QED BY <1>1, <1>2, <1>3, <2>1, FS_AddElement
<1>4. CASE q \notin Along(n)
  <2>1. Readers(M, q) = Readers(L, q)
    BY <1>4 DEF Readers, IsHolding
  <2>. QED BY <1>1, <1>2, <1>4, <2>1
<1>. QED BY <1>3, <1>4

\* Locking the way to a node gives the request that asked for it its lock.
LEMMA IncKeeps ==
  ASSUME NEW t, NEW L, TreeInv(t, L), NEW n \in Nodes(t) \cup {Root},
         NEW M, NEW r, IsHolding(M, L, r, n)
  PROVE  /\ TreeInv(inc_lock_ref(t, n), M) /\ Nodes(inc_lock_ref(t, n)) = Nodes(t)
<1>0. Shape(t) /\ IsTree(t) /\ Held(t, L) /\ Charged(t) /\ Nodes(t) \subseteq Paths
      /\ t.lock \in [Nodes(t) -> Nat]
  BY DEF TreeInv, Shape, IsTree
<1>1. PICK f : f = [q \in Nodes(t) |-> t.lock[q] + (IF q \in Path(t, n) THEN 1 ELSE 0)]
  OBVIOUS
<1>2. PICK Z : Z = {q \in Path(t, n) : t.lock[q] = 0}
  OBVIOUS
<1>3. TokensAt(t, n, 0) = TokensOf(t, Z)
  BY <1>2 DEF TokensAt, TokensOf
<1>4. PICK k, l, e, c : t = [kv |-> k, lock |-> l, evictable |-> e, protected |-> c]
  BY <1>0 DEF IsTree
<1>5. PICK u : u = [kv |-> k, lock |-> f, evictable |-> e - TokensOf(t, Z),
                    protected |-> c + TokensOf(t, Z)]
  OBVIOUS
<1>6. inc_lock_ref(t, n) = u
  <2>1. PICK z : z = TokensOf(t, Z)
    OBVIOUS
  <2>2. inc_lock_ref(t, n) = [t EXCEPT !.lock = f, !.evictable = @ - z, !.protected = @ + z]
    BY <1>1, <1>3, <2>1 DEF inc_lock_ref
  <2>. QED BY <1>4, <1>5, <2>1, <2>2
<1>7. /\ u.kv = t.kv /\ u.lock = f /\ u.protected = t.protected + TokensOf(t, Z) /\ Nodes(u) = Nodes(t)
      /\ u = [kv |-> u.kv, lock |-> u.lock, evictable |-> u.evictable, protected |-> u.protected]
  BY <1>1, <1>4, <1>5 DEF Nodes
<1>8. \A q \in Nodes(t) : f[q] = t.lock[q] + (IF q \in Along(n) THEN 1 ELSE 0)
  BY <1>1 DEF Path
<1>9. f \in [Nodes(t) -> Nat]
  BY <1>0, <1>1
<1>10. IsTree(u)
  BY <1>0, <1>7, <1>9 DEF IsTree
<1>11. Shape(u) /\ \A E : IsFiniteSet(E) => TokensOf(u, E) = TokensOf(t, E)
  BY <1>0, <1>7, <1>10, SameShape
<1>12. Held(u, M)
  <2>1. IsFiniteSet(DOMAIN L)
    BY <1>0 DEF Held
  <2>2. IsFiniteSet(DOMAIN M)
    BY <2>1, HoldingReaders
  <2>3. \A q \in Nodes(t) : u.lock[q] = Cardinality(Readers(M, q))
    <3>1. SUFFICES ASSUME NEW q \in Nodes(t) PROVE u.lock[q] = Cardinality(Readers(M, q))
      OBVIOUS
    <3>2. t.lock[q] = Cardinality(Readers(L, q))
      BY <1>0 DEF Held
    <3>3. Cardinality(Readers(M, q)) = Cardinality(Readers(L, q)) + (IF q \in Along(n) THEN 1 ELSE 0)
      BY <2>1, HoldingReaders
    <3>. QED BY <1>7, <1>8, <3>2, <3>3
  <2>4. \A x \in DOMAIN M : M[x] \in Nodes(u) \cup {Root}
    BY <1>0, <1>7 DEF Held, IsHolding
  <2>. QED BY <1>7, <2>2, <2>3, <2>4 DEF Held
<1>13. Charged(u)
  <2>1. Locked(t) \subseteq Paths /\ IsFiniteSet(Locked(t))
    BY <1>0, LockedType
  <2>2. Z \subseteq Paths /\ IsFiniteSet(Z)
    BY <1>0, <1>2, FS_Subset DEF IsTree, Path
  <2>3. Locked(t) \cap Z = {}
    BY <1>2 DEF Locked
  <2>4. Locked(u) = Locked(t) \cup Z
    BY <1>0, <1>1, <1>2, <1>7 DEF Locked, Path
  <2>5. IsFiniteSet(Locked(t) \cup Z)
    BY <2>1, <2>2, FS_Union
  <2>6. TokensOf(t, Locked(t) \cup Z) = TokensOf(t, Locked(t)) + TokensOf(t, Z)
    BY <2>1, <2>2, <2>3, TokensUnion
  <2>. QED BY <1>0, <1>7, <1>11, <2>4, <2>5, <2>6 DEF Charged
<1>14. Typed(u)
  <2>1. Z \subseteq Paths /\ IsFiniteSet(Z)
    BY <1>0, <1>2, FS_Subset DEF IsTree, Path
  <2>2. t.kv = [p \in DOMAIN t.kv |-> t.kv[p]] /\ t.evictable \in Int
    BY DEF TreeInv, Typed
  <2>3. u.evictable = t.evictable - TokensOf(t, Z)
    BY <1>4, <1>5
  <2>4. TokensOf(t, Z) \in Nat
    BY <2>1, TokensType
  <2>5. u.evictable \in Int
    BY <2>2, <2>3, <2>4
  <2>. QED BY <1>7, <2>2, <2>5 DEF Typed
<1>. QED BY <1>6, <1>7, <1>11, <1>12, <1>13, <1>14 DEF TreeInv

\* Unlocking the way to the node that a request holds takes its lock away.
LEMMA DecKeeps ==
  ASSUME NEW t, NEW M, TreeInv(t, M), NEW n, NEW L, NEW r, IsHolding(M, L, r, n)
  PROVE  TreeInv(dec_lock_ref(t, n), L) /\ Nodes(dec_lock_ref(t, n)) = Nodes(t)
<1>0. Shape(t) /\ IsTree(t) /\ Held(t, M) /\ Charged(t) /\ Nodes(t) \subseteq Paths
      /\ t.lock \in [Nodes(t) -> Nat]
  BY DEF TreeInv, Shape, IsTree
<1>1. PICK f : f = [q \in Nodes(t) |-> t.lock[q] - (IF q \in Path(t, n) THEN 1 ELSE 0)]
  OBVIOUS
<1>2. PICK Z : Z = {q \in Path(t, n) : t.lock[q] = 1}
  OBVIOUS
<1>3. TokensAt(t, n, 1) = TokensOf(t, Z)
  BY <1>2 DEF TokensAt, TokensOf
<1>4. PICK k, l, e, c : t = [kv |-> k, lock |-> l, evictable |-> e, protected |-> c]
  BY <1>0 DEF IsTree
<1>5. PICK u : u = [kv |-> k, lock |-> f, evictable |-> e + TokensOf(t, Z),
                    protected |-> c - TokensOf(t, Z)]
  OBVIOUS
<1>6. dec_lock_ref(t, n) = u
  <2>1. PICK z : z = TokensOf(t, Z)
    OBVIOUS
  <2>2. dec_lock_ref(t, n) = [t EXCEPT !.lock = f, !.evictable = @ + z, !.protected = @ - z]
    BY <1>1, <1>3, <2>1 DEF dec_lock_ref
  <2>. QED BY <1>4, <1>5, <2>1, <2>2
<1>7. /\ u.kv = t.kv /\ u.lock = f /\ u.protected = t.protected - TokensOf(t, Z) /\ Nodes(u) = Nodes(t)
      /\ u = [kv |-> u.kv, lock |-> u.lock, evictable |-> u.evictable, protected |-> u.protected]
  BY <1>1, <1>4, <1>5 DEF Nodes
<1>8. IsFiniteSet(DOMAIN L)
  <2>1. IsFiniteSet(DOMAIN M) /\ DOMAIN L \subseteq DOMAIN M
    BY <1>0 DEF Held, IsHolding
  <2>. QED BY <2>1, FS_Subset
<1>9. ASSUME NEW q \in Nodes(t)
      PROVE  f[q] = Cardinality(Readers(L, q)) /\ f[q] \in Nat
             /\ (q \in Along(n) => t.lock[q] > 0)
  <2>1. t.lock[q] = Cardinality(Readers(M, q))
    BY <1>0 DEF Held
  <2>2. Cardinality(Readers(M, q)) = Cardinality(Readers(L, q)) + (IF q \in Along(n) THEN 1 ELSE 0)
    BY <1>8, HoldingReaders
  <2>3. Cardinality(Readers(L, q)) \in Nat
    BY <1>8, ReadersFinite
  <2>4. f[q] = t.lock[q] - (IF q \in Along(n) THEN 1 ELSE 0)
    BY <1>1 DEF Path
  <2>. QED BY <2>1, <2>2, <2>3, <2>4
<1>10. IsTree(u)
  <2>1. f \in [Nodes(t) -> Nat]
    BY <1>1, <1>9
  <2>. QED BY <1>0, <1>7, <2>1 DEF IsTree
<1>11. Shape(u) /\ \A E : IsFiniteSet(E) => TokensOf(u, E) = TokensOf(t, E)
  BY <1>0, <1>7, <1>10, SameShape
<1>12. Held(u, L)
  <2>1. \A x \in DOMAIN L : L[x] \in Nodes(u) \cup {Root}
    BY <1>0, <1>7 DEF Held, IsHolding
  <2>. QED BY <1>7, <1>8, <1>9, <2>1 DEF Held
<1>13. Charged(u)
  <2>1. Locked(u) \subseteq Paths /\ IsFiniteSet(Locked(u))
    BY <1>10, LockedType
  <2>2. Z \subseteq Paths /\ IsFiniteSet(Z)
    BY <1>0, <1>2, FS_Subset DEF IsTree, Path
  <2>3. Locked(u) \cap Z = {}
    BY <1>1, <1>2, <1>7 DEF Locked, Path
  <2>4. Locked(t) = Locked(u) \cup Z
    BY <1>0, <1>1, <1>2, <1>7, <1>9 DEF Locked, Path
  <2>5. TokensOf(t, Locked(u) \cup Z) = TokensOf(t, Locked(u)) + TokensOf(t, Z)
    BY <2>1, <2>2, <2>3, TokensUnion
  <2>6. TokensOf(t, Locked(u)) \in Nat /\ TokensOf(t, Z) \in Nat
    BY <2>1, <2>2, TokensType
  <2>7. t.protected = TokensOf(t, Locked(u)) + TokensOf(t, Z)
    BY <1>0, <2>4, <2>5 DEF Charged
  <2>8. u.protected = TokensOf(t, Locked(u))
    BY <1>7, <2>6, <2>7
  <2>. QED BY <1>11, <2>1, <2>8 DEF Charged
<1>14. Typed(u)
  <2>1. Z \subseteq Paths /\ IsFiniteSet(Z)
    BY <1>0, <1>2, FS_Subset DEF IsTree, Path
  <2>2. t.kv = [p \in DOMAIN t.kv |-> t.kv[p]] /\ t.evictable \in Int
    BY DEF TreeInv, Typed
  <2>3. u.evictable = t.evictable + TokensOf(t, Z)
    BY <1>4, <1>5
  <2>4. TokensOf(t, Z) \in Nat
    BY <2>1, TokensType
  <2>5. u.evictable \in Int
    BY <2>2, <2>3, <2>4
  <2>. QED BY <1>7, <2>2, <2>5 DEF Typed
<1>. QED BY <1>6, <1>7, <1>11, <1>12, <1>13, <1>14 DEF TreeInv

\* A request that holds the root has no lock: it may come and go.
LEMMA RootKeeps ==
  ASSUME NEW t, NEW L, NEW M, NEW r, IsHolding(M, L, r, Root)
  PROVE  TreeInv(t, L) <=> TreeInv(t, M)
<1>1. Along(Root) = {}
  BY AlongRoot
<1>2. IsFiniteSet(DOMAIN M) <=> IsFiniteSet(DOMAIN L)
  <2>1. DOMAIN M = DOMAIN L \cup {r} /\ DOMAIN L \subseteq DOMAIN M
    BY DEF IsHolding
  <2>. QED BY <2>1, FS_AddElement, FS_Subset
<1>3. \A q : Readers(M, q) = Readers(L, q)
  BY <1>1 DEF Readers, IsHolding
<1>4. (\A x \in DOMAIN M : M[x] \in Nodes(t) \cup {Root}) <=> (\A x \in DOMAIN L : L[x] \in Nodes(t) \cup {Root})
  BY DEF IsHolding
<1>. QED BY <1>2, <1>3, <1>4 DEF TreeInv, Held

\* A lock that moves from one node of the tree to another.
LEMMA MoveKeeps ==
  ASSUME NEW t, NEW L, TreeInv(t, L), NEW r \in DOMAIN L, NEW n \in Nodes(t),
         NEW M, DOMAIN M = DOMAIN L, M[r] = n, \A x \in DOMAIN L : x # r => M[x] = L[x]
  PROVE  TreeInv(MoveLock(t, L[r], n), M)
<1>1. PICK K : K = [x \in DOMAIN L \ {r} |-> L[x]]
  OBVIOUS
<1>2. IsHolding(L, K, r, L[r]) /\ IsHolding(M, K, r, n)
  BY <1>1 DEF IsHolding
<1>3. PICK u : u = dec_lock_ref(t, L[r])
  OBVIOUS
<1>4. TreeInv(u, K) /\ Nodes(u) = Nodes(t)
  BY <1>2, <1>3, DecKeeps
<1>5. TreeInv(inc_lock_ref(u, n), M)
  BY <1>2, <1>4, IncKeeps
<1>. QED BY <1>3, <1>5 DEF MoveLock

-----------------------------------------------------------------------------
\* evict() and the allocation that calls it

\* What evict() may delete: unlocked nodes, with all that is below them.
MayLeave(t, E) ==
  /\ E \subseteq Nodes(t) /\ \A n \in E : t.lock[n] = 0
  /\ \A n \in E : \A m \in Nodes(t) : n \in Along(m) /\ n # m => m \in E

\* The nodes that evict() picks are such nodes.
LEMMA EvictableLeaves ==
  ASSUME NEW t, IsTree(t), NEW target, NEW E \in Evictable(t, target)
  PROVE  MayLeave(t, E)
<1>1. E \subseteq Nodes(t) /\ \A n \in E : t.lock[n] = 0 /\ Below(t, n) \subseteq E
  BY DEF Evictable, MayGo
<1>2. ASSUME NEW n \in E PROVE Below(t, n) = {m \in Nodes(t) : n \in Along(m) /\ n # m}
  <2>1. n \in Paths /\ n # Root /\ Nodes(t) \subseteq Paths
    BY <1>1 DEF IsTree
  <2>. QED BY <2>1, BelowIs
<1>. QED BY <1>1, <1>2 DEF MayLeave

\* A path stays cached if some node that stays goes through it.
LEMMA StaysIf ==
  ASSUME NEW t, Shape(t), NEW E, MayLeave(t, E), NEW p \in DOMAIN t.kv
  PROVE  p \notin Gone(t, E) <=> \E m \in Nodes(t) \ E : p \in Along(m)
<1>0. IsTree(t) /\ Nodes(t) \subseteq Paths /\ E \subseteq Nodes(t)
  BY DEF Shape, IsTree, MayLeave
<1>1. ASSUME NEW m \in Nodes(t) \ E, p \in Along(m),
             NEW n \in E, p \in Along(n), p \notin Along(ParentOf(t, n))
      PROVE  FALSE
  <2>1. n \in Nodes(t) /\ n \in Paths /\ m \in Paths /\ m # n
    BY <1>0
  <2>2. /\ ParentOf(t, n) \in Paths
        /\ \A q \in Nodes(t) : q \in Along(n) /\ q # n => q \in Along(ParentOf(t, n))
    BY <2>1, ParentIs
  <2>3. n \in Along(m)
    <3>1. CASE p \in Nodes(t)
      <4>1. p = n
        BY <1>1, <2>2, <3>1
      <4>. QED BY <1>1, <4>1
    <3>2. CASE p \notin Nodes(t)
      <4>1. PICK k : FirstBelow(t, p, k)
        BY <3>2 DEF Shape, PartAtNodes
      <4>2. k \in Nodes(t) /\ k \in Paths /\ p \in Along(k)
            /\ \A q \in Nodes(t) : p \in Along(q) /\ p # q => k \in Along(q)
        BY <1>0, <4>1, FirstBelowFacts
      <4>3. k \in Along(n) /\ k \in Along(m)
        BY <1>1, <2>1, <3>2, <4>2
      <4>4. k = n
        <5>1. SUFFICES ASSUME k # n PROVE FALSE
          OBVIOUS
        <5>2. k \in Along(ParentOf(t, n))
          BY <2>2, <4>2, <4>3, <5>1
        <5>3. p \in Along(ParentOf(t, n))
          BY <2>2, <4>2, <5>2, AlongTrans
        <5>. QED BY <1>1, <5>3
      <4>. QED BY <4>3, <4>4
    <3>. QED BY <3>1, <3>2
  <2>. QED BY <2>1, <2>3 DEF MayLeave
<1>2. ASSUME p \notin Gone(t, E) PROVE \E m \in Nodes(t) \ E : p \in Along(m)
  <2>1. PICK c \in Nodes(t) : p \in Along(c)
    BY DEF Shape, Covered
  <2>2. PICK S : S = {q \in Nodes(t) : q \in Along(c) /\ p \in Along(q)}
    OBVIOUS
  <2>3. S \subseteq Along(c) /\ c \in S /\ c \in Paths
    <3>1. c \in Paths /\ c # Root
      BY <1>0 DEF IsTree
    <3>. QED BY <2>1, <2>2, <3>1, AlongSelf
  <2>4. PICK m \in S : \A q \in S : Len(m) <= Len(q)
    BY <2>3, ChainEnds
  <2>5. m \in Nodes(t) /\ m \in Paths /\ m \in Along(c) /\ p \in Along(m)
    BY <1>0, <2>2, <2>4
  <2>6. SUFFICES ASSUME m \in E PROVE FALSE
    BY <2>5
  <2>7. p \in Along(ParentOf(t, m))
    BY <1>2, <2>5, <2>6 DEF Gone
  <2>8. ParentOf(t, m) # Root
    BY <2>7, AlongRoot
  <2>9. ParentOf(t, m) \in Nodes(t) /\ ParentOf(t, m) \in Along(m) /\ ParentOf(t, m) # m
    BY <2>5, <2>8, ParentIs
  <2>10. ParentOf(t, m) \in Along(c)
    BY <2>3, <2>5, <2>9, AlongTrans
  <2>11. Len(m) <= Len(ParentOf(t, m))
    BY <2>2, <2>4, <2>7, <2>9, <2>10
  <2>12. ParentOf(t, m) = m
    BY <2>5, <2>9, <2>11, AlongSame
  <2>. QED BY <2>9, <2>12
<1>3. ASSUME NEW m \in Nodes(t) \ E, p \in Along(m) PROVE p \notin Gone(t, E)
  BY <1>1, <1>3 DEF Gone
<1>. QED BY <1>2, <1>3

\* The nodes that requests hold are locked and cannot go; no node loses its parent.
LEMMA EvictKeeps ==
  ASSUME NEW t, NEW L, TreeInv(t, L), NEW E, MayLeave(t, E)
  PROVE  TreeInv(WithoutNodes(t, E), L)
<1>0. Shape(t) /\ IsTree(t) /\ Held(t, L) /\ Charged(t) /\ Nodes(t) \subseteq Paths
      /\ E \subseteq Nodes(t)
  BY DEF TreeInv, Shape, IsTree, MayLeave
<1>1. PICK u : u = WithoutNodes(t, E)
  OBVIOUS
<1>2. /\ DOMAIN u.kv = DOMAIN t.kv \ Gone(t, E) /\ Nodes(u) = Nodes(t) \ E
      /\ u.lock = [n \in Nodes(t) \ E |-> t.lock[n]] /\ u.protected = t.protected
      /\ u = [kv |-> u.kv, lock |-> u.lock, evictable |-> u.evictable, protected |-> u.protected]
  BY <1>1 DEF WithoutNodes, Nodes
<1>3. \A p \in DOMAIN t.kv : p \in DOMAIN u.kv <=> \E m \in Nodes(u) : p \in Along(m)
  BY <1>0, <1>2, StaysIf
<1>4. IsTree(u)
  <2>1. u.lock \in [Nodes(u) -> Nat]
    BY <1>0, <1>2 DEF IsTree
  <2>2. IsFiniteSet(Nodes(u))
    <3>1. IsFiniteSet(Nodes(t)) /\ Nodes(u) \in SUBSET Nodes(t)
      BY <1>0, <1>2 DEF IsTree
    <3>. QED BY <3>1, FS_Subset
  <2>3. Nodes(u) \subseteq DOMAIN u.kv
    <3>1. ASSUME NEW n \in Nodes(u) PROVE n \in DOMAIN u.kv
      <4>1. n \in DOMAIN t.kv /\ n \in Paths /\ n # Root
        BY <1>0, <1>2 DEF IsTree
      <4>. QED BY <1>3, <4>1, AlongSelf
    <3>. QED BY <3>1
  <2>. QED BY <1>0, <1>2, <2>1, <2>2, <2>3 DEF IsTree
<1>5. Covered(u)
  BY <1>2, <1>3 DEF Covered
<1>6. Closed(u)
  <2>1. SUFFICES ASSUME NEW q \in DOMAIN u.kv, NEW p \in Along(q) PROVE p \in DOMAIN u.kv
    BY DEF Closed
  <2>2. PICK m \in Nodes(u) : q \in Along(m)
    BY <1>5 DEF Covered
  <2>3. m \in Paths /\ q \in DOMAIN t.kv
    BY <1>0, <1>2
  <2>4. p \in Along(m) /\ p \in DOMAIN t.kv
    BY <1>0, <2>1, <2>2, <2>3, AlongTrans DEF Shape, Closed
  <2>. QED BY <1>3, <2>2, <2>4
<1>7. PartAtNodes(u)
  <2>1. SUFFICES ASSUME NEW x \in DOMAIN u.kv \ Nodes(u) PROVE \E k : FirstBelow(u, x, k)
    BY DEF PartAtNodes
  <2>2. PICK m \in Nodes(u) : x \in Along(m)
    BY <1>5 DEF Covered
  <2>3. x \in DOMAIN t.kv /\ x \in Paths /\ x # Root /\ x # m /\ m \in Nodes(t) /\ m \notin E
    BY <1>0, <1>2, <2>1, <2>2 DEF IsTree
  <2>4. x \notin Nodes(t)
    <3>1. SUFFICES ASSUME x \in E PROVE FALSE
      BY <1>2, <2>1
    <3>. QED BY <2>2, <2>3, <3>1 DEF MayLeave
  <2>5. PICK k : FirstBelow(t, x, k)
    BY <1>0, <2>3, <2>4 DEF Shape, PartAtNodes
  <2>6. k \in Nodes(t) /\ x \in Along(k) /\ x # k
        /\ \A q \in Nodes(t) : x \in Along(q) /\ x # q => k \in Along(q)
    BY <1>0, <2>3, <2>5, FirstBelowFacts
  <2>7. k \notin E
    BY <2>2, <2>3, <2>6 DEF MayLeave
  <2>8. k \in Nodes(u) /\ Nodes(u) \subseteq Paths
        /\ \A q \in Nodes(u) : x \in Along(q) /\ x # q => k \in Along(q)
    BY <1>0, <1>2, <2>6, <2>7
  <2>. QED BY <2>3, <2>6, <2>8, FirstBelowIs
<1>8. Held(u, L)
  <2>1. ASSUME NEW r \in DOMAIN L, L[r] # Root PROVE L[r] \in Nodes(u)
    <3>1. L[r] \in Nodes(t) /\ L[r] \in Paths
      BY <1>0, <2>1 DEF Held
    <3>2. r \in Readers(L, L[r])
      BY <2>1, <3>1, AlongSelf DEF Readers
    <3>3. IsFiniteSet(Readers(L, L[r]))
      BY <1>0, ReadersFinite DEF Held
    <3>4. Cardinality(Readers(L, L[r])) # 0
      BY <3>2, <3>3, FS_EmptySet
    <3>5. t.lock[L[r]] # 0
      BY <1>0, <3>1, <3>4 DEF Held
    <3>. QED BY <1>2, <3>1, <3>5 DEF MayLeave
  <2>2. \A n \in Nodes(u) : n \in Nodes(t) /\ u.lock[n] = t.lock[n]
    BY <1>2
  <2>. QED BY <1>0, <2>1, <2>2 DEF Held
<1>9. Charged(u)
  <2>1. Locked(u) = Locked(t)
    BY <1>2 DEF Locked, MayLeave
  <2>2. ASSUME NEW n \in Locked(t) PROVE KeyLen(u, n) = KeyLen(t, n)
    <3>1. n \in Nodes(t) /\ n \notin E
      BY <1>2, <2>1, <2>2 DEF Locked
    <3>2. ASSUME NEW q \in E, q \in Along(n), q # n PROVE FALSE
      BY <3>1, <3>2 DEF MayLeave
    <3>3. (Along(n) \ {n}) \cap Nodes(u) = (Along(n) \ {n}) \cap Nodes(t)
      BY <1>2, <3>2
    <3>. QED BY <3>3 DEF KeyLen, ParentOf
  <2>3. TokensOf(u, Locked(t)) = TokensOf(t, Locked(t))
    BY <1>0, <2>2, LockedType, TokensCong
  <2>. QED BY <1>0, <1>2, <2>1, <2>3 DEF Charged
<1>10. Typed(u)
  <2>1. PICK K : K = DOMAIN t.kv \ Gone(t, E)
    OBVIOUS
  <2>2. u.kv = [p \in K |-> t.kv[p]] /\ u.evictable = t.evictable - TokensOf(t, E)
    BY <1>1, <2>1 DEF WithoutNodes
  <2>3. E \subseteq Paths /\ IsFiniteSet(E)
    BY <1>0, FS_Subset DEF IsTree
  <2>4. TokensOf(t, E) \in Nat /\ t.evictable \in Int
    BY <2>3, TokensType DEF TreeInv, Typed
  <2>5. u.evictable \in Int
    BY <2>2, <2>4
  <2>. QED BY <2>2, <2>5 DEF Typed
<1>. QED BY <1>1, <1>4, <1>5, <1>6, <1>7, <1>8, <1>9, <1>10 DEF TreeInv, Shape

\* The memory: a tree that is right and the two lists of slots.
MemInv(m, L) ==
  /\ m = [tree |-> m.tree, free |-> m.free, release |-> m.release]
  /\ TreeInv(m.tree, L)

\* free() of the allocator does not touch the tree.
LEMMA GiveBackKeeps ==
  ASSUME NEW m, NEW L, MemInv(m, L), NEW S PROVE MemInv(GiveBack(m, S), L)
<1>1. PICK t, f, e : m = [tree |-> t, free |-> f, release |-> e]
  BY DEF MemInv
<1>2. PICK g : g = e \cup ((S \cap Slots) \ f)
  OBVIOUS
<1>3. GiveBack(m, S) = [tree |-> t, free |-> f, release |-> g]
  BY <1>1, <1>2 DEF GiveBack
<1>. QED BY <1>1, <1>3 DEF MemInv

\* Nor does alloc().
LEMMA TakeKeeps ==
  ASSUME NEW m, NEW L, MemInv(m, L), NEW n
  PROVE  MemInv(Take(m, n).mem, L)
<1>1. \E f, e : Take(m, n).mem = [tree |-> m.tree, free |-> f, release |-> e]
  BY DEF Take
<1>. QED BY <1>1 DEF MemInv

\* A memory with another tree that is right.
LEMMA WithTreeKeeps ==
  ASSUME NEW m, NEW L, NEW M, MemInv(m, L), NEW t, TreeInv(t, M)
  PROVE  MemInv([m EXCEPT !.tree = t], M)
<1>1. PICK k, f, e : m = [tree |-> k, free |-> f, release |-> e]
  BY DEF MemInv
<1>2. [m EXCEPT !.tree = t] = [tree |-> t, free |-> f, release |-> e]
  BY <1>1
<1>. QED BY <1>2 DEF MemInv

\* evict() with its frees keeps the memory right.
LEMMA EvictMemKeeps ==
  ASSUME NEW m, NEW L, MemInv(m, L), NEW target, NEW o \in evict(m, target)
  PROVE  MemInv(o, L)
<1>1. PICK E \in Evictable(m.tree, target) :
        o = GiveBack([m EXCEPT !.tree = WithoutNodes(m.tree, E)],
                     {m.tree.kv[p] : p \in Gone(m.tree, E)})
  BY DEF evict
<1>2. TreeInv(m.tree, L) /\ IsTree(m.tree)
  BY DEF MemInv, TreeInv, Shape
<1>3. TreeInv(WithoutNodes(m.tree, E), L)
  BY <1>2, EvictableLeaves, EvictKeeps
<1>4. MemInv([m EXCEPT !.tree = WithoutNodes(m.tree, E)], L)
  BY <1>3, WithTreeKeeps
<1>. QED BY <1>1, <1>4, GiveBackKeeps

\* One attempt of _alloc_kv_with_eviction(), after the outcomes S of the last.
NextTry(S, n) ==
  UNION {IF o.ok \/ o.mem.tree.evictable = 0 THEN {o}
         ELSE {Take(e, n) : e \in evict(o.mem, EvictTarget(n))} : o \in S}

\* f[k] are the outcomes after k attempts.
IsTries(f, m, n) ==
  f = [k \in 0..MaxEvictRetries |-> IF k = 0 THEN {Take(m, n)} ELSE NextTry(f[k - 1], n)]

\* An allocation is a first try and three more, each after an eviction.
LEMMA AllocIs ==
  ASSUME NEW m, NEW n
  PROVE  AllocKV(m, n) = NextTry(NextTry(NextTry({Take(m, n)}, n), n), n)
<1>1. AllocKV(m, n) = (CHOOSE f : IsTries(f, m, n))[MaxEvictRetries]
  BY DEF AllocKV, IsTries, NextTry
<1>2. PICK a, b, c, d : a = {Take(m, n)} /\ b = NextTry(a, n) /\ c = NextTry(b, n) /\ d = NextTry(c, n)
  OBVIOUS
<1>3. PICK g : g = [k \in 0..3 |-> IF k = 0 THEN a ELSE IF k = 1 THEN b ELSE IF k = 2 THEN c ELSE d]
  OBVIOUS
<1>4. IsTries(g, m, n)
  <2>1. ASSUME NEW k \in 0..3
        PROVE  g[k] = IF k = 0 THEN {Take(m, n)} ELSE NextTry(g[k - 1], n)
    <3>1. g[0] = a /\ g[1] = b /\ g[2] = c /\ g[3] = d
      BY <1>3
    <3>2. k = 0 \/ k = 1 \/ k = 2 \/ k = 3
      OBVIOUS
    <3>. QED BY <1>2, <3>1, <3>2
  <2>2. g = [k \in 0..3 |-> g[k]]
    BY <1>3
  <2>. QED BY <2>1, <2>2 DEF IsTries, MaxEvictRetries
<1>5. PICK f : f = CHOOSE h : IsTries(h, m, n)
  OBVIOUS
<1>6. IsTries(f, m, n)
  BY <1>4, <1>5
<1>7. \A k \in 0..3 : f[k] = IF k = 0 THEN {Take(m, n)} ELSE NextTry(f[k - 1], n)
  BY <1>6 DEF IsTries, MaxEvictRetries
<1>8. f[0] = {Take(m, n)}
  BY <1>7
<1>9. f[1] = NextTry(f[0], n)
  BY <1>7
<1>10. f[2] = NextTry(f[1], n)
  BY <1>7
<1>11. f[3] = NextTry(f[2], n)
  BY <1>7
<1>. QED BY <1>1, <1>5, <1>8, <1>9, <1>10, <1>11 DEF MaxEvictRetries

\* All attempts of an allocation leave a tree that is right.
LEMMA AllocKeeps ==
  ASSUME NEW m, NEW L, MemInv(m, L), NEW n, NEW o \in AllocKV(m, n)
  PROVE  MemInv(o.mem, L)
<1>1. ASSUME NEW S, \A x \in S : MemInv(x.mem, L)
      PROVE  \A x \in NextTry(S, n) : MemInv(x.mem, L)
  <2>1. SUFFICES ASSUME NEW x \in NextTry(S, n) PROVE MemInv(x.mem, L)
    OBVIOUS
  <2>2. PICK y \in S : x = y \/ \E e \in evict(y.mem, EvictTarget(n)) : x = Take(e, n)
    BY DEF NextTry
  <2>3. CASE x = y
    BY <1>1, <2>3
  <2>4. CASE \E e \in evict(y.mem, EvictTarget(n)) : x = Take(e, n)
    <3>1. PICK e \in evict(y.mem, EvictTarget(n)) : x = Take(e, n)
      BY <2>4
    <3>2. MemInv(e, L)
      BY <1>1, EvictMemKeeps
    <3>. QED BY <3>1, <3>2, TakeKeeps
  <2>. QED BY <2>2, <2>3, <2>4
<1>2. PICK a, b, c, d : a = {Take(m, n)} /\ b = NextTry(a, n) /\ c = NextTry(b, n) /\ d = NextTry(c, n)
  OBVIOUS
<1>3. \A x \in a : MemInv(x.mem, L)
  BY <1>2, TakeKeeps
<1>4. \A x \in b : MemInv(x.mem, L)
  BY <1>1, <1>2, <1>3
<1>5. \A x \in c : MemInv(x.mem, L)
  BY <1>1, <1>2, <1>4
<1>6. \A x \in d : MemInv(x.mem, L)
  BY <1>1, <1>2, <1>5
<1>7. o \in d
  BY <1>2, AllocIs
<1>. QED BY <1>6, <1>7

-----------------------------------------------------------------------------
\* Folds over a batch, taken apart

\* What is done with one request of a batch; k says in which of the four folds.
Each(k, x, r) ==
  IF k = "walk" THEN Walk(x, r) ELSE IF k = "lock" THEN LockMatched(x, r)
  ELSE IF k = "unlock" THEN UnlockMatched(x, r)
  ELSE InsertPrompt(x, r)

\* One step of the fold over a batch, and the function that it defines.
FoldStep(k, base, b, g, s) ==
  IF s = {} THEN base ELSE Each(k, g[s \ {Max(s)}], b[Max(s)])

IsFoldOn(k, base, b, g) == g = [s \in SUBSET DOMAIN b |-> FoldStep(k, base, b, g, s)]

\* The values a fold goes through, one for each request done.
IsChain(k, base, b, h) ==
  h[0] = base /\ \A i \in 1..Len(b) : h[i] = Each(k, h[i - 1], b[i])

\* A set of positions that is not empty has a maximum.
LEMMA MaxIn ==
  ASSUME NEW n \in Nat, NEW s \in SUBSET (1..n), s # {}
  PROVE  Max(s) \in s /\ \A y \in s : Max(s) >= y
<1>. DEFINE T == {n - x : x \in s}
<1>0. \A x \in s : x \in Nat /\ n - x \in Nat
  OBVIOUS
<1>1. T \subseteq Nat /\ T # {}
  BY <1>0
<1>2. PICK m \in T : \A y \in T : m <= y
  <2>. HIDE DEF T
  <2>. QED BY <1>1, NatLeast
<1>3. PICK x \in s : m = n - x
  BY <1>2
<1>4. ASSUME NEW y \in s PROVE x >= y
  <2>1. m <= n - y /\ x \in Nat /\ y \in Nat
    BY <1>2
  <2>. QED BY <1>3, <2>1
<1>. QED BY <1>3, <1>4 DEF Max

\* The function that a fold over a batch chooses exists.
LEMMA FoldExists ==
  ASSUME NEW k, NEW base, NEW b, NEW n \in Nat, DOMAIN b = 1..n
  PROVE  \E g : IsFoldOn(k, base, b, g)
<1>. DEFINE D == 1..n
            Small(c) == {s \in SUBSET D : Cardinality(s) <= c}
            G == {c \in Nat : \E g : g = [s \in Small(c) |-> FoldStep(k, base, b, g, s)]}
<1>0. IsFiniteSet(D) /\ \A s \in SUBSET D : IsFiniteSet(s) /\ Cardinality(s) \in Nat
  <2>1. 1 \in Int /\ n \in Int
    OBVIOUS
  <2>2. IsFiniteSet(D)
    BY <2>1, FS_Interval
  <2>. HIDE DEF D
  <2>. QED BY <2>2, FS_Subset, FS_CardinalityType
<1>1. 0 \in G
  <2>. DEFINE g == [s \in Small(0) |-> base]
  <2>1. \A s \in Small(0) : s = {}
    BY <1>0, FS_EmptySet
  <2>2. g = [s \in Small(0) |-> FoldStep(k, base, b, g, s)]
    BY <2>1 DEF FoldStep
  <2>. QED BY <2>2
<1>2. ASSUME NEW c \in Nat, c \in G PROVE c + 1 \in G
  <2>1. PICK h : h = [s \in Small(c) |-> FoldStep(k, base, b, h, s)]
    BY <1>2
  <2>. DEFINE g == [s \in Small(c + 1) |-> FoldStep(k, base, b, h, s)]
  <2>2. ASSUME NEW s \in Small(c + 1), s # {}
        PROVE  s \ {Max(s)} \in Small(c)
    <3>1. Max(s) \in s
      BY <2>2, MaxIn
    <3>2. s \in SUBSET D /\ IsFiniteSet(s) /\ Cardinality(s) \in Nat /\ Cardinality(s) <= c + 1
      BY <1>0
    <3>3. Cardinality(s \ {Max(s)}) = Cardinality(s) - 1
      BY <3>1, <3>2, FS_RemoveElement
    <3>4. s \ {Max(s)} \in SUBSET D /\ Cardinality(s \ {Max(s)}) <= c
      <4>1. PICK x : x = Max(s)
        OBVIOUS
      <4>2. s \ {x} \in SUBSET D
        BY <3>2
      <4>3. Cardinality(s \ {x}) <= c
        BY <3>2, <3>3, <4>1
      <4>. QED BY <4>1, <4>2, <4>3
    <3>. QED BY <3>4
  <2>3. ASSUME NEW s \in Small(c) PROVE s \in Small(c + 1) /\ h[s] = g[s]
    <3>1. s \in SUBSET D /\ Cardinality(s) <= c
      OBVIOUS
    <3>2. Cardinality(s) \in Nat
      BY <1>0, <3>1
    <3>3. Cardinality(s) <= c + 1
      BY <3>1, <3>2
    <3>4. s \in Small(c + 1)
      BY <3>1, <3>3
    <3>5. h[s] = FoldStep(k, base, b, h, s)
      <4>. HIDE DEF Small, g
      <4>. QED BY <2>1
    <3>6. g[s] = FoldStep(k, base, b, h, s)
      <4>. HIDE DEF Small
      <4>. QED BY <3>4
    <3>. QED BY <3>4, <3>5, <3>6
  <2>4. ASSUME NEW s \in Small(c + 1)
        PROVE  FoldStep(k, base, b, h, s) = FoldStep(k, base, b, g, s)
    <3>1. CASE s = {}
      BY <3>1 DEF FoldStep
    <3>2. CASE s # {}
      <4>1. h[s \ {Max(s)}] = g[s \ {Max(s)}]
        BY <3>2, <2>2, <2>3
      <4>. QED BY <3>2, <4>1 DEF FoldStep
    <3>. QED BY <3>1, <3>2
  <2>5. g = [s \in Small(c + 1) |-> FoldStep(k, base, b, g, s)]
    BY <2>4
  <2>6. c + 1 \in Nat
    OBVIOUS
  <2>. HIDE DEF g, Small
  <2>. QED BY <2>5, <2>6
<1>3. Cardinality(D) \in G
  <2>. HIDE DEF G
  <2>1. Cardinality(D) \in Nat
    BY <1>0
  <2>. QED BY <1>1, <1>2, <2>1, NatInductive
<1>4. Small(Cardinality(D)) = SUBSET D
  BY <1>0, FS_Subset
<1>. QED BY <1>3, <1>4 DEF IsFoldOn

\* The fold does the requests in the order of the batch.
LEMMA FoldChain ==
  ASSUME NEW k, NEW base, NEW S, NEW b \in Seq(S), NEW g, IsFoldOn(k, base, b, g)
  PROVE  \E h : IsChain(k, base, b, h) /\ h[Len(b)] = g[DOMAIN b]
<1>0. Len(b) \in Nat /\ DOMAIN b = 1..Len(b)
  OBVIOUS
<1>1. PICK h : h = [i \in 0..Len(b) |-> g[1..i]]
  OBVIOUS
<1>2. h[0] = base
  <2>1. 1..0 = {} /\ {} \in SUBSET DOMAIN b
    OBVIOUS
  <2>2. g[{}] = FoldStep(k, base, b, g, {})
    BY <2>1 DEF IsFoldOn
  <2>. QED BY <1>0, <1>1, <2>1, <2>2 DEF FoldStep
<1>3. ASSUME NEW i \in 1..Len(b) PROVE h[i] = Each(k, h[i - 1], b[i])
  <2>1. PICK s : s = 1..i
    OBVIOUS
  <2>2. s \in SUBSET DOMAIN b /\ s # {} /\ i \in s /\ \A y \in s : y \in Nat /\ y <= i
    <3>1. i \in Nat /\ i >= 1 /\ i <= Len(b)
      BY <1>0
    <3>2. \A y \in s : y \in Nat /\ y <= i /\ y \in 1..Len(b)
      BY <1>0, <2>1, <3>1
    <3>3. i \in s
      BY <2>1, <3>1
    <3>. QED BY <1>0, <3>2, <3>3
  <2>3. Max(s) \in s /\ \A y \in s : Max(s) >= y
    BY <1>0, <2>2, MaxIn
  <2>4. Max(s) = i
    BY <2>2, <2>3
  <2>5. s \ {i} = 1..(i - 1)
    BY <1>0, <2>1
  <2>6. g[s] = FoldStep(k, base, b, g, s)
    BY <2>2 DEF IsFoldOn
  <2>7. g[s] = Each(k, g[s \ {i}], b[i])
    BY <2>2, <2>4, <2>6 DEF FoldStep
  <2>8. i \in 0..Len(b) /\ i - 1 \in 0..Len(b)
    BY <1>0
  <2>9. h[i] = g[1..i] /\ h[i - 1] = g[1..(i - 1)]
    BY <1>1, <2>8
  <2>. QED BY <2>1, <2>5, <2>7, <2>9
<1>4. h[Len(b)] = g[DOMAIN b]
  BY <1>0, <1>1
<1>. QED BY <1>2, <1>3, <1>4 DEF IsChain

\* The same, for each of the folds of an extend, and the one of an extend that fails.
WalkFold(base, b, g) ==
  g = [s \in SUBSET DOMAIN b |-> IF s = {} THEN base ELSE Walk(g[s \ {Max(s)}], b[Max(s)])]

LockFold(base, b, g) ==
  g = [s \in SUBSET DOMAIN b |-> IF s = {} THEN base ELSE LockMatched(g[s \ {Max(s)}], b[Max(s)])]

InsertFold(base, b, g) ==
  g = [s \in SUBSET DOMAIN b |-> IF s = {} THEN base ELSE InsertPrompt(g[s \ {Max(s)}], b[Max(s)])]

UnlockFold(base, b, g) ==
  g = [s \in SUBSET DOMAIN b |-> IF s = {} THEN base ELSE UnlockMatched(g[s \ {Max(s)}], b[Max(s)])]

\* Each fold is an instance of the general one.
LEMMA FoldsAre ==
  ASSUME NEW base, NEW b, NEW g
  PROVE  /\ IsFoldOn("walk", base, b, g) <=> WalkFold(base, b, g)
         /\ IsFoldOn("lock", base, b, g) <=> LockFold(base, b, g)
         /\ IsFoldOn("insert", base, b, g) <=> InsertFold(base, b, g)
         /\ IsFoldOn("unlock", base, b, g) <=> UnlockFold(base, b, g)
<1>1. \A s : FoldStep("walk", base, b, g, s) = IF s = {} THEN base ELSE Walk(g[s \ {Max(s)}], b[Max(s)])
  BY DEF FoldStep, Each
<1>2. \A s : FoldStep("lock", base, b, g, s) = IF s = {} THEN base ELSE LockMatched(g[s \ {Max(s)}], b[Max(s)])
  BY DEF FoldStep, Each
<1>3. \A s : FoldStep("insert", base, b, g, s) = IF s = {} THEN base ELSE InsertPrompt(g[s \ {Max(s)}], b[Max(s)])
  BY DEF FoldStep, Each
<1>4. \A s : FoldStep("unlock", base, b, g, s) = IF s = {} THEN base ELSE UnlockMatched(g[s \ {Max(s)}], b[Max(s)])
  BY DEF FoldStep, Each
<1>. QED BY <1>1, <1>2, <1>3, <1>4 DEF IsFoldOn, WalkFold, LockFold, InsertFold, UnlockFold

\* Matching the prompts of a batch, one after the other.
LEMMA WalkChain ==
  ASSUME NEW base, NEW S, NEW b \in Seq(S)
  PROVE  \E h : IsChain("walk", base, b, h) /\ FoldLeft(Walk, base, b) = h[Len(b)]
<1>1. FoldLeft(Walk, base, b) = (CHOOSE g : WalkFold(base, b, g))[DOMAIN b]
  BY DEF FoldLeft, MapThenFoldSet, WalkFold
<1>2. PICK f : f = CHOOSE g : WalkFold(base, b, g)
  OBVIOUS
<1>3. \E g : IsFoldOn("walk", base, b, g)
  <2>1. Len(b) \in Nat /\ DOMAIN b = 1..Len(b)
    OBVIOUS
  <2>. QED BY <2>1, FoldExists
<1>4. WalkFold(base, b, f)
  BY <1>2, <1>3, FoldsAre
<1>5. IsFoldOn("walk", base, b, f)
  BY <1>4, FoldsAre
<1>6. PICK h : IsChain("walk", base, b, h) /\ h[Len(b)] = f[DOMAIN b]
  BY <1>5, FoldChain
<1>. QED BY <1>1, <1>2, <1>6

\* Locking what they matched, one after the other.
LEMMA LockChain ==
  ASSUME NEW base, NEW S, NEW b \in Seq(S)
  PROVE  \E h : IsChain("lock", base, b, h) /\ FoldLeft(LockMatched, base, b) = h[Len(b)]
<1>1. FoldLeft(LockMatched, base, b) = (CHOOSE g : LockFold(base, b, g))[DOMAIN b]
  BY DEF FoldLeft, MapThenFoldSet, LockFold
<1>2. PICK f : f = CHOOSE g : LockFold(base, b, g)
  OBVIOUS
<1>3. \E g : IsFoldOn("lock", base, b, g)
  <2>1. Len(b) \in Nat /\ DOMAIN b = 1..Len(b)
    OBVIOUS
  <2>. QED BY <2>1, FoldExists
<1>4. LockFold(base, b, f)
  BY <1>2, <1>3, FoldsAre
<1>5. IsFoldOn("lock", base, b, f)
  BY <1>4, FoldsAre
<1>6. PICK h : IsChain("lock", base, b, h) /\ h[Len(b)] = f[DOMAIN b]
  BY <1>5, FoldChain
<1>. QED BY <1>1, <1>2, <1>6

\* Taking the locks back, one after the other.
LEMMA UnlockChain ==
  ASSUME NEW base, NEW S, NEW b \in Seq(S)
  PROVE  \E h : IsChain("unlock", base, b, h) /\ FoldLeft(UnlockMatched, base, b) = h[Len(b)]
<1>1. FoldLeft(UnlockMatched, base, b) = (CHOOSE g : UnlockFold(base, b, g))[DOMAIN b]
  BY DEF FoldLeft, MapThenFoldSet, UnlockFold
<1>2. PICK f : f = CHOOSE g : UnlockFold(base, b, g)
  OBVIOUS
<1>3. \E g : IsFoldOn("unlock", base, b, g)
  <2>1. Len(b) \in Nat /\ DOMAIN b = 1..Len(b)
    OBVIOUS
  <2>. QED BY <2>1, FoldExists
<1>4. UnlockFold(base, b, f)
  BY <1>2, <1>3, FoldsAre
<1>5. IsFoldOn("unlock", base, b, f)
  BY <1>4, FoldsAre
<1>6. PICK h : IsChain("unlock", base, b, h) /\ h[Len(b)] = f[DOMAIN b]
  BY <1>5, FoldChain
<1>. QED BY <1>1, <1>2, <1>6

\* Inserting the prompts, one after the other.
LEMMA InsertChain ==
  ASSUME NEW base, NEW S, NEW b \in Seq(S)
  PROVE  \E h : IsChain("insert", base, b, h) /\ FoldLeft(InsertPrompt, base, b) = h[Len(b)]
<1>1. FoldLeft(InsertPrompt, base, b) = (CHOOSE g : InsertFold(base, b, g))[DOMAIN b]
  BY DEF FoldLeft, MapThenFoldSet, InsertFold
<1>2. PICK f : f = CHOOSE g : InsertFold(base, b, g)
  OBVIOUS
<1>3. \E g : IsFoldOn("insert", base, b, g)
  <2>1. Len(b) \in Nat /\ DOMAIN b = 1..Len(b)
    OBVIOUS
  <2>. QED BY <2>1, FoldExists
<1>4. InsertFold(base, b, f)
  BY <1>2, <1>3, FoldsAre
<1>5. IsFoldOn("insert", base, b, f)
  BY <1>4, FoldsAre
<1>6. PICK h : IsChain("insert", base, b, h) /\ h[Len(b)] = f[DOMAIN b]
  BY <1>5, FoldChain
<1>. QED BY <1>1, <1>2, <1>6

-----------------------------------------------------------------------------
\* The inductive invariant

\* The node that each request holds.
LockMap(lv) == [r \in DOMAIN lv |-> lv[r].lock]

\* The record that the maps make up for a request.
IsLive(q) == q = [row |-> q.row, output |-> q.output, protected |-> q.protected, lock |-> q.lock]

\* A request locks nodes along its prompt only.
OnPrompt(r, n) == n = Root \/ n \in Along(Prompt[r])

\* The records of the live requests.
LiveInv(lv) ==
  /\ lv = [r \in DOMAIN lv |-> lv[r]]
  /\ \A r \in DOMAIN lv : r \in Reqs /\ IsLive(lv[r])
  /\ \A r \in DOMAIN lv : OnPrompt(r, lv[r].lock)

\* While the process is up: the tree is right for the locks that the live requests
\* hold, and without a prefix cache they hold none.
LockInv ==
  status = "up" =>
  /\ MemInv(mem, LockMap(live))
  /\ LiveInv(live) /\ Live \subseteq started
  /\ \A r \in Live : live[r].output \in Seq(OutTokens)
  /\ ~cached => \A r \in Live : live[r].lock = Root

\* A prompt is a path of tokens.
LEMMA PromptPath ==
  ASSUME NEW r \in Reqs PROVE Prompt[r] \in Paths /\ Prompt[r] # Root
<1>1. Prompt[r] \in Seq(Nat) /\ Prompt[r] # <<>>
  BY PromptAssumption
<1>. QED BY <1>1 DEF Paths, Tok, Root

\* So is a prompt with its answer.
LEMMA FullPath ==
  ASSUME NEW r \in Reqs, live[r].output \in Seq(OutTokens)
  PROVE  Full(r) \in Paths /\ Full(r) # Root
<1>1. PICK p, o : p = Prompt[r] /\ o = live[r].output
  OBVIOUS
<1>2. p \in Seq(Tok) /\ p # <<>>
  BY <1>1, PromptPath DEF Paths, Root
<1>3. o \in Seq(Tok)
  BY <1>1 DEF Tok
<1>4. p \o o \in Seq(Tok) /\ p \o o # <<>>
  BY <1>2, <1>3
<1>. QED BY <1>1, <1>4 DEF Full, Paths, Root

\* A batch is a sequence of different requests.
LEMMA BatchType ==
  ASSUME NEW b \in Batches
  PROVE  /\ b \in Seq(Reqs) /\ Len(b) \in Nat /\ DOMAIN b = 1..Len(b)
         /\ Range(b) = {b[i] : i \in 1..Len(b)}
         /\ \A i \in 1..Len(b) : b[i] \in Reqs
         /\ \A i, j \in 1..Len(b) : b[i] = b[j] => i = j
<1>1. PICK m \in 0..MaxBatch : b \in [1..m -> Reqs]
  BY DEF Batches, SeqOf
<1>2. m \in Nat
  BY BoundsAssumption
<1>3. b \in Seq(Reqs) /\ Len(b) = m /\ DOMAIN b = 1..Len(b)
  BY <1>1, <1>2
<1>4. \A i, j \in DOMAIN b : b[i] = b[j] => i = j
  BY DEF Batches, IsInjective
<1>. QED BY <1>1, <1>2, <1>3, <1>4 DEF Range

\* Step 1 of _allocate_extend(): after the walks every match ends at a node.
LEMMA WalksKeep ==
  ASSUME NEW b \in Batches, NEW L, TreeInv(mem.tree, L)
  PROVE  /\ TreeInv(FoldLeft(Walk, mem.tree, b), L) /\ FoldLeft(Walk, mem.tree, b).kv = mem.tree.kv
         /\ \A i \in 1..Len(b) : Matched(b[i]) \in Nodes(FoldLeft(Walk, mem.tree, b)) \cup {Root}
<1>0. b \in Seq(Reqs) /\ Len(b) \in Nat /\ \A i \in 1..Len(b) : b[i] \in Reqs
  BY BatchType
<1>1. PICK h : IsChain("walk", mem.tree, b, h) /\ FoldLeft(Walk, mem.tree, b) = h[Len(b)]
  BY <1>0, WalkChain
<1>. DEFINE Good(i) == /\ TreeInv(h[i], L) /\ h[i].kv = mem.tree.kv
                       /\ \A j \in 1..i : Matched(b[j]) \in Nodes(h[i]) \cup {Root}
            G == {i \in Nat : i <= Len(b) => Good(i)}
<1>2. 0 \in G
  BY <1>1 DEF IsChain
<1>3. ASSUME NEW i \in Nat, i \in G PROVE i + 1 \in G
  <2>1. SUFFICES ASSUME i + 1 <= Len(b) PROVE Good(i + 1)
    OBVIOUS
  <2>2. i <= Len(b) /\ i + 1 \in 1..Len(b) /\ (i + 1) - 1 = i
    BY <1>0, <2>1
  <2>3. Good(i)
    BY <1>3, <2>2
  <2>4. PICK r \in Reqs : r = b[i + 1]
    BY <1>0, <2>2
  <2>5. h[i + 1] = Walk(h[i], r)
    <3>1. h[i + 1] = Each("walk", h[(i + 1) - 1], b[i + 1])
      BY <1>1, <2>2 DEF IsChain
    <3>. QED BY <2>2, <2>4, <3>1 DEF Each
  <2>6. CASE ~cached
    <3>1. h[i + 1] = h[i] /\ Matched(r) = Root
      BY <2>5, <2>6 DEF Walk, Matched
    <3>2. \A j \in 1..(i + 1) : j \in 1..i \/ b[j] = r
      BY <2>4
    <3>. QED BY <2>3, <3>1, <3>2
  <2>7. CASE cached
    <3>1. PICK p : p = Hit(mem.tree, Prompt[r])
      OBVIOUS
    <3>2. Matched(r) = p /\ h[i + 1] = Split(h[i], p)
      BY <2>3, <2>5, <2>7, <3>1 DEF Walk, Matched, match_prefix, Hit
    <3>3. p \in DOMAIN h[i].kv \cup {Root}
      BY <2>3, <3>1, PromptPath, HitIs
    <3>4. /\ TreeInv(h[i + 1], L) /\ h[i + 1].kv = h[i].kv
          /\ Nodes(h[i + 1]) = Nodes(h[i]) \cup ({p} \ {Root})
      BY <2>3, <3>2, <3>3, SplitKeeps
    <3>5. \A j \in 1..(i + 1) : j \in 1..i \/ b[j] = r
      BY <2>4
    <3>. QED BY <2>3, <3>2, <3>4, <3>5
  <2>. QED BY <2>6, <2>7
<1>4. Len(b) \in G
  <2>. HIDE DEF G
  <2>. QED BY <1>0, <1>2, <1>3, NatInductive
<1>5. Good(Len(b))
  BY <1>0, <1>4
<1>. QED BY <1>1, <1>5

\* Locks do not touch the indices.
LEMMA SameIndices ==
  ASSUME NEW t, IsTree(t), NEW n, NEW o
  PROVE  /\ inc_lock_ref(t, n).kv = t.kv /\ dec_lock_ref(t, n).kv = t.kv
         /\ MoveLock(t, o, n).kv = t.kv
<1>1. ASSUME NEW s, NEW k, NEW l, NEW e, NEW p, NEW x,
             s = [kv |-> k, lock |-> l, evictable |-> e, protected |-> p]
      PROVE  /\ inc_lock_ref(s, x).kv = k /\ dec_lock_ref(s, x).kv = k
             /\ \E l2, e2, p2 : dec_lock_ref(s, x) = [kv |-> k, lock |-> l2, evictable |-> e2, protected |-> p2]
  <2>1. PICK up, dn, n0, n1 :
          /\ up = [q \in Nodes(s) |-> s.lock[q] + (IF q \in Path(s, x) THEN 1 ELSE 0)]
          /\ dn = [q \in Nodes(s) |-> s.lock[q] - (IF q \in Path(s, x) THEN 1 ELSE 0)]
          /\ n0 = TokensAt(s, x, 0) /\ n1 = TokensAt(s, x, 1)
    OBVIOUS
  <2>2. inc_lock_ref(s, x) = [s EXCEPT !.lock = up, !.evictable = @ - n0, !.protected = @ + n0]
    BY <2>1 DEF inc_lock_ref
  <2>3. dec_lock_ref(s, x) = [s EXCEPT !.lock = dn, !.evictable = @ + n1, !.protected = @ - n1]
    BY <2>1 DEF dec_lock_ref
  <2>4. inc_lock_ref(s, x) = [kv |-> k, lock |-> up, evictable |-> e - n0, protected |-> p + n0]
    BY <1>1, <2>2
  <2>5. dec_lock_ref(s, x) = [kv |-> k, lock |-> dn, evictable |-> e + n1, protected |-> p - n1]
    BY <1>1, <2>3
  <2>6. inc_lock_ref(s, x).kv = k /\ dec_lock_ref(s, x).kv = k
    BY <2>4, <2>5
  <2>7. PICK e2, p2 : e2 = e + n1 /\ p2 = p - n1
    OBVIOUS
  <2>8. dec_lock_ref(s, x) = [kv |-> k, lock |-> dn, evictable |-> e2, protected |-> p2]
    BY <2>5, <2>7
  <2>. QED BY <2>6, <2>8, Zenon
<1>2. t = [kv |-> t.kv, lock |-> t.lock, evictable |-> t.evictable, protected |-> t.protected]
  BY DEF IsTree
<1>3. inc_lock_ref(t, n).kv = t.kv /\ dec_lock_ref(t, n).kv = t.kv
  BY <1>1, <1>2
<1>4. PICK d : d = dec_lock_ref(t, o)
  OBVIOUS
<1>5. PICK l2, e2, p2 : d = [kv |-> t.kv, lock |-> l2, evictable |-> e2, protected |-> p2]
  BY <1>1, <1>2, <1>4
<1>6. inc_lock_ref(d, n).kv = t.kv
  BY <1>1, <1>5
<1>. QED BY <1>3, <1>4, <1>6 DEF MoveLock

\* What a request of the batch holds after step 1.5.
NewLock(r) == IF Reused(r) > 0 THEN Matched(r) ELSE Root

\* The locks when the first i requests of the batch have theirs.
LockedUpto(b, i) ==
  [x \in Live \cup {b[j] : j \in 1..i} |-> IF x \in Live THEN live[x].lock ELSE NewLock(x)]

\* Step 1.5: each request of the batch gets its lock.
LEMMA LocksKeep ==
  ASSUME NEW b \in Batches, Range(b) \cap Live = {}, NEW t, TreeInv(t, LockMap(live)),
         \A i \in 1..Len(b) : Matched(b[i]) \in Nodes(t) \cup {Root}
  PROVE  TreeInv(FoldLeft(LockMatched, t, b), LockedUpto(b, Len(b))) /\ FoldLeft(LockMatched, t, b).kv = t.kv
<1>0. /\ b \in Seq(Reqs) /\ Len(b) \in Nat /\ Range(b) = {b[i] : i \in 1..Len(b)}
      /\ \A i, j \in 1..Len(b) : b[i] = b[j] => i = j
  BY BatchType
<1>1. PICK h : IsChain("lock", t, b, h) /\ FoldLeft(LockMatched, t, b) = h[Len(b)]
  BY <1>0, LockChain
<1>. DEFINE Good(i) == TreeInv(h[i], LockedUpto(b, i)) /\ Nodes(h[i]) = Nodes(t) /\ h[i].kv = t.kv
            G == {i \in Nat : i <= Len(b) => Good(i)}
<1>2. 0 \in G
  <2>1. h[0] = t
    BY <1>1 DEF IsChain
  <2>2. {b[j] : j \in 1..0} = {}
    OBVIOUS
  <2>3. LockedUpto(b, 0) = LockMap(live)
    BY <2>2 DEF LockedUpto, LockMap, Live
  <2>. QED BY <2>1, <2>3
<1>3. ASSUME NEW i \in Nat, i \in G PROVE i + 1 \in G
  <2>1. SUFFICES ASSUME i + 1 <= Len(b) PROVE Good(i + 1)
    OBVIOUS
  <2>2. i <= Len(b) /\ i + 1 \in 1..Len(b) /\ (i + 1) - 1 = i
    BY <1>0, <2>1
  <2>3. Good(i)
    BY <1>3, <2>2
  <2>4. PICK r : r = b[i + 1]
    OBVIOUS
  <2>5. h[i + 1] = LockMatched(h[i], r)
    <3>1. h[i + 1] = Each("lock", h[(i + 1) - 1], b[i + 1])
      BY <1>1, <2>2 DEF IsChain
    <3>. QED BY <2>2, <2>4, <3>1 DEF Each
  <2>6. IsHolding(LockedUpto(b, i + 1), LockedUpto(b, i), r, NewLock(r))
    <3>1. r \notin Live /\ \A j \in 1..i : b[j] # r
      <4>1. r \in Range(b)
        BY <1>0, <2>2, <2>4
      <4>2. \A j \in 1..i : j \in 1..Len(b) /\ j # i + 1
        BY <1>0, <2>2
      <4>. QED BY <1>0, <2>2, <2>4, <4>1, <4>2
    <3>2. {b[j] : j \in 1..(i + 1)} = {b[j] : j \in 1..i} \cup {r}
      <4>1. 1..(i + 1) = (1..i) \cup {i + 1}
        OBVIOUS
      <4>. QED BY <2>4, <4>1
    <3>3. PICK B : B = {b[j] : j \in 1..i}
      OBVIOUS
    <3>4. r \notin B
      BY <3>1, <3>3
    <3>5. /\ LockedUpto(b, i) = [x \in Live \cup B |-> IF x \in Live THEN live[x].lock ELSE NewLock(x)]
          /\ LockedUpto(b, i + 1) = [x \in Live \cup (B \cup {r}) |-> IF x \in Live THEN live[x].lock ELSE NewLock(x)]
      BY <3>2, <3>3 DEF LockedUpto
    <3>. QED BY <3>1, <3>4, <3>5 DEF IsHolding
  <2>7. CASE Reused(r) > 0
    <3>1. NewLock(r) = Matched(r) /\ h[i + 1] = inc_lock_ref(h[i], Matched(r))
      BY <2>5, <2>7 DEF NewLock, LockMatched
    <3>2. Matched(r) \in Nodes(h[i]) \cup {Root}
      BY <2>2, <2>3, <2>4
    <3>3. h[i + 1].kv = t.kv
      BY <2>3, <3>1, SameIndices DEF TreeInv, Shape
    <3>. QED BY <2>3, <2>6, <3>1, <3>2, <3>3, IncKeeps
  <2>8. CASE ~(Reused(r) > 0)
    <3>1. NewLock(r) = Root /\ h[i + 1] = h[i]
      BY <2>5, <2>8 DEF NewLock, LockMatched
    <3>. QED BY <2>3, <2>6, <3>1, RootKeeps
  <2>. QED BY <2>7, <2>8
<1>4. Len(b) \in G
  <2>. HIDE DEF G
  <2>. QED BY <1>0, <1>2, <1>3, NatInductive
<1>5. Good(Len(b))
  BY <1>0, <1>4
<1>. QED BY <1>1, <1>5

\* The state that _insert_into_radix_cache() works on, request by request: the
\* requests are those of out, which says what each has put out.
ServedInv(s, out) ==
  /\ DOMAIN s.live = DOMAIN out /\ LiveInv(s.live) /\ MemInv(s.mem, LockMap(s.live))
  /\ \A x \in DOMAIN out : s.live[x].output = out[x]

\* _insert_into_radix_cache() for one request: its lock moves to the end of the prompt.
LEMMA InsertPromptKeeps ==
  ASSUME NEW s, NEW out, ServedInv(s, out), NEW r \in DOMAIN out
  PROVE  ServedInv(InsertPrompt(s, r), out)
<1>0. PICK D : D = DOMAIN out
  OBVIOUS
<1>1. PICK q : q = s.live[r]
  OBVIOUS
<1>2. r \in Reqs /\ IsLive(q) /\ r \in DOMAIN s.live /\ s.live = [x \in D |-> s.live[x]]
  BY <1>0, <1>1 DEF ServedInv, LiveInv
<1>3. PICK t : t = insert(s.mem.tree, Prompt[r], s.rows[q.row])
  OBVIOUS
<1>4. PICK S : S = Duplicates(s.rows[q.row], q.protected, Len(Hit(s.mem.tree, Prompt[r])))
  OBVIOUS
<1>5. PICK m : m = GiveBack([s.mem EXCEPT !.tree = MoveLock(t, q.lock, Prompt[r])], S)
  OBVIOUS
<1>6. PICK lv : lv = [s.live EXCEPT ![r].protected = Len(Prompt[r]), ![r].lock = Prompt[r]]
  OBVIOUS
<1>7. InsertPrompt(s, r).mem = m /\ InsertPrompt(s, r).live = lv
  BY <1>1, <1>3, <1>4, <1>5, <1>6 DEF InsertPrompt
<1>8. PICK q2 : q2 = [q EXCEPT !.protected = Len(Prompt[r]), !.lock = Prompt[r]]
  OBVIOUS
<1>9. IsLive(q2) /\ q2.lock = Prompt[r] /\ q2.output = q.output
  BY <1>2, <1>8 DEF IsLive
<1>10. lv = [s.live EXCEPT ![r] = q2]
  BY <1>1, <1>2, <1>6, <1>8
<1>11. DOMAIN lv = D /\ lv[r] = q2 /\ \A x \in D : x # r => lv[x] = s.live[x]
  BY <1>0, <1>2, <1>10
<1>12. LiveInv(lv)
  <2>1. lv = [x \in DOMAIN lv |-> lv[x]]
    BY <1>2, <1>10
  <2>2. OnPrompt(r, lv[r].lock)
    BY <1>2, <1>9, <1>11, PromptPath, AlongSelf DEF OnPrompt
  <2>3. \A x \in D : x # r => OnPrompt(x, lv[x].lock)
    BY <1>0, <1>11 DEF LiveInv, ServedInv
  <2>4. \A x \in D : x \in Reqs /\ IsLive(lv[x])
    BY <1>0, <1>2, <1>9, <1>11 DEF LiveInv, ServedInv
  <2>. QED BY <1>11, <2>1, <2>2, <2>3, <2>4 DEF LiveInv
<1>13. MemInv(m, LockMap(lv))
  <2>1. MemInv(s.mem, LockMap(s.live)) /\ TreeInv(s.mem.tree, LockMap(s.live))
    BY DEF ServedInv, MemInv
  <2>2. TreeInv(t, LockMap(s.live)) /\ Prompt[r] \in Nodes(t)
    BY <1>2, <1>3, <2>1, PromptPath, InsertKeeps
  <2>3. PICK L, M : L = LockMap(s.live) /\ M = LockMap(lv)
    OBVIOUS
  <2>4. /\ DOMAIN L = D /\ DOMAIN M = D /\ L[r] = q.lock /\ M[r] = Prompt[r]
        /\ \A x \in D : x # r => M[x] = L[x]
    BY <1>0, <1>1, <1>2, <1>9, <1>11, <2>3 DEF LockMap, ServedInv
  <2>5. TreeInv(MoveLock(t, L[r], Prompt[r]), M)
    BY <1>0, <2>2, <2>3, <2>4, MoveKeeps
  <2>6. MemInv([s.mem EXCEPT !.tree = MoveLock(t, q.lock, Prompt[r])], M)
    BY <2>1, <2>4, <2>5, WithTreeKeeps
  <2>. QED BY <1>5, <2>3, <2>6, GiveBackKeeps
<1>14. \A x \in D : lv[x].output = out[x]
  BY <1>0, <1>1, <1>9, <1>11 DEF ServedInv
<1>. QED BY <1>0, <1>7, <1>11, <1>12, <1>13, <1>14 DEF ServedInv

\* The same for the whole batch.
LEMMA InsertsKeep ==
  ASSUME NEW b \in Batches, NEW s, NEW out, ServedInv(s, out), Range(b) \subseteq DOMAIN out
  PROVE  ServedInv(FoldLeft(InsertPrompt, s, b), out)
<1>0. b \in Seq(Reqs) /\ Len(b) \in Nat /\ \A i \in 1..Len(b) : b[i] \in DOMAIN out
  BY BatchType
<1>1. PICK h : IsChain("insert", s, b, h) /\ FoldLeft(InsertPrompt, s, b) = h[Len(b)]
  BY <1>0, InsertChain
<1>. DEFINE G == {i \in Nat : i <= Len(b) => ServedInv(h[i], out)}
<1>2. 0 \in G
  BY <1>1 DEF IsChain
<1>3. ASSUME NEW i \in Nat, i \in G PROVE i + 1 \in G
  <2>1. SUFFICES ASSUME i + 1 <= Len(b) PROVE ServedInv(h[i + 1], out)
    OBVIOUS
  <2>2. i <= Len(b) /\ i + 1 \in 1..Len(b) /\ (i + 1) - 1 = i
    BY <1>0, <2>1
  <2>3. h[i + 1] = InsertPrompt(h[i], b[i + 1])
    <3>1. h[i + 1] = Each("insert", h[(i + 1) - 1], b[i + 1])
      BY <1>1, <2>2 DEF IsChain
    <3>. QED BY <2>2, <3>1 DEF Each
  <2>. QED BY <1>0, <1>3, <2>2, <2>3, InsertPromptKeeps
<1>4. Len(b) \in G
  <2>. HIDE DEF G
  <2>. QED BY <1>0, <1>2, <1>3, NatInductive
<1>. QED BY <1>0, <1>1, <1>4

-----------------------------------------------------------------------------
\* One step per action

\* A new request is recorded with the lock that it got.
LEMMA NewLiveIs ==
  ASSUME NEW b \in Batches, LiveInv(live), NEW lv,
         lv = [r \in Live \cup Range(b) |->
                 IF r \in Live THEN live[r]
                 ELSE NewLive(b, CHOOSE j \in 1..Len(b) : b[j] = r)]
  PROVE  LiveInv(lv) /\ DOMAIN lv = Live \cup Range(b) /\ LockMap(lv) = LockedUpto(b, Len(b))
<1>0. Range(b) = {b[i] : i \in 1..Len(b)} /\ \A i \in 1..Len(b) : b[i] \in Reqs
  BY BatchType
<1>1. DOMAIN lv = Live \cup Range(b) /\ lv = [r \in DOMAIN lv |-> lv[r]]
  OBVIOUS
<1>2. ASSUME NEW r \in Range(b), r \notin Live
      PROVE  IsLive(lv[r]) /\ lv[r].lock = NewLock(r)
  <2>1. PICK j : j = CHOOSE i \in 1..Len(b) : b[i] = r
    OBVIOUS
  <2>2. b[j] = r
    BY <1>0, <2>1
  <2>3. lv[r] = NewLive(b, j)
    BY <1>2, <2>1
  <2>4. lv[r] = [row |-> free_rows[j], output |-> <<>>, protected |-> Reused(r), lock |-> NewLock(r)]
    BY <2>2, <2>3 DEF NewLive, NewLock, NoLock
  <2>. QED BY <2>4 DEF IsLive
<1>3. \A r \in Live : lv[r] = live[r] /\ r \in Reqs /\ IsLive(live[r]) /\ OnPrompt(r, live[r].lock)
  BY DEF LiveInv, Live
<1>4. LiveInv(lv)
  <2>1. \A r \in DOMAIN lv : r \in Reqs /\ IsLive(lv[r])
    <3>1. \A r \in Range(b) : r \in Reqs
      BY <1>0
    <3>2. \A r \in Live : r \in Reqs /\ IsLive(lv[r])
      BY <1>3
    <3>3. \A r \in Range(b) : r \notin Live => IsLive(lv[r])
      BY <1>2
    <3>. QED BY <1>1, <3>1, <3>2, <3>3, Zenon
  <2>2. ASSUME NEW r \in DOMAIN lv PROVE OnPrompt(r, lv[r].lock)
    <3>1. CASE r \in Live
      BY <1>3, <3>1
    <3>2. CASE r \notin Live
      <4>1. r \in Range(b) /\ lv[r].lock = NewLock(r)
        BY <1>1, <1>2, <3>2
      <4>2. OnPrompt(r, NewLock(r))
        BY <1>0, <4>1, PromptPath, HitIs DEF NewLock, Matched, OnPrompt
      <4>. QED BY <4>1, <4>2
    <3>. QED BY <3>1, <3>2
  <2>. QED BY <1>1, <2>1, <2>2 DEF LiveInv
<1>5. LockMap(lv) = LockedUpto(b, Len(b))
  <2>1. \A r \in DOMAIN lv : lv[r].lock = IF r \in Live THEN live[r].lock ELSE NewLock(r)
    BY <1>1, <1>2, <1>3
  <2>. QED BY <1>0, <1>1, <2>1 DEF LockMap, LockedUpto
<1>. QED BY <1>1, <1>4, <1>5

\* The requests of Extend(b) after the allocation, and what it leaves at the end.
Live0(b) ==
  [r \in Live \cup Range(b) |->
     IF r \in Live THEN live[r] ELSE NewLive(b, CHOOSE j \in 1..Len(b) : b[j] = r)]

\* Memory, rows and live requests after the batch b, which the allocation o served.
Served(b, o) ==
  InsertPrompts(
    [mem |-> o.mem,
     rows |-> [n \in 1..NumRows |->
       IF \E j \in 1..Len(b) : free_rows[j] = n
       THEN ExtendedRow(b, CHOOSE j \in 1..Len(b) : free_rows[j] = n, o.got)
       ELSE rows[n]],
     live |-> Live0(b)], b)

\* An extend: match, lock, allocate and insert, for a whole batch.
LEMMA ExtendKeeps ==
  ASSUME LockInv, NEW b \in Batches, Extend(b) PROVE LockInv'
<1>0. /\ MemInv(mem, LockMap(live)) /\ LiveInv(live) /\ Live \subseteq started
      /\ \A r \in Live : live[r].output \in Seq(OutTokens)
      /\ ~cached => \A r \in Live : live[r].lock = Root
  BY DEF LockInv, Extend
<1>1. Range(b) \cap started = {} /\ Range(b) \cap Live = {}
      /\ started' = started \cup Range(b) /\ cached' = cached
  BY <1>0 DEF Extend
<1>2. PICK lv0 : lv0 = Live0(b)
  OBVIOUS
<1>3. PICK o \in AllocKV([mem EXCEPT !.tree = MatchedTree(b)], NewTokens(b)),
           tokens \in [Range(b) -> OutTokens] :
        /\ mem' = Served(b, o).mem
        /\ live' = [r \in DOMAIN Served(b, o).live |->
                 IF r \in Range(b) THEN [Served(b, o).live[r] EXCEPT !.output = <<tokens[r]>>]
                 ELSE Served(b, o).live[r]]
  BY Zenon DEF Extend, Served, Live0
<1>4. PICK rws, s :
        /\ s = InsertPrompts([mem |-> o.mem, rows |-> rws, live |-> lv0], b)
        /\ mem' = s.mem
        /\ live' = [r \in DOMAIN s.live |->
                 IF r \in Range(b) THEN [s.live[r] EXCEPT !.output = <<tokens[r]>>] ELSE s.live[r]]
  <2>1. PICK rws : Served(b, o) = InsertPrompts([mem |-> o.mem, rows |-> rws, live |-> lv0], b)
    BY <1>2 DEF Served
  <2>2. PICK s : s = Served(b, o)
    OBVIOUS
  <2>. QED BY <1>3, <2>1, <2>2, Zenon
<1>5. PICK D : D = Live \cup Range(b)
  OBVIOUS
<1>6. LiveInv(lv0) /\ DOMAIN lv0 = D /\ LockMap(lv0) = LockedUpto(b, Len(b))
  BY <1>0, <1>2, <1>5, NewLiveIs DEF Live0
<1>7. MemInv(o.mem, LockMap(lv0))
  <2>1. TreeInv(mem.tree, LockMap(live))
    BY <1>0 DEF MemInv
  <2>2. PICK t : t = FoldLeft(Walk, mem.tree, b)
    OBVIOUS
  <2>3. TreeInv(t, LockMap(live)) /\ \A i \in 1..Len(b) : Matched(b[i]) \in Nodes(t) \cup {Root}
    BY <2>1, <2>2, WalksKeep
  <2>4. TreeInv(FoldLeft(LockMatched, t, b), LockedUpto(b, Len(b)))
    BY <1>1, <2>3, LocksKeep
  <2>5. TreeInv(MatchedTree(b), LockMap(lv0))
    BY <1>6, <2>2, <2>4 DEF MatchedTree
  <2>6. MemInv([mem EXCEPT !.tree = MatchedTree(b)], LockMap(lv0))
    BY <1>0, <2>5, WithTreeKeeps
  <2>. QED BY <2>6, AllocKeeps
<1>8. PICK out : out = [r \in D |-> lv0[r].output]
  OBVIOUS
<1>8a. PICK s0 : s0 = [mem |-> o.mem, rows |-> rws, live |-> lv0]
  OBVIOUS
<1>9. ServedInv(s0, out) /\ s0.live = lv0 /\ s0.mem = o.mem
  BY <1>6, <1>7, <1>8, <1>8a DEF ServedInv
<1>10. ServedInv(s, out) /\ (~cached => \A r \in D : s.live[r].lock = Root)
  <2>1. CASE cached
    <3>1. s = FoldLeft(InsertPrompt, s0, b)
      BY <1>4, <1>8a, <2>1 DEF InsertPrompts
    <3>2. Range(b) \subseteq DOMAIN out
      BY <1>5, <1>8
    <3>. QED BY <1>9, <2>1, <3>1, <3>2, InsertsKeep
  <2>2. CASE ~cached
    <3>1. PICK lv1 : lv1 = [r \in D |-> IF r \in Range(b) THEN [lv0[r] EXCEPT !.protected = 0] ELSE lv0[r]]
      OBVIOUS
    <3>2. s = [s0 EXCEPT !.live = lv1]
      BY <1>4, <1>6, <1>8a, <1>9, <2>2, <3>1 DEF InsertPrompts
    <3>3. s.live = lv1 /\ s.mem = o.mem
      BY <1>8a, <3>2
    <3>4. ASSUME NEW r \in D PROVE IsLive(lv1[r]) /\ lv1[r].lock = lv0[r].lock /\ lv1[r].output = lv0[r].output
      <4>1. IsLive(lv0[r])
        BY <1>6 DEF LiveInv
      <4>. QED BY <3>1, <4>1 DEF IsLive
    <3>5. LiveInv(lv1) /\ DOMAIN lv1 = D
      <4>1. DOMAIN lv1 = D /\ lv1 = [r \in D |-> lv1[r]]
        BY <3>1
      <4>. QED BY <1>6, <3>4, <4>1 DEF LiveInv
    <3>6. LockMap(lv1) = LockMap(lv0)
      BY <1>6, <3>4, <3>5 DEF LockMap
    <3>7. ASSUME NEW r \in D PROVE lv0[r].lock = Root
      <4>1. LockMap(lv0)[r] = lv0[r].lock
        BY <1>6 DEF LockMap
      <4>2. D = Live \cup {b[j] : j \in 1..Len(b)}
        BY <1>5, BatchType
      <4>3. lv0[r].lock = IF r \in Live THEN live[r].lock ELSE NewLock(r)
        BY <1>6, <4>1, <4>2 DEF LockedUpto
      <4>4. NewLock(r) = Root
        BY <2>2 DEF NewLock, Matched
      <4>. QED BY <1>0, <2>2, <4>3, <4>4
    <3>. QED BY <1>7, <1>8, <3>3, <3>4, <3>5, <3>6, <3>7 DEF ServedInv
  <2>. QED BY <2>1, <2>2
<1>11. DOMAIN s.live = D /\ LiveInv(s.live) /\ MemInv(s.mem, LockMap(s.live))
       /\ \A x \in D : s.live[x].output = lv0[x].output
  BY <1>8, <1>10 DEF ServedInv
<1>12. DOMAIN live' = D /\ live' = [r \in D |-> live'[r]]
  BY <1>4, <1>11
<1>13. ASSUME NEW r \in D
       PROVE  r \in Reqs /\ IsLive(live'[r]) /\ live'[r].lock = s.live[r].lock /\ OnPrompt(r, s.live[r].lock)
              /\ (r \in Range(b) => live'[r].output = <<tokens[r]>>)
              /\ (r \notin Range(b) => live'[r] = s.live[r])
  <2>1. r \in Reqs /\ IsLive(s.live[r]) /\ OnPrompt(r, s.live[r].lock)
    BY <1>11 DEF LiveInv
  <2>. QED BY <1>4, <1>11, <2>1 DEF IsLive
<1>14. LiveInv(live)'
  BY <1>12, <1>13 DEF LiveInv
<1>15. LockMap(live)' = LockMap(s.live)
  BY <1>11, <1>12, <1>13 DEF LockMap
<1>16. MemInv(mem, LockMap(live))'
  <2>1. MemInv(mem', LockMap(s.live))
    BY <1>4, <1>11
  <2>. QED BY <1>15, <2>1
<1>17. ASSUME NEW r \in D PROVE live'[r].output \in Seq(OutTokens)
  <2>1. CASE r \in Range(b)
    <3>1. tokens[r] \in OutTokens /\ live'[r].output = <<tokens[r]>>
      BY <1>13, <2>1
    <3>. QED BY <3>1
  <2>2. CASE r \notin Range(b)
    <3>1. r \in Live /\ lv0[r] = live[r]
      BY <1>2, <1>5, <2>2 DEF Live0
    <3>2. live'[r].output = live[r].output
      BY <1>11, <1>13, <2>2, <3>1
    <3>. QED BY <1>0, <3>1, <3>2
  <2>. QED BY <2>1, <2>2
<1>. QED BY <1>0, <1>1, <1>5, <1>10, <1>12, <1>13, <1>14, <1>16, <1>17 DEF LockInv, Live

\* An allocation for a decode may evict, and moves no lock.
LEMMA DecodeKeeps ==
  ASSUME LockInv, NEW b, Decode(b) PROVE LockInv'
<1>0. /\ MemInv(mem, LockMap(live)) /\ LiveInv(live) /\ Live \subseteq started
      /\ \A r \in Live : live[r].output \in Seq(OutTokens)
      /\ ~cached => \A r \in Live : live[r].lock = Root
  BY DEF LockInv, Decode
<1>1. PICK o \in AllocKV(mem, Len(b)) : mem' = o.mem
  BY DEF Decode
<1>2. PICK tokens \in [Live -> OutTokens] :
        live' = [r \in Live |-> [live[r] EXCEPT !.output = Append(@, tokens[r])]]
  BY DEF Decode
<1>3. cached' = cached /\ started' = started
  BY DEF Decode
<1>4. DOMAIN live' = Live /\ live' = [r \in Live |-> live'[r]]
  BY <1>2
<1>5. ASSUME NEW r \in Live
      PROVE  r \in Reqs /\ IsLive(live'[r]) /\ live'[r].lock = live[r].lock /\ OnPrompt(r, live[r].lock)
             /\ live'[r].output \in Seq(OutTokens)
  <2>1. r \in Reqs /\ IsLive(live[r]) /\ OnPrompt(r, live[r].lock)
    BY <1>0 DEF LiveInv, Live
  <2>2. PICK w : w = Append(live[r].output, tokens[r])
    OBVIOUS
  <2>3. live'[r] = [live[r] EXCEPT !.output = w]
    BY <1>2, <2>2
  <2>4. tokens[r] \in OutTokens /\ live[r].output \in Seq(OutTokens)
    BY <1>0
  <2>5. w \in Seq(OutTokens)
    BY <2>2, <2>4
  <2>. QED BY <2>1, <2>3, <2>5 DEF IsLive
<1>6. LiveInv(live)'
  BY <1>4, <1>5 DEF LiveInv
<1>7. LockMap(live)' = LockMap(live)
  BY <1>4, <1>5 DEF LockMap, Live
<1>8. MemInv(mem', LockMap(live))
  BY <1>0, <1>1, AllocKeeps
<1>9. MemInv(mem, LockMap(live))'
  BY <1>7, <1>8
<1>. QED BY <1>0, <1>3, <1>4, <1>5, <1>6, <1>9 DEF LockInv, Live

\* A request that ends hands its tokens to the tree and gives up its lock.
LEMMA FreeKeeps ==
  ASSUME LockInv, NEW r \in Live, Free(r) PROVE LockInv'
<1>0. /\ MemInv(mem, LockMap(live)) /\ LiveInv(live) /\ Live \subseteq started
      /\ \A p \in Live : live[p].output \in Seq(OutTokens)
      /\ ~cached => \A p \in Live : live[p].lock = Root
  BY DEF LockInv, Free
<1>1. live' = [p \in Live \ {r} |-> live[p]] /\ cached' = cached /\ started' = started
  BY DEF Free
<1>2. DOMAIN live' = Live \ {r} /\ \A p \in Live \ {r} : live'[p] = live[p]
  BY <1>1
<1>3. LiveInv(live)'
  <2>1. live' = [p \in DOMAIN live' |-> live'[p]]
    BY <1>1
  <2>. QED BY <1>0, <1>2, <2>1 DEF LiveInv, Live
<1>4. PICK M, L : M = LockMap(live) /\ L = LockMap(live')
  OBVIOUS
<1>5. IsHolding(M, L, r, live[r].lock)
  BY <1>2, <1>4 DEF IsHolding, LockMap, Live
<1>6. TreeInv(mem.tree, M) /\ MemInv(mem, M)
  BY <1>0, <1>4 DEF MemInv
<1>7. MemInv(mem', L)
  <2>1. CASE cached
    <3>1. PICK t, S : /\ t = insert(mem.tree, Full(r), rows[live[r].row])
                      /\ S = Duplicates(rows[live[r].row], live[r].protected, Len(Hit(mem.tree, Full(r))))
      OBVIOUS
    <3>2. mem' = GiveBack([mem EXCEPT !.tree = dec_lock_ref(t, live[r].lock)], S)
      BY <2>1, <3>1 DEF Free
    <3>3. Full(r) \in Paths /\ Full(r) # Root
      BY <1>0, FullPath DEF LiveInv, Live
    <3>4. TreeInv(t, M)
      BY <1>6, <3>1, <3>3, InsertKeeps
    <3>5. TreeInv(dec_lock_ref(t, live[r].lock), L)
      BY <1>5, <3>4, DecKeeps
    <3>6. MemInv([mem EXCEPT !.tree = dec_lock_ref(t, live[r].lock)], L)
      BY <1>6, <3>5, WithTreeKeeps
    <3>. QED BY <3>2, <3>6, GiveBackKeeps
  <2>2. CASE ~cached
    <3>1. mem' = GiveBack(mem, Duplicates(rows[live[r].row], 0, Len(Full(r))))
      BY <2>2 DEF Free
    <3>2. IsHolding(M, L, r, Root)
      BY <1>0, <1>5, <2>2
    <3>3. TreeInv(mem.tree, L)
      BY <1>6, <3>2, RootKeeps
    <3>4. MemInv(mem, L)
      BY <1>6, <3>3 DEF MemInv
    <3>. QED BY <3>1, <3>4, GiveBackKeeps
  <2>. QED BY <2>1, <2>2
<1>8. MemInv(mem, LockMap(live))'
  BY <1>4, <1>7
<1>. QED BY <1>0, <1>1, <1>2, <1>3, <1>8 DEF LockInv, Live

\* Nothing is locked at the start.
LEMMA StartsUnlocked == Init => LockInv
<1>. SUFFICES ASSUME Init PROVE LockInv
  OBVIOUS
<1>1. Live = {} /\ DOMAIN live = {} /\ live = [r \in {} |-> 0]
  BY DEF Init, Live
<1>2. PICK t : t = mem.tree
  OBVIOUS
<1>3. PICK e : e = [p \in {} |-> 0]
  OBVIOUS
<1>4. t = [kv |-> e, lock |-> e, evictable |-> 0, protected |-> 0]
  BY <1>2, <1>3 DEF Init, EmptyTree
<1>5. DOMAIN t.kv = {} /\ Nodes(t) = {} /\ t.lock = e /\ t.protected = 0 /\ DOMAIN e = {}
  BY <1>3, <1>4 DEF Nodes
<1>6. IsTree(t)
  <2>1. IsFiniteSet(Nodes(t))
    BY <1>5, FS_EmptySet
  <2>2. t.lock \in [Nodes(t) -> Nat]
    BY <1>3, <1>5
  <2>. QED BY <1>4, <1>5, <2>1, <2>2 DEF IsTree
<1>7. Shape(t)
  BY <1>5, <1>6 DEF Shape, Closed, Covered, PartAtNodes
<1>8. Held(t, LockMap(live))
  <2>1. DOMAIN LockMap(live) = {}
    BY <1>1 DEF LockMap
  <2>. QED BY <1>5, <2>1, FS_EmptySet DEF Held
<1>9. Charged(t)
  <2>1. Locked(t) = {}
    BY <1>5 DEF Locked
  <2>. QED BY <1>5, <2>1, TokensEmpty DEF Charged
<1>10. MemInv(mem, LockMap(live))
  <2>1. mem = [tree |-> mem.tree, free |-> mem.free, release |-> mem.release]
    BY DEF Init
  <2>2. Typed(t)
    BY <1>3, <1>4 DEF Typed
  <2>. QED BY <1>2, <1>7, <1>8, <1>9, <2>1, <2>2 DEF MemInv, TreeInv
<1>11. LiveInv(live)
  BY <1>1 DEF LiveInv
<1>. QED BY <1>1, <1>10, <1>11 DEF LockInv

\* The locks are right in every state: each call of the scheduler keeps them so, and
\* an allocation that raises ends the process.
LEMMA LockInvariant == Spec => []LockInv
<1>1. Init => LockInv
  BY StartsUnlocked
<1>2. LockInv /\ [Next]_vars => LockInv'
  <2>. SUFFICES ASSUME LockInv, [Next]_vars PROVE LockInv'
    OBVIOUS
  <2>1. CASE \E b \in Batches : Extend(b)
    BY <2>1, ExtendKeeps
  <2>2. CASE \E b \in {SetToSeq(Live)} : Decode(b)
    BY <2>2, DecodeKeeps
  <2>3. CASE \E b \in Batches \cup {SetToSeq(Live)} : Raises(b)
    BY <2>3 DEF Raises, LockInv
  <2>4. CASE \E r \in Live : Free(r)
    BY <2>4, FreeKeeps
  <2>5. CASE UNCHANGED vars
    BY <2>5, Zenon DEF vars, LockInv, Live, LiveInv, MemInv, LockMap, TreeInv
  <2>. QED BY <2>1, <2>2, <2>3, <2>4, <2>5 DEF Next
<1>. QED BY <1>1, <1>2, PTL DEF Spec

\* Every node of the radix cache is locked exactly once for each live request that
\* reads through it, and the node a request holds is in the tree: no lock is lost or
\* kept by splits, by duplicate prompts of one batch, by the move of a lock after the
\* prompt was inserted, by eviction or by a release at any time
\* (inc_lock_ref, dec_lock_ref, _split_node, evict and their callers).
THEOREM LocksAlwaysCounted == Spec => []LocksCounted
<1>1. LockInv => LocksCounted
  <2>. SUFFICES ASSUME LockInv, status = "up"
       PROVE  /\ \A r \in Live : live[r].lock \in Nodes(mem.tree) \cup {NoLock}
              /\ \A n \in Nodes(mem.tree) :
                   mem.tree.lock[n] = Cardinality({r \in Live : n \in Along(live[r].lock)})
    BY DEF LocksCounted
  <2>1. Held(mem.tree, LockMap(live))
    BY DEF LockInv, MemInv, TreeInv
  <2>2. DOMAIN LockMap(live) = Live /\ \A r \in Live : LockMap(live)[r] = live[r].lock
    BY DEF LockMap, Live
  <2>3. \A n : Readers(LockMap(live), n) = {r \in Live : n \in Along(live[r].lock)}
    BY <2>2 DEF Readers
  <2>. QED BY <2>1, <2>2, <2>3 DEF Held, NoLock
<1>. QED BY <1>1, LockInvariant, PTL

\* protected_size() of the radix cache is at all times the number of tokens of the
\* locked nodes: what inc_lock_ref and dec_lock_ref add and take off agrees although
\* nodes are split in between and a prompt reuses only a part of what it locks.
THEOREM ProtectedAlwaysExact == Spec => []ProtectedExact
<1>1. LockInv => ProtectedExact
  BY DEF LockInv, MemInv, TreeInv, Charged, Locked, ProtectedExact
<1>. QED BY <1>1, LockInvariant, PTL
-----------------------------------------------------------------------------
\* Who has which KV slot.

\* The two lists of the pool.
Lists(m) ==
  m.free \subseteq Slots /\ m.release \subseteq Slots /\ m.free \cap m.release = {}

\* What the pool can still give out.
FreeOf(m) == m.free \cup m.release

\* Every slot is in F, cached for one path or own to one request; what is cached for
\* a path is no slot, or one with the KV data c of that path.
Owned(F, kv, own, c) ==
  /\ F \subseteq Slots
  /\ \A p \in DOMAIN kv : kv[p] = 0 \/ (kv[p] \in Slots \ F /\ c[kv[p]] = p)
  /\ \A r \in DOMAIN own : own[r] \subseteq Slots \ F
  /\ \A r \in DOMAIN own : \A p \in DOMAIN kv : kv[p] \notin own[r]
  /\ \A r, q \in DOMAIN own : r # q => own[r] \cap own[q] = {}
  /\ \A j \in Slots : \/ j \in F
                      \/ \E p \in DOMAIN kv : kv[p] = j
                      \/ \E r \in DOMAIN own : j \in own[r]

\* Paths of the prompts of R are cached with their slots.
NoneMissing(kv, R) == \A r \in R : \A p \in Along(Prompt[r]) \cap DOMAIN kv : kv[p] # 0

\* The row of a request q with w positions written, for the tokens of text.
RowInv(row, q, text, w, kv, c) ==
  /\ w \in Nat /\ w <= MaxLen /\ q.protected \in Nat /\ q.protected <= w
  /\ \A k \in 1..w : row[k] \in Slots /\ c[row[k]] = SubSeq(text, 1, k)
  /\ \A k \in 1..q.protected :
       SubSeq(text, 1, k) \in Along(q.lock) /\ row[k] = kv[SubSeq(text, 1, k)]

\* The slots that only the request q reads.
Private(row, q, w) == {row[k] : k \in (q.protected + 1)..w}

\* These, for all live requests; w has the positions written.
OwnMap(s, w) == [r \in DOMAIN s.live |-> Private(s.rows[s.live[r].row], s.live[r], w[r])]

\* The table of rows holds slots, and the padding slot 0.
RowsTyped(table) == \A n \in 1..NumRows : \A k \in 1..MaxLen : table[n][k] \in 0..PoolSize

\* s is [mem, rows, live], as in InsertPrompt(). What a row holds past the positions
\* written, an earlier request may have left there.
Kept(s, text, w, c) ==
  /\ Lists(s.mem) /\ Owned(FreeOf(s.mem), s.mem.tree.kv, OwnMap(s, w), c)
  /\ NoneMissing(s.mem.tree.kv, DOMAIN s.live)
  /\ s.rows = [n \in 1..NumRows |-> [k \in 1..MaxLen |-> s.rows[n][k]]]
  /\ RowsTyped(s.rows)
  /\ \A r \in DOMAIN s.live :
       /\ s.live[r].row \in 1..NumRows
       /\ RowInv(s.rows[s.live[r].row], s.live[r], text[r], w[r], s.mem.tree.kv, c)
  /\ \A r, q \in DOMAIN s.live : r # q => s.live[r].row # s.live[q].row

\* The state as in InsertPrompt(), the tokens of each request and its positions written.
Now == [mem |-> mem, rows |-> rows, live |-> live]
Texts == [r \in Live |-> Full(r)]
Lengths == [r \in Live |-> Len(Full(r)) - 1]

\* The rows in the list f are no request's, and each is there once.
Spare(f, lv) ==
  /\ f \in Seq(1..NumRows)
  /\ \A i, j \in 1..Len(f) : f[i] = f[j] => i = j
  /\ \A i \in 1..Len(f) : \A r \in DOMAIN lv : f[i] # lv[r].row

\* With a prefix cache, every live request holds its whole prompt.
HoldsPrompt(lv) == cached => \A r \in DOMAIN lv : lv[r].lock = Prompt[r]

\* While the process is up the slots, rows and requests fit together.
SlotInv ==
  status = "up" =>
  /\ Kept(Now, Texts, Lengths, content) /\ Spare(free_rows, live) /\ HoldsPrompt(live)
  /\ started \subseteq Reqs
  /\ content = [j \in Slots |-> content[j]]
  /\ \A r \in Live : live[r].output # <<>> /\ Len(live[r].output) <= MaxOutput

\* The n lowest elements of a set are n elements of it.
LEMMA LowestIs ==
  ASSUME NEW S \in SUBSET Nat, IsFiniteSet(S), NEW n \in Nat, n <= Cardinality(S)
  PROVE  /\ DOMAIN Lowest(S, n) = 1..n
         /\ \A i \in 1..n : Lowest(S, n)[i] \in S
         /\ \A i, j \in 1..n : Lowest(S, n)[i] = Lowest(S, n)[j] => i = j
<1>. DEFINE Rank(x) == Cardinality({k \in S : k < x})
<1>1. ASSUME NEW i \in 1..n PROVE \E x \in S : Rank(x) = i - 1
  <2>1. i - 1 \in Nat /\ i - 1 < Cardinality(S) /\ Cardinality(S) \in Nat
    BY FS_CardinalityType
  <2>2. PICK P \in SUBSET S : /\ Cardinality(P) = i - 1
                             /\ \A p \in P, q \in S \ P : p < q
    BY <2>1, FirstPart
  <2>3. S \ P # {}
    <3>1. Cardinality(P) # Cardinality(S)
      BY <2>1, <2>2
    <3>2. P # S
      BY <3>1
    <3>. QED BY <3>2
  <2>4. PICK x \in S \ P : \A q \in S \ P : x <= q
    BY <2>3, NatLeast
  <2>5. {k \in S : k < x} = P
    <3>1. ASSUME NEW k \in S PROVE k < x <=> k \in P
      <4>1. k \in Nat /\ x \in Nat
        OBVIOUS
      <4>2. k \notin P => x <= k
        BY <2>4
      <4>3. k \in P => k < x
        BY <2>2, <2>4
      <4>. QED BY <4>1, <4>2, <4>3
    <3>. QED BY <3>1
  <2>. QED BY <2>2, <2>4, <2>5
<1>2. ASSUME NEW i \in 1..n PROVE Lowest(S, n)[i] \in S /\ Rank(Lowest(S, n)[i]) = i - 1
  <2>1. Lowest(S, n)[i] = CHOOSE x \in S : Rank(x) = i - 1
    BY DEF Lowest
  <2>. HIDE DEF Rank
  <2>. QED BY <1>1, <2>1
<1>3. DOMAIN Lowest(S, n) = 1..n
  BY DEF Lowest
<1>4. ASSUME NEW i \in 1..n, NEW j \in 1..n, Lowest(S, n)[i] = Lowest(S, n)[j] PROVE i = j
  <2>1. i - 1 = j - 1
    <3>. HIDE DEF Rank
    <3>. QED BY <1>2, <1>4
  <2>. QED BY <2>1
<1>. QED BY <1>2, <1>3, <1>4

\* The set of slots is finite, and the padding slot is none of them.
LEMMA SlotsFinite == IsFiniteSet(Slots) /\ Slots \subseteq Nat /\ 0 \notin Slots
BY PoolAssumption, FS_Interval DEF Slots

\* What alloc() hands out was free and is so no more.
LEMMA TakeOwns ==
  ASSUME NEW m, Lists(m), NEW n \in Nat, NEW o, o = Take(m, n)
  PROVE  /\ Lists(o.mem) /\ o.mem.tree = m.tree
         /\ FreeOf(o.mem) \cup Range(o.got) = FreeOf(m) /\ FreeOf(o.mem) \cap Range(o.got) = {}
         /\ o.ok => /\ DOMAIN o.got = 1..n
                    /\ \A i, j \in 1..n : o.got[i] = o.got[j] => i = j
         /\ ~o.ok => Range(o.got) = {}
<1>1. PICK source, rest, got :
        /\ o = [ok |-> n <= Cardinality(source), got |-> got,
                mem |-> [tree |-> m.tree, free |-> source \ Range(got), release |-> rest]]
        /\ source \cup rest = FreeOf(m) /\ source \cap rest = {}
        /\ got = IF n > Cardinality(source) THEN <<>> ELSE Lowest(source, n)
  <2>1. CASE n > Cardinality(m.free)
    <3>1. o = [ok |-> n <= Cardinality(m.free \cup m.release),
               got |-> IF n > Cardinality(m.free \cup m.release) THEN <<>> ELSE Lowest(m.free \cup m.release, n),
               mem |-> [tree |-> m.tree,
                        free |-> (m.free \cup m.release) \ Range(IF n > Cardinality(m.free \cup m.release) THEN <<>> ELSE Lowest(m.free \cup m.release, n)),
                        release |-> {}]]
      BY <2>1 DEF Take
    <3>2. PICK s : s = m.free \cup m.release
      OBVIOUS
    <3>3. PICK g : g = IF n > Cardinality(s) THEN <<>> ELSE Lowest(s, n)
      OBVIOUS
    <3>4. o = [ok |-> n <= Cardinality(s), got |-> g,
               mem |-> [tree |-> m.tree, free |-> s \ Range(g), release |-> {}]]
      BY <3>1, <3>2, <3>3
    <3>5. s \cup {} = FreeOf(m) /\ s \cap {} = {}
      BY <3>2 DEF FreeOf
    <3>. QED BY <3>3, <3>4, <3>5
  <2>2. CASE ~(n > Cardinality(m.free))
    <3>1. PICK g : g = IF n > Cardinality(m.free) THEN <<>> ELSE Lowest(m.free, n)
      OBVIOUS
    <3>2. o = [ok |-> n <= Cardinality(m.free), got |-> g,
               mem |-> [tree |-> m.tree, free |-> m.free \ Range(g), release |-> m.release]]
      BY <2>2, <3>1 DEF Take
    <3>. QED BY <3>1, <3>2 DEF FreeOf, Lists
  <2>. QED BY <2>1, <2>2
<1>2. source \subseteq Slots /\ rest \subseteq Slots
  BY <1>1 DEF Lists, FreeOf
<1>3. source \in SUBSET Nat /\ IsFiniteSet(source) /\ Cardinality(source) \in Nat
  BY <1>2, SlotsFinite, FS_Subset, FS_CardinalityType
<1>4. Range(got) \subseteq source
      /\ (n <= Cardinality(source) => /\ DOMAIN got = 1..n
                                      /\ \A i, j \in 1..n : got[i] = got[j] => i = j)
      /\ (~(n <= Cardinality(source)) => Range(got) = {})
  <2>1. CASE n <= Cardinality(source)
    <3>1. got = Lowest(source, n)
      BY <1>1, <1>3, <2>1
    <3>2. /\ DOMAIN got = 1..n /\ \A i \in 1..n : got[i] \in source
          /\ \A i, j \in 1..n : got[i] = got[j] => i = j
      BY <1>3, <2>1, <3>1, LowestIs
    <3>. QED BY <2>1, <3>2 DEF Range
  <2>2. CASE ~(n <= Cardinality(source))
    <3>1. got = <<>>
      BY <1>1, <1>3, <2>2
    <3>2. DOMAIN got = {}
      BY <3>1
    <3>. QED BY <2>2, <3>2 DEF Range
  <2>. QED BY <2>1, <2>2
<1>5. /\ o.ok = (n <= Cardinality(source)) /\ o.got = got /\ o.mem.tree = m.tree
      /\ o.mem.free = source \ Range(got) /\ o.mem.release = rest
  BY <1>1
<1>6. Lists(o.mem)
  BY <1>1, <1>2, <1>5 DEF Lists
<1>7. FreeOf(o.mem) \cup Range(o.got) = FreeOf(m) /\ FreeOf(o.mem) \cap Range(o.got) = {}
  BY <1>1, <1>4, <1>5 DEF FreeOf
<1>. QED BY <1>4, <1>5, <1>6, <1>7

\* free() takes the slots among what it is given.
LEMMA GiveBackOwns ==
  ASSUME NEW m, NEW L, MemInv(m, L), Lists(m), NEW S, NEW o, o = GiveBack(m, S)
  PROVE  Lists(o) /\ FreeOf(o) = FreeOf(m) \cup (S \cap Slots) /\ o.tree = m.tree
<1>1. PICK t, f, e : m = [tree |-> t, free |-> f, release |-> e]
  BY DEF MemInv
<1>2. PICK g : g = e \cup ((S \cap Slots) \ f)
  OBVIOUS
<1>3. o = [tree |-> t, free |-> f, release |-> g]
  BY <1>1, <1>2 DEF GiveBack
<1>. QED BY <1>1, <1>2, <1>3 DEF Lists, FreeOf

\* k2 is a part of k1.
PartOf(k2, k1) == DOMAIN k2 \subseteq DOMAIN k1 /\ \A p \in DOMAIN k2 : k2[p] = k1[p]

\* Paths that leave the tree leave their slots, of which nobody else has one.
LEMMA OwnedLess ==
  ASSUME NEW F, NEW kv, NEW own, NEW c, Owned(F, kv, own, c),
         NEW D, D \subseteq DOMAIN kv, NEW k2, k2 = [p \in DOMAIN kv \ D |-> kv[p]],
         NEW S, S = {kv[p] : p \in D}
  PROVE  Owned(F \cup (S \cap Slots), k2, own, c) /\ PartOf(k2, kv)
<1>1. PartOf(k2, kv) /\ DOMAIN k2 = DOMAIN kv \ D
  BY DEF PartOf
<1>2. F \cup (S \cap Slots) \subseteq Slots
  BY DEF Owned
<1>3. ASSUME NEW p \in DOMAIN k2, k2[p] # 0
      PROVE  k2[p] \in Slots \ (F \cup (S \cap Slots)) /\ c[k2[p]] = p
  <2>1. k2[p] = kv[p] /\ p \in DOMAIN kv \ D
    BY <1>1 DEF PartOf
  <2>2. kv[p] \in Slots \ F /\ c[kv[p]] = p
    BY <1>3, <2>1 DEF Owned
  <2>3. ASSUME NEW q \in D, kv[q] = kv[p] PROVE FALSE
    <3>1. c[kv[q]] = q
      BY <2>3, <1>3, <2>1 DEF Owned
    <3>. QED BY <2>1, <2>2, <2>3, <3>1
  <2>. QED BY <2>1, <2>2, <2>3
<1>4. ASSUME NEW r \in DOMAIN own
      PROVE  own[r] \subseteq Slots \ (F \cup (S \cap Slots)) /\ \A p \in DOMAIN k2 : k2[p] \notin own[r]
  <2>1. own[r] \subseteq Slots \ F /\ \A p \in DOMAIN kv : kv[p] \notin own[r]
    BY DEF Owned
  <2>2. S \cap own[r] = {}
    BY <2>1
  <2>. QED BY <1>1, <2>1, <2>2 DEF PartOf
<1>5. ASSUME NEW j \in Slots
      PROVE  \/ j \in F \cup (S \cap Slots)
             \/ \E p \in DOMAIN k2 : k2[p] = j
             \/ \E r \in DOMAIN own : j \in own[r]
  <2>1. CASE \E p \in DOMAIN kv : kv[p] = j
    <3>1. PICK p \in DOMAIN kv : kv[p] = j
      BY <2>1
    <3>2. CASE p \in D
      BY <3>1, <3>2
    <3>3. CASE p \notin D
      <4>1. p \in DOMAIN k2
        BY <1>1, <3>3
      <4>2. k2[p] = j
        BY <1>1, <3>1, <4>1 DEF PartOf
      <4>. QED BY <4>1, <4>2
    <3>. QED BY <3>2, <3>3
  <2>2. CASE ~(\E p \in DOMAIN kv : kv[p] = j)
    BY <2>2 DEF Owned
  <2>. QED BY <2>1, <2>2
<1>6. \A r, q \in DOMAIN own : r # q => own[r] \cap own[q] = {}
  BY DEF Owned
<1>. QED BY <1>1, <1>2, <1>3, <1>4, <1>5, <1>6 DEF Owned

\* evict() frees the slots of what it deletes.
LEMMA EvictOwns ==
  ASSUME NEW m, NEW L, MemInv(m, L), Lists(m), NEW own, NEW c,
         Owned(FreeOf(m), m.tree.kv, own, c), NEW target, NEW o \in evict(m, target)
  PROVE  Lists(o) /\ Owned(FreeOf(o), o.tree.kv, own, c) /\ PartOf(o.tree.kv, m.tree.kv)
<1>1. PICK E \in Evictable(m.tree, target) :
        o = GiveBack([m EXCEPT !.tree = WithoutNodes(m.tree, E)],
                     {m.tree.kv[p] : p \in Gone(m.tree, E)})
  BY DEF evict
<1>2. TreeInv(m.tree, L) /\ IsTree(m.tree) /\ Shape(m.tree)
  BY DEF MemInv, TreeInv, Shape
<1>3. TreeInv(WithoutNodes(m.tree, E), L)
  BY <1>2, EvictableLeaves, EvictKeeps
<1>4. PICK n : n = [m EXCEPT !.tree = WithoutNodes(m.tree, E)]
  OBVIOUS
<1>5. MemInv(n, L)
  BY <1>3, <1>4, WithTreeKeeps
<1>6. n.tree = WithoutNodes(m.tree, E) /\ n.free = m.free /\ n.release = m.release
  <2>1. PICK k, f, e : m = [tree |-> k, free |-> f, release |-> e]
    BY DEF MemInv
  <2>. QED BY <1>4, <2>1
<1>7. Lists(n) /\ FreeOf(n) = FreeOf(m)
  BY <1>6 DEF Lists, FreeOf
<1>8. PICK S : S = {m.tree.kv[p] : p \in Gone(m.tree, E)}
  OBVIOUS
<1>9. Lists(o) /\ FreeOf(o) = FreeOf(m) \cup (S \cap Slots) /\ o.tree = WithoutNodes(m.tree, E)
  <2>1. o = GiveBack(n, S)
    BY <1>1, <1>4, <1>8
  <2>2. Lists(o) /\ FreeOf(o) = FreeOf(n) \cup (S \cap Slots) /\ o.tree = n.tree
    BY <1>5, <1>7, <2>1, GiveBackOwns
  <2>. QED BY <1>6, <1>7, <2>2
<1>10. Gone(m.tree, E) \subseteq DOMAIN m.tree.kv
  <2>1. E \subseteq Nodes(m.tree)
    BY <1>2, EvictableLeaves DEF MayLeave
  <2>. QED BY <1>2, <2>1 DEF Gone, Shape, IsTree, Closed
<1>11. o.tree.kv = [p \in DOMAIN m.tree.kv \ Gone(m.tree, E) |-> m.tree.kv[p]]
  BY <1>9 DEF WithoutNodes
<1>12. PICK F, kv, D, k2 : /\ F = FreeOf(m) /\ kv = m.tree.kv /\ D = Gone(m.tree, E) /\ k2 = o.tree.kv
  OBVIOUS
<1>13. D \subseteq DOMAIN kv /\ k2 = [p \in DOMAIN kv \ D |-> kv[p]] /\ S = {kv[p] : p \in D}
  BY <1>8, <1>10, <1>11, <1>12
<1>14. Owned(F, kv, own, c)
  BY <1>12
<1>15. Owned(F \cup (S \cap Slots), k2, own, c) /\ PartOf(k2, kv)
  BY <1>13, <1>14, OwnedLess
<1>. QED BY <1>9, <1>12, <1>15

\* n different values.
Distinct(got, n) == DOMAIN got = 1..n /\ \A x, y \in 1..n : got[x] = got[y] => x = y

\* An outcome x of an allocation of n slots in m.
Handed(x, m, n, L, own, c) ==
  /\ Lists(x.mem) /\ MemInv(x.mem, L) /\ PartOf(x.mem.tree.kv, m.tree.kv)
  /\ Owned(FreeOf(x.mem) \cup Range(x.got), x.mem.tree.kv, own, c)
  /\ FreeOf(x.mem) \cap Range(x.got) = {}
  /\ x.ok => Distinct(x.got, n)
  /\ ~x.ok => Range(x.got) = {}

\* What Take() gives, also after evictions.
LEMMA TakeHands ==
  ASSUME NEW e, NEW m, NEW n \in Nat, NEW L, NEW own, NEW c,
         MemInv(e, L), Lists(e), Owned(FreeOf(e), e.tree.kv, own, c), PartOf(e.tree.kv, m.tree.kv)
  PROVE  Handed(Take(e, n), m, n, L, own, c)
<1>1. PICK o : o = Take(e, n)
  OBVIOUS
<1>2. /\ Lists(o.mem) /\ o.mem.tree = e.tree
      /\ FreeOf(o.mem) \cup Range(o.got) = FreeOf(e) /\ FreeOf(o.mem) \cap Range(o.got) = {}
      /\ o.ok => Distinct(o.got, n)
      /\ ~o.ok => Range(o.got) = {}
  <2>1. /\ Lists(o.mem) /\ o.mem.tree = e.tree
        /\ FreeOf(o.mem) \cup Range(o.got) = FreeOf(e) /\ FreeOf(o.mem) \cap Range(o.got) = {}
    BY <1>1, TakeOwns, Zenon
  <2>2. o.ok => DOMAIN o.got = 1..n
    BY <1>1, TakeOwns, Zenon
  <2>3. o.ok => \A i, j \in 1..n : o.got[i] = o.got[j] => i = j
    BY <1>1, TakeOwns, ZenonT(30)
  <2>4. ~o.ok => Range(o.got) = {}
    BY <1>1, TakeOwns, Zenon
  <2>. QED BY <2>1, <2>2, <2>3, <2>4 DEF Distinct
<1>3. MemInv(o.mem, L)
  BY <1>1, TakeKeeps
<1>. QED BY <1>1, <1>2, <1>3 DEF Handed

\* All attempts of an allocation, also those after an eviction, hand out free slots.
LEMMA AllocHands ==
  ASSUME NEW m, NEW L, MemInv(m, L), Lists(m), NEW own, NEW c,
         Owned(FreeOf(m), m.tree.kv, own, c), NEW n \in Nat, NEW o \in AllocKV(m, n)
  PROVE  Handed(o, m, n, L, own, c)
<1>1. ASSUME NEW S, \A x \in S : Handed(x, m, n, L, own, c)
      PROVE  \A x \in NextTry(S, n) : Handed(x, m, n, L, own, c)
  <2>1. SUFFICES ASSUME NEW x \in NextTry(S, n) PROVE Handed(x, m, n, L, own, c)
    OBVIOUS
  <2>2. PICK y \in S : x = y \/ (~y.ok /\ \E e \in evict(y.mem, EvictTarget(n)) : x = Take(e, n))
    BY DEF NextTry
  <2>3. CASE x = y
    BY <1>1, <2>3
  <2>4. CASE ~y.ok /\ \E e \in evict(y.mem, EvictTarget(n)) : x = Take(e, n)
    <3>1. PICK e \in evict(y.mem, EvictTarget(n)) : x = Take(e, n)
      BY <2>4
    <3>2. Handed(y, m, n, L, own, c)
      BY <1>1
    <3>3. /\ MemInv(y.mem, L) /\ Lists(y.mem) /\ Owned(FreeOf(y.mem), y.mem.tree.kv, own, c)
          /\ PartOf(y.mem.tree.kv, m.tree.kv)
      <4>1. FreeOf(y.mem) \cup Range(y.got) = FreeOf(y.mem)
        BY <2>4, <3>2 DEF Handed
      <4>. QED BY <3>2, <4>1 DEF Handed
    <3>4. MemInv(e, L)
      BY <3>3, EvictMemKeeps
    <3>5. Lists(e) /\ Owned(FreeOf(e), e.tree.kv, own, c) /\ PartOf(e.tree.kv, y.mem.tree.kv)
      BY <3>3, EvictOwns
    <3>6. PartOf(e.tree.kv, m.tree.kv)
      BY <3>3, <3>5 DEF PartOf
    <3>. QED BY <3>1, <3>4, <3>5, <3>6, TakeHands
  <2>. QED BY <2>2, <2>3, <2>4
<1>2. PICK a, b, d, e : a = {Take(m, n)} /\ b = NextTry(a, n) /\ d = NextTry(b, n) /\ e = NextTry(d, n)
  OBVIOUS
<1>3. \A x \in a : Handed(x, m, n, L, own, c)
  <2>1. PartOf(m.tree.kv, m.tree.kv)
    BY DEF PartOf
  <2>. QED BY <1>2, <2>1, TakeHands
<1>4. \A x \in b : Handed(x, m, n, L, own, c)
  BY <1>1, <1>2, <1>3
<1>5. \A x \in d : Handed(x, m, n, L, own, c)
  BY <1>1, <1>2, <1>4
<1>6. \A x \in e : Handed(x, m, n, L, own, c)
  BY <1>1, <1>2, <1>5
<1>7. o \in e
  BY <1>2, AllocIs
<1>. QED BY <1>6, <1>7

\* kv2 is kv and the rest of key, with the slots of row; the first h tokens were there.
IsInserted(kv2, kv, key, row, h) ==
  /\ DOMAIN kv2 = DOMAIN kv \cup Along(key)
  /\ \A q \in DOMAIN kv : kv2[q] = kv[q]
  /\ \A q \in Along(key) : q \in DOMAIN kv <=> Len(q) <= h
  /\ \A q \in Along(key) : Len(q) > h => kv2[q] = row[Len(q)]

\* What insert() does to the indices.
LEMMA InsertIs ==
  ASSUME NEW t, NEW L, TreeInv(t, L), NEW key \in Paths, key # Root, NEW row
  PROVE  /\ IsInserted(insert(t, key, row).kv, t.kv, key, row, Len(Hit(t, key)))
         /\ Len(Hit(t, key)) \in 0..Len(key)
<1>1. PICK p : p = Hit(t, key)
  OBVIOUS
<1>2. /\ p \in Paths
      /\ p = Root \/ (p \in DOMAIN t.kv /\ p \in Along(key))
      /\ \A q \in DOMAIN t.kv : q \in Along(key) => q \in Along(p)
  BY <1>1, HitIs
<1>3. Split(t, p).kv = t.kv
  BY <1>2, SplitKeeps
<1>4. Shape(t) /\ Closed(t)
  BY DEF TreeInv, Shape
<1>5. Along(p) \subseteq DOMAIN t.kv /\ Along(p) \subseteq Along(key)
  BY <1>2, <1>4, AlongRoot, AlongTrans DEF Closed
<1>6. Len(p) \in 0..Len(key) /\ Len(key) \in Nat
  <2>1. Len(key) \in Nat
    BY PrefixAt
  <2>2. CASE p = Root
    BY <2>1, <2>2 DEF Root
  <2>3. CASE p \in Along(key)
    BY <2>1, <2>3, PrefixAt
  <2>. QED BY <1>2, <2>2, <2>3
<1>7. ASSUME NEW q \in Along(key) PROVE (q \in DOMAIN t.kv <=> Len(q) <= Len(p)) /\ (q \in Along(p) <=> Len(q) <= Len(p))
  <2>1. Len(q) \in 1..Len(key)
    BY PrefixAt
  <2>2. q \in Along(p) => Len(q) <= Len(p)
    BY <1>2, AlongType
  <2>3. Len(q) <= Len(p) => q \in Along(p)
    <3>1. CASE p = Root
      BY <2>1, <3>1 DEF Root
    <3>2. CASE p \in Along(key)
      BY <3>2, AlongChain
    <3>. QED BY <1>2, <3>1, <3>2
  <2>. QED BY <1>2, <1>5, <2>2, <2>3
<1>8. CASE p = key
  <2>1. insert(t, key, row).kv = t.kv
    BY <1>1, <1>3, <1>8 DEF insert
  <2>2. DOMAIN t.kv = DOMAIN t.kv \cup Along(key)
    BY <1>5, <1>8
  <2>3. \A q \in Along(key) : ~(Len(q) > Len(p))
    BY <1>6, <1>8, PrefixAt
  <2>. QED BY <1>1, <1>6, <1>7, <2>1, <2>2, <2>3 DEF IsInserted
<1>9. CASE p # key
  <2>1. insert(t, key, row).kv =
          [q \in DOMAIN t.kv \cup (Along(key) \ Along(p)) |->
             IF q \in Along(key) \ Along(p) THEN row[Len(q)] ELSE t.kv[q]]
    BY <1>1, <1>3, <1>9 DEF insert
  <2>2. DOMAIN t.kv \cup (Along(key) \ Along(p)) = DOMAIN t.kv \cup Along(key)
    BY <1>5
  <2>3. \A q \in DOMAIN t.kv : q \notin Along(key) \ Along(p)
    BY <1>2
  <2>4. \A q \in Along(key) : Len(q) > Len(p) => q \in Along(key) \ Along(p)
    <3>1. ASSUME NEW q \in Along(key), Len(q) > Len(p) PROVE q \notin Along(p)
      <4>1. Len(q) \in Nat /\ Len(p) \in Nat
        BY <1>6, PrefixAt
      <4>. QED BY <1>7, <3>1, <4>1
    <3>. QED BY <3>1
  <2>. QED BY <1>1, <1>6, <1>7, <2>1, <2>2, <2>3, <2>4 DEF IsInserted
<1>. QED BY <1>8, <1>9

\* Request r owns the slots of positions a + 1 to w of its row, computed from key, which
\* may be one token longer; the tree has h tokens of key.
HandsOver(own, r, key, row, a, w, h, c) ==
  /\ a \in Nat /\ w \in Nat /\ h \in Nat /\ a <= w /\ a <= h
  /\ w <= Len(key) /\ Len(key) <= w + 1 /\ h <= Len(key)
  /\ own[r] = {row[k] : k \in (a + 1)..w}
  /\ \A k \in 1..w : row[k] \in Slots /\ c[row[k]] = SubSeq(key, 1, k)
  /\ Len(key) = w + 1 => row[w + 1] = 0

\* own2 is own, with nothing for r.
LacksOf(own2, own, r) ==
  /\ DOMAIN own2 \subseteq DOMAIN own /\ DOMAIN own \ {r} \subseteq DOMAIN own2
  /\ \A x \in DOMAIN own2 : own2[x] = IF x = r THEN {} ELSE own[x]

\* A request hands its row to the tree, which takes what it lacks; the rest goes back to
\* the pool.
LEMMA OwnedInsert ==
  ASSUME NEW F, NEW kv, NEW own, NEW c, Owned(F, kv, own, c),
         NEW key \in Paths, NEW row, NEW a, NEW w, NEW h, NEW r \in DOMAIN own,
         HandsOver(own, r, key, row, a, w, h, c),
         NEW kv2, IsInserted(kv2, kv, key, row, h), NEW own2, LacksOf(own2, own, r),
         NEW S, S = Duplicates(row, a, h)
  PROVE  Owned(F \cup (S \cap Slots), kv2, own2, c)
<1>. USE DEF HandsOver, LacksOf, Duplicates
<1>0. Len(key) \in Nat /\ 0 \notin Slots
  BY PrefixAt, SlotsFinite
<1>1. ASSUME NEW k \in 1..Len(key), k > a
      PROVE  IF k <= w THEN row[k] \in own[r] /\ row[k] \in Slots ELSE row[k] = 0
  <2>1. k <= w \/ k = w + 1
    BY <1>0
  <2>2. CASE k <= w
    BY <1>1, <2>2
  <2>3. CASE k = w + 1
    <3>1. Len(key) = w + 1
      BY <1>0, <2>3
    <3>. QED BY <2>3, <3>1
  <2>. QED BY <2>1, <2>2, <2>3
<1>2. S \cap Slots \subseteq own[r]
  <2>1. SUFFICES ASSUME NEW k \in (a + 1)..h, row[k] \in Slots PROVE row[k] \in own[r]
    OBVIOUS
  <2>2. k \in 1..Len(key) /\ k > a
    BY <1>0
  <2>. QED BY <1>0, <1>1, <2>1, <2>2
<1>3. own[r] \subseteq Slots \ F /\ \A p \in DOMAIN kv : kv[p] \notin own[r]
  BY DEF Owned
<1>4. ASSUME NEW q \in Along(key), Len(q) > h
      PROVE  /\ kv2[q] = row[Len(q)] /\ Len(q) \in 1..Len(key) /\ Len(q) > a
             /\ q = SubSeq(key, 1, Len(q))
  <2>1. Len(q) \in 1..Len(key) /\ q = SubSeq(key, 1, Len(q))
    BY PrefixAt
  <2>. QED BY <1>4, <2>1 DEF IsInserted
<1>5. ASSUME NEW q \in DOMAIN kv2
      PROVE  \/ q \in DOMAIN kv /\ kv2[q] = kv[q]
             \/ q \in Along(key) /\ Len(q) > h
  <2>1. CASE q \in DOMAIN kv
    BY <2>1 DEF IsInserted
  <2>2. CASE q \notin DOMAIN kv
    <3>1. q \in Along(key) /\ ~(Len(q) <= h)
      BY <2>2 DEF IsInserted
    <3>2. Len(q) \in Nat
      BY <3>1, PrefixAt
    <3>. QED BY <3>1, <3>2
  <2>. QED BY <2>1, <2>2
<1>6. ASSUME NEW k \in 1..w, NEW l \in 1..w, row[k] = row[l] PROVE k = l
  <2>1. SubSeq(key, 1, k) = SubSeq(key, 1, l)
    BY <1>6
  <2>2. k \in 1..Len(key) /\ l \in 1..Len(key)
    BY <1>0
  <2>3. Len(SubSeq(key, 1, k)) = k /\ Len(SubSeq(key, 1, l)) = l
    BY <2>2, PrefixAt
  <2>. QED BY <2>1, <2>3
<1>7. ASSUME NEW q \in DOMAIN kv2, kv2[q] # 0
      PROVE  kv2[q] \in Slots \ (F \cup (S \cap Slots)) /\ c[kv2[q]] = q
  <2>1. CASE q \in DOMAIN kv /\ kv2[q] = kv[q]
    BY <1>2, <1>3, <1>7, <2>1 DEF Owned
  <2>2. CASE q \in Along(key) /\ Len(q) > h
    <3>1. PICK k : k = Len(q)
      OBVIOUS
    <3>2. kv2[q] = row[k] /\ k \in 1..Len(key) /\ k > a /\ k > h /\ q = SubSeq(key, 1, k)
      BY <1>4, <2>2, <3>1
    <3>3. k <= w /\ row[k] \in own[r]
      BY <1>0, <1>1, <1>7, <3>2
    <3>4. k \in 1..w
      BY <3>2, <3>3
    <3>5. row[k] \in Slots \ F /\ c[row[k]] = q
      BY <1>3, <3>2, <3>3, <3>4
    <3>6. ASSUME row[k] \in S PROVE FALSE
      <4>1. PICK l \in (a + 1)..h : row[k] = row[l]
        BY <3>6
      <4>2. l \in 1..Len(key) /\ l > a
        BY <1>0
      <4>3. l <= w
        BY <1>0, <1>1, <3>5, <4>1, <4>2
      <4>4. l \in 1..w
        BY <4>2, <4>3
      <4>. QED BY <1>6, <3>2, <3>4, <4>1, <4>4
    <3>. QED BY <3>2, <3>5, <3>6
  <2>. QED BY <1>5, <2>1, <2>2
<1>8. ASSUME NEW x \in DOMAIN own2
      PROVE  own2[x] \subseteq Slots \ (F \cup (S \cap Slots)) /\ \A q \in DOMAIN kv2 : kv2[q] \notin own2[x]
  <2>1. CASE x = r
    BY <2>1
  <2>2. CASE x # r
    <3>1. own2[x] = own[x] /\ x \in DOMAIN own
      BY <2>2
    <3>2. own[x] \subseteq Slots \ F /\ own[x] \cap own[r] = {} /\ \A p \in DOMAIN kv : kv[p] \notin own[x]
      BY <2>2, <3>1 DEF Owned
    <3>3. ASSUME NEW q \in DOMAIN kv2 PROVE kv2[q] \notin own[x]
      <4>1. CASE q \in DOMAIN kv /\ kv2[q] = kv[q]
        BY <3>2, <4>1
      <4>2. CASE q \in Along(key) /\ Len(q) > h
        BY <1>0, <1>1, <1>4, <3>2, <4>2
      <4>. QED BY <1>5, <4>1, <4>2
    <3>. QED BY <1>2, <3>1, <3>2, <3>3
  <2>. QED BY <2>1, <2>2
<1>9. \A x, y \in DOMAIN own2 : x # y => own2[x] \cap own2[y] = {}
  BY DEF Owned
<1>10. ASSUME NEW j \in Slots
       PROVE  \/ j \in F \cup (S \cap Slots)
              \/ \E p \in DOMAIN kv2 : kv2[p] = j
              \/ \E x \in DOMAIN own2 : j \in own2[x]
  <2>1. CASE j \in F
    BY <2>1
  <2>2. CASE \E p \in DOMAIN kv : kv[p] = j
    BY <2>2 DEF IsInserted
  <2>3. CASE \E x \in DOMAIN own : j \in own[x]
    <3>1. PICK x \in DOMAIN own : j \in own[x]
      BY <2>3
    <3>2. CASE x # r
      BY <3>1, <3>2
    <3>3. CASE x = r
      <4>1. PICK k \in (a + 1)..w : j = row[k]
        BY <3>1, <3>3
      <4>2. CASE k <= h
        BY <4>1, <4>2
      <4>3. CASE ~(k <= h)
        <5>1. k \in 1..Len(key) /\ k > h
          BY <1>0, <4>3
        <5>2. PICK q : q = SubSeq(key, 1, k)
          OBVIOUS
        <5>3. q \in Along(key) /\ Len(q) = k
          BY <5>1, <5>2, PrefixAt
        <5>4. q \in DOMAIN kv2 /\ kv2[q] = j
          BY <4>1, <5>1, <5>3 DEF IsInserted
        <5>. QED BY <5>4
      <4>. QED BY <4>2, <4>3
    <3>. QED BY <3>2, <3>3
  <2>. QED BY <2>1, <2>2, <2>3 DEF Owned
<1>11. F \cup (S \cap Slots) \subseteq Slots
  BY DEF Owned
<1>. QED BY <1>7, <1>8, <1>9, <1>10, <1>11 DEF Owned

\* What a request holds is cached.
LEMMA HeldPaths ==
  ASSUME NEW t, NEW L, TreeInv(t, L), NEW r \in DOMAIN L, NEW q \in Along(L[r])
  PROVE  q \in DOMAIN t.kv
<1>1. L[r] \in Nodes(t) \cup {Root}
  BY DEF TreeInv, Held
<1>2. L[r] \in DOMAIN t.kv
  BY <1>1, AlongRoot DEF TreeInv, Shape, IsTree
<1>. QED BY <1>2 DEF TreeInv, Shape, Closed

\* The rows of other requests: what they read from the tree is still there.
LEMMA RowStays ==
  ASSUME NEW row, NEW q, NEW text, NEW w, NEW kv, NEW c, RowInv(row, q, text, w, kv, c),
         NEW kv2, \A k \in 1..q.protected : kv2[SubSeq(text, 1, k)] = kv[SubSeq(text, 1, k)]
  PROVE  RowInv(row, q, text, w, kv2, c)
BY DEF RowInv

\* _insert_into_radix_cache(): the tree gets what it lacks of the prompt, duplicates go back to the
\* pool and the row points to what the tree has.
LEMMA InsertPromptOwns ==
  ASSUME MaxLen \in Nat,
         NEW s, NEW text, NEW w, NEW c, Kept(s, text, w, c),
         LiveInv(s.live), MemInv(s.mem, LockMap(s.live)),
         NEW r \in DOMAIN s.live, text[r] = Prompt[r], w[r] = Len(Prompt[r])
  PROVE  Kept(InsertPrompt(s, r), text, w, c)
<1>1. PICK q, key, row, kv : q = s.live[r] /\ key = Prompt[r] /\ row = s.rows[q.row] /\ kv = s.mem.tree.kv
  OBVIOUS
<1>2. r \in Reqs /\ IsLive(q) /\ key \in Paths /\ key # Root /\ Len(key) \in Nat
  BY <1>1, PromptPath, PrefixAt DEF LiveInv
<1>3. /\ RowInv(row, q, key, Len(key), kv, c) /\ q.row \in 1..NumRows
      /\ NumRows \in Nat
  <2>1. NumRows \in Nat
    BY PoolAssumption
  <2>2. s.live[r].row \in 1..NumRows
    BY DEF Kept
  <2>3. RowInv(s.rows[s.live[r].row], s.live[r], text[r], w[r], s.mem.tree.kv, c)
    BY DEF Kept
  <2>. QED BY <1>1, <2>1, <2>2, <2>3
<1>4. PICK t : t = insert(s.mem.tree, key, row)
  OBVIOUS
<1>5. PICK h : h = Len(Hit(s.mem.tree, key))
  OBVIOUS
<1>6. PICK S : S = Duplicates(row, q.protected, h)
  OBVIOUS
<1>7. PICK m0 : m0 = [s.mem EXCEPT !.tree = MoveLock(t, q.lock, key)]
  OBVIOUS
<1>8. PICK m : m = GiveBack(m0, S)
  OBVIOUS
<1>9. PICK rs : rs = [s.rows EXCEPT ![q.row] = WriteBack(t, row, key, q.protected)]
  OBVIOUS
<1>10. PICK lv : lv = [s.live EXCEPT ![r].protected = Len(key), ![r].lock = key]
  OBVIOUS
<1>11. PICK s2 : s2 = [mem |-> m, rows |-> rs, live |-> lv]
  OBVIOUS
<1>12. InsertPrompt(s, r) = s2
  BY <1>1, <1>4, <1>5, <1>6, <1>7, <1>8, <1>9, <1>10, <1>11 DEF InsertPrompt
<1>13. TreeInv(s.mem.tree, LockMap(s.live)) /\ s.mem = [tree |-> s.mem.tree, free |-> s.mem.free, release |-> s.mem.release]
  BY DEF MemInv
<1>14. TreeInv(t, LockMap(s.live)) /\ IsTree(t)
  BY <1>2, <1>4, <1>13, InsertKeeps DEF TreeInv, Shape
<1>15. IsInserted(t.kv, kv, key, row, h) /\ h \in 0..Len(key)
  BY <1>1, <1>2, <1>4, <1>5, <1>13, InsertIs
<1>16. ASSUME NEW x \in DOMAIN s.live, NEW p \in Along(s.live[x].lock) PROVE p \in DOMAIN kv
  <2>1. x \in DOMAIN LockMap(s.live) /\ LockMap(s.live)[x] = s.live[x].lock
    BY DEF LockMap
  <2>. QED BY <1>1, <1>13, <2>1, HeldPaths
<1>17. q.protected \in Nat /\ q.protected <= h
  <2>1. q.protected \in Nat /\ q.protected <= Len(key)
    BY <1>3 DEF RowInv
  <2>2. CASE q.protected = 0
    BY <1>15, <2>2
  <2>3. CASE q.protected # 0
    <3>1. PICK p : p = SubSeq(key, 1, q.protected)
      OBVIOUS
    <3>2. q.protected \in 1..Len(key) /\ q.protected \in 1..q.protected
      BY <2>1, <2>3
    <3>3. p \in Along(q.lock) /\ p \in Along(key) /\ Len(p) = q.protected
      BY <1>2, <1>3, <3>1, <3>2, PrefixAt DEF RowInv
    <3>4. p \in DOMAIN kv
      BY <1>1, <1>16, <3>3
    <3>. QED BY <1>15, <2>1, <3>3, <3>4 DEF IsInserted
  <2>. QED BY <2>2, <2>3
<1>18. PICK f, e : s.mem = [tree |-> s.mem.tree, free |-> f, release |-> e] /\ f = s.mem.free /\ e = s.mem.release
  BY <1>13
<1>19. m0 = [tree |-> MoveLock(t, q.lock, key), free |-> f, release |-> e]
  BY <1>7, <1>18
<1>20. PICK g : g = e \cup ((S \cap Slots) \ f)
  OBVIOUS
<1>21. m = [tree |-> MoveLock(t, q.lock, key), free |-> f, release |-> g]
  BY <1>8, <1>19, <1>20 DEF GiveBack
<1>22. m.tree.kv = t.kv
  BY <1>14, <1>21, SameIndices
<1>23. Lists(m) /\ FreeOf(m) = FreeOf(s.mem) \cup (S \cap Slots)
  <2>1. Lists(s.mem)
    BY DEF Kept
  <2>. QED BY <1>18, <1>20, <1>21, <2>1 DEF Lists, FreeOf
<1>24. /\ DOMAIN lv = DOMAIN s.live /\ lv[r].protected = Len(key) /\ lv[r].lock = key /\ lv[r].row = q.row
       /\ \A x \in DOMAIN s.live : x # r => lv[x] = s.live[x]
  <2>1. s.live = [x \in DOMAIN s.live |-> s.live[x]]
    BY DEF LiveInv
  <2>2. PICK q2 : q2 = [q EXCEPT !.protected = Len(key), !.lock = key]
    OBVIOUS
  <2>3. q2.protected = Len(key) /\ q2.lock = key /\ q2.row = q.row
    BY <1>2, <2>2 DEF IsLive
  <2>4. lv = [s.live EXCEPT ![r] = q2]
    BY <1>1, <1>10, <2>1, <2>2
  <2>5. DOMAIN lv = DOMAIN s.live /\ lv[r] = q2 /\ \A x \in DOMAIN s.live : x # r => lv[x] = s.live[x]
    BY <2>1, <2>4
  <2>. QED BY <2>3, <2>5
<1>25. /\ rs[q.row] = WriteBack(t, row, key, q.protected)
       /\ \A n \in 1..NumRows : n # q.row => rs[n] = s.rows[n]
       /\ rs = [n \in 1..NumRows |-> rs[n]]
  BY <1>3, <1>9 DEF Kept
<1>26. ASSUME NEW x \in DOMAIN s.live, x # r
       PROVE  lv[x] = s.live[x] /\ rs[lv[x].row] = s.rows[s.live[x].row]
  <2>1. s.live[x].row \in 1..NumRows /\ s.live[x].row # q.row
    BY <1>1, <1>26 DEF Kept
  <2>. QED BY <1>3, <1>24, <1>25, <1>26, <2>1
<1>27. Owned(FreeOf(m), t.kv, OwnMap(s2, w), c)
  <2>1. Owned(FreeOf(s.mem), kv, OwnMap(s, w), c)
    BY <1>1 DEF Kept
  <2>2. OwnMap(s, w)[r] = {row[k] : k \in (q.protected + 1)..Len(key)} /\ DOMAIN OwnMap(s, w) = DOMAIN s.live
    BY <1>1 DEF OwnMap, Private
  <2>3. DOMAIN OwnMap(s2, w) = DOMAIN s.live
    BY <1>11, <1>24 DEF OwnMap
  <2>4. OwnMap(s2, w)[r] = {}
    <3>1. OwnMap(s2, w)[r] = {rs[lv[r].row][k] : k \in (Len(key) + 1)..Len(key)}
      BY <1>1, <1>11, <1>24 DEF OwnMap, Private
    <3>2. (Len(key) + 1)..Len(key) = {}
      BY <1>2
    <3>. QED BY <3>1, <3>2
  <2>5. \A x \in DOMAIN s.live : x # r => OwnMap(s2, w)[x] = OwnMap(s, w)[x]
    BY <1>11, <1>24, <1>26 DEF OwnMap
  <2>7. \A k \in 1..Len(key) : row[k] \in Slots /\ c[row[k]] = SubSeq(key, 1, k)
    BY <1>3 DEF RowInv
  <2>8. PICK o1, o2 : o1 = OwnMap(s, w) /\ o2 = OwnMap(s2, w)
    OBVIOUS
  <2>9. LacksOf(o2, o1, r) /\ r \in DOMAIN o1 /\ Owned(FreeOf(s.mem), kv, o1, c)
    BY <2>1, <2>2, <2>3, <2>4, <2>5, <2>8 DEF LacksOf
  <2>10. HandsOver(o1, r, key, row, q.protected, Len(key), h, c)
    <3>1. h \in Nat /\ h <= Len(key) /\ q.protected <= Len(key) /\ Len(key) <= Len(key) + 1
          /\ Len(key) <= Len(key) /\ Len(key) # Len(key) + 1
      BY <1>2, <1>3, <1>15 DEF RowInv
    <3>. QED BY <1>2, <1>17, <2>2, <2>7, <2>8, <3>1 DEF HandsOver
  <2>11. Owned(FreeOf(s.mem) \cup (S \cap Slots), t.kv, o2, c)
    BY <1>2, <1>6, <1>15, <2>9, <2>10, OwnedInsert
  <2>. QED BY <1>23, <2>8, <2>11
<1>28. NoneMissing(t.kv, DOMAIN s.live)
  <2>1. SUFFICES ASSUME NEW y \in DOMAIN s.live, NEW p \in Along(Prompt[y]) \cap DOMAIN t.kv PROVE t.kv[p] # 0
    BY DEF NoneMissing
  <2>2. CASE p \in DOMAIN kv
    BY <1>1, <1>15, <2>2 DEF IsInserted, NoneMissing, Kept
  <2>3. CASE p \notin DOMAIN kv
    <3>1. p \in Along(key) /\ ~(Len(p) <= h)
      BY <1>15, <2>3 DEF IsInserted
    <3>2. Len(p) \in 1..Len(key)
      BY <1>2, <3>1, PrefixAt
    <3>3. Len(p) > h
      BY <1>15, <3>1, <3>2
    <3>4. t.kv[p] = row[Len(p)]
      BY <1>15, <3>1, <3>3 DEF IsInserted
    <3>5. row[Len(p)] \in Slots
      BY <1>3, <3>2 DEF RowInv
    <3>. QED BY <3>4, <3>5, SlotsFinite
  <2>. QED BY <2>2, <2>3
<1>29. ASSUME NEW k \in 1..Len(key)
       PROVE  rs[q.row][k] = t.kv[SubSeq(key, 1, k)] /\ SubSeq(key, 1, k) \in Along(key)
  <2>1. SubSeq(key, 1, k) \in Along(key)
    BY <1>2, PrefixAt
  <2>2. k \in 1..MaxLen
    BY <1>2, <1>3 DEF RowInv
  <2>3. rs[q.row][k] = IF k \in (q.protected + 1)..Len(key) THEN t.kv[SubSeq(key, 1, k)] ELSE row[k]
    BY <1>25, <2>2 DEF WriteBack
  <2>4. CASE k \in (q.protected + 1)..Len(key)
    BY <2>1, <2>3, <2>4
  <2>5. CASE k \notin (q.protected + 1)..Len(key)
    <3>1. k \in 1..q.protected
      BY <1>2, <1>17, <2>5
    <3>2. row[k] = kv[SubSeq(key, 1, k)] /\ SubSeq(key, 1, k) \in Along(q.lock)
      BY <1>3, <3>1 DEF RowInv
    <3>3. SubSeq(key, 1, k) \in DOMAIN kv
      BY <1>1, <1>16, <3>2
    <3>4. t.kv[SubSeq(key, 1, k)] = kv[SubSeq(key, 1, k)]
      BY <1>15, <3>3 DEF IsInserted
    <3>. QED BY <2>1, <2>3, <2>5, <3>2, <3>4
  <2>. QED BY <2>4, <2>5
<1>30. RowInv(rs[q.row], lv[r], key, Len(key), t.kv, c)
  <2>1. ASSUME NEW k \in 1..Len(key)
        PROVE  rs[q.row][k] \in Slots /\ c[rs[q.row][k]] = SubSeq(key, 1, k)
    <3>1. PICK p : p = SubSeq(key, 1, k)
      OBVIOUS
    <3>2. rs[q.row][k] = t.kv[p] /\ p \in Along(key) /\ p \in DOMAIN t.kv
      BY <1>15, <1>29, <3>1 DEF IsInserted
    <3>3. t.kv[p] # 0
      BY <1>1, <1>2, <1>28, <3>2 DEF NoneMissing
    <3>4. t.kv[p] \in Slots /\ c[t.kv[p]] = p
      BY <1>27, <3>2, <3>3 DEF Owned
    <3>. QED BY <3>1, <3>2, <3>4
  <2>3. Len(key) <= MaxLen
    BY <1>3 DEF RowInv
  <2>. QED BY <1>2, <1>24, <1>29, <2>1, <2>3 DEF RowInv
<1>31. ASSUME NEW x \in DOMAIN s.live, x # r
       PROVE  RowInv(rs[lv[x].row], lv[x], text[x], w[x], t.kv, c)
  <2>1. RowInv(s.rows[s.live[x].row], s.live[x], text[x], w[x], kv, c)
    BY <1>1 DEF Kept
  <2>2. ASSUME NEW k \in 1..s.live[x].protected
        PROVE  t.kv[SubSeq(text[x], 1, k)] = kv[SubSeq(text[x], 1, k)]
    <3>1. SubSeq(text[x], 1, k) \in Along(s.live[x].lock)
      BY <2>1 DEF RowInv
    <3>2. SubSeq(text[x], 1, k) \in DOMAIN kv
      BY <1>16, <3>1
    <3>. QED BY <1>15, <3>2 DEF IsInserted
  <2>3. RowInv(s.rows[s.live[x].row], s.live[x], text[x], w[x], t.kv, c)
    BY <2>1, <2>2, RowStays
  <2>. QED BY <1>26, <1>31, <2>3
<1>32. \A x \in DOMAIN lv : lv[x].row \in 1..NumRows /\ RowInv(rs[lv[x].row], lv[x], text[x], w[x], t.kv, c)
  <2>1. \A x \in DOMAIN s.live : s.live[x].row \in 1..NumRows
    BY DEF Kept
  <2>2. lv[r].row \in 1..NumRows /\ RowInv(rs[lv[r].row], lv[r], text[r], w[r], t.kv, c)
    BY <1>1, <1>3, <1>24, <1>30
  <2>. QED BY <1>24, <1>31, <2>1, <2>2
<1>33. \A x, y \in DOMAIN lv : x # y => lv[x].row # lv[y].row
  <2>1. \A x \in DOMAIN lv : x \in DOMAIN s.live /\ lv[x].row = s.live[x].row
    BY <1>1, <1>24
  <2>. QED BY <2>1 DEF Kept
<1>34. rs = [n \in 1..NumRows |-> [k \in 1..MaxLen |-> rs[n][k]]]
  <2>1. \A n \in 1..NumRows : s.rows[n] = [k \in 1..MaxLen |-> s.rows[n][k]]
    BY DEF Kept
  <2>2. rs[q.row] = [k \in 1..MaxLen |-> rs[q.row][k]]
    BY <1>25 DEF WriteBack
  <2>3. \A n \in 1..NumRows : rs[n] = [k \in 1..MaxLen |-> rs[n][k]]
    BY <1>25, <2>1, <2>2
  <2>. QED BY <1>25, <2>3
<1>36. s2.mem = m /\ s2.rows = rs /\ s2.live = lv
  BY <1>11
<1>36a. RowsTyped(rs)
  <2>1. ASSUME NEW n \in 1..NumRows, NEW k \in 1..MaxLen PROVE rs[n][k] \in 0..PoolSize
    <3>0. s.rows[n][k] \in 0..PoolSize
      BY DEF Kept, RowsTyped
    <3>1. CASE n = q.row
      <4>1. CASE k <= Len(key)
        <5>1. k \in 1..Len(key)
          BY <1>2, <4>1
        <5>2. rs[n][k] \in Slots
          BY <1>30, <3>1, <5>1 DEF RowInv
        <5>. QED BY <5>2, PoolAssumption DEF Slots
      <4>2. CASE ~(k <= Len(key))
        <5>1. k \notin (q.protected + 1)..Len(key)
          BY <1>2, <4>2
        <5>2. rs[n][k] = row[k]
          BY <1>25, <3>1, <5>1 DEF WriteBack
        <5>. QED BY <1>1, <3>0, <3>1, <5>2
      <4>. QED BY <4>1, <4>2
    <3>2. CASE n # q.row
      <4>1. rs[n] = s.rows[n]
        BY <1>25, <3>2
      <4>. QED BY <3>0, <4>1
    <3>. QED BY <3>1, <3>2
  <2>. QED BY <2>1 DEF RowsTyped
<1>37. Kept(s2, text, w, c)
  BY <1>22, <1>23, <1>27, <1>28, <1>32, <1>33, <1>24, <1>34, <1>36, <1>36a DEF Kept
<1>. QED BY <1>12, <1>37

\* The whole batch is inserted, one request after the other.
LEMMA InsertsOwn ==
  ASSUME MaxLen \in Nat, NEW b \in Batches, NEW s, NEW out, ServedInv(s, out),
         Range(b) \subseteq DOMAIN out,
         NEW text, NEW w, NEW c, Kept(s, text, w, c),
         \A x \in Range(b) : text[x] = Prompt[x] /\ w[x] = Len(Prompt[x])
  PROVE  Kept(FoldLeft(InsertPrompt, s, b), text, w, c)
<1>0. b \in Seq(Reqs) /\ Len(b) \in Nat /\ \A i \in 1..Len(b) : b[i] \in DOMAIN out /\ b[i] \in Range(b)
  BY BatchType
<1>1. PICK h : IsChain("insert", s, b, h) /\ FoldLeft(InsertPrompt, s, b) = h[Len(b)]
  BY <1>0, InsertChain
<1>. DEFINE G == {i \in Nat : i <= Len(b) => ServedInv(h[i], out) /\ Kept(h[i], text, w, c)}
<1>2. 0 \in G
  BY <1>1 DEF IsChain
<1>3. ASSUME NEW i \in Nat, i \in G PROVE i + 1 \in G
  <2>1. SUFFICES ASSUME i + 1 <= Len(b)
                 PROVE  ServedInv(h[i + 1], out) /\ Kept(h[i + 1], text, w, c)
    OBVIOUS
  <2>2. i <= Len(b) /\ i + 1 \in 1..Len(b) /\ (i + 1) - 1 = i
    BY <1>0, <2>1
  <2>3. h[i + 1] = InsertPrompt(h[i], b[i + 1])
    <3>1. h[i + 1] = Each("insert", h[(i + 1) - 1], b[i + 1])
      BY <1>1, <2>2 DEF IsChain
    <3>. QED BY <2>2, <3>1 DEF Each
  <2>4. ServedInv(h[i], out) /\ Kept(h[i], text, w, c)
    BY <1>3, <2>2
  <2>5. PICK x : x = b[i + 1] /\ x \in DOMAIN out /\ x \in Range(b)
    BY <1>0, <2>2
  <2>6. ServedInv(h[i + 1], out)
    BY <2>3, <2>4, <2>5, InsertPromptKeeps
  <2>7. LiveInv(h[i].live) /\ MemInv(h[i].mem, LockMap(h[i].live)) /\ x \in DOMAIN h[i].live
    BY <2>4, <2>5 DEF ServedInv
  <2>8. Kept(h[i + 1], text, w, c)
    BY <2>3, <2>4, <2>5, <2>7, InsertPromptOwns
  <2>. QED BY <2>6, <2>8
<1>4. Len(b) \in G
  <2>. HIDE DEF G
  <2>. QED BY <1>0, <1>2, <1>3, NatInductive
<1>. QED BY <1>0, <1>1, <1>4

-----------------------------------------------------------------------------
\* The slots of an allocation, one share for each request of the batch

\* Blocks of lengths len[1], len[2], ... one after the other, from off[1] on.
Consecutive(off, len, n) ==
  /\ off[1] = 0
  /\ \A i \in 1..n : len[i] \in Nat /\ off[i + 1] = off[i] + len[i]

\* The blocks begin in order.
LEMMA BlocksInOrder ==
  ASSUME NEW n \in Nat, NEW off, NEW len, Consecutive(off, len, n)
  PROVE  /\ \A i \in 1..(n + 1) : off[i] \in Nat
         /\ \A j \in 1..(n + 1) : \A i \in 1..j : off[i] <= off[j]
<1>. DEFINE H(j) == \A i \in 1..j : off[i] \in Nat /\ off[i] <= off[j]
            G == {j \in Nat : j <= n => H(j + 1)}
<1>1. 0 \in G
  <2>1. off[1] = 0
    BY DEF Consecutive
  <2>2. \A i \in 1..1 : i = 1
    OBVIOUS
  <2>3. H(1)
    BY <2>1, <2>2
  <2>. HIDE DEF H
  <2>. QED BY <2>3
<1>2. ASSUME NEW j \in Nat, j \in G PROVE j + 1 \in G
  <2>1. SUFFICES ASSUME j + 1 <= n PROVE H((j + 1) + 1)
    OBVIOUS
  <2>2. H(j + 1)
    <3>. HIDE DEF H
    <3>. QED BY <1>2, <2>1
  <2>3. off[j + 1] \in Nat
    BY <2>2
  <2>4. len[j + 1] \in Nat /\ off[(j + 1) + 1] = off[j + 1] + len[j + 1]
    BY <2>1 DEF Consecutive
  <2>5. off[(j + 1) + 1] \in Nat /\ off[j + 1] <= off[(j + 1) + 1]
    BY <2>3, <2>4
  <2>6. ASSUME NEW i \in 1..((j + 1) + 1)
        PROVE  off[i] \in Nat /\ off[i] <= off[(j + 1) + 1]
    <3>1. CASE i = (j + 1) + 1
      BY <2>5, <3>1
    <3>2. CASE i # (j + 1) + 1
      <4>1. i \in 1..(j + 1)
        BY <3>2
      <4>2. off[i] \in Nat /\ off[i] <= off[j + 1]
        BY <2>2, <4>1
      <4>. QED BY <2>3, <2>5, <4>2
    <3>. QED BY <3>1, <3>2
  <2>. QED BY <2>6
<1>3. \A j \in Nat : j \in G
  <2>. HIDE DEF G
  <2>. QED BY <1>1, <1>2, NatInductive
<1>4. ASSUME NEW j \in 1..(n + 1) PROVE H(j)
  <2>1. j - 1 \in Nat /\ j - 1 <= n /\ (j - 1) + 1 = j
    OBVIOUS
  <2>2. j - 1 \in G => H((j - 1) + 1)
    <3>. HIDE DEF H
    <3>. QED BY <2>1
  <2>3. H((j - 1) + 1)
    <3>. HIDE DEF H, G
    <3>. QED BY <1>3, <2>1, <2>2
  <2>. QED BY <2>1, <2>3
<1>. QED BY <1>4

\* They cover what they span, and no two overlap.
LEMMA BlocksTile ==
  ASSUME NEW n \in Nat, NEW off, NEW len, Consecutive(off, len, n)
  PROVE  /\ \A x \in 1..off[n + 1] : \E i \in 1..n : \E k \in 1..len[i] : x = off[i] + k
         /\ \A i \in 1..n : \A k \in 1..len[i] : off[i] + k \in 1..off[n + 1]
         /\ \A i, j \in 1..n : \A k \in 1..len[i] : \A l \in 1..len[j] :
              off[i] + k = off[j] + l => i = j /\ k = l
<1>1. /\ \A i \in 1..(n + 1) : off[i] \in Nat
      /\ \A j \in 1..(n + 1) : \A i \in 1..j : off[i] <= off[j]
  BY BlocksInOrder
<1>2. \A i \in 1..n : len[i] \in Nat /\ off[i + 1] = off[i] + len[i]
  BY DEF Consecutive
<1>3. ASSUME NEW i \in 1..n, NEW j \in 1..(n + 1), i < j, NEW k \in 1..len[i]
      PROVE  off[i] + k <= off[j]
  <2>1. i + 1 \in 1..j /\ j \in 1..(n + 1) /\ i \in 1..(n + 1) /\ i + 1 \in 1..(n + 1)
    BY <1>3
  <2>2. off[i + 1] <= off[j] /\ off[i] \in Nat /\ off[j] \in Nat /\ off[i + 1] \in Nat
    BY <1>1, <2>1
  <2>3. off[i + 1] = off[i] + len[i] /\ len[i] \in Nat
    BY <1>2
  <2>. QED BY <2>2, <2>3
<1>4. ASSUME NEW i \in 1..n, NEW k \in 1..len[i] PROVE off[i] + k \in 1..off[n + 1]
  <2>1. n + 1 \in 1..(n + 1) /\ i < n + 1 /\ i \in 1..(n + 1)
    OBVIOUS
  <2>2. off[i] + k <= off[n + 1] /\ off[i] \in Nat /\ off[n + 1] \in Nat /\ len[i] \in Nat
    BY <1>1, <1>2, <1>3, <2>1
  <2>. QED BY <2>2
<1>5. ASSUME NEW i \in 1..n, NEW j \in 1..n, NEW k \in 1..len[i], NEW l \in 1..len[j],
             off[i] + k = off[j] + l
      PROVE  i = j /\ k = l
  <2>1. /\ off[i] \in Nat /\ off[j] \in Nat /\ len[i] \in Nat /\ len[j] \in Nat
        /\ i \in 1..(n + 1) /\ j \in 1..(n + 1)
    BY <1>1, <1>2
  <2>2. i < j => off[i] + k <= off[j]
    BY <1>3, <2>1
  <2>3. j < i => off[j] + l <= off[i]
    BY <1>3, <2>1
  <2>. QED BY <1>5, <2>1, <2>2, <2>3
<1>6. ASSUME NEW x \in 1..off[n + 1]
      PROVE  \E i \in 1..n : \E k \in 1..len[i] : x = off[i] + k
  <2>. DEFINE T == {i \in 1..(n + 1) : x <= off[i]}
  <2>1. x \in Nat /\ x > 0 /\ x <= off[n + 1] /\ n + 1 \in 1..(n + 1)
    BY <1>1
  <2>2. PICK j \in T : \A i \in T : j <= i
    <3>1. T \subseteq Nat /\ T # {}
      BY <2>1
    <3>. HIDE DEF T
    <3>. QED BY <3>1, NatLeast
  <2>3. j \in 1..(n + 1) /\ x <= off[j] /\ j # 1
    BY <2>1, <2>2 DEF Consecutive
  <2>4. PICK i : i = j - 1
    OBVIOUS
  <2>5. i \in 1..n /\ i \in 1..(n + 1) /\ i + 1 = j /\ i < j /\ i \notin T
    BY <2>2, <2>3, <2>4
  <2>6. off[i] \in Nat /\ len[i] \in Nat /\ off[j] = off[i] + len[i] /\ ~(x <= off[i])
    BY <1>1, <1>2, <2>5
  <2>7. x - off[i] \in 1..len[i] /\ x = off[i] + (x - off[i])
    BY <2>1, <2>3, <2>6
  <2>. QED BY <2>5, <2>7
<1>. QED BY <1>4, <1>5, <1>6

\* What a prompt reuses is a prefix of what it matched, which is a prefix of it.
LEMMA ReusedIs ==
  ASSUME NEW r \in Reqs
  PROVE  /\ Matched(r) \in Paths /\ Len(Prompt[r]) \in Nat
         /\ Matched(r) = Root \/ Matched(r) \in DOMAIN mem.tree.kv
         /\ Reused(r) \in Nat /\ Reused(r) <= Len(Prompt[r])
         /\ ExtendLen(r) \in Nat /\ ExtendLen(r) = Len(Prompt[r]) - Reused(r)
         /\ \A k \in 1..Reused(r) : SubSeq(Prompt[r], 1, k) \in Along(Matched(r))
         /\ ~cached => Reused(r) = 0
<1>1. PICK key : key = Prompt[r]
  OBVIOUS
<1>2. key \in Paths /\ key # Root /\ Len(key) \in Nat
  BY <1>1, PromptPath, PrefixAt
<1>3. PICK m : m = Matched(r)
  OBVIOUS
<1>4. m \in Paths /\ (m = Root \/ (m \in DOMAIN mem.tree.kv /\ m \in Along(key))) /\ (~cached => m = Root)
  <2>1. CASE cached
    BY <1>1, <1>2, <1>3, <2>1, HitIs DEF Matched
  <2>2. CASE ~cached
    BY <1>3, <2>2 DEF Matched, Root, Paths
  <2>. QED BY <2>1, <2>2
<1>5. Len(m) \in Nat /\ Len(m) <= Len(key) /\ (m = Root => Len(m) = 0)
  BY <1>2, <1>4, AlongType DEF Root
<1>6. Reused(r) = IF Len(m) >= Len(key) - 1 /\ Len(key) >= 2 THEN Len(key) - 2 ELSE Len(m)
  BY <1>1, <1>3 DEF Reused, PrefixLen
<1>7. Reused(r) \in Nat /\ Reused(r) <= Len(m) /\ (Len(m) = 0 => Reused(r) = 0)
  BY <1>2, <1>5, <1>6
<1>8. ASSUME NEW k \in 1..Reused(r) PROVE SubSeq(key, 1, k) \in Along(m)
  <2>1. k \in 1..Len(key) /\ k <= Len(m) /\ Len(m) # 0
    BY <1>2, <1>5, <1>7
  <2>2. SubSeq(key, 1, k) \in Along(key) /\ Len(SubSeq(key, 1, k)) = k
    BY <1>2, <2>1, PrefixAt
  <2>3. m \in Along(key)
    BY <1>4, <1>5, <2>1
  <2>. QED BY <1>2, <2>1, <2>2, <2>3, AlongChain
<1>9. ExtendLen(r) = Len(key) - Reused(r)
  BY <1>1 DEF ExtendLen
<1>10. ExtendLen(r) \in Nat /\ Reused(r) <= Len(key)
  BY <1>2, <1>5, <1>7, <1>9
<1>. QED BY <1>1, <1>2, <1>3, <1>4, <1>5, <1>7, <1>8, <1>9, <1>10

\* One step of the sum of the new tokens, and the function that it defines.
ExtendStep(b, g, s) == IF s = {} THEN 0 ELSE ExtendLen(b[First(s)]) + g[s \ {First(s)}]

\* g adds up the new tokens, for each part of S.
IsExtendSumOn(b, g, S) == g = [s \in SUBSET S |-> ExtendStep(b, g, s)]

\* Offset() is the sum of a function.
LEMMA OffsetSum ==
  ASSUME NEW b, NEW i, NEW D, 1..(i - 1) \subseteq D, IsFiniteSet(1..(i - 1)),
         NEW f, f = [n \in D |-> ExtendLen(b[n])]
  PROVE  Offset(b, i) = SumFunctionOnSet(f, 1..(i - 1))
<1>0. PICK E : E = 1..(i - 1)
  OBVIOUS
<1>1. Offset(b, i) = (CHOOSE g : IsExtendSumOn(b, g, E))[E]
  BY <1>0 DEF Offset, MapThenSumSet, MapThenFoldSet, IsExtendSumOn, ExtendStep, First
<1>2. ASSUME NEW g PROVE IsExtendSumOn(b, g, E) <=> IsSumOn(f, g, E)
  <2>1. ASSUME NEW s \in SUBSET E PROVE ExtendStep(b, g, s) = SumStep(f, g, s)
    <3>1. CASE s = {}
      BY <3>1 DEF ExtendStep, SumStep
    <3>2. CASE s # {}
      <4>1. First(s) \in D
        BY <1>0, <3>2, FirstIn
      <4>2. f[First(s)] = ExtendLen(b[First(s)])
        BY <4>1
      <4>. QED BY <3>2, <4>2 DEF ExtendStep, SumStep
    <3>. QED BY <3>1, <3>2
  <2>. QED BY <2>1 DEF IsExtendSumOn, IsSumOn
<1>3. PICK h : h = CHOOSE g : IsExtendSumOn(b, g, E)
  OBVIOUS
<1>4. IsSumOn(f, h, E)
  <2>1. \E g : IsSumOn(f, g, E)
    BY <1>0, SumExists
  <2>2. \E g : IsExtendSumOn(b, g, E)
    BY <1>2, <2>1
  <2>3. IsExtendSumOn(b, h, E)
    BY <1>3, <2>2
  <2>. QED BY <1>2, <2>3
<1>5. PICK k : k = CHOOSE g : IsSumOn(f, g, E)
  OBVIOUS
<1>6. IsSumOn(f, k, E) /\ SumFunctionOnSet(f, E) = k[E]
  BY <1>0, <1>5, SumExists, SumIsFold
<1>7. h[E] = k[E]
  BY <1>0, <1>4, <1>6, SumUnique
<1>. QED BY <1>0, <1>1, <1>3, <1>6, <1>7

\* SumAdd in the form the provers use: one summand more.
LEMMA SumOneMore ==
  ASSUME NEW D, NEW f, f \in [D -> Int], NEW S, S \subseteq D, IsFiniteSet(S), NEW x, x \in D, x \notin S
  PROVE  SumFunctionOnSet(f, S \cup {x}) = f[x] + SumFunctionOnSet(f, S)
<1>1. x \in D \ S
  OBVIOUS
<1>. QED BY <1>1, SumAdd, SMT

\* The sum of the first i summands.
LEMMA SumNext ==
  ASSUME NEW n \in Nat, NEW f \in [1..n -> Int], NEW i \in 1..n
  PROVE  SumFunctionOnSet(f, 1..i) = f[i] + SumFunctionOnSet(f, 1..(i - 1))
<1>1. 1..(i - 1) \subseteq 1..n /\ IsFiniteSet(1..(i - 1)) /\ i \in 1..n /\ i \notin 1..(i - 1) /\ f \in [1..n -> Int]
  BY FS_Interval
<1>2. ASSUME NEW D, NEW S, NEW g, NEW x, D = 1..n, S = 1..(i - 1), g = f, x = i
      PROVE  SumFunctionOnSet(g, S \cup {x}) = g[x] + SumFunctionOnSet(g, S)
  <2>1. g \in [D -> Int]
    BY <1>1, <1>2
  <2>2. S \subseteq D /\ IsFiniteSet(S) /\ x \in D /\ x \notin S
    BY <1>1, <1>2
  <2>. QED BY <2>1, <2>2, SumOneMore
<1>3. (1..(i - 1)) \cup {i} = 1..i
  OBVIOUS
<1>. QED BY <1>2, <1>3

\* The shares of the requests of a batch, one after the other.
LEMMA OffsetsAre ==
  ASSUME NEW b \in Batches, NEW off, NEW len,
         off = [i \in 1..(Len(b) + 1) |-> Offset(b, i)],
         len = [i \in 1..Len(b) |-> ExtendLen(b[i])]
  PROVE  Consecutive(off, len, Len(b)) /\ off[Len(b) + 1] = NewTokens(b)
<1>0. Len(b) \in Nat /\ \A i \in 1..Len(b) : b[i] \in Reqs
  BY BatchType
<1>1. len \in [1..Len(b) -> Int] /\ \A i \in 1..Len(b) : len[i] \in Nat
  BY <1>0, ReusedIs
<1>2. ASSUME NEW i \in 1..(Len(b) + 1)
      PROVE  off[i] = SumFunctionOnSet(len, 1..(i - 1)) /\ IsFiniteSet(1..(i - 1)) /\ 1..(i - 1) \subseteq 1..Len(b)
  <2>1. IsFiniteSet(1..(i - 1))
    BY FS_Interval
  <2>2. 1..(i - 1) \subseteq 1..Len(b)
    BY <1>0
  <2>3. off[i] = Offset(b, i)
    OBVIOUS
  <2>. QED BY <2>1, <2>2, <2>3, OffsetSum
<1>3. off[1] = 0
  <2>1. 1 \in 1..(Len(b) + 1) /\ 1..(1 - 1) = {}
    BY <1>0
  <2>. QED BY <1>2, <2>1, SumEmpty
<1>4. ASSUME NEW i \in 1..Len(b) PROVE off[i + 1] = off[i] + len[i]
  <2>1. i \in 1..(Len(b) + 1) /\ i + 1 \in 1..(Len(b) + 1) /\ (i + 1) - 1 = i
    BY <1>0
  <2>2. SumFunctionOnSet(len, 1..i) = len[i] + SumFunctionOnSet(len, 1..(i - 1))
    BY <1>0, <1>1, SumNext
  <2>3. off[i + 1] = SumFunctionOnSet(len, 1..i) /\ off[i] = SumFunctionOnSet(len, 1..(i - 1))
    BY <1>2, <2>1
  <2>4. SumFunctionOnSet(len, 1..(i - 1)) \in Int
    BY <1>1, <1>2, <2>1, SumType
  <2>5. len[i] \in Int
    BY <1>1
  <2>. QED BY <2>2, <2>3, <2>4, <2>5
<1>5. off[Len(b) + 1] = NewTokens(b)
  BY <1>0 DEF NewTokens
<1>. QED BY <1>1, <1>3, <1>4, <1>5 DEF Consecutive

\* Every value of got is the k-th new slot of the request b[i] for one i and one k.
Divided(got, b) ==
  /\ \A i \in 1..Len(b) : \A k \in 1..ExtendLen(b[i]) : got[Offset(b, i) + k] \in Range(got)
  /\ \A j \in Range(got) : \E i \in 1..Len(b) : \E k \in 1..ExtendLen(b[i]) : got[Offset(b, i) + k] = j
  /\ \A i, j \in 1..Len(b) : \A k \in 1..ExtendLen(b[i]) : \A l \in 1..ExtendLen(b[j]) :
       got[Offset(b, i) + k] = got[Offset(b, j) + l] => i = j /\ k = l

\* The requests of a batch divide what was allocated for them.
LEMMA SharesDivide ==
  ASSUME NEW b \in Batches, NEW got, Distinct(got, NewTokens(b))
  PROVE  Divided(got, b)
<1>0. Len(b) \in Nat
  BY BatchType
<1>1. PICK off : off = [i \in 1..(Len(b) + 1) |-> Offset(b, i)]
  OBVIOUS
<1>2. PICK len : len = [i \in 1..Len(b) |-> ExtendLen(b[i])]
  OBVIOUS
<1>3. Consecutive(off, len, Len(b)) /\ off[Len(b) + 1] = NewTokens(b)
  BY <1>1, <1>2, OffsetsAre
<1>4. \A i \in 1..Len(b) : off[i] = Offset(b, i) /\ len[i] = ExtendLen(b[i])
  BY <1>0, <1>1, <1>2
<1>5. /\ \A x \in 1..NewTokens(b) : \E i \in 1..Len(b) : \E k \in 1..len[i] : x = off[i] + k
      /\ \A i \in 1..Len(b) : \A k \in 1..len[i] : off[i] + k \in 1..NewTokens(b)
      /\ \A i, j \in 1..Len(b) : \A k \in 1..len[i] : \A l \in 1..len[j] :
           off[i] + k = off[j] + l => i = j /\ k = l
  BY <1>0, <1>3, BlocksTile
<1>6. /\ \A x \in 1..NewTokens(b) : \E i \in 1..Len(b) : \E k \in 1..ExtendLen(b[i]) : x = Offset(b, i) + k
      /\ \A i \in 1..Len(b) : \A k \in 1..ExtendLen(b[i]) : Offset(b, i) + k \in 1..NewTokens(b)
      /\ \A i, j \in 1..Len(b) : \A k \in 1..ExtendLen(b[i]) : \A l \in 1..ExtendLen(b[j]) :
           Offset(b, i) + k = Offset(b, j) + l => i = j /\ k = l
  <2>1. ASSUME NEW x \in 1..NewTokens(b)
        PROVE  \E i \in 1..Len(b) : \E k \in 1..ExtendLen(b[i]) : x = Offset(b, i) + k
    <3>0. PICK i \in 1..Len(b) : \E k \in 1..len[i] : x = off[i] + k
      BY <1>5
    <3>1. PICK k \in 1..len[i] : x = off[i] + k
      BY <3>0
    <3>2. k \in 1..ExtendLen(b[i]) /\ x = Offset(b, i) + k
      BY <1>4, <3>1
    <3>. QED BY <3>2
  <2>2. ASSUME NEW i \in 1..Len(b), NEW k \in 1..ExtendLen(b[i])
        PROVE  Offset(b, i) + k \in 1..NewTokens(b)
    <3>1. k \in 1..len[i]
      BY <1>4
    <3>. QED BY <1>4, <1>5, <3>1
  <2>3. ASSUME NEW i \in 1..Len(b), NEW j \in 1..Len(b), NEW k \in 1..ExtendLen(b[i]),
               NEW l \in 1..ExtendLen(b[j]), Offset(b, i) + k = Offset(b, j) + l
        PROVE  i = j /\ k = l
    <3>1. k \in 1..len[i] /\ l \in 1..len[j] /\ off[i] + k = off[j] + l
      BY <1>4, <2>3
    <3>. QED BY <1>5, <3>1
  <2>. QED BY <2>1, <2>2, <2>3
<1>8. ASSUME NEW j \in Range(got)
      PROVE  \E i \in 1..Len(b) : \E k \in 1..ExtendLen(b[i]) : got[Offset(b, i) + k] = j
  <2>1. PICK x \in 1..NewTokens(b) : got[x] = j
    BY DEF Range, Distinct
  <2>. QED BY <1>6, <2>1
<1>9. \A i \in 1..Len(b) : \A k \in 1..ExtendLen(b[i]) : got[Offset(b, i) + k] \in Range(got)
  BY <1>6 DEF Range, Distinct
<1>10. ASSUME NEW i \in 1..Len(b), NEW j \in 1..Len(b), NEW k \in 1..ExtendLen(b[i]), NEW l \in 1..ExtendLen(b[j]),
              got[Offset(b, i) + k] = got[Offset(b, j) + l]
       PROVE  i = j /\ k = l
  <2>1. Offset(b, i) + k = Offset(b, j) + l
    BY <1>6, <1>10 DEF Distinct
  <2>. QED BY <1>6, <2>1
<1>. QED BY <1>8, <1>9, <1>10 DEF Divided

\* As many slots are asked for as there are new tokens.
LEMMA OffsetType ==
  ASSUME NEW b \in Batches PROVE NewTokens(b) \in Nat /\ \A i \in 1..Len(b) : Offset(b, i) \in Nat
<1>0. Len(b) \in Nat
  BY BatchType
<1>1. PICK off : off = [i \in 1..(Len(b) + 1) |-> Offset(b, i)]
  OBVIOUS
<1>2. PICK len : len = [i \in 1..Len(b) |-> ExtendLen(b[i])]
  OBVIOUS
<1>3. Consecutive(off, len, Len(b)) /\ off[Len(b) + 1] = NewTokens(b)
  BY <1>1, <1>2, OffsetsAre
<1>4. \A i \in 1..(Len(b) + 1) : off[i] \in Nat
  BY <1>0, <1>3, BlocksInOrder
<1>5. \A i \in 1..Len(b) : i \in 1..(Len(b) + 1) /\ off[i] = Offset(b, i)
  BY <1>0, <1>1
<1>6. Len(b) + 1 \in 1..(Len(b) + 1)
  BY <1>0
<1>. QED BY <1>3, <1>4, <1>5, <1>6

\* own2 is own, with each slot of X given to one request.
Assigned(own2, own, X) ==
  /\ DOMAIN own \subseteq DOMAIN own2 /\ \A x \in DOMAIN own : own[x] \subseteq own2[x]
  /\ \A x \in DOMAIN own2 : \A j \in own2[x] : j \in X \/ (x \in DOMAIN own /\ j \in own[x])
  /\ \A x, y \in DOMAIN own2 : x # y => own2[x] \cap own2[y] \cap X = {}
  /\ \A j \in X : \E x \in DOMAIN own2 : j \in own2[x]

\* c2 has the data of c, but in X.
Rewritten(c2, c, X) == \A j \in Slots \ X : c2[j] = c[j]

\* Requests get the slots of X, which nobody had, and their data is written.
LEMMA OwnedAssign ==
  ASSUME NEW F, NEW X, F \cap X = {}, NEW kv, NEW own, NEW c, Owned(F \cup X, kv, own, c),
         NEW c2, Rewritten(c2, c, X), NEW own2, Assigned(own2, own, X)
  PROVE  Owned(F, kv, own2, c2)
<1>. USE DEF Assigned, Rewritten
<1>1. F \subseteq Slots /\ X \subseteq Slots
  BY DEF Owned
<1>2. ASSUME NEW p \in DOMAIN kv, kv[p] # 0
      PROVE  kv[p] \in Slots \ F /\ kv[p] \notin X /\ c2[kv[p]] = p
  <2>1. kv[p] \in Slots \ (F \cup X) /\ c[kv[p]] = p
    BY <1>2 DEF Owned
  <2>. QED BY <2>1
<1>3. ASSUME NEW x \in DOMAIN own2
      PROVE  own2[x] \subseteq Slots \ F /\ \A p \in DOMAIN kv : kv[p] \notin own2[x]
  <2>1. ASSUME NEW j \in own2[x] PROVE j \in Slots \ F /\ \A p \in DOMAIN kv : kv[p] # j
    <3>1. CASE j \in X
      BY <1>1, <1>2, <3>1, SlotsFinite
    <3>2. CASE x \in DOMAIN own /\ j \in own[x]
      BY <3>2 DEF Owned
    <3>. QED BY <3>1, <3>2
  <2>. QED BY <2>1
<1>4. ASSUME NEW x \in DOMAIN own2, NEW y \in DOMAIN own2, x # y, NEW j \in own2[x] \cap own2[y]
      PROVE  FALSE
  <2>1. j \notin X
    BY <1>4
  <2>2. x \in DOMAIN own /\ j \in own[x] /\ y \in DOMAIN own /\ j \in own[y]
    BY <1>4, <2>1
  <2>. QED BY <1>4, <2>2 DEF Owned
<1>5. ASSUME NEW j \in Slots
      PROVE  \/ j \in F
             \/ \E p \in DOMAIN kv : kv[p] = j
             \/ \E x \in DOMAIN own2 : j \in own2[x]
  <2>1. CASE j \in X
    BY <2>1
  <2>2. CASE j \notin X
    BY <2>2 DEF Owned
  <2>. QED BY <2>1, <2>2
<1>6. \A x, y \in DOMAIN own2 : x # y => own2[x] \cap own2[y] = {}
  BY <1>4
<1>. QED BY <1>1, <1>2, <1>3, <1>5, <1>6 DEF Owned

\* Every prompt with its answer fits into a row.
LEMMA MaxLenIs ==
  ASSUME IsFiniteSet(Reqs), Reqs # {}
  PROVE  MaxLen \in Nat /\ \A r \in Reqs : Len(Prompt[r]) \in Nat /\ Len(Prompt[r]) + MaxOutput <= MaxLen
<1>0. \A r \in Reqs : Len(Prompt[r]) \in Nat
  BY PromptPath, PrefixAt
<1>. DEFINE Tops(T) == {r \in T : \A q \in T : Len(Prompt[q]) <= Len(Prompt[r])}
            G == {T \in SUBSET Reqs : T # {} => Tops(T) # {}}
<1>1. ASSUME NEW T \in SUBSET Reqs, \A U \in (SUBSET T) \ {T} : U \in G PROVE T \in G
  <2>1. SUFFICES ASSUME T # {} PROVE Tops(T) # {}
    OBVIOUS
  <2>2. PICK r : r \in T
    BY <2>1
  <2>3. T \ {r} \in (SUBSET T) \ {T}
    BY <2>2
  <2>4. T \ {r} \in G
    <3>. HIDE DEF G
    <3>. QED BY <1>1, <2>3
  <2>5. CASE T \ {r} = {}
    <3>1. \A q \in T : q = r
      BY <2>5
    <3>2. Len(Prompt[r]) <= Len(Prompt[r])
      BY <1>0, <2>2
    <3>. QED BY <2>2, <3>1, <3>2
  <2>6. CASE T \ {r} # {}
    <3>1. PICK m \in T \ {r} : \A q \in T \ {r} : Len(Prompt[q]) <= Len(Prompt[m])
      BY <2>4, <2>6
    <3>2. Len(Prompt[m]) \in Nat /\ Len(Prompt[r]) \in Nat
      BY <1>0, <2>2
    <3>3. CASE Len(Prompt[r]) <= Len(Prompt[m])
      <4>1. \A q \in T : Len(Prompt[q]) <= Len(Prompt[m])
        BY <3>1, <3>3
      <4>. QED BY <4>1
    <3>4. CASE ~(Len(Prompt[r]) <= Len(Prompt[m]))
      <4>1. ASSUME NEW q \in T PROVE Len(Prompt[q]) <= Len(Prompt[r])
        <5>1. Len(Prompt[q]) \in Nat
          BY <1>0
        <5>2. q # r => Len(Prompt[q]) <= Len(Prompt[m])
          BY <3>1
        <5>. QED BY <3>2, <3>4, <5>1, <5>2
      <4>. QED BY <2>2, <4>1
    <3>. QED BY <3>3, <3>4
  <2>. QED BY <2>5, <2>6
<1>2. Reqs \in G
  <2>. HIDE DEF G
  <2>. QED BY <1>1, FiniteInduction
<1>3. PICK m \in Reqs : \A q \in Reqs : Len(Prompt[q]) <= Len(Prompt[m])
  BY <1>2
<1>. DEFINE S == {Len(Prompt[r]) : r \in Reqs}
<1>4. PICK n : n = CHOOSE l \in S : \A r \in Reqs : Len(Prompt[r]) <= l
  OBVIOUS
<1>5. n \in S /\ \A r \in Reqs : Len(Prompt[r]) <= n
  <2>1. \E x \in S : \A r \in Reqs : Len(Prompt[r]) <= x
    BY <1>3
  <2>. HIDE DEF S
  <2>. QED BY <1>4, <2>1
<1>6. n \in Nat
  BY <1>0, <1>5
<1>7. MaxLen = MaxOutput + n
  BY <1>4 DEF MaxLen
<1>. QED BY <1>0, <1>5, <1>6, <1>7, BoundsAssumption

\* Steps 1 and 1.5 of _allocate_extend() leave the indices alone.
LEMMA MatchedTreeIs ==
  ASSUME NEW b \in Batches, Range(b) \cap Live = {}, LiveInv(live), MemInv(mem, LockMap(live))
  PROVE  TreeInv(MatchedTree(b), LockMap(Live0(b))) /\ MatchedTree(b).kv = mem.tree.kv
<1>1. TreeInv(mem.tree, LockMap(live))
  BY DEF MemInv
<1>2. PICK t : t = FoldLeft(Walk, mem.tree, b)
  OBVIOUS
<1>3. TreeInv(t, LockMap(live)) /\ t.kv = mem.tree.kv
      /\ \A i \in 1..Len(b) : Matched(b[i]) \in Nodes(t) \cup {Root}
  BY <1>1, <1>2, WalksKeep
<1>4. TreeInv(FoldLeft(LockMatched, t, b), LockedUpto(b, Len(b))) /\ FoldLeft(LockMatched, t, b).kv = t.kv
  BY <1>3, LocksKeep
<1>5. LockMap(Live0(b)) = LockedUpto(b, Len(b))
  BY NewLiveIs DEF Live0
<1>. QED BY <1>2, <1>3, <1>4, <1>5 DEF MatchedTree

\* forward() of an extend: each new slot gets the data of its position, the others keep theirs.
LEMMA ExtendContent ==
  ASSUME NEW b \in Batches, NEW got, Distinct(got, NewTokens(b)),
         content = [j \in Slots |-> content[j]], Range(got) \subseteq Slots,
         NEW c, c = Overwrite(content, ComputedBy(b, got))
  PROVE  /\ c = [j \in Slots |-> c[j]]
         /\ Rewritten(c, content, Range(got))
         /\ \A i \in 1..Len(b) : \A k \in 1..ExtendLen(b[i]) :
              c[got[Offset(b, i) + k]] = SubSeq(Prompt[b[i]], 1, Reused(b[i]) + k)
<1>0. \A i \in 1..Len(b) : b[i] \in Reqs
  BY BatchType
<1>1. DOMAIN ComputedBy(b, got) = Range(got)
  BY DEF ComputedBy
<1>1a. /\ \A i, j \in 1..Len(b) : \A k \in 1..ExtendLen(b[i]) : \A l \in 1..ExtendLen(b[j]) :
            got[Offset(b, i) + k] = got[Offset(b, j) + l] => i = j /\ k = l
       /\ \A i \in 1..Len(b) : \A k \in 1..ExtendLen(b[i]) : got[Offset(b, i) + k] \in Range(got)
  BY SharesDivide DEF Divided
<1>2. c = [j \in Slots |-> IF j \in Range(got) THEN ComputedBy(b, got)[j] ELSE content[j]]
  BY <1>1 DEF Overwrite
<1>3. ASSUME NEW i \in 1..Len(b), NEW k \in 1..ExtendLen(b[i])
      PROVE  c[got[Offset(b, i) + k]] = SubSeq(Prompt[b[i]], 1, Reused(b[i]) + k)
  <2>1. PICK j : j = got[Offset(b, i) + k]
    OBVIOUS
  <2>2. j \in Range(got)
    BY <1>1a, <2>1
  <2>3. PICK v : v = SubSeq(Prompt[b[i]], 1, Reused(b[i]) + k)
    OBVIOUS
  <2>. DEFINE P == UNION {Along(Prompt[b[l]]) : l \in 1..Len(b)}
              Fits(p) == \E l \in 1..Len(b) : \E n \in 1..ExtendLen(b[l]) :
                           got[Offset(b, l) + n] = j /\ p = SubSeq(Prompt[b[l]], 1, Reused(b[l]) + n)
  <2>4. ComputedBy(b, got)[j] = CHOOSE p \in P : Fits(p)
    BY <2>2 DEF ComputedBy
  <2>5. v \in P
    <3>1. Prompt[b[i]] \in Paths /\ Len(Prompt[b[i]]) \in Nat /\ Reused(b[i]) \in Nat
          /\ ExtendLen(b[i]) = Len(Prompt[b[i]]) - Reused(b[i])
      BY <1>0, PromptPath, ReusedIs
    <3>2. Reused(b[i]) + k \in 1..Len(Prompt[b[i]])
      BY <3>1
    <3>3. v \in Along(Prompt[b[i]])
      BY <2>3, <3>1, <3>2, PrefixAt
    <3>. QED BY <3>3
  <2>6. Fits(v)
    BY <2>1, <2>3
  <2>7. ASSUME NEW p, Fits(p) PROVE p = v
    <3>1. PICK l \in 1..Len(b) : \E n \in 1..ExtendLen(b[l]) :
                           got[Offset(b, l) + n] = j /\ p = SubSeq(Prompt[b[l]], 1, Reused(b[l]) + n)
      BY <2>7
    <3>2. PICK n \in 1..ExtendLen(b[l]) :
                           got[Offset(b, l) + n] = j /\ p = SubSeq(Prompt[b[l]], 1, Reused(b[l]) + n)
      BY <3>1
    <3>3. l = i /\ n = k
      <4>1. got[Offset(b, l) + n] = got[Offset(b, i) + k]
        BY <2>1, <3>2
      <4>. QED BY <1>1a, <4>1
    <3>. QED BY <2>3, <3>2, <3>3
  <2>8. (CHOOSE p \in P : Fits(p)) = v
    <3>. HIDE DEF P, Fits
    <3>. QED BY <2>5, <2>6, <2>7
  <2>9. c[j] = v
    BY <1>2, <2>2, <2>4, <2>8
  <2>. QED BY <2>1, <2>3, <2>9
<1>. QED BY <1>2, <1>3 DEF Rewritten

-----------------------------------------------------------------------------
\* An extend, up to the allocation

\* The rows after _allocate_extend().
Rows0(b, got) ==
  [n \in 1..NumRows |->
     IF \E j \in 1..Len(b) : free_rows[j] = n
     THEN ExtendedRow(b, CHOOSE j \in 1..Len(b) : free_rows[j] = n, got)
     ELSE rows[n]]

\* In the table R each request of the batch has a row of its own; others did not change.
GivesRows(R, b, got) ==
  /\ R = [n \in 1..NumRows |-> R[n]]
  /\ \A i \in 1..Len(b) : free_rows[i] \in 1..NumRows /\ R[free_rows[i]] = ExtendedRow(b, i, got)
  /\ \A i, j \in 1..Len(b) : free_rows[i] = free_rows[j] => i = j
  /\ \A n \in 1..NumRows : (\A i \in 1..Len(b) : free_rows[i] # n) => R[n] = rows[n]

\* The first free rows go to the batch.
LEMMA RowsGiven ==
  ASSUME NEW b \in Batches, Spare(free_rows, live), Len(b) <= Len(free_rows),
         NEW got, NEW R, R = Rows0(b, got)
  PROVE  GivesRows(R, b, got)
<1>0. Len(b) \in Nat /\ NumRows \in Nat /\ Len(free_rows) \in Nat
  BY BatchType, PoolAssumption DEF Spare
<1>1. /\ \A i \in 1..Len(b) : i \in 1..Len(free_rows) /\ free_rows[i] \in 1..NumRows
      /\ \A i, j \in 1..Len(b) : free_rows[i] = free_rows[j] => i = j
  BY <1>0 DEF Spare
<1>2. ASSUME NEW i \in 1..Len(b) PROVE R[free_rows[i]] = ExtendedRow(b, i, got)
  <2>1. PICK n : n = free_rows[i]
    OBVIOUS
  <2>2. \E j \in 1..Len(b) : free_rows[j] = n
    BY <2>1
  <2>3. \A j \in 1..Len(b) : free_rows[j] = n => j = i
    BY <1>1, <2>1
  <2>4. (CHOOSE j \in 1..Len(b) : free_rows[j] = n) = i
    BY <2>2, <2>3
  <2>5. R[n] = ExtendedRow(b, CHOOSE j \in 1..Len(b) : free_rows[j] = n, got)
    BY <1>1, <2>1, <2>2 DEF Rows0
  <2>. QED BY <2>1, <2>4, <2>5
<1>3. ASSUME NEW n \in 1..NumRows, \A i \in 1..Len(b) : free_rows[i] # n PROVE R[n] = rows[n]
  BY <1>3 DEF Rows0
<1>4. R = [n \in 1..NumRows |-> R[n]]
  BY DEF Rows0
<1>. QED BY <1>1, <1>2, <1>3, <1>4 DEF GivesRows

\* Step 4 of _allocate_extend(): the cached slots, then the new ones, then what was there.
LEMMA NewRowIs ==
  ASSUME NEW b \in Batches, NEW i \in 1..Len(b), NEW r, r = b[i], NEW got,
         MaxLen \in Nat, Len(Prompt[r]) <= MaxLen, NEW row, row = ExtendedRow(b, i, got)
  PROVE  /\ row = [k \in 1..MaxLen |-> row[k]]
         /\ \A k \in 1..Reused(r) : row[k] = mem.tree.kv[SubSeq(Prompt[r], 1, k)]
         /\ \A k \in (Reused(r) + 1)..Len(Prompt[r]) :
              k - Reused(r) \in 1..ExtendLen(r) /\ row[k] = got[Offset(b, i) + (k - Reused(r))]
         /\ \A k \in 1..ExtendLen(r) :
              Reused(r) + k \in (Reused(r) + 1)..Len(Prompt[r]) /\ row[Reused(r) + k] = got[Offset(b, i) + k]
         /\ \A k \in (Len(Prompt[r]) + 1)..MaxLen : row[k] = rows[free_rows[i]][k]
<1>0. /\ Reused(r) \in Nat /\ Len(Prompt[r]) \in Nat /\ Reused(r) <= Len(Prompt[r])
      /\ ExtendLen(r) = Len(Prompt[r]) - Reused(r) /\ Offset(b, i) \in Nat
  BY BatchType, ReusedIs, OffsetType
<1>1. row = [k \in 1..MaxLen |->
               IF k <= Reused(r) THEN mem.tree.kv[SubSeq(Prompt[r], 1, k)]
               ELSE IF k <= Len(Prompt[r]) THEN got[Offset(b, i) + k - Reused(r)]
               ELSE rows[free_rows[i]][k]]
  BY DEF ExtendedRow
<1>2. ASSUME NEW k \in 1..Reused(r) PROVE row[k] = mem.tree.kv[SubSeq(Prompt[r], 1, k)]
  <2>1. k \in 1..MaxLen /\ k <= Reused(r)
    BY <1>0
  <2>. QED BY <1>1, <2>1
<1>3. ASSUME NEW k \in (Reused(r) + 1)..Len(Prompt[r])
      PROVE  k - Reused(r) \in 1..ExtendLen(r) /\ row[k] = got[Offset(b, i) + (k - Reused(r))]
  <2>1. k \in 1..MaxLen /\ ~(k <= Reused(r)) /\ k <= Len(Prompt[r]) /\ k - Reused(r) \in 1..ExtendLen(r)
        /\ Offset(b, i) + k - Reused(r) = Offset(b, i) + (k - Reused(r))
    BY <1>0
  <2>2. row[k] = got[Offset(b, i) + k - Reused(r)]
    BY <1>1, <2>1
  <2>. QED BY <2>1, <2>2
<1>4. ASSUME NEW k \in 1..ExtendLen(r)
      PROVE  Reused(r) + k \in (Reused(r) + 1)..Len(Prompt[r]) /\ row[Reused(r) + k] = got[Offset(b, i) + k]
  <2>1. Reused(r) + k \in (Reused(r) + 1)..Len(Prompt[r]) /\ (Reused(r) + k) - Reused(r) = k
    BY <1>0
  <2>2. row[Reused(r) + k] = got[Offset(b, i) + ((Reused(r) + k) - Reused(r))]
    BY <1>3, <2>1
  <2>. QED BY <2>1, <2>2
<1>5. ASSUME NEW k \in (Len(Prompt[r]) + 1)..MaxLen PROVE row[k] = rows[free_rows[i]][k]
  <2>1. k \in 1..MaxLen /\ ~(k <= Reused(r)) /\ ~(k <= Len(Prompt[r]))
    BY <1>0
  <2>. QED BY <1>1, <2>1
<1>. QED BY <1>1, <1>2, <1>3, <1>4, <1>5

\* A row outlives an allocation: what its request holds is not evicted, so none of its
\* slots is handed out.
LEMMA RowSurvives ==
  ASSUME NEW row, NEW q, NEW text, NEW w, NEW kv, NEW c, RowInv(row, q, text, w, kv, c),
         NEW kv2, PartOf(kv2, kv), \A p \in Along(q.lock) : p \in DOMAIN kv2,
         NEW F, NEW own, Owned(F, kv2, own, c), NEW r \in DOMAIN own, own[r] = Private(row, q, w),
         NEW X, X \subseteq F, NEW c2, Rewritten(c2, c, X)
  PROVE  RowInv(row, q, text, w, kv2, c2)
<1>0. w \in Nat /\ q.protected \in Nat /\ q.protected <= w
  BY DEF RowInv
<1>1. ASSUME NEW k \in 1..q.protected
      PROVE  row[k] = kv2[SubSeq(text, 1, k)] /\ SubSeq(text, 1, k) \in Along(q.lock)
             /\ SubSeq(text, 1, k) \in DOMAIN kv2
  <2>1. SubSeq(text, 1, k) \in Along(q.lock) /\ row[k] = kv[SubSeq(text, 1, k)]
    BY DEF RowInv
  <2>. QED BY <2>1 DEF PartOf
<1>2. ASSUME NEW k \in 1..w PROVE row[k] \in Slots /\ row[k] \notin X /\ c2[row[k]] = SubSeq(text, 1, k)
  <2>1. row[k] \in Slots /\ c[row[k]] = SubSeq(text, 1, k)
    BY DEF RowInv
  <2>2. row[k] \notin F
    <3>1. CASE k <= q.protected
      <4>1. k \in 1..q.protected
        BY <1>0, <3>1
      <4>2. PICK p \in DOMAIN kv2 : row[k] = kv2[p]
        BY <1>1, <4>1
      <4>3. kv2[p] # 0
        BY <2>1, <4>2, SlotsFinite
      <4>. QED BY <4>2, <4>3 DEF Owned
    <3>2. CASE ~(k <= q.protected)
      <4>1. k \in (q.protected + 1)..w
        BY <1>0, <3>2
      <4>2. row[k] \in own[r]
        BY <4>1 DEF Private
      <4>. QED BY <4>2 DEF Owned
    <3>. QED BY <3>1, <3>2
  <2>. QED BY <2>1, <2>2 DEF Rewritten
<1>. QED BY <1>1, <1>2 DEF RowInv

\* What is left of the tree has all its slots.
LEMMA PartHasSlots ==
  ASSUME NEW kv, NEW kv2, NEW R, NoneMissing(kv, R), PartOf(kv2, kv) PROVE NoneMissing(kv2, R)
BY DEF NoneMissing, PartOf

\* The tokens and positions of the requests after _allocate_extend().
Texts0(b) == [r \in Live \cup Range(b) |-> IF r \in Live THEN Full(r) ELSE Prompt[r]]
Lengths0(b) == [r \in Live \cup Range(b) |-> IF r \in Live THEN Len(Full(r)) - 1 ELSE Len(Prompt[r])]

\* The share of the request b[i] in the slots of an allocation.
Share(b, i, got) == {got[Offset(b, i) + k] : k \in 1..ExtendLen(b[i])}

\* The shares cover what was allocated, and no two overlap.
LEMMA SharesAre ==
  ASSUME NEW b, NEW got, Divided(got, b)
  PROVE  /\ \A i \in 1..Len(b) : Share(b, i, got) \subseteq Range(got)
         /\ \A j \in Range(got) : \E i \in 1..Len(b) : j \in Share(b, i, got)
         /\ \A i, j \in 1..Len(b) : i # j => Share(b, i, got) \cap Share(b, j, got) = {}
<1>1. ASSUME NEW i \in 1..Len(b) PROVE Share(b, i, got) \subseteq Range(got)
  BY DEF Share, Divided
<1>2. ASSUME NEW j \in Range(got) PROVE \E i \in 1..Len(b) : j \in Share(b, i, got)
  <2>1. PICK i \in 1..Len(b) : \E k \in 1..ExtendLen(b[i]) : got[Offset(b, i) + k] = j
    BY DEF Divided
  <2>2. PICK k \in 1..ExtendLen(b[i]) : got[Offset(b, i) + k] = j
    BY <2>1
  <2>3. j \in Share(b, i, got)
    BY <2>2 DEF Share
  <2>. QED BY <2>3
<1>3. ASSUME NEW i \in 1..Len(b), NEW j \in 1..Len(b), i # j, NEW x \in Share(b, i, got), x \in Share(b, j, got)
      PROVE  FALSE
  <2>1. PICK k \in 1..ExtendLen(b[i]) : x = got[Offset(b, i) + k]
    BY DEF Share
  <2>2. PICK l \in 1..ExtendLen(b[j]) : x = got[Offset(b, j) + l]
    BY <1>3 DEF Share
  <2>3. got[Offset(b, i) + k] = got[Offset(b, j) + l]
    BY <2>1, <2>2
  <2>4. i = j
    BY <2>3 DEF Divided
  <2>. QED BY <1>3, <2>4
<1>. QED BY <1>1, <1>2, <1>3

\* The row of a new request: what it reuses is locked, and so still cached; the rest is
\* computed now.
LEMMA NewRowInv ==
  ASSUME NEW b \in Batches, NEW i \in 1..Len(b), NEW r, r = b[i], NEW got,
         MaxLen \in Nat, Len(Prompt[r]) <= MaxLen, NEW row, row = ExtendedRow(b, i, got),
         Distinct(got, NewTokens(b)), content = [j \in Slots |-> content[j]], Range(got) \subseteq Slots,
         NEW c, c = Overwrite(content, ComputedBy(b, got)),
         NEW kv2, PartOf(kv2, mem.tree.kv), NoneMissing(mem.tree.kv, Range(b)),
         NEW F, NEW own, Owned(F, kv2, own, content), Range(got) \subseteq F,
         \A p \in Along(NewLock(r)) : p \in DOMAIN kv2
  PROVE  /\ RowInv(row, NewLive(b, i), Prompt[r], Len(Prompt[r]), kv2, c)
         /\ Private(row, NewLive(b, i), Len(Prompt[r])) = Share(b, i, got)
<1>0. /\ r \in Reqs /\ Reused(r) \in Nat /\ Len(Prompt[r]) \in Nat /\ Reused(r) <= Len(Prompt[r])
      /\ Prompt[r] \in Paths /\ ExtendLen(r) = Len(Prompt[r]) - Reused(r)
  BY BatchType, ReusedIs, PromptPath
<1>1. PICK q : q = NewLive(b, i)
  OBVIOUS
<1>2. q.protected = Reused(r) /\ q.lock = NewLock(r)
  BY <1>1 DEF NewLive, NewLock, NoLock
<1>3. /\ \A k \in 1..Reused(r) : row[k] = mem.tree.kv[SubSeq(Prompt[r], 1, k)]
      /\ \A k \in (Reused(r) + 1)..Len(Prompt[r]) :
           k - Reused(r) \in 1..ExtendLen(r) /\ row[k] = got[Offset(b, i) + (k - Reused(r))]
      /\ \A k \in 1..ExtendLen(r) :
           Reused(r) + k \in (Reused(r) + 1)..Len(Prompt[r]) /\ row[Reused(r) + k] = got[Offset(b, i) + k]
  BY NewRowIs
<1>4. /\ Rewritten(c, content, Range(got))
      /\ \A k \in 1..ExtendLen(r) : c[got[Offset(b, i) + k]] = SubSeq(Prompt[r], 1, Reused(r) + k)
  BY ExtendContent
<1>5. \A k \in 1..ExtendLen(r) : got[Offset(b, i) + k] \in Range(got)
  BY SharesDivide DEF Divided
<1>6. ASSUME NEW k \in 1..Reused(r)
      PROVE  /\ row[k] \in Slots /\ c[row[k]] = SubSeq(Prompt[r], 1, k)
             /\ SubSeq(Prompt[r], 1, k) \in Along(q.lock) /\ row[k] = kv2[SubSeq(Prompt[r], 1, k)]
  <2>1. PICK p : p = SubSeq(Prompt[r], 1, k)
    OBVIOUS
  <2>2. k \in 1..Len(Prompt[r]) /\ Reused(r) > 0
    BY <1>0
  <2>3. p \in Along(NewLock(r)) /\ p \in Along(Prompt[r])
    BY <1>0, <2>1, <2>2, ReusedIs, PrefixAt DEF NewLock
  <2>4. p \in DOMAIN kv2 /\ kv2[p] = mem.tree.kv[p] /\ kv2[p] # 0
    <3>1. r \in Range(b)
      BY BatchType
    <3>. QED BY <2>3, <3>1 DEF PartOf, NoneMissing
  <2>5. kv2[p] \in Slots \ F /\ content[kv2[p]] = p
    BY <2>4 DEF Owned
  <2>6. row[k] = kv2[p]
    BY <1>3, <2>1, <2>4
  <2>. QED BY <1>2, <1>4, <2>1, <2>3, <2>5, <2>6 DEF Rewritten
<1>7. ASSUME NEW k \in (Reused(r) + 1)..Len(Prompt[r])
      PROVE  row[k] \in Slots /\ c[row[k]] = SubSeq(Prompt[r], 1, k)
  <2>1. PICK l : l = k - Reused(r)
    OBVIOUS
  <2>2. l \in 1..ExtendLen(r) /\ row[k] = got[Offset(b, i) + l] /\ Reused(r) + l = k
    BY <1>0, <1>3, <2>1
  <2>3. c[row[k]] = SubSeq(Prompt[r], 1, Reused(r) + l)
    BY <1>4, <2>2
  <2>. QED BY <1>5, <2>2, <2>3
<1>8. ASSUME NEW k \in 1..Len(Prompt[r]) PROVE row[k] \in Slots /\ c[row[k]] = SubSeq(Prompt[r], 1, k)
  <2>1. k \in 1..Reused(r) \/ k \in (Reused(r) + 1)..Len(Prompt[r])
    BY <1>0
  <2>. QED BY <1>6, <1>7, <2>1
<1>10. RowInv(row, q, Prompt[r], Len(Prompt[r]), kv2, c)
  BY <1>0, <1>2, <1>6, <1>8 DEF RowInv
<1>11. Private(row, q, Len(Prompt[r])) = Share(b, i, got)
  <2>1. Private(row, q, Len(Prompt[r])) = {row[k] : k \in (Reused(r) + 1)..Len(Prompt[r])}
    BY <1>2 DEF Private
  <2>2. ASSUME NEW k \in (Reused(r) + 1)..Len(Prompt[r]) PROVE row[k] \in {got[Offset(b, i) + l] : l \in 1..ExtendLen(r)}
    BY <1>3
  <2>3. ASSUME NEW k \in 1..ExtendLen(r) PROVE got[Offset(b, i) + k] \in {row[l] : l \in (Reused(r) + 1)..Len(Prompt[r])}
    BY <1>3
  <2>. QED BY <2>1, <2>2, <2>3 DEF Share
<1>. QED BY <1>1, <1>10, <1>11

\* Memory, rows and requests after _allocate_extend().
Allocated(b, o) == [mem |-> o.mem, rows |-> Rows0(b, o.got), live |-> Live0(b)]

\* _allocate_extend() and forward(): the new requests own what was allocated for them, and
\* every request still reads what it read.
LEMMA AllocatedOwns ==
  ASSUME IsFiniteSet(Reqs), status = "up", LockInv, SlotInv, NEW b \in Batches, Range(b) \cap started = {},
         Len(b) <= Len(free_rows), NoneMissing(mem.tree.kv, Range(b)),
         NEW o \in AllocKV([mem EXCEPT !.tree = MatchedTree(b)], NewTokens(b)), o.ok,
         NEW c, c = Overwrite(content, ComputedBy(b, o.got))
  PROVE  /\ Kept(Allocated(b, o), Texts0(b), Lengths0(b), c)
         /\ MemInv(o.mem, LockMap(Live0(b))) /\ c = [j \in Slots |-> c[j]]
<1>0. MemInv(mem, LockMap(live)) /\ LiveInv(live) /\ Live \subseteq started
  BY DEF LockInv
<1>2. /\ Kept(Now, Texts, Lengths, content) /\ started \subseteq Reqs
      /\ content = [j \in Slots |-> content[j]] /\ Spare(free_rows, live)
  BY DEF SlotInv
<1>3. Len(b) \in Nat /\ NumRows \in Nat
  BY BatchType, PoolAssumption
<1>4. /\ Range(b) = {b[i] : i \in 1..Len(b)} /\ \A i \in 1..Len(b) : b[i] \in Reqs /\ b[i] \notin Live
      /\ \A i, j \in 1..Len(b) : b[i] = b[j] => i = j
      /\ Range(b) \cap Live = {}
  <2>1. Range(b) \cap Live = {}
    BY <1>0
  <2>. QED BY <2>1, BatchType
<1>5. MaxLen \in Nat /\ \A r \in Reqs : Len(Prompt[r]) \in Nat /\ Len(Prompt[r]) <= MaxLen
  <2>1. Reqs # {}
    <3>1. b \in Seq(Reqs) /\ b # <<>>
      BY BatchType DEF Batches
    <3>. QED BY <3>1
  <2>2. MaxLen \in Nat /\ \A r \in Reqs : Len(Prompt[r]) \in Nat /\ Len(Prompt[r]) + MaxOutput <= MaxLen
    BY <2>1, MaxLenIs
  <2>. QED BY <2>2, BoundsAssumption
<1>6. PICK lv, L, own : lv = Live0(b) /\ L = LockMap(lv) /\ own = OwnMap(Now, Lengths)
  OBVIOUS
<1>7. PICK D : D = Live \cup Range(b)
  OBVIOUS
<1>8. /\ DOMAIN lv = D /\ \A r \in Live : lv[r] = live[r]
      /\ \A i \in 1..Len(b) : b[i] \in D /\ lv[b[i]] = NewLive(b, i)
      /\ \A r \in D : r \in Live \/ \E i \in 1..Len(b) : r = b[i]
  <2>1. DOMAIN lv = D /\ \A r \in Live : lv[r] = live[r]
    BY <1>6, <1>7 DEF Live0
  <2>2. ASSUME NEW i \in 1..Len(b) PROVE b[i] \in D /\ lv[b[i]] = NewLive(b, i)
    <3>1. b[i] \in D /\ b[i] \notin Live
      BY <1>4, <1>7
    <3>2. (CHOOSE j \in 1..Len(b) : b[j] = b[i]) = i
      BY <1>4
    <3>3. lv[b[i]] = NewLive(b, CHOOSE j \in 1..Len(b) : b[j] = b[i])
      BY <1>6, <1>7, <3>1 DEF Live0
    <3>. QED BY <3>1, <3>2, <3>3
  <2>. QED BY <1>4, <1>7, <2>1, <2>2
<1>9. TreeInv(MatchedTree(b), L) /\ MatchedTree(b).kv = mem.tree.kv
  BY <1>0, <1>4, <1>6, MatchedTreeIs
<1>10. PICK m : m = [mem EXCEPT !.tree = MatchedTree(b)]
  OBVIOUS
<1>11. /\ MemInv(m, L) /\ m.tree.kv = mem.tree.kv /\ Lists(m) /\ FreeOf(m) = FreeOf(mem)
  <2>1. PICK t, f, e : mem = [tree |-> t, free |-> f, release |-> e]
    BY <1>0 DEF MemInv
  <2>2. m = [tree |-> MatchedTree(b), free |-> f, release |-> e]
    BY <1>10, <2>1
  <2>3. Lists(mem)
    BY <1>2 DEF Kept, Now
  <2>4. MemInv(m, L)
    BY <1>0, <1>9, <1>10, WithTreeKeeps
  <2>. QED BY <1>9, <2>1, <2>2, <2>3, <2>4 DEF Lists, FreeOf
<1>12. Owned(FreeOf(m), m.tree.kv, own, content)
  <2>1. Owned(FreeOf(mem), mem.tree.kv, own, content)
    BY <1>2, <1>6 DEF Kept, Now
  <2>. QED BY <1>11, <2>1
<1>13. Handed(o, m, NewTokens(b), L, own, content)
  BY <1>10, <1>11, <1>12, OffsetType, AllocHands
<1>14. PICK F, X, kv2 : F = FreeOf(o.mem) /\ X = Range(o.got) /\ kv2 = o.mem.tree.kv
  OBVIOUS
<1>15. /\ Lists(o.mem) /\ MemInv(o.mem, L) /\ PartOf(kv2, mem.tree.kv) /\ Owned(F \cup X, kv2, own, content)
       /\ F \cap X = {} /\ Distinct(o.got, NewTokens(b))
  BY <1>11, <1>13, <1>14 DEF Handed
<1>16. X \subseteq Slots /\ Range(o.got) \subseteq Slots /\ Range(o.got) \subseteq F \cup X
  BY <1>14, <1>15 DEF Owned
<1>17. c = [j \in Slots |-> c[j]] /\ Rewritten(c, content, X)
  BY <1>2, <1>14, <1>15, <1>16, ExtendContent
<1>18. ASSUME NEW r \in D, NEW p \in Along(lv[r].lock) PROVE p \in DOMAIN kv2
  <2>1. r \in DOMAIN L /\ L[r] = lv[r].lock
    BY <1>6, <1>8 DEF LockMap
  <2>2. TreeInv(o.mem.tree, L)
    BY <1>15 DEF MemInv
  <2>. QED BY <1>14, <2>1, <2>2, HeldPaths
<1>19. NoneMissing(kv2, D)
  <2>1. NoneMissing(mem.tree.kv, Live)
    BY <1>2 DEF Kept, Now, Live
  <2>2. NoneMissing(mem.tree.kv, D)
    BY <1>7, <2>1 DEF NoneMissing
  <2>. QED BY <1>15, <2>2, PartHasSlots
<1>20. PICK R : R = Rows0(b, o.got)
  OBVIOUS
<1>21. /\ R = [n \in 1..NumRows |-> R[n]]
       /\ \A i \in 1..Len(b) : free_rows[i] \in 1..NumRows /\ R[free_rows[i]] = ExtendedRow(b, i, o.got)
       /\ \A i, j \in 1..Len(b) : free_rows[i] = free_rows[j] => i = j
       /\ \A n \in 1..NumRows : (\A i \in 1..Len(b) : free_rows[i] # n) => R[n] = rows[n]
  <2>1. GivesRows(R, b, o.got)
    BY <1>2, <1>20, RowsGiven
  <2>. QED BY <2>1 DEF GivesRows
<1>22. PICK w, text : w = Lengths0(b) /\ text = Texts0(b)
  OBVIOUS
<1>23. PICK s : s = Allocated(b, o)
  OBVIOUS
<1>24. s.mem = o.mem /\ s.rows = R /\ s.live = lv
  BY <1>6, <1>20, <1>23 DEF Allocated
<1>25. ASSUME NEW r \in Live
       PROVE  /\ lv[r].row \in 1..NumRows /\ R[lv[r].row] = rows[live[r].row]
              /\ RowInv(R[lv[r].row], lv[r], text[r], w[r], kv2, c)
              /\ OwnMap(s, w)[r] = own[r] /\ r \in DOMAIN own
              /\ \A i \in 1..Len(b) : free_rows[i] # lv[r].row
  <2>1. lv[r] = live[r] /\ r \in D /\ text[r] = Full(r) /\ w[r] = Len(Full(r)) - 1
    BY <1>7, <1>8, <1>22 DEF Texts0, Lengths0
  <2>2. r \in DOMAIN live /\ Now.live = live /\ Now.rows = rows /\ Now.mem = mem
        /\ Texts[r] = Full(r) /\ Lengths[r] = Len(Full(r)) - 1
    BY DEF Now, Live, Texts, Lengths
  <2>3. live[r].row \in 1..NumRows /\ RowInv(rows[live[r].row], live[r], Full(r), Len(Full(r)) - 1, mem.tree.kv, content)
    BY <1>2, <2>2 DEF Kept
  <2>4. live[r].row \in 1..NumRows /\ \A i \in 1..Len(b) : free_rows[i] # live[r].row
    <3>1. Len(free_rows) \in Nat /\ \A i \in 1..Len(b) : i \in 1..Len(free_rows)
      BY <1>2, <1>3 DEF Spare
    <3>. QED BY <1>2, <2>2, <2>3, <3>1 DEF Spare
  <2>5. R[lv[r].row] = rows[live[r].row]
    BY <1>21, <2>1, <2>4
  <2>6. own[r] = Private(rows[live[r].row], live[r], Len(Full(r)) - 1) /\ r \in DOMAIN own
    BY <1>6, <2>2 DEF OwnMap
  <2>7. OwnMap(s, w)[r] = own[r]
    BY <1>8, <1>24, <2>1, <2>5, <2>6 DEF OwnMap
  <2>8. RowInv(rows[live[r].row], live[r], Full(r), Len(Full(r)) - 1, kv2, c)
    <3>1. \A p \in Along(live[r].lock) : p \in DOMAIN kv2
      BY <1>18, <2>1
    <3>2. PICK q, row, tokens, n, G : /\ q = live[r] /\ row = rows[q.row] /\ tokens = Full(r)
                                      /\ n = Len(tokens) - 1 /\ G = F \cup X
      OBVIOUS
    <3>3. RowInv(row, q, tokens, n, mem.tree.kv, content) /\ own[r] = Private(row, q, n)
      BY <2>3, <2>6, <3>2
    <3>4. Owned(G, kv2, own, content) /\ X \subseteq G /\ \A p \in Along(q.lock) : p \in DOMAIN kv2
      BY <1>15, <3>1, <3>2
    <3>5. RowInv(row, q, tokens, n, kv2, c)
      BY <1>15, <1>17, <2>6, <3>3, <3>4, RowSurvives
    <3>. QED BY <3>2, <3>5
  <2>. QED BY <2>1, <2>3, <2>4, <2>5, <2>6, <2>7, <2>8
<1>26. ASSUME NEW i \in 1..Len(b)
       PROVE  /\ lv[b[i]].row = free_rows[i]
              /\ RowInv(R[lv[b[i]].row], lv[b[i]], text[b[i]], w[b[i]], kv2, c)
              /\ OwnMap(s, w)[b[i]] = Share(b, i, o.got)
  <2>1. PICK r, row, q : r = b[i] /\ row = ExtendedRow(b, i, o.got) /\ q = NewLive(b, i)
    OBVIOUS
  <2>2. r \in Reqs /\ r \in D /\ r \notin Live /\ lv[r] = q /\ text[r] = Prompt[r] /\ w[r] = Len(Prompt[r])
    BY <1>4, <1>7, <1>8, <1>22, <2>1 DEF Texts0, Lengths0
  <2>3. q.row = free_rows[i] /\ R[q.row] = row /\ q.lock = NewLock(r)
    BY <1>21, <2>1 DEF NewLive, NewLock, NoLock
  <2>5. \A p \in Along(NewLock(r)) : p \in DOMAIN kv2
    BY <1>18, <2>2, <2>3
  <2>6. /\ RowInv(row, q, Prompt[r], Len(Prompt[r]), kv2, c)
        /\ Private(row, q, Len(Prompt[r])) = Share(b, i, o.got)
    <3>1. PICK got, G, kv : got = o.got /\ G = F \cup X /\ kv = mem.tree.kv
      OBVIOUS
    <3>2. /\ c = Overwrite(content, ComputedBy(b, got)) /\ Distinct(got, NewTokens(b)) /\ Range(got) \subseteq Slots
          /\ Range(got) \subseteq G /\ Owned(G, kv2, own, content)
      BY <1>15, <1>16, <3>1
    <3>3. Len(Prompt[r]) <= MaxLen /\ row = ExtendedRow(b, i, got)
      BY <1>5, <2>1, <2>2, <3>1
    <3>4. /\ RowInv(row, NewLive(b, i), Prompt[r], Len(Prompt[r]), kv2, c)
          /\ Private(row, NewLive(b, i), Len(Prompt[r])) = Share(b, i, got)
      BY <1>2, <1>5, <1>15, <2>1, <2>5, <3>2, <3>3, NewRowInv
    <3>. QED BY <2>1, <3>1, <3>4
  <2>7. OwnMap(s, w)[r] = Private(row, q, Len(Prompt[r]))
    BY <1>8, <1>24, <2>2, <2>3 DEF OwnMap
  <2>. QED BY <2>1, <2>2, <2>3, <2>6, <2>7
<1>27. Owned(F, kv2, OwnMap(s, w), c)
  <2>1. PICK own2 : own2 = OwnMap(s, w)
    OBVIOUS
  <2>2. DOMAIN own2 = D /\ DOMAIN own = Live
    BY <1>6, <1>8, <1>24, <2>1 DEF OwnMap, Now, Live
  <2>3. Divided(o.got, b)
    BY <1>15, SharesDivide
  <2>4. \A r \in Live : own2[r] = own[r] /\ own[r] \cap X = {}
    BY <1>15, <1>25, <2>1, <2>2 DEF Owned
  <2>5. \A i \in 1..Len(b) : own2[b[i]] = Share(b, i, o.got)
    BY <1>26, <2>1
  <2>6. /\ \A i \in 1..Len(b) : own2[b[i]] \subseteq X
        /\ \A j \in X : \E i \in 1..Len(b) : j \in own2[b[i]]
        /\ \A i, j \in 1..Len(b) : i # j => own2[b[i]] \cap own2[b[j]] = {}
    BY <1>14, <2>3, <2>5, SharesAre
  <2>8. \A j \in X : \E r \in DOMAIN own2 : j \in own2[r]
    <3>1. SUFFICES ASSUME NEW j \in X PROVE \E r \in D : j \in own2[r]
      BY <2>2
    <3>2. PICK i \in 1..Len(b) : j \in own2[b[i]]
      BY <2>6
    <3>. QED BY <1>8, <3>2
  <2>9. \A x, y \in DOMAIN own2 : x # y => own2[x] \cap own2[y] \cap X = {}
    <3>1. SUFFICES ASSUME NEW x \in D, NEW y \in D, x # y PROVE own2[x] \cap own2[y] \cap X = {}
      BY <2>2
    <3>2. CASE x \in Live \/ y \in Live
      BY <2>4, <3>2
    <3>3. CASE x \notin Live /\ y \notin Live
      <4>1. PICK i \in 1..Len(b) : x = b[i]
        BY <1>8, <3>3
      <4>2. PICK j \in 1..Len(b) : y = b[j]
        BY <1>8, <3>3
      <4>3. i # j
        BY <3>1, <4>1, <4>2
      <4>. QED BY <2>6, <4>1, <4>2, <4>3
    <3>. QED BY <3>2, <3>3
  <2>10. \A x \in DOMAIN own2 : \A j \in own2[x] : j \in X \/ (x \in DOMAIN own /\ j \in own[x])
    BY <1>8, <2>2, <2>4, <2>6
  <2>11. DOMAIN own \subseteq DOMAIN own2 /\ \A x \in DOMAIN own : own[x] \subseteq own2[x]
    BY <1>7, <2>2, <2>4
  <2>12. Assigned(own2, own, X)
    BY <2>8, <2>9, <2>10, <2>11 DEF Assigned
  <2>13. Owned(F, kv2, own2, c)
    BY <1>15, <1>17, <2>12, OwnedAssign
  <2>. QED BY <2>1, <2>13
<1>28. R = [n \in 1..NumRows |-> [k \in 1..MaxLen |-> R[n][k]]]
  <2>1. ASSUME NEW n \in 1..NumRows PROVE R[n] = [k \in 1..MaxLen |-> R[n][k]]
    <3>1. CASE \E i \in 1..Len(b) : free_rows[i] = n
      <4>1. PICK i \in 1..Len(b) : free_rows[i] = n
        BY <3>1
      <4>2. R[n] = ExtendedRow(b, i, o.got)
        BY <1>21, <4>1
      <4>. QED BY <4>2 DEF ExtendedRow
    <3>2. CASE \A i \in 1..Len(b) : free_rows[i] # n
      <4>1. R[n] = rows[n]
        BY <1>21, <3>2
      <4>2. rows = [x \in 1..NumRows |-> [k \in 1..MaxLen |-> rows[x][k]]]
        BY <1>2 DEF Kept, Now
      <4>. QED BY <4>1, <4>2
    <3>. QED BY <3>1, <3>2
  <2>. QED BY <1>21, <2>1
<1>30. \A r \in D : lv[r].row \in 1..NumRows /\ RowInv(R[lv[r].row], lv[r], text[r], w[r], kv2, c)
  <2>1. SUFFICES ASSUME NEW r \in D
                 PROVE  lv[r].row \in 1..NumRows /\ RowInv(R[lv[r].row], lv[r], text[r], w[r], kv2, c)
    OBVIOUS
  <2>2. CASE r \in Live
    BY <1>3, <1>25, <2>2
  <2>3. CASE r \notin Live
    <3>1. PICK i \in 1..Len(b) : r = b[i]
      BY <1>8, <2>3
    <3>2. lv[r].row = free_rows[i] /\ free_rows[i] \in 1..NumRows
      BY <1>21, <1>26, <3>1
    <3>. QED BY <1>26, <3>1, <3>2
  <2>. QED BY <2>2, <2>3
<1>31. \A r, q \in D : r # q => lv[r].row # lv[q].row
  <2>1. SUFFICES ASSUME NEW r \in D, NEW q \in D, r # q PROVE lv[r].row # lv[q].row
    OBVIOUS
  <2>2. CASE r \in Live /\ q \in Live
    BY <1>2, <1>8, <2>1, <2>2 DEF Kept, Now, Live
  <2>3. ASSUME NEW x \in D, NEW y \in D, x \in Live, y \notin Live PROVE lv[x].row # lv[y].row
    <3>1. PICK i \in 1..Len(b) : y = b[i]
      BY <1>8, <2>3
    <3>2. lv[y].row = free_rows[i] /\ free_rows[i] # lv[x].row
      BY <1>25, <1>26, <2>3, <3>1
    <3>. QED BY <3>2
  <2>4. CASE r \notin Live /\ q \notin Live
    <3>1. PICK i \in 1..Len(b) : r = b[i]
      BY <1>8, <2>4
    <3>2. PICK j \in 1..Len(b) : q = b[j]
      BY <1>8, <2>4
    <3>3. i # j /\ lv[r].row = free_rows[i] /\ lv[q].row = free_rows[j]
      BY <1>26, <2>1, <3>1, <3>2
    <3>. QED BY <1>21, <3>3
  <2>. QED BY <2>2, <2>3, <2>4
<1>31a. RowsTyped(R)
  <2>1. ASSUME NEW n \in 1..NumRows, NEW k \in 1..MaxLen PROVE R[n][k] \in 0..PoolSize
    <3>1. CASE \E i \in 1..Len(b) : free_rows[i] = n
      <4>1. PICK i \in 1..Len(b) : free_rows[i] = n
        BY <3>1
      <4>2. PICK r, row : r = b[i] /\ row = ExtendedRow(b, i, o.got)
        OBVIOUS
      <4>3. /\ R[n] = row /\ r \in Reqs /\ r \in D /\ lv[r].row = n /\ w[r] = Len(Prompt[r])
            /\ RowInv(R[lv[r].row], lv[r], text[r], w[r], kv2, c)
        BY <1>4, <1>7, <1>8, <1>21, <1>22, <1>26, <4>1, <4>2 DEF Lengths0
      <4>4. CASE k <= Len(Prompt[r])
        <5>1. k \in 1..w[r]
          BY <1>5, <4>3, <4>4
        <5>2. R[n][k] \in Slots
          BY <4>3, <5>1 DEF RowInv
        <5>. QED BY <5>2, PoolAssumption DEF Slots
      <4>5. CASE ~(k <= Len(Prompt[r]))
        <5>1. k \in (Len(Prompt[r]) + 1)..MaxLen /\ Len(Prompt[r]) <= MaxLen
          BY <1>5, <4>3, <4>5
        <5>2. row[k] = rows[free_rows[i]][k]
          BY <1>5, <4>2, <5>1, NewRowIs
        <5>3. RowsTyped(rows)
          BY <1>2 DEF Kept, Now
        <5>. QED BY <4>1, <4>3, <5>2, <5>3 DEF RowsTyped
      <4>. QED BY <4>4, <4>5
    <3>2. CASE \A i \in 1..Len(b) : free_rows[i] # n
      <4>1. R[n] = rows[n]
        BY <1>21, <3>2
      <4>2. RowsTyped(rows)
        BY <1>2 DEF Kept, Now
      <4>. QED BY <4>1, <4>2 DEF RowsTyped
    <3>. QED BY <3>1, <3>2
  <2>. QED BY <2>1 DEF RowsTyped
<1>32. Kept(s, text, w, c)
  <2>1. /\ Lists(s.mem) /\ Owned(FreeOf(s.mem), s.mem.tree.kv, OwnMap(s, w), c)
        /\ NoneMissing(s.mem.tree.kv, DOMAIN s.live)
    BY <1>8, <1>14, <1>15, <1>19, <1>24, <1>27
  <2>2. s.rows = [n \in 1..NumRows |-> [k \in 1..MaxLen |-> s.rows[n][k]]]
    BY <1>24, <1>28
  <2>2a. RowsTyped(s.rows)
    BY <1>24, <1>31a
  <2>3. \A r \in DOMAIN s.live :
          /\ s.live[r].row \in 1..NumRows
          /\ RowInv(s.rows[s.live[r].row], s.live[r], text[r], w[r], s.mem.tree.kv, c)
    BY <1>8, <1>14, <1>24, <1>30
  <2>4. \A r, q \in DOMAIN s.live : r # q => s.live[r].row # s.live[q].row
    BY <1>8, <1>24, <1>31
  <2>. QED BY <2>1, <2>2, <2>2a, <2>3, <2>4 DEF Kept
<1>. QED BY <1>6, <1>15, <1>17, <1>22, <1>23, <1>32

-----------------------------------------------------------------------------
\* An extend, with the insertions and the first tokens

\* In s2 every request reads what it reads in s.
SameReads(s2, s, text2, text, w2, w) ==
  /\ s2.mem = s.mem /\ s2.rows = s.rows /\ DOMAIN s2.live = DOMAIN s.live
  /\ \A r \in DOMAIN s.live :
       /\ s2.live[r].row = s.live[r].row /\ s2.live[r].protected = s.live[r].protected
       /\ s2.live[r].lock = s.live[r].lock
       /\ w2[r] = w[r] /\ \A k \in 1..w[r] : SubSeq(text2[r], 1, k) = SubSeq(text[r], 1, k)

\* What was put out does not matter to the rows.
LEMMA KeptIfSame ==
  ASSUME NEW s, NEW text, NEW w, NEW c, Kept(s, text, w, c),
         NEW s2, NEW text2, NEW w2, SameReads(s2, s, text2, text, w2, w)
  PROVE  Kept(s2, text2, w2, c)
<1>. USE DEF SameReads
<1>1. ASSUME NEW r \in DOMAIN s.live
      PROVE  /\ s2.live[r].row \in 1..NumRows
             /\ RowInv(s2.rows[s2.live[r].row], s2.live[r], text2[r], w2[r], s2.mem.tree.kv, c)
             /\ OwnMap(s2, w2)[r] = OwnMap(s, w)[r]
  <2>1. PICK row, q, x, n : row = s.rows[s.live[r].row] /\ q = s.live[r] /\ x = text[r] /\ n = w[r]
    OBVIOUS
  <2>2. PICK q2, x2 : q2 = s2.live[r] /\ x2 = text2[r]
    OBVIOUS
  <2>3. /\ s2.rows[q2.row] = row /\ q2.protected = q.protected /\ q2.lock = q.lock /\ w2[r] = n
        /\ \A k \in 1..n : SubSeq(x2, 1, k) = SubSeq(x, 1, k)
    BY <2>1, <2>2
  <2>4. RowInv(row, q, x, n, s.mem.tree.kv, c)
    BY <2>1 DEF Kept
  <2>5. \A k \in 1..q.protected : k \in 1..n
    BY <2>4 DEF RowInv
  <2>6. RowInv(row, q2, x2, n, s.mem.tree.kv, c)
    BY <2>3, <2>4, <2>5 DEF RowInv
  <2>7. OwnMap(s2, w2)[r] = OwnMap(s, w)[r]
    <3>1. Private(row, q2, n) = Private(row, q, n)
      BY <2>3 DEF Private
    <3>2. OwnMap(s2, w2)[r] = Private(row, q2, n)
      BY <2>2, <2>3 DEF OwnMap
    <3>3. OwnMap(s, w)[r] = Private(row, q, n)
      BY <2>1 DEF OwnMap
    <3>. QED BY <3>1, <3>2, <3>3
  <2>. QED BY <2>2, <2>3, <2>6, <2>7 DEF Kept
<1>2. OwnMap(s2, w2) = OwnMap(s, w)
  BY <1>1 DEF OwnMap
<1>3. \A r, q \in DOMAIN s2.live : r # q => s2.live[r].row # s2.live[q].row
  BY DEF Kept
<1>4. /\ Lists(s2.mem) /\ Owned(FreeOf(s2.mem), s2.mem.tree.kv, OwnMap(s2, w2), c)
      /\ NoneMissing(s2.mem.tree.kv, DOMAIN s2.live)
  BY <1>2 DEF Kept
<1>5. /\ s2.rows = [n \in 1..NumRows |-> [k \in 1..MaxLen |-> s2.rows[n][k]]] /\ RowsTyped(s2.rows)
  BY DEF Kept
<1>6. \A r \in DOMAIN s2.live :
        /\ s2.live[r].row \in 1..NumRows
        /\ RowInv(s2.rows[s2.live[r].row], s2.live[r], text2[r], w2[r], s2.mem.tree.kv, c)
  BY <1>1
<1>. QED BY <1>3, <1>4, <1>5, <1>6 DEF Kept

\* A longer sequence has the same beginning.
LEMMA SameBeginning ==
  ASSUME NEW p \in Paths, NEW x \in Tok
  PROVE  /\ p \o <<x>> \in Paths /\ Append(p, x) \in Paths /\ Len(p \o <<x>>) = Len(p) + 1 /\ Len(Append(p, x)) = Len(p) + 1
         /\ \A k \in 1..Len(p) : SubSeq(p \o <<x>>, 1, k) = SubSeq(p, 1, k) /\ SubSeq(Append(p, x), 1, k) = SubSeq(p, 1, k)
         /\ SubSeq(Append(p, x), 1, Len(p) + 1) = Append(p, x)
<1>1. PICK n : n = Len(p) /\ n \in Nat
  BY DEF Paths
<1>2. p \o <<x>> = Append(p, x)
  BY DEF Paths
<1>3. PICK a : a = Append(p, x)
  OBVIOUS
<1>4. a \in Paths /\ Len(a) = n + 1 /\ \A i \in 1..n : a[i] = p[i]
  BY <1>1, <1>3 DEF Paths
<1>5. ASSUME NEW k \in 1..n PROVE SubSeq(a, 1, k) = SubSeq(p, 1, k)
  BY <1>1, <1>4 DEF Paths
<1>6. SubSeq(a, 1, n + 1) = a
  BY <1>1, <1>4 DEF Paths
<1>. QED BY <1>1, <1>2, <1>3, <1>4, <1>5, <1>6

\* An insertion moves the lock of a request to its whole prompt; its row stays its own.
LEMMA InsertsLock ==
  ASSUME NEW b \in Batches, NEW s, NEW out, ServedInv(s, out), Range(b) \subseteq DOMAIN out,
         \A x \in DOMAIN out : x \notin Range(b) => s.live[x].lock = Prompt[x]
  PROVE  LET t == FoldLeft(InsertPrompt, s, b)
         IN  \A x \in DOMAIN out : t.live[x].lock = Prompt[x] /\ t.live[x].row = s.live[x].row
<1>0. b \in Seq(Reqs) /\ Len(b) \in Nat /\ \A i \in 1..Len(b) : b[i] \in DOMAIN out
  BY BatchType
<1>1. PICK h : IsChain("insert", s, b, h) /\ FoldLeft(InsertPrompt, s, b) = h[Len(b)]
  BY <1>0, InsertChain
<1>. DEFINE Left(i) == {x \in DOMAIN out : \E j \in 1..Len(b) : j > i /\ b[j] = x}
            G == {i \in Nat : i <= Len(b) => /\ ServedInv(h[i], out)
                                             /\ \A x \in DOMAIN out : h[i].live[x].row = s.live[x].row
                                             /\ \A x \in DOMAIN out \ Left(i) : h[i].live[x].lock = Prompt[x]}
<1>2. 0 \in G
  <2>1. h[0] = s
    BY <1>1 DEF IsChain
  <2>2. \A x \in DOMAIN out \ Left(0) : x \notin Range(b)
    BY <1>0, BatchType
  <2>. QED BY <2>1, <2>2
<1>3. ASSUME NEW i \in Nat, i \in G PROVE i + 1 \in G
  <2>1. SUFFICES ASSUME i + 1 <= Len(b)
                 PROVE  /\ ServedInv(h[i + 1], out)
                        /\ \A x \in DOMAIN out : h[i + 1].live[x].row = s.live[x].row
                        /\ \A x \in DOMAIN out \ Left(i + 1) : h[i + 1].live[x].lock = Prompt[x]
    OBVIOUS
  <2>2. i <= Len(b) /\ i + 1 \in 1..Len(b) /\ (i + 1) - 1 = i
    BY <1>0, <2>1
  <2>3. h[i + 1] = InsertPrompt(h[i], b[i + 1])
    <3>1. h[i + 1] = Each("insert", h[(i + 1) - 1], b[i + 1])
      BY <1>1, <2>2 DEF IsChain
    <3>. QED BY <2>2, <3>1 DEF Each
  <2>4. /\ ServedInv(h[i], out) /\ \A x \in DOMAIN out : h[i].live[x].row = s.live[x].row
        /\ \A x \in DOMAIN out \ Left(i) : h[i].live[x].lock = Prompt[x]
    BY <1>3, <2>2
  <2>5. PICK y : y = b[i + 1] /\ y \in DOMAIN out
    BY <1>0, <2>2
  <2>6. ServedInv(h[i + 1], out)
    BY <2>3, <2>4, <2>5, InsertPromptKeeps
  <2>7. PICK lv : lv = h[i].live
    OBVIOUS
  <2>8. DOMAIN lv = DOMAIN out /\ \A z \in DOMAIN out : IsLive(lv[z])
    BY <2>4, <2>7 DEF ServedInv, LiveInv
  <2>9. h[i + 1].live = [lv EXCEPT ![y].protected = Len(Prompt[y]), ![y].lock = Prompt[y]]
    <3>1. PICK g, l, p : g = h[i] /\ p = Prompt[y]
                        /\ l = [g.live EXCEPT ![y].protected = Len(p), ![y].lock = p]
      OBVIOUS
    <3>2. InsertPrompt(g, y).live = l
      BY <3>1 DEF InsertPrompt
    <3>. QED BY <2>3, <2>5, <2>7, <3>1, <3>2
  <2>10. h[i + 1].live[y].lock = Prompt[y] /\ h[i + 1].live[y].row = lv[y].row
    <3>1. PICK q, n, p : q = lv[y] /\ n = Len(Prompt[y]) /\ p = Prompt[y]
      OBVIOUS
    <3>2. h[i + 1].live[y] = [[q EXCEPT !.protected = n] EXCEPT !.lock = p]
      BY <2>5, <2>8, <2>9, <3>1
    <3>3. PICK z : z = [[q EXCEPT !.protected = n] EXCEPT !.lock = p]
      OBVIOUS
    <3>4. z.lock = p /\ z.row = q.row
      BY <2>5, <2>8, <3>1, <3>3 DEF IsLive
    <3>. QED BY <3>1, <3>2, <3>3, <3>4
  <2>11. \A x \in DOMAIN out : x # y => h[i + 1].live[x] = lv[x]
    BY <2>5, <2>8, <2>9
  <2>12. \A x \in DOMAIN out : h[i + 1].live[x].row = s.live[x].row
    BY <2>4, <2>5, <2>7, <2>10, <2>11
  <2>13. ASSUME NEW x \in DOMAIN out \ Left(i + 1), x # y PROVE h[i + 1].live[x].lock = Prompt[x]
    <3>1. x \notin Left(i)
      <4>1. SUFFICES ASSUME NEW j \in 1..Len(b), j > i, b[j] = x PROVE FALSE
        OBVIOUS
      <4>2. j # i + 1
        BY <2>5, <2>13, <4>1
      <4>3. j > i + 1
        BY <1>0, <4>1, <4>2
      <4>. QED BY <4>1, <4>3
    <3>. QED BY <2>4, <2>7, <2>11, <2>13, <3>1
  <2>. QED BY <2>6, <2>10, <2>12, <2>13
<1>4. Len(b) \in G
  <2>. HIDE DEF G
  <2>. QED BY <1>0, <1>2, <1>3, NatInductive
<1>5. \A x \in DOMAIN out : x \notin Left(Len(b))
  BY <1>0
<1>. QED BY <1>0, <1>1, <1>4, <1>5

\* The insertions and the first tokens of an extend.
LEMMA ServedOwns ==
  ASSUME IsFiniteSet(Reqs), status = "up", LockInv, SlotInv, NEW b \in Batches, Range(b) \cap started = {},
         Len(b) <= Len(free_rows), NoneMissing(mem.tree.kv, Range(b)),
         NEW o \in AllocKV([mem EXCEPT !.tree = MatchedTree(b)], NewTokens(b)), o.ok,
         NEW c, c = Overwrite(content, ComputedBy(b, o.got)), NEW s, s = InsertPrompts(Allocated(b, o), b)
  PROVE  /\ Kept(s, Texts0(b), Lengths0(b), c) /\ HoldsPrompt(s.live)
         /\ DOMAIN s.live = Live \cup Range(b) /\ LiveInv(s.live)
         /\ \A r \in Live : s.live[r].output = live[r].output
         /\ \A r \in Live \cup Range(b) : s.live[r].row = Live0(b)[r].row
<1>0. MemInv(mem, LockMap(live)) /\ LiveInv(live) /\ Live \subseteq started
  BY DEF LockInv
<1>1. PICK s0, lv, w, text, D :
        /\ s0 = Allocated(b, o) /\ lv = Live0(b)
        /\ w = Lengths0(b) /\ text = Texts0(b) /\ D = Live \cup Range(b)
  OBVIOUS
<1>2. s0 = [mem |-> o.mem, rows |-> Rows0(b, o.got), live |-> lv]
  BY <1>1 DEF Allocated
<1>3. Kept(s0, text, w, c) /\ MemInv(o.mem, LockMap(lv))
  BY <1>1, AllocatedOwns
<1>4. LiveInv(lv) /\ DOMAIN lv = D /\ \A r \in Live : lv[r] = live[r]
  BY <1>0, <1>1, NewLiveIs DEF Live0
<1>5. PICK out : out = [r \in D |-> lv[r].output]
  OBVIOUS
<1>6. ServedInv(s0, out)
  BY <1>2, <1>3, <1>4, <1>5 DEF ServedInv
<1>7. CASE cached
  <2>1. s = FoldLeft(InsertPrompt, s0, b)
    BY <1>1, <1>7 DEF InsertPrompts
  <2>2. Range(b) \subseteq DOMAIN out
    BY <1>1, <1>5
  <2>3. ServedInv(s, out)
    BY <1>6, <2>1, <2>2, InsertsKeep
  <2>4. MaxLen \in Nat
    <3>1. b \in Seq(Reqs) /\ b # <<>>
      BY BatchType DEF Batches
    <3>2. Reqs # {}
      BY <3>1
    <3>. QED BY <3>2, MaxLenIs
  <2>6. \A x \in Range(b) : text[x] = Prompt[x] /\ w[x] = Len(Prompt[x])
    <3>1. Range(b) \cap Live = {}
      BY <1>0
    <3>. QED BY <1>1, <3>1 DEF Texts0, Lengths0
  <2>7. Kept(s, text, w, c)
    BY <1>3, <1>6, <2>1, <2>2, <2>4, <2>6, InsertsOwn
  <2>8. DOMAIN s.live = D /\ LiveInv(s.live) /\ \A r \in D : s.live[r].output = lv[r].output
    BY <1>5, <2>3 DEF ServedInv
  <2>9. \A x \in DOMAIN out : s.live[x].lock = Prompt[x] /\ s.live[x].row = s0.live[x].row
    <3>1. \A x \in DOMAIN out : x \notin Range(b) => s0.live[x].lock = Prompt[x]
      <4>1. \A x \in Live : live[x].lock = Prompt[x]
        BY <1>7 DEF SlotInv, HoldsPrompt, Live
      <4>. QED BY <1>1, <1>2, <1>4, <1>5, <4>1
    <3>. QED BY <1>6, <2>1, <2>2, <3>1, InsertsLock
  <2>10. HoldsPrompt(s.live)
    BY <1>5, <2>8, <2>9 DEF HoldsPrompt
  <2>11. \A r \in D : s.live[r].row = lv[r].row
    BY <1>2, <1>5, <2>9
  <2>. QED BY <1>1, <1>4, <2>7, <2>8, <2>10, <2>11
<1>8. CASE ~cached
  <2>1. PICK lv1 : lv1 = [r \in D |-> IF r \in Range(b) THEN [lv[r] EXCEPT !.protected = 0] ELSE lv[r]]
    OBVIOUS
  <2>2. s = [s0 EXCEPT !.live = lv1]
    BY <1>1, <1>2, <1>4, <1>8, <2>1 DEF InsertPrompts
  <2>3. s.live = lv1 /\ s.mem = s0.mem /\ s.rows = s0.rows
    BY <1>2, <2>2
  <2>4. ASSUME NEW r \in D PROVE lv1[r] = lv[r]
    <3>1. CASE r \notin Range(b)
      BY <2>1, <3>1
    <3>2. CASE r \in Range(b)
      <4>1. r \notin Live /\ r \in Reqs
        BY <1>0, <3>2, BatchType
      <4>2. PICK i : i = CHOOSE j \in 1..Len(b) : b[j] = r
        OBVIOUS
      <4>3. b[i] = r
        BY <3>2, <4>2, BatchType
      <4>4. lv[r] = NewLive(b, i)
        BY <1>1, <3>2, <4>1, <4>2 DEF Live0
      <4>5. lv[r].protected = 0
        BY <1>8, <4>1, <4>3, <4>4, ReusedIs DEF NewLive
      <4>6. IsLive(lv[r])
        BY <1>4 DEF LiveInv
      <4>7. [lv[r] EXCEPT !.protected = 0] = lv[r]
        BY <4>5, <4>6 DEF IsLive
      <4>. QED BY <2>1, <3>2, <4>7
    <3>. QED BY <3>1, <3>2
  <2>5. lv1 = lv
    <3>1. lv1 = [r \in D |-> lv1[r]] /\ lv = [r \in D |-> lv[r]]
      BY <1>4, <2>1 DEF LiveInv
    <3>. QED BY <2>4, <3>1
  <2>6. s0.live = lv
    BY <1>2
  <2>7. SameReads(s, s0, text, text, w, w)
    BY <2>3, <2>5, <2>6 DEF SameReads
  <2>8. Kept(s, text, w, c)
    BY <1>3, <2>7, KeptIfSame
  <2>9. HoldsPrompt(s.live)
    BY <1>8 DEF HoldsPrompt
  <2>. QED BY <1>1, <1>4, <2>3, <2>5, <2>8, <2>9
<1>. QED BY <1>7, <1>8

\* An extend keeps the slots in order.
LEMMA ExtendOwns ==
  ASSUME IsFiniteSet(Reqs), LockInv, SlotInv, NEW b \in Batches, Extend(b), ~ExcessReadBites
  PROVE  SlotInv'
<1>0. /\ status = "up" /\ Range(b) \cap started = {} /\ started' = started \cup Range(b)
      /\ free_rows' = SubSeq(free_rows, Len(b) + 1, Len(free_rows))
  BY DEF Extend
<1>1. /\ MemInv(mem, LockMap(live)) /\ LiveInv(live) /\ Live \subseteq started
      /\ \A r \in Live : live[r].output \in Seq(OutTokens)
  BY <1>0 DEF LockInv
<1>2. /\ started \subseteq Reqs /\ Spare(free_rows, live) /\ Len(b) <= Len(free_rows)
      /\ \A r \in Live : live[r].output # <<>> /\ Len(live[r].output) <= MaxOutput
  BY <1>0 DEF SlotInv, Extend
<1>3. Len(b) \in Nat /\ NumRows \in Nat /\ started' \subseteq Reqs
  BY <1>0, <1>2, BatchType, PoolAssumption
<1>4. NoneMissing(mem.tree.kv, Range(b))
  <2>1. \A r \in Range(b) : r \in started' \ started
    BY <1>0
  <2>. QED BY <2>1 DEF ExcessReadBites, NoneMissing
<1>5. PICK o \in AllocKV([mem EXCEPT !.tree = MatchedTree(b)], NewTokens(b)) :
        /\ o.ok /\ content' = Overwrite(content, ComputedBy(b, o.got))
        /\ \E tokens \in [Range(b) -> OutTokens] :
             /\ mem' = Served(b, o).mem /\ rows' = Served(b, o).rows
             /\ live' = [r \in DOMAIN Served(b, o).live |->
                  IF r \in Range(b) THEN [Served(b, o).live[r] EXCEPT !.output = <<tokens[r]>>]
                  ELSE Served(b, o).live[r]]
  BY Zenon DEF Extend, Served, Live0
<1>6. PICK s : s = InsertPrompts(Allocated(b, o), b)
  OBVIOUS
<1>7. s = Served(b, o)
  BY <1>6 DEF Served, Allocated, Rows0
<1>8. PICK tokens \in [Range(b) -> OutTokens] :
        /\ mem' = s.mem /\ rows' = s.rows
        /\ live' = [r \in DOMAIN s.live |->
             IF r \in Range(b) THEN [s.live[r] EXCEPT !.output = <<tokens[r]>>] ELSE s.live[r]]
  BY <1>5, <1>7, Zenon
<1>9. PICK D, w, text : D = Live \cup Range(b) /\ w = Lengths0(b) /\ text = Texts0(b)
  OBVIOUS
<1>10. /\ Kept(s, text, w, content') /\ HoldsPrompt(s.live) /\ DOMAIN s.live = D /\ LiveInv(s.live)
       /\ \A r \in Live : s.live[r].output = live[r].output
       /\ \A r \in D : s.live[r].row = Live0(b)[r].row
  BY <1>0, <1>2, <1>4, <1>5, <1>6, <1>9, ServedOwns
<1>11. content' = [j \in Slots |-> content'[j]]
  BY <1>0, <1>2, <1>4, <1>5, AllocatedOwns
<1>12. DOMAIN live' = D /\ Live' = D
  BY <1>8, <1>10 DEF Live
<1>13. ASSUME NEW r \in D
       PROVE  /\ live'[r].row = s.live[r].row /\ live'[r].protected = s.live[r].protected
              /\ live'[r].lock = s.live[r].lock
              /\ live'[r].output = IF r \in Range(b) THEN <<tokens[r]>> ELSE live[r].output
  <2>1. PICK q : q = s.live[r]
    OBVIOUS
  <2>2. IsLive(q)
    BY <1>10, <2>1 DEF LiveInv
  <2>3. CASE r \in Range(b)
    <3>1. live'[r] = [q EXCEPT !.output = <<tokens[r]>>]
      BY <1>8, <1>10, <2>1, <2>3
    <3>. QED BY <2>1, <2>2, <2>3, <3>1 DEF IsLive
  <2>4. CASE r \notin Range(b)
    <3>1. live'[r] = q /\ r \in Live
      BY <1>8, <1>9, <1>10, <2>1, <2>4
    <3>. QED BY <1>10, <2>1, <2>4, <3>1
  <2>. QED BY <2>3, <2>4
<1>14. ASSUME NEW r \in D
       PROVE  /\ Texts'[r] = Prompt[r] \o live'[r].output /\ Lengths'[r] = Len(Prompt[r] \o live'[r].output) - 1
  BY <1>12 DEF Texts, Lengths, Full
<1>15. ASSUME NEW r \in D
       PROVE  Lengths'[r] = w[r] /\ \A k \in 1..w[r] : SubSeq(Texts'[r], 1, k) = SubSeq(text[r], 1, k)
  <2>1. CASE r \in Range(b)
    <3>1. r \notin Live /\ r \in Reqs
      BY <1>0, <1>1, <2>1, BatchType
    <3>2. PICK p, x : p = Prompt[r] /\ x = tokens[r]
      OBVIOUS
    <3>3. p \in Paths /\ x \in Tok
      BY <2>1, <3>1, <3>2, PromptPath DEF Tok
    <3>4. text[r] = p /\ w[r] = Len(p)
      BY <1>9, <3>1, <3>2 DEF Texts0, Lengths0
    <3>5. Texts'[r] = p \o <<x>> /\ Lengths'[r] = Len(p \o <<x>>) - 1
      BY <1>13, <1>14, <2>1, <3>2
    <3>6. Len(p \o <<x>>) = Len(p) + 1 /\ \A k \in 1..Len(p) : SubSeq(p \o <<x>>, 1, k) = SubSeq(p, 1, k)
      BY <3>3, SameBeginning
    <3>7. Len(p) \in Nat
      BY <3>3, PrefixAt
    <3>. QED BY <3>4, <3>5, <3>6, <3>7
  <2>2. CASE r \notin Range(b)
    <3>1. r \in Live
      BY <1>9, <2>2
    <3>2. text[r] = Prompt[r] \o live[r].output /\ w[r] = Len(Prompt[r] \o live[r].output) - 1
      BY <1>9, <3>1 DEF Texts0, Lengths0, Full
    <3>3. live'[r].output = live[r].output
      BY <1>13, <2>2
    <3>. QED BY <1>14, <3>2, <3>3
  <2>. QED BY <2>1, <2>2
<1>16. Kept(Now', Texts', Lengths', content')
  <2>1. Now'.mem = s.mem /\ Now'.rows = s.rows /\ Now'.live = live'
    BY <1>8 DEF Now
  <2>2. SameReads(Now', s, Texts', text, Lengths', w)
    BY <1>10, <1>12, <1>13, <1>15, <2>1 DEF SameReads
  <2>. QED BY <1>10, <2>2, KeptIfSame
<1>17. Spare(free_rows', live')
  <2>1. PICK n, f, g : n = Len(b) /\ g = free_rows /\ f = SubSeq(g, n + 1, Len(g))
    OBVIOUS
  <2>2. g \in Seq(1..NumRows) /\ Len(g) \in Nat /\ n \in Nat /\ n <= Len(g)
    BY <1>2, <1>3, <2>1 DEF Spare
  <2>3. f \in Seq(1..NumRows) /\ Len(f) = Len(g) - n /\ \A i \in 1..Len(f) : f[i] = g[i + n] /\ i + n \in 1..Len(g)
    <3>1. PICK S : S = 1..NumRows
      OBVIOUS
    <3>2. g \in Seq(S) /\ n + 1 \in 1..(Len(g) + 1)
      BY <2>2, <3>1
    <3>3. SubSeq(g, n + 1, Len(g)) \in Seq(S)
      BY <2>2, <3>2
    <3>4. Len(f) = Len(g) - n /\ \A i \in 1..Len(f) : f[i] = g[i + n] /\ i + n \in 1..Len(g)
      BY <2>1, <2>2, <3>2
    <3>. QED BY <2>1, <3>1, <3>3, <3>4
  <2>4. \A i, j \in 1..Len(g) : g[i] = g[j] => i = j
    BY <1>2, <2>1 DEF Spare
  <2>5. ASSUME NEW i \in 1..Len(f), NEW j \in 1..Len(f), f[i] = f[j] PROVE i = j
    <3>1. i + n = j + n
      BY <2>3, <2>4, <2>5
    <3>. QED BY <2>2, <2>3, <3>1
  <2>6. ASSUME NEW i \in 1..Len(f), NEW r \in D PROVE f[i] # live'[r].row
    <3>1. f[i] = g[i + n] /\ i + n \in 1..Len(g) /\ live'[r].row = s.live[r].row
      BY <1>13, <2>3
    <3>2. s.live[r].row = Live0(b)[r].row
      BY <1>10
    <3>3. CASE r \in Live
      <4>1. Live0(b)[r] = live[r]
        BY <3>3 DEF Live0
      <4>. QED BY <1>2, <2>1, <3>1, <3>2, <3>3, <4>1 DEF Spare, Live
    <3>4. CASE r \notin Live
      <4>1. r \in Range(b)
        BY <1>9, <3>4
      <4>2. PICK k : k = CHOOSE j \in 1..Len(b) : b[j] = r
        OBVIOUS
      <4>3. k \in 1..Len(b)
        BY <4>1, <4>2, BatchType
      <4>4. Live0(b)[r].row = g[k]
        BY <2>1, <3>4, <4>1, <4>2 DEF Live0, NewLive
      <4>5. k \in 1..Len(g) /\ k # i + n
        BY <2>1, <2>2, <2>3, <4>3
      <4>. QED BY <2>4, <3>1, <3>2, <4>4, <4>5
    <3>. QED BY <3>3, <3>4
  <2>7. free_rows' = f
    BY <1>0, <2>1
  <2>. QED BY <1>12, <2>3, <2>5, <2>6, <2>7 DEF Spare
<1>18. ASSUME NEW r \in D PROVE live'[r].output # <<>> /\ Len(live'[r].output) <= MaxOutput
  <2>1. CASE r \in Range(b)
    <3>1. live'[r].output = <<tokens[r]>>
      BY <1>13, <2>1
    <3>. QED BY <3>1, BoundsAssumption
  <2>2. CASE r \notin Range(b)
    <3>1. r \in Live /\ live'[r].output = live[r].output
      BY <1>9, <1>13, <2>2
    <3>. QED BY <1>2, <3>1
  <2>. QED BY <2>1, <2>2
<1>19. HoldsPrompt(live)'
  <2>1. cached' = cached
    BY DEF Extend
  <2>. QED BY <1>10, <1>12, <1>13, <2>1 DEF HoldsPrompt
<1>. QED BY <1>3, <1>11, <1>12, <1>16, <1>17, <1>18, <1>19 DEF SlotInv

-----------------------------------------------------------------------------
\* A decode

\* A sequence of the elements of a finite set has each once.
LEMMA SetToSeqIs ==
  ASSUME NEW S, IsFiniteSet(S), NEW b, b = SetToSeq(S)
  PROVE  /\ b \in Seq(S) /\ Len(b) \in Nat /\ DOMAIN b = 1..Len(b) /\ \A i \in 1..Len(b) : b[i] \in S
         /\ \A i, j \in 1..Len(b) : b[i] = b[j] => i = j
<1>1. PICK n : n = Cardinality(S)
  OBVIOUS
<1>2. n \in Nat /\ ExistsBijection(1..n, S)
  BY <1>1, FS_CardinalityType
<1>3. \E f \in [1..n -> S] : IsInjective(f)
  <2>1. PICK f : f \in Bijection(1..n, S)
    BY <1>2 DEF ExistsBijection
  <2>2. f \in [1..n -> S] /\ \A i, j \in 1..n : f[i] = f[j] => i = j
    BY <2>1 DEF Bijection, Injection, IsInjective
  <2>. QED BY <2>2 DEF IsInjective
<1>4. b = CHOOSE f \in [1..n -> S] : IsInjective(f)
  BY <1>1 DEF SetToSeq
<1>5. b \in [1..n -> S] /\ IsInjective(b)
  BY <1>3, <1>4
<1>6. b \in Seq(S) /\ Len(b) = n
  BY <1>2, <1>5
<1>. QED BY <1>2, <1>5, <1>6 DEF IsInjective

\* row2 is row with the slot j at position k.
SetsAt(row2, row, k, j) ==
  row2[k] = j /\ \A l \in 1..MaxLen : l # k => row2[l] = row[l]

\* Two texts with the same first w tokens.
Begins(text2, text, w) == \A k \in 1..w : SubSeq(text2, 1, k) = SubSeq(text, 1, k)

\* One more position of a row.
LEMMA RowGrows ==
  ASSUME MaxLen \in Nat, NEW row, NEW q, NEW text, NEW w, NEW kv, NEW c, RowInv(row, q, text, w, kv, c),
         NEW v, v = w + 1, v <= MaxLen, NEW j \in Slots, NEW row2, SetsAt(row2, row, v, j),
         NEW q2, q2.protected = q.protected, q2.lock = q.lock,
         NEW text2, Begins(text2, text, w), c[j] = SubSeq(text2, 1, v)
  PROVE  RowInv(row2, q2, text2, v, kv, c) /\ Private(row2, q2, v) = Private(row, q, w) \cup {j}
<1>0. w \in Nat /\ q.protected \in Nat /\ q.protected <= w
  BY DEF RowInv
<1>1. \A k \in 1..w : row2[k] = row[k]
  BY <1>0 DEF SetsAt
<1>2. row2[w + 1] = j
  BY DEF SetsAt
<1>3. ASSUME NEW k \in 1..(w + 1) PROVE row2[k] \in Slots /\ c[row2[k]] = SubSeq(text2, 1, k)
  <2>1. CASE k \in 1..w
    BY <1>1, <2>1 DEF RowInv, Begins
  <2>2. CASE k \notin 1..w
    <3>1. k = w + 1
      BY <1>0, <2>2
    <3>. QED BY <1>2, <3>1
  <2>. QED BY <2>1, <2>2
<1>5. ASSUME NEW k \in 1..q.protected
      PROVE  SubSeq(text2, 1, k) \in Along(q2.lock) /\ row2[k] = kv[SubSeq(text2, 1, k)]
  <2>1. k \in 1..w
    BY <1>0
  <2>. QED BY <1>1, <2>1 DEF RowInv, Begins
<1>6. RowInv(row2, q2, text2, w + 1, kv, c)
  BY <1>0, <1>3, <1>5 DEF RowInv
<1>7. Private(row2, q2, w + 1) = Private(row, q, w) \cup {j}
  <2>1. PICK a : a = q.protected + 1
    OBVIOUS
  <2>2. a..(w + 1) = (a..w) \cup {w + 1} /\ a..w \subseteq 1..w
    BY <1>0, <2>1
  <2>3. {row2[k] : k \in a..w} = {row[k] : k \in a..w}
    BY <1>1, <2>2
  <2>4. {row2[k] : k \in a..(w + 1)} = {row2[k] : k \in a..w} \cup {j}
    BY <1>2, <2>2
  <2>. QED BY <2>1, <2>3, <2>4 DEF Private
<1>. QED BY <1>6, <1>7

\* What a decode writes, and where.
DecodedRows(b, got) ==
  [n \in 1..NumRows |->
     [k \in 1..MaxLen |->
        IF \E i \in 1..Len(b) : live[b[i]].row = n /\ WritePos(b[i]) = k
        THEN got[CHOOSE i \in 1..Len(b) : live[b[i]].row = n] ELSE rows[n][k]]]

\* The tokens each new slot is computed from.
DecodedData(b, got) == [j \in Range(got) |-> Full(b[CHOOSE i \in 1..Len(b) : got[i] = j])]

\* The requests of b have different rows, and room in them.
WritesApart(b) ==
  /\ \A i \in 1..Len(b) : live[b[i]].row \in 1..NumRows /\ WritePos(b[i]) \in 1..MaxLen
  /\ \A i, j \in 1..Len(b) : live[b[i]].row = live[b[j]].row => i = j

\* One new slot in the row of each request of b, and no other change.
LEMMA DecodedRowsAre ==
  ASSUME MaxLen \in Nat, NEW b, Len(b) \in Nat, NumRows \in Nat,
         WritesApart(b), NEW got, NEW R, R = DecodedRows(b, got)
  PROVE  /\ R = [n \in 1..NumRows |-> [k \in 1..MaxLen |-> R[n][k]]]
         /\ \A i \in 1..Len(b) : SetsAt(R[live[b[i]].row], rows[live[b[i]].row], WritePos(b[i]), got[i])
<1>. USE DEF WritesApart
<1>1. R = [n \in 1..NumRows |-> [k \in 1..MaxLen |-> R[n][k]]]
  BY DEF DecodedRows
<1>2. ASSUME NEW n \in 1..NumRows, NEW k \in 1..MaxLen
      PROVE  /\ R[n][k] = IF \E i \in 1..Len(b) : live[b[i]].row = n /\ WritePos(b[i]) = k
                          THEN got[CHOOSE i \in 1..Len(b) : live[b[i]].row = n] ELSE rows[n][k]
             /\ (~ \E i \in 1..Len(b) : live[b[i]].row = n /\ WritePos(b[i]) = k) => R[n][k] = rows[n][k]
  BY DEF DecodedRows
<1>3. ASSUME NEW i \in 1..Len(b)
      PROVE  SetsAt(R[live[b[i]].row], rows[live[b[i]].row], WritePos(b[i]), got[i])
  <2>1. PICK n, p : n = live[b[i]].row /\ p = WritePos(b[i])
    OBVIOUS
  <2>2. n \in 1..NumRows /\ p \in 1..MaxLen
    BY <2>1
  <2>3. \A j \in 1..Len(b) : live[b[j]].row = n => j = i
    BY <2>1
  <2>4. (CHOOSE j \in 1..Len(b) : live[b[j]].row = n) = i
    BY <2>1, <2>3
  <2>5. R[n][p] = got[i]
    <3>1. \E j \in 1..Len(b) : live[b[j]].row = n /\ WritePos(b[j]) = p
      BY <2>1
    <3>. QED BY <1>2, <2>2, <2>4, <3>1
  <2>6. ASSUME NEW k \in 1..MaxLen, k # p PROVE R[n][k] = rows[n][k]
    <3>1. ~(\E j \in 1..Len(b) : live[b[j]].row = n /\ WritePos(b[j]) = k)
      BY <2>1, <2>3, <2>6
    <3>. QED BY <1>2, <2>2, <3>1
  <2>. QED BY <2>1, <2>5, <2>6 DEF SetsAt
<1>. QED BY <1>1, <1>3

\* forward() of a decode: each new slot gets the data of all tokens of its request.
LEMMA DecodedDataIs ==
  ASSUME NEW b, Len(b) \in Nat, NEW got, Distinct(got, Len(b)), Range(got) \subseteq Slots,
         content = [j \in Slots |-> content[j]], NEW c, c = Overwrite(content, DecodedData(b, got))
  PROVE  /\ c = [j \in Slots |-> c[j]] /\ Rewritten(c, content, Range(got))
         /\ \A i \in 1..Len(b) : got[i] \in Range(got) /\ c[got[i]] = Full(b[i])
         /\ \A j \in Range(got) : \E i \in 1..Len(b) : got[i] = j
<1>1. DOMAIN DecodedData(b, got) = Range(got)
  BY DEF DecodedData
<1>2. c = [j \in Slots |-> IF j \in Range(got) THEN DecodedData(b, got)[j] ELSE content[j]]
  BY <1>1 DEF Overwrite
<1>3. ASSUME NEW i \in 1..Len(b) PROVE got[i] \in Range(got) /\ c[got[i]] = Full(b[i])
  <2>1. PICK j : j = got[i]
    OBVIOUS
  <2>2. j \in Range(got)
    BY <2>1 DEF Range, Distinct
  <2>3. (CHOOSE k \in 1..Len(b) : got[k] = j) = i
    BY <2>1 DEF Distinct
  <2>4. DecodedData(b, got)[j] = Full(b[CHOOSE k \in 1..Len(b) : got[k] = j])
    BY <2>2 DEF DecodedData
  <2>. QED BY <1>2, <2>1, <2>2, <2>3, <2>4
<1>4. \A j \in Range(got) : \E i \in 1..Len(b) : got[i] = j
  BY DEF Range, Distinct
<1>. QED BY <1>2, <1>3, <1>4 DEF Rewritten

\* A decode keeps the slots in order: each request gets one more slot of its own.
LEMMA DecodeOwns ==
  ASSUME IsFiniteSet(Reqs), LockInv, SlotInv, NEW b, b = SetToSeq(Live), Decode(b) PROVE SlotInv'
<1>0. /\ status = "up" /\ status' = "up" /\ started' = started /\ free_rows' = free_rows
      /\ Range(b) = Live /\ b # <<>> /\ \A r \in Live : Len(live[r].output) < MaxOutput
  BY DEF Decode
<1>1. /\ MemInv(mem, LockMap(live)) /\ LiveInv(live)
      /\ \A r \in Live : live[r].output \in Seq(OutTokens)
  BY <1>0 DEF LockInv
<1>3. /\ Kept(Now, Texts, Lengths, content) /\ started \subseteq Reqs
      /\ content = [j \in Slots |-> content[j]] /\ Spare(free_rows, live) /\ HoldsPrompt(live)
  BY <1>0 DEF SlotInv
<1>4. NumRows \in Nat
  BY PoolAssumption
<1>5. IsFiniteSet(Live)
  <2>1. IsFiniteSet(DOMAIN LockMap(live))
    BY <1>1 DEF MemInv, TreeInv, Held
  <2>. QED BY <2>1 DEF LockMap, Live
<1>6. /\ Len(b) \in Nat /\ DOMAIN b = 1..Len(b) /\ \A i \in 1..Len(b) : b[i] \in Live
      /\ \A i, j \in 1..Len(b) : b[i] = b[j] => i = j
      /\ \A r \in Live : \E i \in 1..Len(b) : r = b[i]
  <2>1. /\ Len(b) \in Nat /\ DOMAIN b = 1..Len(b) /\ \A i \in 1..Len(b) : b[i] \in Live
        /\ \A i, j \in 1..Len(b) : b[i] = b[j] => i = j
    BY <1>5, SetToSeqIs
  <2>2. \A r \in Live : \E i \in 1..Len(b) : r = b[i]
    BY <1>0, <2>1 DEF Range
  <2>. QED BY <2>1, <2>2
<1>7. PICK own : own = OwnMap(Now, Lengths)
  OBVIOUS
<1>8. /\ Lists(mem) /\ Owned(FreeOf(mem), mem.tree.kv, own, content) /\ NoneMissing(mem.tree.kv, Live)
      /\ rows = [n \in 1..NumRows |-> [k \in 1..MaxLen |-> rows[n][k]]]
      /\ \A r, q \in Live : r # q => live[r].row # live[q].row
  BY <1>3, <1>7 DEF Kept, Now, Live
<1>9. ASSUME NEW r \in Live
      PROVE  /\ live[r].row \in 1..NumRows /\ own[r] = Private(rows[live[r].row], live[r], Len(Full(r)) - 1)
             /\ RowInv(rows[live[r].row], live[r], Full(r), Len(Full(r)) - 1, mem.tree.kv, content)
  <2>1. r \in DOMAIN live /\ Now.live = live /\ Now.rows = rows /\ Now.mem = mem
        /\ Texts[r] = Full(r) /\ Lengths[r] = Len(Full(r)) - 1
    BY DEF Now, Live, Texts, Lengths
  <2>2. live[r].row \in 1..NumRows /\ RowInv(rows[live[r].row], live[r], Full(r), Len(Full(r)) - 1, mem.tree.kv, content)
    BY <1>3, <2>1 DEF Kept
  <2>3. own[r] = Private(rows[live[r].row], live[r], Len(Full(r)) - 1)
    BY <1>7, <2>1 DEF OwnMap
  <2>. QED BY <2>2, <2>3
<1>10. MaxLen \in Nat /\ \A r \in Reqs : Len(Prompt[r]) \in Nat /\ Len(Prompt[r]) + MaxOutput <= MaxLen
  <2>1. Reqs # {}
    <3>1. Live # {}
      <4>1. Len(b) # 0
        <5>1. b \in Seq(Live)
          BY <1>5, SetToSeqIs
        <5>. QED BY <1>0, <5>1
      <4>2. 1 \in 1..Len(b)
        BY <1>6, <4>1
      <4>. QED BY <1>6, <4>2
    <3>. QED BY <1>1, <3>1 DEF LiveInv, Live
  <2>. QED BY <2>1, MaxLenIs
<1>11. PICK o \in AllocKV(mem, Len(b)) :
         /\ o.ok /\ mem' = o.mem /\ rows' = DecodedRows(b, o.got)
         /\ content' = Overwrite(content, DecodedData(b, o.got))
  BY Zenon DEF Decode, DecodedRows, DecodedData
<1>12. PICK tokens \in [Live -> OutTokens] :
         live' = [r \in Live |-> [live[r] EXCEPT !.output = Append(@, tokens[r])]]
  BY DEF Decode
<1>13. DOMAIN live' = Live /\ Live' = Live
  BY <1>12 DEF Live
<1>14. ASSUME NEW r \in Live
       PROVE  /\ live'[r].row = live[r].row /\ live'[r].protected = live[r].protected
              /\ live'[r].lock = live[r].lock /\ live'[r].output = Append(live[r].output, tokens[r])
              /\ r \in Reqs
  <2>1. r \in Reqs /\ IsLive(live[r])
    BY <1>1 DEF LiveInv, Live
  <2>2. PICK x : x = Append(live[r].output, tokens[r])
    OBVIOUS
  <2>3. live'[r] = [live[r] EXCEPT !.output = x]
    BY <1>12, <2>2
  <2>. QED BY <2>1, <2>2, <2>3 DEF IsLive
<1>15. ASSUME NEW r \in Live
       PROVE  /\ Full(r) \in Paths /\ tokens[r] \in Tok /\ Len(Full(r)) \in 1..MaxLen
              /\ Texts'[r] = Append(Full(r), tokens[r]) /\ Lengths'[r] = Len(Full(r))
              /\ live'[r].output # <<>> /\ Len(live'[r].output) <= MaxOutput
  <2>1. PICK p, e, x : p = Prompt[r] /\ e = live[r].output /\ x = tokens[r]
    OBVIOUS
  <2>2. p \in Seq(Tok) /\ e \in Seq(Tok) /\ x \in Tok /\ p # <<>>
    BY <1>1, <1>14, <2>1, PromptPath DEF Paths, Tok, Root
  <2>3. Full(r) = p \o e
    BY <2>1 DEF Full
  <2>4. /\ p \o e \in Seq(Tok) /\ Len(p \o e) = Len(p) + Len(e) /\ Len(p) \in Nat /\ Len(e) \in Nat /\ Len(p) # 0
        /\ p \o Append(e, x) = Append(p \o e, x) /\ Len(Append(p \o e, x)) = Len(p) + Len(e) + 1
        /\ Append(e, x) # <<>> /\ Len(Append(e, x)) = Len(e) + 1
    BY <2>2
  <2>5. Len(e) < MaxOutput /\ Len(p) + MaxOutput <= MaxLen
    BY <1>0, <1>10, <1>14, <2>1
  <2>6. Len(Full(r)) \in 1..MaxLen /\ Len(e) + 1 <= MaxOutput
    BY <1>10, <2>3, <2>4, <2>5, BoundsAssumption
  <2>7. Texts'[r] = p \o Append(e, x) /\ Lengths'[r] = Len(p \o Append(e, x)) - 1
    BY <1>13, <1>14, <2>1 DEF Texts, Lengths, Full
  <2>8. Lengths'[r] = Len(Full(r))
    BY <2>3, <2>4, <2>7
  <2>. QED BY <1>14, <2>1, <2>2, <2>3, <2>4, <2>6, <2>7, <2>8 DEF Paths
<1>16. Handed(o, mem, Len(b), LockMap(live), own, content)
  BY <1>1, <1>6, <1>8, AllocHands
<1>17. PICK got, F, X, kv2, c : got = o.got /\ F = FreeOf(o.mem) /\ X = Range(got) /\ kv2 = o.mem.tree.kv /\ c = content'
  OBVIOUS
<1>18. /\ Lists(o.mem) /\ MemInv(o.mem, LockMap(live)) /\ PartOf(kv2, mem.tree.kv) /\ Owned(F \cup X, kv2, own, content)
       /\ F \cap X = {} /\ Distinct(got, Len(b))
  BY <1>11, <1>16, <1>17 DEF Handed
<1>19. X \subseteq Slots
  BY <1>18 DEF Owned
<1>20. /\ c = [j \in Slots |-> c[j]] /\ Rewritten(c, content, X)
       /\ \A i \in 1..Len(b) : got[i] \in X /\ c[got[i]] = Full(b[i])
       /\ \A j \in X : \E i \in 1..Len(b) : got[i] = j
  <2>1. c = Overwrite(content, DecodedData(b, got)) /\ Range(got) \subseteq Slots
    BY <1>11, <1>17, <1>19
  <2>2. /\ c = [j \in Slots |-> c[j]] /\ Rewritten(c, content, Range(got))
        /\ \A i \in 1..Len(b) : got[i] \in Range(got) /\ c[got[i]] = Full(b[i])
        /\ \A j \in Range(got) : \E i \in 1..Len(b) : got[i] = j
    BY <1>3, <1>6, <1>18, <2>1, DecodedDataIs
  <2>. QED BY <1>17, <2>2
<1>21. PICK R : R = rows'
  OBVIOUS
<1>22. /\ R = [n \in 1..NumRows |-> [k \in 1..MaxLen |-> R[n][k]]]
       /\ \A i \in 1..Len(b) : SetsAt(R[live[b[i]].row], rows[live[b[i]].row], WritePos(b[i]), got[i])
  <2>1. \A i \in 1..Len(b) : live[b[i]].row \in 1..NumRows /\ WritePos(b[i]) \in 1..MaxLen
    BY <1>6, <1>9, <1>15 DEF WritePos
  <2>2. \A i, j \in 1..Len(b) : live[b[i]].row = live[b[j]].row => i = j
    BY <1>6, <1>8
  <2>3. R = DecodedRows(b, got)
    BY <1>11, <1>17, <1>21
  <2>4. WritesApart(b)
    BY <2>1, <2>2 DEF WritesApart
  <2>. QED BY <1>4, <1>6, <1>10, <2>3, <2>4, DecodedRowsAre
<1>23. ASSUME NEW r \in Live, NEW p \in Along(live[r].lock) PROVE p \in DOMAIN kv2
  <2>1. r \in DOMAIN LockMap(live) /\ LockMap(live)[r] = live[r].lock
    BY DEF LockMap, Live
  <2>2. TreeInv(o.mem.tree, LockMap(live))
    BY <1>18 DEF MemInv
  <2>. QED BY <1>17, <2>1, <2>2, HeldPaths
<1>24. PICK s, w, text : s = Now' /\ w = Lengths' /\ text = Texts'
  OBVIOUS
<1>25. s.mem = o.mem /\ s.rows = R /\ s.live = live'
  BY <1>11, <1>21, <1>24 DEF Now
<1>26. ASSUME NEW i \in 1..Len(b)
       PROVE  /\ s.live[b[i]].row = live[b[i]].row
              /\ RowInv(R[s.live[b[i]].row], s.live[b[i]], text[b[i]], w[b[i]], kv2, c)
              /\ OwnMap(s, w)[b[i]] = own[b[i]] \cup {got[i]}
  <2>1. PICK r, q, n, x, row : /\ r = b[i] /\ q = live[r] /\ x = Full(r) /\ n = Len(x) - 1
                               /\ row = rows[q.row]
    OBVIOUS
  <2>2. r \in Live /\ RowInv(row, q, x, n, mem.tree.kv, content) /\ own[r] = Private(row, q, n)
        /\ Len(x) \in 1..MaxLen /\ x \in Paths /\ tokens[r] \in Tok
    BY <1>6, <1>9, <1>15, <2>1
  <2>3. RowInv(row, q, x, n, kv2, c)
    <3>1. PICK G : G = F \cup X
      OBVIOUS
    <3>2. Owned(G, kv2, own, content) /\ X \subseteq G
      BY <1>18, <3>1
    <3>3. r \in DOMAIN own
      BY <1>7, <2>2 DEF OwnMap, Now, Live
    <3>4. \A p \in Along(q.lock) : p \in DOMAIN kv2
      BY <1>23, <2>1, <2>2
    <3>. QED BY <1>18, <1>20, <2>2, <3>2, <3>3, <3>4, RowSurvives
  <2>4. PICK q2, row2, x2, j : q2 = live'[r] /\ row2 = R[q.row] /\ x2 = text[r] /\ j = got[i]
    OBVIOUS
  <2>5. n + 1 = Len(x) /\ n \in Nat /\ n + 1 <= MaxLen
    BY <1>10, <2>1, <2>2
  <2>6. SetsAt(row2, row, n + 1, j) /\ j \in Slots
    BY <1>19, <1>20, <1>22, <2>1, <2>4, <2>5 DEF WritePos
  <2>7. q2.protected = q.protected /\ q2.lock = q.lock /\ q2.row = q.row
    BY <1>14, <2>1, <2>2, <2>4
  <2>8. x2 = Append(x, tokens[r]) /\ w[r] = n + 1
    BY <1>15, <1>24, <2>1, <2>2, <2>4, <2>5
  <2>9. SubSeq(x2, 1, n + 1) = x /\ \A k \in 1..n : SubSeq(x2, 1, k) = SubSeq(x, 1, k)
    <3>1. \A k \in 1..Len(x) : SubSeq(Append(x, tokens[r]), 1, k) = SubSeq(x, 1, k)
      BY <2>2, SameBeginning
    <3>2. SubSeq(x, 1, Len(x)) = x
      BY <2>2 DEF Paths
    <3>3. Len(x) \in 1..Len(x) /\ \A k \in 1..n : k \in 1..Len(x)
      BY <2>2, <2>5
    <3>. QED BY <2>5, <2>8, <3>1, <3>2, <3>3
  <2>10. c[j] = SubSeq(x2, 1, n + 1)
    BY <1>20, <2>1, <2>4, <2>9
  <2>11. RowInv(row2, q2, x2, n + 1, kv2, c) /\ Private(row2, q2, n + 1) = Private(row, q, n) \cup {j}
    <3>1. MaxLen \in Nat
      BY <1>10
    <3>2. Begins(x2, x, n)
      BY <2>9 DEF Begins
    <3>3. PICK v : v = n + 1
      OBVIOUS
    <3>4. v = n + 1 /\ v <= MaxLen /\ SetsAt(row2, row, v, j) /\ c[j] = SubSeq(x2, 1, v) /\ j \in Slots
      BY <2>5, <2>6, <2>10, <3>3
    <3>5. RowInv(row2, q2, x2, v, kv2, c) /\ Private(row2, q2, v) = Private(row, q, n) \cup {j}
      BY <2>3, <2>7, <3>1, <3>2, <3>4, RowGrows
    <3>. QED BY <3>3, <3>5
  <2>12. OwnMap(s, w)[r] = Private(row2, q2, n + 1)
    BY <1>13, <1>25, <2>2, <2>4, <2>7, <2>8 DEF OwnMap
  <2>. QED BY <1>25, <2>1, <2>2, <2>4, <2>7, <2>8, <2>11, <2>12
<1>27. Owned(F, kv2, OwnMap(s, w), c)
  <2>1. PICK own2 : own2 = OwnMap(s, w)
    OBVIOUS
  <2>2. DOMAIN own2 = Live /\ DOMAIN own = Live
    BY <1>7, <1>13, <1>25, <2>1 DEF OwnMap, Now, Live
  <2>3. \A i \in 1..Len(b) : own2[b[i]] = own[b[i]] \cup {got[i]} /\ got[i] \in X
    BY <1>20, <1>26, <2>1
  <2>4. \A r \in Live : own[r] \cap X = {}
    BY <1>18, <2>2 DEF Owned
  <2>5. \A x, y \in DOMAIN own2 : x # y => own2[x] \cap own2[y] \cap X = {}
    <3>1. SUFFICES ASSUME NEW x \in Live, NEW y \in Live, x # y PROVE own2[x] \cap own2[y] \cap X = {}
      BY <2>2
    <3>2. PICK i \in 1..Len(b) : x = b[i]
      BY <1>6
    <3>3. PICK j \in 1..Len(b) : y = b[j]
      BY <1>6
    <3>4. i # j /\ got[i] # got[j]
      BY <1>18, <3>1, <3>2, <3>3 DEF Distinct
    <3>. QED BY <2>3, <2>4, <3>2, <3>3, <3>4
  <2>6. \A j \in X : \E r \in DOMAIN own2 : j \in own2[r]
    BY <1>6, <1>20, <2>2, <2>3
  <2>7. \A x \in DOMAIN own2 : \A j \in own2[x] : j \in X \/ (x \in DOMAIN own /\ j \in own[x])
    BY <1>6, <2>2, <2>3
  <2>8. DOMAIN own \subseteq DOMAIN own2 /\ \A x \in DOMAIN own : own[x] \subseteq own2[x]
    BY <1>6, <2>2, <2>3
  <2>9. Assigned(own2, own, X)
    BY <2>5, <2>6, <2>7, <2>8 DEF Assigned
  <2>10. Owned(F, kv2, own2, c)
    BY <1>18, <1>20, <2>9, OwnedAssign
  <2>. QED BY <2>1, <2>10
<1>28. Kept(s, text, w, c)
  <2>1. /\ Lists(s.mem) /\ Owned(FreeOf(s.mem), s.mem.tree.kv, OwnMap(s, w), c)
        /\ NoneMissing(s.mem.tree.kv, DOMAIN s.live)
    <3>1. NoneMissing(kv2, Live)
      BY <1>8, <1>18, PartHasSlots
    <3>. QED BY <1>13, <1>17, <1>18, <1>25, <1>27, <3>1
  <2>2. s.rows = [n \in 1..NumRows |-> [k \in 1..MaxLen |-> s.rows[n][k]]]
    BY <1>22, <1>25
  <2>3. DOMAIN s.live = Live /\ \A r \in Live : s.live[r].row = live[r].row
    BY <1>13, <1>14, <1>25
  <2>4. \A r \in DOMAIN s.live :
          /\ s.live[r].row \in 1..NumRows
          /\ RowInv(s.rows[s.live[r].row], s.live[r], text[r], w[r], s.mem.tree.kv, c)
    <3>1. SUFFICES ASSUME NEW r \in Live
                   PROVE  /\ s.live[r].row \in 1..NumRows
                          /\ RowInv(R[s.live[r].row], s.live[r], text[r], w[r], kv2, c)
      BY <1>17, <1>25, <2>3
    <3>2. PICK i \in 1..Len(b) : r = b[i]
      BY <1>6
    <3>. QED BY <1>9, <1>26, <2>3, <3>2
  <2>5. \A r, q \in DOMAIN s.live : r # q => s.live[r].row # s.live[q].row
    BY <1>8, <2>3
  <2>6. RowsTyped(s.rows)
    <3>1. ASSUME NEW n \in 1..NumRows, NEW k \in 1..MaxLen PROVE R[n][k] \in 0..PoolSize
      <4>1. R[n][k] = rows[n][k] \/ \E i \in 1..Len(b) : R[n][k] = got[i]
        <5>1. CASE \E i \in 1..Len(b) : live[b[i]].row = n /\ WritePos(b[i]) = k
          <6>1. PICK j : j = CHOOSE i \in 1..Len(b) : live[b[i]].row = n
            OBVIOUS
          <6>2. j \in 1..Len(b)
            BY <5>1, <6>1
          <6>3. R[n][k] = got[j]
            BY <1>11, <1>17, <1>21, <5>1, <6>1 DEF DecodedRows
          <6>. QED BY <6>2, <6>3
        <5>2. CASE ~\E i \in 1..Len(b) : live[b[i]].row = n /\ WritePos(b[i]) = k
          BY <1>11, <1>17, <1>21, <5>2 DEF DecodedRows
        <5>. QED BY <5>1, <5>2
      <4>2. \A i \in 1..Len(b) : got[i] \in 0..PoolSize
        <5>1. Slots \subseteq 0..PoolSize
          BY PoolAssumption DEF Slots
        <5>2. \A i \in 1..Len(b) : got[i] \in X
          BY <1>20
        <5>. QED BY <1>19, <5>1, <5>2
      <4>3. rows[n][k] \in 0..PoolSize
        BY <1>3 DEF Kept, Now, RowsTyped
      <4>. QED BY <4>1, <4>2, <4>3
    <3>. QED BY <1>25, <3>1 DEF RowsTyped
  <2>. QED BY <2>1, <2>2, <2>4, <2>5, <2>6 DEF Kept
<1>29. \A r \in Live' : live'[r].output # <<>> /\ Len(live'[r].output) <= MaxOutput
  BY <1>13, <1>15
<1>30. Spare(free_rows', live') /\ HoldsPrompt(live)'
  <2>1. Spare(free_rows, live')
    BY <1>3, <1>13, <1>14 DEF Spare, Live
  <2>2. cached' = cached
    BY DEF Decode
  <2>3. HoldsPrompt(live)'
    BY <1>3, <1>13, <1>14, <2>2 DEF HoldsPrompt, Live
  <2>. QED BY <1>0, <2>1, <2>3
<1>. QED BY <1>0, <1>3, <1>17, <1>20, <1>24, <1>28, <1>29, <1>30 DEF SlotInv

-----------------------------------------------------------------------------
\* A release

\* own2 is own without r, and all that r had goes back.
LEMMA OwnedReturn ==
  ASSUME NEW F, NEW kv, NEW own, NEW c, Owned(F, kv, own, c), NEW r \in DOMAIN own,
         NEW own2, LacksOf(own2, own, r), NEW S, S \cap Slots = own[r]
  PROVE  Owned(F \cup (S \cap Slots), kv, own2, c)
<1>. USE DEF LacksOf
<1>1. F \subseteq Slots /\ own[r] \subseteq Slots \ F /\ \A p \in DOMAIN kv : kv[p] \notin own[r]
  BY DEF Owned
<1>2. ASSUME NEW p \in DOMAIN kv
      PROVE  kv[p] = 0 \/ (kv[p] \in Slots \ (F \cup (S \cap Slots)) /\ c[kv[p]] = p)
  BY <1>1 DEF Owned
<1>3. ASSUME NEW x \in DOMAIN own2
      PROVE  own2[x] \subseteq Slots \ (F \cup (S \cap Slots)) /\ \A p \in DOMAIN kv : kv[p] \notin own2[x]
  <2>1. CASE x = r
    BY <2>1
  <2>2. CASE x # r
    <3>1. own2[x] = own[x] /\ x \in DOMAIN own
      BY <2>2
    <3>2. own[x] \subseteq Slots \ F /\ own[x] \cap own[r] = {} /\ \A p \in DOMAIN kv : kv[p] \notin own[x]
      BY <2>2, <3>1 DEF Owned
    <3>. QED BY <3>1, <3>2
  <2>. QED BY <2>1, <2>2
<1>4. \A x, y \in DOMAIN own2 : x # y => own2[x] \cap own2[y] = {}
  BY DEF Owned
<1>5. ASSUME NEW j \in Slots
      PROVE  \/ j \in F \cup (S \cap Slots)
             \/ \E p \in DOMAIN kv : kv[p] = j
             \/ \E x \in DOMAIN own2 : j \in own2[x]
  <2>1. CASE \E x \in DOMAIN own : j \in own[x]
    <3>1. PICK x \in DOMAIN own : j \in own[x]
      BY <2>1
    <3>. QED BY <3>1
  <2>2. CASE ~ \E x \in DOMAIN own : j \in own[x]
    BY <2>2 DEF Owned
  <2>. QED BY <2>1, <2>2
<1>. QED BY <1>1, <1>2, <1>3, <1>4, <1>5 DEF Owned

\* What a request that ends knows of its row.
Ends(r, key, row, w) ==
  /\ key = Full(r) /\ key \in Paths /\ key # Root /\ row = rows[live[r].row]
  /\ w \in Nat /\ Len(key) = w + 1 /\ row[w + 1] = 0
  /\ RowInv(row, live[r], key, w, mem.tree.kv, content)

\* The memory m after the release of r: nothing that was cached is lost.
Freed(m, r, own2) ==
  /\ Lists(m) /\ Owned(FreeOf(m), m.tree.kv, own2, content) /\ NoneMissing(m.tree.kv, Live \ {r})
  /\ \A p \in DOMAIN mem.tree.kv : m.tree.kv[p] = mem.tree.kv[p]

\* Without the prefix cache all slots of the row go back; the position of the last token was
\* never written.
LEMMA FreedPlain ==
  ASSUME LockInv, NEW r \in Live, Free(r), ~cached, NEW key, NEW row, NEW w, Ends(r, key, row, w),
         Lists(mem), NoneMissing(mem.tree.kv, Live),
         NEW own, Owned(FreeOf(mem), mem.tree.kv, own, content), r \in DOMAIN own,
         own[r] = Private(row, live[r], w), NEW own2, LacksOf(own2, own, r)
  PROVE  Freed(mem', r, own2)
<1>1. live[r].lock = Root /\ MemInv(mem, LockMap(live))
  BY DEF LockInv, Free
<1>2. live[r].protected = 0
  <2>1. live[r].protected \in Nat /\ (live[r].protected # 0 => live[r].protected \in 1..live[r].protected)
    BY DEF Ends, RowInv
  <2>2. \A k \in 1..live[r].protected : SubSeq(key, 1, k) \in Along(Root)
    BY <1>1 DEF Ends, RowInv
  <2>. QED BY <2>1, <2>2, AlongRoot
<1>3. PICK S : S = Duplicates(row, 0, Len(key))
  OBVIOUS
<1>4. mem' = GiveBack(mem, S)
  BY <1>3 DEF Free, Ends
<1>5. own[r] = {row[k] : k \in 1..w}
  BY <1>2 DEF Private
<1>6. S = {row[k] : k \in 1..(w + 1)}
  BY <1>3 DEF Duplicates, Ends
<1>7. 1..(w + 1) = (1..w) \cup {w + 1}
  BY DEF Ends
<1>8. S = own[r] \cup {0}
  BY <1>5, <1>6, <1>7 DEF Ends
<1>9. own[r] \subseteq Slots
  BY DEF Owned
<1>10. S \cap Slots = own[r]
  BY <1>8, <1>9, SlotsFinite
<1>11. Owned(FreeOf(mem) \cup (S \cap Slots), mem.tree.kv, own2, content)
  BY <1>10, OwnedReturn
<1>12. Lists(mem') /\ FreeOf(mem') = FreeOf(mem) \cup (S \cap Slots) /\ mem'.tree = mem.tree
  BY <1>1, <1>4, GiveBackOwns
<1>13. NoneMissing(mem.tree.kv, Live \ {r})
  BY DEF NoneMissing
<1>. QED BY <1>11, <1>12, <1>13 DEF Freed

\* With it the tree takes what it lacks, without a slot for the last token. The prompts
\* of the others are in the tree, so this path is none of theirs.
LEMMA FreedCached ==
  ASSUME LockInv, NEW r \in Live, Free(r), cached, HoldsPrompt(live),
         NEW key, NEW row, NEW w, Ends(r, key, row, w),
         Lists(mem), NoneMissing(mem.tree.kv, Live),
         NEW own, Owned(FreeOf(mem), mem.tree.kv, own, content), r \in DOMAIN own,
         own[r] = Private(row, live[r], w), NEW own2, LacksOf(own2, own, r)
  PROVE  Freed(mem', r, own2)
<1>1. MemInv(mem, LockMap(live)) /\ LiveInv(live) /\ live[r].output \in Seq(OutTokens)
  BY DEF LockInv, Free
<1>2. TreeInv(mem.tree, LockMap(live)) /\ mem = [tree |-> mem.tree, free |-> mem.free, release |-> mem.release]
  BY <1>1 DEF MemInv
<1>3. PICK a, kv, h, t : /\ a = live[r].protected /\ kv = mem.tree.kv /\ h = Len(Hit(mem.tree, key))
                         /\ t = insert(mem.tree, key, row)
  OBVIOUS
<1>4. PICK S, m0 : S = Duplicates(row, a, h) /\ m0 = [mem EXCEPT !.tree = dec_lock_ref(t, live[r].lock)]
  OBVIOUS
<1>5. mem' = GiveBack(m0, S)
  BY <1>3, <1>4 DEF Free, Ends
<1>6. TreeInv(t, LockMap(live)) /\ IsTree(t)
  BY <1>2, <1>3, InsertKeeps DEF Ends, TreeInv, Shape
<1>7. IsInserted(t.kv, kv, key, row, h) /\ h \in 0..Len(key)
  BY <1>2, <1>3, InsertIs DEF Ends
<1>8. a \in Nat /\ a <= w /\ w \in Nat /\ Len(key) = w + 1 /\ key \in Paths
  BY <1>3 DEF Ends, RowInv
<1>9. a <= h
  <2>1. CASE a = 0
    BY <1>7, <2>1
  <2>2. CASE a # 0
    <3>1. PICK p : p = SubSeq(key, 1, a)
      OBVIOUS
    <3>2. a \in 1..Len(key) /\ a \in 1..a
      BY <1>8, <2>2
    <3>3. p \in Along(live[r].lock) /\ p \in Along(key) /\ Len(p) = a
      BY <1>3, <1>8, <3>1, <3>2, PrefixAt DEF Ends, RowInv
    <3>4. r \in DOMAIN LockMap(live) /\ LockMap(live)[r] = live[r].lock
      BY DEF LockMap, Live
    <3>5. p \in DOMAIN kv
      BY <1>2, <1>3, <3>3, <3>4, HeldPaths
    <3>. QED BY <1>7, <3>3, <3>5 DEF IsInserted
  <2>. QED BY <2>1, <2>2
<1>10. HandsOver(own, r, key, row, a, w, h, content)
  <2>1. own[r] = {row[k] : k \in (a + 1)..w}
    BY <1>3 DEF Private
  <2>2. \A k \in 1..w : row[k] \in Slots /\ content[row[k]] = SubSeq(key, 1, k)
    BY DEF Ends, RowInv
  <2>3. h \in Nat /\ h <= Len(key) /\ w <= Len(key) /\ Len(key) <= w + 1
    BY <1>7, <1>8
  <2>4. row[w + 1] = 0
    BY DEF Ends
  <2>. QED BY <1>8, <1>9, <2>1, <2>2, <2>3, <2>4 DEF HandsOver
<1>11. PICK F : F = FreeOf(mem)
  OBVIOUS
<1>12. Owned(F \cup (S \cap Slots), t.kv, own2, content)
  BY <1>3, <1>4, <1>7, <1>8, <1>10, <1>11, OwnedInsert
<1>13. PICK f, e, g, d : /\ mem = [tree |-> mem.tree, free |-> f, release |-> e] /\ f = mem.free /\ e = mem.release
                         /\ g = e \cup ((S \cap Slots) \ f) /\ d = dec_lock_ref(t, live[r].lock)
  BY <1>2
<1>14. m0 = [tree |-> d, free |-> f, release |-> e]
  BY <1>4, <1>13
<1>15. mem' = [tree |-> d, free |-> f, release |-> g]
  BY <1>5, <1>13, <1>14 DEF GiveBack
<1>16. mem'.tree.kv = t.kv
  BY <1>6, <1>13, <1>15, SameIndices
<1>17. Lists(mem') /\ FreeOf(mem') = F \cup (S \cap Slots)
  BY <1>11, <1>13, <1>15 DEF Lists, FreeOf
<1>18. NoneMissing(t.kv, Live \ {r})
  <2>1. SUFFICES ASSUME NEW y \in Live \ {r}, NEW p \in Along(Prompt[y]) PROVE t.kv[p] # 0
    BY DEF NoneMissing
  <2>2. y \in DOMAIN LockMap(live) /\ LockMap(live)[y] = Prompt[y]
    BY DEF LockMap, Live, HoldsPrompt
  <2>3. p \in DOMAIN kv
    BY <1>2, <1>3, <2>2, HeldPaths
  <2>4. kv[p] # 0
    BY <1>3, <2>3 DEF NoneMissing
  <2>. QED BY <1>7, <2>3, <2>4 DEF IsInserted
<1>19. \A p \in DOMAIN kv : t.kv[p] = kv[p]
  BY <1>7 DEF IsInserted
<1>. QED BY <1>3, <1>12, <1>16, <1>17, <1>18, <1>19 DEF Freed

\* A release keeps the slots in order.
LEMMA FreeOwns ==
  ASSUME IsFiniteSet(Reqs), LockInv, SlotInv, NEW r \in Live, Free(r), ~ExcessReadBites PROVE SlotInv'
<1>0. /\ status = "up" /\ status' = "up" /\ started' = started /\ rows' = rows /\ content' = content
      /\ free_rows' = Append(free_rows, live[r].row) /\ live' = [p \in Live \ {r} |-> live[p]]
  BY DEF Free
<1>1. MemInv(mem, LockMap(live)) /\ LiveInv(live) /\ live[r].output \in Seq(OutTokens)
  BY <1>0 DEF LockInv
<1>3. /\ Kept(Now, Texts, Lengths, content) /\ started \subseteq Reqs
      /\ content = [j \in Slots |-> content[j]] /\ Spare(free_rows, live) /\ HoldsPrompt(live)
      /\ \A p \in Live : live[p].output # <<>> /\ Len(live[p].output) <= MaxOutput
  BY <1>0 DEF SlotInv
<1>4. NumRows \in Nat
  BY PoolAssumption
<1>5. PICK own : own = OwnMap(Now, Lengths)
  OBVIOUS
<1>6. /\ Lists(mem) /\ Owned(FreeOf(mem), mem.tree.kv, own, content) /\ NoneMissing(mem.tree.kv, Live)
      /\ rows = [n \in 1..NumRows |-> [k \in 1..MaxLen |-> rows[n][k]]]
      /\ \A x, y \in Live : x # y => live[x].row # live[y].row
  BY <1>3, <1>5 DEF Kept, Now, Live
<1>7. ASSUME NEW x \in Live
      PROVE  /\ live[x].row \in 1..NumRows /\ own[x] = Private(rows[live[x].row], live[x], Len(Full(x)) - 1)
             /\ RowInv(rows[live[x].row], live[x], Full(x), Len(Full(x)) - 1, mem.tree.kv, content)
  <2>1. x \in DOMAIN live /\ Now.live = live /\ Now.rows = rows /\ Now.mem = mem
        /\ Texts[x] = Full(x) /\ Lengths[x] = Len(Full(x)) - 1
    BY DEF Now, Live, Texts, Lengths
  <2>2. live[x].row \in 1..NumRows /\ RowInv(rows[live[x].row], live[x], Full(x), Len(Full(x)) - 1, mem.tree.kv, content)
    BY <1>3, <2>1 DEF Kept
  <2>3. own[x] = Private(rows[live[x].row], live[x], Len(Full(x)) - 1)
    BY <1>5, <2>1 DEF OwnMap
  <2>. QED BY <2>2, <2>3
<1>8. PICK key, row, w : key = Full(r) /\ row = rows[live[r].row] /\ w = Len(key) - 1
  OBVIOUS
<1>9. key \in Paths /\ key # Root
  BY <1>1, <1>8, FullPath DEF LiveInv, Live
<1>10. RowInv(row, live[r], key, w, mem.tree.kv, content) /\ own[r] = Private(row, live[r], w)
  BY <1>7, <1>8
<1>11. w \in Nat /\ Len(key) = w + 1
  <2>1. Len(key) \in Nat /\ w \in Nat
    BY <1>8, <1>9, <1>10, PrefixAt DEF RowInv
  <2>. QED BY <1>8, <2>1
<1>12. Ends(r, key, row, w)
  <2>1. r \in Live \ DOMAIN live'
    BY <1>0
  <2>2. rows[live[r].row][Len(Full(r))] = 0
    BY <2>1 DEF ExcessReadBites
  <2>3. row[w + 1] = 0
    BY <1>8, <1>11, <2>2
  <2>. QED BY <1>8, <1>9, <1>10, <1>11, <2>3 DEF Ends
<1>13. DOMAIN live' = Live \ {r} /\ Live' = Live \ {r} /\ \A x \in Live \ {r} : live'[x] = live[x]
  BY <1>0 DEF Live
<1>14. PICK s, w2, text : s = Now' /\ w2 = Lengths' /\ text = Texts'
  OBVIOUS
<1>15. s.mem = mem' /\ s.rows = rows /\ s.live = live'
  BY <1>0, <1>14 DEF Now
<1>16. \A x \in Live \ {r} : text[x] = Full(x) /\ w2[x] = Len(Full(x)) - 1
  BY <1>13, <1>14 DEF Texts, Lengths, Full
<1>17. PICK own2 : own2 = OwnMap(s, w2)
  OBVIOUS
<1>18. LacksOf(own2, own, r) /\ DOMAIN own = Live
  <2>1. DOMAIN own = Live /\ DOMAIN own2 = Live \ {r}
    BY <1>5, <1>13, <1>15, <1>17 DEF OwnMap, Now, Live
  <2>2. \A x \in Live \ {r} : own2[x] = own[x]
    BY <1>7, <1>13, <1>15, <1>16, <1>17 DEF OwnMap
  <2>. QED BY <2>1, <2>2 DEF LacksOf
<1>19. Freed(mem', r, own2)
  <2>1. CASE cached
    BY <1>3, <1>6, <1>10, <1>12, <1>18, <2>1, FreedCached
  <2>2. CASE ~cached
    BY <1>6, <1>10, <1>12, <1>18, <2>2, FreedPlain
  <2>. QED BY <2>1, <2>2
<1>20. ASSUME NEW x \in Live \ {r}
       PROVE  RowInv(rows[live[x].row], live[x], Full(x), Len(Full(x)) - 1, mem'.tree.kv, content)
  <2>1. PICK q, xr, xw, xt : q = live[x] /\ xr = rows[q.row] /\ xt = Full(x) /\ xw = Len(xt) - 1
    OBVIOUS
  <2>2. RowInv(xr, q, xt, xw, mem.tree.kv, content)
    BY <1>7, <2>1
  <2>3. \A k \in 1..q.protected : mem'.tree.kv[SubSeq(xt, 1, k)] = mem.tree.kv[SubSeq(xt, 1, k)]
    <3>1. SUFFICES ASSUME NEW k \in 1..q.protected
                   PROVE  mem'.tree.kv[SubSeq(xt, 1, k)] = mem.tree.kv[SubSeq(xt, 1, k)]
      OBVIOUS
    <3>2. PICK p : p = SubSeq(xt, 1, k)
      OBVIOUS
    <3>3. p \in Along(q.lock)
      BY <2>2, <3>2 DEF RowInv
    <3>4. x \in DOMAIN LockMap(live) /\ LockMap(live)[x] = q.lock /\ TreeInv(mem.tree, LockMap(live))
      BY <1>1, <2>1 DEF LockMap, Live, MemInv
    <3>5. p \in DOMAIN mem.tree.kv
      BY <3>3, <3>4, HeldPaths
    <3>. QED BY <1>19, <3>2, <3>5 DEF Freed
  <2>4. RowInv(xr, q, xt, xw, mem'.tree.kv, content)
    BY <2>2, <2>3, RowStays
  <2>. QED BY <2>1, <2>4
<1>21. Kept(s, text, w2, content)
  <2>1. /\ Lists(s.mem) /\ Owned(FreeOf(s.mem), s.mem.tree.kv, OwnMap(s, w2), content)
        /\ NoneMissing(s.mem.tree.kv, DOMAIN s.live)
    BY <1>13, <1>15, <1>17, <1>19 DEF Freed
  <2>2. s.rows = [n \in 1..NumRows |-> [k \in 1..MaxLen |-> s.rows[n][k]]]
    BY <1>6, <1>15
  <2>3. ASSUME NEW x \in DOMAIN s.live
        PROVE  /\ s.live[x].row \in 1..NumRows
               /\ RowInv(s.rows[s.live[x].row], s.live[x], text[x], w2[x], s.mem.tree.kv, content)
    <3>1. x \in Live \ {r} /\ s.live[x] = live[x]
      BY <1>13, <1>15
    <3>. QED BY <1>7, <1>15, <1>16, <1>20, <3>1
  <2>4. \A x, y \in DOMAIN s.live : x # y => s.live[x].row # s.live[y].row
    BY <1>6, <1>13, <1>15
  <2>5. RowsTyped(s.rows)
    BY <1>3, <1>15 DEF Kept, Now
  <2>. QED BY <2>1, <2>2, <2>3, <2>4, <2>5 DEF Kept
<1>22. Spare(free_rows', live')
  <2>1. PICK f, S, n, g : f = free_rows /\ S = 1..NumRows /\ n = live[r].row /\ g = Append(f, n)
    OBVIOUS
  <2>2. n \in S /\ f \in Seq(S)
    BY <1>3, <1>7, <2>1 DEF Spare
  <2>3. g \in Seq(S) /\ Len(g) = Len(f) + 1 /\ Len(f) \in Nat
        /\ g[Len(f) + 1] = n /\ \A i \in 1..Len(f) : g[i] = f[i]
    BY <2>1, <2>2
  <2>4. \A i \in 1..Len(g) : i \in 1..Len(f) \/ i = Len(f) + 1
    BY <2>3
  <2>5. /\ \A i, j \in 1..Len(f) : f[i] = f[j] => i = j
        /\ \A i \in 1..Len(f) : \A x \in Live : f[i] # live[x].row
    BY <1>3, <2>1 DEF Spare, Live
  <2>6. \A i, j \in 1..Len(g) : g[i] = g[j] => i = j
    BY <2>1, <2>3, <2>4, <2>5
  <2>7. \A i \in 1..Len(g) : \A x \in Live \ {r} : g[i] # live[x].row
    BY <1>6, <2>1, <2>3, <2>4, <2>5
  <2>8. free_rows' = g
    BY <1>0, <2>1
  <2>. QED BY <1>13, <2>1, <2>3, <2>6, <2>7, <2>8 DEF Spare
<1>23. \A x \in Live' : live'[x].output # <<>> /\ Len(live'[x].output) <= MaxOutput
  BY <1>3, <1>13
<1>24. HoldsPrompt(live)'
  <2>1. cached' = cached
    BY DEF Free
  <2>. QED BY <1>3, <1>13, <2>1 DEF HoldsPrompt, Live
<1>. QED BY <1>0, <1>3, <1>14, <1>21, <1>22, <1>23, <1>24 DEF SlotInv

\* At the start all slots and rows are free.
LEMMA StartsFree == Init => SlotInv
<1>. SUFFICES ASSUME Init PROVE SlotInv
  OBVIOUS
<1>1. Live = {} /\ DOMAIN live = {} /\ started = {}
  BY DEF Init, Live
<1>3. mem.free = Slots /\ mem.release = {} /\ DOMAIN mem.tree.kv = {}
  BY DEF Init, EmptyTree
<1>4. DOMAIN OwnMap(Now, Lengths) = {}
  BY <1>1 DEF OwnMap, Now
<1>5. Lists(mem) /\ FreeOf(mem) = Slots
  BY <1>3 DEF Lists, FreeOf
<1>6. Owned(Slots, mem.tree.kv, OwnMap(Now, Lengths), content)
  BY <1>3, <1>4 DEF Owned
<1>7. NoneMissing(mem.tree.kv, Live)
  BY <1>3 DEF NoneMissing
<1>8. NumRows \in Nat
  BY PoolAssumption
<1>9. rows = [n \in 1..NumRows |-> [k \in 1..MaxLen |-> rows[n][k]]]
  BY <1>8 DEF Init
<1>9a. RowsTyped(rows)
  BY PoolAssumption DEF Init, RowsTyped
<1>10. Kept(Now, Texts, Lengths, content)
  BY <1>1, <1>5, <1>6, <1>7, <1>9, <1>9a DEF Kept, Now, Live
<1>11. free_rows = [n \in 1..NumRows |-> n]
  BY DEF Init
<1>12. free_rows \in Seq(1..NumRows) /\ Len(free_rows) = NumRows
  BY <1>8, <1>11
<1>13. Spare(free_rows, live) /\ HoldsPrompt(live)
  BY <1>1, <1>8, <1>11, <1>12 DEF Spare, HoldsPrompt
<1>14. content = [j \in Slots |-> content[j]]
  BY DEF Init
<1>. QED BY <1>1, <1>10, <1>13, <1>14 DEF SlotInv

\* The careful behaviours are behaviours of the specification.
LEMMA CarefulIsSpec == CarefulSpec => Spec
BY PTL DEF CarefulSpec, Spec

\* Every call of the scheduler keeps the slots in order, unless the position read in
\* excess can do harm.
LEMMA SlotInvariant == IsFiniteSet(Reqs) => (CarefulSpec => []SlotInv)
<1>. SUFFICES ASSUME IsFiniteSet(Reqs) PROVE CarefulSpec => []SlotInv
  OBVIOUS
<1>1. Init => SlotInv
  BY StartsFree
<1>2. LockInv /\ SlotInv /\ [Next /\ ~ExcessReadBites]_vars => SlotInv'
  <2>. SUFFICES ASSUME LockInv, SlotInv, [Next /\ ~ExcessReadBites]_vars PROVE SlotInv'
    OBVIOUS
  <2>1. CASE ~ExcessReadBites /\ \E b \in Batches : Extend(b)
    BY <2>1, ExtendOwns
  <2>2. CASE \E b \in {SetToSeq(Live)} : Decode(b)
    BY <2>2, DecodeOwns
  <2>3. CASE \E b \in Batches \cup {SetToSeq(Live)} : Raises(b)
    BY <2>3 DEF Raises, SlotInv
  <2>4. CASE ~ExcessReadBites /\ \E r \in Live : Free(r)
    BY <2>4, FreeOwns
  <2>5. CASE UNCHANGED vars
    <3>1. status' = status /\ started' = started /\ content' = content /\ free_rows' = free_rows /\ live' = live
          /\ cached' = cached /\ Live' = Live /\ Now' = Now /\ Texts' = Texts /\ Lengths' = Lengths
      BY <2>5 DEF vars, Live, Now, Texts, Lengths, Full
    <3>. QED BY <3>1 DEF SlotInv, HoldsPrompt
  <2>. QED BY <2>1, <2>2, <2>3, <2>4, <2>5 DEF Next
<1>. QED BY <1>1, <1>2, LockInvariant, CarefulIsSpec, PTL DEF CarefulSpec

\* Rows are used again, prompts contain earlier answers and share prefixes. As long as
\* _free_rid_resources finds no slot at the position that it reads in excess, and no new
\* prompt goes on through a path that it cached so without a slot, every live request
\* reads at each position of its row KV data computed from its own tokens up to there:
\* _allocate_extend and _allocate_decode, the eviction they may need,
\* _insert_into_radix_cache with its write-back of the tree's slots and
\* _free_rid_resources never put a slot under it that holds other data.
THEOREM ReadsAlwaysOwnPrefix == IsFiniteSet(Reqs) => (CarefulSpec => []ReadsOwnPrefix)
<1>. SUFFICES ASSUME IsFiniteSet(Reqs) PROVE CarefulSpec => []ReadsOwnPrefix
  OBVIOUS
<1>1. SlotInv => ReadsOwnPrefix
  <2>. SUFFICES ASSUME SlotInv, status = "up", NEW r \in Live, NEW k \in Written(r)
                PROVE  /\ rows[live[r].row][k] \in Slots
                       /\ content[rows[live[r].row][k]] = SubSeq(Full(r), 1, k)
    BY DEF ReadsOwnPrefix
  <2>1. r \in DOMAIN Now.live /\ Now.live = live /\ Now.rows = rows
        /\ Texts[r] = Full(r) /\ Lengths[r] = Len(Full(r)) - 1
    BY DEF Now, Live, Texts, Lengths
  <2>2. RowInv(rows[live[r].row], live[r], Full(r), Len(Full(r)) - 1, Now.mem.tree.kv, content)
    BY <2>1 DEF SlotInv, Kept
  <2>. QED BY <2>2 DEF RowInv, Written
<1>. QED BY <1>1, SlotInvariant, PTL

\* A slot that is free is so once, one that is cached is so for one path, and one that
\* a request has is at one position of its row.
LEMMA ClaimedOnce ==
  ASSUME IsFiniteSet(Reqs), LockInv, SlotInv, status = "up", NEW j \in Slots PROVE Claims(j) = 1
<1>1. PICK A, B, C :
        /\ A = {w \in {"free", "release"} : j \in mem[w]}
        /\ B = {p \in DOMAIN mem.tree.kv : mem.tree.kv[p] = j}
        /\ C = {c \in Live \X (1..MaxLen) :
                  LET r == c[1]
                      k == c[2]
                  IN /\ k \in Written(r) /\ k > live[r].protected
                     /\ rows[live[r].row][k] = j}
  OBVIOUS
<1>2. Claims(j) = Cardinality(A) + Cardinality(B) + Cardinality(C)
  BY <1>1 DEF Claims
<1>3. PICK own, kv, F : own = OwnMap(Now, Lengths) /\ kv = mem.tree.kv /\ F = FreeOf(mem)
  OBVIOUS
<1>4. Lists(mem) /\ Owned(F, kv, own, content) /\ DOMAIN own = Live
  BY <1>3 DEF SlotInv, Kept, Now, OwnMap, Live
<1>5. ASSUME NEW r \in Live
      PROVE  /\ RowInv(rows[live[r].row], live[r], Full(r), Len(Full(r)) - 1, kv, content)
             /\ own[r] = {rows[live[r].row][k] : k \in (live[r].protected + 1)..(Len(Full(r)) - 1)}
             /\ Full(r) \in Paths
  <2>1. r \in DOMAIN Now.live /\ Now.live = live /\ Now.rows = rows /\ Now.mem = mem
        /\ Texts[r] = Full(r) /\ Lengths[r] = Len(Full(r)) - 1
    BY DEF Now, Live, Texts, Lengths
  <2>2. RowInv(rows[live[r].row], live[r], Full(r), Len(Full(r)) - 1, kv, content)
    BY <1>3, <2>1 DEF SlotInv, Kept
  <2>3. own[r] = {rows[live[r].row][k] : k \in (live[r].protected + 1)..(Len(Full(r)) - 1)}
    BY <1>3, <2>1 DEF OwnMap, Private
  <2>4. Full(r) \in Paths
    BY FullPath DEF LockInv, LiveInv, Live
  <2>. QED BY <2>2, <2>3, <2>4
<1>6. \A c \in C : /\ c[1] \in Live /\ c[2] \in Written(c[1]) /\ c[2] > live[c[1]].protected
                   /\ rows[live[c[1]].row][c[2]] = j /\ c = <<c[1], c[2]>>
  BY <1>1
<1>7. ASSUME NEW c \in C PROVE j \in own[c[1]] /\ content[j] = SubSeq(Full(c[1]), 1, c[2])
  <2>1. PICK r, k : r = c[1] /\ k = c[2]
    OBVIOUS
  <2>2. r \in Live /\ k \in Written(r) /\ k > live[r].protected /\ rows[live[r].row][k] = j
    BY <1>6, <2>1
  <2>3. k \in (live[r].protected + 1)..(Len(Full(r)) - 1) /\ k \in 1..(Len(Full(r)) - 1)
    BY <1>5, <2>2 DEF RowInv, Written
  <2>. QED BY <1>5, <2>1, <2>2, <2>3 DEF RowInv
<1>8. ASSUME NEW r \in Live, j \in own[r] PROVE \E k : <<r, k>> \in C
  <2>1. PICK k \in (live[r].protected + 1)..(Len(Full(r)) - 1) : j = rows[live[r].row][k]
    BY <1>5, <1>8
  <2>2. k \in Written(r) /\ k > live[r].protected /\ k \in 1..MaxLen
    <3>1. PICK a, w : a = live[r].protected /\ w = Len(Full(r)) - 1
      OBVIOUS
    <3>2. a \in Nat /\ w \in Nat /\ w <= MaxLen /\ k \in (a + 1)..w
      BY <1>5, <3>1 DEF RowInv
    <3>3. MaxLen \in Nat
      <4>1. r \in Reqs
        BY DEF LockInv, LiveInv, Live
      <4>. QED BY <4>1, MaxLenIs
    <3>4. k \in 1..MaxLen
      BY <3>2, <3>3
    <3>5. k \in 1..w /\ k > a
      BY <3>2
    <3>. QED BY <3>1, <3>4, <3>5 DEF Written
  <2>. QED BY <1>1, <2>1, <2>2
<1>9. ASSUME NEW c \in C, NEW d \in C PROVE c = d
  <2>1. c[1] \in Live /\ d[1] \in Live /\ j \in own[c[1]] /\ j \in own[d[1]]
    BY <1>6, <1>7
  <2>2. c[1] = d[1]
    BY <1>4, <2>1 DEF Owned
  <2>3. PICK x, k, l : x = Full(c[1]) /\ k = c[2] /\ l = d[2]
    OBVIOUS
  <2>4. SubSeq(x, 1, k) = SubSeq(x, 1, l)
    BY <1>7, <2>2, <2>3
  <2>5. x \in Paths /\ k \in 1..(Len(x) - 1) /\ l \in 1..(Len(x) - 1)
    BY <1>5, <1>6, <2>1, <2>2, <2>3 DEF Written
  <2>6. Len(x) \in Nat /\ k \in 1..Len(x) /\ l \in 1..Len(x)
    BY <2>5, PrefixAt
  <2>7. k = l
    BY <2>4, <2>5, <2>6, PrefixAt
  <2>. QED BY <1>6, <2>2, <2>3, <2>7
<1>10. (j \in F <=> A # {}) /\ \A v, w \in A : v = w
  <2>1. mem["free"] = mem.free /\ mem["release"] = mem.release
    OBVIOUS
  <2>2. /\ "free" \in A <=> j \in mem.free
        /\ "release" \in A <=> j \in mem.release
        /\ A \subseteq {"free", "release"}
    BY <1>1, <2>1
  <2>. QED BY <1>3, <1>4, <2>2 DEF FreeOf, Lists
<1>11. \A p, q \in B : p = q
  <2>1. \A p \in B : p \in DOMAIN kv /\ kv[p] = j
    BY <1>1, <1>3
  <2>2. j # 0
    BY SlotsFinite
  <2>. QED BY <1>4, <2>1, <2>2 DEF Owned
<1>12. B # {} <=> \E p \in DOMAIN kv : kv[p] = j
  BY <1>1, <1>3
<1>13. C # {} <=> \E r \in Live : j \in own[r]
  BY <1>6, <1>7, <1>8
<1>14. ASSUME NEW S, \A x, y \in S : x = y
       PROVE  (S = {} => Cardinality(S) = 0) /\ (S # {} => Cardinality(S) = 1)
  <2>1. CASE S = {}
    BY <2>1, FS_EmptySet
  <2>2. CASE S # {}
    <3>1. PICK x : x \in S
      BY <2>2
    <3>2. S = {x}
      BY <1>14, <3>1
    <3>. QED BY <2>2, <3>2, FS_Singleton
  <2>. QED BY <2>1, <2>2
<1>15. PICK a, b, c : a = Cardinality(A) /\ b = Cardinality(B) /\ c = Cardinality(C)
  OBVIOUS
<1>16. /\ IF A = {} THEN a = 0 ELSE a = 1
       /\ IF B = {} THEN b = 0 ELSE b = 1
       /\ IF C = {} THEN c = 0 ELSE c = 1
  BY <1>9, <1>10, <1>11, <1>14, <1>15
<1>17. /\ A # {} \/ B # {} \/ C # {}
       /\ A # {} => B = {} /\ C = {}
       /\ B # {} => C = {}
  <2>1. j \in F \/ (\E p \in DOMAIN kv : kv[p] = j) \/ \E r \in Live : j \in own[r]
    BY <1>4 DEF Owned
  <2>2. \A p \in DOMAIN kv : kv[p] = j => j \notin F
    BY <1>4, SlotsFinite DEF Owned
  <2>3. \A r \in Live : j \in own[r] => j \notin F /\ \A p \in DOMAIN kv : kv[p] # j
    BY <1>4 DEF Owned
  <2>. QED BY <1>10, <1>12, <1>13, <2>1, <2>2, <2>3
<1>18. a + b + c = 1
  <2>1. CASE A # {}
    BY <1>16, <1>17, <2>1
  <2>2. CASE B # {}
    BY <1>16, <1>17, <2>2
  <2>3. CASE C # {}
    BY <1>16, <1>17, <2>3
  <2>. QED BY <1>17, <2>1, <2>2, <2>3
<1>. QED BY <1>2, <1>15, <1>18

\* Under the same condition each KV slot has exactly one owner at all times, the free
\* list, the list to be merged, one token path of the tree or one position of one live
\* request, as the ownership model in the comment of _free_rid_resources() says: no slot
\* leaks and none is given out twice, with or without the prefix cache.
THEOREM AlwaysOneOwner == IsFiniteSet(Reqs) => (CarefulSpec => []OneOwner)
<1>. SUFFICES ASSUME IsFiniteSet(Reqs) PROVE CarefulSpec => []OneOwner
  OBVIOUS
<1>1. LockInv /\ SlotInv => OneOwner
  BY ClaimedOnce DEF OneOwner
<1>. QED BY <1>1, LockInvariant, SlotInvariant, CarefulIsSpec, PTL

-----------------------------------------------------------------------------
\* Types

\* The key of a node is one token for each path that ends in the node.
LEMMA KeyPaths ==
  ASSUME NEW t, NEW n \in Paths, NEW S, S = Along(n) \ Along(ParentOf(t, n))
  PROVE  IsFiniteSet(S) /\ Cardinality(S) = KeyLen(t, n)
<1>1. PICK m : m = ParentOf(t, n)
  OBVIOUS
<1>2. m \in Paths /\ (m = Root \/ m \in Along(n))
  BY <1>1, ParentIs
<1>3. Along(m) \subseteq Along(n)
  BY <1>2, AlongRoot, AlongTrans
<1>4. /\ IsFiniteSet(Along(n)) /\ Cardinality(Along(n)) = Len(n) /\ Len(n) \in Nat
      /\ IsFiniteSet(Along(m)) /\ Cardinality(Along(m)) = Len(m) /\ Len(m) \in Nat
  BY <1>2, AlongCount
<1>5. IsFiniteSet(S) /\ S \cup Along(m) = Along(n) /\ S \cap Along(m) = {}
  BY <1>1, <1>3, <1>4, FS_Subset
<1>6. Cardinality(S) \in Nat /\ Cardinality(S \cap Along(m)) = 0
  BY <1>5, FS_EmptySet, FS_CardinalityType
<1>7. Cardinality(Along(n)) = Cardinality(S) + Cardinality(Along(m)) - Cardinality(S \cap Along(m))
  BY <1>4, <1>5, FS_Union
<1>8. Cardinality(S) = Len(n) - Len(m)
  BY <1>4, <1>6, <1>7
<1>. QED BY <1>1, <1>5, <1>8 DEF KeyLen

\* A path ends in one node only.
LEMMA NodesApart ==
  ASSUME NEW t, Shape(t), NEW n \in Nodes(t), NEW m \in Nodes(t), n # m,
         NEW p \in Along(n) \ Along(ParentOf(t, n))
  PROVE  p \notin Along(m) \ Along(ParentOf(t, m))
<1>1. SUFFICES ASSUME p \in Along(m) \ Along(ParentOf(t, m)) PROVE FALSE
  OBVIOUS
<1>2. n \in Paths /\ m \in Paths /\ n \in DOMAIN t.kv /\ m \in DOMAIN t.kv /\ IsTree(t)
  BY DEF Shape, IsTree
<1>3. p \in DOMAIN t.kv /\ p \in Paths
  BY <1>2 DEF Shape, Closed, IsTree
<1>4. PICK x \in Nodes(t) : p \in Along(x) /\ \A q \in Nodes(t) : p \in Along(q) => x \in Along(q)
  <2>1. CASE p \in Nodes(t)
    <3>1. p # Root
      BY <1>2, AlongType
    <3>. QED BY <1>3, <2>1, <3>1, AlongSelf
  <2>2. CASE p \notin Nodes(t)
    <3>1. PICK y : FirstBelow(t, p, y)
      BY <1>3, <2>2 DEF Shape, PartAtNodes
    <3>2. y \in Nodes(t) /\ p \in Along(y) /\ \A q \in Nodes(t) : p \in Along(q) /\ p # q => y \in Along(q)
      BY <1>2, <1>3, <3>1, FirstBelowFacts
    <3>. QED BY <2>2, <3>2
  <2>. QED BY <2>1, <2>2
<1>5. ASSUME NEW z \in Nodes(t), p \in Along(z), p \notin Along(ParentOf(t, z)) PROVE x = z
  <2>1. z \in Paths /\ x \in Along(z)
    BY <1>2, <1>4, <1>5 DEF Shape, IsTree
  <2>2. SUFFICES ASSUME x # z PROVE FALSE
    OBVIOUS
  <2>3. ParentOf(t, z) \in Paths /\ x \in Along(ParentOf(t, z))
    BY <2>1, <2>2, ParentIs
  <2>4. p \in Along(ParentOf(t, z))
    BY <1>4, <2>3, AlongTrans
  <2>. QED BY <1>5, <2>4
<1>. QED BY <1>1, <1>5

\* The tokens of some nodes are the paths that end in them.
LEMMA TokensArePaths ==
  ASSUME NEW t, Shape(t), NEW E, E \subseteq Nodes(t)
  PROVE  IsFiniteSet(Gone(t, E)) /\ TokensOf(t, E) = Cardinality(Gone(t, E))
<1>0. IsFiniteSet(E) /\ Nodes(t) \subseteq Paths
  BY FS_Subset DEF Shape, IsTree
<1>. DEFINE G == {T \in SUBSET E : IsFiniteSet(Gone(t, T)) /\ TokensOf(t, T) = Cardinality(Gone(t, T))}
<1>1. ASSUME NEW T \in SUBSET E, \A U \in (SUBSET T) \ {T} : U \in G PROVE T \in G
  <2>1. CASE T = {}
    <3>1. Gone(t, T) = {}
      BY <2>1 DEF Gone
    <3>. QED BY <2>1, <3>1, TokensEmpty, FS_EmptySet
  <2>2. CASE T # {}
    <3>1. PICK x \in T : TRUE
      BY <2>2
    <3>2. PICK U : U = T \ {x}
      OBVIOUS
    <3>3. U \in G /\ U \subseteq Paths /\ IsFiniteSet(U) /\ x \in Paths /\ T = U \cup {x}
      BY <1>0, <1>1, <3>1, <3>2, FS_Subset
    <3>4. PICK S : S = Along(x) \ Along(ParentOf(t, x))
      OBVIOUS
    <3>5. IsFiniteSet(S) /\ Cardinality(S) = KeyLen(t, x) /\ Cardinality(S) \in Nat
      BY <3>3, <3>4, KeyPaths, KeyLenType
    <3>6. Gone(t, T) = Gone(t, U) \cup S
      BY <3>3, <3>4 DEF Gone
    <3>7. Gone(t, U) \cap S = {}
      <4>1. \A n \in U : n \in Nodes(t) /\ x \in Nodes(t) /\ n # x
        BY <3>1, <3>2
      <4>. QED BY <3>4, <4>1, NodesApart DEF Gone
    <3>8. IsFiniteSet(Gone(t, U)) /\ TokensOf(t, U) = Cardinality(Gone(t, U)) /\ Cardinality(Gone(t, U)) \in Nat
      BY <3>3, FS_CardinalityType
    <3>9. Cardinality(Gone(t, U) \cap S) = 0
      BY <3>7, FS_EmptySet
    <3>10. /\ IsFiniteSet(Gone(t, U) \cup S)
           /\ Cardinality(Gone(t, U) \cup S) = Cardinality(Gone(t, U)) + Cardinality(S) - Cardinality(Gone(t, U) \cap S)
      BY <3>5, <3>8, FS_Union
    <3>11. TokensOf(t, U \cup {x}) = KeyLen(t, x) + TokensOf(t, U)
      BY <3>2, <3>3, TokensAdd
    <3>12. Cardinality(Gone(t, U) \cup S) = KeyLen(t, x) + TokensOf(t, U)
      BY <3>5, <3>8, <3>9, <3>10
    <3>. QED BY <3>3, <3>6, <3>10, <3>11, <3>12
  <2>. QED BY <2>1, <2>2
<1>2. \A T \in SUBSET E : T \in G
  <2>. HIDE DEF G
  <2>. QED BY <1>0, <1>1, FiniteInduction
<1>. QED BY <1>2

\* The locked nodes have no more tokens than there are KV slots.
LEMMA ProtectedBound ==
  ASSUME NEW t, NEW L, TreeInv(t, L), DOMAIN L \subseteq Reqs, \A r \in DOMAIN L : OnPrompt(r, L[r]),
         NoneMissing(t.kv, DOMAIN L), NEW F, NEW own, NEW c, Owned(F, t.kv, own, c)
  PROVE  t.protected \in 0..PoolSize
<1>0. Shape(t) /\ IsTree(t) /\ Nodes(t) \subseteq Paths /\ PoolSize \in Nat
  BY PoolAssumption DEF TreeInv, Shape, IsTree
<1>1. PICK S : S = Gone(t, Locked(t))
  OBVIOUS
<1>2. IsFiniteSet(S) /\ t.protected = Cardinality(S) /\ Cardinality(S) \in Nat
  <2>1. Locked(t) \subseteq Nodes(t)
    BY DEF Locked
  <2>. QED BY <1>0, <1>1, <2>1, TokensArePaths, FS_CardinalityType DEF TreeInv, Charged
<1>3. ASSUME NEW p \in S PROVE p \in DOMAIN t.kv /\ t.kv[p] \in Slots /\ c[t.kv[p]] = p
  <2>1. PICK n \in Locked(t) : p \in Along(n)
    BY <1>1 DEF Gone
  <2>2. n \in Nodes(t) /\ n \in Paths /\ t.lock[n] = Cardinality(Readers(L, n)) /\ t.lock[n] > 0
    BY <1>0 DEF Locked, TreeInv, Held
  <2>3. Readers(L, n) # {}
    BY <2>2, FS_EmptySet
  <2>4. PICK r \in DOMAIN L : n \in Along(L[r])
    BY <2>3 DEF Readers
  <2>5. r \in Reqs /\ Prompt[r] \in Paths /\ L[r] \in Along(Prompt[r])
    BY <2>4, AlongRoot, PromptPath DEF OnPrompt
  <2>6. p \in Along(Prompt[r])
    <3>1. n \in Along(Prompt[r])
      BY <2>4, <2>5, AlongTrans
    <3>. QED BY <2>1, <2>5, <3>1, AlongTrans
  <2>7. p \in DOMAIN t.kv
    BY <1>0, <2>1, <2>2 DEF Shape, Closed, IsTree
  <2>8. t.kv[p] # 0
    BY <2>5, <2>6, <2>7 DEF NoneMissing
  <2>. QED BY <2>7, <2>8 DEF Owned
<1>4. PICK f : f = [p \in S |-> t.kv[p]]
  OBVIOUS
<1>5. f \in Injection(S, Slots)
  <2>1. f \in [S -> Slots] /\ \A p \in S : c[f[p]] = p
    BY <1>3, <1>4
  <2>2. \A p, q \in S : f[p] = f[q] => p = q
    BY <2>1
  <2>. QED BY <2>1, <2>2 DEF Injection, IsInjective
<1>6. IsFiniteSet(Slots) /\ Cardinality(Slots) = PoolSize
  BY <1>0, FS_Interval DEF Slots
<1>7. Cardinality(S) <= PoolSize
  BY <1>5, <1>6, FS_Injection
<1>. QED BY <1>0, <1>2, <1>7

\* The locks when the first i requests of the batch have given theirs back.
LockedFrom(b, i) ==
  [x \in Live \cup {b[j] : j \in (i + 1)..Len(b)} |-> IF x \in Live THEN live[x].lock ELSE NewLock(x)]

\* _unlock_matched_nodes(): each request of the batch gives its lock back.
LEMMA UnlocksKeep ==
  ASSUME NEW b \in Batches, Range(b) \cap Live = {}, NEW t, TreeInv(t, LockedUpto(b, Len(b)))
  PROVE  TreeInv(FoldLeft(UnlockMatched, t, b), LockMap(live)) /\ FoldLeft(UnlockMatched, t, b).kv = t.kv
<1>0. /\ b \in Seq(Reqs) /\ Len(b) \in Nat /\ Range(b) = {b[i] : i \in 1..Len(b)}
      /\ \A i, j \in 1..Len(b) : b[i] = b[j] => i = j
  BY BatchType
<1>1. PICK h : IsChain("unlock", t, b, h) /\ FoldLeft(UnlockMatched, t, b) = h[Len(b)]
  BY <1>0, UnlockChain
<1>. DEFINE Good(i) == TreeInv(h[i], LockedFrom(b, i)) /\ h[i].kv = t.kv
            G == {i \in Nat : i <= Len(b) => Good(i)}
<1>2. 0 \in G
  <2>1. h[0] = t
    BY <1>1 DEF IsChain
  <2>2. LockedFrom(b, 0) = LockedUpto(b, Len(b))
    BY DEF LockedUpto, LockedFrom
  <2>. QED BY <2>1, <2>2
<1>3. ASSUME NEW i \in Nat, i \in G PROVE i + 1 \in G
  <2>1. SUFFICES ASSUME i + 1 <= Len(b) PROVE Good(i + 1)
    OBVIOUS
  <2>2. i <= Len(b) /\ i + 1 \in 1..Len(b) /\ (i + 1) - 1 = i
    BY <1>0, <2>1
  <2>3. Good(i)
    BY <1>3, <2>2
  <2>4. PICK r : r = b[i + 1]
    OBVIOUS
  <2>5. h[i + 1] = UnlockMatched(h[i], r)
    <3>1. h[i + 1] = Each("unlock", h[(i + 1) - 1], b[i + 1])
      BY <1>1, <2>2 DEF IsChain
    <3>. QED BY <2>2, <2>4, <3>1 DEF Each
  <2>6. IsHolding(LockedFrom(b, i), LockedFrom(b, i + 1), r, NewLock(r))
    <3>1. PICK B : B = {b[j] : j \in ((i + 1) + 1)..Len(b)}
      OBVIOUS
    <3>2. {b[j] : j \in (i + 1)..Len(b)} = B \cup {r}
      <4>1. (i + 1)..Len(b) = (((i + 1) + 1)..Len(b)) \cup {i + 1}
        BY <1>0, <2>2
      <4>. QED BY <2>4, <3>1, <4>1
    <3>3. r \notin Live /\ r \notin B
      <4>1. r \in Range(b)
        BY <1>0, <2>2, <2>4
      <4>2. \A j \in ((i + 1) + 1)..Len(b) : j \in 1..Len(b) /\ j # i + 1
        BY <1>0, <2>2
      <4>3. \A j \in ((i + 1) + 1)..Len(b) : b[j] # r
        BY <1>0, <2>2, <2>4, <4>2
      <4>. QED BY <3>1, <4>1, <4>3
    <3>4. /\ LockedFrom(b, i + 1) = [x \in Live \cup B |-> IF x \in Live THEN live[x].lock ELSE NewLock(x)]
          /\ LockedFrom(b, i) = [x \in Live \cup (B \cup {r}) |-> IF x \in Live THEN live[x].lock ELSE NewLock(x)]
      BY <3>1, <3>2 DEF LockedFrom
    <3>. QED BY <3>3, <3>4 DEF IsHolding
  <2>7. CASE Reused(r) > 0
    <3>1. NewLock(r) = Matched(r) /\ h[i + 1] = dec_lock_ref(h[i], Matched(r))
      BY <2>5, <2>7 DEF NewLock, UnlockMatched
    <3>2. h[i + 1].kv = t.kv
      BY <2>3, <3>1, SameIndices DEF TreeInv, Shape
    <3>. QED BY <2>3, <2>6, <3>1, <3>2, DecKeeps
  <2>8. CASE ~(Reused(r) > 0)
    <3>1. NewLock(r) = Root /\ h[i + 1] = h[i]
      BY <2>5, <2>8 DEF NewLock, UnlockMatched
    <3>. QED BY <2>3, <2>6, <3>1, RootKeeps
  <2>. QED BY <2>7, <2>8
<1>4. Good(Len(b))
  <2>. HIDE DEF Good
  <2>1. Len(b) \in G
    <3>. HIDE DEF G
    <3>. QED BY <1>0, <1>2, <1>3, NatInductive
  <2>. QED BY <1>0, <2>1
<1>5. LockedFrom(b, Len(b)) = LockMap(live)
  <2>1. {b[j] : j \in (Len(b) + 1)..Len(b)} = {}
    BY <1>0
  <2>. QED BY <2>1 DEF LockedFrom, LockMap, Live
<1>. QED BY <1>1, <1>4, <1>5

\* What TypeOK says of the memory, and of the rest.
MemTyped(m) ==
  /\ m.free \subseteq Slots /\ m.release \subseteq Slots /\ m.free \cap m.release = {}
  /\ m.tree.kv \in [DOMAIN m.tree.kv -> 0..PoolSize]
  /\ Nodes(m.tree) \subseteq DOMAIN m.tree.kv
  /\ m.tree.lock \in [Nodes(m.tree) -> 0..Cardinality(Reqs)]
  /\ m.tree.evictable \in Int /\ m.tree.protected \in 0..PoolSize

RestTyped ==
  /\ rows \in [1..NumRows -> [1..MaxLen -> 0..PoolSize]]
  /\ free_rows \in Seq(1..NumRows)
  /\ \A r \in Live : live[r].output \in Seq(OutTokens) /\ live[r].row \in 1..NumRows

\* A memory that is right for the requests that hold its nodes has its type.
LEMMA MemHasType ==
  ASSUME IsFiniteSet(Reqs), NEW m, NEW lv, LiveInv(lv), TreeInv(m.tree, LockMap(lv)), Lists(m),
         NoneMissing(m.tree.kv, DOMAIN lv), NEW F, NEW own, NEW c, Owned(F, m.tree.kv, own, c)
  PROVE  MemTyped(m)
<1>1. PICK t, L : t = m.tree /\ L = LockMap(lv)
  OBVIOUS
<1>2. DOMAIN L = DOMAIN lv /\ DOMAIN L \subseteq Reqs /\ \A r \in DOMAIN L : OnPrompt(r, L[r])
  BY <1>1 DEF LiveInv, LockMap
<1>3. /\ Nodes(t) \subseteq DOMAIN t.kv /\ t.lock \in [Nodes(t) -> Nat] /\ t.evictable \in Int
      /\ t.kv = [p \in DOMAIN t.kv |-> t.kv[p]] /\ PoolSize \in Nat
  BY <1>1, PoolAssumption DEF TreeInv, Shape, IsTree, Typed
<1>4. t.protected \in 0..PoolSize
  BY <1>1, <1>2, ProtectedBound
<1>5. t.kv \in [DOMAIN t.kv -> 0..PoolSize]
  <2>1. \A p \in DOMAIN t.kv : t.kv[p] \in 0..PoolSize
    BY <1>1, <1>3 DEF Owned, Slots
  <2>. QED BY <1>3, <2>1
<1>6. t.lock \in [Nodes(t) -> 0..Cardinality(Reqs)]
  <2>1. ASSUME NEW n \in Nodes(t) PROVE t.lock[n] \in 0..Cardinality(Reqs)
    <3>1. t.lock[n] = Cardinality(Readers(L, n)) /\ Readers(L, n) \subseteq Reqs
      BY <1>1, <1>2 DEF TreeInv, Held, Readers
    <3>2. /\ Cardinality(Readers(L, n)) \in Nat /\ Cardinality(Reqs) \in Nat
          /\ Cardinality(Readers(L, n)) <= Cardinality(Reqs)
      BY <3>1, FS_Subset, FS_CardinalityType
    <3>. QED BY <3>1, <3>2
  <2>. QED BY <1>3, <2>1
<1>. QED BY <1>1, <1>3, <1>4, <1>5, <1>6 DEF MemTyped, Lists

\* While the process is up everything has its type.
LEMMA UpTyped ==
  ASSUME IsFiniteSet(Reqs), LockInv, SlotInv, status = "up" PROVE MemTyped(mem) /\ RestTyped
<1>1. MemInv(mem, LockMap(live)) /\ LiveInv(live) /\ \A r \in Live : live[r].output \in Seq(OutTokens)
  BY DEF LockInv
<1>2. Kept(Now, Texts, Lengths, content) /\ free_rows \in Seq(1..NumRows)
  BY DEF SlotInv, Spare
<1>3. /\ Lists(mem) /\ Owned(FreeOf(mem), mem.tree.kv, OwnMap(Now, Lengths), content)
      /\ NoneMissing(mem.tree.kv, DOMAIN live)
      /\ rows = [n \in 1..NumRows |-> [k \in 1..MaxLen |-> rows[n][k]]] /\ RowsTyped(rows)
      /\ \A r \in Live : live[r].row \in 1..NumRows
  BY <1>2 DEF Kept, Now, Live
<1>4. MemTyped(mem)
  BY <1>1, <1>3, MemHasType DEF MemInv
<1>6. rows \in [1..NumRows -> [1..MaxLen -> 0..PoolSize]]
  BY <1>3 DEF RowsTyped
<1>. QED BY <1>1, <1>2, <1>3, <1>4, <1>6 DEF RestTyped

\* An extend that fails leaves the memory as it should be.
LEMMA FailedExtendTyped ==
  ASSUME IsFiniteSet(Reqs), LockInv, SlotInv, status = "up", NEW b \in Batches, Range(b) \cap started = {},
         NEW o \in AllocKV([mem EXCEPT !.tree = MatchedTree(b)], NewTokens(b)), ~o.ok
  PROVE  MemTyped([o.mem EXCEPT !.tree = FoldLeft(UnlockMatched, @, b)])
<1>0. MemInv(mem, LockMap(live)) /\ LiveInv(live) /\ Live \subseteq started
  BY DEF LockInv
<1>1. Range(b) \cap Live = {}
  BY <1>0
<1>2. PICK own : own = OwnMap(Now, Lengths)
  OBVIOUS
<1>3. Lists(mem) /\ Owned(FreeOf(mem), mem.tree.kv, own, content) /\ NoneMissing(mem.tree.kv, DOMAIN live)
  BY <1>2 DEF SlotInv, Kept, Now
<1>4. PICK L : L = LockedUpto(b, Len(b))
  OBVIOUS
<1>5. LockMap(Live0(b)) = L
  BY <1>0, <1>4, NewLiveIs DEF Live0
<1>6. TreeInv(MatchedTree(b), L) /\ MatchedTree(b).kv = mem.tree.kv
  BY <1>0, <1>1, <1>5, MatchedTreeIs
<1>7. PICK m : m = [mem EXCEPT !.tree = MatchedTree(b)]
  OBVIOUS
<1>8. MemInv(m, L) /\ m.tree.kv = mem.tree.kv /\ Lists(m) /\ FreeOf(m) = FreeOf(mem)
  <2>1. PICK t, f, e : mem = [tree |-> t, free |-> f, release |-> e]
    BY <1>0 DEF MemInv
  <2>2. m = [tree |-> MatchedTree(b), free |-> f, release |-> e]
    BY <1>7, <2>1
  <2>3. MemInv(m, L)
    BY <1>0, <1>6, <1>7, WithTreeKeeps
  <2>. QED BY <1>3, <1>6, <2>1, <2>2, <2>3 DEF Lists, FreeOf
<1>9. Handed(o, m, NewTokens(b), L, own, content)
  BY <1>3, <1>7, <1>8, OffsetType, AllocHands
<1>10. PICK F : F = FreeOf(o.mem) \cup Range(o.got)
  OBVIOUS
<1>11. /\ Lists(o.mem) /\ MemInv(o.mem, L) /\ PartOf(o.mem.tree.kv, mem.tree.kv)
       /\ Owned(F, o.mem.tree.kv, own, content)
  BY <1>8, <1>9, <1>10 DEF Handed
<1>12. PICK t, f, e : o.mem = [tree |-> t, free |-> f, release |-> e]
  BY <1>11 DEF MemInv
<1>13. PICK u : u = FoldLeft(UnlockMatched, t, b)
  OBVIOUS
<1>14. TreeInv(u, LockMap(live)) /\ u.kv = t.kv
  BY <1>1, <1>4, <1>11, <1>12, <1>13, UnlocksKeep DEF MemInv
<1>15. PICK n : n = [tree |-> u, free |-> f, release |-> e]
  OBVIOUS
<1>16. [o.mem EXCEPT !.tree = FoldLeft(UnlockMatched, @, b)] = n
  BY <1>12, <1>13, <1>15
<1>17. Lists(n) /\ n.tree = u
  BY <1>11, <1>12, <1>15 DEF Lists
<1>18. NoneMissing(u.kv, DOMAIN live) /\ Owned(F, u.kv, own, content)
  BY <1>3, <1>11, <1>12, <1>14, PartHasSlots
<1>19. MemTyped(n)
  BY <1>0, <1>14, <1>17, <1>18, MemHasType
<1>. QED BY <1>16, <1>19

\* So does a decode that fails.
LEMMA FailedDecodeTyped ==
  ASSUME IsFiniteSet(Reqs), LockInv, SlotInv, status = "up", NEW n \in Nat, NEW o \in AllocKV(mem, n), ~o.ok
  PROVE  MemTyped(o.mem)
<1>0. MemInv(mem, LockMap(live)) /\ LiveInv(live)
  BY DEF LockInv
<1>1. PICK own : own = OwnMap(Now, Lengths)
  OBVIOUS
<1>2. Lists(mem) /\ Owned(FreeOf(mem), mem.tree.kv, own, content) /\ NoneMissing(mem.tree.kv, DOMAIN live)
  BY <1>1 DEF SlotInv, Kept, Now
<1>3. Handed(o, mem, n, LockMap(live), own, content)
  BY <1>0, <1>2, AllocHands
<1>4. PICK F : F = FreeOf(o.mem) \cup Range(o.got)
  OBVIOUS
<1>5. /\ Lists(o.mem) /\ TreeInv(o.mem.tree, LockMap(live)) /\ PartOf(o.mem.tree.kv, mem.tree.kv)
      /\ Owned(F, o.mem.tree.kv, own, content)
  BY <1>3, <1>4 DEF Handed, MemInv
<1>6. NoneMissing(o.mem.tree.kv, DOMAIN live)
  BY <1>2, <1>5, PartHasSlots
<1>. QED BY <1>0, <1>5, <1>6, MemHasType

\* An allocation of no slots does not fail.
LEMMA NothingToAllocate ==
  ASSUME NEW m, m.free \subseteq Slots, m.release \subseteq Slots, NEW o \in AllocKV(m, 0) PROVE o.ok
<1>1. PICK x : x = Take(m, 0)
  OBVIOUS
<1>2. x.ok
  <2>1. \A S : S \subseteq Slots => Cardinality(S) \in Nat
    BY SlotsFinite, FS_Subset, FS_CardinalityType
  <2>2. Cardinality(m.free) \in Nat /\ Cardinality(m.free \cup m.release) \in Nat
    BY <2>1
  <2>3. PICK S : x.ok = (0 <= Cardinality(S)) /\ (S = m.free \/ S = m.free \cup m.release)
    BY <1>1 DEF Take
  <2>4. 0 <= Cardinality(S)
    BY <2>2, <2>3
  <2>. QED BY <2>3, <2>4, Zenon
<1>3. \A S : S = {x} => NextTry(S, 0) = {x}
  BY <1>2 DEF NextTry
<1>4. AllocKV(m, 0) = NextTry(NextTry(NextTry({x}, 0), 0), 0)
  BY <1>1, AllocIs
<1>5. AllocKV(m, 0) = {x}
  BY <1>3, <1>4
<1>. QED BY <1>2, <1>5

\* An allocation that raises leaves memory of its type, whichever call it was made by.
LEMMA RaisesTyped ==
  ASSUME IsFiniteSet(Reqs), LockInv, SlotInv, NEW b \in Batches \cup {SetToSeq(Live)}, Raises(b)
  PROVE  MemTyped(mem') /\ RestTyped' /\ status' = "dead"
<1>0. /\ status = "up" /\ status' = "dead" /\ rows' = rows /\ free_rows' = free_rows /\ live' = live
      /\ Live' = Live
  BY DEF Raises, Live
<1>1. MemTyped(mem) /\ RestTyped
  BY <1>0, UpTyped
<1>2. RestTyped'
  BY <1>0, <1>1 DEF RestTyped
<1>3. IsFiniteSet(Live) /\ Live \subseteq started
  <2>1. IsFiniteSet(DOMAIN LockMap(live)) /\ Live \subseteq started
    BY <1>0 DEF LockInv, MemInv, TreeInv, Held
  <2>. QED BY <2>1 DEF LockMap, Live
<1>4. Len(b) \in Nat
  BY <1>3, BatchType, SetToSeqIs
<1>5. CASE \E o \in AllocKV(mem, Len(b)) : ~o.ok /\ mem' = o.mem
  <2>1. PICK o \in AllocKV(mem, Len(b)) : ~o.ok /\ mem' = o.mem
    BY <1>5
  <2>2. MemTyped(o.mem)
    BY <1>0, <1>4, <2>1, FailedDecodeTyped
  <2>. QED BY <1>0, <1>2, <2>1, <2>2
<1>6. ASSUME Range(b) \cap started = {},
             NEW o \in AllocKV([mem EXCEPT !.tree = MatchedTree(b)], NewTokens(b)), ~o.ok,
             mem' = [o.mem EXCEPT !.tree = FoldLeft(UnlockMatched, @, b)]
      PROVE  MemTyped(mem')
  <2>1. CASE b \in Batches
    BY <1>0, <1>6, <2>1, FailedExtendTyped
  <2>2. CASE b = SetToSeq(Live)
    <3>1. \A i \in 1..Len(b) : b[i] \in Live /\ b[i] \in Range(b)
      BY <1>3, <2>2, SetToSeqIs DEF Range
    <3>2. Len(b) = 0
      <4>1. \A x \in Range(b) : x \notin Live
        BY <1>3, <1>6
      <4>2. \A i \in 1..Len(b) : FALSE
        BY <3>1, <4>1
      <4>. QED BY <1>4, <4>2
    <3>3. NewTokens(b) = 0
      <4>1. PICK E : E = 1..((Len(b) + 1) - 1)
        OBVIOUS
      <4>2. E = {} /\ IsFiniteSet(E)
        BY <3>2, <4>1, FS_EmptySet
      <4>3. PICK f : f = [n \in {} |-> ExtendLen(b[n])]
        OBVIOUS
      <4>4. Offset(b, Len(b) + 1) = SumFunctionOnSet(f, E)
        BY <4>1, <4>2, <4>3, OffsetSum
      <4>. QED BY <4>2, <4>4, SumEmpty DEF NewTokens
    <3>4. PICK m : m = [mem EXCEPT !.tree = MatchedTree(b)]
      OBVIOUS
    <3>5. m.free \subseteq Slots /\ m.release \subseteq Slots
      <4>1. PICK t, f, e : mem = [tree |-> t, free |-> f, release |-> e]
        BY <1>0 DEF LockInv, MemInv
      <4>2. m = [tree |-> MatchedTree(b), free |-> f, release |-> e]
        BY <3>4, <4>1
      <4>. QED BY <1>1, <4>1, <4>2 DEF MemTyped
    <3>6. o \in AllocKV(m, 0)
      BY <1>6, <3>3, <3>4
    <3>7. o.ok
      BY <3>5, <3>6, NothingToAllocate
    <3>. QED BY <1>6, <3>7
  <2>. QED BY <2>1, <2>2
<1>. QED BY <1>0, <1>2, <1>5, <1>6 DEF Raises

\* Under the same condition, which the bound of protected_size() needs, all that the
\* process keeps has its type, also when an allocation raises in the middle of an extend
\* and _unlock_matched_nodes() takes the locks back: the free list and the list to be
\* merged have no slot in common, the tree has an index for each node, lock_ref is never
\* negative or more than there are requests, and protected_size() never more than there
\* are slots.
THEOREM TypesAlwaysOK == IsFiniteSet(Reqs) => (CarefulSpec => []TypeOK)
<1>. SUFFICES ASSUME IsFiniteSet(Reqs) PROVE CarefulSpec => []TypeOK
  OBVIOUS
<1>. DEFINE Switch == cached \in BOOLEAN
            Down == status = "up" \/ TypeOK
<1>1. Init => Switch /\ Down
  BY DEF Init
<1>2. LockInv /\ SlotInv /\ Switch /\ status = "up" => TypeOK
  BY UpTyped DEF MemTyped, RestTyped, TypeOK
<1>3. LockInv /\ SlotInv /\ Switch /\ Down /\ [Next]_vars => Switch' /\ Down'
  <2>. SUFFICES ASSUME LockInv, SlotInv, Switch, Down, [Next]_vars PROVE Switch' /\ Down'
    OBVIOUS
  <2>1. CASE \E b \in Batches : Extend(b)
    BY <2>1 DEF Extend
  <2>2. CASE \E b \in {SetToSeq(Live)} : Decode(b)
    BY <2>2 DEF Decode
  <2>3. CASE \E b \in Batches \cup {SetToSeq(Live)} : Raises(b)
    <3>1. MemTyped(mem') /\ RestTyped' /\ status' = "dead"
      BY <2>3, RaisesTyped
    <3>2. Switch'
      BY <2>3 DEF Raises
    <3>. QED BY <3>1, <3>2 DEF MemTyped, RestTyped, TypeOK, Nodes
  <2>4. CASE \E r \in Live : Free(r)
    BY <2>4 DEF Free
  <2>5. CASE UNCHANGED vars
    <3>1. /\ cached' = cached /\ mem' = mem /\ rows' = rows /\ free_rows' = free_rows /\ live' = live
          /\ status' = status /\ Live' = Live
      BY <2>5 DEF vars, Live
    <3>. QED BY <3>1 DEF TypeOK, Nodes
  <2>. QED BY <2>1, <2>2, <2>3, <2>4, <2>5 DEF Next
<1>. QED BY <1>1, <1>2, <1>3, LockInvariant, SlotInvariant, CarefulIsSpec, PTL DEF CarefulSpec
=============================================================================
