----------------------------- MODULE RadixTree -----------------------------
(***************************************************************************)
(* RadixCache (pymllm/mem_cache/radix_cache.py), page_size 1, no sliding   *)
(* window: what each operation does to the tree, as functions of it.       *)
(*                                                                         *)
(* A tree is what it caches, not how it is linked: a node is named by the  *)
(* whole token path from the root to its end, which a split never changes  *)
(* (the new node gets the shorter path), so a TreeNode held by a caller is *)
(* its path. The root is the empty path. Which of the evictable leaves is  *)
(* the least recently used is left open.                                   *)
(***************************************************************************)
EXTENDS Integers, Sequences, FiniteSets, SequencesExt, FiniteSetsExt

Root == <<>>

\* kv: the KV index cached for each path; lock: the lock_ref of each node.
EmptyTree ==
  [kv |-> [p \in {} |-> 0], lock |-> [p \in {} |-> 0],
   evictable |-> 0, protected |-> 0]

Nodes(t) == DOMAIN t.lock

\* The paths from the root along key, the root left out.
Along(key) == {SubSeq(key, 1, n) : n \in 1..Len(key)}

Longest(S) ==
  IF S = {} THEN Root ELSE CHOOSE p \in S : \A q \in S : Len(q) <= Len(p)

ParentOf(t, n) == Longest((Along(n) \ {n}) \cap Nodes(t))

KeyLen(t, n) == Len(n) - Len(ParentOf(t, n))

Below(t, p) == {n \in Nodes(t) : IsStrictPrefix(p, n)}

\* How far the tree follows key.
Hit(t, key) == Longest(Along(key) \cap DOMAIN t.kv)

-----------------------------------------------------------------------------
\* A mistake: the new node starts unlocked.
SplitLockZero(t, p) == 0

\* _split_node() gives the new node the lock_ref of the one it cuts.
SplitLock(t, p) ==
  t.lock[CHOOSE n \in Below(t, p) : \A q \in Below(t, p) : Len(n) <= Len(q)]

\* The tree with a node boundary at the end of path p.
Split(t, p) ==
  IF p = Root \/ p \in Nodes(t) THEN t
  ELSE [t EXCEPT !.lock =
          [n \in Nodes(t) \cup {p} |-> IF n = p THEN SplitLock(t, p) ELSE t.lock[n]]]

\* match_prefix(): the walk splits the node it ends in.
match_prefix(t, key) == Split(t, Hit(t, key))

\* _add_leaf() takes a childless unlocked parent off the evictable tokens.
ParentCharge(t, p) ==
  IF p # Root /\ Below(t, p) = {} /\ t.lock[p] = 0 THEN KeyLen(t, p) ELSE 0

\* insert(): walk as match_prefix() does and hang the rest of key below. How
\* much of key was there already is Len(Hit(t, key)).
insert(t, key, value) ==
  LET p == Hit(t, key)
      s == Split(t, p)
      new == Along(key) \ Along(p)
  IN IF p = key THEN s
     ELSE [kv |-> [q \in DOMAIN s.kv \cup new |->
                     IF q \in new THEN value[Len(q)] ELSE s.kv[q]],
           lock |-> [n \in Nodes(s) \cup {key} |-> IF n = key THEN 0 ELSE s.lock[n]],
           evictable |-> s.evictable - ParentCharge(s, p) + Cardinality(new),
           protected |-> s.protected]

Path(t, n) == Along(n) \cap Nodes(t)

\* The tokens of the nodes on the path to n whose lock_ref is k.
TokensAt(t, n, k) ==
  MapThenSumSet(LAMBDA q : KeyLen(t, q), {q \in Path(t, n) : t.lock[q] = k})

inc_lock_ref(t, n) ==
  [t EXCEPT !.lock = [q \in Nodes(t) |-> t.lock[q] + (IF q \in Path(t, n) THEN 1 ELSE 0)],
            !.evictable = @ - TokensAt(t, n, 0),
            !.protected = @ + TokensAt(t, n, 0)]

dec_lock_ref(t, n) ==
  [t EXCEPT !.lock = [q \in Nodes(t) |-> t.lock[q] - (IF q \in Path(t, n) THEN 1 ELSE 0)],
            !.evictable = @ + TokensAt(t, n, 1),
            !.protected = @ - TokensAt(t, n, 1)]

-----------------------------------------------------------------------------
MayGo(t, n) == t.lock[n] = 0

TokensOf(t, E) == MapThenSumSet(LAMBDA n : KeyLen(t, n), E)

\* The sets of nodes evict(target) can delete, leaf by leaf: nothing stays below
\* a deleted node, and it stops when target tokens are gone or no leaf may go.
Evictable(t, target) ==
  {E \in SUBSET {n \in Nodes(t) : MayGo(t, n)} :
     /\ \A n \in E : Below(t, n) \subseteq E
     /\ \/ /\ TokensOf(t, E) < target
           /\ \A n \in Nodes(t) \ E : MayGo(t, n) => ~(Below(t, n) \subseteq E)
        \/ /\ TokensOf(t, E) >= target
           /\ \E n \in E : /\ E \cap Along(n) = {n}
                           /\ TokensOf(t, E) - KeyLen(t, n) < target}

\* The paths that go with the nodes E.
Gone(t, E) == UNION {Along(n) \ Along(ParentOf(t, n)) : n \in E}

WithoutNodes(t, E) ==
  [kv |-> [p \in DOMAIN t.kv \ Gone(t, E) |-> t.kv[p]],
   lock |-> [n \in Nodes(t) \ E |-> t.lock[n]],
   evictable |-> t.evictable - TokensOf(t, E),
   protected |-> t.protected]
=============================================================================
