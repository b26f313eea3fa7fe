---------------------------- MODULE PrefixTree ----------------------------
(***************************************************************************)
(* The radix tree of the C++ prefix cache (mllm/engine/prefix_cache/       *)
(* RadixTree.cpp), as operators on a tree: a function from the path of     *)
(* each node but the root, all tokens from the root to the node's end, to  *)
(* its edge: how many of these tokens are its own, and their K and V       *)
(* addresses. One transformer block stands for all. The extra key is left  *)
(* out (Cache::find() never gives one), and so is ref_count, which nothing *)
(* reads.                                                                  *)
(***************************************************************************)
EXTENDS Integers, Sequences, FiniteSets, SequencesExt

EmptyTree == [p \in {} |-> [len |-> 0, k |-> <<>>, v |-> <<>>]]

Upto(s, n) == SubSeq(s, 1, n)

From(s, n) == SubSeq(s, n + 1, Len(s))

\* _matchedLength()
CommonLen(a, b) ==
  LET n == IF Len(a) < Len(b) THEN Len(a) ELSE Len(b)
  IN CHOOSE m \in 0..n : /\ Upto(a, m) = Upto(b, m)
                         /\ m = n \/ a[m + 1] # b[m + 1]

Above(tree, c) == Upto(c, Len(c) - tree[c].len)

Edge(tree, c) == From(c, Len(c) - tree[c].len)

\* The children of the node at p that share a token with rest.
ChildrenFor(tree, p, rest) ==
  {c \in DOMAIN tree : Above(tree, c) = p /\ CommonLen(Edge(tree, c), rest) > 0}

\* The walk of insert() and search() from the root. It goes on into the children
\* of a node also when only a part of the node's edge matched.
Step(tree, key, at) ==
  LET rest == From(key, at.matched)
      C == ChildrenFor(tree, at.node, rest)
  IN IF rest = <<>> \/ C = {} THEN at
     ELSE LET c == CHOOSE c \in C : TRUE
              n == CommonLen(Edge(tree, c), rest)
          IN [node |-> c, edge |-> n, matched |-> at.matched + n,
              path |-> Append(at.path, <<c, n>>)]

AtRoot == [node |-> <<>>, edge |-> 0, matched |-> 0, path |-> <<>>]

Descend(tree, key) ==
  LET walk[i \in 0..Len(key)] == IF i = 0 THEN AtRoot ELSE Step(tree, key, walk[i - 1])
  IN walk[Len(key)]

Search(tree, key) ==
  LET at == Descend(tree, key) IN
  [matched |-> at.matched,
   k |-> FlattenSeq([i \in DOMAIN at.path |-> Upto(tree[at.path[i][1]].k, at.path[i][2])]),
   v |-> FlattenSeq([i \in DOMAIN at.path |-> Upto(tree[at.path[i][1]].v, at.path[i][2])])]

\* A mistake: the lower node is lost.
SplitDropsLower(tree, c, n) ==
  LET upper == Upto(c, Len(c) - tree[c].len + n) IN
  [p \in (DOMAIN tree \cup {upper}) \ {c} |->
     IF p = upper THEN [len |-> n, k |-> Upto(tree[c].k, n), v |-> Upto(tree[c].v, n)]
     ELSE tree[p]]

\* _split(): the node at c becomes an upper node with n tokens and a lower one,
\* which keeps the children.
Split(tree, c, n) ==
  LET upper == Upto(c, Len(c) - tree[c].len + n) IN
  [p \in DOMAIN tree \cup {upper} |->
     IF p = upper THEN [len |-> n, k |-> Upto(tree[c].k, n), v |-> Upto(tree[c].v, n)]
     ELSE IF p = c THEN [len |-> tree[c].len - n, k |-> From(tree[c].k, n), v |-> From(tree[c].v, n)]
     ELSE tree[p]]

\* The addresses of a new leaf: those of the tokens that were not matched.
LeafOf(addresses, matched) == From(addresses, matched)

Partly(tree, at) == at.edge > 0 /\ at.edge < tree[at.node].len

Insert(tree, key, k, v) ==
  LET at == Descend(tree, key)
      split == IF Partly(tree, at) THEN Split(tree, at.node, at.edge) ELSE tree
      parent == IF Partly(tree, at)
                THEN Upto(at.node, Len(at.node) - tree[at.node].len + at.edge)
                ELSE at.node
      leaf == parent \o From(key, at.matched)
  IN IF at.matched = Len(key) THEN tree
     ELSE [p \in DOMAIN split \cup {leaf} |->
             IF p = leaf THEN [len |-> Len(key) - at.matched,
                               k |-> LeafOf(k, at.matched), v |-> LeafOf(v, at.matched)]
             ELSE split[p]]
=============================================================================
