--------------------------- MODULE SlidingWindow ---------------------------
(***************************************************************************)
(* CpuPrefixCache with sliding-window layers (mllm/nn/lmcache/             *)
(* PrefixCache.cpp), used token by token: find, allocate, promote, then    *)
(* free what left the window. A sliding-window layer has blobs of one page *)
(* with as many lanes as the window has tokens, rounded down to a power of *)
(* two; the words of their bitmaps may well have more bits. One such layer *)
(* stands for all; its keys and its values have a file system each and go  *)
(* through the same steps, so that one stands for both.                    *)
(***************************************************************************)
EXTENDS PrefixTree

CONSTANTS
  Window,     \* sliding_window_size
  WordBits,   \* bits of a word of the bitmap, 64 in the code
  Tokens,     \* Tokens[i]: what token i of a sequence may be
  MaxTokens   \* bound: tokens added, over all sequences

PageBits == 0

\* The logarithm of the window, cut to an integer.
LaneBits == CHOOSE n \in 0..Window : 2^n <= Window /\ Window < 2^(n + 1)

ZenFS == INSTANCE ZenFS

WindowAssumption == Window \in Nat \ {0} /\ WordBits \in Nat \ {0}

VARIABLES
  fs,     \* the blobs of the layer
  tree,   \* tree_
  ids,    \* token_ids, the sequence at hand
  evict,  \* evictSlidingWindowLayerOn(ids) comes next
  added   \* history: the tokens added so far

vars == <<fs, tree, ids, evict, added>>

Invalid == -1

Init ==
  /\ fs = ZenFS!OneBlob
  /\ tree = EmptyTree
  /\ ids = <<>> /\ evict = FALSE /\ added = 0

\* A new sequence.
Restart ==
  /\ ~evict /\ ids # <<>>
  /\ ids' = <<>>
  /\ UNCHANGED <<fs, tree, evict, added>>

\* One more token: find(), allocKey() and allocValue(), promote(). The lane of a
\* token that was cached already is lost.
AddToken(t) ==
  LET all == Append(ids, t) IN
  /\ ~evict /\ added < MaxTokens
  /\ \E m \in ZenFS!Malloc(fs) :
       LET k == Append(Search(tree, all).k, m.addr)
       IN fs' = m.fs /\ tree' = Insert(tree, all, k, k)
  /\ ids' = all
  /\ evict' = TRUE
  /\ added' = added + 1

Least(a, b) == IF a < b THEN a ELSE b

\* A mistake: the window is one token too short.
EvictedOneMore(after, m) == IF after + m >= Window THEN Least(m, after + m - Window + 1) ELSE 0

\* How many of the first of m tokens of a node are evicted, when the path goes on
\* for after more tokens.
Evicted(after, m) == IF after + m > Window THEN Least(m, after + m - Window) ELSE 0

\* The nodes on the path to ids, and how many of their tokens are evicted.
Path == Descend(tree, ids).path

MatchedOf(i) == Path[i][2]

After(i) == Descend(tree, ids).matched - (Len(Above(tree, Path[i][1])) + MatchedOf(i))

EvictedOf(c) ==
  IF \E i \in DOMAIN Path : Path[i][1] = c
  THEN LET i == CHOOSE i \in DOMAIN Path : Path[i][1] = c IN Evicted(After(i), MatchedOf(i))
  ELSE 0

\* A mistake: an evicted address stays in the tree.
MarkedNot(list, n) == list

Marked(list, n) == [i \in DOMAIN list |-> IF i <= n THEN Invalid ELSE list[i]]

\* freeKey() and freeValue() of each evicted address but invalid ones.
Freed ==
  LET A == UNION {{tree[c].k[i] : i \in 1..EvictedOf(c)} : c \in DOMAIN tree} \ {Invalid}
  IN [b \in DOMAIN fs |-> UNION ({fs[b]} \cup {ZenFS!FreeLane(fs, a)[b] : a \in A})]

\* evictSlidingWindowLayerOn(ids)
Evict ==
  /\ evict
  /\ evict' = FALSE
  /\ IF Len(ids) > Window /\ Descend(tree, ids).matched > Window
     THEN /\ fs' = Freed
          /\ tree' = [c \in DOMAIN tree |->
               [tree[c] EXCEPT !.k = Marked(@, EvictedOf(c)), !.v = Marked(@, EvictedOf(c))]]
     ELSE UNCHANGED <<fs, tree>>
  /\ UNCHANGED <<ids, added>>

Next ==
  \/ \E t \in (IF Len(ids) < Len(Tokens) THEN Tokens[Len(ids) + 1] ELSE {}) : AddToken(t)
  \/ Evict
  \/ Restart

Spec == Init /\ [][Next]_vars

-----------------------------------------------------------------------------
Places == {<<c, i>> \in (DOMAIN tree) \X (1..Len(Tokens)) : i <= tree[c].len /\ tree[c].k[i] # Invalid}

At(p) == tree[p[1]].k[p[2]]

\* A key is stored behind each address in the tree: its blob exists, and no other
\* token has the same address.
AddressesHold ==
  /\ \A p \in Places : ZenFS!BlobAddr(At(p)) \in DOMAIN fs
  /\ \A p, q \in Places : p # q => At(p) # At(q)

\* While the first bitmap lasts, an address in the tree is allocated, and to one
\* token only, although lanes are freed under nodes that several sequences share and
\* are handed out again, and those that no blob has are never freed.
AllocatedOnce ==
  DOMAIN fs = {0} =>
    /\ \A p, q \in Places : p # q => At(p) # At(q)
    /\ \A p \in Places : At(p) \notin fs[0]

LastOf(list) == SubSeq(list, Len(list) - Least(Window, Len(list)) + 1, Len(list))

\* Evicting for a sequence leaves the tokens in its own window as they are.
KeepsOwnWindow ==
  evict /\ ~evict' =>
    LastOf(Search(tree', ids).k) = LastOf(Search(tree, ids).k)

EvictionKeepsWindow == [][KeepsOwnWindow]_vars
=============================================================================
