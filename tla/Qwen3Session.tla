--------------------------- MODULE Qwen3Session ---------------------------
(***************************************************************************)
(* A session of the C++ service with its prefix cache: streamGenerate() of *)
(* Qwen3Session and the attention it drives (mllm/models/qwen3/            *)
(* modeling_qwen3_service.hpp), generation (mllm/models/ARGeneration.cpp), *)
(* and Cache with its tree, its allocator and its TLB (mllm/engine/        *)
(* prefix_cache). One worker thread runs one request after the other.      *)
(*                                                                         *)
(* A prompt is a body, the conversation so far, and the tail with which    *)
(* the chat template starts an answer without thinking. What a lane holds  *)
(* is what it was computed from: the tokens up to its own and the position *)
(* given to it. One transformer block stands for all.                      *)
(***************************************************************************)
EXTENDS PrefixTree

CONSTANTS
  Bodies,     \* conversations a client may send
  Answers,    \* tokens the model may generate besides the end of its answer
  Think,      \* thinking_start_token_id
  Close,      \* the end of the thinking the template closes at once
  Eos,        \* eos_token_id
  MaxLength,  \* max_length of the requests
  MaxRequests,\* bound: requests of a session
  PageBits, LaneBits, WordBits

VARIABLES
  fs,        \* the blobs of the file system
  tlb,       \* address -> lane
  lane,      \* lane -> what was written there
  tree,      \* the radix tree
  seq,       \* full_seq_idx
  k, v,      \* k_cache_addrs_ and v_cache_addrs_
  next,      \* the tokens to compute next
  position,  \* position_ids of the last forward(), of its first and last token
  pc,        \* "idle", "forward", "token" or "promote"
  package,   \* package_cnt
  promoted,  \* history: the sequences promoted so far
  requests   \* history: how many requests there were

cacheVars == <<fs, tlb, lane, tree>>

vars == <<cacheVars, seq, k, v, next, position, pc, package, promoted, requests>>

ZenFS == INSTANCE ZenFS

SessionAssumption ==
  /\ ZenFS!LanesFit
  /\ <<>> \notin Bodies
  /\ \A b \in Bodies : \A i \in DOMAIN b : b[i] \notin {Think, Close, Eos}
  /\ MaxLength \in Nat \ {0}

Tail2 == <<Think, Close>>

Init ==
  /\ fs = ZenFS!OneBlob
  /\ tlb = [a \in {} |-> 0] /\ lane = [l \in {} |-> 0]
  /\ tree = EmptyTree
  /\ seq = <<>> /\ k = <<>> /\ v = <<>> /\ next = <<>>
  /\ position = <<0, 0>>
  /\ pc = "idle" /\ package = 0
  /\ promoted = {} /\ requests = 0

-----------------------------------------------------------------------------
\* A request: find() gives what is cached; the rest is to be computed.
Begin(body) ==
  LET prompt == body \o Tail2
      hit == Search(tree, prompt)
  IN
  /\ pc = "idle" /\ requests < MaxRequests
  /\ requests' = requests + 1
  /\ seq' = prompt
  /\ k' = hit.k /\ v' = hit.v
  /\ next' = From(prompt, hit.matched)
  /\ position' = <<hit.matched, Len(prompt) - 1>>
  /\ package' = 0
  /\ pc' = "forward"
  /\ UNCHANGED <<cacheVars, promoted>>

\* n calls of Cache::alloc(), one after the other: without free() no two blobs
\* have free lanes, so that malloc() has one way to go.
Alloc(n) ==
  LET after[i \in 0..n] ==
        IF i = 0 THEN [fs |-> fs, addrs |-> <<>>]
        ELSE LET s == after[i - 1]
                 m == CHOOSE m \in ZenFS!Malloc(s.fs) : TRUE
             IN [fs |-> m.fs, addrs |-> Append(s.addrs, m.addr)]
  IN after[n]

\* A mistake: a decode step keeps the last position.
PositionsKept == IF Len(next) = 1 THEN <<position[2], position[2]>> ELSE position

\* forward() takes a single token for a decode step, and counts on from the last
\* position; it takes the positions as they are otherwise.
Positions ==
  IF Len(next) = 1 THEN <<position[2] + 1, position[2] + 1>> ELSE position

Computed(kind, i) ==
  [kind |-> kind, tokens |-> Upto(seq, Len(seq) - Len(next) + i),
   position |-> Positions[1] + i - 1]

Overwrite(f, g) == [x \in DOMAIN f \cup DOMAIN g |-> IF x \in DOMAIN g THEN g[x] ELSE f[x]]

\* forward(): lanes are allocated for the new tokens, for each one for its key and
\* one for its value, entered in the TLB (which keeps an entry that is there),
\* filled, and appended to the session's lists.
Forward ==
  LET n == Len(next)
      new == Alloc(2 * n)
      keys == [i \in 1..n |-> new.addrs[2 * i - 1]]
      values == [i \in 1..n |-> new.addrs[2 * i]]
      map == Overwrite([a \in {new.addrs[i] : i \in DOMAIN new.addrs} |-> ZenFS!Access(a)], tlb)
      write(l) ==
        IF \E i \in 1..n : map[values[i]] = l
        THEN Computed("v", CHOOSE i \in 1..n : map[values[i]] = l)
        ELSE Computed("k", CHOOSE i \in 1..n : map[keys[i]] = l)
  IN
  /\ pc = "forward"
  /\ fs' = new.fs
  /\ tlb' = map
  /\ lane' = Overwrite(lane, [l \in {map[keys[i]] : i \in 1..n} \cup {map[values[i]] : i \in 1..n}
                              |-> write(l)])
  /\ k' = k \o keys /\ v' = v \o values
  /\ position' = Positions
  /\ pc' = "token"
  /\ UNCHANGED <<tree, seq, next, package, promoted, requests>>

\* The callback adds a token to the sequence unless the answer ends with it.
Kept(t) == t # Eos /\ package + 1 < MaxLength

\* A token is sampled and given to the callback; the loop ends with the end of the
\* answer or after MaxLength tokens.
Token(t) ==
  /\ pc = "token"
  /\ package' = package + 1
  /\ seq' = IF Kept(t) THEN Append(seq, t) ELSE seq
  /\ next' = <<t>>
  /\ pc' = IF t = Eos \/ package + 1 = MaxLength THEN "promote" ELSE "forward"
  /\ UNCHANGED <<cacheVars, k, v, position, promoted, requests>>

\* findThinkStartToken()
BeforeThink ==
  LET T == {i \in DOMAIN seq : seq[i] = Think}
  IN IF T = {} THEN Len(seq) ELSE (CHOOSE i \in T : \A j \in T : i <= j) - 1

\* A mistake: keys are promoted in place of values.
KeysUpto(n) == Upto(k, n)

ValuesUpto(n) == Upto(v, n)

\* The sequence and its addresses are cut before the thinking and promoted; the
\* lanes of what was cut are never freed.
Promote ==
  LET n == BeforeThink IN
  /\ pc = "promote"
  /\ tree' = Insert(tree, Upto(seq, n), Upto(k, n), ValuesUpto(n))
  /\ promoted' = promoted \cup {Upto(seq, n)}
  /\ seq' = <<>> /\ k' = <<>> /\ v' = <<>> /\ next' = <<>>
  /\ position' = <<0, 0>>
  /\ package' = 0
  /\ pc' = "idle"
  /\ UNCHANGED <<fs, tlb, lane, requests>>

\* An exception, which the worker's loop swallows: the request is over, its lanes
\* stay allocated and its lists in the session, until the next request.
Throw ==
  /\ pc # "idle"
  /\ pc' = "idle"
  /\ seq' = <<>> /\ next' = <<>> /\ position' = <<0, 0>> /\ package' = 0
  /\ UNCHANGED <<cacheVars, k, v, promoted, requests>>

Next ==
  \/ \E body \in Bodies : Begin(body)
  \/ Forward
  \/ \E t \in Answers \cup {Eos} : Token(t)
  \/ Promote
  \/ Throw

Spec == Init /\ [][Next]_vars

-----------------------------------------------------------------------------
\* The lane behind an address holds the K or V of just these tokens, computed at
\* the position they have.
Holds(addr, kind, tokens) ==
  /\ addr \in DOMAIN tlb
  /\ lane[tlb[addr]] = [kind |-> kind, tokens |-> tokens, position |-> Len(tokens) - 1]

\* Attention over a sequence reads, for each of its tokens, the key and value
\* computed for that token after just the tokens before it ("Find the tokens we
\* really need to compute", modeling_qwen3_service.hpp:407).
ReadsOwnPrefix ==
  pc = "token" =>
    /\ Len(k) = Len(seq) /\ Len(v) = Len(seq)
    /\ \A i \in DOMAIN seq : Holds(k[i], "k", Upto(seq, i)) /\ Holds(v[i], "v", Upto(seq, i))

\* What every node of the tree has is valid too, for whatever request comes next,
\* and siblings start with different tokens, so that a walk has one way to go.
TreeHoldsItsTokens ==
  \A c \in DOMAIN tree :
    /\ tree[c].len \in 1..Len(c)
    /\ Above(tree, c) \in DOMAIN tree \cup {<<>>}
    /\ Len(tree[c].k) = tree[c].len /\ Len(tree[c].v) = tree[c].len
    /\ \A i \in 1..tree[c].len :
         LET tokens == Upto(c, Len(c) - tree[c].len + i)
         IN Holds(tree[c].k[i], "k", tokens) /\ Holds(tree[c].v[i], "v", tokens)
    /\ \A d \in DOMAIN tree \ {c} :
         Above(tree, c) = Above(tree, d) => Head(Edge(tree, c)) # Head(Edge(tree, d))

LongestMatch(key) ==
  LET L == {CommonLen(key, s) : s \in promoted} \cup {0}
  IN CHOOSE n \in L : \A m \in L : m <= n

\* A search finds as much of a sequence as any promoted one has in common with
\* it, no more and no less.
FindsLongest ==
  pc = "idle" => \A b \in Bodies : Search(tree, b).matched = LongestMatch(b)
=============================================================================
