---------------------------- MODULE ModelRunner ----------------------------
(***************************************************************************)
(* ModelRunnerProcess (pymllm/orchestrator/model_runner_process.py) with   *)
(* the two structures it moves KV slots between: the slot pool and the     *)
(* table of rows of ReqToTokenPool (pymllm/mem_cache/memory_pool.py), and  *)
(* the radix tree of RadixTree. Hybrid (GDN) state is left out.            *)
(*                                                                         *)
(* Each action is one call of the scheduler, made when the scheduler may   *)
(* make it: a prompt once, then tokens for all that run, and a release at  *)
(* any time, since an abort may come at any time. content is not in the    *)
(* code: it says which tokens the KV data of a slot were computed from.    *)
(***************************************************************************)
EXTENDS RadixTree

CONSTANTS
  Reqs,         \* request ids
  Prompt,       \* Prompt[r]: the token ids of the prompt of r
  OutTokens,    \* tokens the model may sample
  MaxOutput,    \* bound: output tokens of a request
  MaxBatch,     \* bound: requests in an extend batch
  PoolSize,     \* KV slots, without the padding slot 0
  NumRows       \* rows of ReqToTokenPool (max_running_requests)

ASSUME PoolAssumption == PoolSize \in Nat \ {0} /\ NumRows \in Nat \ {0}
ASSUME BoundsAssumption == MaxOutput \in Nat \ {0} /\ MaxBatch \in Nat \ {0}
ASSUME PromptAssumption == \A r \in Reqs : Prompt[r] \in Seq(Nat) \ {<<>>}

VARIABLES
  cached,     \* whether the prefix cache is on; else the no-op ChunkCache
  mem,        \* [tree, free, release]: the radix tree and the pool's two lists
  rows,       \* req_to_token: rows[s][k] is the KV slot of position k
  free_rows,  \* _free_slots of ReqToTokenPool
  live,       \* the maps from rid, as one record for each rid they hold
  started,    \* the rids whose prompt was sent
  content,    \* content[i]: the token path whose KV data slot i holds
  status      \* "up"; or "dead" once an allocation raised

vars == <<cached, mem, rows, free_rows, live, started, content, status>>

Slots == 1..PoolSize

MaxLen == MaxOutput + (CHOOSE n \in {Len(Prompt[r]) : r \in Reqs} :
                         \A r \in Reqs : Len(Prompt[r]) <= n)

Live == DOMAIN live

\* No node is locked for the request.
NoLock == Root

Full(r) == Prompt[r] \o live[r].output

Init ==
  /\ cached \in BOOLEAN
  /\ mem = [tree |-> EmptyTree, free |-> Slots, release |-> {}]
  /\ rows = [s \in 1..NumRows |-> [k \in 1..MaxLen |-> 0]]
  /\ free_rows = [s \in 1..NumRows |-> s]
  /\ live = [r \in {} |-> 0]
  /\ started = {}
  /\ content = [i \in Slots |-> Root]
  /\ status = "up"

-----------------------------------------------------------------------------
\* The pool: alloc() takes the lowest slots of free_slots and merges the two
\* lists only when that is too short; free() drops what is not a slot or free.
Lowest(S, n) == [i \in 1..n |-> CHOOSE j \in S : Cardinality({k \in S : k < j}) = i - 1]

Take(m, n) ==
  LET merge == n > Cardinality(m.free)
      source == IF merge THEN m.free \cup m.release ELSE m.free
      rest == IF merge THEN {} ELSE m.release
      got == IF n > Cardinality(source) THEN <<>>
             ELSE Lowest(source, n)
  IN [ok |-> n <= Cardinality(source), got |-> got,
      mem |-> [tree |-> m.tree, free |-> source \ Range(got), release |-> rest]]

\* A mistake: the range check of free() is dropped.
GiveBackAll(m, S) ==
  [m EXCEPT !.release = @ \cup (S \ m.free)]

GiveBack(m, S) ==
  [m EXCEPT !.release = @ \cup ((S \cap Slots) \ m.free)]

\* RadixCache.evict(target).
evict(m, target) ==
  {GiveBack([m EXCEPT !.tree = WithoutNodes(m.tree, E)],
            {m.tree.kv[p] : p \in Gone(m.tree, E)}) : E \in Evictable(m.tree, target)}

\* _EVICT_FRACTION of the pool, or what is needed.
EvictTarget(n) == IF n < PoolSize \div 10 THEN PoolSize \div 10 ELSE n

MaxEvictRetries == 3

\* _alloc_kv_with_eviction(n): it gives up when evictable_size is 0.
AllocKV(m, n) ==
  LET try[k \in 0..MaxEvictRetries] ==
        IF k = 0 THEN {Take(m, n)}
        ELSE UNION {IF o.ok \/ o.mem.tree.evictable = 0 THEN {o}
                    ELSE {Take(e, n) : e \in evict(o.mem, EvictTarget(n))} :
                    o \in try[k - 1]}
  IN try[MaxEvictRetries]

-----------------------------------------------------------------------------
\* _allocate_extend(). The node the walk of match_prefix() ends in.
Matched(r) == IF cached THEN Hit(mem.tree, Prompt[r]) ELSE Root

\* The prefix that is reused: two tokens at least are left to extend.
PrefixLen(hit, len) == IF hit >= len - 1 /\ len >= 2 THEN len - 2 ELSE hit

Reused(r) == PrefixLen(Len(Matched(r)), Len(Prompt[r]))

ExtendLen(r) == Len(Prompt[r]) - Reused(r)

\* A mistake: the nodes are not locked before the allocation.
NotLocked(t, r) == t

\* Step 1.5: a node is locked if some of its path is reused.
LockMatched(t, r) == IF Reused(r) > 0 THEN inc_lock_ref(t, Matched(r)) ELSE t

Walk(t, r) == IF cached THEN match_prefix(t, Prompt[r]) ELSE t

\* Steps 1 and 1.5 for the batch b, a sequence of requests.
MatchedTree(b) ==
  FoldLeft(LockMatched, FoldLeft(Walk, mem.tree, b), b)

\* _unlock_matched_nodes(): a failed allocation takes the locks back.
UnlockMatched(t, r) == IF Reused(r) > 0 THEN dec_lock_ref(t, Matched(r)) ELSE t

\* The number of new tokens of the requests before the i-th.
Offset(b, i) == MapThenSumSet(LAMBDA j : ExtendLen(b[j]), 1..(i - 1))

NewTokens(b) == Offset(b, Len(b) + 1)

\* Step 4: the row of b[i] with its cached prefix and its new slots; positions
\* past the prompt keep what the last request of the row left there.
ExtendedRow(b, i, got) ==
  LET r == b[i] IN
  [k \in 1..MaxLen |->
     IF k <= Reused(r) THEN mem.tree.kv[SubSeq(Prompt[r], 1, k)]
     ELSE IF k <= Len(Prompt[r]) THEN got[Offset(b, i) + k - Reused(r)]
     ELSE rows[free_rows[i]][k]]

\* What forward() writes: the KV data of each new position.
ComputedBy(b, got) ==
  [j \in Range(got) |->
     CHOOSE p \in UNION {Along(Prompt[b[i]]) : i \in 1..Len(b)} :
       \E i \in 1..Len(b) : \E k \in 1..ExtendLen(b[i]) :
         /\ got[Offset(b, i) + k] = j
         /\ p = SubSeq(Prompt[b[i]], 1, Reused(b[i]) + k)]

Overwrite(c, new) == [i \in DOMAIN c |-> IF i \in DOMAIN new THEN new[i] ELSE c[i]]

-----------------------------------------------------------------------------
\* A mistake: indices the tree holds already stay with the request.
NoDuplicates(row, from, to) == {}

\* The request's own slots for positions the tree had, to be given back.
Duplicates(row, from, to) == {row[k] : k \in (from + 1)..to}

\* The row with the tree's slots for the path, from position from + 1 on.
WriteBack(t, row, path, from) ==
  [k \in 1..MaxLen |->
     IF k \in (from + 1)..Len(path) THEN t.kv[SubSeq(path, 1, k)] ELSE row[k]]

\* A mistake: the lock moves without giving up the old one.
LockMovedOnly(t, old, new) == inc_lock_ref(t, new)

MoveLock(t, old, new) == inc_lock_ref(dec_lock_ref(t, old), new)

\* _insert_into_radix_cache() for one request; s is [mem, rows, live].
InsertPrompt(s, r) ==
  LET q == s.live[r]
      row == s.rows[q.row]
      had == Len(Hit(s.mem.tree, Prompt[r]))
      t == insert(s.mem.tree, Prompt[r], row)
      m == GiveBack([s.mem EXCEPT !.tree = MoveLock(t, q.lock, Prompt[r])],
                    Duplicates(row, q.protected, had))
  IN [mem |-> m,
      rows |-> [s.rows EXCEPT ![q.row] = WriteBack(t, row, Prompt[r], q.protected)],
      live |-> [s.live EXCEPT ![r].protected = Len(Prompt[r]), ![r].lock = Prompt[r]]]

InsertPrompts(s, b) ==
  IF cached THEN FoldLeft(InsertPrompt, s, b)
  ELSE [s EXCEPT !.live = [r \in DOMAIN s.live |->
          IF r \in Range(b) THEN [s.live[r] EXCEPT !.protected = 0] ELSE s.live[r]]]

\* What the maps hold of a request after _allocate_extend().
NewLive(b, i) ==
  [row |-> free_rows[i], output |-> <<>>, protected |-> Reused(b[i]),
   lock |-> IF Reused(b[i]) > 0 THEN Matched(b[i]) ELSE NoLock]

\* The batch b of new requests, from allocation to the sampled tokens.
Extend(b) ==
  /\ status = "up"
  /\ Range(b) \cap started = {}
  /\ Len(b) <= Len(free_rows)
  /\ \E o \in AllocKV([mem EXCEPT !.tree = MatchedTree(b)], NewTokens(b)) :
       /\ o.ok
       /\ \E tokens \in [Range(b) -> OutTokens] :
            LET i(r) == CHOOSE j \in 1..Len(b) : b[j] = r
                s == InsertPrompts(
                       [mem |-> o.mem,
                        rows |-> [n \in 1..NumRows |->
                          IF \E j \in 1..Len(b) : free_rows[j] = n
                          THEN ExtendedRow(b, CHOOSE j \in 1..Len(b) : free_rows[j] = n, o.got)
                          ELSE rows[n]],
                        live |-> [r \in Live \cup Range(b) |->
                          IF r \in Live THEN live[r] ELSE NewLive(b, i(r))]], b)
            IN /\ mem' = s.mem
               /\ rows' = s.rows
               /\ live' = [r \in DOMAIN s.live |->
                    IF r \in Range(b) THEN [s.live[r] EXCEPT !.output = <<tokens[r]>>]
                    ELSE s.live[r]]
       /\ content' = Overwrite(content, ComputedBy(b, o.got))
  /\ free_rows' = SubSeq(free_rows, Len(b) + 1, Len(free_rows))
  /\ started' = started \cup Range(b)
  /\ UNCHANGED <<cached, status>>

\* Where _allocate_decode() writes: seq_len - 1, counted from 0.
WritePos(r) == Len(Full(r))

\* One more token for the requests b, all that run. forward() computes the KV
\* data of the last token sampled and samples the next.
Decode(b) ==
  /\ status = "up"
  /\ Range(b) = Live /\ b # <<>>
  /\ \A r \in Live : Len(live[r].output) < MaxOutput
  /\ \E o \in AllocKV(mem, Len(b)) :
       /\ o.ok
       /\ mem' = o.mem
       /\ rows' = [n \in 1..NumRows |->
            [k \in 1..MaxLen |->
               IF \E i \in 1..Len(b) : live[b[i]].row = n /\ WritePos(b[i]) = k
               THEN o.got[CHOOSE i \in 1..Len(b) : live[b[i]].row = n] ELSE rows[n][k]]]
       /\ content' = Overwrite(content,
            [j \in Range(o.got) |-> Full(b[CHOOSE i \in 1..Len(b) : o.got[i] = j])])
  /\ \E tokens \in [Live -> OutTokens] :
       live' = [r \in Live |-> [live[r] EXCEPT !.output = Append(@, tokens[r])]]
  /\ UNCHANGED <<cached, free_rows, started, status>>

\* An allocation raises: no slots, even after eviction. Nothing catches the
\* exception, so only how the memory was left matters. (A row is always there:
\* the scheduler admits no more requests than rows.)
Raises(b) ==
  /\ status = "up"
  /\ \/ /\ Range(b) \cap started = {}
        /\ Len(b) <= Len(free_rows)
        /\ \E o \in AllocKV([mem EXCEPT !.tree = MatchedTree(b)], NewTokens(b)) :
             /\ ~o.ok
             /\ mem' = [o.mem EXCEPT !.tree = FoldLeft(UnlockMatched, @, b)]
     \/ /\ Range(b) = Live
        /\ \A r \in Live : Len(live[r].output) < MaxOutput
        /\ \E o \in AllocKV(mem, Len(b)) : ~o.ok /\ mem' = o.mem
  /\ status' = "dead"
  /\ UNCHANGED <<cached, rows, free_rows, live, started, content>>

-----------------------------------------------------------------------------
\* _free_rid_resources(r). It reads as many positions as there are tokens, and
\* with the cache on hands them to the tree; the row keeps its content.
Free(r) ==
  LET q == live[r]
      row == rows[q.row]
      had == Len(Hit(mem.tree, Full(r)))
      t == insert(mem.tree, Full(r), row)
  IN
  /\ status = "up"
  /\ mem' = IF cached
            THEN GiveBack([mem EXCEPT !.tree = dec_lock_ref(t, q.lock)],
                          Duplicates(row, q.protected, had))
            ELSE GiveBack(mem, Duplicates(row, 0, Len(Full(r))))
  /\ free_rows' = Append(free_rows, q.row)
  /\ live' = [p \in Live \ {r} |-> live[p]]
  /\ UNCHANGED <<cached, rows, started, content, status>>

\* The batches the scheduler can form.
Batches == {b \in SeqOf(Reqs, MaxBatch) : b # <<>> /\ IsInjective(b)}

Next ==
  \/ \E b \in Batches : Extend(b)
  \/ \E b \in {SetToSeq(Live)} : Decode(b)
  \/ \E b \in Batches \cup {SetToSeq(Live)} : Raises(b)
  \/ \E r \in Live : Free(r)

Spec == Init /\ [][Next]_vars

\* The steps on which the position that a release reads in excess can do harm: a
\* request is released whose row has there what an earlier request left, or one is
\* started whose prompt goes on through a path that a release cached without a slot.
ExcessReadBites ==
  \/ \E r \in Live \ DOMAIN live' : rows[live[r].row][Len(Full(r))] # 0
  \/ \E r \in started' \ started :
       \E p \in Along(Prompt[r]) \cap DOMAIN mem.tree.kv : mem.tree.kv[p] = 0

\* The behaviours without these steps: rows are used again and prompts have earlier
\* answers in them.
CarefulSpec == Init /\ [][Next /\ ~ExcessReadBites]_vars

-----------------------------------------------------------------------------
\* Types. evictable is only an integer: it counts some nodes twice, and others not.
TypeOK ==
  /\ cached \in BOOLEAN
  /\ mem.free \subseteq Slots /\ mem.release \subseteq Slots
  /\ mem.free \cap mem.release = {}
  /\ mem.tree.kv \in [DOMAIN mem.tree.kv -> 0..PoolSize]
  /\ Nodes(mem.tree) \subseteq DOMAIN mem.tree.kv
  /\ mem.tree.lock \in [Nodes(mem.tree) -> 0..Cardinality(Reqs)]
  /\ mem.tree.evictable \in Int /\ mem.tree.protected \in 0..PoolSize
  /\ rows \in [1..NumRows -> [1..MaxLen -> 0..PoolSize]]
  /\ free_rows \in Seq(1..NumRows)
  /\ \A r \in Live : live[r].output \in Seq(OutTokens) /\ live[r].row \in 1..NumRows
  /\ status \in {"up", "dead"}

\* The positions of a live request whose KV data exists.
Written(r) == 1..(Len(Full(r)) - 1)

\* Attention of a live request reads, at each position of its row, KV data that
\* was computed from the tokens of that very request up to there: sharing,
\* duplicates given back, rows written back and evictions never put data of
\* other tokens under it.
ReadsOwnPrefix ==
  status = "up" =>
  \A r \in Live : \A k \in Written(r) :
    LET j == rows[live[r].row][k] IN
    j \in Slots /\ content[j] = SubSeq(Full(r), 1, k)

\* The number of claims to slot j: free, to be merged, cached for a path, or
\* held by a live request for a position the tree does not cover.
Claims(j) ==
  Cardinality({w \in {"free", "release"} : j \in mem[w]})
  + Cardinality({p \in DOMAIN mem.tree.kv : mem.tree.kv[p] = j})
  + Cardinality({c \in Live \X (1..MaxLen) :
                   LET r == c[1]
                       k == c[2]
                   IN /\ k \in Written(r) /\ k > live[r].protected
                      /\ rows[live[r].row][k] = j})

\* Every KV slot has exactly one owner, as the ownership model in the comment
\* of _free_rid_resources() says: no slot leaks and none is given out twice.
OneOwner == status = "up" => \A j \in Slots : Claims(j) = 1

\* A node is locked once for every live request that reads through it, and a
\* locked node is in the tree.
LocksCounted ==
  status = "up" =>
  /\ \A r \in Live : live[r].lock \in Nodes(mem.tree) \cup {NoLock}
  /\ \A n \in Nodes(mem.tree) :
       mem.tree.lock[n] = Cardinality({r \in Live : n \in Along(live[r].lock)})

\* protected_size() is the tokens of the locked nodes, through splits, moved
\* locks and partial reuse.
ProtectedExact ==
  status = "up" =>
  mem.tree.protected = TokensOf(mem.tree, {n \in Nodes(mem.tree) : mem.tree.lock[n] > 0})
=============================================================================
