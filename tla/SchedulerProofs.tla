-------------------------- MODULE SchedulerProofs --------------------------
(***************************************************************************)
(* Proofs about Scheduler for any requests and limits: the model runner    *)
(* keeps state for exactly the live requests, no more requests are live    *)
(* than max_running_requests allows, the token budget is exact, and what   *)
(* is streamed is complete, in order and silent at the end.                *)
(***************************************************************************)
EXTENDS Scheduler, DataTheorems

\* The loop variables are in step: a batch exists from admission to the end of
\* routing, todo is a part of it, and all its sets are finite. After routing a
\* request once (RunOn, Finish) it is not visited again.
Phases ==
  /\ todo \subseteq batch.reqs
  /\ pc \notin {"result", "route"} => todo = {}
  /\ batch = [mode |-> batch.mode, reqs |-> batch.reqs]
  /\ IsFiniteSet(batch.reqs) /\ IsFiniteSet(running)

\* What is proved inductive.
LiveInv == Phases /\ RunnerMatches /\ RunningBounded

\* Adding an element to a finite set adds at most one to its size, and a subset
\* of a finite set is no larger: the two facts admission and routing rest on.
LEMMA UnionBound ==
  ASSUME NEW S, NEW T, NEW x, IsFiniteSet(S), IsFiniteSet(T)
  PROVE  /\ IsFiniteSet(S \cup T \cup {x})
         /\ Cardinality(S \cup T \cup {x}) <= Cardinality(S) + Cardinality(T) + 1
         /\ Cardinality(S) \in Nat /\ Cardinality(T) \in Nat
         /\ Cardinality(S \cup T \cup {x}) \in Nat
PROOF
<1>1. /\ IsFiniteSet(S \cup T) /\ Cardinality(S \cup T) \in Nat
      /\ Cardinality(S \cup T) <= Cardinality(S) + Cardinality(T)
      /\ Cardinality(S) \in Nat /\ Cardinality(T) \in Nat
  <2>1. IsFiniteSet(S \cup T) /\ IsFiniteSet(S \cap T)
    BY FS_Union, FS_Intersection
  <2>2. Cardinality(S \cup T)
          = Cardinality(S) + Cardinality(T) - Cardinality(S \cap T)
    BY FS_Union
  <2>. QED  BY <2>1, <2>2, FS_CardinalityType
<1>2. /\ IsFiniteSet((S \cup T) \cup {x})
      /\ Cardinality((S \cup T) \cup {x}) <= Cardinality(S \cup T) + 1
      /\ Cardinality((S \cup T) \cup {x}) \in Nat
  <2>. DEFINE U == S \cup T
  <2>1. IsFiniteSet(U) /\ Cardinality(U) \in Nat
    BY <1>1
  <2>. HIDE DEF U
  <2>2. /\ IsFiniteSet(U \cup {x})
        /\ Cardinality(U \cup {x}) \in {Cardinality(U), Cardinality(U) + 1}
    BY <2>1, FS_AddElement
  <2>. QED  BY <2>1, <2>2 DEF U
<1>. QED  BY <1>1, <1>2

\* Whatever is live after a step was live before it: the bound carries over.
LEMMA Shrinks ==
  ASSUME RunningBounded, IsFiniteSet(running), IsFiniteSet(batch.reqs),
         LimitsAssumption,
         running' \cup batch'.reqs \subseteq running \cup batch.reqs
  PROVE  RunningBounded'
PROOF
<1>1. IsFiniteSet(running \cup batch.reqs)
  BY FS_Union
<1>2. /\ Cardinality(running' \cup batch'.reqs)
           <= Cardinality(running \cup batch.reqs)
      /\ IsFiniteSet(running' \cup batch'.reqs)
  BY <1>1, FS_Subset
<1>3. /\ Cardinality(running' \cup batch'.reqs) \in Nat
      /\ Cardinality(running \cup batch.reqs) \in Nat
  BY <1>1, <1>2, FS_CardinalityType
<1>. QED  BY <1>2, <1>3 DEF RunningBounded, LimitsAssumption

\* Nothing is live at the start.
LEMMA InitLive == Init => LiveInv
PROOF
<1>. SUFFICES ASSUME Init PROVE LiveInv
  OBVIOUS
<1>1. IsFiniteSet({}) /\ Cardinality({}) = 0
  BY FS_EmptySet
<1>2. running \cup batch.reqs = {}
  BY DEF Init, NoBatch
<1>. QED  BY <1>1, <1>2, LimitsAssumption DEF
  Init, NoBatch, LiveInv, Phases, RunnerMatches, RunningBounded, LimitsAssumption

\* get_next_batch_to_run() drops aborted requests and admits new ones.
LEMMA NextBatchLive ==
  LiveInv /\ get_next_batch_to_run => LiveInv'
PROOF
<1>. SUFFICES ASSUME LiveInv, get_next_batch_to_run PROVE LiveInv'
  OBVIOUS
<1>. USE DEF LiveInv, Phases
<1>1. ASSUME NEW r \in Reqs, Filter(r) PROVE LiveInv'
  <2>1. RunningBounded'
    BY <1>1, Shrinks, LimitsAssumption DEF Filter
  <2>2. IsFiniteSet(running')
    BY <1>1, FS_RemoveElement DEF Filter
  <2>. QED  BY <1>1, <2>1, <2>2 DEF Filter, FreeResources, RunnerWithout, RunnerMatches
<1>2. ASSUME FilterDone PROVE LiveInv'
  <2>1. RunningBounded'
    BY <1>2, Shrinks, LimitsAssumption DEF FilterDone, NoBatch, queues
  <2>. QED  BY <1>2, <2>1, FS_EmptySet DEF FilterDone, NoBatch, queues, RunnerMatches
<1>3. ASSUME Admit PROVE LiveInv'
  <2>. DEFINE r == pending[scan + 1]
  <2>1. /\ CanFit(r) /\ running' = running /\ todo' = todo
        /\ batch' = [mode |-> "none", reqs |-> batch.reqs \cup {r}]
        /\ pc = "admit" /\ UNCHANGED <<pc, runner>>
    BY <1>3 DEF Admit
  <2>. HIDE DEF r
  <2>2. /\ IsFiniteSet(batch.reqs \cup {r})
        /\ running' \cup batch'.reqs = running \cup batch.reqs \cup {r}
    BY <2>1, FS_AddElement
  <2>3. /\ Cardinality(running' \cup batch'.reqs)
             <= Cardinality(running) + Cardinality(batch.reqs) + 1
        /\ Cardinality(running) \in Nat /\ Cardinality(batch.reqs) \in Nat
        /\ Cardinality(running' \cup batch'.reqs) \in Nat
    BY <2>2, UnionBound
  <2>4. RunningBounded'
    BY <2>1, <2>3, LimitsAssumption DEF CanFit, RunningBounded, LimitsAssumption
  <2>. QED  BY <2>1, <2>2, <2>4 DEF RunnerMatches
<1>4. ASSUME Skip PROVE LiveInv'
  BY <1>4 DEF Skip, queues, RunnerMatches, RunningBounded
<1>5. ASSUME BuildBatch PROVE LiveInv'
  <2>1. /\ batch'.reqs \in {batch.reqs, running, {}}
        /\ batch' = [mode |-> batch'.mode, reqs |-> batch'.reqs]
        /\ batch.reqs \subseteq batch'.reqs
    BY <1>5 DEF BuildBatch, NoBatch
  <2>2. UNCHANGED <<running, todo, runner>> /\ pc = "admit" /\ pc' \in {"run", "stream"}
    BY <1>5 DEF BuildBatch, queues
  <2>3. RunningBounded'
    BY <2>1, <2>2, Shrinks, LimitsAssumption
  <2>. QED  BY <2>1, <2>2, <2>3, FS_EmptySet DEF RunnerMatches
<1>. QED  BY <1>1, <1>2, <1>3, <1>4, <1>5 DEF get_next_batch_to_run

\* The runner learns of a batch when it runs it, and of each end when a request
\* is routed out of it.
LEMMA RunAndRouteLive ==
  LiveInv /\ (RunBatch \/ ForwardRaises \/ process_batch_result) => LiveInv'
PROOF
<1>. SUFFICES ASSUME LiveInv, RunBatch \/ ForwardRaises \/ process_batch_result
     PROVE  LiveInv'
  OBVIOUS
<1>. USE DEF LiveInv, Phases
<1>1. ASSUME RunBatch \/ ForwardRaises \/ ResultsTaken PROVE LiveInv'
  <2>1. RunningBounded'
    BY <1>1, Shrinks, LimitsAssumption DEF RunBatch, ForwardRaises, ResultsTaken, queues
  <2>. QED  BY <1>1, <2>1 DEF RunBatch, ForwardRaises, ResultsTaken, queues, RunnerMatches
<1>2. ASSUME NEW r \in Reqs, TakeResult(r) PROVE LiveInv'
  BY <1>2 DEF TakeResult, queues, RunnerMatches, RunningBounded
<1>3. ASSUME NEW r \in Reqs, Finish(r) PROVE LiveInv'
  <2>1. RunningBounded'
    BY <1>3, Shrinks, LimitsAssumption DEF Finish
  <2>2. IsFiniteSet(running')
    BY <1>3, FS_RemoveElement DEF Finish
  <2>. QED  BY <1>3, <2>1, <2>2 DEF Finish, FreeResources, RunnerWithout, RunnerMatches
<1>4. ASSUME NEW r \in Reqs, RunOn(r) PROVE LiveInv'
  <2>1. RunningBounded'
    BY <1>4, Shrinks, LimitsAssumption DEF RunOn
  <2>2. IsFiniteSet(running')
    BY <1>4, FS_AddElement DEF RunOn
  <2>. QED  BY <1>4, <2>1, <2>2 DEF RunOn, RunnerMatches
<1>5. ASSUME Routed PROVE LiveInv'
  <2>1. RunningBounded'
    BY <1>5, Shrinks, LimitsAssumption DEF Routed, NoBatch, queues
  <2>. QED  BY <1>5, <2>1, FS_EmptySet DEF Routed, NoBatch, queues, RunnerMatches
<1>. QED  BY <1>1, <1>2, <1>3, <1>4, <1>5 DEF process_batch_result

\* Receiving, sending and streaming touch neither the batch nor the runner.
LEMMA OthersLive ==
  /\ LiveInv
  /\ \/ \E kind \in {"request", "abort"}, r \in Reqs : Send(kind, r)
     \/ Receive \/ stream_output
     \/ UNCHANGED vars
  => LiveInv'
PROOF
<1>. SUFFICES
       ASSUME LiveInv,
              UNCHANGED <<running, batch, todo, runner>>,
              \/ UNCHANGED pc
              \/ pc \in {"recv", "input", "stream"} /\ pc' \in {"recv", "input", "filter"}
       PROVE  LiveInv'
  BY DEF Send, Receive, RecvRequest, RecvAbort, RecvNothing, process_input_requests,
         stream_output, StreamOut, SendFinished, LoopAgain, vars, queues
<1>. QED  BY DEF LiveInv, Phases, RunnerMatches, RunningBounded

\* Every step keeps the invariant.
LEMMA NextLive == LiveInv /\ [Next]_vars => LiveInv'
PROOF
BY NextBatchLive, RunAndRouteLive, OthersLive DEF Next, event_loop

\* process_batch_result() and get_next_batch_to_run(): the model runner keeps
\* state for exactly the requests the scheduler will still run or free.
THEOREM RunnerAlwaysMatches == Spec => []RunnerMatches
PROOF
<1>1. LiveInv => RunnerMatches
  BY DEF LiveInv
<1>. QED  BY InitLive, NextLive, <1>1, PTL DEF Spec

\* Admission keeps the number of live requests within max_running_requests.
THEOREM RunningAlwaysBounded == Spec => []RunningBounded
PROOF
<1>1. LiveInv => RunningBounded
  BY DEF LiveInv
<1>. QED  BY InitLive, NextLive, <1>1, PTL DEF Spec

-----------------------------------------------------------------------------
(***************************************************************************)
(* The budget and the streams need to know where each request is. Requests *)
(* move from the socket through waiting, pending and the batch to running, *)
(* and to finished; none is at two places, and an abort takes it out for   *)
(* good.                                                                   *)
(***************************************************************************)
Message == [kind : {"request", "abort"}, rid : Reqs]

RequestsIn(q) == {q[i].rid : i \in {j \in DOMAIN q : q[j].kind = "request"}}

RequestsOnce(q) ==
  \A i, j \in DOMAIN q : q[i].kind = "request" /\ q[i] = q[j] => i = j

Output == [rid : Reqs, from : Nat, to : Nat, reason : Reasons]

RidsOf(q) == {q[i].rid : i \in DOMAIN q}

RidsOnce(q) == \A i, j \in DOMAIN q : q[i].rid = q[j].rid => i = j

\* The requests that have not been admitted, and those on their way out.
Early == RequestsIn(socket) \cup Range(waiting) \cup Range(pending)

FinRids == RidsOf(finished)

ReqRecord == [seq_len : Nat, prefix_len : Nat, outputs : Nat, read_offset : Nat,
              reason : Reasons]

\* Where event_loop() is, and what its variables hold there.
Loop ==
  /\ req \in [Reqs -> ReqRecord]
  /\ pc # "admit" => scan = 0
  /\ pc \notin {"admit", "run", "result", "route", "dead"} => batch.reqs = {}
  /\ pc \notin {"route", "stream"} => finished = <<>>
  /\ pc \notin {"result", "route"} => todo = {}
  /\ pc = "result" => /\ DOMAIN result = batch.reqs
                      /\ \A r \in batch.reqs : result[r].prefix_len <= InputLen[r]

\* Each request is at one place only, and was sent.
Places ==
  /\ RequestsOnce(socket) /\ IsInjective(waiting) /\ IsInjective(pending)
  /\ RidsOnce(finished)
  /\ RequestsIn(socket) \cap Range(waiting) = {}
  /\ RequestsIn(socket) \cap Range(pending) = {}
  /\ Range(waiting) \cap Range(pending) = {}
  /\ Early \cap (Charged \cup FinRids \cup dropped) = {}
  /\ Charged \cap FinRids = {} /\ FinRids \cap dropped = {}
  /\ Early \cup Charged \cup FinRids \cup dropped \subseteq sent["request"]

\* Which requests are over, and where they still are.
Marks ==
  /\ \A r \in running : Over(r) =>
       \/ pc \in {"recv", "input", "filter"} /\ req[r].reason = "abort"
       \/ pc = "result" /\ r \in batch.reqs \ todo
       \/ pc = "route" /\ r \in todo
  /\ \A r \in batch.reqs : pc \in {"admit", "run", "dead"} => ~Over(r)
  /\ \A r \in todo : pc = "result" => ~Over(r)
  /\ \A r \in dropped : r \in Charged => pc \in {"recv", "input", "filter"} /\ Over(r)

\* The counters of a request.
Counted(r) ==
  /\ req[r].seq_len = InputLen[r] + req[r].outputs
  /\ req[r].prefix_len <= InputLen[r]
  /\ req[r].read_offset <= req[r].outputs
  /\ req[r].outputs <= MaxOutputs(r)
  /\ ~Over(r) => req[r].outputs = 0 \/ req[r].outputs < MaxNewTokens[r]

Numbers ==
  /\ \A r \in Range(pending) : req[r] = NewReq(r)
  /\ \A r \in Reqs : Counted(r)

\* What was sent of a request is what its offset says, or all of it.
Sent(r) ==
  /\ stream[r].tokens = [i \in 1..Len(stream[r].tokens) |-> i]
  /\ stream[r].reason = None => Len(stream[r].tokens) = req[r].read_offset
  /\ stream[r].reason # None =>
       /\ Len(stream[r].tokens) = req[r].outputs /\ stream[r].reason = req[r].reason
       /\ r \in sent["request"] /\ r \notin Early \cup Charged \cup FinRids

Streams ==
  /\ \A r \in Early \cup (Reqs \ sent["request"]) : stream[r].tokens = <<>>
  /\ \A r \in Reqs : Sent(r)
  /\ \A i \in DOMAIN finished :
       LET q == req[finished[i].rid] IN
       /\ finished[i].from = q.read_offset /\ finished[i].to = q.outputs
       /\ finished[i].reason = q.reason /\ q.reason # None

\* What is proved inductive next.
PlaceInv == TypeOK /\ Loop /\ Places /\ Marks /\ Numbers /\ Streams

-----------------------------------------------------------------------------
\* A message that is sent or received, and the requests on the socket.
LEMMA SocketSend ==
  ASSUME NEW q \in Seq(Message), NEW m \in Message
  PROVE  /\ Append(q, m) \in Seq(Message)
         /\ RequestsIn(Append(q, m)) =
              RequestsIn(q) \cup (IF m.kind = "request" THEN {m.rid} ELSE {})
         /\ RequestsOnce(q) /\ (m.kind = "request" => m.rid \notin RequestsIn(q))
              => RequestsOnce(Append(q, m))
<1>. DEFINE p == Append(q, m)
<1>1. /\ Len(q) \in Nat /\ DOMAIN q = 1..Len(q) /\ DOMAIN p = 1..(Len(q) + 1)
      /\ p \in Seq(Message) /\ p[Len(q) + 1] = m
      /\ \A i \in 1..Len(q) : p[i] = q[i]
  OBVIOUS
<1>. HIDE DEF p
<1>2. RequestsIn(p) = RequestsIn(q) \cup (IF m.kind = "request" THEN {m.rid} ELSE {})
  <2>1. \A i \in DOMAIN p : i \in DOMAIN q \/ i = Len(q) + 1
    BY <1>1
  <2>2. \A i \in DOMAIN q : i \in DOMAIN p
    BY <1>1
  <2>3. Len(q) + 1 \in DOMAIN p
    BY <1>1
  <2>. QED BY <1>1, <2>1, <2>2, <2>3 DEF RequestsIn
<1>3. ASSUME RequestsOnce(q), m.kind = "request" => m.rid \notin RequestsIn(q)
      PROVE  RequestsOnce(p)
  <2>1. \A i \in 1..Len(q) : ~(m.kind = "request" /\ q[i] = m)
    BY <1>1, <1>3 DEF RequestsIn
  <2>. QED BY <1>1, <1>3, <2>1 DEF RequestsOnce
<1>. QED BY <1>1, <1>2, <1>3 DEF p

\* Receiving takes the oldest message off, and its request with it.
LEMMA SocketReceive ==
  ASSUME NEW q \in Seq(Message), q # <<>>
  PROVE  /\ Tail(q) \in Seq(Message) /\ Head(q) \in Message
         /\ RequestsIn(q) =
              RequestsIn(Tail(q)) \cup (IF Head(q).kind = "request" THEN {Head(q).rid} ELSE {})
         /\ RequestsOnce(q) =>
              /\ RequestsOnce(Tail(q))
              /\ Head(q).kind = "request" => Head(q).rid \notin RequestsIn(Tail(q))
<1>. DEFINE p == Tail(q)
<1>1. /\ Len(q) \in Nat \ {0} /\ DOMAIN q = 1..Len(q) /\ DOMAIN p = 1..(Len(q) - 1)
      /\ p \in Seq(Message) /\ Head(q) = q[1] /\ Head(q) \in Message
      /\ \A i \in 1..(Len(q) - 1) : p[i] = q[i + 1]
      /\ \A i \in 1..Len(q) : q[i] \in Message
  OBVIOUS
<1>. HIDE DEF p
<1>2. \A i \in DOMAIN q : i # 1 => i - 1 \in DOMAIN p /\ p[i - 1] = q[i]
  BY <1>1
<1>3. \A i \in DOMAIN p : i + 1 \in DOMAIN q /\ p[i] = q[i + 1]
  BY <1>1
<1>4. 1 \in DOMAIN q
  BY <1>1
<1>5. RequestsIn(q) = RequestsIn(p) \cup (IF Head(q).kind = "request" THEN {Head(q).rid} ELSE {})
  <2>1. ASSUME NEW r \in RequestsIn(q)
        PROVE  r \in RequestsIn(p) \/ (Head(q).kind = "request" /\ r = Head(q).rid)
    <3>1. PICK i \in DOMAIN q : q[i].kind = "request" /\ q[i].rid = r
      BY DEF RequestsIn
    <3>2. CASE i = 1
      BY <1>1, <3>1, <3>2
    <3>3. CASE i # 1
      BY <1>2, <3>1, <3>3 DEF RequestsIn
    <3>. QED BY <3>2, <3>3
  <2>2. ASSUME NEW r \in RequestsIn(p) PROVE r \in RequestsIn(q)
    <3>1. PICK i \in DOMAIN p : p[i].kind = "request" /\ p[i].rid = r
      BY DEF RequestsIn
    <3>. QED BY <1>3, <3>1 DEF RequestsIn
  <2>3. Head(q).kind = "request" => Head(q).rid \in RequestsIn(q)
    BY <1>1, <1>4 DEF RequestsIn
  <2>. QED BY <2>1, <2>2, <2>3
<1>6. ASSUME RequestsOnce(q) PROVE RequestsOnce(p)
  BY <1>1, <1>3, <1>6 DEF RequestsOnce
<1>7. ASSUME RequestsOnce(q), Head(q).kind = "request" PROVE Head(q).rid \notin RequestsIn(p)
  <2>. SUFFICES ASSUME Head(q).rid \in RequestsIn(p) PROVE FALSE
    OBVIOUS
  <2>1. PICK i \in DOMAIN p : p[i].kind = "request" /\ p[i].rid = Head(q).rid
    BY DEF RequestsIn
  <2>2. i + 1 \in DOMAIN q /\ q[i + 1].kind = q[1].kind /\ q[i + 1].rid = q[1].rid
    BY <1>1, <1>3, <1>7, <2>1
  <2>3. q[i + 1] \in Message /\ q[1] \in Message
    BY <1>1, <2>2, <1>4
  <2>4. q[i + 1] = q[1]
    BY <2>2, <2>3 DEF Message
  <2>5. i + 1 = 1 /\ i \in Nat /\ i >= 1
    BY <1>1, <1>4, <1>7, <2>2, <2>4 DEF RequestsOnce
  <2>. QED BY <2>5
<1>. QED BY <1>1, <1>5, <1>6, <1>7 DEF p

\* Collecting an output adds its request to those on their way out.
LEMMA FinishedAppend ==
  ASSUME NEW q \in Seq(Output), NEW m \in Output
  PROVE  /\ Append(q, m) \in Seq(Output)
         /\ RidsOf(Append(q, m)) = RidsOf(q) \cup {m.rid}
         /\ RidsOnce(q) /\ m.rid \notin RidsOf(q) => RidsOnce(Append(q, m))
         /\ \A i \in DOMAIN Append(q, m) :
              Append(q, m)[i] = m \/ (i \in DOMAIN q /\ Append(q, m)[i] = q[i])
<1>. DEFINE p == Append(q, m)
<1>1. /\ Len(q) \in Nat /\ DOMAIN q = 1..Len(q) /\ DOMAIN p = 1..(Len(q) + 1)
      /\ p \in Seq(Output) /\ p[Len(q) + 1] = m
      /\ \A i \in 1..Len(q) : p[i] = q[i]
  OBVIOUS
<1>. HIDE DEF p
<1>2. \A i \in DOMAIN p : i \in DOMAIN q \/ i = Len(q) + 1
  BY <1>1
<1>3. /\ \A i \in DOMAIN q : i \in DOMAIN p /\ p[i] = q[i]
      /\ Len(q) + 1 \in DOMAIN p /\ Len(q) + 1 \notin DOMAIN q
  BY <1>1
<1>4. RidsOf(p) = RidsOf(q) \cup {m.rid}
  BY <1>1, <1>2, <1>3 DEF RidsOf
<1>5. ASSUME RidsOnce(q), m.rid \notin RidsOf(q) PROVE RidsOnce(p)
  BY <1>1, <1>2, <1>3, <1>5 DEF RidsOnce, RidsOf
<1>. QED BY <1>1, <1>2, <1>3, <1>4, <1>5 DEF p

\* Sending the oldest output takes its request from them.
LEMMA FinishedTail ==
  ASSUME NEW q \in Seq(Output), q # <<>>
  PROVE  /\ Tail(q) \in Seq(Output) /\ Head(q) \in Output
         /\ RidsOf(q) = RidsOf(Tail(q)) \cup {Head(q).rid}
         /\ RidsOnce(q) => RidsOnce(Tail(q)) /\ Head(q).rid \notin RidsOf(Tail(q))
         /\ \A i \in DOMAIN Tail(q) : i + 1 \in DOMAIN q /\ Tail(q)[i] = q[i + 1]
         /\ 1 \in DOMAIN q /\ Head(q) = q[1]
<1>. DEFINE p == Tail(q)
<1>1. /\ Len(q) \in Nat \ {0} /\ DOMAIN q = 1..Len(q) /\ DOMAIN p = 1..(Len(q) - 1)
      /\ p \in Seq(Output) /\ Head(q) = q[1] /\ Head(q) \in Output
      /\ \A i \in 1..(Len(q) - 1) : p[i] = q[i + 1]
  OBVIOUS
<1>. HIDE DEF p
<1>2. \A i \in DOMAIN q : i # 1 => i - 1 \in DOMAIN p /\ p[i - 1] = q[i]
  BY <1>1
<1>3. \A i \in DOMAIN p : i + 1 \in DOMAIN q /\ p[i] = q[i + 1] /\ i + 1 # 1
  BY <1>1
<1>4. 1 \in DOMAIN q
  BY <1>1
<1>5. RidsOf(q) = RidsOf(p) \cup {Head(q).rid}
  <2>1. ASSUME NEW r \in RidsOf(q) PROVE r \in RidsOf(p) \/ r = Head(q).rid
    <3>1. PICK i \in DOMAIN q : q[i].rid = r
      BY DEF RidsOf
    <3>2. CASE i = 1
      BY <1>1, <3>1, <3>2
    <3>3. CASE i # 1
      BY <1>2, <3>1, <3>3 DEF RidsOf
    <3>. QED BY <3>2, <3>3
  <2>2. ASSUME NEW r \in RidsOf(p) PROVE r \in RidsOf(q)
    <3>1. PICK i \in DOMAIN p : p[i].rid = r
      BY DEF RidsOf
    <3>. QED BY <1>3, <3>1 DEF RidsOf
  <2>3. Head(q).rid \in RidsOf(q)
    BY <1>1, <1>4 DEF RidsOf
  <2>. QED BY <2>1, <2>2, <2>3
<1>6. ASSUME RidsOnce(q) PROVE RidsOnce(p) /\ Head(q).rid \notin RidsOf(p)
  <2>1. RidsOnce(p)
    BY <1>1, <1>3, <1>6 DEF RidsOnce
  <2>2. ASSUME Head(q).rid \in RidsOf(p) PROVE FALSE
    <3>1. PICK i \in DOMAIN p : p[i].rid = Head(q).rid
      BY <2>2 DEF RidsOf
    <3>2. q[i + 1].rid = q[1].rid /\ i + 1 \in DOMAIN q /\ i + 1 # 1
      BY <1>1, <1>3, <3>1
    <3>. QED BY <1>4, <1>6, <3>2 DEF RidsOnce
  <2>. QED BY <2>1, <2>2
<1>. QED BY <1>1, <1>3, <1>4, <1>5, <1>6 DEF p

\* A queue without r holds the others, each once.
LEMMA WithoutRange ==
  ASSUME NEW q \in Seq(Reqs), NEW r, IsInjective(q)
  PROVE  /\ Without(q, r) \in Seq(Reqs) /\ IsInjective(Without(q, r))
         /\ Range(Without(q, r)) = Range(q) \ {r}
<1>1. CASE Contains(q, r)
  <2>. DEFINE k == CHOOSE i \in 1..Len(q) : q[i] = r
  <2>1. k \in 1..Len(q) /\ q[k] = r
    BY <1>1 DEF Contains
  <2>2. Without(q, r) = RemoveAt(q, k)
    BY <1>1 DEF Without
  <2>. HIDE DEF k
  <2>. QED BY <2>1, <2>2, RemoveAtRange
<1>2. CASE ~Contains(q, r)
  BY <1>2, InRange DEF Contains, Without
<1>. QED BY <1>1, <1>2

-----------------------------------------------------------------------------
\* At the start nothing was sent and every place is empty.
LEMMA InitPlace == Init => PlaceInv
<1>. SUFFICES ASSUME Init PROVE PlaceInv
  OBVIOUS
<1>. USE DEF Init
<1>1. \A r \in Reqs : NewReq(r) \in ReqRecord /\ NewReq(r) \in ReqType(r)
  BY RequestsAssumption DEF NewReq, ReqRecord, ReqType, Reasons, MaxOutputs, RequestsAssumption
<1>2. Range(waiting) = {} /\ Range(pending) = {} /\ RequestsIn(socket) = {} /\ FinRids = {}
  BY DEF Range, RequestsIn, FinRids, RidsOf
<1>3. Charged = {} /\ Early = {}
  BY <1>2 DEF Charged, NoBatch, Early
<1>4. TypeOK
  BY <1>1, LimitsAssumption DEF TypeOK, NoBatch, NoResult, Reasons, LimitsAssumption
<1>5. Loop
  BY <1>1 DEF Loop, NoBatch
<1>6. Places
  BY <1>2, <1>3 DEF Places, RequestsOnce, IsInjective, RidsOnce
<1>7. Marks
  BY <1>3 DEF Marks, NoBatch
<1>8. Numbers
  BY <1>2, RequestsAssumption DEF Numbers, Counted, NewReq, MaxOutputs, Over, RequestsAssumption
<1>9. Streams
  BY <1>3 DEF Streams, Sent, NewReq
<1>. QED BY <1>4, <1>5, <1>6, <1>7, <1>8, <1>9 DEF PlaceInv

\* A message is sent: a request is new, since ids are.
LEMMA SendPlace ==
  ASSUME PlaceInv, NEW kind \in {"request", "abort"}, NEW r \in Reqs, Send(kind, r)
  PROVE  PlaceInv'
<1>. USE DEF PlaceInv
<1>. DEFINE m == [kind |-> kind, rid |-> r]
<1>1. m \in Message /\ socket \in Seq(Message) /\ socket' = Append(socket, m)
  BY DEF Send, TypeOK, Message
<1>2. /\ UNCHANGED <<pc, queues, scan, budget, batch, todo, result, req,
                     used_tokens, runner, stream, dropped>>
      /\ sent' = [sent EXCEPT ![kind] = @ \cup {r}] /\ r \notin sent[kind]
      /\ sent \in [{"request", "abort"} -> SUBSET Reqs]
  BY DEF Send, TypeOK
<1>3. kind = "request" => r \notin RequestsIn(socket)
  BY <1>2 DEF Places, Early
<1>4. /\ socket' \in Seq(Message) /\ RequestsOnce(socket)'
      /\ RequestsIn(socket)' = RequestsIn(socket) \cup (IF kind = "request" THEN {r} ELSE {})
  BY <1>1, <1>3, SocketSend DEF Places
<1>5. /\ Range(waiting)' = Range(waiting) /\ Range(pending)' = Range(pending)
      /\ Charged' = Charged /\ FinRids' = FinRids
      /\ Early' = Early \cup (IF kind = "request" THEN {r} ELSE {})
  BY <1>2, <1>4 DEF queues, Charged, FinRids, Early
<1>6. /\ sent'["request"] = sent["request"] \cup (IF kind = "request" THEN {r} ELSE {})
      /\ sent' \in [{"request", "abort"} -> SUBSET Reqs]
  BY <1>2
<1>7. TypeOK' /\ Loop'
  BY <1>2, <1>4, <1>6 DEF TypeOK, Loop, queues, Message
<1>8. Places'
  BY <1>2, <1>3, <1>4, <1>5, <1>6 DEF Places, queues, Early
<1>9. Marks' /\ Numbers'
  BY <1>2, <1>5 DEF Marks, Numbers, queues, Over, Counted
<1>10. Streams'
  <2>1. \A p \in Reqs : Sent(p)'
    <3>. SUFFICES ASSUME NEW p \in Reqs PROVE Sent(p)'
      OBVIOUS
    <3>1. Sent(p)
      BY DEF Streams
    <3>2. stream[p].reason # None => p \in sent["request"]
      BY <3>1 DEF Sent
    <3>3. stream[p].reason # None => p \notin (Early \cup Charged \cup FinRids)'
      BY <1>2, <1>5, <3>1, <3>2 DEF Sent
    <3>. QED BY <1>2, <1>6, <3>1, <3>3 DEF Sent
  <2>2. \A p \in (Early \cup (Reqs \ sent["request"]))' : stream'[p].tokens = <<>>
    BY <1>2, <1>5, <1>6 DEF Streams
  <2>. QED BY <1>2, <2>1, <2>2 DEF Streams, queues
<1>. QED BY <1>7, <1>8, <1>9, <1>10

\* Steps that send nothing keep what is known of the streams, when they leave the
\* requests alone that have ended.
LEMMA StreamsKept ==
  ASSUME Streams, UNCHANGED <<stream, finished, sent>>,
         \A p \in Reqs : req'[p].read_offset = req[p].read_offset,
         \A p \in Reqs : stream[p].reason # None \/ p \in FinRids => req'[p] = req[p],
         Early' \subseteq Early,
         (Early \cup Charged)' \subseteq Early \cup Charged,
         finished \in Seq(Output)
  PROVE  Streams'
<1>1. FinRids' = FinRids
  BY DEF FinRids
<1>2. \A p \in Reqs : Sent(p)'
  <2>. SUFFICES ASSUME NEW p \in Reqs PROVE Sent(p)'
    OBVIOUS
  <2>1. Sent(p)
    BY DEF Streams
  <2>2. stream[p].reason # None => req'[p] = req[p]
    OBVIOUS
  <2>3. p \notin Early \cup Charged \cup FinRids => p \notin (Early \cup Charged \cup FinRids)'
    BY <1>1
  <2>. QED BY <1>1, <2>1, <2>2, <2>3 DEF Sent
<1>3. \A p \in (Early \cup (Reqs \ sent["request"]))' : stream'[p].tokens = <<>>
  BY DEF Streams
<1>4. \A i \in DOMAIN finished : req'[finished[i].rid] = req[finished[i].rid]
  <2>. TAKE i \in DOMAIN finished
  <2>1. finished[i].rid \in FinRids
    BY DEF FinRids, RidsOf
  <2>2. finished[i] \in Output
    OBVIOUS
  <2>. QED BY <2>1, <2>2 DEF Output
<1>. QED BY <1>2, <1>3, <1>4 DEF Streams

\* A request is received.
LEMMA RecvRequestPlace == ASSUME PlaceInv, RecvRequest PROVE PlaceInv'
<1>. USE DEF PlaceInv
<1>. DEFINE r == Head(socket).rid
<1>1. /\ socket \in Seq(Message) /\ socket # <<>> /\ Head(socket).kind = "request"
      /\ socket' = Tail(socket) /\ waiting' = Append(waiting, r) /\ pc = "recv"
      /\ UNCHANGED <<sent, pc, pending, running, finished, scan, budget, batch,
                     todo, result, req, used_tokens, runner, stream, dropped>>
  BY DEF RecvRequest, TypeOK, Message
<1>2. /\ socket' \in Seq(Message) /\ Head(socket) \in Message /\ RequestsOnce(socket)'
      /\ RequestsIn(socket) = RequestsIn(socket)' \cup {r} /\ r \notin RequestsIn(socket)'
  BY <1>1, SocketReceive DEF Places
<1>3. r \in Reqs
  BY <1>2 DEF Message
<1>. HIDE DEF r
<1>4. /\ waiting' \in Seq(Reqs) /\ IsInjective(waiting)'
      /\ Range(waiting)' = Range(waiting) \cup {r}
  <2>1. waiting \in Seq(Reqs) /\ r \notin Range(waiting) /\ IsInjective(waiting)
    BY <1>2 DEF TypeOK, Places
  <2>. QED BY <1>1, <1>3, <2>1, AppendRange
<1>5. /\ Range(pending)' = Range(pending) /\ Charged' = Charged /\ FinRids' = FinRids
      /\ Early' = Early
  BY <1>1, <1>2, <1>4 DEF Charged, FinRids, Early
<1>6. TypeOK' /\ Loop'
  BY <1>1, <1>2, <1>4 DEF TypeOK, Loop, Message
<1>7. Places'
  BY <1>1, <1>2, <1>4, <1>5 DEF Places
<1>8. Marks' /\ Numbers'
  BY <1>1, <1>5 DEF Marks, Numbers, Over, Counted
<1>9. Streams'
  BY <1>1, <1>5, StreamsKept DEF TypeOK, Output
<1>. QED BY <1>6, <1>7, <1>8, <1>9

\* An abort is received: the request leaves the queues, or is marked.
LEMMA RecvAbortPlace == ASSUME PlaceInv, RecvAbort PROVE PlaceInv'
<1>. USE DEF PlaceInv
<1>. DEFINE r == Head(socket).rid
<1>0. req' = IF r \in running THEN [req EXCEPT ![r].reason = "abort"] ELSE req
  BY DEF RecvAbort, AbortRequest
<1>1. /\ socket \in Seq(Message) /\ socket # <<>> /\ Head(socket).kind = "abort"
      /\ socket' = Tail(socket) /\ waiting' = Without(waiting, r)
      /\ pending' = Without(pending, r) /\ pc = "recv"
      /\ dropped' = IF r \in running \cup Range(waiting) \cup Range(pending)
                    THEN dropped \cup {r} ELSE dropped
      /\ UNCHANGED <<sent, pc, running, finished, scan, budget, batch, todo,
                     result, used_tokens, runner, stream>>
  BY DEF RecvAbort, AbortRequest, TypeOK, Message
<1>2. /\ socket' \in Seq(Message) /\ Head(socket) \in Message /\ RequestsOnce(socket)'
      /\ RequestsIn(socket) = RequestsIn(socket)'
  <2>1. Head(socket).kind # "request"
    BY <1>1
  <2>2. /\ Tail(socket) \in Seq(Message) /\ Head(socket) \in Message
        /\ RequestsIn(socket) =
             RequestsIn(Tail(socket))
               \cup (IF Head(socket).kind = "request" THEN {Head(socket).rid} ELSE {})
        /\ RequestsOnce(Tail(socket))
    BY <1>1, SocketReceive DEF Places
  <2>. QED BY <1>1, <2>1, <2>2
<1>3. r \in Reqs
  BY <1>2 DEF Message
<1>. HIDE DEF r
<1>4. /\ waiting' \in Seq(Reqs) /\ IsInjective(waiting)'
      /\ Range(waiting)' = Range(waiting) \ {r}
      /\ pending' \in Seq(Reqs) /\ IsInjective(pending)'
      /\ Range(pending)' = Range(pending) \ {r}
  BY <1>1, WithoutRange DEF TypeOK, Places
<1>5. /\ Charged' = Charged /\ FinRids' = FinRids /\ Charged = running
      /\ Early' \subseteq Early
      /\ r \in Range(waiting) \cup Range(pending) => Early' = Early \ {r}
      /\ batch.reqs = {} /\ todo = {} /\ scan = 0 /\ FinRids = {} /\ finished = <<>>
  <2>1. batch.reqs = {} /\ todo = {} /\ scan = 0 /\ finished = <<>>
    BY <1>1 DEF Loop
  <2>2. FinRids = {}
    BY <2>1 DEF FinRids, RidsOf
  <2>3. r \in Range(waiting) \cup Range(pending) => r \notin RequestsIn(socket)
    BY DEF Places
  <2>. QED BY <1>1, <1>2, <1>4, <2>1, <2>2, <2>3 DEF Charged, FinRids, Early
<1>6. /\ req' \in [Reqs -> ReqRecord]
      /\ \A p \in Reqs : p # r \/ r \notin running => req'[p] = req[p]
      /\ \A p \in Reqs : /\ req'[p].seq_len = req[p].seq_len
                         /\ req'[p].prefix_len = req[p].prefix_len
                         /\ req'[p].outputs = req[p].outputs
                         /\ req'[p].read_offset = req[p].read_offset
      /\ r \in running => req'[r].reason = "abort"
  BY <1>0, <1>3 DEF Loop, ReqRecord, Reasons
<1>7. Loop'
  BY <1>1, <1>6 DEF Loop
<1>8. Places'
  <2>1. Early' \cap dropped' = {}
    BY <1>1, <1>5 DEF Places
  <2>2. r \in running \cup Range(waiting) \cup Range(pending) => r \in sent["request"]
    BY <1>5 DEF Places, Early
  <2>3. dropped' \subseteq sent'["request"]
    BY <1>1, <2>2 DEF Places
  <2>. QED BY <1>1, <1>2, <1>4, <1>5, <2>1, <2>3 DEF Places
<1>9. Marks'
  <2>1. \A p \in running : Over(p)' => req'[p].reason = "abort"
    <3>. SUFFICES ASSUME NEW p \in running, Over(p)' PROVE req'[p].reason = "abort"
      OBVIOUS
    <3>1. p \in Reqs
      BY DEF TypeOK
    <3>2. CASE p = r
      BY <1>6, <3>2
    <3>3. CASE p # r
      <4>1. req'[p] = req[p]
        BY <1>6, <3>1, <3>3
      <4>. QED BY <1>1, <4>1 DEF Marks, Over
    <3>. QED BY <3>2, <3>3
  <2>2. \A p \in dropped' : p \in Charged' => Over(p)'
    <3>. SUFFICES ASSUME NEW p \in dropped', p \in running PROVE Over(p)'
      BY <1>5
    <3>1. p \in Reqs
      BY DEF TypeOK
    <3>2. CASE p = r
      BY <1>6, <3>2 DEF Over, None
    <3>3. CASE p # r
      <4>1. req'[p] = req[p] /\ p \in dropped
        BY <1>1, <1>6, <3>1, <3>3
      <4>. QED BY <1>5, <4>1 DEF Marks, Over
    <3>. QED BY <3>2, <3>3
  <2>. QED BY <1>1, <1>5, <2>1, <2>2 DEF Marks
<1>10. Numbers'
  <2>1. \A p \in Range(pending)' : req'[p] = NewReq(p)
    <3>. TAKE p \in Range(pending)'
    <3>1. p \in Range(pending) /\ p \in Reqs /\ p # r
      BY <1>4, InRange DEF TypeOK
    <3>. QED BY <1>6, <3>1 DEF Numbers
  <2>2. ASSUME NEW p \in Reqs PROVE Counted(p)'
    <3>1. Counted(p)
      BY DEF Numbers
    <3>2. ~Over(p)' => ~Over(p)
      BY <1>6 DEF Over, None
    <3>. QED BY <1>6, <3>1, <3>2 DEF Counted
  <2>. QED BY <2>1, <2>2 DEF Numbers
<1>11. TypeOK'
  <2>1. ASSUME NEW p \in Reqs PROVE req'[p] \in ReqType(p)
    <3>1. req[p] \in ReqType(p) /\ req'[p] \in ReqRecord
      BY <1>6 DEF TypeOK
    <3>. QED BY <1>6, <3>1 DEF ReqType, ReqRecord
  <2>2. dropped' \in SUBSET Reqs
    BY <1>1, <1>3 DEF TypeOK
  <2>. QED BY <1>1, <1>2, <1>4, <1>5, <2>1, <2>2 DEF TypeOK, Message
<1>12. Streams'
  <2>1. \A p \in Reqs : stream[p].reason # None \/ p \in FinRids => req'[p] = req[p]
    <3>. SUFFICES ASSUME NEW p \in Reqs, stream[p].reason # None PROVE req'[p] = req[p]
      BY <1>5
    <3>1. Sent(p)
      BY DEF Streams
    <3>2. p \notin running
      BY <1>5, <3>1 DEF Sent
    <3>. QED BY <1>6, <3>2
  <2>. QED BY <1>1, <1>5, <1>6, <2>1, StreamsKept DEF TypeOK, Output
<1>. QED BY <1>7, <1>8, <1>9, <1>10, <1>11, <1>12

\* Steps of the loop that move no request and change none.
LEMMA ControlStep ==
  ASSUME PlaceInv, Charged' = Charged, TypeOK', Loop', Marks',
         UNCHANGED <<sent, socket, queues, req, stream, dropped>>
  PROVE  PlaceInv'
<1>. USE DEF PlaceInv
<1>1. UNCHANGED <<Early, FinRids>>
  BY DEF Early, FinRids, queues
<1>2. Places'
  BY <1>1 DEF Places, queues
<1>3. Numbers'
  BY DEF Numbers, Counted, Over, queues
<1>4. Streams'
  <2>1. finished \in Seq(Output)
    BY DEF TypeOK, Output
  <2>. QED BY <1>1, <2>1, StreamsKept DEF queues
<1>. QED BY <1>2, <1>3, <1>4

\* The socket is drained.
LEMMA RecvNothingPlace == ASSUME PlaceInv, RecvNothing PROVE PlaceInv'
<1>. USE DEF PlaceInv, RecvNothing, queues
<1>1. TypeOK' /\ Loop'
  BY DEF TypeOK, Loop
<1>2. Charged' = Charged
  BY DEF Charged
<1>3. Marks'
  BY <1>2 DEF Marks, Over
<1>. QED BY <1>1, <1>2, <1>3, ControlStep

\* No running request is over when admission begins.
LEMMA FilterDonePlace == ASSUME PlaceInv, FilterDone PROVE PlaceInv'
<1>. USE DEF PlaceInv, FilterDone, queues, NoBatch
<1>1. TypeOK' /\ Loop'
  BY LimitsAssumption DEF TypeOK, Loop, LimitsAssumption
<1>2. Charged' = Charged /\ batch.reqs = {} /\ Charged = running
  BY DEF Charged, Loop
<1>3. Marks'
  BY <1>2 DEF Marks, Over
<1>. QED BY <1>1, <1>2, <1>3, ControlStep

\* A request that does not fit is passed over.
LEMMA SkipPlace == ASSUME PlaceInv, Skip PROVE PlaceInv'
<1>. USE DEF PlaceInv, Skip, queues
<1>1. TypeOK' /\ Loop'
  BY DEF TypeOK, Loop
<1>2. Charged' = Charged
  BY DEF Charged
<1>3. Marks'
  BY <1>2 DEF Marks, Over
<1>. QED BY <1>1, <1>2, <1>3, ControlStep

\* The batch is the new requests or the running ones: the charged set stays.
LEMMA BuildBatchPlace == ASSUME PlaceInv, BuildBatch PROVE PlaceInv'
<1>. USE DEF PlaceInv
<1>1. /\ pc = "admit" /\ scan' = 0 /\ budget' = 0 /\ pc' \in {"run", "stream"}
      /\ UNCHANGED <<sent, socket, queues, todo, result, req, used_tokens, runner,
                     stream, dropped>>
      /\ batch' \in [mode : {"none", "extend", "decode"}, reqs : SUBSET Reqs]
      /\ batch'.reqs = batch.reqs \/ (batch.reqs = {} /\ batch'.reqs = running)
      /\ pc' = "stream" => batch'.reqs = {}
  BY DEF BuildBatch, NoBatch, TypeOK, queues
<1>2. Charged' = Charged
  BY <1>1 DEF Charged, queues
<1>3. todo = {} /\ finished = <<>>
  BY <1>1 DEF Loop
<1>4. TypeOK'
  BY <1>1, <1>3, LimitsAssumption DEF TypeOK, queues, LimitsAssumption
<1>5. Loop'
  BY <1>1, <1>3 DEF Loop, queues
<1>6. Marks'
  BY <1>1, <1>2, <1>3 DEF Marks, Over, queues
<1>. QED BY <1>1, <1>2, <1>4, <1>5, <1>6, ControlStep

\* The process dies with its state.
LEMMA ForwardRaisesPlace == ASSUME PlaceInv, ForwardRaises PROVE PlaceInv'
<1>. USE DEF PlaceInv, ForwardRaises, queues
<1>1. TypeOK' /\ Loop'
  BY DEF TypeOK, Loop
<1>2. Charged' = Charged
  BY DEF Charged
<1>3. Marks'
  BY <1>2 DEF Marks, Over
<1>. QED BY <1>1, <1>2, <1>3, ControlStep

\* The runner reports a prefix no longer than the prompt.
LEMMA RunBatchPlace == ASSUME PlaceInv, RunBatch PROVE PlaceInv'
<1>. USE DEF PlaceInv
<1>1. /\ pc = "run" /\ pc' = "result" /\ todo' = batch.reqs
      /\ runner' = runner \cup batch.reqs
      /\ UNCHANGED <<sent, socket, queues, scan, budget, batch, req, used_tokens,
                     stream, dropped>>
  BY DEF RunBatch
<1>2. ASSUME NEW r \in Reqs PROVE PrefixLens(r) \subseteq Nat /\ \A n \in PrefixLens(r) : n <= InputLen[r]
  <2>1. InputLen[r] \in Nat \ {0}
    BY RequestsAssumption DEF RequestsAssumption
  <2>. QED BY <2>1 DEF PrefixLens
<1>3. /\ result' \in [batch.reqs -> [prefix_len : Nat, eos : BOOLEAN]]
      /\ \A r \in batch.reqs : result'[r].prefix_len <= InputLen[r]
  <2>1. batch.reqs \subseteq Reqs
    BY DEF TypeOK
  <2>2. PICK p \in [batch.reqs -> UNION {PrefixLens(r) : r \in batch.reqs}],
            e \in [batch.reqs -> BOOLEAN] :
            /\ \A r \in batch.reqs :
                 p[r] \in IF batch.mode = "extend" THEN PrefixLens(r) ELSE {0}
            /\ result' = [r \in batch.reqs |-> [prefix_len |-> p[r], eos |-> e[r]]]
    BY DEF RunBatch
  <2>3. ASSUME NEW r \in batch.reqs PROVE p[r] \in Nat /\ p[r] <= InputLen[r]
    <3>1. r \in Reqs /\ InputLen[r] \in Nat
      BY <2>1, RequestsAssumption DEF RequestsAssumption
    <3>. QED BY <1>2, <2>2, <3>1
  <2>. QED BY <2>2, <2>3
<1>4. DOMAIN result' = batch.reqs
  BY <1>3
<1>5. Charged' = Charged
  BY <1>1 DEF Charged, queues
<1>6. TypeOK'
  BY <1>1, <1>3, <1>4 DEF TypeOK, queues
<1>7. Loop'
  BY <1>1, <1>3, <1>4 DEF Loop, queues
<1>8. Marks'
  BY <1>1, <1>5 DEF Marks, Over, queues
<1>. QED BY <1>1, <1>5, <1>6, <1>7, <1>8, ControlStep

\* Every result of the batch was applied.
LEMMA ResultsTakenPlace == ASSUME PlaceInv, ResultsTaken PROVE PlaceInv'
<1>. USE DEF PlaceInv
<1>1. /\ pc = "result" /\ pc' = "route" /\ todo = {} /\ todo' = batch.reqs
      /\ result' = NoResult
      /\ UNCHANGED <<sent, socket, queues, scan, budget, batch, req, used_tokens,
                     runner, stream, dropped>>
  BY DEF ResultsTaken
<1>2. Charged' = Charged
  BY <1>1 DEF Charged, queues
<1>3. TypeOK'
  BY <1>1 DEF TypeOK, queues, NoResult
<1>4. Loop'
  BY <1>1 DEF Loop, queues
<1>5. Marks'
  BY <1>1, <1>2 DEF Marks, Over, queues
<1>. QED BY <1>1, <1>2, <1>3, <1>4, <1>5, ControlStep

\* Every request of the batch was routed.
LEMMA RoutedPlace == ASSUME PlaceInv, Routed PROVE PlaceInv'
<1>. USE DEF PlaceInv, Routed, queues, NoBatch
<1>1. TypeOK' /\ Loop'
  BY DEF TypeOK, Loop
<1>2. Charged' = Charged
  BY DEF Charged
<1>3. Marks'
  BY <1>2 DEF Marks, Over
<1>. QED BY <1>1, <1>2, <1>3, ControlStep

\* All was sent.
LEMMA LoopAgainPlace == ASSUME PlaceInv, LoopAgain PROVE PlaceInv'
<1>. USE DEF PlaceInv, LoopAgain, queues
<1>1. TypeOK' /\ Loop'
  BY DEF TypeOK, Loop
<1>2. Charged' = Charged
  BY DEF Charged
<1>3. Marks'
  BY <1>2 DEF Marks, Over
<1>. QED BY <1>1, <1>2, <1>3, ControlStep

\* A stuttering step.
LEMMA StutterPlace == ASSUME PlaceInv, UNCHANGED vars PROVE PlaceInv'
<1>. USE DEF PlaceInv, vars, queues
<1>1. TypeOK' /\ Loop'
  BY DEF TypeOK, Loop
<1>2. Charged' = Charged
  BY DEF Charged
<1>3. Marks'
  BY <1>2 DEF Marks, Over
<1>. QED BY <1>1, <1>2, <1>3, ControlStep

\* The requests received so far are queued, each with a new Req object.
LEMMA InputPlace == ASSUME PlaceInv, process_input_requests PROVE PlaceInv'
<1>. USE DEF PlaceInv
<1>1. /\ pc = "input" /\ pc' = "filter"
      /\ pending' = pending \o waiting /\ waiting' = <<>>
      /\ UNCHANGED <<sent, socket, running, finished, scan, budget, batch, todo,
                     result, used_tokens, runner, stream, dropped>>
      /\ batch.reqs = {} /\ todo = {} /\ scan = 0 /\ finished = <<>>
  BY DEF process_input_requests, Loop
<1>2. /\ \A p \in Range(waiting) : p \in Reqs /\ req'[p] = NewReq(p)
      /\ \A p \in Reqs \ Range(waiting) : req'[p] = req[p]
      /\ req' = [p \in Reqs |-> IF p \in Range(waiting) THEN NewReq(p) ELSE req[p]]
  <2>1. Range(waiting) \subseteq Reqs
    BY InRange DEF TypeOK
  <2>. QED BY <2>1 DEF process_input_requests
<1>3. /\ pending' \in Seq(Reqs) /\ IsInjective(pending)' /\ Len(pending') \in Nat
      /\ Range(pending)' = Range(pending) \cup Range(waiting)
  <2>1. pending \in Seq(Reqs) /\ waiting \in Seq(Reqs)
    BY DEF TypeOK
  <2>. QED BY <1>1, <2>1, ConcatRange DEF Places
<1>4. waiting' \in Seq(Reqs) /\ IsInjective(waiting)' /\ Range(waiting)' = {}
  BY <1>1 DEF Range, IsInjective
<1>5. UNCHANGED <<Charged, FinRids, Early>> /\ Charged = running
  BY <1>1, <1>3, <1>4 DEF Charged, FinRids, Early
<1>6. \A p \in Reqs : NewReq(p) \in ReqRecord /\ NewReq(p) \in ReqType(p)
  BY RequestsAssumption DEF NewReq, ReqRecord, ReqType, Reasons, MaxOutputs, RequestsAssumption
<1>7. req' \in [Reqs -> ReqRecord] /\ \A p \in Reqs : req'[p] \in ReqType(p)
  <2>1. req \in [Reqs -> ReqRecord] /\ \A p \in Reqs : req[p] \in ReqType(p)
    BY DEF Loop, TypeOK
  <2>. QED BY <1>2, <1>6, <2>1
<1>8. TypeOK'
  BY <1>1, <1>3, <1>4, <1>7 DEF TypeOK
<1>9. Loop'
  BY <1>1, <1>7 DEF Loop
<1>10. Places'
  BY <1>1, <1>3, <1>4, <1>5 DEF Places
<1>11. Marks'
  <2>1. \A p \in running : p \notin Range(waiting) /\ p \in Reqs
    BY <1>5 DEF Places, Early, TypeOK
  <2>2. \A p \in running : req'[p] = req[p]
    BY <1>2, <2>1
  <2>. QED BY <1>1, <1>5, <2>2 DEF Marks, Over
<1>12. Numbers'
  <2>1. ASSUME NEW p \in Reqs PROVE Counted(p)'
    <3>1. CASE p \in Range(waiting)
      <4>1. req'[p] = NewReq(p) /\ InputLen[p] \in Nat /\ MaxNewTokens[p] \in Nat
        BY <1>2, <3>1, RequestsAssumption DEF RequestsAssumption
      <4>. QED BY <4>1 DEF Counted, NewReq, MaxOutputs, Over
    <3>2. CASE p \notin Range(waiting)
      <4>1. req'[p] = req[p] /\ Counted(p)
        BY <1>2, <3>2 DEF Numbers
      <4>. QED BY <4>1 DEF Counted, Over
    <3>. QED BY <3>1, <3>2
  <2>2. ASSUME NEW p \in Range(pending)' PROVE req'[p] = NewReq(p)
    <3>1. CASE p \in Range(waiting)
      BY <1>2, <3>1
    <3>2. CASE p \notin Range(waiting)
      <4>1. p \in Range(pending) /\ p \in Reqs
        BY <1>3, <3>2, InRange DEF TypeOK
      <4>. QED BY <1>2, <3>2, <4>1 DEF Numbers
    <3>. QED BY <3>1, <3>2
  <2>. QED BY <2>1, <2>2 DEF Numbers
<1>13. Streams'
  <2>1. \A p \in Reqs : p \in Range(waiting) => stream[p].reason = None /\ req[p].read_offset = 0
    <3>. SUFFICES ASSUME NEW p \in Reqs, p \in Range(waiting)
                  PROVE  stream[p].reason = None /\ req[p].read_offset = 0
      OBVIOUS
    <3>1. p \in Early
      BY DEF Early
    <3>2. Sent(p) /\ stream[p].tokens = <<>>
      BY <3>1 DEF Streams
    <3>3. stream[p].reason = None
      BY <3>1, <3>2 DEF Sent
    <3>4. Len(stream[p].tokens) = 0
      BY <3>2
    <3>. QED BY <3>2, <3>3, <3>4 DEF Sent
  <2>2. \A p \in Reqs : req'[p].read_offset = req[p].read_offset
    <3>. SUFFICES ASSUME NEW p \in Reqs PROVE req'[p].read_offset = req[p].read_offset
      OBVIOUS
    <3>1. CASE p \in Range(waiting)
      <4>1. req'[p].read_offset = 0
        BY <1>2, <3>1 DEF NewReq
      <4>. QED BY <2>1, <3>1, <4>1
    <3>2. CASE p \notin Range(waiting)
      BY <1>2, <3>2
    <3>. QED BY <3>1, <3>2
  <2>3. FinRids = {}
    BY <1>1 DEF FinRids, RidsOf
  <2>4. \A p \in Reqs : stream[p].reason # None \/ p \in FinRids => req'[p] = req[p]
    BY <1>2, <2>1, <2>3
  <2>5. finished \in Seq(Output)
    BY DEF TypeOK, Output
  <2>. QED BY <1>1, <1>5, <2>2, <2>4, <2>5, StreamsKept
<1>. QED BY <1>8, <1>9, <1>10, <1>11, <1>12, <1>13

\* Releasing a request leaves a natural number of tokens.
LEMMA ReleaseType ==
  ASSUME PlaceInv, NEW r \in Reqs
  PROVE  AtLeastZero(used_tokens - Charge(r)) \in Nat
<1>1. req[r] \in ReqRecord /\ used_tokens \in Nat
  BY DEF PlaceInv, Loop, TypeOK
<1>2. req[r].seq_len \in Nat /\ req[r].prefix_len \in Nat
  BY <1>1 DEF ReqRecord
<1>. QED BY <1>1, <1>2 DEF AtLeastZero, Charge

\* An aborted request leaves the running batch.
LEMMA FilterPlace == ASSUME PlaceInv, NEW r \in Reqs, Filter(r) PROVE PlaceInv'
<1>1. /\ pc = "filter" /\ r \in running /\ running' = running \ {r}
      /\ UNCHANGED <<sent, socket, pc, waiting, pending, finished, scan, budget,
                     batch, todo, result, req, stream, dropped>>
      /\ runner' = runner \ {r}
  BY DEF Filter, FreeResources, RunnerWithout
<1>2. used_tokens' \in Nat
  BY ReleaseType DEF Filter, FreeResources
<1>. USE DEF PlaceInv
<1>3. batch.reqs = {} /\ Charged = running /\ Charged' = running \ {r}
  BY <1>1 DEF Loop, Charged
<1>4. UNCHANGED <<Early, FinRids>>
  BY <1>1 DEF Early, FinRids
<1>5. TypeOK' /\ Loop'
  BY <1>1, <1>2 DEF TypeOK, Loop
<1>6. Places'
  BY <1>1, <1>3, <1>4 DEF Places
<1>7. Marks'
  BY <1>1, <1>3 DEF Marks, Over
<1>8. Numbers'
  BY <1>1 DEF Numbers, Counted, Over
<1>9. Streams'
  <2>1. finished \in Seq(Output)
    BY DEF TypeOK, Output
  <2>. QED BY <1>1, <1>3, <1>4, <2>1, StreamsKept
<1>. QED BY <1>5, <1>6, <1>7, <1>8, <1>9

\* A pending request is admitted.
LEMMA AdmitPlace == ASSUME PlaceInv, Admit PROVE PlaceInv'
<1>. USE DEF PlaceInv
<1>. DEFINE r == pending[scan + 1]
<1>1. /\ pc = "admit" /\ scan < Len(pending) /\ InputLen[r] <= budget
      /\ used_tokens' = used_tokens + InputLen[r] /\ budget' = budget - InputLen[r]
      /\ batch' = [mode |-> "none", reqs |-> batch.reqs \cup {r}]
      /\ pending' = RemoveAt(pending, scan + 1)
      /\ UNCHANGED <<sent, socket, pc, waiting, running, finished, scan, todo,
                     result, req, runner, stream, dropped>>
  BY DEF Admit, CanFit
<1>2. /\ pending \in Seq(Reqs) /\ scan + 1 \in 1..Len(pending) /\ IsInjective(pending)
      /\ scan \in Nat /\ Len(pending) \in Nat
  BY <1>1 DEF TypeOK, Places
<1>3. r \in Reqs /\ r \in Range(pending)
  BY <1>2, InRange
<1>. HIDE DEF r
<1>4. /\ pending' \in Seq(Reqs) /\ IsInjective(pending)' /\ Len(pending') = Len(pending) - 1
      /\ Range(pending)' = Range(pending) \ {r}
  BY <1>1, <1>2, RemoveAtRange DEF r
<1>5. /\ FinRids' = FinRids /\ Early' = Early \ {r} /\ Charged' = Charged \cup {r}
      /\ r \in Early
  <2>1. r \notin RequestsIn(socket) \cup Range(waiting)
    BY <1>3 DEF Places
  <2>. QED BY <1>1, <1>3, <1>4, <2>1 DEF FinRids, Early, Charged
<1>6. req[r] = NewReq(r) /\ ~Over(r)
  BY <1>3 DEF Numbers, Over, NewReq
<1>7. todo = {} /\ finished = <<>> /\ FinRids = {}
  BY <1>1 DEF Loop, FinRids, RidsOf
<1>8. TypeOK'
  <2>1. budget' \in 0..max_prefill_tokens /\ used_tokens' \in Nat
    <3>1. InputLen[r] \in Nat /\ max_prefill_tokens \in Nat /\ used_tokens \in Nat
          /\ budget \in 0..max_prefill_tokens
      BY <1>3, RequestsAssumption, LimitsAssumption DEF TypeOK, RequestsAssumption, LimitsAssumption
    <3>. QED BY <1>1, <3>1
  <2>2. scan' \in 0..Len(pending')
    BY <1>1, <1>2, <1>4
  <2>3. batch' \in [mode : {"none", "extend", "decode"}, reqs : SUBSET Reqs]
    BY <1>1, <1>3 DEF TypeOK
  <2>4. todo' \in SUBSET batch'.reqs
    BY <1>1, <1>7
  <2>. QED BY <1>1, <1>4, <2>1, <2>2, <2>3, <2>4 DEF TypeOK
<1>9. Loop'
  BY <1>1 DEF Loop
<1>10. Places'
  BY <1>1, <1>3, <1>4, <1>5, <1>7 DEF Places
<1>11. Marks'
  <2>1. r \notin dropped
    BY <1>5 DEF Places
  <2>2. batch'.reqs = batch.reqs \cup {r}
    BY <1>1
  <2>. QED BY <1>1, <1>5, <1>6, <1>7, <2>1, <2>2 DEF Marks, Over
<1>12. Numbers'
  BY <1>1, <1>4 DEF Numbers, Counted, Over
<1>13. Streams'
  <2>1. finished \in Seq(Output)
    BY DEF TypeOK, Output
  <2>. QED BY <1>1, <1>5, <2>1, StreamsKept
<1>. QED BY <1>8, <1>9, <1>10, <1>11, <1>12, <1>13

\* What one result does to its request, field by field.
LEMMA ResultApplied ==
  ASSUME PlaceInv, NEW r \in Reqs, TakeResult(r)
  PROVE  /\ r \in batch.reqs /\ result[r].prefix_len \in 0..InputLen[r]
         /\ req' \in [Reqs -> ReqRecord]
         /\ \A p \in Reqs : p # r => req'[p] = req[p]
         /\ req'[r].seq_len = req[r].seq_len + 1
         /\ req'[r].outputs = req[r].outputs + 1
         /\ req'[r].read_offset = req[r].read_offset
         /\ req'[r].prefix_len =
              req[r].prefix_len + AtLeastZero(result[r].prefix_len - req[r].prefix_len)
         /\ req'[r].prefix_len \in 0..InputLen[r]
         /\ req'[r].reason = EndOf(r, req[r].outputs + 1, result[r].eos)
         /\ used_tokens' \in Nat
         /\ used_tokens' =
              AtLeastZero(used_tokens
                            - AtLeastZero(result[r].prefix_len - req[r].prefix_len)) + 1
<1>. USE DEF PlaceInv
<1>. DEFINE saved == AtLeastZero(result[r].prefix_len - req[r].prefix_len)
            n == req[r].outputs + 1
<1>1. /\ pc = "result" /\ r \in todo
      /\ used_tokens' = AtLeastZero(used_tokens - saved) + 1
      /\ req' = [req EXCEPT ![r].prefix_len = @ + saved,
                            ![r].outputs = n,
                            ![r].seq_len = @ + 1,
                            ![r].reason = EndOf(r, n, result[r].eos)]
  BY DEF TakeResult
<1>2. r \in batch.reqs /\ DOMAIN result = batch.reqs /\ result[r].prefix_len <= InputLen[r]
  BY <1>1 DEF Loop, TypeOK
<1>3. result[r].prefix_len \in Nat
  <2>1. result \in [DOMAIN result -> [prefix_len : Nat, eos : BOOLEAN]]
    BY DEF TypeOK
  <2>. QED BY <1>2, <2>1
<1>4. /\ req \in [Reqs -> ReqRecord] /\ req[r].prefix_len \in Nat /\ req[r].outputs \in Nat
      /\ req[r].seq_len \in Nat /\ req[r].prefix_len <= InputLen[r] /\ used_tokens \in Nat
      /\ InputLen[r] \in Nat /\ req[r] \in ReqRecord
  <2>1. req \in [Reqs -> ReqRecord] /\ used_tokens \in Nat /\ req[r] \in ReqRecord
    BY DEF Loop, TypeOK
  <2>2. InputLen[r] \in Nat /\ Counted(r)
    BY RequestsAssumption DEF RequestsAssumption, Numbers
  <2>. QED BY <2>1, <2>2 DEF ReqRecord, Counted
<1>5. saved \in Nat /\ req[r].prefix_len + saved \in 0..InputLen[r]
  BY <1>2, <1>3, <1>4 DEF AtLeastZero
<1>6. EndOf(r, n, result[r].eos) \in Reasons
  BY DEF EndOf, Reasons, None
<1>7. used_tokens' \in Nat
  BY <1>1, <1>4, <1>5 DEF AtLeastZero
<1>. HIDE DEF saved, n
<1>8. n \in Nat /\ n = req[r].outputs + 1
  BY <1>4 DEF n
<1>9. /\ req'[r].seq_len = req[r].seq_len + 1 /\ req'[r].outputs = n
      /\ req'[r].read_offset = req[r].read_offset
      /\ req'[r].prefix_len = req[r].prefix_len + saved
      /\ req'[r].reason = EndOf(r, n, result[r].eos)
      /\ \A p \in Reqs : p # r => req'[p] = req[p]
  BY <1>1, <1>4 DEF ReqRecord
<1>10. req' \in [Reqs -> ReqRecord]
  BY <1>1, <1>4, <1>5, <1>6, <1>8 DEF ReqRecord
<1>. QED BY <1>1, <1>2, <1>3, <1>4, <1>5, <1>7, <1>8, <1>9, <1>10 DEF saved

\* A request is not over when its result is applied, so its outputs stay in bounds.
LEMMA TakeResultPlace == ASSUME PlaceInv, NEW r \in Reqs, TakeResult(r) PROVE PlaceInv'
<1>. USE DEF PlaceInv
<1>1. /\ pc = "result" /\ r \in todo /\ todo' = todo \ {r}
      /\ UNCHANGED <<sent, socket, pc, queues, scan, budget, batch, result,
                     runner, stream, dropped>>
  BY DEF TakeResult
<1>2. /\ r \in batch.reqs
      /\ req' \in [Reqs -> ReqRecord]
      /\ \A p \in Reqs : p # r => req'[p] = req[p]
      /\ req'[r].seq_len = req[r].seq_len + 1
      /\ req'[r].outputs = req[r].outputs + 1
      /\ req'[r].read_offset = req[r].read_offset
      /\ req'[r].prefix_len \in 0..InputLen[r]
      /\ req'[r].reason = EndOf(r, req[r].outputs + 1, result[r].eos)
      /\ used_tokens' \in Nat
  BY ResultApplied
<1>3. UNCHANGED <<Early, FinRids, Charged>> /\ r \in Charged
  BY <1>1, <1>2 DEF Early, FinRids, Charged, queues
<1>4. Counted(r)'
  <2>1. ~Over(r) /\ Counted(r)
    BY <1>1 DEF Marks, Numbers
  <2>2. /\ req[r] \in ReqRecord /\ InputLen[r] \in Nat /\ MaxNewTokens[r] \in Nat
    BY RequestsAssumption DEF Loop, RequestsAssumption
  <2>3. /\ req[r].seq_len \in Nat /\ req[r].outputs \in Nat /\ req[r].read_offset \in Nat
        /\ req'[r].prefix_len <= InputLen[r]
    BY <1>2, <2>2 DEF ReqRecord
  <2>4. req'[r].outputs <= MaxOutputs(r)
    BY <1>2, <2>1, <2>2, <2>3 DEF Counted, MaxOutputs
  <2>5. ~Over(r)' => req'[r].outputs < MaxNewTokens[r]
    BY <1>2, <2>2, <2>3 DEF Over, EndOf, None
  <2>. QED BY <1>2, <2>1, <2>2, <2>3, <2>4, <2>5 DEF Counted
<1>5. Numbers'
  <2>1. \A p \in Reqs : Counted(p)'
    <3>. SUFFICES ASSUME NEW p \in Reqs, p # r PROVE Counted(p)'
      BY <1>4
    <3>1. req'[p] = req[p] /\ Counted(p)
      BY <1>2 DEF Numbers
    <3>. QED BY <3>1 DEF Counted, Over
  <2>2. ASSUME NEW p \in Range(pending) PROVE req'[p] = NewReq(p)
    <3>1. p \in Early /\ p \in Reqs
      BY InRange DEF Early, TypeOK
    <3>2. p # r
      BY <1>3, <3>1 DEF Places
    <3>. QED BY <1>2, <3>1, <3>2 DEF Numbers
  <2>. QED BY <1>1, <2>1, <2>2 DEF Numbers, queues
<1>6. TypeOK'
  <2>1. \A p \in Reqs : req'[p] \in ReqType(p)
    <3>. SUFFICES ASSUME NEW p \in Reqs PROVE req'[p] \in ReqType(p)
      OBVIOUS
    <3>1. CASE p # r
      BY <1>2, <3>1 DEF TypeOK
    <3>2. CASE p = r
      <4>1. req'[r] \in ReqRecord /\ Counted(r)'
        BY <1>2, <1>4
      <4>2. /\ req'[r].outputs \in Nat /\ req'[r].read_offset \in Nat
            /\ MaxOutputs(r) \in Nat
        BY <4>1, RequestsAssumption DEF ReqRecord, MaxOutputs, RequestsAssumption
      <4>3. req'[r].outputs \in 0..MaxOutputs(r) /\ req'[r].read_offset \in 0..MaxOutputs(r)
        BY <4>1, <4>2 DEF Counted
      <4>. QED BY <1>2, <3>2, <4>1, <4>3 DEF ReqRecord, ReqType
    <3>. QED BY <3>1, <3>2
  <2>. QED BY <1>1, <1>2, <2>1 DEF TypeOK, queues
<1>7. Loop'
  BY <1>1, <1>2 DEF Loop, queues
<1>8. Places'
  BY <1>1, <1>3 DEF Places, queues
<1>9. Marks'
  <2>1. \A p \in running : p # r => (Over(p)' => p \in batch.reqs \ todo)
    BY <1>1, <1>2 DEF Marks, Over, TypeOK
  <2>2. \A p \in todo' : ~Over(p)'
    <3>. SUFFICES ASSUME NEW p \in todo' PROVE ~Over(p)'
      OBVIOUS
    <3>1. p \in todo /\ p # r /\ p \in Reqs
      BY <1>1 DEF TypeOK
    <3>. QED BY <1>1, <1>2, <3>1 DEF Marks, Over
  <2>3. \A p \in dropped : p \notin Charged
    BY <1>1 DEF Marks
  <2>. QED BY <1>1, <1>2, <1>3, <2>1, <2>2, <2>3 DEF Marks, queues
<1>10. Streams'
  <2>1. \A p \in Reqs : req'[p].read_offset = req[p].read_offset
    BY <1>2
  <2>2. \A p \in Reqs : stream[p].reason # None \/ p \in FinRids => p # r
    <3>. SUFFICES ASSUME stream[r].reason # None \/ r \in FinRids PROVE FALSE
      OBVIOUS
    <3>1. Sent(r)
      BY DEF Streams
    <3>. QED BY <1>3, <3>1 DEF Sent, Places
  <2>3. finished \in Seq(Output)
    BY DEF TypeOK, Output
  <2>. QED BY <1>1, <1>2, <1>3, <2>1, <2>2, <2>3, StreamsKept DEF queues
<1>. QED BY <1>5, <1>6, <1>7, <1>8, <1>9, <1>10

\* A request runs on.
LEMMA RunOnPlace == ASSUME PlaceInv, NEW r \in Reqs, RunOn(r) PROVE PlaceInv'
<1>. USE DEF PlaceInv
<1>1. /\ pc = "route" /\ r \in todo /\ ~Over(r) /\ running' = running \cup {r}
      /\ todo' = todo \ {r}
      /\ UNCHANGED <<sent, socket, pc, waiting, pending, finished, scan, budget,
                     batch, result, req, used_tokens, runner, stream, dropped>>
  BY DEF RunOn
<1>2. UNCHANGED <<Early, FinRids, Charged>>
  BY <1>1 DEF Early, FinRids, Charged
<1>3. TypeOK' /\ Loop'
  BY <1>1 DEF TypeOK, Loop
<1>4. Places'
  BY <1>1, <1>2 DEF Places
<1>5. Marks'
  BY <1>1, <1>2 DEF Marks, Over
<1>6. Numbers'
  BY <1>1 DEF Numbers, Counted, Over
<1>7. Streams'
  <2>1. finished \in Seq(Output)
    BY DEF TypeOK, Output
  <2>. QED BY <1>1, <1>2, <2>1, StreamsKept
<1>. QED BY <1>3, <1>4, <1>5, <1>6, <1>7

\* A finished request is collected.
LEMMA FinishPlace == ASSUME PlaceInv, NEW r \in Reqs, Finish(r) PROVE PlaceInv'
<1>0. used_tokens' \in Nat
  BY ReleaseType DEF Finish, FreeResources
<1>. USE DEF PlaceInv
<1>. DEFINE out == FinishedOutput(r)
<1>1. /\ pc = "route" /\ r \in todo /\ Over(r) /\ running' = running \ {r}
      /\ todo' = todo \ {r} /\ finished' = Append(finished, out)
      /\ UNCHANGED <<sent, socket, pc, waiting, pending, scan, budget, batch,
                     result, req, stream, dropped>>
      /\ runner' = runner \ {r}
  BY DEF Finish, FreeResources, RunnerWithout
<1>2. /\ out \in Output /\ out.rid = r /\ out.from = req[r].read_offset
      /\ out.to = req[r].outputs /\ out.reason = req[r].reason
  <2>1. req[r] \in ReqRecord
    BY DEF Loop
  <2>. QED BY <2>1 DEF FinishedOutput, Output, ReqRecord
<1>. HIDE DEF out
<1>3. /\ Early' = Early /\ Charged' = Charged \ {r} /\ r \in Charged /\ r \notin FinRids
      /\ r \notin dropped
  <2>1. r \in Charged
    BY <1>1 DEF Charged
  <2>. QED BY <1>1, <2>1 DEF Early, Charged, Places, Marks
<1>4. finished \in Seq(Output)
  BY DEF TypeOK, Output
<1>5. /\ finished' \in Seq(Output) /\ FinRids' = FinRids \cup {r} /\ RidsOnce(finished)'
      /\ \A i \in DOMAIN finished' :
           finished'[i] = out \/ (i \in DOMAIN finished /\ finished'[i] = finished[i])
  BY <1>1, <1>2, <1>3, <1>4, FinishedAppend DEF FinRids, Places
<1>6. TypeOK'
  BY <1>0, <1>1, <1>5 DEF TypeOK, Output
<1>7. Loop'
  BY <1>1 DEF Loop
<1>8. Places'
  BY <1>1, <1>3, <1>5 DEF Places
<1>9. Marks'
  BY <1>1, <1>3 DEF Marks, Over
<1>10. Numbers'
  BY <1>1 DEF Numbers, Counted, Over
<1>11. Streams'
  <2>1. \A p \in Reqs : Sent(p)'
    <3>. SUFFICES ASSUME NEW p \in Reqs PROVE Sent(p)'
      OBVIOUS
    <3>1. Sent(p)
      BY DEF Streams
    <3>2. stream[p].reason # None => p # r
      BY <1>3, <3>1 DEF Sent
    <3>3. p # r => (p \notin Early \cup Charged \cup FinRids
                      => p \notin (Early \cup Charged \cup FinRids)')
      BY <1>3, <1>5
    <3>. QED BY <1>1, <3>1, <3>2, <3>3 DEF Sent
  <2>2. \A p \in (Early \cup (Reqs \ sent["request"]))' : stream'[p].tokens = <<>>
    BY <1>1, <1>3 DEF Streams
  <2>3. \A i \in DOMAIN finished' :
          LET q == req'[finished'[i].rid] IN
          /\ finished'[i].from = q.read_offset /\ finished'[i].to = q.outputs
          /\ finished'[i].reason = q.reason /\ q.reason # None
    <3>. SUFFICES ASSUME NEW i \in DOMAIN finished'
                  PROVE  LET q == req'[finished'[i].rid] IN
                         /\ finished'[i].from = q.read_offset /\ finished'[i].to = q.outputs
                         /\ finished'[i].reason = q.reason /\ q.reason # None
      OBVIOUS
    <3>1. CASE finished'[i] = out
      BY <1>1, <1>2, <3>1 DEF Over
    <3>2. CASE i \in DOMAIN finished /\ finished'[i] = finished[i]
      BY <1>1, <3>2 DEF Streams
    <3>. QED BY <1>5, <3>1, <3>2
  <2>. QED BY <2>1, <2>2, <2>3 DEF Streams
<1>. QED BY <1>6, <1>7, <1>8, <1>9, <1>10, <1>11

\* Deliver() continues a stream where it stopped.
LEMMA DeliverContinues ==
  ASSUME NEW r \in Reqs, NEW n \in Nat, NEW from \in Nat, from <= n,
         NEW reason \in Reasons,
         stream \in [Reqs -> [tokens : Seq(Nat), reason : Reasons]],
         stream[r].tokens = [i \in 1..Len(stream[r].tokens) |-> i],
         Len(stream[r].tokens) = from,
         Deliver(r, from, n, reason)
  PROVE  /\ stream' \in [Reqs -> [tokens : Seq(Nat), reason : Reasons]]
         /\ \A p \in Reqs : p # r => stream'[p] = stream[p]
         /\ stream'[r].tokens = [i \in 1..n |-> i] /\ Len(stream'[r].tokens) = n
         /\ stream'[r].reason = reason
<1>. DEFINE s == stream[r].tokens
            t == [i \in 1..(n - from) |-> from + i]
<1>1. s \in Seq(Nat) /\ s = [i \in 1..from |-> i] /\ Len(s) = from
  OBVIOUS
<1>2. t \in Seq(Nat) /\ Len(t) = n - from /\ \A i \in 1..(n - from) : t[i] = from + i
  OBVIOUS
<1>3. stream' = [stream EXCEPT ![r] = [tokens |-> s \o t, reason |-> reason]]
  BY DEF Deliver
<1>. HIDE DEF s, t
<1>4. /\ s \o t \in Seq(Nat) /\ Len(s \o t) = n /\ DOMAIN (s \o t) = 1..n
      /\ \A i \in 1..n : (s \o t)[i] = IF i <= from THEN s[i] ELSE t[i - from]
  BY <1>1, <1>2
<1>5. \A i \in 1..n : (s \o t)[i] = i
  <2>. SUFFICES ASSUME NEW i \in 1..n PROVE (s \o t)[i] = i
    OBVIOUS
  <2>1. CASE i <= from
    BY <1>1, <1>4, <2>1
  <2>2. CASE ~(i <= from)
    BY <1>2, <1>4, <2>2
  <2>. QED BY <2>1, <2>2
<1>6. s \o t = [i \in 1..n |-> i]
  <2>1. \A u \in Seq(Nat) : u = [i \in 1..Len(u) |-> u[i]]
    OBVIOUS
  <2>. DEFINE u == s \o t
  <2>2. u \in Seq(Nat) /\ Len(u) = n /\ \A i \in 1..n : u[i] = i
    BY <1>4, <1>5
  <2>. HIDE DEF u
  <2>3. u = [i \in 1..n |-> i]
    BY <2>1, <2>2
  <2>. QED BY <2>3 DEF u
<1>. QED BY <1>3, <1>4, <1>6

\* The news of a streaming request are sent.
LEMMA StreamOutPlace == ASSUME PlaceInv, NEW r \in Reqs, StreamOut(r) PROVE PlaceInv'
<1>. USE DEF PlaceInv
<1>1. /\ pc = "stream" /\ r \in running /\ Deliver(r, req[r].read_offset, req[r].outputs, None)
      /\ req' = [req EXCEPT ![r].read_offset = req[r].outputs]
      /\ UNCHANGED <<sent, socket, pc, queues, scan, budget, batch, todo, result,
                     used_tokens, runner, dropped>>
  BY DEF StreamOut, OffsetAfter
<1>2. UNCHANGED <<Early, FinRids, Charged>> /\ r \in Charged
  BY <1>1 DEF Early, FinRids, Charged, queues
<1>3. /\ req[r] \in ReqRecord /\ req[r].read_offset \in Nat /\ req[r].outputs \in Nat
      /\ req[r].read_offset <= req[r].outputs
  <2>1. req[r] \in ReqRecord /\ Counted(r)
    BY DEF Loop, Numbers
  <2>. QED BY <2>1 DEF ReqRecord, Counted
<1>4. /\ stream[r].reason = None /\ Len(stream[r].tokens) = req[r].read_offset
      /\ stream[r].tokens = [i \in 1..Len(stream[r].tokens) |-> i]
  <2>1. Sent(r)
    BY DEF Streams
  <2>. QED BY <1>2, <2>1 DEF Sent
<1>5. /\ stream' \in [Reqs -> [tokens : Seq(Nat), reason : Reasons]]
      /\ \A p \in Reqs : p # r => stream'[p] = stream[p]
      /\ stream'[r].tokens = [i \in 1..req[r].outputs |-> i]
      /\ Len(stream'[r].tokens) = req[r].outputs /\ stream'[r].reason = None
  <2>1. stream \in [Reqs -> [tokens : Seq(Nat), reason : Reasons]] /\ None \in Reasons
    BY DEF TypeOK, Reasons
  <2>. DEFINE n == req[r].outputs
              from == req[r].read_offset
  <2>2. /\ n \in Nat /\ from \in Nat /\ from <= n /\ Len(stream[r].tokens) = from
        /\ Deliver(r, from, n, None)
    BY <1>1, <1>3, <1>4
  <2>. HIDE DEF n, from
  <2>3. /\ stream' \in [Reqs -> [tokens : Seq(Nat), reason : Reasons]]
        /\ \A p \in Reqs : p # r => stream'[p] = stream[p]
        /\ stream'[r].tokens = [i \in 1..n |-> i] /\ Len(stream'[r].tokens) = n
        /\ stream'[r].reason = None
    BY <1>4, <2>1, <2>2, DeliverContinues
  <2>. QED BY <2>3 DEF n
<1>6. /\ req' \in [Reqs -> ReqRecord]
      /\ \A p \in Reqs : p # r => req'[p] = req[p]
      /\ \A p \in Reqs : /\ req'[p].seq_len = req[p].seq_len
                         /\ req'[p].prefix_len = req[p].prefix_len
                         /\ req'[p].outputs = req[p].outputs
                         /\ req'[p].reason = req[p].reason
      /\ req'[r].read_offset = req[r].outputs
  BY <1>1, <1>3 DEF Loop, ReqRecord
<1>7. Numbers'
  <2>1. \A p \in Reqs : Counted(p)'
    <3>. SUFFICES ASSUME NEW p \in Reqs PROVE Counted(p)'
      OBVIOUS
    <3>1. Counted(p)
      BY DEF Numbers
    <3>2. req'[p].read_offset <= req'[p].outputs
      <4>1. CASE p = r
        BY <1>3, <1>6, <4>1
      <4>2. CASE p # r
        BY <1>6, <3>1, <4>2 DEF Counted
      <4>. QED BY <4>1, <4>2
    <3>. QED BY <1>6, <3>1, <3>2 DEF Counted, Over
  <2>2. ASSUME NEW p \in Range(pending) PROVE req'[p] = NewReq(p)
    <3>1. p \in Early /\ p \in Reqs
      BY InRange DEF Early, TypeOK
    <3>2. p # r
      BY <1>2, <3>1 DEF Places
    <3>. QED BY <1>6, <3>1, <3>2 DEF Numbers
  <2>. QED BY <1>1, <2>1, <2>2 DEF Numbers, queues
<1>8. TypeOK'
  <2>1. \A p \in Reqs : req'[p] \in ReqType(p)
    <3>. SUFFICES ASSUME NEW p \in Reqs PROVE req'[p] \in ReqType(p)
      OBVIOUS
    <3>1. CASE p # r
      BY <1>6, <3>1 DEF TypeOK
    <3>2. CASE p = r
      <4>1. req'[r] \in ReqRecord /\ req[r] \in ReqType(r)
        BY <1>6 DEF TypeOK
      <4>. QED BY <1>6, <3>2, <4>1 DEF ReqRecord, ReqType
    <3>. QED BY <3>1, <3>2
  <2>. QED BY <1>1, <1>5, <2>1 DEF TypeOK, queues
<1>9. Loop'
  BY <1>1, <1>6 DEF Loop, queues
<1>10. Places'
  BY <1>1, <1>2 DEF Places, queues
<1>11. Marks'
  <2>1. \A p \in Reqs : Over(p)' = Over(p)
    BY <1>6 DEF Over
  <2>2. running \subseteq Reqs /\ batch.reqs \subseteq Reqs /\ todo \subseteq Reqs /\ dropped \subseteq Reqs
    BY DEF TypeOK
  <2>. QED BY <1>1, <1>2, <2>1, <2>2 DEF Marks, queues
<1>12. Streams'
  <2>1. \A p \in Reqs : Sent(p)'
    <3>. SUFFICES ASSUME NEW p \in Reqs PROVE Sent(p)'
      OBVIOUS
    <3>1. CASE p = r
      BY <1>5, <1>6, <3>1 DEF Sent
    <3>2. CASE p # r
      <4>1. Sent(p) /\ req'[p] = req[p] /\ stream'[p] = stream[p]
        BY <1>5, <1>6, <3>2 DEF Streams
      <4>. QED BY <1>1, <1>2, <4>1 DEF Sent
    <3>. QED BY <3>1, <3>2
  <2>2. \A p \in (Early \cup (Reqs \ sent["request"]))' : stream'[p].tokens = <<>>
    <3>. SUFFICES ASSUME NEW p \in Early \cup (Reqs \ sent["request"]) PROVE stream'[p].tokens = <<>>
      BY <1>1, <1>2
    <3>1. p # r
      BY <1>2 DEF Places
    <3>2. p \in Reqs
      BY DEF Places, TypeOK
    <3>. QED BY <1>5, <3>1, <3>2 DEF Streams
  <2>3. \A i \in DOMAIN finished :
          finished[i].rid # r /\ finished[i].rid \in Reqs
    <3>. SUFFICES ASSUME NEW i \in DOMAIN finished
                  PROVE  finished[i].rid # r /\ finished[i].rid \in Reqs
      OBVIOUS
    <3>1. finished[i].rid \in FinRids
      BY DEF FinRids, RidsOf
    <3>2. finished[i] \in Output
      <4>1. finished \in Seq(Output)
        BY DEF TypeOK, Output
      <4>. QED BY <4>1
    <3>. QED BY <1>2, <3>1, <3>2 DEF Places, Output
  <2>4. \A i \in DOMAIN finished : req'[finished[i].rid] = req[finished[i].rid]
    BY <1>6, <2>3
  <2>5. \A i \in DOMAIN finished' :
          LET q == req'[finished'[i].rid] IN
          /\ finished'[i].from = q.read_offset /\ finished'[i].to = q.outputs
          /\ finished'[i].reason = q.reason /\ q.reason # None
    <3>1. finished' = finished
      BY <1>1 DEF queues
    <3>. QED BY <2>4, <3>1 DEF Streams
  <2>. QED BY <2>1, <2>2, <2>5 DEF Streams
<1>. QED BY <1>7, <1>8, <1>9, <1>10, <1>11, <1>12

\* The oldest finished output is the whole rest of its request.
LEMMA SendFinishedPlace ==
  ASSUME PlaceInv, SendFinished
  PROVE  /\ PlaceInv'
         /\ Head(finished).rid \in FinRids
         /\ \A p \in Reqs : p # Head(finished).rid => stream'[p] = stream[p]
<1>. USE DEF PlaceInv
<1>. DEFINE out == Head(finished)
            r == out.rid
<1>1. /\ pc = "stream" /\ finished # <<>> /\ Deliver(r, out.from, out.to, out.reason)
      /\ finished' = Tail(finished)
      /\ UNCHANGED <<sent, socket, pc, waiting, pending, running, scan, budget,
                     batch, todo, result, req, used_tokens, runner, dropped>>
  BY DEF SendFinished
<1>2. finished \in Seq(Output)
  BY DEF TypeOK, Output
<1>3. /\ finished' \in Seq(Output) /\ out \in Output
      /\ FinRids = FinRids' \cup {r} /\ RidsOnce(finished)' /\ r \notin FinRids'
      /\ \A i \in DOMAIN finished' : i + 1 \in DOMAIN finished /\ finished'[i] = finished[i + 1]
      /\ 1 \in DOMAIN finished /\ out = finished[1]
  <2>1. RidsOnce(finished)
    BY DEF Places
  <2>. QED BY <1>1, <1>2, <2>1, FinishedTail DEF FinRids
<1>4. /\ out.from = req[r].read_offset /\ out.to = req[r].outputs
      /\ out.reason = req[r].reason /\ req[r].reason # None
  BY <1>3 DEF Streams
<1>5. r \in Reqs /\ out.reason \in Reasons
  BY <1>3 DEF Output
<1>. HIDE DEF out, r
<1>6. UNCHANGED <<Early, Charged>>
  BY <1>1 DEF Early, Charged
<1>7. /\ req[r] \in ReqRecord /\ req[r].read_offset \in Nat /\ req[r].outputs \in Nat
      /\ req[r].read_offset <= req[r].outputs
  <2>1. req[r] \in ReqRecord /\ Counted(r)
    BY <1>5 DEF Loop, Numbers
  <2>. QED BY <2>1 DEF ReqRecord, Counted
<1>8. /\ stream[r].reason = None /\ Len(stream[r].tokens) = req[r].read_offset
      /\ stream[r].tokens = [i \in 1..Len(stream[r].tokens) |-> i]
  <2>1. Sent(r) /\ r \in FinRids
    BY <1>3, <1>5 DEF Streams
  <2>. QED BY <2>1 DEF Sent
<1>9. /\ stream' \in [Reqs -> [tokens : Seq(Nat), reason : Reasons]]
      /\ \A p \in Reqs : p # r => stream'[p] = stream[p]
      /\ stream'[r].tokens = [i \in 1..req[r].outputs |-> i]
      /\ Len(stream'[r].tokens) = req[r].outputs /\ stream'[r].reason = req[r].reason
  <2>1. stream \in [Reqs -> [tokens : Seq(Nat), reason : Reasons]]
    BY DEF TypeOK
  <2>. DEFINE n == req[r].outputs
              from == req[r].read_offset
              why == req[r].reason
  <2>2. /\ n \in Nat /\ from \in Nat /\ from <= n /\ Len(stream[r].tokens) = from
        /\ Deliver(r, from, n, why) /\ why \in Reasons /\ r \in Reqs
        /\ stream[r].tokens = [i \in 1..Len(stream[r].tokens) |-> i]
    BY <1>1, <1>4, <1>5, <1>7, <1>8
  <2>. HIDE DEF n, from, why
  <2>3. /\ stream' \in [Reqs -> [tokens : Seq(Nat), reason : Reasons]]
        /\ \A p \in Reqs : p # r => stream'[p] = stream[p]
        /\ stream'[r].tokens = [i \in 1..n |-> i] /\ Len(stream'[r].tokens) = n
        /\ stream'[r].reason = why
    BY <2>1, <2>2, DeliverContinues
  <2>. QED BY <2>3 DEF n, why
<1>10. TypeOK'
  BY <1>1, <1>3, <1>9 DEF TypeOK, Output
<1>11. Loop'
  BY <1>1 DEF Loop
<1>12. Places'
  BY <1>1, <1>3, <1>6 DEF Places
<1>13. Marks'
  BY <1>1, <1>6 DEF Marks, Over
<1>14. Numbers'
  BY <1>1 DEF Numbers, Counted, Over
<1>15. r \in FinRids /\ r \notin Early /\ r \notin Charged /\ r \in sent["request"]
  BY <1>3 DEF Places
<1>16. Streams'
  <2>1. \A p \in Reqs : Sent(p)'
    <3>. SUFFICES ASSUME NEW p \in Reqs PROVE Sent(p)'
      OBVIOUS
    <3>1. CASE p = r
      <4>1. stream'[r].tokens = [i \in 1..Len(stream'[r].tokens) |-> i]
        BY <1>9
      <4>2. r \notin (Early \cup Charged \cup FinRids)'
        BY <1>3, <1>6, <1>15
      <4>. QED BY <1>1, <1>4, <1>9, <1>15, <3>1, <4>1, <4>2 DEF Sent
    <3>2. CASE p # r
      <4>1. Sent(p) /\ stream'[p] = stream[p]
        BY <1>9, <3>2 DEF Streams
      <4>2. p \notin FinRids => p \notin FinRids'
        BY <1>3
      <4>. QED BY <1>1, <1>6, <4>1, <4>2 DEF Sent
    <3>. QED BY <3>1, <3>2
  <2>2. \A p \in (Early \cup (Reqs \ sent["request"]))' : stream'[p].tokens = <<>>
    <3>. SUFFICES ASSUME NEW p \in Early \cup (Reqs \ sent["request"]) PROVE stream'[p].tokens = <<>>
      BY <1>1, <1>6
    <3>1. p # r
      BY <1>15
    <3>2. p \in Reqs
      BY DEF Places, TypeOK
    <3>. QED BY <1>9, <3>1, <3>2 DEF Streams
  <2>3. \A i \in DOMAIN finished' :
          LET q == req'[finished'[i].rid] IN
          /\ finished'[i].from = q.read_offset /\ finished'[i].to = q.outputs
          /\ finished'[i].reason = q.reason /\ q.reason # None
    BY <1>1, <1>3 DEF Streams
  <2>. QED BY <2>1, <2>2, <2>3 DEF Streams
<1>. QED BY <1>9, <1>10, <1>11, <1>12, <1>13, <1>14, <1>15, <1>16 DEF r, out

\* Every step keeps each request at its place.
LEMMA NextPlace == PlaceInv /\ [Next]_vars => PlaceInv'
<1>. SUFFICES ASSUME PlaceInv, [Next]_vars PROVE PlaceInv'
  OBVIOUS
<1>1. CASE \E kind \in {"request", "abort"}, r \in Reqs : Send(kind, r)
  BY <1>1, SendPlace
<1>2. CASE Receive
  BY <1>2, RecvRequestPlace, RecvAbortPlace, RecvNothingPlace, InputPlace DEF Receive
<1>3. CASE get_next_batch_to_run
  BY <1>3, FilterPlace, FilterDonePlace, AdmitPlace, SkipPlace, BuildBatchPlace
  DEF get_next_batch_to_run
<1>4. CASE RunBatch \/ ForwardRaises
  BY <1>4, RunBatchPlace, ForwardRaisesPlace
<1>5. CASE process_batch_result
  BY <1>5, TakeResultPlace, FinishPlace, RunOnPlace, ResultsTakenPlace, RoutedPlace
  DEF process_batch_result
<1>6. CASE stream_output
  BY <1>6, StreamOutPlace, SendFinishedPlace, LoopAgainPlace DEF stream_output
<1>7. CASE UNCHANGED vars
  BY <1>7, StutterPlace
<1>. QED BY <1>1, <1>2, <1>3, <1>4, <1>5, <1>6, <1>7 DEF Next, event_loop

\* The whole state of the scheduler stays well-typed; in particular no request
\* gets more output tokens than max_new_tokens allows.
THEOREM TypeAlwaysOK == Spec => []TypeOK
<1>1. PlaceInv => TypeOK
  BY DEF PlaceInv
<1>. QED BY InitPlace, NextPlace, <1>1, PTL DEF Spec

\* stream_output(): downstream every request is the sequence of its tokens, each
\* once and in order, and its final output completes it.
THEOREM AlwaysStreamedInOrder == Spec => []StreamedInOrder
<1>1. PlaceInv => StreamedInOrder
  BY DEF PlaceInv, Streams, Sent, StreamedInOrder
<1>. QED BY InitPlace, NextPlace, <1>1, PTL DEF Spec

\* Nothing is streamed for a request whose abort found it, or after its final
\* output.
THEOREM AlwaysSilentAtEnd == Spec => SilentAtEnd
<1>. DEFINE Silent == \A r \in Reqs : r \in dropped \/ stream[r].reason # None
                                        => stream'[r] = stream[r]
<1>1. ASSUME PlaceInv, Next PROVE Silent
  <2>1. CASE UNCHANGED stream
    BY <2>1
  <2>2. CASE SendFinished
    <3>. SUFFICES ASSUME NEW r \in Reqs, r = Head(finished).rid,
                         r \in dropped \/ stream[r].reason # None
                  PROVE  FALSE
      BY <1>1, <2>2, SendFinishedPlace
    <3>1. r \in FinRids /\ Sent(r)
      BY <1>1, <2>2, SendFinishedPlace DEF PlaceInv, Streams
    <3>. QED BY <1>1, <3>1 DEF PlaceInv, Places, Sent
  <2>3. ASSUME NEW r \in Reqs, StreamOut(r) PROVE Silent
    <3>1. /\ r \in Charged /\ pc = "stream" /\ Sent(r)
          /\ \A p \in Reqs : p # r => stream'[p] = stream[p]
      BY <1>1, <2>3 DEF StreamOut, Deliver, Charged, PlaceInv, Streams, TypeOK
    <3>2. r \notin dropped /\ stream[r].reason = None
      BY <1>1, <3>1 DEF PlaceInv, Marks, Sent
    <3>. QED BY <3>1, <3>2
  <2>4. UNCHANGED stream \/ SendFinished \/ \E r \in Reqs : StreamOut(r)
    BY <1>1 DEF Next, event_loop, Send, Receive, RecvRequest, RecvAbort, RecvNothing,
      process_input_requests, get_next_batch_to_run, Filter, FilterDone, Admit, Skip,
      BuildBatch, RunBatch, ForwardRaises, process_batch_result, TakeResult, Finish,
      RunOn, ResultsTaken, Routed, stream_output, LoopAgain
  <2>. QED BY <2>1, <2>2, <2>3, <2>4
<1>2. PlaceInv /\ [Next]_vars => [Silent]_vars
  BY <1>1
<1>. QED BY InitPlace, NextPlace, <1>2, PTL DEF Spec, SilentAtEnd

-----------------------------------------------------------------------------
(***************************************************************************)
(* The budget is a sum over the charged requests: what is reserved, given  *)
(* back, charged and released is followed one request at a time.           *)
(***************************************************************************)
\* The sum that BudgetExact is about.
Charges == [r \in Reqs |-> Charge(r)]

\* A charge is never negative, since the cached prefix is part of the prompt.
LEMMA ChargesNat == PlaceInv => Charges \in [Reqs -> Nat]
<1>. SUFFICES ASSUME PlaceInv, NEW r \in Reqs PROVE Charge(r) \in Nat
  BY DEF Charges
<1>1. req[r] \in ReqRecord /\ Counted(r) /\ InputLen[r] \in Nat
  BY RequestsAssumption DEF PlaceInv, Loop, Numbers, RequestsAssumption
<1>. QED BY <1>1 DEF ReqRecord, Counted, Charge

\* Only finitely many requests are charged.
LEMMA ChargedFinite ==
  ASSUME PlaceInv, LiveInv PROVE IsFiniteSet(Charged) /\ Charged \subseteq Reqs
<1>1. IsFiniteSet(running) /\ IsFiniteSet(batch.reqs) /\ todo \subseteq batch.reqs
  BY DEF LiveInv, Phases
<1>2. IsFiniteSet(todo)
  BY <1>1, FS_Subset
<1>3. IsFiniteSet(running \cup todo) /\ IsFiniteSet(running \cup batch.reqs)
  BY <1>1, <1>2, FS_Union
<1>4. running \subseteq Reqs /\ batch.reqs \subseteq Reqs
  BY DEF PlaceInv, TypeOK
<1>. QED BY <1>1, <1>3, <1>4 DEF Charged

\* A step that charges nothing keeps the budget.
LEMMA BudgetKept ==
  ASSUME PlaceInv, LiveInv, PlaceInv', BudgetExact,
         used_tokens' = used_tokens, Charged' = Charged,
         \A p \in Charged : /\ req'[p].seq_len = req[p].seq_len
                            /\ req'[p].prefix_len = req[p].prefix_len
  PROVE  BudgetExact'
<1>1. IsFiniteSet(Charged) /\ Charged \subseteq Reqs
  BY ChargedFinite
<1>2. \A p \in Charged : Charges[p] = Charges'[p]
  BY <1>1 DEF Charges, Charge
<1>3. SumFunctionOnSet(Charges, Charged) = SumFunctionOnSet(Charges', Charged)
  BY <1>1, <1>2, SumCong
<1>. QED BY <1>3 DEF BudgetExact, Charges

\* The charge of one request is part of the budget.
LEMMA BudgetSplit ==
  ASSUME PlaceInv, LiveInv, BudgetExact, NEW r \in Charged
  PROVE  /\ used_tokens = Charge(r) + SumFunctionOnSet(Charges, Charged \ {r})
         /\ SumFunctionOnSet(Charges, Charged \ {r}) \in Nat
         /\ Charge(r) \in Nat
<1>1. IsFiniteSet(Charged) /\ Charged \subseteq Reqs
  BY ChargedFinite
<1>2. IsFiniteSet(Charged \ {r}) /\ Charged \ {r} \subseteq Reqs
  BY <1>1, FS_RemoveElement
<1>3. Charges \in [Reqs -> Nat] /\ Charges \in [Reqs -> Int]
  BY ChargesNat
<1>4. SumFunctionOnSet(Charges, Charged \ {r}) \in Nat
  BY <1>2, <1>3, SumNat
<1>5. SumFunctionOnSet(Charges, Charged) = Charges[r] + SumFunctionOnSet(Charges, Charged \ {r})
  BY <1>1, <1>3, SumRemove
<1>6. Charges[r] = Charge(r) /\ Charges[r] \in Nat
  BY <1>1, <1>3 DEF Charges
<1>. QED BY <1>4, <1>5, <1>6 DEF BudgetExact, Charges

\* A request is released: no cut-off at zero takes place.
LEMMA BudgetReleased ==
  ASSUME PlaceInv, LiveInv, BudgetExact, NEW r \in Charged,
         used_tokens' = AtLeastZero(used_tokens - Charge(r)),
         Charged' = Charged \ {r}, req' = req
  PROVE  BudgetExact'
<1>1. used_tokens' = SumFunctionOnSet(Charges, Charged \ {r})
  BY BudgetSplit DEF AtLeastZero
<1>2. Charges' = Charges
  BY DEF Charges, Charge
<1>. QED BY <1>1, <1>2 DEF BudgetExact, Charges

\* A request is admitted: its prompt is reserved.
LEMMA BudgetAdmit ==
  ASSUME PlaceInv, LiveInv, BudgetExact, Admit PROVE BudgetExact'
<1>. DEFINE r == pending[scan + 1]
<1>1. /\ used_tokens' = used_tokens + InputLen[r] /\ pc = "admit" /\ scan < Len(pending)
      /\ batch' = [mode |-> "none", reqs |-> batch.reqs \cup {r}]
      /\ UNCHANGED <<running, pc, req>>
  BY DEF Admit
<1>2. r \in Reqs /\ r \in Range(pending)
  <2>1. pending \in Seq(Reqs) /\ scan + 1 \in 1..Len(pending)
    BY <1>1 DEF PlaceInv, TypeOK
  <2>. QED BY <2>1, InRange
<1>. HIDE DEF r
<1>3. Charged' = Charged \cup {r} /\ r \notin Charged
  BY <1>1, <1>2 DEF Charged, PlaceInv, Places, Early
<1>4. Charges[r] = InputLen[r] /\ InputLen[r] \in Nat
  <2>1. req[r] = NewReq(r) /\ InputLen[r] \in Nat
    BY <1>2, RequestsAssumption DEF PlaceInv, Numbers, RequestsAssumption
  <2>. QED BY <1>2, <2>1 DEF Charges, Charge, NewReq
<1>5. IsFiniteSet(Charged) /\ Charged \subseteq Reqs /\ Charges \in [Reqs -> Int]
  BY ChargedFinite, ChargesNat
<1>6. SumFunctionOnSet(Charges, Charged \cup {r}) = Charges[r] + SumFunctionOnSet(Charges, Charged)
  BY <1>2, <1>3, <1>5, SumAdd
<1>7. Charges' = Charges
  BY <1>1 DEF Charges, Charge
<1>8. used_tokens = SumFunctionOnSet(Charges, Charged) /\ used_tokens \in Nat
  BY DEF BudgetExact, Charges, PlaceInv, TypeOK
<1>. QED BY <1>1, <1>3, <1>4, <1>6, <1>7, <1>8 DEF BudgetExact, Charges

\* A result: the cached prefix is given back and the new token charged.
LEMMA BudgetTakeResult ==
  ASSUME PlaceInv, LiveInv, BudgetExact, NEW r \in Reqs, TakeResult(r), PlaceInv'
  PROVE  BudgetExact'
<1>. DEFINE saved == AtLeastZero(result[r].prefix_len - req[r].prefix_len)
            rest == SumFunctionOnSet(Charges, Charged \ {r})
<1>1. /\ pc = "result" /\ r \in todo /\ UNCHANGED <<pc, running, batch>>
  BY DEF TakeResult, queues
<1>2. /\ r \in batch.reqs /\ result[r].prefix_len \in 0..InputLen[r]
      /\ \A p \in Reqs : p # r => req'[p] = req[p]
      /\ req'[r].seq_len = req[r].seq_len + 1
      /\ req'[r].prefix_len = req[r].prefix_len + saved
      /\ used_tokens' = AtLeastZero(used_tokens - saved) + 1
  BY ResultApplied
<1>3. Charged' = Charged /\ r \in Charged
  BY <1>1, <1>2 DEF Charged
<1>4. /\ used_tokens = Charge(r) + rest /\ rest \in Nat /\ Charge(r) \in Nat
  BY <1>3, BudgetSplit
<1>5. /\ Counted(r) /\ req[r].prefix_len \in Nat /\ req[r].outputs \in Nat
      /\ InputLen[r] \in Nat /\ req[r].seq_len \in Nat
  <2>1. req[r] \in ReqRecord /\ Counted(r) /\ InputLen[r] \in Nat
    BY RequestsAssumption DEF PlaceInv, Loop, Numbers, RequestsAssumption
  <2>. QED BY <2>1 DEF ReqRecord
<1>6. saved \in Nat /\ saved <= Charge(r)
  BY <1>2, <1>5 DEF AtLeastZero, Charge, Counted
<1>. HIDE DEF saved, rest
<1>7. used_tokens' = Charge(r)' + rest
  <2>1. Charge(r)' = Charge(r) + 1 - saved
    BY <1>2, <1>5, <1>6 DEF Charge
  <2>2. AtLeastZero(used_tokens - saved) = used_tokens - saved
    BY <1>4, <1>6 DEF AtLeastZero
  <2>. QED BY <1>2, <1>4, <1>6, <2>1, <2>2
<1>8. IsFiniteSet(Charged) /\ Charged \subseteq Reqs
  BY ChargedFinite
<1>9. SumFunctionOnSet(Charges', Charged \ {r}) = rest
  <2>1. IsFiniteSet(Charged \ {r})
    BY <1>8, FS_RemoveElement
  <2>2. \A p \in Charged \ {r} : Charges[p] = Charges'[p]
    BY <1>2, <1>8 DEF Charges, Charge
  <2>. QED BY <2>1, <2>2, SumCong DEF rest
<1>10. SumFunctionOnSet(Charges', Charged) = Charges'[r] + SumFunctionOnSet(Charges', Charged \ {r})
  <2>1. (PlaceInv => Charges \in [Reqs -> Nat])'
    BY ChargesNat, PTL
  <2>2. Charges' \in [Reqs -> Nat]
    BY <2>1
  <2>3. Charges' \in [Reqs -> Int]
    BY <2>2
  <2>. QED BY <1>3, <1>8, <2>3, SumRemove
<1>11. Charges'[r] = Charge(r)'
  BY DEF Charges
<1>. QED BY <1>3, <1>7, <1>9, <1>10, <1>11 DEF BudgetExact, Charges

\* The other steps charge nothing.
LEMMA BudgetOthers ==
  ASSUME PlaceInv, LiveInv, BudgetExact, PlaceInv',
         \/ \E kind \in {"request", "abort"}, r \in Reqs : Send(kind, r)
         \/ Receive \/ FilterDone \/ Skip \/ BuildBatch \/ RunBatch \/ ForwardRaises
         \/ \E r \in Reqs : RunOn(r)
         \/ ResultsTaken \/ Routed \/ stream_output \/ UNCHANGED vars
  PROVE  BudgetExact'
<1>0. /\ Charged \subseteq Reqs /\ req \in [Reqs -> ReqRecord]
      /\ Charged \cap Early = {}
      /\ Loop
  BY ChargedFinite DEF PlaceInv, Loop, Places
<1>1. ASSUME UNCHANGED <<used_tokens, req>>, Charged' = Charged PROVE BudgetExact'
  BY <1>1, BudgetKept
<1>2. CASE (\E kind \in {"request", "abort"}, r \in Reqs : Send(kind, r)) \/ UNCHANGED vars
            \/ RecvRequest \/ RecvNothing \/ Skip \/ ForwardRaises \/ SendFinished \/ LoopAgain
  <2>1. /\ UNCHANGED <<used_tokens, req, running, batch, todo>>
        /\ (pc' = pc \/ (pc # "route" /\ pc' # "route"))
    BY <1>2 DEF Send, vars, queues, RecvRequest, RecvNothing, Skip, ForwardRaises,
                SendFinished, LoopAgain
  <2>2. Charged' = Charged
    BY <2>1 DEF Charged
  <2>. QED BY <1>1, <2>1, <2>2
<1>3. CASE FilterDone \/ Routed \/ ResultsTaken
  <2>1. UNCHANGED <<used_tokens, req, running>>
    BY <1>3 DEF FilterDone, Routed, ResultsTaken, queues
  <2>2. Charged' = Charged
    BY <1>0, <1>3 DEF FilterDone, Routed, ResultsTaken, queues, NoBatch, Charged, Loop
  <2>. QED BY <1>1, <2>1, <2>2
<1>4. CASE BuildBatch
  <2>1. UNCHANGED <<used_tokens, req, running, todo>> /\ pc = "admit" /\ pc' # "route"
    BY <1>4 DEF BuildBatch, queues
  <2>2. batch'.reqs = batch.reqs \/ (batch.reqs = {} /\ batch'.reqs = running)
    BY <1>4 DEF BuildBatch, NoBatch
  <2>3. Charged' = Charged
    BY <2>1, <2>2 DEF Charged
  <2>. QED BY <1>1, <2>1, <2>3
<1>5. CASE RunBatch
  <2>1. UNCHANGED <<used_tokens, req, running, batch>> /\ pc = "run" /\ pc' = "result"
    BY <1>5 DEF RunBatch, queues
  <2>2. Charged' = Charged
    BY <2>1 DEF Charged
  <2>. QED BY <1>1, <2>1, <2>2
<1>6. ASSUME NEW r \in Reqs, RunOn(r) PROVE BudgetExact'
  <2>1. UNCHANGED <<used_tokens, req>> /\ Charged' = Charged
    BY <1>6 DEF RunOn, Charged
  <2>. QED BY <1>1, <2>1
<1>7. CASE process_input_requests
  <2>1. used_tokens' = used_tokens /\ Charged' = Charged
    BY <1>7 DEF process_input_requests, Charged
  <2>2. \A p \in Charged : req'[p] = req[p]
    BY <1>0, <1>7 DEF process_input_requests, Early
  <2>. QED BY <2>1, <2>2, BudgetKept
<1>8. CASE RecvAbort
  <2>1. used_tokens' = used_tokens /\ Charged' = Charged
    BY <1>8 DEF RecvAbort, Charged
  <2>2. \/ req' = req
        \/ \E r \in running : req' = [req EXCEPT ![r].reason = "abort"]
    BY <1>8 DEF RecvAbort, AbortRequest
  <2>3. running \subseteq Reqs
    BY DEF PlaceInv, TypeOK
  <2>4. \A p \in Reqs : /\ req'[p].seq_len = req[p].seq_len
                        /\ req'[p].prefix_len = req[p].prefix_len
    BY <1>0, <2>2, <2>3 DEF ReqRecord
  <2>. QED BY <1>0, <2>1, <2>4, BudgetKept
<1>9. ASSUME NEW r \in Reqs, StreamOut(r) PROVE BudgetExact'
  <2>1. used_tokens' = used_tokens /\ Charged' = Charged
    BY <1>9 DEF StreamOut, queues, Charged
  <2>2. req' = [req EXCEPT ![r].read_offset = req[r].outputs]
    BY <1>9 DEF StreamOut, OffsetAfter
  <2>3. \A p \in Reqs : /\ req'[p].seq_len = req[p].seq_len
                        /\ req'[p].prefix_len = req[p].prefix_len
    BY <1>0, <2>2 DEF ReqRecord
  <2>. QED BY <1>0, <2>1, <2>3, BudgetKept
<1>. QED BY <1>2, <1>3, <1>4, <1>5, <1>6, <1>7, <1>8, <1>9 DEF Receive, stream_output

\* What is proved inductive last.
BudgetInv == LiveInv /\ PlaceInv /\ BudgetExact

\* Every step keeps the budget exact.
LEMMA NextBudget == BudgetInv /\ [Next]_vars => BudgetInv'
<1>. SUFFICES ASSUME LiveInv, PlaceInv, BudgetExact, [Next]_vars PROVE BudgetExact'
  BY NextLive, NextPlace DEF BudgetInv
<1>1. PlaceInv' /\ LiveInv'
  BY NextLive, NextPlace
<1>2. ASSUME NEW r \in Reqs, Filter(r) PROVE BudgetExact'
  <2>1. r \in Charged /\ Charged' = Charged \ {r} /\ req' = req
    BY <1>2 DEF Filter, Charged, PlaceInv, Loop
  <2>. QED BY <1>2, <2>1, BudgetReleased DEF Filter, FreeResources
<1>3. ASSUME NEW r \in Reqs, Finish(r) PROVE BudgetExact'
  <2>1. r \in Charged /\ Charged' = Charged \ {r} /\ req' = req
    BY <1>3 DEF Finish, Charged
  <2>. QED BY <1>3, <2>1, BudgetReleased DEF Finish, FreeResources
<1>4. CASE Admit
  BY <1>4, BudgetAdmit
<1>5. ASSUME NEW r \in Reqs, TakeResult(r) PROVE BudgetExact'
  BY <1>1, <1>5, BudgetTakeResult
<1>. QED BY <1>1, <1>2, <1>3, <1>4, <1>5, BudgetOthers
  DEF Next, event_loop, get_next_batch_to_run, process_batch_result

\* used_tokens is exactly what the live requests hold of the budget, whatever is
\* admitted, cached, generated, aborted or finished.
THEOREM BudgetAlwaysExact == Spec => []BudgetExact
<1>1. Init => BudgetInv
  <2>. SUFFICES ASSUME Init PROVE BudgetExact
    BY InitLive, InitPlace DEF BudgetInv
  <2>1. Charged = {} /\ used_tokens = 0
    BY DEF Init, Charged, NoBatch
  <2>. QED BY <2>1, SumEmpty DEF BudgetExact
<1>2. BudgetInv => BudgetExact
  BY DEF BudgetInv
<1>. QED BY <1>1, <1>2, NextBudget, PTL DEF Spec

=============================================================================
