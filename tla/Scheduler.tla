----------------------------- MODULE Scheduler -----------------------------
(***************************************************************************)
(* SchedulerProcess (pymllm/orchestrator/scheduler_process.py): the loop   *)
(* that receives requests, admits them under three limits, runs one batch, *)
(* accounts for its tokens and streams them out. The loop is one thread:   *)
(* pc is the place in event_loop(), and every loop over requests takes one *)
(* action per request; batch and running are sets, so the order in which   *)
(* such a loop visits them is left open (that of pending is not). Only the *)
(* socket changes under the thread.                                        *)
(*                                                                         *)
(* The model runner is a call: it reports how much of a prompt it found in *)
(* its prefix cache and one new token, and it keeps state for a request    *)
(* until told to free it. ForwardRaises is any exception of that call,     *)
(* such as the RuntimeError for an exhausted KV pool: nothing catches it,  *)
(* and the process dies.                                                   *)
(***************************************************************************)
EXTENDS Integers, Sequences, FiniteSets, SequencesExt, FiniteSetsExt

CONSTANTS
  Reqs,                  \* request ids, each sent once (RIDs are fresh uuids)
  InputLen,              \* InputLen[r]: prompt tokens
  MaxNewTokens,          \* MaxNewTokens[r]: sampling parameter of r
  Streaming,             \* requests with stream=True
  max_running_requests,
  max_prefill_tokens,
  max_total_tokens

ASSUME LimitsAssumption ==
  /\ max_running_requests \in Nat \ {0}
  /\ max_prefill_tokens \in Nat \ {0}
  /\ max_total_tokens \in Nat \ {0}
ASSUME RequestsAssumption ==
  /\ InputLen \in [Reqs -> Nat \ {0}]
  /\ MaxNewTokens \in [Reqs -> Nat]
  /\ Streaming \subseteq Reqs

None == "none"
Reasons == {None, "eos", "length", "abort"}

VARIABLES
  sent,      \* sent[k]: the rids whose message of kind k is on its way
  socket,    \* messages from the tokenizer, oldest first
  pc,        \* the step of event_loop(), or "dead"
  waiting,   \* _waiting_queue
  pending,   \* _pending_queue
  running,   \* _running_batch
  scan,      \* how many of pending the admission loop has skipped
  budget,    \* prefill_token_budget
  batch,     \* the ScheduleBatch: its forward_mode and requests
  todo,      \* the requests of the batch the current loop has yet to visit
  result,    \* what the model runner returned for them
  req,       \* the Req objects
  used_tokens,
  finished,  \* _finished: outputs of finished requests, not sent yet
  runner,    \* the rids the model runner keeps state for
  stream,    \* stream[r]: the token positions and the reason sent downstream
  dropped    \* rids whose abort found them waiting, pending or running

queues == <<waiting, pending, running, finished>>
vars == <<sent, socket, pc, queues, scan, budget, batch, todo, result, req,
          used_tokens, runner, stream, dropped>>

-----------------------------------------------------------------------------
NewReq(r) ==
  [seq_len |-> InputLen[r], prefix_len |-> 0, outputs |-> 0,
   read_offset |-> 0, reason |-> None]

NoBatch == [mode |-> "none", reqs |-> {}]

NoResult == [r \in {} |-> [prefix_len |-> 0, eos |-> FALSE]]

\* The prefix lengths the runner can report: it extends at least two tokens,
\* save for a one-token prompt (_allocate_extend).
PrefixLens(r) == IF InputLen[r] = 1 THEN {0, 1} ELSE 0..(InputLen[r] - 2)

Init ==
  /\ sent = [k \in {"request", "abort"} |-> {}]
  /\ socket = <<>>
  /\ pc = "recv"
  /\ waiting = <<>> /\ pending = <<>> /\ running = {} /\ finished = <<>>
  /\ scan = 0 /\ budget = 0
  /\ batch = NoBatch /\ todo = {}
  /\ result = NoResult
  /\ req = [r \in Reqs |-> NewReq(r)]
  /\ used_tokens = 0
  /\ runner = {}
  /\ stream = [r \in Reqs |-> [tokens |-> <<>>, reason |-> None]]
  /\ dropped = {}

-----------------------------------------------------------------------------
\* The tokenizer's end of the socket. An abort takes its own way to the
\* tokenizer and may come before the request it is for.
Send(kind, r) ==
  /\ r \notin sent[kind]
  /\ sent' = [sent EXCEPT ![kind] = @ \cup {r}]
  /\ socket' = Append(socket, [kind |-> kind, rid |-> r])
  /\ UNCHANGED <<pc, queues, scan, budget, batch, todo, result, req,
                 used_tokens, runner, stream, dropped>>

RecvRequest ==
  /\ pc = "recv" /\ socket # <<>> /\ Head(socket).kind = "request"
  /\ socket' = Tail(socket)
  /\ waiting' = Append(waiting, Head(socket).rid)
  /\ UNCHANGED <<sent, pc, pending, running, finished, scan, budget, batch,
                 todo, result, req, used_tokens, runner, stream, dropped>>

\* A mistake: an abort leaves the queues alone.
WithoutNone(q, r) == q

\* A queue without the request r, which it holds at most once.
Without(q, r) ==
  IF Contains(q, r) THEN RemoveAt(q, CHOOSE i \in 1..Len(q) : q[i] = r) ELSE q

\* _abort_request(r): off the pending queue, or marked where it runs.
AbortRequest(r) ==
  /\ pending' = Without(pending, r)
  /\ req' = IF r \in running THEN [req EXCEPT ![r].reason = "abort"] ELSE req

\* An abort drops a request that has not started and marks one that runs.
RecvAbort ==
  /\ pc = "recv" /\ socket # <<>> /\ Head(socket).kind = "abort"
  /\ socket' = Tail(socket)
  /\ LET r == Head(socket).rid IN
       /\ waiting' = Without(waiting, r)
       /\ AbortRequest(r)
       /\ dropped' = IF r \in running \cup Range(waiting) \cup Range(pending)
                     THEN dropped \cup {r} ELSE dropped
  /\ UNCHANGED <<sent, pc, running, finished, scan, budget, batch, todo,
                 result, used_tokens, runner, stream>>

RecvNothing ==
  /\ pc = "recv" /\ socket = <<>>
  /\ pc' = "input"
  /\ UNCHANGED <<sent, socket, queues, scan, budget, batch, todo, result, req,
                 used_tokens, runner, stream, dropped>>

process_input_requests ==
  /\ pc = "input"
  /\ pending' = pending \o waiting
  /\ waiting' = <<>>
  /\ req' = [r \in Reqs |-> IF r \in Range(waiting) THEN NewReq(r) ELSE req[r]]
  /\ pc' = "filter"
  /\ UNCHANGED <<sent, socket, running, finished, scan, budget, batch, todo,
                 result, used_tokens, runner, stream, dropped>>

-----------------------------------------------------------------------------
\* A mistake: the release forgets that the cached prefix was given back before.
ChargeOfAll(r) == req[r].seq_len

\* What a live request holds of the token budget.
Charge(r) == req[r].seq_len - req[r].prefix_len

AtLeastZero(n) == IF n < 0 THEN 0 ELSE n

\* A mistake: the model runner is not told.
RunnerKeeps(r) == runner

\* _free_rid_resources(r), as far as the scheduler can see.
RunnerWithout(r) == runner \ {r}

\* _free_rid_resources(r) and _free_req_resources(r).
FreeResources(r) ==
  /\ runner' = RunnerWithout(r)
  /\ used_tokens' = AtLeastZero(used_tokens - Charge(r))

Over(r) == req[r].reason # None

\* get_next_batch_to_run(), phase 1: an aborted request leaves the batch.
Filter(r) ==
  /\ pc = "filter" /\ r \in running /\ Over(r)
  /\ FreeResources(r)
  /\ running' = running \ {r}
  /\ UNCHANGED <<sent, socket, pc, waiting, pending, finished, scan, budget,
                 batch, todo, result, req, stream, dropped>>

FilterDone ==
  /\ pc = "filter" /\ \A r \in running : ~Over(r)
  /\ pc' = "admit"
  /\ scan' = 0
  /\ budget' = max_prefill_tokens
  /\ batch' = NoBatch
  /\ UNCHANGED <<sent, socket, queues, todo, result, req, used_tokens, runner,
                 stream, dropped>>

\* A mistake: a prompt as long as the whole prefill budget never fits.
FitsStrictly(r) ==
  /\ Cardinality(running) + Cardinality(batch.reqs) < max_running_requests
  /\ used_tokens + InputLen[r] <= max_total_tokens
  /\ InputLen[r] < budget

\* A mistake: the limit counts the running requests and not the new ones.
FitsRunningOnly(r) ==
  /\ Cardinality(running) < max_running_requests
  /\ used_tokens + InputLen[r] <= max_total_tokens
  /\ InputLen[r] <= budget

\* Phase 2: can_fit_request, can_fit_tokens and can_fit_prefill.
CanFit(r) ==
  /\ Cardinality(running) + Cardinality(batch.reqs) < max_running_requests
  /\ used_tokens + InputLen[r] <= max_total_tokens
  /\ InputLen[r] <= budget

Admit ==
  /\ pc = "admit" /\ scan < Len(pending)
  /\ LET r == pending[scan + 1] IN
       /\ CanFit(r)
       /\ used_tokens' = used_tokens + InputLen[r]
       /\ budget' = budget - InputLen[r]
       /\ batch' = [mode |-> "none", reqs |-> batch.reqs \cup {r}]
  /\ pending' = RemoveAt(pending, scan + 1)
  /\ UNCHANGED <<sent, socket, pc, waiting, running, finished, scan, todo,
                 result, req, runner, stream, dropped>>

\* A request that does not fit stays, and the loop looks at the next one.
Skip ==
  /\ pc = "admit" /\ scan < Len(pending)
  /\ ~CanFit(pending[scan + 1])
  /\ scan' = scan + 1
  /\ UNCHANGED <<sent, socket, pc, queues, budget, batch, todo, result, req,
                 used_tokens, runner, stream, dropped>>

\* Phase 3: new requests are prefilled before running ones are decoded.
BuildBatch ==
  /\ pc = "admit" /\ scan = Len(pending)
  /\ batch' = IF batch.reqs # {} THEN [mode |-> "extend", reqs |-> batch.reqs]
              ELSE IF running # {} THEN [mode |-> "decode", reqs |-> running]
              ELSE NoBatch
  /\ pc' = IF batch'.reqs # {} THEN "run" ELSE "stream"
  /\ scan' = 0 /\ budget' = 0
  /\ UNCHANGED <<sent, socket, queues, todo, result, req, used_tokens, runner,
                 stream, dropped>>

-----------------------------------------------------------------------------
\* run_batch(): the runner reports, for each request, the prefix it reused and
\* whether the token it sampled is a stop token of that request.
RunBatch ==
  /\ pc = "run"
  /\ \E p \in [batch.reqs -> UNION {PrefixLens(r) : r \in batch.reqs}],
        e \in [batch.reqs -> BOOLEAN] :
       /\ \A r \in batch.reqs :
            p[r] \in IF batch.mode = "extend" THEN PrefixLens(r) ELSE {0}
       /\ result' = [r \in batch.reqs |-> [prefix_len |-> p[r], eos |-> e[r]]]
  /\ runner' = runner \cup batch.reqs
  /\ todo' = batch.reqs
  /\ pc' = "result"
  /\ UNCHANGED <<sent, socket, queues, scan, budget, batch, req, used_tokens,
                 stream, dropped>>

ForwardRaises ==
  /\ pc = "run"
  /\ pc' = "dead"
  /\ UNCHANGED <<sent, socket, queues, scan, budget, batch, todo, result, req,
                 used_tokens, runner, stream, dropped>>

\* A mistake: max_new_tokens is not looked at.
EndsOnEosOnly(r, n, eos) == IF eos THEN "eos" ELSE None

\* check_finished() after the n-th token.
EndOf(r, n, eos) ==
  CASE eos -> "eos"
    [] ~eos /\ n >= MaxNewTokens[r] -> "length"
    [] OTHER -> None

\* process_batch_result(), first loop: correct the reservation by the cached
\* prefix, append the token and charge for it, check for the end.
TakeResult(r) ==
  /\ pc = "result" /\ r \in todo
  /\ LET saved == AtLeastZero(result[r].prefix_len - req[r].prefix_len)
         n == req[r].outputs + 1
     IN
       /\ used_tokens' = AtLeastZero(used_tokens - saved) + 1
       /\ req' = [req EXCEPT ![r].prefix_len = @ + saved,
                             ![r].outputs = n,
                             ![r].seq_len = @ + 1,
                             ![r].reason = EndOf(r, n, result[r].eos)]
  /\ todo' = todo \ {r}
  /\ UNCHANGED <<sent, socket, pc, queues, scan, budget, batch, result,
                 runner, stream, dropped>>

ResultsTaken ==
  /\ pc = "result" /\ todo = {}
  /\ todo' = batch.reqs
  /\ result' = NoResult
  /\ pc' = "route"
  /\ UNCHANGED <<sent, socket, queues, scan, budget, batch, req, used_tokens,
                 runner, stream, dropped>>

\* _collect_finished_output().
FinishedOutput(r) ==
  [rid |-> r, from |-> req[r].read_offset, to |-> req[r].outputs,
   reason |-> req[r].reason]

\* Second loop: a finished request is collected and freed, another runs on.
Finish(r) ==
  /\ pc = "route" /\ r \in todo /\ Over(r)
  /\ finished' = Append(finished, FinishedOutput(r))
  /\ FreeResources(r)
  /\ running' = running \ {r}
  /\ todo' = todo \ {r}
  /\ UNCHANGED <<sent, socket, pc, waiting, pending, scan, budget, batch,
                 result, req, stream, dropped>>

RunOn(r) ==
  /\ pc = "route" /\ r \in todo /\ ~Over(r)
  /\ running' = running \cup {r}
  /\ todo' = todo \ {r}
  /\ UNCHANGED <<sent, socket, pc, waiting, pending, finished, scan, budget,
                 batch, result, req, used_tokens, runner, stream, dropped>>

Routed ==
  /\ pc = "route" /\ todo = {}
  /\ batch' = NoBatch
  /\ pc' = "stream"
  /\ UNCHANGED <<sent, socket, queues, scan, budget, todo, result, req,
                 used_tokens, runner, stream, dropped>>

-----------------------------------------------------------------------------
\* What the detokenizer receives: token positions from+1 to n of request r.
Deliver(r, from, n, reason) ==
  stream' = [stream EXCEPT ![r] =
               [tokens |-> @.tokens \o [i \in 1..(n - from) |-> from + i],
                reason |-> reason]]

HasNews(r) ==
  /\ r \in Streaming
  /\ req[r].reason # "abort"
  /\ req[r].outputs > req[r].read_offset

\* A mistake: what was streamed is not remembered.
OffsetKept(r) == req[r].read_offset

OffsetAfter(r) == req[r].outputs

\* stream_output(): first the news of streaming requests that run on.
StreamOut(r) ==
  /\ pc = "stream" /\ r \in running /\ HasNews(r)
  /\ Deliver(r, req[r].read_offset, req[r].outputs, None)
  /\ req' = [req EXCEPT ![r].read_offset = OffsetAfter(r)]
  /\ UNCHANGED <<sent, socket, pc, queues, scan, budget, batch, todo, result,
                 used_tokens, runner, dropped>>

\* Then every finished output, oldest first.
SendFinished ==
  /\ pc = "stream" /\ finished # <<>>
  /\ \A r \in running : ~HasNews(r)
  /\ LET out == Head(finished) IN Deliver(out.rid, out.from, out.to, out.reason)
  /\ finished' = Tail(finished)
  /\ UNCHANGED <<sent, socket, pc, waiting, pending, running, scan, budget,
                 batch, todo, result, req, used_tokens, runner, dropped>>

LoopAgain ==
  /\ pc = "stream" /\ finished = <<>>
  /\ \A r \in running : ~HasNews(r)
  /\ pc' = "recv"
  /\ UNCHANGED <<sent, socket, queues, scan, budget, batch, todo, result, req,
                 used_tokens, runner, stream, dropped>>

-----------------------------------------------------------------------------
Receive == RecvRequest \/ RecvAbort \/ RecvNothing \/ process_input_requests

get_next_batch_to_run ==
  \/ \E r \in Reqs : Filter(r)
  \/ FilterDone \/ Admit \/ Skip \/ BuildBatch

process_batch_result ==
  \/ \E r \in Reqs : TakeResult(r) \/ Finish(r) \/ RunOn(r)
  \/ ResultsTaken \/ Routed

stream_output ==
  \/ \E r \in Reqs : StreamOut(r)
  \/ SendFinished \/ LoopAgain

event_loop ==
  \/ Receive
  \/ get_next_batch_to_run
  \/ RunBatch \/ ForwardRaises
  \/ process_batch_result
  \/ stream_output

Next ==
  \/ \E kind \in {"request", "abort"}, r \in Reqs : Send(kind, r)
  \/ event_loop

\* The thread of event_loop() runs; nobody has to send anything.
Fairness == WF_vars(event_loop)

Spec == Init /\ [][Next]_vars

FairSpec == Spec /\ Fairness

-----------------------------------------------------------------------------
\* A prompt is answered with one token even where max_new_tokens is 0.
MaxOutputs(r) == IF MaxNewTokens[r] = 0 THEN 1 ELSE MaxNewTokens[r]

ReqType(r) ==
  [seq_len : Nat, prefix_len : 0..InputLen[r], outputs : 0..MaxOutputs(r),
   read_offset : 0..MaxOutputs(r), reason : Reasons]

\* Types; a request never has more output tokens than it may.
TypeOK ==
  /\ sent \in [{"request", "abort"} -> SUBSET Reqs]
  /\ socket \in Seq([kind : {"request", "abort"}, rid : Reqs])
  /\ pc \in {"recv", "input", "filter", "admit", "run", "result", "route",
             "stream", "dead"}
  /\ waiting \in Seq(Reqs) /\ pending \in Seq(Reqs)
  /\ running \in SUBSET Reqs
  /\ finished \in Seq([rid : Reqs, from : Nat, to : Nat, reason : Reasons])
  /\ scan \in 0..Len(pending) /\ budget \in 0..max_prefill_tokens
  /\ batch \in [mode : {"none", "extend", "decode"}, reqs : SUBSET Reqs]
  /\ todo \in SUBSET batch.reqs
  /\ result \in [DOMAIN result -> [prefix_len : Nat, eos : BOOLEAN]]
  /\ \A r \in Reqs : req[r] \in ReqType(r)
  /\ used_tokens \in Nat
  /\ runner \in SUBSET Reqs
  /\ stream \in [Reqs -> [tokens : Seq(Nat), reason : Reasons]]
  /\ dropped \in SUBSET Reqs

\* The requests tokens are charged for: those that run and, from admission until
\* they are routed, those of an extend batch.
Charged ==
  running \cup (IF pc = "route" THEN todo ELSE batch.reqs)

\* The token budget is what the live requests hold of it: reserving the whole
\* prompt, giving back the cached prefix, charging each token and releasing at
\* the end never drift apart, and no release is cut off at zero.
BudgetExact ==
  used_tokens = SumFunctionOnSet([r \in Reqs |-> Charge(r)], Charged)

\* The model runner keeps state for exactly the requests the scheduler will
\* still run or free: no finished or aborted request leaks its KV slots.
RunnerMatches ==
  /\ pc = "result" => runner = running \cup batch.reqs
  /\ pc = "route" => runner = running \cup todo
  /\ pc \notin {"result", "route"} => runner = running

\* No more requests are live than the limit allows (a request slot of the
\* runner's pool is held by each).
RunningBounded ==
  Cardinality(running \cup batch.reqs) <= max_running_requests

\* Downstream each request is the sequence of its tokens, each once and in
\* order, cut into chunks anyhow, and the output with a reason is the whole.
StreamedInOrder ==
  \A r \in Reqs :
    /\ stream[r].tokens = [i \in 1..Len(stream[r].tokens) |-> i]
    /\ stream[r].reason # None => /\ Len(stream[r].tokens) = req[r].outputs
                                  /\ stream[r].reason = req[r].reason

\* Once an abort found its request, nothing of it is sent any more; and nothing
\* follows a final output.
SilentAtEnd ==
  [][\A r \in Reqs :
       r \in dropped \/ stream[r].reason # None => stream'[r] = stream[r]]_vars

Fits(r) == InputLen[r] <= max_prefill_tokens /\ InputLen[r] <= max_total_tokens

Ended(r) == stream[r].reason # None \/ r \in dropped

\* A request that fits the limits at all is answered or dropped by its abort,
\* unless the process dies.
EveryFittingRequestEnds ==
  \A r \in Reqs : Fits(r) => (r \in sent["request"] ~> Ended(r) \/ pc = "dead")
=============================================================================
