------------------------------ MODULE Service ------------------------------
(***************************************************************************)
(* The C++ service (mllm/engine/service/Service.cpp): request pool,        *)
(* response pool, worker threads, stop(); with the HTTP handlers that call *)
(* it through the C API (mllm/c_api/Runtime.cpp and                        *)
(* mllm-cli/pkg/server/handlers.go), one thread for each HTTP request.     *)
(*                                                                         *)
(* A request is its client. A session emits chunks 1, 2, ... of a request  *)
(* and then, unless it fails, a final one. Each action is one critical     *)
(* section or one step between two of them; the two condition variables    *)
(* are the sets of threads asleep on them. RequestPool notifies after it   *)
(* unlocks; that is one step with the push or shutdown before it, since a  *)
(* thread that runs in between sees the new queue and does not sleep.      *)
(***************************************************************************)
EXTENDS Integers, Sequences

CONSTANTS
  Workers,   \* worker threads
  Clients,   \* HTTP requests
  IdOf,      \* IdOf[c]: the request id, given by the client or made up
  MaxChunks  \* bound: chunks of an answer before the final one

ASSUME MaxChunksAssumption == MaxChunks \in Nat
ASSUME ClientsAssumption == Clients # {}
ASSUME IdOfAssumption == DOMAIN IdOf = Clients

VARIABLES
  requests,  \* RequestPool::queue_, the clients whose request waits
  req_stop,  \* RequestPool::stop_
  queues,    \* ResponsePool::queues_[id]
  resp_stop, \* ResponsePool::stop_
  running,   \* Service::running_
  worker,    \* worker[w]: [pc, req, sent]
  client,    \* client[c]: [pc, got]
  stopper    \* how far stop() is: "no", "shut", "joining", "joined", "done"

vars == <<requests, req_stop, queues, resp_stop, running, worker, client, stopper>>

Ids == {IdOf[c] : c \in Clients}

\* A chunk: whose answer, which chunk of it, and whether it is the last.
Chunk(c, k, last) == [of |-> c, k |-> k, finished |-> last]

Asleep(threads) == {t \in DOMAIN threads : threads[t].pc = "asleep"}

\* notify_one() on threads that go back to pc "pop" when woken.
OneWoken(threads) ==
  IF Asleep(threads) = {} THEN {threads}
  ELSE {[threads EXCEPT ![t].pc = "pop"] : t \in Asleep(threads)}

\* notify_all()
AllWoken(threads) ==
  [t \in DOMAIN threads |->
     IF t \in Asleep(threads) THEN [threads[t] EXCEPT !.pc = "pop"] ELSE threads[t]]

NoClient == CHOOSE c \in Clients : TRUE

Init ==
  /\ requests = <<>> /\ req_stop = FALSE
  /\ queues = [id \in Ids |-> <<>>] /\ resp_stop = FALSE
  /\ running = TRUE
  /\ worker = [w \in Workers |-> [pc |-> "top", req |-> NoClient, sent |-> 0]]
  /\ client = [c \in Clients |-> [pc |-> "new", got |-> <<>>]]
  /\ stopper = "no"

-----------------------------------------------------------------------------
\* A mistake: the push wakes nobody.
NotifyNone(threads) == {threads}

\* Whom RequestPool::push() wakes.
NotifyWorker(threads) == OneWoken(threads)

\* chatCompletionsHandler(): GetSession() succeeds, sendRequest() pushes.
SendRequest(c) ==
  /\ client[c].pc = "new"
  /\ client' = [client EXCEPT ![c].pc = "pop"]
  /\ requests' = Append(requests, c)
  /\ worker' \in NotifyWorker(worker)
  /\ UNCHANGED <<req_stop, queues, resp_stop, running, stopper>>

\* while (running_)
Top(w) ==
  /\ worker[w].pc = "top"
  /\ worker' = [worker EXCEPT ![w].pc = IF running THEN "pop" ELSE "exit"]
  /\ UNCHANGED <<requests, req_stop, queues, resp_stop, running, client, stopper>>

MayPop == requests # <<>>

\* RequestPool::pop(): a request, or nothing and the worker leaves, or it waits.
PopRequest(w) ==
  /\ worker[w].pc = "pop"
  /\ \/ /\ MayPop
        /\ requests' = Tail(requests)
        /\ worker' = [worker EXCEPT ![w] =
             [pc |-> "generate", req |-> Head(requests), sent |-> 0]]
     \/ /\ ~MayPop
        /\ worker' = [worker EXCEPT ![w].pc = IF req_stop THEN "exit" ELSE "asleep"]
        /\ UNCHANGED requests
  /\ UNCHANGED <<req_stop, queues, resp_stop, running, client, stopper>>

\* ResponsePool::push(): it wakes one thread, whichever id that one waits for.
PushResponse(c, item) ==
  /\ queues' = [queues EXCEPT ![IdOf[c]] = Append(@, item)]
  /\ client' \in OneWoken(client)

\* The callback of streamGenerate(), for one more chunk.
Emit(w) ==
  LET q == worker[w] IN
  /\ q.pc = "generate" /\ q.sent < MaxChunks
  /\ PushResponse(q.req, Chunk(q.req, q.sent + 1, FALSE))
  /\ worker' = [worker EXCEPT ![w].sent = @ + 1]
  /\ UNCHANGED <<requests, req_stop, resp_stop, running, stopper>>

\* The last callback; streamGenerate() returns.
EmitFinal(w) ==
  LET q == worker[w] IN
  /\ q.pc = "generate"
  /\ PushResponse(q.req, Chunk(q.req, q.sent + 1, TRUE))
  /\ worker' = [worker EXCEPT ![w].pc = "top"]
  /\ UNCHANGED <<requests, req_stop, resp_stop, running, stopper>>

\* streamGenerate() throws, which workerLoop() swallows, or returns without
\* having called back with finished: no final chunk is ever sent.
EndWithoutFinal(w) ==
  /\ worker[w].pc = "generate"
  /\ worker' = [worker EXCEPT ![w].pc = "failed"]
  /\ UNCHANGED <<requests, req_stop, queues, resp_stop, running, client, stopper>>

AfterFailure(w) ==
  /\ worker[w].pc = "failed"
  /\ worker' = [worker EXCEPT ![w].pc = "top"]
  /\ UNCHANGED <<requests, req_stop, queues, resp_stop, running, client, stopper>>

-----------------------------------------------------------------------------
\* A mistake: the item stays in the queue.
RestKept(id) == queues

\* ResponsePool::pop() removes the first item.
Rest(id) == [queues EXCEPT ![id] = Tail(@)]

\* The handler's loop: pollResponse() gives a chunk, to be sent to the browser;
\* nothing, on the final chunk, whereupon the handler ends the stream; or, once
\* the pool is shut down, "not finished" without content, and the loop goes on.
Poll(c) ==
  LET id == IdOf[c] IN
  /\ client[c].pc = "pop"
  /\ \/ /\ resp_stop
        /\ UNCHANGED <<client, queues>>
     \/ /\ ~resp_stop /\ queues[id] # <<>>
        /\ queues' = Rest(id)
        /\ client' = IF Head(queues[id]).finished
                     THEN [client EXCEPT ![c].pc = "over"]
                     ELSE [client EXCEPT ![c].got = Append(@, Head(queues[id]))]
     \/ /\ ~resp_stop /\ queues[id] = <<>>
        /\ client' = [client EXCEPT ![c].pc = "asleep"]
        /\ UNCHANGED queues
  /\ UNCHANGED <<requests, req_stop, resp_stop, running, worker, stopper>>

\* The browser has left; the handler sees it between two polls only.
Disconnect(c) ==
  /\ client[c].pc = "pop"
  /\ client' = [client EXCEPT ![c].pc = "left"]
  /\ UNCHANGED <<requests, req_stop, queues, resp_stop, running, worker, stopper>>

-----------------------------------------------------------------------------
\* A mistake: shutdown() wakes nobody.
WokenNot(threads) == threads

ReqWoken(threads) == AllWoken(threads)

RespWoken(threads) == AllWoken(threads)

\* stop(): the request pool is shut down, running_ cleared, the workers joined,
\* the response pool shut down.
ShutRequests ==
  /\ stopper = "no"
  /\ stopper' = "shut"
  /\ req_stop' = TRUE
  /\ worker' = ReqWoken(worker)
  /\ UNCHANGED <<requests, queues, resp_stop, running, client>>

StopRunning ==
  /\ stopper = "shut"
  /\ stopper' = "joining"
  /\ running' = FALSE
  /\ UNCHANGED <<requests, req_stop, queues, resp_stop, worker, client>>

Join ==
  /\ stopper = "joining"
  /\ \A w \in Workers : worker[w].pc = "exit"
  /\ stopper' = "joined"
  /\ UNCHANGED <<requests, req_stop, queues, resp_stop, running, worker, client>>

ShutResponses ==
  /\ stopper = "joined"
  /\ stopper' = "done"
  /\ resp_stop' = TRUE
  /\ client' = RespWoken(client)
  /\ UNCHANGED <<requests, req_stop, queues, running, worker>>

WorkerStep(w) ==
  Top(w) \/ PopRequest(w) \/ Emit(w) \/ EmitFinal(w) \/ EndWithoutFinal(w) \/ AfterFailure(w)

StopStep == StopRunning \/ Join \/ ShutResponses

Next ==
  \/ \E w \in Workers : WorkerStep(w)
  \/ \E c \in Clients : SendRequest(c) \/ Poll(c) \/ Disconnect(c)
  \/ ShutRequests \/ StopStep

Spec == Init /\ [][Next]_vars

\* Threads that can go on do: a session comes to its end, a handler polls
\* again, and stop(), once called, is run to its end.
Fairness ==
  /\ \A w \in Workers : WF_vars(WorkerStep(w))
  /\ \A c \in Clients : WF_vars(Poll(c))
  /\ WF_vars(StopStep)

FairSpec == Spec /\ Fairness

-----------------------------------------------------------------------------
\* A client gets the chunks of its own answer, from the first on, none missing
\* and none twice.
OwnAnswerInOrder ==
  \A c \in Clients : client[c].got = [i \in DOMAIN client[c].got |-> Chunk(c, i, FALSE)]

Taken(c) == \A i \in DOMAIN requests : requests[i] # c

\* A request in the queue gets a worker, unless the service is stopped: no worker
\* sleeps through a push.
RequestIsTaken ==
  \A c \in Clients : ~Taken(c) ~> (Taken(c) \/ req_stop)

\* stop() returns: sleeping and working threads leave their loops.
StopReturns == stopper = "shut" ~> stopper = "done"

\* Nobody sleeps once stop() is over: stop_ is set under the lock before the
\* sleepers are woken, and looked at under the lock before a thread goes to sleep.
NobodyLeftAsleep ==
  stopper = "done" => Asleep(client) = {} /\ Asleep(worker) = {}

\* The final chunk of an answer that is there reaches a client that waits for it
\* ("Streaming the responses back to the client", docs/service/mllm_cli.rst).
EveryAnswerArrives ==
  \A c \in Clients :
    client[c].pc = "asleep" /\ queues[IdOf[c]] # <<>> ~> client[c].pc # "asleep"
=============================================================================
