--------------------------- MODULE ServiceProofs ---------------------------
(***************************************************************************)
(* Proofs about Service, for any number of workers and clients and answers *)
(* of any length.                                                          *)
(***************************************************************************)
EXTENDS Service, TLAPS

Item == [of : Clients, k : Nat, finished : BOOLEAN]

WorkerState ==
  [pc : {"top", "pop", "asleep", "generate", "failed", "exit"}, req : Clients, sent : Nat]

ClientState == [pc : {"new", "pop", "asleep", "over", "left"}, got : Seq(Item)]

Types ==
  /\ requests \in Seq(Clients)
  /\ queues \in [Ids -> Seq(Item)]
  /\ req_stop \in BOOLEAN /\ resp_stop \in BOOLEAN /\ running \in BOOLEAN
  /\ worker \in [Workers -> WorkerState]
  /\ client \in [Clients -> ClientState]
  /\ stopper \in {"no", "shut", "joining", "joined", "done"}

-----------------------------------------------------------------------------
\* What notify_one() and notify_all() leave of the threads they may wake.
LEMMA WokenClients ==
  ASSUME NEW threads \in [Clients -> ClientState],
         NEW woken \in OneWoken(threads) \cup {AllWoken(threads)}
  PROVE  /\ woken \in [Clients -> ClientState]
         /\ \A c \in Clients : /\ woken[c].got = threads[c].got
                               /\ \/ woken[c].pc = threads[c].pc
                                  \/ threads[c].pc = "asleep" /\ woken[c].pc = "pop"
<1>1. CASE woken = threads
  BY <1>1
<1>2. CASE \E t \in Asleep(threads) : woken = [threads EXCEPT ![t].pc = "pop"]
  BY <1>2 DEF Asleep, ClientState
<1>3. CASE woken = AllWoken(threads)
  BY <1>3 DEF AllWoken, Asleep, ClientState
<1> QED
  BY <1>1, <1>2, <1>3 DEF OneWoken

\* The same of the workers.
LEMMA WokenWorkers ==
  ASSUME NEW threads \in [Workers -> WorkerState],
         NEW woken \in OneWoken(threads) \cup {AllWoken(threads)}
  PROVE  /\ woken \in [Workers -> WorkerState]
         /\ \A w \in Workers : /\ woken[w].req = threads[w].req
                               /\ woken[w].sent = threads[w].sent
                               /\ \/ woken[w].pc = threads[w].pc
                                  \/ threads[w].pc = "asleep" /\ woken[w].pc = "pop"
<1>1. CASE woken = threads
  BY <1>1
<1>2. CASE \E t \in Asleep(threads) : woken = [threads EXCEPT ![t].pc = "pop"]
  BY <1>2 DEF Asleep, WorkerState
<1>3. CASE woken = AllWoken(threads)
  BY <1>3 DEF AllWoken, Asleep, WorkerState
<1> QED
  BY <1>1, <1>2, <1>3 DEF OneWoken

-----------------------------------------------------------------------------
\* What a callback pushes is an item of the response pool.
LEMMA ChunkIsItem ==
  ASSUME NEW c \in Clients, NEW k \in Nat, NEW last \in BOOLEAN
  PROVE  Chunk(c, k, last) \in Item
  BY DEF Chunk, Item

\* What a session's callback does to the response pool and its sleepers.
LEMMA Pushed ==
  ASSUME Types, NEW c \in Clients, NEW item \in Item, PushResponse(c, item)
  PROVE  /\ queues' \in [Ids -> Seq(Item)]
         /\ queues' = [queues EXCEPT ![IdOf[c]] = Append(@, item)]
         /\ client' \in [Clients -> ClientState]
         /\ \A d \in Clients : /\ client'[d].got = client[d].got
                               /\ \/ client'[d].pc = client[d].pc
                                  \/ client[d].pc = "asleep" /\ client'[d].pc = "pop"
<1>1. IdOf[c] \in Ids
  BY DEF Ids
<1>2. client \in [Clients -> ClientState] /\ client' \in OneWoken(client)
  BY DEF Types, PushResponse
<1> QED
  BY <1>1, <1>2, WokenClients DEF Types, PushResponse

\* The service starts with empty pools and nobody asleep.
LEMMA TypesInit == Init => Types
<1> SUFFICES ASSUME Init PROVE Types
  OBVIOUS
<1>1. NoClient \in Clients
  BY ClientsAssumption DEF NoClient
<1>2. client \in [Clients -> ClientState]
  BY DEF Init, ClientState
<1>3. worker \in [Workers -> WorkerState]
  BY <1>1 DEF Init, WorkerState
<1>4. requests \in Seq(Clients) /\ queues \in [Ids -> Seq(Item)]
  BY DEF Init
<1>5. req_stop \in BOOLEAN /\ resp_stop \in BOOLEAN /\ running \in BOOLEAN
  BY Zenon DEF Init
<1> QED
  BY <1>2, <1>3, <1>4, <1>5 DEF Init, Types

\* Every step keeps the types of both pools, the workers and the clients.
LEMMA TypesNext == Types /\ [Next]_vars => Types'
<1> SUFFICES ASSUME Types, [Next]_vars PROVE Types'
  OBVIOUS
<1>1. CASE UNCHANGED vars
  BY <1>1 DEF vars, Types
<1>2. ASSUME NEW c \in Clients, SendRequest(c) PROVE Types'
  <2>1. worker' \in [Workers -> WorkerState]
    BY <1>2, WokenWorkers DEF SendRequest, NotifyWorker, Types
  <2>2. client' \in [Clients -> ClientState]
    BY <1>2 DEF SendRequest, Types, ClientState
  <2> QED
    BY <1>2, <2>1, <2>2 DEF SendRequest, Types
<1>3. ASSUME NEW c \in Clients, Poll(c) PROVE Types'
  <2>1. IdOf[c] \in Ids
    BY DEF Ids
  <2>2. CASE ~resp_stop /\ queues[IdOf[c]] # <<>>
    <3>1. /\ queues[IdOf[c]] \in Seq(Item)
          /\ Head(queues[IdOf[c]]) \in Item /\ Tail(queues[IdOf[c]]) \in Seq(Item)
      BY <2>1, <2>2 DEF Types
    <3>2. client' \in [Clients -> ClientState]
      <4>1. CASE client' = [client EXCEPT ![c].pc = "over"]
        BY <4>1 DEF Types, ClientState
      <4>2. CASE client' = [client EXCEPT ![c].got = Append(@, Head(queues[IdOf[c]]))]
        <5>1. client[c].got \in Seq(Item)
          BY DEF Types, ClientState
        <5>2. Append(client[c].got, Head(queues[IdOf[c]])) \in Seq(Item)
          BY <3>1, <5>1
        <5> QED
          BY <4>2, <5>2 DEF Types, ClientState
      <4> QED
        BY <1>3, <2>2, <4>1, <4>2 DEF Poll
    <3> QED
      BY <1>3, <2>1, <2>2, <3>1, <3>2 DEF Poll, Rest, Types
  <2>3. CASE resp_stop \/ queues[IdOf[c]] = <<>>
    <3>1. client' \in [Clients -> ClientState]
      BY <1>3, <2>3 DEF Poll, Types, ClientState
    <3> QED
      BY <1>3, <2>3, <3>1 DEF Poll, Types
  <2> QED
    BY <2>2, <2>3 DEF Types
<1>4. ASSUME NEW c \in Clients, Disconnect(c) PROVE Types'
  BY <1>4 DEF Disconnect, Types, ClientState
<1>5. ASSUME NEW w \in Workers, Top(w) PROVE Types'
  BY <1>5 DEF Top, Types, WorkerState
<1>6. ASSUME NEW w \in Workers, PopRequest(w) PROVE Types'
  <2>1. CASE MayPop
    <3>1. Head(requests) \in Clients /\ Tail(requests) \in Seq(Clients)
      BY <2>1 DEF MayPop, Types
    <3>2. worker' \in [Workers -> WorkerState]
      <4>1. [pc |-> "generate", req |-> Head(requests), sent |-> 0] \in WorkerState
        BY <3>1 DEF WorkerState
      <4>2. worker' = [worker EXCEPT ![w] =
              [pc |-> "generate", req |-> Head(requests), sent |-> 0]]
        BY <1>6, <2>1 DEF PopRequest
      <4> QED
        BY <4>1, <4>2 DEF Types
    <3> QED
      BY <1>6, <2>1, <3>1, <3>2 DEF PopRequest, Types
  <2>2. CASE ~MayPop
    <3>1. worker' \in [Workers -> WorkerState]
      BY <1>6, <2>2 DEF PopRequest, Types, WorkerState
    <3> QED
      BY <1>6, <2>2, <3>1 DEF PopRequest, Types
  <2> QED
    BY <2>1, <2>2
<1>7. ASSUME NEW w \in Workers, Emit(w) \/ EmitFinal(w) PROVE Types'
  <2>1. worker[w] \in WorkerState /\ worker[w].req \in Clients /\ worker[w].sent + 1 \in Nat
    BY DEF Types, WorkerState
  <2>2. worker' \in [Workers -> WorkerState]
    <3>1. CASE worker' = [worker EXCEPT ![w].sent = @ + 1]
      BY <2>1, <3>1 DEF Types, WorkerState
    <3>2. CASE worker' = [worker EXCEPT ![w].pc = "top"]
      BY <3>2 DEF Types, WorkerState
    <3> QED
      BY <1>7, <3>1, <3>2 DEF Emit, EmitFinal
  <2>3. /\ queues' \in [Ids -> Seq(Item)]
        /\ client' \in [Clients -> ClientState]
    <3>1. \A last \in BOOLEAN : Chunk(worker[w].req, worker[w].sent + 1, last) \in Item
      BY <2>1, ChunkIsItem
    <3> QED
      BY <1>7, <2>1, <3>1, Pushed DEF Emit, EmitFinal
  <2> QED
    BY <1>7, <2>2, <2>3 DEF Emit, EmitFinal, Types
<1>8. ASSUME NEW w \in Workers, EndWithoutFinal(w) \/ AfterFailure(w) PROVE Types'
  BY <1>8 DEF EndWithoutFinal, AfterFailure, Types, WorkerState
<1>9. CASE ShutRequests
  <2>1. worker' \in [Workers -> WorkerState]
    BY <1>9, WokenWorkers DEF ShutRequests, ReqWoken, Types
  <2> QED
    BY <1>9, <2>1 DEF ShutRequests, Types
<1>10. CASE StopRunning \/ Join
  BY <1>10 DEF StopRunning, Join, Types
<1>11. CASE ShutResponses
  <2>1. client' \in [Clients -> ClientState]
    BY <1>11, WokenClients DEF ShutResponses, RespWoken, Types
  <2> QED
    BY <1>11, <2>1 DEF ShutResponses, Types
<1> QED
  BY <1>1, <1>2, <1>3, <1>4, <1>5, <1>6, <1>7, <1>8, <1>9, <1>10, <1>11
     DEF Next, WorkerStep, StopStep

-----------------------------------------------------------------------------
\* stop() goes through its stages in order, and shuts the response pool down when
\* no worker is left.
Stages ==
  /\ stopper \in {"joined", "done"} => \A w \in Workers : worker[w].pc = "exit"
  /\ resp_stop = (stopper = "done")
  /\ resp_stop => \A c \in Clients : client[c].pc # "asleep"

\* Every step of workers, clients and stop() keeps what holds at each stage of stop().
LEMMA StagesNext == Types /\ Stages /\ [Next]_vars => Stages'
<1> SUFFICES ASSUME Types, Stages, [Next]_vars PROVE Stages'
  OBVIOUS
<1> USE DEF Stages
<1>1. CASE UNCHANGED vars
  BY <1>1 DEF vars
<1>2. ASSUME NEW c \in Clients, SendRequest(c) PROVE Stages'
  <2>1. \A w \in Workers : worker[w].pc = "exit" => worker'[w].pc = "exit"
    <3>1. worker \in [Workers -> WorkerState] /\ worker' \in OneWoken(worker)
      BY <1>2 DEF SendRequest, NotifyWorker, Types
    <3> QED
      BY <3>1, WokenWorkers
  <2>2. \A d \in Clients : client'[d].pc = "asleep" => client[d].pc = "asleep"
    BY <1>2 DEF SendRequest, Types, ClientState
  <2> QED
    BY <1>2, <2>1, <2>2 DEF SendRequest
<1>3. ASSUME NEW c \in Clients, Poll(c) PROVE Stages'
  <2>1. CASE resp_stop
    BY <1>3, <2>1 DEF Poll
  <2>2. CASE ~resp_stop
    BY <1>3, <2>2 DEF Poll
  <2> QED
    BY <2>1, <2>2
<1>4. ASSUME NEW c \in Clients, Disconnect(c) PROVE Stages'
  BY <1>4 DEF Disconnect, Types, ClientState
<1>5. ASSUME NEW w \in Workers, WorkerStep(w) PROVE Stages'
  <2>1. worker[w].pc # "exit"
    BY <1>5 DEF WorkerStep, Top, PopRequest, Emit, EmitFinal, EndWithoutFinal, AfterFailure
  <2>2. stopper \notin {"joined", "done"} /\ ~resp_stop
    BY <2>1
  <2>3. UNCHANGED <<stopper, resp_stop>>
    BY <1>5 DEF WorkerStep, Top, PopRequest, Emit, EmitFinal, EndWithoutFinal, AfterFailure
  <2> QED
    BY <2>2, <2>3
<1>6. CASE ShutRequests
  BY <1>6 DEF ShutRequests
<1>7. CASE StopRunning \/ Join
  BY <1>7 DEF StopRunning, Join
<1>8. CASE ShutResponses
  <2>1. \A c \in Clients : client'[c].pc # "asleep"
    BY <1>8 DEF ShutResponses, RespWoken, AllWoken, Asleep, Types, ClientState
  <2> QED
    BY <1>8, <2>1 DEF ShutResponses
<1> QED
  BY <1>1, <1>2, <1>3, <1>4, <1>5, <1>6, <1>7, <1>8 DEF Next, StopStep

\* Nobody sleeps once stop() has returned, neither worker nor client: no wakeup of
\* a shutdown() is lost.
THEOREM NobodyIsLeftAsleep == Spec => []NobodyLeftAsleep
<1>1. Init => Types /\ Stages
  BY TypesInit DEF Init, Stages
<1>2. Types /\ Stages /\ [Next]_vars => (Types /\ Stages)'
  BY TypesNext, StagesNext
<1>3. Types /\ Stages => NobodyLeftAsleep
  BY DEF Types, Stages, NobodyLeftAsleep, Asleep
<1> QED
  BY <1>1, <1>2, <1>3, PTL DEF Spec

-----------------------------------------------------------------------------
\* Handlers that use different ids, as those that make up their own do.
DistinctIds == \A c, d \in Clients : IdOf[c] = IdOf[d] => c = d

Waits(c) == \E i \in DOMAIN requests : requests[i] = c

Serves(w, c) == worker[w].pc = "generate" /\ worker[w].req = c

\* A request is in one place: with its client, once in the queue, or with one
\* worker; it never comes back.
OnePlace ==
  /\ \A i, j \in DOMAIN requests : requests[i] = requests[j] => i = j
  /\ \A c \in Clients :
       /\ client[c].pc = "new" => ~Waits(c)
       /\ \A w \in Workers :
            Serves(w, c) =>
              /\ client[c].pc # "new" /\ ~Waits(c)
              /\ \A u \in Workers : Serves(u, c) => u = w

\* The chunks of an answer up to the one sent last: first those the client has, then
\* those in its queue, none before the request is with a worker.
Answer(c) ==
  LET q == queues[IdOf[c]]
      n == Len(client[c].got)
  IN /\ client[c].got = [i \in 1..n |-> Chunk(c, i, FALSE)]
     /\ client[c].pc # "over" =>
          /\ \A j \in 1..Len(q) : q[j] \in {Chunk(c, n + j, last) : last \in BOOLEAN}
          /\ client[c].pc = "new" \/ Waits(c) => n = 0 /\ Len(q) = 0
          /\ \A w \in Workers : Serves(w, c) => worker[w].sent = n + Len(q)

Answers == \A c \in Clients : Answer(c)

\* What a step may change without disturbing OnePlace.
LEMMA OnePlaceFrame ==
  ASSUME OnePlace, requests' = requests,
         \A c \in Clients : client'[c].pc = "new" => client[c].pc = "new",
         \A w \in Workers, c \in Clients : Serves(w, c)' => Serves(w, c)
  PROVE  OnePlace'
<1>1. \A c \in Clients : Waits(c)' <=> Waits(c)
  BY DEF Waits
<1> QED
  BY <1>1 DEF OnePlace

\* What a step may change without disturbing the answer of c.
LEMMA AnswerFrame ==
  ASSUME NEW c \in Clients, Answer(c),
         queues'[IdOf[c]] = queues[IdOf[c]],
         client'[c].got = client[c].got,
         client[c].pc = "over" => client'[c].pc = "over",
         client'[c].pc = "new" \/ Waits(c)' => client[c].pc = "new" \/ Waits(c),
         \A w \in Workers : Serves(w, c)' => Serves(w, c) /\ worker'[w].sent = worker[w].sent
  PROVE  Answer(c)'
  BY DEF Answer

\* A step of a worker that touches neither queue and does not take up a request.
LEMMA WorkerMoves ==
  ASSUME Types, NEW w \in Workers, Top(w) \/ EndWithoutFinal(w) \/ AfterFailure(w)
  PROVE  /\ UNCHANGED <<requests, queues, client>>
         /\ \A u \in Workers, c \in Clients :
              Serves(u, c)' => Serves(u, c) /\ worker'[u].sent = worker[u].sent
<1>1. CASE Top(w)
  BY <1>1 DEF Top, Types, WorkerState, Serves
<1>2. CASE EndWithoutFinal(w)
  BY <1>2 DEF EndWithoutFinal, Types, WorkerState, Serves
<1>3. CASE AfterFailure(w)
  BY <1>3 DEF AfterFailure, Types, WorkerState, Serves
<1> QED
  BY <1>1, <1>2, <1>3

\* A push adds the request to the queue and gives no worker another request.
LEMMA SendRequestFacts ==
  ASSUME Types, NEW c \in Clients, SendRequest(c)
  PROVE  /\ client[c].pc = "new" /\ client' = [client EXCEPT ![c].pc = "pop"]
         /\ requests' = Append(requests, c) /\ queues' = queues
         /\ \A d \in Clients : Waits(d)' <=> Waits(d) \/ d = c
         /\ \A w \in Workers, d \in Clients :
              Serves(w, d)' => Serves(w, d) /\ worker'[w].sent = worker[w].sent
<1>1. worker \in [Workers -> WorkerState] /\ worker' \in OneWoken(worker)
  BY DEF SendRequest, NotifyWorker, Types
<1>2. \A w \in Workers : /\ worker'[w].req = worker[w].req /\ worker'[w].sent = worker[w].sent
                         /\ worker'[w].pc = "generate" => worker[w].pc = "generate"
  BY <1>1, WokenWorkers
<1>3. requests' = Append(requests, c) /\ requests \in Seq(Clients)
  BY DEF SendRequest, Types
<1>4. \A d \in Clients : Waits(d)' <=> Waits(d) \/ d = c
  <2> TAKE d \in Clients
  <2>1. DOMAIN requests = 1..Len(requests) /\ DOMAIN requests' = 1..(Len(requests) + 1)
    BY <1>3
  <2>2. \A i \in 1..Len(requests) : requests'[i] = requests[i]
    BY <1>3
  <2>3. requests'[Len(requests) + 1] = c /\ Len(requests) \in Nat
    BY <1>3
  <2>4. \A i \in 1..(Len(requests) + 1) : i \in 1..Len(requests) \/ i = Len(requests) + 1
    BY <2>3
  <2>5. \A i \in 1..Len(requests) : i \in 1..(Len(requests) + 1)
    BY <2>3
  <2>6. Len(requests) + 1 \in 1..(Len(requests) + 1)
    BY <2>3
  <2> QED
    BY <2>1, <2>2, <2>3, <2>4, <2>5, <2>6, Zenon DEF Waits
<1> QED
  BY <1>2, <1>3, <1>4 DEF SendRequest, Serves

\* A worker takes the first request of the queue.
LEMMA PopRequestFacts ==
  ASSUME Types, OnePlace, NEW w \in Workers, PopRequest(w), MayPop
  PROVE  /\ UNCHANGED <<queues, client>>
         /\ requests # <<>> /\ Head(requests) \in Clients /\ Waits(Head(requests))
         /\ requests' = Tail(requests)
         /\ \A d \in Clients : Waits(d)' => Waits(d) /\ d # Head(requests)
         /\ worker'[w].sent = 0
         /\ \A u \in Workers, d \in Clients :
              Serves(u, d)' =>
                \/ u = w /\ d = Head(requests)
                \/ Serves(u, d) /\ worker'[u].sent = worker[u].sent
<1>1. requests \in Seq(Clients) /\ requests # <<>> /\ requests' = Tail(requests)
  BY DEF PopRequest, MayPop, Types
<1>2. /\ DOMAIN requests = 1..Len(requests) /\ 1 \in DOMAIN requests
      /\ Head(requests) = requests[1] /\ Head(requests) \in Clients
  BY <1>1
<1>3. \A i \in DOMAIN requests' : i + 1 \in DOMAIN requests /\ i + 1 # 1
                                    /\ requests'[i] = requests[i + 1]
  BY <1>1
<1>4. \A d \in Clients : Waits(d)' => Waits(d) /\ d # Head(requests)
  BY <1>2, <1>3 DEF Waits, OnePlace
<1>5. worker' = [worker EXCEPT ![w] = [pc |-> "generate", req |-> Head(requests), sent |-> 0]]
  BY DEF PopRequest
<1>6. \A u \in Workers, d \in Clients :
         Serves(u, d)' =>
           \/ u = w /\ d = Head(requests)
           \/ Serves(u, d) /\ worker'[u].sent = worker[u].sent
  BY <1>5 DEF Serves, Types
<1> QED
  BY <1>1, <1>2, <1>4, <1>5, <1>6 DEF PopRequest, Waits, Types

\* Every step keeps a request at one place: not sent yet, queued, or with one worker.
LEMMA OnePlaceNext == Types /\ OnePlace /\ [Next]_vars => OnePlace'
<1> SUFFICES ASSUME Types, OnePlace, [Next]_vars PROVE OnePlace'
  OBVIOUS
<1>1. CASE UNCHANGED vars
  BY <1>1, OnePlaceFrame DEF vars, Serves
<1>2. ASSUME NEW c \in Clients, SendRequest(c) PROVE OnePlace'
  <2>1. requests \in Seq(Clients) /\ client \in [Clients -> ClientState]
    BY DEF Types
  <2>2. ~Waits(c) /\ \A w \in Workers : ~Serves(w, c)
    BY <1>2, SendRequestFacts DEF OnePlace
  <2>3. \A i, j \in DOMAIN requests' : requests'[i] = requests'[j] => i = j
    BY <1>2, <2>1, <2>2, SendRequestFacts DEF OnePlace, Waits
  <2>4. client'[c].pc = "pop" /\ \A d \in Clients : d # c => client'[d] = client[d]
    BY <1>2, <2>1, SendRequestFacts DEF ClientState
  <2> QED
    BY <1>2, <2>2, <2>3, <2>4, SendRequestFacts DEF OnePlace
<1>3. ASSUME NEW c \in Clients, Poll(c) \/ Disconnect(c) PROVE OnePlace'
  <2>1. \A d \in Clients : client'[d].pc = "new" => client[d].pc = "new"
    BY <1>3 DEF Poll, Disconnect, Types, ClientState
  <2> QED
    BY <1>3, <2>1, OnePlaceFrame DEF Poll, Disconnect, Serves
<1>4. ASSUME NEW w \in Workers, Top(w) \/ EndWithoutFinal(w) \/ AfterFailure(w)
      PROVE  OnePlace'
  BY <1>4, WorkerMoves, OnePlaceFrame
<1>5. ASSUME NEW w \in Workers, PopRequest(w) PROVE OnePlace'
  <2>1. CASE MayPop
    <3>1. \A i, j \in DOMAIN requests' : requests'[i] = requests'[j] => i = j
      <4>1. requests \in Seq(Clients) /\ requests # <<>> /\ requests' = Tail(requests)
        BY <1>5, <2>1, PopRequestFacts DEF Types
      <4>2. \A i \in DOMAIN requests' :
               i \in Int /\ i + 1 \in DOMAIN requests /\ requests'[i] = requests[i + 1]
        BY <4>1
      <4>3. \A i, j \in DOMAIN requests' : requests'[i] = requests'[j] => i + 1 = j + 1
        BY <4>2 DEF OnePlace
      <4> QED
        BY <4>2, <4>3
    <3>2. \A u \in Workers : ~Serves(u, Head(requests))
      BY <1>5, <2>1, PopRequestFacts DEF OnePlace
    <3>3. client[Head(requests)].pc # "new"
      BY <1>5, <2>1, PopRequestFacts DEF OnePlace
    <3> QED
      BY <1>5, <2>1, <3>1, <3>2, <3>3, PopRequestFacts DEF OnePlace
  <2>2. CASE ~MayPop
    <3>1. requests' = requests /\ client' = client
      BY <1>5, <2>2 DEF PopRequest
    <3>2. \A u \in Workers, c \in Clients : Serves(u, c)' => Serves(u, c)
      BY <1>5, <2>2 DEF PopRequest, Types, WorkerState, Serves
    <3> QED
      BY <3>1, <3>2, OnePlaceFrame
  <2> QED
    BY <2>1, <2>2
<1>6. ASSUME NEW w \in Workers, Emit(w) \/ EmitFinal(w) PROVE OnePlace'
  <2>1. requests' = requests /\ client' \in OneWoken(client)
    BY <1>6 DEF Emit, EmitFinal, PushResponse
  <2>2. \A c \in Clients : client'[c].pc = "new" => client[c].pc = "new"
    BY <2>1, WokenClients DEF Types
  <2>3. \A u \in Workers, c \in Clients : Serves(u, c)' => Serves(u, c)
    <3>1. CASE Emit(w)
      BY <3>1 DEF Emit, Types, WorkerState, Serves
    <3>2. CASE EmitFinal(w)
      BY <3>2 DEF EmitFinal, Types, WorkerState, Serves
    <3> QED
      BY <1>6, <3>1, <3>2
  <2> QED
    BY <2>1, <2>2, <2>3, OnePlaceFrame
<1>7. CASE ShutRequests
  <2>1. worker \in [Workers -> WorkerState] /\ worker' = AllWoken(worker)
    BY <1>7 DEF ShutRequests, ReqWoken, Types
  <2>2. \A u \in Workers, c \in Clients : Serves(u, c)' => Serves(u, c)
    BY <2>1, WokenWorkers DEF Serves
  <2> QED
    BY <1>7, <2>2, OnePlaceFrame DEF ShutRequests
<1>8. CASE StopRunning \/ Join
  BY <1>8, OnePlaceFrame DEF StopRunning, Join, Serves
<1>9. CASE ShutResponses
  <2>1. client \in [Clients -> ClientState] /\ client' = AllWoken(client)
    BY <1>9 DEF ShutResponses, RespWoken, Types
  <2>2. \A c \in Clients : client'[c].pc = "new" => client[c].pc = "new"
    BY <2>1, WokenClients
  <2> QED
    BY <1>9, <2>2, OnePlaceFrame DEF ShutResponses, Serves
<1> QED
  BY <1>1, <1>2, <1>3, <1>4, <1>5, <1>6, <1>7, <1>8, <1>9 DEF Next, WorkerStep, StopStep

\* Counting one chunk more: what is queued grows by one.
LEMMA OneMore ==
  ASSUME NEW a \in Nat, NEW b \in Nat
  PROVE  (a + b) + 1 = a + (b + 1)
  OBVIOUS

\* Counting one chunk moved from the queue to the client.
LEMMA OneMoved ==
  ASSUME NEW a \in Nat, NEW b \in Nat
  PROVE  a + (b + 1) = (a + 1) + b /\ a + b = (a + 1) + (b - 1)
  OBVIOUS

\* The last element of a queue is the one just pushed.
LEMMA LastOfAppend ==
  ASSUME NEW S, NEW s \in Seq(S), NEW x \in S
  PROVE  Append(s, x)[Len(s) + 1] = x
  OBVIOUS

\* The callback adds the next chunk of the answer its worker is at.
LEMMA EmitKeepsAnswers ==
  ASSUME DistinctIds, Types, OnePlace, Answers,
         NEW w \in Workers, Emit(w) \/ EmitFinal(w)
  PROVE  Answers'
<1>0. PICK c \in Clients : c = worker[w].req
  BY DEF Types, WorkerState
<1> DEFINE n == Len(client[c].got)
           q == queues[IdOf[c]]
<1>1. c \in Clients /\ worker[w].sent \in Nat /\ IdOf[c] \in Ids /\ Serves(w, c)
  BY <1>0 DEF Types, WorkerState, Ids, Serves, Emit, EmitFinal
<1>2. PICK last \in BOOLEAN : PushResponse(c, Chunk(c, worker[w].sent + 1, last))
  BY <1>0 DEF Emit, EmitFinal
<1>3. Chunk(c, worker[w].sent + 1, last) \in Item
  BY <1>1, ChunkIsItem
<1>4. /\ queues' = [queues EXCEPT ![IdOf[c]] = Append(@, Chunk(c, worker[w].sent + 1, last))]
      /\ \A d \in Clients : /\ client'[d].got = client[d].got
                            /\ \/ client'[d].pc = client[d].pc
                               \/ client[d].pc = "asleep" /\ client'[d].pc = "pop"
  BY <1>1, <1>2, <1>3, Pushed
<1>5. \A d \in Clients : Waits(d)' <=> Waits(d)
  BY DEF Emit, EmitFinal, Waits
<1>6. \A u \in Workers, d \in Clients :
         Serves(u, d)' =>
           /\ Serves(u, d)
           /\ worker'[u].sent = IF u = w THEN worker[w].sent + 1 ELSE worker[u].sent
  <2>1. CASE Emit(w)
    BY <2>1 DEF Emit, Types, WorkerState, Serves
  <2>2. CASE EmitFinal(w)
    BY <2>2 DEF EmitFinal, Types, WorkerState, Serves
  <2> QED
    BY <2>1, <2>2
<1>7. ASSUME NEW d \in Clients, d # c PROVE Answer(d)'
  <2>1. IdOf[d] \in Ids /\ IdOf[d] # IdOf[c]
    BY <1>1, <1>7 DEF DistinctIds, Ids
  <2>2. queues'[IdOf[d]] = queues[IdOf[d]]
    BY <1>1, <1>4, <2>1 DEF Types
  <2>3. \A u \in Workers : Serves(u, d) => u # w
    BY <1>0, <1>7 DEF Serves
  <2> QED
    BY <1>4, <1>5, <1>6, <2>2, <2>3, AnswerFrame DEF Answers
<1>8. Answer(c)'
  <2>1. q \in Seq(Item) /\ client[c].got \in Seq(Item)
    BY <1>1 DEF Types, ClientState
  <2>2. queues'[IdOf[c]] = Append(q, Chunk(c, worker[w].sent + 1, last))
    BY <1>1, <1>4 DEF Types
  <2>3. Len(queues'[IdOf[c]]) = Len(q) + 1
    BY <2>1, <2>2
  <2>4. client[c].pc # "new" /\ ~Waits(c) /\ \A u \in Workers : Serves(u, c) => u = w
    BY <1>1 DEF OnePlace
  <2>5. CASE client[c].pc = "over"
    BY <1>1, <1>4, <2>5 DEF Answers, Answer
  <2>6. CASE client[c].pc # "over"
    <3>1. worker[w].sent = n + Len(q)
      BY <1>1, <2>6 DEF Answers, Answer
    <3>2. \A j \in 1..Len(q) : q[j] \in {Chunk(c, n + j, fin) : fin \in BOOLEAN}
      BY <1>1, <2>6 DEF Answers, Answer
    <3>3. \A j \in 1..(Len(q) + 1) :
             queues'[IdOf[c]][j] \in {Chunk(c, n + j, fin) : fin \in BOOLEAN}
      <4>1. n \in Nat /\ Len(q) \in Nat
        BY <2>1
      <4>2. \A j \in 1..Len(q) : queues'[IdOf[c]][j] = q[j]
        BY <2>1, <2>2
      <4>3. queues'[IdOf[c]][Len(q) + 1] = Chunk(c, n + (Len(q) + 1), last)
        <5>1. Append(q, Chunk(c, worker[w].sent + 1, last))[Len(q) + 1]
                = Chunk(c, worker[w].sent + 1, last)
          BY <2>1
        <5>2. worker[w].sent + 1 = n + (Len(q) + 1)
          BY <3>1, <4>1, OneMore, Zenon
        <5> QED
          BY <2>2, <5>1, <5>2
      <4>4. \A j \in 1..(Len(q) + 1) : j \in 1..Len(q) \/ j = Len(q) + 1
        BY <4>1
      <4> QED
        BY <3>2, <4>2, <4>3, <4>4, Zenon
    <3>4. client'[c].got = [i \in 1..n |-> Chunk(c, i, FALSE)]
      BY <1>1, <1>4 DEF Answers, Answer
    <3>5. Len(client'[c].got) = n
      BY <1>1, <1>4
    <3>6. client'[c].pc # "new" /\ ~Waits(c)'
      BY <1>1, <1>4, <1>5, <2>4
    <3>7. \A u \in Workers : Serves(u, c)' => worker'[u].sent = n + (Len(q) + 1)
      <4>1. n \in Nat /\ Len(q) \in Nat
        BY <2>1
      <4>2. worker[w].sent + 1 = n + (Len(q) + 1)
        BY <3>1, <4>1, OneMore, Zenon
      <4>3. \A u \in Workers : Serves(u, c)' => u = w /\ worker'[u].sent = worker[w].sent + 1
        BY <1>1, <1>6, <2>4
      <4> QED
        BY <4>2, <4>3, Zenon
    <3>8. client'[c].got = [i \in 1..Len(client'[c].got) |-> Chunk(c, i, FALSE)]
      BY <3>4, <3>5
    <3> QED
      BY <2>3, <3>3, <3>5, <3>6, <3>7, <3>8 DEF Answer
  <2> QED
    BY <2>5, <2>6
<1> QED
  BY <1>7, <1>8 DEF Answers

\* A client takes the first chunk of its queue, the next one of its answer.
LEMMA PollKeepsAnswers ==
  ASSUME DistinctIds, Types, OnePlace, Answers, NEW c \in Clients, Poll(c)
  PROVE  Answers'
<1> DEFINE n == Len(client[c].got)
           q == queues[IdOf[c]]
<1>1. /\ IdOf[c] \in Ids /\ client[c] \in ClientState /\ q \in Seq(Item)
      /\ client[c].pc = "pop" /\ client[c].got \in Seq(Item)
  BY DEF Poll, Types, ClientState, Ids
<1>2. \A d \in Clients : Waits(d)' <=> Waits(d)
  BY DEF Poll, Waits
<1>3. \A u \in Workers, d \in Clients :
         /\ Serves(u, d)' <=> Serves(u, d)
         /\ worker'[u].sent = worker[u].sent
  BY DEF Poll, Serves
<1>4. ASSUME NEW d \in Clients, d # c PROVE Answer(d)'
  <2>1. IdOf[d] \in Ids /\ IdOf[d] # IdOf[c]
    BY <1>4 DEF DistinctIds, Ids
  <2>2. client'[d] = client[d] /\ queues'[IdOf[d]] = queues[IdOf[d]]
    BY <1>1, <1>4, <2>1 DEF Poll, Rest, Types
  <2> QED
    BY <1>2, <1>3, <2>2, AnswerFrame DEF Answers
<1>5. Answer(c)'
  <2>1. CASE resp_stop
    BY <1>2, <1>3, <2>1, AnswerFrame DEF Poll, Answers
  <2>2. CASE ~resp_stop /\ q = <<>>
    <3>1. queues' = queues /\ client' = [client EXCEPT ![c].pc = "asleep"]
      BY <2>2 DEF Poll
    <3>2. client'[c].got = client[c].got /\ client'[c].pc = "asleep"
      BY <3>1 DEF Types, ClientState
    <3> QED
      BY <1>1, <1>2, <1>3, <3>1, <3>2, AnswerFrame DEF Answers
  <2>3. CASE ~resp_stop /\ q # <<>> /\ Head(q).finished
    <3>1. client' = [client EXCEPT ![c].pc = "over"]
      BY <2>3 DEF Poll
    <3>2. client'[c].got = client[c].got /\ client'[c].pc = "over"
      BY <3>1 DEF Types, ClientState
    <3> QED
      BY <3>2 DEF Answers, Answer
  <2>4. CASE ~resp_stop /\ q # <<>> /\ ~Head(q).finished
    <3>1. /\ n \in Nat /\ Len(q) \in Nat /\ Len(q) >= 1
          /\ Len(Tail(q)) = Len(q) - 1 /\ Head(q) = q[1] /\ Head(q) \in Item
          /\ \A j \in 1..Len(Tail(q)) : j + 1 \in 1..Len(q) /\ Tail(q)[j] = q[j + 1]
      BY <1>1, <2>4
    <3>2. /\ client' = [client EXCEPT ![c].got = Append(@, Head(q))]
          /\ queues' = [queues EXCEPT ![IdOf[c]] = Tail(@)]
      BY <2>4 DEF Poll, Rest
    <3>3. /\ client'[c].got = Append(client[c].got, Head(q)) /\ client'[c].pc = "pop"
          /\ queues'[IdOf[c]] = Tail(q)
      BY <1>1, <3>2 DEF Types, ClientState
    <3>4. /\ client[c].got = [i \in 1..n |-> Chunk(c, i, FALSE)]
          /\ \A j \in 1..Len(q) : q[j] \in {Chunk(c, n + j, last) : last \in BOOLEAN}
          /\ client[c].pc = "new" \/ Waits(c) => Len(q) = 0
          /\ \A w \in Workers : Serves(w, c) => worker[w].sent = n + Len(q)
      BY <1>1 DEF Answers, Answer
    <3>5. Head(q) = Chunk(c, n + 1, FALSE)
      <4>1. PICK last \in BOOLEAN : Head(q) = Chunk(c, n + 1, last)
        <5>1. 1 \in 1..Len(q)
          BY <3>1
        <5> QED
          BY <3>1, <3>4, <5>1
      <4>2. Chunk(c, n + 1, last).finished = last
        BY DEF Chunk
      <4> QED
        BY <2>4, <4>1, <4>2, Zenon
    <3>6. Len(client'[c].got) = n + 1
      BY <1>1, <3>1, <3>3
    <3>7. client'[c].got = [i \in 1..(n + 1) |-> Chunk(c, i, FALSE)]
      <4>1. client'[c].got \in Seq(Item)
        BY <1>1, <3>1, <3>3
      <4>2. client'[c].got = [i \in 1..(n + 1) |-> client'[c].got[i]]
        BY <3>6, <4>1
      <4>3. \A i \in 1..n : client'[c].got[i] = client[c].got[i]
        BY <1>1, <3>1, <3>3
      <4>4. client'[c].got[n + 1] = Chunk(c, n + 1, FALSE)
        <5>1. Append(client[c].got, Head(q))[n + 1] = Head(q)
          BY <1>1, <3>1, LastOfAppend
        <5> QED
          BY <3>3, <3>5, <5>1, Zenon
      <4>5. \A i \in 1..n : client[c].got[i] = Chunk(c, i, FALSE)
        BY <3>4
      <4>6. \A i \in 1..(n + 1) : i \in 1..n \/ i = n + 1
        BY <3>1
      <4>7. \A i \in 1..(n + 1) : client'[c].got[i] = Chunk(c, i, FALSE)
        BY <4>3, <4>4, <4>5, <4>6, Zenon
      <4> QED
        BY <4>2, <4>7, Zenon
    <3>8. \A j \in 1..Len(Tail(q)) :
             Tail(q)[j] \in {Chunk(c, (n + 1) + j, last) : last \in BOOLEAN}
      <4> TAKE j \in 1..Len(Tail(q))
      <4>1. j + 1 \in 1..Len(q) /\ Tail(q)[j] = q[j + 1]
        BY <3>1
      <4>2. q[j + 1] \in {Chunk(c, n + (j + 1), last) : last \in BOOLEAN}
        BY <3>4, <4>1
      <4>3. j \in Nat
        OBVIOUS
      <4>4. n + (j + 1) = (n + 1) + j
        BY <3>1, <4>3, OneMoved, Zenon
      <4> QED
        BY <4>1, <4>2, <4>4
    <3>9. client'[c].pc # "new" /\ ~Waits(c)'
      BY <1>2, <3>1, <3>3, <3>4
    <3>10. \A w \in Workers : Serves(w, c)' => worker'[w].sent = (n + 1) + Len(Tail(q))
      <4>1. n + Len(q) = (n + 1) + Len(Tail(q))
        BY <3>1, OneMoved, Zenon
      <4> QED
        BY <1>3, <3>4, <4>1, Zenon
    <3>11. /\ client'[c].got = [i \in 1..Len(client'[c].got) |-> Chunk(c, i, FALSE)]
           /\ \A j \in 1..Len(queues'[IdOf[c]]) :
                queues'[IdOf[c]][j] \in {Chunk(c, Len(client'[c].got) + j, last) : last \in BOOLEAN}
           /\ \A w \in Workers :
                Serves(w, c)' => worker'[w].sent = Len(client'[c].got) + Len(queues'[IdOf[c]])
      BY <3>3, <3>6, <3>7, <3>8, <3>10, Zenon
    <3> QED
      BY <3>9, <3>11, Zenon DEF Answer
  <2> QED
    BY <2>1, <2>2, <2>3, <2>4 DEF Types
<1> QED
  BY <1>4, <1>5 DEF Answers

\* Every step keeps the answers: what a client got, then what is queued for it, then what its
\* worker sends next are the chunks 1, 2, ... of its answer.
LEMMA AnswersNext ==
  ASSUME DistinctIds, Types, OnePlace, Answers, [Next]_vars
  PROVE  Answers'
<1>1. CASE UNCHANGED vars
  BY <1>1, AnswerFrame DEF vars, Answers, Waits, Serves
<1>2. ASSUME NEW c \in Clients, SendRequest(c) PROVE Answers'
  <2>1. \A d \in Clients : /\ client'[d].got = client[d].got
                           /\ client[d].pc = "over" => client'[d].pc = "over"
                           /\ client'[d].pc = "new" => client[d].pc = "new"
    <3>1. /\ client' = [client EXCEPT ![c].pc = "pop"] /\ client[c].pc = "new"
          /\ client \in [Clients -> ClientState]
      BY <1>2, SendRequestFacts DEF Types
    <3> QED
      BY <3>1 DEF ClientState
  <2> QED
    BY <1>2, <2>1, SendRequestFacts, AnswerFrame DEF Answers
<1>3. ASSUME NEW c \in Clients, Poll(c) PROVE Answers'
  BY <1>3, PollKeepsAnswers
<1>4. ASSUME NEW c \in Clients, Disconnect(c) PROVE Answers'
  <2>1. \A d \in Clients : /\ client'[d].got = client[d].got
                           /\ client[d].pc = "over" => client'[d].pc = "over"
                           /\ client'[d].pc = "new" => client[d].pc = "new"
    BY <1>4 DEF Disconnect, Types, ClientState
  <2> QED
    BY <1>4, <2>1, AnswerFrame DEF Disconnect, Answers, Waits, Serves
<1>5. ASSUME NEW w \in Workers, Top(w) \/ EndWithoutFinal(w) \/ AfterFailure(w)
      PROVE  Answers'
  BY <1>5, WorkerMoves, AnswerFrame DEF Answers, Waits
<1>6. ASSUME NEW w \in Workers, PopRequest(w) PROVE Answers'
  <2>1. CASE MayPop
    <3>1. ASSUME NEW d \in Clients, d # Head(requests) PROVE Answer(d)'
      BY <1>6, <2>1, <3>1, PopRequestFacts, AnswerFrame DEF Answers
    <3>2. ASSUME NEW d \in Clients, d = Head(requests) PROVE Answer(d)'
      <4>1. \A u \in Workers : ~Serves(u, d)
        BY <1>6, <2>1, <3>2, PopRequestFacts DEF OnePlace
      <4>2. \A u \in Workers : Serves(u, d)' => worker'[u].sent = 0
        BY <1>6, <2>1, <4>1, PopRequestFacts
      <4>3. client[d].pc # "over" => Len(client[d].got) = 0 /\ Len(queues[IdOf[d]]) = 0
        BY <1>6, <2>1, <3>2, PopRequestFacts DEF Answers, Answer
      <4>4. UNCHANGED <<client, queues>>
        BY <1>6, <2>1, PopRequestFacts
      <4>5. /\ client[d].got = [i \in 1..Len(client[d].got) |-> Chunk(d, i, FALSE)]
            /\ client[d].pc # "over" =>
                 \A j \in 1..Len(queues[IdOf[d]]) :
                    queues[IdOf[d]][j] \in {Chunk(d, Len(client[d].got) + j, last) : last \in BOOLEAN}
        BY DEF Answers, Answer
      <4>6. client[d].pc # "over" => 0 = Len(client[d].got) + Len(queues[IdOf[d]])
        <5>1. 0 = 0 + 0
          OBVIOUS
        <5> QED
          BY <4>3, <5>1, Zenon
      <4> QED
        BY <4>2, <4>3, <4>4, <4>5, <4>6 DEF Answer
    <3> QED
      BY <3>1, <3>2 DEF Answers
  <2>2. CASE ~MayPop
    <3>1. UNCHANGED <<requests, client, queues>>
      BY <1>6, <2>2 DEF PopRequest
    <3>2. \A u \in Workers, c \in Clients :
             Serves(u, c)' => Serves(u, c) /\ worker'[u].sent = worker[u].sent
      BY <1>6, <2>2 DEF PopRequest, Types, WorkerState, Serves
    <3> QED
      BY <3>1, <3>2, AnswerFrame DEF Answers, Waits
  <2> QED
    BY <2>1, <2>2
<1>7. ASSUME NEW w \in Workers, Emit(w) \/ EmitFinal(w) PROVE Answers'
  BY <1>7, EmitKeepsAnswers
<1>8. CASE ShutRequests
  <2>1. worker \in [Workers -> WorkerState] /\ worker' = AllWoken(worker)
    BY <1>8 DEF ShutRequests, ReqWoken, Types
  <2>2. \A u \in Workers, c \in Clients :
           Serves(u, c)' => Serves(u, c) /\ worker'[u].sent = worker[u].sent
    BY <2>1, WokenWorkers DEF Serves
  <2> QED
    BY <1>8, <2>2, AnswerFrame DEF ShutRequests, Answers, Waits
<1>9. CASE StopRunning \/ Join
  BY <1>9, AnswerFrame DEF StopRunning, Join, Answers, Waits, Serves
<1>10. CASE ShutResponses
  <2>1. client \in [Clients -> ClientState] /\ client' = AllWoken(client)
    BY <1>10 DEF ShutResponses, RespWoken, Types
  <2>2. \A c \in Clients : /\ client'[c].got = client[c].got
                           /\ client[c].pc = "over" => client'[c].pc = "over"
                           /\ client'[c].pc = "new" => client[c].pc = "new"
    BY <2>1, WokenClients
  <2> QED
    BY <1>10, <2>2, AnswerFrame DEF ShutResponses, Answers, Waits, Serves
<1> QED
  BY <1>1, <1>2, <1>3, <1>4, <1>5, <1>6, <1>7, <1>8, <1>9, <1>10
     DEF Next, WorkerStep, StopStep

\* Every client gets the chunks of its own answer in order, none missing and none
\* twice, provided that no two requests have the same id.
THEOREM AnswersInOrder == DistinctIds => (Spec => []OwnAnswerInOrder)
<1> SUFFICES ASSUME DistinctIds PROVE Spec => []OwnAnswerInOrder
  OBVIOUS
<1> DEFINE Inv == Types /\ OnePlace /\ Answers
<1>1. Init => Inv
  <2> SUFFICES ASSUME Init PROVE Inv
    OBVIOUS
  <2>1. OnePlace
    BY DEF Init, OnePlace, Waits, Serves
  <2>2. Answers
    BY DEF Init, Answers, Answer, Waits, Serves, Ids
  <2> QED
    BY <2>1, <2>2, TypesInit
<1>2. Inv /\ [Next]_vars => Inv'
  BY TypesNext, OnePlaceNext, AnswersNext
<1>3. Inv => OwnAnswerInOrder
  <2> SUFFICES ASSUME Inv, NEW c \in Clients
               PROVE  client[c].got = [i \in DOMAIN client[c].got |-> Chunk(c, i, FALSE)]
    BY DEF OwnAnswerInOrder
  <2>1. client[c].got \in Seq(Item)
    BY DEF Types, ClientState
  <2> QED
    BY <2>1 DEF Answers, Answer
<1> QED
  BY <1>1, <1>2, <1>3, PTL DEF Spec
=============================================================================
