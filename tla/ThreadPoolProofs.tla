-------------------------- MODULE ThreadPoolProofs --------------------------
(***************************************************************************)
(* Proofs about ThreadPool for any number of threads and any loops. With   *)
(* one thread that pushes (the default of startService(): one worker of    *)
(* the service), each iteration of a loop runs exactly once before push()  *)
(* returns, no worker calls the function of a push that is over, and no    *)
(* flag is left behind.                                                    *)
(***************************************************************************)
EXTENDS ThreadPool, TLAPS

\* One thread pushes loops; with more, the pushes share one slot and the
\* theorems below fail (the run ThreadPool_forks).
OneCaller == \A s, u \in Submitters : s = u

\* Every step divides its range, so that true_idx holds all iterations.
StepsDivide == \A l \in Loops : (l.end - l.start) % l.step = 0

SubmitterRecord ==
  [pc : {"out", "in", "split", "flags", "own", "wait", "returned", "gone"},
   loop : Loops \cup {NoLoop}, tiles : Int, next : Int]

WorkerRecord ==
  [pc : {"top", "check", "scan", "run", "clear", "wait", "asleep", "exit"}, slot : Slots]

Types ==
  /\ task_index \in {-1, 0}
  /\ life = "new" => task_index = -1 /\ task_available = Slots
  /\ life # "new" => task_index = 0
  /\ flags \in [Slots -> SUBSET Workers]
  /\ worker \in [Workers -> WorkerRecord]
  /\ submitter \in [Submitters -> SubmitterRecord]
  /\ tasks = [i \in Slots |-> tasks[i]]
  /\ done = [s \in Submitters |-> done[s]]

\* A push that may have set flags.
Busy(s) == submitter[s].pc \in {"flags", "own", "wait"}

\* The backend's slot is the only one used; flags are set during a push only, and
\* a worker that calls the function or is about to clear its flag has it set.
FlagsMeanWork ==
  /\ flags[1] = {}
  /\ (\A s \in Submitters : ~Busy(s)) => flags[0] = {}
  /\ \A t \in Workers : worker[t].pc \in {"run", "clear"} =>
       worker[t].slot = 0 /\ t \in flags[0]

\* The loop of a push that was split.
Split(s) ==
  submitter[s].pc = "split" \/ Busy(s) =>
    /\ life = "up" /\ submitter[s].loop \in Loops
    /\ TilesNum(submitter[s].loop) > 1
    /\ submitter[s].tiles = Parts(submitter[s].loop)

\* Threads below this number were given their flag.
Started(s) == IF submitter[s].pc = "flags" THEN submitter[s].next ELSE submitter[s].tiles

HasRun(s, t) ==
  IF t = 0 THEN submitter[s].pc = "wait"
  ELSE t < Started(s) /\ (t \notin flags[0] \/ worker[t].pc = "clear")

RanThreads(s) == {t \in 0..(submitter[s].tiles - 1) : HasRun(s, t)}

\* What has run of a loop when the threads in H have run their shares.
DoneBy(l, H) ==
  [i \in Iterations(l) |-> IF \E t \in H : i \in Share(l, t) THEN 1 ELSE 0]

\* The push under way: its function is in the slot, the flags that are set are
\* those it set, and the iterations done are those of the threads that have run.
Progress(s) ==
  Busy(s) =>
    /\ tasks[0] = [by |-> s, loop |-> submitter[s].loop]
    /\ submitter[s].next \in 1..submitter[s].tiles
    /\ flags[0] \subseteq 1..(Started(s) - 1)
    /\ submitter[s].pc = "wait" =>
         \A t \in 1..(submitter[s].next - 1) : t \notin flags[0]
    /\ done[s] = DoneBy(submitter[s].loop, RanThreads(s))

\* Before the split nothing has run, at the return all has, unless true_idx was
\* too short.
Ends(s) ==
  /\ submitter[s].pc = "split" =>
       submitter[s].next = 1 /\ done[s] = [i \in Iterations(submitter[s].loop) |-> 0]
  /\ StepsDivide /\ submitter[s].pc = "returned" =>
       done[s] = [i \in Iterations(submitter[s].loop) |-> 1]

\* What is proved inductive.
PushInv ==
  /\ Types /\ FlagsMeanWork
  /\ \A s \in Submitters : Split(s) /\ Progress(s) /\ Ends(s)

-----------------------------------------------------------------------------
\* Multiples of a step are apart.
LEMMA Multiples ==
  ASSUME NEW k \in Nat \ {0}, NEW v \in Int, NEW w \in Int, v < w
  PROVE  v * k < w * k
<1>. DEFINE d == w - v
<1>1. d \in Nat /\ d >= 1 /\ w = v + d
  OBVIOUS
<1>. HIDE DEF d
<1>2. w * k = v * k + d * k
  BY <1>1
<1>3. d * k >= 1 /\ d * k \in Int /\ v * k \in Int
  BY <1>1
<1>. QED BY <1>2, <1>3

\* A range that its step divides is a multiple of it.
LEMMA Divides ==
  ASSUME NEW k \in Nat \ {0}, NEW a \in Int, a % k = 0
  PROVE  a \div k \in Int /\ a = (a \div k) * k
OBVIOUS

\* The iteration numbers of two threads differ, so their iterations do.
LEMMA ShareApart ==
  ASSUME NEW l \in Loops, NEW t \in Int, NEW u \in Int, t # u
  PROVE  Share(l, t) \cap Share(l, u) = {}
<1>. SUFFICES ASSUME NEW i, i \in Share(l, t), i \in Share(l, u) PROVE FALSE
  OBVIOUS
<1>1. l.start \in Nat /\ l.end \in Nat /\ l.step \in Nat \ {0}
  BY LoopsAssumption DEF LoopsAssumption
<1>2. TilesNum(l) \in Int
  BY <1>1 DEF TilesNum
<1>3. PICK v \in 0..(TilesNum(l) - 1) : i = l.start + v * l.step /\ v % ThreadCnt = t
  BY DEF Share, TrueIdx
<1>4. PICK w \in 0..(TilesNum(l) - 1) : i = l.start + w * l.step /\ w % ThreadCnt = u
  BY DEF Share, TrueIdx
<1>5. v * l.step = w * l.step
  BY <1>1, <1>2, <1>3, <1>4
<1>6. ~(v < w) /\ ~(w < v)
  <2>. DEFINE k == l.step
  <2>1. v \in Int /\ w \in Int /\ k \in Nat \ {0} /\ v * k = w * k
    BY <1>1, <1>2, <1>5
  <2>. HIDE DEF k
  <2>2. v * k \in Int /\ w * k \in Int
    BY <2>1
  <2>3. (v < w => v * k < w * k) /\ (w < v => w * k < v * k)
    BY <2>1, Multiples
  <2>. QED BY <2>1, <2>2, <2>3
<1>7. v = w
  BY <1>2, <1>6
<1>. QED BY <1>3, <1>4, <1>7

\* A thread that gets a flag has an iteration to run.
LEMMA ShareSome ==
  ASSUME NEW l \in Loops, NEW t \in 0..(Parts(l) - 1), TilesNum(l) > 1
  PROVE  Share(l, t) # {} /\ Parts(l) \in Nat /\ Parts(l) <= ThreadCnt /\ Parts(l) >= 1
<1>1. l.start \in Nat /\ l.end \in Nat /\ l.step \in Nat \ {0}
  BY LoopsAssumption DEF LoopsAssumption
<1>2. TilesNum(l) \in Nat /\ ThreadCnt \in Nat \ {0}
  BY <1>1, ThreadCntAssumption DEF TilesNum, ThreadCntAssumption
<1>3. t \in 0..(TilesNum(l) - 1) /\ t \in 0..(ThreadCnt - 1)
  BY <1>2 DEF Parts
<1>4. t % ThreadCnt = t
  BY <1>2, <1>3
<1>5. TrueIdx(l)[t] \in Share(l, t)
  BY <1>3, <1>4 DEF Share, TrueIdx
<1>. QED BY <1>2, <1>5 DEF Parts

\* Together the threads have all iterations, when the step divides the range.
LEMMA ShareCover ==
  ASSUME NEW l \in Loops, TilesNum(l) > 1, (l.end - l.start) % l.step = 0,
         NEW i \in Iterations(l)
  PROVE  \E t \in 0..(Parts(l) - 1) : i \in Share(l, t)
<1>1. l.start \in Nat /\ l.end \in Nat /\ l.step \in Nat \ {0}
  BY LoopsAssumption DEF LoopsAssumption
<1>2. TilesNum(l) \in Nat /\ ThreadCnt \in Nat \ {0}
  BY <1>1, ThreadCntAssumption DEF TilesNum, ThreadCntAssumption
<1>. DEFINE v == (i - l.start) \div l.step
            t == v % ThreadCnt
<1>3. /\ i \in Nat /\ i >= l.start /\ i < l.end /\ (i - l.start) % l.step = 0
  BY <1>1 DEF Iterations
<1>4. v \in Nat /\ i = l.start + v * l.step
  <2>. DEFINE a == i - l.start
              k == l.step
  <2>1. a \in Nat /\ k \in Nat \ {0} /\ a % k = 0
    BY <1>1, <1>3
  <2>. HIDE DEF a, k
  <2>2. a \div k \in Nat /\ a = (a \div k) * k
    BY <2>1, Divides
  <2>. QED BY <1>1, <1>3, <2>2 DEF a, k
<1>5. l.end = l.start + TilesNum(l) * l.step
  <2>. DEFINE a == l.end - l.start
              k == l.step
  <2>1. a \in Int /\ k \in Nat \ {0} /\ a % k = 0
    BY <1>1
  <2>. HIDE DEF a, k
  <2>2. a = (a \div k) * k
    BY <2>1, Divides
  <2>3. TilesNum(l) = a \div k
    BY DEF TilesNum, a, k
  <2>4. a = TilesNum(l) * l.step
    BY <2>2, <2>3 DEF k
  <2>. QED BY <1>1, <2>4 DEF a
<1>6. v < TilesNum(l)
  <2>. SUFFICES ASSUME TilesNum(l) <= v PROVE FALSE
    BY <1>2, <1>4
  <2>1. v = TilesNum(l) \/ TilesNum(l) < v
    BY <1>2, <1>4
  <2>2. TilesNum(l) * l.step <= v * l.step
    BY <1>1, <1>2, <1>4, <2>1, Multiples
  <2>. QED BY <1>1, <1>2, <1>3, <1>4, <1>5, <2>2
<1>. HIDE DEF v
<1>7. t \in 0..(Parts(l) - 1)
  BY <1>2, <1>4, <1>6 DEF Parts
<1>8. i \in Share(l, t)
  BY <1>2, <1>4, <1>6 DEF Share, TrueIdx
<1>. QED BY <1>7, <1>8

\* One more thread runs its share.
LEMMA OneMoreShare ==
  ASSUME NEW l \in Loops, NEW H \in SUBSET Int, NEW t \in Int, t \notin H
  PROVE  [i \in DOMAIN DoneBy(l, H) |->
            IF i \in Share(l, t) THEN DoneBy(l, H)[i] + 1 ELSE DoneBy(l, H)[i]]
         = DoneBy(l, H \cup {t})
<1>1. DOMAIN DoneBy(l, H) = Iterations(l)
  BY DEF DoneBy
<1>2. ASSUME NEW i \in Iterations(l)
      PROVE  (IF i \in Share(l, t) THEN DoneBy(l, H)[i] + 1 ELSE DoneBy(l, H)[i])
               = IF \E u \in H \cup {t} : i \in Share(l, u) THEN 1 ELSE 0
  <2>1. CASE i \in Share(l, t)
    <3>1. ~ \E u \in H : i \in Share(l, u)
      BY <2>1, ShareApart
    <3>2. DoneBy(l, H)[i] = 0
      BY <3>1 DEF DoneBy
    <3>. QED BY <2>1, <3>2
  <2>2. CASE i \notin Share(l, t)
    <3>1. DoneBy(l, H)[i] = IF \E u \in H : i \in Share(l, u) THEN 1 ELSE 0
      BY DEF DoneBy
    <3>. QED BY <2>2, <3>1
  <2>. QED BY <2>1, <2>2
<1>. QED BY <1>1, <1>2 DEF DoneBy

\* When all threads with a part have run, all is done.
LEMMA AllShares ==
  ASSUME StepsDivide, NEW l \in Loops, TilesNum(l) > 1
  PROVE  DoneBy(l, 0..(Parts(l) - 1)) = [i \in Iterations(l) |-> 1]
<1>1. \A i \in Iterations(l) : \E t \in 0..(Parts(l) - 1) : i \in Share(l, t)
  BY ShareCover DEF StepsDivide
<1>. QED BY <1>1 DEF DoneBy

\* The number of parts.
LEMMA PartsType ==
  ASSUME NEW l \in Loops, TilesNum(l) > 1
  PROVE  Parts(l) \in Nat /\ Parts(l) >= 1 /\ Parts(l) <= ThreadCnt /\ ThreadCnt \in Nat
<1>1. l.start \in Nat /\ l.end \in Nat /\ l.step \in Nat \ {0}
  BY LoopsAssumption DEF LoopsAssumption
<1>2. TilesNum(l) \in Nat /\ ThreadCnt \in Nat \ {0}
  BY <1>1, ThreadCntAssumption DEF TilesNum, ThreadCntAssumption
<1>. QED BY <1>2 DEF Parts

-----------------------------------------------------------------------------
\* The states of a submitter outside of push().
Resting == {"in", "out", "gone"}

\* Steps outside of pushes, and steps of workers that neither run nor clear.
LEMMA QuietStep ==
  ASSUME PushInv, Types', UNCHANGED <<tasks, flags, done>>,
         \A s \in Submitters :
           \/ submitter'[s] = submitter[s]
           \/ submitter[s].pc \in Resting /\ submitter'[s].pc \in Resting,
         \A s \in Submitters : submitter[s].pc = "split" \/ Busy(s) => life' = life,
         \A t \in Workers : worker'[t].pc \in {"run", "clear"} =>
                              worker'[t].slot = 0 /\ t \in flags[0],
         \A t \in Workers : worker'[t].pc = "clear" <=> worker[t].pc = "clear"
  PROVE  PushInv'
<1>1. \A s \in Submitters : Busy(s)' = Busy(s)
  BY DEF Busy, Resting
<1>2. FlagsMeanWork'
  BY <1>1 DEF PushInv, FlagsMeanWork
<1>3. ASSUME NEW s \in Submitters PROVE (Split(s) /\ Progress(s) /\ Ends(s))'
  <2>0. Split(s) /\ Progress(s) /\ Ends(s)
    BY DEF PushInv
  <2>1. CASE submitter'[s].pc \in Resting
    BY <2>1 DEF Split, Progress, Ends, Busy, Resting
  <2>2. CASE submitter'[s] = submitter[s]
    <3>1. Split(s)'
      BY <1>1, <2>0, <2>2 DEF Split, Busy
    <3>2. Ends(s)'
      BY <2>0, <2>2 DEF Ends
    <3>3. Progress(s)'
      <4>. SUFFICES ASSUME Busy(s) PROVE Progress(s)'
        BY <1>1 DEF Progress
      <4>1. submitter[s].tiles \in Nat /\ submitter[s].tiles <= ThreadCnt
        BY <2>0, PartsType DEF Split
      <4>2. \A t \in 1..(submitter[s].tiles - 1) : t \in Workers
        BY <4>1, ThreadCntAssumption DEF Workers, ThreadCntAssumption
      <4>3. \A t \in 0..(submitter[s].tiles - 1) : t = 0 \/ t \in Workers
        BY <4>1, <4>2
      <4>4. Started(s)' = Started(s)
        BY <2>2 DEF Started
      <4>5. \A t \in 0..(submitter[s].tiles - 1) : HasRun(s, t)' = HasRun(s, t)
        BY <2>2, <4>3, <4>4 DEF HasRun
      <4>6. RanThreads(s)' = RanThreads(s)
        BY <2>2, <4>5 DEF RanThreads
      <4>. QED BY <2>0, <2>2, <4>4, <4>6 DEF Progress
    <3>. QED BY <3>1, <3>2, <3>3
  <2>. QED BY <2>1, <2>2
<1>. QED BY <1>2, <1>3 DEF PushInv

\* notify_all() wakes who sleeps and disturbs nobody else.
LEMMA WokenWorkers ==
  ASSUME PushInv, worker' = Woken
  PROVE  /\ worker' \in [Workers -> WorkerRecord]
         /\ \A t \in Workers : worker'[t].pc \in {"run", "clear"} =>
                                 worker'[t].slot = 0 /\ t \in flags[0]
         /\ \A t \in Workers : worker'[t].pc = "clear" <=> worker[t].pc = "clear"
<1>1. \A t \in Workers : worker[t] \in WorkerRecord
  BY DEF PushInv, Types
<1>2. \A t \in Workers : /\ worker'[t] \in WorkerRecord
                         /\ \/ worker'[t] = worker[t]
                            \/ worker'[t].pc = "wait" /\ worker[t].pc = "asleep"
  BY <1>1 DEF Woken, WorkerRecord
<1>3. worker' = [t \in Workers |-> worker'[t]]
  BY DEF Woken
<1>. QED BY <1>2, <1>3 DEF PushInv, FlagsMeanWork

\* Creating, waking, idling and destroying the pool.
LEMMA OthersPush ==
  ASSUME PushInv,
         \/ initThreadPool \/ BackendGone \/ Stop \/ Join \/ UNCHANGED vars
         \/ \E s \in Submitters : BeginSession(s) \/ EndSession(s) \/ SessionThrows(s)
  PROVE  PushInv'
<1>0. /\ Types /\ submitter \in [Submitters -> SubmitterRecord]
      /\ \A s \in Submitters : submitter[s] \in SubmitterRecord
      /\ \A t \in Workers : worker[t].pc \in {"run", "clear"} =>
                              worker[t].slot = 0 /\ t \in flags[0]
  BY DEF PushInv, Types, FlagsMeanWork
<1>1. CASE initThreadPool
  <2>1. acquireTaskSlot = 0
    BY <1>0, <1>1 DEF initThreadPool, Types, acquireTaskSlot, Slots, TaskLimits
  <2>2. \A s \in Submitters : ~(submitter[s].pc = "split" \/ Busy(s))
    BY <1>1 DEF initThreadPool, PushInv, Split
  <2>3. /\ worker' = Woken /\ life' = "up" /\ task_index' = 0
        /\ UNCHANGED <<tasks, flags, submitter, done>>
    BY <1>1, <2>1 DEF initThreadPool
  <2>4. worker' \in [Workers -> WorkerRecord]
    BY <2>3, WokenWorkers
  <2>5. Types'
    BY <1>0, <2>3, <2>4 DEF Types
  <2>. QED BY <2>2, <2>3, <2>5, WokenWorkers, QuietStep
<1>2. CASE BackendGone
  <2>1. /\ \A s \in Submitters : submitter[s].pc \in Resting
        /\ submitter' = [s \in Submitters |-> [submitter[s] EXCEPT !.pc = "gone"]]
        /\ life = "up" /\ life' = "destroyed"
        /\ UNCHANGED <<task_available, task_index, tasks, flags, worker, done>>
    BY <1>2 DEF BackendGone, Resting
  <2>2. /\ submitter' \in [Submitters -> SubmitterRecord]
        /\ \A s \in Submitters : submitter'[s].pc \in Resting
    BY <1>0, <2>1 DEF SubmitterRecord, Resting
  <2>3. Types'
    BY <1>0, <2>1, <2>2 DEF Types
  <2>. QED BY <1>0, <2>1, <2>2, <2>3, QuietStep DEF Resting, Busy
<1>3. CASE Stop
  <2>1. /\ worker' = Woken /\ life = "destroyed" /\ life' = "stopping"
        /\ UNCHANGED <<task_available, task_index, tasks, flags, submitter, done>>
    BY <1>3 DEF Stop
  <2>2. worker' \in [Workers -> WorkerRecord]
    BY <2>1, WokenWorkers
  <2>3. Types'
    BY <1>0, <2>1, <2>2 DEF Types
  <2>4. \A s \in Submitters : ~(submitter[s].pc = "split" \/ Busy(s))
    BY <2>1 DEF PushInv, Split
  <2>. QED BY <2>1, <2>3, <2>4, WokenWorkers, QuietStep
<1>4. CASE Join \/ UNCHANGED vars
  <2>1. /\ UNCHANGED <<task_available, task_index, tasks, flags, submitter, done, worker>>
        /\ life' = life \/ (life = "stopping" /\ life' = "joined")
    BY <1>4 DEF Join, vars, poolVars
  <2>2. Types'
    BY <1>0, <2>1 DEF Types
  <2>3. \A s \in Submitters : submitter[s].pc = "split" \/ Busy(s) => life' = life
    BY <2>1 DEF PushInv, Split
  <2>. QED BY <1>0, <2>1, <2>2, <2>3, QuietStep
<1>5. ASSUME NEW s \in Submitters, EndSession(s) \/ SessionThrows(s) PROVE PushInv'
  <2>1. /\ submitter[s].pc = "in" /\ submitter' = [submitter EXCEPT ![s].pc = "out"]
        /\ UNCHANGED <<task_available, task_index, life, tasks, flags, worker, done>>
    BY <1>5 DEF EndSession, SessionThrows, poolVars
  <2>2. /\ submitter' \in [Submitters -> SubmitterRecord]
        /\ submitter'[s].pc = "out" /\ \A u \in Submitters : u # s => submitter'[u] = submitter[u]
    BY <1>0, <2>1 DEF SubmitterRecord
  <2>3. Types'
    BY <1>0, <2>1, <2>2 DEF Types
  <2>. QED BY <1>0, <2>1, <2>2, <2>3, QuietStep DEF Resting
<1>6. ASSUME NEW s \in Submitters, BeginSession(s) PROVE PushInv'
  <2>1. /\ submitter[s].pc = "out" /\ submitter' = [submitter EXCEPT ![s].pc = "in"]
        /\ worker' = Woken
        /\ UNCHANGED <<task_available, task_index, life, tasks, flags, done>>
    BY <1>6 DEF BeginSession, wakeup
  <2>2. /\ submitter' \in [Submitters -> SubmitterRecord]
        /\ submitter'[s].pc = "in" /\ \A u \in Submitters : u # s => submitter'[u] = submitter[u]
    BY <1>0, <2>1 DEF SubmitterRecord
  <2>3. worker' \in [Workers -> WorkerRecord]
    BY <2>1, WokenWorkers
  <2>4. Types'
    BY <1>0, <2>1, <2>2, <2>3 DEF Types
  <2>. QED BY <2>1, <2>2, <2>4, WokenWorkers, QuietStep DEF Resting
<1>. QED BY <1>1, <1>2, <1>3, <1>4, <1>5, <1>6

\* A worker moves on without running or clearing anything.
LEMMA WorkerLooks ==
  ASSUME PushInv, NEW t \in Workers, Top(t) \/ Check(t) \/ Scan(t) \/ Wait(t)
  PROVE  PushInv'
<1>0. /\ Types /\ worker[t] \in WorkerRecord
      /\ FlagsMeanWork
  BY DEF PushInv, Types
<1>1. /\ UNCHANGED <<poolVars, tasks, flags, submitter, done>>
      /\ worker[t].pc \in {"top", "check", "scan", "wait"}
  BY DEF Top, Check, Scan, Wait
<1>2. \E p \in {"top", "check", "scan", "run", "wait", "asleep", "exit"}, i \in Slots :
        Goto(t, p, i) /\ (p = "run" => i = 0 /\ t \in flags[0])
  <2>1. 0 \in Slots /\ worker[t].slot \in Slots /\ Slots = {0, 1}
    BY <1>0 DEF Slots, TaskLimits, WorkerRecord
  <2>2. CASE Top(t)
    BY <2>1, <2>2 DEF Top
  <2>3. CASE Check(t)
    BY <2>1, <2>3 DEF Check
  <2>4. CASE Wait(t)
    BY <2>1, <2>4 DEF Wait
  <2>5. CASE Scan(t)
    <3>1. CASE t \in flags[worker[t].slot]
      <4>1. worker[t].slot = 0
        BY <1>0, <2>1, <3>1 DEF FlagsMeanWork
      <4>. QED BY <2>1, <2>5, <3>1, <4>1 DEF Scan
    <3>2. CASE t \notin flags[worker[t].slot]
      BY <2>1, <2>5, <3>2 DEF Scan, AfterSlot
    <3>. QED BY <3>1, <3>2
  <2>. QED BY <2>2, <2>3, <2>4, <2>5
<1>3. PICK p \in {"top", "check", "scan", "run", "wait", "asleep", "exit"}, i \in Slots :
        worker' = [worker EXCEPT ![t] = [pc |-> p, slot |-> i]]
        /\ (p = "run" => i = 0 /\ t \in flags[0])
  BY <1>2 DEF Goto
<1>4. /\ worker' \in [Workers -> WorkerRecord] /\ worker'[t].pc = p /\ worker'[t].slot = i
      /\ \A u \in Workers : u # t => worker'[u] = worker[u]
  BY <1>0, <1>3 DEF Types, WorkerRecord
<1>5. Types'
  BY <1>0, <1>1, <1>4 DEF Types, poolVars
<1>6. \A u \in Workers : worker'[u].pc \in {"run", "clear"} =>
                           worker'[u].slot = 0 /\ u \in flags[0]
  BY <1>0, <1>3, <1>4 DEF FlagsMeanWork
<1>7. \A u \in Workers : worker'[u].pc = "clear" <=> worker[u].pc = "clear"
  BY <1>1, <1>3, <1>4
<1>. QED BY <1>1, <1>5, <1>6, <1>7, QuietStep DEF poolVars

\* A worker runs its share of the push under way.
LEMMA WorkerRuns ==
  ASSUME OneCaller, PushInv, NEW t \in Workers, Run(t) PROVE PushInv'
<1>0. /\ Types /\ FlagsMeanWork /\ worker[t] \in WorkerRecord
  BY DEF PushInv, Types
<1>1. /\ worker[t].pc = "run" /\ worker[t].slot = 0 /\ t \in flags[0]
      /\ worker' = [worker EXCEPT ![t] = [pc |-> "clear", slot |-> 0]]
      /\ UNCHANGED <<poolVars, tasks, flags, submitter>>
      /\ Call(0, t)
  BY <1>0 DEF Run, Goto, FlagsMeanWork
<1>2. PICK s \in Submitters : Busy(s)
  BY <1>0, <1>1 DEF FlagsMeanWork
<1>3. Split(s) /\ Progress(s) /\ Ends(s)
  BY DEF PushInv
<1>. DEFINE l == submitter[s].loop
            n == submitter[s].tiles
<1>4. /\ l \in Loops /\ TilesNum(l) > 1 /\ n = Parts(l) /\ n \in Nat /\ n >= 1
      /\ tasks[0] = [by |-> s, loop |-> l]
      /\ submitter[s].next \in 1..n /\ flags[0] \subseteq 1..(Started(s) - 1)
      /\ done[s] = DoneBy(l, RanThreads(s))
  <2>1. l \in Loops /\ TilesNum(l) > 1 /\ n = Parts(l)
    BY <1>2, <1>3 DEF Split
  <2>. QED BY <1>2, <1>3, <2>1, PartsType DEF Progress
<1>5. /\ worker' \in [Workers -> WorkerRecord] /\ worker'[t].pc = "clear" /\ worker'[t].slot = 0
      /\ \A u \in Workers : u # t => worker'[u] = worker[u]
  BY <1>0, <1>1 DEF Types, WorkerRecord, Slots, TaskLimits
<1>6. /\ UNCHANGED <<poolVars, tasks, flags, submitter>> /\ Started(s)' = Started(s)
      /\ Busy(s)' /\ l' = l /\ n' = n
  BY <1>1, <1>2 DEF Started, Busy
<1>7. t \in 1..(n - 1) /\ t < Started(s) /\ t \in Int
  BY <1>1, <1>2, <1>4 DEF Started
<1>8. /\ RanThreads(s)' = RanThreads(s) \cup {t} /\ t \notin RanThreads(s)
      /\ RanThreads(s) \in SUBSET Int
  <2>1. ~HasRun(s, t) /\ HasRun(s, t)'
    BY <1>1, <1>5, <1>6, <1>7 DEF HasRun
  <2>2. ASSUME NEW u \in 0..(n - 1), u # t PROVE HasRun(s, u)' = HasRun(s, u)
    <3>1. CASE u = 0
      BY <1>6, <3>1 DEF HasRun
    <3>2. CASE u # 0
      <4>1. n <= ThreadCnt /\ ThreadCnt \in Nat
        BY <1>4, PartsType
      <4>2. u \in Workers
        BY <1>4, <3>2, <4>1 DEF Workers
      <4>3. worker'[u] = worker[u]
        BY <1>5, <2>2, <4>2
      <4>. QED BY <1>6, <3>2, <4>3 DEF HasRun
    <3>. QED BY <3>1, <3>2
  <2>. QED BY <1>4, <1>6, <1>7, <2>1, <2>2 DEF RanThreads
<1>9. done'[s] = DoneBy(l, RanThreads(s) \cup {t}) /\ done' = [u \in Submitters |-> done'[u]]
  <2>1. done' = [done EXCEPT ![s] = Ran(s, Share(l, t))] /\ done = [u \in Submitters |-> done[u]]
    <3>1. tasks[0].by = s /\ tasks[0].loop = l
      BY <1>4
    <3>2. done' = [done EXCEPT ![s] = Ran(s, Share(l, t))]
      BY <1>1, <3>1 DEF Call
    <3>. QED BY <1>0, <3>2 DEF Types
  <2>2. Ran(s, Share(l, t)) = DoneBy(l, RanThreads(s) \cup {t})
    BY <1>4, <1>7, <1>8, OneMoreShare DEF Ran
  <2>. QED BY <2>1, <2>2
<1>10. Types'
  BY <1>0, <1>5, <1>6, <1>9 DEF Types, poolVars
<1>11. FlagsMeanWork'
  BY <1>0, <1>1, <1>5, <1>6 DEF FlagsMeanWork, Busy
<1>12. Progress(s)'
  BY <1>3, <1>2, <1>6, <1>8, <1>9 DEF Progress
<1>13. Split(s)' /\ Ends(s)'
  BY <1>2, <1>3, <1>6 DEF Split, Ends, Busy, poolVars
<1>14. \A u \in Submitters : u = s
  BY DEF OneCaller
<1>. QED BY <1>10, <1>11, <1>12, <1>13, <1>14 DEF PushInv

\* A worker clears its flag: it still counts as one that has run.
LEMMA WorkerClears ==
  ASSUME OneCaller, PushInv, NEW t \in Workers, Clear(t) PROVE PushInv'
<1>0. /\ Types /\ FlagsMeanWork /\ worker[t] \in WorkerRecord
  BY DEF PushInv, Types
<1>1. /\ worker[t].pc = "clear" /\ worker[t].slot = 0 /\ t \in flags[0]
      /\ flags' = [flags EXCEPT ![0] = @ \ {t}]
      /\ worker' = [worker EXCEPT ![t] = [pc |-> "scan", slot |-> 1]]
      /\ UNCHANGED <<poolVars, tasks, submitter, done>>
  <2>1. worker[t].pc = "clear" /\ worker[t].slot = 0 /\ t \in flags[0]
    BY <1>0 DEF Clear, FlagsMeanWork
  <2>2. 0 + 1 \in Slots /\ 0 + 1 = 1
    BY DEF Slots, TaskLimits
  <2>3. AfterSlot(t) /\ flags' = [flags EXCEPT ![0] = @ \ {t}]
        /\ UNCHANGED <<poolVars, tasks, submitter, done>>
    BY <2>1 DEF Clear
  <2>4. Goto(t, "scan", 1)
    BY <2>1, <2>2, <2>3 DEF AfterSlot
  <2>. QED BY <2>1, <2>3, <2>4 DEF Goto
<1>2. PICK s \in Submitters : Busy(s)
  BY <1>0, <1>1 DEF FlagsMeanWork
<1>3. Split(s) /\ Progress(s) /\ Ends(s)
  BY DEF PushInv
<1>4. /\ worker' \in [Workers -> WorkerRecord] /\ worker'[t].pc = "scan"
      /\ \A u \in Workers : u # t => worker'[u] = worker[u]
  BY <1>0, <1>1 DEF Types, WorkerRecord, Slots, TaskLimits
<1>5. /\ flags' \in [Slots -> SUBSET Workers] /\ flags'[0] = flags[0] \ {t} /\ flags'[1] = flags[1]
  BY <1>0, <1>1 DEF Types, Slots, TaskLimits
<1>6. Types'
  BY <1>0, <1>1, <1>4, <1>5 DEF Types, poolVars
<1>7. FlagsMeanWork'
  <2>1. \A u \in Workers : worker'[u].pc \in {"run", "clear"} =>
          worker'[u].slot = 0 /\ u \in flags'[0]
    BY <1>0, <1>4, <1>5 DEF FlagsMeanWork
  <2>2. Busy(s)'
    BY <1>1, <1>2 DEF Busy
  <2>. QED BY <1>0, <1>5, <2>1, <2>2 DEF FlagsMeanWork
<1>8. Started(s)' = Started(s) /\ Busy(s)' /\ submitter' = submitter
  BY <1>1, <1>2 DEF Started, Busy
<1>9. RanThreads(s)' = RanThreads(s)
  <2>. DEFINE n == submitter[s].tiles
  <2>1. n \in Nat /\ n <= ThreadCnt /\ ThreadCnt \in Nat
    BY <1>2, <1>3, PartsType DEF Split
  <2>2. ASSUME NEW u \in 0..(n - 1) PROVE HasRun(s, u)' = HasRun(s, u)
    <3>1. CASE u = 0
      BY <1>8, <3>1 DEF HasRun
    <3>2. CASE u = t
      BY <1>1, <1>4, <1>5, <1>8, <3>2 DEF HasRun
    <3>3. CASE u # 0 /\ u # t
      <4>1. u \in Workers
        BY <2>1, <3>3 DEF Workers
      <4>2. worker'[u] = worker[u]
        BY <1>4, <3>3, <4>1
      <4>. QED BY <1>5, <1>8, <3>3, <4>2 DEF HasRun
    <3>. QED BY <3>1, <3>2, <3>3
  <2>. QED BY <1>8, <2>2 DEF RanThreads
<1>10. Progress(s)'
  BY <1>1, <1>2, <1>3, <1>5, <1>8, <1>9 DEF Progress
<1>11. Split(s)' /\ Ends(s)'
  BY <1>1, <1>2, <1>3, <1>8 DEF Split, Ends, Busy, poolVars
<1>12. \A u \in Submitters : u = s
  BY DEF OneCaller
<1>. QED BY <1>6, <1>7, <1>10, <1>11, <1>12 DEF PushInv

-----------------------------------------------------------------------------
\* A step of the one caller: what is to be shown.
LEMMA CallerStep ==
  ASSUME OneCaller, NEW s \in Submitters, Types', FlagsMeanWork',
         Split(s)', Progress(s)', Ends(s)'
  PROVE  PushInv'
<1>1. \A u \in Submitters : u = s
  BY DEF OneCaller
<1>. QED BY <1>1 DEF PushInv

\* push() begins.
LEMMA PushBegins ==
  ASSUME OneCaller, PushInv, NEW s \in Submitters, NEW l \in Loops, Push(s, l)
  PROVE  PushInv'
<1>0. Types /\ FlagsMeanWork /\ submitter[s] \in SubmitterRecord
  BY DEF PushInv, Types
<1>1. /\ life = "up" /\ submitter[s].pc = "in"
      /\ submitter' = [submitter EXCEPT
           ![s] = [pc |-> IF Serial(l) THEN "returned" ELSE "split",
                   loop |-> l, tiles |-> Parts(l), next |-> 1]]
      /\ done' = [done EXCEPT ![s] = [i \in Iterations(l) |-> IF Serial(l) THEN 1 ELSE 0]]
      /\ UNCHANGED <<poolVars, tasks, flags, worker>>
  BY DEF Push
<1>2. l.start \in Nat /\ l.end \in Nat /\ l.step \in Nat \ {0}
  BY LoopsAssumption DEF LoopsAssumption
<1>3. TilesNum(l) \in Int /\ Parts(l) \in Int
  BY <1>2, ThreadCntAssumption DEF TilesNum, Parts, ThreadCntAssumption
<1>4. /\ submitter' \in [Submitters -> SubmitterRecord]
      /\ submitter'[s].pc = (IF Serial(l) THEN "returned" ELSE "split")
      /\ submitter'[s].loop = l /\ submitter'[s].tiles = Parts(l) /\ submitter'[s].next = 1
      /\ submitter' = [u \in Submitters |-> submitter'[u]]
  <2>. DEFINE q == [pc |-> IF Serial(l) THEN "returned" ELSE "split",
                    loop |-> l, tiles |-> Parts(l), next |-> 1]
  <2>1. /\ q \in SubmitterRecord /\ q.pc = (IF Serial(l) THEN "returned" ELSE "split")
        /\ q.loop = l /\ q.tiles = Parts(l) /\ q.next = 1
    BY <1>3 DEF SubmitterRecord
  <2>2. submitter \in [Submitters -> SubmitterRecord] /\ submitter' = [submitter EXCEPT ![s] = q]
    BY <1>0, <1>1 DEF Types
  <2>. HIDE DEF q
  <2>3. submitter' \in [Submitters -> SubmitterRecord] /\ submitter'[s] = q
    BY <2>1, <2>2
  <2>. QED BY <2>1, <2>3
<1>5. /\ done' = [u \in Submitters |-> done'[u]]
      /\ done'[s] = [i \in Iterations(l) |-> IF Serial(l) THEN 1 ELSE 0]
  BY <1>0, <1>1 DEF Types
<1>6. \A u \in Submitters : ~Busy(u)' /\ ~Busy(u)
  BY <1>1, <1>4 DEF OneCaller, Busy
<1>7. Types'
  BY <1>0, <1>1, <1>4, <1>5 DEF Types, poolVars
<1>8. FlagsMeanWork'
  BY <1>0, <1>1, <1>6 DEF FlagsMeanWork
<1>9. Progress(s)'
  BY <1>6 DEF Progress
<1>10. Split(s)'
  <2>1. life' = "up" /\ (submitter'[s].pc = "split" => TilesNum(l) > 1)
    BY <1>1, <1>3, <1>4 DEF poolVars, Serial
  <2>. QED BY <1>4, <1>6, <2>1 DEF Split
<1>11. Ends(s)'
  BY <1>4, <1>5 DEF Ends
<1>. QED BY <1>7, <1>8, <1>9, <1>10, <1>11, CallerStep

\* splitTask(): the caller runs all of the loop, or publishes the function.
LEMMA PushSplits ==
  ASSUME OneCaller, PushInv, NEW s \in Submitters, SplitTask(s) PROVE PushInv'
<1>. DEFINE l == submitter[s].loop
<1>0. Types /\ FlagsMeanWork /\ submitter[s] \in SubmitterRecord /\ Split(s) /\ Ends(s)
  BY DEF PushInv, Types
<1>1. submitter[s].pc = "split" /\ UNCHANGED <<poolVars, flags, worker>>
  BY DEF SplitTask
<1>2. /\ life = "up" /\ task_index = 0 /\ l \in Loops /\ TilesNum(l) > 1
      /\ submitter[s].tiles = Parts(l) /\ submitter[s].next = 1
      /\ done[s] = [i \in Iterations(l) |-> 0]
  BY <1>0, <1>1 DEF Split, Ends, Types
<1>3. \A u \in Submitters : ~Busy(u)
  BY <1>1 DEF OneCaller, Busy
<1>4. flags[0] = {}
  BY <1>0, <1>3 DEF FlagsMeanWork
<1>5. CASE available = 0
  <2>1. /\ submitter' = [submitter EXCEPT ![s].pc = "returned"]
        /\ done' = [done EXCEPT ![s] = Ran(s, Iterations(l))] /\ tasks' = tasks
    BY <1>5 DEF SplitTask
  <2>2. /\ submitter' \in [Submitters -> SubmitterRecord] /\ submitter'[s].pc = "returned"
        /\ submitter'[s].loop = l
    BY <1>0, <2>1 DEF Types, SubmitterRecord
  <2>3. done' = [u \in Submitters |-> done'[u]] /\ done'[s] = [i \in Iterations(l) |-> 1]
    <3>1. done = [u \in Submitters |-> done[u]]
      BY <1>0 DEF Types
    <3>2. DOMAIN done = Submitters
      BY <3>1
    <3>3. \A i \in Iterations(l) : done[s][i] = 0
      BY <1>2
    <3>4. DOMAIN done[s] = Iterations(l)
      BY <1>2
    <3>5. Ran(s, Iterations(l)) = [i \in Iterations(l) |-> 1]
      BY <3>3, <3>4 DEF Ran
    <3>. HIDE DEF l
    <3>. QED BY <2>1, <3>2, <3>5
  <2>4. Types'
    BY <1>0, <1>1, <2>1, <2>2, <2>3 DEF Types, poolVars
  <2>5. FlagsMeanWork'
    BY <1>0, <1>1, <1>4 DEF FlagsMeanWork
  <2>6. Split(s)' /\ Progress(s)' /\ Ends(s)'
    BY <2>2, <2>3 DEF Split, Progress, Ends, Busy
  <2>. QED BY <2>4, <2>5, <2>6, CallerStep
<1>6. CASE available # 0
  <2>1. /\ submitter' = [submitter EXCEPT ![s].pc = "flags"]
        /\ tasks' = [tasks EXCEPT ![0] = [by |-> s, loop |-> l]] /\ done' = done
    BY <1>2, <1>6 DEF SplitTask
  <2>2. /\ submitter' \in [Submitters -> SubmitterRecord] /\ submitter'[s].pc = "flags"
        /\ submitter'[s].loop = l /\ submitter'[s].tiles = Parts(l) /\ submitter'[s].next = 1
    BY <1>0, <1>2, <2>1 DEF Types, SubmitterRecord
  <2>3. tasks' = [i \in Slots |-> tasks'[i]] /\ tasks'[0] = [by |-> s, loop |-> l]
    <3>1. 0 \in Slots /\ tasks = [i \in Slots |-> tasks[i]]
      BY <1>0 DEF Types, Slots, TaskLimits
    <3>2. DOMAIN tasks = Slots
      BY <3>1
    <3>. HIDE DEF l
    <3>. QED BY <2>1, <3>1, <3>2
  <2>4. Types'
    BY <1>0, <1>1, <2>1, <2>2, <2>3 DEF Types, poolVars
  <2>5. FlagsMeanWork'
    BY <1>0, <1>1, <1>4 DEF FlagsMeanWork
  <2>6. Split(s)' /\ Ends(s)'
    BY <1>1, <1>2, <2>2 DEF Split, Ends, Busy, poolVars
  <2>7. Progress(s)'
    <3>1. Parts(l) \in Nat /\ Parts(l) >= 1
      BY <1>2, PartsType
    <3>2. Started(s)' = 1
      BY <2>2 DEF Started
    <3>3. \A t \in 0..(Parts(l) - 1) : ~HasRun(s, t)'
      BY <2>2, <3>1, <3>2 DEF HasRun
    <3>4. RanThreads(s)' = {}
      BY <2>2, <3>3 DEF RanThreads
    <3>5. done'[s] = DoneBy(l, {})
      BY <1>2, <2>1 DEF DoneBy
    <3>6. flags'[0] = {}
      BY <1>1, <1>4
    <3>. QED BY <2>2, <2>3, <3>1, <3>4, <3>5, <3>6 DEF Progress
  <2>. QED BY <2>4, <2>5, <2>6, <2>7, CallerStep
<1>. QED BY <1>5, <1>6

\* What is known of a push under way.
LEMMA BusyFacts ==
  ASSUME PushInv, NEW s \in Submitters, Busy(s)
  PROVE  LET l == submitter[s].loop
             n == submitter[s].tiles
         IN  /\ Types /\ FlagsMeanWork /\ submitter[s] \in SubmitterRecord
             /\ life = "up" /\ task_index = 0
             /\ l \in Loops /\ TilesNum(l) > 1 /\ n = Parts(l) /\ n \in Nat /\ n >= 1
             /\ n <= ThreadCnt /\ ThreadCnt \in Nat
             /\ tasks[0] = [by |-> s, loop |-> l]
             /\ submitter[s].next \in 1..n /\ flags[0] \subseteq 1..(Started(s) - 1)
             /\ submitter[s].pc = "wait" =>
                  \A t \in 1..(submitter[s].next - 1) : t \notin flags[0]
             /\ done[s] = DoneBy(l, RanThreads(s))
<1>1. Types /\ FlagsMeanWork /\ submitter[s] \in SubmitterRecord /\ Split(s) /\ Progress(s)
  BY DEF PushInv, Types
<1>2. /\ life = "up" /\ submitter[s].loop \in Loops /\ TilesNum(submitter[s].loop) > 1
      /\ submitter[s].tiles = Parts(submitter[s].loop)
  BY <1>1 DEF Split
<1>3. task_index = 0
  BY <1>1, <1>2 DEF Types
<1>. QED BY <1>1, <1>2, <1>3, PartsType DEF Progress

\* A flag is set, or all are.
LEMMA PushSetsFlag ==
  ASSUME OneCaller, PushInv, NEW s \in Submitters, SetFlag(s) PROVE PushInv'
<1>. DEFINE l == submitter[s].loop
            n == submitter[s].tiles
            k == submitter[s].next
<1>1. submitter[s].pc = "flags" /\ UNCHANGED <<poolVars, tasks, worker, done>>
  BY DEF SetFlag
<1>2. Busy(s)
  BY <1>1 DEF Busy
<1>3. /\ Types /\ FlagsMeanWork /\ submitter[s] \in SubmitterRecord
      /\ life = "up" /\ task_index = 0
      /\ l \in Loops /\ TilesNum(l) > 1 /\ n = Parts(l) /\ n \in Nat /\ n >= 1
      /\ n <= ThreadCnt /\ ThreadCnt \in Nat
      /\ tasks[0] = [by |-> s, loop |-> l]
      /\ k \in 1..n /\ flags[0] \subseteq 1..(Started(s) - 1)
      /\ done[s] = DoneBy(l, RanThreads(s))
  BY <1>2, BusyFacts
<1>4. Started(s) = k
  BY <1>1 DEF Started
<1>5. CASE k < n
  <2>1. /\ flags' = [flags EXCEPT ![0] = @ \cup {k}]
        /\ submitter' = [submitter EXCEPT ![s].next = @ + 1]
    BY <1>3, <1>5 DEF SetFlag
  <2>2. k \in Workers
    BY <1>3, <1>5 DEF Workers
  <2>3. /\ flags' \in [Slots -> SUBSET Workers] /\ flags'[0] = flags[0] \cup {k}
        /\ flags'[1] = flags[1]
    <3>1. flags \in [Slots -> SUBSET Workers] /\ 0 \in Slots
      BY <1>3 DEF Types, Slots, TaskLimits
    <3>. HIDE DEF k
    <3>. QED BY <2>1, <2>2, <3>1
  <2>4. /\ submitter' \in [Submitters -> SubmitterRecord] /\ submitter'[s].pc = "flags"
        /\ submitter'[s].loop = l /\ submitter'[s].tiles = n /\ submitter'[s].next = k + 1
    BY <1>1, <1>3, <2>1 DEF Types, SubmitterRecord
  <2>. HIDE DEF l, n, k
  <2>5. Types'
    BY <1>1, <1>3, <2>3, <2>4 DEF Types, poolVars
  <2>6. Busy(s)' /\ Started(s)' = k + 1
    BY <2>4 DEF Busy, Started
  <2>7. FlagsMeanWork'
    BY <1>1, <1>3, <2>3, <2>6 DEF FlagsMeanWork
  <2>8. RanThreads(s)' = RanThreads(s)
    <3>1. worker[k].pc # "clear"
      <4>1. k \notin flags[0]
        BY <1>3, <1>4
      <4>. QED BY <1>3, <2>2, <4>1 DEF FlagsMeanWork
    <3>2. ASSUME NEW t \in 0..(n - 1) PROVE HasRun(s, t)' = HasRun(s, t)
      <4>1. CASE t = 0
        BY <1>1, <2>4, <4>1 DEF HasRun
      <4>2. CASE t = k
        BY <1>1, <1>3, <1>4, <2>3, <2>6, <3>1, <4>2 DEF HasRun
      <4>3. CASE t # 0 /\ t # k
        BY <1>1, <1>3, <1>4, <2>3, <2>6, <4>3 DEF HasRun
      <4>. QED BY <4>1, <4>2, <4>3
    <3>. QED BY <2>4, <3>2 DEF RanThreads, n
  <2>9. Progress(s)'
    <3>1. flags'[0] \subseteq 1..(Started(s)' - 1)
      BY <1>3, <1>4, <2>3, <2>6
    <3>2. submitter'[s].next \in 1..n
      BY <1>3, <1>5, <2>4
    <3>. QED BY <1>1, <1>3, <2>4, <2>8, <3>1, <3>2 DEF Progress
  <2>10. Split(s)' /\ Ends(s)'
    BY <1>1, <1>3, <2>4 DEF Split, Ends, poolVars
  <2>. QED BY <2>5, <2>7, <2>9, <2>10, CallerStep
<1>6. CASE ~(k < n)
  <2>1. flags' = flags /\ submitter' = [submitter EXCEPT ![s].pc = "own"]
    BY <1>6 DEF SetFlag
  <2>2. /\ submitter' \in [Submitters -> SubmitterRecord] /\ submitter'[s].pc = "own"
        /\ submitter'[s].loop = l /\ submitter'[s].tiles = n /\ submitter'[s].next = k
    BY <1>3, <2>1 DEF Types, SubmitterRecord
  <2>. HIDE DEF l, n, k
  <2>3. Types'
    BY <1>1, <1>3, <2>1, <2>2 DEF Types, poolVars
  <2>4. k = n
    BY <1>3, <1>6
  <2>5. Busy(s)' /\ Started(s)' = Started(s)
    BY <1>4, <2>2, <2>4 DEF Busy, Started
  <2>6. FlagsMeanWork'
    BY <1>1, <1>3, <2>1, <2>5 DEF FlagsMeanWork
  <2>7. RanThreads(s)' = RanThreads(s)
    <3>1. \A t \in 0..(n - 1) : HasRun(s, t)' = HasRun(s, t)
      BY <1>1, <2>1, <2>2, <2>5 DEF HasRun
    <3>. QED BY <2>2, <3>1 DEF RanThreads, n
  <2>8. Progress(s)'
    BY <1>1, <1>3, <2>1, <2>2, <2>5, <2>7 DEF Progress
  <2>9. Split(s)' /\ Ends(s)'
    BY <1>1, <1>3, <2>2 DEF Split, Ends, poolVars
  <2>. QED BY <2>3, <2>6, <2>8, <2>9, CallerStep
<1>. QED BY <1>5, <1>6

\* The caller runs its own share.
LEMMA PushRunsOwn ==
  ASSUME OneCaller, PushInv, NEW s \in Submitters, OwnShare(s) PROVE PushInv'
<1>. DEFINE l == submitter[s].loop
            n == submitter[s].tiles
<1>1. /\ submitter[s].pc = "own" /\ UNCHANGED <<poolVars, tasks, flags, worker>>
      /\ submitter' = [submitter EXCEPT ![s].pc = "wait", ![s].next = 1]
  BY DEF OwnShare
<1>2. Busy(s)
  BY <1>1 DEF Busy
<1>3. /\ Types /\ FlagsMeanWork /\ submitter[s] \in SubmitterRecord
      /\ life = "up" /\ task_index = 0
      /\ l \in Loops /\ TilesNum(l) > 1 /\ n = Parts(l) /\ n \in Nat /\ n >= 1
      /\ n <= ThreadCnt /\ ThreadCnt \in Nat
      /\ tasks[0] = [by |-> s, loop |-> l]
      /\ flags[0] \subseteq 1..(Started(s) - 1)
      /\ done[s] = DoneBy(l, RanThreads(s))
  BY <1>2, BusyFacts
<1>4. /\ submitter' \in [Submitters -> SubmitterRecord] /\ submitter'[s].pc = "wait"
      /\ submitter'[s].loop = l /\ submitter'[s].tiles = n /\ submitter'[s].next = 1
  <2>. DEFINE q == [submitter[s] EXCEPT !.pc = "wait", !.next = 1]
  <2>1. q \in SubmitterRecord /\ q.pc = "wait" /\ q.loop = l /\ q.tiles = n /\ q.next = 1
    <3>. DEFINE p == [submitter[s] EXCEPT !.pc = "wait"]
    <3>1. /\ p \in SubmitterRecord /\ p.pc = "wait" /\ p.loop = l /\ p.tiles = n
          /\ q = [p EXCEPT !.next = 1]
      BY <1>3 DEF SubmitterRecord
    <3>. HIDE DEF p, q
    <3>. QED BY <3>1 DEF SubmitterRecord
  <2>2. submitter \in [Submitters -> SubmitterRecord]
    BY <1>3 DEF Types
  <2>3. submitter' = [submitter EXCEPT ![s] = q]
    BY <1>1, <2>2
  <2>. HIDE DEF q
  <2>. QED BY <2>1, <2>2, <2>3
<1>. HIDE DEF l, n
<1>5. Started(s)' = Started(s) /\ Busy(s)' /\ Started(s) = n
  BY <1>1, <1>4 DEF Started, Busy, n
<1>6. /\ RanThreads(s)' = RanThreads(s) \cup {0} /\ 0 \notin RanThreads(s)
      /\ RanThreads(s) \in SUBSET Int
  <2>1. ~HasRun(s, 0) /\ HasRun(s, 0)'
    BY <1>1, <1>4 DEF HasRun
  <2>2. \A t \in 0..(n - 1) : t # 0 => HasRun(s, t)' = HasRun(s, t)
    BY <1>1, <1>5 DEF HasRun
  <2>3. 0 \in 0..(n - 1)
    BY <1>3
  <2>. QED BY <1>4, <2>1, <2>2, <2>3 DEF RanThreads, n
<1>7. /\ done'[s] = DoneBy(l, RanThreads(s) \cup {0}) /\ done' = [u \in Submitters |-> done'[u]]
  <2>1. tasks[0].by = s /\ tasks[0].loop = l
    BY <1>3
  <2>2. Call(0, 0)
    BY <1>3 DEF OwnShare
  <2>3. done' = [done EXCEPT ![s] = Ran(s, Share(l, 0))]
    BY <2>1, <2>2 DEF Call
  <2>4. done = [u \in Submitters |-> done[u]]
    BY <1>3 DEF Types
  <2>5. Ran(s, Share(l, 0)) = DoneBy(l, RanThreads(s) \cup {0})
    BY <1>3, <1>6, OneMoreShare DEF Ran
  <2>. QED BY <2>3, <2>4, <2>5
<1>8. Types'
  BY <1>1, <1>3, <1>4, <1>7 DEF Types, poolVars
<1>9. FlagsMeanWork'
  BY <1>1, <1>3, <1>5 DEF FlagsMeanWork
<1>10. Progress(s)'
  <2>1. 1 \in 1..n /\ 1..(1 - 1) = {}
    BY <1>3
  <2>. QED BY <1>1, <1>3, <1>4, <1>5, <1>6, <1>7, <2>1 DEF Progress
<1>11. Split(s)' /\ Ends(s)'
  BY <1>1, <1>3, <1>4 DEF Split, Ends, poolVars
<1>. QED BY <1>8, <1>9, <1>10, <1>11, CallerStep

\* The caller waits until it has seen every flag cleared; a flag seen cleared
\* stays so, and then all shares have run.
LEMMA PushWaits ==
  ASSUME OneCaller, PushInv, NEW s \in Submitters, Spin(s) PROVE PushInv'
<1>. DEFINE l == submitter[s].loop
            n == submitter[s].tiles
            k == submitter[s].next
            q == submitter[s]
<1>1. submitter[s].pc = "wait" /\ UNCHANGED <<poolVars, tasks, flags, worker, done>>
  BY DEF Spin
<1>2. Busy(s)
  BY <1>1 DEF Busy
<1>3. /\ Types /\ FlagsMeanWork /\ submitter[s] \in SubmitterRecord
      /\ life = "up" /\ task_index = 0
      /\ l \in Loops /\ TilesNum(l) > 1 /\ n = Parts(l) /\ n \in Nat /\ n >= 1
      /\ n <= ThreadCnt /\ ThreadCnt \in Nat
      /\ tasks[0] = [by |-> s, loop |-> l]
      /\ k \in 1..n /\ flags[0] \subseteq 1..(Started(s) - 1)
      /\ \A t \in 1..(k - 1) : t \notin flags[0]
      /\ done[s] = DoneBy(l, RanThreads(s))
  BY <1>1, <1>2, BusyFacts
<1>4. Started(s) = n
  BY <1>1 DEF Started
<1>5. CASE AllClear(s)
  <2>1. submitter' = [submitter EXCEPT ![s] = [q EXCEPT !.pc = "returned"]]
    BY <1>5 DEF Spin
  <2>2. /\ submitter' \in [Submitters -> SubmitterRecord] /\ submitter'[s].pc = "returned"
        /\ submitter'[s].loop = l
    BY <1>3, <2>1 DEF Types, SubmitterRecord
  <2>3. k = n
    BY <1>3, <1>5 DEF AllClear
  <2>4. flags[0] = {}
    BY <1>3, <1>4, <2>3
  <2>. HIDE DEF l, n, k, q
  <2>5. RanThreads(s) = 0..(n - 1)
    <3>1. \A t \in 0..(n - 1) : HasRun(s, t)
      BY <1>1, <1>3, <1>4, <2>4 DEF HasRun
    <3>. QED BY <3>1 DEF RanThreads, n
  <2>6. StepsDivide => done'[s] = [i \in Iterations(l) |-> 1]
    BY <1>1, <1>3, <2>5, AllShares
  <2>7. Types'
    BY <1>1, <1>3, <2>2 DEF Types, poolVars
  <2>8. FlagsMeanWork'
    BY <1>1, <1>3, <2>4 DEF FlagsMeanWork
  <2>9. Split(s)' /\ Progress(s)' /\ Ends(s)'
    BY <2>2, <2>6 DEF Split, Progress, Ends, Busy
  <2>. QED BY <2>7, <2>8, <2>9, CallerStep
<1>6. CASE ~AllClear(s)
  <2>. DEFINE m == IF k \in flags[0] THEN 1 ELSE k + 1
  <2>1. submitter' = [submitter EXCEPT ![s] = [q EXCEPT !.next = m]]
    BY <1>3, <1>6 DEF Spin
  <2>2. m \in 1..n /\ \A t \in 1..(m - 1) : t \notin flags[0]
    <3>1. k < n
      BY <1>3, <1>6 DEF AllClear
    <3>2. CASE k \in flags[0]
      BY <1>3, <3>2
    <3>3. CASE k \notin flags[0]
      BY <1>3, <3>1, <3>3
    <3>. QED BY <3>2, <3>3
  <2>. HIDE DEF m
  <2>3. /\ submitter' \in [Submitters -> SubmitterRecord] /\ submitter'[s].pc = "wait"
        /\ submitter'[s].loop = l /\ submitter'[s].tiles = n /\ submitter'[s].next = m
    <3>1. m \in Int
      BY <2>2
    <3>. QED BY <1>1, <1>3, <2>1, <3>1 DEF Types, SubmitterRecord
  <2>. HIDE DEF l, n, k, q
  <2>4. Types'
    BY <1>1, <1>3, <2>3 DEF Types, poolVars
  <2>5. Busy(s)' /\ Started(s)' = Started(s)
    BY <1>4, <2>3 DEF Busy, Started
  <2>6. FlagsMeanWork'
    BY <1>1, <1>3, <2>5 DEF FlagsMeanWork
  <2>7. RanThreads(s)' = RanThreads(s)
    <3>1. \A t \in 0..(n - 1) : HasRun(s, t)' = HasRun(s, t)
      BY <1>1, <2>3, <2>5 DEF HasRun
    <3>. QED BY <2>3, <3>1 DEF RanThreads, n
  <2>8. Progress(s)'
    BY <1>1, <1>3, <2>2, <2>3, <2>5, <2>7 DEF Progress
  <2>9. Split(s)' /\ Ends(s)'
    BY <1>1, <1>3, <2>3 DEF Split, Ends, poolVars
  <2>. QED BY <2>4, <2>6, <2>8, <2>9, CallerStep
<1>. QED BY <1>5, <1>6

\* push() returns.
LEMMA PushEnds ==
  ASSUME OneCaller, PushInv, NEW s \in Submitters, Return(s) PROVE PushInv'
<1>0. Types /\ FlagsMeanWork
  BY DEF PushInv
<1>1. /\ submitter[s].pc = "returned" /\ UNCHANGED <<poolVars, tasks, flags, worker>>
      /\ submitter' = [submitter EXCEPT
           ![s] = [pc |-> "in", loop |-> NoLoop, tiles |-> 0, next |-> 0]]
      /\ done' = [done EXCEPT ![s] = [i \in {} |-> 0]]
  BY DEF Return
<1>2. submitter' \in [Submitters -> SubmitterRecord] /\ submitter'[s].pc = "in"
  BY <1>0, <1>1 DEF Types, SubmitterRecord
<1>3. done' = [u \in Submitters |-> done'[u]]
  <2>1. done = [u \in Submitters |-> done[u]]
    BY <1>0 DEF Types
  <2>. QED BY <1>1, <2>1
<1>4. Types'
  BY <1>0, <1>1, <1>2, <1>3 DEF Types, poolVars
<1>5. \A u \in Submitters : ~Busy(u)
  BY <1>1 DEF OneCaller, Busy
<1>6. FlagsMeanWork'
  BY <1>0, <1>1, <1>5 DEF FlagsMeanWork
<1>7. Split(s)' /\ Progress(s)' /\ Ends(s)'
  BY <1>2 DEF Split, Progress, Ends, Busy
<1>. QED BY <1>4, <1>6, <1>7, CallerStep

-----------------------------------------------------------------------------
\* At the start no flag is set and nobody pushes.
LEMMA InitPush == Init => PushInv
<1>. SUFFICES ASSUME Init PROVE PushInv
  OBVIOUS
<1>. USE DEF Init, Slots, TaskLimits
<1>1. submitter \in [Submitters -> SubmitterRecord]
      /\ \A s \in Submitters : submitter[s].pc \in {"in", "out"}
  BY DEF SubmitterRecord
<1>2. Types
  BY <1>1 DEF Types, WorkerRecord
<1>3. FlagsMeanWork
  BY DEF FlagsMeanWork
<1>4. \A s \in Submitters : Split(s) /\ Progress(s) /\ Ends(s)
  BY <1>1 DEF Split, Progress, Ends, Busy
<1>. QED BY <1>2, <1>3, <1>4 DEF PushInv

\* Every step keeps the invariant.
LEMMA NextPush == ASSUME OneCaller PROVE PushInv /\ [Next]_vars => PushInv'
<1>. SUFFICES ASSUME PushInv, [Next]_vars PROVE PushInv'
  OBVIOUS
<1>1. ASSUME NEW s \in Submitters, SubmitterStep(s) PROVE PushInv'
  BY <1>1, PushSplits, PushSetsFlag, PushRunsOwn, PushWaits, PushEnds DEF SubmitterStep
<1>2. ASSUME NEW t \in Workers, WorkerStep(t) PROVE PushInv'
  BY <1>2, WorkerLooks, WorkerRuns, WorkerClears DEF WorkerStep
<1>3. ASSUME NEW s \in Submitters, NEW l \in Loops, Push(s, l) PROVE PushInv'
  BY <1>3, PushBegins
<1>. QED BY <1>1, <1>2, <1>3, OthersPush DEF Next

\* push() and the workers: for one caller and steps that divide their ranges, a
\* loop has run each iteration exactly once when push() returns, for any number
\* of threads and whenever the pool is idled and woken.
THEOREM EachTileAlwaysOnce ==
  ASSUME OneCaller, StepsDivide PROVE Spec => []EachTileOnce
<1>1. PushInv => EachTileOnce
  BY DEF PushInv, Ends, EachTileOnce
<1>. QED BY <1>1, InitPush, NextPush, PTL DEF Spec

\* A worker that is about to call the function of a slot finds the push that
\* wrote it under way, and has an iteration to run; this and the next theorem hold
\* for any steps.
THEOREM ClosureAlwaysAlive ==
  ASSUME OneCaller PROVE Spec => []ClosureAlive
<1>1. PushInv => ClosureAlive
  <2>. SUFFICES ASSUME PushInv, NEW t \in Workers, worker[t].pc = "run"
                PROVE  /\ submitter[tasks[worker[t].slot].by].pc \in {"flags", "own", "wait"}
                       /\ Share(tasks[worker[t].slot].loop, t) # {}
    BY DEF ClosureAlive
  <2>1. worker[t].slot = 0 /\ t \in flags[0]
    BY DEF PushInv, FlagsMeanWork
  <2>2. PICK s \in Submitters : Busy(s)
    BY <2>1 DEF PushInv, FlagsMeanWork
  <2>3. /\ submitter[s].loop \in Loops /\ TilesNum(submitter[s].loop) > 1
        /\ submitter[s].tiles = Parts(submitter[s].loop) /\ submitter[s].tiles \in Nat
        /\ tasks[0] = [by |-> s, loop |-> submitter[s].loop]
        /\ submitter[s].next \in 1..submitter[s].tiles
        /\ flags[0] \subseteq 1..(Started(s) - 1)
    BY <2>2, BusyFacts
  <2>4. t \in 0..(Parts(submitter[s].loop) - 1)
    BY <2>1, <2>3 DEF Started
  <2>5. Share(submitter[s].loop, t) # {}
    BY <2>3, <2>4, ShareSome
  <2>6. tasks[worker[t].slot].by = s /\ tasks[worker[t].slot].loop = submitter[s].loop
    BY <2>1, <2>3
  <2>. QED BY <2>2, <2>5, <2>6 DEF Busy
<1>. QED BY <1>1, InitPush, NextPush, PTL DEF Spec

\* Between pushes every flag is cleared.
THEOREM NeverStaleFlag ==
  ASSUME OneCaller PROVE Spec => []NoStaleFlag
<1>1. PushInv => NoStaleFlag
  BY DEF PushInv, FlagsMeanWork, NoStaleFlag, Busy, Slots, TaskLimits
<1>. QED BY <1>1, InitPush, NextPush, PTL DEF Spec

-----------------------------------------------------------------------------
\* One session at a time, whoever else pushes.
OneSession == \A s, u \in Sessions : s = u

\* While the pool is up, idle() has kept what wakeup() gives back, and a session
\* under way has it.
SlotsKept ==
  /\ available \in Nat /\ available_old \in Nat
  /\ DOMAIN submitter = Submitters
  /\ life = "new" => \A s \in Sessions : submitter[s].pc = "out"
  /\ life = "up" => available_old > 0
  /\ PoolComesBack

\* A session that starts gets back what the session before it took away, also
\* when that one ended with an exception and never called idle().
THEOREM PoolAlwaysComesBack == ASSUME OneSession PROVE Spec => []PoolComesBack
<1>1. Init => SlotsKept
  BY SessionsAssumption DEF Init, SlotsKept, PoolComesBack, SessionsAssumption
<1>2. ASSUME SlotsKept, [Next]_vars PROVE SlotsKept'
  <2>. USE DEF SlotsKept, PoolComesBack
  <2>1. CASE initThreadPool
    BY <1>2, <2>1, SessionsAssumption DEF initThreadPool, SessionsAssumption
  <2>2. ASSUME NEW s \in Submitters, BeginSession(s) PROVE SlotsKept'
    BY <1>2, <2>2 DEF BeginSession, wakeup
  <2>3. ASSUME NEW s \in Submitters, EndSession(s) PROVE SlotsKept'
    <3>1. \A u \in Sessions : u = s
      BY <2>3 DEF EndSession, OneSession
    <3>2. available' = 0 /\ available_old' = available /\ life' = life /\ submitter[s].pc = "in"
          /\ submitter' = [submitter EXCEPT ![s].pc = "out"] /\ s \in Sessions
      BY <2>3 DEF EndSession, idle
    <3>3. submitter'[s].pc = "out" /\ DOMAIN submitter' = Submitters
      BY <1>2, <3>2
    <3>. QED BY <1>2, <3>1, <3>2, <3>3
  <2>4. ASSUME NEW s \in Submitters, SessionThrows(s) PROVE SlotsKept'
    BY <1>2, <2>4 DEF SessionThrows, poolVars
  <2>5. ASSUME NEW s \in Submitters, (\E l \in Loops : Push(s, l)) \/ SubmitterStep(s)
        PROVE  SlotsKept'
    <3>1. UNCHANGED poolVars /\ submitter[s].pc \notin {"out", "gone"}
          /\ DOMAIN submitter' = Submitters
          /\ \A u \in Submitters : u # s => submitter'[u] = submitter[u]
      BY <1>2, <2>5 DEF Push, SubmitterStep, SplitTask, SetFlag, OwnShare, Spin, Return
    <3>. QED BY <1>2, <3>1, SessionsAssumption DEF poolVars, SessionsAssumption
  <2>6. ASSUME NEW t \in Workers, WorkerStep(t) PROVE SlotsKept'
    BY <1>2, <2>6 DEF WorkerStep, Top, Check, Scan, Run, Clear, Wait, poolVars
  <2>7. CASE BackendGone
    BY <1>2, <2>7 DEF BackendGone, DestroyPool
  <2>8. CASE Stop \/ Join \/ UNCHANGED vars
    BY <1>2, <2>8 DEF Stop, Join, vars, poolVars
  <2>. QED BY <1>2, <2>1, <2>2, <2>3, <2>4, <2>5, <2>6, <2>7, <2>8 DEF Next
<1>3. SlotsKept => PoolComesBack
  BY DEF SlotsKept
<1>. QED BY <1>1, <1>2, <1>3, PTL DEF Spec
=============================================================================
