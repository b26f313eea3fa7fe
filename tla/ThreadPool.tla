---------------------------- MODULE ThreadPool ----------------------------
(***************************************************************************)
(* HpcThreadPool (mllm/engine/HpcThreadPool.cpp) with what drives it: the  *)
(* CPU backend that creates it and takes one task slot for all callers,    *)
(* the threads that push parallel loops (MLLM_AUTO_PARALLEL), and the      *)
(* sessions that wake the pool at the start of a request and idle it at    *)
(* the end (mllm/models/qwen3/modeling_qwen3_service.hpp).                 *)
(*                                                                         *)
(* A loop is [start, end, step]; its body is only the set of iterations    *)
(* that ran. Each action is one access to an atomic, one critical section  *)
(* or one call of a task's function. push() does not copy the loop: the    *)
(* workers use the caller's stack until it returns. A notify_all() is one  *)
(* step with the assignment before it: a worker that runs in between sees  *)
(* the new value and does not sleep.                                       *)
(***************************************************************************)
EXTENDS Integers, Sequences, FiniteSets

CONSTANTS
  ThreadCnt,   \* thread_cnt_: the caller is thread 0, workers are 1 and up
  Submitters,  \* OS threads that push loops
  Sessions,    \* those that serve requests, and so wake and idle the pool
  Loops        \* the loops they push

ASSUME ThreadCntAssumption == ThreadCnt \in Nat \ {0}
ASSUME SessionsAssumption == Sessions \subseteq Submitters
ASSUME LoopsAssumption ==
  Loops \subseteq [start : Nat, end : Nat, step : Nat \ {0}]

VARIABLES
  available,       \* available_task_slots_
  available_old,   \* available_task_slots_old_
  stop,            \* stop_
  task_available,  \* the task slots nobody has acquired
  task_index,      \* CPUBackend::task_index_, the slot of every push
  tasks,           \* tasks[i]: the function in slot i
  flags,           \* flags[i]: the threads whose flag in slot i is set
  worker,          \* worker[t]: [pc, slot]
  submitter,       \* submitter[s]: [pc, loop, tiles, next]
  done,            \* done[s][i]: how often iteration i of the loop of s ran
  life             \* "new", "up", "destroyed", "stopping" or "joined"

poolVars == <<available, available_old, stop, task_available, task_index, life>>

vars == <<poolVars, tasks, flags, worker, submitter, done>>

TaskLimits == 2

Slots == 0..(TaskLimits - 1)

Workers == 1..(ThreadCnt - 1)

-----------------------------------------------------------------------------
\* The iterations of a loop, in order.
TilesNum(l) == (l.end - l.start) \div l.step

Iterations(l) == {i \in l.start..(l.end - 1) : (i - l.start) % l.step = 0}

\* true_idx: room for TilesNum(l) iterations, so a last, partial one is lost.
\* (The code writes it past the end of the vector.)
TrueIdx(l) == [v \in 0..(TilesNum(l) - 1) |-> l.start + v * l.step]

\* A mistake: the stride is one short, so threads overlap.
ShareOffByOne(l, t) ==
  {TrueIdx(l)[v] : v \in {w \in DOMAIN TrueIdx(l) : w = t \/ (w > t /\ (w - t) % (ThreadCnt - 1) = 0)}}

\* What thread t runs of a loop: every ThreadCnt-th iteration from t on.
Share(l, t) == {TrueIdx(l)[v] : v \in {w \in DOMAIN TrueIdx(l) : w % ThreadCnt = t}}

Ran(s, I) == [i \in DOMAIN done[s] |-> IF i \in I THEN done[s][i] + 1 ELSE done[s][i]]

\* The threads that get work of a split loop.
Parts(l) == IF TilesNum(l) > ThreadCnt THEN ThreadCnt ELSE TilesNum(l)

acquireTaskSlot ==
  IF task_available = {} THEN -1
  ELSE CHOOSE i \in task_available : \A j \in task_available : i <= j

NoLoop == [start |-> 0, end |-> 0, step |-> 1]

NoTask == [by |-> CHOOSE s \in Submitters : TRUE, loop |-> NoLoop]

Woken == [t \in Workers |->
            IF worker[t].pc = "asleep" THEN [worker[t] EXCEPT !.pc = "wait"] ELSE worker[t]]

Init ==
  /\ available = 0 /\ available_old = 0
  /\ stop = FALSE
  /\ task_available = Slots
  /\ task_index = -1
  /\ tasks = [i \in Slots |-> NoTask]
  /\ flags = [i \in Slots |-> {}]
  /\ worker = [t \in Workers |-> [pc |-> "top", slot |-> 0]]
  /\ submitter = [s \in Submitters |->
       [pc |-> IF s \in Sessions THEN "out" ELSE "in",
        loop |-> NoLoop, tiles |-> 0, next |-> 0]]
  /\ done = [s \in Submitters |-> [i \in {} |-> 0]]
  /\ life = "new"

-----------------------------------------------------------------------------
\* CPUBackend::initThreadPool(): activate() and acquireTaskSlot().
initThreadPool ==
  /\ life = "new"
  /\ life' = "up"
  /\ available' = available + 1
  /\ available_old' = available_old + 1
  /\ worker' = Woken
  /\ task_index' = acquireTaskSlot
  /\ task_available' = task_available \ {acquireTaskSlot}
  /\ UNCHANGED <<stop, tasks, flags, submitter, done>>

\* A mistake: the slots that idle() took are not given back.
WakeupToNothing ==
  /\ worker' = Woken
  /\ UNCHANGED <<available, available_old>>

\* A mistake: the notification is forgotten.
WakeupSilently ==
  /\ available' = available_old
  /\ UNCHANGED <<worker, available_old>>

wakeup ==
  /\ available' = available_old
  /\ worker' = Woken
  /\ UNCHANGED available_old

idle ==
  /\ available_old' = available
  /\ available' = 0

\* A request starts: wakeup().
BeginSession(s) ==
  /\ life = "up"
  /\ submitter[s].pc = "out"
  /\ submitter' = [submitter EXCEPT ![s].pc = "in"]
  /\ wakeup
  /\ UNCHANGED <<stop, task_available, task_index, life, tasks, flags, done>>

\* A request ends: idle().
EndSession(s) ==
  /\ s \in Sessions
  /\ submitter[s].pc = "in"
  /\ submitter' = [submitter EXCEPT ![s].pc = "out"]
  /\ idle
  /\ UNCHANGED <<stop, task_available, task_index, life, tasks, flags, worker, done>>

\* An exception leaves streamGenerate() before its last line: no idle().
SessionThrows(s) ==
  /\ s \in Sessions
  /\ submitter[s].pc = "in"
  /\ submitter' = [submitter EXCEPT ![s].pc = "out"]
  /\ UNCHANGED <<poolVars, tasks, flags, worker, done>>

\* push(l): small loops, and all loops without a slot, are run by the caller.
Serial(l) == TilesNum(l) <= 1 \/ task_index < 0

Push(s, l) ==
  /\ life = "up"
  /\ submitter[s].pc = "in"
  /\ submitter' = [submitter EXCEPT
       ![s] = [pc |-> IF Serial(l) THEN "returned" ELSE "split",
               loop |-> l, tiles |-> Parts(l), next |-> 1]]
  /\ done' = [done EXCEPT ![s] = [i \in Iterations(l) |-> IF Serial(l) THEN 1 ELSE 0]]
  /\ UNCHANGED <<poolVars, tasks, flags, worker>>

\* splitTask(): an idle pool leaves the loop to the caller; else the slot gets
\* its function.
SplitTask(s) ==
  /\ submitter[s].pc = "split"
  /\ IF available = 0
     THEN /\ submitter' = [submitter EXCEPT ![s].pc = "returned"]
          /\ done' = [done EXCEPT ![s] = Ran(s, Iterations(submitter[s].loop))]
          /\ UNCHANGED tasks
     ELSE /\ submitter' = [submitter EXCEPT ![s].pc = "flags"]
          /\ tasks' = [tasks EXCEPT ![task_index] = [by |-> s, loop |-> submitter[s].loop]]
          /\ UNCHANGED done
  /\ UNCHANGED <<poolVars, flags, worker>>

\* The flags of threads 1 and up are set, one after the other.
SetFlag(s) ==
  LET q == submitter[s] IN
  /\ q.pc = "flags"
  /\ IF q.next < q.tiles
     THEN /\ flags' = [flags EXCEPT ![task_index] = @ \cup {q.next}]
          /\ submitter' = [submitter EXCEPT ![s].next = @ + 1]
     ELSE /\ submitter' = [submitter EXCEPT ![s].pc = "own"]
          /\ UNCHANGED flags
  /\ UNCHANGED <<poolVars, tasks, worker, done>>

\* The function in slot i, called by thread t: it runs the loop of whoever
\* wrote the slot last.
Call(i, t) ==
  LET k == tasks[i] IN
  done' = [done EXCEPT ![k.by] = Ran(k.by, Share(k.loop, t))]

OwnShare(s) ==
  /\ submitter[s].pc = "own"
  /\ Call(task_index, 0)
  /\ submitter' = [submitter EXCEPT ![s].pc = "wait", ![s].next = 1]
  /\ UNCHANGED <<poolVars, tasks, flags, worker>>

\* A mistake: the caller looks at the first flags only.
WaitTooShort(s) == submitter[s].next >= submitter[s].tiles - 1

\* All flags were seen cleared.
AllClear(s) == submitter[s].next >= submitter[s].tiles

\* The caller spins: it reads the flags in order and starts again at a set one.
Spin(s) ==
  LET q == submitter[s] IN
  /\ q.pc = "wait"
  /\ submitter' = [submitter EXCEPT
       ![s] = IF AllClear(s) THEN [q EXCEPT !.pc = "returned"]
              ELSE [q EXCEPT !.next = IF q.next \in flags[task_index] THEN 1 ELSE q.next + 1]]
  /\ UNCHANGED <<poolVars, tasks, flags, worker, done>>

\* push() is over: its loop and true_idx leave the stack.
Return(s) ==
  /\ submitter[s].pc = "returned"
  /\ submitter' = [submitter EXCEPT
       ![s] = [pc |-> "in", loop |-> NoLoop, tiles |-> 0, next |-> 0]]
  /\ done' = [done EXCEPT ![s] = [i \in {} |-> 0]]
  /\ UNCHANGED <<poolVars, tasks, flags, worker>>

-----------------------------------------------------------------------------
Goto(t, pc, slot) == worker' = [worker EXCEPT ![t] = [pc |-> pc, slot |-> slot]]

\* while (!stop_)
Top(t) ==
  /\ worker[t].pc = "top"
  /\ Goto(t, IF stop THEN "exit" ELSE "check", 0)
  /\ UNCHANGED <<poolVars, tasks, flags, submitter, done>>

\* while (available_task_slots_ > 0)
Check(t) ==
  /\ worker[t].pc = "check"
  /\ Goto(t, IF available > 0 THEN "scan" ELSE "wait", 0)
  /\ UNCHANGED <<poolVars, tasks, flags, submitter, done>>

AfterSlot(t) ==
  LET i == worker[t].slot IN
  IF i + 1 \in Slots THEN Goto(t, "scan", i + 1) ELSE Goto(t, "check", 0)

Scan(t) ==
  /\ worker[t].pc = "scan"
  /\ IF t \in flags[worker[t].slot] THEN Goto(t, "run", worker[t].slot) ELSE AfterSlot(t)
  /\ UNCHANGED <<poolVars, tasks, flags, submitter, done>>

Run(t) ==
  /\ worker[t].pc = "run"
  /\ Call(worker[t].slot, t)
  /\ Goto(t, "clear", worker[t].slot)
  /\ UNCHANGED <<poolVars, tasks, flags, submitter>>

Clear(t) ==
  /\ worker[t].pc = "clear"
  /\ flags' = [flags EXCEPT ![worker[t].slot] = @ \ {t}]
  /\ AfterSlot(t)
  /\ UNCHANGED <<poolVars, tasks, submitter, done>>

\* condition_.wait(): the predicate is looked at under the lock.
Wait(t) ==
  /\ worker[t].pc = "wait"
  /\ Goto(t, IF stop \/ available > 0 THEN "top" ELSE "asleep", 0)
  /\ UNCHANGED <<poolVars, tasks, flags, submitter, done>>

-----------------------------------------------------------------------------
\* A mistake: the pool is not told to leave its inner loop.
DestroyNothing == UNCHANGED available

DestroyPool == available' = 0

\* ~CPUBackend(): __threadPoolDestroy(), once nobody pushes any more.
BackendGone ==
  /\ life = "up"
  /\ \A s \in Submitters : submitter[s].pc \in {"in", "out"}
  /\ submitter' = [s \in Submitters |-> [submitter[s] EXCEPT !.pc = "gone"]]
  /\ life' = "destroyed"
  /\ DestroyPool
  /\ UNCHANGED <<available_old, stop, task_available, task_index, tasks, flags, worker, done>>

\* ~HpcThreadPool(): stop_ is set, all are woken, then joined.
Stop ==
  /\ life = "destroyed"
  /\ life' = "stopping"
  /\ stop' = TRUE
  /\ worker' = Woken
  /\ UNCHANGED <<available, available_old, task_available, task_index, tasks, flags,
                 submitter, done>>

Join ==
  /\ life = "stopping"
  /\ \A t \in Workers : worker[t].pc = "exit"
  /\ life' = "joined"
  /\ UNCHANGED <<available, available_old, stop, task_available, task_index, tasks,
                 flags, worker, submitter, done>>

SubmitterStep(s) ==
  SplitTask(s) \/ SetFlag(s) \/ OwnShare(s) \/ Spin(s) \/ Return(s)

WorkerStep(t) == Top(t) \/ Check(t) \/ Scan(t) \/ Run(t) \/ Clear(t) \/ Wait(t)

Next ==
  \/ initThreadPool
  \/ \E s \in Submitters :
       \/ BeginSession(s) \/ EndSession(s) \/ SessionThrows(s)
       \/ \E l \in Loops : Push(s, l)
       \/ SubmitterStep(s)
  \/ \E t \in Workers : WorkerStep(t)
  \/ BackendGone \/ Stop \/ Join

Spec == Init /\ [][Next]_vars

\* Every OS thread that can go on does. Nothing makes a thread push again or
\* end its session; a destructor, once entered, is run to its end.
Fairness ==
  /\ \A s \in Submitters : WF_vars(SubmitterStep(s))
  /\ \A t \in Workers : WF_vars(WorkerStep(t))
  /\ WF_vars(Stop) /\ WF_vars(Join)

FairSpec == Spec /\ Fairness

-----------------------------------------------------------------------------
\* When push() returns, each iteration of the loop has run exactly once: whichever
\* thread ran it, however the pool was idled, woken and shared meanwhile.
EachTileOnce ==
  \A s \in Submitters :
    submitter[s].pc = "returned" =>
      done[s] = [i \in Iterations(submitter[s].loop) |-> 1]

\* A worker about to call the function of a slot finds the push that wrote it
\* still under way: the loop and true_idx live on that caller's stack.
ClosureAlive ==
  \A t \in Workers :
    worker[t].pc = "run" =>
      /\ submitter[tasks[worker[t].slot].by].pc \in {"flags", "own", "wait"}
      /\ Share(tasks[worker[t].slot].loop, t) # {}

\* No flag is left set between pushes: a stale flag would make a worker call an
\* old function.
NoStaleFlag ==
  (\A s \in Submitters : submitter[s].pc \in {"out", "in", "gone"}) =>
    \A i \in Slots : flags[i] = {}

\* Every push returns, although its caller spins and workers sleep on idle().
PushReturns ==
  \A s \in Submitters : submitter[s].pc # "in" /\ submitter[s].pc # "out" ~>
                          submitter[s].pc \in {"in", "gone"}

\* The destructor returns: every worker sees stop_ and leaves both its loops.
DestructorReturns == life = "destroyed" ~> life = "joined"

\* The slots a session's idle() takes away are there again for the next session,
\* also after an exception kept idle() from being called.
PoolComesBack ==
  \A s \in Submitters :
    life = "up" /\ s \in Sessions /\ submitter[s].pc \notin {"out", "gone"} => available > 0
=============================================================================
