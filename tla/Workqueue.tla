----------------------------- MODULE Workqueue -----------------------------
(***************************************************************************)
(* The workqueue of task/workqueue.rs: clients queue Work items, one worker *)
(* kthread per queue runs them, flush and destroy wait for it. The worker   *)
(* is a kthread of Kthread; clients are its callers.                        *)
(*                                                                          *)
(* A flush makes a Work of its own, the sentinel; a client has at most one  *)
(* flush under way, so the sentinel of client a is written a here.          *)
(* Work::wait is a loop on completed, as in flush. queue on a Work that is  *)
(* not idle returns false and changes nothing, so it is only a guard here.  *)
(* Clients do what the callers in the kernel do: none queues or destroys    *)
(* once a destroy has begun.                                                *)
(***************************************************************************)
EXTENDS Kthread, Sequences

CONSTANTS Works,            \* the clients' Work items
          MaxSpawnFailures  \* bound on kthread_run failing

Items == Works \union Callers

NoItem == "no_item"
NoClient == "no_client"

ASSUME WorkAssumption ==
  Works \intersect Callers = {} /\ NoItem \notin Items /\ NoClient \notin Callers
ASSUME FailureAssumption == MaxSpawnFailures \in Nat

VARIABLES
  wq,             \* Workqueue::queue
  work,           \* Work::state
  completed,      \* Work::completed
  func,           \* items whose func has not been taken
  worker,         \* Workqueue::worker
  workerLock,     \* the client that holds its mutex across several steps
  shutdown,       \* Workqueue::shutdown
  item,           \* the Work each worker executes
  arg,            \* the Work the client queues
  afterFlush,     \* where flush returns to
  destroying,     \* clients inside destroy
  spawnFailures,
  accepted,       \* history: Works whose queue() call returned true
  before,         \* history: those of them when the client's flush began
  drained         \* history: a destroy has stopped the worker and returned

itemVars == <<wq, work, completed, func>>
wqVars == <<worker, workerLock, shutdown>>
clientVars == <<arg, afterFlush, destroying, spawnFailures, accepted, before, drained>>
wvars == <<itemVars, wqVars, item, clientVars>>
allVars == <<kvars, wvars>>

-----------------------------------------------------------------------------
(***************************************************************************)
(* The worker: worker_thread_fn and Work::execute.                          *)
(***************************************************************************)
WorkerLoop(k) ==
  /\ KthreadAt(k, "body", IF shutdown \/ shouldStop[k] THEN "exit" ELSE "pop")
  /\ UNCHANGED <<run, flagVars, wvars>>

WorkerPop(k) ==
  /\ KthreadAt(k, "pop", IF wq = << >> THEN "park" ELSE "execute")
  /\ item' = IF wq = << >> THEN item ELSE [item EXCEPT ![k] = Head(wq)]
  /\ wq' = IF wq = << >> THEN wq ELSE Tail(wq)
  /\ UNCHANGED <<run, flagVars, work, completed, func, wqVars, clientVars>>

\* the function runs between the two stores to the state
Execute(k) ==
  /\ KthreadAt(k, "execute", "executed")
  /\ work' = [work EXCEPT ![item[k]] = "running"]
  /\ func' = func \ {item[k]}
  /\ UNCHANGED <<run, flagVars, wq, completed, wqVars, item, clientVars>>

ExecuteMarksDone(k) ==
  /\ KthreadAt(k, "executed", "complete")
  /\ work' = [work EXCEPT ![item[k]] = "done"]
  /\ UNCHANGED <<run, flagVars, wq, completed, func, wqVars, item, clientVars>>

ExecuteIdle(k) ==
  /\ KthreadAt(k, "executed", "complete")
  /\ work' = [work EXCEPT ![item[k]] = "idle"]
  /\ UNCHANGED <<run, flagVars, wq, completed, func, wqVars, item, clientVars>>

ExecuteComplete(k) ==
  /\ KthreadAt(k, "complete", "body")
  /\ completed' = [completed EXCEPT ![item[k]] = TRUE]
  /\ item' = [item EXCEPT ![k] = NoItem]
  /\ UNCHANGED <<run, flagVars, wq, work, func, wqVars, clientVars>>

WorkerStep(k) ==
  \/ WorkerLoop(k) \/ WorkerPop(k)
  \/ Execute(k) \/ ExecuteIdle(k) \/ ExecuteComplete(k)
  \/ (ParkStep(k) \/ ExitStart(k, 0) \/ ExitTerminate(k) \/ ExitPublish(k)) /\ UNCHANGED wvars

-----------------------------------------------------------------------------
(***************************************************************************)
(* queue and ensure_worker.                                                 *)
(***************************************************************************)
Step(a, at, to) ==
  /\ CallerAt(a, at, to)
  /\ UNCHANGED joined

\* kthread_unpark is entered with the mutex of worker held
LockAndUnpark(a, continue) ==
  /\ workerLock' = a
  /\ handle' = [handle EXCEPT ![a] = worker]
  /\ ret' = [ret EXCEPT ![a] = continue]

SetPendingAlways(a, w) ==
  /\ destroying = {} /\ ~drained
  /\ Step(a, "idle", "q_push")
  /\ arg' = [arg EXCEPT ![a] = w]
  /\ work' = [work EXCEPT ![w] = "pending"]
  /\ UNCHANGED <<run, flagVars, ret, handle, wq, completed, func, wqVars, item, afterFlush,
                 destroying, spawnFailures, accepted, before, drained>>

\* try_set_pending
SetPending(a, w) ==
  /\ destroying = {} /\ ~drained
  /\ work[w] = "idle"
  /\ Step(a, "idle", "q_push")
  /\ arg' = [arg EXCEPT ![a] = w]
  /\ work' = [work EXCEPT ![w] = "pending"]
  /\ UNCHANGED <<run, flagVars, ret, handle, wq, completed, func, wqVars, item, afterFlush,
                 destroying, spawnFailures, accepted, before, drained>>

QueuePush(a) ==
  /\ Step(a, "q_push", "q_worker")
  /\ wq' = Append(wq, arg[a])
  /\ UNCHANGED <<run, flagVars, ret, handle, work, completed, func, wqVars, item, clientVars>>

QueueReturn(a) ==
  /\ accepted' = accepted \union {arg[a]}
  /\ arg' = [arg EXCEPT ![a] = NoItem]
  /\ UNCHANGED <<itemVars, shutdown, item, afterFlush, destroying, before, drained>>

\* no worker yet: kthread_run, under the mutex
EnsureWorkerSpawns(a, k) ==
  /\ workerLock = NoClient /\ worker = NoKthread
  /\ a \in onCpu /\ cpc[a] = "q_worker"
  /\ cpc' = [cpc EXCEPT ![a] = "idle"]
  /\ SpawnKthread(k)
  /\ worker' = k
  /\ QueueReturn(a)
  /\ UNCHANGED <<ret, handle, joined, workerLock, spawnFailures>>

\* SpawnFailed is logged; the Work stays in the queue and the call succeeds
EnsureWorkerFails(a) ==
  /\ workerLock = NoClient /\ worker = NoKthread
  /\ spawnFailures < MaxSpawnFailures
  /\ spawnFailures' = spawnFailures + 1
  /\ Step(a, "q_worker", "idle")
  /\ QueueReturn(a)
  /\ UNCHANGED <<run, flagVars, ret, handle, worker, workerLock>>

EnsureWorkerWakes(a) ==
  /\ workerLock = NoClient /\ worker # NoKthread
  /\ Step(a, "q_worker", "unpark")
  /\ LockAndUnpark(a, "q_done")
  /\ UNCHANGED <<run, flagVars, itemVars, worker, shutdown, item, clientVars>>

QueueDone(a) ==
  /\ Step(a, "q_done", "idle")
  /\ workerLock' = NoClient
  /\ QueueReturn(a)
  /\ UNCHANGED <<run, flagVars, ret, handle, worker, spawnFailures>>

-----------------------------------------------------------------------------
(***************************************************************************)
(* flush and destroy.                                                       *)
(***************************************************************************)

\* without a worker flush returns at once
Flush(a, from, continue) ==
  /\ workerLock = NoClient
  /\ Step(a, from, IF worker = NoKthread THEN continue ELSE "f_push")
  /\ afterFlush' = [afterFlush EXCEPT ![a] = continue]
  /\ before' = [before EXCEPT ![a] = IF worker = NoKthread THEN {} ELSE accepted]
  /\ UNCHANGED <<run, flagVars, ret, handle, itemVars, wqVars, item, arg,
                 spawnFailures, accepted, drained>>

FlushAtFront(a) ==
  /\ Step(a, "f_push", "f_wake")
  /\ work' = [work EXCEPT ![a] = "pending"]
  /\ completed' = [completed EXCEPT ![a] = FALSE]
  /\ func' = func \union {a}
  /\ wq' = <<a>> \o wq
  /\ UNCHANGED <<run, flagVars, ret, handle, wqVars, item, clientVars>>

\* a fresh sentinel goes to the end of the queue
FlushPush(a) ==
  /\ Step(a, "f_push", "f_wake")
  /\ work' = [work EXCEPT ![a] = "pending"]
  /\ completed' = [completed EXCEPT ![a] = FALSE]
  /\ func' = func \union {a}
  /\ wq' = Append(wq, a)
  /\ UNCHANGED <<run, flagVars, ret, handle, wqVars, item, clientVars>>

\* wake_worker; a destroy may have taken the worker since
FlushWake(a) ==
  /\ workerLock = NoClient
  /\ Step(a, "f_wake", IF worker = NoKthread THEN "f_wait" ELSE "unpark")
  /\ IF worker = NoKthread THEN UNCHANGED <<workerLock, handle, ret>>
     ELSE LockAndUnpark(a, "f_unlock")
  /\ UNCHANGED <<run, flagVars, itemVars, worker, shutdown, item, clientVars>>

FlushUnlock(a) ==
  /\ Step(a, "f_unlock", "f_wait")
  /\ workerLock' = NoClient
  /\ UNCHANGED <<run, flagVars, ret, handle, itemVars, worker, shutdown, item, clientVars>>

FlushDone(a) ==
  /\ completed[a]
  /\ Step(a, "f_wait", afterFlush[a])
  /\ before' = [before EXCEPT ![a] = {}]
  /\ UNCHANGED <<run, flagVars, ret, handle, itemVars, wqVars, item, arg, afterFlush,
                 destroying, spawnFailures, accepted, drained>>

\* a client enters flush, or destroy, which starts with a flush
BeginFlush(a) == Flush(a, "idle", "idle") /\ UNCHANGED destroying

BeginDestroyAtOnce(a) ==
  /\ destroying = {} /\ ~drained /\ \A b \in Callers \ {a} : cpc[b] = "idle"
  /\ destroying' = {a}
  /\ Step(a, "idle", "d_take")
  /\ UNCHANGED <<run, flagVars, ret, handle, itemVars, wqVars, item, arg, afterFlush,
                 spawnFailures, accepted, before, drained>>

BeginDestroy(a) ==
  /\ destroying = {} /\ ~drained /\ \A b \in Callers \ {a} : cpc[b] = "idle"
  /\ destroying' = {a}
  /\ Flush(a, "idle", "d_take")

\* worker.lock().take(), and shutdown if there was one
DestroyTake(a) ==
  /\ workerLock = NoClient
  /\ Step(a, "d_take", IF worker = NoKthread THEN "idle" ELSE "unpark")
  /\ worker' = NoKthread
  /\ shutdown' = (shutdown \/ worker # NoKthread)
  /\ handle' = [handle EXCEPT ![a] = worker]
  /\ ret' = [ret EXCEPT ![a] = "d_stop"]
  /\ destroying' = IF worker = NoKthread THEN {} ELSE destroying
  /\ UNCHANGED <<run, flagVars, itemVars, workerLock, item, arg, afterFlush, spawnFailures,
                 accepted, before, drained>>

\* kthread_stop, then kthread_join, on the handle taken
DestroyCall(a, from, call, continue) ==
  /\ Step(a, from, call)
  /\ ret' = [ret EXCEPT ![a] = continue]
  /\ UNCHANGED <<run, flagVars, handle, wvars>>

DestroyDone(a) ==
  /\ Step(a, "d_done", "idle")
  /\ destroying' = {} /\ drained' = TRUE
  /\ UNCHANGED <<run, flagVars, ret, handle, itemVars, wqVars, item, arg, afterFlush,
                 spawnFailures, accepted, before>>

ClientStep(a) ==
  \/ QueuePush(a) \/ (\E k \in Kthreads : EnsureWorkerSpawns(a, k))
  \/ EnsureWorkerFails(a) \/ EnsureWorkerWakes(a) \/ QueueDone(a)
  \/ FlushPush(a) \/ FlushWake(a) \/ FlushUnlock(a) \/ FlushDone(a)
  \/ DestroyTake(a) \/ DestroyCall(a, "d_stop", "stop", "d_join")
  \/ DestroyCall(a, "d_join", "join", "d_done") \/ DestroyDone(a)
  \/ CallStep(a) /\ UNCHANGED wvars

-----------------------------------------------------------------------------
WInit ==
  /\ KInit
  /\ wq = << >>
  /\ work = [i \in Items |-> "idle"]
  /\ completed = [i \in Items |-> FALSE]
  /\ func = Items
  /\ worker = NoKthread /\ workerLock = NoClient /\ shutdown = FALSE
  /\ item = [k \in Kthreads |-> NoItem]
  /\ arg = [a \in Callers |-> NoItem]
  /\ afterFlush = [a \in Callers |-> "idle"]
  /\ destroying = {}
  /\ spawnFailures = 0
  /\ accepted = {} /\ before = [a \in Callers |-> {}] /\ drained = FALSE

WNext ==
  \/ \E x \in Actors : (SwitchIn(x) \/ SwitchOut(x)) /\ UNCHANGED wvars
  \/ \E k \in Kthreads : WorkerStep(k)
  \/ \E a \in Callers :
       ClientStep(a) \/ (\E w \in Works : SetPending(a, w)) \/ BeginFlush(a) \/ BeginDestroy(a)

WSpec == WInit /\ [][WNext]_allVars

\* As in Kthread. Clients owe the rest of an operation they have begun.
WFairness ==
  /\ \A x \in Actors : SF_allVars(SwitchIn(x) /\ UNCHANGED wvars)
                       /\ SF_allVars(SwitchOut(x) /\ UNCHANGED wvars)
  /\ \A k \in Kthreads : SF_allVars(WorkerStep(k))
  /\ \A a \in Callers : SF_allVars(ClientStep(a))

WFairSpec == WSpec /\ WFairness

-----------------------------------------------------------------------------
(***************************************************************************)
(* Properties.                                                              *)
(***************************************************************************)

\* Every variable of the workqueue holds a value of its type.
WTypeOK ==
  /\ wq \in Seq(Items)
  /\ work \in [Items -> {"idle", "pending", "running"}]
  /\ completed \in [Items -> BOOLEAN] /\ func \subseteq Items
  /\ worker \in Kthreads \union {NoKthread}
  /\ workerLock \in Callers \union {NoClient} /\ shutdown \in BOOLEAN
  /\ item \in [Kthreads -> Items \union {NoItem}]
  /\ arg \in [Callers -> Works \union {NoItem}]
  /\ destroying \subseteq Callers /\ spawnFailures \in 0 .. MaxSpawnFailures
  /\ accepted \subseteq Works /\ before \in [Callers -> SUBSET Works] /\ drained \in BOOLEAN

Occurrences(i) == Cardinality({p \in 1 .. Len(wq) : wq[p] = i})

\* A pending Work is in exactly one place: about to be pushed by the queue()
\* call that won the compare-exchange, in the queue once, or popped by one
\* worker. So its function, an UnsafeCell, is taken by one thread.
PendingInOnePlace ==
  \A i \in Items :
    LET pushers == {a \in Callers : cpc[a] = "q_push" /\ arg[a] = i}
        poppers == {k \in Kthreads : kpc[k] \in {"execute", "executed"} /\ item[k] = i}
    IN  Cardinality(pushers) + Occurrences(i) + Cardinality(poppers)
          = (IF work[i] = "idle" THEN 0 ELSE 1)

\* When the sentinel of a flush is complete, so is every Work accepted before
\* the flush began.
FlushWaits ==
  \A a \in Callers : cpc[a] = "f_wait" /\ completed[a] => \A w \in before[a] : completed[w]

\* After destroy has stopped the worker no Work is left behind: every accepted
\* one has run. (The sentinel of a flush that raced with it may be.)
DestroyDrains ==
  drained => \A w \in accepted : completed[w] /\ work[w] = "idle" /\ w \notin func

\* Every Work that queue() accepted is completed: Work::wait returns.
AcceptedWorkCompletes == \A w \in Works : (w \in accepted) ~> completed[w]

=============================================================================
