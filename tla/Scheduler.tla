----------------------------- MODULE Scheduler -----------------------------
(***************************************************************************)
(* The SMP scheduler of the AArch64 kernel: the ready queues and per-CPU    *)
(* state of task/scheduler.rs together with the two context-switch paths    *)
(* of arch_impl/aarch64/context_switch.rs that drive them:                  *)
(*                                                                          *)
(*   interrupt exit   check_need_resched_and_switch_arm64: the outgoing     *)
(*                    thread's kernel stack stays in use after the lock is  *)
(*                    dropped, until the ERET; the thread is parked in      *)
(*                    DEFERRED_REQUEUE[cpu] and in previous_thread          *)
(*   inline           schedule_from_kernel and schedule_terminated_from_exit*)
(*                    pivot to the CPU's scheduler stack under the lock, so *)
(*                    the outgoing thread is requeued at once               *)
(*                                                                          *)
(* One scheduler entry is a chain of steps under the global SCHEDULER lock  *)
(* (holder); lock-free steps of the other CPUs interleave with it.          *)
(*                                                                          *)
(* Abstracted: register contents, accounting and tracing; the load balancer *)
(* (stall detection depends on tick distances, so every CPU is a possible   *)
(* wake target); need_resched (an interrupt may find it set or clear).      *)
(* pending_next is set and cleared inside one lock hold: it is "next" here. *)
(***************************************************************************)
EXTENDS Naturals, Sequences, FiniteSets

CONSTANTS
  NumCpus,         \* CPUs online
  Threads,         \* non-idle threads that may ever exist
  UserThreads,     \* those that belong to a process (ThreadPrivilege::User)
  WaitKinds,       \* blocked states the threads use
  KickGap,         \* TRUE: a peer may scan a quarantine token before EXIT_KICK is seen
  KilledRunsOn,    \* TRUE: a thread killed on its CPU may go on in kernel code there
  MaxIncidents     \* bound on stalled-CPU reclaims and failed dispatches together

AllWaitKinds == {"Blocked", "BlockedOnIO", "BlockedOnTimer", "BlockedOnSignal",
                 "BlockedOnChildExit"}

NoThread == "none"     \* Option::None of a thread id, and slot value 0
Idle     == "idle"     \* the CPU's own idle thread, never queued
CPU == 0 .. NumCpus - 1

NoCpu == NumCpus       \* SCHEDULER is free

ASSUME CpuAssumption == NumCpus \in Nat \ {0}
ASSUME ThreadAssumption == NoThread \notin Threads /\ Idle \notin Threads
ASSUME UserAssumption == UserThreads \subseteq Threads
ASSUME KindAssumption == WaitKinds \subseteq AllWaitKinds
ASSUME RaceAssumption == KickGap \in BOOLEAN /\ KilledRunsOn \in BOOLEAN
ASSUME IncidentAssumption == MaxIncidents \in Nat

VARIABLES
  state,       \* Thread::state ("New": not spawned, "Gone": reclaimed)
  queue,       \* per_cpu_queues
  current,     \* cpu_state[cpu].current_thread
  previous,    \* cpu_state[cpu].previous_thread, the handoff marker
  slot,        \* DEFERRED_REQUEUE[cpu]
  deferred,    \* deferred_tid, taken from the slot by the interrupt exit
  stack,       \* whose kernel stack the CPU executes on (Idle: none of theirs)
  pc,          \* where the CPU is in the switch protocol
  isr,         \* threads in the ISR wakeup buffers
  due,         \* threads whose timer-heap entry has expired
  holder,      \* the CPU that holds SCHEDULER across several steps
  path,        \* "irq" or "inline": the switch path of the holder
  batch,       \* wakeups the holder has taken out and not yet applied
  requeueOld,  \* should_requeue_old
  next,        \* pending_next
  fenced,      \* terminated threads with a RetirementGrace record
  grace,       \* scheduler entries each CPU still owes that record
  incidents    \* stalled-CPU reclaims and failed dispatches so far

threadVars == <<state, queue>>
cpuVars    == <<current, previous, slot, deferred, stack>>
wakeVars   == <<isr, due>>
lockVars   == <<holder, path, batch, requeueOld, next>>
graceVars  == <<fenced, grace, incidents>>
vars == <<threadVars, cpuVars, pc, wakeVars, lockVars, graceVars>>

-----------------------------------------------------------------------------
(***************************************************************************)
(* The data structures.                                                     *)
(***************************************************************************)
States == {"New", "Ready", "Running", "Terminated", "Gone"} \union WaitKinds

Pcs == {"run", "drain", "check", "enter", "isr", "timers", "commit", "dispatch", "eret"}

\* note_scheduling_epoch entries a fence waits for on every CPU.
GraceEntriesOne == 1
GraceEntries == 2

Min0(n) == IF n = 0 THEN 0 ELSE n - 1

In(t, s) == \E i \in 1 .. Len(s) : s[i] = t

InAnyQueue(t) == \E c \in CPU : In(t, queue[c])

IsCurrent(t, cur) == \E c \in CPU : cur[c] = t

\* is_in_deferred_requeue
IsDeferred(t, prev) == \E c \in CPU : prev[c] = t

\* remove_from_ready_queue and the q.retain calls. A thread is queued at most
\* once (QueuesHoldOneEntry), so there is one position to take out.
Without(s, t) ==
  IF In(t, s)
  THEN LET p == CHOOSE i \in 1 .. Len(s) : s[i] = t
       IN  [i \in 1 .. Len(s) - 1 |-> IF i < p THEN s[i] ELSE s[i + 1]]
  ELSE s

Concat(s, r) ==
  [i \in 1 .. Len(s) + Len(r) |-> IF i <= Len(s) THEN s[i] ELSE r[i - Len(s)]]

Drop(s, n) == [i \in 1 .. Len(s) - n |-> s[i + n]]

\* The states in which an interrupt exit may not return to the thread.
OffCpuState(t) == t \in Threads /\ state[t] \in WaitKinds \union {"Terminated"}

-----------------------------------------------------------------------------
(***************************************************************************)
(* Making a thread runnable.                                                *)
(***************************************************************************)

\* The enqueue rule shared by unblock, wake_io_thread_locked,
\* unblock_for_signal, unblock_for_child_exit and wake_expired_timers: a thread
\* that is current, or whose stack is still being left, is only marked Ready.
MustEnqueueIgnoringHandoff(t) == ~IsCurrent(t, current) /\ ~InAnyQueue(t)
MustEnqueueIgnoringQueues(t) == ~IsCurrent(t, current) /\ ~IsDeferred(t, previous)

MustEnqueue(t) == ~IsCurrent(t, current) /\ ~IsDeferred(t, previous) /\ ~InAnyQueue(t)

MakeReady(t, target) ==
  /\ state' = [state EXCEPT ![t] = "Ready"]
  /\ queue' = IF MustEnqueue(t)
              THEN [queue EXCEPT ![target] = Append(@, t)] ELSE queue

\* wake_io_thread_locked also re-examines a thread that is already Ready (it is
\* queued if it is Ready with blocked_in_syscall, a flag left open here).
WakeIoThread(t, target) ==
  IF state[t] \in {"BlockedOnIO", "Blocked", "Ready"}
  THEN MakeReady(t, target) ELSE UNCHANGED threadVars

\* requeue_thread_after_save, with the current and previous columns it reads.
RequeueableIfRunning(t, cur, prev) ==
  /\ t \in Threads
  /\ ~IsCurrent(t, cur)
  /\ ~IsDeferred(t, prev)
  /\ state[t] = "Running"
  /\ ~InAnyQueue(t)

RequeueableInAnyState(t, cur, prev) ==
  t \in Threads /\ ~IsCurrent(t, cur) /\ ~IsDeferred(t, prev) /\ ~InAnyQueue(t)

Requeueable(t, cur, prev) ==
  /\ t \in Threads
  /\ ~IsCurrent(t, cur)
  /\ ~IsDeferred(t, prev)
  /\ state[t] \in {"Ready", "Running"}
  /\ ~InAnyQueue(t)

RequeueAfterSave(c, t, cur, prev) ==
  IF Requeueable(t, cur, prev)
  THEN /\ state' = [state EXCEPT ![t] = "Ready"]
       /\ queue' = [queue EXCEPT ![c] = Append(@, t)]
  ELSE UNCHANGED threadVars

ReleaseLock ==
  /\ holder' = NoCpu
  /\ path' = "none"
  /\ batch' = {}
  /\ requeueOld' = FALSE
  /\ next' = NoThread

-----------------------------------------------------------------------------
(***************************************************************************)
(* What threads and interrupt handlers do while the CPU is outside the      *)
(* switch code: each is one with_scheduler section, or lock-free.           *)
(***************************************************************************)
Outside(c) == pc[c] = "run" /\ holder = NoCpu

\* spawn / spawn_front: add_thread_inner
Spawn(c, t, target, front) ==
  /\ Outside(c)
  /\ state[t] = "New"
  /\ state' = [state EXCEPT ![t] = "Ready"]
  /\ queue' = [queue EXCEPT ![target] = IF front THEN Concat(<<t>>, @) ELSE Append(@, t)]
  /\ UNCHANGED <<cpuVars, pc, wakeVars, lockVars, graceVars>>

MayBlock(t) == state[t] \in {"Running", "Ready"} \union
                           (IF KilledRunsOn THEN {"Terminated"} ELSE {})

\* block_current, block_current_for_{signal,child_exit,timer,io_with_timeout}
BlockCurrent(c, k) ==
  /\ Outside(c)
  /\ current[c] \in Threads /\ MayBlock(current[c])
  /\ state' = [state EXCEPT ![current[c]] = k]
  /\ queue' = [d \in CPU |-> Without(queue[d], current[c])]
  /\ UNCHANGED <<cpuVars, pc, wakeVars, lockVars, graceVars>>

\* publish_current_io_wait_state, used by prepare_to_wait: leaves the queues alone
PublishIoWait(c) ==
  /\ Outside(c)
  /\ "BlockedOnIO" \in WaitKinds
  /\ current[c] \in Threads /\ MayBlock(current[c])
  /\ state' = [state EXCEPT ![current[c]] = "BlockedOnIO"]
  /\ UNCHANGED <<queue, cpuVars, pc, wakeVars, lockVars, graceVars>>

\* WaitQueueHead::finish_wait: the waiter withdraws
FinishWait(c) ==
  /\ Outside(c)
  /\ current[c] \in Threads /\ state[current[c]] = "BlockedOnIO"
  /\ state' = [state EXCEPT ![current[c]] = "Ready"]
  /\ UNCHANGED <<queue, cpuVars, pc, wakeVars, lockVars, graceVars>>

\* Which blocked states each wakeup function accepts.
Accepts == [unblock        |-> {"Blocked", "BlockedOnSignal", "BlockedOnTimer", "BlockedOnIO"},
            wake_waitqueue |-> {"BlockedOnIO", "Blocked"},
            for_signal     |-> {"BlockedOnSignal", "BlockedOnIO"},
            for_child_exit |-> {"BlockedOnChildExit"}]

Wake(c, t, target, op) ==
  /\ Outside(c)
  /\ state[t] \in Accepts[op]
  /\ MakeReady(t, target)
  /\ UNCHANGED <<cpuVars, pc, wakeVars, lockVars, graceVars>>

\* isr_unblock_for_io: lock-free, any time
IsrPush(t) ==
  /\ state[t] = "BlockedOnIO" /\ t \notin isr
  /\ isr' = isr \union {t}
  /\ UNCHANGED <<threadVars, cpuVars, pc, due, lockVars, graceVars>>

\* the deadline of a timer_heap entry of t passes
TimerDue(t) ==
  /\ state[t] \in {"BlockedOnTimer", "BlockedOnIO"} /\ t \notin due
  /\ due' = due \union {t}
  /\ UNCHANGED <<threadVars, cpuVars, pc, isr, lockVars, graceVars>>

\* terminate_process_threads (SIGKILL, fatal fault): every thread row has an
\* owner_pid of its own, so one victim; a token is queued for it if need be.
TerminateProcessThreads(c, t, target) ==
  /\ Outside(c) /\ current[c] \in Threads
  /\ t \in UserThreads /\ state[t] \notin {"New", "Terminated", "Gone"}
  /\ state' = [state EXCEPT ![t] = "Terminated"]
  /\ queue' = IF InAnyQueue(t) THEN queue ELSE [queue EXCEPT ![target] = Append(@, t)]
  /\ UNCHANGED <<cpuVars, pc, wakeVars, lockVars, graceVars>>

\* reclaim_terminated_threads, the body of its loops for one thread: first a
\* fence two scheduler entries ahead on every CPU ...
FenceTerminated(c, t) ==
  /\ Outside(c)
  /\ state[t] = "Terminated" /\ t \notin fenced
  /\ fenced' = fenced \union {t}
  /\ grace' = [grace EXCEPT ![t] = [d \in CPU |-> GraceEntries]]
  /\ UNCHANGED <<threadVars, cpuVars, pc, wakeVars, lockVars, incidents>>

\* ... then, once it has elapsed and no CPU names the stack, the thread and its
\* queue entries go and the stack is freed.
ReclaimTerminated(c, t) ==
  /\ Outside(c)
  /\ state[t] = "Terminated" /\ t \in fenced
  /\ \A d \in CPU : grace[t][d] = 0
  /\ ~IsCurrent(t, current)
  /\ state' = [state EXCEPT ![t] = "Gone"]
  /\ queue' = [d \in CPU |-> Without(queue[d], t)]
  /\ fenced' = fenced \ {t}
  /\ UNCHANGED <<cpuVars, pc, wakeVars, lockVars, grace, incidents>>

-----------------------------------------------------------------------------
(***************************************************************************)
(* Entering the scheduler.                                                  *)
(***************************************************************************)

\* check_need_resched_and_switch_arm64: note_scheduling_epoch, then the slot is
\* emptied without the lock.
IrqEnter(c) ==
  /\ pc[c] = "run"
  /\ grace' = [t \in Threads |-> [grace[t] EXCEPT ![c] = Min0(@)]]
  /\ deferred' = [deferred EXCEPT ![c] = slot[c]]
  /\ slot' = [slot EXCEPT ![c] = NoThread]
  /\ pc' = [pc EXCEPT ![c] = "drain"]
  /\ UNCHANGED <<threadVars, current, previous, stack, wakeVars, lockVars, fenced, incidents>>

\* the early drain: the CPU is off the deferred thread's stack by now
DrainDeferred(c) ==
  /\ pc[c] = "drain" /\ holder = NoCpu
  /\ previous' = IF deferred[c] = NoThread THEN previous
                 ELSE [previous EXCEPT ![c] = NoThread]
  /\ RequeueAfterSave(c, deferred[c], current, previous')
  /\ pc' = [pc EXCEPT ![c] = "check"]
  /\ UNCHANGED <<current, slot, deferred, stack, wakeVars, lockVars, graceVars>>

\* preemption is guarded, or nothing asks for a switch
ReturnToThread(c) ==
  /\ pc[c] = "check"
  /\ KilledRunsOn \/ ~(current[c] \in Threads /\ state[current[c]] = "Terminated")
  /\ pc' = [pc EXCEPT ![c] = "run"]
  /\ deferred' = [deferred EXCEPT ![c] = NoThread]
  /\ UNCHANGED <<threadVars, current, previous, slot, stack, wakeVars, lockVars, graceVars>>

\* need_resched is set, or the current thread is blocked or terminated: the
\* consolidated lock hold begins
LockForSwitch(c) ==
  /\ pc[c] = "check" /\ holder = NoCpu
  /\ previous' = [previous EXCEPT ![c] = NoThread]
  /\ RequeueAfterSave(c, deferred[c], current, previous')
  /\ deferred' = [deferred EXCEPT ![c] = NoThread]
  /\ pc' = [pc EXCEPT ![c] = "enter"] /\ holder' = c /\ path' = "irq"
  /\ UNCHANGED <<current, slot, stack, wakeVars, batch, requeueOld, next, graceVars>>

\* the thread seen blocked without the lock turns out to be woken: it goes on
LockAndReturn(c) ==
  /\ pc[c] = "check" /\ holder = NoCpu
  /\ ~OffCpuState(current[c])
  /\ previous' = [previous EXCEPT ![c] = NoThread]
  /\ RequeueAfterSave(c, deferred[c], current, previous')
  /\ deferred' = [deferred EXCEPT ![c] = NoThread]
  /\ pc' = [pc EXCEPT ![c] = "run"]
  /\ UNCHANGED <<current, slot, stack, wakeVars, lockVars, graceVars>>

\* schedule_from_kernel: a thread (or idle) calls the scheduler itself
ScheduleFromKernel(c) ==
  /\ Outside(c)
  /\ slot' = [slot EXCEPT ![c] = NoThread]
  /\ previous' = [previous EXCEPT ![c] = NoThread]
  /\ RequeueAfterSave(c, slot[c], current, previous')
  /\ holder' = c /\ path' = "inline"
  /\ pc' = [pc EXCEPT ![c] = "enter"]
  /\ UNCHANGED <<current, deferred, stack, wakeVars, batch, requeueOld, next, graceVars>>

\* schedule_terminated_from_exit, exit_schedule_trampoline: the slot is not drained
ExitCurrent(c) ==
  /\ Outside(c)
  /\ current[c] \in Threads /\ state[current[c]] \notin WaitKinds
  /\ state' = [state EXCEPT ![current[c]] = "Terminated"]
  /\ queue' = [d \in CPU |-> Without(queue[d], current[c])]
  /\ holder' = c /\ path' = "inline"
  /\ pc' = [pc EXCEPT ![c] = "enter"]
  /\ UNCHANGED <<cpuVars, wakeVars, batch, requeueOld, next, graceVars>>

-----------------------------------------------------------------------------
(***************************************************************************)
(* schedule_deferred_requeue, step by step under the lock.                  *)
(***************************************************************************)
Scheduling(c, step) == holder = c /\ pc[c] = step

\* reclaim_unschedulable_cpu_queues: d is offline or its dispatcher has stalled
ReclaimStalledQueue(c, d) ==
  /\ Scheduling(c, "enter")
  /\ d # c /\ queue[d] # << >>
  /\ incidents < MaxIncidents
  /\ incidents' = incidents + 1
  /\ queue' = [queue EXCEPT ![c] = Concat(@, queue[d]), ![d] = << >>]
  /\ UNCHANGED <<state, cpuVars, pc, wakeVars, lockVars, fenced, grace>>

DrainIsrBuffers(c) ==
  /\ Scheduling(c, "enter")
  /\ batch' = isr /\ isr' = {}
  /\ pc' = [pc EXCEPT ![c] = "isr"]
  /\ UNCHANGED <<threadVars, cpuVars, due, holder, path, requeueOld, next, graceVars>>

\* unblock_for_io_from_isr_buffer
WakeFromIsr(c, t, target) ==
  /\ Scheduling(c, "isr")
  /\ t \in batch
  /\ batch' = batch \ {t}
  /\ WakeIoThread(t, target)
  /\ UNCHANGED <<cpuVars, pc, wakeVars, holder, path, requeueOld, next, graceVars>>

\* A current thread that is still runnable gets its handoff marker first and
\* becomes Ready second. Then wake_expired_timers takes the expired entries.
PublishCurrent(c) ==
  LET t == current[c]
      runnable == t \in Threads /\ ~OffCpuState(t)
      requeue == runnable /\ ~InAnyQueue(t)
  IN  /\ Scheduling(c, "isr") /\ batch = {}
      /\ requeueOld' = requeue
      /\ previous' = IF requeue THEN [previous EXCEPT ![c] = t] ELSE previous
      /\ state' = IF runnable THEN [state EXCEPT ![t] = "Ready"] ELSE state
      /\ batch' = due /\ due' = {}
      /\ pc' = [pc EXCEPT ![c] = "timers"]
      /\ UNCHANGED <<queue, current, slot, deferred, stack, isr, holder, path, next, graceVars>>

\* an entry whose thread no longer waits is stale and is dropped
\* (deadlines are abstracted: any timed wait may be ended by an expired entry)
WakeExpiredTimer(c, t, target) ==
  /\ Scheduling(c, "timers")
  /\ t \in batch
  /\ batch' = batch \ {t}
  /\ IF state[t] \in {"BlockedOnTimer", "BlockedOnIO"}
     THEN MakeReady(t, target) ELSE UNCHANGED threadVars
  /\ UNCHANGED <<cpuVars, pc, wakeVars, holder, path, requeueOld, next, graceVars>>

(***************************************************************************)
(* Choosing a successor: the first entry that is not terminated, in this    *)
(* CPU's queue and then in the others' in index order. Terminated entries   *)
(* met on the way are quarantine tokens: dropped when observe_exit_kick     *)
(* sees the kick, pushed back (kept) when it does not.                      *)
(***************************************************************************)
Live(d) == {i \in 1 .. Len(queue[d]) : state[queue[d][i]] # "Terminated"}

First(d) == CHOOSE i \in Live(d) : \A j \in Live(d) : i <= j

ScannedBefore(c, d, e) == d # e /\ (d = c \/ (e # c /\ d < e))

Source(c) == {d \in CPU : /\ Live(d) # {}
                          /\ \A e \in CPU : ScannedBefore(c, e, d) => Live(e) = {}}

Candidate(c) ==
  IF Source(c) = {} THEN Idle
  ELSE LET d == CHOOSE d \in Source(c) : TRUE IN queue[d][First(d)]

Declined(s, kept) ==
  LET Kept(t) == t \in kept
  IN  IF kept = {} THEN << >> ELSE SelectSeq(s, Kept)

QueuesAfterScan(c, kept) ==
  [e \in CPU |->
    IF e \in Source(c)
    THEN Concat(Drop(queue[e], First(e)), Declined(SubSeq(queue[e], 1, First(e) - 1), kept))
    ELSE IF \E d \in Source(c) : ScannedBefore(c, d, e) THEN queue[e]
    ELSE Declined(queue[e], kept)]

KeptTokens ==
  IF KickGap THEN SUBSET {t \in Threads : state[t] = "Terminated"} ELSE {{}}

\* set_running on the successor, pending_next published
Select(c, t, queues, requeue) ==
  /\ queue' = queues
  /\ state' = IF t = Idle THEN state ELSE [state EXCEPT ![t] = "Running"]
  /\ next' = t
  /\ requeueOld' = requeue
  /\ pc' = [pc EXCEPT ![c] = "commit"]
  /\ UNCHANGED <<previous, holder, path, batch>>

\* no switch: the current thread, a user thread or idle, goes on
KeepCurrent(c, queues) ==
  /\ queue' = queues
  /\ previous' = IF previous[c] = current[c] THEN [previous EXCEPT ![c] = NoThread] ELSE previous
  /\ state' = IF current[c] = Idle THEN state ELSE [state EXCEPT ![current[c]] = "Running"]
  /\ pc' = [pc EXCEPT ![c] = "run"]
  /\ ReleaseLock

\* The candidate is the current thread itself. With entries left in the queues
\* their first one is taken, this time without looking at its state.
SameThread(c, queues) ==
  LET left == {d \in CPU : queues[d] # << >>}
      from == CHOOSE d \in left : \A e \in left : ~ScannedBefore(c, e, d)
  IN  IF left # {}
      THEN Select(c, Head(queues[from]), [queues EXCEPT ![from] = Tail(@)], TRUE)
      ELSE IF current[c] \in UserThreads \union {Idle}
      THEN KeepCurrent(c, queues)
      ELSE Select(c, Idle, queues, TRUE)

PickNext(c) ==
  /\ Scheduling(c, "timers") /\ batch = {}
  /\ \E kept \in KeptTokens :
       IF Candidate(c) = current[c]
       THEN SameThread(c, QueuesAfterScan(c, kept))
       ELSE Select(c, Candidate(c), QueuesAfterScan(c, kept), requeueOld)
  /\ UNCHANGED <<current, slot, deferred, stack, wakeVars, graceVars>>

-----------------------------------------------------------------------------
(***************************************************************************)
(* Committing the switch and dispatching the successor.                     *)
(***************************************************************************)

\* What the interrupt exit leaves in its slot: idle threads are never requeued.
ParkAnything(old) == old
Parked(old) == IF old = Idle THEN NoThread ELSE old

\* Interrupt exit: save, commit_cpu_state_after_save, marker and slot. The CPU
\* is still on the outgoing thread's stack. An evicted slot entry is requeued.
CommitIrq(c) ==
  LET old == current[c]
  IN  /\ Scheduling(c, "commit") /\ path = "irq"
      /\ current' = [current EXCEPT ![c] = next]
      /\ previous' = IF old = Idle THEN previous ELSE [previous EXCEPT ![c] = old]
      /\ slot' = [slot EXCEPT ![c] = Parked(old)]
      /\ RequeueAfterSave(c, slot[c], current', previous')
      /\ pc' = [pc EXCEPT ![c] = "dispatch"]
      /\ UNCHANGED <<deferred, stack, wakeVars, lockVars, graceVars>>

\* inline_schedule_trampoline: on the scheduler stack, so the outgoing thread
\* may be queued at once, also if a wakeup made it Ready after it had blocked.
\* (The trampoline's null-handoff fallback cannot happen: the pointer has been
\* stored under this very lock hold. Only fault-injection builds reach it.)
CommitInline(c) ==
  LET old == current[c]
      requeue == old \in Threads /\ (requeueOld \/ state[old] = "Ready")
  IN  /\ Scheduling(c, "commit") /\ path = "inline"
      /\ current' = [current EXCEPT ![c] = next]
      /\ previous' = [previous EXCEPT ![c] = NoThread]
      /\ IF requeue THEN RequeueAfterSave(c, old, current', previous')
         ELSE UNCHANGED threadVars
      /\ stack' = [stack EXCEPT ![c] = Idle]
      /\ pc' = [pc EXCEPT ![c] = "dispatch"]
      /\ UNCHANGED <<slot, deferred, wakeVars, lockVars, graceVars>>

\* the lock is dropped; an interrupt exit still has its ERET to do
LeaveScheduler(c) ==
  /\ pc' = [pc EXCEPT ![c] = IF path = "irq" THEN "eret" ELSE "run"]
  /\ stack' = IF path = "irq" THEN stack ELSE [stack EXCEPT ![c] = current'[c]]
  /\ ReleaseLock

Dispatch(c) ==
  /\ Scheduling(c, "dispatch")
  /\ UNCHANGED current
  /\ LeaveScheduler(c)
  /\ UNCHANGED <<threadVars, previous, slot, deferred, wakeVars, graceVars>>

\* TtbrResult::PmLockBusy / RowUnpublished: idle runs instead, the thread goes back
RefuseDispatch(c) ==
  LET t == current[c]
  IN  /\ Scheduling(c, "dispatch")
      /\ t \in UserThreads /\ incidents < MaxIncidents
      /\ incidents' = incidents + 1
      /\ current' = [current EXCEPT ![c] = Idle]
      /\ state' = [state EXCEPT ![t] = "Ready"]
      /\ queue' = IF Requeueable(t, current', previous)
                  THEN [queue EXCEPT ![c] = Append(@, t)] ELSE queue
      /\ LeaveScheduler(c)
      /\ UNCHANGED <<previous, slot, deferred, wakeVars, fenced, grace>>

\* TtbrResult::ProcessGone, or a context that cannot be restored: the thread ends
AbandonDispatch(c) ==
  LET t == current[c]
  IN  /\ Scheduling(c, "dispatch")
      /\ t \in Threads /\ incidents < MaxIncidents
      /\ incidents' = incidents + 1
      /\ current' = [current EXCEPT ![c] = Idle]
      /\ state' = [state EXCEPT ![t] = "Terminated"]
      /\ LeaveScheduler(c)
      /\ UNCHANGED <<queue, previous, slot, deferred, wakeVars, fenced, grace>>

Eret(c) ==
  /\ pc[c] = "eret"
  /\ stack' = [stack EXCEPT ![c] = current[c]]
  /\ pc' = [pc EXCEPT ![c] = "run"]
  /\ UNCHANGED <<threadVars, current, previous, slot, deferred, wakeVars, lockVars, graceVars>>

-----------------------------------------------------------------------------
Init ==
  /\ state = [t \in Threads |-> "New"]
  /\ queue = [c \in CPU |-> << >>]
  /\ current = [c \in CPU |-> Idle]
  /\ previous = [c \in CPU |-> NoThread]
  /\ slot = [c \in CPU |-> NoThread]
  /\ deferred = [c \in CPU |-> NoThread]
  /\ stack = [c \in CPU |-> Idle]
  /\ pc = [c \in CPU |-> "run"]
  /\ isr = {} /\ due = {}
  /\ holder = NoCpu /\ path = "none" /\ batch = {}
  /\ requeueOld = FALSE /\ next = NoThread
  /\ fenced = {} /\ grace = [t \in Threads |-> [c \in CPU |-> 0]]
  /\ incidents = 0

\* What the CPU's code may do, and the steps of the switch protocol.
ThreadStep(c) ==
  \/ \E t \in Threads, d \in CPU, front \in BOOLEAN : Spawn(c, t, d, front)
  \/ \E k \in WaitKinds : BlockCurrent(c, k)
  \/ PublishIoWait(c)
  \/ FinishWait(c)
  \/ \E t \in Threads, d \in CPU, op \in DOMAIN Accepts : Wake(c, t, d, op)
  \/ \E t \in Threads, d \in CPU : TerminateProcessThreads(c, t, d)
  \/ \E t \in Threads : FenceTerminated(c, t) \/ ReclaimTerminated(c, t)
  \/ ScheduleFromKernel(c)
  \/ ExitCurrent(c)

SwitchStep(c) ==
  \/ IrqEnter(c) \/ DrainDeferred(c) \/ ReturnToThread(c)
  \/ LockForSwitch(c) \/ LockAndReturn(c)
  \/ \E d \in CPU : ReclaimStalledQueue(c, d)
  \/ DrainIsrBuffers(c)
  \/ \E t \in Threads, d \in CPU : WakeFromIsr(c, t, d) \/ WakeExpiredTimer(c, t, d)
  \/ PublishCurrent(c) \/ PickNext(c)
  \/ CommitIrq(c) \/ CommitInline(c)
  \/ Dispatch(c) \/ RefuseDispatch(c) \/ AbandonDispatch(c) \/ Eret(c)

Next ==
  \/ \E c \in CPU : ThreadStep(c) \/ SwitchStep(c)
  \/ \E t \in Threads : IsrPush(t) \/ TimerDue(t)

Spec == Init /\ [][Next]_vars

(***************************************************************************)
(* Interrupts keep coming and the code of a handler runs to its end (WF). A *)
(* CPU that spins for SCHEDULER gets it sooner or later, and the quantum    *)
(* sets need_resched again and again while preemption is not guarded all    *)
(* the time (SF). Threads themselves owe nothing.                           *)
(***************************************************************************)
Fairness ==
  \A c \in CPU :
    /\ WF_vars(SwitchStep(c))
    /\ SF_vars(DrainDeferred(c))
    /\ SF_vars(LockForSwitch(c))

FairSpec == Spec /\ Fairness

-----------------------------------------------------------------------------
(***************************************************************************)
(* Properties.                                                              *)
(***************************************************************************)

\* Every variable holds a value of the type the code gives it.
TypeOK ==
  /\ state \in [Threads -> States]
  /\ queue \in [CPU -> Seq(Threads)]
  /\ current \in [CPU -> Threads \union {Idle}]
  /\ previous \in [CPU -> Threads \union {NoThread}]
  /\ slot \in [CPU -> Threads \union {NoThread}]
  /\ deferred \in [CPU -> Threads \union {NoThread}]
  /\ stack \in [CPU -> Threads \union {Idle}]
  /\ pc \in [CPU -> Pcs]
  /\ isr \subseteq Threads /\ due \subseteq Threads /\ batch \subseteq Threads
  /\ holder \in CPU \union {NoCpu}
  /\ path \in {"none", "irq", "inline"}
  /\ requeueOld \in BOOLEAN
  /\ next \in Threads \union {Idle, NoThread}
  /\ fenced \subseteq Threads
  /\ grace \in [Threads -> [CPU -> 0 .. GraceEntries]]
  /\ incidents \in 0 .. MaxIncidents

\* The thread contexts and kernel stacks a CPU is working on.
Uses(c) == {current[c], stack[c]} \ {Idle}

\* No thread is executed by two CPUs, and no CPU is given a thread whose kernel
\* stack another CPU has not left yet (the deferred-requeue handoff).
SoleExecutor ==
  \A c, d \in CPU : c # d => Uses(c) \intersect Uses(d) = {}

\* No thread has two ready-queue entries, in one queue or in two: the second
\* would dispatch it while it runs.
QueuesHoldOneEntry ==
  \A c, d \in CPU : \A i \in 1 .. Len(queue[c]), j \in 1 .. Len(queue[d]) :
    queue[c][i] = queue[d][j] => c = d /\ i = j

\* A runnable thread is never lost: it is queued, it is on a CPU, or a deferred
\* slot (or the interrupt exit that emptied it) will queue it.
RunnableHasOwner ==
  \A t \in Threads : state[t] \in {"Ready", "Running"} =>
    \/ InAnyQueue(t)
    \/ \E c \in CPU : t \in {current[c], slot[c], deferred[c]}
    \/ next = t

\* The kernel stack of a reclaimed thread is not in use on any CPU: two further
\* scheduler entries per CPU are enough of a grace period.
ReclaimedStackUnused ==
  \A t \in Threads : state[t] = "Gone" => \A c \in CPU : t \notin Uses(c)

\* A terminated thread never becomes runnable again.
TerminatedIsFinal ==
  [][\A t \in Threads : state[t] \in {"Terminated", "Gone"} =>
                          state'[t] \in {"Terminated", "Gone"}]_vars

\* A runnable thread is not left waiting for ever.
ReadyRuns == \A t \in Threads : (state[t] = "Ready") ~> (state[t] # "Ready")

=============================================================================
