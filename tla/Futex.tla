------------------------------- MODULE Futex -------------------------------
(***************************************************************************)
(* FUTEX_WAIT and FUTEX_WAKE of syscall/futex.rs on one futex word, with    *)
(* the wait queue of task/waitqueue.rs and the timed BlockedOnIO waits of   *)
(* the scheduler below them.                                                *)
(*                                                                          *)
(* FUTEX_QUEUES is locked around every use of a bucket, and a bucket's own  *)
(* lock around every use of its list, so prepare_to_wait_checked, wake_up_n *)
(* and the way out of the wait are one action each. Everything else (user   *)
(* stores, timers, signals, preemption) comes in between.                   *)
(*                                                                          *)
(* Ready and Running are not told apart: the scheduler runs what is         *)
(* runnable (ReadyRuns of Scheduler). Deadlines are abstracted to whether   *)
(* they have passed. A call that returns EAGAIN, or ETIMEDOUT for a zero    *)
(* timeout, leaves no trace (a bucket it created is pruned in the same lock *)
(* hold), and has no action.                                                *)
(***************************************************************************)
EXTENDS Integers, Sequences, FiniteSets, SequencesExt, WaitList

CONSTANTS Waiters,     \* threads that call FUTEX_WAIT
          Wakers,      \* threads that store to the word and call FUTEX_WAKE
          Values,      \* values of the word
          WakeCounts,  \* max_wake arguments
          Timed,       \* waiters that may pass a timeout
          Interrupted, \* waiters that may be sent a signal
          Preempted    \* waiters that a timer tick may take off their CPU

\* an Option: no entry, or one
NoBucket == << >>
Bucket(q) == <<q>>
NoCall == [val |-> CHOOSE v \in Values : TRUE, timeout |-> "none"]

ASSUME FutexAssumption ==
  /\ Waiters \intersect Wakers = {} /\ Values # {} /\ WakeCounts \subseteq Nat
  /\ UNION {Timed, Interrupted, Preempted} \subseteq Waiters

Timeouts == {"none", "some"}

VARIABLES
  word,        \* *uaddr
  bucket,      \* the entry of FUTEX_QUEUES, if there is one
  pc,
  call,        \* expected_val and timeout of the wait
  st,          \* Thread::state of the waiters
  onCpu,       \* waiters that are on a CPU
  heap,        \* timer_heap: entries of the present wait and of earlier ones
  expired,     \* the deadline of the present wait has passed
  pending,     \* waiters with an interrupting signal
  signalled,   \* waiters owed unblock_for_signal
  seen,        \* signal_pending of futex_wait
  removed,     \* removed_by_me
  counted,     \* history: waiters some FUTEX_WAKE has counted in this wait
  passedOver   \* history: waiters left queued by a FUTEX_WAKE that had its number

waitVars == <<seen, removed>>
threadVars == <<st, onCpu>>
timerVars == <<heap, expired>>
signalVars == <<pending, signalled>>
historyVars == <<counted, passedOver>>
fvars == <<word, bucket, pc, call, threadVars, timerVars, signalVars, waitVars, historyVars>>

\* a bucket that is not there is created empty by entry().or_insert_with
Queue == IF bucket = NoBucket THEN << >> ELSE bucket[1]

\* queues.remove(&key) unless has_waiters
Pruned(q) == IF q = << >> THEN NoBucket ELSE Bucket(q)

Goto(t, from, to) == pc[t] = from /\ pc' = [pc EXCEPT ![t] = to]

\* a waiter executes only while it is on a CPU
Step(t, from, to) == t \in onCpu /\ Goto(t, from, to)

-----------------------------------------------------------------------------
(***************************************************************************)
(* futex_wait                                                               *)
(***************************************************************************)
\* The call up to prepare_to_wait_checked: Queued. Value check, enqueue and
\* block_current_for_io_with_timeout are under the bucket's lock.
WaitQueuedUnchecked(t, v, timeout) ==
  /\ Step(t, "user", "signal?")
  /\ timeout = "some" => t \in Timed
  /\ call' = [call EXCEPT ![t] = [val |-> v, timeout |-> timeout]]
  /\ bucket' = Bucket(Enlisted(Queue, t))
  /\ st' = [st EXCEPT ![t] = "BlockedOnIO"]
  /\ heap' = [heap EXCEPT ![t] = IF timeout = "some" THEN @ \union {"present"} ELSE @]
  /\ UNCHANGED <<word, onCpu, expired, signalVars, waitVars, historyVars>>

WaitQueuedOnTimer(t, v, timeout) ==
  /\ Step(t, "user", "signal?")
  /\ timeout = "some" => t \in Timed
  /\ word = v
  /\ call' = [call EXCEPT ![t] = [val |-> v, timeout |-> timeout]]
  /\ bucket' = Bucket(Enlisted(Queue, t))
  /\ st' = [st EXCEPT ![t] = "BlockedOnTimer"]
  /\ heap' = [heap EXCEPT ![t] = IF timeout = "some" THEN @ \union {"present"} ELSE @]
  /\ UNCHANGED <<word, onCpu, expired, signalVars, waitVars, historyVars>>

WaitQueued(t, v, timeout) ==
  /\ Step(t, "user", "signal?")
  /\ timeout = "some" => t \in Timed
  /\ word = v
  /\ call' = [call EXCEPT ![t] = [val |-> v, timeout |-> timeout]]
  /\ bucket' = Bucket(Enlisted(Queue, t))
  /\ st' = [st EXCEPT ![t] = "BlockedOnIO"]
  /\ heap' = [heap EXCEPT ![t] = IF timeout = "some" THEN @ \union {"present"} ELSE @]
  /\ UNCHANGED <<word, onCpu, expired, signalVars, waitVars, historyVars>>

\* the loop: check_signals_for_eintr ...
LoopSignals(t) ==
  /\ Step(t, "signal?", IF t \in pending THEN "leave" ELSE "waiting?")
  /\ seen' = IF t \in pending THEN seen \union {t} ELSE seen
  /\ UNCHANGED <<word, bucket, call, threadVars, timerVars, signalVars, removed, historyVars>>

(***************************************************************************)
(* wake_expired_timers. The entry of the present wait is popped if its      *)
(* deadline has passed; entries of earlier waits (stale) may pass theirs    *)
(* at any time. An entry is validated by the thread's state alone.          *)
(***************************************************************************)
Popped(t, stale) ==
  heap[t] \intersect ((IF t \in expired THEN {"present"} ELSE {}) \union
                      (IF t \in stale THEN {"earlier"} ELSE {}))

TimedWaitOnTimer == {}
TimedWait == {t \in Waiters : st[t] = "BlockedOnIO" /\ call[t].timeout = "some"}

WakeExpiredTimers(stale) ==
  /\ st' = [t \in Waiters |-> IF t \in TimedWait /\ Popped(t, stale) # {}
                              THEN "Runnable" ELSE st[t]]
  /\ heap' = [t \in Waiters |-> heap[t] \ Popped(t, stale)]

\* ... then wake_expired_timers and the state, in one with_scheduler; still
\* waiting: yield_current, halt, and round again
LoopState(t, stale) ==
  /\ WakeExpiredTimers(stale)
  /\ Step(t, "waiting?", IF st'[t] = "BlockedOnIO" THEN "signal?" ELSE "leave")
  /\ UNCHANGED <<word, bucket, call, onCpu, expired, signalVars, waitVars, historyVars>>

\* take_waiter and finish_wait under FUTEX_QUEUES: who removed the entry
\* decides between a wake and a timeout or signal
LeaveBlocked(t) ==
  /\ Step(t, "leave", "return")
  /\ removed' = IF Contains(Queue, t) THEN removed \union {t} ELSE removed
  /\ bucket' = Pruned(Without(Queue, t))
  /\ UNCHANGED <<word, call, threadVars, timerVars, signalVars, seen, historyVars>>

LeaveBucket(t) ==
  /\ Step(t, "leave", "return")
  /\ removed' = IF Contains(Queue, t) THEN removed \union {t} ELSE removed
  /\ bucket' = Bucket(Without(Queue, t))
  /\ st' = [st EXCEPT ![t] = "Runnable"]
  /\ UNCHANGED <<word, call, onCpu, timerVars, signalVars, seen, historyVars>>

Leave(t) ==
  /\ Step(t, "leave", "return")
  /\ removed' = IF Contains(Queue, t) THEN removed \union {t} ELSE removed
  /\ bucket' = Pruned(Without(Queue, t))
  /\ st' = [st EXCEPT ![t] = "Runnable"]
  /\ UNCHANGED <<word, call, onCpu, timerVars, signalVars, seen, historyVars>>

\* the clock is read again for the result
ResultIgnoringWaker(t) ==
  IF t \in seen THEN "EINTR" ELSE IF t \in expired THEN "ETIMEDOUT" ELSE "Ok"

Result(t) ==
  IF t \notin removed THEN "Ok"
  ELSE IF t \in seen THEN "EINTR"
  ELSE IF t \in expired THEN "ETIMEDOUT"
  ELSE "Ok"

\* Back to user mode: a pending signal is delivered, and an entry of the timer
\* heap that has not been popped stays there.
Return(t) ==
  /\ Step(t, "return", "user")
  /\ pending' = pending \ {t}
  /\ heap' = [heap EXCEPT ![t] = IF "present" \in @ THEN {"earlier"} ELSE @]
  /\ call' = [call EXCEPT ![t] = NoCall]
  /\ expired' = expired \ {t}
  /\ counted' = counted \ {t} /\ passedOver' = passedOver \ {t}
  /\ seen' = seen \ {t} /\ removed' = removed \ {t}
  /\ UNCHANGED <<word, bucket, threadVars, signalled>>

WaiterStep(t) ==
  \/ LoopSignals(t)
  \/ \E stale \in SUBSET Waiters : LoopState(t, stale)
  \/ Leave(t) \/ Return(t)

-----------------------------------------------------------------------------
(***************************************************************************)
(* futex_wake, after the store that it announces                            *)
(***************************************************************************)
Store(w, v) ==
  /\ Goto(w, "user", "wake")
  /\ word' = v
  /\ UNCHANGED <<bucket, call, threadVars, timerVars, signalVars, waitVars, historyVars>>

\* wake_waitqueue_thread
WokenOffCpu(t) == st[t] = "BlockedOnIO" /\ t \notin onCpu
Woken(t) == st[t] = "BlockedOnIO"

\* wake_up_n pops up to n waiters and wakes each
FutexWake(w, n) ==
  LET k == IF n < Len(Queue) THEN n ELSE Len(Queue)
      popped == ToSet(SubSeq(Queue, 1, k))
      left == SubSeq(Queue, k + 1, Len(Queue))
  IN  /\ Goto(w, "wake", "user")
      /\ bucket' = Pruned(left)
      /\ st' = [t \in Waiters |-> IF t \in popped /\ Woken(t) THEN "Runnable" ELSE st[t]]
      /\ counted' = counted \union popped
      /\ passedOver' = (passedOver \ popped) \union ToSet(left)
      /\ UNCHANGED <<word, call, onCpu, timerVars, signalVars, waitVars>>

-----------------------------------------------------------------------------
(***************************************************************************)
(* Around them: preemption (enabled from the enqueue to the end of the      *)
(* loop), the clock, other CPUs' scheduling passes, and signals.            *)
(***************************************************************************)
Preempt(t) ==
  /\ t \in onCpu \intersect Preempted /\ pc[t] \in {"signal?", "waiting?", "leave"}
  /\ onCpu' = onCpu \ {t}
  /\ UNCHANGED <<word, bucket, pc, call, st, timerVars, signalVars, waitVars, historyVars>>

SwitchIn(t) ==
  /\ t \notin onCpu /\ st[t] = "Runnable"
  /\ onCpu' = onCpu \union {t}
  /\ UNCHANGED <<word, bucket, pc, call, st, timerVars, signalVars, waitVars, historyVars>>

DeadlinePasses(t) ==
  /\ call[t].timeout = "some" /\ t \notin expired
  /\ pc[t] \in {"signal?", "waiting?", "leave", "return"}
  /\ expired' = expired \union {t}
  /\ UNCHANGED <<word, bucket, pc, call, threadVars, heap, signalVars, waitVars, historyVars>>

\* wake_expired_timers at the top of a scheduling decision
SchedulingPass(stale) ==
  /\ \E t \in Waiters : Popped(t, stale) # {}
  /\ WakeExpiredTimers(stale)
  /\ UNCHANGED <<word, bucket, pc, call, onCpu, expired, signalVars, waitVars, historyVars>>

\* send_signal_to_process: set_pending under the manager's lock ...
PostSignal(t) ==
  /\ t \in Interrupted /\ pc[t] # "user" /\ t \notin pending \union signalled
  /\ pending' = pending \union {t}
  /\ signalled' = signalled \union {t}
  /\ UNCHANGED <<word, bucket, pc, call, threadVars, timerVars, waitVars, historyVars>>

\* ... and unblock_for_signal after it has been dropped
UnblockForSignal(t) ==
  /\ t \in signalled
  /\ signalled' = signalled \ {t}
  /\ st' = [st EXCEPT ![t] = "Runnable"]
  /\ UNCHANGED <<word, bucket, pc, call, onCpu, timerVars, pending, waitVars, historyVars>>

FInit ==
  /\ word \in Values
  /\ bucket = NoBucket
  /\ pc = [t \in Waiters \union Wakers |-> "user"]
  /\ call = [t \in Waiters |-> NoCall]
  /\ st = [t \in Waiters |-> "Runnable"]
  /\ onCpu = Waiters
  /\ heap = [t \in Waiters |-> {}]
  /\ expired = {} /\ pending = {} /\ signalled = {}
  /\ seen = {} /\ removed = {}
  /\ counted = {} /\ passedOver = {}

FNext ==
  \/ \E t \in Waiters :
       \/ \E v \in Values, timeout \in Timeouts : WaitQueued(t, v, timeout)
       \/ WaiterStep(t)
       \/ Preempt(t) \/ SwitchIn(t) \/ DeadlinePasses(t)
       \/ PostSignal(t) \/ UnblockForSignal(t)
  \/ \E w \in Wakers :
       \/ \E v \in Values : Store(w, v)
       \/ \E n \in WakeCounts : FutexWake(w, n)
  \/ \E stale \in SUBSET Waiters : SchedulingPass(stale)

FSpec == FInit /\ [][FNext]_fvars

(***************************************************************************)
(* The scheduler runs a runnable thread again and again (ReadyRuns), so a   *)
(* waiter that can go on does (SF), clocks go forward and every scheduling  *)
(* pass looks at the timer heap (WF). Wakers and signals owe nothing.       *)
(***************************************************************************)
FFairness ==
  /\ \A t \in Waiters :
       SF_fvars(WaiterStep(t)) /\ WF_fvars(SwitchIn(t)) /\ WF_fvars(DeadlinePasses(t))
  /\ WF_fvars(SchedulingPass({}))

FFairSpec == FSpec /\ FFairness

-----------------------------------------------------------------------------
(***************************************************************************)
(* Properties.                                                              *)
(***************************************************************************)

\* Every variable holds a value of the type the code gives it.
FTypeOK ==
  /\ word \in Values
  /\ bucket = NoBucket \/ \E q \in {Queue} : bucket = Bucket(q) /\ q \in Seq(Waiters)
  /\ pc \in [Waiters \union Wakers ->
              {"user", "signal?", "waiting?", "leave", "return", "wake"}]
  /\ call \in [Waiters -> [val : Values, timeout : Timeouts]]
  /\ st \in [Waiters -> {"Runnable", "BlockedOnIO"}]
  /\ heap \in [Waiters -> SUBSET {"present", "earlier"}]
  /\ \A s \in {onCpu, expired, pending, signalled, seen, removed, counted, passedOver} :
       s \subseteq Waiters

\* FUTEX_WAIT checks the word and goes to sleep in one piece: a thread that
\* sleeps on a value the word no longer has is still going to be looked at by a
\* FUTEX_WAKE, or one with a limited number has taken others before it.
NoLostWake ==
  \A t \in Waiters : st[t] = "BlockedOnIO" /\ word # call[t].val =>
    (\E w \in Wakers : pc[w] = "wake") \/ t \in passedOver

\* The bucket arbitrates a wake against a timeout and a signal: a waiter that a
\* FUTEX_WAKE has counted returns 0 and nothing else, so the count that
\* futex_wake returns is the number of waits it has ended.
CountedReturnsZero ==
  \A t \in counted : pc[t] = "return" => Result(t) = "Ok"

\* A thread is marked BlockedOnIO only inside its wait and only while a
\* FUTEX_WAKE can find it: whichever of wake, timeout and signal comes, it does
\* not go back to user mode in a state that takes it off the CPU for ever.
BlockedMeansQueued ==
  \A t \in Waiters : st[t] = "BlockedOnIO" =>
    pc[t] \in {"signal?", "waiting?", "leave"} /\ Contains(Queue, t)

\* No bucket outlives its last waiter, and none lists a waiter twice.
BucketsHoldWaiters ==
  bucket # NoBucket => Queue # << >> /\ IsInjective(Queue)

\* A wait with a timeout ends.
TimedWaitEnds ==
  \A t \in Timed :
    (pc[t] = "signal?" /\ call[t].timeout = "some") ~> (pc[t] = "user")

\* A wait that a FUTEX_WAKE has counted ends, wherever in its loop it was.
WokenReturns == \A t \in Waiters : (t \in counted) ~> (pc[t] = "user")
=============================================================================
