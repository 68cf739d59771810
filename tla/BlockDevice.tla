---------------------------- MODULE BlockDevice ----------------------------
(***************************************************************************)
(* read_sector and write_sector of drivers/virtio/block_mmio.rs on one      *)
(* device: the request gate, the completion the caller waits on             *)
(* (task/completion.rs), the interrupt handler that completes it, and the   *)
(* wakeups, timers and scheduling points of the scheduler below them.       *)
(*                                                                          *)
(* Loads and stores of the atomics are separate steps wherever another CPU  *)
(* or the interrupt handler can come in between. The two directions of a    *)
(* transfer differ in the data they copy only, which is left out, and so is *)
(* the status byte beyond "not yet completed". A thread that is runnable is *)
(* taken to be on a CPU (ReadyRuns of Scheduler); one that is marked        *)
(* BlockedOnIO runs on until a scheduling point takes it off its CPU.       *)
(***************************************************************************)
EXTENDS Integers, Sequences, FiniteSets, SequencesExt, WaitList

CONSTANTS Clients,      \* threads that read and write sectors
          Sleepers,     \* those in a syscall: preempt_count > 0, timer running
          MaxRequests,  \* bound: requests made
          TokenSpace,   \* values of a completion token, 2^32 in the code
          MayVanish     \* the device may stop answering the probe

ASSUME BlockAssumption ==
  /\ Sleepers \subseteq Clients
  /\ MaxRequests \in Nat \ {0} /\ TokenSpace \in Nat /\ TokenSpace > 2
  /\ MayVanish \in BOOLEAN

VARIABLES
  locked, wedged, queue,      \* BlockMmioRequestGate
  pc, token, made,            \* the callers: completion_token, requests made
  st, timed, off,             \* Thread::state; wake_time_ns is set; off its CPU
  heap, passed,               \* timer_heap entries; deadlines that have passed
  done, waiter,               \* Completion
  nextToken, pending, completed, \* BlockMmioCompletion
  chain, served, unseen, present, \* the queue and its device: who owns the
                              \* descriptors, whose status byte is written,
                              \* used.idx # last_used_idx
  isr, isrToken, isrBuffer,   \* interrupt handler, ISR_WAKEUP_BUFFERS
  dropped                     \* history: threads whose wakeup found it full

gateVars == <<locked, wedged, queue>>
callVars == <<token, made>>
threadVars == <<st, timed, off>>
timerVars == <<heap, passed>>
completionVars == <<done, waiter>>
requestVars == <<nextToken, pending, completed>>
deviceVars == <<chain, served, unseen, present>>
isrVars == <<isr, isrToken, isrBuffer, dropped>>
bvars == <<gateVars, pc, callVars, threadVars, timerVars, completionVars,
           requestVars, deviceVars, isrVars>>

NoThread == {}

\* a thread executes while it has not been switched out
Step(t, from, to) ==
  /\ t \notin off /\ pc[t] = from
  /\ pc' = [pc EXCEPT ![t] = to]

\* wake_io_thread_locked: a thread made runnable gets a CPU again
Wake(ts) ==
  LET woken == {t \in ts : st[t] = "BlockedOnIO"}
  IN  /\ st' = [t \in Clients |-> IF t \in woken THEN "Runnable" ELSE st[t]]
      /\ timed' = timed \ woken
      /\ off' = off \ woken

\* publish_current_io_wait_state
Blocked(t, withTimeout) ==
  /\ st' = [st EXCEPT ![t] = "BlockedOnIO"]
  /\ timed' = IF withTimeout THEN timed \union {t} ELSE timed \ {t}
  /\ UNCHANGED off

-----------------------------------------------------------------------------
(***************************************************************************)
(* BlockMmioRequestGate::lock                                               *)
(***************************************************************************)
\* a call that finds the gate wedged returns at once and changes nothing
Call(t) ==
  /\ made < MaxRequests /\ ~wedged
  /\ Step(t, "user", "cas")
  /\ made' = made + 1
  /\ UNCHANGED <<gateVars, token, threadVars, timerVars, completionVars,
                 requestVars, deviceVars, isrVars>>

Cas(t) ==
  /\ Step(t, "cas", IF ~locked THEN "prepare"
                    ELSE IF t \in Sleepers THEN "enqueue" ELSE "user")
  /\ locked' = TRUE
  /\ UNCHANGED <<wedged, queue, callVars, threadVars, timerVars, completionVars,
                 requestVars, deviceVars, isrVars>>

\* prepare_to_wait
Enqueue(t) ==
  /\ Step(t, "enqueue", "wedged?")
  /\ queue' = Enlisted(queue, t)
  /\ Blocked(t, FALSE)
  /\ UNCHANGED <<locked, wedged, callVars, timerVars, completionVars, requestVars,
                 deviceVars, isrVars>>

RecheckWedged(t) ==
  /\ Step(t, "wedged?", IF wedged THEN "refused" ELSE "locked?")
  /\ UNCHANGED <<gateVars, callVars, threadVars, timerVars, completionVars,
                 requestVars, deviceVars, isrVars>>

RecheckNothing(t) ==
  /\ Step(t, "locked?", "park")
  /\ UNCHANGED <<gateVars, callVars, threadVars, timerVars, completionVars,
                 requestVars, deviceVars, isrVars>>

RecheckLocked(t) ==
  /\ Step(t, "locked?", IF locked THEN "park" ELSE "retry")
  /\ UNCHANGED <<gateVars, callVars, threadVars, timerVars, completionVars,
                 requestVars, deviceVars, isrVars>>

\* schedule_current_wait: off the CPU until the state is no longer BlockedOnIO
Park(t) ==
  \/ /\ st[t] = "Runnable"
     /\ Step(t, "park", "retry")
     /\ UNCHANGED threadVars
     /\ UNCHANGED <<gateVars, callVars, timerVars, completionVars, requestVars,
                    deviceVars, isrVars>>
  \/ /\ st[t] = "BlockedOnIO"
     /\ Step(t, "park", "park")
     /\ off' = off \union {t}
     /\ UNCHANGED <<gateVars, callVars, st, timed, timerVars, completionVars,
                    requestVars, deviceVars, isrVars>>

\* finish_wait, on the way round the loop or out of it
FinishWait(t) ==
  /\ \/ Step(t, "retry", "again?") \/ Step(t, "refused", "user")
  /\ queue' = Without(queue, t)
  /\ st' = [st EXCEPT ![t] = "Runnable"]
  /\ timed' = timed \ {t}
  /\ UNCHANGED <<locked, wedged, callVars, off, timerVars, completionVars,
                 requestVars, deviceVars, isrVars>>

WedgedMeanwhile(t) ==
  /\ Step(t, "again?", IF wedged THEN "user" ELSE "cas")
  /\ UNCHANGED <<gateVars, callVars, threadVars, timerVars, completionVars,
                 requestVars, deviceVars, isrVars>>

LockSteps(t) ==
  \/ Cas(t) \/ Enqueue(t) \/ RecheckWedged(t) \/ RecheckLocked(t)
  \/ Park(t) \/ FinishWait(t) \/ WedgedMeanwhile(t)

-----------------------------------------------------------------------------
(***************************************************************************)
(* prepare_wait and submit_{read,write}_sector                              *)
(***************************************************************************)
NextCompletionTokenWide == nextToken + 1
NextCompletionTokenZero == (nextToken + 1) % TokenSpace

\* next_completion_token skips 0, which means "no request" and "not done"
NextCompletionToken ==
  LET n == (nextToken + 1) % TokenSpace IN IF n = 0 THEN 1 ELSE n

PrepareWait(t) ==
  /\ Step(t, "prepare", "submit")
  /\ nextToken' = NextCompletionToken
  /\ token' = [token EXCEPT ![t] = NextCompletionToken]
  /\ done' = 0 /\ waiter' = NoThread
  /\ completed' = FALSE
  /\ pending' = NextCompletionToken
  /\ UNCHANGED <<gateVars, made, threadVars, timerVars, deviceVars, isrVars>>

\* The chain is published before the device is probed for the notification: a
\* caller that finds it gone clears the request and leaves.
Submit(t) ==
  /\ Step(t, "submit", IF present THEN "wait" ELSE "unlock")
  /\ chain' = IF present THEN {t} ELSE chain
  /\ served' = NoThread
  /\ pending' = IF present THEN pending ELSE 0
  /\ UNCHANGED <<gateVars, callVars, threadVars, timerVars, completionVars,
                 nextToken, completed, unseen, present, isrVars>>

-----------------------------------------------------------------------------
(***************************************************************************)
(* Completion::wait_timeout_uninterruptible                                 *)
(***************************************************************************)
IsDone(t) == done = token[t]

Waiting(t) == pc[t] \in {"waited?", "block", "blocked", "schedule", "woken", "late?"}

\* Ok(true) through the paths that have stored waiter; `to` is where the
\* caller is if it is not
Looks(t, from, to) ==
  /\ Step(t, from, IF IsDone(t) THEN "finish" ELSE to)
  /\ waiter' = IF IsDone(t) THEN NoThread ELSE waiter
  /\ UNCHANGED <<gateVars, callVars, threadVars, timerVars, done, requestVars,
                 deviceVars, isrVars>>

\* the deadline is 5 s from here
WaitFast(t) ==
  /\ Step(t, "wait", IF IsDone(t) THEN "finish" ELSE "waited?")
  /\ waiter' = IF IsDone(t) THEN waiter ELSE {t}
  /\ passed' = passed \ {t} /\ dropped' = dropped \ {t}
  /\ heap' = [heap EXCEPT ![t] = IF "present" \in @ THEN {"earlier"} ELSE @]
  /\ UNCHANGED <<gateVars, callVars, threadVars, done, requestVars, deviceVars,
                 isr, isrToken, isrBuffer>>

WaitRecheck(t) == t \in Sleepers /\ Looks(t, "waited?", "block")

\* the done-check and block_current_for_io_with_timeout, under the scheduler lock
WaitBlockUntimed(t) ==
  /\ ~IsDone(t)
  /\ Step(t, "block", "blocked")
  /\ Blocked(t, FALSE)
  /\ UNCHANGED <<gateVars, callVars, timerVars, completionVars, requestVars,
                 deviceVars, isrVars>>

WaitBlockUnchecked(t) ==
  /\ Step(t, "block", "blocked")
  /\ Blocked(t, TRUE)
  /\ heap' = [heap EXCEPT ![t] = @ \union {"present"}]
  /\ UNCHANGED <<gateVars, callVars, passed, completionVars, requestVars,
                 deviceVars, isrVars>>

WaitBlock(t) ==
  /\ ~IsDone(t)
  /\ Step(t, "block", "blocked")
  /\ Blocked(t, TRUE)
  /\ heap' = [heap EXCEPT ![t] = @ \union {"present"}]
  /\ UNCHANGED <<gateVars, callVars, passed, completionVars, requestVars,
                 deviceVars, isrVars>>

WaitAlreadyDone(t) == IsDone(t) /\ Looks(t, "block", "finish")

\* done is loaded once more: a thread that sees it now returns as it is,
\* marked BlockedOnIO
WaitBlocked(t) == Looks(t, "blocked", "schedule")

\* schedule_from_kernel
WaitSchedule(t) ==
  \/ /\ st[t] = "Runnable"
     /\ Step(t, "schedule", "woken")
     /\ UNCHANGED <<gateVars, callVars, threadVars, timerVars, completionVars,
                    requestVars, deviceVars, isrVars>>
  \/ /\ st[t] = "BlockedOnIO"
     /\ Step(t, "schedule", "woken")
     /\ off' = off \union {t}
     /\ UNCHANGED <<gateVars, callVars, st, timed, timerVars, completionVars,
                    requestVars, deviceVars, isrVars>>

WaitWoken(t) == Looks(t, "woken", "late?")

\* Ok(false) once now_ns >= deadline_ns
WaitDeadline(t) ==
  /\ Step(t, "late?", IF t \in passed THEN "wedge" ELSE "block")
  /\ waiter' = IF t \in passed THEN NoThread ELSE waiter
  /\ UNCHANGED <<gateVars, callVars, threadVars, timerVars, done, requestVars,
                 deviceVars, isrVars>>

\* the spin path of a thread that may not sleep
WaitSpin(t) ==
  /\ t \notin Sleepers
  /\ IsDone(t) \/ t \in passed
  /\ Step(t, "waited?", IF IsDone(t) THEN "finish" ELSE "wedge")
  /\ waiter' = NoThread
  /\ UNCHANGED <<gateVars, callVars, threadVars, timerVars, done, requestVars,
                 deviceVars, isrVars>>

WaitSteps(t) ==
  \/ WaitFast(t) \/ WaitRecheck(t) \/ WaitBlock(t) \/ WaitAlreadyDone(t)
  \/ WaitBlocked(t) \/ WaitSchedule(t) \/ WaitWoken(t) \/ WaitDeadline(t) \/ WaitSpin(t)

-----------------------------------------------------------------------------
(***************************************************************************)
(* finish_{read,write}_sector, and the guard dropped or wedged              *)
(***************************************************************************)
\* take_completed_request; nothing is cleared if it finds no completion
Finish(t) ==
  /\ Step(t, "finish", "unlock")
  /\ completed' = FALSE
  /\ pending' = IF completed THEN 0 ELSE pending
  /\ UNCHANGED <<gateVars, callVars, threadVars, timerVars, completionVars,
                 nextToken, deviceVars, isrVars>>

Unlock(t) ==
  /\ Step(t, "unlock", "wake one")
  /\ locked' = FALSE
  /\ UNCHANGED <<wedged, queue, callVars, threadVars, timerVars, completionVars,
                 requestVars, deviceVars, isrVars>>

WakeOne(t) ==
  /\ Step(t, "wake one", "user")
  /\ queue' = IF queue = << >> THEN queue ELSE Tail(queue)
  /\ Wake(IF queue = << >> THEN {} ELSE {Head(queue)})
  /\ UNCHANGED <<locked, wedged, callVars, timerVars, completionVars, requestVars,
                 deviceVars, isrVars>>

WedgeReleases(t) ==
  /\ Step(t, "wedge", "wake one")
  /\ locked' = FALSE
  /\ UNCHANGED <<wedged, queue, callVars, threadVars, timerVars, completionVars,
                 requestVars, deviceVars, isrVars>>

\* a request that was given up keeps the gate locked
Wedge(t) ==
  /\ Step(t, "wedge", "wake all")
  /\ wedged' = TRUE
  /\ UNCHANGED <<locked, queue, callVars, threadVars, timerVars, completionVars,
                 requestVars, deviceVars, isrVars>>

WakeAll(t) ==
  /\ Step(t, "wake all", "user")
  /\ queue' = << >>
  /\ Wake(ToSet(queue))
  /\ UNCHANGED <<locked, wedged, callVars, timerVars, completionVars, requestVars,
                 deviceVars, isrVars>>

RequestSteps(t) ==
  \/ PrepareWait(t) \/ Submit(t) \/ Finish(t)
  \/ Unlock(t) \/ WakeOne(t) \/ Wedge(t) \/ WakeAll(t)

ClientStep(t) == LockSteps(t) \/ WaitSteps(t) \/ RequestSteps(t)

-----------------------------------------------------------------------------
(***************************************************************************)
(* The device. It may take for ever, and it may be gone. Its interrupt may  *)
(* come late or not at all, and may come without a reason.                  *)
(***************************************************************************)
DeviceCompletes ==
  /\ chain # NoThread
  /\ chain' = NoThread /\ served' = chain
  /\ unseen' = TRUE
  /\ UNCHANGED <<gateVars, pc, callVars, threadVars, timerVars, completionVars,
                 requestVars, present, isrVars>>

DeviceVanishes ==
  /\ MayVanish /\ present
  /\ present' = FALSE /\ chain' = NoThread
  /\ UNCHANGED <<gateVars, pc, callVars, threadVars, timerVars, completionVars,
                 requestVars, served, unseen, isrVars>>

-----------------------------------------------------------------------------
(***************************************************************************)
(* handle_interrupt. It changes nothing if no request is pending, and is    *)
(* not entered again before it ends.                                        *)
(***************************************************************************)
\* acknowledge, and read the token of the request that is pending
IsrEnter ==
  /\ isr = "idle" /\ pending # 0
  /\ isr' = "used"
  /\ isrToken' = pending
  /\ UNCHANGED <<gateVars, pc, callVars, threadVars, timerVars, completionVars,
                 requestVars, deviceVars, isrBuffer, dropped>>

\* nothing new on the used ring, or last_used_idx catches up
IsrUsed ==
  /\ isr = "used"
  /\ isr' = IF unseen THEN "publish" ELSE "idle"
  /\ unseen' = FALSE
  /\ UNCHANGED <<gateVars, pc, callVars, threadVars, timerVars, completionVars,
                 requestVars, chain, served, present, isrToken, isrBuffer, dropped>>

IsrPublish ==
  /\ isr = "publish"
  /\ isr' = "done"
  /\ completed' = TRUE
  /\ UNCHANGED <<gateVars, pc, callVars, threadVars, timerVars, completionVars,
                 nextToken, pending, deviceVars, isrToken, isrBuffer, dropped>>

\* Completion::complete
IsrDone ==
  /\ isr = "done"
  /\ isr' = "wake"
  /\ done' = isrToken
  /\ UNCHANGED <<gateVars, pc, callVars, threadVars, timerVars, waiter,
                 requestVars, deviceVars, isrToken, isrBuffer, dropped>>

\* isr_unblock_for_io: a slot of the wakeup buffer, or none is left and the
\* wakeup is dropped
IsrWake ==
  /\ isr = "wake"
  /\ isr' = "idle" /\ isrToken' = 0
  /\ \/ isrBuffer' = isrBuffer \union waiter /\ UNCHANGED dropped
     \/ dropped' = dropped \union (waiter \ isrBuffer) /\ UNCHANGED isrBuffer
  /\ UNCHANGED <<gateVars, pc, callVars, threadVars, timerVars, completionVars,
                 requestVars, deviceVars>>

IsrRest == IsrUsed \/ IsrPublish \/ IsrDone \/ IsrWake

-----------------------------------------------------------------------------
(***************************************************************************)
(* The scheduler: a scheduling pass drains the wakeup buffer and pops timer *)
(* heap entries that are due; a thread marked BlockedOnIO that is preempted *)
(* or has left the syscall does not get its CPU back until it is woken.     *)
(***************************************************************************)
DrainIsrBuffer ==
  /\ isrBuffer # {}
  /\ isrBuffer' = {}
  /\ Wake(isrBuffer)
  /\ UNCHANGED <<gateVars, pc, callVars, timerVars, completionVars, requestVars,
                 deviceVars, isr, isrToken, dropped>>

DeadlinePasses(t) ==
  /\ t \notin passed /\ Waiting(t)
  /\ passed' = passed \union {t}
  /\ UNCHANGED <<gateVars, pc, callVars, threadVars, heap, completionVars,
                 requestVars, deviceVars, isrVars>>

\* wake_expired_timers: the entry counts if the thread is in a timed wait
Expire(t, entry) ==
  /\ entry \in heap[t]
  /\ entry = "present" => t \in passed \/ ~Waiting(t)
  /\ heap' = [heap EXCEPT ![t] = @ \ {entry}]
  /\ Wake({t} \intersect timed)
  /\ dropped' = dropped \ {t}
  /\ UNCHANGED <<gateVars, pc, callVars, passed, completionVars, requestVars,
                 deviceVars, isr, isrToken, isrBuffer>>

Preemptible == {"block", "blocked", "schedule", "woken", "late?", "park", "user"}

SwitchOut(t) ==
  /\ t \notin off /\ st[t] = "BlockedOnIO" /\ pc[t] \in Preemptible
  /\ off' = off \union {t}
  /\ UNCHANGED <<gateVars, pc, callVars, st, timed, timerVars, completionVars,
                 requestVars, deviceVars, isrVars>>

BInit ==
  /\ locked = FALSE /\ wedged = FALSE /\ queue = << >>
  /\ pc = [t \in Clients |-> "user"]
  /\ token = [t \in Clients |-> 0] /\ made = 0
  /\ st = [t \in Clients |-> "Runnable"] /\ timed = {} /\ off = {}
  /\ heap = [t \in Clients |-> {}] /\ passed = {}
  /\ done = 0 /\ waiter = NoThread
  /\ nextToken = 1 /\ pending = 0 /\ completed = FALSE
  /\ chain = NoThread /\ served = NoThread /\ unseen = FALSE /\ present = TRUE
  /\ isr = "idle" /\ isrToken = 0 /\ isrBuffer = {} /\ dropped = {}

BNext ==
  \/ \E t \in Clients :
       \/ Call(t) \/ ClientStep(t)
       \/ DeadlinePasses(t) \/ SwitchOut(t)
       \/ \E entry \in {"present", "earlier"} : Expire(t, entry)
  \/ DeviceCompletes \/ DeviceVanishes
  \/ IsrEnter \/ IsrRest \/ DrainIsrBuffer

BSpec == BInit /\ [][BNext]_bvars

(***************************************************************************)
(* Runnable threads run, interrupt handlers run to their end, time passes   *)
(* and every scheduling pass looks at the buffer and at the heap. Nothing   *)
(* is asked of the device.                                                  *)
(***************************************************************************)
BFairness ==
  /\ \A t \in Clients :
       /\ WF_bvars(ClientStep(t)) /\ WF_bvars(DeadlinePasses(t))
       /\ \A entry \in {"present", "earlier"} : WF_bvars(Expire(t, entry))
  /\ WF_bvars(IsrRest) /\ WF_bvars(DrainIsrBuffer)

BFairSpec == BSpec /\ BFairness

-----------------------------------------------------------------------------
(***************************************************************************)
(* Properties.                                                              *)
(***************************************************************************)

\* Every variable holds a value of the type the code gives it.
BTypeOK ==
  /\ {locked, wedged, completed, unseen, present} \subseteq BOOLEAN
  /\ queue \in Seq(Clients)
  /\ pc \in [Clients -> {"user", "cas", "enqueue", "wedged?", "locked?", "park", "retry",
                         "refused", "again?", "prepare", "submit", "wait", "waited?",
                         "block", "blocked", "schedule", "woken", "late?", "finish",
                         "unlock", "wedge", "wake one", "wake all"}]
  /\ made \in 0..MaxRequests
  /\ token \in [Clients -> 0..(TokenSpace - 1)]
  /\ st \in [Clients -> {"Runnable", "BlockedOnIO"}]
  /\ heap \in [Clients -> SUBSET {"present", "earlier"}]
  /\ \A s \in {timed, off, passed, waiter, chain, served, isrBuffer, dropped} :
       s \subseteq Clients
  /\ {done, nextToken, pending, isrToken} \subseteq 0..(TokenSpace - 1)
  /\ isr \in {"idle", "used", "publish", "done", "wake"}

\* The descriptors, the data buffer and the status byte are one set per device:
\* nobody writes them while the device still owns the chain of a request that
\* timed out.
BuffersNotReused ==
  \A t \in Clients : pc[t] \in {"prepare", "submit"} => chain = NoThread

\* wait_for_completion answers Ok for the caller's own request and not before
\* the device is through with it: done is reset behind the gate, a token is
\* never 0, and a late, spurious or earlier interrupt does not write done before
\* the used ring has moved. take_completed_request never "woke without
\* completion".
CompletionIsMine ==
  \A t \in Clients : pc[t] = "finish" => served = {t} /\ completed

\* A sleeper whose request is complete has a wakeup on its way, unless the
\* wakeup buffer was full: setting waiter, testing done and blocking on one
\* side, setting done and loading waiter on the other, cannot both miss.
NoMissedCompletion ==
  \A t \in off : pc[t] \in {"block", "blocked", "schedule", "woken"} /\ IsDone(t) =>
    t \in isrBuffer \union dropped \/ (isr = "wake" /\ t \in waiter)

\* wait_timeout can return Ok(true) with the thread still marked BlockedOnIO and
\* its waiter slot cleared, so that no completion will wake it. The deadline of
\* the wait it has left is then what brings it back.
StrandedHasTimer ==
  \A t \in Clients :
    st[t] = "BlockedOnIO" /\ pc[t] \notin {"wedged?", "locked?", "park", "retry", "refused"} =>
      t \in timed /\ heap[t] # {}

\* Every request returns, also when completions are late or lost, wakeups are
\* dropped or the gate is wedged under those who wait at it, and its caller is
\* not left off the CPU.
RequestEnds ==
  \A t \in Clients :
    (pc[t] # "user" \/ t \in off) ~> (pc[t] = "user" /\ t \notin off)

\* The driver implements RequestService: callers are served one at a time, the
\* buffers are the device's from the submission to the completion, whoever has
\* given up by then, and nobody is served after a request has been given up.
Holding == {t \in Clients : pc[t] \in {"prepare", "submit", "wait", "waited?", "block",
             "blocked", "schedule", "woken", "late?", "finish", "unlock", "wedge"}}
Asking == {t \in Clients : pc[t] \in {"cas", "enqueue", "wedged?", "locked?", "park",
             "retry", "refused", "again?"}}

Service == INSTANCE RequestService
             WITH asking <- Asking, owner <- Holding,
                  working <- (chain # NoThread), closed <- wedged

ImplementsService == Service!SSpec
=============================================================================
