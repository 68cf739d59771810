------------------------------ MODULE Kthread ------------------------------
(***************************************************************************)
(* Kernel threads of task/kthread.rs: kthread_run, kthread_stop,            *)
(* kthread_park, kthread_unpark, kthread_join and kthread_exit, each one    *)
(* atomic load or store, or one with_scheduler section, at a time.          *)
(*                                                                          *)
(* The scheduler below is reduced to what a kthread can tell apart: an      *)
(* actor is on one of NumCpus CPUs or not; an interrupt takes it off its    *)
(* CPU unless interrupts are masked, and a blocked kthread is not put back  *)
(* on one before unblock has made it Ready. As in Scheduler, unblock leaves *)
(* a thread that is not blocked alone. NumCpus = 1 is the x86_64 kernel.    *)
(***************************************************************************)
EXTENDS Naturals, FiniteSets

CONSTANTS Kthreads,    \* kernel threads that may ever be created
          Callers,     \* threads that hold the KthreadHandles
          ExitCodes,   \* arguments of kthread_exit
          NumCpus

NoKthread == "no_kthread"

ASSUME KthreadAssumption ==
  NoKthread \notin Kthreads /\ Kthreads \intersect Callers = {} /\ 0 \in ExitCodes
ASSUME CpuCountAssumption == NumCpus \in Nat \ {0}

VARIABLES
  run,         \* Thread::state of the kthread ("Unborn": not created)
  onCpu,       \* the actors that are on a CPU
  parked, shouldStop, exited, exitCode,    \* struct Kthread
  registered,  \* the keys of KTHREAD_REGISTRY
  kpc,         \* where the kthread is
  cpc,         \* where the caller is
  ret,         \* where the caller continues after kthread_unpark or kthread_stop
  handle,      \* the kthread the caller's operation is about
  joined       \* the exit codes kthread_join has returned to the caller

flagVars   == <<parked, shouldStop, exited, exitCode, registered>>
callerVars == <<cpc, ret, handle, joined>>
kvars == <<run, onCpu, flagVars, kpc, callerVars>>

Actors == Kthreads \union Callers

KthreadPcs == {"unborn", "body", "park", "park_stop", "park_loop", "recheck", "block",
               "again", "halt", "exit", "terminate", "publish", "dead"}

-----------------------------------------------------------------------------
(***************************************************************************)
(* The CPUs.                                                                *)
(***************************************************************************)

\* inside without_interrupts: park between its re-check and the scheduler
\* section, exit between set_terminated and the publication of exited
MaskedInPark(k) == kpc[k] = "block"
Masked(k) == kpc[k] \in {"block", "publish"}

Runnable(x) == x \in Kthreads => run[x] = "Ready"

SwitchIn(x) ==
  /\ x \notin onCpu /\ Cardinality(onCpu) < NumCpus
  /\ Runnable(x)
  /\ onCpu' = onCpu \union {x}
  /\ run' = IF x \in Kthreads THEN [run EXCEPT ![x] = "Running"] ELSE run
  /\ UNCHANGED <<flagVars, kpc, callerVars>>

SwitchOut(x) ==
  /\ x \in onCpu
  /\ x \in Kthreads => ~Masked(x)
  /\ onCpu' = onCpu \ {x}
  /\ run' = IF x \in Kthreads /\ run[x] = "Running" THEN [run EXCEPT ![x] = "Ready"] ELSE run
  /\ UNCHANGED <<flagVars, kpc, callerVars>>

-----------------------------------------------------------------------------
(***************************************************************************)
(* The kthread's own steps.                                                 *)
(***************************************************************************)
KthreadAt(k, at, to) ==
  /\ k \in onCpu /\ kpc[k] = at
  /\ kpc' = [kpc EXCEPT ![k] = to]
  /\ UNCHANGED <<onCpu, callerVars>>

\* The loop of ksoftirqd_fn: some work, or a park, until kthread_should_stop.
BodyStop(k) ==
  /\ shouldStop[k]
  /\ KthreadAt(k, "body", "exit")
  /\ UNCHANGED <<run, flagVars>>

BodyPark(k) ==
  /\ ~shouldStop[k]
  /\ KthreadAt(k, "body", "park")
  /\ UNCHANGED <<run, flagVars>>

ParkSet(k) ==
  /\ KthreadAt(k, "park", "park_stop")
  /\ parked' = [parked EXCEPT ![k] = TRUE]
  /\ UNCHANGED <<run, shouldStop, exited, exitCode, registered>>

ParkStopSkipped(k) == KthreadAt(k, "park_stop", "park_loop") /\ UNCHANGED <<run, flagVars>>

\* should_stop is read after parked has been set
ParkStop(k) ==
  /\ KthreadAt(k, "park_stop", IF shouldStop[k] THEN "body" ELSE "park_loop")
  /\ parked' = IF shouldStop[k] THEN [parked EXCEPT ![k] = FALSE] ELSE parked
  /\ UNCHANGED <<run, shouldStop, exited, exitCode, registered>>

ParkLoop(k) ==
  /\ KthreadAt(k, "park_loop", IF parked[k] THEN "recheck" ELSE "body")
  /\ UNCHANGED <<run, flagVars>>

\* interrupts are masked from here ...
ParkRecheck(k) ==
  /\ KthreadAt(k, "recheck", IF parked[k] THEN "block" ELSE "again")
  /\ UNCHANGED <<run, flagVars>>

ParkBlockOnSignal(k) ==
  /\ KthreadAt(k, "block", "again")
  /\ run' = [run EXCEPT ![k] = "BlockedOnSignal"]
  /\ UNCHANGED flagVars

\* ... to here: the thread is Blocked whatever unblock did in between
ParkBlock(k) ==
  /\ KthreadAt(k, "block", "again")
  /\ run' = [run EXCEPT ![k] = "Blocked"]
  /\ UNCHANGED flagVars

ParkAgain(k) ==
  /\ KthreadAt(k, "again", IF parked[k] THEN "halt" ELSE "body")
  /\ UNCHANGED <<run, flagVars>>

\* yield_current sets need_resched only; the switch comes with an interrupt
ParkHalt(k) ==
  /\ KthreadAt(k, "halt", "park_loop")
  /\ UNCHANGED <<run, flagVars>>

\* kthread_exit: the code and the parked flag, then the registry row
ExitStart(k, code) ==
  /\ KthreadAt(k, "exit", "terminate")
  /\ exitCode' = [exitCode EXCEPT ![k] = code]
  /\ parked' = [parked EXCEPT ![k] = FALSE]
  /\ registered' = registered \ {k}
  /\ UNCHANGED <<run, shouldStop, exited>>

ExitPublishFirst(k) ==
  /\ KthreadAt(k, "terminate", "publish")
  /\ exited' = [exited EXCEPT ![k] = TRUE]
  /\ UNCHANGED <<run, parked, shouldStop, exitCode, registered>>

ExitTerminate(k) ==
  /\ KthreadAt(k, "terminate", "publish")
  /\ run' = [run EXCEPT ![k] = "Terminated"]
  /\ UNCHANGED flagVars

ExitPublish(k) ==
  /\ KthreadAt(k, "publish", "dead")
  /\ exited' = [exited EXCEPT ![k] = TRUE]
  /\ UNCHANGED <<run, parked, shouldStop, exitCode, registered>>

\* the steps of kthread_park and kthread_exit, whatever the thread's function
ParkStep(k) ==
  \/ ParkSet(k) \/ ParkStop(k) \/ ParkLoop(k) \/ ParkRecheck(k)
  \/ ParkBlock(k) \/ ParkAgain(k) \/ ParkHalt(k)

ExitStep(k) == (\E code \in ExitCodes : ExitStart(k, code)) \/ ExitTerminate(k) \/ ExitPublish(k)

KthreadStep(k) == BodyStop(k) \/ BodyPark(k) \/ ParkStep(k) \/ ExitStep(k)

-----------------------------------------------------------------------------
(***************************************************************************)
(* The callers.                                                             *)
(***************************************************************************)
CallerAt(a, at, to) ==
  /\ a \in onCpu /\ cpc[a] = at
  /\ cpc' = [cpc EXCEPT ![a] = to]
  /\ UNCHANGED <<onCpu, kpc>>

\* kthread_run registers and spawns with interrupts masked
SpawnKthread(k) ==
  /\ run[k] = "Unborn"
  /\ run' = [run EXCEPT ![k] = "Ready"]
  /\ kpc' = [kpc EXCEPT ![k] = "body"]
  /\ registered' = registered \union {k}
  /\ UNCHANGED <<onCpu, parked, shouldStop, exited, exitCode>>

KthreadRun(a, k) ==
  /\ a \in onCpu /\ cpc[a] = "idle"
  /\ SpawnKthread(k)
  /\ UNCHANGED callerVars

\* the caller turns to an operation on a thread it has the handle of
Begin(a, k, op) ==
  /\ run[k] # "Unborn"
  /\ CallerAt(a, "idle", op)
  /\ handle' = [handle EXCEPT ![a] = k]
  /\ ret' = [ret EXCEPT ![a] = "idle"]
  /\ UNCHANGED <<run, flagVars, joined>>

StopCheck(a) ==
  /\ CallerAt(a, "stop", IF exited[handle[a]] THEN ret[a] ELSE "stop_swap")
  /\ UNCHANGED <<run, flagVars, ret, handle, joined>>

StopSwap(a) ==
  /\ CallerAt(a, "stop_swap", IF shouldStop[handle[a]] THEN ret[a] ELSE "unpark")
  /\ shouldStop' = [shouldStop EXCEPT ![handle[a]] = TRUE]
  /\ UNCHANGED <<run, parked, exited, exitCode, registered, ret, handle, joined>>

UnparkStore(a) ==
  /\ CallerAt(a, "unpark", "unblock")
  /\ parked' = [parked EXCEPT ![handle[a]] = FALSE]
  /\ UNCHANGED <<run, shouldStop, exited, exitCode, registered, ret, handle, joined>>

\* Scheduler::unblock
UnparkWake(a) ==
  /\ CallerAt(a, "unblock", ret[a])
  /\ run' = IF run[handle[a]] = "Blocked" THEN [run EXCEPT ![handle[a]] = "Ready"] ELSE run
  /\ UNCHANGED <<flagVars, ret, handle, joined>>

\* the halt loop of kthread_join ends when exited is seen
Join(a) ==
  /\ CallerAt(a, "join", ret[a])
  /\ exited[handle[a]]
  /\ joined' = [joined EXCEPT ![a] = @ \union {<<handle[a], exitCode[handle[a]]>>}]
  /\ UNCHANGED <<run, flagVars, ret, handle>>

CallStep(a) ==
  StopCheck(a) \/ StopSwap(a) \/ UnparkStore(a) \/ UnparkWake(a) \/ Join(a)

-----------------------------------------------------------------------------
KInit ==
  /\ run = [k \in Kthreads |-> "Unborn"]
  /\ onCpu = {}
  /\ parked = [k \in Kthreads |-> FALSE]
  /\ shouldStop = [k \in Kthreads |-> FALSE]
  /\ exited = [k \in Kthreads |-> FALSE]
  /\ exitCode = [k \in Kthreads |-> 0]
  /\ registered = {}
  /\ kpc = [k \in Kthreads |-> "unborn"]
  /\ cpc = [a \in Callers |-> "idle"]
  /\ ret = [a \in Callers |-> "idle"]
  /\ handle = [a \in Callers |-> NoKthread]
  /\ joined = [a \in Callers |-> {}]

KNext ==
  \/ \E x \in Actors : SwitchIn(x) \/ SwitchOut(x)
  \/ \E k \in Kthreads : KthreadStep(k)
  \/ \E a \in Callers : CallStep(a)
  \/ \E a \in Callers, k \in Kthreads :
       KthreadRun(a, k) \/ (\E op \in {"stop", "unpark", "join"} : Begin(a, k, op))

KSpec == KInit /\ [][KNext]_kvars

(***************************************************************************)
(* A runnable thread gets a CPU sooner or later (ReadyRuns of Scheduler),   *)
(* an interrupt ends every stay on a CPU once it is not masked, and a thread*)
(* that is given a CPU again and again gets its next step done.             *)
(***************************************************************************)
KFairness ==
  /\ \A x \in Actors : SF_kvars(SwitchIn(x)) /\ SF_kvars(SwitchOut(x))
  /\ \A k \in Kthreads : SF_kvars(KthreadStep(k))
  /\ \A a \in Callers : SF_kvars(CallStep(a))

KFairSpec == KSpec /\ KFairness

-----------------------------------------------------------------------------
(***************************************************************************)
(* Properties.                                                              *)
(***************************************************************************)

\* Every variable holds a value of its type, and no more actors are on a CPU
\* than there are CPUs.
KTypeOK ==
  /\ run \in [Kthreads -> {"Unborn", "Ready", "Running", "Blocked", "Terminated"}]
  /\ onCpu \subseteq Actors /\ Cardinality(onCpu) <= NumCpus
  /\ parked \in [Kthreads -> BOOLEAN] /\ shouldStop \in [Kthreads -> BOOLEAN]
  /\ exited \in [Kthreads -> BOOLEAN] /\ exitCode \in [Kthreads -> ExitCodes]
  /\ registered \subseteq Kthreads
  /\ kpc \in [Kthreads -> KthreadPcs]
  /\ handle \in [Callers -> Kthreads \union {NoKthread}]
  /\ joined \in [Callers -> SUBSET (Kthreads \X ExitCodes)]

\* kthread_join returns only when the thread is terminated and unregistered, and
\* with the code it exited with: the caller may reuse the locks the exit takes.
JoinSeesTheEnd ==
  \A a \in Callers : \A j \in joined[a] :
    /\ run[j[1]] = "Terminated" /\ j[1] \notin registered
    /\ exitCode[j[1]] = j[2]

\* A terminated thread that has lost its CPU has published exited: it will never
\* run again, so a join that still waits would wait for ever.
TerminatedIsPublished ==
  \A k \in Kthreads : run[k] = "Terminated" /\ k \notin onCpu => exited[k]

\* A kthread that has been asked to stop exits: kthread_stop wakes it from
\* kthread_park, wherever in kthread_park it is.
StopLeadsToExit == \A k \in Kthreads : shouldStop[k] ~> exited[k]

=============================================================================
