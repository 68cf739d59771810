--------------------------- MODULE KthreadProofs ---------------------------
(***************************************************************************)
(* What kthread_join promises, and that no exit is lost, for any number of  *)
(* kthreads, callers and CPUs. The argument: a kthread's location tells how *)
(* far its exit has come (LifeInv), exited is the last store of the exit,   *)
(* and what a join returned is what the exit had stored (JoinInv).          *)
(***************************************************************************)
EXTENDS Kthread, FiniteSetTheorems, TLAPS

CallerPcs == {"idle", "stop", "stop_swap", "unpark", "unblock", "join"}

\* A caller inside an operation has the handle of a thread that exists.
CallInv ==
  /\ cpc \in [Callers -> CallerPcs] /\ ret \in [Callers -> {"idle"}]
  /\ \A a \in Callers : cpc[a] # "idle" => handle[a] \in Kthreads /\ run[handle[a]] # "Unborn"

\* How far the exit of a kthread has come.
LifeInv ==
  \A k \in Kthreads :
    /\ run[k] = "Unborn" <=> kpc[k] = "unborn"
    /\ run[k] = "Terminated" <=> kpc[k] \in {"publish", "dead"}
    /\ kpc[k] \in {"terminate", "publish", "dead"} => k \notin registered
    /\ kpc[k] = "publish" => k \in onCpu
    /\ exited[k] <=> kpc[k] = "dead"

\* A join has returned the code of a thread that has exited.
JoinInv ==
  \A a \in Callers : \A j \in joined[a] :
    exited[j[1]] /\ exitCode[j[1]] = j[2]

KInv == KTypeOK /\ IsFiniteSet(onCpu) /\ CallInv /\ LifeInv /\ JoinInv

-----------------------------------------------------------------------------
\* Before any kthread exists.
LEMMA KInitOK == KInit => KInv
<1> SUFFICES ASSUME KInit PROVE KInv
  OBVIOUS
<1>1. IsFiniteSet(onCpu) /\ Cardinality(onCpu) <= NumCpus
  BY FS_EmptySet, CpuCountAssumption DEF KInit
<1>2. KTypeOK
  BY <1>1, KthreadAssumption DEF KInit, KTypeOK, KthreadPcs
<1>3. CallInv /\ LifeInv /\ JoinInv
  BY DEF KInit, CallInv, CallerPcs, LifeInv, JoinInv
<1> QED
  BY <1>1, <1>2, <1>3 DEF KInv

\* An actor gets a CPU or loses it.
LEMMA SwitchOK ==
  ASSUME KInv, NEW x \in Actors, SwitchIn(x) \/ SwitchOut(x)
  PROVE  KInv'
<1>1. IsFiniteSet(onCpu)' /\ (Cardinality(onCpu) <= NumCpus)'
  <2>1. IsFiniteSet(onCpu) /\ Cardinality(onCpu) \in Nat /\ Cardinality(onCpu) <= NumCpus
    BY FS_CardinalityType DEF KInv, KTypeOK
  <2>2. CASE SwitchIn(x)
    BY <2>1, <2>2, FS_AddElement, CpuCountAssumption DEF SwitchIn
  <2>3. CASE SwitchOut(x)
    <3>1. x \in onCpu /\ onCpu' = onCpu \ {x}
      BY <2>3 DEF SwitchOut
    <3>2. IsFiniteSet(onCpu \ {x}) /\ Cardinality(onCpu \ {x}) = Cardinality(onCpu) - 1
      BY <2>1, <3>1, FS_RemoveElement
    <3> QED
      BY <2>1, <3>1, <3>2, CpuCountAssumption
  <2> QED
    BY <2>2, <2>3
<1>2. KTypeOK'
  BY <1>1 DEF SwitchIn, SwitchOut, KInv, KTypeOK, Actors, flagVars, callerVars
<1>3. CallInv'
  BY DEF SwitchIn, SwitchOut, Runnable, KInv, KTypeOK, CallInv, callerVars
<1>4. LifeInv'
  BY DEF SwitchIn, SwitchOut, Runnable, Masked, KInv, KTypeOK, LifeInv, flagVars
<1>5. JoinInv'
  BY DEF SwitchIn, SwitchOut, KInv, JoinInv, flagVars, callerVars
<1> QED
  BY <1>1, <1>2, <1>3, <1>4, <1>5 DEF KInv

\* A kthread's step in its loop or in kthread_park.
LEMMA ParkOK ==
  ASSUME KInv, NEW k \in Kthreads, BodyStop(k) \/ BodyPark(k) \/ ParkStep(k)
  PROVE  KInv'
<1>1. /\ k \in onCpu /\ kpc[k] \notin {"unborn", "terminate", "publish", "dead"}
      /\ \E to \in KthreadPcs \ {"unborn", "terminate", "publish", "dead"} :
           kpc' = [kpc EXCEPT ![k] = to]
      /\ onCpu' = onCpu /\ UNCHANGED callerVars
      /\ run' = run \/ run' = [run EXCEPT ![k] = "Blocked"]
      /\ \/ parked' = parked
         \/ \E b \in BOOLEAN : parked' = [parked EXCEPT ![k] = b]
      /\ UNCHANGED <<shouldStop, exited, exitCode, registered>>
  BY DEF BodyStop, BodyPark, ParkStep, ParkSet, ParkStop, ParkLoop, ParkRecheck, ParkBlock,
         ParkAgain, ParkHalt, KthreadAt, KthreadPcs, flagVars
<1>2. KTypeOK'
  BY <1>1 DEF KInv, KTypeOK, callerVars
<1>3. CallInv'
  BY <1>1 DEF KInv, KTypeOK, CallInv, callerVars
<1>4. LifeInv'
  BY <1>1 DEF KInv, KTypeOK, LifeInv
<1>5. JoinInv' /\ IsFiniteSet(onCpu)'
  BY <1>1 DEF KInv, JoinInv, callerVars
<1> QED
  BY <1>2, <1>3, <1>4, <1>5 DEF KInv

\* A step of kthread_exit.
LEMMA ExitOK ==
  ASSUME KInv, NEW k \in Kthreads, ExitStep(k)
  PROVE  KInv'
<1>1. CASE \E code \in ExitCodes : ExitStart(k, code)
  <2>1. KTypeOK'
    BY <1>1 DEF ExitStart, KthreadAt, KInv, KTypeOK, callerVars, KthreadPcs
  <2>2. CallInv'
    BY <1>1 DEF ExitStart, KthreadAt, KInv, CallInv, callerVars
  <2>3. LifeInv'
    BY <1>1 DEF ExitStart, KthreadAt, KInv, KTypeOK, LifeInv
  <2>4. \A a \in Callers : \A j \in joined[a] : j[1] # k
    BY <1>1 DEF ExitStart, KthreadAt, KInv, LifeInv, JoinInv
  <2>5. JoinInv' /\ IsFiniteSet(onCpu)'
    BY <1>1, <2>4 DEF ExitStart, KthreadAt, KInv, KTypeOK, JoinInv, callerVars
  <2> QED
    BY <2>1, <2>2, <2>3, <2>5 DEF KInv
<1>2. CASE ExitTerminate(k)
  <2>1. KTypeOK'
    BY <1>2 DEF ExitTerminate, KthreadAt, KInv, KTypeOK, callerVars, flagVars, KthreadPcs
  <2>2. CallInv'
    BY <1>2 DEF ExitTerminate, KthreadAt, KInv, KTypeOK, CallInv, callerVars
  <2>3. LifeInv'
    BY <1>2 DEF ExitTerminate, KthreadAt, KInv, KTypeOK, LifeInv, flagVars
  <2>4. JoinInv' /\ IsFiniteSet(onCpu)'
    BY <1>2 DEF ExitTerminate, KthreadAt, KInv, JoinInv, callerVars, flagVars
  <2> QED
    BY <2>1, <2>2, <2>3, <2>4 DEF KInv
<1>3. CASE ExitPublish(k)
  <2>1. KTypeOK'
    BY <1>3 DEF ExitPublish, KthreadAt, KInv, KTypeOK, callerVars, KthreadPcs
  <2>2. CallInv'
    BY <1>3 DEF ExitPublish, KthreadAt, KInv, KTypeOK, CallInv, callerVars
  <2>3. LifeInv'
    BY <1>3 DEF ExitPublish, KthreadAt, KInv, KTypeOK, LifeInv
  <2>4. JoinInv' /\ IsFiniteSet(onCpu)'
    BY <1>3 DEF ExitPublish, KthreadAt, KInv, KTypeOK, JoinInv, callerVars
  <2> QED
    BY <2>1, <2>2, <2>3, <2>4 DEF KInv
<1> QED
  BY <1>1, <1>2, <1>3 DEF ExitStep

\* A caller creates a kthread or turns to an operation on one.
LEMMA BeginOK ==
  ASSUME KInv, NEW a \in Callers, NEW k \in Kthreads,
         KthreadRun(a, k) \/ (\E op \in {"stop", "unpark", "join"} : Begin(a, k, op))
  PROVE  KInv'
<1>1. CASE KthreadRun(a, k)
  <2>1. KTypeOK'
    BY <1>1 DEF KthreadRun, SpawnKthread, KInv, KTypeOK, callerVars, KthreadPcs
  <2>2. CallInv'
    BY <1>1 DEF KthreadRun, SpawnKthread, KInv, KTypeOK, CallInv, callerVars
  <2>3. LifeInv'
    BY <1>1 DEF KthreadRun, SpawnKthread, KInv, KTypeOK, LifeInv
  <2>4. JoinInv' /\ IsFiniteSet(onCpu)'
    BY <1>1 DEF KthreadRun, SpawnKthread, KInv, JoinInv, callerVars
  <2> QED
    BY <2>1, <2>2, <2>3, <2>4 DEF KInv
<1>2. CASE \E op \in {"stop", "unpark", "join"} : Begin(a, k, op)
  <2>1. KTypeOK'
    BY <1>2 DEF Begin, CallerAt, KInv, KTypeOK, flagVars
  <2>2. CallInv'
    BY <1>2 DEF Begin, CallerAt, KInv, KTypeOK, CallInv, CallerPcs
  <2>3. LifeInv' /\ JoinInv' /\ IsFiniteSet(onCpu)'
    BY <1>2 DEF Begin, CallerAt, KInv, LifeInv, JoinInv, flagVars
  <2> QED
    BY <2>1, <2>2, <2>3 DEF KInv
<1> QED
  BY <1>1, <1>2

\* A step of kthread_stop, kthread_unpark or kthread_join.
LEMMA CallOK ==
  ASSUME KInv, NEW a \in Callers, CallStep(a)
  PROVE  KInv'
<1> DEFINE h == handle[a]
<1>1. /\ h \in Kthreads /\ cpc[a] # "idle" /\ ret[a] = "idle"
      /\ \E to \in CallerPcs : cpc' = [cpc EXCEPT ![a] = to]
      /\ UNCHANGED <<onCpu, kpc, registered, exited, exitCode, ret, handle>>
  BY DEF CallStep, StopCheck, StopSwap, UnparkStore, UnparkWake, Join, CallerAt, CallerPcs,
         KInv, CallInv, flagVars
<1>2. /\ run' = run \/ (run[h] = "Blocked" /\ run' = [run EXCEPT ![h] = "Ready"])
      /\ shouldStop' = shouldStop \/ shouldStop' = [shouldStop EXCEPT ![h] = TRUE]
      /\ parked' = parked \/ parked' = [parked EXCEPT ![h] = FALSE]
      /\ \/ joined' = joined
         \/ exited[h] /\ joined' = [joined EXCEPT ![a] = @ \union {<<h, exitCode[h]>>}]
  BY DEF CallStep, StopCheck, StopSwap, UnparkStore, UnparkWake, Join, flagVars
<1>3. exitCode[h] \in ExitCodes
  BY <1>1 DEF KInv, KTypeOK
<1> HIDE DEF h
<1>4. KTypeOK'
  <2>1. joined' \in [Callers -> SUBSET (Kthreads \X ExitCodes)]
    BY <1>1, <1>2, <1>3 DEF KInv, KTypeOK
  <2>2. run' \in [Kthreads -> {"Unborn", "Ready", "Running", "Blocked", "Terminated"}]
    BY <1>1, <1>2 DEF KInv, KTypeOK
  <2>3. parked' \in [Kthreads -> BOOLEAN] /\ shouldStop' \in [Kthreads -> BOOLEAN]
    BY <1>1, <1>2 DEF KInv, KTypeOK
  <2> QED
    BY <1>1, <2>1, <2>2, <2>3 DEF KInv, KTypeOK
<1>5. CallInv'
  BY <1>1, <1>2 DEF KInv, KTypeOK, CallInv
<1>6. LifeInv'
  BY <1>1, <1>2 DEF KInv, KTypeOK, LifeInv
<1>7. JoinInv' /\ IsFiniteSet(onCpu)'
  BY <1>1, <1>2 DEF KInv, KTypeOK, JoinInv
<1> QED
  BY <1>4, <1>5, <1>6, <1>7 DEF KInv

\* The invariant holds in every reachable state.
THEOREM KthreadInvariance == KSpec => []KInv
<1>1. KInv /\ UNCHANGED kvars => KInv'
  BY DEF kvars, flagVars, callerVars, KInv, KTypeOK, CallInv, LifeInv, JoinInv
<1>2. KInv /\ [KNext]_kvars => KInv'
  BY <1>1, SwitchOK, ParkOK, ExitOK, BeginOK, CallOK DEF KNext, KthreadStep
<1> QED
  BY <1>2, KInitOK, PTL DEF KSpec

\* Every variable keeps its type and no CPU is given to two actors.
THEOREM KthreadTypes == KSpec => []KTypeOK
<1>1. KInv => KTypeOK
  BY DEF KInv
<1> QED
  BY <1>1, KthreadInvariance, PTL

\* kthread_join returns only after the last lock-protected step of the exit, and
\* with the code kthread_exit was given.
THEOREM JoinIsSafe == KSpec => []JoinSeesTheEnd
<1>1. KInv => JoinSeesTheEnd
  <2> SUFFICES ASSUME KInv, NEW a \in Callers, NEW j \in joined[a]
               PROVE  /\ run[j[1]] = "Terminated" /\ j[1] \notin registered
                      /\ exitCode[j[1]] = j[2]
    BY DEF JoinSeesTheEnd
  <2>1. j \in Kthreads \X ExitCodes
    BY DEF KInv, KTypeOK
  <2> QED
    BY <2>1 DEF KInv, JoinInv, LifeInv
<1> QED
  BY <1>1, KthreadInvariance, PTL

\* No scheduling pass falls between the termination of a kthread and the
\* publication of its exit, on any number of CPUs.
THEOREM ExitIsPublished == KSpec => []TerminatedIsPublished
<1>1. KInv => TerminatedIsPublished
  BY DEF KInv, LifeInv, TerminatedIsPublished
<1> QED
  BY <1>1, KthreadInvariance, PTL

=============================================================================
