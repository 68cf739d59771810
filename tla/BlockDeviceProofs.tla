------------------------- MODULE BlockDeviceProofs -------------------------
(***************************************************************************)
(* Proofs about BlockDevice, for any number of callers and requests.        *)
(*                                                                          *)
(* BInv adds three parts to the types. Gate: at most one caller is past it, *)
(* and it is shut while there is one and for ever once it is wedged. Stages:*)
(* from the submission to the completion the chain, the used ring, the      *)
(* interrupt handler and `done` go through their stages in one order, and   *)
(* between requests all of them are at rest. Waits: what wakes a caller     *)
(* that is marked BlockedOnIO.                                              *)
(***************************************************************************)
EXTENDS BlockDevice, WaitListProofs

GatePc == {"wedged?", "locked?", "park", "retry", "refused"}
WaitingPc == {"waited?", "block", "blocked", "schedule", "woken", "late?"}
SubmittedPc == WaitingPc \union {"wait", "wedge"}
HoldingPc == SubmittedPc \union {"prepare", "submit", "finish", "unlock"}

\* past the gate: nobody, or one
Gate ==
  /\ \A t, u \in Clients : pc[t] \in HoldingPc /\ pc[u] \in HoldingPc => t = u
  /\ \A t \in Clients : pc[t] \in HoldingPc => locked /\ ~wedged
  /\ \A t \in Clients : pc[t] = "refused" => wedged
  /\ wedged => locked
  /\ locked => wedged \/ \E t \in Clients : pc[t] \in HoldingPc

\* the device and the interrupt handler have nothing to complete
IsrRests == isr \in {"idle", "used", "wake"}
AtRest == chain = NoThread /\ ~unseen /\ IsrRests

\* the request of t, whose caller has not seen its completion
Stage(t) ==
  /\ token[t] # 0 /\ chain \subseteq {t}
  /\ chain # NoThread => ~unseen /\ IsrRests /\ done = 0
  /\ unseen => IsrRests
  /\ unseen \/ ~IsrRests => served = {t} /\ done = 0
  /\ isr = "done" => completed
  /\ done # 0 => served = {t} /\ completed /\ AtRest

Stages ==
  /\ ~wedged /\ (\A t \in Clients : pc[t] \notin SubmittedPc) => AtRest
  /\ \A t \in Clients : pc[t] = "submit" => token[t] # 0 /\ done = 0
  /\ \A t \in Clients : pc[t] \in SubmittedPc => Stage(t)
  /\ CompletionIsMine

Waits ==
  /\ \A t \in Clients : pc[t] \in WaitingPc => waiter = {t}
  /\ \A t \in off : st[t] = "BlockedOnIO"
  /\ StrandedHasTimer
  /\ \A t \in Clients : pc[t] \in WaitingPc /\ st[t] = "BlockedOnIO" /\ IsDone(t) =>
       t \in isrBuffer \union dropped \/ (isr = "wake" /\ t \in waiter)

BInv == BTypeOK /\ IsInjective(queue) /\ Gate /\ Stages /\ Waits

-----------------------------------------------------------------------------
(***************************************************************************)
(* Types                                                                    *)
(***************************************************************************)
Places == {"user", "cas", "enqueue", "wedged?", "locked?", "park", "retry", "refused",
           "again?", "prepare", "submit", "wait", "waited?", "block", "blocked", "schedule",
           "woken", "late?", "finish", "unlock", "wedge", "wake one", "wake all"}
Tokens == 0..(TokenSpace - 1)
GateTypes == /\ locked \in BOOLEAN /\ wedged \in BOOLEAN
             /\ queue \in Seq(Clients) /\ made \in 0..MaxRequests
ThreadTypes == /\ st \in [Clients -> {"Runnable", "BlockedOnIO"}]
               /\ heap \in [Clients -> SUBSET {"present", "earlier"}]
               /\ timed \in SUBSET Clients /\ off \in SUBSET Clients /\ passed \in SUBSET Clients
RequestTypes == /\ token \in [Clients -> Tokens] /\ completed \in BOOLEAN
                /\ done \in Tokens /\ nextToken \in Tokens /\ pending \in Tokens
                /\ waiter \in SUBSET Clients
DeviceTypes == /\ unseen \in BOOLEAN /\ present \in BOOLEAN /\ isrToken \in Tokens
               /\ isr \in {"idle", "used", "publish", "done", "wake"}
               /\ chain \in SUBSET Clients /\ served \in SUBSET Clients
               /\ isrBuffer \in SUBSET Clients /\ dropped \in SUBSET Clients

Typed == pc \in [Clients -> Places] /\ GateTypes /\ ThreadTypes /\ RequestTypes /\ DeviceTypes

\* BTypeOK, in parts.
LEMMA TypeParts == BTypeOK <=> Typed
<1>1. {locked, wedged, completed, unseen, present} \subseteq BOOLEAN
      <=> /\ locked \in BOOLEAN /\ wedged \in BOOLEAN /\ completed \in BOOLEAN
          /\ unseen \in BOOLEAN /\ present \in BOOLEAN
  OBVIOUS
<1>2. {done, nextToken, pending, isrToken} \subseteq Tokens
      <=> done \in Tokens /\ nextToken \in Tokens /\ pending \in Tokens /\ isrToken \in Tokens
  OBVIOUS
<1>3. (\A s \in {timed, off, passed, waiter, chain, served, isrBuffer, dropped} :
         s \subseteq Clients)
      <=> /\ timed \in SUBSET Clients /\ off \in SUBSET Clients /\ passed \in SUBSET Clients
          /\ waiter \in SUBSET Clients /\ chain \in SUBSET Clients /\ served \in SUBSET Clients
          /\ isrBuffer \in SUBSET Clients /\ dropped \in SUBSET Clients
  OBVIOUS
<1>4. DEFINE S == {done, nextToken, pending, isrToken} \subseteq Tokens
             F == {locked, wedged, completed, unseen, present} \subseteq BOOLEAN
             Q == \A s \in {timed, off, passed, waiter, chain, served, isrBuffer, dropped} :
                    s \subseteq Clients
<1>5. BTypeOK <=> /\ F /\ S /\ Q
                  /\ queue \in Seq(Clients) /\ pc \in [Clients -> Places]
                  /\ made \in 0..MaxRequests /\ token \in [Clients -> Tokens]
                  /\ st \in [Clients -> {"Runnable", "BlockedOnIO"}]
                  /\ heap \in [Clients -> SUBSET {"present", "earlier"}]
                  /\ isr \in {"idle", "used", "publish", "done", "wake"}
  BY DEF BTypeOK, Tokens, Places
<1> HIDE DEF S, F, Q
<1> QED
  BY <1>1, <1>2, <1>3, <1>5
  DEF Typed, GateTypes, ThreadTypes, RequestTypes, DeviceTypes, S, F, Q

\* 0 stands for "no request" and is in the type of the tokens.
LEMMA ZeroToken == 0 \in Tokens
  BY BlockAssumption DEF Tokens

\* A token is never 0 and stays in its width.
LEMMA TokenType ==
  ASSUME Typed
  PROVE  NextCompletionToken \in 1..(TokenSpace - 1)
<1>1. TokenSpace \in Nat /\ TokenSpace > 2 /\ nextToken + 1 \in Nat
  BY BlockAssumption DEF Typed, GateTypes, ThreadTypes, RequestTypes, DeviceTypes, Tokens
<1>2. (nextToken + 1) % TokenSpace \in 0..(TokenSpace - 1)
  BY <1>1
<1> QED
  BY <1>1, <1>2 DEF NextCompletionToken

\* A wakeup leaves the scheduler's view of the clients well typed.
LEMMA WakeType ==
  ASSUME Typed, NEW ts, Wake(ts)
  PROVE  /\ st' \in [Clients -> {"Runnable", "BlockedOnIO"}]
         /\ timed' \subseteq Clients /\ off' \subseteq Clients
BY DEF Typed, GateTypes, ThreadTypes, RequestTypes, DeviceTypes, Wake

\* request_lock: the gate's steps keep the types, and the queue free of repeats.
LEMMA LockTypes ==
  ASSUME Typed, IsInjective(queue), NEW t \in Clients, Call(t) \/ LockSteps(t)
  PROVE  Typed' /\ IsInjective(queue')
<1> USE DEF Step, Places, gateVars, callVars, threadVars, timerVars, completionVars, requestVars,
            deviceVars, isrVars
<1>1. CASE Call(t)
  <2>1. made' \in 0..MaxRequests
    <3>1. made < MaxRequests /\ made' = made + 1
      BY <1>1 DEF Call
    <3>2. MaxRequests \in Nat /\ made \in 0..MaxRequests
      BY BlockAssumption DEF Typed, GateTypes
    <3> QED
      BY <3>1, <3>2
  <2> QED
    BY <1>1, <2>1 DEF Typed, GateTypes, ThreadTypes, RequestTypes, DeviceTypes, Call
<1>2. CASE Cas(t)
  BY <1>2 DEF Typed, GateTypes, ThreadTypes, RequestTypes, DeviceTypes, Cas
<1>3. CASE Enqueue(t)
  BY <1>3, EnlistedFacts DEF Typed, GateTypes, ThreadTypes, RequestTypes, DeviceTypes, Enqueue, Blocked
<1>4. CASE RecheckWedged(t) \/ RecheckLocked(t) \/ WedgedMeanwhile(t)
  <2>1. pc' \in [Clients -> Places]
    BY <1>4 DEF Typed, RecheckWedged, RecheckLocked, WedgedMeanwhile
  <2> QED
    BY <1>4, <2>1 DEF Typed, GateTypes, ThreadTypes, RequestTypes, DeviceTypes, RecheckWedged, RecheckLocked, WedgedMeanwhile
<1>5. CASE Park(t)
  BY <1>5 DEF Typed, GateTypes, ThreadTypes, RequestTypes, DeviceTypes, Park
<1>6. CASE FinishWait(t)
  BY <1>6, WithoutFacts DEF Typed, GateTypes, ThreadTypes, RequestTypes, DeviceTypes, FinishWait
<1> QED
  BY <1>1, <1>2, <1>3, <1>4, <1>5, <1>6 DEF LockSteps

\* wait_timeout: the completion's waits keep the types.
LEMMA WaitTypes ==
  ASSUME Typed, IsInjective(queue), NEW t \in Clients, WaitSteps(t)
  PROVE  Typed' /\ IsInjective(queue')
<1> USE DEF Step, Places, gateVars, callVars, threadVars, timerVars, completionVars, requestVars,
            deviceVars, isrVars
<1>1. CASE WaitFast(t)
  BY <1>1 DEF Typed, GateTypes, ThreadTypes, RequestTypes, DeviceTypes, WaitFast
<1>2. ASSUME NEW from, NEW to, Looks(t, from, to),
             to \in {"block", "finish", "schedule", "late?"}
      PROVE  Typed' /\ IsInjective(queue')
  BY <1>2 DEF Typed, GateTypes, ThreadTypes, RequestTypes, DeviceTypes, Looks, NoThread
<1>3. CASE WaitBlock(t)
  BY <1>3 DEF Typed, GateTypes, ThreadTypes, RequestTypes, DeviceTypes, WaitBlock, Blocked
<1>4. CASE WaitSchedule(t)
  BY <1>4 DEF Typed, GateTypes, ThreadTypes, RequestTypes, DeviceTypes, WaitSchedule
<1>5. CASE WaitDeadline(t) \/ WaitSpin(t)
  BY <1>5 DEF Typed, GateTypes, ThreadTypes, RequestTypes, DeviceTypes, WaitDeadline, WaitSpin, NoThread
<1> QED
  BY <1>1, <1>2, <1>3, <1>4, <1>5
  DEF WaitSteps, WaitRecheck, WaitAlreadyDone, WaitBlocked, WaitWoken

\* The steps of a request under the gate keep the types.
LEMMA RequestStepTypes ==
  ASSUME Typed, IsInjective(queue), NEW t \in Clients, RequestSteps(t)
  PROVE  Typed' /\ IsInjective(queue')
<1> USE DEF Step, Places, gateVars, callVars, threadVars, timerVars, completionVars, requestVars,
            deviceVars, isrVars
<1>1. CASE PrepareWait(t)
  <2>1. NextCompletionToken \in Tokens /\ 0 \in Tokens
    BY TokenType, ZeroToken DEF Tokens
  <2> QED
    BY <1>1, <2>1 DEF Typed, GateTypes, ThreadTypes, RequestTypes, DeviceTypes, PrepareWait, NoThread
<1>2. CASE Submit(t)
  <2>1. 0 \in Tokens
    BY ZeroToken
  <2> QED
    BY <1>2, <2>1 DEF Typed, GateTypes, ThreadTypes, RequestTypes, DeviceTypes, Submit, NoThread
<1>3. CASE Finish(t)
  <2>1. 0 \in Tokens
    BY ZeroToken
  <2> QED
    BY <1>3, <2>1 DEF Typed, GateTypes, ThreadTypes, RequestTypes, DeviceTypes, Finish
<1>4. CASE Unlock(t) \/ Wedge(t)
  BY <1>4 DEF Typed, GateTypes, ThreadTypes, RequestTypes, DeviceTypes, Unlock, Wedge
<1>5. CASE WakeOne(t)
  <2>1. queue' \in Seq(Clients) /\ IsInjective(queue')
    BY <1>5, TailFacts DEF Typed, GateTypes, ThreadTypes, RequestTypes, DeviceTypes, WakeOne
  <2> QED
    BY <1>5, <2>1, WakeType DEF Typed, GateTypes, ThreadTypes, RequestTypes, DeviceTypes, WakeOne
<1>6. CASE WakeAll(t)
  <2>1. queue' \in Seq(Clients) /\ IsInjective(queue')
    <3>1. << >> \in Seq(Clients) /\ IsInjective(<< >>)
      BY DEF IsInjective
    <3> QED
      BY <1>6, <3>1 DEF WakeAll
  <2> QED
    BY <1>6, <2>1, WakeType DEF Typed, GateTypes, ThreadTypes, RequestTypes, DeviceTypes, WakeAll
<1> QED
  BY <1>1, <1>2, <1>3, <1>4, <1>5, <1>6 DEF RequestSteps

\* Device, interrupt handler, timers and scheduler keep the types.
LEMMA OtherTypes ==
  ASSUME Typed, IsInjective(queue),
         \/ DeviceCompletes \/ DeviceVanishes \/ IsrEnter \/ IsrRest \/ DrainIsrBuffer
         \/ \E t \in Clients :
              \/ DeadlinePasses(t) \/ SwitchOut(t)
              \/ \E entry \in {"present", "earlier"} : Expire(t, entry)
  PROVE  Typed' /\ IsInjective(queue')
<1> USE DEF Step, Places, gateVars, callVars, threadVars, timerVars, completionVars, requestVars,
            deviceVars, isrVars
<1>1. CASE DeviceCompletes \/ DeviceVanishes
  BY <1>1 DEF Typed, GateTypes, ThreadTypes, RequestTypes, DeviceTypes, DeviceCompletes, DeviceVanishes, NoThread
<1>2. CASE IsrEnter \/ IsrRest
  <2>1. 0 \in Tokens
    BY ZeroToken
  <2>2. CASE IsrEnter \/ IsrUsed
    BY <2>2 DEF Typed, GateTypes, ThreadTypes, RequestTypes, DeviceTypes, IsrEnter, IsrUsed
  <2>3. CASE IsrPublish \/ IsrDone
    BY <2>3 DEF Typed, GateTypes, ThreadTypes, RequestTypes, DeviceTypes, IsrPublish, IsrDone
  <2>4. CASE IsrWake
    BY <2>1, <2>4 DEF Typed, GateTypes, ThreadTypes, RequestTypes, DeviceTypes, IsrWake
  <2> QED
    BY <1>2, <2>2, <2>3, <2>4 DEF IsrRest
<1>3. CASE DrainIsrBuffer
  BY <1>3, WakeType DEF Typed, GateTypes, ThreadTypes, RequestTypes, DeviceTypes, DrainIsrBuffer
<1>4. ASSUME NEW t \in Clients, DeadlinePasses(t) \/ SwitchOut(t)
      PROVE  Typed' /\ IsInjective(queue')
  BY <1>4 DEF Typed, GateTypes, ThreadTypes, RequestTypes, DeviceTypes, DeadlinePasses, SwitchOut
<1>5. ASSUME NEW t \in Clients, NEW entry \in {"present", "earlier"}, Expire(t, entry)
      PROVE  Typed' /\ IsInjective(queue')
  BY <1>5, WakeType DEF Typed, GateTypes, ThreadTypes, RequestTypes, DeviceTypes, Expire
<1> QED
  BY <1>1, <1>2, <1>3, <1>4, <1>5

-----------------------------------------------------------------------------
(***************************************************************************)
(* What a step does to each part of the invariant that it does not concern  *)
(***************************************************************************)
\* One caller moves.
LEMMA Moved ==
  ASSUME Typed, NEW t \in Clients, NEW from, NEW to, Step(t, from, to)
  PROVE  /\ pc[t] = from /\ t \notin off
         /\ \A u \in Clients : pc'[u] = IF u = t THEN to ELSE pc[u]
BY DEF Typed, Step

\* Gate survives a step that moves no client into or out of the gate.
LEMMA GateFrame ==
  ASSUME Gate, locked' = locked, wedged' = wedged,
         \A u \in Clients : pc'[u] \in HoldingPc <=> pc[u] \in HoldingPc,
         \A u \in Clients : pc'[u] = "refused" => pc[u] = "refused" \/ wedged
  PROVE  Gate'
BY DEF Gate

\* Stages survives a step that moves no client between the stages of a request.
LEMMA StagesFrame ==
  ASSUME Stages,
         <<wedged, chain, served, unseen, isr, done, completed, token>>'
           = <<wedged, chain, served, unseen, isr, done, completed, token>>,
         \A u \in Clients : pc'[u] \in SubmittedPc <=> pc[u] \in SubmittedPc,
         \A u \in Clients : pc'[u] = "submit" => pc[u] = "submit",
         \A u \in Clients : pc'[u] = "finish" => pc[u] = "finish"
  PROVE  Stages'
BY DEF Stages, Stage, AtRest, IsrRests, CompletionIsMine

\* A step that blocks nobody, and takes a timer or a wakeup only from a thread
\* that it makes runnable.
LEMMA WaitsFrame ==
  ASSUME Waits,
         \/ /\ <<done, token, waiter>>' = <<done, token, waiter>>
            /\ isr = "wake" => isr' = "wake"
            /\ \A u \in Clients : pc'[u] \in WaitingPc => pc[u] \in WaitingPc
         \/ \A u \in Clients : pc'[u] \notin WaitingPc,
         \A u \in Clients : st'[u] = "BlockedOnIO" =>
           /\ st[u] = "BlockedOnIO" /\ (u \in timed => u \in timed')
           /\ pc[u] \in GatePc => pc'[u] \in GatePc
           /\ u \in timed => /\ heap[u] # {} => heap'[u] # {}
                             /\ u \in isrBuffer \union dropped => u \in isrBuffer' \union dropped',
         \A u \in off' : st'[u] = "BlockedOnIO"
  PROVE  Waits'
<1> USE DEF Waits
<1>1. \A u \in Clients : pc'[u] \in WaitingPc => waiter' = {u}
  OBVIOUS
<1>2. StrandedHasTimer'
  BY DEF StrandedHasTimer, GatePc
<1>3. ASSUME NEW u \in Clients, pc'[u] \in WaitingPc, st'[u] = "BlockedOnIO", IsDone(u)'
      PROVE  u \in isrBuffer' \union dropped' \/ (isr' = "wake" /\ u \in waiter')
  <2>1. IsDone(u) /\ pc[u] \in WaitingPc /\ st[u] = "BlockedOnIO"
    BY <1>3 DEF IsDone
  <2>2. u \in timed
    BY <2>1 DEF StrandedHasTimer, WaitingPc
  <2> QED
    BY <1>3, <2>1, <2>2
<1> QED
  BY <1>1, <1>2, <1>3

\* wake_io_thread_locked blocks nobody.
LEMMA Woken ==
  ASSUME Typed, NEW ts, Wake(ts)
  PROVE  /\ \A u \in Clients : st'[u] = "BlockedOnIO" =>
              st[u] = "BlockedOnIO" /\ u \notin ts /\ (u \in timed => u \in timed')
         /\ (\A u \in off : st[u] = "BlockedOnIO") => \A u \in off' : st'[u] = "BlockedOnIO"
BY DEF Typed, ThreadTypes, Wake

-----------------------------------------------------------------------------
(***************************************************************************)
(* The callers                                                              *)
(***************************************************************************)
\* At the gate: nobody gets past it but Cas, and the one who waits there is
\* made runnable before it goes on.
LEMMA CallStep ==
  ASSUME Typed, Gate, Stages, Waits, NEW t \in Clients, Call(t) \/ WedgedMeanwhile(t)
  PROVE  Gate' /\ Stages' /\ Waits'
<1> USE DEF gateVars, callVars, threadVars, timerVars, completionVars, requestVars,
            deviceVars, isrVars
<1>1. PICK from \in {"user", "again?"}, to \in {"cas", "user"} : Step(t, from, to)
  BY DEF Call, WedgedMeanwhile
<1>2. /\ pc[t] = from
      /\ \A u \in Clients : pc'[u] = IF u = t THEN to ELSE pc[u]
  BY <1>1, Moved
<1>3. Gate'
  BY <1>2, GateFrame DEF Call, WedgedMeanwhile, HoldingPc, SubmittedPc, WaitingPc
<1>4. Stages'
  BY <1>2, StagesFrame DEF Call, WedgedMeanwhile, SubmittedPc, WaitingPc
<1>5. Waits'
  BY <1>2, WaitsFrame DEF Call, WedgedMeanwhile, WaitingPc, GatePc, Waits
<1> QED
  BY <1>3, <1>4, <1>5

\* The compare-exchange of the gate admits one client, with the device at rest.
LEMMA CasStep ==
  ASSUME Typed, Gate, Stages, Waits, NEW t \in Clients, Cas(t)
  PROVE  Gate' /\ Stages' /\ Waits'
<1> USE DEF gateVars, callVars, threadVars, timerVars, completionVars, requestVars,
            deviceVars, isrVars
<1>1. PICK to \in {"prepare", "enqueue", "user"} :
        Step(t, "cas", to) /\ (to = "prepare" <=> ~locked)
  BY DEF Cas
<1>2. /\ pc[t] = "cas"
      /\ \A u \in Clients : pc'[u] = IF u = t THEN to ELSE pc[u]
  BY <1>1, Moved
<1>3. Gate'
  <2>1. CASE locked
    <3>1. locked' = locked
      BY <2>1 DEF Cas, Typed, GateTypes
    <3> QED
      BY <1>1, <1>2, <2>1, <3>1, GateFrame DEF Cas, HoldingPc, SubmittedPc, WaitingPc
  <2>2. CASE ~locked
    <3>1. /\ to = "prepare" /\ locked' /\ wedged' = wedged /\ ~wedged
          /\ \A u \in Clients : pc[u] \notin HoldingPc /\ pc[u] # "refused"
      BY <1>1, <2>2 DEF Cas, Gate
    <3>2. pc'[t] \in HoldingPc /\ \A u \in Clients : pc'[u] \in HoldingPc => u = t
      BY <1>2, <3>1 DEF HoldingPc
    <3>3. \A u \in Clients : pc'[u] # "refused"
      BY <1>2, <3>1
    <3> QED
      BY <3>1, <3>2, <3>3 DEF Gate
  <2> QED
    BY <2>1, <2>2
<1>4. Stages'
  BY <1>2, StagesFrame DEF Cas, SubmittedPc, WaitingPc
<1>5. Waits'
  BY <1>2, WaitsFrame DEF Cas, WaitingPc, GatePc, Waits
<1> QED
  BY <1>3, <1>4, <1>5

\* prepare_to_wait blocks without a timer.
LEMMA EnqueueStep ==
  ASSUME Typed, Gate, Stages, Waits, NEW t \in Clients, Enqueue(t)
  PROVE  Gate' /\ Stages' /\ Waits'
<1> USE DEF gateVars, callVars, threadVars, timerVars, completionVars, requestVars,
            deviceVars, isrVars
<1>1. /\ pc[t] = "enqueue" /\ t \notin off
      /\ \A u \in Clients : pc'[u] = IF u = t THEN "wedged?" ELSE pc[u]
  BY Moved DEF Enqueue
<1>2. Gate'
  BY <1>1, GateFrame DEF Enqueue, HoldingPc, SubmittedPc, WaitingPc
<1>3. Stages'
  BY <1>1, StagesFrame DEF Enqueue, SubmittedPc, WaitingPc
<1>4. /\ \A u \in Clients : u # t => st'[u] = st[u] /\ (u \in timed' <=> u \in timed)
      /\ st'[t] = "BlockedOnIO" /\ off' = off
  BY DEF Typed, ThreadTypes, Enqueue, Blocked
<1>5. Waits'
  <2>1. \A u \in Clients : pc'[u] \in WaitingPc => waiter' = {u}
    BY <1>1 DEF Waits, Enqueue, WaitingPc
  <2>2. \A u \in off' : st'[u] = "BlockedOnIO"
    BY <1>4 DEF Waits, Typed, ThreadTypes
  <2>3. StrandedHasTimer'
    BY <1>1, <1>4 DEF Waits, StrandedHasTimer, Enqueue
  <2>4. \A u \in Clients : pc'[u] \in WaitingPc /\ st'[u] = "BlockedOnIO" /\ IsDone(u)' =>
          u \in isrBuffer' \union dropped' \/ (isr' = "wake" /\ u \in waiter')
    BY <1>1, <1>4 DEF Waits, Enqueue, IsDone, WaitingPc
  <2> QED
    BY <2>1, <2>2, <2>3, <2>4 DEF Waits
<1> QED
  BY <1>2, <1>3, <1>5

\* A client that enlisted looks at the gate again before it parks.
LEMMA RecheckStep ==
  ASSUME Typed, Gate, Stages, Waits, NEW t \in Clients,
         RecheckWedged(t) \/ RecheckLocked(t) \/ Park(t)
  PROVE  Gate' /\ Stages' /\ Waits'
<1> USE DEF gateVars, callVars, threadVars, timerVars, completionVars, requestVars,
            deviceVars, isrVars
<1>1. PICK from \in GatePc, to \in GatePc : Step(t, from, to) /\ (to = "refused" => wedged)
  BY DEF RecheckWedged, RecheckLocked, Park, GatePc
<1>2. /\ pc[t] = from /\ t \notin off
      /\ \A u \in Clients : pc'[u] = IF u = t THEN to ELSE pc[u]
  BY <1>1, Moved
<1>3. \A u \in Clients : u # t => pc'[u] = pc[u]
  BY <1>2
<1>4. pc[t] \in GatePc /\ pc'[t] \in GatePc /\ (pc'[t] = "refused" => wedged)
  BY <1>1, <1>2
<1>5. Gate'
  BY <1>3, <1>4, GateFrame
  DEF RecheckWedged, RecheckLocked, Park, GatePc, HoldingPc, SubmittedPc, WaitingPc
<1>6. Stages'
  BY <1>3, <1>4, StagesFrame
  DEF RecheckWedged, RecheckLocked, Park, GatePc, SubmittedPc, WaitingPc
<1>7. /\ <<done, token, waiter, isr, heap, isrBuffer, dropped, st, timed>>'
           = <<done, token, waiter, isr, heap, isrBuffer, dropped, st, timed>>
      /\ off' = off \/ (off' = off \union {t} /\ st[t] = "BlockedOnIO")
  BY DEF RecheckWedged, RecheckLocked, Park
<1>8. Waits'
  <2>1. \A u \in off' : st'[u] = "BlockedOnIO"
    BY <1>7 DEF Waits
  <2>2. \A u \in Clients : pc'[u] \in WaitingPc => pc[u] \in WaitingPc
    BY <1>3, <1>4 DEF WaitingPc, GatePc
  <2> QED
    BY <1>3, <1>4, <1>7, <2>1, <2>2, WaitsFrame
<1> QED
  BY <1>5, <1>6, <1>8

\* A client back from the gate's queue withdraws from it.
LEMMA FinishWaitStep ==
  ASSUME Typed, Gate, Stages, Waits, NEW t \in Clients, FinishWait(t)
  PROVE  Gate' /\ Stages' /\ Waits'
<1> USE DEF gateVars, callVars, threadVars, timerVars, completionVars, requestVars,
            deviceVars, isrVars
<1>1. PICK from \in {"retry", "refused"}, to \in {"again?", "user"} : Step(t, from, to)
  BY DEF FinishWait
<1>2. /\ pc[t] = from /\ t \notin off
      /\ \A u \in Clients : pc'[u] = IF u = t THEN to ELSE pc[u]
  BY <1>1, Moved
<1>3. Gate'
  BY <1>2, GateFrame DEF FinishWait, HoldingPc, SubmittedPc, WaitingPc
<1>4. Stages'
  BY <1>2, StagesFrame DEF FinishWait, SubmittedPc, WaitingPc
<1>5. /\ \A u \in Clients : u # t => st'[u] = st[u] /\ (u \in timed' <=> u \in timed)
      /\ st'[t] = "Runnable" /\ off' = off
      /\ <<done, token, waiter, isr, heap, isrBuffer, dropped>>'
           = <<done, token, waiter, isr, heap, isrBuffer, dropped>>
  BY DEF Typed, ThreadTypes, FinishWait
<1>6. Waits'
  <2>1. \A u \in off' : st'[u] = "BlockedOnIO"
    BY <1>2, <1>5 DEF Waits, Typed, ThreadTypes
  <2>2. \A u \in Clients : pc'[u] \in WaitingPc => pc[u] \in WaitingPc
    BY <1>2 DEF WaitingPc
  <2> QED
    BY <1>2, <1>5, <2>1, <2>2, WaitsFrame
<1> QED
  BY <1>3, <1>4, <1>6

\* Past the gate, before the submission and after the completion: the request
\* is prepared while device and interrupt handler rest.
LEMMA OnlyHolder ==
  ASSUME Gate, NEW t \in Clients, pc[t] \in HoldingPc
  PROVE  locked /\ ~wedged /\ \A u \in Clients : u # t => pc[u] \notin HoldingPc
BY DEF Gate

\* A holder that has not submitted finds the device at rest.
LEMMA RestBetween ==
  ASSUME Gate, Stages, NEW t \in Clients, pc[t] \in HoldingPc \ SubmittedPc
  PROVE  AtRest
<1>1. ~wedged /\ \A u \in Clients : u # t => pc[u] \notin HoldingPc
  BY OnlyHolder
<1>2. \A u \in Clients : pc[u] \notin SubmittedPc
  BY <1>1 DEF HoldingPc
<1> QED
  BY <1>1, <1>2 DEF Stages

\* The completion is reset with a fresh token before the request is submitted.
LEMMA PrepareWaitStep ==
  ASSUME Typed, Gate, Stages, Waits, NEW t \in Clients, PrepareWait(t)
  PROVE  Gate' /\ Stages' /\ Waits'
<1> USE DEF gateVars, callVars, threadVars, timerVars, completionVars, requestVars,
            deviceVars, isrVars
<1>1. /\ pc[t] = "prepare"
      /\ \A u \in Clients : pc'[u] = IF u = t THEN "submit" ELSE pc[u]
  BY Moved DEF PrepareWait
<1>2. \A u \in Clients : u # t => pc[u] \notin HoldingPc
  BY <1>1, OnlyHolder DEF HoldingPc
<1>3. Gate'
  BY <1>1, GateFrame DEF PrepareWait, HoldingPc, SubmittedPc, WaitingPc
<1>4. AtRest'
  <2>1. AtRest
    BY <1>1, RestBetween DEF HoldingPc, SubmittedPc, WaitingPc
  <2> QED
    BY <2>1 DEF PrepareWait, AtRest, IsrRests
<1>5. token'[t] # 0 /\ done' = 0
  <2>1. NextCompletionToken # 0
    BY TokenType
  <2> QED
    BY <2>1 DEF PrepareWait, Typed, RequestTypes
<1>6. \A u \in Clients : pc'[u] \notin SubmittedPc /\ pc'[u] # "finish"
                         /\ (pc'[u] = "submit" => u = t)
  BY <1>1, <1>2 DEF HoldingPc, SubmittedPc, WaitingPc
<1>7. Stages'
  BY <1>4, <1>5, <1>6 DEF Stages, CompletionIsMine
<1>8. Waits'
  BY <1>1, <1>6, WaitsFrame DEF PrepareWait, Waits, SubmittedPc, GatePc
<1> QED
  BY <1>3, <1>7, <1>8

\* The chain goes to the device under the holder's token.
LEMMA SubmitStep ==
  ASSUME Typed, Gate, Stages, Waits, NEW t \in Clients, Submit(t)
  PROVE  Gate' /\ Stages' /\ Waits'
<1> USE DEF gateVars, callVars, threadVars, timerVars, completionVars, requestVars,
            deviceVars, isrVars
<1>1. PICK to \in {"wait", "unlock"} : Step(t, "submit", to) /\ (to = "wait" <=> present)
  BY DEF Submit
<1>2. /\ pc[t] = "submit"
      /\ \A u \in Clients : pc'[u] = IF u = t THEN to ELSE pc[u]
  BY <1>1, Moved
<1>3. ~wedged /\ \A u \in Clients : u # t => pc[u] \notin HoldingPc
  BY <1>2, OnlyHolder DEF HoldingPc
<1>4. Gate'
  BY <1>2, GateFrame DEF Submit, HoldingPc, SubmittedPc, WaitingPc
<1>5. AtRest
  BY <1>2, RestBetween DEF HoldingPc, SubmittedPc, WaitingPc
<1>6. token[t] # 0 /\ done = 0
  BY <1>2 DEF Stages
<1>7. \A u \in Clients : pc'[u] \notin {"submit", "finish"}
                         /\ (pc'[u] \in SubmittedPc => u = t)
  BY <1>2, <1>3 DEF HoldingPc, SubmittedPc, WaitingPc
<1>8. Stages'
  <2>1. CASE present
    <3>1. Stage(t)'
      BY <1>5, <1>6, <2>1 DEF Submit, Stage, AtRest, IsrRests, NoThread
    <3>2. pc'[t] \in SubmittedPc
      BY <1>1, <1>2, <2>1 DEF SubmittedPc
    <3> QED
      BY <1>7, <3>1, <3>2 DEF Stages, CompletionIsMine
  <2>2. CASE ~present
    <3>1. AtRest'
      BY <1>5, <2>2 DEF Submit, AtRest, IsrRests
    <3>2. pc'[t] \notin SubmittedPc
      BY <1>1, <1>2, <2>2 DEF SubmittedPc, WaitingPc
    <3> QED
      BY <1>7, <3>1, <3>2 DEF Stages, CompletionIsMine
  <2> QED
    BY <2>1, <2>2
<1>9. Waits'
  BY <1>2, WaitsFrame DEF Submit, Waits, WaitingPc, GatePc
<1> QED
  BY <1>4, <1>8, <1>9

\* take_completed_request clears the request that was completed.
LEMMA FinishStep ==
  ASSUME Typed, Gate, Stages, Waits, NEW t \in Clients, Finish(t)
  PROVE  Gate' /\ Stages' /\ Waits'
<1> USE DEF gateVars, callVars, threadVars, timerVars, completionVars, requestVars,
            deviceVars, isrVars
<1>1. /\ pc[t] = "finish"
      /\ \A u \in Clients : pc'[u] = IF u = t THEN "unlock" ELSE pc[u]
  BY Moved DEF Finish
<1>2. \A u \in Clients : u # t => pc[u] \notin HoldingPc
  BY <1>1, OnlyHolder DEF HoldingPc
<1>3. Gate'
  BY <1>1, GateFrame DEF Finish, HoldingPc, SubmittedPc, WaitingPc
<1>4. AtRest'
  <2>1. AtRest
    BY <1>1, RestBetween DEF HoldingPc, SubmittedPc, WaitingPc
  <2> QED
    BY <2>1 DEF Finish, AtRest, IsrRests
<1>5. \A u \in Clients : pc'[u] \notin SubmittedPc \union {"finish", "submit"}
  BY <1>1, <1>2 DEF HoldingPc, SubmittedPc, WaitingPc
<1>6. Stages'
  BY <1>4, <1>5 DEF Stages, CompletionIsMine
<1>7. Waits'
  BY <1>1, WaitsFrame DEF Finish, Waits, WaitingPc, GatePc
<1> QED
  BY <1>3, <1>6, <1>7

\* The gate is opened before its waiters are woken.
LEMMA UnlockStep ==
  ASSUME Typed, Gate, Stages, Waits, NEW t \in Clients, Unlock(t)
  PROVE  Gate' /\ Stages' /\ Waits'
<1> USE DEF gateVars, callVars, threadVars, timerVars, completionVars, requestVars,
            deviceVars, isrVars
<1>1. /\ pc[t] = "unlock"
      /\ \A u \in Clients : pc'[u] = IF u = t THEN "wake one" ELSE pc[u]
  BY Moved DEF Unlock
<1>2. ~wedged /\ \A u \in Clients : u # t => pc[u] \notin HoldingPc
  BY <1>1, OnlyHolder DEF HoldingPc
<1>3. \A u \in Clients : pc'[u] \notin HoldingPc /\ pc'[u] # "refused"
  BY <1>1, <1>2 DEF HoldingPc, SubmittedPc, WaitingPc, Gate
<1>4. Gate'
  BY <1>2, <1>3 DEF Unlock, Gate
<1>5. Stages'
  BY <1>1, StagesFrame DEF Unlock, SubmittedPc, WaitingPc
<1>6. Waits'
  BY <1>1, WaitsFrame DEF Unlock, Waits, WaitingPc, GatePc
<1> QED
  BY <1>4, <1>5, <1>6

\* Giving up leaves the chain with the device, and the gate shut.
LEMMA WedgeStep ==
  ASSUME Typed, Gate, Stages, Waits, NEW t \in Clients, Wedge(t)
  PROVE  Gate' /\ Stages' /\ Waits'
<1> USE DEF gateVars, callVars, threadVars, timerVars, completionVars, requestVars,
            deviceVars, isrVars
<1>1. /\ pc[t] = "wedge"
      /\ \A u \in Clients : pc'[u] = IF u = t THEN "wake all" ELSE pc[u]
  BY Moved DEF Wedge
<1>2. locked /\ \A u \in Clients : u # t => pc[u] \notin HoldingPc
  BY <1>1, OnlyHolder DEF HoldingPc, SubmittedPc
<1>3. \A u \in Clients : pc'[u] \notin HoldingPc
  BY <1>1, <1>2 DEF HoldingPc, SubmittedPc, WaitingPc
<1>4. Gate'
  BY <1>2, <1>3 DEF Wedge, Gate
<1>5. Stages'
  BY <1>3 DEF Wedge, Stages, CompletionIsMine, HoldingPc
<1>6. Waits'
  BY <1>1, WaitsFrame DEF Wedge, Waits, WaitingPc, GatePc
<1> QED
  BY <1>4, <1>5, <1>6

\* The wakeups after the gate is opened, or wedged.
LEMMA WakeStep ==
  ASSUME Typed, Gate, Stages, Waits, NEW t \in Clients, WakeOne(t) \/ WakeAll(t)
  PROVE  Gate' /\ Stages' /\ Waits'
<1> USE DEF gateVars, callVars, threadVars, timerVars, completionVars, requestVars,
            deviceVars, isrVars
<1>0. PICK ts : \E from \in {"wake one", "wake all"} : Step(t, from, "user") /\ Wake(ts)
  BY DEF WakeOne, WakeAll
<1>1. PICK from \in {"wake one", "wake all"} : Step(t, from, "user") /\ Wake(ts)
  BY <1>0
<1>2. /\ pc[t] = from
      /\ \A u \in Clients : pc'[u] = IF u = t THEN "user" ELSE pc[u]
  BY <1>1, Moved
<1>3. Gate'
  BY <1>2, GateFrame DEF WakeOne, WakeAll, HoldingPc, SubmittedPc, WaitingPc
<1>4. Stages'
  BY <1>2, StagesFrame DEF WakeOne, WakeAll, SubmittedPc, WaitingPc
<1>5. /\ \A u \in Clients : st'[u] = "BlockedOnIO" =>
           st[u] = "BlockedOnIO" /\ (u \in timed => u \in timed')
      /\ \A u \in off' : st'[u] = "BlockedOnIO"
  BY <1>1, Woken DEF Waits
<1>6. <<done, token, waiter, isr, heap, isrBuffer, dropped>>'
        = <<done, token, waiter, isr, heap, isrBuffer, dropped>>
  BY DEF WakeOne, WakeAll
<1>7. Waits'
  BY <1>2, <1>5, <1>6, WaitsFrame DEF WaitingPc, GatePc
<1> QED
  BY <1>3, <1>4, <1>7

-----------------------------------------------------------------------------
(***************************************************************************)
(* Completion::wait_timeout_uninterruptible                                 *)
(***************************************************************************)
\* Seeing done is seeing one's own completion: done was reset when the gate
\* was held, and has been written since only after the device was through.
LEMMA SeesDone ==
  ASSUME Typed, Gate, Stages, NEW t \in Clients, pc[t] \in SubmittedPc, IsDone(t),
         \A u \in Clients : pc'[u] = IF u = t THEN "finish" ELSE pc[u],
         <<wedged, chain, served, unseen, isr, done, completed, token>>'
           = <<wedged, chain, served, unseen, isr, done, completed, token>>
  PROVE  Stages' /\ \A u \in Clients : pc'[u] \notin WaitingPc
<1>1. \A u \in Clients : u # t => pc[u] \notin HoldingPc
  BY OnlyHolder DEF HoldingPc
<1>2. \A u \in Clients : pc'[u] \notin SubmittedPc \union {"submit"} /\ (pc'[u] = "finish" => u = t)
  BY <1>1 DEF HoldingPc, SubmittedPc, WaitingPc
<1>3. served = {t} /\ completed /\ AtRest
  BY DEF Stages, Stage, IsDone
<1>4. AtRest'
  BY <1>3 DEF AtRest, IsrRests
<1> QED
  BY <1>2, <1>3, <1>4 DEF Stages, CompletionIsMine, SubmittedPc

\* wait_timeout's looks at done once the waiter is registered.
LEMMA LooksStep ==
  ASSUME Typed, Gate, Stages, Waits, NEW t \in Clients,
         WaitRecheck(t) \/ WaitAlreadyDone(t) \/ WaitBlocked(t) \/ WaitWoken(t)
  PROVE  Gate' /\ Stages' /\ Waits'
<1> USE DEF gateVars, callVars, threadVars, timerVars, completionVars, requestVars,
            deviceVars, isrVars
<1>1. PICK from \in WaitingPc, next \in WaitingPc \union {"finish"} :
        Step(t, from, next) /\ (next = "finish" <=> IsDone(t))
  <2>1. CASE WaitRecheck(t)
    BY <2>1 DEF WaitRecheck, Looks, WaitingPc
  <2>2. CASE WaitAlreadyDone(t)
    BY <2>2 DEF WaitAlreadyDone, Looks, WaitingPc
  <2>3. CASE WaitBlocked(t)
    BY <2>3 DEF WaitBlocked, Looks, WaitingPc
  <2>4. CASE WaitWoken(t)
    BY <2>4 DEF WaitWoken, Looks, WaitingPc
  <2> QED
    BY <2>1, <2>2, <2>3, <2>4
<1>2. /\ pc[t] = from
      /\ \A u \in Clients : pc'[u] = IF u = t THEN next ELSE pc[u]
  BY <1>1, Moved
<1>3. /\ <<wedged, locked, chain, served, unseen, isr, done, completed, token>>'
           = <<wedged, locked, chain, served, unseen, isr, done, completed, token>>
      /\ <<st, timed, off, heap, isrBuffer, dropped>>' = <<st, timed, off, heap, isrBuffer, dropped>>
      /\ ~IsDone(t) => waiter' = waiter
  BY DEF WaitRecheck, WaitAlreadyDone, WaitBlocked, WaitWoken, Looks
<1>4. Gate'
  BY <1>1, <1>2, <1>3, GateFrame DEF HoldingPc, SubmittedPc, WaitingPc
<1>5. CASE IsDone(t)
  <2>1. Stages' /\ \A u \in Clients : pc'[u] \notin WaitingPc
    BY <1>1, <1>2, <1>3, <1>5, SeesDone DEF SubmittedPc
  <2>2. Waits'
    BY <1>1, <1>2, <1>3, <2>1, WaitsFrame DEF Waits, GatePc, WaitingPc
  <2> QED
    BY <1>4, <2>1, <2>2
<1>6. CASE ~IsDone(t)
  <2>1. next \in WaitingPc
    BY <1>1, <1>6
  <2>2. Stages'
    BY <1>1, <1>2, <1>3, <2>1, StagesFrame DEF SubmittedPc, WaitingPc
  <2>3. Waits'
    BY <1>1, <1>2, <1>3, <1>6, <2>1, WaitsFrame DEF Waits, GatePc, WaitingPc
  <2> QED
    BY <1>4, <2>2, <2>3
<1> QED
  BY <1>5, <1>6

\* wait_timeout's first look: done, or the waiter is registered.
LEMMA WaitFastStep ==
  ASSUME Typed, Gate, Stages, Waits, NEW t \in Clients, WaitFast(t)
  PROVE  Gate' /\ Stages' /\ Waits'
<1> USE DEF gateVars, callVars, threadVars, timerVars, completionVars, requestVars,
            deviceVars, isrVars
<1> DEFINE next == IF IsDone(t) THEN "finish" ELSE "waited?"
<1>1. /\ pc[t] = "wait"
      /\ \A u \in Clients : pc'[u] = IF u = t THEN next ELSE pc[u]
  BY Moved DEF WaitFast
<1>2. /\ <<wedged, locked, chain, served, unseen, isr, done, completed, token>>'
           = <<wedged, locked, chain, served, unseen, isr, done, completed, token>>
      /\ <<st, timed, off, isrBuffer>>' = <<st, timed, off, isrBuffer>>
      /\ \A u \in Clients : heap[u] # {} => heap'[u] # {}
      /\ \A u \in Clients : u # t => (u \in dropped <=> u \in dropped')
      /\ ~IsDone(t) => waiter' = {t}
  BY DEF WaitFast, Typed, ThreadTypes
<1>3. \A u \in Clients : u # t => pc[u] \notin HoldingPc
  BY <1>1, OnlyHolder DEF HoldingPc, SubmittedPc
<1>4. Gate'
  BY <1>1, <1>2, GateFrame DEF HoldingPc, SubmittedPc, WaitingPc
<1>5. /\ \A u \in off' : st'[u] = "BlockedOnIO"
      /\ StrandedHasTimer'
  BY <1>1, <1>2 DEF Waits, StrandedHasTimer
<1>6. CASE IsDone(t)
  <2>1. Stages' /\ \A u \in Clients : pc'[u] \notin WaitingPc
    BY <1>1, <1>2, <1>6, SeesDone DEF SubmittedPc
  <2> QED
    BY <1>4, <1>5, <2>1 DEF Waits
<1>7. CASE ~IsDone(t)
  <2>1. Stages'
    BY <1>1, <1>2, <1>7, StagesFrame DEF SubmittedPc, WaitingPc
  <2>2. \A u \in Clients : pc'[u] \in WaitingPc => u = t
    BY <1>1, <1>3, <1>7 DEF HoldingPc, SubmittedPc
  <2>3. ~IsDone(t)' /\ waiter' = {t}
    BY <1>2, <1>7 DEF IsDone
  <2> QED
    BY <1>4, <1>5, <2>1, <2>2, <2>3 DEF Waits
<1> QED
  BY <1>6, <1>7

\* block_current_for_io_with_timeout: blocked with a timer, and not done.
LEMMA WaitBlockStep ==
  ASSUME Typed, Gate, Stages, Waits, NEW t \in Clients, WaitBlock(t)
  PROVE  Gate' /\ Stages' /\ Waits'
<1> USE DEF gateVars, callVars, threadVars, timerVars, completionVars, requestVars,
            deviceVars, isrVars
<1>1. /\ pc[t] = "block" /\ t \notin off
      /\ \A u \in Clients : pc'[u] = IF u = t THEN "blocked" ELSE pc[u]
  BY Moved DEF WaitBlock
<1>2. /\ <<wedged, locked, chain, served, unseen, isr, done, completed, token>>'
           = <<wedged, locked, chain, served, unseen, isr, done, completed, token>>
      /\ <<waiter, off, isrBuffer, dropped>>' = <<waiter, off, isrBuffer, dropped>>
      /\ \A u \in Clients : u # t => st'[u] = st[u] /\ (u \in timed' <=> u \in timed)
                                     /\ heap'[u] = heap[u]
      /\ t \in timed' /\ heap'[t] # {} /\ ~IsDone(t)
  BY DEF WaitBlock, Blocked, Typed, ThreadTypes
<1>3. Gate'
  BY <1>1, <1>2, GateFrame DEF HoldingPc, SubmittedPc, WaitingPc
<1>4. Stages'
  BY <1>1, <1>2, StagesFrame DEF SubmittedPc, WaitingPc
<1>5. Waits'
  <2>1. \A u \in Clients : pc'[u] \in WaitingPc => waiter' = {u}
    BY <1>1, <1>2 DEF Waits, WaitingPc
  <2>2. \A u \in off' : st'[u] = "BlockedOnIO"
    BY <1>1, <1>2 DEF Waits, Typed, ThreadTypes
  <2>3. StrandedHasTimer'
    BY <1>1, <1>2 DEF Waits, StrandedHasTimer
  <2>4. \A u \in Clients : pc'[u] \in WaitingPc /\ st'[u] = "BlockedOnIO" /\ IsDone(u)' =>
          u \in isrBuffer' \union dropped' \/ (isr' = "wake" /\ u \in waiter')
    BY <1>1, <1>2 DEF Waits, IsDone, WaitingPc
  <2> QED
    BY <2>1, <2>2, <2>3, <2>4 DEF Waits
<1> QED
  BY <1>3, <1>4, <1>5

\* wait_timeout gives the CPU away, or finds itself woken already.
LEMMA WaitScheduleStep ==
  ASSUME Typed, Gate, Stages, Waits, NEW t \in Clients, WaitSchedule(t)
  PROVE  Gate' /\ Stages' /\ Waits'
<1> USE DEF gateVars, callVars, threadVars, timerVars, completionVars, requestVars,
            deviceVars, isrVars
<1>1. Step(t, "schedule", "woken")
  BY DEF WaitSchedule
<1>2. /\ pc[t] = "schedule" /\ t \notin off
      /\ \A u \in Clients : pc'[u] = IF u = t THEN "woken" ELSE pc[u]
  BY <1>1, Moved
<1>3. /\ <<wedged, locked, chain, served, unseen, isr, done, completed, token>>'
           = <<wedged, locked, chain, served, unseen, isr, done, completed, token>>
      /\ <<waiter, isrBuffer, dropped, st, timed, heap>>'
           = <<waiter, isrBuffer, dropped, st, timed, heap>>
      /\ off' = off \/ (off' = off \union {t} /\ st[t] = "BlockedOnIO")
  BY DEF WaitSchedule
<1>4. Gate'
  BY <1>2, <1>3, GateFrame DEF HoldingPc, SubmittedPc, WaitingPc
<1>5. Stages'
  BY <1>2, <1>3, StagesFrame DEF SubmittedPc, WaitingPc
<1>6. Waits'
  <2>1. \A u \in off' : st'[u] = "BlockedOnIO"
    BY <1>3 DEF Waits
  <2> QED
    BY <1>2, <1>3, <2>1, WaitsFrame DEF WaitingPc, GatePc
<1> QED
  BY <1>4, <1>5, <1>6

\* The deadline, and the spinning caller that sees it or its completion.
LEMMA WaitGivesUpStep ==
  ASSUME Typed, Gate, Stages, Waits, NEW t \in Clients, WaitDeadline(t) \/ WaitSpin(t)
  PROVE  Gate' /\ Stages' /\ Waits'
<1> USE DEF gateVars, callVars, threadVars, timerVars, completionVars, requestVars,
            deviceVars, isrVars
<1>1. PICK from \in {"late?", "waited?"}, to \in {"wedge", "block", "finish"} :
        /\ Step(t, from, to)
        /\ to = "finish" => IsDone(t)
        /\ to = "block" => waiter' = waiter
  BY DEF WaitDeadline, WaitSpin
<1>2. /\ pc[t] = from
      /\ \A u \in Clients : pc'[u] = IF u = t THEN to ELSE pc[u]
  BY <1>1, Moved
<1>3. /\ <<wedged, locked, chain, served, unseen, isr, done, completed, token>>'
           = <<wedged, locked, chain, served, unseen, isr, done, completed, token>>
      /\ <<st, timed, off, heap, isrBuffer, dropped>>' = <<st, timed, off, heap, isrBuffer, dropped>>
  BY DEF WaitDeadline, WaitSpin
<1>4. \A u \in Clients : u # t => pc[u] \notin HoldingPc
  BY <1>2, OnlyHolder DEF HoldingPc, SubmittedPc, WaitingPc
<1>5. Gate'
  BY <1>2, <1>3, GateFrame DEF HoldingPc, SubmittedPc, WaitingPc
<1>6. CASE to = "finish"
  <2>1. Stages' /\ \A u \in Clients : pc'[u] \notin WaitingPc
    BY <1>1, <1>2, <1>3, <1>6, SeesDone DEF SubmittedPc, WaitingPc
  <2>2. Waits'
    BY <1>2, <1>3, <2>1, WaitsFrame DEF Waits, GatePc
  <2> QED
    BY <1>5, <2>1, <2>2
<1>7. CASE to # "finish"
  <2>1. Stages'
    BY <1>2, <1>3, <1>7, StagesFrame DEF SubmittedPc, WaitingPc
  <2>2. CASE to = "block"
    BY <1>1, <1>2, <1>3, <1>5, <2>1, <2>2, WaitsFrame DEF Waits, WaitingPc, GatePc
  <2>3. CASE to = "wedge"
    <3>1. \A u \in Clients : pc'[u] \notin WaitingPc
      BY <1>2, <1>4, <2>3 DEF HoldingPc, SubmittedPc, WaitingPc
    <3> QED
      BY <1>2, <1>3, <1>5, <2>1, <3>1, WaitsFrame DEF Waits, GatePc
  <2> QED
    BY <1>7, <2>2, <2>3
<1> QED
  BY <1>6, <1>7

-----------------------------------------------------------------------------
(***************************************************************************)
(* The device, the interrupt handler and the scheduler                      *)
(***************************************************************************)
\* Where a request is in its stages: its caller has not seen it completed, or
\* the gate is wedged and nobody will.
LEMMA InProgress ==
  ASSUME Stages, ~AtRest
  PROVE  wedged \/ \E t \in Clients : pc[t] \in SubmittedPc
BY DEF Stages

\* A stage moves on; the caller is where it was.
LEMMA StageMoves ==
  ASSUME Gate, Stages, ~AtRest, <<pc, wedged, token>>' = <<pc, wedged, token>>,
         \A t \in Clients : Stage(t) => Stage(t)'
  PROVE  Stages'
<1>1. CASE wedged
  <2>1. \A t \in Clients : pc[t] \notin HoldingPc
    BY <1>1 DEF Gate
  <2> QED
    BY <1>1, <2>1 DEF Stages, CompletionIsMine, HoldingPc
<1>2. CASE ~wedged
  <2>1. PICK t \in Clients : pc[t] \in SubmittedPc
    BY <1>2, InProgress
  <2>2. \A u \in Clients : u # t => pc[u] \notin HoldingPc
    BY <2>1, OnlyHolder DEF HoldingPc
  <2>3. Stage(t)'
    BY <2>1 DEF Stages
  <2>4. \A u \in Clients : pc[u] \notin {"submit", "finish"} /\ (pc[u] \in SubmittedPc => u = t)
    BY <2>1, <2>2 DEF HoldingPc, SubmittedPc, WaitingPc
  <2> QED
    BY <2>1, <2>3, <2>4 DEF Stages, CompletionIsMine
<1> QED
  BY <1>1, <1>2

\* The device answers the one chain it has, or vanishes with it.
LEMMA DeviceStep ==
  ASSUME Typed, Gate, Stages, Waits, DeviceCompletes \/ DeviceVanishes
  PROVE  Gate' /\ Stages' /\ Waits'
<1> USE DEF gateVars, callVars, threadVars, timerVars, completionVars, requestVars,
            deviceVars, isrVars
<1>1. /\ <<pc, locked, wedged, token, done, waiter, isr, completed>>'
           = <<pc, locked, wedged, token, done, waiter, isr, completed>>
      /\ <<st, timed, off, heap, isrBuffer, dropped>>' = <<st, timed, off, heap, isrBuffer, dropped>>
  BY DEF DeviceCompletes, DeviceVanishes
<1>2. Gate'
  BY <1>1, GateFrame
<1>3. Stages'
  <2>1. CASE DeviceCompletes
    <3>1. ~AtRest
      BY <2>1 DEF DeviceCompletes, AtRest
    <3>2. \A t \in Clients : Stage(t) => Stage(t)'
      BY <1>1, <2>1 DEF DeviceCompletes, Stage, AtRest, IsrRests, NoThread
    <3> QED
      BY <1>1, <3>1, <3>2, StageMoves
  <2>2. CASE DeviceVanishes /\ chain = NoThread
    BY <1>1, <2>2, StagesFrame DEF DeviceVanishes
  <2>3. CASE DeviceVanishes /\ chain # NoThread
    <3>1. ~AtRest
      BY <2>3 DEF AtRest
    <3>2. \A t \in Clients : Stage(t) => Stage(t)'
      BY <1>1, <2>3 DEF DeviceVanishes, Stage, AtRest, IsrRests, NoThread
    <3> QED
      BY <1>1, <3>1, <3>2, StageMoves
  <2> QED
    BY <2>1, <2>2, <2>3
<1>4. Waits'
  BY <1>1, WaitsFrame DEF Waits
<1> QED
  BY <1>2, <1>3, <1>4

\* The handler before it has found anything: a request that is pending, and
\* the used ring.
LEMMA IsrLooksStep ==
  ASSUME Typed, Gate, Stages, Waits, IsrEnter \/ IsrUsed
  PROVE  Gate' /\ Stages' /\ Waits'
<1> USE DEF gateVars, callVars, threadVars, timerVars, completionVars, requestVars,
            deviceVars, isrVars
<1>1. /\ <<pc, locked, wedged, token, done, waiter, completed, chain, served>>'
           = <<pc, locked, wedged, token, done, waiter, completed, chain, served>>
      /\ <<st, timed, off, heap, isrBuffer, dropped>>' = <<st, timed, off, heap, isrBuffer, dropped>>
      /\ isr # "wake"
  BY DEF IsrEnter, IsrUsed
<1>2. Gate'
  BY <1>1, GateFrame
<1>3. Stages'
  <2>1. CASE unseen /\ IsrUsed
    <3>1. ~AtRest
      BY <2>1 DEF AtRest
    <3>2. \A t \in Clients : Stage(t) => Stage(t)'
      BY <1>1, <2>1 DEF IsrUsed, Stage, AtRest, IsrRests, NoThread
    <3> QED
      BY <1>1, <3>1, <3>2, StageMoves
  <2>2. CASE IsrEnter \/ ~unseen
    <3>1. IsrRests /\ IsrRests' /\ isr # "done" /\ isr' # "done"
      BY <2>2 DEF IsrEnter, IsrUsed, IsrRests
    <3>2. unseen' = unseen
      BY <2>2 DEF IsrEnter, IsrUsed, Typed, DeviceTypes
    <3>3. (AtRest => AtRest') /\ \A t \in Clients : Stage(t) => Stage(t)'
      BY <1>1, <3>1, <3>2 DEF Stage, AtRest
    <3> QED
      BY <1>1, <3>3 DEF Stages, CompletionIsMine
  <2> QED
    BY <2>1, <2>2
<1>4. Waits'
  BY <1>1, WaitsFrame DEF Waits
<1> QED
  BY <1>2, <1>3, <1>4

\* The interrupt handler marks the pending request completed.
LEMMA IsrPublishStep ==
  ASSUME Typed, Gate, Stages, Waits, IsrPublish
  PROVE  Gate' /\ Stages' /\ Waits'
<1> USE DEF gateVars, callVars, threadVars, timerVars, completionVars, requestVars,
            deviceVars, isrVars
<1>1. /\ <<pc, locked, wedged, token, done, waiter, chain, served, unseen>>'
           = <<pc, locked, wedged, token, done, waiter, chain, served, unseen>>
      /\ <<st, timed, off, heap, isrBuffer, dropped>>' = <<st, timed, off, heap, isrBuffer, dropped>>
      /\ isr = "publish" /\ isr' = "done" /\ completed'
  BY DEF IsrPublish
<1>2. ~AtRest /\ \A t \in Clients : Stage(t) => Stage(t)'
  BY <1>1 DEF Stage, AtRest, IsrRests
<1>3. Gate' /\ Stages'
  BY <1>1, <1>2, GateFrame, StageMoves
<1>4. Waits'
  BY <1>1, WaitsFrame DEF Waits
<1> QED
  BY <1>3, <1>4

\* Completion::complete: the caller's wakeup comes next.
LEMMA IsrDoneStep ==
  ASSUME Typed, Gate, Stages, Waits, IsrDone
  PROVE  Gate' /\ Stages' /\ Waits'
<1> USE DEF gateVars, callVars, threadVars, timerVars, completionVars, requestVars,
            deviceVars, isrVars
<1>1. /\ <<pc, locked, wedged, token, waiter, chain, served, unseen, completed>>'
           = <<pc, locked, wedged, token, waiter, chain, served, unseen, completed>>
      /\ <<st, timed, off, heap, isrBuffer, dropped>>' = <<st, timed, off, heap, isrBuffer, dropped>>
      /\ isr = "done" /\ isr' = "wake"
  BY DEF IsrDone
<1>2. ~AtRest /\ \A t \in Clients : Stage(t) => Stage(t)'
  <2>1. ~AtRest
    BY <1>1 DEF AtRest, IsrRests
  <2>2. ASSUME NEW t \in Clients, Stage(t) PROVE Stage(t)'
    <3>1. chain = NoThread /\ ~unseen /\ served = {t} /\ completed
      BY <1>1, <2>2 DEF Stage, IsrRests
    <3> QED
      BY <1>1, <2>2, <3>1 DEF Stage, AtRest, IsrRests
  <2> QED
    BY <2>1, <2>2
<1>3. Gate' /\ Stages'
  BY <1>1, <1>2, GateFrame, StageMoves
<1>4. Waits'
  <2>1. StrandedHasTimer'
    BY <1>1 DEF Waits, StrandedHasTimer
  <2> QED
    BY <1>1, <2>1 DEF Waits
<1> QED
  BY <1>3, <1>4

\* The interrupt handler wakes the waiter it found.
LEMMA IsrWakeStep ==
  ASSUME Typed, Gate, Stages, Waits, IsrWake
  PROVE  Gate' /\ Stages' /\ Waits'
<1> USE DEF gateVars, callVars, threadVars, timerVars, completionVars, requestVars,
            deviceVars, isrVars
<1>1. /\ <<pc, locked, wedged, token, done, waiter, chain, served, unseen, completed>>'
           = <<pc, locked, wedged, token, done, waiter, chain, served, unseen, completed>>
      /\ <<st, timed, off, heap>>' = <<st, timed, off, heap>>
      /\ isr = "wake" /\ isr' = "idle"
      /\ waiter \union isrBuffer \union dropped \subseteq isrBuffer' \union dropped'
  BY DEF IsrWake
<1>2. Gate'
  BY <1>1, GateFrame
<1>3. Stages'
  <2>1. (AtRest => AtRest') /\ \A t \in Clients : Stage(t) => Stage(t)'
    BY <1>1 DEF Stage, AtRest, IsrRests
  <2> QED
    BY <1>1, <2>1 DEF Stages, CompletionIsMine
<1>4. Waits'
  <2>1. StrandedHasTimer'
    BY <1>1 DEF Waits, StrandedHasTimer
  <2> QED
    BY <1>1, <2>1 DEF Waits, IsDone
<1> QED
  BY <1>2, <1>3, <1>4

\* The scheduler takes a wakeup or a timer of a blocked thread only to wake it.
LEMMA SchedulerStep ==
  ASSUME Typed, Gate, Stages, Waits,
         \/ DrainIsrBuffer
         \/ \E t \in Clients :
              \/ DeadlinePasses(t) \/ SwitchOut(t)
              \/ \E entry \in {"present", "earlier"} : Expire(t, entry)
  PROVE  Gate' /\ Stages' /\ Waits'
<1> USE DEF gateVars, callVars, threadVars, timerVars, completionVars, requestVars,
            deviceVars, isrVars
<1>1. <<pc, locked, wedged, token, done, waiter, chain, served, unseen, completed, isr>>'
        = <<pc, locked, wedged, token, done, waiter, chain, served, unseen, completed, isr>>
  BY DEF DrainIsrBuffer, DeadlinePasses, SwitchOut, Expire
<1>2. Gate' /\ Stages'
  BY <1>1, GateFrame, StagesFrame
<1>3. CASE DrainIsrBuffer
  <2>1. /\ \A u \in Clients : st'[u] = "BlockedOnIO" =>
             st[u] = "BlockedOnIO" /\ u \notin isrBuffer /\ (u \in timed => u \in timed')
        /\ \A u \in off' : st'[u] = "BlockedOnIO"
    BY <1>3, Woken DEF DrainIsrBuffer, Waits
  <2>2. Waits'
    BY <1>1, <1>3, <2>1, WaitsFrame DEF DrainIsrBuffer
  <2> QED
    BY <1>2, <2>2
<1>4. ASSUME NEW t \in Clients, DeadlinePasses(t) PROVE Waits'
  BY <1>1, <1>4, WaitsFrame DEF DeadlinePasses, Waits
<1>5. ASSUME NEW t \in Clients, SwitchOut(t) PROVE Waits'
  <2>1. \A u \in off' : st'[u] = "BlockedOnIO"
    BY <1>5 DEF SwitchOut, Waits
  <2> QED
    BY <1>1, <1>5, <2>1, WaitsFrame DEF SwitchOut
<1>6. ASSUME NEW t \in Clients, NEW entry \in {"present", "earlier"}, Expire(t, entry)
      PROVE  Waits'
  <2>1. /\ \A u \in Clients : st'[u] = "BlockedOnIO" =>
             /\ st[u] = "BlockedOnIO" /\ u \notin {t} \intersect timed
             /\ u \in timed => u \in timed'
        /\ \A u \in off' : st'[u] = "BlockedOnIO"
    BY <1>6, Woken DEF Expire, Waits
  <2>2. /\ \A u \in Clients : u # t => heap'[u] = heap[u]
        /\ dropped' = dropped \ {t} /\ isrBuffer' = isrBuffer
    BY <1>6 DEF Expire, Typed, ThreadTypes
  <2> QED
    BY <1>1, <2>1, <2>2, WaitsFrame
<1> QED
  BY <1>2, <1>3, <1>4, <1>5, <1>6

-----------------------------------------------------------------------------
(***************************************************************************)
(* The invariant                                                            *)
(***************************************************************************)
LEMMA BInitInv == BInit => BInv
<1> SUFFICES ASSUME BInit PROVE BInv
  OBVIOUS
<1>1. 0 \in Tokens /\ 1 \in Tokens /\ 0 \in 0..MaxRequests
  BY BlockAssumption DEF Tokens
<1>2. Typed
  <2>1. pc \in [Clients -> Places] /\ GateTypes
    <3>1. "user" \in Places /\ << >> \in Seq(Clients)
      BY DEF Places
    <3> QED
      BY <1>1, <3>1 DEF BInit, GateTypes
  <2>2. ThreadTypes
    BY DEF BInit, ThreadTypes
  <2>3. RequestTypes
    BY <1>1 DEF BInit, RequestTypes, NoThread
  <2>4. DeviceTypes
    BY <1>1 DEF BInit, DeviceTypes, NoThread
  <2> QED
    BY <2>1, <2>2, <2>3, <2>4 DEF Typed
<1>3. BTypeOK
  BY <1>2, TypeParts
<1>4. IsInjective(queue)
  BY DEF BInit, IsInjective
<1>5. Gate
  BY DEF BInit, Gate, HoldingPc, SubmittedPc, WaitingPc
<1>6. Stages
  BY DEF BInit, Stages, AtRest, IsrRests, CompletionIsMine, SubmittedPc, WaitingPc
<1>7. Waits
  BY DEF BInit, Waits, StrandedHasTimer, WaitingPc
<1> QED
  BY <1>3, <1>4, <1>5, <1>6, <1>7 DEF BInv

\* Every step keeps the invariant.
LEMMA BNextInv == BInv /\ [BNext]_bvars => BInv'
<1> SUFFICES ASSUME BInv, [BNext]_bvars PROVE BInv'
  OBVIOUS
<1> DEFINE Kept == BTypeOK' /\ IsInjective(queue') /\ Gate' /\ Stages' /\ Waits'
<1>1. Typed /\ IsInjective(queue) /\ Gate /\ Stages /\ Waits
  BY TypeParts DEF BInv
<1>2. Typed' => BTypeOK'
  BY TypeParts, PTL
<1>3. CASE UNCHANGED bvars
  <2> USE <1>3 DEF bvars, gateVars, callVars, threadVars, timerVars, completionVars,
                   requestVars, deviceVars, isrVars
  <2>1. Typed' /\ IsInjective(queue')
    BY <1>1 DEF Typed, GateTypes, ThreadTypes, RequestTypes, DeviceTypes
  <2>2. Gate' /\ Stages'
    BY <1>1, GateFrame, StagesFrame
  <2>3. Waits'
    BY <1>1, WaitsFrame DEF Waits
  <2> QED
    BY <1>2, <2>1, <2>2, <2>3 DEF BInv
<1>4. ASSUME NEW t \in Clients, Call(t) \/ LockSteps(t) PROVE Kept
  <2>1. Typed' /\ IsInjective(queue')
    BY <1>1, <1>4, LockTypes
  <2>2. Gate' /\ Stages' /\ Waits'
    BY <1>1, <1>4, CallStep, CasStep, EnqueueStep, RecheckStep, FinishWaitStep DEF LockSteps
  <2> QED
    BY <1>2, <2>1, <2>2
<1>5. ASSUME NEW t \in Clients, WaitSteps(t) PROVE Kept
  <2>1. Typed' /\ IsInjective(queue')
    BY <1>1, <1>5, WaitTypes
  <2>2. Gate' /\ Stages' /\ Waits'
    BY <1>1, <1>5, LooksStep, WaitFastStep, WaitBlockStep, WaitScheduleStep, WaitGivesUpStep
    DEF WaitSteps
  <2> QED
    BY <1>2, <2>1, <2>2
<1>6. ASSUME NEW t \in Clients, RequestSteps(t) PROVE Kept
  <2>1. Typed' /\ IsInjective(queue')
    BY <1>1, <1>6, RequestStepTypes
  <2>2. Gate' /\ Stages' /\ Waits'
    BY <1>1, <1>6, PrepareWaitStep, SubmitStep, FinishStep, UnlockStep, WakeStep, WedgeStep
    DEF RequestSteps
  <2> QED
    BY <1>2, <2>1, <2>2
<1>7. ASSUME \/ DeviceCompletes \/ DeviceVanishes \/ IsrEnter \/ IsrRest \/ DrainIsrBuffer
             \/ \E t \in Clients :
                  \/ DeadlinePasses(t) \/ SwitchOut(t)
                  \/ \E entry \in {"present", "earlier"} : Expire(t, entry)
      PROVE  Kept
  <2>1. Typed' /\ IsInjective(queue')
    BY <1>1, <1>7, OtherTypes
  <2>2. Gate' /\ Stages' /\ Waits'
    BY <1>1, <1>7, DeviceStep, IsrLooksStep, IsrPublishStep, IsrDoneStep, IsrWakeStep,
       SchedulerStep
    DEF IsrRest
  <2> QED
    BY <1>2, <2>1, <2>2
<1> QED
  BY <1>3, <1>4, <1>5, <1>6, <1>7 DEF BNext, ClientStep, BInv

\* BInv is an invariant of the driver.
THEOREM BInvariant == BSpec => []BInv
  BY BInitInv, BNextInv, PTL DEF BSpec

\* Every variable of the gate, the completion, the queue and the interrupt
\* handler keeps its type; tokens stay in their width.
THEOREM BlockTypes == BSpec => []BTypeOK
<1>1. BInv => BTypeOK
  BY DEF BInv
<1> QED
  BY <1>1, BInvariant, PTL

\* Nobody writes descriptors or buffers that the device still owns, because the
\* caller that gave up has left the gate shut.
THEOREM BuffersAreNotReused == BSpec => []BuffersNotReused
<1>1. BInv => BuffersNotReused
  <2> SUFFICES ASSUME BInv, NEW t \in Clients, pc[t] \in {"prepare", "submit"}
               PROVE  chain = NoThread
    BY DEF BuffersNotReused
  <2>1. pc[t] \in HoldingPc \ SubmittedPc
    BY DEF HoldingPc, SubmittedPc, WaitingPc
  <2> QED
    BY <2>1, RestBetween DEF BInv, AtRest
<1> QED
  BY <1>1, BInvariant, PTL

\* A caller that is told its request is done has been served, and
\* take_completed_request finds the completion.
THEOREM CompletionsAreMine == BSpec => []CompletionIsMine
<1>1. BInv => CompletionIsMine
  BY DEF BInv, Stages
<1> QED
  BY <1>1, BInvariant, PTL

\* No sleeper misses its completion: complete and the check before the block
\* cannot both come too early.
THEOREM NoCompletionIsMissed == BSpec => []NoMissedCompletion
<1>1. BInv => NoMissedCompletion
  <2> SUFFICES ASSUME BInv, NEW t \in off,
                      pc[t] \in {"block", "blocked", "schedule", "woken"}, IsDone(t)
               PROVE  t \in isrBuffer \union dropped \/ (isr = "wake" /\ t \in waiter)
    BY DEF NoMissedCompletion
  <2>1. t \in Clients
    BY TypeParts DEF BInv, Typed, ThreadTypes
  <2>2. pc[t] \in WaitingPc
    BY DEF WaitingPc
  <2> QED
    BY <2>1, <2>2 DEF BInv, Waits
<1> QED
  BY <1>1, BInvariant, PTL

\* A thread marked BlockedOnIO outside the gate's wait has a timer.
THEOREM StrandedHaveTimers == BSpec => []StrandedHasTimer
<1>1. BInv => StrandedHasTimer
  BY DEF BInv, Waits
<1> QED
  BY <1>1, BInvariant, PTL

-----------------------------------------------------------------------------
(***************************************************************************)
(* The driver implements RequestService. Cas serves, Submit starts, Unlock  *)
(* answers, Wedge gives up, the device completes; every other step is a     *)
(* stutter, an Ask or a Refuse.                                             *)
(***************************************************************************)
AskingPc == GatePc \union {"cas", "enqueue", "again?"}

\* What the service sees.
LEMMA Seen ==
  /\ Holding = {t \in Clients : pc[t] \in HoldingPc}
  /\ Asking = {t \in Clients : pc[t] \in AskingPc}
BY DEF Holding, Asking, HoldingPc, SubmittedPc, WaitingPc, AskingPc, GatePc

\* The service's view in the next state.
LEMMA SeenNext ==
  /\ Holding' = {t \in Clients : pc'[t] \in HoldingPc}
  /\ Asking' = {t \in Clients : pc'[t] \in AskingPc}
BY DEF Holding, Asking, HoldingPc, SubmittedPc, WaitingPc, AskingPc, GatePc

\* A step that moves no client between the service's phases stutters.
LEMMA SeenSame ==
  ASSUME wedged' = wedged, chain' = NoThread <=> chain = NoThread,
         \A u \in Clients : /\ pc'[u] \in HoldingPc <=> pc[u] \in HoldingPc
                            /\ pc'[u] \in AskingPc <=> pc[u] \in AskingPc
  PROVE  UNCHANGED Service!svars
<1>1. Holding' = Holding /\ Asking' = Asking
  BY Seen, SeenNext
<1>2. (chain # NoThread)' = (chain # NoThread)
  OBVIOUS
<1> QED
  BY <1>1, <1>2 DEF Service!svars

\* The driver starts where the service does.
LEMMA ServiceInit == BInit => Service!SInit
<1> SUFFICES ASSUME BInit PROVE Service!SInit
  OBVIOUS
<1>1. Holding = {} /\ Asking = {}
  BY DEF BInit, Holding, Asking
<1> QED
  BY <1>1 DEF BInit, Service!SInit

\* A step that leaves what the service sees, or a step of one client.
LEMMA ServiceStep ==
  ASSUME NEW c \in Clients,
         \/ Service!Ask(c) \/ Service!Serve(c) \/ Service!Start(c) \/ Service!Answer(c)
         \/ Service!GiveUp(c) \/ Service!Refuse(c)
  PROVE  Service!SNext
BY DEF Service!SNext

\* A call is a request made of the service.
LEMMA CallRefines ==
  ASSUME Typed, NEW t \in Clients, Call(t)
  PROVE  [Service!SNext]_(Service!svars)
<1> USE DEF gateVars, callVars, threadVars, timerVars, completionVars, requestVars,
            deviceVars, isrVars
<1>1. /\ pc[t] = "user"
      /\ \A u \in Clients : pc'[u] = IF u = t THEN "cas" ELSE pc[u]
  BY Moved DEF Call
<1>2. Holding' = Holding /\ t \notin Asking \union Holding /\ Asking' = Asking \union {t}
  BY <1>1, Seen, SeenNext DEF HoldingPc, SubmittedPc, WaitingPc, AskingPc, GatePc
<1>3. Service!Ask(t)
  BY <1>2 DEF Call, Service!Ask
<1> QED
  BY <1>3, ServiceStep

\* The way out of a wedged gate, from wherever its caller is.
LEMMA RefusedRefines ==
  ASSUME NEW t \in Clients, pc[t] \in AskingPc,
         \A u \in Clients : pc'[u] = IF u = t THEN "user" ELSE pc[u],
         wedged \/ (t \notin Sleepers /\ Holding # {}), wedged' = wedged, chain' = chain
  PROVE  Service!SNext
<1>1. Holding' = Holding /\ t \in Asking /\ Asking' = Asking \ {t}
  BY Seen, SeenNext DEF HoldingPc, SubmittedPc, WaitingPc, AskingPc, GatePc
<1>2. Service!Refuse(t)
  BY <1>1 DEF Service!Refuse
<1> QED
  BY <1>2, ServiceStep

\* The compare-exchange that succeeds is the service's start of a request.
LEMMA CasRefines ==
  ASSUME Typed, Gate, Stages, NEW t \in Clients, Cas(t)
  PROVE  [Service!SNext]_(Service!svars)
<1> USE DEF gateVars, callVars, threadVars, timerVars, completionVars, requestVars,
            deviceVars, isrVars
<1>1. CASE ~locked
  <2>1. /\ pc[t] = "cas"
        /\ \A u \in Clients : pc'[u] = IF u = t THEN "prepare" ELSE pc[u]
    BY <1>1, Moved DEF Cas
  <2>2. ~wedged /\ \A u \in Clients : pc[u] \notin HoldingPc
    BY <1>1 DEF Gate
  <2>3. chain = NoThread
    BY <2>2 DEF Stages, AtRest, HoldingPc
  <2>4. Holding = {} /\ Holding' = {t} /\ t \in Asking /\ Asking' = Asking \ {t}
    BY <2>1, <2>2, Seen, SeenNext DEF HoldingPc, SubmittedPc, WaitingPc, AskingPc, GatePc
  <2>5. Service!Serve(t)
    BY <2>2, <2>3, <2>4 DEF Cas, Service!Serve
  <2> QED
    BY <2>5, ServiceStep
<1>2. CASE locked /\ t \in Sleepers
  <2>1. /\ pc[t] = "cas"
        /\ \A u \in Clients : pc'[u] = IF u = t THEN "enqueue" ELSE pc[u]
    BY <1>2, Moved DEF Cas
  <2> QED
    BY <2>1, SeenSame DEF Cas, HoldingPc, SubmittedPc, WaitingPc, AskingPc, GatePc
<1>3. CASE locked /\ t \notin Sleepers
  <2>1. /\ pc[t] = "cas"
        /\ \A u \in Clients : pc'[u] = IF u = t THEN "user" ELSE pc[u]
    BY <1>3, Moved DEF Cas
  <2>2. wedged \/ Holding # {}
    BY <1>3, Seen DEF Gate
  <2> QED
    BY <1>3, <2>1, <2>2, RefusedRefines DEF Cas, AskingPc
<1> QED
  BY <1>1, <1>2, <1>3

\* Waiting at the gate is nothing to the service; refusal ends the request.
LEMMA GateRefines ==
  ASSUME Typed, Gate, NEW t \in Clients,
         \/ Enqueue(t) \/ RecheckWedged(t) \/ RecheckLocked(t) \/ Park(t)
         \/ FinishWait(t) \/ WedgedMeanwhile(t)
  PROVE  [Service!SNext]_(Service!svars)
<1> USE DEF gateVars, callVars, threadVars, timerVars, completionVars, requestVars,
            deviceVars, isrVars
<1>1. wedged' = wedged /\ chain' = chain
  BY DEF Enqueue, RecheckWedged, RecheckLocked, Park, FinishWait, WedgedMeanwhile
<1>2. ASSUME NEW from \in AskingPc, NEW to \in AskingPc, Step(t, from, to)
      PROVE  UNCHANGED Service!svars
  <2>1. /\ pc[t] = from
        /\ \A u \in Clients : pc'[u] = IF u = t THEN to ELSE pc[u]
    BY <1>2, Moved
  <2>2. from \notin HoldingPc /\ to \notin HoldingPc
    BY DEF HoldingPc, SubmittedPc, WaitingPc, AskingPc, GatePc
  <2> QED
    BY <1>1, <2>1, <2>2, SeenSame
<1>3. ASSUME NEW from \in AskingPc, Step(t, from, "user"), wedged
      PROVE  Service!SNext
  <2>1. /\ pc[t] = from
        /\ \A u \in Clients : pc'[u] = IF u = t THEN "user" ELSE pc[u]
    BY <1>3, Moved
  <2> QED
    BY <1>1, <1>3, <2>1, RefusedRefines
<1>4. CASE Enqueue(t) \/ RecheckWedged(t) \/ RecheckLocked(t) \/ Park(t)
  BY <1>2, <1>4 DEF Enqueue, RecheckWedged, RecheckLocked, Park, AskingPc, GatePc
<1>5. CASE FinishWait(t)
  <2>1. pc[t] = "refused" => wedged
    BY DEF Gate
  <2>2. Step(t, "retry", "again?") \/ (Step(t, "refused", "user") /\ wedged)
    BY <1>5, <2>1 DEF FinishWait, Step
  <2> QED
    BY <1>2, <1>3, <2>2 DEF AskingPc, GatePc
<1>6. CASE WedgedMeanwhile(t)
  <2>1. Step(t, "again?", "cas") \/ (Step(t, "again?", "user") /\ wedged)
    BY <1>6 DEF WedgedMeanwhile
  <2> QED
    BY <1>2, <1>3, <2>1 DEF AskingPc, GatePc
<1> QED
  BY <1>4, <1>5, <1>6

\* A holder's step inside the gate that touches no chain is a stutter.
LEMMA HoldingStepRefines ==
  ASSUME Typed, NEW t \in Clients, NEW from \in HoldingPc, NEW to \in HoldingPc,
         Step(t, from, to), wedged' = wedged, chain' = NoThread <=> chain = NoThread
  PROVE  UNCHANGED Service!svars
<1>1. /\ pc[t] = from
      /\ \A u \in Clients : pc'[u] = IF u = t THEN to ELSE pc[u]
  BY Moved
<1>2. from \notin AskingPc /\ to \notin AskingPc
  BY DEF HoldingPc, SubmittedPc, WaitingPc, AskingPc, GatePc
<1> QED
  BY <1>1, <1>2, SeenSame

\* Waiting for the completion is nothing to the service.
LEMMA WaitRefines ==
  ASSUME Typed, NEW t \in Clients, WaitSteps(t)
  PROVE  [Service!SNext]_(Service!svars)
<1> USE DEF gateVars, callVars, threadVars, timerVars, completionVars, requestVars,
            deviceVars, isrVars
<1>1. wedged' = wedged /\ chain' = chain
  BY DEF WaitSteps, WaitFast, WaitRecheck, WaitBlock, WaitAlreadyDone, WaitBlocked,
         WaitSchedule, WaitWoken, WaitDeadline, WaitSpin, Looks
<1>2. PICK from \in HoldingPc, to \in HoldingPc : Step(t, from, to)
  <2>1. CASE WaitFast(t) \/ WaitBlock(t)
    BY <2>1 DEF WaitFast, WaitBlock, HoldingPc, SubmittedPc, WaitingPc
  <2>2. CASE WaitRecheck(t) \/ WaitAlreadyDone(t)
    BY <2>2 DEF WaitRecheck, WaitAlreadyDone, Looks, HoldingPc, SubmittedPc, WaitingPc
  <2>3. CASE WaitBlocked(t) \/ WaitWoken(t)
    BY <2>3 DEF WaitBlocked, WaitWoken, Looks, HoldingPc, SubmittedPc, WaitingPc
  <2>4. CASE WaitSchedule(t)
    BY <2>4 DEF WaitSchedule, HoldingPc, SubmittedPc, WaitingPc
  <2>5. CASE WaitDeadline(t) \/ WaitSpin(t)
    BY <2>5 DEF WaitDeadline, WaitSpin, HoldingPc, SubmittedPc, WaitingPc
  <2> QED
    BY <2>1, <2>2, <2>3, <2>4, <2>5 DEF WaitSteps
<1> QED
  BY <1>1, <1>2, HoldingStepRefines

\* The one who holds the gate is the owner.
LEMMA HolderOwns ==
  ASSUME Gate, NEW t \in Clients, pc[t] \in HoldingPc PROVE Holding = {t}
<1>1. \A u \in Clients : u # t => pc[u] \notin HoldingPc
  BY OnlyHolder
<1> QED
  BY <1>1, Seen

\* ... and leaves it: the next place is not one past the gate.
LEMMA HolderLeaves ==
  ASSUME Gate, NEW t \in Clients, pc[t] \in HoldingPc, NEW to \in {"wake one", "wake all"},
         \A u \in Clients : pc'[u] = IF u = t THEN to ELSE pc[u]
  PROVE  Holding = {t} /\ Holding' = {} /\ Asking' = Asking
<1>1. \A u \in Clients : u # t => pc[u] \notin HoldingPc
  BY OnlyHolder
<1>2. to \notin HoldingPc \union AskingPc /\ pc[t] \notin AskingPc
  BY DEF HoldingPc, SubmittedPc, WaitingPc, AskingPc, GatePc
<1> QED
  BY <1>1, <1>2, Seen, SeenNext

\* Submission, wedging and unlocking are steps of the service.
LEMMA RequestRefines ==
  ASSUME Typed, Gate, Stages, NEW t \in Clients, RequestSteps(t)
  PROVE  [Service!SNext]_(Service!svars)
<1> USE DEF gateVars, callVars, threadVars, timerVars, completionVars, requestVars,
            deviceVars, isrVars
<1> USE DEF HoldingPc, SubmittedPc, WaitingPc
<1>1. CASE PrepareWait(t) \/ Finish(t)
  BY <1>1, HoldingStepRefines DEF PrepareWait, Finish
<1>2. CASE Submit(t)
  <2>1. pc[t] = "submit"
    BY <1>2 DEF Submit, Step
  <2>2. chain = NoThread
    BY <2>1, RestBetween DEF AtRest
  <2>3. CASE present
    <3>1. /\ Step(t, "submit", "wait") /\ wedged' = wedged
          /\ chain' # NoThread
      BY <1>2, <2>3 DEF Submit, NoThread
    <3>2. \A u \in Clients : pc'[u] = IF u = t THEN "wait" ELSE pc[u]
      BY <3>1, Moved
    <3>3. Holding = {t}
      BY <2>1, HolderOwns
    <3>4. Holding' = Holding /\ Asking' = Asking
      BY <2>1, <3>2, Seen, SeenNext DEF AskingPc, GatePc
    <3>5. Service!Start(t)
      BY <2>2, <3>1, <3>3, <3>4 DEF Service!Start
    <3> QED
      BY <3>5, ServiceStep
  <2>4. CASE ~present
    BY <1>2, <2>4, HoldingStepRefines DEF Submit
  <2> QED
    BY <2>3, <2>4
<1>3. CASE Unlock(t)
  <2>1. /\ pc[t] = "unlock"
        /\ \A u \in Clients : pc'[u] = IF u = t THEN "wake one" ELSE pc[u]
    BY <1>3, Moved DEF Unlock
  <2>2. chain = NoThread
    BY <2>1, RestBetween DEF AtRest
  <2>3. Holding = {t} /\ Holding' = {} /\ Asking' = Asking
    BY <2>1, HolderLeaves
  <2>4. Service!Answer(t)
    BY <1>3, <2>2, <2>3 DEF Unlock, Service!Answer
  <2> QED
    BY <2>4, ServiceStep
<1>4. CASE Wedge(t)
  <2>1. /\ pc[t] = "wedge"
        /\ \A u \in Clients : pc'[u] = IF u = t THEN "wake all" ELSE pc[u]
    BY <1>4, Moved DEF Wedge
  <2>2. Holding = {t} /\ Holding' = {} /\ Asking' = Asking
    BY <2>1, HolderLeaves
  <2>3. Service!GiveUp(t)
    BY <1>4, <2>2 DEF Wedge, Service!GiveUp
  <2> QED
    BY <2>3, ServiceStep
<1>5. CASE WakeOne(t) \/ WakeAll(t)
  <2>1. PICK from \in {"wake one", "wake all"} : Step(t, from, "user")
    BY <1>5 DEF WakeOne, WakeAll
  <2>2. /\ pc[t] = from
        /\ \A u \in Clients : pc'[u] = IF u = t THEN "user" ELSE pc[u]
    BY <2>1, Moved
  <2>3. wedged' = wedged /\ chain' = chain
    BY <1>5 DEF WakeOne, WakeAll
  <2> QED
    BY <2>2, <2>3, SeenSame DEF AskingPc, GatePc
<1> QED
  BY <1>1, <1>2, <1>3, <1>4, <1>5 DEF RequestSteps

\* The device's steps are the service's or nothing to it.
LEMMA DeviceRefines ==
  ASSUME DeviceCompletes \/ DeviceVanishes
  PROVE  [Service!SNext]_(Service!svars)
<1> USE DEF gateVars, callVars, threadVars, timerVars, completionVars, requestVars,
            deviceVars, isrVars
<1>1. /\ <<pc, wedged>>' = <<pc, wedged>> /\ chain' = NoThread
  BY DEF DeviceCompletes, DeviceVanishes
<1>2. CASE chain = NoThread
  BY <1>1, <1>2, SeenSame
<1>3. CASE chain # NoThread
  <2>1. Holding' = Holding /\ Asking' = Asking
    BY <1>1, Seen, SeenNext
  <2>2. Service!Complete
    BY <1>1, <1>3, <2>1 DEF Service!Complete
  <2> QED
    BY <2>2 DEF Service!SNext
<1> QED
  BY <1>2, <1>3

\* Every step of the driver is a step of the service or a stutter.
LEMMA ServiceNext == BInv /\ [BNext]_bvars => [Service!SNext]_(Service!svars)
<1> SUFFICES ASSUME BInv, [BNext]_bvars PROVE [Service!SNext]_(Service!svars)
  OBVIOUS
<1>1. Typed /\ Gate /\ Stages
  BY TypeParts DEF BInv
<1>2. ASSUME <<pc, wedged, chain>>' = <<pc, wedged, chain>> PROVE UNCHANGED Service!svars
  BY <1>2, SeenSame
<1>3. CASE UNCHANGED bvars
  BY <1>2, <1>3 DEF bvars, gateVars, deviceVars
<1>4. ASSUME NEW t \in Clients, Call(t) \/ ClientStep(t)
      PROVE  [Service!SNext]_(Service!svars)
  BY <1>1, <1>4, CallRefines, CasRefines, GateRefines, WaitRefines, RequestRefines
  DEF ClientStep, LockSteps
<1>5. CASE DeviceCompletes \/ DeviceVanishes
  BY <1>5, DeviceRefines
<1>6. CASE IsrEnter \/ IsrRest \/ DrainIsrBuffer
  <2>1. <<pc, wedged, chain>>' = <<pc, wedged, chain>>
    BY <1>6 DEF IsrEnter, IsrRest, IsrUsed, IsrPublish, IsrDone, IsrWake, DrainIsrBuffer,
                gateVars, deviceVars
  <2> QED
    BY <1>2, <2>1
<1>7. ASSUME NEW t \in Clients,
             \/ DeadlinePasses(t) \/ SwitchOut(t)
             \/ \E entry \in {"present", "earlier"} : Expire(t, entry)
      PROVE  [Service!SNext]_(Service!svars)
  <2>1. <<pc, wedged, chain>>' = <<pc, wedged, chain>>
    BY <1>7 DEF DeadlinePasses, SwitchOut, Expire, gateVars, deviceVars
  <2> QED
    BY <1>2, <2>1
<1> QED
  BY <1>3, <1>4, <1>5, <1>6, <1>7 DEF BNext

\* The block driver implements RequestService: one request at a time, no
\* answer and no new request while the device owns the buffers, nobody served
\* after a request was given up.
THEOREM DriverImplementsService == BSpec => ImplementsService
<1>1. BInit => Service!SInit
  BY ServiceInit
<1> QED
  BY <1>1, ServiceNext, BInvariant, PTL DEF BSpec, ImplementsService, Service!SSpec
=============================================================================
