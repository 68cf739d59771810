-------------------------- MODULE WorkqueueProofs --------------------------
(***************************************************************************)
(* What the workqueue promises, for any number of clients, Works and        *)
(* kthreads: a Work is in one place, a flush waits for what was queued      *)
(* before it, a destroy leaves no Work behind. The argument:                *)
(*  - only one worker is ever born, so one Work at a time is in a worker's  *)
(*    hands (OneWorker);                                                    *)
(*  - the state of a Work tells whether it is in the queue or taken, and    *)
(*    nothing is twice in the queue (Place);                                *)
(*  - the queue is a FIFO: what a flush waits for is ahead of its sentinel  *)
(*    or in the hands of the worker until it is completed (FlushInv), and   *)
(*    for the flush inside destroy that is every Work there is (LastInv).   *)
(* EndInv, at the end, carries the guarantee of kthread_join over.          *)
(***************************************************************************)
EXTENDS Workqueue, KthreadProofs, SequenceTheorems

HandPcs == {"execute", "executed", "complete"}
WorkerPcs == KthreadPcs \union {"pop"} \union HandPcs
ClientPcs == {"idle", "q_push", "q_worker", "q_done", "f_push", "f_wake", "f_unlock", "f_wait",
              "d_take", "d_stop", "d_join", "d_done",
              "stop", "stop_swap", "unpark", "unblock", "join"}
RetPcs == {"idle", "q_done", "f_unlock", "d_stop", "d_join", "d_done"}

\* positions in a queue
In(s, i) == \E p \in 1 .. Len(s) : s[p] = i
Ahead(s, i, j) == \E p \in 1 .. Len(s) : s[p] = i /\ \A q \in 1 .. p : s[q] # j
Behind(s, i, j) == \E p \in 1 .. Len(s) : s[p] = i /\ \E q \in 1 .. p : s[q] = j
Distinct(s) == \A p, q \in 1 .. Len(s) : s[p] = s[q] => p = q

(***************************************************************************)
(* How far a client's operation has come; calls of kthread_unpark,          *)
(* kthread_stop and kthread_join belong to the operation that makes them.   *)
(***************************************************************************)
PhaseOf(pc, r) ==
  IF pc \in {"unpark", "unblock"}
    THEN IF r = "q_done" THEN "pushed" ELSE IF r = "f_unlock" THEN "flushing" ELSE "stopping"
  ELSE IF pc \in {"q_worker", "q_done"} THEN "pushed"
  ELSE IF pc \in {"f_wake", "f_unlock", "f_wait"} THEN "flushing"
  ELSE IF pc \in {"stop", "stop_swap", "join", "d_stop", "d_join", "d_done"} THEN "stopping"
  ELSE pc

Phase(a) == PhaseOf(cpc[a], ret[a])
Queueing(a) == Phase(a) \in {"q_push", "pushed"}

\* where an item can be
Pushing(a, i) == Phase(a) = "q_push" /\ arg[a] = i
Queued(i) == In(wq, i)
Popped(k, i) == kpc[k] \in {"execute", "executed"} /\ item[k] = i
Holds(k, i) == kpc[k] \in HandPcs /\ item[k] = i
Held(i) == \E k \in Kthreads : Holds(k, i)
Delivered(i) == completed[i] \/ Queued(i) \/ Held(i)
NoWorkLeft == \A w \in Works : ~Queued(w) /\ ~Held(w)

-----------------------------------------------------------------------------
WTypes ==
  /\ WTypeOK
  /\ kpc \in [Kthreads -> WorkerPcs]
  /\ cpc \in [Callers -> ClientPcs] /\ ret \in [Callers -> RetPcs]
  /\ afterFlush \in [Callers -> {"idle", "d_take"}]

\* A call inside an operation returns into that operation.
RetInv ==
  \A a \in Callers :
    /\ cpc[a] \in {"unpark", "unblock"} => ret[a] \in {"q_done", "f_unlock", "d_stop", "d_join"}
    /\ cpc[a] \in {"stop", "stop_swap"} => ret[a] = "d_join"
    /\ cpc[a] = "join" => ret[a] = "d_done"

\* Who queues, who flushes, who destroys.
PhaseInv ==
  /\ \A a \in Callers :
       /\ Queueing(a) => arg[a] \in Works /\ destroying = {} /\ ~drained
       /\ Phase(a) \in {"d_take", "stopping"} => a \in destroying
       /\ Phase(a) \in {"f_push", "flushing"} => (afterFlush[a] = "d_take" <=> a \in destroying)
       /\ Phase(a) = "stopping" => shutdown
  /\ \A a \in destroying : /\ destroying = {a}
                           /\ Phase(a) \in {"f_push", "flushing", "d_take", "stopping"}
                           /\ Phase(a) # "stopping" => ~shutdown
  /\ drained => shutdown
  /\ shutdown => destroying # {} \/ drained

\* Only one worker is ever born.
OneWorker ==
  /\ \A k, j \in Kthreads : kpc[k] # "unborn" /\ kpc[j] # "unborn" => k = j
  /\ \A k \in Kthreads : kpc[k] # "unborn" => worker # NoKthread \/ shutdown
  /\ \A k \in Kthreads : kpc[k] \in HandPcs => item[k] \in Items

\* An item that is not idle is in one place, an idle one in none.
Place ==
  /\ Distinct(wq)
  /\ \A a, b \in Callers, i \in Items : Pushing(a, i) /\ Pushing(b, i) => a = b
  /\ \A a \in Callers, i \in Items : Pushing(a, i) => ~Queued(i) /\ \A k \in Kthreads : ~Popped(k, i)
  /\ \A k \in Kthreads, i \in Items : Popped(k, i) => ~Queued(i)
  /\ \A i \in Items :
       work[i] # "idle" <=> \/ \E a \in Callers : Pushing(a, i)
                            \/ Queued(i)
                            \/ \E k \in Kthreads : Popped(k, i)

\* A sentinel is in use only while its flush waits for it.
SentinelInv ==
  /\ \A a \in Callers : Phase(a) # "flushing" \/ completed[a] => work[a] = "idle" /\ ~Held(a)
  /\ \A a \in Callers, k \in Kthreads : kpc[k] = "complete" /\ item[k] = a => work[a] = "idle"

\* Nothing that was queued is lost.
DeliveryInv ==
  /\ \A w \in Works : completed[w] => w \notin func
  /\ \A w \in Works, k \in Kthreads : Holds(k, w) /\ kpc[k] # "execute" => w \notin func
  /\ \A w \in accepted : Delivered(w)
  /\ \A a \in Callers : Phase(a) = "pushed" => Delivered(arg[a])
  /\ \A a \in Callers : before[a] \subseteq accepted

\* What a flush waits for is completed before its sentinel.
FlushInv ==
  \A a \in Callers : Phase(a) = "flushing" =>
    \A w \in before[a] :
      completed[w] \/ (~completed[a] /\ (Held(w) \/ (Ahead(wq, w, a) /\ ~Held(a))))

\* No Work is behind the sentinel of a destroy, and none is left after it.
LastInv ==
  /\ \A a \in destroying : Phase(a) = "flushing" =>
       \A w \in Works :
         /\ Held(w) => ~completed[a]
         /\ Queued(w) => ~completed[a] /\ ~Held(a) /\ ~Behind(wq, w, a)
  /\ \A a \in Callers : Phase(a) = "d_take" /\ worker # NoKthread => NoWorkLeft
  /\ shutdown => NoWorkLeft

WInv ==
  /\ WTypes /\ RetInv /\ PhaseInv /\ OneWorker /\ Place /\ SentinelInv
  /\ DeliveryInv /\ FlushInv /\ LastInv

-----------------------------------------------------------------------------
(***************************************************************************)
(* The queue as a FIFO.                                                     *)
(***************************************************************************)

\* What push_back does to the places in the queue.
LEMMA AppendPlaces ==
  ASSUME NEW S, NEW s \in Seq(S), NEW x \in S
  PROVE  /\ Append(s, x) \in Seq(S)
         /\ \A i : In(Append(s, x), i) <=> In(s, i) \/ i = x
         /\ \A i, j : Ahead(s, i, j) => Ahead(Append(s, x), i, j)
         /\ \A i : In(s, i) /\ ~In(s, x) =>
              Ahead(Append(s, x), i, x) /\ ~Behind(Append(s, x), i, x)
         /\ \A i, j : Behind(Append(s, x), i, j) => Behind(s, i, j) \/ i = x
         /\ Distinct(s) /\ ~In(s, x) => Distinct(Append(s, x))
<1> DEFINE t == Append(s, x)
<1>1. /\ t \in Seq(S) /\ Len(t) = Len(s) + 1 /\ Len(s) \in Nat
      /\ \A i \in 1 .. Len(s) : t[i] = s[i]
      /\ t[Len(s) + 1] = x
  OBVIOUS
<1> HIDE DEF t
<1>2. \A i : In(t, i) <=> In(s, i) \/ i = x
  BY <1>1 DEF In
<1>3. ASSUME NEW i, NEW j, Ahead(s, i, j) PROVE Ahead(t, i, j)
  <2>1. PICK p \in 1 .. Len(s) : s[p] = i /\ \A q \in 1 .. p : s[q] # j
    BY <1>3 DEF Ahead
  <2>2. p \in 1 .. Len(t) /\ t[p] = i /\ \A q \in 1 .. p : t[q] # j
    BY <1>1, <2>1
  <2> QED
    BY <2>2 DEF Ahead
<1>4. ASSUME NEW i, In(s, i), ~In(s, x) PROVE Ahead(t, i, x) /\ ~Behind(t, i, x)
  <2>1. PICK p \in 1 .. Len(s) : s[p] = i
    BY <1>4 DEF In
  <2>2. \A q \in 1 .. Len(s) : t[q] # x
    BY <1>1, <1>4 DEF In
  <2>3. p \in 1 .. Len(t) /\ t[p] = i /\ \A q \in 1 .. p : t[q] # x
    BY <1>1, <2>1, <2>2
  <2>4. Ahead(t, i, x)
    BY <2>3 DEF Ahead
  <2>5. i # x
    BY <1>4
  <2>6. \A r \in 1 .. Len(t) : t[r] = i => r \in 1 .. Len(s)
    BY <1>1, <2>5
  <2>7. ~Behind(t, i, x)
    BY <1>1, <2>2, <2>6 DEF Behind
  <2> QED
    BY <2>4, <2>7
<1>5. ASSUME NEW i, NEW j, Behind(t, i, j), i # x PROVE Behind(s, i, j)
  <2>1. PICK p \in 1 .. Len(t) : t[p] = i /\ \E q \in 1 .. p : t[q] = j
    BY <1>5 DEF Behind
  <2>2. p \in 1 .. Len(s) /\ s[p] = i /\ \E q \in 1 .. p : s[q] = j
    BY <1>1, <1>5, <2>1
  <2> QED
    BY <2>2 DEF Behind
<1>6. ASSUME Distinct(s), ~In(s, x) PROVE Distinct(t)
  BY <1>1, <1>6 DEF Distinct, In
<1> QED
  BY <1>1, <1>2, <1>3, <1>4, <1>5, <1>6 DEF t

\* What pop_front does to them.
LEMMA TailPlaces ==
  ASSUME NEW S, NEW s \in Seq(S), s # << >>
  PROVE  /\ Head(s) \in S /\ Tail(s) \in Seq(S) /\ In(s, Head(s))
         /\ \A i : In(s, i) <=> i = Head(s) \/ In(Tail(s), i)
         /\ \A i, j : Ahead(s, i, j) => Head(s) # j /\ (i = Head(s) \/ Ahead(Tail(s), i, j))
         /\ \A i, j : Behind(Tail(s), i, j) => Behind(s, i, j)
         /\ \A i : In(Tail(s), i) => Behind(s, i, Head(s))
         /\ Distinct(s) => Distinct(Tail(s)) /\ ~In(Tail(s), Head(s))
<1> DEFINE t == Tail(s)
           h == Head(s)
<1>1. /\ h \in S /\ t \in Seq(S) /\ Len(t) = Len(s) - 1 /\ Len(s) \in Nat \ {0} /\ Len(t) \in Nat
      /\ \A i \in 1 .. Len(t) : t[i] = s[i + 1]
      /\ h = s[1]
  BY HeadTailProperties, EmptySeq
<1> HIDE DEF t, h
<1>2. \A i : In(s, i) <=> i = h \/ In(t, i)
  <2>1. ASSUME NEW i, In(s, i), i # h PROVE In(t, i)
    <3>1. PICK p \in 1 .. Len(s) : s[p] = i
      BY <2>1 DEF In
    <3>2. p - 1 \in 1 .. Len(t) /\ t[p - 1] = i
      BY <1>1, <2>1, <3>1
    <3> QED
      BY <3>2 DEF In
  <2>2. ASSUME NEW i, In(t, i) PROVE In(s, i)
    <3>1. PICK p \in 1 .. Len(t) : t[p] = i
      BY <2>2 DEF In
    <3>2. p + 1 \in 1 .. Len(s) /\ s[p + 1] = i
      BY <1>1, <3>1
    <3> QED
      BY <3>2 DEF In
  <2>3. In(s, h)
    BY <1>1 DEF In
  <2> QED
    BY <2>1, <2>2, <2>3
<1>3. ASSUME NEW i, NEW j, Ahead(s, i, j) PROVE h # j /\ (i = h \/ Ahead(t, i, j))
  <2>1. PICK p \in 1 .. Len(s) : s[p] = i /\ \A q \in 1 .. p : s[q] # j
    BY <1>3 DEF Ahead
  <2>2. h # j
    BY <1>1, <2>1
  <2>3. ASSUME i # h PROVE Ahead(t, i, j)
    <3>1. p - 1 \in 1 .. Len(t) /\ t[p - 1] = i
      BY <1>1, <2>1, <2>3
    <3>2. \A q \in 1 .. (p - 1) : t[q] # j
      BY <1>1, <2>1, <3>1
    <3> QED
      BY <3>1, <3>2 DEF Ahead
  <2> QED
    BY <2>2, <2>3
<1>4. ASSUME NEW i, NEW j, Behind(t, i, j) PROVE Behind(s, i, j)
  <2>1. PICK p \in 1 .. Len(t) : t[p] = i /\ \E q \in 1 .. p : t[q] = j
    BY <1>4 DEF Behind
  <2>2. PICK q \in 1 .. p : t[q] = j
    BY <2>1
  <2> q \in 1 .. Len(t)
    BY <1>1, <2>1, <2>2
  <2>3. /\ p + 1 \in 1 .. Len(s) /\ s[p + 1] = i
        /\ q + 1 \in 1 .. (p + 1) /\ s[q + 1] = j
    BY <1>1, <2>1, <2>2
  <2> QED
    BY <2>3 DEF Behind
<1>5. ASSUME NEW i, In(t, i) PROVE Behind(s, i, h)
  <2>1. PICK p \in 1 .. Len(t) : t[p] = i
    BY <1>5 DEF In
  <2>2. p + 1 \in 1 .. Len(s) /\ s[p + 1] = i /\ 1 \in 1 .. (p + 1) /\ s[1] = h
    BY <1>1, <2>1
  <2> QED
    BY <2>2 DEF Behind
<1>6. ASSUME Distinct(s) PROVE Distinct(t) /\ ~In(t, h)
  <2>1. ASSUME NEW p \in 1 .. Len(t), NEW q \in 1 .. Len(t), t[p] = t[q] PROVE p = q
    <3>1. p + 1 \in 1 .. Len(s) /\ q + 1 \in 1 .. Len(s) /\ s[p + 1] = s[q + 1]
      BY <1>1, <2>1
    <3>2. p + 1 = q + 1
      BY <1>6, <3>1 DEF Distinct
    <3> QED
      BY <3>2
  <2>2. ASSUME NEW p \in 1 .. Len(t), t[p] = h PROVE FALSE
    <3>1. p + 1 \in 1 .. Len(s) /\ 1 \in 1 .. Len(s) /\ s[p + 1] = s[1]
      BY <1>1, <2>2
    <3>2. p + 1 = 1
      BY <1>6, <3>1 DEF Distinct
    <3> QED
      BY <3>2
  <2> QED
    BY <2>1, <2>2 DEF Distinct, In
<1> QED
  BY <1>1, <1>2, <1>3, <1>4, <1>5, <1>6 DEF t, h

-----------------------------------------------------------------------------
(***************************************************************************)
(* Types, and the phases of the clients.                                    *)
(***************************************************************************)

\* the client enters phase p, the others stay in theirs
MovesTo(a, p) == \A b \in Callers : Phase(b)' = IF b = a THEN p ELSE Phase(b)

\* a step that moves no item and begins or ends no operation
Silent ==
  /\ \A b \in Callers : Phase(b)' = Phase(b)
  /\ \A k \in Kthreads :
       \/ kpc'[k] = kpc[k]
       \/ kpc[k] \notin HandPcs \union {"unborn"} /\ kpc'[k] \notin HandPcs \union {"unborn"}
  /\ UNCHANGED <<itemVars, worker, shutdown, item, clientVars>>

\* The types of what only this step's module changes.
LEMMA ClientMoves ==
  ASSUME WTypes, RetInv, NEW a \in Callers, NEW pc \in ClientPcs, NEW r \in RetPcs,
         cpc' = [cpc EXCEPT ![a] = pc],
         ret' = [ret EXCEPT ![a] = r],
         pc \in {"unpark", "unblock"} => r \in {"q_done", "f_unlock", "d_stop", "d_join"},
         pc \in {"stop", "stop_swap"} => r = "d_join",
         pc = "join" => r = "d_done"
  PROVE  /\ cpc' \in [Callers -> ClientPcs] /\ ret' \in [Callers -> RetPcs]
         /\ RetInv'
         /\ MovesTo(a, PhaseOf(pc, r))
<1>1. cpc' \in [Callers -> ClientPcs] /\ ret' \in [Callers -> RetPcs]
  BY DEF WTypes
<1>2. \A b \in Callers : cpc'[b] = (IF b = a THEN pc ELSE cpc[b])
                         /\ ret'[b] = (IF b = a THEN r ELSE ret[b])
  BY DEF WTypes
<1>3. RetInv'
  BY <1>2 DEF RetInv
<1>4. MovesTo(a, PhaseOf(pc, r))
  BY <1>2 DEF MovesTo, Phase
<1> QED
  BY <1>1, <1>3, <1>4

\* A step of an actor's switch, a kthread in its loop, in kthread_park or in
\* kthread_exit.
LEMMA SilentWorker ==
  ASSUME WTypes, RetInv,
         \/ \E x \in Actors : (SwitchIn(x) \/ SwitchOut(x)) /\ UNCHANGED wvars
         \/ \E k \in Kthreads :
              \/ WorkerLoop(k)
              \/ WorkerPop(k) /\ wq = << >>
              \/ (ParkStep(k) \/ ExitStart(k, 0) \/ ExitTerminate(k) \/ ExitPublish(k))
                 /\ UNCHANGED wvars
  PROVE  WTypes' /\ RetInv' /\ Silent
<1>1. UNCHANGED <<callerVars, wvars>>
  BY DEF SwitchIn, SwitchOut, WorkerLoop, WorkerPop, ParkStep, ExitStart, ExitTerminate, ExitPublish,
         KthreadAt, ParkSet, ParkStop, ParkLoop, ParkRecheck, ParkBlock, ParkAgain, ParkHalt,
         wvars, itemVars, wqVars, clientVars
<1>2. \/ kpc' = kpc
      \/ \E k \in Kthreads : \E to \in WorkerPcs \ (HandPcs \union {"unborn"}) :
           kpc[k] \notin HandPcs \union {"unborn"} /\ kpc' = [kpc EXCEPT ![k] = to]
  <2>1. CASE \E x \in Actors : (SwitchIn(x) \/ SwitchOut(x)) /\ UNCHANGED wvars
    BY <2>1 DEF SwitchIn, SwitchOut
  <2>2. ASSUME NEW k \in Kthreads,
               \/ WorkerLoop(k)
               \/ WorkerPop(k) /\ wq = << >>
               \/ ExitStart(k, 0) \/ ExitTerminate(k) \/ ExitPublish(k)
        PROVE  \E to \in WorkerPcs \ (HandPcs \union {"unborn"}) :
                 kpc[k] \notin HandPcs \union {"unborn"} /\ kpc' = [kpc EXCEPT ![k] = to]
    BY <2>2 DEF WorkerLoop, WorkerPop, ExitStart, ExitTerminate, ExitPublish,
         KthreadAt, WorkerPcs, KthreadPcs, HandPcs
  <2>3. ASSUME NEW k \in Kthreads, ParkStep(k)
        PROVE  \E to \in WorkerPcs \ (HandPcs \union {"unborn"}) :
                 kpc[k] \notin HandPcs \union {"unborn"} /\ kpc' = [kpc EXCEPT ![k] = to]
    BY <2>3 DEF ParkStep, KthreadAt, ParkSet, ParkStop, ParkLoop, ParkRecheck, ParkBlock,
         ParkAgain, ParkHalt, WorkerPcs, KthreadPcs, HandPcs
  <2> QED
    BY <2>1, <2>2, <2>3
<1>3. kpc' \in [Kthreads -> WorkerPcs]
  BY <1>2 DEF WTypes
<1>4. WTypes'
  BY <1>1, <1>3 DEF WTypes, WTypeOK, callerVars, wvars, itemVars, wqVars, clientVars
<1>5. RetInv'
  BY <1>1 DEF RetInv, callerVars
<1>6. \A b \in Callers : Phase(b)' = Phase(b)
  BY <1>1 DEF Phase, callerVars
<1>7. \A k \in Kthreads :
        \/ kpc'[k] = kpc[k]
        \/ kpc[k] \notin HandPcs \union {"unborn"} /\ kpc'[k] \notin HandPcs \union {"unborn"}
  BY <1>2 DEF WTypes
<1> QED
  BY <1>1, <1>4, <1>5, <1>6, <1>7 DEF Silent, wvars, wqVars

\* A step of a client inside its operation, calls of kthread functions included.
LEMMA SilentClient ==
  ASSUME WTypes, RetInv, NEW a \in Callers,
         \/ EnsureWorkerWakes(a) \/ FlushWake(a) \/ FlushUnlock(a)
         \/ DestroyCall(a, "d_stop", "stop", "d_join")
         \/ DestroyCall(a, "d_join", "join", "d_done")
         \/ CallStep(a) /\ UNCHANGED wvars
  PROVE  WTypes' /\ RetInv' /\ Silent
<1>1. /\ kpc' = kpc /\ UNCHANGED <<itemVars, worker, shutdown, item, clientVars>>
      /\ workerLock' \in Callers \union {NoClient}
  BY DEF EnsureWorkerWakes, FlushWake, FlushUnlock, DestroyCall, LockAndUnpark,
         CallStep, StopCheck, StopSwap, UnparkStore, UnparkWake, Join, CallerAt, Step,
         wvars, wqVars, WTypes, WTypeOK
<1>2. PICK pc \in ClientPcs, r \in RetPcs :
        /\ cpc' = [cpc EXCEPT ![a] = pc] /\ ret' = [ret EXCEPT ![a] = r]
        /\ pc \in {"unpark", "unblock"} => r \in {"q_done", "f_unlock", "d_stop", "d_join"}
        /\ pc \in {"stop", "stop_swap"} => r = "d_join"
        /\ pc = "join" => r = "d_done"
        /\ PhaseOf(pc, r) = Phase(a)
  <2>0. /\ ret[a] \in RetPcs /\ ret = [ret EXCEPT ![a] = ret[a]]
        /\ cpc[a] \in {"unpark", "unblock"} => ret[a] \in {"q_done", "f_unlock", "d_stop", "d_join"}
        /\ cpc[a] \in {"stop", "stop_swap"} => ret[a] = "d_join"
        /\ cpc[a] = "join" => ret[a] = "d_done"
    BY DEF WTypes, RetInv
  <2>1. CASE EnsureWorkerWakes(a)
    BY <2>0, <2>1 DEF EnsureWorkerWakes, LockAndUnpark, Step, CallerAt, PhaseOf, Phase, ClientPcs, RetPcs
  <2>2. CASE FlushWake(a)
    <3>1. CASE worker = NoKthread
      BY <2>0, <2>2, <3>1 DEF FlushWake, Step, CallerAt, PhaseOf, Phase, ClientPcs, RetPcs
    <3>2. CASE worker # NoKthread
      BY <2>0, <2>2, <3>2 DEF FlushWake, LockAndUnpark, Step, CallerAt, PhaseOf, Phase, ClientPcs, RetPcs
    <3> QED
      BY <3>1, <3>2
  <2>3. CASE FlushUnlock(a)
    BY <2>0, <2>3 DEF FlushUnlock, Step, CallerAt, PhaseOf, Phase, ClientPcs, RetPcs
  <2>4. CASE DestroyCall(a, "d_stop", "stop", "d_join") \/ DestroyCall(a, "d_join", "join", "d_done")
    BY <2>0, <2>4 DEF DestroyCall, Step, CallerAt, PhaseOf, Phase, ClientPcs, RetPcs
  <2>5. CASE StopCheck(a)
    BY <2>0, <2>5 DEF StopCheck, CallerAt, PhaseOf, Phase, ClientPcs, RetPcs
  <2>6. CASE StopSwap(a)
    BY <2>0, <2>6 DEF StopSwap, CallerAt, PhaseOf, Phase, ClientPcs, RetPcs
  <2>7. CASE UnparkStore(a)
    BY <2>0, <2>7 DEF UnparkStore, CallerAt, PhaseOf, Phase, ClientPcs, RetPcs
  <2>8. CASE UnparkWake(a)
    BY <2>0, <2>8 DEF UnparkWake, CallerAt, PhaseOf, Phase, ClientPcs, RetPcs
  <2>9. CASE Join(a)
    BY <2>0, <2>9 DEF Join, CallerAt, PhaseOf, Phase, ClientPcs, RetPcs
  <2> QED
    BY <2>1, <2>2, <2>3, <2>4, <2>5, <2>6, <2>7, <2>8, <2>9 DEF CallStep
<1>3. /\ cpc' \in [Callers -> ClientPcs] /\ ret' \in [Callers -> RetPcs]
      /\ RetInv' /\ MovesTo(a, Phase(a))
  BY <1>2, ClientMoves
<1>4. WTypes'
  BY <1>1, <1>3 DEF WTypes, WTypeOK, itemVars, clientVars
<1> QED
  BY <1>1, <1>3, <1>4 DEF Silent, MovesTo

\* The invariant is about what a silent step leaves alone.
LEMMA SilentOK ==
  ASSUME WInv, WTypes', RetInv', Silent
  PROVE  WInv'
<1> USE DEF WInv
<1>1. /\ \A b \in Callers : Phase(b)' = Phase(b)
      /\ \A k \in Kthreads : kpc'[k] \in HandPcs \/ kpc[k] \in HandPcs => kpc'[k] = kpc[k]
      /\ \A k \in Kthreads : kpc'[k] # "unborn" <=> kpc[k] # "unborn"
      /\ UNCHANGED <<wq, work, completed, func, worker, shutdown, item>>
      /\ UNCHANGED <<arg, afterFlush, destroying, accepted, before, drained>>
  BY DEF Silent, itemVars, clientVars, HandPcs
<1>2. /\ \A i : \A k \in Kthreads : Holds(k, i)' <=> Holds(k, i)
      /\ \A i : \A k \in Kthreads : Popped(k, i)' <=> Popped(k, i)
      /\ \A i : Held(i)' <=> Held(i)
      /\ \A i : Queued(i)' <=> Queued(i)
      /\ \A i : \A a \in Callers : Pushing(a, i)' <=> Pushing(a, i)
      /\ \A a \in Callers : Queueing(a)' <=> Queueing(a)
  BY <1>1 DEF Holds, Popped, Held, Queued, Pushing, Queueing, HandPcs
<1>3. PhaseInv'
  BY <1>1, <1>2 DEF PhaseInv, WTypes, WTypeOK
<1>4. OneWorker'
  BY <1>1 DEF OneWorker
<1>5. Place'
  BY <1>1, <1>2 DEF Place
<1>6. SentinelInv'
  BY <1>1, <1>2 DEF SentinelInv, HandPcs
<1>7. (\A i : Delivered(i)' <=> Delivered(i)) /\ (NoWorkLeft' <=> NoWorkLeft)
  BY <1>1, <1>2 DEF Delivered, NoWorkLeft
<1>8. DeliveryInv'
  BY <1>1, <1>2, <1>7 DEF DeliveryInv, HandPcs, Holds
<1>9. FlushInv'
  BY <1>1, <1>2 DEF FlushInv
<1>10. LastInv'
  BY <1>1, <1>2, <1>7 DEF LastInv, WTypes, WTypeOK
<1> QED
  BY <1>3, <1>4, <1>5, <1>6, <1>8, <1>9, <1>10

-----------------------------------------------------------------------------
(***************************************************************************)
(* The worker's steps on an item.                                           *)
(***************************************************************************)

\* What a step of worker k that takes or works on an item leaves alone.
WorkerLeaves(k) ==
  /\ \A b \in Callers : Phase(b)' = Phase(b)
  /\ kpc[k] # "unborn" /\ kpc'[k] # "unborn"
  /\ \A j \in Kthreads \ {k} : kpc'[j] = kpc[j] /\ item'[j] = item[j]
  /\ UNCHANGED <<worker, shutdown, arg, afterFlush, destroying, accepted, before, drained>>

\* Phases and the one worker are not the worker's concern.
LEMMA WorkerKeeps ==
  ASSUME WInv, WTypes', NEW k \in Kthreads, WorkerLeaves(k),
         kpc'[k] \in HandPcs => item'[k] \in Items
  PROVE  /\ PhaseInv' /\ OneWorker'
         /\ \A j \in Kthreads \ {k} : kpc[j] = "unborn" /\ kpc'[j] = "unborn"
         /\ \A i : Held(i) <=> Holds(k, i)
         /\ \A i : Held(i)' <=> Holds(k, i)'
         /\ \A i : (\E j \in Kthreads : Popped(j, i)) <=> Popped(k, i)
         /\ \A i : (\E j \in Kthreads : Popped(j, i)') <=> Popped(k, i)'
         /\ \A i : \A b \in Callers : Pushing(b, i)' <=> Pushing(b, i)
<1> USE DEF WInv, WorkerLeaves
<1>1. PhaseInv'
  BY DEF PhaseInv, Queueing, WTypes, WTypeOK
<1>2. \A j \in Kthreads \ {k} : kpc[j] = "unborn" /\ kpc'[j] = "unborn"
  BY DEF OneWorker
<1>3. OneWorker'
  BY <1>2 DEF OneWorker, HandPcs
<1>4. \A i : \A b \in Callers : Pushing(b, i)' <=> Pushing(b, i)
  BY DEF Pushing
<1> QED
  BY <1>1, <1>2, <1>3, <1>4 DEF Held, Holds, Popped, HandPcs

\* The worker takes the head of the queue.
LEMMA PopOK ==
  ASSUME WInv, NEW k \in Kthreads, WorkerPop(k), wq # << >>
  PROVE  WInv'
<1> USE DEF WInv
<1>0. PICK h : h = Head(wq)
  OBVIOUS
<1>1. /\ kpc[k] = "pop" /\ kpc' = [kpc EXCEPT ![k] = "execute"]
      /\ item' = [item EXCEPT ![k] = h] /\ wq' = Tail(wq)
      /\ UNCHANGED <<cpc, ret, work, completed, func, worker, workerLock, shutdown, arg, afterFlush,
                     destroying, spawnFailures, accepted, before, drained>>
  BY <1>0 DEF WorkerPop, KthreadAt, callerVars, wqVars, clientVars
<1>2. wq \in Seq(Items)
  BY DEF WTypes, WTypeOK
<1>3. /\ h \in Items /\ wq' \in Seq(Items) /\ Queued(h)
      /\ \A i : Queued(i) <=> i = h \/ Queued(i)'
      /\ \A i, j : Ahead(wq, i, j) => h # j /\ (i = h \/ Ahead(wq', i, j))
      /\ \A i, j : Behind(wq', i, j) => Behind(wq, i, j)
      /\ \A i : Queued(i)' => Behind(wq, i, h)
      /\ Distinct(wq) => Distinct(wq') /\ ~Queued(h)'
  BY <1>0, <1>1, <1>2, TailPlaces DEF Queued
<1>4. WTypes'
  BY <1>1, <1>3 DEF WTypes, WTypeOK, WorkerPcs, HandPcs
<1>5. RetInv' /\ WorkerLeaves(k) /\ kpc'[k] = "execute" /\ item'[k] = h
  BY <1>1 DEF RetInv, WorkerLeaves, Phase, WTypes, WTypeOK
<1>6. /\ PhaseInv' /\ OneWorker'
      /\ \A j \in Kthreads \ {k} : kpc[j] = "unborn" /\ kpc'[j] = "unborn"
      /\ \A i : Held(i) <=> Holds(k, i)
      /\ \A i : Held(i)' <=> Holds(k, i)'
      /\ \A i : (\E j \in Kthreads : Popped(j, i)) <=> Popped(k, i)
      /\ \A i : (\E j \in Kthreads : Popped(j, i)') <=> Popped(k, i)'
      /\ \A i : \A b \in Callers : Pushing(b, i)' <=> Pushing(b, i)
  BY <1>3, <1>4, <1>5, WorkerKeeps
<1>7. /\ \A i : ~Held(i) /\ ~Popped(k, i)
      /\ \A i : Held(i)' <=> i = h
      /\ \A i : Popped(k, i)' <=> i = h
  BY <1>1, <1>5, <1>6 DEF Holds, Popped, HandPcs
<1>8. Place'
  <2>1. \A i : \A j \in Kthreads : Popped(j, i)' => i = h
    BY <1>6, <1>7
  <2>2. \A a \in Callers, i \in Items : Pushing(a, i)' => i # h
    BY <1>3, <1>6 DEF Place
  <2>3. \A j \in Kthreads, i \in Items : Popped(j, i)' => ~Queued(i)'
    BY <1>3, <2>1 DEF Place
  <2>4. \A i \in Items :
          ((\E a \in Callers : Pushing(a, i)') \/ Queued(i)' \/ (\E j \in Kthreads : Popped(j, i)'))
            <=> ((\E a \in Callers : Pushing(a, i)) \/ Queued(i) \/ (\E j \in Kthreads : Popped(j, i)))
    BY <1>3, <1>6, <1>7
  <2> QED
    BY <1>1, <1>3, <1>6, <2>1, <2>2, <2>3, <2>4 DEF Place
<1>9. SentinelInv'
  <2>1. ASSUME NEW a \in Callers, a = h PROVE Phase(a) = "flushing" /\ ~completed[a]
    <3>1. a \in Items /\ work[a] # "idle"
      BY <1>3, <2>1 DEF Place, Items
    <3> QED
      BY <3>1 DEF SentinelInv
  <2>2. \A a \in Callers : Phase(a)' # "flushing" \/ completed'[a] => work'[a] = "idle" /\ ~Held(a)'
    BY <1>1, <1>5, <1>7, <2>1 DEF SentinelInv, WorkerLeaves
  <2>3. \A j \in Kthreads : kpc'[j] # "complete"
    BY <1>5, <1>6
  <2> QED
    BY <2>2, <2>3 DEF SentinelInv
<1>10. \A i : Delivered(i)' <=> Delivered(i)
  BY <1>1, <1>3, <1>7 DEF Delivered
<1>11. DeliveryInv'
  BY <1>1, <1>5, <1>6, <1>10 DEF DeliveryInv, WorkerLeaves, Holds, HandPcs
<1>12. FlushInv'
  BY <1>1, <1>3, <1>5, <1>7 DEF FlushInv, WorkerLeaves
<1>13. LastInv'
  <2>1. NoWorkLeft => NoWorkLeft'
    BY <1>3, <1>7 DEF NoWorkLeft
  <2>2. ASSUME NEW a \in destroying, Phase(a) = "flushing", NEW w \in Works
        PROVE  /\ Held(w)' => ~completed'[a]
               /\ Queued(w)' => ~completed'[a] /\ ~Held(a)' /\ ~Behind(wq', w, a)
    BY <1>1, <1>3, <1>7, <2>2 DEF LastInv
  <2> QED
    BY <1>1, <1>5, <2>1, <2>2 DEF LastInv, WorkerLeaves, WTypes, WTypeOK
<1> QED
  BY <1>4, <1>5, <1>6, <1>8, <1>9, <1>11, <1>12, <1>13

\* The worker takes the function of its item and runs it.
LEMMA ExecuteOK ==
  ASSUME WInv, NEW k \in Kthreads, Execute(k)
  PROVE  WInv'
<1> USE DEF WInv
<1>0. PICK h : h = item[k]
  OBVIOUS
<1>1. /\ kpc[k] = "execute" /\ kpc' = [kpc EXCEPT ![k] = "executed"]
      /\ work' = [work EXCEPT ![h] = "running"] /\ func' = func \ {h}
      /\ UNCHANGED <<cpc, ret, wq, completed, item, worker, workerLock, shutdown, arg, afterFlush,
                     destroying, spawnFailures, accepted, before, drained>>
  BY <1>0 DEF Execute, KthreadAt, callerVars, wqVars, clientVars
<1>2. h \in Items /\ Popped(k, h) /\ Holds(k, h)
  BY <1>0, <1>1 DEF OneWorker, HandPcs, Popped, Holds
<1>3. WTypes'
  BY <1>1, <1>2 DEF WTypes, WTypeOK, WorkerPcs, HandPcs
<1>4. RetInv' /\ WorkerLeaves(k) /\ kpc'[k] = "executed" /\ item'[k] = h
  BY <1>0, <1>1 DEF RetInv, WorkerLeaves, Phase, WTypes, WTypeOK
<1>5. /\ PhaseInv' /\ OneWorker'
      /\ \A j \in Kthreads \ {k} : kpc[j] = "unborn" /\ kpc'[j] = "unborn"
      /\ \A i : Held(i) <=> Holds(k, i)
      /\ \A i : Held(i)' <=> Holds(k, i)'
      /\ \A i : (\E j \in Kthreads : Popped(j, i)) <=> Popped(k, i)
      /\ \A i : (\E j \in Kthreads : Popped(j, i)') <=> Popped(k, i)'
      /\ \A i : \A b \in Callers : Pushing(b, i)' <=> Pushing(b, i)
  BY <1>2, <1>3, <1>4, WorkerKeeps
<1>6. /\ \A i : Held(i)' <=> Held(i)
      /\ \A i : \A j \in Kthreads : Popped(j, i)' <=> Popped(j, i)
      /\ \A i : Queued(i)' <=> Queued(i)
      /\ \A i : Held(i) <=> i = h
  BY <1>1, <1>2, <1>4, <1>5 DEF Holds, Popped, HandPcs, Queued
<1>7. /\ \A i \in Items : (work'[i] # "idle" <=> work[i] # "idle")
      /\ \A i \in Items : work'[i] = "idle" => work'[i] = work[i]
  <2>1. work[h] # "idle"
    BY <1>2 DEF Place
  <2> QED
    BY <1>1, <2>1 DEF WTypes, WTypeOK
<1>8. Place'
  BY <1>1, <1>5, <1>6, <1>7 DEF Place
<1>9. SentinelInv'
  <2>1. \A a \in Callers : a \in Items
    BY DEF Items
  <2>2. \A j \in Kthreads : kpc'[j] # "complete"
    BY <1>4, <1>5
  <2> QED
    BY <1>1, <1>4, <1>6, <1>7, <2>1, <2>2 DEF SentinelInv, WorkerLeaves
<1>10. (\A i : Delivered(i)' <=> Delivered(i)) /\ (NoWorkLeft' <=> NoWorkLeft)
  BY <1>1, <1>6 DEF Delivered, NoWorkLeft
<1>11. DeliveryInv'
  <2>1. \A w \in Works : \A j \in Kthreads : Holds(j, w)' => w = h
    BY <1>4, <1>5 DEF Holds, HandPcs
  <2> QED
    BY <1>1, <1>4, <1>10, <2>1 DEF DeliveryInv, WorkerLeaves
<1>12. FlushInv' /\ LastInv'
  BY <1>1, <1>4, <1>6, <1>10 DEF FlushInv, LastInv, WorkerLeaves, WTypes, WTypeOK
<1> QED
  BY <1>3, <1>4, <1>5, <1>8, <1>9, <1>11, <1>12

\* The function has returned: the item can be queued again.
LEMMA ExecuteIdleOK ==
  ASSUME WInv, NEW k \in Kthreads, ExecuteIdle(k)
  PROVE  WInv'
<1> USE DEF WInv
<1>0. PICK h : h = item[k]
  OBVIOUS
<1>1. /\ kpc[k] = "executed" /\ kpc' = [kpc EXCEPT ![k] = "complete"]
      /\ work' = [work EXCEPT ![h] = "idle"]
      /\ UNCHANGED <<cpc, ret, wq, completed, func, item, worker, workerLock, shutdown, arg, afterFlush,
                     destroying, spawnFailures, accepted, before, drained>>
  BY <1>0 DEF ExecuteIdle, KthreadAt, callerVars, wqVars, clientVars
<1>2. h \in Items /\ Popped(k, h) /\ Holds(k, h)
  BY <1>0, <1>1 DEF OneWorker, HandPcs, Popped, Holds
<1>3. WTypes'
  BY <1>1, <1>2 DEF WTypes, WTypeOK, WorkerPcs, HandPcs
<1>4. RetInv' /\ WorkerLeaves(k) /\ kpc'[k] = "complete" /\ item'[k] = h
  BY <1>0, <1>1 DEF RetInv, WorkerLeaves, Phase, WTypes, WTypeOK
<1>5. /\ PhaseInv' /\ OneWorker'
      /\ \A j \in Kthreads \ {k} : kpc[j] = "unborn" /\ kpc'[j] = "unborn"
      /\ \A i : Held(i) <=> Holds(k, i)
      /\ \A i : Held(i)' <=> Holds(k, i)'
      /\ \A i : (\E j \in Kthreads : Popped(j, i)) <=> Popped(k, i)
      /\ \A i : (\E j \in Kthreads : Popped(j, i)') <=> Popped(k, i)'
      /\ \A i : \A b \in Callers : Pushing(b, i)' <=> Pushing(b, i)
  BY <1>2, <1>3, <1>4, WorkerKeeps
<1>6. /\ \A i : Held(i)' <=> Held(i)
      /\ \A i : \A j \in Kthreads : ~Popped(j, i)'
      /\ \A i : \A j \in Kthreads : Popped(j, i) => i = h
      /\ \A i : Queued(i)' <=> Queued(i)
      /\ \A i : Held(i) <=> i = h
  BY <1>0, <1>1, <1>2, <1>4, <1>5 DEF Holds, Popped, HandPcs, Queued
<1>7. \A i \in Items : work'[i] = IF i = h THEN "idle" ELSE work[i]
  BY <1>1 DEF WTypes, WTypeOK
<1>8. Place'
  <2>1. ~Queued(h) /\ \A a \in Callers : ~Pushing(a, h)
    BY <1>2 DEF Place
  <2>2. \A i \in Items :
          work'[i] # "idle" <=> ((\E a \in Callers : Pushing(a, i)') \/ Queued(i)'
                                  \/ (\E j \in Kthreads : Popped(j, i)'))
    BY <1>5, <1>6, <1>7, <2>1 DEF Place
  <2> QED
    BY <1>1, <1>5, <1>6, <2>2 DEF Place
<1>9. SentinelInv'
  <2>1. \A a \in Callers : a \in Items
    BY DEF Items
  <2>2. \A j \in Kthreads : kpc'[j] = "complete" => j = k
    BY <1>5
  <2> QED
    BY <1>1, <1>4, <1>6, <1>7, <2>1, <2>2 DEF SentinelInv, WorkerLeaves
<1>10. (\A i : Delivered(i)' <=> Delivered(i)) /\ (NoWorkLeft' <=> NoWorkLeft)
  BY <1>1, <1>6 DEF Delivered, NoWorkLeft
<1>11. DeliveryInv'
  <2>1. \A w \in Works : \A j \in Kthreads : Holds(j, w)' => w = h
    BY <1>4, <1>5 DEF Holds, HandPcs
  <2>2. h \in Works => h \notin func
    BY <1>1, <1>2 DEF DeliveryInv
  <2> QED
    BY <1>1, <1>4, <1>10, <2>1, <2>2 DEF DeliveryInv, WorkerLeaves
<1>12. FlushInv' /\ LastInv'
  BY <1>1, <1>4, <1>6, <1>10 DEF FlushInv, LastInv, WorkerLeaves, WTypes, WTypeOK
<1> QED
  BY <1>3, <1>4, <1>5, <1>8, <1>9, <1>11, <1>12

\* The item is completed and the worker lets go of it.
LEMMA CompleteOK ==
  ASSUME WInv, NEW k \in Kthreads, ExecuteComplete(k)
  PROVE  WInv'
<1> USE DEF WInv
<1>0. PICK h : h = item[k]
  OBVIOUS
<1>1. /\ kpc[k] = "complete" /\ kpc' = [kpc EXCEPT ![k] = "body"]
      /\ completed' = [completed EXCEPT ![h] = TRUE] /\ item' = [item EXCEPT ![k] = NoItem]
      /\ UNCHANGED <<cpc, ret, wq, work, func, worker, workerLock, shutdown, arg, afterFlush,
                     destroying, spawnFailures, accepted, before, drained>>
  BY <1>0 DEF ExecuteComplete, KthreadAt, callerVars, wqVars, clientVars
<1>2. h \in Items /\ Holds(k, h)
  BY <1>0, <1>1 DEF OneWorker, HandPcs, Holds
<1>3. WTypes'
  BY <1>1, <1>2 DEF WTypes, WTypeOK, WorkerPcs, KthreadPcs
<1>4. RetInv' /\ WorkerLeaves(k) /\ kpc'[k] = "body" /\ item'[k] = NoItem
  BY <1>0, <1>1 DEF RetInv, WorkerLeaves, Phase, WTypes, WTypeOK
<1>5. /\ PhaseInv' /\ OneWorker'
      /\ \A j \in Kthreads \ {k} : kpc[j] = "unborn" /\ kpc'[j] = "unborn"
      /\ \A i : Held(i) <=> Holds(k, i)
      /\ \A i : Held(i)' <=> Holds(k, i)'
      /\ \A i : (\E j \in Kthreads : Popped(j, i)) <=> Popped(k, i)
      /\ \A i : (\E j \in Kthreads : Popped(j, i)') <=> Popped(k, i)'
      /\ \A i : \A b \in Callers : Pushing(b, i)' <=> Pushing(b, i)
  <2>1. kpc'[k] \notin HandPcs
    BY <1>4 DEF HandPcs
  <2> QED
    BY <1>2, <1>3, <1>4, <2>1, WorkerKeeps
<1>6. /\ \A i : ~Held(i)'
      /\ \A i : \A j \in Kthreads : ~Popped(j, i)' /\ ~Popped(j, i)
      /\ \A i : Queued(i)' <=> Queued(i)
      /\ \A i : Held(i) <=> i = h
  BY <1>0, <1>1, <1>2, <1>4, <1>5 DEF Holds, Popped, HandPcs, Queued
<1>7. \A i \in Items : completed'[i] = IF i = h THEN TRUE ELSE completed[i]
  BY <1>1 DEF WTypes, WTypeOK
<1>8. Place'
  BY <1>1, <1>5, <1>6 DEF Place
<1>9. SentinelInv'
  <2>1. \A a \in Callers : a \in Items
    BY DEF Items
  <2>2. \A j \in Kthreads : kpc'[j] # "complete"
    BY <1>4, <1>5
  <2>3. h \in Callers => work[h] = "idle"
    BY <1>0, <1>1 DEF SentinelInv
  <2> QED
    BY <1>1, <1>4, <1>6, <1>7, <2>1, <2>2, <2>3 DEF SentinelInv, WorkerLeaves
<1>10. (\A i \in Items : Delivered(i)' <=> Delivered(i)) /\ (NoWorkLeft => NoWorkLeft')
  BY <1>6, <1>7 DEF Delivered, NoWorkLeft
<1>11. DeliveryInv'
  <2>1. h \in Works => h \notin func
    BY <1>1, <1>2 DEF DeliveryInv
  <2>2. Works \subseteq Items /\ accepted \subseteq Works
    BY DEF Items, WTypes, WTypeOK
  <2>3. \A a \in Callers : Phase(a) = "pushed" => arg[a] \in Items
    BY <2>2 DEF PhaseInv, Queueing
  <2>4. \A w \in Works : \A j \in Kthreads : ~Holds(j, w)'
    BY <1>6 DEF Held
  <2>5. \A w \in Works : completed'[w] => w \notin func'
    BY <1>1, <1>7, <2>1, <2>2 DEF DeliveryInv
  <2>6. \A w \in accepted' : Delivered(w)'
    BY <1>1, <1>10, <2>2 DEF DeliveryInv
  <2>7. \A a \in Callers : Phase(a)' = "pushed" => Delivered(arg[a])'
    BY <1>1, <1>4, <1>10, <2>3 DEF DeliveryInv, WorkerLeaves, Delivered, Queued
  <2> QED
    BY <1>1, <2>4, <2>5, <2>6, <2>7 DEF DeliveryInv
<1>12. FlushInv'
  <2>1. Works \subseteq Items /\ Callers \subseteq Items /\ Works \cap Callers = {}
        /\ \A a \in Callers : before[a] \subseteq Works
    BY WorkAssumption DEF Items, WTypes, WTypeOK
  <2>2. ASSUME NEW a \in Callers, Phase(a) = "flushing", NEW w \in before[a], ~completed'[w]
        PROVE  ~completed'[a] /\ Ahead(wq, w, a)
    <3>1. ~completed[w] /\ w # h /\ w \in Works /\ w # a
      BY <1>7, <2>1, <2>2
    <3>2. ~completed[a] /\ Ahead(wq, w, a) /\ ~Held(a)
      BY <1>6, <2>2, <3>1 DEF FlushInv
    <3> QED
      BY <1>6, <1>7, <2>1, <3>2
  <2> QED
    BY <1>1, <1>4, <1>6, <2>2 DEF FlushInv, WorkerLeaves
<1>13. LastInv'
  <2>1. Callers \subseteq Items /\ destroying \subseteq Callers
    BY DEF Items, WTypes, WTypeOK
  <2>2. ASSUME NEW a \in destroying, Phase(a) = "flushing", NEW w \in Works, Queued(w)
        PROVE  ~completed'[a] /\ ~Behind(wq, w, a)
    <3>1. ~completed[a] /\ ~Held(a) /\ ~Behind(wq, w, a)
      BY <2>2 DEF LastInv
    <3> QED
      BY <1>6, <1>7, <2>1, <3>1
  <2> QED
    BY <1>1, <1>4, <1>6, <1>10, <2>1, <2>2 DEF LastInv, WorkerLeaves
<1> QED
  BY <1>3, <1>4, <1>5, <1>8, <1>9, <1>11, <1>12, <1>13

-----------------------------------------------------------------------------
(***************************************************************************)
(* The clients' steps on items.                                             *)
(***************************************************************************)

\* A client's step takes nothing out of the hands of a worker.
LEMMA ClientKeeps ==
  ASSUME kpc' = kpc, item' = item, UNCHANGED worker, UNCHANGED shutdown
  PROVE  /\ OneWorker => OneWorker'
         /\ \A i : Held(i)' <=> Held(i)
         /\ \A i : \A k \in Kthreads : Holds(k, i)' <=> Holds(k, i)
         /\ \A i : \A k \in Kthreads : Popped(k, i)' <=> Popped(k, i)
  BY DEF OneWorker, Held, Holds, Popped

\* try_set_pending wins.
LEMMA SetPendingOK ==
  ASSUME WInv, NEW a \in Callers, NEW w \in Works, SetPending(a, w)
  PROVE  WInv'
<1> USE DEF WInv
<1>1. /\ destroying = {} /\ ~drained /\ work[w] = "idle"
      /\ cpc[a] = "idle" /\ cpc' = [cpc EXCEPT ![a] = "q_push"]
      /\ arg' = [arg EXCEPT ![a] = w] /\ work' = [work EXCEPT ![w] = "pending"]
      /\ UNCHANGED <<kpc, ret, wq, completed, func, item, worker, workerLock, shutdown, afterFlush,
                     destroying, spawnFailures, accepted, before, drained>>
  BY DEF SetPending, Step, CallerAt, wqVars
<1>2. ret[a] \in RetPcs /\ ret' = [ret EXCEPT ![a] = ret[a]] /\ Phase(a) = "idle"
      /\ PhaseOf("q_push", ret[a]) = "q_push"
  BY <1>1 DEF WTypes, Phase, PhaseOf
<1>3. /\ cpc' \in [Callers -> ClientPcs] /\ ret' \in [Callers -> RetPcs]
      /\ RetInv' /\ MovesTo(a, "q_push")
  <2>1. /\ "q_push" \in ClientPcs /\ WTypes /\ RetInv
        /\ "q_push" \notin {"unpark", "unblock", "stop", "stop_swap", "join"}
    BY DEF ClientPcs
  <2>2. cpc' = [cpc EXCEPT ![a] = "q_push"]
    BY <1>1
  <2> QED
    BY <1>2, <2>1, <2>2, ClientMoves
<1>4. WTypes'
  BY <1>1, <1>3 DEF WTypes, WTypeOK, Items
<1>5. /\ OneWorker'
      /\ \A i : Held(i)' <=> Held(i)
      /\ \A i : \A k \in Kthreads : Holds(k, i)' <=> Holds(k, i)
      /\ \A i : \A k \in Kthreads : Popped(k, i)' <=> Popped(k, i)
      /\ \A i : Queued(i)' <=> Queued(i)
  BY <1>1, ClientKeeps DEF Queued
<1>6. \A b \in Callers : arg'[b] = IF b = a THEN w ELSE arg[b]
  BY <1>1 DEF WTypes, WTypeOK
<1>7. PhaseInv'
  BY <1>1, <1>2, <1>3, <1>6 DEF PhaseInv, MovesTo, Queueing, WTypes, WTypeOK
<1>8. \A i : \A b \in Callers : Pushing(b, i)' <=> IF b = a THEN i = w ELSE Pushing(b, i)
  BY <1>2, <1>3, <1>6 DEF Pushing, MovesTo
<1>9. Works \subseteq Items /\ Callers \subseteq Items /\ Works \cap Callers = {}
  BY WorkAssumption DEF Items
<1>10. \A i \in Items : work'[i] = IF i = w THEN "pending" ELSE work[i]
  BY <1>1 DEF WTypes, WTypeOK
<1>11. Place'
  <2>1. ~Queued(w) /\ (\A b \in Callers : ~Pushing(b, w)) /\ (\A k \in Kthreads : ~Popped(k, w))
    BY <1>1, <1>9 DEF Place
  <2>2. \A i \in Items : ~Pushing(a, i)
    BY <1>2 DEF Pushing
  <2>3. \A i \in Items :
          work'[i] # "idle" <=> ((\E b \in Callers : Pushing(b, i)') \/ Queued(i)'
                                  \/ (\E j \in Kthreads : Popped(j, i)'))
    BY <1>5, <1>8, <1>10, <2>2 DEF Place
  <2>4. \A b, c \in Callers, i \in Items : Pushing(b, i)' /\ Pushing(c, i)' => b = c
    BY <1>8, <2>1 DEF Place
  <2>5. \A b \in Callers, i \in Items : Pushing(b, i)' => ~Queued(i)' /\ \A k \in Kthreads : ~Popped(k, i)'
    BY <1>5, <1>8, <2>1 DEF Place
  <2> QED
    BY <1>1, <1>5, <2>3, <2>4, <2>5 DEF Place
<1>12. SentinelInv'
  BY <1>1, <1>2, <1>3, <1>5, <1>9, <1>10 DEF SentinelInv, MovesTo
<1>13. \A i : Delivered(i)' <=> Delivered(i)
  BY <1>1, <1>5 DEF Delivered
<1>14. DeliveryInv'
  BY <1>1, <1>3, <1>5, <1>6, <1>13 DEF DeliveryInv, MovesTo
<1>15. FlushInv'
  BY <1>1, <1>3, <1>5 DEF FlushInv, MovesTo
<1>16. LastInv'
  BY <1>1, <1>3, <1>5 DEF LastInv, MovesTo, NoWorkLeft
<1> QED
  BY <1>3, <1>4, <1>5, <1>7, <1>11, <1>12, <1>14, <1>15, <1>16

\* The Work goes to the end of the queue.
LEMMA QueuePushOK ==
  ASSUME WInv, NEW a \in Callers, QueuePush(a)
  PROVE  WInv'
<1> USE DEF WInv
<1>0. PICK w : w = arg[a]
  OBVIOUS
<1>1. /\ cpc[a] = "q_push" /\ cpc' = [cpc EXCEPT ![a] = "q_worker"]
      /\ wq' = Append(wq, w)
      /\ UNCHANGED <<kpc, ret, work, completed, func, item, worker, workerLock, shutdown, arg, afterFlush,
                     destroying, spawnFailures, accepted, before, drained>>
  BY <1>0 DEF QueuePush, Step, CallerAt, wqVars, clientVars
<1>2. ret[a] \in RetPcs /\ ret' = [ret EXCEPT ![a] = ret[a]] /\ Phase(a) = "q_push"
      /\ PhaseOf("q_worker", ret[a]) = "pushed"
  BY <1>1 DEF WTypes, Phase, PhaseOf
<1>3. /\ cpc' \in [Callers -> ClientPcs] /\ ret' \in [Callers -> RetPcs]
      /\ RetInv' /\ MovesTo(a, "pushed")
  <2>1. "q_worker" \in ClientPcs
    BY DEF ClientPcs
  <2> QED
    BY <1>1, <1>2, <2>1, ClientMoves
<1>4. /\ w \in Works /\ w \in Items /\ Pushing(a, w) /\ destroying = {} /\ ~drained /\ ~shutdown
      /\ wq \in Seq(Items)
  BY <1>0, <1>2 DEF PhaseInv, Queueing, Items, Pushing, WTypes, WTypeOK
<1>5. /\ wq' \in Seq(Items)
      /\ \A i : Queued(i)' <=> Queued(i) \/ i = w
      /\ \A i, j : Ahead(wq, i, j) => Ahead(wq', i, j)
      /\ Distinct(wq) /\ ~Queued(w) => Distinct(wq')
  BY <1>1, <1>4, AppendPlaces DEF Queued
<1>6. WTypes'
  BY <1>1, <1>3, <1>5 DEF WTypes, WTypeOK
<1>7. /\ OneWorker'
      /\ \A i : Held(i)' <=> Held(i)
      /\ \A i : \A k \in Kthreads : Holds(k, i)' <=> Holds(k, i)
      /\ \A i : \A k \in Kthreads : Popped(k, i)' <=> Popped(k, i)
  BY <1>1, ClientKeeps
<1>8. PhaseInv'
  BY <1>1, <1>2, <1>3 DEF PhaseInv, MovesTo, Queueing, WTypes, WTypeOK
<1>9. \A i : \A b \in Callers : Pushing(b, i)' <=> b # a /\ Pushing(b, i)
  BY <1>1, <1>3 DEF Pushing, MovesTo
<1>10. Place'
  <2>1. ~Queued(w) /\ (\A b \in Callers : Pushing(b, w) => b = a) /\ (\A k \in Kthreads : ~Popped(k, w))
    BY <1>4 DEF Place
  <2>2. \A i \in Items : Pushing(a, i) => i = w
    BY <1>0 DEF Pushing
  <2>3. \A i \in Items :
          work'[i] # "idle" <=> ((\E b \in Callers : Pushing(b, i)') \/ Queued(i)'
                                  \/ (\E j \in Kthreads : Popped(j, i)'))
    BY <1>1, <1>4, <1>5, <1>7, <1>9, <2>2 DEF Place
  <2>4. \A b, c \in Callers, i \in Items : Pushing(b, i)' /\ Pushing(c, i)' => b = c
    BY <1>9 DEF Place
  <2>5. \A b \in Callers, i \in Items : Pushing(b, i)' => ~Queued(i)' /\ \A k \in Kthreads : ~Popped(k, i)'
    BY <1>5, <1>7, <1>9, <2>1 DEF Place
  <2>6. \A k \in Kthreads, i \in Items : Popped(k, i)' => ~Queued(i)'
    BY <1>5, <1>7, <2>1 DEF Place
  <2> QED
    BY <1>5, <2>1, <2>3, <2>4, <2>5, <2>6 DEF Place
<1>11. SentinelInv'
  BY <1>1, <1>2, <1>3, <1>7 DEF SentinelInv, MovesTo
<1>12. (\A i : Delivered(i) => Delivered(i)') /\ Delivered(w)'
  BY <1>1, <1>5, <1>7 DEF Delivered
<1>13. DeliveryInv'
  <2>1. \A b \in Callers : Phase(b)' = "pushed" => Delivered(arg[b])'
    <3>1. TAKE b \in Callers
    <3>2. HAVE Phase(b)' = "pushed"
    <3>3. CASE b = a
      BY <1>0, <1>1, <1>12, <3>3
    <3>4. CASE b # a
      <4>1. Delivered(arg[b])
        BY <1>3, <3>2, <3>4 DEF MovesTo, DeliveryInv
      <4>2. PICK v : v = arg[b]
        OBVIOUS
      <4> QED
        BY <1>1, <1>12, <4>1, <4>2
    <3> QED
      BY <3>3, <3>4
  <2> QED
    BY <1>1, <1>7, <1>12, <2>1 DEF DeliveryInv
<1>14. FlushInv'
  BY <1>1, <1>3, <1>5, <1>7 DEF FlushInv, MovesTo
<1>15. LastInv'
  <2>1. \A b \in Callers : Phase(b)' # "d_take"
    BY <1>3, <1>4 DEF MovesTo, PhaseInv
  <2> QED
    BY <1>1, <1>4, <2>1 DEF LastInv
<1> QED
  BY <1>3, <1>6, <1>7, <1>8, <1>10, <1>11, <1>13, <1>14, <1>15

\* queue returns: to this client the Work is accepted.
LEMMA ReturnOK ==
  ASSUME WInv, NEW a \in Callers,
         EnsureWorkerFails(a) \/ QueueDone(a) \/ \E k \in Kthreads : EnsureWorkerSpawns(a, k)
  PROVE  WInv'
<1> USE DEF WInv
<1>0. PICK w : w = arg[a]
  OBVIOUS
<1>1. /\ cpc[a] \in {"q_worker", "q_done"} /\ cpc' = [cpc EXCEPT ![a] = "idle"]
      /\ accepted' = accepted \union {w} /\ arg' = [arg EXCEPT ![a] = NoItem]
      /\ UNCHANGED <<ret, wq, work, completed, func, item, shutdown, afterFlush, destroying,
                     before, drained>>
  BY <1>0 DEF EnsureWorkerFails, QueueDone, EnsureWorkerSpawns, QueueReturn, Step, CallerAt,
              itemVars
<1>2. /\ workerLock' \in Callers \union {NoClient}
      /\ worker' \in Kthreads \union {NoKthread}
      /\ spawnFailures' \in 0 .. MaxSpawnFailures
  BY FailureAssumption
     DEF EnsureWorkerFails, QueueDone, EnsureWorkerSpawns, WTypes, WTypeOK
<1>3. \/ kpc' = kpc /\ worker' = worker
      \/ /\ worker = NoKthread /\ worker' # NoKthread
         /\ \E k \in Kthreads : kpc' = [kpc EXCEPT ![k] = "body"]
  BY KthreadAssumption DEF EnsureWorkerFails, QueueDone, EnsureWorkerSpawns, SpawnKthread, Step, CallerAt
<1>4. ret[a] \in RetPcs /\ ret' = [ret EXCEPT ![a] = ret[a]] /\ Phase(a) = "pushed"
      /\ PhaseOf("idle", ret[a]) = "idle"
  BY <1>1 DEF WTypes, Phase, PhaseOf
<1>5. /\ cpc' \in [Callers -> ClientPcs] /\ ret' \in [Callers -> RetPcs]
      /\ RetInv' /\ MovesTo(a, "idle")
  <2>1. /\ "idle" \in ClientPcs /\ WTypes /\ RetInv
        /\ "idle" \notin {"unpark", "unblock", "stop", "stop_swap", "join"}
    BY DEF ClientPcs
  <2>2. cpc' = [cpc EXCEPT ![a] = "idle"]
    BY <1>1
  <2> QED
    BY <1>4, <2>1, <2>2, ClientMoves
<1>6. w \in Works /\ Delivered(w) /\ destroying = {} /\ ~drained /\ ~shutdown
  BY <1>0, <1>4 DEF PhaseInv, Queueing, DeliveryInv
<1>7. WTypes'
  <2>1. kpc' \in [Kthreads -> WorkerPcs]
    BY <1>3 DEF WTypes, WorkerPcs, KthreadPcs
  <2> QED
    BY <1>1, <1>2, <1>5, <1>6, <2>1 DEF WTypes, WTypeOK
<1>8. /\ OneWorker'
      /\ \A k \in Kthreads : kpc[k] \in HandPcs \/ kpc'[k] \in HandPcs => kpc'[k] = kpc[k]
  <2>1. CASE kpc' = kpc /\ worker' = worker
    BY <1>1, <2>1 DEF OneWorker
  <2>2. CASE /\ worker = NoKthread /\ worker' # NoKthread
             /\ \E k \in Kthreads : kpc' = [kpc EXCEPT ![k] = "body"]
    <3>1. \A k \in Kthreads : kpc[k] = "unborn"
      BY <1>6, <2>2 DEF OneWorker
    <3>2. PICK k \in Kthreads : kpc' = [kpc EXCEPT ![k] = "body"]
      BY <2>2
    <3>3. \A j \in Kthreads : kpc'[j] = IF j = k THEN "body" ELSE "unborn"
      BY <3>1, <3>2 DEF WTypes
    <3> QED
      BY <2>2, <3>1, <3>3 DEF OneWorker, HandPcs
  <2> QED
    BY <1>3, <2>1, <2>2
<1>9. /\ \A i : \A k \in Kthreads : Holds(k, i)' <=> Holds(k, i)
      /\ \A i : \A k \in Kthreads : Popped(k, i)' <=> Popped(k, i)
      /\ \A i : Held(i)' <=> Held(i)
      /\ \A i : Queued(i)' <=> Queued(i)
  BY <1>1, <1>8 DEF Holds, Popped, Held, Queued, HandPcs
<1>10. \A b \in Callers : b # a => arg'[b] = arg[b]
  BY <1>1 DEF WTypes, WTypeOK
<1>11. \A i : \A b \in Callers : Pushing(b, i)' <=> Pushing(b, i)
  BY <1>4, <1>5, <1>10 DEF Pushing, MovesTo
<1>12. PhaseInv'
  BY <1>1, <1>5, <1>6, <1>10 DEF PhaseInv, MovesTo, Queueing
<1>13. Place'
  BY <1>1, <1>9, <1>11 DEF Place
<1>14. SentinelInv'
  BY <1>1, <1>4, <1>5, <1>8, <1>9 DEF SentinelInv, MovesTo, HandPcs
<1>15. \A i : Delivered(i)' <=> Delivered(i)
  BY <1>1, <1>9 DEF Delivered
<1>16. DeliveryInv'
  <2>1. \A b \in Callers : Phase(b)' = "pushed" => Delivered(arg[b])'
    <3>1. TAKE b \in Callers
    <3>2. HAVE Phase(b)' = "pushed"
    <3>3. b # a /\ Delivered(arg[b])
      BY <1>5, <3>2 DEF MovesTo, DeliveryInv
    <3>4. PICK v : v = arg[b]
      OBVIOUS
    <3> QED
      BY <1>10, <1>15, <3>3, <3>4
  <2>2. \A v \in accepted' : Delivered(v)'
    BY <1>1, <1>6, <1>15 DEF DeliveryInv
  <2>3. \A v \in Works : \A k \in Kthreads : Holds(k, v)' /\ kpc'[k] # "execute" => v \notin func'
    BY <1>1, <1>8, <1>9 DEF DeliveryInv, Holds
  <2> QED
    BY <1>1, <2>1, <2>2, <2>3 DEF DeliveryInv
<1>17. FlushInv'
  BY <1>1, <1>5, <1>9 DEF FlushInv, MovesTo
<1>18. LastInv'
  <2>1. \A b \in Callers : Phase(b)' # "d_take"
    BY <1>5, <1>6 DEF MovesTo, PhaseInv
  <2> QED
    BY <1>1, <1>6, <2>1 DEF LastInv
<1> QED
  BY <1>5, <1>7, <1>8, <1>12, <1>13, <1>14, <1>16, <1>17, <1>18

\* A flush begins, alone or inside destroy; without a worker it is over at once.
LEMMA BeginFlushOK ==
  ASSUME WInv, NEW a \in Callers, BeginFlush(a) \/ BeginDestroy(a)
  PROVE  WInv'
<1> USE DEF WInv
<1>1. PICK c \in {"idle", "d_take"} :
        /\ Flush(a, "idle", c)
        /\ c = "idle" => destroying' = destroying
        /\ c = "d_take" => /\ destroying = {} /\ ~drained /\ destroying' = {a}
                           /\ \A b \in Callers \ {a} : cpc[b] = "idle"
  BY DEF BeginFlush, BeginDestroy
<1>2. PICK pc \in {"idle", "d_take", "f_push"} : pc = IF worker = NoKthread THEN c ELSE "f_push"
  OBVIOUS
<1>3. /\ cpc[a] = "idle" /\ cpc' = [cpc EXCEPT ![a] = pc]
      /\ afterFlush' = [afterFlush EXCEPT ![a] = c]
      /\ before' = [before EXCEPT ![a] = IF worker = NoKthread THEN {} ELSE accepted]
      /\ UNCHANGED <<kpc, ret, wq, work, completed, func, item, worker, workerLock, shutdown, arg,
                     spawnFailures, accepted, drained>>
  BY <1>1, <1>2 DEF Flush, Step, CallerAt, itemVars, wqVars
<1>4. ret[a] \in RetPcs /\ ret' = [ret EXCEPT ![a] = ret[a]] /\ Phase(a) = "idle"
      /\ PhaseOf(pc, ret[a]) = pc
  BY <1>3 DEF WTypes, Phase, PhaseOf
<1>5. /\ cpc' \in [Callers -> ClientPcs] /\ ret' \in [Callers -> RetPcs]
      /\ RetInv' /\ MovesTo(a, pc)
  <2>1. /\ pc \in ClientPcs /\ WTypes /\ RetInv
        /\ pc \notin {"unpark", "unblock", "stop", "stop_swap", "join"}
    BY DEF ClientPcs
  <2>2. cpc' = [cpc EXCEPT ![a] = pc]
    BY <1>3
  <2>3. ret[a] \in RetPcs /\ ret' = [ret EXCEPT ![a] = ret[a]]
    BY <1>4
  <2>4. /\ cpc' \in [Callers -> ClientPcs] /\ ret' \in [Callers -> RetPcs]
        /\ RetInv' /\ MovesTo(a, PhaseOf(pc, ret[a]))
    BY <2>1, <2>2, <2>3, ClientMoves
  <2> QED
    BY <1>4, <2>4
<1>6. WTypes'
  <2>1. destroying' \subseteq Callers
    BY <1>1 DEF WTypes, WTypeOK
  <2> QED
    BY <1>3, <1>5, <2>1 DEF WTypes, WTypeOK
<1>7. /\ OneWorker'
      /\ \A i : Held(i)' <=> Held(i)
      /\ \A i : \A k \in Kthreads : Holds(k, i)' <=> Holds(k, i)
      /\ \A i : \A k \in Kthreads : Popped(k, i)' <=> Popped(k, i)
      /\ \A i : Queued(i)' <=> Queued(i)
  BY <1>3, ClientKeeps DEF Queued
<1>8. \A i : \A b \in Callers : Pushing(b, i)' <=> Pushing(b, i)
  BY <1>3, <1>4, <1>5 DEF Pushing, MovesTo
<1>9. a \notin destroying
  BY <1>4 DEF PhaseInv
<1>10. PhaseInv'
  <2>1. \A b \in Callers : afterFlush'[b] = IF b = a THEN c ELSE afterFlush[b]
    BY <1>3 DEF WTypes
  <2>2. CASE c = "idle"
    BY <1>1, <1>2, <1>3, <1>4, <1>5, <1>9, <2>1, <2>2 DEF PhaseInv, MovesTo, Queueing, WTypes, WTypeOK
  <2>3. CASE c = "d_take"
    <3>1. \A b \in Callers : b # a => Phase(b)' = "idle"
      BY <1>1, <1>5, <2>3 DEF MovesTo, Phase, PhaseOf
    <3>2. Phase(a)' = pc /\ pc \in {"f_push", "d_take"}
      BY <1>2, <1>5, <2>3 DEF MovesTo
    <3>3. ~drained /\ ~shutdown
      BY <1>1, <2>3 DEF PhaseInv
    <3> QED
      BY <1>1, <1>3, <2>1, <2>3, <3>1, <3>2, <3>3 DEF PhaseInv, Queueing
  <2> QED
    BY <2>2, <2>3
<1>11. Place'
  BY <1>3, <1>7, <1>8 DEF Place
<1>12. SentinelInv'
  BY <1>3, <1>4, <1>5, <1>7 DEF SentinelInv, MovesTo
<1>13. (\A i : Delivered(i)' <=> Delivered(i)) /\ (NoWorkLeft' <=> NoWorkLeft)
  BY <1>3, <1>7 DEF Delivered, NoWorkLeft
<1>14. \A b \in Callers : before'[b] = IF b = a THEN IF worker = NoKthread THEN {} ELSE accepted
                                       ELSE before[b]
  BY <1>3 DEF WTypes, WTypeOK
<1>15. DeliveryInv'
  BY <1>3, <1>5, <1>7, <1>13, <1>14 DEF DeliveryInv, MovesTo
<1>16. FlushInv'
  BY <1>3, <1>5, <1>7, <1>14 DEF FlushInv, MovesTo
<1>17. LastInv'
  <2>1. \A b \in Callers : Phase(b)' = "d_take" /\ worker # NoKthread => Phase(b) = "d_take"
    BY <1>2, <1>5 DEF MovesTo
  <2>2. \A b \in destroying' : Phase(b)' = "flushing" => b \in destroying /\ Phase(b) = "flushing"
    BY <1>1, <1>5, <1>6 DEF MovesTo, WTypes, WTypeOK
  <2> QED
    BY <1>3, <1>7, <1>13, <2>1, <2>2 DEF LastInv
<1> QED
  BY <1>5, <1>6, <1>7, <1>10, <1>11, <1>12, <1>15, <1>16, <1>17

\* The sentinel goes behind everything that was queued before.
LEMMA FlushPushOK ==
  ASSUME WInv, NEW a \in Callers, FlushPush(a)
  PROVE  WInv'
<1> USE DEF WInv
<1>1. /\ cpc[a] = "f_push" /\ cpc' = [cpc EXCEPT ![a] = "f_wake"]
      /\ work' = [work EXCEPT ![a] = "pending"] /\ completed' = [completed EXCEPT ![a] = FALSE]
      /\ func' = func \union {a} /\ wq' = Append(wq, a)
      /\ UNCHANGED <<kpc, ret, item, worker, workerLock, shutdown, arg, afterFlush,
                     destroying, spawnFailures, accepted, before, drained>>
  BY DEF FlushPush, Step, CallerAt, wqVars, clientVars
<1>2. ret[a] \in RetPcs /\ ret' = [ret EXCEPT ![a] = ret[a]] /\ Phase(a) = "f_push"
      /\ PhaseOf("f_wake", ret[a]) = "flushing"
  BY <1>1 DEF WTypes, Phase, PhaseOf
<1>3. /\ cpc' \in [Callers -> ClientPcs] /\ ret' \in [Callers -> RetPcs]
      /\ RetInv' /\ MovesTo(a, "flushing")
  <2>1. /\ "f_wake" \in ClientPcs /\ WTypes /\ RetInv
        /\ "f_wake" \notin {"unpark", "unblock", "stop", "stop_swap", "join"}
    BY DEF ClientPcs
  <2>2. cpc' = [cpc EXCEPT ![a] = "f_wake"]
    BY <1>1
  <2> QED
    BY <1>2, <2>1, <2>2, ClientMoves
<1>4. /\ Works \subseteq Items /\ Callers \subseteq Items /\ Works \cap Callers = {}
      /\ a \in Items /\ wq \in Seq(Items)
  BY WorkAssumption DEF Items, WTypes, WTypeOK
<1>5. work[a] = "idle" /\ ~Held(a)
  BY <1>2 DEF SentinelInv
<1>6. ~Queued(a) /\ (\A b \in Callers : ~Pushing(b, a)) /\ (\A k \in Kthreads : ~Popped(k, a))
  BY <1>4, <1>5 DEF Place
<1>7. /\ wq' \in Seq(Items)
      /\ \A i : Queued(i)' <=> Queued(i) \/ i = a
      /\ \A i, j : Ahead(wq, i, j) => Ahead(wq', i, j)
      /\ \A i : Queued(i) => Ahead(wq', i, a) /\ ~Behind(wq', i, a)
      /\ \A i, j : Behind(wq', i, j) => Behind(wq, i, j) \/ i = a
      /\ Distinct(wq) => Distinct(wq')
  BY <1>1, <1>4, <1>6, AppendPlaces DEF Queued
<1>8. WTypes'
  BY <1>1, <1>3, <1>4, <1>7 DEF WTypes, WTypeOK
<1>9. /\ OneWorker'
      /\ \A i : Held(i)' <=> Held(i)
      /\ \A i : \A k \in Kthreads : Holds(k, i)' <=> Holds(k, i)
      /\ \A i : \A k \in Kthreads : Popped(k, i)' <=> Popped(k, i)
  BY <1>1, ClientKeeps
<1>10. \A i : \A b \in Callers : Pushing(b, i)' <=> Pushing(b, i)
  BY <1>1, <1>2, <1>3 DEF Pushing, MovesTo
<1>11. PhaseInv'
  BY <1>1, <1>2, <1>3 DEF PhaseInv, MovesTo, Queueing, WTypes, WTypeOK
<1>12. /\ \A i \in Items : work'[i] = IF i = a THEN "pending" ELSE work[i]
       /\ \A i \in Items : completed'[i] = IF i = a THEN FALSE ELSE completed[i]
  BY <1>1 DEF WTypes, WTypeOK
<1>13. Place'
  <2>1. \A i \in Items :
          work'[i] # "idle" <=> ((\E b \in Callers : Pushing(b, i)') \/ Queued(i)'
                                  \/ (\E j \in Kthreads : Popped(j, i)'))
    BY <1>7, <1>9, <1>10, <1>12 DEF Place
  <2>2. \A b \in Callers, i \in Items : Pushing(b, i)' => ~Queued(i)' /\ \A k \in Kthreads : ~Popped(k, i)'
    BY <1>6, <1>7, <1>9, <1>10 DEF Place
  <2>3. \A k \in Kthreads, i \in Items : Popped(k, i)' => ~Queued(i)'
    BY <1>6, <1>7, <1>9 DEF Place
  <2> QED
    BY <1>7, <1>10, <2>1, <2>2, <2>3 DEF Place
<1>14. SentinelInv'
  <2>1. \A k \in Kthreads : kpc[k] = "complete" => item[k] # a
    BY <1>5 DEF Held, Holds, HandPcs
  <2> QED
    BY <1>1, <1>3, <1>4, <1>9, <1>12, <2>1 DEF SentinelInv, MovesTo
<1>15. \A i \in Works : Delivered(i) => Delivered(i)'
  BY <1>4, <1>7, <1>9, <1>12 DEF Delivered
<1>16. accepted \subseteq Works /\ \A b \in Callers : before[b] \subseteq accepted
  BY DEF WTypes, WTypeOK, DeliveryInv
<1>17. DeliveryInv'
  <2>1. \A b \in Callers : Phase(b)' = "pushed" => Delivered(arg[b])'
    <3>1. TAKE b \in Callers
    <3>2. HAVE Phase(b)' = "pushed"
    <3>3. Phase(b) = "pushed"
      BY <1>3, <3>2 DEF MovesTo
    <3>4. Delivered(arg[b]) /\ arg[b] \in Works
      BY <3>3 DEF DeliveryInv, PhaseInv, Queueing
    <3>5. PICK v : v = arg[b]
      OBVIOUS
    <3> QED
      BY <1>1, <1>15, <3>4, <3>5
  <2>2. \A w \in Works : (w \in func' <=> w \in func) /\ (completed'[w] <=> completed[w])
    BY <1>1, <1>4, <1>12
  <2> QED
    BY <1>1, <1>9, <1>15, <1>16, <2>1, <2>2 DEF DeliveryInv
<1>18. FlushInv'
  <2>1. ASSUME NEW b \in Callers, Phase(b)' = "flushing", NEW w \in before[b]
        PROVE  completed'[w] \/ (~completed'[b] /\ (Held(w)' \/ (Ahead(wq', w, b) /\ ~Held(b)')))
    <3>1. w \in Works /\ w \in Items /\ completed'[w] = completed[w] /\ Delivered(w)
      BY <1>4, <1>12, <1>16, <2>1 DEF DeliveryInv
    <3>2. CASE b = a
      <4>1. ~completed'[a]
        BY <1>4, <1>12
      <4> QED
        BY <1>5, <1>7, <1>9, <3>1, <3>2, <4>1 DEF Delivered
    <3>3. CASE b # a
      <4>1. Phase(b) = "flushing" /\ completed'[b] = completed[b]
        BY <1>3, <1>4, <1>12, <2>1, <3>3 DEF MovesTo
      <4> QED
        BY <1>7, <1>9, <2>1, <3>1, <4>1 DEF FlushInv
    <3> QED
      BY <3>2, <3>3
  <2> QED
    BY <1>1, <2>1 DEF FlushInv
<1>19. LastInv'
  <2>1. ASSUME NEW b \in destroying, Phase(b)' = "flushing", NEW w \in Works
        PROVE  /\ Held(w)' => ~completed'[b]
               /\ Queued(w)' => ~completed'[b] /\ ~Held(b)' /\ ~Behind(wq', w, b)
    <3>1. b \in Callers /\ w # a
      BY <1>4 DEF WTypes, WTypeOK
    <3>2. CASE b = a
      <4>1. ~completed'[a]
        BY <1>4, <1>12
      <4> QED
        BY <1>5, <1>7, <1>9, <3>1, <3>2, <4>1
    <3>3. CASE b # a
      <4>1. Phase(b) = "flushing" /\ completed'[b] = completed[b]
        BY <1>3, <1>4, <1>12, <2>1, <3>1, <3>3 DEF MovesTo
      <4> QED
        BY <1>7, <1>9, <2>1, <3>1, <4>1 DEF LastInv
    <3> QED
      BY <3>2, <3>3
  <2>2. NoWorkLeft => NoWorkLeft'
    BY <1>4, <1>7, <1>9 DEF NoWorkLeft
  <2>3. \A b \in Callers : Phase(b)' = "d_take" => Phase(b) = "d_take"
    BY <1>3 DEF MovesTo
  <2> QED
    BY <1>1, <2>1, <2>2, <2>3 DEF LastInv
<1> QED
  BY <1>3, <1>8, <1>9, <1>11, <1>13, <1>14, <1>17, <1>18, <1>19

\* The sentinel is completed: the flush is over.
LEMMA FlushDoneOK ==
  ASSUME WInv, NEW a \in Callers, FlushDone(a)
  PROVE  WInv'
<1> USE DEF WInv
<1>0. PICK c \in {"idle", "d_take"} : c = afterFlush[a]
  BY DEF WTypes
<1>1. /\ completed[a]
      /\ cpc[a] = "f_wait" /\ cpc' = [cpc EXCEPT ![a] = c]
      /\ before' = [before EXCEPT ![a] = {}]
      /\ UNCHANGED <<kpc, ret, wq, work, completed, func, item, worker, workerLock, shutdown, arg,
                     afterFlush, destroying, spawnFailures, accepted, drained>>
  BY <1>0 DEF FlushDone, Step, CallerAt, itemVars, wqVars
<1>2. ret[a] \in RetPcs /\ ret' = [ret EXCEPT ![a] = ret[a]] /\ Phase(a) = "flushing"
      /\ PhaseOf(c, ret[a]) = c
  BY <1>1 DEF WTypes, Phase, PhaseOf
<1>3. /\ cpc' \in [Callers -> ClientPcs] /\ ret' \in [Callers -> RetPcs]
      /\ RetInv' /\ MovesTo(a, c)
  <2>1. /\ c \in ClientPcs /\ WTypes /\ RetInv
        /\ c \notin {"unpark", "unblock", "stop", "stop_swap", "join"}
    BY DEF ClientPcs
  <2>2. cpc' = [cpc EXCEPT ![a] = c]
    BY <1>1
  <2>3. ret[a] \in RetPcs /\ ret' = [ret EXCEPT ![a] = ret[a]]
    BY <1>2
  <2>4. /\ cpc' \in [Callers -> ClientPcs] /\ ret' \in [Callers -> RetPcs]
        /\ RetInv' /\ MovesTo(a, PhaseOf(c, ret[a]))
    BY <2>1, <2>2, <2>3, ClientMoves
  <2> QED
    BY <1>2, <2>4
<1>4. WTypes'
  BY <1>1, <1>3 DEF WTypes, WTypeOK
<1>5. /\ OneWorker'
      /\ \A i : Held(i)' <=> Held(i)
      /\ \A i : \A k \in Kthreads : Holds(k, i)' <=> Holds(k, i)
      /\ \A i : \A k \in Kthreads : Popped(k, i)' <=> Popped(k, i)
      /\ \A i : Queued(i)' <=> Queued(i)
  BY <1>1, ClientKeeps DEF Queued
<1>6. \A i : \A b \in Callers : Pushing(b, i)' <=> Pushing(b, i)
  BY <1>1, <1>2, <1>3 DEF Pushing, MovesTo
<1>7. c = "d_take" <=> a \in destroying
  BY <1>0, <1>2 DEF PhaseInv
<1>8. PhaseInv'
  BY <1>1, <1>2, <1>3, <1>7 DEF PhaseInv, MovesTo, Queueing, WTypes, WTypeOK
<1>9. Place'
  BY <1>1, <1>5, <1>6 DEF Place
<1>10. SentinelInv'
  BY <1>1, <1>3, <1>5 DEF SentinelInv, MovesTo
<1>11. (\A i : Delivered(i)' <=> Delivered(i)) /\ (NoWorkLeft' <=> NoWorkLeft)
  BY <1>1, <1>5 DEF Delivered, NoWorkLeft
<1>12. \A b \in Callers : before'[b] = IF b = a THEN {} ELSE before[b]
  BY <1>1 DEF WTypes, WTypeOK
<1>13. DeliveryInv'
  BY <1>1, <1>3, <1>5, <1>11, <1>12 DEF DeliveryInv, MovesTo
<1>14. FlushInv'
  BY <1>1, <1>3, <1>5, <1>12 DEF FlushInv, MovesTo
<1>15. LastInv'
  <2>1. c = "d_take" => NoWorkLeft
    BY <1>1, <1>2, <1>7 DEF LastInv, NoWorkLeft
  <2>2. \A b \in Callers : Phase(b)' = "d_take" => Phase(b) = "d_take" \/ NoWorkLeft
    BY <1>3, <2>1 DEF MovesTo
  <2>3. \A b \in destroying : Phase(b)' = "flushing" => Phase(b) = "flushing"
    BY <1>2, <1>3, <1>4 DEF MovesTo, WTypes, WTypeOK
  <2> QED
    BY <1>1, <1>5, <1>11, <2>2, <2>3 DEF LastInv
<1> QED
  BY <1>3, <1>4, <1>5, <1>8, <1>9, <1>10, <1>13, <1>14, <1>15

\* destroy takes the worker and sets shutdown, or has nothing to do; destroy ends.
LEMMA DestroyOK ==
  ASSUME WInv, NEW a \in Callers, DestroyTake(a) \/ DestroyDone(a)
  PROVE  WInv'
<1> USE DEF WInv
<1>1. PICK pc \in {"idle", "unpark"}, r \in RetPcs :
        /\ cpc' = [cpc EXCEPT ![a] = pc] /\ ret' = [ret EXCEPT ![a] = r]
        /\ pc = "unpark" => r = "d_stop" /\ cpc[a] = "d_take" /\ worker # NoKthread
                            /\ destroying' = destroying
        /\ pc = "idle" => destroying' = {}
  BY DEF DestroyTake, DestroyDone, Step, CallerAt, RetPcs, WTypes
<1>2. /\ UNCHANGED <<kpc, wq, work, completed, func, item, arg, workerLock, afterFlush,
                     spawnFailures, accepted, before>>
      /\ \/ /\ cpc[a] = "d_take" /\ drained' = drained
            /\ worker' = NoKthread
            /\ shutdown' <=> (shutdown \/ worker # NoKthread)
            /\ pc = "idle" <=> worker = NoKthread
         \/ /\ cpc[a] = "d_done" /\ drained' = TRUE /\ UNCHANGED <<worker, shutdown>>
            /\ pc = "idle"
  <2>1. "idle" # "unpark" /\ "d_take" # "d_done"
    OBVIOUS
  <2>2. CASE DestroyTake(a)
    BY <1>1, <2>1, <2>2 DEF DestroyTake, Step, CallerAt, itemVars, WTypes
  <2>3. CASE DestroyDone(a)
    BY <1>1, <2>1, <2>3 DEF DestroyDone, Step, CallerAt, itemVars, wqVars, WTypes
  <2> QED
    BY <2>2, <2>3
<1>3. /\ cpc' \in [Callers -> ClientPcs] /\ ret' \in [Callers -> RetPcs]
      /\ RetInv' /\ MovesTo(a, IF pc = "idle" THEN "idle" ELSE "stopping")
  <2>1. /\ pc \in ClientPcs /\ WTypes /\ RetInv
        /\ pc \in {"unpark", "unblock"} => r \in {"q_done", "f_unlock", "d_stop", "d_join"}
        /\ pc \notin {"stop", "stop_swap", "join"}
    BY <1>1 DEF ClientPcs
  <2>2. cpc' = [cpc EXCEPT ![a] = pc] /\ ret' = [ret EXCEPT ![a] = r]
    BY <1>1
  <2>3. /\ cpc' \in [Callers -> ClientPcs] /\ ret' \in [Callers -> RetPcs]
        /\ RetInv' /\ MovesTo(a, PhaseOf(pc, r))
    BY <2>1, <2>2, ClientMoves
  <2>4. PhaseOf(pc, r) = IF pc = "idle" THEN "idle" ELSE "stopping"
    BY <1>1 DEF PhaseOf
  <2> QED
    BY <2>3, <2>4
<1>4. /\ Phase(a) \in {"d_take", "stopping"} /\ destroying = {a}
      /\ cpc[a] = "d_take" => Phase(a) = "d_take" /\ ~shutdown
      /\ cpc[a] = "d_done" => shutdown
  BY <1>2 DEF Phase, PhaseOf, PhaseInv
<1>5. WTypes'
  <2>1. shutdown' \in BOOLEAN /\ drained' \in BOOLEAN
    BY DEF DestroyTake, DestroyDone, wqVars, WTypes, WTypeOK
  <2>2. worker' \in Kthreads \union {NoKthread} /\ destroying' \subseteq Callers
    BY <1>1, <1>2 DEF WTypes, WTypeOK
  <2> QED
    BY <1>2, <1>3, <2>1, <2>2 DEF WTypes, WTypeOK
<1>6. /\ \A i : Held(i)' <=> Held(i)
      /\ \A i : \A k \in Kthreads : Holds(k, i)' <=> Holds(k, i)
      /\ \A i : \A k \in Kthreads : Popped(k, i)' <=> Popped(k, i)
      /\ \A i : Queued(i)' <=> Queued(i)
      /\ \A i : \A b \in Callers : Pushing(b, i)' <=> Pushing(b, i)
  BY <1>2, <1>3, <1>4 DEF Held, Holds, Popped, Queued, Pushing, MovesTo
<1>7. OneWorker'
  BY <1>2 DEF OneWorker
<1>8. PhaseInv'
  <2>1. \A b \in Callers : b # a =>
          /\ Phase(b)' = Phase(b) /\ Phase(b) \notin {"q_push", "pushed", "d_take", "stopping"}
          /\ b \notin destroying' /\ (Phase(b) \in {"f_push", "flushing"} => afterFlush[b] # "d_take")
    BY <1>1, <1>3, <1>4 DEF MovesTo, PhaseInv, Queueing
  <2>2. CASE pc = "idle"
    <3>1. Phase(a)' = "idle" /\ destroying' = {} /\ (drained' => shutdown') /\ (shutdown' => drained')
      BY <1>1, <1>2, <1>3, <1>4, <2>2 DEF MovesTo, PhaseInv
    <3> QED
      BY <1>2, <2>1, <3>1 DEF PhaseInv, Queueing
  <2>3. CASE pc = "unpark"
    <3>1. Phase(a)' = "stopping" /\ destroying' = {a} /\ shutdown' /\ drained' = drained /\ ~drained
      BY <1>1, <1>2, <1>3, <1>4, <2>3 DEF MovesTo, PhaseInv
    <3> QED
      BY <1>2, <2>1, <3>1 DEF PhaseInv, Queueing
  <2> QED
    BY <2>2, <2>3
<1>9. Place'
  BY <1>2, <1>6 DEF Place
<1>10. SentinelInv'
  BY <1>2, <1>3, <1>4, <1>6 DEF SentinelInv, MovesTo
<1>11. (\A i : Delivered(i)' <=> Delivered(i)) /\ (NoWorkLeft' <=> NoWorkLeft)
  BY <1>2, <1>6 DEF Delivered, NoWorkLeft
<1>12. DeliveryInv'
  BY <1>2, <1>3, <1>6, <1>11 DEF DeliveryInv, MovesTo
<1>13. FlushInv'
  BY <1>2, <1>3, <1>6 DEF FlushInv, MovesTo
<1>14. LastInv'
  <2>1. shutdown' => NoWorkLeft
    BY <1>2, <1>4 DEF LastInv
  <2>2. \A b \in Callers : Phase(b)' # "d_take"
    BY <1>3, <1>4 DEF MovesTo, PhaseInv
  <2>3. \A b \in destroying' : Phase(b)' # "flushing"
    BY <1>1, <1>3, <1>4 DEF MovesTo
  <2> QED
    BY <1>11, <2>1, <2>2, <2>3 DEF LastInv
<1> QED
  BY <1>3, <1>5, <1>7, <1>8, <1>9, <1>10, <1>12, <1>13, <1>14

-----------------------------------------------------------------------------
(***************************************************************************)
(* The invariant, and what follows from it.                                 *)
(***************************************************************************)

\* Before any Work is queued.
LEMMA WInitOK == WInit => WInv
<1> SUFFICES ASSUME WInit PROVE WInv
  OBVIOUS
<1> USE DEF WInit, KInit
<1>1. WTypes
  <2>1. /\ wq \in Seq(Items) /\ func \subseteq Items
        /\ work \in [Items -> {"idle", "pending", "running"}] /\ completed \in [Items -> BOOLEAN]
    BY EmptySeq
  <2>2. /\ worker \in Kthreads \union {NoKthread} /\ workerLock \in Callers \union {NoClient}
        /\ shutdown \in BOOLEAN /\ drained \in BOOLEAN
        /\ item \in [Kthreads -> Items \union {NoItem}]
    OBVIOUS
  <2>3. /\ arg \in [Callers -> Works \union {NoItem}]
        /\ destroying \subseteq Callers /\ spawnFailures \in 0 .. MaxSpawnFailures
        /\ accepted \subseteq Works /\ before \in [Callers -> SUBSET Works]
    BY FailureAssumption
  <2>4. /\ kpc \in [Kthreads -> WorkerPcs] /\ cpc \in [Callers -> ClientPcs]
        /\ ret \in [Callers -> RetPcs] /\ afterFlush \in [Callers -> {"idle", "d_take"}]
    BY DEF WorkerPcs, KthreadPcs, ClientPcs, RetPcs
  <2> QED
    BY <2>1, <2>2, <2>3, <2>4 DEF WTypes, WTypeOK
<1>2. /\ \A a \in Callers : Phase(a) = "idle"
      /\ \A k \in Kthreads : kpc[k] = "unborn"
      /\ wq = << >> /\ Len(wq) = 0 /\ \A i : ~Queued(i)
  BY EmptySeq DEF Phase, PhaseOf, Queued, In
<1>3. \A i : ~Held(i) /\ (\A k \in Kthreads : ~Popped(k, i) /\ ~Holds(k, i))
             /\ (\A a \in Callers : ~Pushing(a, i))
  BY <1>2 DEF Held, Holds, Popped, Pushing, HandPcs
<1>4. RetInv /\ PhaseInv /\ OneWorker
  BY <1>2 DEF RetInv, PhaseInv, Queueing, OneWorker, HandPcs
<1>5. Place
  <2>1. Distinct(wq)
    BY <1>2 DEF Distinct
  <2> QED
    BY <1>2, <1>3, <2>1 DEF Place
<1>6. SentinelInv
  BY <1>2, <1>3 DEF SentinelInv, Items
<1>7. DeliveryInv
  BY <1>2, <1>3 DEF DeliveryInv, Items
<1>8. FlushInv /\ LastInv
  BY <1>2 DEF FlushInv, LastInv
<1> QED
  BY <1>1, <1>4, <1>5, <1>6, <1>7, <1>8 DEF WInv

\* Every step of the workers, the clients and the CPUs keeps the invariant.
LEMMA WNextOK == WInv /\ [WNext]_allVars => WInv'
<1> SUFFICES ASSUME WInv, [WNext]_allVars PROVE WInv'
  OBVIOUS
<1>0. WTypes /\ RetInv
  BY DEF WInv
<1>1. CASE \E x \in Actors : (SwitchIn(x) \/ SwitchOut(x)) /\ UNCHANGED wvars
  <2>1. WTypes' /\ RetInv' /\ Silent
    BY <1>0, <1>1, SilentWorker
  <2> QED
    BY <2>1, SilentOK
<1>2. ASSUME NEW k \in Kthreads, WorkerStep(k) PROVE WInv'
  <2>1. CASE \/ WorkerLoop(k)
             \/ WorkerPop(k) /\ wq = << >>
             \/ (ParkStep(k) \/ ExitStart(k, 0) \/ ExitTerminate(k) \/ ExitPublish(k))
                /\ UNCHANGED wvars
    <3>1. WTypes' /\ RetInv' /\ Silent
      BY <1>0, <2>1, SilentWorker
    <3> QED
      BY <3>1, SilentOK
  <2>2. CASE WorkerPop(k) /\ wq # << >>
    BY <2>2, PopOK
  <2>3. CASE Execute(k)
    BY <2>3, ExecuteOK
  <2>4. CASE ExecuteIdle(k)
    BY <2>4, ExecuteIdleOK
  <2>5. CASE ExecuteComplete(k)
    BY <2>5, CompleteOK
  <2> QED
    BY <1>2, <2>1, <2>2, <2>3, <2>4, <2>5 DEF WorkerStep
<1>3. ASSUME NEW a \in Callers,
             ClientStep(a) \/ (\E w \in Works : SetPending(a, w)) \/ BeginFlush(a) \/ BeginDestroy(a)
      PROVE  WInv'
  <2>1. CASE \/ EnsureWorkerWakes(a) \/ FlushWake(a) \/ FlushUnlock(a)
             \/ DestroyCall(a, "d_stop", "stop", "d_join")
             \/ DestroyCall(a, "d_join", "join", "d_done")
             \/ CallStep(a) /\ UNCHANGED wvars
    <3>1. WTypes' /\ RetInv' /\ Silent
      BY <1>0, <2>1, SilentClient
    <3> QED
      BY <3>1, SilentOK
  <2>2. CASE \E w \in Works : SetPending(a, w)
    BY <2>2, SetPendingOK
  <2>3. CASE QueuePush(a)
    BY <2>3, QueuePushOK
  <2>4. CASE EnsureWorkerFails(a) \/ QueueDone(a) \/ \E k \in Kthreads : EnsureWorkerSpawns(a, k)
    BY <2>4, ReturnOK
  <2>5. CASE BeginFlush(a) \/ BeginDestroy(a)
    BY <2>5, BeginFlushOK
  <2>6. CASE FlushPush(a)
    BY <2>6, FlushPushOK
  <2>7. CASE FlushDone(a)
    BY <2>7, FlushDoneOK
  <2>8. CASE DestroyTake(a) \/ DestroyDone(a)
    BY <2>8, DestroyOK
  <2> QED
    BY <1>3, <2>1, <2>2, <2>3, <2>4, <2>5, <2>6, <2>7, <2>8 DEF ClientStep
<1>4. CASE UNCHANGED allVars
  <2>1. UNCHANGED <<kpc, cpc, ret>> /\ UNCHANGED wvars
    BY <1>4 DEF allVars, kvars, callerVars
  <2>2. WTypes' /\ RetInv' /\ Silent
    BY <1>0, <2>1
       DEF WTypes, WTypeOK, RetInv, Silent, Phase, wvars, itemVars, wqVars, clientVars
  <2> QED
    BY <2>2, SilentOK
<1> QED
  BY <1>1, <1>2, <1>3, <1>4 DEF WNext

\* The invariant of queue, flush and destroy holds in every run.
THEOREM WInvariant == WSpec => []WInv
<1>1. WInit => WInv
  BY WInitOK
<1>2. WInv /\ [WNext]_allVars => WInv'
  BY WNextOK
<1> QED
  BY <1>1, <1>2, PTL DEF WSpec

\* Every variable of the workqueue holds a value of its type, in every run.
THEOREM WorkqueueTypes == WSpec => []WTypeOK
<1>1. WInv => WTypeOK
  BY DEF WInv, WTypes
<1> QED
  BY <1>1, WInvariant, PTL

\* A pending Work is in one place: no Work is lost or run by two threads, with
\* any number of clients that queue, flush and destroy.
THEOREM PendingIsInOnePlace == WSpec => []PendingInOnePlace
<1>1. ASSUME WInv, NEW i \in Items
      PROVE  LET pushers == {a \in Callers : cpc[a] = "q_push" /\ arg[a] = i}
                 poppers == {k \in Kthreads : kpc[k] \in {"execute", "executed"} /\ item[k] = i}
             IN  Cardinality(pushers) + Occurrences(i) + Cardinality(poppers)
                   = (IF work[i] = "idle" THEN 0 ELSE 1)
  <2> DEFINE pushers == {a \in Callers : cpc[a] = "q_push" /\ arg[a] = i}
             poppers == {k \in Kthreads : kpc[k] \in {"execute", "executed"} /\ item[k] = i}
             places  == {p \in 1 .. Len(wq) : wq[p] = i}
  <2>1. \A a \in Callers : (cpc[a] = "q_push" <=> Phase(a) = "q_push")
    BY <1>1 DEF WInv, WTypes, ClientPcs, Phase, PhaseOf
  <2>2. /\ \A a : a \in pushers <=> a \in Callers /\ Pushing(a, i)
        /\ \A k : k \in poppers <=> k \in Kthreads /\ Popped(k, i)
        /\ (\E p : p \in places) <=> Queued(i)
    BY <2>1 DEF Pushing, Popped, Queued, In
  <2>3. /\ \A a, b \in pushers : a = b
        /\ \A k, j \in poppers : k = j
        /\ \A p, q \in places : p = q
    BY <1>1, <2>2 DEF WInv, Place, OneWorker, Distinct, Popped
  <2>4. /\ (\E a : a \in pushers) => places = {} /\ poppers = {}
        /\ (\E k : k \in poppers) => places = {}
        /\ work[i] # "idle" <=> (pushers # {} \/ places # {} \/ poppers # {})
    BY <1>1, <2>2 DEF WInv, Place
  <2> HIDE DEF pushers, poppers, places
  <2>5. ASSUME NEW S, \A x, y \in S : x = y
        PROVE  Cardinality(S) = IF S = {} THEN 0 ELSE 1
    <3>1. CASE S = {}
      BY <3>1, FS_EmptySet
    <3>2. CASE S # {}
      <4>1. PICK x : S = {x}
        BY <2>5, <3>2
      <4> QED
        BY <3>2, <4>1, FS_Singleton
    <3> QED
      BY <3>1, <3>2
  <2>6. /\ Cardinality(pushers) = IF pushers = {} THEN 0 ELSE 1
        /\ Cardinality(poppers) = IF poppers = {} THEN 0 ELSE 1
        /\ Cardinality(places) = IF places = {} THEN 0 ELSE 1
    BY <2>3, <2>5
  <2>7. Cardinality(pushers) + Cardinality(places) + Cardinality(poppers)
          = (IF work[i] = "idle" THEN 0 ELSE 1)
    BY <2>4, <2>6
  <2> QED
    BY <2>7 DEF pushers, poppers, places, Occurrences
<1>2. WInv => PendingInOnePlace
  BY <1>1 DEF PendingInOnePlace
<1> QED
  BY <1>2, WInvariant, PTL

\* flush returns only when every Work accepted before it has been completed.
THEOREM FlushesWait == WSpec => []FlushWaits
<1>1. ASSUME NEW a \in Callers, cpc[a] = "f_wait" PROVE Phase(a) = "flushing"
  BY <1>1 DEF Phase, PhaseOf
<1>2. WInv => FlushWaits
  BY <1>1 DEF WInv, FlushInv, FlushWaits
<1> QED
  BY <1>2, WInvariant, PTL

\* When destroy has stopped the worker, every accepted Work has run.
THEOREM DestroyLeavesNothing == WSpec => []DestroyDrains
<1>1. ASSUME WInv, drained, NEW w \in accepted
      PROVE  completed[w] /\ work[w] = "idle" /\ w \notin func
  <2>1. w \in Works /\ w \in Items /\ ~Queued(w) /\ ~Held(w)
    BY <1>1 DEF WInv, WTypes, WTypeOK, PhaseInv, LastInv, NoWorkLeft, Items
  <2>2. completed[w] /\ w \notin func
    BY <1>1, <2>1 DEF WInv, DeliveryInv, Delivered
  <2>3. \A a \in Callers : ~Pushing(a, w)
    BY <1>1 DEF WInv, PhaseInv, Queueing, Pushing
  <2>4. \A k \in Kthreads : ~Popped(k, w)
    BY <2>1 DEF Held, Holds, Popped, HandPcs
  <2>5. work[w] = "idle"
    BY <1>1, <2>1, <2>3, <2>4 DEF WInv, Place
  <2> QED
    BY <2>2, <2>5
<1>2. WInv => DestroyDrains
  BY <1>1 DEF DestroyDrains
<1> QED
  BY <1>2, WInvariant, PTL

-----------------------------------------------------------------------------
(***************************************************************************)
(* The worker's end. LifeInv and JoinInv of KthreadProofs hold of the       *)
(* worker, whose own steps come between its parks, and of clients, whose    *)
(* calls belong to queue, flush and destroy (EndInv).                       *)
(***************************************************************************)
CallPcs == {"stop", "stop_swap", "unpark", "unblock", "join", "d_stop", "d_join"}
LatePcs == {"unborn", "terminate", "publish", "dead"}

EndTypes ==
  /\ run \in [Kthreads -> {"Unborn", "Ready", "Running", "Blocked", "Terminated"}]
  /\ exited \in [Kthreads -> BOOLEAN] /\ exitCode \in [Kthreads -> ExitCodes]
  /\ handle \in [Callers -> Kthreads \union {NoKthread}]
  /\ joined \in [Callers -> SUBSET (Kthreads \X ExitCodes)]

\* A client inside a call on the worker has its handle.
HandleInv == \A a \in Callers : cpc[a] \in CallPcs => handle[a] \in Kthreads

EndInv == EndTypes /\ HandleInv /\ LifeInv /\ JoinInv

\* A step of the worker before kthread_exit, and of no client.
LEMMA EndWorker ==
  ASSUME EndInv, kpc \in [Kthreads -> WorkerPcs], NEW k \in Kthreads,
         kpc[k] \notin LatePcs, NEW to, to \notin LatePcs,
         kpc' = [kpc EXCEPT ![k] = to],
         run' = run \/ run' = [run EXCEPT ![k] = "Blocked"],
         UNCHANGED <<onCpu, exited, exitCode, registered, callerVars>>
  PROVE  EndInv'
<1>1. EndTypes' /\ HandleInv'
  BY DEF EndInv, EndTypes, HandleInv, callerVars
<1>2. LifeInv'
  BY DEF EndInv, EndTypes, LifeInv, LatePcs
<1>3. JoinInv'
  BY DEF EndInv, JoinInv, callerVars
<1> QED
  BY <1>1, <1>2, <1>3 DEF EndInv

\* A step of a client that concerns no thread's state.
LEMMA EndClient ==
  ASSUME EndInv, cpc \in [Callers -> ClientPcs], ret \in [Callers -> RetPcs],
         NEW a \in Callers, NEW to,
         cpc' = [cpc EXCEPT ![a] = to],
         \/ handle' = handle /\ (to \in CallPcs => cpc[a] \in CallPcs)
         \/ \E k \in Kthreads \union {NoKthread} :
              handle' = [handle EXCEPT ![a] = k] /\ (to \in CallPcs => k # NoKthread),
         UNCHANGED <<run, onCpu, exited, exitCode, registered, kpc, joined>>
  PROVE  EndInv'
<1>1. EndTypes'
  BY DEF EndInv, EndTypes
<1>2. HandleInv'
  BY DEF EndInv, EndTypes, HandleInv
<1>3. LifeInv' /\ JoinInv'
  BY DEF EndInv, LifeInv, JoinInv
<1> QED
  BY <1>1, <1>2, <1>3 DEF EndInv

\* kthread_exit of the worker, in the order in which KthreadProofs has it.
LEMMA EndExit ==
  ASSUME EndInv, kpc \in [Kthreads -> WorkerPcs], NEW k \in Kthreads,
         ExitStart(k, 0) \/ ExitTerminate(k) \/ ExitPublish(k)
  PROVE  EndInv'
<1>1. UNCHANGED <<onCpu, callerVars>>
  BY DEF ExitStart, ExitTerminate, ExitPublish, KthreadAt
<1>2. EndTypes'
  BY <1>1, KthreadAssumption
     DEF EndInv, EndTypes, ExitStart, ExitTerminate, ExitPublish, callerVars, flagVars
<1>3. HandleInv'
  BY <1>1 DEF EndInv, HandleInv, callerVars
<1>4. LifeInv'
  BY DEF EndInv, EndTypes, LifeInv, ExitStart, ExitTerminate, ExitPublish, KthreadAt, flagVars
<1>5. JoinInv'
  <2>1. CASE ExitStart(k, 0)
    <3>1. \A a \in Callers : \A j \in joined[a] : j[1] # k
      BY <2>1 DEF EndInv, LifeInv, JoinInv, ExitStart, KthreadAt
    <3> QED
      BY <1>1, <2>1, <3>1 DEF EndInv, EndTypes, JoinInv, ExitStart, callerVars
  <2>2. CASE ExitTerminate(k)
    BY <1>1, <2>2 DEF EndInv, JoinInv, ExitTerminate, flagVars, callerVars
  <2>3. CASE ExitPublish(k)
    BY <1>1, <2>3 DEF EndInv, EndTypes, JoinInv, ExitPublish, callerVars
  <2> QED
    BY <2>1, <2>2, <2>3
<1> QED
  BY <1>2, <1>3, <1>4, <1>5 DEF EndInv

\* kthread_stop, kthread_unpark and kthread_join on the handle of the worker.
LEMMA EndCall ==
  ASSUME EndInv, cpc \in [Callers -> ClientPcs], NEW a \in Callers, CallStep(a)
  PROVE  EndInv'
<1> DEFINE h == handle[a]
<1>1. /\ cpc[a] \in CallPcs /\ h \in Kthreads
      /\ \E to : cpc' = [cpc EXCEPT ![a] = to]
      /\ UNCHANGED <<onCpu, kpc, registered, exited, exitCode, handle>>
  BY DEF CallStep, StopCheck, StopSwap, UnparkStore, UnparkWake, Join, CallerAt, CallPcs,
         EndInv, HandleInv, flagVars
<1>2. /\ run' = run \/ (run[h] = "Blocked" /\ run' = [run EXCEPT ![h] = "Ready"])
      /\ \/ joined' = joined
         \/ exited[h] /\ joined' = [joined EXCEPT ![a] = @ \union {<<h, exitCode[h]>>}]
  BY DEF CallStep, StopCheck, StopSwap, UnparkStore, UnparkWake, Join, flagVars
<1>3. exitCode[h] \in ExitCodes
  BY <1>1 DEF EndInv, EndTypes
<1> HIDE DEF h
<1>4. EndTypes'
  BY <1>1, <1>2, <1>3 DEF EndInv, EndTypes
<1>5. HandleInv'
  BY <1>1 DEF EndInv, HandleInv, h
<1>6. LifeInv'
  BY <1>1, <1>2 DEF EndInv, EndTypes, LifeInv
<1>7. JoinInv'
  BY <1>1, <1>2 DEF EndInv, EndTypes, JoinInv
<1> QED
  BY <1>4, <1>5, <1>6, <1>7 DEF EndInv

\* An actor gets a CPU or loses it.
LEMMA EndSwitch ==
  ASSUME EndInv, NEW x \in Actors, SwitchIn(x) \/ SwitchOut(x)
  PROVE  EndInv'
<1>1. EndTypes' /\ HandleInv' /\ JoinInv'
  BY DEF SwitchIn, SwitchOut, EndInv, EndTypes, HandleInv, JoinInv, flagVars, callerVars
<1>2. LifeInv'
  BY DEF SwitchIn, SwitchOut, Runnable, Masked, EndInv, EndTypes, LifeInv, flagVars
<1> QED
  BY <1>1, <1>2 DEF EndInv

\* ensure_worker creates the worker.
LEMMA EndSpawn ==
  ASSUME EndInv, WTypes, NEW a \in Callers, NEW k \in Kthreads, EnsureWorkerSpawns(a, k)
  PROVE  EndInv'
<1>1. EndTypes' /\ HandleInv'
  BY DEF EnsureWorkerSpawns, SpawnKthread, EndInv, EndTypes, HandleInv, WTypes, CallPcs
<1>2. LifeInv'
  BY DEF EnsureWorkerSpawns, SpawnKthread, EndInv, EndTypes, LifeInv, WTypes
<1>3. JoinInv'
  BY DEF EnsureWorkerSpawns, SpawnKthread, EndInv, JoinInv
<1> QED
  BY <1>1, <1>2, <1>3 DEF EndInv

\* Every step keeps EndInv.
LEMMA EndNext == WInv /\ EndInv /\ [WNext]_allVars => EndInv'
<1> SUFFICES ASSUME WInv, EndInv, [WNext]_allVars PROVE EndInv'
  OBVIOUS
<1>0. /\ WTypes /\ WTypeOK /\ kpc \in [Kthreads -> WorkerPcs]
      /\ cpc \in [Callers -> ClientPcs] /\ ret \in [Callers -> RetPcs]
      /\ afterFlush \in [Callers -> {"idle", "d_take"}]
      /\ worker \in Kthreads \union {NoKthread}
  BY DEF WInv, WTypes, WTypeOK
<1>1. ASSUME NEW k \in Kthreads, WorkerStep(k) PROVE EndInv'
  <2>1. CASE ExitStart(k, 0) \/ ExitTerminate(k) \/ ExitPublish(k)
    BY <1>0, <2>1, EndExit
  <2>2. CASE ~(ExitStart(k, 0) \/ ExitTerminate(k) \/ ExitPublish(k))
    <3>1. /\ kpc[k] \notin LatePcs
          /\ \E to : to \notin LatePcs /\ kpc' = [kpc EXCEPT ![k] = to]
          /\ run' = run \/ run' = [run EXCEPT ![k] = "Blocked"]
          /\ UNCHANGED <<onCpu, exited, exitCode, registered, callerVars>>
      BY <1>1, <2>2
         DEF WorkerStep, WorkerLoop, WorkerPop, Execute, ExecuteIdle, ExecuteComplete,
             ParkStep, ParkSet, ParkStop, ParkLoop, ParkRecheck, ParkBlock, ParkAgain, ParkHalt,
             KthreadAt, LatePcs, flagVars
    <3> QED
      BY <1>0, <3>1, EndWorker
  <2> QED
    BY <2>1, <2>2
<1>2. ASSUME NEW a \in Callers, NEW from, NEW to, Step(a, from, to),
             UNCHANGED <<run, flagVars>>,
             \/ handle' = handle /\ (to \in CallPcs => from \in CallPcs)
             \/ handle' = [handle EXCEPT ![a] = worker] /\ (to \in CallPcs => worker # NoKthread)
      PROVE  EndInv'
  BY <1>0, <1>2, EndClient DEF Step, CallerAt, flagVars
<1>3. ASSUME NEW a \in Callers,
             ClientStep(a) \/ (\E w \in Works : SetPending(a, w)) \/ BeginFlush(a) \/ BeginDestroy(a)
      PROVE  EndInv'
  <2>1. CASE \E w \in Works : SetPending(a, w)
    BY <1>2, <2>1 DEF SetPending, CallPcs
  <2>2. CASE QueuePush(a) \/ EnsureWorkerFails(a) \/ QueueDone(a)
    BY <1>2, <2>2 DEF QueuePush, EnsureWorkerFails, QueueDone, CallPcs
  <2>3. CASE \E k \in Kthreads : EnsureWorkerSpawns(a, k)
    BY <1>0, <2>3, EndSpawn
  <2>4. CASE EnsureWorkerWakes(a)
    BY <1>2, <2>4 DEF EnsureWorkerWakes, LockAndUnpark
  <2>5. CASE FlushPush(a) \/ FlushUnlock(a)
    BY <1>2, <2>5 DEF FlushPush, FlushUnlock, CallPcs
  <2>6. CASE FlushWake(a)
    <3>1. CASE worker = NoKthread
      BY <1>2, <2>6, <3>1 DEF FlushWake, CallPcs
    <3>2. CASE worker # NoKthread
      BY <1>2, <2>6, <3>2 DEF FlushWake, LockAndUnpark
    <3> QED
      BY <3>1, <3>2
  <2>7. CASE FlushDone(a)
    <3>1. afterFlush[a] \notin CallPcs
      BY <1>0 DEF CallPcs
    <3> QED
      BY <1>2, <2>7, <3>1 DEF FlushDone
  <2>8. CASE DestroyTake(a)
    <3>1. CASE worker = NoKthread
      BY <1>2, <2>8, <3>1 DEF DestroyTake, CallPcs
    <3>2. CASE worker # NoKthread
      BY <1>2, <2>8, <3>2 DEF DestroyTake
    <3> QED
      BY <3>1, <3>2
  <2>9. CASE DestroyCall(a, "d_stop", "stop", "d_join") \/ DestroyCall(a, "d_join", "join", "d_done")
    BY <1>2, <2>9 DEF DestroyCall, CallPcs
  <2>10. CASE DestroyDone(a)
    BY <1>2, <2>10 DEF DestroyDone, CallPcs
  <2>11. CASE BeginFlush(a) \/ BeginDestroy(a)
    <3>1. \E to \in {"idle", "d_take", "f_push"} :
            Step(a, "idle", to) /\ UNCHANGED <<run, flagVars, handle>>
      BY <2>11 DEF BeginFlush, BeginDestroy, Flush
    <3> QED
      BY <1>2, <3>1 DEF CallPcs
  <2>12. CASE CallStep(a)
    BY <1>0, <2>12, EndCall
  <2> QED
    BY <1>3, <2>1, <2>2, <2>3, <2>4, <2>5, <2>6, <2>7, <2>8, <2>9, <2>10, <2>11, <2>12
       DEF ClientStep
<1>4. ASSUME NEW x \in Actors, SwitchIn(x) \/ SwitchOut(x) PROVE EndInv'
  BY <1>4, EndSwitch
<1>5. CASE UNCHANGED allVars
  BY <1>5 DEF allVars, kvars, flagVars, callerVars, EndInv, EndTypes, HandleInv, LifeInv, JoinInv
<1> QED
  BY <1>1, <1>3, <1>4, <1>5 DEF WNext

\* The join of destroy returns only when the worker is terminated and
\* unregistered, with the worker's exit code.
THEOREM DestroyJoinsTheEnd == WSpec => []JoinSeesTheEnd
<1>1. WInit => EndInv
  <2> SUFFICES ASSUME WInit PROVE EndInv
    OBVIOUS
  <2>1. KInit
    BY DEF WInit
  <2>2. KInv
    BY <2>1, KInitOK
  <2>3. HandleInv
    BY <2>1 DEF KInit, HandleInv, CallPcs
  <2> QED
    BY <2>2, <2>3 DEF EndInv, EndTypes, KInv, KTypeOK
<1>2. EndInv => JoinSeesTheEnd
  <2> SUFFICES ASSUME EndInv, NEW a \in Callers, NEW j \in joined[a]
               PROVE  /\ run[j[1]] = "Terminated" /\ j[1] \notin registered
                      /\ exitCode[j[1]] = j[2]
    BY DEF JoinSeesTheEnd
  <2>1. j \in Kthreads \X ExitCodes
    BY DEF EndInv, EndTypes
  <2> QED
    BY <2>1 DEF EndInv, JoinInv, LifeInv
<1> QED
  BY <1>1, <1>2, EndNext, WInvariant, PTL DEF WSpec

=============================================================================
