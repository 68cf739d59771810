---------------------------- MODULE FutexProofs ----------------------------
(***************************************************************************)
(* Proofs about Futex, for any number of waiters and wakers, any values and *)
(* any wake counts.                                                         *)
(*                                                                          *)
(* The bucket's list is the arbiter of a wait: FInv adds to the properties  *)
(* that a thread is listed only inside its wait, that a counted thread is   *)
(* not listed any more, and that only a thread on its way out has removed   *)
(* itself.                                                                  *)
(***************************************************************************)
EXTENDS Futex, WaitListProofs

Inside == {"signal?", "waiting?", "leave"}

QueuedInside == \A t \in Waiters : Contains(Queue, t) => pc[t] \in Inside

CountedIsOut ==
  \A t \in counted :
    ~Contains(Queue, t) /\ pc[t] \in Inside \union {"return"} /\ t \notin removed

RemovedReturns == \A t \in removed : pc[t] = "return"

FInv ==
  /\ FTypeOK /\ BucketsHoldWaiters
  /\ QueuedInside /\ CountedIsOut /\ RemovedReturns
  /\ BlockedMeansQueued /\ NoLostWake

-----------------------------------------------------------------------------
(***************************************************************************)
(* The bucket                                                               *)
(***************************************************************************)
\* NoCall is a call.
LEMMA NoCallType == NoCall \in [val : Values, timeout : Timeouts]
<1>1. Values # {}
  BY FutexAssumption
<1>2. (CHOOSE v \in Values : TRUE) \in Values
  BY <1>1
<1> QED
  BY <1>2 DEF NoCall, Timeouts

\* What FTypeOK and BucketsHoldWaiters say of the list.
LEMMA QueueFacts ==
  ASSUME FTypeOK, BucketsHoldWaiters
  PROVE  Queue \in Seq(Waiters) /\ IsInjective(Queue)
<1>1. CASE bucket = NoBucket
  BY <1>1 DEF Queue, IsInjective
<1>2. CASE bucket # NoBucket
  BY <1>2 DEF FTypeOK, BucketsHoldWaiters
<1> QED
  BY <1>1, <1>2

\* A bucket with a list in it.
LEMMA FullBucket ==
  ASSUME NEW q \in Seq(Waiters), IsInjective(q), q # << >>, bucket' = Bucket(q)
  PROVE  /\ Queue' = q /\ BucketsHoldWaiters'
         /\ bucket' # NoBucket /\ bucket' = Bucket(Queue') /\ Queue' \in Seq(Waiters)
<1>1. Bucket(q) # NoBucket /\ Bucket(q)[1] = q
  BY DEF Bucket, NoBucket
<1> QED
  BY <1>1 DEF Queue, BucketsHoldWaiters

\* A list that is pruned if nobody is left on it.
LEMMA PrunedBucket ==
  ASSUME NEW q \in Seq(Waiters), IsInjective(q), bucket' = Pruned(q)
  PROVE  /\ Queue' = q /\ BucketsHoldWaiters'
         /\ \/ bucket' = NoBucket
            \/ bucket' = Bucket(Queue') /\ Queue' \in Seq(Waiters)
<1>1. CASE q = << >>
  BY <1>1 DEF Pruned, Queue, BucketsHoldWaiters
<1>2. CASE q # << >>
  BY <1>2, FullBucket DEF Pruned
<1> QED
  BY <1>1, <1>2

-----------------------------------------------------------------------------
(***************************************************************************)
(* The steps                                                                *)
(***************************************************************************)
LEMMA FInitInv == FInit => FInv
<1> SUFFICES ASSUME FInit PROVE FInv
  OBVIOUS
<1>1. Queue = << >>
  BY DEF FInit, Queue
<1>2. FTypeOK
  BY NoCallType DEF FInit, FTypeOK
<1>3. \A t : ~Contains(Queue, t)
  BY <1>1 DEF Contains
<1> QED
  BY <1>2, <1>3
  DEF FInit, FInv, BucketsHoldWaiters, QueuedInside, CountedIsOut, RemovedReturns,
      BlockedMeansQueued, NoLostWake

\* What a step does that changes neither the word nor the bucket, blocks
\* nobody, and moves a waiter only from one place inside its wait to another.
LEMMA QuietStep ==
  ASSUME FInv, FTypeOK',
         <<word, bucket, call, counted, removed, passedOver>>'
           = <<word, bucket, call, counted, removed, passedOver>>,
         \A t \in Waiters : st'[t] = "BlockedOnIO" => st[t] = "BlockedOnIO",
         \A t \in Waiters \union Wakers :
           pc'[t] = pc[t] \/ (t \in Waiters /\ pc[t] \in Inside /\ pc'[t] \in Inside)
  PROVE  FInv'
<1> USE DEF FInv
<1>1. Queue' = Queue
  BY DEF Queue
<1>2. BucketsHoldWaiters'
  BY <1>1 DEF BucketsHoldWaiters
<1>3. counted \subseteq Waiters /\ removed \subseteq Waiters
  BY DEF FTypeOK
<1>4. QueuedInside'
  BY <1>1 DEF QueuedInside
<1>5. CountedIsOut'
  BY <1>1, <1>3 DEF CountedIsOut
<1>6. RemovedReturns'
  BY <1>3 DEF RemovedReturns, Inside
<1>7. BlockedMeansQueued'
  BY <1>1 DEF BlockedMeansQueued, Inside
<1>8. NoLostWake'
  <2> SUFFICES ASSUME NEW t \in Waiters, st'[t] = "BlockedOnIO", word # call[t].val,
                      t \notin passedOver
               PROVE  \E w \in Wakers : pc'[w] = "wake"
    BY DEF NoLostWake
  <2>1. PICK w \in Wakers : pc[w] = "wake"
    BY DEF NoLostWake
  <2>2. w \notin Waiters
    BY FutexAssumption
  <2> QED
    BY <2>1, <2>2
<1> QED
  BY <1>2, <1>4, <1>5, <1>6, <1>7, <1>8

\* The loop of the wait, the timers and the scheduling around it are quiet.
LEMMA LoopSignalsStep ==
  ASSUME FInv, NEW t \in Waiters, LoopSignals(t) PROVE FInv'
<1>1. FTypeOK'
  BY DEF FInv, FTypeOK, LoopSignals, Step, Goto, Queue, threadVars, timerVars, signalVars,
         historyVars
<1>2. pc' = [pc EXCEPT ![t] = pc'[t]] /\ pc[t] \in Inside /\ pc'[t] \in Inside
  BY DEF FInv, FTypeOK, LoopSignals, Step, Goto, Inside
<1> QED
  BY <1>1, <1>2, QuietStep
  DEF FInv, FTypeOK, LoopSignals, threadVars, historyVars

\* Expired timers only wake.
LEMMA ExpiryTypes ==
  ASSUME FTypeOK, NEW stale, WakeExpiredTimers(stale)
  PROVE  /\ st' \in [Waiters -> {"Runnable", "BlockedOnIO"}]
         /\ heap' \in [Waiters -> SUBSET {"present", "earlier"}]
         /\ \A t \in Waiters : st'[t] = "BlockedOnIO" => st[t] = "BlockedOnIO"
BY DEF FTypeOK, WakeExpiredTimers

\* The waiter's loop looks at its own state under the scheduler lock.
LEMMA LoopStateStep ==
  ASSUME FInv, NEW t \in Waiters, NEW stale, LoopState(t, stale) PROVE FInv'
<1>1. FTypeOK'
  BY ExpiryTypes
  DEF FInv, FTypeOK, LoopState, Step, Goto, Queue, signalVars, waitVars, historyVars
<1>2. pc' = [pc EXCEPT ![t] = pc'[t]] /\ pc[t] \in Inside /\ pc'[t] \in Inside
  BY DEF FInv, FTypeOK, LoopState, Step, Goto, Inside
<1>3. \A u \in Waiters : st'[u] = "BlockedOnIO" => st[u] = "BlockedOnIO"
  BY ExpiryTypes DEF FInv, LoopState
<1> QED
  BY <1>1, <1>2, <1>3, QuietStep
  DEF FInv, FTypeOK, LoopState, waitVars, historyVars

\* A scheduling pass on another CPU.
LEMMA SchedulingPassStep ==
  ASSUME FInv, NEW stale, SchedulingPass(stale) PROVE FInv'
<1>1. FTypeOK'
  BY ExpiryTypes DEF FInv, FTypeOK, SchedulingPass, Queue, signalVars, waitVars, historyVars
<1>2. \A u \in Waiters : st'[u] = "BlockedOnIO" => st[u] = "BlockedOnIO"
  BY ExpiryTypes DEF FInv, SchedulingPass
<1> QED
  BY <1>1, <1>2, QuietStep DEF SchedulingPass, waitVars, historyVars

\* Preemption, deadlines and signals around the wait.
LEMMA AroundStep ==
  ASSUME FInv, NEW t \in Waiters,
         \/ Preempt(t) \/ SwitchIn(t) \/ DeadlinePasses(t) \/ PostSignal(t)
         \/ UnblockForSignal(t)
  PROVE  FInv'
<1> USE DEF FInv, threadVars, timerVars, signalVars, waitVars, historyVars
<1>1. FTypeOK'
  <2>1. CASE Preempt(t) \/ SwitchIn(t)
    BY <2>1 DEF FTypeOK, Queue, Preempt, SwitchIn
  <2>2. CASE DeadlinePasses(t) \/ PostSignal(t)
    BY <2>2 DEF FTypeOK, Queue, DeadlinePasses, PostSignal
  <2>3. CASE UnblockForSignal(t)
    BY <2>3 DEF FTypeOK, Queue, UnblockForSignal
  <2> QED
    BY <2>1, <2>2, <2>3
<1>2. /\ <<word, bucket, pc, call, counted, removed, passedOver>>'
           = <<word, bucket, pc, call, counted, removed, passedOver>>
      /\ \A u \in Waiters : st'[u] = "BlockedOnIO" => st[u] = "BlockedOnIO"
  BY DEF FTypeOK, Preempt, SwitchIn, DeadlinePasses, PostSignal, UnblockForSignal
<1> QED
  BY <1>1, <1>2, QuietStep

\* prepare_to_wait_checked lists the caller and blocks it, and the word has the
\* value it expects.
LEMMA WaitQueuedStep ==
  ASSUME FInv, NEW t \in Waiters, NEW v \in Values, NEW timeout \in Timeouts,
         WaitQueued(t, v, timeout)
  PROVE  FInv'
<1> USE DEF FInv, waitVars, signalVars, historyVars
<1> DEFINE q == Enlisted(Queue, t)
<1>1. Queue \in Seq(Waiters) /\ IsInjective(Queue)
  BY QueueFacts
<1>2. /\ q \in Seq(Waiters) /\ q # << >> /\ IsInjective(q)
      /\ \A x : Contains(q, x) <=> Contains(Queue, x) \/ x = t
  BY <1>1, EnlistedFacts
<1> HIDE DEF q
<1>3. /\ Queue' = q /\ BucketsHoldWaiters'
      /\ bucket' = Bucket(Queue') /\ Queue' \in Seq(Waiters)
  BY <1>2, FullBucket DEF WaitQueued, q
<1>4. /\ pc[t] = "user" /\ pc' = [pc EXCEPT ![t] = "signal?"]
      /\ st' = [st EXCEPT ![t] = "BlockedOnIO"]
      /\ call' = [call EXCEPT ![t] = [val |-> v, timeout |-> timeout]]
      /\ word' = word /\ word = v
      /\ <<removed, counted, passedOver>>' = <<removed, counted, passedOver>>
  BY DEF WaitQueued, Step, Goto
<1>5. FTypeOK'
  BY <1>3, <1>4 DEF FTypeOK, WaitQueued
<1>6. removed \subseteq Waiters /\ counted \subseteq Waiters /\ t \notin counted \union removed
  BY <1>4 DEF FTypeOK, CountedIsOut, RemovedReturns, Inside
<1>7. \A u \in Waiters \union Wakers : pc'[u] = IF u = t THEN "signal?" ELSE pc[u]
  BY <1>4 DEF FTypeOK
<1>8. QueuedInside'
  BY <1>2, <1>3, <1>7 DEF QueuedInside, Inside
<1>9. CountedIsOut' /\ RemovedReturns'
  BY <1>2, <1>3, <1>4, <1>6, <1>7 DEF CountedIsOut, RemovedReturns
<1>10. BlockedMeansQueued'
  BY <1>2, <1>3, <1>4, <1>7 DEF BlockedMeansQueued, FTypeOK
<1>11. NoLostWake'
  <2> SUFFICES ASSUME NEW u \in Waiters, st'[u] = "BlockedOnIO", word' # call'[u].val,
                      u \notin passedOver
               PROVE  \E w \in Wakers : pc'[w] = "wake"
    BY <1>4 DEF NoLostWake
  <2>1. u # t
    BY <1>4 DEF FTypeOK
  <2>2. PICK w \in Wakers : pc[w] = "wake"
    BY <1>4, <2>1 DEF NoLostWake, FTypeOK
  <2> QED
    BY <1>4, <1>7, <2>2
<1> QED
  BY <1>3, <1>5, <1>8, <1>9, <1>10, <1>11

\* Leaving takes the caller off the list and makes it runnable; it finds
\* itself listed only if no FUTEX_WAKE has counted it.
LEMMA LeaveStep ==
  ASSUME FInv, NEW t \in Waiters, Leave(t) PROVE FInv'
<1> USE DEF FInv, timerVars, signalVars, historyVars
<1> DEFINE q == Without(Queue, t)
<1>1. Queue \in Seq(Waiters) /\ IsInjective(Queue)
  BY QueueFacts
<1>2. /\ q \in Seq(Waiters) /\ IsInjective(q)
      /\ \A x : Contains(q, x) <=> Contains(Queue, x) /\ x # t
  BY <1>1, WithoutFacts
<1> HIDE DEF q
<1>3. /\ Queue' = q /\ BucketsHoldWaiters'
      /\ bucket' = NoBucket \/ (bucket' = Bucket(Queue') /\ Queue' \in Seq(Waiters))
  BY <1>2, PrunedBucket DEF Leave, q
<1>4. /\ pc[t] = "leave" /\ pc' = [pc EXCEPT ![t] = "return"]
      /\ st' = [st EXCEPT ![t] = "Runnable"]
      /\ removed' = IF Contains(Queue, t) THEN removed \union {t} ELSE removed
      /\ <<word, call, counted, passedOver>>' = <<word, call, counted, passedOver>>
  BY DEF Leave, Step, Goto
<1>5. FTypeOK'
  BY <1>3, <1>4 DEF FTypeOK, Leave
<1>6. removed \subseteq Waiters /\ counted \subseteq Waiters
  BY DEF FTypeOK
<1>7. \A u \in Waiters \union Wakers : pc'[u] = IF u = t THEN "return" ELSE pc[u]
  BY <1>4 DEF FTypeOK
<1>8. QueuedInside'
  BY <1>2, <1>3, <1>7 DEF QueuedInside
<1>9. CountedIsOut'
  BY <1>2, <1>3, <1>4, <1>6, <1>7 DEF CountedIsOut
<1>10. RemovedReturns'
  BY <1>4, <1>6, <1>7 DEF RemovedReturns
<1>11. BlockedMeansQueued'
  BY <1>2, <1>3, <1>4, <1>7 DEF BlockedMeansQueued, FTypeOK
<1>12. NoLostWake'
  <2> SUFFICES ASSUME NEW u \in Waiters, st'[u] = "BlockedOnIO", word # call[u].val,
                      u \notin passedOver
               PROVE  \E w \in Wakers : pc'[w] = "wake"
    BY <1>4 DEF NoLostWake
  <2>1. PICK w \in Wakers : pc[w] = "wake"
    BY <1>4 DEF NoLostWake, FTypeOK
  <2> QED
    BY <1>4, <1>7, <2>1
<1> QED
  BY <1>3, <1>5, <1>8, <1>9, <1>10, <1>11, <1>12

\* A thread that returns to user mode is not blocked, and the wait's history
\* ends with it.
LEMMA ReturnStep ==
  ASSUME FInv, NEW t \in Waiters, Return(t) PROVE FInv'
<1> USE DEF FInv, threadVars
<1>1. Queue' = Queue /\ bucket' = bucket
  BY DEF Return, Queue
<1>2. /\ pc[t] = "return" /\ pc' = [pc EXCEPT ![t] = "user"]
      /\ removed' = removed \ {t} /\ counted' = counted \ {t}
      /\ passedOver' = passedOver \ {t}
      /\ call' = [call EXCEPT ![t] = NoCall]
      /\ <<word, st>>' = <<word, st>>
  BY DEF Return, Step, Goto
<1>3. FTypeOK'
  BY <1>1, <1>2, NoCallType DEF FTypeOK, Return
<1>4. BucketsHoldWaiters'
  BY <1>1 DEF BucketsHoldWaiters
<1>5. removed \subseteq Waiters /\ counted \subseteq Waiters
  BY DEF FTypeOK
<1>6. \A u \in Waiters \union Wakers : pc'[u] = IF u = t THEN "user" ELSE pc[u]
  BY <1>2 DEF FTypeOK
<1>7. ~Contains(Queue, t) /\ st[t] # "BlockedOnIO"
  BY <1>2 DEF QueuedInside, BlockedMeansQueued, Inside
<1>8. QueuedInside'
  BY <1>1, <1>6, <1>7 DEF QueuedInside
<1>9. CountedIsOut' /\ RemovedReturns'
  BY <1>1, <1>2, <1>5, <1>6 DEF CountedIsOut, RemovedReturns
<1>10. BlockedMeansQueued'
  BY <1>1, <1>2, <1>6, <1>7 DEF BlockedMeansQueued
<1>11. NoLostWake'
  <2> SUFFICES ASSUME NEW u \in Waiters, st[u] = "BlockedOnIO", word # call'[u].val,
                      u \notin passedOver'
               PROVE  \E w \in Wakers : pc'[w] = "wake"
    BY <1>2 DEF NoLostWake
  <2>1. u # t /\ call'[u] = call[u] /\ u \notin passedOver
    BY <1>2, <1>7 DEF FTypeOK
  <2>2. PICK w \in Wakers : pc[w] = "wake"
    BY <2>1 DEF NoLostWake
  <2> QED
    BY <1>2, <1>6, <2>2
<1> QED
  BY <1>3, <1>4, <1>8, <1>9, <1>10, <1>11

\* A store may leave sleepers behind that wait for another value; its thread
\* owes the FUTEX_WAKE.
LEMMA StoreStep ==
  ASSUME FInv, NEW w \in Wakers, NEW v \in Values, Store(w, v) PROVE FInv'
<1> USE DEF FInv, threadVars, timerVars, signalVars, waitVars, historyVars
<1>1. Queue' = Queue /\ bucket' = bucket
  BY DEF Store, Queue
<1>2. w \notin Waiters
  BY FutexAssumption
<1>3. /\ \A u \in Waiters : pc'[u] = pc[u]
      /\ pc'[w] = "wake"
      /\ <<st, removed, counted>>' = <<st, removed, counted>>
  BY <1>2 DEF Store, Goto, FTypeOK
<1>4. FTypeOK'
  BY <1>1 DEF FTypeOK, Store, Goto
<1>5. removed \subseteq Waiters /\ counted \subseteq Waiters
  BY DEF FTypeOK
<1>6. BucketsHoldWaiters'
  BY <1>1 DEF BucketsHoldWaiters
<1>7. QueuedInside' /\ BlockedMeansQueued'
  BY <1>1, <1>3 DEF QueuedInside, BlockedMeansQueued
<1>8. CountedIsOut' /\ RemovedReturns'
  BY <1>1, <1>3, <1>5 DEF CountedIsOut, RemovedReturns
<1>9. NoLostWake'
  BY <1>3 DEF NoLostWake
<1> QED
  BY <1>4, <1>6, <1>7, <1>8, <1>9

\* FUTEX_WAKE divides the list between the threads it counts, which are all
\* runnable now, and those it passes over.
LEMMA FutexWakeStep ==
  ASSUME FInv, NEW w \in Wakers, NEW n \in WakeCounts, FutexWake(w, n) PROVE FInv'
<1> USE DEF FInv, timerVars, signalVars, waitVars
<1> DEFINE k == IF n < Len(Queue) THEN n ELSE Len(Queue)
           popped == ToSet(SubSeq(Queue, 1, k))
           left == SubSeq(Queue, k + 1, Len(Queue))
<1>1. Queue \in Seq(Waiters) /\ IsInjective(Queue)
  BY QueueFacts
<1>2. k \in 0..Len(Queue)
  BY <1>1, FutexAssumption
<1> HIDE DEF k
<1>3. /\ left \in Seq(Waiters) /\ IsInjective(left)
      /\ popped \subseteq Waiters /\ ToSet(left) \subseteq Waiters
      /\ \A x : Contains(left, x) <=> x \in ToSet(left)
      /\ \A x : x \in ToSet(left) <=> Contains(Queue, x) /\ x \notin popped
      /\ \A x \in popped : Contains(Queue, x)
  BY <1>1, <1>2, SplitFacts
<1>4. /\ bucket' = Pruned(left)
      /\ st' = [t \in Waiters |-> IF t \in popped /\ Woken(t) THEN "Runnable" ELSE st[t]]
      /\ counted' = counted \union popped
      /\ passedOver' = (passedOver \ popped) \union ToSet(left)
      /\ <<word, call, onCpu, heap, expired, pending, signalled, seen, removed>>'
           = <<word, call, onCpu, heap, expired, pending, signalled, seen, removed>>
      /\ pc[w] = "wake" /\ pc' = [pc EXCEPT ![w] = "user"]
  BY DEF FutexWake, Goto, k
<1> HIDE DEF popped, left
<1>5. /\ Queue' = left /\ BucketsHoldWaiters'
      /\ bucket' = NoBucket \/ (bucket' = Bucket(Queue') /\ Queue' \in Seq(Waiters))
  BY <1>3, <1>4, PrunedBucket
<1>6. FTypeOK'
  <2>1. st' \in [Waiters -> {"Runnable", "BlockedOnIO"}]
    BY <1>4 DEF FTypeOK
  <2>2. counted' \subseteq Waiters /\ passedOver' \subseteq Waiters
    BY <1>3, <1>4 DEF FTypeOK
  <2> QED
    BY <1>4, <1>5, <2>1, <2>2 DEF FTypeOK
<1>7. removed \subseteq Waiters /\ counted \subseteq Waiters
  BY DEF FTypeOK
<1>8. \A u \in Waiters : pc'[u] = pc[u]
  BY <1>4, FutexAssumption DEF FTypeOK
<1>9. QueuedInside'
  BY <1>3, <1>5, <1>8 DEF QueuedInside
<1>10. CountedIsOut'
  <2> SUFFICES ASSUME NEW t \in counted'
               PROVE  /\ ~Contains(left, t)
                      /\ pc[t] \in Inside \union {"return"} /\ t \notin removed
    BY <1>3, <1>4, <1>5, <1>7, <1>8 DEF CountedIsOut
  <2>1. CASE t \in counted
    BY <1>3, <2>1 DEF CountedIsOut
  <2>2. CASE t \in popped
    BY <1>3, <2>2 DEF QueuedInside, RemovedReturns, Inside
  <2> QED
    BY <1>4, <2>1, <2>2
<1>11. RemovedReturns'
  BY <1>4, <1>7, <1>8 DEF RemovedReturns
<1>12. ASSUME NEW t \in Waiters, st'[t] = "BlockedOnIO"
       PROVE  st[t] = "BlockedOnIO" /\ t \in ToSet(left)
  <2>1. st[t] = "BlockedOnIO" /\ t \notin popped
    BY <1>4, <1>12 DEF Woken
  <2> QED
    BY <1>3, <2>1 DEF BlockedMeansQueued
<1>13. BlockedMeansQueued'
  BY <1>3, <1>5, <1>8, <1>12 DEF BlockedMeansQueued
<1>14. NoLostWake'
  BY <1>4, <1>12 DEF NoLostWake
<1> QED
  BY <1>5, <1>6, <1>9, <1>10, <1>11, <1>13, <1>14

\* Every step keeps the invariant.
LEMMA FNextInv == FInv /\ [FNext]_fvars => FInv'
<1> SUFFICES ASSUME FInv, [FNext]_fvars PROVE FInv'
  OBVIOUS
<1>1. CASE UNCHANGED fvars
  <2>1. FTypeOK'
    BY <1>1 DEF FInv, FTypeOK, Queue, fvars, threadVars, timerVars, signalVars, waitVars,
                historyVars
  <2> QED
    BY <1>1, <2>1, QuietStep DEF fvars, threadVars, waitVars, historyVars
<1>2. ASSUME NEW t \in Waiters, NEW v \in Values, NEW timeout \in Timeouts,
             WaitQueued(t, v, timeout)
      PROVE  FInv'
  BY <1>2, WaitQueuedStep
<1>3. ASSUME NEW t \in Waiters, WaiterStep(t) PROVE FInv'
  BY <1>3, LoopSignalsStep, LoopStateStep, LeaveStep, ReturnStep DEF WaiterStep
<1>4. ASSUME NEW t \in Waiters,
             \/ Preempt(t) \/ SwitchIn(t) \/ DeadlinePasses(t)
             \/ PostSignal(t) \/ UnblockForSignal(t)
      PROVE  FInv'
  BY <1>4, AroundStep
<1>5. ASSUME NEW w \in Wakers,
             \/ \E v \in Values : Store(w, v)
             \/ \E n \in WakeCounts : FutexWake(w, n)
      PROVE  FInv'
  BY <1>5, StoreStep, FutexWakeStep
<1>6. ASSUME NEW stale \in SUBSET Waiters, SchedulingPass(stale) PROVE FInv'
  BY <1>6, SchedulingPassStep
<1> QED
  BY <1>1, <1>2, <1>3, <1>4, <1>5, <1>6 DEF FNext

-----------------------------------------------------------------------------
(***************************************************************************)
(* The theorems                                                             *)
(***************************************************************************)
\* FInv is an invariant of the futex.
THEOREM FInvariant == FSpec => []FInv
  BY FInitInv, FNextInv, PTL DEF FSpec

\* Every variable of futex_wait, the bucket and the threads keeps its type.
THEOREM FutexTypes == FSpec => []FTypeOK
<1>1. FInv => FTypeOK
  BY DEF FInv
<1> QED
  BY <1>1, FInvariant, PTL

\* No sleeper is left behind by the change of the word that it waits for:
\* prepare_to_wait_checked tests and lists in one piece, and futex_wake
\* reaches everyone on the list or has woken its number.
THEOREM NoWakeIsLost == FSpec => []NoLostWake
<1>1. FInv => NoLostWake
  BY DEF FInv
<1> QED
  BY <1>1, FInvariant, PTL

\* A waiter counted by a FUTEX_WAKE returns 0, whatever timeout or signal
\* comes at the same time, because take_waiter did not find it.
THEOREM CountedWaitsReturnZero == FSpec => []CountedReturnsZero
<1>1. FInv => CountedReturnsZero
  BY DEF FInv, CountedIsOut, CountedReturnsZero, Result
<1> QED
  BY <1>1, FInvariant, PTL

\* A blocked thread is inside its wait and on the list.
THEOREM BlockedIsQueued == FSpec => []BlockedMeansQueued
<1>1. FInv => BlockedMeansQueued
  BY DEF FInv
<1> QED
  BY <1>1, FInvariant, PTL

\* A bucket in FUTEX_QUEUES has a waiter, and has no waiter twice.
THEOREM BucketsAreUsed == FSpec => []BucketsHoldWaiters
<1>1. FInv => BucketsHoldWaiters
  BY DEF FInv
<1> QED
  BY <1>1, FInvariant, PTL
=============================================================================
