-------------------------- MODULE SchedulerProofs --------------------------
(***************************************************************************)
(* Proofs about Scheduler, for every number of CPUs and threads.            *)
(*                                                                          *)
(* SoleExecutor is not inductive: a dispatch is safe because the thread it  *)
(* takes from a queue is in use nowhere, which in turn rests on the markers *)
(* (previous) that keep a thread out of the queues while its stack is being *)
(* left, on the lock discipline of the switch protocol, and on a thread     *)
(* having one queue entry. IInv is the conjunction of these facts. The      *)
(* argument needs that a terminated current thread stays terminated (else   *)
(* its quarantine token becomes a dispatchable second entry) and that the   *)
(* scan drops every token it meets: hence ~KilledRunsOn and ~KickGap, whose *)
(* necessity the runs SchedulerKilledRunsOn and SchedulerKickGap show.      *)
(*                                                                          *)
(* Two further invariants rest on IInv: OwnerInv, that every runnable       *)
(* thread is queued or held by a CPU that will queue it, and FenceInv, what *)
(* the CPUs still owe a terminated thread's grace record.                   *)
(***************************************************************************)
EXTENDS Scheduler, WellFoundedInduction, TLAPS

-----------------------------------------------------------------------------
(***************************************************************************)
(* The queue operators, in terms of membership and distinctness.            *)
(***************************************************************************)
Distinct(s) == \A i, j \in 1 .. Len(s) : s[i] = s[j] => i = j

\* Appending adds one member and keeps the entries distinct if it is new.
LEMMA AppendFacts ==
  ASSUME NEW s \in Seq(Threads), NEW t \in Threads
  PROVE  /\ Append(s, t) \in Seq(Threads)
         /\ \A x : In(x, Append(s, t)) <=> In(x, s) \/ x = t
         /\ Distinct(s) /\ ~In(t, s) => Distinct(Append(s, t))
BY DEF In, Distinct

\* A function on 1 .. n is a sequence of length n.
LEMMA FunctionIsSeq ==
  ASSUME NEW n \in Nat, NEW f \in [1 .. n -> Threads]
  PROVE  f \in Seq(Threads) /\ Len(f) = n
OBVIOUS

\* Concatenation keeps the members of both parts.
LEMMA ConcatFacts ==
  ASSUME NEW s \in Seq(Threads), NEW r \in Seq(Threads)
  PROVE  /\ Concat(s, r) \in Seq(Threads)
         /\ \A x : In(x, Concat(s, r)) <=> In(x, s) \/ In(x, r)
         /\ Distinct(s) /\ Distinct(r) /\ (\A x : ~(In(x, s) /\ In(x, r)))
              => Distinct(Concat(s, r))
<1> DEFINE n == Len(s) + Len(r)
           f == Concat(s, r)
<1>1. n \in Nat /\ f \in [1 .. n -> Threads]
  BY DEF Concat
<1>2. f \in Seq(Threads) /\ Len(f) = n
  BY <1>1, FunctionIsSeq
<1>3. /\ \A i \in 1 .. Len(s) : i \in 1 .. n /\ f[i] = s[i]
      /\ \A i \in 1 .. Len(r) : i + Len(s) \in 1 .. n /\ f[i + Len(s)] = r[i]
      /\ \A i \in 1 .. n : i \in 1 .. Len(s) \/ i - Len(s) \in 1 .. Len(r)
      /\ \A i \in 1 .. n : i \notin 1 .. Len(s) => f[i] = r[i - Len(s)]
  BY DEF Concat
<1> HIDE DEF f
<1>4. ASSUME NEW x PROVE In(x, f) <=> In(x, s) \/ In(x, r)
  BY <1>2, <1>3 DEF In
<1>5. ASSUME Distinct(s), Distinct(r), \A x : ~(In(x, s) /\ In(x, r)) PROVE Distinct(f)
  <2> SUFFICES ASSUME NEW i \in 1 .. n, NEW j \in 1 .. n, f[i] = f[j] PROVE i = j
    BY <1>2 DEF Distinct
  <2>1. CASE i \in 1 .. Len(s) /\ j \in 1 .. Len(s)
    BY <2>1, <1>3, <1>5 DEF Distinct
  <2>2. CASE i \notin 1 .. Len(s) /\ j \notin 1 .. Len(s)
    <3>1. /\ i - Len(s) \in 1 .. Len(r) /\ j - Len(s) \in 1 .. Len(r)
          /\ r[i - Len(s)] = r[j - Len(s)]
      BY <2>2, <1>3
    <3>2. i - Len(s) = j - Len(s)
      BY <3>1, <1>5 DEF Distinct
    <3> QED
      BY <3>2
  <2>3. CASE i \in 1 .. Len(s) /\ j \notin 1 .. Len(s)
    <3>1. In(f[i], s) /\ In(f[j], r)
      BY <2>3, <1>3 DEF In
    <3> QED
      BY <3>1, <1>5
  <2>4. CASE i \notin 1 .. Len(s) /\ j \in 1 .. Len(s)
    <3>1. In(f[j], s) /\ In(f[i], r)
      BY <2>4, <1>3 DEF In
    <3> QED
      BY <3>1, <1>5
  <2> QED
    BY <2>1, <2>2, <2>3, <2>4
<1> QED
  BY <1>2, <1>4, <1>5 DEF f

\* Taking a thread out leaves the other members, and none of it.
LEMMA WithoutFacts ==
  ASSUME NEW s \in Seq(Threads), NEW t
  PROVE  /\ Without(s, t) \in Seq(Threads)
         /\ \A x : In(x, Without(s, t)) => In(x, s)
         /\ Distinct(s) => Distinct(Without(s, t)) /\ ~In(t, Without(s, t))
<1>1. CASE ~In(t, s)
  BY <1>1 DEF Without
<1>2. CASE In(t, s)
  <2> DEFINE p == CHOOSE i \in 1 .. Len(s) : s[i] = t
             n == Len(s) - 1
             f == Without(s, t)
  <2>1. p \in 1 .. Len(s) /\ s[p] = t /\ n \in Nat
    BY <1>2 DEF In
  <2>2. f = [i \in 1 .. n |-> IF i < p THEN s[i] ELSE s[i + 1]]
    BY <1>2 DEF Without
  <2> HIDE DEF f, p
  <2>3. f \in [1 .. n -> Threads]
    BY <2>1, <2>2
  <2>4. f \in Seq(Threads) /\ Len(f) = n
    BY <2>1, <2>3, FunctionIsSeq
  <2>5. \A i \in 1 .. n : /\ i \in 1 .. Len(s) /\ i + 1 \in 1 .. Len(s)
                          /\ f[i] = IF i < p THEN s[i] ELSE s[i + 1]
    BY <2>1, <2>2
  <2>6. \A x : In(x, f) => In(x, s)
    BY <2>4, <2>5 DEF In
  <2>7. Distinct(s) => Distinct(f) /\ ~In(t, f)
    <3> SUFFICES ASSUME Distinct(s) PROVE Distinct(f) /\ ~In(t, f)
      OBVIOUS
    <3>1. ASSUME NEW i \in 1 .. n, NEW j \in 1 .. n, f[i] = f[j] PROVE i = j
      BY <2>1, <2>5, <3>1 DEF Distinct
    <3>2. ASSUME NEW i \in 1 .. n PROVE f[i] # t
      BY <2>1, <2>5 DEF Distinct
    <3> QED
      BY <2>4, <3>1, <3>2 DEF In, Distinct
  <2> QED
    BY <2>4, <2>6, <2>7 DEF f
<1> QED
  BY <1>1, <1>2

\* Dropping a prefix drops the members in it.
LEMMA DropFacts ==
  ASSUME NEW s \in Seq(Threads), NEW n \in 1 .. Len(s)
  PROVE  /\ Drop(s, n) \in Seq(Threads)
         /\ \A x : In(x, Drop(s, n)) => In(x, s)
         /\ Distinct(s) => Distinct(Drop(s, n)) /\ ~In(s[n], Drop(s, n))
<1> DEFINE m == Len(s) - n
           f == Drop(s, n)
<1>1. m \in Nat /\ f \in [1 .. m -> Threads]
  BY DEF Drop
<1>2. f \in Seq(Threads) /\ Len(f) = m
  BY <1>1, FunctionIsSeq
<1>3. \A i \in 1 .. m : i + n \in 1 .. Len(s) /\ f[i] = s[i + n]
  BY DEF Drop
<1> HIDE DEF f
<1>4. \A x : In(x, f) => In(x, s)
  BY <1>2, <1>3 DEF In
<1>5. ASSUME Distinct(s) PROVE Distinct(f) /\ ~In(s[n], f)
  <2>1. ASSUME NEW i \in 1 .. m, NEW j \in 1 .. m, f[i] = f[j] PROVE i = j
    <3>1. i + n = j + n
      BY <1>3, <1>5, <2>1 DEF Distinct
    <3> QED
      BY <3>1
  <2>2. ASSUME NEW i \in 1 .. m PROVE f[i] # s[n]
    <3>1. i + n # n
      OBVIOUS
    <3> QED
      BY <1>3, <1>5, <3>1 DEF Distinct
  <2> QED
    BY <1>2, <2>1, <2>2 DEF In, Distinct
<1> QED
  BY <1>2, <1>4, <1>5 DEF f

-----------------------------------------------------------------------------
(***************************************************************************)
(* The per-CPU queues as a whole.                                           *)
(***************************************************************************)
Queues == [CPU -> Seq(Threads)]

OneEntry(q) ==
  /\ \A c \in CPU : Distinct(q[c])
  /\ \A c, d \in CPU : c # d => \A x : ~(In(x, q[c]) /\ In(x, q[d]))

Queued(x, q) == \E c \in CPU : In(x, q[c])

\* The four ways in which the operations change the queues.
Appended(q, d, t) == [q EXCEPT ![d] = Append(@, t)]
Fronted(q, d, t)  == [q EXCEPT ![d] = Concat(<<t>>, @)]
Purged(q, t)      == [d \in CPU |-> Without(q[d], t)]
Merged(q, c, d)   == [q EXCEPT ![c] = Concat(@, q[d]), ![d] = << >>]

\* A thread that is in no queue may be added to the end or the front of one.
LEMMA QueueAdd ==
  ASSUME NEW q \in Queues, NEW t \in Threads, NEW d \in CPU,
         NEW r, r = Appended(q, d, t) \/ r = Fronted(q, d, t)
  PROVE  /\ r \in Queues
         /\ \A x : Queued(x, r) <=> Queued(x, q) \/ x = t
         /\ OneEntry(q) /\ ~Queued(t, q) => OneEntry(r)
<1>1. <<t>> \in Seq(Threads) /\ Distinct(<<t>>) /\ \A x : In(x, <<t>>) <=> x = t
  BY DEF Distinct, In
<1>2. /\ q[d] \in Seq(Threads)
      /\ r[d] = Append(q[d], t) \/ r[d] = Concat(<<t>>, q[d])
      /\ \A c \in CPU : c # d => r[c] = q[c]
  BY DEF Queues, Appended, Fronted
<1>3. ASSUME r[d] = Append(q[d], t)
      PROVE  /\ r[d] \in Seq(Threads)
             /\ \A x : In(x, r[d]) <=> In(x, q[d]) \/ x = t
             /\ Distinct(q[d]) /\ ~In(t, q[d]) => Distinct(r[d])
  BY <1>2, <1>3, AppendFacts
<1>4. ASSUME r[d] = Concat(<<t>>, q[d])
      PROVE  /\ r[d] \in Seq(Threads)
             /\ \A x : In(x, r[d]) <=> In(x, q[d]) \/ x = t
             /\ Distinct(q[d]) /\ ~In(t, q[d]) => Distinct(r[d])
  <2>1. /\ r[d] \in Seq(Threads)
        /\ \A x : In(x, r[d]) <=> In(x, <<t>>) \/ In(x, q[d])
        /\ Distinct(<<t>>) /\ Distinct(q[d]) /\ (\A x : ~(In(x, <<t>>) /\ In(x, q[d])))
             => Distinct(r[d])
    BY <1>1, <1>2, <1>4, ConcatFacts
  <2> QED
    BY <2>1, <1>1
<1>5. /\ r[d] \in Seq(Threads)
      /\ \A x : In(x, r[d]) <=> In(x, q[d]) \/ x = t
      /\ Distinct(q[d]) /\ ~In(t, q[d]) => Distinct(r[d])
  BY <1>2, <1>3, <1>4
<1>6. r \in Queues
  BY <1>5 DEF Queues, Appended, Fronted
<1> QED
  BY <1>2, <1>5, <1>6 DEF Queued, OneEntry

\* Queues that only lose entries keep one entry per thread.
LEMMA QueueShrink ==
  ASSUME NEW q, NEW r,
         \A d \in CPU : \A x : In(x, r[d]) => In(x, q[d]),
         \A d \in CPU : Distinct(q[d]) => Distinct(r[d])
  PROVE  /\ \A x : Queued(x, r) => Queued(x, q)
         /\ OneEntry(q) => OneEntry(r)
BY DEF Queued, OneEntry

\* Taking a thread out of every queue.
LEMMA QueueRemove ==
  ASSUME NEW q \in Queues, NEW t,
         NEW r, r = Purged(q, t)
  PROVE  /\ r \in Queues
         /\ \A x : Queued(x, r) => Queued(x, q)
         /\ OneEntry(q) => OneEntry(r) /\ ~Queued(t, r)
<1>1. \A d \in CPU : /\ r[d] = Without(q[d], t)
                     /\ q[d] \in Seq(Threads)
  BY DEF Queues, Purged
<1>2. r \in Queues
  BY <1>1, WithoutFacts DEF Queues, Purged
<1>3. \A d \in CPU : /\ \A x : In(x, r[d]) => In(x, q[d])
                     /\ Distinct(q[d]) => Distinct(r[d]) /\ ~In(t, r[d])
  BY <1>1, WithoutFacts
<1>4. /\ \A x : Queued(x, r) => Queued(x, q)
      /\ OneEntry(q) => OneEntry(r)
  BY <1>3, QueueShrink
<1>5. OneEntry(q) => ~Queued(t, r)
  BY <1>3 DEF Queued, OneEntry
<1> QED
  BY <1>2, <1>4, <1>5

\* Moving all entries of one queue behind those of another.
LEMMA QueueMerge ==
  ASSUME NEW q \in Queues, NEW c \in CPU, NEW d \in CPU, c # d,
         NEW r, r = Merged(q, c, d)
  PROVE  /\ r \in Queues
         /\ \A x : Queued(x, r) <=> Queued(x, q)
         /\ OneEntry(q) => OneEntry(r)
<1>1. /\ r[c] = Concat(q[c], q[d]) /\ r[d] = << >>
      /\ \A e \in CPU : e # c /\ e # d => r[e] = q[e]
      /\ q[c] \in Seq(Threads) /\ q[d] \in Seq(Threads)
  BY DEF Queues, Merged
<1>2. << >> \in Seq(Threads) /\ Distinct(<< >>) /\ \A x : ~In(x, << >>)
  BY DEF Distinct, In
<1>3. r \in Queues
  BY <1>1, <1>2, ConcatFacts DEF Queues, Merged
<1>4. /\ \A x : In(x, r[c]) <=> In(x, q[c]) \/ In(x, q[d])
      /\ Distinct(q[c]) /\ Distinct(q[d]) /\ (\A x : ~(In(x, q[c]) /\ In(x, q[d])))
           => Distinct(r[c])
  BY <1>1, ConcatFacts
<1>5. \A x : Queued(x, r) <=> Queued(x, q)
  BY <1>1, <1>2, <1>4 DEF Queued
<1>6. ASSUME OneEntry(q) PROVE OneEntry(r)
  BY <1>1, <1>2, <1>4, <1>6 DEF OneEntry
<1> QED
  BY <1>3, <1>5, <1>6

\* Every non-empty set of naturals has a least element.
LEMMA LeastNat ==
  ASSUME NEW S, S \subseteq Nat, S # {}
  PROVE  \E m \in S : \A k \in S : m <= k
<1> DEFINE R == {ss \in Nat \X Nat : ss[1] < ss[2]}
<1>1. IsWellFoundedOn(R, Nat)
  BY NatLessThanWellFounded, Zenon DEF OpToRel
<1> HIDE DEF R
<1>2. PICK m \in S : \A k \in S : ~(<<k, m>> \in R)
  BY <1>1, WFMin
<1>3. \A k \in S : ~(k < m)
  BY <1>2 DEF R
<1> QED
  BY <1>3

\* First(d) is a position of queue[d] that holds a thread not terminated.
LEMMA FirstFacts ==
  ASSUME queue \in Queues, NEW d \in CPU, Live(d) # {}
  PROVE  First(d) \in 1 .. Len(queue[d]) /\ state[queue[d][First(d)]] # "Terminated"
<1>1. queue[d] \in Seq(Threads) /\ Len(queue[d]) \in Nat
  BY DEF Queues
<1>2. Live(d) \subseteq Nat
  BY <1>1 DEF Live
<1>3. \E i \in Live(d) : \A j \in Live(d) : i <= j
  BY <1>2, LeastNat
<1>4. First(d) \in Live(d)
  BY <1>3 DEF First
<1> QED
  BY <1>4 DEF Live

\* The scan for a successor, when no token is kept: the queues lose entries
\* only, and the candidate is a queued thread that has left them, or Idle with
\* nothing left.
LEMMA ScanFacts ==
  ASSUME queue \in Queues, NEW c \in CPU,
         NEW r, r = QueuesAfterScan(c, {})
  PROVE  /\ r \in Queues
         /\ \A x : Queued(x, r) => Queued(x, queue)
         /\ OneEntry(queue) => OneEntry(r)
         /\ \/ Candidate(c) = Idle /\ \A d \in CPU : r[d] = << >>
            \/ /\ Candidate(c) \in Threads
               /\ state[Candidate(c)] # "Terminated"
               /\ Queued(Candidate(c), queue)
               /\ OneEntry(queue) => ~Queued(Candidate(c), r)
<1>1. << >> \in Seq(Threads) /\ Distinct(<< >>) /\ \A x : ~In(x, << >>)
  BY DEF Distinct, In
<1>2. \A e \in CPU : e \in Source(c) =>
        /\ First(e) \in 1 .. Len(queue[e])
        /\ state[queue[e][First(e)]] # "Terminated"
        /\ queue[e] \in Seq(Threads)
  BY FirstFacts DEF Source, Queues
<1>3. \A e \in CPU : e \in Source(c) => r[e] = Concat(Drop(queue[e], First(e)), << >>)
  BY DEF QueuesAfterScan, Declined
<1>4. ASSUME NEW e \in CPU, e \in Source(c)
      PROVE  /\ r[e] \in Seq(Threads)
             /\ \A x : In(x, r[e]) => In(x, queue[e])
             /\ Distinct(queue[e]) => Distinct(r[e]) /\ ~In(queue[e][First(e)], r[e])
  <2> DEFINE s == Drop(queue[e], First(e))
  <2>1. /\ s \in Seq(Threads)
        /\ \A x : In(x, s) => In(x, queue[e])
        /\ Distinct(queue[e]) => Distinct(s) /\ ~In(queue[e][First(e)], s)
    BY <1>2, <1>4, DropFacts
  <2> HIDE DEF s
  <2>2. /\ Concat(s, << >>) \in Seq(Threads)
        /\ \A x : In(x, Concat(s, << >>)) <=> In(x, s) \/ In(x, << >>)
        /\ Distinct(s) /\ Distinct(<< >>) /\ (\A x : ~(In(x, s) /\ In(x, << >>)))
             => Distinct(Concat(s, << >>))
    BY <1>1, <2>1, ConcatFacts
  <2>3. r[e] = Concat(s, << >>)
    BY <1>3, <1>4 DEF s
  <2> QED
    BY <1>1, <2>1, <2>2, <2>3
<1>5. \A e \in CPU : e \notin Source(c) => r[e] = queue[e] \/ r[e] = << >>
  BY DEF QueuesAfterScan, Declined
<1>6. \A e \in CPU : /\ r[e] \in Seq(Threads)
                     /\ \A x : In(x, r[e]) => In(x, queue[e])
                     /\ Distinct(queue[e]) => Distinct(r[e])
  BY <1>1, <1>4, <1>5 DEF Queues
<1>7. r \in Queues
  <2>1. r = [e \in CPU |-> r[e]]
    BY DEF QueuesAfterScan
  <2> QED
    BY <1>6, <2>1 DEF Queues
<1>8. /\ \A x : Queued(x, r) => Queued(x, queue)
      /\ OneEntry(queue) => OneEntry(r)
  BY <1>6, QueueShrink
<1>9. CASE Source(c) = {}
  <2>1. Candidate(c) = Idle
    BY <1>9 DEF Candidate
  <2>2. \A d \in CPU : r[d] = << >>
    BY <1>9 DEF QueuesAfterScan, Declined
  <2> QED
    BY <1>7, <1>8, <2>1, <2>2
<1>10. CASE Source(c) # {}
  <2> DEFINE d == CHOOSE d \in Source(c) : TRUE
  <2>1. d \in CPU /\ d \in Source(c)
    BY <1>10 DEF Source
  <2>2. Candidate(c) = queue[d][First(d)]
    BY <1>10 DEF Candidate
  <2> HIDE DEF d
  <2>3. /\ Candidate(c) \in Threads
        /\ state[Candidate(c)] # "Terminated"
        /\ In(Candidate(c), queue[d])
    BY <1>2, <2>1, <2>2 DEF In
  <2>4. ASSUME OneEntry(queue) PROVE ~Queued(Candidate(c), r)
    <3>1. ~In(Candidate(c), r[d])
      BY <1>4, <2>1, <2>2, <2>4 DEF OneEntry
    <3>2. \A e \in CPU : e # d => ~In(Candidate(c), queue[e])
      BY <2>1, <2>3, <2>4 DEF OneEntry
    <3> QED
      BY <1>6, <3>1, <3>2 DEF Queued
  <2> QED
    BY <1>7, <1>8, <2>1, <2>3, <2>4 DEF Queued
<1> QED
  BY <1>9, <1>10

-----------------------------------------------------------------------------
(***************************************************************************)
(* The inductive invariant.                                                 *)
(***************************************************************************)
LockSteps == {"enter", "isr", "timers", "commit", "dispatch"}

\* A CPU is inside the locked part of the protocol exactly when it is holder.
LockInv == \A c \in CPU : pc[c] \in LockSteps <=> holder = c

\* While it switches by interrupt exit, a CPU is on the stack its marker names.
HandoffInv ==
  \A c \in CPU :
    /\ pc[c] \notin {"dispatch", "eret"} => stack[c] = current[c]
    /\ pc[c] \in {"dispatch", "eret"} => stack[c] \in {Idle, previous[c]}

Unused(x, cur, stk) == \A c \in CPU : x # cur[c] /\ x # stk[c]

\* A queued thread that is not a quarantine token is free to be dispatched.
QueuedInv ==
  \A t \in Threads : Queued(t, queue) /\ state[t] # "Terminated" =>
    state[t] \notin {"New", "Gone"} /\ Unused(t, current, stack)

\* The thread picked under the lock has left the queues and is nobody's yet;
\* once it is current and until the lock is dropped it is Running.
NextInv ==
  \A c \in CPU :
    /\ pc[c] = "commit" =>
         \/ next = Idle
         \/ /\ next \in Threads /\ state[next] = "Running"
            /\ ~Queued(next, queue) /\ Unused(next, current, stack)
    /\ pc[c] = "dispatch" =>
         current[c] = Idle \/ state[current[c]] = "Running"

\* A thread that was never spawned is on no CPU, and a reclaimed one is not the
\* current thread of any.
NewInv ==
  \A t \in Threads :
    /\ state[t] = "New" => Unused(t, current, stack)
    /\ state[t] = "Gone" => \A c \in CPU : t # current[c]

\* No thread is current, or has its stack in use, on two CPUs.
SoleInv ==
  \A c, d \in CPU : c # d =>
    /\ current[c] # Idle => current[c] # current[d] /\ current[c] # stack[d]
    /\ stack[c] # Idle => stack[c] # stack[d]

IInv ==
  /\ TypeOK /\ LockInv /\ HandoffInv /\ OneEntry(queue)
  /\ QueuedInv /\ NextInv /\ NewInv /\ SoleInv

\* What a step may do to the threads and their queues.
Final ==
  \A t \in Threads : state[t] \in {"Terminated", "Gone"} =>
                       state'[t] \in {"Terminated", "Gone"}

ThreadsOK ==
  /\ state' \in [Threads -> States] /\ queue' \in Queues
  /\ OneEntry(queue') /\ Final
  /\ \A x \in Threads : state'[x] = "New" => state[x] = "New"
  /\ \A x \in Threads : state'[x] = "Gone" => state[x] = "Gone" \/ \A c \in CPU : x # current[c]
  /\ \A x \in Threads : Queued(x, queue') /\ state'[x] # "Terminated" =>
       /\ state'[x] \notin {"New", "Gone"}
       /\ Queued(x, queue) \/ Unused(x, current', stack')

-----------------------------------------------------------------------------
(***************************************************************************)
(* Lemmas on the steps' common parts.                                       *)
(***************************************************************************)

\* The wait kinds are blocked states.
LEMMA KindFacts ==
  \A k \in WaitKinds : k \notin {"New", "Ready", "Running", "Terminated", "Gone"}
BY KindAssumption DEF AllWaitKinds

\* A step that leaves threads and queues alone.
LEMMA UnchangedOK ==
  ASSUME IInv, UNCHANGED threadVars
  PROVE  ThreadsOK
BY DEF IInv, TypeOK, ThreadsOK, Final, threadVars, QueuedInv, Queues

\* The invariants on queued, new and executing threads survive every step that
\* moves no CPU to another thread or stack.
LEMMA SameCpus ==
  ASSUME IInv, ThreadsOK, UNCHANGED <<current, stack>>
  PROVE  OneEntry(queue') /\ QueuedInv' /\ NewInv' /\ SoleInv' /\ Final
<1>1. QueuedInv'
  BY DEF IInv, ThreadsOK, QueuedInv, Final, Unused
<1>2. NewInv'
  BY DEF IInv, ThreadsOK, NewInv, Unused
<1>3. SoleInv'
  BY DEF IInv, SoleInv
<1> QED
  BY <1>1, <1>2, <1>3 DEF ThreadsOK

\* The enqueue rule of the wakeup functions.
LEMMA MakeReadyOK ==
  ASSUME IInv, NEW t \in Threads, NEW d \in CPU, MakeReady(t, d),
         state[t] \notin {"New", "Terminated", "Gone"}, UNCHANGED <<current, stack>>
  PROVE  ThreadsOK
<1>1. /\ state \in [Threads -> States] /\ queue \in Queues /\ OneEntry(queue)
      /\ state' = [state EXCEPT ![t] = "Ready"] /\ "Ready" \in States
  BY DEF IInv, TypeOK, Queues, MakeReady, States
<1>2. CASE MustEnqueue(t)
  <2>1. queue' = Appended(queue, d, t)
    BY <1>2 DEF MakeReady, Appended
  <2>2. ~Queued(t, queue) /\ Unused(t, current, stack)
    BY <1>2, ThreadAssumption
    DEF MustEnqueue, InAnyQueue, Queued, IsCurrent, IsDeferred, Unused, IInv, HandoffInv
  <2>3. /\ queue' \in Queues /\ OneEntry(queue')
        /\ \A x : Queued(x, queue') <=> Queued(x, queue) \/ x = t
    BY <1>1, <2>1, <2>2, QueueAdd
  <2> QED
    BY <1>1, <2>2, <2>3 DEF ThreadsOK, Final, Unused, IInv, QueuedInv
<1>3. CASE ~MustEnqueue(t)
  <2>1. queue' = queue
    BY <1>3 DEF MakeReady
  <2> QED
    BY <1>1, <2>1 DEF ThreadsOK, Final, IInv, QueuedInv
<1> QED
  BY <1>2, <1>3

\* requeue_thread_after_save never queues a thread whose stack is in use.
LEMMA RequeueOK ==
  ASSUME IInv, NEW c \in CPU, NEW t,
         RequeueAfterSave(c, t, current', previous'),
         \A d \in CPU : stack'[d] \in {Idle, current'[d], previous'[d]}
  PROVE  ThreadsOK
<1>1. /\ state \in [Threads -> States] /\ queue \in Queues /\ OneEntry(queue)
      /\ "Ready" \in States
  BY DEF IInv, TypeOK, Queues, States
<1>2. CASE Requeueable(t, current', previous')
  <2>1. /\ t \in Threads /\ state[t] \in {"Ready", "Running"}
        /\ ~Queued(t, queue) /\ Unused(t, current', stack')
    BY <1>2, ThreadAssumption
    DEF Requeueable, InAnyQueue, Queued, IsCurrent, IsDeferred, Unused
  <2>2. /\ state' = [state EXCEPT ![t] = "Ready"]
        /\ queue' = Appended(queue, c, t)
    BY <1>2 DEF RequeueAfterSave, Appended
  <2>3. /\ queue' \in Queues /\ OneEntry(queue')
        /\ \A x : Queued(x, queue') <=> Queued(x, queue) \/ x = t
    BY <1>1, <2>1, <2>2, QueueAdd
  <2> QED
    BY <1>1, <2>1, <2>2, <2>3 DEF ThreadsOK, Final, IInv, QueuedInv
<1>3. CASE ~Requeueable(t, current', previous')
  BY <1>3, UnchangedOK DEF RequeueAfterSave
<1> QED
  BY <1>2, <1>3

\* It leaves alone a thread that a CPU is about to run.
LEMMA RequeueOthers ==
  ASSUME IInv, NEW c \in CPU, NEW t, NEW n \in Threads,
         RequeueAfterSave(c, t, current', previous'),
         \E d \in CPU : current'[d] = n
  PROVE  (Queued(n, queue') => Queued(n, queue)) /\ state'[n] = state[n]
<1>1. state \in [Threads -> States] /\ queue \in Queues
  BY DEF IInv, TypeOK, Queues
<1>2. CASE Requeueable(t, current', previous')
  <2>1. t \in Threads /\ t # n
    BY <1>2 DEF Requeueable, IsCurrent
  <2>2. /\ state' = [state EXCEPT ![t] = "Ready"]
        /\ queue' = Appended(queue, c, t)
    BY <1>2 DEF RequeueAfterSave, Appended
  <2>3. \A x : Queued(x, queue') <=> Queued(x, queue) \/ x = t
    BY <1>1, <2>1, <2>2, QueueAdd
  <2> QED
    BY <1>1, <2>1, <2>2, <2>3
<1>3. CASE ~Requeueable(t, current', previous')
  BY <1>3 DEF RequeueAfterSave, threadVars
<1> QED
  BY <1>2, <1>3

\* No CPU has picked a successor it has not yet dispatched.
Quiet == \A d \in CPU : pc[d] \notin {"commit", "dispatch"}

\* The lock is free, or its holder is before its choice.
LEMMA QuietFacts ==
  ASSUME IInv,
         \/ holder = NoCpu
         \/ \E c \in CPU : \/ Scheduling(c, "enter")
                           \/ Scheduling(c, "isr")
                           \/ Scheduling(c, "timers")
  PROVE  Quiet
BY CpuAssumption DEF IInv, LockInv, LockSteps, Scheduling, Quiet, CPU, NoCpu

\* The steps that touch threads and wakeups only.
LEMMA ThreadOnly ==
  ASSUME IInv, ThreadsOK, Quiet, UNCHANGED <<cpuVars, pc, holder, path, requeueOld, next>>,
         isr' \subseteq Threads, due' \subseteq Threads, batch' \subseteq Threads,
         fenced' \subseteq Threads, grace' \in [Threads -> [CPU -> 0 .. GraceEntries]],
         incidents' \in 0 .. MaxIncidents
  PROVE  IInv' /\ Final
<1>1. TypeOK'
  BY DEF IInv, TypeOK, ThreadsOK, cpuVars, Queues
<1>2. LockInv' /\ HandoffInv'
  BY DEF IInv, LockInv, HandoffInv, cpuVars
<1>3. NextInv'
  BY DEF Quiet, NextInv
<1>4. OneEntry(queue') /\ QueuedInv' /\ NewInv' /\ SoleInv' /\ Final
  BY SameCpus DEF cpuVars
<1> QED
  BY <1>1, <1>2, <1>3, <1>4 DEF IInv

\* The same with the wakeups left alone too.
LEMMA ThreadOnlyPlain ==
  ASSUME IInv, ThreadsOK, Quiet, UNCHANGED <<cpuVars, pc, wakeVars, lockVars>>,
         fenced' \subseteq Threads, grace' \in [Threads -> [CPU -> 0 .. GraceEntries]],
         incidents' \in 0 .. MaxIncidents
  PROVE  IInv' /\ Final
<1>1. isr' \subseteq Threads /\ due' \subseteq Threads /\ batch' \subseteq Threads
  BY DEF IInv, TypeOK, wakeVars, lockVars
<1> QED
  BY <1>1, ThreadOnly DEF lockVars

\* The bookkeeping of a step that leaves graceVars alone.
LEMMA GraceSame ==
  ASSUME IInv, UNCHANGED graceVars
  PROVE  /\ fenced' \subseteq Threads
         /\ grace' \in [Threads -> [CPU -> 0 .. GraceEntries]]
         /\ incidents' \in 0 .. MaxIncidents
BY DEF IInv, TypeOK, graceVars

-----------------------------------------------------------------------------
(***************************************************************************)
(* One lemma per action: it preserves the invariant and finality.           *)
(***************************************************************************)
\* add_thread_inner queues a thread that is nowhere yet.
LEMMA SpawnStep ==
  ASSUME IInv, NEW c \in CPU, NEW t \in Threads, NEW d \in CPU, NEW front \in BOOLEAN,
         Spawn(c, t, d, front)
  PROVE  IInv' /\ Final
<1>1. queue' = Appended(queue, d, t) \/ queue' = Fronted(queue, d, t)
  BY DEF Spawn, Appended, Fronted
<1>2. /\ state[t] = "New" /\ state' = [state EXCEPT ![t] = "Ready"] /\ "Ready" \in States
      /\ state \in [Threads -> States] /\ queue \in Queues /\ OneEntry(queue)
  BY DEF Spawn, IInv, TypeOK, Queues, States
<1>3. ~Queued(t, queue) /\ Unused(t, current, stack)
  BY <1>2 DEF IInv, QueuedInv, NewInv
<1>4. /\ queue' \in Queues /\ OneEntry(queue')
      /\ \A x : Queued(x, queue') <=> Queued(x, queue) \/ x = t
  BY <1>1, <1>2, <1>3, QueueAdd
<1>5. current' = current /\ stack' = stack
  BY DEF Spawn, cpuVars
<1>6. ThreadsOK
  BY <1>2, <1>3, <1>4, <1>5 DEF ThreadsOK, Final, IInv, QueuedInv
<1>7. Quiet
  BY QuietFacts DEF Spawn, Outside
<1> QED
  BY <1>6, <1>7, GraceSame, ThreadOnlyPlain DEF Spawn

\* The block_current functions: the blocked thread leaves the queues.
LEMMA BlockCurrentStep ==
  ASSUME IInv, ~KilledRunsOn, NEW c \in CPU, NEW k \in WaitKinds, BlockCurrent(c, k)
  PROVE  IInv' /\ Final
<1> DEFINE t == current[c]
<1>1. /\ t \in Threads /\ state[t] \in {"Running", "Ready"}
      /\ state' = [state EXCEPT ![t] = k] /\ k \in States
      /\ queue' = Purged(queue, t)
      /\ state \in [Threads -> States] /\ queue \in Queues /\ OneEntry(queue)
  BY DEF BlockCurrent, MayBlock, IInv, TypeOK, Queues, States, Purged
<1> HIDE DEF t
<1>2. /\ queue' \in Queues /\ OneEntry(queue')
      /\ \A x : Queued(x, queue') => Queued(x, queue)
  BY <1>1, QueueRemove
<1>3. ThreadsOK
  BY <1>1, <1>2, KindFacts DEF ThreadsOK, Final, IInv, QueuedInv
<1>4. Quiet
  BY QuietFacts DEF BlockCurrent, Outside
<1> QED
  BY <1>3, <1>4, GraceSame, ThreadOnlyPlain DEF BlockCurrent

\* publish_current_io_wait_state: the current thread of a CPU is live, so it has
\* no queue entry that could go stale.
LEMMA PublishIoWaitStep ==
  ASSUME IInv, ~KilledRunsOn, NEW c \in CPU, PublishIoWait(c)
  PROVE  IInv' /\ Final
<1> DEFINE t == current[c]
<1>1. /\ t \in Threads /\ state[t] \in {"Running", "Ready"}
      /\ state' = [state EXCEPT ![t] = "BlockedOnIO"] /\ "BlockedOnIO" \in States
      /\ queue' = queue
      /\ state \in [Threads -> States] /\ queue \in Queues /\ OneEntry(queue)
  BY DEF PublishIoWait, MayBlock, IInv, TypeOK, Queues, States
<1> HIDE DEF t
<1>2. ThreadsOK
  BY <1>1 DEF ThreadsOK, Final, IInv, QueuedInv
<1>3. Quiet
  BY QuietFacts DEF PublishIoWait, Outside
<1> QED
  BY <1>2, <1>3, GraceSame, ThreadOnlyPlain DEF PublishIoWait

\* finish_wait takes back the published wait of the current thread.
LEMMA FinishWaitStep ==
  ASSUME IInv, NEW c \in CPU, FinishWait(c)
  PROVE  IInv' /\ Final
<1> DEFINE t == current[c]
<1>1. /\ t \in Threads /\ state[t] = "BlockedOnIO"
      /\ state' = [state EXCEPT ![t] = "Ready"] /\ "Ready" \in States
      /\ queue' = queue
      /\ state \in [Threads -> States] /\ queue \in Queues /\ OneEntry(queue)
  BY DEF FinishWait, IInv, TypeOK, Queues, States
<1> HIDE DEF t
<1>2. ThreadsOK
  BY <1>1 DEF ThreadsOK, Final, IInv, QueuedInv
<1>3. Quiet
  BY QuietFacts DEF FinishWait, Outside
<1> QED
  BY <1>2, <1>3, GraceSame, ThreadOnlyPlain DEF FinishWait

\* The wakeup functions apply to blocked threads only, by the common enqueue rule.
LEMMA WakeStep ==
  ASSUME IInv, NEW c \in CPU, NEW t \in Threads, NEW d \in CPU, NEW op \in DOMAIN Accepts,
         Wake(c, t, d, op)
  PROVE  IInv' /\ Final
<1>1. op \in {"unblock", "wake_waitqueue", "for_signal", "for_child_exit"}
  BY DEF Accepts
<1>2. state[t] \in {"Blocked", "BlockedOnSignal", "BlockedOnTimer", "BlockedOnIO",
                    "BlockedOnChildExit"}
  BY <1>1 DEF Wake, Accepts
<1>3. MakeReady(t, d) /\ UNCHANGED <<current, stack>>
  BY DEF Wake, cpuVars
<1>4. ThreadsOK
  BY <1>2, <1>3, MakeReadyOK
<1>5. Quiet
  BY QuietFacts DEF Wake, Outside
<1> QED
  BY <1>4, <1>5, GraceSame, ThreadOnlyPlain DEF Wake

\* terminate_process_threads adds at most one token for its victim.
LEMMA TerminateStep ==
  ASSUME IInv, NEW c \in CPU, NEW t \in Threads, NEW d \in CPU,
         TerminateProcessThreads(c, t, d)
  PROVE  IInv' /\ Final
<1>1. /\ state' = [state EXCEPT ![t] = "Terminated"] /\ "Terminated" \in States
      /\ state \in [Threads -> States] /\ queue \in Queues /\ OneEntry(queue)
  BY DEF TerminateProcessThreads, IInv, TypeOK, Queues, States
<1>2. \/ queue' = queue
      \/ queue' = Appended(queue, d, t) /\ ~Queued(t, queue)
  BY DEF TerminateProcessThreads, InAnyQueue, Queued, Appended
<1>3. /\ queue' \in Queues /\ OneEntry(queue')
      /\ \A x : Queued(x, queue') => Queued(x, queue) \/ x = t
  BY <1>1, <1>2, QueueAdd
<1>4. ThreadsOK
  BY <1>1, <1>3 DEF ThreadsOK, Final, IInv, QueuedInv
<1>5. Quiet
  BY QuietFacts DEF TerminateProcessThreads, Outside
<1> QED
  BY <1>4, <1>5, GraceSame, ThreadOnlyPlain DEF TerminateProcessThreads

\* reclaim_terminated_threads, first pass: only the grace record changes.
LEMMA FenceStep ==
  ASSUME IInv, NEW c \in CPU, NEW t \in Threads, FenceTerminated(c, t)
  PROVE  IInv' /\ Final
<1>1. ThreadsOK
  BY UnchangedOK DEF FenceTerminated
<1>2. Quiet
  BY QuietFacts DEF FenceTerminated, Outside
<1>3. /\ fenced' \subseteq Threads
      /\ grace' \in [Threads -> [CPU -> 0 .. GraceEntries]]
      /\ incidents' \in 0 .. MaxIncidents
  BY DEF FenceTerminated, IInv, TypeOK, GraceEntries
<1> QED
  BY <1>1, <1>2, <1>3, ThreadOnlyPlain DEF FenceTerminated

\* reclaim_terminated_threads, second pass: the victim leaves every queue.
LEMMA ReclaimStep ==
  ASSUME IInv, NEW c \in CPU, NEW t \in Threads, ReclaimTerminated(c, t)
  PROVE  IInv' /\ Final
<1>1. /\ state' = [state EXCEPT ![t] = "Gone"] /\ "Gone" \in States
      /\ queue' = Purged(queue, t)
      /\ state \in [Threads -> States] /\ queue \in Queues /\ OneEntry(queue)
  BY DEF ReclaimTerminated, IInv, TypeOK, Queues, States, Purged
<1>2. /\ queue' \in Queues /\ OneEntry(queue') /\ ~Queued(t, queue')
      /\ \A x : Queued(x, queue') => Queued(x, queue)
  BY <1>1, QueueRemove
<1>3. ThreadsOK
  BY <1>1, <1>2 DEF ThreadsOK, Final, IInv, QueuedInv, ReclaimTerminated, IsCurrent
<1>4. Quiet
  BY QuietFacts DEF ReclaimTerminated, Outside
<1>5. /\ fenced' \subseteq Threads
      /\ grace' \in [Threads -> [CPU -> 0 .. GraceEntries]]
      /\ incidents' \in 0 .. MaxIncidents
  BY DEF ReclaimTerminated, IInv, TypeOK
<1> QED
  BY <1>3, <1>4, <1>5, ThreadOnlyPlain DEF ReclaimTerminated

\* reclaim_unschedulable_cpu_queues moves entries and duplicates none.
LEMMA StalledStep ==
  ASSUME IInv, NEW c \in CPU, NEW d \in CPU, ReclaimStalledQueue(c, d)
  PROVE  IInv' /\ Final
<1>1. /\ c # d /\ queue' = Merged(queue, c, d) /\ state' = state
      /\ state \in [Threads -> States] /\ queue \in Queues /\ OneEntry(queue)
  BY DEF ReclaimStalledQueue, IInv, TypeOK, Queues, Merged
<1>2. /\ queue' \in Queues /\ OneEntry(queue')
      /\ \A x : Queued(x, queue') <=> Queued(x, queue)
  BY <1>1, QueueMerge
<1>3. ThreadsOK
  BY <1>1, <1>2 DEF ThreadsOK, Final, IInv, QueuedInv
<1>4. Quiet
  BY QuietFacts DEF ReclaimStalledQueue
<1>5. /\ fenced' \subseteq Threads
      /\ grace' \in [Threads -> [CPU -> 0 .. GraceEntries]]
      /\ incidents' \in 0 .. MaxIncidents
  BY IncidentAssumption DEF ReclaimStalledQueue, IInv, TypeOK
<1> QED
  BY <1>3, <1>4, <1>5, ThreadOnlyPlain DEF ReclaimStalledQueue

\* Lock-free wakeups only fill the buffers.
LEMMA WakeupBufferStep ==
  ASSUME IInv, NEW t \in Threads, IsrPush(t) \/ TimerDue(t)
  PROVE  IInv' /\ Final
<1>1. ThreadsOK
  BY UnchangedOK DEF IsrPush, TimerDue
<1>2. UNCHANGED <<cpuVars, pc, lockVars, graceVars>>
  BY DEF IsrPush, TimerDue
<1>3. TypeOK'
  BY <1>2 DEF IsrPush, TimerDue, IInv, TypeOK, threadVars, cpuVars, lockVars, graceVars
<1>4. LockInv' /\ HandoffInv' /\ NextInv'
  BY <1>2 DEF IInv, LockInv, HandoffInv, NextInv, IsrPush, TimerDue, threadVars, cpuVars,
              lockVars
<1>5. OneEntry(queue') /\ QueuedInv' /\ NewInv' /\ SoleInv' /\ Final
  BY <1>1, <1>2, SameCpus DEF cpuVars
<1> QED
  BY <1>3, <1>4, <1>5 DEF IInv

\* The interrupt exit empties its slot without the lock.
LEMMA IrqEnterStep ==
  ASSUME IInv, NEW c \in CPU, IrqEnter(c)
  PROVE  IInv' /\ Final
<1>1. ThreadsOK
  BY UnchangedOK DEF IrqEnter
<1>2. grace' \in [Threads -> [CPU -> 0 .. GraceEntries]]
  BY DEF IrqEnter, IInv, TypeOK, Min0, GraceEntries
<1>3. TypeOK'
  BY <1>2 DEF IrqEnter, IInv, TypeOK, threadVars, wakeVars, lockVars, Pcs
<1>4. LockInv' /\ HandoffInv' /\ NextInv'
  BY DEF IInv, TypeOK, LockInv, LockSteps, HandoffInv, NextInv, IrqEnter, threadVars, lockVars
<1>5. OneEntry(queue') /\ QueuedInv' /\ NewInv' /\ SoleInv' /\ Final
  BY <1>1, SameCpus DEF IrqEnter
<1> QED
  BY <1>3, <1>4, <1>5 DEF IInv

\* The interrupt exit that returns to the interrupted thread.
LEMMA ReturnStep ==
  ASSUME IInv, NEW c \in CPU, ReturnToThread(c)
  PROVE  IInv' /\ Final
<1>1. ThreadsOK
  BY UnchangedOK DEF ReturnToThread
<1>2. TypeOK'
  BY DEF ReturnToThread, IInv, TypeOK, threadVars, wakeVars, lockVars, graceVars, Pcs
<1>3. LockInv' /\ HandoffInv' /\ NextInv'
  BY DEF IInv, TypeOK, LockInv, LockSteps, HandoffInv, NextInv, ReturnToThread, threadVars,
         lockVars
<1>4. OneEntry(queue') /\ QueuedInv' /\ NewInv' /\ SoleInv' /\ Final
  BY <1>1, SameCpus DEF ReturnToThread
<1> QED
  BY <1>2, <1>3, <1>4 DEF IInv

\* The four entries that clear a marker and requeue the parked thread: the CPU
\* is on its current thread's stack, so no marker it clears was protecting one.
LEMMA DrainStep ==
  ASSUME IInv, NEW c \in CPU, pc[c] \in {"run", "drain", "check"},
         NEW t, RequeueAfterSave(c, t, current, previous'),
         previous' = previous \/ previous' = [previous EXCEPT ![c] = NoThread],
         UNCHANGED <<current, stack>>
  PROVE  ThreadsOK
<1>1. \A d \in CPU : stack[d] \in {Idle, current[d], previous'[d]}
  BY DEF IInv, TypeOK, HandoffInv
<1> QED
  BY <1>1, RequeueOK

\* The early drain of the interrupt exit.
LEMMA DrainDeferredStep ==
  ASSUME IInv, NEW c \in CPU, DrainDeferred(c)
  PROVE  IInv' /\ Final
<1>1. ThreadsOK
  BY DrainStep DEF DrainDeferred
<1>2. Quiet
  BY QuietFacts DEF DrainDeferred
<1>3. TypeOK'
  BY <1>1 DEF DrainDeferred, IInv, TypeOK, ThreadsOK, Queues, wakeVars, lockVars, graceVars,
              Pcs
<1>4. LockInv' /\ HandoffInv' /\ NextInv'
  BY <1>2 DEF IInv, TypeOK, LockInv, LockSteps, HandoffInv, NextInv, Quiet, DrainDeferred,
              lockVars
<1>5. OneEntry(queue') /\ QueuedInv' /\ NewInv' /\ SoleInv' /\ Final
  BY <1>1, SameCpus DEF DrainDeferred
<1> QED
  BY <1>3, <1>4, <1>5 DEF IInv

\* The second drain, at the start of the consolidated lock hold.
LEMMA LockForSwitchStep ==
  ASSUME IInv, NEW c \in CPU, LockForSwitch(c)
  PROVE  IInv' /\ Final
<1>1. ThreadsOK
  BY DrainStep DEF LockForSwitch
<1>2. Quiet
  BY QuietFacts DEF LockForSwitch
<1>3. TypeOK'
  BY <1>1 DEF LockForSwitch, IInv, TypeOK, ThreadsOK, Queues, wakeVars, graceVars, Pcs
<1>4. LockInv'
  BY <1>2, CpuAssumption DEF IInv, TypeOK, LockInv, LockSteps, LockForSwitch, CPU, NoCpu
<1>5. HandoffInv' /\ NextInv'
  BY <1>2 DEF IInv, TypeOK, HandoffInv, NextInv, Quiet, LockForSwitch
<1>6. OneEntry(queue') /\ QueuedInv' /\ NewInv' /\ SoleInv' /\ Final
  BY <1>1, SameCpus DEF LockForSwitch
<1> QED
  BY <1>3, <1>4, <1>5, <1>6 DEF IInv

\* The second drain, when the current thread turns out to be runnable.
LEMMA LockAndReturnStep ==
  ASSUME IInv, NEW c \in CPU, LockAndReturn(c)
  PROVE  IInv' /\ Final
<1>1. ThreadsOK
  BY DrainStep DEF LockAndReturn
<1>2. Quiet
  BY QuietFacts DEF LockAndReturn
<1>3. TypeOK'
  BY <1>1 DEF LockAndReturn, IInv, TypeOK, ThreadsOK, Queues, wakeVars, lockVars, graceVars,
              Pcs
<1>4. LockInv' /\ HandoffInv' /\ NextInv'
  BY <1>2 DEF IInv, TypeOK, LockInv, LockSteps, HandoffInv, NextInv, Quiet, LockAndReturn,
              lockVars
<1>5. OneEntry(queue') /\ QueuedInv' /\ NewInv' /\ SoleInv' /\ Final
  BY <1>1, SameCpus DEF LockAndReturn
<1> QED
  BY <1>3, <1>4, <1>5 DEF IInv

\* schedule_from_kernel drains the slot under the lock it goes on to use.
LEMMA ScheduleFromKernelStep ==
  ASSUME IInv, NEW c \in CPU, ScheduleFromKernel(c)
  PROVE  IInv' /\ Final
<1>1. ThreadsOK
  BY DrainStep DEF ScheduleFromKernel, Outside
<1>2. Quiet
  BY QuietFacts DEF ScheduleFromKernel, Outside
<1>3. TypeOK'
  BY <1>1 DEF ScheduleFromKernel, IInv, TypeOK, ThreadsOK, Queues, wakeVars, graceVars, Pcs
<1>4. LockInv'
  BY <1>2, CpuAssumption
  DEF IInv, TypeOK, LockInv, LockSteps, ScheduleFromKernel, Outside, CPU, NoCpu
<1>5. HandoffInv' /\ NextInv'
  BY <1>2 DEF IInv, TypeOK, HandoffInv, NextInv, Quiet, ScheduleFromKernel, Outside
<1>6. OneEntry(queue') /\ QueuedInv' /\ NewInv' /\ SoleInv' /\ Final
  BY <1>1, SameCpus DEF ScheduleFromKernel
<1> QED
  BY <1>3, <1>4, <1>5, <1>6 DEF IInv

\* schedule_terminated_from_exit: the exiting thread leaves the queues.
LEMMA ExitCurrentStep ==
  ASSUME IInv, NEW c \in CPU, ExitCurrent(c)
  PROVE  IInv' /\ Final
<1> DEFINE t == current[c]
<1>1. /\ t \in Threads /\ queue' = Purged(queue, t)
      /\ state' = [state EXCEPT ![t] = "Terminated"] /\ "Terminated" \in States
      /\ state \in [Threads -> States] /\ queue \in Queues /\ OneEntry(queue)
  BY DEF ExitCurrent, IInv, TypeOK, Queues, States, Purged
<1> HIDE DEF t
<1>2. /\ queue' \in Queues /\ OneEntry(queue')
      /\ \A x : Queued(x, queue') => Queued(x, queue)
  BY <1>1, QueueRemove
<1>3. ThreadsOK
  BY <1>1, <1>2 DEF ThreadsOK, Final, IInv, QueuedInv
<1>4. Quiet
  BY QuietFacts DEF ExitCurrent, Outside
<1>5. TypeOK'
  BY <1>3 DEF ExitCurrent, IInv, TypeOK, ThreadsOK, Queues, cpuVars, wakeVars, graceVars, Pcs
<1>6. LockInv'
  BY <1>4, CpuAssumption
  DEF IInv, TypeOK, LockInv, LockSteps, ExitCurrent, Outside, CPU, NoCpu
<1>7. HandoffInv' /\ NextInv'
  BY <1>4 DEF IInv, TypeOK, HandoffInv, NextInv, Quiet, ExitCurrent, Outside, cpuVars
<1>8. OneEntry(queue') /\ QueuedInv' /\ NewInv' /\ SoleInv' /\ Final
  BY <1>3, SameCpus DEF ExitCurrent, cpuVars
<1> QED
  BY <1>5, <1>6, <1>7, <1>8 DEF IInv

\* Taking the contents of the ISR wakeup buffers.
LEMMA DrainIsrStep ==
  ASSUME IInv, NEW c \in CPU, DrainIsrBuffers(c)
  PROVE  IInv' /\ Final
<1>1. ThreadsOK
  BY UnchangedOK DEF DrainIsrBuffers
<1>2. TypeOK'
  BY DEF DrainIsrBuffers, IInv, TypeOK, threadVars, cpuVars, graceVars, Pcs
<1>3. LockInv' /\ HandoffInv' /\ NextInv'
  BY DEF IInv, TypeOK, LockInv, LockSteps, HandoffInv, NextInv, DrainIsrBuffers, Scheduling,
         threadVars, cpuVars
<1>4. OneEntry(queue') /\ QueuedInv' /\ NewInv' /\ SoleInv' /\ Final
  BY <1>1, SameCpus DEF DrainIsrBuffers, cpuVars
<1> QED
  BY <1>2, <1>3, <1>4 DEF IInv

\* Wakeups from the ISR buffers and from expired timers.
LEMMA WakeFromBatchStep ==
  ASSUME IInv, NEW c \in CPU, NEW t \in Threads, NEW d \in CPU,
         WakeFromIsr(c, t, d) \/ WakeExpiredTimer(c, t, d)
  PROVE  IInv' /\ Final
<1>1. UNCHANGED <<current, stack>>
  BY DEF WakeFromIsr, WakeExpiredTimer, cpuVars
<1>2. \/ UNCHANGED threadVars
      \/ MakeReady(t, d) /\ state[t] \notin {"New", "Terminated", "Gone"}
  BY DEF WakeFromIsr, WakeExpiredTimer, WakeIoThread
<1>3. ThreadsOK
  BY <1>1, <1>2, MakeReadyOK, UnchangedOK
<1>4. Quiet
  BY QuietFacts DEF WakeFromIsr, WakeExpiredTimer
<1>5. isr' \subseteq Threads /\ due' \subseteq Threads /\ batch' \subseteq Threads
  BY DEF WakeFromIsr, WakeExpiredTimer, wakeVars, IInv, TypeOK
<1>6. UNCHANGED graceVars /\ UNCHANGED <<cpuVars, pc, holder, path, requeueOld, next>>
  BY DEF WakeFromIsr, WakeExpiredTimer
<1> QED
  BY <1>3, <1>4, <1>5, <1>6, GraceSame, ThreadOnly

\* The outgoing thread is marked before it is published as Ready.
LEMMA PublishCurrentStep ==
  ASSUME IInv, NEW c \in CPU, PublishCurrent(c)
  PROVE  IInv' /\ Final
<1> DEFINE t == current[c]
<1>1. /\ queue' = queue /\ UNCHANGED <<current, stack>>
      /\ "Ready" \in States
      /\ state \in [Threads -> States] /\ queue \in Queues /\ OneEntry(queue)
  BY DEF PublishCurrent, IInv, TypeOK, Queues, States
<1>2. \/ state' = state
      \/ /\ t \in Threads /\ state[t] # "Terminated"
         /\ state' = [state EXCEPT ![t] = "Ready"]
  BY DEF PublishCurrent, OffCpuState
<1>3. t \in Threads /\ state[t] # "Terminated" => ~Queued(t, queue)
  BY DEF IInv, QueuedInv, Unused
<1>4. t \in Threads => state[t] \notin {"New", "Gone"}
  BY DEF IInv, NewInv, Unused
<1>5. Final
  <2>1. CASE state' = state
    BY <2>1 DEF Final
  <2>2. CASE state' # state
    <3>1. t \in Threads /\ state[t] \notin {"Terminated", "Gone"}
      BY <1>2, <1>4, <2>2
    <3> QED
      BY <3>1, <1>1, <1>2 DEF Final
  <2> QED
    BY <2>1, <2>2
<1> HIDE DEF t
<1>6. ThreadsOK
  BY <1>1, <1>2, <1>3, <1>4, <1>5 DEF ThreadsOK, IInv, QueuedInv
<1>7. Quiet
  BY QuietFacts DEF PublishCurrent
<1>8. TypeOK'
  BY <1>6 DEF PublishCurrent, IInv, TypeOK, ThreadsOK, Queues, graceVars, Pcs
<1>9. LockInv' /\ HandoffInv' /\ NextInv'
  BY <1>7 DEF IInv, TypeOK, LockInv, LockSteps, HandoffInv, NextInv, Quiet, PublishCurrent,
              Scheduling
<1>10. OneEntry(queue') /\ QueuedInv' /\ NewInv' /\ SoleInv' /\ Final
  BY <1>1, <1>6, SameCpus
<1> QED
  BY <1>8, <1>9, <1>10 DEF IInv

\* Without a kick gap the candidate is never the current thread unless both
\* are Idle, and then every token has been dropped: no entry is left to take.
LEMMA PickNextCases ==
  ASSUME IInv, ~KickGap, NEW c \in CPU, PickNext(c)
  PROVE  LET r == QueuesAfterScan(c, {}) IN
         \/ current[c] = Idle /\ Candidate(c) = Idle /\ KeepCurrent(c, r)
         \/ Candidate(c) # current[c] /\ Select(c, Candidate(c), r, requeueOld)
<1> DEFINE r == QueuesAfterScan(c, {})
<1>1. queue \in Queues /\ OneEntry(queue) /\ Idle \notin Threads
  BY ThreadAssumption DEF IInv, TypeOK, Queues
<1>2. \/ Candidate(c) = Idle /\ \A d \in CPU : r[d] = << >>
      \/ /\ Candidate(c) \in Threads
         /\ state[Candidate(c)] # "Terminated"
         /\ Queued(Candidate(c), queue)
  BY <1>1, ScanFacts
<1>3. IF Candidate(c) = current[c] THEN SameThread(c, r)
      ELSE Select(c, Candidate(c), r, requeueOld)
  BY DEF PickNext, KeptTokens
<1> HIDE DEF r
<1>4. CASE Candidate(c) = current[c]
  <2>1. current[c] = Idle /\ \A d \in CPU : r[d] = << >>
    BY <1>1, <1>2, <1>4 DEF IInv, QueuedInv, Unused
  <2>2. KeepCurrent(c, r)
    BY <1>3, <1>4, <2>1 DEF SameThread
  <2> QED
    BY <1>4, <2>1, <2>2 DEF r
<1>5. CASE Candidate(c) # current[c]
  BY <1>3, <1>5 DEF r
<1> QED
  BY <1>4, <1>5

\* The choice of a successor takes it out of the queues.
LEMMA PickNextStep ==
  ASSUME IInv, ~KickGap, NEW c \in CPU, PickNext(c)
  PROVE  IInv' /\ Final
<1> DEFINE r == QueuesAfterScan(c, {})
           t == Candidate(c)
<1>1. /\ state \in [Threads -> States] /\ queue \in Queues /\ OneEntry(queue)
      /\ Idle \notin Threads /\ "Running" \in States
  BY ThreadAssumption DEF IInv, TypeOK, Queues, States
<1>2. /\ r \in Queues /\ OneEntry(r)
      /\ \A x : Queued(x, r) => Queued(x, queue)
      /\ \/ t = Idle
         \/ /\ t \in Threads /\ state[t] # "Terminated"
            /\ Queued(t, queue) /\ ~Queued(t, r)
  BY <1>1, ScanFacts
<1>3. \/ current[c] = Idle /\ t = Idle /\ KeepCurrent(c, r)
      \/ t # current[c] /\ Select(c, t, r, requeueOld)
  BY PickNextCases
<1>4. /\ UNCHANGED <<current, slot, deferred, stack, wakeVars, graceVars>>
      /\ Scheduling(c, "timers") /\ batch = {}
  BY DEF PickNext
<1>5. Quiet
  BY <1>4, QuietFacts
<1>6. \A x \in CPU : x # c => pc[x] \notin LockSteps
  BY <1>4 DEF IInv, LockInv, Scheduling
<1> HIDE DEF r, t
<1>7. CASE current[c] = Idle /\ t = Idle /\ KeepCurrent(c, r)
  <2>1. queue' = r /\ state' = state
    BY <1>7 DEF KeepCurrent
  <2>2. ThreadsOK
    BY <1>1, <1>2, <2>1 DEF ThreadsOK, Final, IInv, QueuedInv
  <2>3. TypeOK'
    BY <1>4, <1>7, <2>2
    DEF KeepCurrent, ReleaseLock, IInv, TypeOK, ThreadsOK, Queues, wakeVars, graceVars, Pcs
  <2>4. LockInv'
    BY <1>4, <1>6, <1>7, CpuAssumption
    DEF KeepCurrent, ReleaseLock, IInv, TypeOK, LockInv, LockSteps, CPU, NoCpu
  <2>5. HandoffInv' /\ NextInv'
    BY <1>4, <1>5, <1>7 DEF KeepCurrent, IInv, TypeOK, HandoffInv, NextInv, Quiet, Scheduling
  <2>6. OneEntry(queue') /\ QueuedInv' /\ NewInv' /\ SoleInv' /\ Final
    BY <1>4, <2>2, SameCpus
  <2> QED
    BY <2>3, <2>4, <2>5, <2>6 DEF IInv
<1>8. CASE Select(c, t, r, requeueOld)
  <2>1. /\ queue' = r /\ next' = t
        /\ state' = IF t = Idle THEN state ELSE [state EXCEPT ![t] = "Running"]
        /\ pc' = [pc EXCEPT ![c] = "commit"]
        /\ UNCHANGED <<previous, holder, path, batch>> /\ requeueOld' = requeueOld
    BY <1>8 DEF Select
  <2>2. t # Idle => state[t] \notin {"New", "Gone", "Terminated"} /\ Unused(t, current, stack)
    BY <1>2 DEF IInv, QueuedInv
  <2>3. ThreadsOK
    BY <1>1, <1>2, <2>1, <2>2 DEF ThreadsOK, Final, IInv, QueuedInv
  <2>4. TypeOK'
    BY <1>2, <1>4, <2>1, <2>3
    DEF IInv, TypeOK, ThreadsOK, Queues, wakeVars, graceVars, Pcs
  <2>5. LockInv'
    BY <1>4, <2>1 DEF IInv, TypeOK, LockInv, LockSteps, Scheduling
  <2>6. HandoffInv'
    BY <1>4, <2>1 DEF IInv, TypeOK, HandoffInv, Scheduling
  <2>7. NextInv'
    <3>1. \/ t = Idle
          \/ /\ t \in Threads /\ state'[t] = "Running"
             /\ ~Queued(t, queue') /\ Unused(t, current', stack')
      BY <1>1, <1>2, <1>4, <2>1, <2>2
    <3> QED
      BY <1>5, <2>1, <3>1 DEF NextInv, Quiet, IInv, TypeOK
  <2>8. OneEntry(queue') /\ QueuedInv' /\ NewInv' /\ SoleInv' /\ Final
    BY <1>4, <2>3, SameCpus
  <2> QED
    BY <2>4, <2>5, <2>6, <2>7, <2>8 DEF IInv
<1> QED
  BY <1>3, <1>7, <1>8

\* Both commits give the CPU the thread that was picked.
LEMMA CommitOK ==
  ASSUME IInv, ThreadsOK, NEW c \in CPU, Scheduling(c, "commit"),
         current' = [current EXCEPT ![c] = next],
         stack' = stack \/ stack' = [stack EXCEPT ![c] = Idle],
         next = Idle \/ (~Queued(next, queue') /\ state'[next] = "Running"),
         pc' = [pc EXCEPT ![c] = "dispatch"], UNCHANGED lockVars,
         next # NoThread
  PROVE  OneEntry(queue') /\ QueuedInv' /\ NewInv' /\ SoleInv' /\ NextInv' /\ LockInv'
<1>1. /\ next \in Threads \union {Idle} /\ current \in [CPU -> Threads \union {Idle}]
      /\ stack \in [CPU -> Threads \union {Idle}] /\ Idle \notin Threads
      /\ pc \in [CPU -> Pcs]
  BY ThreadAssumption DEF IInv, TypeOK
<1>2. next # Idle => next \in Threads /\ state[next] = "Running" /\ Unused(next, current, stack)
  BY DEF IInv, NextInv, Scheduling
<1>3. QueuedInv'
  BY <1>1, <1>2 DEF IInv, ThreadsOK, QueuedInv, Final, Unused
<1>4. NewInv'
  BY <1>1, <1>2 DEF IInv, ThreadsOK, NewInv, Unused
<1>5. SoleInv'
  BY <1>1, <1>2 DEF IInv, SoleInv, Unused
<1>6. LockInv' /\ \A d \in CPU : d # c => pc[d] \notin {"commit", "dispatch"}
  BY <1>1 DEF IInv, LockInv, LockSteps, Scheduling, lockVars
<1>7. NextInv'
  BY <1>1, <1>6 DEF NextInv
<1> QED
  BY <1>3, <1>4, <1>5, <1>6, <1>7 DEF ThreadsOK

\* The interrupt-exit commit: the outgoing stack stays protected by the marker.
LEMMA CommitIrqStep ==
  ASSUME IInv, NEW c \in CPU, CommitIrq(c)
  PROVE  IInv' /\ Final
<1> DEFINE old == current[c]
<1>1. /\ Scheduling(c, "commit") /\ current' = [current EXCEPT ![c] = next]
      /\ previous' = IF old = Idle THEN previous ELSE [previous EXCEPT ![c] = old]
      /\ pc' = [pc EXCEPT ![c] = "dispatch"] /\ stack' = stack /\ UNCHANGED lockVars
      /\ RequeueAfterSave(c, slot[c], current', previous')
  BY DEF CommitIrq
<1>2. /\ current \in [CPU -> Threads \union {Idle}] /\ previous \in [CPU -> Threads \union {NoThread}]
      /\ stack \in [CPU -> Threads \union {Idle}] /\ Idle \notin Threads
      /\ pc \in [CPU -> Pcs] /\ stack[c] = old
      /\ \A d \in CPU : stack[d] \in {Idle, current[d], previous[d]}
  BY <1>1, ThreadAssumption DEF IInv, TypeOK, HandoffInv, Scheduling
<1>3. /\ next \in Threads \union {Idle} /\ Idle # NoThread
      /\ next = Idle \/ (state[next] = "Running" /\ ~Queued(next, queue))
  BY <1>1 DEF IInv, NextInv, Scheduling, Idle, NoThread
<1> HIDE DEF old
<1>4. \A d \in CPU : stack'[d] \in {Idle, current'[d], previous'[d]}
  BY <1>1, <1>2
<1>5. ThreadsOK
  BY <1>1, <1>4, RequeueOK
<1>6. next = Idle \/ (~Queued(next, queue') /\ state'[next] = "Running")
  BY <1>1, <1>2, <1>3, RequeueOthers
<1>7. OneEntry(queue') /\ QueuedInv' /\ NewInv' /\ SoleInv' /\ NextInv' /\ LockInv'
  BY <1>1, <1>3, <1>5, <1>6, CommitOK, ThreadAssumption
<1>8. HandoffInv'
  BY <1>1, <1>2 DEF IInv, HandoffInv
<1>9. slot' \in [CPU -> Threads \union {NoThread}]
  BY <1>2 DEF CommitIrq, Parked, IInv, TypeOK
<1>10. TypeOK'
  BY <1>1, <1>2, <1>3, <1>5, <1>9
  DEF CommitIrq, IInv, TypeOK, ThreadsOK, Queues, wakeVars, lockVars, graceVars, Pcs
<1> QED
  BY <1>5, <1>7, <1>8, <1>10 DEF IInv, ThreadsOK

\* The inline commit: the CPU has left the outgoing stack before the requeue.
LEMMA CommitInlineStep ==
  ASSUME IInv, NEW c \in CPU, CommitInline(c)
  PROVE  IInv' /\ Final
<1> DEFINE old == current[c]
<1>1. /\ Scheduling(c, "commit") /\ current' = [current EXCEPT ![c] = next]
      /\ previous' = [previous EXCEPT ![c] = NoThread]
      /\ pc' = [pc EXCEPT ![c] = "dispatch"] /\ stack' = [stack EXCEPT ![c] = Idle]
      /\ UNCHANGED lockVars
      /\ UNCHANGED threadVars \/ RequeueAfterSave(c, old, current', previous')
  BY DEF CommitInline
<1>2. /\ current \in [CPU -> Threads \union {Idle}] /\ previous \in [CPU -> Threads \union {NoThread}]
      /\ stack \in [CPU -> Threads \union {Idle}] /\ Idle \notin Threads
      /\ pc \in [CPU -> Pcs]
      /\ \A d \in CPU : stack[d] \in {Idle, current[d], previous[d]}
  BY <1>1, ThreadAssumption DEF IInv, TypeOK, HandoffInv, Scheduling
<1>3. /\ next \in Threads \union {Idle} /\ Idle # NoThread
      /\ next = Idle \/ (state[next] = "Running" /\ ~Queued(next, queue))
  BY <1>1 DEF IInv, NextInv, Scheduling, Idle, NoThread
<1> HIDE DEF old
<1>4. \A d \in CPU : stack'[d] \in {Idle, current'[d], previous'[d]}
  BY <1>1, <1>2
<1>5. ThreadsOK
  BY <1>1, <1>4, RequeueOK, UnchangedOK
<1>6. next = Idle \/ (~Queued(next, queue') /\ state'[next] = "Running")
  <2>1. CASE UNCHANGED threadVars
    BY <1>3, <2>1 DEF threadVars
  <2>2. CASE RequeueAfterSave(c, old, current', previous')
    BY <1>1, <1>2, <1>3, <2>2, RequeueOthers
  <2> QED
    BY <1>1, <2>1, <2>2
<1>7. OneEntry(queue') /\ QueuedInv' /\ NewInv' /\ SoleInv' /\ NextInv' /\ LockInv'
  BY <1>1, <1>3, <1>5, <1>6, CommitOK, ThreadAssumption
<1>8. HandoffInv'
  BY <1>1, <1>2 DEF IInv, HandoffInv
<1>9. TypeOK'
  BY <1>1, <1>2, <1>3, <1>5
  DEF CommitInline, IInv, TypeOK, ThreadsOK, Queues, wakeVars, lockVars, graceVars, Pcs
<1> QED
  BY <1>5, <1>7, <1>8, <1>9 DEF IInv, ThreadsOK

\* The last step of a dispatch: the CPU takes up the stack of its current
\* thread, or (still to do its ERET) stays on the one it is leaving.
LEMMA ArriveOK ==
  ASSUME IInv, NEW c \in CPU,
         stack' = stack \/ stack' = [stack EXCEPT ![c] = current'[c]],
         current' = current \/ current' = [current EXCEPT ![c] = Idle],
         ThreadsOK
  PROVE  OneEntry(queue') /\ QueuedInv' /\ NewInv' /\ SoleInv' /\ Final
<1>1. /\ current \in [CPU -> Threads \union {Idle}] /\ Idle \notin Threads
      /\ stack \in [CPU -> Threads \union {Idle}]
  BY ThreadAssumption DEF IInv, TypeOK
<1>2. QueuedInv'
  BY <1>1 DEF IInv, ThreadsOK, QueuedInv, Final, Unused
<1>3. NewInv'
  BY <1>1 DEF IInv, ThreadsOK, NewInv, Unused
<1>4. SoleInv'
  BY <1>1 DEF IInv, SoleInv
<1> QED
  BY <1>2, <1>3, <1>4 DEF ThreadsOK

\* Leaving the locked part.
LEMMA LeaveOK ==
  ASSUME IInv, NEW c \in CPU, Scheduling(c, "dispatch"), LeaveScheduler(c),
         previous' = previous, current' = current \/ current' = [current EXCEPT ![c] = Idle]
  PROVE  /\ LockInv' /\ HandoffInv' /\ NextInv'
         /\ stack' = stack \/ stack' = [stack EXCEPT ![c] = current'[c]]
         /\ pc' \in [CPU -> Pcs] /\ stack' \in [CPU -> Threads \union {Idle}]
<1>1. /\ current \in [CPU -> Threads \union {Idle}]
      /\ stack \in [CPU -> Threads \union {Idle}] /\ pc \in [CPU -> Pcs]
      /\ \A d \in CPU : d # c => pc[d] \notin LockSteps
      /\ holder' = NoCpu /\ NoCpu \notin CPU
      /\ path = "irq" \/ path # "irq"
  BY CpuAssumption
  DEF IInv, TypeOK, LockInv, Scheduling, LeaveScheduler, ReleaseLock, CPU, NoCpu
<1>2. /\ stack' = stack \/ stack' = [stack EXCEPT ![c] = current'[c]]
      /\ pc' \in [CPU -> Pcs] /\ stack' \in [CPU -> Threads \union {Idle}]
  BY <1>1 DEF LeaveScheduler, Pcs
<1>3. LockInv'
  BY <1>1 DEF LeaveScheduler, LockInv, LockSteps
<1>4. HandoffInv'
  BY <1>1 DEF LeaveScheduler, HandoffInv, Scheduling, IInv
<1>5. NextInv'
  BY <1>1 DEF LeaveScheduler, NextInv, LockSteps
<1> QED
  BY <1>2, <1>3, <1>4, <1>5

\* dispatch_thread_locked and the release of the lock.
LEMMA DispatchStep ==
  ASSUME IInv, NEW c \in CPU, Dispatch(c)
  PROVE  IInv' /\ Final
<1>1. ThreadsOK
  BY UnchangedOK DEF Dispatch
<1>2. /\ LockInv' /\ HandoffInv' /\ NextInv'
      /\ stack' = stack \/ stack' = [stack EXCEPT ![c] = current'[c]]
      /\ pc' \in [CPU -> Pcs] /\ stack' \in [CPU -> Threads \union {Idle}]
  BY LeaveOK DEF Dispatch
<1>3. OneEntry(queue') /\ QueuedInv' /\ NewInv' /\ SoleInv' /\ Final
  BY <1>1, <1>2, ArriveOK DEF Dispatch
<1>4. TypeOK'
  BY <1>2
  DEF Dispatch, LeaveScheduler, ReleaseLock, IInv, TypeOK, threadVars, wakeVars, graceVars
<1> QED
  BY <1>2, <1>3, <1>4 DEF IInv

\* The refusal arms of dispatch_thread_locked put the successor back.
LEMMA RefuseStep ==
  ASSUME IInv, NEW c \in CPU, RefuseDispatch(c)
  PROVE  IInv' /\ Final
<1> DEFINE t == current[c]
<1>1. /\ Scheduling(c, "dispatch") /\ LeaveScheduler(c) /\ previous' = previous
      /\ current' = [current EXCEPT ![c] = Idle]
      /\ state' = [state EXCEPT ![t] = "Ready"] /\ "Ready" \in States
      /\ \/ queue' = queue
         \/ queue' = Appended(queue, c, t) /\ Requeueable(t, current', previous)
  BY DEF RefuseDispatch, States, Appended
<1>2. /\ t \in Threads /\ state[t] = "Running" /\ Idle \notin Threads
      /\ state \in [Threads -> States] /\ queue \in Queues /\ OneEntry(queue)
      /\ current \in [CPU -> Threads \union {Idle}]
      /\ stack \in [CPU -> Threads \union {Idle}]
  BY <1>1, ThreadAssumption, UserAssumption
  DEF RefuseDispatch, IInv, TypeOK, Queues, NextInv, Scheduling
<1>3. /\ LockInv' /\ HandoffInv' /\ NextInv'
      /\ stack' = stack \/ stack' = [stack EXCEPT ![c] = current'[c]]
      /\ pc' \in [CPU -> Pcs] /\ stack' \in [CPU -> Threads \union {Idle}]
  BY <1>1, LeaveOK
<1>4. Requeueable(t, current', previous) => ~Queued(t, queue) /\ Unused(t, current', stack')
  <2>1. \A d \in CPU : stack'[d] \in {Idle, current'[d], previous'[d]}
    BY <1>1, <1>3 DEF HandoffInv
  <2> QED
    BY <1>1, <1>2, <2>1
    DEF Requeueable, InAnyQueue, Queued, IsCurrent, IsDeferred, Unused
<1> HIDE DEF t
<1>5. ThreadsOK
  <2>1. CASE queue' = queue
    BY <1>1, <1>2, <2>1 DEF ThreadsOK, Final, IInv, QueuedInv
  <2>2. CASE queue' = Appended(queue, c, t) /\ Requeueable(t, current', previous)
    <3>1. /\ queue' \in Queues /\ OneEntry(queue')
          /\ \A x : Queued(x, queue') <=> Queued(x, queue) \/ x = t
      BY <1>2, <1>4, <2>2, QueueAdd
    <3> QED
      BY <1>1, <1>2, <1>4, <2>2, <3>1 DEF ThreadsOK, Final, IInv, QueuedInv
  <2> QED
    BY <1>1, <2>1, <2>2
<1>6. OneEntry(queue') /\ QueuedInv' /\ NewInv' /\ SoleInv' /\ Final
  BY <1>1, <1>3, <1>5, ArriveOK
<1>7. incidents' \in 0 .. MaxIncidents
  BY IncidentAssumption DEF RefuseDispatch, IInv, TypeOK
<1>8. TypeOK'
  BY <1>1, <1>2, <1>3, <1>5, <1>7
  DEF RefuseDispatch, LeaveScheduler, ReleaseLock, IInv, TypeOK, ThreadsOK, Queues, wakeVars
<1> QED
  BY <1>3, <1>6, <1>8 DEF IInv

\* The arms of dispatch_thread_locked that end the successor.
LEMMA AbandonStep ==
  ASSUME IInv, NEW c \in CPU, AbandonDispatch(c)
  PROVE  IInv' /\ Final
<1> DEFINE t == current[c]
<1>1. /\ Scheduling(c, "dispatch") /\ LeaveScheduler(c) /\ previous' = previous
      /\ current' = [current EXCEPT ![c] = Idle]
      /\ state' = [state EXCEPT ![t] = "Terminated"] /\ "Terminated" \in States
      /\ queue' = queue /\ t \in Threads
  BY DEF AbandonDispatch, States
<1>2. /\ state \in [Threads -> States] /\ queue \in Queues /\ OneEntry(queue)
      /\ current \in [CPU -> Threads \union {Idle}] /\ state[t] = "Running"
  BY <1>1, ThreadAssumption DEF IInv, TypeOK, Queues, NextInv, Scheduling
<1>3. /\ LockInv' /\ HandoffInv' /\ NextInv'
      /\ stack' = stack \/ stack' = [stack EXCEPT ![c] = current'[c]]
      /\ pc' \in [CPU -> Pcs] /\ stack' \in [CPU -> Threads \union {Idle}]
  BY <1>1, LeaveOK
<1> HIDE DEF t
<1>4. ThreadsOK
  BY <1>1, <1>2 DEF ThreadsOK, Final, IInv, QueuedInv
<1>5. OneEntry(queue') /\ QueuedInv' /\ NewInv' /\ SoleInv' /\ Final
  BY <1>1, <1>3, <1>4, ArriveOK
<1>6. incidents' \in 0 .. MaxIncidents
  BY IncidentAssumption DEF AbandonDispatch, IInv, TypeOK
<1>7. TypeOK'
  BY <1>1, <1>2, <1>3, <1>4, <1>6
  DEF AbandonDispatch, LeaveScheduler, ReleaseLock, IInv, TypeOK, ThreadsOK, Queues, wakeVars
<1> QED
  BY <1>3, <1>5, <1>7 DEF IInv

\* The ERET leaves the old stack.
LEMMA EretStep ==
  ASSUME IInv, NEW c \in CPU, Eret(c)
  PROVE  IInv' /\ Final
<1>1. ThreadsOK
  BY UnchangedOK DEF Eret
<1>2. OneEntry(queue') /\ QueuedInv' /\ NewInv' /\ SoleInv' /\ Final
  BY <1>1, ArriveOK DEF Eret
<1>3. TypeOK'
  BY DEF Eret, IInv, TypeOK, threadVars, wakeVars, lockVars, graceVars, Pcs
<1>4. LockInv' /\ HandoffInv'
  BY DEF Eret, IInv, TypeOK, LockInv, LockSteps, HandoffInv, lockVars
<1>5. NextInv'
  <2>1. SUFFICES ASSUME NEW d \in CPU, pc[d] = "commit", d # c, next # Idle
                 PROVE  Unused(next, current, stack')
    BY DEF NextInv, Eret, IInv, TypeOK, threadVars, lockVars
  <2>2. Unused(next, current, stack)
    BY <2>1 DEF IInv, NextInv
  <2> QED
    BY <2>2 DEF Eret, IInv, TypeOK, Unused
<1> QED
  BY <1>2, <1>3, <1>4, <1>5 DEF IInv

-----------------------------------------------------------------------------
(***************************************************************************)
(* The theorems.                                                            *)
(***************************************************************************)
\* The invariant holds at boot, with every CPU idle and no thread spawned.
LEMMA InitOK == Init => IInv
<1> SUFFICES ASSUME Init PROVE IInv
  OBVIOUS
<1>1. /\ << >> \in Seq(Threads) /\ Distinct(<< >>) /\ \A x : ~In(x, << >>)
      /\ NoCpu \notin CPU /\ Idle \notin Threads
  BY CpuAssumption, ThreadAssumption DEF Distinct, In, CPU, NoCpu
<1>2. TypeOK
  <2>1. queue \in [CPU -> Seq(Threads)]
    BY <1>1 DEF Init
  <2>2. grace \in [Threads -> [CPU -> 0 .. GraceEntries]]
    BY DEF Init, GraceEntries
  <2>3. state \in [Threads -> States] /\ pc \in [CPU -> Pcs]
    BY DEF Init, States, Pcs
  <2>4. /\ current \in [CPU -> Threads \union {Idle}]
        /\ previous \in [CPU -> Threads \union {NoThread}]
        /\ slot \in [CPU -> Threads \union {NoThread}]
        /\ deferred \in [CPU -> Threads \union {NoThread}]
        /\ stack \in [CPU -> Threads \union {Idle}]
    BY DEF Init
  <2>5. incidents \in 0 .. MaxIncidents
    BY IncidentAssumption DEF Init
  <2> QED
    BY <2>1, <2>2, <2>3, <2>4, <2>5 DEF Init, TypeOK
<1>3. LockInv /\ HandoffInv /\ NextInv
  BY <1>1 DEF Init, LockInv, LockSteps, HandoffInv, NextInv
<1>4. OneEntry(queue) /\ QueuedInv
  BY <1>1 DEF Init, OneEntry, QueuedInv, Queued
<1>5. NewInv /\ SoleInv
  BY <1>1 DEF Init, NewInv, SoleInv, Unused
<1> QED
  BY <1>2, <1>3, <1>4, <1>5 DEF IInv

\* Every step preserves the invariant and is final for terminated threads.
LEMMA StepOK ==
  ASSUME ~KickGap, ~KilledRunsOn, IInv, [Next]_vars
  PROVE  IInv' /\ Final
<1>1. ASSUME NEW c \in CPU, ThreadStep(c) PROVE IInv' /\ Final
  BY <1>1, SpawnStep, BlockCurrentStep, PublishIoWaitStep, FinishWaitStep, WakeStep,
     TerminateStep, FenceStep, ReclaimStep, ScheduleFromKernelStep, ExitCurrentStep
  DEF ThreadStep
<1>2. ASSUME NEW c \in CPU, SwitchStep(c) PROVE IInv' /\ Final
  BY <1>2, IrqEnterStep, DrainDeferredStep, ReturnStep, LockForSwitchStep,
     LockAndReturnStep, StalledStep, DrainIsrStep, WakeFromBatchStep, PublishCurrentStep,
     PickNextStep, CommitIrqStep, CommitInlineStep, DispatchStep, RefuseStep, AbandonStep, EretStep
  DEF SwitchStep
<1>3. ASSUME NEW t \in Threads, IsrPush(t) \/ TimerDue(t) PROVE IInv' /\ Final
  BY <1>3, WakeupBufferStep
<1>4. ASSUME UNCHANGED vars PROVE IInv' /\ Final
  <2>1. ThreadsOK
    BY <1>4, UnchangedOK DEF vars
  <2>2. OneEntry(queue') /\ QueuedInv' /\ NewInv' /\ SoleInv' /\ Final
    BY <1>4, <2>1, SameCpus DEF vars, cpuVars
  <2>3. TypeOK'
    BY <1>4 DEF vars, IInv, TypeOK, threadVars, cpuVars, wakeVars, lockVars, graceVars
  <2>4. LockInv' /\ HandoffInv' /\ NextInv'
    BY <1>4 DEF vars, IInv, LockInv, HandoffInv, NextInv, threadVars, cpuVars, lockVars
  <2> QED
    BY <2>2, <2>3, <2>4 DEF IInv
<1> QED
  BY <1>1, <1>2, <1>3, <1>4 DEF Next

\* The invariant implies the properties the runs check.
LEMMA InvImplies ==
  ASSUME IInv
  PROVE  TypeOK /\ SoleExecutor /\ QueuesHoldOneEntry
<1>1. SoleExecutor
  BY DEF IInv, SoleInv, SoleExecutor, Uses
<1>2. QueuesHoldOneEntry
  BY DEF IInv, OneEntry, Distinct, In, QueuesHoldOneEntry
<1> QED
  BY <1>1, <1>2 DEF IInv

\* The inductive invariant holds in every reachable state, for every number of
\* CPUs and threads, when a kill's kick is seen before its token is scanned
\* (~KickGap) and a killed thread does not go on in kernel code (~KilledRunsOn).
THEOREM Invariance ==
  ASSUME ~KickGap, ~KilledRunsOn
  PROVE  Spec => []IInv
<1>1. IInv /\ [Next]_vars => IInv'
  BY StepOK
<1> QED
  BY <1>1, InitOK, PTL DEF Spec

\* Type correctness of the scheduler's state.
THEOREM TypeCorrect ==
  ASSUME ~KickGap, ~KilledRunsOn
  PROVE  Spec => []TypeOK
<1>1. IInv => TypeOK
  BY InvImplies
<1> QED
  BY <1>1, Invariance, PTL

\* No thread, and no kernel stack, is used by two CPUs: the deferred-requeue
\* protocol hands a thread over only when its stack has been left.
THEOREM SoleExecution ==
  ASSUME ~KickGap, ~KilledRunsOn
  PROVE  Spec => []SoleExecutor
<1>1. IInv => SoleExecutor
  BY InvImplies
<1> QED
  BY <1>1, Invariance, PTL

\* No thread is queued twice, over all ready queues.
THEOREM OneQueueEntry ==
  ASSUME ~KickGap, ~KilledRunsOn
  PROVE  Spec => []QueuesHoldOneEntry
<1>1. IInv => QueuesHoldOneEntry
  BY InvImplies
<1> QED
  BY <1>1, Invariance, PTL

\* A terminated thread never becomes runnable again, whatever wakeups, saves
\* and refused dispatches are under way when it dies.
THEOREM Finality ==
  ASSUME ~KickGap, ~KilledRunsOn
  PROVE  Spec => TerminatedIsFinal
<1>1. IInv /\ [Next]_vars => Final
  BY StepOK
<1>2. IInv /\ [Next]_vars =>
        [\A t \in Threads : state[t] \in {"Terminated", "Gone"} =>
                              state'[t] \in {"Terminated", "Gone"}]_vars
  BY <1>1 DEF Final
<1> QED
  BY <1>2, Invariance, PTL DEF Spec, TerminatedIsFinal

-----------------------------------------------------------------------------
(***************************************************************************)
(* No runnable thread is lost. A thread that is neither queued nor current  *)
(* waits in a slot, in the interrupt exit that has emptied the slot and not *)
(* drained it yet, or is the successor chosen under the lock; a marker is   *)
(* set only while one of these will queue the thread (MarkerInv), so the    *)
(* enqueue rule may leave a marked thread alone.                            *)
(***************************************************************************)
RunnableStates == {"Ready", "Running"}

\* cpu c will requeue t
Waits(c, t) == slot[c] = t \/ (deferred[c] = t /\ pc[c] = "drain")

\* What CPU c holds.
Holds(c, t) == current[c] = t \/ Waits(c, t) \/ (pc[c] = "commit" /\ next = t)

HasOwner(t) == Queued(t, queue) \/ \E c \in CPU : Holds(c, t)

OwnedInv == \A t \in Threads : state[t] \in RunnableStates => HasOwner(t)

\* A CPU's marker names a thread it will requeue, or is about to park.
MarkerAt(c) ==
  \A t \in Threads : previous[c] = t =>
    Waits(c, t) \/ (current[c] = t /\ pc[c] \in {"timers", "commit"})

\* An interrupt exit drops its old marker before it sets the new one, and the
\* outgoing thread is published as Ready before it is replaced.
LeavingAt(c) ==
  /\ pc[c] \in {"enter", "isr", "timers", "commit"} /\ path = "irq" =>
       previous[c] \in {NoThread, current[c]}
  /\ pc[c] \in {"timers", "commit"} /\ current[c] \in Threads => state[current[c]] # "Running"

MarkerInv == \A c \in CPU : MarkerAt(c)

LeavingInv == \A c \in CPU : LeavingAt(c)

OwnerInv == OwnedInv /\ MarkerInv /\ LeavingInv

(***************************************************************************)
(* The grace period. A CPU owes a fenced thread's record two entries while  *)
(* it runs the thread or returns to it, and one until it has left the       *)
(* thread's stack.                                                          *)
(***************************************************************************)
FenceInv ==
  \A t \in Threads :
    /\ t \in fenced => state[t] = "Terminated"
    /\ \A c \in CPU : t \in fenced =>
         /\ current[c] = t \/ stack[c] = t => grace[t][c] # 0
         /\ current[c] = t /\ pc[c] \in {"run", "eret"} => grace[t][c] = GraceEntries
    /\ state[t] = "Gone" => \A c \in CPU : t # stack[c]

\* Taking a thread out of the queues keeps every other entry.
LEMMA PurgeKeeps ==
  ASSUME NEW q \in Queues, NEW t, NEW x, x # t, Queued(x, q)
  PROVE  Queued(x, Purged(q, t))
<1>1. PICK c \in CPU : In(x, q[c])
  BY DEF Queued
<1>2. PICK k \in 1 .. Len(q[c]) : q[c][k] = x
  BY <1>1 DEF In
<1> DEFINE s == q[c]
           f == Without(s, t)
<1>3. s \in Seq(Threads) /\ Len(s) \in Nat /\ Purged(q, t)[c] = f
  BY DEF Queues, Purged
<1>4. In(x, f)
  <2>1. CASE ~In(t, s)
    BY <1>1, <2>1 DEF Without
  <2>2. CASE In(t, s)
    <3> DEFINE p == CHOOSE i \in 1 .. Len(s) : s[i] = t
               n == Len(s) - 1
    <3>1. p \in 1 .. Len(s) /\ s[p] = t /\ n \in Nat
      BY <1>3, <2>2 DEF In
    <3>2. f = [i \in 1 .. n |-> IF i < p THEN s[i] ELSE s[i + 1]]
      BY <2>2 DEF Without
    <3> HIDE DEF f, p
    <3>3. f \in [1 .. n -> Threads]
      BY <1>3, <3>1, <3>2
    <3>4. Len(f) = n
      BY <3>1, <3>3, FunctionIsSeq
    <3>5. k # p /\ s[k] = x /\ k \in 1 .. Len(s)
      BY <1>2, <3>1
    <3> HIDE DEF s
    <3>6. CASE k < p
      <4>1. k \in 1 .. n /\ f[k] = x
        BY <1>3, <3>1, <3>2, <3>5, <3>6
      <4> QED
        BY <3>4, <4>1 DEF In
    <3>7. CASE p < k
      <4>1. k - 1 \in 1 .. n /\ f[k - 1] = x
        BY <1>3, <3>1, <3>2, <3>5, <3>7
      <4> QED
        BY <3>4, <4>1 DEF In
    <3> QED
      BY <1>3, <3>1, <3>5, <3>6, <3>7
  <2> QED
    BY <2>1, <2>2
<1> QED
  BY <1>3, <1>4 DEF Queued

\* The members behind a dropped prefix stay.
LEMMA DropKeeps ==
  ASSUME NEW s \in Seq(Threads), NEW n \in 1 .. Len(s),
         NEW k \in 1 .. Len(s), n < k
  PROVE  In(s[k], Drop(s, n))
<1> DEFINE m == Len(s) - n
           f == Drop(s, n)
<1>1. m \in Nat /\ f \in [1 .. m -> Threads]
  BY DEF Drop
<1>2. Len(f) = m
  BY <1>1, FunctionIsSeq
<1>3. k - n \in 1 .. m /\ f[k - n] = s[k]
  BY DEF Drop
<1> QED
  BY <1>2, <1>3 DEF In

\* The scan takes the first live entry out and passes over no other one.
LEMMA ScanKeeps ==
  ASSUME queue \in Queues, NEW c \in CPU, NEW x, Queued(x, queue),
         state[x] # "Terminated", x # Candidate(c)
  PROVE  Queued(x, QueuesAfterScan(c, {}))
<1>1. PICK e \in CPU : In(x, queue[e])
  BY DEF Queued
<1>2. PICK k \in 1 .. Len(queue[e]) : queue[e][k] = x
  BY <1>1 DEF In
<1>3. k \in Live(e)
  BY <1>2 DEF Live
<1>4. queue[e] \in Seq(Threads) /\ \A d \in CPU : Live(d) \subseteq Nat
  BY DEF Queues, Live
<1>5. CASE e \in Source(c)
  <2>1. \A d \in Source(c) : d = e
    <3> SUFFICES ASSUME NEW d \in Source(c), d # e PROVE FALSE
      OBVIOUS
    <3>1. d \in CPU /\ d \in Int /\ e \in Int
      BY CpuAssumption DEF Source, CPU
    <3>2. ScannedBefore(c, d, e) \/ ScannedBefore(c, e, d)
      BY <3>1 DEF ScannedBefore
    <3> QED
      BY <1>5, <3>1, <3>2 DEF Source
  <2>2. Candidate(c) = queue[e][First(e)]
    BY <1>5, <2>1 DEF Candidate
  <2>3. \E i \in Live(e) : \A j \in Live(e) : i <= j
    BY <1>3, <1>4, LeastNat
  <2>4. First(e) \in Live(e) /\ First(e) <= k
    BY <1>3, <2>3 DEF First
  <2>5. First(e) \in 1 .. Len(queue[e]) /\ First(e) < k
    <3>1. First(e) \in 1 .. Len(queue[e]) /\ First(e) # k
      BY <1>2, <2>2, <2>4 DEF Live
    <3> QED
      BY <1>4, <2>4, <3>1
  <2> DEFINE s == Drop(queue[e], First(e))
  <2>6. In(x, s) /\ s \in Seq(Threads)
    BY <1>2, <1>4, <2>5, DropKeeps, DropFacts
  <2>7. QueuesAfterScan(c, {})[e] = Concat(s, << >>)
    BY <1>5 DEF QueuesAfterScan, Declined
  <2> HIDE DEF s
  <2>8. << >> \in Seq(Threads)
    OBVIOUS
  <2>9. In(x, Concat(s, << >>))
    BY <2>6, <2>8, ConcatFacts
  <2> QED
    BY <2>7, <2>9 DEF Queued
<1>6. CASE e \notin Source(c)
  <2> DEFINE S == {d \in CPU : Live(d) # {}}
  <2>1. \E d \in Source(c) : ScannedBefore(c, d, e)
    <3>0. CPU \subseteq Nat /\ e \in S
      BY <1>3, CpuAssumption DEF CPU
    <3>1. CASE c \in S
      <4>1. c \in Source(c)
        BY <3>1 DEF Source, ScannedBefore
      <4> QED
        BY <1>6, <4>1 DEF ScannedBefore
    <3>2. CASE c \notin S
      <4>1. PICK d \in S : \A f \in S : d <= f
        BY <3>0, LeastNat
      <4>2. d # c /\ Live(c) = {}
        BY <3>2, <4>1
      <4>3. d \in Source(c)
        <5> SUFFICES ASSUME NEW f \in CPU, ScannedBefore(c, f, d) PROVE Live(f) = {}
          BY <4>1 DEF Source
        <5>1. f = c \/ f < d
          BY DEF ScannedBefore
        <5>2. f < d => f \notin S
          BY <3>0, <4>1
        <5> QED
          BY <4>2, <5>1, <5>2
      <4>4. d # e /\ d <= e /\ e # c
        BY <1>6, <3>0, <3>2, <4>1, <4>3
      <4> QED
        BY <3>0, <4>1, <4>3, <4>4 DEF ScannedBefore
    <3> QED
      BY <3>1, <3>2
  <2>2. QueuesAfterScan(c, {})[e] = queue[e]
    BY <1>6, <2>1 DEF QueuesAfterScan
  <2> QED
    BY <1>1, <2>2 DEF Queued
<1> QED
  BY <1>5, <1>6

\* What requeue_thread_after_save does for the thread it is given: a runnable
\* one ends up queued, unless a CPU has it or its stack is being left.
LEMMA RequeueEffect ==
  ASSUME IInv, NEW c \in CPU, NEW t, NEW cur, NEW prev, RequeueAfterSave(c, t, cur, prev)
  PROVE  /\ \A x : Queued(x, queue) => Queued(x, queue')
         /\ \A x \in Threads : /\ state'[x] \in RunnableStates => state[x] \in RunnableStates
                               /\ state'[x] = "Running" => state[x] = "Running"
                               /\ state'[x] = "Gone" => state[x] = "Gone"
         /\ t \in Threads /\ state[t] \in RunnableStates =>
              Queued(t, queue') \/ IsCurrent(t, cur) \/ IsDeferred(t, prev)
<1>1. state \in [Threads -> States] /\ queue \in Queues
  BY DEF IInv, TypeOK, Queues
<1>2. CASE Requeueable(t, cur, prev)
  <2>1. t \in Threads /\ state[t] \in RunnableStates
    BY <1>2 DEF Requeueable, RunnableStates
  <2>2. /\ state' = [state EXCEPT ![t] = "Ready"]
        /\ queue' = Appended(queue, c, t)
    BY <1>2 DEF RequeueAfterSave, Appended
  <2>3. \A x : Queued(x, queue') <=> Queued(x, queue) \/ x = t
    BY <1>1, <2>1, <2>2, QueueAdd
  <2> QED
    BY <1>1, <2>1, <2>2, <2>3 DEF RunnableStates
<1>3. CASE ~Requeueable(t, cur, prev)
  <2>1. state' = state /\ queue' = queue
    BY <1>3 DEF RequeueAfterSave, threadVars
  <2> QED
    BY <1>3, <2>1 DEF Requeueable, RunnableStates, InAnyQueue, Queued
<1> QED
  BY <1>2, <1>3

\* A marked or current thread has an owner.
LEMMA MarkedHasOwner ==
  ASSUME MarkerInv, NEW t \in Threads,
         IsCurrent(t, current) \/ IsDeferred(t, previous) \/ Queued(t, queue)
  PROVE  HasOwner(t)
BY DEF MarkerInv, MarkerAt, HasOwner, Holds, IsCurrent, IsDeferred

\* A step that changes threads and queues only keeps OwnerInv if the queues lose
\* no runnable thread and whoever becomes runnable has an owner.
LEMMA OwnerThreadOnly ==
  ASSUME IInv, OwnerInv, UNCHANGED <<cpuVars, pc, path, next>>,
         \A x \in Threads : state'[x] \in RunnableStates =>
           (HasOwner(x) /\ (Queued(x, queue) => Queued(x, queue'))) \/ Queued(x, queue'),
         \A x \in Threads : state'[x] = "Running" => state[x] = "Running"
  PROVE  OwnerInv'
<1>1. /\ current' = current /\ previous' = previous /\ slot' = slot /\ deferred' = deferred
      /\ pc' = pc /\ path' = path /\ next' = next
  BY DEF cpuVars
<1>2. OwnedInv'
  BY <1>1 DEF OwnedInv, HasOwner, Holds, Waits
<1>3. MarkerInv' /\ LeavingInv'
  BY <1>1 DEF OwnerInv, MarkerInv, MarkerAt, LeavingInv, LeavingAt, Waits, IInv, TypeOK
<1> QED
  BY <1>2, <1>3 DEF OwnerInv

\* A step of CPU c leaves the other CPUs where they are.
Elsewhere(c) ==
  \A d \in CPU : d # c =>
    /\ current'[d] = current[d] /\ previous'[d] = previous[d] /\ slot'[d] = slot[d]
    /\ deferred'[d] = deferred[d] /\ pc'[d] = pc[d]

\* A step of one CPU keeps OwnerInv if the queues lose no runnable thread, what
\* the CPU held has an owner after it, and its own marker is in order.
LEMMA OwnerCpuStep ==
  ASSUME IInv, OwnerInv, NEW c \in CPU, Elsewhere(c),
         holder \in {c, NoCpu} \/ UNCHANGED <<state, path, next>>,
         \A x \in Threads : state'[x] \in RunnableStates /\ current[c] # x =>
                              state[x] \in RunnableStates \/ HasOwner(x)',
         \A x \in Threads : state'[x] \in RunnableStates /\ Queued(x, queue) => HasOwner(x)',
         \A x \in Threads : state'[x] \in RunnableStates /\ Holds(c, x) => HasOwner(x)',
         MarkerAt(c)', LeavingAt(c)'
  PROVE  OwnerInv'
<1>1. \A d \in CPU : d # c =>
        pc[d] \notin LockSteps \/ (state' = state /\ path' = path /\ next' = next)
  BY CpuAssumption DEF IInv, LockInv, CPU, NoCpu
<1>2. \A d \in CPU, x \in Threads : d # c /\ Holds(d, x) => Holds(d, x)'
  BY <1>1 DEF Holds, Waits, Elsewhere, LockSteps
<1>3. OwnedInv'
  <2> SUFFICES ASSUME NEW x \in Threads, state'[x] \in RunnableStates PROVE HasOwner(x)'
    BY DEF OwnedInv
  <2>1. HasOwner(x)' \/ Queued(x, queue) \/ \E d \in CPU : Holds(d, x)
    <3>1. CASE current[c] = x
      BY <3>1 DEF Holds
    <3>2. CASE current[c] # x
      BY <3>2 DEF OwnerInv, OwnedInv, HasOwner, Holds
    <3> QED
      BY <3>1, <3>2
  <2>2. (\E d \in CPU : Holds(d, x)') => HasOwner(x)'
    BY DEF Holds, HasOwner
  <2> QED
    BY <1>2, <2>1, <2>2
<1>4. MarkerInv'
  <2> SUFFICES ASSUME NEW d \in CPU PROVE MarkerAt(d)'
    BY DEF MarkerInv, MarkerAt
  <2>1. d # c => MarkerAt(d)'
    BY DEF OwnerInv, MarkerInv, MarkerAt, Waits, Elsewhere
  <2> QED
    BY <2>1
<1>5. LeavingInv'
  <2> SUFFICES ASSUME NEW d \in CPU PROVE LeavingAt(d)'
    BY DEF LeavingInv, LeavingAt
  <2>1. d # c => LeavingAt(d)'
    BY <1>1 DEF OwnerInv, LeavingInv, LeavingAt, Elsewhere, LockSteps
  <2> QED
    BY <2>1
<1> QED
  BY <1>3, <1>4, <1>5 DEF OwnerInv

-----------------------------------------------------------------------------
\* The steps of threads and interrupt handlers.
LEMMA SpawnOwner ==
  ASSUME IInv, OwnerInv, NEW c \in CPU, NEW t \in Threads, NEW d \in CPU, NEW front \in BOOLEAN,
         Spawn(c, t, d, front)
  PROVE  OwnerInv'
<1>1. queue' = Appended(queue, d, t) \/ queue' = Fronted(queue, d, t)
  BY DEF Spawn, Appended, Fronted
<1>2. /\ state' = [state EXCEPT ![t] = "Ready"]
      /\ state \in [Threads -> States] /\ queue \in Queues
      /\ UNCHANGED <<cpuVars, pc, path, next>>
  BY DEF Spawn, IInv, TypeOK, Queues, lockVars
<1>3. \A x : Queued(x, queue') <=> Queued(x, queue) \/ x = t
  BY <1>1, <1>2, QueueAdd
<1>4. \A x \in Threads : state'[x] \in RunnableStates =>
        (HasOwner(x) /\ (Queued(x, queue) => Queued(x, queue'))) \/ Queued(x, queue')
  BY <1>2, <1>3 DEF OwnerInv, OwnedInv
<1>5. \A x \in Threads : state'[x] = "Running" => state[x] = "Running"
  BY <1>2
<1> QED
  BY <1>2, <1>4, <1>5, OwnerThreadOnly

\* A thread that blocks or exits leaves the queues; the others stay in them.
LEMMA PurgeOwner ==
  ASSUME IInv, OwnerInv, NEW t \in Threads, NEW s,
         queue' = Purged(queue, t), state' = [state EXCEPT ![t] = s], s \notin RunnableStates
  PROVE  /\ \A x \in Threads : state'[x] \in RunnableStates =>
              /\ state[x] \in RunnableStates /\ HasOwner(x)
              /\ Queued(x, queue) => Queued(x, queue')
         /\ \A x \in Threads : state'[x] = "Running" => state[x] = "Running"
<1>1. state \in [Threads -> States] /\ queue \in Queues /\ "Running" \in RunnableStates
  BY DEF IInv, TypeOK, Queues, RunnableStates
<1>2. \A x \in Threads : x # t /\ Queued(x, queue) => Queued(x, queue')
  BY <1>1, PurgeKeeps
<1>3. \A x \in Threads : state'[x] \in RunnableStates => x # t /\ state[x] = state'[x]
  BY <1>1
<1> QED
  BY <1>1, <1>2, <1>3 DEF OwnerInv, OwnedInv

\* The block_current functions.
LEMMA BlockCurrentOwner ==
  ASSUME IInv, OwnerInv, NEW c \in CPU, NEW k \in WaitKinds, BlockCurrent(c, k)
  PROVE  OwnerInv'
<1>1. /\ current[c] \in Threads /\ state' = [state EXCEPT ![current[c]] = k]
      /\ queue' = Purged(queue, current[c]) /\ k \notin RunnableStates
      /\ UNCHANGED <<cpuVars, pc, path, next>>
  BY KindFacts DEF BlockCurrent, Purged, RunnableStates, lockVars
<1>2. /\ \A x \in Threads : state'[x] \in RunnableStates =>
           /\ state[x] \in RunnableStates /\ HasOwner(x)
           /\ Queued(x, queue) => Queued(x, queue')
      /\ \A x \in Threads : state'[x] = "Running" => state[x] = "Running"
  BY <1>1, PurgeOwner
<1> QED
  BY <1>1, <1>2, OwnerThreadOnly

\* reclaim_terminated_threads, second pass.
LEMMA ReclaimOwner ==
  ASSUME IInv, OwnerInv, NEW c \in CPU, NEW t \in Threads, ReclaimTerminated(c, t)
  PROVE  OwnerInv'
<1>1. /\ state' = [state EXCEPT ![t] = "Gone"]
      /\ queue' = Purged(queue, t) /\ "Gone" \notin RunnableStates
      /\ UNCHANGED <<cpuVars, pc, path, next>>
  BY DEF ReclaimTerminated, Purged, RunnableStates, lockVars
<1>2. /\ \A x \in Threads : state'[x] \in RunnableStates =>
           /\ state[x] \in RunnableStates /\ HasOwner(x)
           /\ Queued(x, queue) => Queued(x, queue')
      /\ \A x \in Threads : state'[x] = "Running" => state[x] = "Running"
  BY <1>1, PurgeOwner
<1> QED
  BY <1>1, <1>2, OwnerThreadOnly

\* A step that only publishes or withdraws the wait of a current thread.
LEMMA WaitOwner ==
  ASSUME IInv, OwnerInv, NEW c \in CPU, PublishIoWait(c) \/ FinishWait(c)
  PROVE  OwnerInv'
<1>1. /\ current[c] \in Threads /\ queue' = queue
      /\ UNCHANGED <<cpuVars, pc, path, next>>
      /\ state \in [Threads -> States]
      /\ \/ state' = [state EXCEPT ![current[c]] = "BlockedOnIO"]
         \/ state' = [state EXCEPT ![current[c]] = "Ready"]
  BY DEF PublishIoWait, FinishWait, lockVars, IInv, TypeOK
<1>2. \A x \in Threads : x = current[c] => HasOwner(x)
  BY DEF HasOwner, Holds
<1>3. \A x \in Threads : x # current[c] => state'[x] = state[x]
  BY <1>1
<1>4. \A x \in Threads : state'[x] \in RunnableStates => HasOwner(x)
  BY <1>2, <1>3 DEF OwnerInv, OwnedInv
<1>5. \A x \in Threads : state'[x] = "Running" => state[x] = "Running"
  BY <1>1
<1> QED
  BY <1>1, <1>4, <1>5, OwnerThreadOnly

\* The enqueue rule may leave a thread out of the queues: someone has it.
LEMMA MakeReadyOwner ==
  ASSUME IInv, OwnerInv, NEW t \in Threads, NEW d \in CPU, MakeReady(t, d),
         UNCHANGED <<cpuVars, pc, path, next>>
  PROVE  OwnerInv'
<1>1. /\ state' = [state EXCEPT ![t] = "Ready"]
      /\ state \in [Threads -> States] /\ queue \in Queues
  BY DEF MakeReady, IInv, TypeOK, Queues
<1>2. \A x \in Threads : state'[x] = "Running" => state[x] = "Running"
  BY <1>1
<1>3. \A x \in Threads : x # t /\ state'[x] \in RunnableStates => HasOwner(x)
  BY <1>1 DEF OwnerInv, OwnedInv
<1>4. CASE MustEnqueue(t)
  <2>1. queue' = Appended(queue, d, t)
    BY <1>4 DEF MakeReady, Appended
  <2>2. \A x : Queued(x, queue') <=> Queued(x, queue) \/ x = t
    BY <1>1, <2>1, QueueAdd
  <2> QED
    BY <1>2, <1>3, <2>2, OwnerThreadOnly
<1>5. CASE ~MustEnqueue(t)
  <2>1. queue' = queue
    BY <1>5 DEF MakeReady
  <2>2. HasOwner(t)
    BY <1>5, MarkedHasOwner DEF MustEnqueue, InAnyQueue, Queued, OwnerInv
  <2> QED
    BY <1>2, <1>3, <2>1, <2>2, OwnerThreadOnly
<1> QED
  BY <1>4, <1>5

\* Nothing about threads or queues changes.
LEMMA SameOwner ==
  ASSUME IInv, OwnerInv, UNCHANGED <<threadVars, cpuVars, pc, path, next>>
  PROVE  OwnerInv'
<1>1. state' = state /\ queue' = queue
  BY DEF threadVars
<1>2. \A x \in Threads : state'[x] \in RunnableStates => HasOwner(x)
  BY <1>1 DEF OwnerInv, OwnedInv
<1> QED
  BY <1>1, <1>2, OwnerThreadOnly

\* The wakeup functions, and the wakeups of a scheduler entry.
LEMMA WakeOwner ==
  ASSUME IInv, OwnerInv, NEW c \in CPU, NEW t \in Threads, NEW d \in CPU,
         \/ \E op \in DOMAIN Accepts : Wake(c, t, d, op)
         \/ WakeFromIsr(c, t, d) \/ WakeExpiredTimer(c, t, d)
  PROVE  OwnerInv'
<1>1. /\ UNCHANGED <<cpuVars, pc, path, next>>
      /\ MakeReady(t, d) \/ UNCHANGED threadVars
  BY DEF Wake, WakeFromIsr, WakeExpiredTimer, WakeIoThread, lockVars
<1> QED
  BY <1>1, MakeReadyOwner, SameOwner

\* terminate_process_threads adds a token and takes no entry out.
LEMMA TerminateOwner ==
  ASSUME IInv, OwnerInv, NEW c \in CPU, NEW t \in Threads, NEW d \in CPU,
         TerminateProcessThreads(c, t, d)
  PROVE  OwnerInv'
<1>1. /\ state' = [state EXCEPT ![t] = "Terminated"] /\ "Terminated" \notin RunnableStates
      /\ state \in [Threads -> States] /\ queue \in Queues
      /\ UNCHANGED <<cpuVars, pc, path, next>>
      /\ queue' = queue \/ queue' = Appended(queue, d, t)
  BY DEF TerminateProcessThreads, IInv, TypeOK, Queues, RunnableStates, lockVars, Appended
<1>2. \A x : Queued(x, queue) => Queued(x, queue')
  BY <1>1, QueueAdd
<1>3. \A x \in Threads : state'[x] \in RunnableStates => HasOwner(x)
  BY <1>1 DEF OwnerInv, OwnedInv
<1>4. \A x \in Threads : state'[x] = "Running" => state[x] = "Running"
  BY <1>1
<1> QED
  BY <1>1, <1>2, <1>3, <1>4, OwnerThreadOnly

\* reclaim_unschedulable_cpu_queues moves entries and loses none.
LEMMA StalledOwner ==
  ASSUME IInv, OwnerInv, NEW c \in CPU, NEW d \in CPU, ReclaimStalledQueue(c, d)
  PROVE  OwnerInv'
<1>1. /\ c # d /\ queue' = Merged(queue, c, d) /\ state' = state /\ queue \in Queues
      /\ UNCHANGED <<cpuVars, pc, path, next>>
  BY DEF ReclaimStalledQueue, IInv, TypeOK, Queues, Merged, lockVars
<1>2. \A x : Queued(x, queue') <=> Queued(x, queue)
  BY <1>1, QueueMerge
<1>3. \A x \in Threads : state'[x] \in RunnableStates => HasOwner(x)
  BY <1>1 DEF OwnerInv, OwnedInv
<1> QED
  BY <1>1, <1>2, <1>3, OwnerThreadOnly

-----------------------------------------------------------------------------
\* The steps of the switch protocol. A CPU that drains a parked thread finds it
\* queued afterwards, or held by another CPU.
LEMMA DrainOwner ==
  ASSUME IInv, OwnerInv, NEW c \in CPU, NEW t, Elsewhere(c), UNCHANGED current,
         RequeueAfterSave(c, t, current, previous'), previous'[c] = NoThread,
         t \in Threads, state[t] \in RunnableStates, holder = NoCpu
  PROVE  HasOwner(t)'
<1>1. Queued(t, queue') \/ IsCurrent(t, current) \/ IsDeferred(t, previous')
  BY RequeueEffect
<1>2. CASE Queued(t, queue') \/ IsCurrent(t, current)
  BY <1>2 DEF HasOwner, Holds, IsCurrent
<1>3. CASE IsDeferred(t, previous')
  <2>1. PICK d \in CPU : d # c /\ previous[d] = t
    BY <1>3, ThreadAssumption DEF IsDeferred, Elsewhere
  <2>2. Waits(d, t) \/ current[d] = t
    BY <2>1 DEF OwnerInv, MarkerInv, MarkerAt
  <2>3. Waits(d, t)' \/ current'[d] = t
    BY <2>1, <2>2 DEF Waits, Elsewhere
  <2> QED
    BY <2>3 DEF HasOwner, Holds
<1> QED
  BY <1>1, <1>2, <1>3

\* The slot is emptied into deferred_tid, which the early drain will queue.
LEMMA IrqEnterOwner ==
  ASSUME IInv, OwnerInv, NEW c \in CPU, IrqEnter(c)
  PROVE  OwnerInv'
<1>1. /\ state' = state /\ queue' = queue /\ current' = current /\ previous' = previous
      /\ pc[c] = "run" /\ pc'[c] = "drain" /\ deferred'[c] = slot[c] /\ slot'[c] = NoThread
      /\ Elsewhere(c) /\ UNCHANGED <<state, path, next>>
  BY DEF IrqEnter, IInv, TypeOK, Elsewhere, threadVars, lockVars
<1>2. \A x \in Threads : Queued(x, queue) \/ Holds(c, x) => HasOwner(x)'
  BY <1>1 DEF Holds, HasOwner, Waits
<1>3. MarkerAt(c)' /\ LeavingAt(c)'
  BY <1>1 DEF OwnerInv, MarkerInv, MarkerAt, LeavingAt, Waits
<1> QED
  BY <1>1, <1>2, <1>3, OwnerCpuStep

\* The early drain queues what the slot held.
LEMMA DrainDeferredOwner ==
  ASSUME IInv, OwnerInv, NEW c \in CPU, DrainDeferred(c)
  PROVE  OwnerInv'
<1> DEFINE t == deferred[c]
<1>1. /\ current' = current /\ slot' = slot /\ deferred' = deferred
      /\ pc[c] = "drain" /\ pc'[c] = "check" /\ holder = NoCpu
      /\ RequeueAfterSave(c, t, current, previous')
      /\ t = NoThread => previous' = previous
      /\ t # NoThread => previous'[c] = NoThread
      /\ Elsewhere(c)
  BY DEF DrainDeferred, IInv, TypeOK, Elsewhere
<1>2. /\ \A x : Queued(x, queue) => Queued(x, queue')
      /\ \A x \in Threads : state'[x] \in RunnableStates => state[x] \in RunnableStates
  BY <1>1, RequeueEffect
<1>3. t \in Threads /\ state[t] \in RunnableStates => HasOwner(t)'
  BY <1>1, DrainOwner, ThreadAssumption
<1>4. \A x \in Threads : Queued(x, queue) => HasOwner(x)'
  BY <1>2 DEF HasOwner, Holds
<1>5. \A x \in Threads : current[c] = x \/ slot[c] = x => HasOwner(x)'
  BY <1>1 DEF HasOwner, Holds, Waits
<1>6. \A x \in Threads : state'[x] \in RunnableStates /\ Holds(c, x) => HasOwner(x)'
  BY <1>1, <1>2, <1>3, <1>5 DEF Holds, Waits
<1>7. MarkerAt(c)' /\ LeavingAt(c)'
  BY <1>1, ThreadAssumption DEF OwnerInv, MarkerInv, MarkerAt, LeavingAt, Waits
<1> QED
  BY <1>1, <1>2, <1>4, <1>6, <1>7, OwnerCpuStep

\* The interrupt exit that returns has drained already.
LEMMA ReturnOwner ==
  ASSUME IInv, OwnerInv, NEW c \in CPU, ReturnToThread(c)
  PROVE  OwnerInv'
<1>1. /\ state' = state /\ queue' = queue /\ current' = current /\ previous' = previous
      /\ slot' = slot /\ pc[c] = "check" /\ pc'[c] = "run"
      /\ Elsewhere(c) /\ UNCHANGED <<state, path, next>>
  BY DEF ReturnToThread, IInv, TypeOK, Elsewhere, threadVars, lockVars
<1>2. \A x \in Threads : Queued(x, queue) \/ Holds(c, x) => HasOwner(x)'
  BY <1>1 DEF Holds, HasOwner, Waits
<1>3. MarkerAt(c)' /\ LeavingAt(c)'
  BY <1>1 DEF OwnerInv, MarkerInv, MarkerAt, LeavingAt, Waits
<1> QED
  BY <1>1, <1>2, <1>3, OwnerCpuStep

\* The second drain of the interrupt exit and the drain of schedule_from_kernel.
LEMMA LockedDrainOwner ==
  ASSUME IInv, OwnerInv, NEW c \in CPU,
         LockForSwitch(c) \/ LockAndReturn(c) \/ ScheduleFromKernel(c)
  PROVE  OwnerInv'
<1>1. PICK t : /\ RequeueAfterSave(c, t, current, previous')
               /\ t = slot[c] \/ slot'[c] = slot[c]
  BY DEF LockForSwitch, LockAndReturn, ScheduleFromKernel
<1>2. /\ current' = current /\ previous'[c] = NoThread /\ holder = NoCpu
      /\ pc[c] \in {"run", "check"} /\ pc'[c] \in {"run", "enter"}
      /\ Elsewhere(c)
  BY DEF LockForSwitch, LockAndReturn, ScheduleFromKernel, Outside, IInv, TypeOK, Elsewhere
<1>3. /\ \A x : Queued(x, queue) => Queued(x, queue')
      /\ \A x \in Threads : state'[x] \in RunnableStates => state[x] \in RunnableStates
  BY <1>1, RequeueEffect
<1>4. t \in Threads /\ state[t] \in RunnableStates => HasOwner(t)'
  BY <1>1, <1>2, DrainOwner
<1>5. \A x \in Threads : Queued(x, queue) => HasOwner(x)'
  BY <1>3 DEF HasOwner, Holds
<1>6. \A x \in Threads : current[c] = x \/ slot'[c] = x => HasOwner(x)'
  BY <1>2 DEF HasOwner, Holds, Waits
<1>7. \A x \in Threads : state'[x] \in RunnableStates /\ Holds(c, x) => HasOwner(x)'
  BY <1>1, <1>2, <1>3, <1>4, <1>6 DEF Holds, Waits
<1>8. MarkerAt(c)' /\ LeavingAt(c)'
  BY <1>2, ThreadAssumption DEF MarkerAt, LeavingAt
<1> QED
  BY <1>2, <1>3, <1>5, <1>7, <1>8, OwnerCpuStep

\* schedule_terminated_from_exit leaves the slot as it is.
LEMMA ExitCurrentOwner ==
  ASSUME IInv, OwnerInv, NEW c \in CPU, ExitCurrent(c)
  PROVE  OwnerInv'
<1>1. /\ current[c] \in Threads /\ state' = [state EXCEPT ![current[c]] = "Terminated"]
      /\ queue' = Purged(queue, current[c]) /\ "Terminated" \notin RunnableStates
      /\ UNCHANGED cpuVars /\ holder = NoCpu /\ path' = "inline"
      /\ pc[c] = "run" /\ pc'[c] = "enter" /\ Elsewhere(c)
  BY DEF ExitCurrent, Outside, Purged, RunnableStates, cpuVars, Elsewhere, IInv, TypeOK
<1>2. \A x \in Threads : state'[x] \in RunnableStates =>
        /\ state[x] \in RunnableStates /\ HasOwner(x)
        /\ Queued(x, queue) => Queued(x, queue')
  BY <1>1, PurgeOwner
<1>3. \A x \in Threads : state'[x] \in RunnableStates /\ Queued(x, queue) => HasOwner(x)'
  BY <1>2 DEF HasOwner, Holds
<1>4. \A x \in Threads : Holds(c, x) => HasOwner(x)'
  BY <1>1 DEF Holds, HasOwner, Waits, cpuVars
<1>5. MarkerAt(c)' /\ LeavingAt(c)'
  BY <1>1 DEF OwnerInv, MarkerInv, MarkerAt, LeavingAt, Waits, cpuVars
<1> QED
  BY <1>1, <1>2, <1>3, <1>4, <1>5, OwnerCpuStep

\* Taking the ISR buffers concerns no owner.
LEMMA DrainIsrOwner ==
  ASSUME IInv, OwnerInv, NEW c \in CPU, DrainIsrBuffers(c)
  PROVE  OwnerInv'
<1>1. /\ UNCHANGED cpuVars /\ UNCHANGED <<state, path, next>> /\ queue' = queue
      /\ pc[c] = "enter" /\ pc'[c] = "isr" /\ Elsewhere(c)
  BY DEF DrainIsrBuffers, Scheduling, threadVars, cpuVars, Elsewhere, IInv, TypeOK
<1>2. \A x \in Threads : Queued(x, queue) \/ Holds(c, x) => HasOwner(x)'
  BY <1>1 DEF Holds, HasOwner, Waits, cpuVars
<1>3. MarkerAt(c)' /\ LeavingAt(c)'
  BY <1>1 DEF OwnerInv, MarkerInv, LeavingInv, MarkerAt, LeavingAt, Waits, cpuVars
<1> QED
  BY <1>1, <1>2, <1>3, OwnerCpuStep

\* The marker is set while the thread is still current.
LEMMA PublishCurrentOwner ==
  ASSUME IInv, OwnerInv, NEW c \in CPU, PublishCurrent(c)
  PROVE  OwnerInv'
<1>1. /\ current' = current /\ slot' = slot /\ deferred' = deferred /\ queue' = queue
      /\ holder = c /\ pc[c] = "isr" /\ pc'[c] = "timers" /\ path' = path
      /\ previous'[c] \in {previous[c], current[c]} /\ Elsewhere(c)
      /\ state \in [Threads -> States]
  BY DEF PublishCurrent, Scheduling, Elsewhere, IInv, TypeOK
<1>2. \/ /\ current[c] \in Threads /\ state' = [state EXCEPT ![current[c]] = "Ready"]
      \/ /\ state' = state
         /\ current[c] \in Threads => state[current[c]] \in WaitKinds \union {"Terminated"}
  BY DEF PublishCurrent, OffCpuState
<1>3. \A x \in Threads : x # current[c] => state'[x] = state[x]
  BY <1>1, <1>2
<1>4. \A x \in Threads : Queued(x, queue) \/ Holds(c, x) => HasOwner(x)'
  BY <1>1 DEF Holds, HasOwner, Waits
<1>5. MarkerAt(c)'
  BY <1>1 DEF OwnerInv, MarkerInv, MarkerAt, Waits
<1>6. LeavingAt(c)'
  <2>1. current[c] \in Threads => state'[current[c]] # "Running"
    BY <1>1, <1>2, KindFacts
  <2> QED
    BY <1>1, <2>1 DEF OwnerInv, LeavingInv, LeavingAt
<1> QED
  BY <1>1, <1>3, <1>4, <1>5, <1>6, OwnerCpuStep

\* The choice takes the candidate out of the queues and passes over no other
\* runnable thread.
LEMMA PickNextOwner ==
  ASSUME IInv, OwnerInv, ~KickGap, NEW c \in CPU, PickNext(c)
  PROVE  OwnerInv'
<1> DEFINE r == QueuesAfterScan(c, {})
<1>0. PICK t : t = Candidate(c)
  OBVIOUS
<1>1. /\ state \in [Threads -> States] /\ queue \in Queues /\ Idle \notin Threads
      /\ current \in [CPU -> Threads \union {Idle}]
      /\ previous \in [CPU -> Threads \union {NoThread}] /\ Idle # NoThread
  BY ThreadAssumption DEF IInv, TypeOK, Queues, Idle, NoThread
<1>2. \A x \in Threads : Queued(x, queue) /\ state[x] # "Terminated" /\ x # t => Queued(x, r)
  BY <1>0, <1>1, ScanKeeps
<1>3. \/ current[c] = Idle /\ t = Idle /\ KeepCurrent(c, r)
      \/ t # current[c] /\ Select(c, t, r, requeueOld)
  BY <1>0, PickNextCases
<1>4. /\ UNCHANGED <<current, slot, deferred>> /\ holder = c /\ pc[c] = "timers"
      /\ pc \in [CPU -> Pcs]
  BY DEF PickNext, Scheduling, IInv, TypeOK
<1>5. t = Idle \/ t \in Threads
  BY <1>0, <1>1, ScanFacts
<1> HIDE DEF r
<1>6. CASE current[c] = Idle /\ t = Idle /\ KeepCurrent(c, r)
  <2>1. /\ queue' = r /\ state' = state /\ previous' = previous /\ pc'[c] = "run"
        /\ Elsewhere(c)
    BY <1>1, <1>4, <1>6 DEF KeepCurrent, Elsewhere
  <2>2. \A x \in Threads : state'[x] \in RunnableStates /\ Queued(x, queue) => HasOwner(x)'
    BY <1>1, <1>2, <1>6, <2>1 DEF HasOwner, Holds, RunnableStates
  <2>3. \A x \in Threads : Holds(c, x) => HasOwner(x)'
    BY <1>4, <2>1 DEF Holds, HasOwner, Waits
  <2>4. MarkerAt(c)' /\ LeavingAt(c)'
    BY <1>1, <1>4, <1>6, <2>1 DEF OwnerInv, MarkerInv, MarkerAt, LeavingAt, Waits
  <2> QED
    BY <1>4, <2>1, <2>2, <2>3, <2>4, OwnerCpuStep
<1>7. CASE t # current[c] /\ Select(c, t, r, requeueOld)
  <2>1. /\ queue' = r /\ previous' = previous /\ next' = t /\ pc'[c] = "commit" /\ path' = path
        /\ state' = IF t = Idle THEN state ELSE [state EXCEPT ![t] = "Running"]
        /\ Elsewhere(c)
    BY <1>4, <1>7 DEF Select, Elsewhere
  <2>2. \A x \in Threads : x # t => state'[x] = state[x]
    BY <1>1, <1>5, <2>1
  <2>3. t \in Threads => HasOwner(t)'
    BY <2>1 DEF HasOwner, Holds
  <2>4. \A x \in Threads : state'[x] \in RunnableStates /\ Queued(x, queue) => HasOwner(x)'
    BY <1>2, <2>1, <2>2, <2>3 DEF HasOwner, Holds, RunnableStates
  <2>5. \A x \in Threads : Holds(c, x) => HasOwner(x)'
    BY <1>4, <2>1 DEF Holds, HasOwner, Waits
  <2>6. MarkerAt(c)'
    BY <1>4, <2>1 DEF OwnerInv, MarkerInv, MarkerAt, Waits
  <2>7. LeavingAt(c)'
    BY <1>4, <1>7, <2>1, <2>2 DEF OwnerInv, LeavingInv, LeavingAt
  <2>8. \A x \in Threads : state'[x] \in RunnableStates /\ current[c] # x =>
          state[x] \in RunnableStates \/ HasOwner(x)'
    BY <2>2, <2>3
  <2> QED
    BY <1>4, <2>1, <2>4, <2>5, <2>6, <2>7, <2>8, OwnerCpuStep
<1> QED
  BY <1>3, <1>6, <1>7

\* The interrupt-exit commit parks the outgoing thread; an entry it evicts from
\* the slot is queued, or has a marker of its own.
LEMMA CommitIrqOwner ==
  ASSUME IInv, OwnerInv, NEW c \in CPU, CommitIrq(c)
  PROVE  OwnerInv'
<1> DEFINE old == current[c]
<1>1. /\ holder = c /\ pc[c] = "commit" /\ path = "irq" /\ pc'[c] = "dispatch"
      /\ current'[c] = next /\ slot'[c] = Parked(old)
      /\ previous'[c] = IF old = Idle THEN previous[c] ELSE old
      /\ RequeueAfterSave(c, slot[c], current', previous')
      /\ Elsewhere(c)
  BY DEF CommitIrq, Scheduling, Elsewhere, IInv, TypeOK
<1>2. /\ old \in Threads \union {Idle} /\ Idle \notin Threads /\ NoThread \notin Threads
      /\ old = Idle => previous'[c] \notin Threads
  BY <1>1, ThreadAssumption DEF IInv, TypeOK, OwnerInv, LeavingInv, LeavingAt
<1>3. /\ \A x : Queued(x, queue) => Queued(x, queue')
      /\ \A x \in Threads : state'[x] \in RunnableStates => state[x] \in RunnableStates
      /\ slot[c] \in Threads /\ state[slot[c]] \in RunnableStates =>
           Queued(slot[c], queue') \/ IsCurrent(slot[c], current') \/ IsDeferred(slot[c], previous')
  BY <1>1, RequeueEffect
<1>4. MarkerAt(c)' /\ LeavingAt(c)'
  BY <1>1, <1>2 DEF MarkerAt, LeavingAt, Waits, Parked
<1>5. \A x \in Threads : old = x \/ next = x => HasOwner(x)'
  BY <1>1, <1>2 DEF HasOwner, Holds, Waits, Parked
<1>6. \A x \in Threads : IsDeferred(x, previous') => HasOwner(x)'
  <2> SUFFICES ASSUME NEW x \in Threads, NEW d \in CPU, previous'[d] = x PROVE HasOwner(x)'
    BY DEF IsDeferred
  <2>1. CASE d = c
    BY <1>1, <1>2, <1>5, <2>1
  <2>2. CASE d # c
    <3>1. Waits(d, x) \/ current[d] = x
      BY <2>2, <1>1 DEF OwnerInv, MarkerInv, MarkerAt, Elsewhere
    <3>2. Waits(d, x)' \/ current'[d] = x
      BY <1>1, <2>2, <3>1 DEF Waits, Elsewhere
    <3> QED
      BY <3>2 DEF HasOwner, Holds
  <2> QED
    BY <2>1, <2>2
<1>7. \A x \in Threads : Queued(x, queue') \/ IsCurrent(x, current') => HasOwner(x)'
  BY DEF HasOwner, Holds, IsCurrent
<1>8. \A x \in Threads : state'[x] \in RunnableStates /\ Holds(c, x) => HasOwner(x)'
  BY <1>1, <1>3, <1>5, <1>6, <1>7 DEF Holds, Waits
<1> QED
  BY <1>1, <1>3, <1>4, <1>7, <1>8, OwnerCpuStep

\* The inline commit queues the outgoing thread unless it is not runnable.
LEMMA CommitInlineOwner ==
  ASSUME IInv, OwnerInv, NEW c \in CPU, CommitInline(c)
  PROVE  OwnerInv'
<1> DEFINE old == current[c]
<1>1. /\ holder = c /\ pc[c] = "commit" /\ pc'[c] = "dispatch"
      /\ current'[c] = next /\ slot' = slot /\ previous'[c] = NoThread
      /\ \/ RequeueAfterSave(c, old, current', previous')
         \/ UNCHANGED threadVars /\ (old \in Threads => state[old] # "Ready")
      /\ Elsewhere(c)
  BY DEF CommitInline, Scheduling, Elsewhere, IInv, TypeOK
<1>2. old \in Threads => state[old] # "Running"
  BY <1>1 DEF OwnerInv, LeavingInv, LeavingAt
<1>3. /\ \A x : Queued(x, queue) => Queued(x, queue')
      /\ \A x \in Threads : state'[x] \in RunnableStates => state[x] \in RunnableStates
      /\ old \in Threads /\ state[old] \in RunnableStates =>
           Queued(old, queue') \/ IsCurrent(old, current') \/ IsDeferred(old, previous')
  <2>1. CASE RequeueAfterSave(c, old, current', previous')
    BY <2>1, RequeueEffect
  <2>2. CASE UNCHANGED threadVars /\ (old \in Threads => state[old] # "Ready")
    BY <1>2, <2>2 DEF threadVars, RunnableStates
  <2> QED
    BY <1>1, <2>1, <2>2
<1>4. MarkerAt(c)' /\ LeavingAt(c)'
  BY <1>1, ThreadAssumption DEF MarkerAt, LeavingAt
<1>5. \A x \in Threads : slot[c] = x \/ next = x => HasOwner(x)'
  BY <1>1 DEF HasOwner, Holds, Waits
<1>6. \A x \in Threads : IsDeferred(x, previous') => HasOwner(x)'
  <2> SUFFICES ASSUME NEW x \in Threads, NEW d \in CPU, previous'[d] = x PROVE HasOwner(x)'
    BY DEF IsDeferred
  <2>1. d # c
    BY <1>1, ThreadAssumption
  <2>2. Waits(d, x) \/ current[d] = x
    BY <1>1, <2>1 DEF OwnerInv, MarkerInv, MarkerAt, Elsewhere
  <2>3. Waits(d, x)' \/ current'[d] = x
    BY <1>1, <2>1, <2>2 DEF Waits, Elsewhere
  <2> QED
    BY <2>3 DEF HasOwner, Holds
<1>7. \A x \in Threads : Queued(x, queue') \/ IsCurrent(x, current') => HasOwner(x)'
  BY DEF HasOwner, Holds, IsCurrent
<1>8. \A x \in Threads : state'[x] \in RunnableStates /\ Holds(c, x) => HasOwner(x)'
  BY <1>1, <1>3, <1>5, <1>6, <1>7 DEF Holds, Waits
<1> QED
  BY <1>1, <1>3, <1>4, <1>7, <1>8, OwnerCpuStep

\* The lock is dropped with the successor in place, and the ERET.
LEMMA ArriveOwner ==
  ASSUME IInv, OwnerInv, NEW c \in CPU, Dispatch(c) \/ Eret(c)
  PROVE  OwnerInv'
<1>1. /\ state' = state /\ queue' = queue /\ current' = current /\ previous' = previous
      /\ slot' = slot /\ deferred' = deferred
      /\ pc[c] \in {"dispatch", "eret"} /\ pc'[c] \in {"eret", "run"}
      /\ holder \in {c, NoCpu} \/ UNCHANGED <<state, path, next>>
      /\ Elsewhere(c)
  BY DEF Dispatch, Eret, Scheduling, LeaveScheduler, Elsewhere, IInv, TypeOK, threadVars, lockVars
<1>2. \A x \in Threads : Queued(x, queue) \/ Holds(c, x) => HasOwner(x)'
  BY <1>1 DEF Holds, HasOwner, Waits
<1>3. MarkerAt(c)' /\ LeavingAt(c)'
  BY <1>1 DEF OwnerInv, MarkerInv, MarkerAt, LeavingAt, Waits
<1> QED
  BY <1>1, <1>2, <1>3, OwnerCpuStep

\* A refused successor goes back into a queue, or is held by another CPU.
LEMMA RefuseOwner ==
  ASSUME IInv, OwnerInv, NEW c \in CPU, RefuseDispatch(c)
  PROVE  OwnerInv'
<1>0. PICK t : t = current[c]
  OBVIOUS
<1>1. /\ holder = c /\ pc[c] = "dispatch" /\ pc'[c] \in {"eret", "run"}
      /\ current' = [current EXCEPT ![c] = Idle] /\ current'[c] = Idle
      /\ previous' = previous /\ slot' = slot /\ deferred' = deferred
      /\ state' = [state EXCEPT ![t] = "Ready"]
      /\ queue' = IF Requeueable(t, current', previous) THEN Appended(queue, c, t) ELSE queue
      /\ Elsewhere(c)
  BY <1>0 DEF RefuseDispatch, Scheduling, LeaveScheduler, Elsewhere, Appended, IInv, TypeOK
<1>2. /\ t \in Threads /\ state[t] = "Running" /\ Idle \notin Threads
      /\ state \in [Threads -> States] /\ queue \in Queues
  BY <1>0, <1>1, ThreadAssumption, UserAssumption DEF RefuseDispatch, IInv, TypeOK, Queues, NextInv
<1>3. \A x : Queued(x, queue') <=> Queued(x, queue) \/ (x = t /\ Requeueable(t, current', previous))
  BY <1>1, <1>2, QueueAdd
<1>4. HasOwner(t)'
  <2>1. CASE Requeueable(t, current', previous) \/ Queued(t, queue)
    BY <1>3, <2>1 DEF HasOwner, Holds
  <2>2. CASE IsCurrent(t, current')
    BY <2>2 DEF IsCurrent, HasOwner, Holds
  <2>3. CASE IsDeferred(t, previous)
    <3>1. PICK d \in CPU : previous[d] = t
      BY <2>3 DEF IsDeferred
    <3>2. Waits(d, t) \/ (current[d] = t /\ d # c)
      BY <1>1, <1>2, <3>1 DEF OwnerInv, MarkerInv, MarkerAt
    <3>3. Waits(d, t)' \/ current'[d] = t
      BY <1>1, <3>2 DEF Waits, Elsewhere
    <3> QED
      BY <3>3 DEF HasOwner, Holds
  <2> QED
    BY <1>2, <2>1, <2>2, <2>3 DEF Requeueable, InAnyQueue, Queued
<1>5. \A x \in Threads : x # t => state'[x] = state[x]
  BY <1>1, <1>2
<1>6. \A x \in Threads : Queued(x, queue) => HasOwner(x)'
  BY <1>3 DEF HasOwner, Holds
<1>7. \A x \in Threads : Holds(c, x) => HasOwner(x)'
  <2>1. \A x \in Threads : slot[c] = x => HasOwner(x)'
    BY <1>1 DEF HasOwner, Holds, Waits
  <2> QED
    BY <1>0, <1>1, <1>4, <2>1 DEF Holds, Waits
<1>8. MarkerAt(c)' /\ LeavingAt(c)'
  BY <1>1 DEF OwnerInv, MarkerInv, MarkerAt, LeavingAt, Waits
<1>9. \A x \in Threads : state'[x] \in RunnableStates /\ current[c] # x =>
          state[x] \in RunnableStates \/ HasOwner(x)'
  BY <1>0, <1>5
<1> QED
  BY <1>1, <1>6, <1>7, <1>8, <1>9, OwnerCpuStep

\* An abandoned successor ends: nobody needs to have it.
LEMMA AbandonOwner ==
  ASSUME IInv, OwnerInv, NEW c \in CPU, AbandonDispatch(c)
  PROVE  OwnerInv'
<1> DEFINE t == current[c]
<1>1. /\ holder = c /\ pc[c] = "dispatch" /\ pc'[c] \in {"eret", "run"} /\ current'[c] = Idle
      /\ previous' = previous /\ slot' = slot /\ deferred' = deferred /\ queue' = queue
      /\ state' = [state EXCEPT ![t] = "Terminated"] /\ state \in [Threads -> States]
      /\ Elsewhere(c)
  BY DEF AbandonDispatch, Scheduling, LeaveScheduler, Elsewhere, IInv, TypeOK
<1>2. \A x \in Threads : state'[x] \in RunnableStates => x # t /\ state[x] \in RunnableStates
  BY <1>1 DEF RunnableStates
<1>3. \A x \in Threads : Queued(x, queue) \/ slot[c] = x => HasOwner(x)'
  BY <1>1 DEF HasOwner, Holds, Waits
<1>4. \A x \in Threads : state'[x] \in RunnableStates /\ Holds(c, x) => HasOwner(x)'
  BY <1>1, <1>2, <1>3 DEF Holds, Waits
<1>5. MarkerAt(c)' /\ LeavingAt(c)'
  BY <1>1 DEF OwnerInv, MarkerInv, MarkerAt, LeavingAt, Waits
<1> QED
  BY <1>1, <1>2, <1>3, <1>4, <1>5, OwnerCpuStep

\* Every step keeps an owner for every runnable thread.
LEMMA OwnerStep ==
  ASSUME ~KickGap, IInv, OwnerInv, [Next]_vars
  PROVE  OwnerInv'
<1>1. ASSUME NEW c \in CPU, ThreadStep(c) PROVE OwnerInv'
  <2>1. ASSUME NEW t \in Threads, FenceTerminated(c, t) PROVE OwnerInv'
    BY <2>1, SameOwner DEF FenceTerminated, lockVars
  <2> QED
    BY <1>1, <2>1, SpawnOwner, BlockCurrentOwner, WaitOwner, WakeOwner, TerminateOwner,
       ReclaimOwner, LockedDrainOwner, ExitCurrentOwner
    DEF ThreadStep
<1>2. ASSUME NEW c \in CPU, SwitchStep(c) PROVE OwnerInv'
  BY <1>2, IrqEnterOwner, DrainDeferredOwner, ReturnOwner, LockedDrainOwner, StalledOwner,
     DrainIsrOwner, WakeOwner, PublishCurrentOwner, PickNextOwner, CommitIrqOwner,
     CommitInlineOwner, ArriveOwner, RefuseOwner, AbandonOwner
  DEF SwitchStep
<1>3. ASSUME NEW t \in Threads, IsrPush(t) \/ TimerDue(t) PROVE OwnerInv'
  BY <1>3, SameOwner DEF IsrPush, TimerDue, lockVars
<1>4. ASSUME UNCHANGED vars PROVE OwnerInv'
  BY <1>4, SameOwner DEF vars, lockVars
<1> QED
  BY <1>1, <1>2, <1>3, <1>4 DEF Next

-----------------------------------------------------------------------------
(***************************************************************************)
(* The grace period: FenceInv.                                              *)
(***************************************************************************)

\* A step that touches no grace record keeps FenceInv if no thread is reclaimed
\* by it, no CPU moves to a fenced thread, and none returns to one.
LEMMA FenceFrame ==
  ASSUME IInv, FenceInv, IInv', Final,
         fenced' = fenced, grace' = grace,
         \A x \in Threads : state'[x] = "Gone" => state[x] = "Gone",
         \A d \in CPU : stack'[d] \in {Idle, stack[d], current[d], current'[d]},
         \A d \in CPU, x \in fenced : current'[d] = x =>
           /\ current[d] = x
           /\ pc'[d] \in {"run", "eret"} => pc[d] \in {"run", "eret"}
  PROVE  FenceInv'
<1> USE DEF GraceEntries
<1>1. fenced \subseteq Threads /\ Idle \notin Threads
  BY ThreadAssumption DEF IInv, TypeOK
<1>2. \A t \in Threads : t \in fenced' => state'[t] = "Terminated"
  BY DEF FenceInv, Final
<1>3. ASSUME NEW t \in Threads, NEW c \in CPU, t \in fenced'
      PROVE  /\ current'[c] = t \/ stack'[c] = t => grace'[t][c] # 0
             /\ current'[c] = t /\ pc'[c] \in {"run", "eret"} => grace'[t][c] = GraceEntries
  <2>1. /\ current[c] = t \/ stack[c] = t => grace[t][c] # 0
        /\ current[c] = t /\ pc[c] \in {"run", "eret"} => grace[t][c] = GraceEntries
    BY <1>3 DEF FenceInv
  <2>2. current'[c] = t => /\ current[c] = t
                           /\ pc'[c] \in {"run", "eret"} => pc[c] \in {"run", "eret"}
    BY <1>3
  <2>3. stack'[c] = t => stack[c] = t \/ current[c] = t
    BY <1>1, <2>2
  <2> QED
    BY <2>1, <2>2, <2>3
<1>4. ASSUME NEW t \in Threads, state'[t] = "Gone", NEW c \in CPU PROVE t # stack'[c]
  <2>1. t # stack[c] /\ t # current[c] /\ t # current'[c]
    BY <1>4 DEF FenceInv, IInv, NewInv
  <2> QED
    BY <1>1, <2>1
<1> QED
  BY <1>2, <1>3, <1>4 DEF FenceInv

\* A step that moves no CPU.
LEMMA FenceStill ==
  ASSUME IInv, FenceInv, IInv', Final, fenced' = fenced, grace' = grace,
         \A x \in Threads : state'[x] = "Gone" => state[x] = "Gone",
         UNCHANGED <<current, stack>>,
         \A d \in CPU : pc'[d] \in {"run", "eret"} =>
           \/ pc[d] \in {"run", "eret"}
           \/ current[d] \notin Threads \/ state[current[d]] # "Terminated"
  PROVE  FenceInv'
<1>1. fenced \subseteq Threads /\ \A x \in fenced : state[x] = "Terminated"
  BY DEF IInv, TypeOK, FenceInv
<1> QED
  BY <1>1, FenceFrame

\* The steps that set a thread's state, and none to Gone.
LEMMA GoneSame ==
  ASSUME IInv, NEW t, NEW s, s # "Gone",
         state' = state \/ (t \in Threads /\ state' = [state EXCEPT ![t] = s])
  PROVE  \A x \in Threads : state'[x] = "Gone" => state[x] = "Gone"
BY DEF IInv, TypeOK

\* A fence starts two entries ahead; a reclaim finds every CPU past both.
LEMMA FenceThreadStep ==
  ASSUME IInv, FenceInv, IInv', Final, ~KilledRunsOn, NEW c \in CPU, ThreadStep(c)
  PROVE  FenceInv'
<1>1. ASSUME NEW t \in Threads, FenceTerminated(c, t) PROVE FenceInv'
  <2>1. /\ state' = state /\ current' = current /\ stack' = stack /\ pc' = pc
        /\ fenced' = fenced \union {t} /\ state[t] = "Terminated"
        /\ \A d \in CPU : grace'[t][d] = GraceEntries
        /\ \A x \in Threads : x # t => grace'[x] = grace[x]
    BY <1>1 DEF FenceTerminated, threadVars, cpuVars, IInv, TypeOK
  <2>2. GraceEntries # 0
    BY DEF GraceEntries
  <2> QED
    BY <2>1, <2>2 DEF FenceInv
<1>2. ASSUME NEW t \in Threads, ReclaimTerminated(c, t) PROVE FenceInv'
  <2>1. /\ current' = current /\ stack' = stack /\ pc' = pc /\ grace' = grace
        /\ fenced' = fenced \ {t} /\ t \in fenced /\ state' = [state EXCEPT ![t] = "Gone"]
        /\ state \in [Threads -> States]
        /\ \A d \in CPU : grace[t][d] = 0
    BY <1>2 DEF ReclaimTerminated, cpuVars, IInv, TypeOK
  <2>2. \A x \in Threads : x # t => state'[x] = state[x]
    BY <2>1
  <2>3. \A d \in CPU : t # stack[d]
    BY <2>1 DEF FenceInv
  <2> QED
    BY <2>1, <2>2, <2>3 DEF FenceInv
<1>3. ASSUME NEW t, NEW s, s # "Gone",
             state' = state \/ (t \in Threads /\ state' = [state EXCEPT ![t] = s]),
             UNCHANGED <<current, stack, fenced, grace>>,
             pc' = pc \/ pc' = [pc EXCEPT ![c] = "enter"]
      PROVE  FenceInv'
  <2>1. \A x \in Threads : state'[x] = "Gone" => state[x] = "Gone"
    BY <1>3, GoneSame
  <2>2. \A d \in CPU : pc'[d] \in {"run", "eret"} => pc[d] \in {"run", "eret"}
    BY <1>3 DEF IInv, TypeOK
  <2> QED
    BY <1>3, <2>1, <2>2, FenceStill
<1>4. ASSUME NEW t \in Threads, NEW d \in CPU,
             \/ \E front \in BOOLEAN : Spawn(c, t, d, front)
             \/ \E op \in DOMAIN Accepts : Wake(c, t, d, op)
             \/ TerminateProcessThreads(c, t, d)
      PROVE  FenceInv'
  <2>1. /\ UNCHANGED <<current, stack, fenced, grace>> /\ pc' = pc
        /\ \/ state' = [state EXCEPT ![t] = "Ready"]
           \/ state' = [state EXCEPT ![t] = "Terminated"]
    BY <1>4 DEF Spawn, Wake, MakeReady, TerminateProcessThreads, cpuVars, graceVars
  <2> QED
    BY <1>3, <2>1
<1>5. ASSUME NEW k \in WaitKinds, BlockCurrent(c, k) PROVE FenceInv'
  <2>1. /\ UNCHANGED <<current, stack, fenced, grace>> /\ pc' = pc /\ k # "Gone"
        /\ current[c] \in Threads /\ state' = [state EXCEPT ![current[c]] = k]
    BY <1>5, KindFacts DEF BlockCurrent, cpuVars, graceVars
  <2> QED
    BY <1>3, <2>1
<1>6. ASSUME PublishIoWait(c) \/ FinishWait(c) PROVE FenceInv'
  <2>1. /\ UNCHANGED <<current, stack, fenced, grace>> /\ pc' = pc /\ current[c] \in Threads
        /\ \/ state' = [state EXCEPT ![current[c]] = "BlockedOnIO"]
           \/ state' = [state EXCEPT ![current[c]] = "Ready"]
    BY <1>6 DEF PublishIoWait, FinishWait, cpuVars, graceVars
  <2> QED
    BY <1>3, <2>1
<1>7. ASSUME ScheduleFromKernel(c) PROVE FenceInv'
  <2>1. /\ UNCHANGED <<current, stack, fenced, grace>> /\ pc' = [pc EXCEPT ![c] = "enter"]
        /\ \/ state' = state
           \/ slot[c] \in Threads /\ state' = [state EXCEPT ![slot[c]] = "Ready"]
    BY <1>7 DEF ScheduleFromKernel, RequeueAfterSave, Requeueable, threadVars, graceVars
  <2> QED
    BY <1>3, <2>1
<1>8. ASSUME ExitCurrent(c) PROVE FenceInv'
  <2>1. /\ UNCHANGED <<current, stack, fenced, grace>> /\ pc' = [pc EXCEPT ![c] = "enter"]
        /\ current[c] \in Threads /\ state' = [state EXCEPT ![current[c]] = "Terminated"]
    BY <1>8 DEF ExitCurrent, cpuVars, graceVars
  <2> QED
    BY <1>3, <2>1
<1> QED
  BY <1>1, <1>2, <1>4, <1>5, <1>6, <1>7, <1>8 DEF ThreadStep

\* The interrupt exit counts one entry off every record, its own thread's too:
\* that one has a second to go while the CPU leaves the stack.
LEMMA FenceIrqEnter ==
  ASSUME IInv, FenceInv, IInv', NEW c \in CPU, IrqEnter(c)
  PROVE  FenceInv'
<1>1. /\ state' = state /\ current' = current /\ stack' = stack /\ fenced' = fenced
      /\ pc[c] = "run" /\ pc'[c] = "drain"
      /\ \A d \in CPU : d # c => pc'[d] = pc[d]
      /\ \A t \in Threads, d \in CPU : d # c => grace'[t][d] = grace[t][d]
      /\ \A t \in Threads : grace'[t][c] = Min0(grace[t][c])
  BY DEF IrqEnter, threadVars, IInv, TypeOK
<1>2. stack[c] = current[c]
  BY <1>1 DEF IInv, HandoffInv
<1>3. \A t \in Threads : t \in fenced /\ (current[c] = t \/ stack[c] = t) => grace'[t][c] # 0
  BY <1>1, <1>2 DEF FenceInv, GraceEntries, Min0
<1> QED
  BY <1>1, <1>3 DEF FenceInv

\* Drains, wakeups and the publication of the outgoing thread move no CPU; an
\* interrupt exit returns to no terminated thread.
LEMMA FenceStillSteps ==
  ASSUME IInv, FenceInv, IInv', Final, ~KilledRunsOn, NEW c \in CPU,
         \/ DrainDeferred(c) \/ ReturnToThread(c) \/ LockForSwitch(c) \/ LockAndReturn(c)
         \/ \E d \in CPU : ReclaimStalledQueue(c, d)
         \/ DrainIsrBuffers(c) \/ PublishCurrent(c)
         \/ \E t \in Threads, d \in CPU : WakeFromIsr(c, t, d) \/ WakeExpiredTimer(c, t, d)
  PROVE  FenceInv'
<1>1. UNCHANGED <<current, stack, fenced, grace>>
  BY DEF DrainDeferred, ReturnToThread, LockForSwitch, LockAndReturn, ReclaimStalledQueue,
         DrainIsrBuffers, PublishCurrent, WakeFromIsr, WakeExpiredTimer, cpuVars, graceVars
<1>2. \/ pc' = pc
      \/ \E p \in {"check", "enter", "isr", "timers"} : pc' = [pc EXCEPT ![c] = p]
      \/ /\ pc' = [pc EXCEPT ![c] = "run"]
         /\ current[c] \notin Threads \/ state[current[c]] # "Terminated"
  BY DEF DrainDeferred, ReturnToThread, LockForSwitch, LockAndReturn, ReclaimStalledQueue,
         DrainIsrBuffers, PublishCurrent, WakeFromIsr, WakeExpiredTimer, OffCpuState
<1>3. \A d \in CPU : pc'[d] \in {"run", "eret"} =>
        \/ pc[d] \in {"run", "eret"}
        \/ current[d] \notin Threads \/ state[current[d]] # "Terminated"
  BY <1>2 DEF IInv, TypeOK
<1>4. \E t : state' = state \/ (t \in Threads /\ state' = [state EXCEPT ![t] = "Ready"])
  BY DEF DrainDeferred, ReturnToThread, LockForSwitch, LockAndReturn, ReclaimStalledQueue,
         DrainIsrBuffers, PublishCurrent, WakeFromIsr, WakeExpiredTimer, WakeIoThread,
         MakeReady, RequeueAfterSave, Requeueable, threadVars
<1>5. \A x \in Threads : state'[x] = "Gone" => state[x] = "Gone"
  BY <1>4, GoneSame
<1> QED
  BY <1>1, <1>3, <1>5, FenceStill

\* The choice of a successor moves no CPU yet.
LEMMA FencePickNext ==
  ASSUME IInv, FenceInv, IInv', Final, ~KickGap, NEW c \in CPU, PickNext(c)
  PROVE  FenceInv'
<1>1. UNCHANGED <<current, stack, fenced, grace>>
  BY DEF PickNext, graceVars
<1>2. LET r == QueuesAfterScan(c, {}) IN
        \/ current[c] = Idle /\ Candidate(c) = Idle /\ KeepCurrent(c, r)
        \/ Candidate(c) # current[c] /\ Select(c, Candidate(c), r, requeueOld)
  BY PickNextCases
<1>3. \/ /\ state' = state /\ current[c] = Idle /\ pc' = [pc EXCEPT ![c] = "run"]
      \/ /\ pc' = [pc EXCEPT ![c] = "commit"]
         /\ state' = IF Candidate(c) = Idle THEN state
                     ELSE [state EXCEPT ![Candidate(c)] = "Running"]
  BY <1>2 DEF KeepCurrent, Select
<1>4. Candidate(c) = Idle \/ Candidate(c) \in Threads
  BY ScanFacts DEF IInv, TypeOK, Queues
<1>5. \A x \in Threads : state'[x] = "Gone" => state[x] = "Gone"
  BY <1>3, <1>4, GoneSame
<1>6. \A d \in CPU : pc'[d] \in {"run", "eret"} =>
        \/ pc[d] \in {"run", "eret"}
        \/ current[d] \notin Threads \/ state[current[d]] # "Terminated"
  BY <1>3, ThreadAssumption DEF IInv, TypeOK
<1> QED
  BY <1>1, <1>5, <1>6, FenceStill

\* The commits give the CPU a Running thread.
LEMMA FenceCommit ==
  ASSUME IInv, FenceInv, IInv', Final, NEW c \in CPU, CommitIrq(c) \/ CommitInline(c)
  PROVE  FenceInv'
<1>1. /\ current' = [current EXCEPT ![c] = next] /\ fenced' = fenced /\ grace' = grace
      /\ stack' = stack \/ stack' = [stack EXCEPT ![c] = Idle]
      /\ pc' = [pc EXCEPT ![c] = "dispatch"] /\ pc[c] = "commit"
  BY DEF CommitIrq, CommitInline, graceVars, Scheduling
<1>2. \E t : state' = state \/ (t \in Threads /\ state' = [state EXCEPT ![t] = "Ready"])
  BY DEF CommitIrq, CommitInline, RequeueAfterSave, Requeueable, threadVars
<1>3. \A x \in Threads : state'[x] = "Gone" => state[x] = "Gone"
  BY <1>2, GoneSame
<1>4. fenced \subseteq Threads /\ \A x \in fenced : state[x] = "Terminated"
  BY DEF IInv, TypeOK, FenceInv
<1>5. next \notin fenced
  BY <1>1, <1>4, ThreadAssumption DEF IInv, NextInv
<1>6. \A d \in CPU, x \in fenced : current'[d] = x =>
        /\ current[d] = x
        /\ pc'[d] \in {"run", "eret"} => pc[d] \in {"run", "eret"}
  BY <1>1, <1>5 DEF IInv, TypeOK
<1>7. \A d \in CPU : stack'[d] \in {Idle, stack[d], current[d], current'[d]}
  BY <1>1 DEF IInv, TypeOK
<1> QED
  BY <1>1, <1>3, <1>6, <1>7, FenceFrame

\* The dispatch of a Running thread, or of idle in its place.
LEMMA FenceDispatch ==
  ASSUME IInv, FenceInv, IInv', Final, NEW c \in CPU,
         Dispatch(c) \/ RefuseDispatch(c) \/ AbandonDispatch(c)
  PROVE  FenceInv'
<1>1. /\ current' = current \/ current' = [current EXCEPT ![c] = Idle]
      /\ fenced' = fenced /\ grace' = grace
      /\ stack' = stack \/ stack' = [stack EXCEPT ![c] = current'[c]]
      /\ \A d \in CPU : d # c => pc'[d] = pc[d]
      /\ pc[c] = "dispatch"
  BY DEF Dispatch, RefuseDispatch, AbandonDispatch, LeaveScheduler, graceVars, Scheduling,
         IInv, TypeOK
<1>2. \E t, s : /\ s # "Gone"
                /\ state' = state \/ (t \in Threads /\ state' = [state EXCEPT ![t] = s])
  <2>1. CASE Dispatch(c)
    BY <2>1 DEF Dispatch, threadVars
  <2>2. CASE RefuseDispatch(c)
    <3>1. current[c] \in Threads /\ state' = [state EXCEPT ![current[c]] = "Ready"]
      BY <2>2, UserAssumption DEF RefuseDispatch
    <3> QED
      BY <3>1
  <2>3. CASE AbandonDispatch(c)
    <3>1. current[c] \in Threads /\ state' = [state EXCEPT ![current[c]] = "Terminated"]
      BY <2>3 DEF AbandonDispatch
    <3> QED
      BY <3>1
  <2> QED
    BY <2>1, <2>2, <2>3
<1>3. \A x \in Threads : state'[x] = "Gone" => state[x] = "Gone"
  BY <1>2, GoneSame
<1>4. fenced \subseteq Threads /\ \A x \in fenced : state[x] = "Terminated"
  BY DEF IInv, TypeOK, FenceInv
<1>5. current[c] \notin fenced /\ Idle \notin fenced
  BY <1>1, <1>4, ThreadAssumption DEF IInv, NextInv
<1>6. \A d \in CPU, x \in fenced : current'[d] = x => d # c /\ current[d] = x
  BY <1>1, <1>5 DEF IInv, TypeOK
<1>7. \A d \in CPU : stack'[d] \in {Idle, stack[d], current[d], current'[d]}
  BY <1>1 DEF IInv, TypeOK
<1> QED
  BY <1>1, <1>3, <1>6, <1>7, FenceFrame

\* The ERET takes the CPU off the old stack.
LEMMA FenceEret ==
  ASSUME IInv, FenceInv, IInv', Final, NEW c \in CPU, Eret(c)
  PROVE  FenceInv'
<1>1. /\ state' = state /\ current' = current /\ fenced' = fenced /\ grace' = grace
      /\ stack' = [stack EXCEPT ![c] = current[c]] /\ pc[c] = "eret"
      /\ \A d \in CPU : d # c => pc'[d] = pc[d]
  BY DEF Eret, threadVars, graceVars, IInv, TypeOK
<1>2. \A d \in CPU : stack'[d] \in {Idle, stack[d], current[d], current'[d]}
  BY <1>1 DEF IInv, TypeOK
<1>3. \A d \in CPU : pc'[d] \in {"run", "eret"} => pc[d] \in {"run", "eret"}
  BY <1>1
<1> QED
  BY <1>1, <1>2, <1>3, FenceFrame

\* Every step keeps the grace period's promise.
LEMMA FenceStepOK ==
  ASSUME ~KickGap, ~KilledRunsOn, IInv, FenceInv, [Next]_vars
  PROVE  FenceInv'
<1>1. IInv' /\ Final
  BY StepOK
<1>2. ASSUME NEW c \in CPU, ThreadStep(c) PROVE FenceInv'
  BY <1>1, <1>2, FenceThreadStep
<1>3. ASSUME NEW c \in CPU, SwitchStep(c) PROVE FenceInv'
  BY <1>1, <1>3, FenceIrqEnter, FenceStillSteps, FencePickNext, FenceCommit, FenceDispatch,
     FenceEret
  DEF SwitchStep
<1>4. ASSUME \/ UNCHANGED vars
             \/ \E t \in Threads : IsrPush(t) \/ TimerDue(t)
      PROVE  FenceInv'
  <2>1. UNCHANGED <<state, current, stack, pc, fenced, grace>>
    BY <1>4 DEF vars, IsrPush, TimerDue, threadVars, cpuVars, graceVars
  <2> QED
    BY <2>1 DEF FenceInv
<1> QED
  BY <1>2, <1>3, <1>4 DEF Next

\* Both parts hold at boot.
LEMMA OwnerInit == Init => OwnerInv /\ FenceInv
<1> SUFFICES ASSUME Init PROVE OwnerInv /\ FenceInv
  OBVIOUS
<1>1. OwnedInv /\ MarkerInv /\ LeavingInv
  BY ThreadAssumption DEF Init, OwnedInv, RunnableStates, MarkerInv, MarkerAt, LeavingInv, LeavingAt
<1>2. FenceInv
  BY DEF Init, FenceInv
<1> QED
  BY <1>1, <1>2 DEF OwnerInv

\* No runnable thread is ever lost: it is queued, on a CPU, chosen, or parked
\* where an interrupt exit will queue it. In particular the enqueue rule of the
\* wakeup functions, which leaves a marked thread alone, never strands one.
THEOREM NoRunnableIsLost ==
  ASSUME ~KickGap, ~KilledRunsOn
  PROVE  Spec => []RunnableHasOwner
<1>1. IInv /\ OwnerInv /\ [Next]_vars => OwnerInv'
  BY OwnerStep
<1>2. OwnerInv => RunnableHasOwner
  BY DEF OwnerInv, OwnedInv, HasOwner, Holds, Waits, RunnableStates, RunnableHasOwner, InAnyQueue,
         Queued
<1>3. Init => OwnerInv
  BY OwnerInit
<1> QED
  BY <1>1, <1>2, <1>3, Invariance, PTL DEF Spec

\* The kernel stack of a reclaimed thread is in use on no CPU: two scheduler
\* entries on every CPU are enough of a grace period, however the CPUs enter,
\* drain and switch meanwhile.
THEOREM ReclaimedStacksAreUnused ==
  ASSUME ~KickGap, ~KilledRunsOn
  PROVE  Spec => []ReclaimedStackUnused
<1>1. IInv /\ FenceInv /\ [Next]_vars => FenceInv'
  BY FenceStepOK
<1>2. IInv /\ FenceInv => ReclaimedStackUnused
  BY DEF IInv, NewInv, FenceInv, ReclaimedStackUnused, Uses
<1>3. Init => FenceInv
  BY OwnerInit
<1> QED
  BY <1>1, <1>2, <1>3, Invariance, PTL DEF Spec

=============================================================================
