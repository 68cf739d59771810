------------------------------ MODULE WaitList ------------------------------
(***************************************************************************)
(* The list of a WaitQueueHead (task/waitqueue.rs): threads are listed in   *)
(* the order of their arrival, none of them twice.                          *)
(***************************************************************************)
EXTENDS Integers, Sequences, SequencesExt

\* prepare_to_wait: push_back unless the thread is listed already
Enlisted(s, t) == IF Contains(s, t) THEN s ELSE Append(s, t)

\* the retain of finish_wait and take_waiter, of a list that has the thread at
\* most once (BucketsHoldWaiters of Futex)
Without(s, t) ==
  IF Contains(s, t) THEN RemoveAt(s, CHOOSE i \in 1..Len(s) : s[i] = t) ELSE s
=============================================================================
