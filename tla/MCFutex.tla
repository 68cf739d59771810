------------------------------ MODULE MCFutex ------------------------------
(* Small instance of Futex for TLC: two waiters and a waker, so that a      *)
(* FUTEX_WAKE of one thread has to pass another over.                       *)
EXTENDS Futex

CONSTANTS t1, t2, w1

MCWaiters == {t1, t2}
MCWakers == {w1}
MCValues == {0, 1}
MCWakeCounts == {1, 2}
MCOneWaiter == {t1}
=============================================================================
