---------------------------- MODULE MCScheduler ----------------------------
(* Small instances of Scheduler for TLC: one user thread u1 and one kernel  *)
(* thread k1 on two CPUs.                                                   *)
EXTENDS Scheduler, TLC

CONSTANTS u1, k1

MCTwo == {u1, k1}
MCOneUser == {u1}
MCNone == {}

MCKinds == {"BlockedOnIO", "BlockedOnChildExit"}
MCIo == {"BlockedOnIO"}
MCChild == {"BlockedOnChildExit"}
=============================================================================
