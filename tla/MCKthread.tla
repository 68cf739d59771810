----------------------------- MODULE MCKthread -----------------------------
(* Small instances of Kthread for TLC.                                      *)
EXTENDS Kthread, TLC

CONSTANTS k1, a1, a2

MCKthreads == {k1}
MCCallers == {a1, a2}
MCCodes == {0, 1}
=============================================================================
