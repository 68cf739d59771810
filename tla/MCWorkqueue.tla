---------------------------- MODULE MCWorkqueue ----------------------------
(* Small instances of Workqueue for TLC.                                    *)
EXTENDS Workqueue, TLC

CONSTANTS k1, a1, a2, w1, w2

MCKthreads == {k1}
MCOneClient == {a1}
MCClients == {a1, a2}
MCWorks == {w1, w2}
MCOneWork == {w1}
MCCodes == {0}

MCSymmetry == Permutations(MCClients)
=============================================================================
