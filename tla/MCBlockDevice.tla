--------------------------- MODULE MCBlockDevice ---------------------------
(* Small instance of BlockDevice for TLC: a caller in a syscall and one that *)
(* may not sleep, at the same device.                                       *)
EXTENDS BlockDevice

CONSTANTS c1, s1

MCClients == {c1, s1}
MCSleepers == {c1}
=============================================================================
