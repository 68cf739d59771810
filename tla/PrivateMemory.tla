--------------------------- MODULE PrivateMemory ---------------------------
(***************************************************************************)
(* What fork promises its callers: every process has a memory of its own.   *)
(* The child starts with the contents of its parent's, and from then on a   *)
(* store is seen by the process that makes it only, unless the page was     *)
(* mapped MAP_SHARED. CopyOnWrite implements this specification.            *)
(***************************************************************************)
CONSTANTS Spaces, Pages, SharedPages, Values, Zero, NoPage

VARIABLES alive,  \* processes that can still run
          view    \* what each of them reads at each page

memoryVars == <<alive, view>>

Empty == [v \in Pages |-> NoPage]

MemoryInit ==
  /\ \E s \in Spaces : alive = {s}
  /\ view = [s \in Spaces |-> [v \in Pages |-> IF s \in alive THEN Zero ELSE NoPage]]

Write(s, v, x) ==
  /\ s \in alive /\ view[s][v] # NoPage
  /\ view' = [t \in Spaces |-> [w \in Pages |->
       IF w = v /\ view[t][v] # NoPage /\ (t = s \/ v \in SharedPages) THEN x ELSE view[t][w]]]
  /\ UNCHANGED alive

Fork(p, c) ==
  /\ p \in alive /\ c \notin alive
  /\ alive' = alive \cup {c}
  /\ view' = [view EXCEPT ![c] = view[p]]

Map(s, v) ==
  /\ s \in alive /\ view[s][v] = NoPage
  /\ view' = [view EXCEPT ![s][v] = Zero] /\ UNCHANGED alive

Unmap(s, v) ==
  /\ s \in alive /\ view' = [view EXCEPT ![s][v] = NoPage] /\ UNCHANGED alive

End(s) ==
  /\ s \in alive
  /\ alive' = alive \ {s} /\ view' = [view EXCEPT ![s] = Empty]

MemoryNext ==
  \E s \in Spaces :
    \/ End(s)
    \/ \E c \in Spaces : Fork(s, c)
    \/ \E v \in Pages : Map(s, v) \/ Unmap(s, v) \/ \E x \in Values : Write(s, v, x)

MemorySpec == MemoryInit /\ [][MemoryNext]_memoryVars
=============================================================================
