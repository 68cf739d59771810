--------------------------- MODULE RequestService ---------------------------
(***************************************************************************)
(* What the block driver promises its callers and its device: requests are  *)
(* served one at a time; nobody is answered, and nobody else is served,     *)
(* while the device works on a request; a request that is given up closes   *)
(* the service for good; and a caller is refused only because the service   *)
(* is closed, or because it is busy and the caller cannot wait. How callers *)
(* wait and how a completion reaches them is not said here. BlockDevice     *)
(* implements this specification.                                           *)
(***************************************************************************)
CONSTANTS Clients, Sleepers

VARIABLES asking,   \* clients with a request that is not being served
          owner,    \* the client being served: {} or {c}
          working,  \* the device owns the buffers of a request
          closed

svars == <<asking, owner, working, closed>>

SInit == asking = {} /\ owner = {} /\ working = FALSE /\ closed = FALSE

Ask(c) ==
  /\ c \notin asking \union owner
  /\ asking' = asking \union {c}
  /\ UNCHANGED <<owner, working, closed>>

Serve(c) ==
  /\ c \in asking /\ owner = {} /\ ~working /\ ~closed
  /\ asking' = asking \ {c} /\ owner' = {c}
  /\ UNCHANGED <<working, closed>>

Start(c) ==
  /\ owner = {c} /\ ~working
  /\ working' = TRUE
  /\ UNCHANGED <<asking, owner, closed>>

\* also after the request has been given up
Complete ==
  /\ working
  /\ working' = FALSE
  /\ UNCHANGED <<asking, owner, closed>>

Answer(c) ==
  /\ owner = {c} /\ ~working
  /\ owner' = {}
  /\ UNCHANGED <<asking, working, closed>>

GiveUp(c) ==
  /\ owner = {c}
  /\ owner' = {} /\ closed' = TRUE
  /\ UNCHANGED <<asking, working>>

Refuse(c) ==
  /\ c \in asking
  /\ closed \/ (c \notin Sleepers /\ owner # {})
  /\ asking' = asking \ {c}
  /\ UNCHANGED <<owner, working, closed>>

SNext ==
  \/ \E c \in Clients : \/ Ask(c) \/ Serve(c) \/ Start(c) \/ Answer(c)
                        \/ GiveUp(c) \/ Refuse(c)
  \/ Complete

SSpec == SInit /\ [][SNext]_svars
=============================================================================
