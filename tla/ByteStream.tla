----------------------------- MODULE ByteStream -----------------------------
(***************************************************************************)
(* What a pipe promises: the bytes put into it come out once and in order,  *)
(* it never holds more than its capacity, and its end is reported only when *)
(* everything has been read and nobody can write any more. Pipe implements  *)
(* this specification.                                                      *)
(***************************************************************************)
EXTENDS Integers, Sequences

CONSTANTS Bytes, Capacity

VARIABLES stream,  \* bytes in the pipe
          open,    \* somebody holds the write end
          last     \* what the last read that returned has delivered

streamVars == <<stream, open, last>>

StreamInit == stream = << >> /\ open = TRUE /\ last = << >>

Put ==
  /\ open
  /\ \E n \in 1..(Capacity - Len(stream)) : \E data \in [1..n -> Bytes] :
       stream' = stream \o data
  /\ UNCHANGED <<open, last>>

Get ==
  /\ \E n \in 1..Len(stream) :
       /\ last' = SubSeq(stream, 1, n)
       /\ stream' = SubSeq(stream, n + 1, Len(stream))
  /\ UNCHANGED open

End ==
  /\ ~open /\ stream = << >>
  /\ last' = << >>
  /\ UNCHANGED <<stream, open>>

Hangup == open' = FALSE /\ UNCHANGED <<stream, last>>

StreamSpec == StreamInit /\ [][Put \/ Get \/ End \/ Hangup]_streamVars
=============================================================================
