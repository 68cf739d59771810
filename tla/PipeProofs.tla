----------------------------- MODULE PipeProofs -----------------------------
(***************************************************************************)
(* Proofs about Pipe, for any number of processes and descriptors and any   *)
(* capacity.                                                                *)
(*                                                                          *)
(* PInv adds to the types: where the two positions of the ring stand, which *)
(* processes can hold entries at all (Tables), and that the counts are the  *)
(* numbers of descriptors. Parked is the invariant of a blocking read; it   *)
(* needs the pipe to have one reader.                                       *)
(***************************************************************************)
EXTENDS Pipe, FiniteSetTheorems, SequenceTheorems, WellFoundedInduction, TLAPS

Away == {"unborn", "ended", "dup2"}
ReadingPc == {"try", "register", "block", "recheck", "loop", "halt", "eintr", "ready"}
HaltPc == {"loop", "halt", "eintr"}

Ring == write_pos = (read_pos + len) % Capacity

\* what a table holds when its process is not running user code
Tables ==
  /\ \A p \in Procs : extracted[p] # {} => pc[p] = "ended"
  /\ \A p \in Procs : pc[p] \in {"unborn", "ended"} => \A s \in Slots : table[p][s] = "free"
  /\ \A d \in manager : /\ pc[d.proc] = "dup2"
                        /\ table[d.proc][d.slot] = "free"
                        /\ \E s \in Slots : table[d.proc][s] = d.end

Counts ==
  /\ \A end \in {"r", "w"} : IsFiniteSet(Descriptors(end))
  /\ CountsAreDescriptors

PInv == PTypeOK /\ Ring /\ Tables /\ Counts

-----------------------------------------------------------------------------
(***************************************************************************)
(* Numbers                                                                  *)
(***************************************************************************)

\* A non-empty set of natural numbers has a least element.
LEMMA Least ==
  ASSUME NEW S, S \subseteq Nat, S # {}
  PROVE  \E x \in S : \A y \in S : x <= y
<1> DEFINE R == OpToRel(<, Nat)
<1>1. IsWellFoundedOn(R, Nat)
  BY NatLessThanWellFounded
<1>2. \A x, y \in Nat : y < x => <<y, x>> \in R
  BY DEF OpToRel
<1> HIDE DEF R
<1>3. PICK x \in S : \A y \in S : ~(<<y, x>> \in R)
  BY <1>1, WFMin
<1>4. \A y \in S : ~(y < x)
  BY <1>2, <1>3
<1>5. \A y \in S : x <= y
  BY <1>4
<1> QED BY <1>5

\* Min of a set of natural numbers is its least element.
LEMMA MinNat ==
  ASSUME NEW S, S \subseteq Nat, S # {}
  PROVE  Min(S) \in S /\ \A y \in S : Min(S) <= y
BY Least DEF Min

\* Min of two numbers is the smaller one.
LEMMA MinTwo ==
  ASSUME NEW a \in Int, NEW b \in Int
  PROVE  Min({a, b}) = IF a <= b THEN a ELSE b
<1>1. \E x \in {a, b} : \A y \in {a, b} : x <= y
  OBVIOUS
<1>2. Min({a, b}) \in {a, b} /\ \A y \in {a, b} : Min({a, b}) <= y
  BY <1>1 DEF Min
<1> QED BY <1>2

-----------------------------------------------------------------------------
(***************************************************************************)
(* Types                                                                    *)
(***************************************************************************)
Last == UNION {[1..n -> Bytes] : n \in 0..Capacity}

Places == {"unborn", "user", "try", "register", "block", "recheck",
           "loop", "halt", "eintr", "ready", "dup2", "ended"}
States == {"Runnable", "Blocked", "Terminated"}

RingTypes ==
  /\ buffer \in [0..(Capacity - 1) -> Bytes]
  /\ read_pos \in 0..(Capacity - 1) /\ write_pos \in 0..(Capacity - 1) /\ len \in 0..Capacity
TableTypes ==
  /\ table \in [Procs -> [Slots -> {"free", "r", "w"}]]
  /\ extracted \in [Procs -> SUBSET (Slots \X {"r", "w"})]
  /\ manager \subseteq [proc : Procs, end : {"r", "w"}, slot : Slots]
ThreadTypes ==
  /\ st \in [Procs -> States]
  /\ read_waiters \subseteq Procs /\ off \subseteq Procs
CountTypes == readers \in Nat /\ writers \in Nat
RestTypes == pc \in [Procs -> Places] /\ pending \subseteq Procs /\ last \in Last

\* PTypeOK in parts.
LEMMA TypeParts ==
  PTypeOK <=> RingTypes /\ TableTypes /\ ThreadTypes /\ CountTypes /\ RestTypes
<1>1. {read_pos, write_pos} \subseteq 0..(Capacity - 1)
      <=> read_pos \in 0..(Capacity - 1) /\ write_pos \in 0..(Capacity - 1)
  OBVIOUS
<1>2. {readers, writers} \subseteq Nat <=> readers \in Nat /\ writers \in Nat
  OBVIOUS
<1>3. read_waiters \union off \union pending \subseteq Procs
      <=> read_waiters \subseteq Procs /\ off \subseteq Procs /\ pending \subseteq Procs
  OBVIOUS
<1> QED
  BY <1>1, <1>2, <1>3, Zenon
  DEF PTypeOK, RingTypes, TableTypes, ThreadTypes, CountTypes, RestTypes, Last, Places, States

\* A step of a thread changes the place of that thread only.
LEMMA Moved ==
  ASSUME pc \in [Procs -> Places], NEW p \in Procs, NEW from, NEW to, Step(p, from, to)
  PROVE  /\ pc[p] = from /\ p \notin off
         /\ pc' = [pc EXCEPT ![p] = to]
         /\ \A q \in Procs : pc'[q] = IF q = p THEN to ELSE pc[q]
         /\ to \in Places => pc' \in [Procs -> Places]
BY DEF Step

\* wake_read_waiters leaves the threads well typed.
LEMMA WakeTypes ==
  ASSUME ThreadTypes, WakeReadWaiters
  PROVE  ThreadTypes'
BY DEF ThreadTypes, WakeReadWaiters, States

\* The release of an end leaves the threads well typed.
LEMMA ReleaseTypes ==
  ASSUME ThreadTypes, NEW end, Release(end)
  PROVE  ThreadTypes'
<1>1. CASE UNCHANGED <<read_waiters, threadVars>>
  BY <1>1 DEF ThreadTypes, threadVars
<1>2. CASE WakeReadWaiters
  BY <1>2, WakeTypes
<1> QED BY <1>1, <1>2 DEF Release, CloseRead, CloseWrite

\* What write takes is a non-empty prefix that fits.
LEMMA AcceptedFacts ==
  ASSUME RingTypes, len < Capacity,
         NEW n \in 1..Capacity, NEW data \in [1..n -> Bytes]
  PROVE  \E m \in 1..(Capacity - len) :
           /\ m <= n
           /\ Accepted(data) = [i \in 1..m |-> data[i]]
           /\ Accepted(data) \in [1..m -> Bytes] /\ Len(Accepted(data)) = m
<1> USE PipeAssumption
<1> DEFINE m == IF n <= Capacity - len THEN n ELSE Capacity - len
<1>1. Len(data) = n
  OBVIOUS
<1>2. Min({Len(data), Capacity - len}) = m
  BY <1>1, MinTwo DEF RingTypes
<1>3. m \in 1..(Capacity - len) /\ m <= n
  BY DEF RingTypes
<1>4. Accepted(data) = SubSeq(data, 1, m)
  BY <1>2 DEF Accepted
<1> HIDE DEF m
<1>5. SubSeq(data, 1, m) = [i \in 1..m |-> data[i]]
  BY <1>3 DEF RingTypes
<1>6. [i \in 1..m |-> data[i]] \in [1..m -> Bytes]
  BY <1>3 DEF RingTypes
<1>7. Len([i \in 1..m |-> data[i]]) = m
  BY <1>3 DEF RingTypes
<1> QED BY <1>3, <1>4, <1>5, <1>6, <1>7

\* A write of a whole prefix moves the write position behind it.
LEMMA StoredTypes ==
  ASSUME RingTypes, Ring, NEW m \in 1..(Capacity - len), NEW acc \in [1..m -> Bytes],
         buffer' = Stored(acc), write_pos' = (write_pos + m) % Capacity,
         len' = len + m, read_pos' = read_pos
  PROVE  RingTypes' /\ Ring'
<1> USE PipeAssumption
<1>1. len' \in 0..Capacity /\ read_pos' \in 0..(Capacity - 1)
  BY DEF RingTypes
<1>2. write_pos' \in 0..(Capacity - 1)
  BY DEF RingTypes
<1>3. \A i \in 0..(Capacity - 1) :
        (i - write_pos) % Capacity = IF i < write_pos THEN i - write_pos + Capacity ELSE i - write_pos
  BY DEF RingTypes
<1>4. Len(acc) = m
  BY DEF RingTypes
<1>5. buffer' \in [0..(Capacity - 1) -> Bytes]
  BY <1>3, <1>4 DEF Stored, RingTypes
<1>6. write_pos' = (read_pos' + len') % Capacity
  <2>1. write_pos = IF read_pos + len < Capacity THEN read_pos + len ELSE read_pos + len - Capacity
    BY DEF RingTypes, Ring
  <2>2. write_pos' = IF write_pos + m < Capacity THEN write_pos + m ELSE write_pos + m - Capacity
    BY DEF RingTypes
  <2>3. (read_pos' + len') % Capacity
        = IF read_pos + len + m < Capacity THEN read_pos + len + m ELSE read_pos + len + m - Capacity
    BY DEF RingTypes
  <2> QED BY <2>1, <2>2, <2>3 DEF RingTypes
<1> QED BY <1>1, <1>2, <1>5, <1>6 DEF RingTypes, Ring

\* What a read of n bytes takes.
LEMMA LoadedFacts ==
  ASSUME RingTypes, NEW n \in 0..len
  PROVE  /\ Loaded(n) \in [1..n -> Bytes] /\ Len(Loaded(n)) = n
         /\ \A k \in 1..n : Loaded(n)[k] =
              buffer[IF read_pos + k - 1 < Capacity THEN read_pos + k - 1
                                                    ELSE read_pos + k - 1 - Capacity]
<1> USE PipeAssumption
<1>1. \A k \in 1..n : (read_pos + k - 1) % Capacity =
        IF read_pos + k - 1 < Capacity THEN read_pos + k - 1 ELSE read_pos + k - 1 - Capacity
  BY DEF RingTypes
<1>2. Loaded(n) \in [1..n -> Bytes]
  BY <1>1 DEF Loaded, RingTypes
<1>3. Len(Loaded(n)) = n
  BY <1>2 DEF RingTypes
<1>4. \A k \in 1..n : Loaded(n)[k] = buffer[(read_pos + k - 1) % Capacity]
  BY DEF Loaded
<1> QED BY <1>1, <1>2, <1>3, <1>4

\* A read moves the read position behind what it takes.
LEMMA ReadTypes ==
  ASSUME RingTypes, Ring, NEW m \in 1..len,
         read_pos' = (read_pos + m) % Capacity, len' = len - m,
         UNCHANGED <<buffer, write_pos>>
  PROVE  RingTypes' /\ Ring'
<1> USE PipeAssumption
<1>1. len' \in 0..Capacity /\ write_pos' \in 0..(Capacity - 1)
      /\ buffer' \in [0..(Capacity - 1) -> Bytes]
  BY DEF RingTypes
<1>2. read_pos' = IF read_pos + m < Capacity THEN read_pos + m ELSE read_pos + m - Capacity
  BY DEF RingTypes
<1>3. read_pos' \in 0..(Capacity - 1)
  BY <1>2 DEF RingTypes
<1>4. write_pos = IF read_pos + len < Capacity THEN read_pos + len ELSE read_pos + len - Capacity
  BY DEF RingTypes, Ring
<1>5. (read_pos' + len') % Capacity
      = IF read_pos' + len' < Capacity THEN read_pos' + len' ELSE read_pos' + len' - Capacity
  BY <1>1, <1>3 DEF RingTypes
<1>6. write_pos' = (read_pos' + len') % Capacity
  BY <1>2, <1>4, <1>5 DEF RingTypes
<1> QED BY <1>1, <1>3, <1>6 DEF RingTypes, Ring

-----------------------------------------------------------------------------
(***************************************************************************)
(* Tables and counts                                                        *)
(***************************************************************************)

\* Steps that leave the tables alone and keep a process out of the places where
\* its table is special.
LEMMA TablesFrame ==
  ASSUME Tables, TableTypes, UNCHANGED tableVars,
         \A q \in Procs : pc'[q] = pc[q] \/ (pc[q] \notin Away /\ pc'[q] \notin Away)
  PROVE  Tables'
<1>1. \A q \in Procs : extracted'[q] # {} => pc'[q] = "ended"
  BY DEF Tables, tableVars, Away
<1>2. \A q \in Procs : pc'[q] \in {"unborn", "ended"} => \A s \in Slots : table'[q][s] = "free"
  BY DEF Tables, tableVars, Away
<1>3. \A d \in manager' : /\ pc'[d.proc] = "dup2"
                         /\ table'[d.proc][d.slot] = "free"
                         /\ \E s \in Slots : table'[d.proc][s] = d.end
  BY DEF Tables, tableVars, TableTypes, Away
<1> QED BY <1>1, <1>2, <1>3 DEF Tables

\* Counts survives a step that touches no count and no descriptor.
LEMMA CountsFrame ==
  ASSUME Counts, UNCHANGED <<countVars, table, extracted>>
  PROVE  Counts'
BY DEF Counts, CountsAreDescriptors, Descriptors, countVars

\* The counts are numbers.
LEMMA CountsType == Counts => CountTypes
BY FS_CardinalityType DEF Counts, CountsAreDescriptors, CountTypes

\* A held end has been counted.
LEMMA HeldIsCounted ==
  ASSUME Counts, NEW d
  PROVE  /\ d \in Descriptors("r") => readers >= 1
         /\ d \in Descriptors("w") => writers >= 1
<1>1. ASSUME NEW D, IsFiniteSet(D), d \in D PROVE Cardinality(D) >= 1
  <2>1. Cardinality(D) \in Nat /\ Cardinality(D) # 0
    BY <1>1, FS_CardinalityType, FS_EmptySet
  <2> QED BY <2>1
<1> QED BY <1>1 DEF Counts, CountsAreDescriptors

\* A release takes one descriptor away.
LEMMA Dropped ==
  ASSUME Counts, NEW end \in {"r", "w"}, NEW d, d \in Descriptors(end),
         \A e \in {"r", "w"} : Descriptors(e)' = IF e = end THEN Descriptors(e) \ {d}
                                                           ELSE Descriptors(e),
         Release(end)
  PROVE  Counts'
<1>1. /\ IsFiniteSet(Descriptors(end) \ {d})
      /\ Cardinality(Descriptors(end) \ {d}) = Cardinality(Descriptors(end)) - 1
  BY FS_RemoveElement DEF Counts
<1>2. CASE end = "r"
  <2>1. readers' = readers - 1 /\ writers' = writers
    BY <1>2 DEF Release, CloseRead
  <2> QED BY <1>1, <1>2, <2>1 DEF Counts, CountsAreDescriptors
<1>3. CASE end = "w"
  <2>1. writers' = writers - 1 /\ readers' = readers
    BY <1>3 DEF Release, CloseWrite
  <2> QED BY <1>1, <1>3, <2>1 DEF Counts, CountsAreDescriptors
<1> QED BY <1>2, <1>3

\* A duplicate adds one descriptor.
LEMMA Added ==
  ASSUME Counts, NEW end \in {"r", "w"}, NEW d, d \notin Descriptors(end),
         \A e \in {"r", "w"} : Descriptors(e)' = IF e = end THEN Descriptors(e) \union {d}
                                                           ELSE Descriptors(e),
         AddEnds(IF end = "r" THEN 1 ELSE 0, IF end = "w" THEN 1 ELSE 0)
  PROVE  Counts'
<1>1. /\ IsFiniteSet(Descriptors(end) \union {d})
      /\ Cardinality(Descriptors(end) \union {d}) = Cardinality(Descriptors(end)) + 1
  BY FS_AddElement DEF Counts
<1>2. readers \in Nat /\ writers \in Nat
  BY CountsType DEF CountTypes
<1>3. CASE end = "r"
  <2>1. readers' = readers + 1 /\ writers' = writers
    BY <1>2, <1>3 DEF AddEnds
  <2> QED BY <1>1, <1>3, <2>1 DEF Counts, CountsAreDescriptors
<1>4. CASE end = "w"
  <2>1. writers' = writers + 1 /\ readers' = readers
    BY <1>2, <1>4 DEF AddEnds
  <2> QED BY <1>1, <1>4, <2>1 DEF Counts, CountsAreDescriptors
<1> QED BY <1>3, <1>4

\* The descriptors after a change of one slot of a process that has not ended.
LEMMA SlotChanged ==
  ASSUME TableTypes, NEW p \in Procs, extracted[p] = {}, NEW s \in Slots,
         NEW v \in {"free", "r", "w"},
         table' = [table EXCEPT ![p][s] = v], extracted' = extracted,
         NEW end \in {"r", "w"}
  PROVE  /\ <<p, s>> \in Descriptors(end) <=> table[p][s] = end
         /\ Descriptors(end)' = IF v = end THEN Descriptors(end) \union {<<p, s>>}
                                           ELSE Descriptors(end) \ {<<p, s>>}
<1>1. <<p, s>> \in Descriptors(end) <=> table[p][s] = end
  BY DEF Descriptors
<1>2. \A q \in Procs, i \in Slots : table'[q][i] = IF q = p /\ i = s THEN v ELSE table[q][i]
  BY DEF TableTypes
<1>3. \A q \in Procs, i \in Slots :
        <<q, i>> \in Descriptors(end)' <=> IF q = p /\ i = s THEN v = end ELSE <<q, i>> \in Descriptors(end)
  BY <1>2 DEF Descriptors
<1>4. \A d \in Procs \X Slots :
        d \in Descriptors(end)' <=> IF d = <<p, s>> THEN v = end ELSE d \in Descriptors(end)
  BY <1>3
<1>5. Descriptors(end) \subseteq Procs \X Slots /\ Descriptors(end)' \subseteq Procs \X Slots
  BY DEF Descriptors
<1> QED BY <1>1, <1>4, <1>5

\* Writing one slot of one table.
LEMMA SlotTypes ==
  ASSUME TableTypes, NEW p \in Procs, NEW s \in Slots, NEW v \in {"free", "r", "w"},
         table' = [table EXCEPT ![p][s] = v]
  PROVE  /\ table' \in [Procs -> [Slots -> {"free", "r", "w"}]]
         /\ \A q \in Procs, i \in Slots : table'[q][i] = IF q = p /\ i = s THEN v ELSE table[q][i]
BY DEF TableTypes

\* close frees the slot and releases its end.
LEMMA CloseStep ==
  ASSUME PInv, NEW p \in Procs, NEW s \in Slots, Close(p, s)
  PROVE  TableTypes' /\ Tables' /\ Counts'
<1> DEFINE end == table[p][s]
<1>1. TableTypes /\ pc \in [Procs -> Places] /\ Tables /\ Counts
  BY TypeParts DEF PInv, RestTypes, CountTypes
<1>2. end \in {"r", "w"}
  BY <1>1 DEF Close, Open, TableTypes
<1>3. pc[p] = "user" /\ pc' = pc
  BY <1>1, Moved DEF Close
<1>4. extracted[p] = {}
  BY <1>1, <1>3 DEF Tables
<1>5. /\ table' = [table EXCEPT ![p][s] = "free"] /\ extracted' = extracted
      /\ manager' = manager /\ manager = {} /\ Release(end)
  BY DEF Close
<1> HIDE DEF end
<1>6. TableTypes'
  BY <1>1, <1>5, SlotTypes DEF TableTypes
<1>7. Tables'
  BY <1>1, <1>3, <1>5, SlotTypes DEF Tables
<1>8. \A e \in {"r", "w"} :
        /\ <<p, s>> \in Descriptors(e) <=> table[p][s] = e
        /\ Descriptors(e)' = Descriptors(e) \ {<<p, s>>}
  BY <1>1, <1>4, <1>5, SlotChanged
<1>9. Counts'
  <2>1. <<p, s>> \in Descriptors(end)
    BY <1>2, <1>8 DEF end
  <2>2. \A e \in {"r", "w"} : e # end => <<p, s>> \notin Descriptors(e)
    BY <1>8 DEF end
  <2> QED BY <1>1, <1>2, <1>5, <1>8, <2>1, <2>2, Dropped
<1> QED BY <1>6, <1>7, <1>9

\* dup counts the end it copies.
LEMMA DupStep ==
  ASSUME PInv, NEW p \in Procs, NEW s \in Slots, NEW t \in Slots, Dup(p, s, t)
  PROVE  TableTypes' /\ Tables' /\ Counts'
<1> DEFINE end == table[p][s]
           slots == {i \in Free(p) : i >= t}
           new == Min(slots)
<1>1. TableTypes /\ pc \in [Procs -> Places] /\ Tables /\ Counts
  BY TypeParts DEF PInv, RestTypes, CountTypes
<1>2. end \in {"r", "w"}
  BY <1>1 DEF Dup, Open, TableTypes
<1>3. pc[p] = "user" /\ pc' = pc
  BY <1>1, Moved DEF Dup
<1>4. extracted[p] = {}
  BY <1>1, <1>3 DEF Tables
<1>5. /\ table' = [table EXCEPT ![p][new] = end] /\ extracted' = extracted
      /\ manager' = manager /\ manager = {}
      /\ AddEnds(IF end = "r" THEN 1 ELSE 0, IF end = "w" THEN 1 ELSE 0)
  BY DEF Dup
<1>6. new \in Slots /\ table[p][new] = "free"
  <2>1. slots \subseteq Nat /\ slots # {}
    BY DEF Dup, Free, Slots
  <2>2. new \in slots
    BY <2>1, MinNat
  <2> QED BY <2>2 DEF Free, Open
<1> HIDE DEF end, new
<1>7. TableTypes'
  BY <1>1, <1>2, <1>5, <1>6, SlotTypes DEF TableTypes
<1>8. Tables'
  BY <1>1, <1>2, <1>3, <1>5, <1>6, SlotTypes DEF Tables
<1>9. \A e \in {"r", "w"} :
        /\ <<p, new>> \notin Descriptors(e)
        /\ Descriptors(e)' = IF end = e THEN Descriptors(e) \union {<<p, new>>}
                                        ELSE Descriptors(e) \ {<<p, new>>}
  BY <1>1, <1>2, <1>4, <1>5, <1>6, SlotChanged
<1>10. \A e \in {"r", "w"} : Descriptors(e)' = IF e = end THEN Descriptors(e) \union {<<p, new>>}
                                                         ELSE Descriptors(e)
  BY <1>9
<1>11. Counts'
  BY <1>1, <1>2, <1>5, <1>9, <1>10, Added
<1> QED BY <1>7, <1>8, <1>11

\* dup2 closes its target; the end to duplicate is held by the manager's lock.
LEMMA Dup2CloseStep ==
  ASSUME PInv, NEW p \in Procs, NEW s \in Slots, NEW t \in Slots, Dup2Close(p, s, t)
  PROVE  TableTypes' /\ Tables' /\ Counts'
<1> DEFINE end == table[p][t]
           d == [proc |-> p, end |-> table[p][s], slot |-> t]
<1>1. TableTypes /\ pc \in [Procs -> Places] /\ Tables /\ Counts
  BY TypeParts DEF PInv, RestTypes, CountTypes
<1>2. end \in {"r", "w"} /\ table[p][s] \in {"r", "w"} /\ s # t
  BY <1>1 DEF Dup2Close, Dup2Differs, Open, TableTypes
<1>3. pc[p] = "user" /\ \A q \in Procs : pc'[q] = IF q = p THEN "dup2" ELSE pc[q]
  BY <1>1, Moved DEF Dup2Close
<1>4. extracted[p] = {}
  BY <1>1, <1>3 DEF Tables
<1>5. table' = [table EXCEPT ![p][t] = "free"] /\ extracted' = extracted
  BY DEF Dup2Close
<1>a. manager' = {d}
  BY DEF Dup2Close
<1>b. Release(end)
  BY DEF Dup2Close
<1>6. d.proc = p /\ d.slot = t /\ d.end = table[p][s]
      /\ d \in [proc : Procs, end : {"r", "w"}, slot : Slots]
  BY <1>2
<1> HIDE DEF end, d
<1>7. /\ table' \in [Procs -> [Slots -> {"free", "r", "w"}]]
      /\ \A q \in Procs, i \in Slots : table'[q][i] = IF q = p /\ i = t THEN "free" ELSE table[q][i]
  BY <1>1, <1>5 DEF TableTypes
<1>8. TableTypes'
  BY <1>1, <1>5, <1>a, <1>6, <1>7 DEF TableTypes
<1>9. Tables'
  <2>1. \A q \in Procs : extracted'[q] # {} => pc'[q] = "ended"
    BY <1>1, <1>3, <1>5 DEF Tables
  <2>2. \A q \in Procs : pc'[q] \in {"unborn", "ended"} => \A i \in Slots : table'[q][i] = "free"
    BY <1>1, <1>3, <1>7 DEF Tables
  <2>3. pc'[d.proc] = "dup2" /\ table'[d.proc][d.slot] = "free" /\ table'[d.proc][s] = d.end
    BY <1>2, <1>3, <1>6, <1>7
  <2> QED BY <1>a, <2>1, <2>2, <2>3 DEF Tables
<1>10. \A e \in {"r", "w"} :
        /\ <<p, t>> \in Descriptors(e) <=> table[p][t] = e
        /\ Descriptors(e)' = Descriptors(e) \ {<<p, t>>}
  BY <1>1, <1>4, <1>5, SlotChanged
<1>11. Counts'
  <2>1. <<p, t>> \in Descriptors(end)
    BY <1>2, <1>10 DEF end
  <2>2. \A e \in {"r", "w"} : e # end => <<p, t>> \notin Descriptors(e)
    BY <1>10 DEF end
  <2>3. \A e \in {"r", "w"} : Descriptors(e)' = IF e = end THEN Descriptors(e) \ {<<p, t>>}
                                                          ELSE Descriptors(e)
    BY <1>10, <2>2
  <2> QED BY <1>1, <1>2, <1>b, <2>1, <2>3, Dropped
<1> QED BY <1>8, <1>9, <1>11

\* dup2 counts and stores the duplicate it took before.
LEMMA Dup2StoreStep ==
  ASSUME PInv, NEW p \in Procs, Dup2Store(p)
  PROVE  TableTypes' /\ Tables' /\ Counts'
<1>1. TableTypes /\ pc \in [Procs -> Places] /\ Tables /\ Counts
  BY TypeParts DEF PInv, RestTypes, CountTypes
<1>2. PICK d \in manager :
        /\ d.proc = p /\ Step(p, "dup2", "user") /\ manager' = {}
        /\ table' = [table EXCEPT ![p][d.slot] = d.end]
        /\ AddEnds(IF d.end = "r" THEN 1 ELSE 0, IF d.end = "w" THEN 1 ELSE 0)
        /\ extracted' = extracted
  BY DEF Dup2Store
<1>3. pc[p] = "dup2" /\ \A q \in Procs : pc'[q] = IF q = p THEN "user" ELSE pc[q]
  BY <1>1, <1>2, Moved
<1>4. extracted[p] = {} /\ table[p][d.slot] = "free"
  BY <1>1, <1>2, <1>3 DEF Tables
<1>a. /\ table' = [table EXCEPT ![p][d.slot] = d.end] /\ extracted' = extracted
  BY <1>2
<1>5. d.end \in {"r", "w"} /\ d.slot \in Slots
  BY <1>1 DEF TableTypes
<1> DEFINE end == d.end
           new == d.slot
<1> HIDE DEF end, new
<1>6. /\ table' \in [Procs -> [Slots -> {"free", "r", "w"}]]
      /\ \A q \in Procs, i \in Slots : table'[q][i] = IF q = p /\ i = new THEN end ELSE table[q][i]
  BY <1>1, <1>a, <1>5 DEF TableTypes, end, new
<1>7. TableTypes'
  BY <1>1, <1>2, <1>6 DEF TableTypes
<1>8. Tables'
  BY <1>1, <1>2, <1>3, <1>6 DEF Tables
<1>9. \A e \in {"r", "w"} :
        /\ <<p, new>> \notin Descriptors(e)
        /\ Descriptors(e)' = IF end = e THEN Descriptors(e) \union {<<p, new>>}
                                        ELSE Descriptors(e) \ {<<p, new>>}
  BY <1>1, <1>2, <1>4, <1>5, SlotChanged DEF end, new
<1>10. \A e \in {"r", "w"} : Descriptors(e)' = IF e = end THEN Descriptors(e) \union {<<p, new>>}
                                                         ELSE Descriptors(e)
  BY <1>9
<1>11. Counts'
  BY <1>1, <1>2, <1>5, <1>9, <1>10, Added DEF end
<1> QED BY <1>7, <1>8, <1>11

\* What fork adds for one end: a descriptor of the child for every one of the parent.
LEMMA ForkedEnd ==
  ASSUME TableTypes, NEW p \in Procs, NEW q \in Procs, p # q, NEW end \in {"r", "w"},
         extracted[q] = {}, \A s \in Slots : table[q][s] = "free",
         table' = [table EXCEPT ![q] = table[p]], extracted' = extracted,
         IsFiniteSet(Descriptors(end))
  PROVE  /\ IsFiniteSet(Descriptors(end)')
         /\ Cardinality(Descriptors(end)') = Cardinality(Descriptors(end)) + Ends(p, end)
         /\ Ends(p, end) \in Nat
<1> DEFINE S == {s \in Slots : table[p][s] = end}
           N == {q} \X S
           f == [s \in S |-> <<q, s>>]
<1>1. IsFiniteSet(S)
  <2>1. IsFiniteSet(Slots)
    <3>1. 0 \in Int /\ MaxFds - 1 \in Int
      BY PipeAssumption
    <3> QED BY <3>1, FS_Interval DEF Slots
  <2> QED BY <2>1, FS_Subset
<1>2. IsFiniteSet(N) /\ Cardinality(N) = Cardinality(S)
  <2>1. f \in Bijection(S, N)
    <3>1. f \in Injection(S, N)
      BY DEF Injection, IsInjective
    <3>2. f \in Surjection(S, N)
      BY DEF Surjection
    <3> QED BY <3>1, <3>2 DEF Bijection
  <2> QED BY <1>1, <2>1, FS_Bijection DEF ExistsBijection
<1>3. \A a \in Procs, i \in Slots : table'[a][i] = IF a = q THEN table[p][i] ELSE table[a][i]
  BY DEF TableTypes
<1>4. Descriptors(end)' = Descriptors(end) \union N
  <2>1. \A a \in Procs, i \in Slots :
          <<a, i>> \in Descriptors(end)' <=> <<a, i>> \in Descriptors(end) \/ <<a, i>> \in N
    BY <1>3 DEF Descriptors
  <2>2. Descriptors(end) \subseteq Procs \X Slots /\ Descriptors(end)' \subseteq Procs \X Slots
        /\ N \subseteq Procs \X Slots
    BY DEF Descriptors
  <2> HIDE DEF N
  <2> QED BY <2>1, <2>2
<1>5. Descriptors(end) \cap N = {}
  BY DEF Descriptors
<1>6. Cardinality(S) = Ends(p, end)
  BY DEF Ends
<1>7. Cardinality(Descriptors(end) \cap N) = 0
  BY <1>5, FS_EmptySet
<1> HIDE DEF N, S
<1>8. /\ IsFiniteSet(Descriptors(end) \union N)
      /\ Cardinality(Descriptors(end) \union N) =
           Cardinality(Descriptors(end)) + Cardinality(N) - Cardinality(Descriptors(end) \cap N)
  BY <1>2, FS_Union
<1>9. Cardinality(S) \in Nat /\ Cardinality(Descriptors(end)) \in Nat
  BY <1>1, FS_CardinalityType
<1> QED BY <1>2, <1>4, <1>6, <1>7, <1>8, <1>9

\* fork counts every pipe end of the table it copies.
LEMMA ForkStep ==
  ASSUME PInv, NEW p \in Procs, NEW q \in Procs, Fork(p, q)
  PROVE  TableTypes' /\ Tables' /\ Counts'
<1>1. TableTypes /\ pc \in [Procs -> Places] /\ Tables /\ Counts
  BY TypeParts DEF PInv, RestTypes, CountTypes
<1>2. /\ pc[q] = "unborn" /\ pc[p] = "user" /\ p # q
      /\ \A a \in Procs : pc'[a] = IF a = q THEN "user" ELSE pc[a]
  BY <1>1 DEF Fork
<1>3. extracted[q] = {} /\ \A s \in Slots : table[q][s] = "free"
  BY <1>1, <1>2 DEF Tables
<1>4. /\ table' = [table EXCEPT ![q] = table[p]] /\ extracted' = extracted
      /\ manager' = manager /\ manager = {} /\ AddEnds(Ends(p, "r"), Ends(p, "w"))
  BY DEF Fork
<1>5. \A a \in Procs : table'[a] = IF a = q THEN table[p] ELSE table[a]
  BY <1>1, <1>4 DEF TableTypes
<1>6. TableTypes'
  BY <1>1, <1>4 DEF TableTypes
<1>7. Tables'
  BY <1>1, <1>2, <1>4, <1>5 DEF Tables
<1>8. \A end \in {"r", "w"} :
        /\ IsFiniteSet(Descriptors(end)')
        /\ Cardinality(Descriptors(end)') = Cardinality(Descriptors(end)) + Ends(p, end)
  BY <1>1, <1>2, <1>3, <1>4, ForkedEnd DEF Counts
<1>9. Counts'
  BY <1>1, <1>4, <1>8 DEF Counts, CountsAreDescriptors, AddEnds
<1> QED BY <1>6, <1>7, <1>9

\* exit takes the ends out of the table.
LEMMA ExitStep ==
  ASSUME PInv, NEW p \in Procs, Exit(p)
  PROVE  TableTypes' /\ Tables' /\ Counts'
<1>1. TableTypes /\ pc \in [Procs -> Places] /\ Tables /\ Counts
  BY TypeParts DEF PInv, RestTypes, CountTypes
<1> DEFINE out == {<<s, table[p][s]>> : s \in Open(p)}
<1>2. /\ table' = [table EXCEPT ![p] = [s \in Slots |-> "free"]]
      /\ extracted' = [extracted EXCEPT ![p] = out]
      /\ manager' = manager /\ manager = {} /\ pc[p] \notin {"unborn", "ended"}
      /\ \A a \in Procs : pc'[a] = IF a = p THEN "ended" ELSE pc[a]
  BY <1>1 DEF Exit
<1>3. extracted[p] = {}
  BY <1>1, <1>2 DEF Tables
<1>4. out \subseteq Slots \X {"r", "w"}
  BY <1>1 DEF Open, TableTypes
<1>5. /\ \A s \in Slots : table'[p][s] = "free"
      /\ \A a \in Procs : a # p => table'[a] = table[a] /\ extracted'[a] = extracted[a]
      /\ extracted'[p] = out
  BY <1>1, <1>2 DEF TableTypes
<1>6. \A end \in {"r", "w"}, s \in Slots : <<s, end>> \in out <=> table[p][s] = end
  BY <1>1 DEF Open, TableTypes
<1> HIDE DEF out
<1>7. TableTypes'
  BY <1>1, <1>2, <1>4 DEF TableTypes
<1>8. Tables'
  BY <1>1, <1>2, <1>5 DEF Tables
<1>9. ASSUME NEW end \in {"r", "w"} PROVE Descriptors(end)' = Descriptors(end)
  <2>1. \A a \in Procs, i \in Slots : <<a, i>> \in Descriptors(end)' <=> <<a, i>> \in Descriptors(end)
    BY <1>3, <1>5, <1>6 DEF Descriptors
  <2>2. Descriptors(end) \subseteq Procs \X Slots /\ Descriptors(end)' \subseteq Procs \X Slots
    BY DEF Descriptors
  <2> QED BY <2>1, <2>2
<1>10. Counts'
  BY <1>1, <1>9 DEF Counts, CountsAreDescriptors, Exit, countVars
<1> QED BY <1>7, <1>8, <1>10

\* The ends an exit took out are closed one by one.
LEMMA CloseExtractedStep ==
  ASSUME PInv, NEW p \in Procs, CloseExtracted(p)
  PROVE  /\ TableTypes' /\ Tables' /\ Counts'
         /\ \E end \in {"r", "w"} : Release(end) /\ \E d : d \in Descriptors(end)
<1>1. TableTypes /\ pc \in [Procs -> Places] /\ Tables /\ Counts
  BY TypeParts DEF PInv, RestTypes, CountTypes
<1> DEFINE entry == CHOOSE e \in extracted[p] : \A f \in extracted[p] : e[1] <= f[1]
<1>2. entry \in extracted[p]
  <2>1. extracted[p] # {} /\ extracted[p] \subseteq Slots \X {"r", "w"}
    BY <1>1 DEF CloseExtracted, TableTypes
  <2>2. {e[1] : e \in extracted[p]} \subseteq Nat /\ {e[1] : e \in extracted[p]} # {}
    BY <2>1 DEF Slots
  <2>3. \E x \in {e[1] : e \in extracted[p]} : \A y \in {e[1] : e \in extracted[p]} : x <= y
    BY <2>2, Least
  <2>4. \E e \in extracted[p] : \A f \in extracted[p] : e[1] <= f[1]
    BY <2>3
  <2> QED BY <2>4
<1>3. /\ extracted' = [extracted EXCEPT ![p] = @ \ {entry}] /\ Release(entry[2])
      /\ UNCHANGED <<table, manager, pc>>
  BY DEF CloseExtracted
<1> HIDE DEF entry
<1>4. PICK s \in Slots, end \in {"r", "w"} : entry = <<s, end>>
  BY <1>1, <1>2 DEF TableTypes
<1>5. \A a \in Procs : extracted'[a] = IF a = p THEN extracted[p] \ {<<s, end>>} ELSE extracted[a]
  BY <1>1, <1>3, <1>4 DEF TableTypes
<1>6. TableTypes'
  BY <1>1, <1>3 DEF TableTypes
<1>7. Tables'
  BY <1>1, <1>3, <1>5 DEF Tables
<1>8. \A i \in Slots : table[p][i] = "free"
  BY <1>1, <1>2 DEF Tables
<1>9. <<p, s>> \in Descriptors(end)
  BY <1>2, <1>4 DEF Descriptors
<1>10. ASSUME NEW e \in {"r", "w"}
       PROVE  Descriptors(e)' = IF e = end THEN Descriptors(e) \ {<<p, s>>} ELSE Descriptors(e)
  <2>1. \A a \in Procs, i \in Slots :
          <<a, i>> \in Descriptors(e)' <=>
            <<a, i>> \in Descriptors(e) /\ ~(e = end /\ <<a, i>> = <<p, s>>)
    BY <1>3, <1>5, <1>8 DEF Descriptors
  <2>2. Descriptors(e) \subseteq Procs \X Slots /\ Descriptors(e)' \subseteq Procs \X Slots
    BY DEF Descriptors
  <2> QED BY <2>1, <2>2
<1>11. Release(end)
  BY <1>3, <1>4
<1>12. Counts'
  BY <1>1, <1>9, <1>10, <1>11, Dropped
<1> QED BY <1>6, <1>7, <1>9, <1>11, <1>12

-----------------------------------------------------------------------------
(***************************************************************************)
(* Reads and writes                                                         *)
(***************************************************************************)
Calls == Places \ Away

\* A thread in a read or a write goes from one place of the call to another.
LEMMA InCall ==
  ASSUME pc \in [Procs -> Places], NEW p \in Procs,
         (\E from \in Calls, to \in Calls : Step(p, from, to)) \/ pc' = pc
  PROVE  /\ pc' \in [Procs -> Places]
         /\ \A q \in Procs : pc'[q] = pc[q] \/ (pc[q] \notin Away /\ pc'[q] \notin Away)
<1>1. CASE pc' = pc
  BY <1>1
<1>2. CASE \E from \in Calls, to \in Calls : Step(p, from, to)
  <2>1. PICK from \in Calls, to \in Calls : Step(p, from, to)
    BY <1>2
  <2> QED BY <2>1, Moved DEF Calls
<1> QED BY <1>1, <1>2

\* A write that finds room.
LEMMA WriteStep ==
  ASSUME PInv, NEW p \in Procs, NEW n \in 1..Capacity, NEW data \in [1..n -> Bytes],
         Write(p, data)
  PROVE  PInv'
<1>1. /\ RingTypes /\ TableTypes /\ ThreadTypes /\ pc \in [Procs -> Places]
      /\ pending \subseteq Procs /\ last \in Last /\ Ring /\ Tables /\ Counts
  BY TypeParts DEF PInv, RestTypes, CountTypes
<1>2. pc' \in [Procs -> Places] /\ Tables'
  <2>1. \E from \in Calls, to \in Calls : Step(p, from, to)
    BY DEF Write, Calls, Places, Away
  <2> QED BY <1>1, <2>1, InCall, TablesFrame DEF Write
<1>3. RingTypes' /\ Ring'
  <2>1. PICK m \in 1..(Capacity - len) :
          Accepted(data) \in [1..m -> Bytes] /\ Len(Accepted(data)) = m
    BY <1>1, AcceptedFacts DEF Write
  <2> QED BY <1>1, <2>1, StoredTypes DEF Write
<1>4. ThreadTypes'
  BY <1>1, WakeTypes DEF Write
<1>5. Counts'
  BY <1>1, CountsFrame DEF Write, tableVars
<1>6. TableTypes' /\ pending' \subseteq Procs /\ last' \in Last
  BY <1>1 DEF Write, tableVars, TableTypes, Last
<1>7. CountTypes'
  BY <1>5, CountsType, PTL
<1>r. RestTypes'
  BY <1>2, <1>6 DEF RestTypes
<1>8. PTypeOK'
  BY <1>2, <1>3, <1>4, <1>6, <1>7, <1>r, TypeParts, PTL
<1> QED BY <1>2, <1>3, <1>5, <1>8 DEF PInv

\* A read that finds data.
LEMMA ReadDataStep ==
  ASSUME PInv, NEW p \in Procs, NEW n \in 1..Capacity, ReadData(p, n)
  PROVE  PInv'
<1>1. /\ RingTypes /\ TableTypes /\ ThreadTypes /\ pc \in [Procs -> Places]
      /\ pending \subseteq Procs /\ last \in Last /\ Ring /\ Tables /\ Counts
  BY TypeParts DEF PInv, RestTypes, CountTypes
<1>2. pc' \in [Procs -> Places] /\ Tables'
  <2>1. \E from \in Calls, to \in Calls : Step(p, from, to)
    BY DEF ReadData, Calls, Places, Away
  <2> QED BY <1>1, <2>1, InCall, TablesFrame DEF ReadData
<1> DEFINE m == Min({n, len})
<1>3. m \in 1..len
  <2>1. m = IF n <= len THEN n ELSE len
    BY <1>1, MinTwo DEF RingTypes
  <2> QED BY <1>1, <2>1 DEF RingTypes, ReadData
<1>4. /\ last' = Loaded(m) /\ read_pos' = (read_pos + m) % Capacity /\ len' = len - m
      /\ UNCHANGED <<buffer, write_pos>>
  BY DEF ReadData
<1> HIDE DEF m
<1>5. RingTypes' /\ Ring'
  BY <1>1, <1>3, <1>4, ReadTypes
<1>6. last' \in Last
  <2>0. len \in 0..Capacity /\ Capacity \in Nat
    BY <1>1, PipeAssumption DEF RingTypes
  <2>1. m \in 0..len /\ m \in 0..Capacity
    BY <1>3, <2>0
  <2>2. last' \in [1..m -> Bytes]
    BY <1>1, <1>4, <2>1, LoadedFacts
  <2> QED BY <2>1, <2>2 DEF Last
<1>7. Counts'
  BY <1>1, CountsFrame DEF ReadData, tableVars
<1>8. TableTypes' /\ ThreadTypes' /\ pending' \subseteq Procs
  BY <1>1 DEF ReadData, tableVars, threadVars, TableTypes, ThreadTypes
<1>9. CountTypes'
  BY <1>7, CountsType, PTL
<1>r. RestTypes'
  BY <1>2, <1>6, <1>8 DEF RestTypes
<1>10. PTypeOK'
  BY <1>2, <1>5, <1>6, <1>8, <1>9, <1>r, TypeParts, PTL
<1> QED BY <1>2, <1>5, <1>7, <1>10 DEF PInv

\* The steps of a read that move no data.
Waiting(p) ==
  \/ Read(p) \/ ReadEof(p) \/ ReadEmpty(p) \/ AddReadWaiter(p) \/ BlockCurrent(p)
  \/ Recheck(p) \/ LoopSignals(p) \/ LoopState(p) \/ Unregister(p) \/ ReturnEintr(p)
  \/ SwitchOut(p) \/ PostSignal(p)

\* What the reader's wait leaves alone.
LEMMA WaitingFrame ==
  ASSUME PTypeOK, NEW p \in Procs, Waiting(p)
  PROVE  /\ UNCHANGED <<ringVars, countVars, tableVars>>
         /\ (\E from \in Calls, to \in Calls : Step(p, from, to)) \/ pc' = pc
         /\ ThreadTypes' /\ pending' \subseteq Procs /\ last' \in Last
<1> USE DEF Calls, Places, Away
<1>1. ThreadTypes /\ pending \subseteq Procs /\ last \in Last
  BY TypeParts DEF RestTypes
<1>2. CASE Read(p)
  BY <1>1, <1>2 DEF Read, ThreadTypes, threadVars
<1>3. CASE ReadEof(p)
  <2>1. << >> \in [1..0 -> Bytes]
    OBVIOUS
  <2>2. 0 \in 0..Capacity
    BY PipeAssumption
  <2>3. last' \in Last
    BY <1>3, <2>1, <2>2 DEF ReadEof, Last
  <2> QED BY <1>1, <1>3, <2>3 DEF ReadEof, ThreadTypes, threadVars
<1>4. CASE ReadEmpty(p)
  BY <1>1, <1>4 DEF ReadEmpty, ThreadTypes, threadVars
<1>5. CASE AddReadWaiter(p)
  BY <1>1, <1>5 DEF AddReadWaiter, ThreadTypes, threadVars
<1>6. CASE BlockCurrent(p)
  BY <1>1, <1>6 DEF BlockCurrent, ThreadTypes, States
<1>7. CASE Recheck(p)
  <2>1. PICK to \in {"try", "loop"} : Step(p, "recheck", to)
    BY <1>7 DEF Recheck
  <2>2. st' = [st EXCEPT ![p] = "Runnable"] \/ st' = st
    BY <1>7 DEF Recheck
  <2> QED BY <1>1, <1>7, <2>1, <2>2 DEF Recheck, ThreadTypes, States
<1>8. CASE LoopSignals(p)
  <2>1. PICK to \in {"eintr", "halt"} : Step(p, "loop", to)
    BY <1>8 DEF LoopSignals
  <2> QED BY <1>1, <1>8, <2>1 DEF LoopSignals, ThreadTypes, threadVars
<1>9. CASE LoopState(p)
  <2>1. PICK to \in {"loop", "try"} : Step(p, "halt", to)
    BY <1>9 DEF LoopState
  <2> QED BY <1>1, <1>9, <2>1 DEF LoopState, ThreadTypes, threadVars
<1>10. CASE Unregister(p)
  BY <1>1, <1>10 DEF Unregister, ThreadTypes, threadVars
<1>11. CASE ReturnEintr(p)
  BY <1>1, <1>11 DEF ReturnEintr, ThreadTypes, States
<1>12. CASE SwitchOut(p)
  BY <1>1, <1>12 DEF SwitchOut, ThreadTypes
<1>13. CASE PostSignal(p)
  BY <1>1, <1>13 DEF PostSignal, ThreadTypes, threadVars
<1> QED
  BY <1>2, <1>3, <1>4, <1>5, <1>6, <1>7, <1>8, <1>9, <1>10, <1>11, <1>12, <1>13 DEF Waiting

\* The steps of the reader's wait.
LEMMA WaitingStep ==
  ASSUME PInv, NEW p \in Procs, Waiting(p)
  PROVE  PInv'
<1>1. /\ RingTypes /\ TableTypes /\ pc \in [Procs -> Places]
      /\ readers \in Nat /\ writers \in Nat /\ Ring /\ Tables /\ Counts /\ PTypeOK
  BY TypeParts DEF PInv, RestTypes, CountTypes
<1>2. /\ UNCHANGED <<ringVars, countVars, tableVars>>
      /\ (\E from \in Calls, to \in Calls : Step(p, from, to)) \/ pc' = pc
      /\ ThreadTypes' /\ pending' \subseteq Procs /\ last' \in Last
  BY <1>1, WaitingFrame
<1>3. pc' \in [Procs -> Places] /\ Tables'
  BY <1>1, <1>2, InCall, TablesFrame
<1>4. Counts'
  BY <1>1, <1>2, CountsFrame DEF tableVars
<1>5. RingTypes' /\ Ring' /\ TableTypes' /\ CountTypes'
  BY <1>1, <1>2 DEF RingTypes, Ring, ringVars, TableTypes, tableVars, countVars, CountTypes
<1>r. RestTypes'
  BY <1>2, <1>3 DEF RestTypes
<1>6. PTypeOK'
  BY <1>2, <1>3, <1>5, <1>r, TypeParts, PTL
<1> QED BY <1>3, <1>4, <1>5, <1>6 DEF PInv

-----------------------------------------------------------------------------
(***************************************************************************)
(* The invariant                                                            *)
(***************************************************************************)

\* The operations on descriptors.
Descriptor(p) ==
  \/ \E s \in Slots : Close(p, s) \/ \E t \in Slots : Dup(p, s, t) \/ Dup2Close(p, s, t)
  \/ Dup2Store(p) \/ (\E q \in Procs : Fork(p, q)) \/ Exit(p) \/ CloseExtracted(p)

\* What the descriptor operations leave alone.
LEMMA DescriptorFrame ==
  ASSUME PInv, NEW p \in Procs, Descriptor(p)
  PROVE  /\ UNCHANGED <<ringVars, last>>
         /\ pc' \in [Procs -> Places] /\ pending' \subseteq Procs /\ ThreadTypes'
<1>1. ThreadTypes /\ pc \in [Procs -> Places] /\ pending \subseteq Procs
  BY TypeParts DEF PInv, RestTypes, CountTypes
<1>2. CASE \E s \in Slots : Close(p, s)
  BY <1>1, <1>2, Moved, ReleaseTypes DEF Close, Places
<1>3. CASE \E s \in Slots, t \in Slots : Dup(p, s, t)
  BY <1>1, <1>3, Moved DEF Dup, Places, ThreadTypes, threadVars
<1>4. CASE \E s \in Slots, t \in Slots : Dup2Close(p, s, t)
  BY <1>1, <1>4, Moved, ReleaseTypes DEF Dup2Close, Places
<1>5. CASE Dup2Store(p)
  BY <1>1, <1>5, Moved DEF Dup2Store, Places, ThreadTypes, threadVars
<1>6. CASE \E q \in Procs : Fork(p, q)
  BY <1>1, <1>6 DEF Fork, Places, ThreadTypes, threadVars
<1>7. CASE Exit(p)
  BY <1>1, <1>7 DEF Exit, Places, ThreadTypes, States
<1>8. CASE CloseExtracted(p)
  BY <1>1, <1>8, ReleaseTypes DEF CloseExtracted
<1> QED BY <1>2, <1>3, <1>4, <1>5, <1>6, <1>7, <1>8 DEF Descriptor

\* The descriptor operations keep the invariant.
LEMMA DescriptorStep ==
  ASSUME PInv, NEW p \in Procs, Descriptor(p)
  PROVE  PInv'
<1>1. RingTypes /\ Ring /\ last \in Last
  BY TypeParts DEF PInv, RestTypes, CountTypes
<1>2. /\ UNCHANGED <<ringVars, last>>
      /\ pc' \in [Procs -> Places] /\ pending' \subseteq Procs /\ ThreadTypes'
  BY DescriptorFrame
<1>3. TableTypes' /\ Tables' /\ Counts'
  BY CloseStep, DupStep, Dup2CloseStep, Dup2StoreStep, ForkStep, ExitStep, CloseExtractedStep
  DEF Descriptor
<1>4. RingTypes' /\ Ring' /\ last' \in Last
  BY <1>1, <1>2 DEF RingTypes, Ring, ringVars, Last
<1>5. CountTypes'
  BY <1>3, CountsType, PTL
<1>r. RestTypes'
  BY <1>2, <1>4 DEF RestTypes
<1>6. PTypeOK'
  BY <1>2, <1>3, <1>4, <1>5, <1>r, TypeParts, PTL
<1> QED BY <1>3, <1>4, <1>6 DEF PInv

\* Every step is of one of the four kinds.
LEMMA StepKinds ==
  ASSUME PNext
  PROVE  \E p \in Procs :
           \/ \E n \in 1..Capacity : \E data \in [1..n -> Bytes] : Write(p, data)
           \/ \E n \in 1..Capacity : ReadData(p, n)
           \/ Waiting(p) \/ Descriptor(p)
BY Zenon DEF PNext, ReaderStep, Waiting, Descriptor

\* The invariant holds at the start.
LEMMA PInitInv == PInit => PInv
<1> SUFFICES ASSUME PInit PROVE PInv
  OBVIOUS
<1> USE PipeAssumption
<1>1. RingTypes /\ Ring
  <2>1. (CHOOSE b \in Bytes : TRUE) \in Bytes
    OBVIOUS
  <2>2. buffer \in [0..(Capacity - 1) -> Bytes]
    BY <2>1 DEF PInit
  <2> QED BY <2>2 DEF PInit, RingTypes, Ring
<1>2. 0 \in Slots /\ 1 \in Slots
  BY DEF Slots
<1>3. TableTypes
  BY DEF PInit, TableTypes
<1>4. Tables
  BY DEF PInit, Tables
<1>5. Counts
  <2>1. /\ \A p \in Procs, s \in Slots : table[p][s] = "r" <=> p = Creator /\ s = 0
        /\ \A p \in Procs, s \in Slots : table[p][s] = "w" <=> p = Creator /\ s = 1
        /\ \A p \in Procs : extracted[p] = {}
    BY DEF PInit
  <2>2. Descriptors("r") = {<<Creator, 0>>} /\ Descriptors("w") = {<<Creator, 1>>}
    BY <1>2, <2>1 DEF Descriptors
  <2>3. readers = 1 /\ writers = 1
    BY DEF PInit
  <2>4. \A d : IsFiniteSet({d}) /\ Cardinality({d}) = 1
    BY FS_Singleton
  <2> QED BY <2>2, <2>3, <2>4 DEF Counts, CountsAreDescriptors
<1>6. last \in Last
  <2>1. << >> \in [1..0 -> Bytes] /\ 0 \in 0..Capacity
    OBVIOUS
  <2> QED BY <2>1 DEF PInit, Last
<1>7. /\ ThreadTypes /\ readers \in Nat /\ writers \in Nat
      /\ pc \in [Procs -> Places] /\ pending \subseteq Procs
  BY DEF PInit, ThreadTypes, States, Places
<1>8. PTypeOK
  BY <1>1, <1>3, <1>6, <1>7, TypeParts DEF CountTypes, RestTypes
<1> QED BY <1>1, <1>4, <1>5, <1>8 DEF PInv

\* Every step keeps the invariant.
LEMMA PNextInv == PInv /\ [PNext]_pvars => PInv'
<1> SUFFICES ASSUME PInv, [PNext]_pvars PROVE PInv'
  OBVIOUS
<1>1. CASE PNext
  BY <1>1, StepKinds, WriteStep, ReadDataStep, WaitingStep, DescriptorStep
<1>2. CASE UNCHANGED pvars
  BY <1>2 DEF pvars, PInv, PTypeOK, Ring, Tables, Counts, CountsAreDescriptors, Descriptors,
              ringVars, countVars, tableVars, threadVars
<1> QED BY <1>1, <1>2

\* PInv is an invariant of the pipe.
THEOREM PInvariant == PSpec => []PInv
<1> QED BY PInitInv, PNextInv, PTL DEF PSpec

\* Every variable of the pipe keeps the type the code gives it; the counts and
\* the length never leave their ranges.
THEOREM PipeTypes == PSpec => []PTypeOK
<1>1. PInv => PTypeOK
  BY DEF PInv
<1> QED BY PInvariant, <1>1, PTL

\* A descriptor is counted exactly once, however it is duplicated, inherited,
\* replaced or dropped.
THEOREM DescriptorsAreCounted == PSpec => []CountsAreDescriptors
<1>1. PInv => CountsAreDescriptors
  BY DEF PInv, Counts
<1> QED BY PInvariant, <1>1, PTL

-----------------------------------------------------------------------------
(***************************************************************************)
(* A blocking read                                                          *)
(***************************************************************************)

\* Between its look at the pipe and its wait a reader is on the list or will see
\* the data when it looks again; a reader that waits is on the list of a pipe
\* that has nothing for it.
Parked ==
  /\ \A p \in Procs : pc[p] \in ReadingPc => p \in Readers
  /\ \A p \in Procs : st[p] = "Blocked" => pc[p] \in HaltPc \union {"recheck", "ready"}
  /\ \A p \in off : st[p] = "Blocked" => pc[p] # "recheck"
  /\ \A p \in Procs : pc[p] = "block" \/ (pc[p] = "recheck" /\ st[p] = "Blocked")
                      => p \in read_waiters \/ HasDataOrEof
  /\ \A p \in Procs : pc[p] \in HaltPc /\ st[p] = "Blocked" => p \in read_waiters /\ ~HasDataOrEof

\* Nobody else takes bytes out of the pipe.
OneReader == \A p, q \in Readers : p = q

Elsewhere == \A q \in Procs : pc'[q] = pc[q] \/ (pc[q] \notin ReadingPc /\ pc'[q] \notin ReadingPc)

\* A parked reader stays found when nothing it waits for changes.
LEMMA ParkedQuiet ==
  ASSUME ThreadTypes, Parked, Elsewhere, UNCHANGED <<read_waiters, st, off>>,
         HasDataOrEof' <=> HasDataOrEof
  PROVE  Parked'
BY DEF Parked, Elsewhere, ThreadTypes, ReadingPc, HaltPc

\* A wakeup finds every parked reader.
LEMMA ParkedWake ==
  ASSUME ThreadTypes, Parked, Elsewhere, WakeReadWaiters, HasDataOrEof'
  PROVE  Parked'
BY DEF Parked, Elsewhere, WakeReadWaiters, ThreadTypes, ReadingPc, HaltPc

\* Who drops a write end wakes the readers exactly when the pipe has ended.
LEMMA ParkedRelease ==
  ASSUME ThreadTypes, Parked, Elsewhere, Counts, NEW end \in {"r", "w"}, NEW d,
         d \in Descriptors(end), Release(end), len' = len
  PROVE  Parked'
<1>1. CASE end = "r"
  <2>1. UNCHANGED <<read_waiters, st, off, writers>>
    BY <1>1 DEF Release, CloseRead, threadVars
  <2> QED BY <2>1, ParkedQuiet DEF HasDataOrEof
<1>2. CASE end = "w" /\ writers = 1
  <2>1. WakeReadWaiters /\ writers' = 0
    BY <1>2 DEF Release, CloseWrite
  <2> QED BY <2>1, ParkedWake DEF HasDataOrEof
<1>3. CASE end = "w" /\ writers # 1
  <2>1. writers \in Nat /\ writers >= 1
    BY <1>3, CountsType, HeldIsCounted DEF CountTypes
  <2>2. UNCHANGED <<read_waiters, st, off>> /\ writers' = writers - 1
    BY <1>3 DEF Release, CloseWrite, threadVars
  <2>3. writers # 0 /\ writers' # 0
    BY <1>3, <2>1, <2>2
  <2> QED BY <2>2, <2>3, ParkedQuiet DEF HasDataOrEof
<1> QED BY <1>1, <1>2, <1>3

\* A pipe that has lost its last writer gets no other one.
LEMMA DupKeepsEnd ==
  ASSUME PInv, NEW p \in Procs, NEW s \in Slots, NEW end \in {"r", "w"}, table[p][s] = end,
         AddEnds(IF end = "r" THEN 1 ELSE 0, IF end = "w" THEN 1 ELSE 0), len' = len
  PROVE  HasDataOrEof' <=> HasDataOrEof
<1>1. writers \in Nat /\ Counts
  BY TypeParts DEF PInv, CountTypes
<1>2. CASE end = "r"
  BY <1>1, <1>2 DEF AddEnds, HasDataOrEof
<1>3. CASE end = "w"
  <2>1. <<p, s>> \in Descriptors("w")
    BY <1>3 DEF Descriptors
  <2>2. writers >= 1
    BY <1>1, <2>1, HeldIsCounted
  <2>3. writers' = writers + 1
    BY <1>3 DEF AddEnds
  <2> QED BY <1>1, <2>2, <2>3 DEF HasDataOrEof
<1> QED BY <1>2, <1>3

\* fork neither makes nor ends an end of file.
LEMMA ForkKeepsEnd ==
  ASSUME PInv, NEW p \in Procs, NEW q \in Procs, Fork(p, q)
  PROVE  HasDataOrEof' <=> HasDataOrEof
<1>1. writers \in Nat /\ Counts /\ TableTypes /\ Tables
  BY TypeParts DEF PInv, CountTypes
<1>2. writers' = writers + Ends(p, "w") /\ len' = len
  BY DEF Fork, AddEnds, ringVars
<1>3. IsFiniteSet({s \in Slots : table[p][s] = "w"})
  <2>1. 0 \in Int /\ MaxFds - 1 \in Int
    BY PipeAssumption
  <2>2. IsFiniteSet(Slots)
    BY <2>1, FS_Interval DEF Slots
  <2> QED BY <2>2, FS_Subset
<1>4. Ends(p, "w") \in Nat
  BY <1>3, FS_CardinalityType DEF Ends
<1>5. CASE writers = 0
  <2>1. \A s \in Slots : table[p][s] # "w"
    <3> SUFFICES ASSUME NEW s \in Slots, table[p][s] = "w" PROVE FALSE
      OBVIOUS
    <3>1. <<p, s>> \in Descriptors("w")
      BY DEF Descriptors
    <3>2. writers >= 1
      BY <1>1, <3>1, HeldIsCounted
    <3> QED BY <1>5, <3>2
  <2>2. {s \in Slots : table[p][s] = "w"} = {}
    BY <2>1
  <2>3. Ends(p, "w") = 0
    BY <2>2, FS_EmptySet DEF Ends
  <2> QED BY <1>2, <1>5, <2>3 DEF HasDataOrEof
<1>6. CASE writers # 0
  <2>1. writers' # 0
    BY <1>1, <1>2, <1>4, <1>6
  <2> QED BY <1>2, <1>6, <2>1 DEF HasDataOrEof
<1> QED BY <1>5, <1>6

\* Whoever makes an end of file wakes the parked reader.
LEMMA ParkedDescriptor ==
  ASSUME PInv, Parked, NEW p \in Procs, Descriptor(p)
  PROVE  Parked'
<1>1. /\ ThreadTypes /\ pc \in [Procs -> Places] /\ Counts /\ TableTypes /\ Tables
  BY TypeParts DEF PInv, RestTypes
<1>2. len' = len
  BY DescriptorFrame DEF ringVars
<1>3. ASSUME NEW s \in Slots, Close(p, s) PROVE Parked'
  <2>1. Elsewhere
    BY <1>1, <1>3, Moved DEF Close, Elsewhere, ReadingPc
  <2>2. table[p][s] \in {"r", "w"}
    BY <1>1, <1>3 DEF Close, Open, TableTypes
  <2>3. <<p, s>> \in Descriptors(table[p][s])
    BY DEF Descriptors
  <2> QED BY <1>1, <1>2, <1>3, <2>1, <2>2, <2>3, ParkedRelease DEF Close
<1>4. ASSUME NEW s \in Slots, NEW t \in Slots, Dup(p, s, t) PROVE Parked'
  <2>1. Elsewhere
    BY <1>1, <1>4, Moved DEF Dup, Elsewhere, ReadingPc
  <2>2. table[p][s] \in {"r", "w"}
    BY <1>1, <1>4 DEF Dup, Open, TableTypes
  <2>3. HasDataOrEof' <=> HasDataOrEof
    BY <1>2, <1>4, <2>2, DupKeepsEnd DEF Dup
  <2> QED BY <1>1, <1>4, <2>1, <2>3, ParkedQuiet DEF Dup, threadVars
<1>5. ASSUME NEW s \in Slots, NEW t \in Slots, Dup2Close(p, s, t) PROVE Parked'
  <2>1. Elsewhere
    BY <1>1, <1>5, Moved DEF Dup2Close, Elsewhere, ReadingPc
  <2>2. table[p][t] \in {"r", "w"}
    BY <1>1, <1>5 DEF Dup2Close, Open, TableTypes
  <2>3. <<p, t>> \in Descriptors(table[p][t])
    BY DEF Descriptors
  <2> QED BY <1>1, <1>2, <1>5, <2>1, <2>2, <2>3, ParkedRelease DEF Dup2Close
<1>6. CASE Dup2Store(p)
  <2>1. PICK d \in manager :
          /\ d.proc = p /\ Step(p, "dup2", "user")
          /\ AddEnds(IF d.end = "r" THEN 1 ELSE 0, IF d.end = "w" THEN 1 ELSE 0)
          /\ UNCHANGED <<read_waiters, threadVars>>
    BY <1>6 DEF Dup2Store
  <2>2. Elsewhere
    BY <1>1, <2>1, Moved DEF Elsewhere, ReadingPc
  <2>3. d.end \in {"r", "w"} /\ \E s \in Slots : table[p][s] = d.end
    BY <1>1, <2>1 DEF TableTypes, Tables
  <2>4. HasDataOrEof' <=> HasDataOrEof
    BY <1>2, <2>1, <2>3, DupKeepsEnd
  <2> QED BY <1>1, <2>1, <2>2, <2>4, ParkedQuiet DEF threadVars
<1>7. ASSUME NEW q \in Procs, Fork(p, q) PROVE Parked'
  <2>1. Elsewhere
    BY <1>1, <1>7 DEF Fork, Elsewhere, ReadingPc
  <2> QED BY <1>1, <1>7, <2>1, ForkKeepsEnd, ParkedQuiet DEF Fork, threadVars
<1>8. CASE Exit(p)
  <2>1. /\ \A q \in Procs : pc'[q] = IF q = p THEN "ended" ELSE pc[q]
        /\ \A q \in Procs : st'[q] = IF q = p THEN "Terminated" ELSE st[q]
        /\ off' = off \union {p} /\ read_waiters' = read_waiters
    BY <1>1, <1>8 DEF Exit, ThreadTypes
  <2>2. HasDataOrEof' <=> HasDataOrEof
    BY <1>8 DEF Exit, HasDataOrEof, ringVars, countVars
  <2> QED BY <1>1, <2>1, <2>2 DEF Parked, ThreadTypes, ReadingPc, HaltPc
<1>9. CASE CloseExtracted(p)
  <2>1. PICK end \in {"r", "w"} : Release(end) /\ \E d : d \in Descriptors(end)
    BY <1>9, CloseExtractedStep
  <2>2. Elsewhere
    BY <1>9 DEF CloseExtracted, Elsewhere
  <2> QED BY <1>1, <1>2, <2>1, <2>2, ParkedRelease
<1> QED BY <1>3, <1>4, <1>5, <1>6, <1>7, <1>8, <1>9 DEF Descriptor

\* The reader's own wait: it looks again after it has enlisted.
LEMMA ParkedWaiting ==
  ASSUME PInv, Parked, NEW p \in Procs, Waiting(p)
  PROVE  Parked'
<1>1. ThreadTypes /\ pc \in [Procs -> Places] /\ PTypeOK
  BY TypeParts DEF PInv, RestTypes
<1>2. HasDataOrEof' <=> HasDataOrEof
  BY <1>1, WaitingFrame DEF HasDataOrEof, ringVars, countVars
<1> USE DEF Parked, ThreadTypes, ReadingPc, HaltPc
<1>3. CASE Read(p)
  BY <1>1, <1>2, <1>3, Moved DEF Read, threadVars
<1>4. CASE ReadEof(p)
  BY <1>1, <1>2, <1>4, Moved DEF ReadEof, threadVars
<1>5. CASE ReadEmpty(p)
  BY <1>1, <1>2, <1>5, Moved DEF ReadEmpty, threadVars
<1>6. CASE AddReadWaiter(p)
  BY <1>1, <1>2, <1>6, Moved DEF AddReadWaiter, threadVars
<1>7. CASE BlockCurrent(p)
  BY <1>1, <1>2, <1>7, Moved DEF BlockCurrent
<1>8. CASE Recheck(p)
  <2>1. CASE HasDataOrEof
    <3>1. Step(p, "recheck", "try") /\ st' = [st EXCEPT ![p] = "Runnable"]
          /\ UNCHANGED <<read_waiters, off>>
      BY <1>8, <2>1 DEF Recheck
    <3> QED BY <1>1, <1>2, <2>1, <3>1, Moved
  <2>2. CASE ~HasDataOrEof
    <3>1. Step(p, "recheck", "loop") /\ UNCHANGED <<read_waiters, off, st>>
      BY <1>8, <2>2 DEF Recheck
    <3> QED BY <1>1, <1>2, <2>2, <3>1, Moved
  <2> QED BY <2>1, <2>2
<1>9. CASE LoopSignals(p)
  <2>1. PICK to \in {"eintr", "halt"} : Step(p, "loop", to)
    BY <1>9 DEF LoopSignals
  <2> QED BY <1>1, <1>2, <1>9, <2>1, Moved DEF LoopSignals, threadVars
<1>10. CASE LoopState(p)
  <2>1. PICK to \in {"loop", "try"} : Step(p, "halt", to) /\ (to = "try" => st[p] # "Blocked")
    BY <1>10 DEF LoopState
  <2> QED BY <1>1, <1>2, <1>10, <2>1, Moved DEF LoopState, threadVars
<1>11. CASE Unregister(p)
  BY <1>1, <1>2, <1>11, Moved DEF Unregister, threadVars
<1>12. CASE ReturnEintr(p)
  BY <1>1, <1>2, <1>12, Moved DEF ReturnEintr
<1>13. CASE SwitchOut(p)
  BY <1>1, <1>2, <1>13 DEF SwitchOut
<1>14. CASE PostSignal(p)
  BY <1>1, <1>2, <1>14 DEF PostSignal, threadVars
<1> QED
  BY <1>3, <1>4, <1>5, <1>6, <1>7, <1>8, <1>9, <1>10, <1>11, <1>12, <1>13, <1>14 DEF Waiting

\* Every step keeps a parked reader findable, if there is one reader.
LEMMA ParkedNext ==
  ASSUME OneReader, PInv, Parked, [PNext]_pvars
  PROVE  Parked'
<1>1. ThreadTypes /\ pc \in [Procs -> Places] /\ RingTypes
  BY TypeParts DEF PInv, RestTypes
<1>2. ASSUME NEW p \in Procs, NEW n \in 1..Capacity, NEW data \in [1..n -> Bytes],
             Write(p, data)
      PROVE  Parked'
  <2>1. Elsewhere
    BY <1>1, <1>2, Moved DEF Write, Elsewhere, ReadingPc
  <2>2. len' > 0
    BY <1>1, <1>2, AcceptedFacts DEF Write, RingTypes
  <2> QED BY <1>1, <1>2, <2>1, <2>2, ParkedWake DEF Write, HasDataOrEof
<1>3. ASSUME NEW p \in Procs, NEW n \in 1..Capacity, ReadData(p, n)
      PROVE  Parked'
  <2>1. /\ pc[p] = "try" /\ \A q \in Procs : pc'[q] = IF q = p THEN "user" ELSE pc[q]
        /\ UNCHANGED <<read_waiters, st, off>>
    BY <1>1, <1>3, Moved DEF ReadData, threadVars
  <2>2. \A q \in Procs : pc[q] \in ReadingPc => q = p
    BY <2>1 DEF Parked, OneReader, ReadingPc
  <2> QED BY <1>1, <2>1, <2>2 DEF Parked, ThreadTypes, ReadingPc, HaltPc
<1>4. CASE PNext
  BY <1>2, <1>3, <1>4, StepKinds, ParkedWaiting, ParkedDescriptor
<1>5. CASE UNCHANGED pvars
  BY <1>5 DEF pvars, Parked, HasDataOrEof, ringVars, countVars, threadVars
<1> QED BY <1>4, <1>5

\* With one reader, a reader that is off its CPU is on the list that the next
\* write and the last close wake, and there is nothing for it yet.
THEOREM ParkedReadersAreFound ==
  ASSUME OneReader
  PROVE  PSpec => []ParkedReaderIsFound
<1>1. PInit => Parked
  BY DEF PInit, Parked, ReadingPc, HaltPc
<1>2. PInv /\ Parked /\ [PNext]_pvars => Parked'
  BY OneReader, ParkedNext
<1>3. PInv /\ Parked => ParkedReaderIsFound
  <2>1. PInv => ThreadTypes
    BY TypeParts DEF PInv
  <2> QED BY <2>1 DEF Parked, ParkedReaderIsFound, Interrupting, ThreadTypes, HaltPc
<1> QED BY PInvariant, <1>1, <1>2, <1>3, PTL DEF PSpec

-----------------------------------------------------------------------------
(***************************************************************************)
(* The byte stream                                                          *)
(***************************************************************************)

\* The two parts of a sequence given as a function.
LEMMA Cut ==
  ASSUME NEW S, NEW m \in Nat, NEW n \in 0..m, NEW f \in [1..m -> S]
  PROVE  /\ SubSeq(f, 1, n) = [i \in 1..n |-> f[i]]
         /\ SubSeq(f, n + 1, m) = [i \in 1..(m - n) |-> f[n + i]]
<1>1. SubSeq(f, 1, n) = [i \in 1..n |-> f[i]]
  OBVIOUS
<1>2. SubSeq(f, n + 1, m) = [i \in 1..(m - n) |-> f[n + i]]
  OBVIOUS
<1> QED BY <1>1, <1>2

\* What the stream holds after a write: the bytes it held, then the new ones.
LEMMA WriteAppends ==
  ASSUME RingTypes, Ring, NEW m \in 1..(Capacity - len), NEW acc \in [1..m -> Bytes],
         buffer' = Stored(acc), write_pos' = (write_pos + m) % Capacity,
         len' = len + m, read_pos' = read_pos
  PROVE  Loaded(len)' = Loaded(len) \o acc
<1> USE PipeAssumption
<1> DEFINE at(k) == IF read_pos + k - 1 < Capacity THEN read_pos + k - 1
                                                  ELSE read_pos + k - 1 - Capacity
<1>1. RingTypes'
  BY StoredTypes
<1>2. len \in Nat /\ len \in 0..len /\ m \in Nat /\ len + m \in 0..Capacity
  BY DEF RingTypes
<1>3. /\ Loaded(len) \in [1..len -> Bytes] /\ \A k \in 1..len : Loaded(len)[k] = buffer[at(k)]
  BY <1>2, LoadedFacts
<1>4. /\ Loaded(len)' \in [1..(len + m) -> Bytes]
      /\ \A k \in 1..(len + m) : Loaded(len)'[k] = buffer'[(read_pos + k - 1) % Capacity]
  <2>1. Loaded(len)' = [k \in 1..(len + m) |-> buffer'[(read_pos + k - 1) % Capacity]]
    BY DEF Loaded
  <2>2. \A k \in 1..(len + m) : (read_pos + k - 1) % Capacity \in 0..(Capacity - 1)
    BY <1>2 DEF RingTypes
  <2>3. buffer' \in [0..(Capacity - 1) -> Bytes]
    BY <1>1 DEF RingTypes
  <2> QED BY <2>1, <2>2, <2>3
<1>5. \A k \in 1..(len + m) : (read_pos + k - 1) % Capacity = at(k) /\ at(k) \in 0..(Capacity - 1)
  BY <1>2 DEF RingTypes
<1>6. write_pos = IF read_pos + len < Capacity THEN read_pos + len ELSE read_pos + len - Capacity
  BY DEF RingTypes, Ring
<1>7. \A i \in 0..(Capacity - 1) :
        (i - write_pos) % Capacity = IF i < write_pos THEN i - write_pos + Capacity ELSE i - write_pos
  BY DEF RingTypes
<1>8. Len(acc) = m
  BY <1>2
<1>9. \A i \in 0..(Capacity - 1) :
        buffer'[i] = LET k == IF i < write_pos THEN i - write_pos + Capacity ELSE i - write_pos
                     IN  IF k < m THEN acc[k + 1] ELSE buffer[i]
  BY <1>7, <1>8 DEF Stored, RingTypes
<1>10. \A k \in 1..len : buffer'[at(k)] = buffer[at(k)]
  <2> SUFFICES ASSUME NEW k \in 1..len PROVE buffer'[at(k)] = buffer[at(k)]
    OBVIOUS
  <2>1. at(k) \in 0..(Capacity - 1)
    BY <1>2, <1>5
  <2>2. (IF at(k) < write_pos THEN at(k) - write_pos + Capacity ELSE at(k) - write_pos) >= m
    BY <1>2, <1>6 DEF RingTypes
  <2>3. (IF at(k) < write_pos THEN at(k) - write_pos + Capacity ELSE at(k) - write_pos) \in Int
    BY <2>1 DEF RingTypes
  <2> QED BY <1>2, <1>9, <2>1, <2>2, <2>3
<1>11. \A k \in 1..m : buffer'[at(len + k)] = acc[k]
  <2> SUFFICES ASSUME NEW k \in 1..m PROVE buffer'[at(len + k)] = acc[k]
    OBVIOUS
  <2>1. len + k \in 1..(len + m)
    BY <1>2
  <2>2. at(len + k) \in 0..(Capacity - 1)
    BY <1>5, <2>1
  <2>3. (IF at(len + k) < write_pos THEN at(len + k) - write_pos + Capacity
                                   ELSE at(len + k) - write_pos) = k - 1
    BY <1>2, <1>6 DEF RingTypes
  <2>4. k - 1 < m /\ (k - 1) + 1 = k
    BY <1>2
  <2> QED BY <1>9, <2>2, <2>3, <2>4
<1> HIDE DEF at
<1> DEFINE old == Loaded(len)
           new == Loaded(len)'
<1> HIDE DEF old, new
<1>12. \A k \in 1..len : new[k] = old[k]
  <2> SUFFICES ASSUME NEW k \in 1..len PROVE new[k] = old[k]
    OBVIOUS
  <2>1. k \in 1..(len + m)
    BY <1>2
  <2>2. new[k] = buffer'[at(k)]
    BY <1>4, <1>5, <2>1 DEF new
  <2>3. old[k] = buffer[at(k)]
    BY <1>3 DEF old
  <2> QED BY <1>10, <2>2, <2>3
<1>13. \A k \in 1..m : new[len + k] = acc[k]
  <2> SUFFICES ASSUME NEW k \in 1..m PROVE new[len + k] = acc[k]
    OBVIOUS
  <2>1. len + k \in 1..(len + m)
    BY <1>2
  <2>2. new[len + k] = buffer'[at(len + k)]
    BY <1>4, <1>5, <2>1 DEF new
  <2> QED BY <1>11, <2>2
<1>14. old \in [1..len -> Bytes] /\ new \in [1..(len + m) -> Bytes]
  BY <1>3, <1>4 DEF old, new
<1>15. new = old \o acc
  <2>1. Len(old) = len /\ Len(acc) = m /\ Len(new) = len + m
    BY <1>2, <1>14
  <2>2. old \in Seq(Bytes) /\ acc \in Seq(Bytes) /\ new \in Seq(Bytes)
    BY <1>2, <1>14
  <2> DEFINE c == old \o acc
  <2>3. /\ c \in Seq(Bytes) /\ Len(c) = len + m
        /\ \A i \in 1..(len + m) : c[i] = IF i <= len THEN old[i] ELSE acc[i - len]
    BY <2>1, <2>2, ConcatProperties
  <2> HIDE DEF c
  <2>4. \A i \in 1..(len + m) : new[i] = c[i]
    <3> SUFFICES ASSUME NEW i \in 1..(len + m) PROVE new[i] = c[i]
      OBVIOUS
    <3>1. CASE i <= len
      <4>1. i \in 1..len
        BY <1>2, <3>1
      <4> QED BY <1>12, <2>3, <3>1, <4>1
    <3>2. CASE ~(i <= len)
      <4>1. i - len \in 1..m /\ i = len + (i - len)
        BY <1>2, <3>2
      <4>2. new[len + (i - len)] = acc[i - len]
        BY <1>13, <4>1
      <4> QED BY <2>3, <3>2, <4>1, <4>2
    <3> QED BY <3>1, <3>2
  <2>5. new = c
    BY <2>1, <2>2, <2>3, <2>4, SeqEqual
  <2> QED BY <2>5 DEF c
<1> QED BY <1>15 DEF old, new

\* What it holds after a read of m bytes: what was behind them.
LEMMA ReadConsumes ==
  ASSUME RingTypes, Ring, NEW m \in 1..len,
         read_pos' = (read_pos + m) % Capacity, len' = len - m,
         UNCHANGED <<buffer, write_pos>>
  PROVE  /\ Loaded(m) = SubSeq(Loaded(len), 1, m)
         /\ Loaded(len)' = SubSeq(Loaded(len), m + 1, len)
<1> USE PipeAssumption
<1>1. len \in Nat /\ m \in 0..len /\ len - m \in Nat
  BY DEF RingTypes
<1>2. Loaded(len) \in [1..len -> Bytes]
  BY <1>1, LoadedFacts
<1>3. /\ SubSeq(Loaded(len), 1, m) = [i \in 1..m |-> Loaded(len)[i]]
      /\ SubSeq(Loaded(len), m + 1, len) = [i \in 1..(len - m) |-> Loaded(len)[m + i]]
  BY <1>1, <1>2, Cut
<1>4. Loaded(m) = [i \in 1..m |-> Loaded(len)[i]]
  <2>1. \A i \in 1..m : Loaded(len)[i] = buffer[(read_pos + i - 1) % Capacity]
    BY <1>1 DEF Loaded
  <2> QED BY <2>1 DEF Loaded
<1>5. Loaded(len)' = [i \in 1..(len - m) |-> buffer[(read_pos' + i - 1) % Capacity]]
  BY DEF Loaded
<1>6. \A i \in 1..(len - m) : (read_pos' + i - 1) % Capacity = (read_pos + (m + i) - 1) % Capacity
  <2>1. read_pos' = IF read_pos + m < Capacity THEN read_pos + m ELSE read_pos + m - Capacity
    BY DEF RingTypes
  <2>2. \A i \in 1..(len - m) : (read_pos + (m + i) - 1) % Capacity =
          IF read_pos + (m + i) - 1 < Capacity THEN read_pos + (m + i) - 1
                                               ELSE read_pos + (m + i) - 1 - Capacity
    BY DEF RingTypes
  <2>3. \A i \in 1..(len - m) : (read_pos' + i - 1) % Capacity =
          IF read_pos' + i - 1 < Capacity THEN read_pos' + i - 1 ELSE read_pos' + i - 1 - Capacity
    BY <2>1 DEF RingTypes
  <2> QED BY <2>1, <2>2, <2>3 DEF RingTypes
<1>7. \A i \in 1..(len - m) : Loaded(len)[m + i] = buffer[(read_pos + (m + i) - 1) % Capacity]
  BY <1>1 DEF Loaded
<1>8. Loaded(len)' = [i \in 1..(len - m) |-> Loaded(len)[m + i]]
  BY <1>5, <1>6, <1>7
<1> QED BY <1>3, <1>4, <1>8

\* A step that touches no byte and reopens no writer is a stutter or a hangup.
LEMMA StreamFrame ==
  ASSUME UNCHANGED <<ringVars, last>>,
         Descriptors("w")' # {} => Descriptors("w") # {}
  PROVE  [Stream!Put \/ Stream!Get \/ Stream!End \/ Stream!Hangup]_(Stream!streamVars)
<1>1. Loaded(len)' = Loaded(len) /\ last' = last
  BY DEF Loaded, ringVars
<1>2. (Descriptors("w")' # {}) \in BOOLEAN /\ (Descriptors("w") # {}) \in BOOLEAN
  OBVIOUS
<1>3. CASE (Descriptors("w")' # {}) <=> (Descriptors("w") # {})
  BY <1>1, <1>3 DEF Stream!streamVars
<1>4. CASE ~(Descriptors("w")' # {})
  BY <1>1, <1>4 DEF Stream!Hangup
<1> QED BY <1>3, <1>4

\* A write puts its bytes into the stream.
LEMMA WriteRefines ==
  ASSUME PInv, NEW p \in Procs, NEW n \in 1..Capacity, NEW data \in [1..n -> Bytes],
         Write(p, data)
  PROVE  Stream!Put
<1>1. RingTypes /\ Ring
  BY TypeParts DEF PInv
<1>2. PICK m \in 1..(Capacity - len) :
        Accepted(data) \in [1..m -> Bytes] /\ Len(Accepted(data)) = m
  BY <1>1, AcceptedFacts DEF Write
<1>3. Loaded(len)' = Loaded(len) \o Accepted(data)
  BY <1>1, <1>2, WriteAppends DEF Write
<1>4. Len(Loaded(len)) = len
  <2>1. len \in 0..len
    BY <1>1 DEF RingTypes
  <2> QED BY <1>1, <2>1, LoadedFacts
<1>5. Descriptors("w") # {}
  <2>1. PICK s \in Slots : table[p][s] = "w"
    BY DEF Write
  <2>2. <<p, s>> \in Descriptors("w")
    BY <2>1 DEF Descriptors
  <2> QED BY <2>2
<1>6. Descriptors("w")' = Descriptors("w") /\ last' = last
  BY DEF Write, tableVars, Descriptors
<1> QED BY <1>2, <1>3, <1>4, <1>5, <1>6 DEF Stream!Put

\* A read gets the oldest bytes of the stream.
LEMMA ReadRefines ==
  ASSUME PInv, NEW p \in Procs, NEW n \in 1..Capacity, ReadData(p, n)
  PROVE  Stream!Get
<1>1. RingTypes /\ Ring
  BY TypeParts DEF PInv
<1> DEFINE m == Min({n, len})
<1>2. m \in 1..len
  <2>1. m = IF n <= len THEN n ELSE len
    BY <1>1, MinTwo DEF RingTypes
  <2> QED BY <1>1, <2>1 DEF RingTypes, ReadData
<1>3. /\ last' = Loaded(m) /\ read_pos' = (read_pos + m) % Capacity /\ len' = len - m
      /\ UNCHANGED <<buffer, write_pos>>
  BY DEF ReadData
<1> HIDE DEF m
<1>4. /\ Loaded(m) = SubSeq(Loaded(len), 1, m)
      /\ Loaded(len)' = SubSeq(Loaded(len), m + 1, len)
  BY <1>1, <1>2, <1>3, ReadConsumes
<1>5. Len(Loaded(len)) = len
  <2>1. len \in 0..len
    BY <1>1 DEF RingTypes
  <2> QED BY <1>1, <2>1, LoadedFacts
<1>6. Descriptors("w")' = Descriptors("w")
  BY DEF ReadData, tableVars, Descriptors
<1> QED BY <1>2, <1>3, <1>4, <1>5, <1>6 DEF Stream!Get

\* The end is reported only when nobody holds the write end: the count is zero
\* exactly then.
LEMMA EofRefines ==
  ASSUME PInv, NEW p \in Procs, ReadEof(p)
  PROVE  Stream!End
<1>1. Counts
  BY DEF PInv
<1>2. Descriptors("w") = {}
  BY <1>1, HeldIsCounted DEF ReadEof
<1>3. Loaded(len) = << >> /\ Loaded(len)' = << >>
  BY DEF ReadEof, Loaded, ringVars
<1>4. Descriptors("w")' = Descriptors("w") /\ last' = << >>
  BY DEF ReadEof, tableVars, Descriptors
<1> QED BY <1>2, <1>3, <1>4 DEF Stream!End

\* The reader's wait is nothing to the stream.
LEMMA WaitingRefines ==
  ASSUME PInv, NEW p \in Procs, Waiting(p), ~ReadEof(p)
  PROVE  UNCHANGED <<ringVars, last>> /\ Descriptors("w")' = Descriptors("w")
<1>1. UNCHANGED <<ringVars, countVars, tableVars>>
  BY WaitingFrame DEF PInv
<1>2. last' = last
  BY DEF Waiting, Read, ReadEmpty, AddReadWaiter, BlockCurrent, Recheck, LoopSignals,
         LoopState, Unregister, ReturnEintr, SwitchOut, PostSignal
<1> QED BY <1>1, <1>2 DEF tableVars, Descriptors

\* No operation on descriptors brings a write end back.
LEMMA DescriptorRefines ==
  ASSUME PInv, NEW p \in Procs, Descriptor(p)
  PROVE  UNCHANGED <<ringVars, last>> /\ (Descriptors("w")' # {} => Descriptors("w") # {})
<1>1. UNCHANGED <<ringVars, last>>
  BY DescriptorFrame
<1>2. TableTypes /\ Tables
  BY TypeParts DEF PInv
<1> SUFFICES ASSUME Descriptors("w")' # {} PROVE Descriptors("w") # {}
  BY <1>1
<1>3. PICK q \in Procs, i \in Slots : table'[q][i] = "w" \/ <<i, "w">> \in extracted'[q]
  BY DEF Descriptors
<1>4. ASSUME NEW a \in Procs, NEW j \in Slots,
             table[a][j] = "w" \/ <<j, "w">> \in extracted[a]
      PROVE  Descriptors("w") # {}
  <2>1. <<a, j>> \in Descriptors("w")
    BY <1>4 DEF Descriptors
  <2> QED BY <2>1
<1>5. ASSUME NEW s \in Slots, Close(p, s) PROVE Descriptors("w") # {}
  BY <1>2, <1>3, <1>4, <1>5 DEF Close, TableTypes
<1>6. ASSUME NEW s \in Slots, NEW t \in Slots, Dup(p, s, t) PROVE Descriptors("w") # {}
  BY <1>2, <1>3, <1>4, <1>6 DEF Dup, TableTypes
<1>7. ASSUME NEW s \in Slots, NEW t \in Slots, Dup2Close(p, s, t) PROVE Descriptors("w") # {}
  BY <1>2, <1>3, <1>4, <1>7 DEF Dup2Close, TableTypes
<1>8. CASE Dup2Store(p)
  <2>1. PICK d \in manager :
          /\ d.proc = p /\ table' = [table EXCEPT ![p][d.slot] = d.end] /\ extracted' = extracted
    BY <1>8 DEF Dup2Store
  <2>2. \E s \in Slots : table[p][s] = d.end
    BY <1>2, <2>1 DEF Tables
  <2> QED BY <1>2, <1>3, <1>4, <2>1, <2>2 DEF TableTypes
<1>9. ASSUME NEW r \in Procs, Fork(p, r) PROVE Descriptors("w") # {}
  BY <1>2, <1>3, <1>4, <1>9 DEF Fork, TableTypes
<1>10. CASE Exit(p)
  <2>1. /\ table' = [table EXCEPT ![p] = [s \in Slots |-> "free"]]
        /\ extracted' = [extracted EXCEPT ![p] = {<<s, table[p][s]>> : s \in Open(p)}]
    BY <1>10 DEF Exit
  <2>2. CASE q # p
    BY <1>2, <1>3, <1>4, <2>1, <2>2 DEF TableTypes
  <2>3. CASE q = p
    <3>1. table'[p][i] = "free" /\ extracted'[p] = {<<s, table[p][s]>> : s \in Open(p)}
      BY <1>2, <2>1 DEF TableTypes
    <3>2. <<i, "w">> \in {<<s, table[p][s]>> : s \in Open(p)}
      BY <1>3, <2>3, <3>1
    <3>3. table[p][i] = "w"
      BY <3>2
    <3> QED BY <1>4, <3>3
  <2> QED BY <2>2, <2>3
<1>11. CASE CloseExtracted(p)
  BY <1>2, <1>3, <1>4, <1>11 DEF CloseExtracted, TableTypes
<1> QED BY <1>5, <1>6, <1>7, <1>8, <1>9, <1>10, <1>11 DEF Descriptor

\* Every step of the pipe is one of the stream or a stutter.
LEMMA StreamNext ==
  PInv /\ [PNext]_pvars
    => [Stream!Put \/ Stream!Get \/ Stream!End \/ Stream!Hangup]_(Stream!streamVars)
<1> SUFFICES ASSUME PInv, [PNext]_pvars
             PROVE  [Stream!Put \/ Stream!Get \/ Stream!End \/ Stream!Hangup]_(Stream!streamVars)
  OBVIOUS
<1>1. CASE PNext
  <2>1. PICK p \in Procs :
          \/ \E n \in 1..Capacity : \E data \in [1..n -> Bytes] : Write(p, data)
          \/ \E n \in 1..Capacity : ReadData(p, n)
          \/ Waiting(p) \/ Descriptor(p)
    BY <1>1, StepKinds
  <2>2. CASE Descriptor(p)
    BY <2>2, DescriptorRefines, StreamFrame
  <2>3. CASE Waiting(p)
    BY <2>3, WaitingRefines, EofRefines, StreamFrame
  <2>4. ASSUME NEW n \in 1..Capacity, NEW data \in [1..n -> Bytes], Write(p, data)
        PROVE  Stream!Put
    BY <2>4, WriteRefines
  <2>5. ASSUME NEW n \in 1..Capacity, ReadData(p, n)
        PROVE  Stream!Get
    BY <2>5, ReadRefines
  <2> QED BY <2>1, <2>2, <2>3, <2>4, <2>5
<1>2. CASE UNCHANGED pvars
  BY <1>2, StreamFrame DEF pvars, tableVars, Descriptors
<1> QED BY <1>1, <1>2

\* The pipe starts where the stream does.
LEMMA StreamInits == PInit => Stream!StreamInit
<1> SUFFICES ASSUME PInit PROVE Stream!StreamInit
  OBVIOUS
<1>1. Loaded(len) = << >> /\ last = << >>
  BY DEF PInit, Loaded
<1>2. Creator \in Procs /\ 1 \in Slots
  BY PipeAssumption DEF Slots
<1>3. table[Creator][1] = "w"
  BY <1>2 DEF PInit
<1>4. (Descriptors("w") # {}) = TRUE
  <2>1. <<Creator, 1>> \in Descriptors("w")
    BY <1>2, <1>3 DEF Descriptors
  <2> QED BY <2>1
<1> QED BY <1>1, <1>4 DEF Stream!StreamInit

\* The ring buffer with its counts implements ByteStream: bytes come out once and
\* in order, within the capacity, and the end is reported only when nobody holds
\* the write end.
THEOREM PipeImplementsStream == PSpec => ImplementsStream
<1> QED
  BY StreamInits, StreamNext, PInvariant, PTL DEF PSpec, ImplementsStream, Stream!StreamSpec
=============================================================================
