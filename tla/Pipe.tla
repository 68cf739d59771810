-------------------------------- MODULE Pipe --------------------------------
(***************************************************************************)
(* One anonymous pipe: the ring buffer of ipc/pipe.rs, the descriptors that *)
(* refer to it in the tables of ipc/fd.rs, and the system calls of the      *)
(* processes that hold them. A process has one thread and a table of its    *)
(* own: fork and clone copy the table.                                      *)
(*                                                                          *)
(* The mutex of the pipe makes each of its methods one step, wakeups        *)
(* included. A table is changed under the process manager's lock, which     *)
(* dup2 keeps between the two methods it calls; reads and writes take the   *)
(* pipe's mutex only. Calls that fail (EBADF, EPIPE, EMFILE, EAGAIN) change *)
(* nothing and have no action. A thread that is runnable runs (ReadyRuns of *)
(* Scheduler); one that is Blocked runs on until it is switched out.        *)
(***************************************************************************)
EXTENDS Integers, Sequences, FiniteSets, FiniteSetsExt

CONSTANTS Procs,          \* processes, the first of which creates the pipe
          Creator,
          MaxFds,         \* MAX_FDS
          Capacity,       \* PIPE_BUF_SIZE
          Bytes,
          Readers,        \* processes that call read
          Interrupted     \* processes that may be sent a signal

ASSUME PipeAssumption ==
  /\ Creator \in Procs /\ Readers \subseteq Procs /\ Interrupted \subseteq Procs
  /\ MaxFds \in Nat /\ MaxFds >= 2 /\ Capacity \in Nat \ {0} /\ Bytes # {}

Slots == 0..(MaxFds - 1)

VARIABLES
  buffer, read_pos, write_pos, len, readers, writers, read_waiters, \* PipeBuffer
  table,      \* fd_table of each process: the end a slot refers to, or "free"
  extracted,  \* entries taken out of the table of a process that has ended
  manager,    \* the dup2 that holds the process manager's lock, if any
  pc, st, off, \* each thread: where it is, its state, and whether it is off its CPU
  pending,    \* processes with a signal pending
  last        \* history: what the last read that returned has delivered

ringVars == <<buffer, read_pos, write_pos, len>>
countVars == <<readers, writers>>
tableVars == <<table, extracted, manager>>
threadVars == <<st, off>>
pvars == <<ringVars, countVars, read_waiters, tableVars, pc, threadVars, pending, last>>

Step(p, from, to) == p \notin off /\ pc[p] = from /\ pc' = [pc EXCEPT ![p] = to]

-----------------------------------------------------------------------------
(***************************************************************************)
(* PipeBuffer                                                               *)
(***************************************************************************)
HasDataOrEof == len > 0 \/ writers = 0

\* unblock on everyone in read_waiters
WakeReadWaiters ==
  /\ st' = [p \in Procs |-> IF p \in read_waiters /\ st[p] = "Blocked"
                            THEN "Runnable" ELSE st[p]]
  /\ off' = off \ {p \in read_waiters : st[p] = "Blocked"}
  /\ read_waiters' = {}

CloseRead == readers' = readers - 1 /\ UNCHANGED <<writers, read_waiters, threadVars>>

CloseWriteQuietly ==
  writers' = writers - 1 /\ UNCHANGED <<readers, read_waiters, threadVars>>

\* the last writer wakes the readers
CloseWrite ==
  /\ writers' = writers - 1
  /\ IF writers = 1 THEN WakeReadWaiters ELSE UNCHANGED <<read_waiters, threadVars>>
  /\ UNCHANGED readers

Release(end) == IF end = "r" THEN CloseRead ELSE CloseWrite

\* add_reader r times and add_writer w times
AddEnds(r, w) == readers' = readers + r /\ writers' = writers + w

\* the loop of write: one byte after another, each at the next position
Stored(data) ==
  [i \in DOMAIN buffer |->
     LET k == (i - write_pos) % Capacity IN IF k < Len(data) THEN data[k + 1] ELSE buffer[i]]

\* the loop of read
Loaded(n) == [k \in 1..n |-> buffer[(read_pos + k - 1) % Capacity]]

-----------------------------------------------------------------------------
(***************************************************************************)
(* write                                                                    *)
(***************************************************************************)
AcceptedAll(data) == data
Accepted(data) == SubSeq(data, 1, Min({Len(data), Capacity - len}))

Write(p, data) ==
  /\ Step(p, "user", "user")
  /\ \E s \in Slots : table[p][s] = "w"
  /\ readers > 0 /\ len < Capacity
  /\ buffer' = Stored(Accepted(data))
  /\ write_pos' = (write_pos + Len(Accepted(data))) % Capacity
  /\ len' = len + Len(Accepted(data))
  /\ WakeReadWaiters
  /\ UNCHANGED <<read_pos, countVars, tableVars, pending, last>>

-----------------------------------------------------------------------------
(***************************************************************************)
(* read, blocking                                                           *)
(***************************************************************************)
Read(p) ==
  /\ p \in Readers /\ Step(p, "user", "try")
  /\ \E s \in Slots : table[p][s] = "r"
  /\ UNCHANGED <<ringVars, countVars, read_waiters, tableVars, threadVars, pending, last>>

ReadData(p, n) ==
  LET read == Min({n, len})
  IN  /\ len > 0
      /\ Step(p, "try", "user")
      /\ last' = Loaded(read)
      /\ read_pos' = (read_pos + read) % Capacity
      /\ len' = len - read
      /\ UNCHANGED <<buffer, write_pos, countVars, read_waiters, tableVars, threadVars, pending>>

ReadEof(p) ==
  /\ len = 0 /\ writers = 0
  /\ Step(p, "try", "user")
  /\ last' = << >>
  /\ UNCHANGED <<ringVars, countVars, read_waiters, tableVars, threadVars, pending>>

\* EAGAIN: the lock is released, and the reader registers in a second step
ReadEmpty(p) ==
  /\ len = 0 /\ writers > 0
  /\ Step(p, "try", "register")
  /\ UNCHANGED <<ringVars, countVars, read_waiters, tableVars, threadVars, pending, last>>

AddReadWaiter(p) ==
  /\ Step(p, "register", "block")
  /\ read_waiters' = read_waiters \union {p}
  /\ UNCHANGED <<ringVars, countVars, tableVars, threadVars, pending, last>>

BlockCurrent(p) ==
  /\ Step(p, "block", "recheck")
  /\ st' = [st EXCEPT ![p] = "Blocked"]
  /\ UNCHANGED <<ringVars, countVars, read_waiters, tableVars, off, pending, last>>

RecheckSkipped(p) ==
  /\ Step(p, "recheck", "loop")
  /\ UNCHANGED <<ringVars, countVars, read_waiters, tableVars, threadVars, pending, last>>

\* data_ready: ready again, and still listed in read_waiters if nobody woke it
Recheck(p) ==
  /\ Step(p, "recheck", IF HasDataOrEof THEN "try" ELSE "loop")
  /\ st' = IF HasDataOrEof THEN [st EXCEPT ![p] = "Runnable"] ELSE st
  /\ UNCHANGED <<ringVars, countVars, read_waiters, tableVars, off, pending, last>>

LoopSignals(p) ==
  /\ Step(p, "loop", IF p \in pending THEN "eintr" ELSE "halt")
  /\ UNCHANGED <<ringVars, countVars, read_waiters, tableVars, threadVars, pending, last>>

LoopState(p) ==
  /\ Step(p, "halt", IF st[p] = "Blocked" THEN "loop" ELSE "try")
  /\ UNCHANGED <<ringVars, countVars, read_waiters, tableVars, threadVars, pending, last>>

\* EINTR: remove_read_waiter under the pipe's lock ...
Unregister(p) ==
  /\ Step(p, "eintr", "ready")
  /\ read_waiters' = read_waiters \ {p}
  /\ UNCHANGED <<ringVars, countVars, tableVars, threadVars, pending, last>>

\* ... then set_ready under the scheduler's; the signal is delivered on the way out
ReturnEintr(p) ==
  /\ Step(p, "ready", "user")
  /\ st' = [st EXCEPT ![p] = "Runnable"]
  /\ pending' = pending \ {p}
  /\ UNCHANGED <<ringVars, countVars, read_waiters, tableVars, off, last>>

ReaderStep(p) ==
  \/ \E n \in 1..Capacity : ReadData(p, n)
  \/ ReadEof(p) \/ ReadEmpty(p)
  \/ AddReadWaiter(p) \/ BlockCurrent(p) \/ Recheck(p)
  \/ LoopSignals(p) \/ LoopState(p) \/ Unregister(p) \/ ReturnEintr(p)

\* preemption is enabled in the halt loop only
SwitchOut(p) ==
  /\ p \notin off /\ st[p] = "Blocked"
  /\ pc[p] \in {"loop", "halt", "eintr", "ready"}
  /\ off' = off \union {p}
  /\ UNCHANGED <<ringVars, countVars, read_waiters, tableVars, pc, st, pending, last>>

\* send_signal_to_process: unblock_for_signal does not wake a thread in Blocked
PostSignal(p) ==
  /\ p \in Interrupted \ pending /\ pc[p] \notin {"unborn", "user", "ended"}
  /\ pending' = pending \union {p}
  /\ UNCHANGED <<ringVars, countVars, read_waiters, tableVars, pc, threadVars, last>>

-----------------------------------------------------------------------------
(***************************************************************************)
(* The descriptor table                                                     *)
(***************************************************************************)
Open(p) == {s \in Slots : table[p][s] # "free"}
Free(p) == Slots \ Open(p)

\* close, and each entry that close_cloexec drops
Close(p, s) ==
  /\ manager = {} /\ s \in Open(p)
  /\ Step(p, "user", "user")
  /\ table' = [table EXCEPT ![p][s] = "free"]
  /\ Release(table[p][s])
  /\ UNCHANGED <<ringVars, extracted, manager, pending, last>>

\* dup and F_DUPFD; the slot is the lowest that is free from min_fd on
Dup(p, s, minFd) ==
  LET slots == {i \in Free(p) : i >= minFd}
      end == table[p][s]
  IN  /\ manager = {} /\ s \in Open(p) /\ slots # {}
      /\ Step(p, "user", "user")
      /\ table' = [table EXCEPT ![p][Min(slots)] = end]
      /\ AddEnds(IF end = "r" THEN 1 ELSE 0, IF end = "w" THEN 1 ELSE 0)
      /\ UNCHANGED <<ringVars, read_waiters, threadVars, extracted, manager, pending, last>>

\* dup2 of a slot to itself changes nothing
Dup2Replaces(old, new) == TRUE
Dup2Differs(old, new) == old # new

\* dup2 onto an open slot: its entry is closed first ...
Dup2Close(p, old, new) ==
  /\ manager = {} /\ {old, new} \subseteq Open(p) /\ Dup2Differs(old, new)
  /\ Step(p, "user", "dup2")
  /\ manager' = {[proc |-> p, end |-> table[p][old], slot |-> new]}
  /\ table' = [table EXCEPT ![p][new] = "free"]
  /\ Release(table[p][new])
  /\ UNCHANGED <<ringVars, extracted, pending, last>>

\* ... and the duplicate, taken before, is counted and stored
Dup2Store(p) ==
  \E d \in manager :
    /\ d.proc = p
    /\ Step(p, "dup2", "user")
    /\ manager' = {}
    /\ table' = [table EXCEPT ![p][d.slot] = d.end]
    /\ AddEnds(IF d.end = "r" THEN 1 ELSE 0, IF d.end = "w" THEN 1 ELSE 0)
    /\ UNCHANGED <<ringVars, read_waiters, threadVars, extracted, pending, last>>

Ends(p, end) == Cardinality({s \in Slots : table[p][s] = end})

\* fork and clone: FdTable::clone
ForkUncounted(p, q) ==
  /\ manager = {} /\ pc[q] = "unborn" /\ pc[p] = "user"
  /\ pc' = [pc EXCEPT ![q] = "user"]
  /\ table' = [table EXCEPT ![q] = table[p]]
  /\ UNCHANGED <<ringVars, countVars, read_waiters, threadVars, extracted, manager, pending, last>>

Fork(p, q) ==
  /\ manager = {} /\ pc[q] = "unborn" /\ pc[p] = "user"
  /\ pc' = [pc EXCEPT ![q] = "user"]
  /\ table' = [table EXCEPT ![q] = table[p]]
  /\ AddEnds(Ends(p, "r"), Ends(p, "w"))
  /\ UNCHANGED <<ringVars, read_waiters, threadVars, extracted, manager, pending, last>>

\* exit and SIGKILL, the latter also in the middle of a read: the entries are
\* taken out of the table, then closed one by one
Exit(p) ==
  /\ manager = {} /\ pc[p] \notin {"unborn", "ended"}
  /\ pc' = [pc EXCEPT ![p] = "ended"]
  /\ st' = [st EXCEPT ![p] = "Terminated"]
  /\ off' = off \union {p}
  /\ table' = [table EXCEPT ![p] = [s \in Slots |-> "free"]]
  /\ extracted' = [extracted EXCEPT ![p] = {<<s, table[p][s]>> : s \in Open(p)}]
  /\ pending' = pending \ {p}
  /\ UNCHANGED <<ringVars, countVars, read_waiters, manager, last>>

CloseExtracted(p) ==
  /\ extracted[p] # {}
  /\ LET entry == CHOOSE e \in extracted[p] : \A f \in extracted[p] : e[1] <= f[1]
     IN  /\ extracted' = [extracted EXCEPT ![p] = @ \ {entry}]
         /\ Release(entry[2])
  /\ UNCHANGED <<ringVars, table, manager, pc, pending, last>>

-----------------------------------------------------------------------------
\* after a successful pipe() of the creator
PInit ==
  /\ buffer \in [0..(Capacity - 1) -> {CHOOSE b \in Bytes : TRUE}]
  /\ read_pos = 0 /\ write_pos = 0 /\ len = 0
  /\ readers = 1 /\ writers = 1 /\ read_waiters = {}
  /\ table = [p \in Procs |-> [s \in Slots |->
                IF p # Creator THEN "free"
                ELSE IF s = 0 THEN "r" ELSE IF s = 1 THEN "w" ELSE "free"]]
  /\ extracted = [p \in Procs |-> {}] /\ manager = {}
  /\ pc = [p \in Procs |-> IF p = Creator THEN "user" ELSE "unborn"]
  /\ st = [p \in Procs |-> "Runnable"] /\ off = {}
  /\ pending = {} /\ last = << >>

PNext ==
  \E p \in Procs :
    \/ \E n \in 1..Capacity : \E data \in [1..n -> Bytes] : Write(p, data)
    \/ Read(p) \/ ReaderStep(p) \/ SwitchOut(p) \/ PostSignal(p)
    \/ \E s \in Slots : \/ Close(p, s)
                        \/ \E t \in Slots : Dup(p, s, t) \/ Dup2Close(p, s, t)
    \/ Dup2Store(p)
    \/ \E q \in Procs : Fork(p, q)
    \/ Exit(p) \/ CloseExtracted(p)

PSpec == PInit /\ [][PNext]_pvars

(***************************************************************************)
(* Threads that can run do, dup2 and the teardown of a process come to      *)
(* their end. Nobody has to write, to close or to exit.                     *)
(***************************************************************************)
PFairness ==
  \A p \in Procs :
    WF_pvars(ReaderStep(p)) /\ WF_pvars(Dup2Store(p)) /\ WF_pvars(CloseExtracted(p))

PFairSpec == PSpec /\ PFairness

-----------------------------------------------------------------------------
(***************************************************************************)
(* Properties.                                                              *)
(***************************************************************************)

\* Every variable holds a value of the type the code gives it.
PTypeOK ==
  /\ buffer \in [0..(Capacity - 1) -> Bytes]
  /\ {read_pos, write_pos} \subseteq 0..(Capacity - 1) /\ len \in 0..Capacity
  /\ {readers, writers} \subseteq Nat
  /\ table \in [Procs -> [Slots -> {"free", "r", "w"}]]
  /\ extracted \in [Procs -> SUBSET (Slots \X {"r", "w"})]
  /\ manager \subseteq [proc : Procs, end : {"r", "w"}, slot : Slots]
  /\ pc \in [Procs -> {"unborn", "user", "try", "register", "block", "recheck",
                        "loop", "halt", "eintr", "ready", "dup2", "ended"}]
  /\ st \in [Procs -> {"Runnable", "Blocked", "Terminated"}]
  /\ read_waiters \union off \union pending \subseteq Procs
  /\ last \in UNION {[1..n -> Bytes] : n \in 0..Capacity}

\* A descriptor is counted exactly once, from the call that creates it to the
\* one that drops it, through dup, dup2 over an open slot, fork, exec, exit and
\* kill: a count that is too high keeps readers waiting for ever, one that is
\* too low ends the stream under a live writer.
Descriptors(end) ==
  {d \in Procs \X Slots : \/ table[d[1]][d[2]] = end
                          \/ <<d[2], end>> \in extracted[d[1]]}

CountsAreDescriptors ==
  readers = Cardinality(Descriptors("r")) /\ writers = Cardinality(Descriptors("w"))

\* A reader that is off its CPU is one that the next write or the last close
\* will wake: registering, blocking and looking again in that order leaves no
\* gap for either. The exception is the end of an interrupted read, which is off
\* the list before it is runnable again.
Interrupting(p) == pc[p] = "ready"

ParkedReaderIsFound ==
  \A p \in off : st[p] = "Blocked" /\ ~Interrupting(p)
                => p \in read_waiters /\ ~HasDataOrEof

\* A reader does not sit for ever before a pipe that has bytes for it or has
\* ended.
Reading(p) == pc[p] \in {"try", "register", "block", "recheck", "loop", "halt", "eintr"}

ReaderReturns == \A p \in Procs : []<>~(Reading(p) /\ HasDataOrEof)

\* The ring buffer with its counts is a byte stream: in order, once, within its
\* capacity, and ended only when nobody holds the write end.
Stream == INSTANCE ByteStream
            WITH stream <- Loaded(len), open <- Descriptors("w") # {}

ImplementsStream == Stream!StreamSpec
=============================================================================
