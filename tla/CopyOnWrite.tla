---------------------------- MODULE CopyOnWrite ----------------------------
(***************************************************************************)
(* The frames behind the pages of user processes (AArch64): the allocator   *)
(* and its mapping counts, fork with copy-on-write, the write fault, mmap   *)
(* and munmap, and the end of an address space, by its own exit or by       *)
(* SIGKILL while its thread may be on another CPU.                          *)
(*                                                                          *)
(* A process has one thread, and every thread has a CPU to run on: s is the *)
(* name of the process, its address space, its thread and that CPU. What    *)
(* needs the process manager's lock waits for it; the allocator, mmap once  *)
(* it has looked up the page table, and the deferred drain run without it.  *)
(* Page-table frames are not counted, so an allocation that fails for want  *)
(* of one appears as a fork that fails. A frame whose count has reached     *)
(* zero is out of everyone's reach until it is on the free list: dropping   *)
(* the count and returning the frame are one step.                          *)
(***************************************************************************)
EXTENDS Integers, Sequences, FiniteSets, Functions

CONSTANTS Spaces, First,  \* processes, and the one there is at the start
          Pages, SharedPages,  \* user pages; the ones mapped MAP_SHARED
          Values, Zero,   \* contents of a page; of a new one
          FrameCount,     \* frames of the memory map
          Contended,      \* the try_locks that may fail: of the free list, of the receipts
          ForkMayFail,    \* map_page may refuse in the middle of a fork
          Mappers, Victims, \* processes that call mmap or munmap; that may be killed
          NoPage, Nobody

Frames == 0..(FrameCount - 1)
Mapping == [frame : Frames, flags : {"rw", "cow"}]

ASSUME CowAssumption ==
  /\ First \in Spaces /\ Mappers \subseteq Spaces /\ Victims \subseteq Spaces
  /\ SharedPages \subseteq Pages /\ Zero \in Values
  /\ IsFiniteSet(Pages) /\ FrameCount \in Nat /\ FrameCount >= Cardinality(Pages)
  /\ Contended \subseteq {"allocate", "return", "receipt"} /\ ForkMayFail \in BOOLEAN
  /\ Nobody \notin Spaces /\ NoPage \notin Values \cup Pages \cup Mapping

VARIABLES
  allocation, leaf_refs,        \* FrameLedgerSlot: state and mapping count
  FREE_FRAMES, NEXT_FREE_FRAME, \* the stack of returned frames; the frontier
  mem,        \* contents of each frame
  pt, leaves, \* descriptors of each space; pages it still holds a count for
  custody,    \* who owns the page table of a space
  tlb,        \* translations cached by the CPU that runs s
  pc,         \* where the thread of s is
  page,       \* the page its system call or fault is about
  manager,    \* the thread that holds the process manager's lock
  work, child, copy, \* its operation: pages to do, the child, the new frame
  fence       \* retired spaces whose grace period has not passed on their CPU

allocVars == <<allocation, leaf_refs, FREE_FRAMES, NEXT_FREE_FRAME>>
spaceVars == <<pt, leaves>>
lockVars == <<manager, work, child, copy>>
cvars == <<allocVars, mem, spaceVars, custody, tlb, pc, page, lockVars, fence>>

\* the root of s is in the TTBR0 or in a TTBR0 shadow of a CPU
Installed(s) == pc[s] \in {"user", "fault", "copy", "fork", "mmap"}
Goto(s, from, to) == pc[s] = from /\ pc' = [pc EXCEPT ![s] = to]
EmptyTable == [v \in Pages |-> NoPage]
\* tlbi vmalle1is, and tlbi vale1is for one page
FlushAll == tlb' = [s \in Spaces |-> EmptyTable]
FlushPage(v) == tlb' = [s \in Spaces |-> [tlb[s] EXCEPT ![v] = NoPage]]

-----------------------------------------------------------------------------
(***************************************************************************)
(* Frame allocator                                                          *)
(***************************************************************************)
\* claim_frame refuses a frame that is allocated or still mapped
Claimable(f) == allocation[f] # "allocated" /\ leaf_refs[f] = 0

\* allocate_candidate: the top of the free list ...
PopFree(f) ==
  /\ \E i \in DOMAIN FREE_FRAMES :
       /\ f = FREE_FRAMES[i] /\ Claimable(f)
       /\ \A j \in i + 1..Len(FREE_FRAMES) : ~Claimable(FREE_FRAMES[j])
       /\ FREE_FRAMES' = SubSeq(FREE_FRAMES, 1, i - 1)
  /\ UNCHANGED NEXT_FREE_FRAME

FrontierWastes(f) ==
  /\ "allocate" \in Contended \/ FREE_FRAMES = << >>
  /\ NEXT_FREE_FRAME < FrameCount
  /\ f = NEXT_FREE_FRAME /\ NEXT_FREE_FRAME' = NEXT_FREE_FRAME + 2
  /\ UNCHANGED FREE_FRAMES

\* ... or, when it is empty or its lock is taken, the next frame of the map
Frontier(f) ==
  /\ "allocate" \in Contended \/ FREE_FRAMES = << >>
  /\ NEXT_FREE_FRAME < FrameCount
  /\ f = NEXT_FREE_FRAME /\ NEXT_FREE_FRAME' = NEXT_FREE_FRAME + 1
  /\ UNCHANGED FREE_FRAMES

Allocate(f) ==
  /\ PopFree(f) \/ Frontier(f)
  /\ allocation' = [allocation EXCEPT ![f] = "allocated"]

OutOfMemory ==
  /\ NEXT_FREE_FRAME = FrameCount
  /\ "allocate" \in Contended \/ \A i \in DOMAIN FREE_FRAMES : ~Claimable(FREE_FRAMES[i])

\* release_leaf_record, with the other counts as in refs: drop the count of f; at
\* zero return the frame, which is lost when the free list's lock is taken
ReleaseLeaf(f, refs) ==
  /\ leaf_refs' = [refs EXCEPT ![f] = IF @ = 0 THEN 0 ELSE @ - 1]
  /\ IF refs[f] # 1 THEN UNCHANGED <<allocation, FREE_FRAMES>>
     ELSE /\ allocation' = [allocation EXCEPT ![f] = "free"]
          /\ \/ FREE_FRAMES' = Append(FREE_FRAMES, f)
             \/ "return" \in Contended /\ UNCHANGED FREE_FRAMES
  /\ UNCHANGED NEXT_FREE_FRAME

-----------------------------------------------------------------------------
(***************************************************************************)
(* User mode: a cached translation is used as it is, a missing one is       *)
(* fetched from the page table. A load caches what a store of the value     *)
(* that is there already does, and has no action of its own.                *)
(***************************************************************************)
Translation(s, v) == IF tlb[s][v] # NoPage THEN tlb[s][v] ELSE pt[s][v]
Cached(s, v) == tlb' = [tlb EXCEPT ![s][v] = Translation(s, v)]

Store(s, v, x) ==
  /\ pc[s] = "user" /\ Translation(s, v) # NoPage /\ Translation(s, v).flags = "rw"
  /\ Cached(s, v)
  /\ mem' = [mem EXCEPT ![Translation(s, v).frame] = x]
  /\ UNCHANGED <<allocVars, spaceVars, custody, pc, page, lockVars, fence>>

\* a store without permission
StoreFaults(s, v) ==
  /\ Translation(s, v) # NoPage /\ Translation(s, v).flags = "cow"
  /\ Goto(s, "user", "fault")
  /\ Cached(s, v) /\ page' = [page EXCEPT ![s] = v]
  /\ UNCHANGED <<allocVars, mem, spaceVars, custody, lockVars, fence>>

-----------------------------------------------------------------------------
(***************************************************************************)
(* handle_cow_fault_arm64, under the manager's lock                         *)
(***************************************************************************)
IsCowFault(s) ==
  /\ custody[s] = "row"
  /\ pt[s][page[s]] # NoPage /\ pt[s][page[s]].flags = "cow"

FrameIsSharedLate(f) == leaf_refs[f] > 2
FrameIsShared(f) == leaf_refs[f] > 1

\* back to user mode
Resume(s, from) == Goto(s, from, "user") /\ page' = [page EXCEPT ![s] = NoPage]

\* the only owner gets the page back writable
FaultSole(s) ==
  /\ Resume(s, "fault") /\ manager = Nobody /\ IsCowFault(s)
  /\ ~FrameIsShared(pt[s][page[s]].frame)
  /\ pt' = [pt EXCEPT ![s][page[s]].flags = "rw"]
  /\ FlushPage(page[s])
  /\ UNCHANGED <<allocVars, mem, leaves, custody, lockVars, fence>>

FaultCopy(s) ==
  /\ Goto(s, "fault", "copy") /\ manager = Nobody /\ IsCowFault(s)
  /\ FrameIsShared(pt[s][page[s]].frame)
  /\ \E f \in Frames :
       /\ Allocate(f)
       /\ mem' = [mem EXCEPT ![f] = mem[pt[s][page[s]].frame]]
       /\ copy' = f
  /\ manager' = s
  /\ UNCHANGED <<leaf_refs, spaceVars, custody, tlb, page, work, child, fence>>

\* unmap_page, which drops the count of the old frame, and map_page of the copy
FaultRemap(s) ==
  /\ Resume(s, "copy")
  /\ ReleaseLeaf(pt[s][page[s]].frame, [leaf_refs EXCEPT ![copy] = @ + 1])
  /\ pt' = [pt EXCEPT ![s][page[s]] = [frame |-> copy, flags |-> "rw"]]
  /\ FlushPage(page[s])
  /\ manager' = Nobody /\ copy' = Nobody
  /\ UNCHANGED <<mem, leaves, custody, work, child, fence>>

\* no frame for the copy, or not a fault the handler knows: the CPU leaves the
\* address space, and the process is retired below
FaultFails(s) ==
  /\ Goto(s, "fault", "dying") /\ manager = Nobody
  /\ IsCowFault(s) => FrameIsShared(pt[s][page[s]].frame) /\ OutOfMemory
  /\ page' = [page EXCEPT ![s] = NoPage]
  /\ FlushAll
  /\ UNCHANGED <<allocVars, mem, spaceVars, custody, lockVars, fence>>

-----------------------------------------------------------------------------
(***************************************************************************)
(* fork_process_aarch64, under the manager's lock                           *)
(***************************************************************************)
Fork(p, c) ==
  /\ Goto(p, "user", "fork") /\ manager = Nobody /\ custody[p] = "row"
  /\ custody[c] = "none" /\ pc[c] = "none"
  /\ manager' = p /\ child' = c /\ work' = leaves[p]
  /\ custody' = [custody EXCEPT ![c] = "child"]
  /\ UNCHANGED <<allocVars, mem, spaceVars, tlb, page, copy, fence>>

ChildFlags(p, v) == IF v \in SharedPages THEN pt[p][v].flags ELSE "cow"

ForkPageUncounted(p) ==
  /\ pc[p] = "fork"
  /\ \E v \in work :
       LET entry == [pt[p][v] EXCEPT !.flags = ChildFlags(p, v)] IN
       /\ pt' = [pt EXCEPT ![p][v] = entry, ![child][v] = entry]
       /\ leaves' = [leaves EXCEPT ![child] = @ \cup {v}]
       /\ FlushPage(v)
       /\ work' = work \ {v}
  /\ UNCHANGED <<allocVars, mem, custody, pc, page, manager, child, copy, fence>>

\* one page of setup_cow_pages_with_vmas: a writable private page loses its
\* permission in the parent; the child maps the same frame with the same flags
ForkPage(p) ==
  /\ pc[p] = "fork"
  /\ \E v \in work :
       LET entry == [pt[p][v] EXCEPT !.flags = ChildFlags(p, v)] IN
       /\ pt' = [pt EXCEPT ![p][v] = entry, ![child][v] = entry]
       /\ leaves' = [leaves EXCEPT ![child] = @ \cup {v}]
       /\ leaf_refs' = [leaf_refs EXCEPT ![entry.frame] = @ + 1]
       /\ IF entry = pt[p][v] THEN UNCHANGED tlb ELSE FlushPage(v)
       /\ work' = work \ {v}
  /\ UNCHANGED <<allocation, FREE_FRAMES, NEXT_FREE_FRAME, mem, custody, pc, page,
                 manager, child, copy, fence>>

\* the child is published; the system call's return flushes the TLB
ForkDone(p) ==
  /\ pc[p] = "fork" /\ work = {}
  /\ pc' = [pc EXCEPT ![p] = "user", ![child] = "off"]
  /\ custody' = [custody EXCEPT ![child] = "row"]
  /\ manager' = Nobody /\ child' = Nobody
  /\ FlushAll
  /\ UNCHANGED <<allocVars, mem, spaceVars, page, work, copy, fence>>

\* map_page of the child refuses: the error return leaves the function while it
\* holds both page tables, which are dropped, their counts with them; the parent
\* goes on in user mode without one in its row
ForkFails(p) ==
  /\ ForkMayFail
  /\ Goto(p, "fork", "user")
  /\ \E v \in work : pt' = [pt EXCEPT ![p][v].flags = ChildFlags(p, v)]
  /\ custody' = [custody EXCEPT ![p] = "lost", ![child] = "lost"]
  /\ manager' = Nobody /\ child' = Nobody /\ work' = {}
  /\ FlushAll
  /\ UNCHANGED <<allocVars, mem, leaves, page, copy, fence>>

-----------------------------------------------------------------------------
(***************************************************************************)
(* sys_mmap of a private page, sys_munmap                                   *)
(***************************************************************************)
\* the page table is looked up under the lock, and used after it is released
MapLookup(s, v) ==
  /\ Goto(s, "user", "mmap") /\ manager = Nobody /\ s \in Mappers
  /\ custody[s] = "row" /\ v \notin SharedPages /\ pt[s][v] = NoPage
  /\ page' = [page EXCEPT ![s] = v]
  /\ UNCHANGED <<allocVars, mem, spaceVars, custody, tlb, lockVars, fence>>

MapPage(s) ==
  /\ Resume(s, "mmap")
  /\ \E f \in Frames :
       /\ Allocate(f)
       /\ leaf_refs' = [leaf_refs EXCEPT ![f] = @ + 1]
       /\ pt' = [pt EXCEPT ![s][page[s]] = [frame |-> f, flags |-> "rw"]]
       /\ mem' = [mem EXCEPT ![f] = Zero]
  /\ leaves' = [leaves EXCEPT ![s] = @ \cup {page[s]}]
  /\ FlushAll
  /\ UNCHANGED <<custody, lockVars, fence>>

MapFails(s) ==
  /\ Resume(s, "mmap") /\ OutOfMemory
  /\ FlushAll
  /\ UNCHANGED <<allocVars, mem, spaceVars, custody, lockVars, fence>>

Unmap(s, v) ==
  /\ pc[s] = "user" /\ manager = Nobody /\ s \in Mappers
  /\ custody[s] = "row" /\ v \in leaves[s]
  /\ ReleaseLeaf(pt[s][v].frame, leaf_refs)
  /\ pt' = [pt EXCEPT ![s][v] = NoPage]
  /\ leaves' = [leaves EXCEPT ![s] = @ \ {v}]
  /\ FlushAll
  /\ UNCHANGED <<mem, custody, pc, page, lockVars, fence>>

-----------------------------------------------------------------------------
(***************************************************************************)
(* A thread on and off its CPU. Dispatch reads the root under the manager's *)
(* lock, but stamps it into the CPU's shadow after it has released it.      *)
(***************************************************************************)
Preempt(s) ==
  /\ Goto(s, "user", "off") /\ FlushAll
  /\ UNCHANGED <<allocVars, mem, spaceVars, custody, page, lockVars, fence>>

Dispatch(s) ==
  /\ Goto(s, "off", "dispatch") /\ manager = Nobody /\ custody[s] = "row"
  /\ UNCHANGED <<allocVars, mem, spaceVars, custody, tlb, page, lockVars, fence>>

Stamp(s) ==
  /\ Goto(s, "dispatch", "user") /\ FlushAll
  /\ UNCHANGED <<allocVars, mem, spaceVars, custody, page, lockVars, fence>>

\* ProcessGone: no page table in the row
DispatchGone(s) ==
  /\ Goto(s, "off", "none") /\ manager = Nobody /\ custody[s] # "row"
  /\ UNCHANGED <<allocVars, mem, spaceVars, custody, tlb, page, lockVars, fence>>

-----------------------------------------------------------------------------
(***************************************************************************)
(* The end of an address space                                              *)
(***************************************************************************)
\* sys_exit leaves the address space before it tears it down
Exit(s) ==
  /\ Goto(s, "user", "exit") /\ FlushAll
  /\ UNCHANGED <<allocVars, mem, spaceVars, custody, page, lockVars, fence>>

\* handle_thread_exit: the root is on no CPU, the leaves are released at once
ExitLocked(s) ==
  /\ Goto(s, "exit", "release") /\ manager = Nobody /\ custody[s] = "row"
  /\ manager' = s
  /\ UNCHANGED <<allocVars, mem, spaceVars, custody, tlb, page, work, child, copy, fence>>

\* somebody else has retired the process already
ExitRepeated(s) ==
  /\ \E from \in {"exit", "dying"} : Goto(s, from, "none")
  /\ manager = Nobody /\ custody[s] # "row"
  /\ UNCHANGED <<allocVars, mem, spaceVars, custody, tlb, page, lockVars, fence>>

\* exit_process_and_retire: the page table moves into a receipt, abandoned if the
\* receipts' lock is taken; the grace period starts
Retire(s) ==
  /\ manager = Nobody /\ custody[s] = "row"
  /\ \/ custody' = [custody EXCEPT ![s] = "receipt"] /\ fence' = fence \cup {s}
     \/ "receipt" \in Contended /\ custody' = [custody EXCEPT ![s] = "lost"] /\ UNCHANGED fence
  /\ UNCHANGED <<allocVars, mem, spaceVars, tlb, page, lockVars>>

FaultExit(s) == Goto(s, "dying", "none") /\ Retire(s)

\* SIGKILL from another CPU
Kill(s) == s \in Victims /\ pc[s] # "dying" /\ Retire(s) /\ UNCHANGED pc

TickBusy(s) ==
  /\ s \in fence /\ Installed(s)
  /\ fence' = fence \ {s}
  /\ UNCHANGED <<allocVars, mem, spaceVars, custody, tlb, pc, page, lockVars>>

\* the CPU passes the grace period, which it cannot in the middle of a dispatch
Tick(s) ==
  /\ s \in fence /\ pc[s] # "dispatch"
  /\ fence' = fence \ {s}
  /\ UNCHANGED <<allocVars, mem, spaceVars, custody, tlb, pc, page, lockVars>>

RootProofEarly(s) == ~Installed(s)

\* lock_free_root_proof: grace period, hardware root and shadows
RootProof(s) == s \notin fence /\ ~Installed(s)

\* reclaim_deferred_process_resources, one receipt at a time
Reclaim(s) ==
  /\ custody[s] = "receipt" /\ RootProof(s)
  /\ \A t \in Spaces : custody[t] # "draining"
  /\ custody' = [custody EXCEPT ![s] = "draining"]
  /\ UNCHANGED <<allocVars, mem, spaceVars, tlb, pc, page, lockVars, fence>>

Releasing(s) == pc[s] = "release" \/ custody[s] = "draining"

\* release_mapped_leaves: the frame is the one the descriptor names now
ReleaseMappedLeaf(s) ==
  /\ Releasing(s)
  /\ \E v \in leaves[s] :
       /\ ReleaseLeaf(pt[s][v].frame, leaf_refs)
       /\ leaves' = [leaves EXCEPT ![s] = @ \ {v}]
  /\ UNCHANGED <<mem, pt, custody, tlb, pc, page, lockVars, fence>>

ReleaseDone(s) ==
  /\ Releasing(s) /\ leaves[s] = {}
  /\ pt' = [pt EXCEPT ![s] = EmptyTable]
  /\ custody' = [custody EXCEPT ![s] = "none"]
  /\ IF pc[s] = "release"
     THEN manager' = Nobody /\ pc' = [pc EXCEPT ![s] = "none"]
     ELSE UNCHANGED <<manager, pc>>
  /\ UNCHANGED <<allocVars, mem, leaves, tlb, page, work, child, copy, fence>>

-----------------------------------------------------------------------------
\* the first process has one frame for each page
FirstFrames == CHOOSE g \in Bijection(Pages, 0..(Cardinality(Pages) - 1)) : TRUE

CInit ==
  /\ NEXT_FREE_FRAME = Cardinality(Pages) /\ FREE_FRAMES = << >>
  /\ allocation = [f \in Frames |-> IF f < NEXT_FREE_FRAME THEN "allocated" ELSE "never"]
  /\ leaf_refs = [f \in Frames |-> IF f < NEXT_FREE_FRAME THEN 1 ELSE 0]
  /\ mem = [f \in Frames |-> Zero]
  /\ pt = [s \in Spaces |-> [v \in Pages |->
             IF s = First THEN [frame |-> FirstFrames[v], flags |-> "rw"] ELSE NoPage]]
  /\ leaves = [s \in Spaces |-> IF s = First THEN Pages ELSE {}]
  /\ custody = [s \in Spaces |-> IF s = First THEN "row" ELSE "none"]
  /\ tlb = [s \in Spaces |-> EmptyTable]
  /\ pc = [s \in Spaces |-> IF s = First THEN "off" ELSE "none"]
  /\ page = [s \in Spaces |-> NoPage]
  /\ manager = Nobody /\ work = {} /\ child = Nobody /\ copy = Nobody /\ fence = {}

\* steps of a thread that is in the kernel, of the CPUs and of the drain
KernelStep(s) ==
  \/ FaultSole(s) \/ FaultCopy(s) \/ FaultRemap(s) \/ FaultFails(s)
  \/ ForkPage(s) \/ ForkDone(s) \/ ForkFails(s) \/ MapPage(s) \/ MapFails(s)
  \/ Stamp(s) \/ DispatchGone(s) \/ ExitLocked(s) \/ ExitRepeated(s) \/ FaultExit(s)
  \/ Tick(s) \/ Reclaim(s) \/ ReleaseMappedLeaf(s) \/ ReleaseDone(s)

CNext ==
  \E s \in Spaces :
    \/ KernelStep(s)
    \/ Preempt(s) \/ Dispatch(s) \/ Exit(s) \/ Kill(s)
    \/ \E c \in Spaces : Fork(s, c)
    \/ \E v \in Pages :
         \/ StoreFaults(s, v) \/ MapLookup(s, v) \/ Unmap(s, v)
         \/ \E x \in Values : Store(s, v, x)

CSpec == CInit /\ [][CNext]_cvars

\* the kernel keeps running, and a terminated thread is switched out
CFairSpec ==
  /\ CSpec
  /\ \A s \in Spaces : WF_cvars(KernelStep(s)) /\ WF_cvars(custody[s] # "row" /\ Preempt(s))

-----------------------------------------------------------------------------
(***************************************************************************)
(* Properties                                                               *)
(***************************************************************************)
Entries == Mapping \cup {NoPage}

\* Type correctness. The frontier never passes the memory map: NEXT_FREE_FRAME is
\* only moved past a frame that exists (allocate_frame), and every page table and
\* TLB entry names a frame of it.
CTypeOK ==
  /\ allocation \in [Frames -> {"never", "allocated", "free"}]
  /\ leaf_refs \in [Frames -> Nat] /\ mem \in [Frames -> Values]
  /\ FREE_FRAMES \in Seq(Frames) /\ NEXT_FREE_FRAME \in 0..FrameCount
  /\ pt \in [Spaces -> [Pages -> Entries]] /\ tlb \in [Spaces -> [Pages -> Entries]]
  /\ leaves \in [Spaces -> SUBSET Pages]
  /\ custody \in [Spaces -> {"none", "child", "row", "receipt", "draining", "lost"}]
  /\ pc \in [Spaces -> {"none", "off", "dispatch", "user", "fault", "copy", "fork",
                        "mmap", "exit", "release", "dying"}]
  /\ page \in [Spaces -> Pages \cup {NoPage}]
  /\ manager \in Spaces \cup {Nobody} /\ child \in Spaces \cup {Nobody}
  /\ work \subseteq Pages /\ copy \in Frames \cup {Nobody} /\ fence \subseteq Spaces

\* The count of a frame is the number of mappings that will give it back, whatever
\* forks, write faults, unmaps and drains run at the same time (acquire_leaf_mapping,
\* decref_leaf_mapping): too low and a mapped frame is freed, too high and the
\* sole-owner test of the fault never sees the last owner.
MappingsOf(f) ==
  {sv \in Spaces \X Pages : sv[2] \in leaves[sv[1]] /\ pt[sv[1]][sv[2]].frame = f}

RefsAreMappings == \A f \in Frames : leaf_refs[f] = Cardinality(MappingsOf(f))

\* A thread that runs in user mode, or is about to, can reach f
Reaches(s, f) ==
  \E v \in Pages :
    \/ Installed(s) /\ pt[s][v] # NoPage /\ pt[s][v].frame = f
    \/ pc[s] = "user" /\ tlb[s][v] # NoPage /\ tlb[s][v].frame = f

\* A frame that can be allocated again is listed once, has no mapping that counts,
\* and no CPU can still reach it through an installed root or a cached translation,
\* killed threads included: what the root proof is for (lock_free_root_proof), and
\* munmap and the write fault after they have returned a frame before their flush.
FreeIsUnmapped ==
  /\ IsInjective(FREE_FRAMES)
  /\ \A f \in Frames :
       /\ f \in Range(FREE_FRAMES) => allocation[f] = "free"
       /\ allocation[f] # "allocated" => leaf_refs[f] = 0 /\ \A s \in Spaces : ~Reaches(s, f)

\* Fork gives the child a memory of its own: the stores of one process are never
\* seen by another, except in MAP_SHARED pages, and a page never changes under its
\* process (setup_cow_pages_with_vmas, handle_cow_fault_arm64).
alive ==
  {s \in Spaces : Installed(s) \/ pc[s] = "dispatch" \/ (pc[s] = "off" /\ custody[s] = "row")}
view ==
  [s \in Spaces |-> [v \in Pages |->
     IF s \in alive /\ Translation(s, v) # NoPage THEN mem[Translation(s, v).frame] ELSE NoPage]]
Memory == INSTANCE PrivateMemory
ImplementsPrivateMemory == Memory!MemorySpec

\* A retired address space is given back: its thread leaves it, the grace period
\* passes, the drain takes the receipt and releases every leaf
\* (reclaim_deferred_process_resources).
ReclaimEnds == \A s \in Spaces : custody[s] = "receipt" ~> custody[s] = "none"
=============================================================================
