------------------------- MODULE CopyOnWriteProofs -------------------------
(***************************************************************************)
(* Proofs about CopyOnWrite, for any number of processes, pages and frames. *)
(*                                                                          *)
(* CInv adds to the types: who can be where while the manager's lock is     *)
(* held and while a space is retired (Lock); which pages a space holds a    *)
(* count for (Held); what the operation in progress relies on (Ops); what a *)
(* CPU may have cached (Tlb); the allocator's lists (Alloc); and that the   *)
(* counts are the numbers of mappings (Refs).                               *)
(***************************************************************************)
EXTENDS CopyOnWrite, FunctionTheorems, FiniteSetTheorems, SequenceTheorems, TLAPS

LockPc == {"fork", "copy", "release"}
InstalledPc == {"user", "fault", "copy", "fork", "mmap"}
Custodies == {"none", "child", "row", "receipt", "draining", "lost"}
Places == {"none", "off", "dispatch", "user", "fault", "copy", "fork",
           "mmap", "exit", "release", "dying"}

\* the manager's lock and the stages of a space
Lock ==
  /\ \A s \in Spaces : pc[s] \in LockPc => manager = s /\ custody[s] = "row"
  /\ \A s \in Spaces : custody[s] = "child" =>
       pc[s] = "none" /\ child = s /\ manager \in Spaces /\ pc[manager] = "fork"
  /\ \A s \in Spaces : custody[s] \in {"none", "draining"} => pc[s] \notin InstalledPc \cup {"dispatch"}
  /\ \A s \in Spaces : custody[s] = "receipt" /\ s \notin fence => pc[s] # "dispatch"

\* a space holds a count for the pages it maps, until it is being released
Held ==
  /\ \A s \in Spaces : custody[s] = "none" => leaves[s] = {} /\ \A v \in Pages : pt[s][v] = NoPage
  /\ \A s \in Spaces, v \in Pages : v \in leaves[s] => pt[s][v] # NoPage
  /\ \A s \in Spaces, v \in Pages : pt[s][v] # NoPage /\ ~Releasing(s) => v \in leaves[s]

\* an mmap, a write fault or a fork in progress
MapOp == \A s \in Spaces : /\ pc[s] \in {"fault", "copy", "mmap"} => page[s] \in Pages
                           /\ pc[s] = "mmap" => pt[s][page[s]] = NoPage
CopyOp == \A s \in Spaces : pc[s] = "copy" =>
            /\ copy \in Frames /\ allocation[copy] = "allocated" /\ leaf_refs[copy] = 0
            /\ pt[s][page[s]] # NoPage /\ pt[s][page[s]].flags = "cow"
ForkOp == \A s \in Spaces : pc[s] = "fork" =>
            /\ child \in Spaces /\ custody[child] = "child" /\ work \subseteq leaves[s]
            /\ \A v \in Pages : pt[child][v] = IF v \in work THEN NoPage ELSE pt[s][v]

\* what is cached is what the page table of a running thread says
Tlb == \A s \in Spaces, v \in Pages :
         tlb[s][v] # NoPage => pc[s] \in InstalledPc /\ tlb[s][v] = pt[s][v]

Alloc ==
  /\ \A f \in Frames : f >= NEXT_FREE_FRAME => allocation[f] = "never"
  /\ \A f \in Frames : allocation[f] # "allocated" => leaf_refs[f] = 0
  /\ IsInjective(FREE_FRAMES)
  /\ \A i \in 1..Len(FREE_FRAMES) : allocation[FREE_FRAMES[i]] = "free"

Refs ==
  /\ \A f \in Frames : IsFiniteSet(MappingsOf(f))
  /\ RefsAreMappings

AllocTypes ==
  /\ allocation \in [Frames -> {"never", "allocated", "free"}] /\ leaf_refs \in [Frames -> Nat]
  /\ FREE_FRAMES \in Seq(Frames) /\ NEXT_FREE_FRAME \in 0..FrameCount
SpaceTypes == pt \in [Spaces -> [Pages -> Entries]] /\ leaves \in [Spaces -> SUBSET Pages]
MemTypes == mem \in [Frames -> Values] /\ tlb \in [Spaces -> [Pages -> Entries]]
RunTypes ==
  /\ custody \in [Spaces -> Custodies] /\ pc \in [Spaces -> Places]
  /\ page \in [Spaces -> Pages \cup {NoPage}] /\ fence \subseteq Spaces
LockTypes ==
  /\ manager \in Spaces \cup {Nobody} /\ child \in Spaces \cup {Nobody}
  /\ work \subseteq Pages /\ copy \in Frames \cup {Nobody}

Types == AllocTypes /\ SpaceTypes /\ MemTypes /\ RunTypes /\ LockTypes
CInv == Types /\ Lock /\ Held /\ MapOp /\ CopyOp /\ ForkOp /\ Tlb /\ Alloc /\ Refs

-----------------------------------------------------------------------------
(***************************************************************************)
(* The operators of the model                                               *)
(***************************************************************************)

\* CTypeOK in parts.
LEMMA TypeParts == CTypeOK <=> Types
BY Zenon DEF CTypeOK, Types, AllocTypes, SpaceTypes, MemTypes, RunTypes, LockTypes,
             Custodies, Places

\* A thread moves, and nobody else.
LEMMA Moved ==
  ASSUME pc \in [Spaces -> Places], NEW s \in Spaces, NEW from, NEW to, Goto(s, from, to)
  PROVE  /\ pc[s] = from
         /\ \A t \in Spaces : pc'[t] = IF t = s THEN to ELSE pc[t]
         /\ to \in Places => pc' \in [Spaces -> Places]
BY DEF Goto

\* A mapping is a frame with flags, and is not the absence of one.
LEMMA EntryFacts ==
  /\ \A e \in Entries : e # NoPage => e \in Mapping
  /\ \A e \in Mapping : /\ e \in Entries /\ e # NoPage
                        /\ e.frame \in Frames /\ e.flags \in {"rw", "cow"}
  /\ \A f \in Frames, x \in {"rw", "cow"} : [frame |-> f, flags |-> x] \in Mapping
<1>1. \A e \in Mapping : e # NoPage
  BY CowAssumption
<1> QED BY <1>1 DEF Entries, Mapping

\* One descriptor is replaced.
LEMMA EntrySet ==
  ASSUME pt \in [Spaces -> [Pages -> Entries]], NEW s \in Spaces, NEW v \in Pages,
         NEW e \in Entries, pt' = [pt EXCEPT ![s][v] = e]
  PROVE  /\ pt' \in [Spaces -> [Pages -> Entries]]
         /\ \A t \in Spaces, w \in Pages : pt'[t][w] = IF t = s /\ w = v THEN e ELSE pt[t][w]
OBVIOUS

\* The flags of a mapping are replaced.
LEMMA FlagsSet ==
  ASSUME NEW e \in Entries, e # NoPage, NEW x \in {"rw", "cow"}
  PROVE  /\ [e EXCEPT !.flags = x] = [frame |-> e.frame, flags |-> x]
         /\ [frame |-> e.frame, flags |-> x] \in Entries
<1>1. e \in Mapping
  BY EntryFacts
<1> QED BY <1>1, EntryFacts DEF Mapping

\* The two flushes.
LEMMA FlushFacts ==
  /\ FlushAll => /\ tlb' \in [Spaces -> [Pages -> Entries]]
                 /\ \A s \in Spaces, v \in Pages : tlb'[s][v] = NoPage
  /\ \A v \in Pages : FlushPage(v) /\ tlb \in [Spaces -> [Pages -> Entries]] =>
       /\ tlb' \in [Spaces -> [Pages -> Entries]]
       /\ \A s \in Spaces, w \in Pages : tlb'[s][w] = IF w = v THEN NoPage ELSE tlb[s][w]
BY DEF FlushAll, FlushPage, EmptyTable, Entries

\* An allocated frame was not mapped by anyone, and is on no list afterwards.
LEMMA AllocateFacts ==
  ASSUME AllocTypes, Alloc, NEW f \in Frames, Allocate(f)
  PROVE  /\ allocation[f] # "allocated" /\ leaf_refs[f] = 0
         /\ \A g \in Frames : allocation'[g] = IF g = f THEN "allocated" ELSE allocation[g]
         /\ allocation' \in [Frames -> {"never", "allocated", "free"}]
         /\ FREE_FRAMES' \in Seq(Frames) /\ NEXT_FREE_FRAME' \in 0..FrameCount
         /\ \A g \in Frames : g >= NEXT_FREE_FRAME' => allocation'[g] = "never"
         /\ IsInjective(FREE_FRAMES')
         /\ \A i \in 1..Len(FREE_FRAMES') : allocation'[FREE_FRAMES'[i]] = "free"
<1> USE CowAssumption
<1>1. /\ \A g \in Frames : allocation'[g] = IF g = f THEN "allocated" ELSE allocation[g]
      /\ allocation' \in [Frames -> {"never", "allocated", "free"}]
  BY DEF Allocate, AllocTypes
<1>2. CASE PopFree(f)
  <2>1. PICK i \in 1..Len(FREE_FRAMES) :
          f = FREE_FRAMES[i] /\ Claimable(f) /\ FREE_FRAMES' = SubSeq(FREE_FRAMES, 1, i - 1)
    BY <1>2 DEF PopFree, AllocTypes
  <2>2. NEXT_FREE_FRAME' = NEXT_FREE_FRAME
    BY <1>2 DEF PopFree
  <2>3. i - 1 \in 0..Len(FREE_FRAMES)
    BY <2>1 DEF AllocTypes
  <2>4. /\ FREE_FRAMES' \in Seq(Frames) /\ Len(FREE_FRAMES') = i - 1
        /\ \A j \in 1..(i - 1) : FREE_FRAMES'[j] = FREE_FRAMES[j]
    BY <2>1, <2>3 DEF AllocTypes
  <2>5. \A j \in 1..(i - 1) : j \in 1..Len(FREE_FRAMES) /\ FREE_FRAMES[j] # f
    BY <2>1, <2>3 DEF Alloc, IsInjective, AllocTypes
  <2>6. IsInjective(FREE_FRAMES')
    <3>1. DOMAIN FREE_FRAMES' = 1..(i - 1)
      BY <2>4
    <3>2. \A j, k \in 1..Len(FREE_FRAMES) : FREE_FRAMES[j] = FREE_FRAMES[k] => j = k
      BY DEF Alloc, IsInjective, AllocTypes
    <3>3. \A j, k \in 1..(i - 1) : FREE_FRAMES'[j] = FREE_FRAMES'[k] => j = k
      BY <2>4, <2>5, <3>2
    <3> QED BY <3>1, <3>3 DEF IsInjective
  <2>7. allocation[f] = "free" /\ leaf_refs[f] = 0
    BY <2>1 DEF Alloc, Claimable
  <2>8. \A j \in 1..Len(FREE_FRAMES') : allocation'[FREE_FRAMES'[j]] = "free"
    <3>1. \A j \in 1..(i - 1) : FREE_FRAMES'[j] \in Frames /\ FREE_FRAMES'[j] # f
                                /\ allocation[FREE_FRAMES'[j]] = "free"
      <4>1. \A j \in 1..Len(FREE_FRAMES) : FREE_FRAMES[j] \in Frames
                                            /\ allocation[FREE_FRAMES[j]] = "free"
        BY DEF Alloc, AllocTypes
      <4> QED BY <2>4, <2>5, <4>1
    <3> QED BY <1>1, <2>4, <3>1
  <2>9. \A g \in Frames : g >= NEXT_FREE_FRAME' => allocation'[g] = "never"
    BY <1>1, <2>2, <2>7 DEF Alloc
  <2> QED BY <1>1, <2>2, <2>4, <2>6, <2>7, <2>8, <2>9 DEF AllocTypes
<1>3. CASE Frontier(f)
  <2>1. /\ f = NEXT_FREE_FRAME /\ NEXT_FREE_FRAME' = NEXT_FREE_FRAME + 1
        /\ NEXT_FREE_FRAME < FrameCount /\ FREE_FRAMES' = FREE_FRAMES
    BY <1>3 DEF Frontier
  <2>2. f \in Nat
    BY DEF Frames
  <2>3. allocation[f] = "never" /\ leaf_refs[f] = 0
    BY <2>1, <2>2 DEF Alloc
  <2>4. NEXT_FREE_FRAME' \in 0..FrameCount
    BY <2>1 DEF AllocTypes
  <2>5. \A g \in Frames : g >= NEXT_FREE_FRAME' => allocation'[g] = "never"
    BY <1>1, <2>1 DEF Alloc, Frames, AllocTypes
  <2>6. \A i \in 1..Len(FREE_FRAMES') : allocation'[FREE_FRAMES'[i]] = "free"
    BY <1>1, <2>1, <2>3 DEF Alloc, AllocTypes
  <2>7. IsInjective(FREE_FRAMES') /\ FREE_FRAMES' \in Seq(Frames)
    BY <2>1 DEF Alloc, AllocTypes
  <2> QED BY <1>1, <2>3, <2>4, <2>5, <2>6, <2>7
<1> QED BY <1>2, <1>3 DEF Allocate

\* A count is dropped; the last one gives the frame back. Another count may have
\* been taken in the same step (refs).
LEMMA ReleaseFacts ==
  ASSUME AllocTypes, Alloc, NEW refs \in [Frames -> Nat], NEW f \in Frames,
         refs[f] = leaf_refs[f], refs[f] >= 1,
         \A g \in Frames : allocation[g] # "allocated" => refs[g] = 0,
         ReleaseLeaf(f, refs)
  PROVE  /\ AllocTypes' /\ Alloc'
         /\ \A g \in Frames : leaf_refs'[g] = IF g = f THEN refs[f] - 1 ELSE refs[g]
         /\ \A g \in Frames : allocation[g] = "allocated" /\ (g # f \/ refs[f] # 1)
                              => allocation'[g] = "allocated"
<1>1. /\ \A g \in Frames : leaf_refs'[g] = IF g = f THEN refs[f] - 1 ELSE refs[g]
      /\ leaf_refs' \in [Frames -> Nat] /\ NEXT_FREE_FRAME' = NEXT_FREE_FRAME
  BY DEF ReleaseLeaf
<1>2. allocation[f] = "allocated"
  BY DEF AllocTypes
<1>3. CASE refs[f] # 1
  <2>1. allocation' = allocation /\ FREE_FRAMES' = FREE_FRAMES
    BY <1>3 DEF ReleaseLeaf
  <2>2. \A g \in Frames : allocation'[g] # "allocated" => leaf_refs'[g] = 0
    BY <1>1, <1>2, <2>1
  <2> QED BY <1>1, <2>1, <2>2 DEF AllocTypes, Alloc
<1>4. CASE refs[f] = 1
  <2>1. /\ allocation' = [allocation EXCEPT ![f] = "free"]
        /\ FREE_FRAMES' = Append(FREE_FRAMES, f) \/ FREE_FRAMES' = FREE_FRAMES
    BY <1>4 DEF ReleaseLeaf
  <2>2. /\ \A g \in Frames : allocation'[g] = IF g = f THEN "free" ELSE allocation[g]
        /\ allocation' \in [Frames -> {"never", "allocated", "free"}]
    BY <2>1 DEF AllocTypes
  <2>3. \A i \in 1..Len(FREE_FRAMES) : FREE_FRAMES[i] \in Frames /\ FREE_FRAMES[i] # f
    BY <1>2 DEF Alloc, AllocTypes
  <2>4. /\ FREE_FRAMES' \in Seq(Frames) /\ IsInjective(FREE_FRAMES')
        /\ \A i \in 1..Len(FREE_FRAMES') : allocation'[FREE_FRAMES'[i]] = "free"
    <3>1. CASE FREE_FRAMES' = FREE_FRAMES
      BY <2>2, <2>3, <3>1 DEF Alloc, AllocTypes
    <3>2. CASE FREE_FRAMES' = Append(FREE_FRAMES, f)
      <4>1. /\ FREE_FRAMES' \in Seq(Frames) /\ Len(FREE_FRAMES') = Len(FREE_FRAMES) + 1
            /\ \A i \in 1..Len(FREE_FRAMES) : FREE_FRAMES'[i] = FREE_FRAMES[i]
            /\ FREE_FRAMES'[Len(FREE_FRAMES) + 1] = f
        BY <3>2 DEF AllocTypes
      <4>2. IsInjective(FREE_FRAMES')
        <5>1. DOMAIN FREE_FRAMES' = 1..(Len(FREE_FRAMES) + 1) /\ Len(FREE_FRAMES) \in Nat
          BY <4>1 DEF AllocTypes
        <5>2. \A j, k \in 1..Len(FREE_FRAMES) : FREE_FRAMES[j] = FREE_FRAMES[k] => j = k
          BY DEF Alloc, IsInjective, AllocTypes
        <5>3. \A j, k \in 1..(Len(FREE_FRAMES) + 1) : FREE_FRAMES'[j] = FREE_FRAMES'[k] => j = k
          <6>1. \A j \in 1..(Len(FREE_FRAMES) + 1) :
                  j \in 1..Len(FREE_FRAMES) \/ j = Len(FREE_FRAMES) + 1
            BY <5>1
          <6> QED BY <2>3, <4>1, <5>2, <6>1
        <5> QED BY <5>1, <5>3 DEF IsInjective
      <4>3. \A i \in 1..Len(FREE_FRAMES') : allocation'[FREE_FRAMES'[i]] = "free"
        <5>1. \A j \in 1..Len(FREE_FRAMES') :
                j \in 1..Len(FREE_FRAMES) \/ j = Len(FREE_FRAMES) + 1
          BY <4>1 DEF AllocTypes
        <5>2. \A j \in 1..Len(FREE_FRAMES) : allocation'[FREE_FRAMES[j]] = "free"
          BY <2>2, <2>3 DEF Alloc
        <5> QED BY <2>2, <4>1, <5>1, <5>2
      <4> QED BY <4>1, <4>2, <4>3
    <3> QED BY <2>1, <3>1, <3>2
  <2>5. \A g \in Frames : g >= NEXT_FREE_FRAME' => allocation'[g] = "never"
    BY <1>1, <1>2, <2>2 DEF Alloc
  <2>6. \A g \in Frames : allocation'[g] # "allocated" => leaf_refs'[g] = 0
    BY <1>1, <1>4, <2>2
  <2> QED BY <1>1, <1>4, <2>2, <2>4, <2>5, <2>6 DEF AllocTypes, Alloc
<1> QED BY <1>3, <1>4

-----------------------------------------------------------------------------
(***************************************************************************)
(* Counting mappings                                                        *)
(***************************************************************************)

\* A page that a space holds a count for names a frame, which has been counted.
LEMMA MappedIsCounted ==
  ASSUME SpaceTypes, Held, Refs, NEW s \in Spaces, NEW v \in Pages, v \in leaves[s]
  PROVE  pt[s][v] \in Mapping /\ pt[s][v].frame \in Frames /\ leaf_refs[pt[s][v].frame] >= 1
<1> DEFINE f == pt[s][v].frame
<1>1. pt[s][v] \in Mapping /\ f \in Frames
  BY EntryFacts DEF Held, SpaceTypes
<1>2. <<s, v>> \in MappingsOf(f)
  BY DEF MappingsOf
<1> HIDE DEF f
<1>3. IsFiniteSet(MappingsOf(f)) /\ leaf_refs[f] = Cardinality(MappingsOf(f))
  BY <1>1 DEF Refs, RefsAreMappings
<1>4. Cardinality(MappingsOf(f)) \in Nat /\ Cardinality(MappingsOf(f)) # 0
  BY <1>2, <1>3, FS_CardinalityType, FS_EmptySet
<1> QED BY <1>1, <1>3, <1>4 DEF f

\* Steps that change no frame of a counted page.
LEMMA RefsFrame ==
  ASSUME Refs, leaf_refs' = leaf_refs, leaves' = leaves,
         \A t \in Spaces, w \in Pages : w \in leaves[t] => pt'[t][w].frame = pt[t][w].frame
  PROVE  Refs'
<1>1. \A f : MappingsOf(f)' = MappingsOf(f)
  BY DEF MappingsOf
<1> QED BY <1>1 DEF Refs, RefsAreMappings

\* The mappings of a frame when one page gets, loses or changes its frame.
LEMMA MapsAdded ==
  ASSUME SpaceTypes, NEW s \in Spaces, NEW v \in Pages, v \notin leaves[s],
         leaves' = [leaves EXCEPT ![s] = @ \cup {v}],
         \A t \in Spaces, w \in Pages : w \in leaves[t] => pt'[t][w].frame = pt[t][w].frame,
         NEW f
  PROVE  /\ <<s, v>> \notin MappingsOf(f)
         /\ pt'[s][v].frame = f => MappingsOf(f)' = MappingsOf(f) \cup {<<s, v>>}
         /\ pt'[s][v].frame # f => MappingsOf(f)' = MappingsOf(f)
<1>1. <<s, v>> \notin MappingsOf(f)
  BY DEF MappingsOf
<1>2. \A t \in Spaces, w \in Pages :
        w \in leaves'[t] <=> w \in leaves[t] \/ (t = s /\ w = v)
  BY DEF SpaceTypes
<1>3. \A t \in Spaces, w \in Pages :
        <<t, w>> \in MappingsOf(f)' <=>
          (<<t, w>> \in MappingsOf(f) \/ (t = s /\ w = v /\ pt'[s][v].frame = f))
  <2> SUFFICES ASSUME NEW t \in Spaces, NEW w \in Pages
               PROVE  <<t, w>> \in MappingsOf(f)' <=>
                        (<<t, w>> \in MappingsOf(f) \/ (t = s /\ w = v /\ pt'[s][v].frame = f))
    OBVIOUS
  <2>1. <<t, w>> \in MappingsOf(f) <=> w \in leaves[t] /\ pt[t][w].frame = f
    BY DEF MappingsOf
  <2>2. <<t, w>> \in MappingsOf(f)' <=> w \in leaves'[t] /\ pt'[t][w].frame = f
    BY DEF MappingsOf
  <2>3. CASE t = s /\ w = v
    BY <1>2, <2>1, <2>2, <2>3
  <2>4. CASE ~(t = s /\ w = v)
    BY <1>2, <2>1, <2>2, <2>4
  <2> QED BY <2>3, <2>4
<1>4. MappingsOf(f) \subseteq Spaces \X Pages /\ MappingsOf(f)' \subseteq Spaces \X Pages
  BY DEF MappingsOf
<1>5. CASE pt'[s][v].frame = f
  <2>1. MappingsOf(f)' = MappingsOf(f) \cup {<<s, v>>}
    BY <1>3, <1>4, <1>5
  <2> QED BY <1>1, <1>5, <2>1
<1>6. CASE pt'[s][v].frame # f
  <2>1. MappingsOf(f)' = MappingsOf(f)
    BY <1>3, <1>4, <1>6
  <2> QED BY <1>1, <1>6, <2>1
<1> QED BY <1>5, <1>6

\* The mappings of a frame when one leaf goes.
LEMMA MapsRemoved ==
  ASSUME SpaceTypes, NEW s \in Spaces, NEW v \in Pages, v \in leaves[s],
         leaves' = [leaves EXCEPT ![s] = @ \ {v}],
         \A t \in Spaces, w \in Pages :
           w \in leaves[t] /\ ~(t = s /\ w = v) => pt'[t][w].frame = pt[t][w].frame,
         NEW f
  PROVE  /\ <<s, v>> \in MappingsOf(f) <=> pt[s][v].frame = f
         /\ MappingsOf(f)' = MappingsOf(f) \ {<<s, v>>}
<1>1. <<s, v>> \in MappingsOf(f) <=> pt[s][v].frame = f
  BY DEF MappingsOf
<1>2. \A t \in Spaces, w \in Pages :
        w \in leaves'[t] <=> w \in leaves[t] /\ ~(t = s /\ w = v)
  BY DEF SpaceTypes
<1>3. \A t \in Spaces, w \in Pages :
        <<t, w>> \in MappingsOf(f)' <=> <<t, w>> \in MappingsOf(f) /\ ~(t = s /\ w = v)
  BY <1>2 DEF MappingsOf
<1>4. MappingsOf(f) \subseteq Spaces \X Pages /\ MappingsOf(f)' \subseteq Spaces \X Pages
  BY DEF MappingsOf
<1> QED BY <1>1, <1>3, <1>4

\* The mappings of a frame when one leaf is given another frame.
LEMMA MapsChanged ==
  ASSUME SpaceTypes, NEW s \in Spaces, NEW v \in Pages, v \in leaves[s], leaves' = leaves,
         \A t \in Spaces, w \in Pages :
           w \in leaves[t] /\ ~(t = s /\ w = v) => pt'[t][w].frame = pt[t][w].frame,
         NEW f
  PROVE  /\ <<s, v>> \in MappingsOf(f) <=> pt[s][v].frame = f
         /\ MappingsOf(f)' = IF pt'[s][v].frame = f THEN MappingsOf(f) \cup {<<s, v>>}
                                                   ELSE MappingsOf(f) \ {<<s, v>>}
<1>1. <<s, v>> \in MappingsOf(f) <=> pt[s][v].frame = f
  BY DEF MappingsOf
<1>2. \A t \in Spaces, w \in Pages :
        <<t, w>> \in MappingsOf(f)' <=> IF t = s /\ w = v THEN pt'[s][v].frame = f
                                                        ELSE <<t, w>> \in MappingsOf(f)
  BY DEF MappingsOf
<1>3. MappingsOf(f) \subseteq Spaces \X Pages /\ MappingsOf(f)' \subseteq Spaces \X Pages
  BY DEF MappingsOf
<1> QED BY <1>1, <1>2, <1>3

\* One more element, one less.
LEMMA CountMore ==
  ASSUME NEW S, IsFiniteSet(S), NEW x, x \notin S
  PROVE  IsFiniteSet(S \cup {x}) /\ Cardinality(S \cup {x}) = Cardinality(S) + 1
BY FS_AddElement

\* Taking a member out lowers the cardinality by one.
LEMMA CountLess ==
  ASSUME NEW S, IsFiniteSet(S), NEW x, x \in S
  PROVE  IsFiniteSet(S \ {x}) /\ Cardinality(S \ {x}) = Cardinality(S) - 1
BY FS_RemoveElement

\* One leaf more and one reference more: the counts still agree.
LEMMA RefsAdded ==
  ASSUME SpaceTypes, Refs, NEW s \in Spaces, NEW v \in Pages, v \notin leaves[s],
         leaves' = [leaves EXCEPT ![s] = @ \cup {v}],
         \A t \in Spaces, w \in Pages : w \in leaves[t] => pt'[t][w].frame = pt[t][w].frame,
         \A f \in Frames : leaf_refs'[f] = IF f = pt'[s][v].frame THEN leaf_refs[f] + 1
                                                                 ELSE leaf_refs[f]
  PROVE  Refs'
<1>1. ASSUME NEW f \in Frames
      PROVE  IsFiniteSet(MappingsOf(f)') /\ leaf_refs'[f] = Cardinality(MappingsOf(f)')
  <2>1. IsFiniteSet(MappingsOf(f)) /\ leaf_refs[f] = Cardinality(MappingsOf(f))
    BY DEF Refs, RefsAreMappings
  <2>2. /\ <<s, v>> \notin MappingsOf(f)
        /\ pt'[s][v].frame = f => MappingsOf(f)' = MappingsOf(f) \cup {<<s, v>>}
        /\ pt'[s][v].frame # f => MappingsOf(f)' = MappingsOf(f)
    BY MapsAdded
  <2>3. CASE pt'[s][v].frame = f
    <3>1. MappingsOf(f)' = MappingsOf(f) \cup {<<s, v>>}
      BY <2>2, <2>3
    <3> QED BY <2>1, <2>2, <2>3, <3>1, CountMore
  <2>4. CASE pt'[s][v].frame # f
    <3>1. MappingsOf(f)' = MappingsOf(f)
      BY <2>2, <2>4
    <3> QED BY <2>1, <2>4, <3>1
  <2> QED BY <2>3, <2>4
<1> QED BY <1>1 DEF Refs, RefsAreMappings

\* One leaf less and one reference less.
LEMMA RefsRemoved ==
  ASSUME SpaceTypes, Refs, NEW s \in Spaces, NEW v \in Pages, v \in leaves[s],
         leaves' = [leaves EXCEPT ![s] = @ \ {v}],
         \A t \in Spaces, w \in Pages :
           w \in leaves[t] /\ ~(t = s /\ w = v) => pt'[t][w].frame = pt[t][w].frame,
         \A f \in Frames : leaf_refs'[f] = IF f = pt[s][v].frame THEN leaf_refs[f] - 1
                                                                ELSE leaf_refs[f]
  PROVE  Refs'
<1>1. ASSUME NEW f \in Frames
      PROVE  IsFiniteSet(MappingsOf(f)') /\ leaf_refs'[f] = Cardinality(MappingsOf(f)')
  <2>1. IsFiniteSet(MappingsOf(f)) /\ leaf_refs[f] = Cardinality(MappingsOf(f))
    BY DEF Refs, RefsAreMappings
  <2>2. /\ <<s, v>> \in MappingsOf(f) <=> pt[s][v].frame = f
        /\ MappingsOf(f)' = MappingsOf(f) \ {<<s, v>>}
    BY MapsRemoved
  <2>3. CASE pt[s][v].frame = f
    BY <2>1, <2>2, <2>3, CountLess
  <2>4. CASE pt[s][v].frame # f
    <3>1. MappingsOf(f)' = MappingsOf(f)
      BY <2>2, <2>4
    <3> QED BY <2>1, <2>4, <3>1
  <2> QED BY <2>3, <2>4
<1> QED BY <1>1 DEF Refs, RefsAreMappings

\* A leaf remapped: the reference moves with it.
LEMMA RefsChanged ==
  ASSUME SpaceTypes, Refs, NEW s \in Spaces, NEW v \in Pages, v \in leaves[s], leaves' = leaves,
         \A t \in Spaces, w \in Pages :
           w \in leaves[t] /\ ~(t = s /\ w = v) => pt'[t][w].frame = pt[t][w].frame,
         pt'[s][v].frame # pt[s][v].frame,
         \A f \in Frames : leaf_refs'[f] = IF f = pt'[s][v].frame THEN leaf_refs[f] + 1
                                           ELSE IF f = pt[s][v].frame THEN leaf_refs[f] - 1
                                           ELSE leaf_refs[f]
  PROVE  Refs'
<1>1. ASSUME NEW f \in Frames
      PROVE  IsFiniteSet(MappingsOf(f)') /\ leaf_refs'[f] = Cardinality(MappingsOf(f)')
  <2>1. IsFiniteSet(MappingsOf(f)) /\ leaf_refs[f] = Cardinality(MappingsOf(f))
    BY DEF Refs, RefsAreMappings
  <2>2. <<s, v>> \in MappingsOf(f) <=> pt[s][v].frame = f
    BY MapsChanged
  <2>3. CASE pt'[s][v].frame = f
    <3>1. MappingsOf(f)' = MappingsOf(f) \cup {<<s, v>>} /\ <<s, v>> \notin MappingsOf(f)
      BY <2>2, <2>3, MapsChanged
    <3>2. leaf_refs'[f] = leaf_refs[f] + 1
      BY <2>3
    <3> QED BY <2>1, <3>1, <3>2, CountMore
  <2>4. CASE pt'[s][v].frame # f
    <3>1. MappingsOf(f)' = MappingsOf(f) \ {<<s, v>>}
      BY <2>4, MapsChanged
    <3>2. CASE pt[s][v].frame = f
      BY <2>1, <2>2, <2>4, <3>1, <3>2, CountLess
    <3>3. CASE pt[s][v].frame # f
      <4>1. MappingsOf(f)' = MappingsOf(f)
        BY <2>2, <3>1, <3>3
      <4> QED BY <2>1, <2>4, <3>3, <4>1
    <3> QED BY <3>2, <3>3
  <2> QED BY <2>3, <2>4
<1> QED BY <1>1 DEF Refs, RefsAreMappings

-----------------------------------------------------------------------------
(***************************************************************************)
(* Kinds of steps                                                           *)
(***************************************************************************)

\* a thread goes from one place to another, and owns nothing more or less
Walks(s) ==
  /\ \/ \E v \in Pages : StoreFaults(s, v) \/ MapLookup(s, v)
     \/ FaultSole(s) \/ FaultFails(s) \/ MapPage(s) \/ MapFails(s) \/ Preempt(s) \/ Stamp(s)
     \/ DispatchGone(s) \/ Exit(s) \/ ExitRepeated(s)

\* no thread moves
Stays(s) ==
  \/ \E v \in Pages : Unmap(s, v) \/ \E x \in Values : Store(s, v, x)
  \/ ForkPage(s) \/ ReleaseMappedLeaf(s)

\* the lock or the custody of a space changes hands
Hands(s) ==
  \/ FaultCopy(s) \/ FaultRemap(s) \/ (\E c \in Spaces : Fork(s, c)) \/ ForkDone(s)
  \/ ForkFails(s) \/ Dispatch(s) \/ ExitLocked(s) \/ FaultExit(s) \/ Kill(s) \/ Tick(s)
  \/ Reclaim(s) \/ ReleaseDone(s)

\* Every step walks on in an operation, stays in its place, or hands over.
LEMMA StepKinds ==
  ASSUME CNext
  PROVE  \E s \in Spaces : Walks(s) \/ Stays(s) \/ Hands(s)
BY Zenon DEF CNext, KernelStep, Walks, Stays, Hands

\* Where a walk leads.
LEMMA WalkFacts ==
  ASSUME RunTypes, NEW s \in Spaces, Walks(s)
  PROVE  /\ UNCHANGED <<custody, manager, child, work, copy, fence>>
         /\ \E from \in Places, to \in Places :
              /\ pc[s] = from /\ \A t \in Spaces : pc'[t] = IF t = s THEN to ELSE pc[t]
              /\ to \notin LockPc \cup {"dispatch", "copy"} /\ from \notin LockPc \cup {"none"}
              /\ to \in InstalledPc => from \in InstalledPc \cup {"dispatch"}
              /\ to = "fault" => \E v \in Pages : StoreFaults(s, v)
              /\ to = "mmap" => \E v \in Pages : MapLookup(s, v)
         /\ pc' \in [Spaces -> Places]
<1> USE DEF RunTypes, LockPc, InstalledPc, Places
<1>1. CASE \E v \in Pages : StoreFaults(s, v)
  <2>1. Goto(s, "user", "fault")
    BY <1>1 DEF StoreFaults
  <2>2. UNCHANGED <<custody, manager, child, work, copy, fence>>
    BY <1>1 DEF StoreFaults, lockVars
  <2>3. /\ pc[s] = "user" /\ \A t \in Spaces : pc'[t] = IF t = s THEN "fault" ELSE pc[t]
        /\ pc' \in [Spaces -> Places]
    BY <2>1, Moved
  <2> QED BY <1>1, <2>2, <2>3
<1>2. CASE \E v \in Pages : MapLookup(s, v)
  <2>1. Goto(s, "user", "mmap")
    BY <1>2 DEF MapLookup
  <2>2. UNCHANGED <<custody, manager, child, work, copy, fence>>
    BY <1>2 DEF MapLookup, lockVars
  <2>3. /\ pc[s] = "user" /\ \A t \in Spaces : pc'[t] = IF t = s THEN "mmap" ELSE pc[t]
        /\ pc' \in [Spaces -> Places]
    BY <2>1, Moved
  <2> QED BY <1>2, <2>2, <2>3
<1>3. CASE FaultSole(s)
  BY <1>3, Moved DEF FaultSole, Resume, lockVars
<1>4. CASE FaultFails(s)
  BY <1>4, Moved DEF FaultFails, lockVars
<1>5. CASE MapPage(s)
  BY <1>5, Moved DEF MapPage, Resume, lockVars
<1>6. CASE MapFails(s)
  BY <1>6, Moved DEF MapFails, Resume, lockVars
<1>7. CASE Preempt(s)
  BY <1>7, Moved DEF Preempt, lockVars
<1>8. CASE Stamp(s)
  BY <1>8, Moved DEF Stamp, lockVars
<1>9. CASE DispatchGone(s)
  BY <1>9, Moved DEF DispatchGone, lockVars
<1>10. CASE Exit(s)
  BY <1>10, Moved DEF Exit, lockVars
<1>11. CASE ExitRepeated(s)
  <2>1. PICK from \in {"exit", "dying"} : Goto(s, from, "none")
    BY <1>11 DEF ExitRepeated
  <2> QED BY <1>11, <2>1, Moved DEF ExitRepeated, lockVars
<1> QED BY <1>1, <1>2, <1>3, <1>4, <1>5, <1>6, <1>7, <1>8, <1>9, <1>10, <1>11 DEF Walks

\* A step that stays touches no custody and no progress.
LEMMA StayFacts ==
  ASSUME NEW s \in Spaces, Stays(s)
  PROVE  UNCHANGED <<custody, pc, page, manager, child, copy, fence>>
BY DEF Stays, Unmap, Store, ForkPage, ReleaseMappedLeaf, lockVars

-----------------------------------------------------------------------------
(***************************************************************************)
(* Lock                                                                     *)
(***************************************************************************)
LEMMA LockWalks ==
  ASSUME RunTypes, Lock, NEW s \in Spaces, Walks(s)
  PROVE  Lock'
<1>1. UNCHANGED <<custody, manager, child, fence>>
  BY WalkFacts
<1>2. PICK from \in Places, to \in Places :
        /\ pc[s] = from /\ \A t \in Spaces : pc'[t] = IF t = s THEN to ELSE pc[t]
        /\ to \notin LockPc \cup {"dispatch", "copy"} /\ from \notin LockPc \cup {"none"}
        /\ to \in InstalledPc => from \in InstalledPc \cup {"dispatch"}
  BY WalkFacts
<1> QED BY <1>1, <1>2 DEF Lock, LockPc

\* Taking and giving the process-manager lock keep its discipline.
LEMMA LockHands ==
  ASSUME Types, Lock, ForkOp, NEW s \in Spaces, Hands(s)
  PROVE  Lock'
<1> USE CowAssumption DEF RunTypes, Lock, LockPc, InstalledPc
<1>0. RunTypes
  BY DEF Types
<1>1. CASE FaultCopy(s)
  BY <1>0, <1>1, Moved DEF FaultCopy, IsCowFault
<1>2. CASE FaultRemap(s)
  BY <1>0, <1>2, Moved DEF FaultRemap, Resume
<1>3. ASSUME NEW c \in Spaces, Fork(s, c) PROVE Lock'
  BY <1>0, <1>3, Moved DEF Fork
<1>4. CASE ForkDone(s)
  <2>1. child \in Spaces /\ custody[child] = "child" /\ pc[s] = "fork"
    BY <1>4 DEF ForkDone, ForkOp
  <2>2. /\ \A t \in Spaces : pc'[t] = IF t = child THEN "off" ELSE IF t = s THEN "user" ELSE pc[t]
        /\ \A t \in Spaces : custody'[t] = IF t = child THEN "row" ELSE custody[t]
        /\ manager' = Nobody /\ fence' = fence
    BY <1>0, <1>4, <2>1 DEF ForkDone
  <2> QED BY <1>0, <2>1, <2>2
<1>5. CASE ForkFails(s)
  <2>1. child \in Spaces /\ custody[child] = "child" /\ pc[s] = "fork" /\ child # s
    BY <1>0, <1>5 DEF ForkFails, ForkOp, Goto
  <2>2. /\ \A t \in Spaces : pc'[t] = IF t = s THEN "user" ELSE pc[t]
        /\ \A t \in Spaces : custody'[t] = IF t = child \/ t = s THEN "lost" ELSE custody[t]
        /\ manager' = Nobody /\ fence' = fence
    BY <1>0, <1>5, <2>1, Moved DEF ForkFails
  <2> QED BY <1>0, <2>1, <2>2
<1>6. CASE Dispatch(s)
  BY <1>0, <1>6, Moved DEF Dispatch, lockVars
<1>7. CASE ExitLocked(s)
  BY <1>0, <1>7, Moved DEF ExitLocked
<1>8. CASE FaultExit(s)
  <2>1. /\ \A t \in Spaces : pc'[t] = IF t = s THEN "none" ELSE pc[t]
        /\ pc[s] = "dying"
    BY <1>0, <1>8, Moved DEF FaultExit
  <2>2. /\ manager = Nobody /\ UNCHANGED <<manager, child>> /\ fence \subseteq fence'
        /\ \A t \in Spaces : t # s => custody'[t] = custody[t]
        /\ custody'[s] \in {"receipt", "lost"}
    BY <1>0, <1>8 DEF FaultExit, Retire, lockVars
  <2> QED BY <1>0, <2>1, <2>2
<1>9. CASE Kill(s)
  <2>1. /\ manager = Nobody /\ UNCHANGED <<manager, child, pc>> /\ fence \subseteq fence'
        /\ \A t \in Spaces : t # s => custody'[t] = custody[t]
        /\ (custody'[s] = "receipt" /\ s \in fence') \/ custody'[s] = "lost"
    BY <1>0, <1>9 DEF Kill, Retire, lockVars
  <2> QED BY <1>0, <2>1
<1>10. CASE Tick(s)
  BY <1>0, <1>10 DEF Tick, lockVars
<1>11. CASE Reclaim(s)
  BY <1>0, <1>11 DEF Reclaim, RootProof, Installed, lockVars
<1>12. CASE ReleaseDone(s)
  <2>1. \A t \in Spaces : custody'[t] = IF t = s THEN "none" ELSE custody[t]
    BY <1>0, <1>12 DEF ReleaseDone
  <2>2. CASE pc[s] = "release"
    <3>1. /\ \A t \in Spaces : pc'[t] = IF t = s THEN "none" ELSE pc[t]
          /\ manager' = Nobody /\ UNCHANGED <<child, fence>>
      BY <1>0, <1>12, <2>2 DEF ReleaseDone
    <3> QED BY <1>0, <2>1, <2>2, <3>1
  <2>3. CASE pc[s] # "release"
    <3>1. UNCHANGED <<pc, manager, child, fence>> /\ custody[s] = "draining"
      BY <1>12, <2>3 DEF ReleaseDone, Releasing
    <3> QED BY <1>0, <2>1, <3>1
  <2> QED BY <2>2, <2>3
<1> QED
  BY <1>1, <1>2, <1>3, <1>4, <1>5, <1>6, <1>7, <1>8, <1>9, <1>10, <1>11, <1>12 DEF Hands

\* Every step keeps the lock discipline.
LEMMA LockNext ==
  ASSUME CInv, CNext
  PROVE  Lock'
<1>1. CASE \E s \in Spaces : Stays(s)
  BY <1>1, StayFacts DEF CInv, Lock
<1> QED BY <1>1, StepKinds, LockWalks, LockHands DEF CInv, Types

-----------------------------------------------------------------------------
(***************************************************************************)
(* Steps that change page tables, counts or the allocator                   *)
(***************************************************************************)
Core == SpaceTypes /\ AllocTypes /\ Alloc /\ Refs

\* Nobody else is in the middle of an operation under the manager's lock.
LEMMA LockHeld ==
  ASSUME CInv, NEW s \in Spaces, NEW t \in Spaces, s # t, pc[t] \in LockPc
  PROVE  manager = t /\ manager # Nobody /\ pc[s] \notin LockPc
BY CowAssumption DEF CInv, Lock

\* FaultSole: only the flags of one page change.
LEMMA FaultSoleEffect ==
  ASSUME CInv, NEW s \in Spaces, FaultSole(s)
  PROVE  /\ Core' /\ page[s] \in Pages /\ leaves' = leaves /\ UNCHANGED allocVars
         /\ pt[s][page[s]] # NoPage /\ pt[s][page[s]].flags = "cow"
         /\ \A t \in Spaces, w \in Pages :
              pt'[t][w] = IF t = s /\ w = page[s] THEN [frame |-> pt[s][page[s]].frame, flags |-> "rw"]
                                                 ELSE pt[t][w]
<1>1. Types /\ Lock /\ Held /\ MapOp /\ Alloc /\ Refs /\ RunTypes /\ SpaceTypes /\ AllocTypes
  BY DEF CInv, Types
<1>2. pc[s] = "fault"
  BY DEF FaultSole, Resume, Goto
<1>3. page[s] \in Pages /\ pt[s][page[s]] # NoPage /\ pt[s][page[s]].flags = "cow"
  BY <1>1, <1>2 DEF MapOp, FaultSole, IsCowFault
<1>4. pt' = [pt EXCEPT ![s][page[s]].flags = "rw"] /\ leaves' = leaves /\ UNCHANGED allocVars
  BY DEF FaultSole
<1> DEFINE v == page[s]
<1> HIDE DEF v
<1>5. /\ pt' \in [Spaces -> [Pages -> Entries]]
      /\ \A t \in Spaces, w \in Pages :
           pt'[t][w] = IF t = s /\ w = v THEN [frame |-> pt[s][v].frame, flags |-> "rw"]
                                        ELSE pt[t][w]
  <2>1. v \in Pages /\ pt[s][v] # NoPage /\ pt' = [pt EXCEPT ![s][v].flags = "rw"]
    BY <1>3, <1>4 DEF v
  <2>2. pt \in [Spaces -> [Pages -> Entries]]
    BY <1>1 DEF SpaceTypes
  <2>3. pt' = [pt EXCEPT ![s][v] = [pt[s][v] EXCEPT !.flags = "rw"]]
    BY <2>1, <2>2
  <2>4. pt[s][v] \in Entries
    BY <2>1, <2>2
  <2>5. /\ [pt[s][v] EXCEPT !.flags = "rw"] = [frame |-> pt[s][v].frame, flags |-> "rw"]
        /\ [frame |-> pt[s][v].frame, flags |-> "rw"] \in Entries
    BY <2>1, <2>4, FlagsSet
  <2>6. pt' = [pt EXCEPT ![s][v] = [frame |-> pt[s][v].frame, flags |-> "rw"]]
    BY <2>3, <2>5
  <2> QED BY <2>1, <2>2, <2>5, <2>6, EntrySet
<1>6. \A t \in Spaces, w \in Pages : pt'[t][w].frame = pt[t][w].frame
  BY <1>5
<1>7. Refs'
  BY <1>1, <1>4, <1>6, RefsFrame DEF allocVars
<1>8. SpaceTypes' /\ AllocTypes' /\ Alloc'
  BY <1>1, <1>4, <1>5 DEF SpaceTypes, AllocTypes, Alloc, allocVars
<1> QED BY <1>3, <1>4, <1>5, <1>7, <1>8 DEF Core, v

\* FaultCopy: a frame is allocated, that nobody maps.
LEMMA FaultCopyEffect ==
  ASSUME CInv, NEW s \in Spaces, FaultCopy(s)
  PROVE  /\ Core' /\ UNCHANGED spaceVars /\ leaf_refs' = leaf_refs
         /\ copy' \in Frames /\ allocation'[copy'] = "allocated" /\ leaf_refs[copy'] = 0
         /\ mem' = [mem EXCEPT ![copy'] = mem[pt[s][page[s]].frame]]
         /\ allocation[copy'] # "allocated"
<1>1. Types /\ Alloc /\ Refs /\ SpaceTypes /\ AllocTypes
  BY DEF CInv, Types
<1>2. PICK f \in Frames : /\ Allocate(f) /\ copy' = f
                          /\ mem' = [mem EXCEPT ![f] = mem[pt[s][page[s]].frame]]
  BY DEF FaultCopy
<1>3. UNCHANGED spaceVars /\ leaf_refs' = leaf_refs
  BY DEF FaultCopy
<1>4. /\ allocation[f] # "allocated" /\ leaf_refs[f] = 0
      /\ \A g \in Frames : allocation'[g] = IF g = f THEN "allocated" ELSE allocation[g]
      /\ allocation' \in [Frames -> {"never", "allocated", "free"}]
      /\ FREE_FRAMES' \in Seq(Frames) /\ NEXT_FREE_FRAME' \in 0..FrameCount
      /\ \A g \in Frames : g >= NEXT_FREE_FRAME' => allocation'[g] = "never"
      /\ IsInjective(FREE_FRAMES')
      /\ \A i \in 1..Len(FREE_FRAMES') : allocation'[FREE_FRAMES'[i]] = "free"
  BY <1>1, <1>2, AllocateFacts
<1>5. \A g \in Frames : allocation'[g] # "allocated" => leaf_refs'[g] = 0
  BY <1>1, <1>3, <1>4 DEF Alloc
<1>6. AllocTypes' /\ Alloc'
  BY <1>1, <1>3, <1>4, <1>5 DEF AllocTypes, Alloc
<1>7. Refs'
  BY <1>1, <1>3, RefsFrame DEF spaceVars
<1>8. SpaceTypes'
  BY <1>1, <1>3 DEF SpaceTypes, spaceVars
<1> QED BY <1>2, <1>3, <1>4, <1>6, <1>7, <1>8 DEF Core

\* FaultRemap: one page changes its frame, for the copy.
LEMMA FaultRemapEffect ==
  ASSUME CInv, NEW s \in Spaces, FaultRemap(s)
  PROVE  /\ Core' /\ page[s] \in Pages /\ page[s] \in leaves[s] /\ leaves' = leaves
         /\ copy \in Frames /\ copy # pt[s][page[s]].frame /\ leaf_refs[copy] = 0
         /\ \A t \in Spaces, w \in Pages :
              pt'[t][w] = IF t = s /\ w = page[s] THEN [frame |-> copy, flags |-> "rw"]
                                                 ELSE pt[t][w]
<1>1. Types /\ Lock /\ Held /\ MapOp /\ CopyOp /\ Alloc /\ Refs /\ RunTypes /\ SpaceTypes /\ AllocTypes
  BY DEF CInv, Types
<1>2. pc[s] = "copy" /\ custody[s] = "row"
  BY <1>1 DEF FaultRemap, Resume, Goto, Lock, LockPc
<1> DEFINE v == page[s]
           old == pt[s][v].frame
           refs == [leaf_refs EXCEPT ![copy] = @ + 1]
<1>3. /\ v \in Pages /\ pt[s][v] # NoPage /\ copy \in Frames
      /\ allocation[copy] = "allocated" /\ leaf_refs[copy] = 0
  BY <1>1, <1>2 DEF MapOp, CopyOp
<1>4. /\ ReleaseLeaf(old, refs) /\ leaves' = leaves
      /\ pt' = [pt EXCEPT ![s][v] = [frame |-> copy, flags |-> "rw"]]
  BY DEF FaultRemap
<1> HIDE DEF v, refs
<1>5. v \in leaves[s]
  BY <1>1, <1>2, <1>3 DEF Held, Releasing
<1>6. old \in Frames /\ leaf_refs[old] >= 1
  BY <1>1, <1>3, <1>5, MappedIsCounted
<1>7. copy # old
  BY <1>3, <1>6
<1>8. [frame |-> copy, flags |-> "rw"] \in Entries
  BY <1>3, EntryFacts
<1>9. /\ pt' \in [Spaces -> [Pages -> Entries]]
      /\ \A t \in Spaces, w \in Pages :
           pt'[t][w] = IF t = s /\ w = v THEN [frame |-> copy, flags |-> "rw"] ELSE pt[t][w]
  BY <1>1, <1>3, <1>4, <1>8, EntrySet DEF SpaceTypes
<1> HIDE DEF old
<1>10. /\ refs \in [Frames -> Nat]
       /\ \A g \in Frames : refs[g] = IF g = copy THEN leaf_refs[g] + 1 ELSE leaf_refs[g]
  BY <1>1, <1>3 DEF refs, AllocTypes
<1>11. /\ refs[old] = leaf_refs[old] /\ refs[old] >= 1
       /\ \A g \in Frames : allocation[g] # "allocated" => refs[g] = 0
  BY <1>1, <1>3, <1>6, <1>7, <1>10 DEF Alloc
<1>12. /\ AllocTypes' /\ Alloc'
       /\ \A g \in Frames : leaf_refs'[g] = IF g = old THEN refs[old] - 1 ELSE refs[g]
  BY <1>1, <1>4, <1>6, <1>10, <1>11, ReleaseFacts
<1>13. \A g \in Frames : leaf_refs'[g] = IF g = copy THEN leaf_refs[g] + 1
                                        ELSE IF g = old THEN leaf_refs[g] - 1 ELSE leaf_refs[g]
  BY <1>7, <1>10, <1>11, <1>12
<1>14. pt'[s][v].frame = copy
  BY <1>3, <1>9
<1>15. \A t \in Spaces, w \in Pages : ~(t = s /\ w = v) => pt'[t][w].frame = pt[t][w].frame
  BY <1>9
<1>16. Refs'
  BY <1>1, <1>3, <1>4, <1>5, <1>7, <1>13, <1>14, <1>15, RefsChanged DEF old
<1>17. SpaceTypes'
  BY <1>1, <1>4, <1>9 DEF SpaceTypes
<1> QED BY <1>3, <1>4, <1>5, <1>7, <1>9, <1>12, <1>16, <1>17 DEF Core, v, old

\* page v of s is shared with the child, as entry e
SharedAs(s, v, e) ==
  /\ v \in Pages /\ v \in leaves[s] /\ v \notin leaves[child] /\ work' = work \ {v}
  /\ pt[s][v] # NoPage /\ e.frame = pt[s][v].frame /\ e.flags = ChildFlags(s, v)
  /\ \A t \in Spaces, w \in Pages :
       pt'[t][w] = IF w = v /\ (t = s \/ t = child) THEN e ELSE pt[t][w]
  /\ \A t \in Spaces : leaves'[t] = IF t = child THEN leaves[t] \cup {v} ELSE leaves[t]
  /\ \A f \in Frames : leaf_refs'[f] = IF f = e.frame THEN leaf_refs[f] + 1 ELSE leaf_refs[f]
  /\ (e = pt[s][v] /\ tlb' = tlb) \/ FlushPage(v)

\* ForkPage: the child maps a frame of the parent, with the parent's new flags.
LEMMA ForkPageEffect ==
  ASSUME CInv, NEW s \in Spaces, ForkPage(s)
  PROVE  /\ Core' /\ child \in Spaces /\ child # s /\ pc[s] = "fork" /\ custody[child] = "child"
         /\ UNCHANGED <<allocation, FREE_FRAMES, NEXT_FREE_FRAME>>
         /\ \E v \in work : \E e \in Mapping : SharedAs(s, v, e)
<1>1. /\ Types /\ Lock /\ Held /\ ForkOp /\ Alloc /\ Refs /\ RunTypes /\ SpaceTypes /\ AllocTypes
      /\ LockTypes
  BY DEF CInv, Types
<1>2. pc[s] = "fork" /\ custody[s] = "row"
  BY <1>1 DEF ForkPage, Lock, LockPc
<1>3. /\ child \in Spaces /\ custody[child] = "child" /\ child # s /\ work \subseteq leaves[s]
      /\ \A w \in Pages : pt[child][w] = IF w \in work THEN NoPage ELSE pt[s][w]
  BY <1>1, <1>2 DEF ForkOp
<1>4. PICK v \in work :
        LET entry == [pt[s][v] EXCEPT !.flags = ChildFlags(s, v)] IN
        /\ pt' = [pt EXCEPT ![s][v] = entry, ![child][v] = entry]
        /\ leaves' = [leaves EXCEPT ![child] = @ \cup {v}]
        /\ leaf_refs' = [leaf_refs EXCEPT ![entry.frame] = @ + 1]
        /\ IF entry = pt[s][v] THEN UNCHANGED tlb ELSE FlushPage(v)
        /\ work' = work \ {v}
  BY DEF ForkPage
<1>5. v \in Pages /\ v \in leaves[s] /\ pt[child][v] = NoPage
  BY <1>1, <1>3 DEF LockTypes
<1>6. pt[s][v] \in Mapping /\ pt[s][v].frame \in Frames /\ leaf_refs[pt[s][v].frame] >= 1
  BY <1>1, <1>5, MappedIsCounted
<1>7. v \notin leaves[child]
  BY <1>1, <1>3, <1>5 DEF Held
<1> DEFINE e == [frame |-> pt[s][v].frame, flags |-> ChildFlags(s, v)]
<1>8. ChildFlags(s, v) \in {"rw", "cow"}
  BY <1>6, EntryFacts DEF ChildFlags
<1>9. [pt[s][v] EXCEPT !.flags = ChildFlags(s, v)] = e /\ e \in Entries /\ e \in Mapping
  BY <1>6, <1>8, EntryFacts, FlagsSet
<1>10. e.frame = pt[s][v].frame /\ e.flags = ChildFlags(s, v)
  OBVIOUS
<1> HIDE DEF e
<1>11. /\ pt' = [pt EXCEPT ![s][v] = e, ![child][v] = e]
       /\ leaves' = [leaves EXCEPT ![child] = @ \cup {v}]
       /\ leaf_refs' = [leaf_refs EXCEPT ![e.frame] = @ + 1]
       /\ (e = pt[s][v] /\ tlb' = tlb) \/ FlushPage(v)
       /\ work' = work \ {v}
  BY <1>4, <1>9
<1>12. /\ pt' \in [Spaces -> [Pages -> Entries]]
       /\ \A t \in Spaces, w \in Pages :
            pt'[t][w] = IF w = v /\ (t = s \/ t = child) THEN e ELSE pt[t][w]
  BY <1>1, <1>3, <1>5, <1>9, <1>11 DEF SpaceTypes
<1>13. /\ leaves' \in [Spaces -> SUBSET Pages]
       /\ \A t \in Spaces : leaves'[t] = IF t = child THEN leaves[t] \cup {v} ELSE leaves[t]
  BY <1>1, <1>3, <1>5, <1>11 DEF SpaceTypes
<1>14. /\ leaf_refs' \in [Frames -> Nat]
       /\ \A f \in Frames : leaf_refs'[f] = IF f = e.frame THEN leaf_refs[f] + 1 ELSE leaf_refs[f]
  BY <1>1, <1>6, <1>10, <1>11 DEF AllocTypes
<1>15. UNCHANGED <<allocation, FREE_FRAMES, NEXT_FREE_FRAME>>
  BY DEF ForkPage
<1>16. Alloc' /\ AllocTypes'
  <2>1. allocation[e.frame] = "allocated"
    BY <1>1, <1>6, <1>10 DEF Alloc
  <2> QED BY <1>1, <1>14, <1>15, <2>1 DEF Alloc, AllocTypes
<1>17. Refs'
  <2>1. \A t \in Spaces, w \in Pages : w \in leaves[t] => pt'[t][w].frame = pt[t][w].frame
    BY <1>7, <1>10, <1>12
  <2>2. pt'[child][v].frame = e.frame
    BY <1>3, <1>5, <1>12
  <2>3. \A f \in Frames : leaf_refs'[f] = IF f = pt'[child][v].frame THEN leaf_refs[f] + 1
                                                                   ELSE leaf_refs[f]
    BY <1>14, <2>2
  <2>4. leaves' = [leaves EXCEPT ![child] = @ \cup {v}]
    BY <1>11
  <2> QED BY <1>1, <1>3, <1>5, <1>7, <2>1, <2>3, <2>4, RefsAdded
<1>18. Core'
  BY <1>12, <1>13, <1>16, <1>17 DEF Core, SpaceTypes
<1>19. pt[s][v] # NoPage
  BY <1>6, EntryFacts
<1>20. \E w \in work : w = v
  OBVIOUS
<1>21. e \in Mapping
  BY <1>9
<1>22. SharedAs(s, v, e)
  BY <1>5, <1>7, <1>10, <1>11, <1>12, <1>13, <1>14, <1>19 DEF SharedAs
<1> QED BY <1>2, <1>3, <1>15, <1>18, <1>20, <1>21, <1>22

\* ForkFails: only the flags of one page of the parent change.
LEMMA ForkFailsEffect ==
  ASSUME CInv, NEW s \in Spaces, ForkFails(s)
  PROVE  /\ Core' /\ leaves' = leaves /\ UNCHANGED allocVars
         /\ child \in Spaces /\ child # s /\ pc[s] = "fork" /\ custody[child] = "child"
         /\ \E v \in Pages :
              /\ v \in leaves[s] /\ pt[s][v] # NoPage /\ pt'[s][v] # NoPage
              /\ pt'[s][v].frame = pt[s][v].frame /\ pt'[s][v].flags = ChildFlags(s, v)
              /\ \A t \in Spaces, w \in Pages : ~(t = s /\ w = v) => pt'[t][w] = pt[t][w]
<1>1. /\ Types /\ Lock /\ Held /\ ForkOp /\ Alloc /\ Refs /\ RunTypes /\ SpaceTypes /\ AllocTypes
      /\ LockTypes
  BY DEF CInv, Types
<1>2. pc[s] = "fork" /\ custody[s] = "row"
  BY <1>1 DEF ForkFails, Goto, Lock, LockPc
<1>3. child \in Spaces /\ custody[child] = "child" /\ child # s /\ work \subseteq leaves[s]
  BY <1>1, <1>2 DEF ForkOp
<1>4. PICK v \in work : pt' = [pt EXCEPT ![s][v].flags = ChildFlags(s, v)]
  BY DEF ForkFails
<1>5. v \in Pages /\ v \in leaves[s]
  BY <1>1, <1>3 DEF LockTypes
<1>6. pt[s][v] \in Mapping
  BY <1>1, <1>5, MappedIsCounted
<1> DEFINE e == [frame |-> pt[s][v].frame, flags |-> ChildFlags(s, v)]
<1>7. ChildFlags(s, v) \in {"rw", "cow"}
  BY <1>6, EntryFacts DEF ChildFlags
<1>8. /\ [pt[s][v] EXCEPT !.flags = ChildFlags(s, v)] = e /\ e \in Entries /\ e # NoPage
      /\ pt[s][v] # NoPage
  BY <1>6, <1>7, EntryFacts, FlagsSet
<1>9. e.frame = pt[s][v].frame /\ e.flags = ChildFlags(s, v)
  OBVIOUS
<1>10. pt' = [pt EXCEPT ![s][v] = [pt[s][v] EXCEPT !.flags = ChildFlags(s, v)]]
  BY <1>1, <1>4, <1>5 DEF SpaceTypes
<1> HIDE DEF e
<1>11. /\ pt' \in [Spaces -> [Pages -> Entries]]
       /\ \A t \in Spaces, w \in Pages : pt'[t][w] = IF t = s /\ w = v THEN e ELSE pt[t][w]
  BY <1>1, <1>5, <1>8, <1>10, EntrySet DEF SpaceTypes
<1>12. leaves' = leaves /\ UNCHANGED allocVars
  BY DEF ForkFails
<1>13. \A t \in Spaces, w \in Pages : pt'[t][w].frame = pt[t][w].frame
  BY <1>9, <1>11
<1>14. Refs'
  BY <1>1, <1>12, <1>13, RefsFrame DEF allocVars
<1>15. Core'
  BY <1>1, <1>11, <1>12, <1>14 DEF Core, SpaceTypes, AllocTypes, Alloc, allocVars
<1> QED BY <1>2, <1>3, <1>5, <1>8, <1>9, <1>11, <1>12, <1>15

\* MapPage: a page that was not mapped gets a frame that nobody maps.
LEMMA MapPageEffect ==
  ASSUME CInv, NEW s \in Spaces, MapPage(s)
  PROVE  /\ Core' /\ pc[s] = "mmap" /\ page[s] \in Pages /\ page[s] \notin leaves[s]
         /\ pt[s][page[s]] = NoPage
         /\ \A t \in Spaces : leaves'[t] = IF t = s THEN leaves[t] \cup {page[s]} ELSE leaves[t]
         /\ \E f \in Frames :
              /\ allocation[f] # "allocated" /\ leaf_refs[f] = 0
              /\ \A t \in Spaces, w \in Pages :
                   pt'[t][w] = IF t = s /\ w = page[s] THEN [frame |-> f, flags |-> "rw"]
                                                      ELSE pt[t][w]
              /\ \A g \in Frames : g # f => allocation'[g] = allocation[g] /\ leaf_refs'[g] = leaf_refs[g]
              /\ mem' = [mem EXCEPT ![f] = Zero]
<1>1. Types /\ Held /\ MapOp /\ Alloc /\ Refs /\ RunTypes /\ SpaceTypes /\ AllocTypes
  BY DEF CInv, Types
<1> DEFINE v == page[s]
<1>2. pc[s] = "mmap" /\ v \in Pages /\ pt[s][v] = NoPage
  BY <1>1 DEF MapPage, Resume, Goto, MapOp
<1>3. v \notin leaves[s]
  BY <1>1, <1>2 DEF Held
<1>4. PICK f \in Frames :
        /\ Allocate(f) /\ leaf_refs' = [leaf_refs EXCEPT ![f] = @ + 1]
        /\ pt' = [pt EXCEPT ![s][v] = [frame |-> f, flags |-> "rw"]]
        /\ mem' = [mem EXCEPT ![f] = Zero]
  BY DEF MapPage
<1>5. leaves' = [leaves EXCEPT ![s] = @ \cup {v}]
  BY DEF MapPage
<1> HIDE DEF v
<1>6. [frame |-> f, flags |-> "rw"] \in Entries
  BY EntryFacts
<1>7. /\ pt' \in [Spaces -> [Pages -> Entries]]
      /\ \A t \in Spaces, w \in Pages :
           pt'[t][w] = IF t = s /\ w = v THEN [frame |-> f, flags |-> "rw"] ELSE pt[t][w]
  BY <1>1, <1>2, <1>4, <1>6, EntrySet DEF SpaceTypes
<1>8. /\ leaves' \in [Spaces -> SUBSET Pages]
      /\ \A t \in Spaces : leaves'[t] = IF t = s THEN leaves[t] \cup {v} ELSE leaves[t]
  BY <1>1, <1>2, <1>5 DEF SpaceTypes
<1>9. /\ allocation[f] # "allocated" /\ leaf_refs[f] = 0
      /\ \A g \in Frames : allocation'[g] = IF g = f THEN "allocated" ELSE allocation[g]
      /\ allocation' \in [Frames -> {"never", "allocated", "free"}]
      /\ FREE_FRAMES' \in Seq(Frames) /\ NEXT_FREE_FRAME' \in 0..FrameCount
      /\ \A g \in Frames : g >= NEXT_FREE_FRAME' => allocation'[g] = "never"
      /\ IsInjective(FREE_FRAMES')
      /\ \A i \in 1..Len(FREE_FRAMES') : allocation'[FREE_FRAMES'[i]] = "free"
  BY <1>1, <1>4, AllocateFacts
<1>10. /\ leaf_refs' \in [Frames -> Nat]
       /\ \A g \in Frames : leaf_refs'[g] = IF g = f THEN leaf_refs[g] + 1 ELSE leaf_refs[g]
  BY <1>1, <1>4 DEF AllocTypes
<1>11. \A g \in Frames : allocation'[g] # "allocated" => leaf_refs'[g] = 0
  BY <1>1, <1>9, <1>10 DEF Alloc
<1>12. AllocTypes' /\ Alloc'
  BY <1>9, <1>10, <1>11 DEF AllocTypes, Alloc
<1>13. Refs'
  <2>1. \A t \in Spaces, w \in Pages : w \in leaves[t] => pt'[t][w].frame = pt[t][w].frame
    BY <1>3, <1>7
  <2>2. pt'[s][v].frame = f
    BY <1>2, <1>7
  <2> QED BY <1>1, <1>2, <1>3, <1>5, <1>10, <2>1, <2>2, RefsAdded
<1>14. Core'
  BY <1>7, <1>8, <1>12, <1>13 DEF Core, SpaceTypes
<1> QED BY <1>2, <1>3, <1>4, <1>7, <1>8, <1>9, <1>10, <1>14 DEF v

\* A leaf is released, by munmap or by the end of a space.
LEMMA LeafReleased ==
  ASSUME CInv, NEW s \in Spaces, NEW v \in Pages, v \in leaves[s],
         ReleaseLeaf(pt[s][v].frame, leaf_refs), leaves' = [leaves EXCEPT ![s] = @ \ {v}],
         pt' = [pt EXCEPT ![s][v] = NoPage] \/ pt' = pt
  PROVE  /\ Core'
         /\ \A t \in Spaces : leaves'[t] = IF t = s THEN leaves[t] \ {v} ELSE leaves[t]
         /\ \A t \in Spaces, w \in Pages : ~(t = s /\ w = v) => pt'[t][w] = pt[t][w]
         /\ \A g \in Frames : allocation[g] = "allocated" /\ leaf_refs[g] = 0
                              => allocation'[g] = "allocated" /\ leaf_refs'[g] = 0
<1>1. Types /\ Held /\ Alloc /\ Refs /\ SpaceTypes /\ AllocTypes
  BY DEF CInv, Types
<1> DEFINE f == pt[s][v].frame
<1>2. f \in Frames /\ leaf_refs[f] >= 1
  BY <1>1, MappedIsCounted
<1>3. /\ pt' \in [Spaces -> [Pages -> Entries]]
      /\ \A t \in Spaces, w \in Pages : ~(t = s /\ w = v) => pt'[t][w] = pt[t][w]
  <2>1. NoPage \in Entries
    BY DEF Entries
  <2>2. CASE pt' = pt
    BY <1>1, <2>2 DEF SpaceTypes
  <2>3. CASE pt' = [pt EXCEPT ![s][v] = NoPage]
    BY <1>1, <2>1, <2>3, EntrySet DEF SpaceTypes
  <2> QED BY <2>2, <2>3
<1>4. /\ leaves' \in [Spaces -> SUBSET Pages]
      /\ \A t \in Spaces : leaves'[t] = IF t = s THEN leaves[t] \ {v} ELSE leaves[t]
  BY <1>1 DEF SpaceTypes
<1>5. ReleaseLeaf(f, leaf_refs) /\ leaf_refs \in [Frames -> Nat]
      /\ \A g \in Frames : allocation[g] # "allocated" => leaf_refs[g] = 0
  BY <1>1 DEF Alloc, AllocTypes
<1> HIDE DEF f
<1>6. /\ AllocTypes' /\ Alloc'
      /\ \A g \in Frames : leaf_refs'[g] = IF g = f THEN leaf_refs[f] - 1 ELSE leaf_refs[g]
      /\ \A g \in Frames : allocation[g] = "allocated" /\ (g # f \/ leaf_refs[f] # 1)
                           => allocation'[g] = "allocated"
  BY <1>1, <1>2, <1>5, ReleaseFacts
<1>7. Refs'
  <2>1. \A t \in Spaces, w \in Pages :
          w \in leaves[t] /\ ~(t = s /\ w = v) => pt'[t][w].frame = pt[t][w].frame
    BY <1>3
  <2>2. \A g \in Frames : leaf_refs'[g] = IF g = pt[s][v].frame THEN leaf_refs[g] - 1
                                                               ELSE leaf_refs[g]
    BY <1>6 DEF f
  <2> QED BY <1>1, <2>1, <2>2, RefsRemoved
<1>8. Core'
  BY <1>3, <1>4, <1>6, <1>7 DEF Core, SpaceTypes
<1>9. \A g \in Frames : allocation[g] = "allocated" /\ leaf_refs[g] = 0
                        => allocation'[g] = "allocated" /\ leaf_refs'[g] = 0
  <2>1. \A g \in Frames : leaf_refs[g] = 0 => g # f
    BY <1>2
  <2> QED BY <1>6, <2>1
<1> QED BY <1>3, <1>4, <1>8, <1>9

\* ReleaseDone: the table of a space without leaves is dropped.
LEMMA ReleaseDoneEffect ==
  ASSUME CInv, NEW s \in Spaces, ReleaseDone(s)
  PROVE  /\ Core' /\ leaves' = leaves /\ leaves[s] = {} /\ UNCHANGED allocVars /\ Releasing(s)
         /\ \A t \in Spaces, w \in Pages : pt'[t][w] = IF t = s THEN NoPage ELSE pt[t][w]
<1>1. Types /\ Alloc /\ Refs /\ SpaceTypes /\ AllocTypes
  BY DEF CInv, Types
<1>2. /\ leaves' = leaves /\ leaves[s] = {} /\ UNCHANGED allocVars /\ Releasing(s)
      /\ pt' = [pt EXCEPT ![s] = EmptyTable]
  BY DEF ReleaseDone
<1>3. /\ pt' \in [Spaces -> [Pages -> Entries]]
      /\ \A t \in Spaces, w \in Pages : pt'[t][w] = IF t = s THEN NoPage ELSE pt[t][w]
  BY <1>1, <1>2 DEF SpaceTypes, EmptyTable, Entries
<1>4. \A t \in Spaces, w \in Pages : w \in leaves[t] => pt'[t][w].frame = pt[t][w].frame
  BY <1>2, <1>3
<1>5. Refs'
  BY <1>1, <1>2, <1>4, RefsFrame DEF allocVars
<1>6. Core'
  BY <1>1, <1>2, <1>3, <1>5 DEF Core, SpaceTypes, AllocTypes, Alloc, allocVars
<1> QED BY <1>2, <1>3, <1>6

-----------------------------------------------------------------------------
(***************************************************************************)
(* What the operations rely on, in those steps                              *)
(***************************************************************************)
Rely == Held /\ MapOp /\ CopyOp /\ ForkOp /\ Tlb

\* A sole-owner fault keeps what the other operations rely on.
LEMMA FaultSoleRely ==
  ASSUME CInv, NEW s \in Spaces, FaultSole(s)
  PROVE  Rely'
<1> DEFINE v == page[s]
           e == [frame |-> pt[s][v].frame, flags |-> "rw"]
<1>1. /\ Lock /\ Held /\ MapOp /\ CopyOp /\ ForkOp /\ Tlb /\ RunTypes /\ MemTypes
      /\ SpaceTypes
  BY DEF CInv, Types
<1>2. /\ v \in Pages /\ leaves' = leaves /\ UNCHANGED allocVars /\ pt[s][v] # NoPage
      /\ \A t \in Spaces, w \in Pages : pt'[t][w] = IF t = s /\ w = v THEN e ELSE pt[t][w]
  BY FaultSoleEffect
<1>3. /\ pc[s] = "fault" /\ \A t \in Spaces : pc'[t] = IF t = s THEN "user" ELSE pc[t]
      /\ manager = Nobody /\ UNCHANGED <<custody, manager, child, work, copy>> /\ FlushPage(v)
      /\ page' = [page EXCEPT ![s] = NoPage]
  BY <1>1, Moved DEF FaultSole, Resume, lockVars, RunTypes
<1>4. \A t \in Spaces : t # s => page'[t] = page[t]
  BY <1>1, <1>3 DEF RunTypes
<1>5. e # NoPage
  <2>1. pt[s][v] \in Mapping
    BY <1>1, <1>2, EntryFacts DEF SpaceTypes
  <2> QED BY <2>1, EntryFacts
<1>6. \A t \in Spaces : pc[t] \notin LockPc
  BY <1>1, <1>3, CowAssumption DEF Lock
<1>7. \A t \in Spaces, w \in Pages : tlb'[t][w] = IF w = v THEN NoPage ELSE tlb[t][w]
  BY <1>1, <1>2, <1>3, FlushFacts DEF MemTypes
<1> HIDE DEF v, e
<1>8. Held'
  BY <1>1, <1>2, <1>3, <1>5 DEF Held, Releasing
<1>9. MapOp'
  BY <1>1, <1>2, <1>3, <1>4 DEF MapOp
<1>10. CopyOp' /\ ForkOp'
  BY <1>3, <1>6 DEF CopyOp, ForkOp, LockPc
<1>11. Tlb'
  BY <1>1, <1>2, <1>3, <1>7 DEF Tlb, InstalledPc
<1> QED BY <1>8, <1>9, <1>10, <1>11 DEF Rely

\* The copy of a shared page keeps what the others rely on.
LEMMA FaultCopyRely ==
  ASSUME CInv, NEW s \in Spaces, FaultCopy(s)
  PROVE  Rely'
<1>1. /\ Lock /\ Held /\ MapOp /\ CopyOp /\ ForkOp /\ Tlb /\ RunTypes
  BY DEF CInv, Types
<1>2. /\ UNCHANGED spaceVars /\ leaf_refs' = leaf_refs
      /\ copy' \in Frames /\ allocation'[copy'] = "allocated" /\ leaf_refs[copy'] = 0
  BY FaultCopyEffect
<1>3. /\ pc[s] = "fault" /\ \A t \in Spaces : pc'[t] = IF t = s THEN "copy" ELSE pc[t]
      /\ manager = Nobody /\ UNCHANGED <<custody, child, work, page, tlb>> /\ IsCowFault(s)
  BY <1>1, Moved DEF FaultCopy, RunTypes
<1>4. \A t \in Spaces : pc[t] \notin LockPc
  BY <1>1, <1>3, CowAssumption DEF Lock
<1>5. Held'
  BY <1>1, <1>2, <1>3 DEF Held, Releasing, spaceVars
<1>6. MapOp'
  BY <1>1, <1>2, <1>3 DEF MapOp, spaceVars
<1>7. CopyOp' /\ ForkOp'
  BY <1>2, <1>3, <1>4 DEF CopyOp, ForkOp, LockPc, IsCowFault, spaceVars
<1>8. Tlb'
  BY <1>1, <1>2, <1>3 DEF Tlb, InstalledPc, spaceVars
<1> QED BY <1>5, <1>6, <1>7, <1>8 DEF Rely

\* The remap after the copy keeps what the others rely on.
LEMMA FaultRemapRely ==
  ASSUME CInv, NEW s \in Spaces, FaultRemap(s)
  PROVE  Rely'
<1> DEFINE v == page[s]
           e == [frame |-> copy, flags |-> "rw"]
<1>1. /\ Lock /\ Held /\ MapOp /\ CopyOp /\ ForkOp /\ Tlb /\ RunTypes /\ MemTypes
  BY DEF CInv, Types
<1>2. /\ v \in Pages /\ v \in leaves[s] /\ leaves' = leaves /\ copy \in Frames
      /\ \A t \in Spaces, w \in Pages : pt'[t][w] = IF t = s /\ w = v THEN e ELSE pt[t][w]
  BY FaultRemapEffect
<1>3. /\ pc[s] = "copy" /\ \A t \in Spaces : pc'[t] = IF t = s THEN "user" ELSE pc[t]
      /\ UNCHANGED <<custody, child, work>> /\ FlushPage(v)
      /\ page' = [page EXCEPT ![s] = NoPage]
  BY <1>1, Moved DEF FaultRemap, Resume, RunTypes
<1>4. \A t \in Spaces : t # s => page'[t] = page[t]
  BY <1>1, <1>3 DEF RunTypes
<1>5. e # NoPage
  BY <1>2, EntryFacts
<1>6. \A t \in Spaces : t # s => pc[t] \notin LockPc
  BY <1>1, <1>3 DEF Lock, LockPc
<1>7. \A t \in Spaces, w \in Pages : tlb'[t][w] = IF w = v THEN NoPage ELSE tlb[t][w]
  BY <1>1, <1>2, <1>3, FlushFacts DEF MemTypes
<1> HIDE DEF v, e
<1>8. Held'
  BY <1>1, <1>2, <1>3, <1>5 DEF Held, Releasing, Lock, LockPc
<1>9. MapOp'
  BY <1>1, <1>2, <1>3, <1>4 DEF MapOp
<1>10. CopyOp' /\ ForkOp'
  BY <1>3, <1>6 DEF CopyOp, ForkOp, LockPc
<1>11. Tlb'
  BY <1>1, <1>2, <1>3, <1>7 DEF Tlb, InstalledPc
<1> QED BY <1>8, <1>9, <1>10, <1>11 DEF Rely

\* Sharing one page with the child keeps what the others rely on.
LEMMA ForkPageRely ==
  ASSUME CInv, NEW s \in Spaces, ForkPage(s)
  PROVE  Rely'
<1>1. /\ Lock /\ Held /\ MapOp /\ CopyOp /\ ForkOp /\ Tlb /\ RunTypes /\ MemTypes
  BY DEF CInv, Types
<1>2. child \in Spaces /\ child # s /\ pc[s] = "fork" /\ custody[child] = "child"
  BY ForkPageEffect
<1>3. PICK v \in work : \E e \in Mapping : SharedAs(s, v, e)
  BY ForkPageEffect
<1>0. PICK e \in Mapping : SharedAs(s, v, e)
  BY <1>3
<1>4. /\ v \in Pages /\ v \in leaves[s] /\ v \notin leaves[child] /\ work' = work \ {v}
      /\ \A t \in Spaces, w \in Pages :
           pt'[t][w] = IF w = v /\ (t = s \/ t = child) THEN e ELSE pt[t][w]
      /\ \A t \in Spaces : leaves'[t] = IF t = child THEN leaves[t] \cup {v} ELSE leaves[t]
      /\ (e = pt[s][v] /\ tlb' = tlb) \/ FlushPage(v)
  BY <1>0 DEF SharedAs
<1>5. UNCHANGED <<custody, pc, page, manager, child, copy>>
  BY DEF ForkPage
<1>6. e # NoPage
  BY EntryFacts
<1>7. \A t \in Spaces : t # s => pc[t] \notin LockPc
  BY <1>1, <1>2 DEF Lock, LockPc
<1>8. pc[child] = "none"
  BY <1>1, <1>2 DEF Lock
<1>9. Held'
  <2>0. custody[s] = "row"
    BY <1>1, <1>2 DEF Lock, LockPc
  <2> SUFFICES ASSUME NEW t \in Spaces, NEW w \in Pages
               PROVE  /\ custody'[t] = "none" => leaves'[t] = {} /\ pt'[t][w] = NoPage
                      /\ w \in leaves'[t] => pt'[t][w] # NoPage
                      /\ pt'[t][w] # NoPage /\ ~Releasing(t)' => w \in leaves'[t]
    <3>1. \E w \in Pages : TRUE
      BY <1>4
    <3> QED BY <3>1 DEF Held
  <2>1. Releasing(t)' <=> Releasing(t)
    BY <1>5 DEF Releasing
  <2>2. CASE t = child
    <3>1. leaves'[t] = leaves[t] \cup {v} /\ pt'[t][w] = (IF w = v THEN e ELSE pt[t][w])
      BY <1>4, <2>2
    <3>2. custody'[t] = "child"
      BY <1>2, <1>5, <2>2
    <3> QED BY <1>1, <1>6, <2>1, <3>1, <3>2 DEF Held
  <2>3. CASE t = s
    <3>1. leaves'[t] = leaves[t] /\ pt'[t][w] = (IF w = v THEN e ELSE pt[t][w])
      BY <1>2, <1>4, <2>3
    <3>2. custody'[t] = "row"
      BY <1>5, <2>0, <2>3
    <3> QED BY <1>1, <1>4, <1>6, <2>1, <2>3, <3>1, <3>2 DEF Held
  <2>4. CASE t # s /\ t # child
    <3>1. leaves'[t] = leaves[t] /\ pt'[t][w] = pt[t][w] /\ custody'[t] = custody[t]
      BY <1>4, <1>5, <2>4
    <3> QED BY <1>1, <2>1, <3>1 DEF Held
  <2> QED BY <2>2, <2>3, <2>4
<1>10. MapOp'
  BY <1>1, <1>2, <1>4, <1>5, <1>8 DEF MapOp
<1>11. CopyOp'
  BY <1>2, <1>5, <1>7 DEF CopyOp, LockPc
<1>12. ForkOp'
  BY <1>1, <1>2, <1>4, <1>5, <1>7 DEF ForkOp, LockPc
<1>13. Tlb'
  <2>1. CASE e = pt[s][v] /\ tlb' = tlb
    <3>1. \A t \in Spaces, w \in Pages : t # child => pt'[t][w] = pt[t][w]
      BY <1>4, <2>1
    <3> QED BY <1>1, <1>5, <1>8, <2>1, <3>1 DEF Tlb, InstalledPc
  <2>2. CASE FlushPage(v)
    <3>1. \A t \in Spaces, w \in Pages : tlb'[t][w] = IF w = v THEN NoPage ELSE tlb[t][w]
      BY <1>1, <1>4, <2>2, FlushFacts DEF MemTypes
    <3> QED BY <1>1, <1>4, <1>5, <3>1 DEF Tlb
  <2> QED BY <1>4, <2>1, <2>2
<1> QED BY <1>9, <1>10, <1>11, <1>12, <1>13 DEF Rely

\* A fork that fails half way keeps what the others rely on.
LEMMA ForkFailsRely ==
  ASSUME CInv, NEW s \in Spaces, ForkFails(s)
  PROVE  Rely'
<1>1. /\ Lock /\ Held /\ MapOp /\ CopyOp /\ ForkOp /\ Tlb /\ RunTypes /\ MemTypes
  BY DEF CInv, Types
<1>2. child \in Spaces /\ child # s /\ pc[s] = "fork" /\ custody[child] = "child" /\ leaves' = leaves
  BY ForkFailsEffect
<1>3. PICK v \in Pages :
        /\ v \in leaves[s] /\ pt[s][v] # NoPage /\ pt'[s][v] # NoPage
        /\ \A t \in Spaces, w \in Pages : ~(t = s /\ w = v) => pt'[t][w] = pt[t][w]
  BY ForkFailsEffect
<1>4. /\ \A t \in Spaces : pc'[t] = IF t = s THEN "user" ELSE pc[t]
      /\ \A t \in Spaces : custody'[t] = IF t = child \/ t = s THEN "lost" ELSE custody[t]
      /\ UNCHANGED page /\ FlushAll
  BY <1>1, <1>2, Moved DEF ForkFails, RunTypes
<1>5. \A t \in Spaces : t # s => pc[t] \notin LockPc
  BY <1>1, <1>2 DEF Lock, LockPc
<1>6. pc[child] = "none" /\ custody[s] = "row"
  BY <1>1, <1>2 DEF Lock, LockPc
<1>7. Held'
  <2>1. \A t \in Spaces : custody'[t] = "none" => leaves'[t] = {} /\ \A w \in Pages : pt'[t][w] = NoPage
    BY <1>1, <1>2, <1>3, <1>4 DEF Held
  <2>2. \A t \in Spaces, w \in Pages : w \in leaves'[t] => pt'[t][w] # NoPage
    BY <1>1, <1>2, <1>3 DEF Held
  <2>3. \A t \in Spaces, w \in Pages : pt'[t][w] # NoPage /\ ~Releasing(t)' => w \in leaves'[t]
    BY <1>1, <1>2, <1>3, <1>4, <1>6 DEF Held, Releasing
  <2> QED BY <2>1, <2>2, <2>3 DEF Held
<1>8. MapOp'
  BY <1>1, <1>2, <1>3, <1>4 DEF MapOp
<1>9. CopyOp' /\ ForkOp'
  BY <1>4, <1>5 DEF CopyOp, ForkOp, LockPc
<1>10. Tlb'
  BY <1>4, FlushFacts DEF Tlb
<1> QED BY <1>7, <1>8, <1>9, <1>10 DEF Rely

\* A fresh mapping keeps what the others rely on.
LEMMA MapPageRely ==
  ASSUME CInv, NEW s \in Spaces, MapPage(s)
  PROVE  Rely'
<1> DEFINE v == page[s]
<1>1. /\ Lock /\ Held /\ MapOp /\ CopyOp /\ ForkOp /\ Tlb /\ RunTypes
  BY DEF CInv, Types
<1>2. /\ pc[s] = "mmap" /\ v \in Pages
      /\ \A t \in Spaces : leaves'[t] = IF t = s THEN leaves[t] \cup {v} ELSE leaves[t]
  BY MapPageEffect
<1>3. PICK f \in Frames :
        /\ allocation[f] # "allocated" /\ leaf_refs[f] = 0
        /\ \A t \in Spaces, w \in Pages :
             pt'[t][w] = IF t = s /\ w = page[s] THEN [frame |-> f, flags |-> "rw"]
                                                ELSE pt[t][w]
        /\ \A g \in Frames : g # f => allocation'[g] = allocation[g] /\ leaf_refs'[g] = leaf_refs[g]
        /\ mem' = [mem EXCEPT ![f] = Zero]
  BY MapPageEffect
<1>4. /\ \A t \in Spaces : pc'[t] = IF t = s THEN "user" ELSE pc[t]
      /\ UNCHANGED <<custody, manager, child, work, copy>> /\ FlushAll
      /\ \A t \in Spaces : t # s => page'[t] = page[t]
  BY <1>1, Moved DEF MapPage, Resume, RunTypes, lockVars
<1> DEFINE e == [frame |-> f, flags |-> "rw"]
<1>5. e # NoPage
  BY EntryFacts
<1>6. \A t \in Spaces, w \in Pages : pt'[t][w] = IF t = s /\ w = v THEN e ELSE pt[t][w]
  BY <1>3
<1> HIDE DEF v, e
<1>7. custody[s] \notin {"none", "draining"}
  BY <1>1, <1>2 DEF Lock, InstalledPc
<1>8. Held'
  <2> SUFFICES ASSUME NEW t \in Spaces, NEW w \in Pages
               PROVE  /\ custody'[t] = "none" => leaves'[t] = {} /\ pt'[t][w] = NoPage
                      /\ w \in leaves'[t] => pt'[t][w] # NoPage
                      /\ pt'[t][w] # NoPage /\ ~Releasing(t)' => w \in leaves'[t]
    <3>1. \E w \in Pages : TRUE
      BY <1>2
    <3> QED BY <3>1 DEF Held
  <2>1. CASE t = s
    <3>1. leaves'[t] = leaves[t] \cup {v} /\ pt'[t][w] = (IF w = v THEN e ELSE pt[t][w])
      BY <1>2, <1>6, <2>1
    <3>2. ~Releasing(t)
      BY <1>2, <1>7, <2>1 DEF Releasing
    <3> QED BY <1>1, <1>4, <1>5, <1>7, <2>1, <3>1, <3>2 DEF Held
  <2>2. CASE t # s
    <3>1. /\ leaves'[t] = leaves[t] /\ pt'[t][w] = pt[t][w] /\ custody'[t] = custody[t]
          /\ Releasing(t)' <=> Releasing(t)
      BY <1>2, <1>4, <1>6, <2>2 DEF Releasing
    <3> QED BY <1>1, <3>1 DEF Held
  <2> QED BY <2>1, <2>2
<1>9. MapOp'
  BY <1>1, <1>4, <1>6 DEF MapOp
<1>10. CopyOp'
  <2> SUFFICES ASSUME NEW t \in Spaces, pc'[t] = "copy"
               PROVE  /\ copy' \in Frames /\ allocation'[copy'] = "allocated" /\ leaf_refs'[copy'] = 0
                      /\ pt'[t][page'[t]] # NoPage /\ pt'[t][page'[t]].flags = "cow"
    BY DEF CopyOp
  <2>1. t # s /\ pc[t] = "copy" /\ page'[t] = page[t] /\ page[t] \in Pages
    BY <1>1, <1>4 DEF MapOp
  <2>2. /\ copy \in Frames /\ allocation[copy] = "allocated" /\ leaf_refs[copy] = 0
        /\ pt[t][page[t]] # NoPage /\ pt[t][page[t]].flags = "cow"
    BY <1>1, <2>1 DEF CopyOp
  <2>3. copy # f /\ copy' = copy
    BY <1>3, <1>4, <2>2
  <2> QED BY <1>3, <1>6, <2>1, <2>2, <2>3
<1>11. ForkOp'
  <2> SUFFICES ASSUME NEW t \in Spaces, pc'[t] = "fork"
               PROVE  /\ child' \in Spaces /\ custody'[child'] = "child" /\ work' \subseteq leaves'[t]
                      /\ \A w \in Pages : pt'[child'][w] = IF w \in work' THEN NoPage ELSE pt'[t][w]
    BY DEF ForkOp
  <2>1. t # s /\ pc[t] = "fork"
    BY <1>4
  <2>2. /\ child \in Spaces /\ custody[child] = "child" /\ work \subseteq leaves[t]
        /\ \A w \in Pages : pt[child][w] = IF w \in work THEN NoPage ELSE pt[t][w]
    BY <1>1, <2>1 DEF ForkOp
  <2>3. child # s
    BY <1>1, <1>2, <2>2 DEF Lock
  <2> QED BY <1>2, <1>4, <1>6, <2>1, <2>2, <2>3
<1>12. Tlb'
  BY <1>4, FlushFacts DEF Tlb
<1> QED BY <1>8, <1>9, <1>10, <1>11, <1>12 DEF Rely

\* An unmap keeps what the others rely on.
LEMMA UnmapRely ==
  ASSUME CInv, NEW s \in Spaces, NEW v \in Pages, Unmap(s, v)
  PROVE  Rely'
<1>1. /\ Lock /\ Held /\ MapOp /\ CopyOp /\ ForkOp /\ Tlb /\ RunTypes /\ SpaceTypes
  BY DEF CInv, Types
<1>2. /\ v \in leaves[s] /\ ReleaseLeaf(pt[s][v].frame, leaf_refs)
      /\ leaves' = [leaves EXCEPT ![s] = @ \ {v}] /\ pt' = [pt EXCEPT ![s][v] = NoPage]
  BY DEF Unmap
<1>3. /\ \A t \in Spaces : leaves'[t] = IF t = s THEN leaves[t] \ {v} ELSE leaves[t]
      /\ \A t \in Spaces, w \in Pages : ~(t = s /\ w = v) => pt'[t][w] = pt[t][w]
  BY <1>2, LeafReleased
<1>4. pt'[s][v] = NoPage
  BY <1>1, <1>2 DEF SpaceTypes
<1>5. /\ pc[s] = "user" /\ manager = Nobody /\ custody[s] = "row" /\ FlushAll
      /\ UNCHANGED <<custody, pc, page, manager, child, work, copy>>
  BY DEF Unmap, lockVars
<1>6. \A t \in Spaces : pc[t] \notin LockPc
  BY <1>1, <1>5, CowAssumption DEF Lock
<1>7. Held'
  <2> SUFFICES ASSUME NEW t \in Spaces, NEW w \in Pages
               PROVE  /\ custody'[t] = "none" => leaves'[t] = {} /\ pt'[t][w] = NoPage
                      /\ w \in leaves'[t] => pt'[t][w] # NoPage
                      /\ pt'[t][w] # NoPage /\ ~Releasing(t)' => w \in leaves'[t]
    <3>1. \E w \in Pages : TRUE
      OBVIOUS
    <3> QED BY <3>1 DEF Held
  <2>1. (Releasing(t)' <=> Releasing(t)) /\ custody'[t] = custody[t]
    BY <1>5 DEF Releasing
  <2>2. CASE t = s
    <3>1. leaves'[t] = leaves[t] \ {v} /\ pt'[t][w] = (IF w = v THEN NoPage ELSE pt[t][w])
      BY <1>3, <1>4, <2>2
    <3> QED BY <1>1, <1>5, <2>1, <2>2, <3>1 DEF Held
  <2>3. CASE t # s
    <3>1. leaves'[t] = leaves[t] /\ pt'[t][w] = pt[t][w]
      BY <1>3, <2>3
    <3> QED BY <1>1, <2>1, <3>1 DEF Held
  <2> QED BY <2>2, <2>3
<1>8. MapOp'
  BY <1>1, <1>3, <1>5 DEF MapOp
<1>9. CopyOp' /\ ForkOp'
  BY <1>5, <1>6 DEF CopyOp, ForkOp, LockPc
<1>10. Tlb'
  BY <1>5, FlushFacts DEF Tlb
<1> QED BY <1>7, <1>8, <1>9, <1>10 DEF Rely

\* The teardown's release of one leaf keeps what the others rely on.
LEMMA ReleaseMappedLeafRely ==
  ASSUME CInv, NEW s \in Spaces, ReleaseMappedLeaf(s)
  PROVE  Rely'
<1>1. /\ Lock /\ Held /\ MapOp /\ CopyOp /\ ForkOp /\ Tlb /\ SpaceTypes
  BY DEF CInv, Types
<1>2. PICK v \in leaves[s] : /\ ReleaseLeaf(pt[s][v].frame, leaf_refs)
                             /\ leaves' = [leaves EXCEPT ![s] = @ \ {v}]
  BY DEF ReleaseMappedLeaf
<1>3. v \in Pages
  BY <1>1 DEF SpaceTypes
<1>4. /\ Releasing(s) /\ UNCHANGED <<pt, custody, tlb, pc, page, manager, child, work, copy>>
  BY DEF ReleaseMappedLeaf, lockVars
<1>5. /\ \A t \in Spaces : leaves'[t] = IF t = s THEN leaves[t] \ {v} ELSE leaves[t]
      /\ \A g \in Frames : allocation[g] = "allocated" /\ leaf_refs[g] = 0
                           => allocation'[g] = "allocated" /\ leaf_refs'[g] = 0
  BY <1>2, <1>3, <1>4, LeafReleased
<1>6. custody[s] # "none" /\ pc[s] # "fork"
  BY <1>1, <1>4 DEF Releasing, Lock, LockPc, InstalledPc
<1>7. Held'
  BY <1>1, <1>4, <1>5, <1>6 DEF Held, Releasing
<1>8. MapOp' /\ Tlb'
  BY <1>1, <1>4 DEF MapOp, Tlb
<1>9. CopyOp'
  BY <1>1, <1>4, <1>5 DEF CopyOp
<1>10. ForkOp'
  BY <1>1, <1>4, <1>5, <1>6 DEF ForkOp
<1> QED BY <1>7, <1>8, <1>9, <1>10 DEF Rely

\* The end of a teardown keeps what the others rely on.
LEMMA ReleaseDoneRely ==
  ASSUME CInv, NEW s \in Spaces, ReleaseDone(s)
  PROVE  Rely'
<1>1. /\ Lock /\ Held /\ MapOp /\ CopyOp /\ ForkOp /\ Tlb /\ RunTypes
  BY DEF CInv, Types
<1>2. /\ leaves' = leaves /\ leaves[s] = {} /\ UNCHANGED allocVars /\ Releasing(s)
      /\ \A t \in Spaces, w \in Pages : pt'[t][w] = IF t = s THEN NoPage ELSE pt[t][w]
  BY ReleaseDoneEffect
<1>3. /\ \A t \in Spaces : custody'[t] = IF t = s THEN "none" ELSE custody[t]
      /\ \A t \in Spaces : pc'[t] = pc[t] \/ (t = s /\ pc'[t] = "none")
      /\ UNCHANGED <<tlb, page, work, child, copy>>
  BY <1>1 DEF ReleaseDone, RunTypes
<1>4. pc[s] \notin InstalledPc
  BY <1>1, <1>2 DEF Releasing, Lock, InstalledPc
<1>5. \A t \in Spaces : t # s => (Releasing(t)' <=> Releasing(t))
  BY <1>3 DEF Releasing
<1>6. Held'
  BY <1>1, <1>2, <1>3, <1>5 DEF Held
<1>7. MapOp'
  BY <1>1, <1>2, <1>3, <1>4 DEF MapOp, InstalledPc
<1>8. CopyOp'
  <2> SUFFICES ASSUME NEW t \in Spaces, pc'[t] = "copy"
               PROVE  /\ copy' \in Frames /\ allocation'[copy'] = "allocated" /\ leaf_refs'[copy'] = 0
                      /\ pt'[t][page'[t]] # NoPage /\ pt'[t][page'[t]].flags = "cow"
    BY DEF CopyOp
  <2>1. t # s /\ pc[t] = "copy" /\ page[t] \in Pages
    BY <1>1, <1>3, <1>4 DEF MapOp, InstalledPc
  <2> QED BY <1>1, <1>2, <1>3, <2>1 DEF CopyOp, allocVars
<1>9. ForkOp'
  <2> SUFFICES ASSUME NEW t \in Spaces, pc'[t] = "fork"
               PROVE  /\ child' \in Spaces /\ custody'[child'] = "child" /\ work' \subseteq leaves'[t]
                      /\ \A w \in Pages : pt'[child'][w] = IF w \in work' THEN NoPage ELSE pt'[t][w]
    BY DEF ForkOp
  <2>1. t # s /\ pc[t] = "fork"
    BY <1>3, <1>4 DEF InstalledPc
  <2>2. /\ child \in Spaces /\ custody[child] = "child" /\ work \subseteq leaves[t]
        /\ \A w \in Pages : pt[child][w] = IF w \in work THEN NoPage ELSE pt[t][w]
    BY <1>1, <2>1 DEF ForkOp
  <2>3. child # s
    BY <1>1, <1>2, <2>2 DEF Lock, Releasing
  <2> QED BY <1>2, <1>3, <2>1, <2>2, <2>3
<1>10. Tlb'
  BY <1>1, <1>2, <1>3, <1>4 DEF Tlb
<1> QED BY <1>6, <1>7, <1>8, <1>9, <1>10 DEF Rely

-----------------------------------------------------------------------------
(***************************************************************************)
(* Steps that change neither page tables nor the allocator                  *)
(***************************************************************************)
Still == UNCHANGED <<allocVars, spaceVars>>

\* A step that touches no mapping, count or free frame keeps Core.
LEMMA StillCore ==
  ASSUME CInv, Still
  PROVE  Core'
<1>1. SpaceTypes /\ AllocTypes /\ Alloc /\ Refs
  BY DEF CInv, Types
<1>2. Refs'
  BY <1>1, RefsFrame DEF Still, allocVars, spaceVars
<1> QED BY <1>1, <1>2 DEF Core, Still, allocVars, spaceVars, SpaceTypes, AllocTypes, Alloc

\* Held survives a step that changes no frame and ends no teardown.
LEMMA HeldFrame ==
  ASSUME Held, Still,
         \A t \in Spaces : custody'[t] = "none" => custody[t] = "none",
         \A t \in Spaces : Releasing(t) => Releasing(t)'
  PROVE  Held'
BY DEF Held, Still, spaceVars

\* A thread outside the lock moves, or caches what its page table says.
LEMMA StillFrame ==
  ASSUME CInv, NEW s \in Spaces, Still, UNCHANGED <<custody, child, work, copy>>,
         \A t \in Spaces : t # s => page'[t] = page[t] /\ pc'[t] = pc[t],
         pc[s] \notin LockPc, pc'[s] \notin LockPc,
         pc'[s] \in {"fault", "mmap"} => page'[s] \in Pages,
         pc'[s] = "mmap" => pt[s][page'[s]] = NoPage,
         \A t \in Spaces, w \in Pages :
           tlb'[t][w] # NoPage => pc'[t] \in InstalledPc /\ tlb'[t][w] = pt[t][w]
  PROVE  Rely'
<1>1. /\ Held /\ MapOp /\ CopyOp /\ ForkOp
  BY DEF CInv
<1>2. Held'
  <2>1. \A t \in Spaces : Releasing(t) => Releasing(t)'
    BY DEF Releasing, LockPc
  <2> QED BY <1>1, <2>1, HeldFrame
<1>3. MapOp'
  BY <1>1 DEF MapOp, Still, spaceVars, LockPc
<1>4. CopyOp'
  BY <1>1 DEF CopyOp, Still, spaceVars, allocVars, LockPc
<1>5. ForkOp'
  BY <1>1 DEF ForkOp, Still, spaceVars, LockPc
<1>6. Tlb'
  BY DEF Tlb, Still, spaceVars
<1> QED BY <1>2, <1>3, <1>4, <1>5, <1>6 DEF Rely

\* What a CPU caches is in its page table.
LEMMA CachedFacts ==
  ASSUME CInv, NEW s \in Spaces, NEW v \in Pages, pc[s] \in InstalledPc, Cached(s, v)
  PROVE  /\ tlb' \in [Spaces -> [Pages -> Entries]] /\ Translation(s, v) = pt[s][v]
         /\ \A t \in Spaces, w \in Pages :
              tlb'[t][w] # NoPage => pc[t] \in InstalledPc /\ tlb'[t][w] = pt[t][w]
<1>1. SpaceTypes /\ MemTypes /\ Tlb
  BY DEF CInv, Types
<1>2. Translation(s, v) = pt[s][v]
  BY <1>1 DEF Translation, Tlb
<1>3. tlb' = [tlb EXCEPT ![s][v] = pt[s][v]]
  BY <1>2 DEF Cached
<1>4. /\ tlb' \in [Spaces -> [Pages -> Entries]]
      /\ \A t \in Spaces, w \in Pages : tlb'[t][w] = IF t = s /\ w = v THEN pt[s][v] ELSE tlb[t][w]
  BY <1>1, <1>3 DEF SpaceTypes, MemTypes
<1> QED BY <1>1, <1>2, <1>4 DEF Tlb

\* the walks and the store that change nothing of the allocator
StillWalks(s) ==
  \/ \E v \in Pages : StoreFaults(s, v) \/ MapLookup(s, v) \/ \E x \in Values : Store(s, v, x)
  \/ FaultFails(s) \/ MapFails(s) \/ Preempt(s) \/ Stamp(s) \/ DispatchGone(s)
  \/ Exit(s) \/ ExitRepeated(s) \/ Dispatch(s)

\* The still steps inside an operation.
LEMMA StillWalksRely ==
  ASSUME CInv, NEW s \in Spaces, StillWalks(s)
  PROVE  Rely' /\ Still
<1> USE DEF LockPc, InstalledPc, Places
<1>0. Tlb /\ RunTypes
  BY DEF CInv, Types
<1>a. \A t \in Spaces, w \in Pages : tlb[t][w] # NoPage => pc[t] \in InstalledPc /\ tlb[t][w] = pt[t][w]
  BY <1>0 DEF Tlb
<1>1. ASSUME NEW v \in Pages, StoreFaults(s, v) PROVE Rely' /\ Still
  <2>1. /\ Goto(s, "user", "fault") /\ Cached(s, v) /\ page' = [page EXCEPT ![s] = v]
        /\ Still /\ UNCHANGED <<custody, child, work, copy>>
    BY <1>1 DEF StoreFaults, Still, lockVars
  <2>2. /\ pc[s] = "user" /\ \A t \in Spaces : pc'[t] = IF t = s THEN "fault" ELSE pc[t]
    BY <1>0, <2>1, Moved DEF RunTypes
  <2>3. \A t \in Spaces : page'[t] = IF t = s THEN v ELSE page[t]
    BY <1>0, <2>1 DEF RunTypes
  <2>4. \A t \in Spaces, w \in Pages :
          tlb'[t][w] # NoPage => pc[t] \in InstalledPc /\ tlb'[t][w] = pt[t][w]
    BY <2>1, <2>2, CachedFacts
  <2>5. \A t \in Spaces, w \in Pages :
          tlb'[t][w] # NoPage => pc'[t] \in InstalledPc /\ tlb'[t][w] = pt[t][w]
    BY <2>2, <2>4
  <2> QED BY <2>1, <2>2, <2>3, <2>5, StillFrame
<1>2. ASSUME NEW v \in Pages, MapLookup(s, v) PROVE Rely' /\ Still
  <2>1. /\ Goto(s, "user", "mmap") /\ pt[s][v] = NoPage /\ page' = [page EXCEPT ![s] = v]
        /\ Still /\ UNCHANGED <<custody, child, work, copy, tlb>>
    BY <1>2 DEF MapLookup, Still, lockVars
  <2>2. /\ pc[s] = "user" /\ \A t \in Spaces : pc'[t] = IF t = s THEN "mmap" ELSE pc[t]
    BY <1>0, <2>1, Moved DEF RunTypes
  <2>3. \A t \in Spaces : page'[t] = IF t = s THEN v ELSE page[t]
    BY <1>0, <2>1 DEF RunTypes
  <2>4. \A t \in Spaces, w \in Pages :
          tlb'[t][w] # NoPage => pc'[t] \in InstalledPc /\ tlb'[t][w] = pt[t][w]
    BY <1>a, <2>1, <2>2
  <2> QED BY <2>1, <2>2, <2>3, <2>4, StillFrame
<1>3. ASSUME NEW v \in Pages, NEW x \in Values, Store(s, v, x) PROVE Rely' /\ Still
  <2>1. /\ pc[s] = "user" /\ Cached(s, v) /\ Still
        /\ UNCHANGED <<pc, page, custody, child, work, copy>>
    BY <1>3 DEF Store, Still, lockVars
  <2>2. \A t \in Spaces, w \in Pages :
          tlb'[t][w] # NoPage => pc[t] \in InstalledPc /\ tlb'[t][w] = pt[t][w]
    BY <2>1, CachedFacts
  <2> QED BY <2>1, <2>2, StillFrame
<1>4. ASSUME NEW from, NEW to, Goto(s, from, to), Still, UNCHANGED <<custody, child, work, copy>>,
             from \notin LockPc, to \notin LockPc \cup {"fault", "mmap"},
             \A t \in Spaces : t # s => page'[t] = page[t],
             FlushAll \/ (tlb' = tlb /\ from \notin InstalledPc)
      PROVE  Rely'
  <2>1. /\ pc[s] = from /\ \A t \in Spaces : pc'[t] = IF t = s THEN to ELSE pc[t]
    BY <1>0, <1>4, Moved DEF RunTypes
  <2>2. \A t \in Spaces, w \in Pages :
          tlb'[t][w] # NoPage => pc'[t] \in InstalledPc /\ tlb'[t][w] = pt[t][w]
    BY <1>a, <1>4, <2>1, FlushFacts
  <2>3. pc[s] \notin LockPc /\ pc'[s] \notin LockPc /\ pc'[s] \notin {"fault", "mmap"}
    BY <1>4, <2>1
  <2> QED BY <1>4, <2>1, <2>2, <2>3, StillFrame
<1>5. CASE FaultFails(s)
  <2>1. /\ Goto(s, "fault", "dying") /\ FlushAll /\ page' = [page EXCEPT ![s] = NoPage]
        /\ Still /\ UNCHANGED <<custody, child, work, copy>>
    BY <1>5 DEF FaultFails, Still, lockVars
  <2>2. \A t \in Spaces : t # s => page'[t] = page[t]
    BY <1>0, <2>1 DEF RunTypes
  <2> QED BY <1>4, <2>1, <2>2
<1>6. CASE MapFails(s)
  <2>1. /\ Goto(s, "mmap", "user") /\ FlushAll /\ page' = [page EXCEPT ![s] = NoPage]
        /\ Still /\ UNCHANGED <<custody, child, work, copy>>
    BY <1>6 DEF MapFails, Resume, Still, lockVars
  <2>2. \A t \in Spaces : t # s => page'[t] = page[t]
    BY <1>0, <2>1 DEF RunTypes
  <2> QED BY <1>4, <2>1, <2>2
<1>7. CASE Preempt(s)
  <2>1. /\ Goto(s, "user", "off") /\ FlushAll /\ Still /\ UNCHANGED <<custody, child, work, copy, page>>
    BY <1>7 DEF Preempt, Still, lockVars
  <2> QED BY <1>4, <2>1
<1>8. CASE Stamp(s)
  <2>1. /\ Goto(s, "dispatch", "user") /\ FlushAll /\ Still /\ UNCHANGED <<custody, child, work, copy, page>>
    BY <1>8 DEF Stamp, Still, lockVars
  <2> QED BY <1>4, <2>1
<1>9. CASE DispatchGone(s)
  <2>1. /\ Goto(s, "off", "none") /\ tlb' = tlb /\ Still /\ UNCHANGED <<custody, child, work, copy, page>>
    BY <1>9 DEF DispatchGone, Still, lockVars
  <2> QED BY <1>4, <2>1
<1>10. CASE Exit(s)
  <2>1. /\ Goto(s, "user", "exit") /\ FlushAll /\ Still /\ UNCHANGED <<custody, child, work, copy, page>>
    BY <1>10 DEF Exit, Still, lockVars
  <2> QED BY <1>4, <2>1
<1>11. CASE ExitRepeated(s)
  <2>1. PICK from \in {"exit", "dying"} : Goto(s, from, "none")
    BY <1>11 DEF ExitRepeated
  <2>2. tlb' = tlb /\ Still /\ UNCHANGED <<custody, child, work, copy, page>>
    BY <1>11 DEF ExitRepeated, Still, lockVars
  <2> QED BY <1>4, <2>1, <2>2
<1>12. CASE Dispatch(s)
  <2>1. /\ Goto(s, "off", "dispatch") /\ tlb' = tlb /\ Still /\ UNCHANGED <<custody, child, work, copy, page>>
    BY <1>12 DEF Dispatch, Still, lockVars
  <2> QED BY <1>4, <2>1
<1> QED
  BY <1>1, <1>2, <1>3, <1>5, <1>6, <1>7, <1>8, <1>9, <1>10, <1>11, <1>12 DEF StillWalks

\* the steps that hand over the lock or a space, and change nothing of the allocator
StillHands(s) ==
  \/ (\E c \in Spaces : Fork(s, c)) \/ ForkDone(s) \/ ExitLocked(s) \/ FaultExit(s)
  \/ Kill(s) \/ Tick(s) \/ Reclaim(s)

\* A space is retired.
LEMMA RetireFacts ==
  ASSUME RunTypes, NEW s \in Spaces, Retire(s)
  PROVE  /\ manager = Nobody /\ custody[s] = "row" /\ Still
         /\ UNCHANGED <<mem, tlb, page, manager, child, work, copy>>
         /\ custody'[s] \in {"receipt", "lost"} /\ \A t \in Spaces : t # s => custody'[t] = custody[t]
         /\ custody' \in [Spaces -> Custodies] /\ fence' \subseteq Spaces
BY DEF Retire, RunTypes, Still, lockVars, Custodies

\* The still steps that hand an address space over.
LEMMA StillHandsRely ==
  ASSUME CInv, NEW s \in Spaces, StillHands(s)
  PROVE  Rely' /\ Still
<1> USE DEF LockPc, InstalledPc, Places
<1>0. Lock /\ Held /\ MapOp /\ CopyOp /\ ForkOp /\ Tlb /\ RunTypes /\ SpaceTypes
  BY DEF CInv, Types
<1>a. manager = Nobody => \A t \in Spaces : pc[t] \notin LockPc
  BY <1>0, CowAssumption DEF Lock
<1>1. ASSUME NEW c \in Spaces, Fork(s, c) PROVE Rely' /\ Still
  <2>1. /\ pc[s] = "user" /\ \A t \in Spaces : pc'[t] = IF t = s THEN "fork" ELSE pc[t]
        /\ manager = Nobody /\ custody[s] = "row" /\ custody[c] = "none" /\ pc[c] = "none"
        /\ child' = c /\ work' = leaves[s] /\ Still /\ UNCHANGED <<tlb, page, copy>>
    BY <1>0, <1>1, Moved DEF Fork, RunTypes, Still
  <2>2. \A t \in Spaces : custody'[t] = IF t = c THEN "child" ELSE custody[t]
    BY <1>0, <1>1 DEF Fork, RunTypes
  <2>3. Held'
    <3>1. \A t \in Spaces : Releasing(t) => Releasing(t)'
      BY <2>1, <2>2 DEF Releasing
    <3>2. \A t \in Spaces : custody'[t] = "none" => custody[t] = "none"
      BY <2>2
    <3> QED BY <1>0, <2>1, <3>1, <3>2, HeldFrame
  <2>4. MapOp' /\ CopyOp' /\ Tlb'
    BY <1>0, <1>a, <2>1 DEF MapOp, CopyOp, Tlb, Still, spaceVars
  <2>5. ForkOp'
    <3>1. \A t \in Spaces : pc'[t] = "fork" => t = s
      BY <1>a, <2>1
    <3>2. \A v \in Pages : pt[c][v] = NoPage
      BY <1>0, <2>1 DEF Held
    <3>3. \A v \in Pages : v \notin leaves[s] => pt[s][v] = NoPage
      BY <1>0, <2>1 DEF Held, Releasing
    <3>4. \A v \in Pages : pt'[child'][v] = IF v \in work' THEN NoPage ELSE pt'[s][v]
      BY <2>1, <3>2, <3>3 DEF Still, spaceVars
    <3>5. child' \in Spaces /\ custody'[child'] = "child" /\ work' \subseteq leaves'[s]
      BY <2>1, <2>2 DEF Still, spaceVars
    <3> QED BY <3>1, <3>4, <3>5 DEF ForkOp
  <2> QED BY <2>1, <2>3, <2>4, <2>5 DEF Rely
<1>2. CASE ForkDone(s)
  <2>1. child \in Spaces /\ custody[child] = "child" /\ pc[s] = "fork" /\ Still /\ FlushAll
        /\ page' = page
    BY <1>0, <1>2 DEF ForkDone, ForkOp, Still
  <2>2. /\ \A t \in Spaces : pc'[t] = IF t = child THEN "off" ELSE IF t = s THEN "user" ELSE pc[t]
        /\ \A t \in Spaces : custody'[t] = IF t = child THEN "row" ELSE custody[t]
    BY <1>0, <1>2, <2>1 DEF ForkDone, RunTypes
  <2>3. pc[child] = "none" /\ \A t \in Spaces : t # s => pc[t] \notin LockPc
    BY <1>0, <2>1 DEF Lock
  <2>4. Held'
    <3>1. \A t \in Spaces : Releasing(t) => Releasing(t)'
      BY <2>1, <2>2, <2>3 DEF Releasing
    <3>2. \A t \in Spaces : custody'[t] = "none" => custody[t] = "none"
      BY <2>2
    <3> QED BY <1>0, <2>1, <3>1, <3>2, HeldFrame
  <2>5. MapOp'
    BY <1>0, <2>1, <2>2 DEF MapOp, Still, spaceVars
  <2>6. CopyOp' /\ ForkOp'
    BY <2>2, <2>3 DEF CopyOp, ForkOp
  <2>7. Tlb'
    BY <2>1, FlushFacts DEF Tlb
  <2> QED BY <2>1, <2>4, <2>5, <2>6, <2>7 DEF Rely
<1>3. CASE ExitLocked(s)
  <2>1. /\ pc[s] = "exit" /\ \A t \in Spaces : pc'[t] = IF t = s THEN "release" ELSE pc[t]
        /\ manager = Nobody /\ Still /\ UNCHANGED <<custody, tlb, page, copy, child, work>>
    BY <1>0, <1>3, Moved DEF ExitLocked, RunTypes, Still
  <2>2. Held'
    <3>1. \A t \in Spaces : Releasing(t) => Releasing(t)'
      BY <2>1 DEF Releasing
    <3> QED BY <1>0, <2>1, <3>1, HeldFrame
  <2>3. MapOp' /\ Tlb'
    BY <1>0, <2>1 DEF MapOp, Tlb, Still, spaceVars
  <2>4. CopyOp' /\ ForkOp'
    BY <1>a, <2>1 DEF CopyOp, ForkOp
  <2> QED BY <2>1, <2>2, <2>3, <2>4 DEF Rely
<1>4. ASSUME Retire(s), \A t \in Spaces : pc'[t] = IF t = s /\ pc[s] = "dying" THEN "none" ELSE pc[t]
      PROVE  Rely' /\ Still
  <2>1. /\ manager = Nobody /\ custody[s] = "row" /\ Still /\ UNCHANGED <<tlb, page>>
        /\ custody'[s] \in {"receipt", "lost"} /\ \A t \in Spaces : t # s => custody'[t] = custody[t]
    BY <1>0, <1>4, RetireFacts
  <2>2. Held'
    <3>1. \A t \in Spaces : Releasing(t) => Releasing(t)'
      BY <1>4, <2>1 DEF Releasing
    <3>2. \A t \in Spaces : custody'[t] = "none" => custody[t] = "none"
      BY <2>1
    <3> QED BY <1>0, <2>1, <3>1, <3>2, HeldFrame
  <2>3. MapOp' /\ Tlb'
    BY <1>0, <1>4, <2>1 DEF MapOp, Tlb, Still, spaceVars
  <2>4. CopyOp' /\ ForkOp'
    BY <1>a, <1>4, <2>1 DEF CopyOp, ForkOp
  <2> QED BY <2>1, <2>2, <2>3, <2>4 DEF Rely
<1>5. CASE FaultExit(s)
  <2>1. /\ pc[s] = "dying" /\ \A t \in Spaces : pc'[t] = IF t = s THEN "none" ELSE pc[t]
    BY <1>0, <1>5, Moved DEF FaultExit, RunTypes
  <2>2. Retire(s)
    BY <1>5 DEF FaultExit
  <2> QED BY <1>4, <2>1, <2>2
<1>6. CASE Kill(s)
  BY <1>4, <1>6 DEF Kill
<1>7. CASE Tick(s)
  <2>1. Still /\ UNCHANGED <<custody, tlb, pc, page, copy, child, work>>
    BY <1>7 DEF Tick, Still, lockVars
  <2> QED BY <1>0, <2>1 DEF Rely, Held, MapOp, CopyOp, ForkOp, Tlb, Releasing, Still, spaceVars, allocVars
<1>8. CASE Reclaim(s)
  <2>1. Still /\ custody[s] = "receipt" /\ UNCHANGED <<tlb, pc, page, copy, child, work>>
    BY <1>8 DEF Reclaim, Still, lockVars
  <2>2. \A t \in Spaces : custody'[t] = IF t = s THEN "draining" ELSE custody[t]
    BY <1>0, <1>8 DEF Reclaim, RunTypes
  <2>3. Held'
    <3>1. \A t \in Spaces : Releasing(t) => Releasing(t)'
      BY <2>1, <2>2 DEF Releasing
    <3>2. \A t \in Spaces : custody'[t] = "none" => custody[t] = "none"
      BY <2>2
    <3> QED BY <1>0, <2>1, <3>1, <3>2, HeldFrame
  <2>4. MapOp' /\ CopyOp' /\ Tlb'
    BY <1>0, <2>1 DEF MapOp, CopyOp, Tlb, Still, spaceVars, allocVars
  <2>5. ForkOp'
    BY <1>0, <2>1, <2>2 DEF ForkOp, Still, spaceVars
  <2> QED BY <2>1, <2>3, <2>4, <2>5 DEF Rely
<1> QED BY <1>1, <1>2, <1>3, <1>5, <1>6, <1>7, <1>8 DEF StillHands

-----------------------------------------------------------------------------
(***************************************************************************)
(* The invariant                                                            *)
(***************************************************************************)
\* the steps that change page tables, counts or the allocator
Moves(s) ==
  \/ FaultSole(s) \/ FaultCopy(s) \/ FaultRemap(s) \/ ForkPage(s) \/ ForkFails(s) \/ MapPage(s)
  \/ (\E v \in Pages : Unmap(s, v)) \/ ReleaseMappedLeaf(s) \/ ReleaseDone(s)

\* Every step is still, or moves frames.
LEMMA StepSplit ==
  ASSUME CNext
  PROVE  \E s \in Spaces : StillWalks(s) \/ StillHands(s) \/ Moves(s)
BY Zenon DEF CNext, KernelStep, StillWalks, StillHands, Moves

\* Every step keeps Core and Rely.
LEMMA StepCoreRely ==
  ASSUME CInv, CNext
  PROVE  Core' /\ Rely'
<1>1. PICK s \in Spaces : StillWalks(s) \/ StillHands(s) \/ Moves(s)
  BY StepSplit
<1>2. CASE StillWalks(s)
  BY <1>2, StillWalksRely, StillCore
<1>3. CASE StillHands(s)
  BY <1>3, StillHandsRely, StillCore
<1>4. CASE FaultSole(s)
  BY <1>4, FaultSoleRely, FaultSoleEffect
<1>5. CASE FaultCopy(s)
  BY <1>5, FaultCopyRely, FaultCopyEffect
<1>6. CASE FaultRemap(s)
  BY <1>6, FaultRemapRely, FaultRemapEffect
<1>7. CASE ForkPage(s)
  BY <1>7, ForkPageRely, ForkPageEffect
<1>8. CASE ForkFails(s)
  BY <1>8, ForkFailsRely, ForkFailsEffect
<1>9. CASE MapPage(s)
  BY <1>9, MapPageRely, MapPageEffect
<1>10. ASSUME NEW v \in Pages, Unmap(s, v) PROVE Core' /\ Rely'
  <2>1. /\ v \in leaves[s] /\ ReleaseLeaf(pt[s][v].frame, leaf_refs)
        /\ leaves' = [leaves EXCEPT ![s] = @ \ {v}] /\ pt' = [pt EXCEPT ![s][v] = NoPage]
    BY <1>10 DEF Unmap
  <2>2. Core'
    BY <2>1, LeafReleased
  <2> QED BY <1>10, <2>2, UnmapRely
<1>11. CASE ReleaseMappedLeaf(s)
  <2>1. PICK v \in leaves[s] : /\ ReleaseLeaf(pt[s][v].frame, leaf_refs)
                               /\ leaves' = [leaves EXCEPT ![s] = @ \ {v}]
    BY <1>11 DEF ReleaseMappedLeaf
  <2>2. v \in Pages /\ pt' = pt
    BY <1>11 DEF ReleaseMappedLeaf, CInv, Types, SpaceTypes
  <2>3. Core'
    BY <2>1, <2>2, LeafReleased
  <2> QED BY <1>11, <2>3, ReleaseMappedLeafRely
<1>12. CASE ReleaseDone(s)
  BY <1>12, ReleaseDoneRely, ReleaseDoneEffect
<1> QED
  BY <1>1, <1>2, <1>3, <1>4, <1>5, <1>6, <1>7, <1>8, <1>9, <1>10, <1>11, <1>12 DEF Moves

\* Every step keeps the types of the address spaces' progress.
LEMMA RunTypesNext ==
  ASSUME CInv, CNext
  PROVE  RunTypes'
<1> USE DEF Places, Custodies
<1>0. RunTypes /\ ForkOp /\ NoPage \in Pages \cup {NoPage}
  BY DEF CInv, Types
<1>1. PICK s \in Spaces : Walks(s) \/ Stays(s) \/ Hands(s)
  BY StepKinds
<1>2. CASE Stays(s)
  BY <1>0, <1>2, StayFacts DEF RunTypes
<1>3. CASE Walks(s)
  <2>1. pc' \in [Spaces -> Places] /\ UNCHANGED <<custody, fence>>
    BY <1>0, <1>3, WalkFacts
  <2>2. page' \in [Spaces -> Pages \cup {NoPage}]
    BY <1>0, <1>3 DEF Walks, StoreFaults, MapLookup, FaultSole, FaultFails, MapPage, MapFails,
                      Preempt, Stamp, DispatchGone, Exit, ExitRepeated, Resume, RunTypes
  <2> QED BY <1>0, <2>1, <2>2 DEF RunTypes
<1>4. CASE FaultCopy(s)
  BY <1>0, <1>4, Moved DEF FaultCopy, RunTypes
<1>5. CASE FaultRemap(s)
  BY <1>0, <1>5, Moved DEF FaultRemap, Resume, RunTypes
<1>6. CASE \E c \in Spaces : Fork(s, c)
  BY <1>0, <1>6, Moved DEF Fork, RunTypes
<1>7. CASE ForkDone(s)
  BY <1>0, <1>7 DEF ForkDone, RunTypes
<1>8. CASE ForkFails(s)
  BY <1>0, <1>8, Moved DEF ForkFails, RunTypes
<1>9. CASE Dispatch(s)
  BY <1>0, <1>9, Moved DEF Dispatch, RunTypes
<1>10. CASE ExitLocked(s)
  BY <1>0, <1>10, Moved DEF ExitLocked, RunTypes
<1>11. CASE FaultExit(s)
  BY <1>0, <1>11, Moved, RetireFacts DEF FaultExit, RunTypes
<1>12. CASE Kill(s)
  BY <1>0, <1>12, RetireFacts DEF Kill, RunTypes
<1>13. CASE Tick(s)
  BY <1>0, <1>13 DEF Tick, RunTypes
<1>14. CASE Reclaim(s)
  BY <1>0, <1>14 DEF Reclaim, RunTypes
<1>15. CASE ReleaseDone(s)
  BY <1>0, <1>15 DEF ReleaseDone, RunTypes
<1> QED
  BY <1>1, <1>2, <1>3, <1>4, <1>5, <1>6, <1>7, <1>8, <1>9, <1>10, <1>11, <1>12, <1>13, <1>14,
     <1>15 DEF Hands

\* Every step keeps the types of the locks.
LEMMA LockTypesNext ==
  ASSUME CInv, CNext
  PROVE  LockTypes'
<1>0. RunTypes /\ LockTypes /\ SpaceTypes
  BY DEF CInv, Types
<1>1. PICK s \in Spaces : Walks(s) \/ Stays(s) \/ Hands(s)
  BY StepKinds
<1>2. CASE Walks(s)
  BY <1>0, <1>2, WalkFacts DEF LockTypes
<1>3. CASE Stays(s)
  <2>1. work' \subseteq work
    BY <1>3 DEF Stays, Unmap, Store, ForkPage, ReleaseMappedLeaf, lockVars
  <2> QED BY <1>0, <1>3, <2>1, StayFacts DEF LockTypes
<1>4. CASE Hands(s)
  <2>1. CASE FaultExit(s) \/ Kill(s)
    BY <1>0, <2>1, RetireFacts DEF FaultExit, Kill, LockTypes
  <2>2. CASE Dispatch(s) \/ Tick(s) \/ Reclaim(s)
    BY <1>0, <2>2 DEF Dispatch, Tick, Reclaim, lockVars, LockTypes
  <2>3. CASE FaultCopy(s) \/ FaultRemap(s) \/ ExitLocked(s)
    BY <1>0, <2>3 DEF FaultCopy, FaultRemap, ExitLocked, LockTypes
  <2>4. CASE (\E c \in Spaces : Fork(s, c)) \/ ForkDone(s) \/ ForkFails(s)
    BY <1>0, <2>4 DEF Fork, ForkDone, ForkFails, LockTypes, SpaceTypes
  <2>5. CASE ReleaseDone(s)
    BY <1>0, <2>5 DEF ReleaseDone, LockTypes
  <2> QED BY <1>4, <2>1, <2>2, <2>3, <2>4, <2>5 DEF Hands
<1> QED BY <1>1, <1>2, <1>3, <1>4

\* Every step keeps the types of the memory.
LEMMA MemTypesNext ==
  ASSUME CInv, CNext
  PROVE  MemTypes'
<1>0. MemTypes /\ SpaceTypes /\ RunTypes /\ MapOp
  BY DEF CInv, Types
<1>1. PICK s \in Spaces : Walks(s) \/ Stays(s) \/ Hands(s)
  BY StepKinds
<1>a. ASSUME FlushAll, mem' = mem PROVE MemTypes'
  BY <1>0, <1>a, FlushFacts DEF MemTypes
<1>b. ASSUME UNCHANGED <<tlb, mem>> PROVE MemTypes'
  BY <1>0, <1>b DEF MemTypes
<1>2. CASE Walks(s)
  <2>1. ASSUME NEW v \in Pages, StoreFaults(s, v) PROVE MemTypes'
    <3>1. pc[s] \in InstalledPc /\ Cached(s, v) /\ mem' = mem
      BY <2>1 DEF StoreFaults, Goto, InstalledPc
    <3>2. tlb' \in [Spaces -> [Pages -> Entries]]
      BY <3>1, CachedFacts
    <3> QED BY <1>0, <3>1, <3>2 DEF MemTypes
  <2>2. CASE (\E v \in Pages : MapLookup(s, v)) \/ DispatchGone(s) \/ ExitRepeated(s)
    BY <1>b, <2>2 DEF MapLookup, DispatchGone, ExitRepeated
  <2>3. CASE FaultFails(s) \/ MapFails(s) \/ Preempt(s) \/ Stamp(s) \/ Exit(s)
    BY <1>a, <2>3 DEF FaultFails, MapFails, Preempt, Stamp, Exit
  <2>4. CASE FaultSole(s)
    <3>1. page[s] \in Pages /\ FlushPage(page[s]) /\ mem' = mem
      BY <2>4, FaultSoleEffect DEF FaultSole
    <3> QED BY <1>0, <3>1, FlushFacts DEF MemTypes
  <2>5. CASE MapPage(s)
    <3>1. FlushAll /\ \E f \in Frames : mem' = [mem EXCEPT ![f] = Zero]
      BY <2>5 DEF MapPage
    <3>2. mem' \in [Frames -> Values]
      BY <1>0, <3>1, CowAssumption DEF MemTypes
    <3> QED BY <3>1, <3>2, FlushFacts DEF MemTypes
  <2> QED BY <1>2, <2>1, <2>2, <2>3, <2>4, <2>5 DEF Walks
<1>3. CASE Stays(s)
  <2>1. ASSUME NEW v \in Pages, NEW x \in Values, Store(s, v, x) PROVE MemTypes'
    <3>1. pc[s] \in InstalledPc /\ Cached(s, v) /\ mem' = [mem EXCEPT ![Translation(s, v).frame] = x]
      BY <2>1 DEF Store, InstalledPc
    <3>2. tlb' \in [Spaces -> [Pages -> Entries]]
      BY <3>1, CachedFacts
    <3> QED BY <1>0, <3>1, <3>2 DEF MemTypes
  <2>2. CASE \E v \in Pages : Unmap(s, v)
    BY <1>a, <2>2 DEF Unmap
  <2>3. CASE ReleaseMappedLeaf(s)
    BY <1>b, <2>3 DEF ReleaseMappedLeaf
  <2>4. CASE ForkPage(s)
    <3>1. PICK v \in work : \E e \in Mapping : SharedAs(s, v, e)
      BY <2>4, ForkPageEffect
    <3>2. mem' = mem /\ v \in Pages /\ (tlb' = tlb \/ FlushPage(v))
      BY <2>4, <3>1 DEF ForkPage, SharedAs
    <3> QED BY <1>0, <3>2, FlushFacts DEF MemTypes
  <2> QED BY <1>3, <2>1, <2>2, <2>3, <2>4 DEF Stays
<1>4. CASE Hands(s)
  <2>1. CASE FaultExit(s) \/ Kill(s)
    BY <1>0, <1>b, <2>1, RetireFacts DEF FaultExit, Kill
  <2>2. CASE Dispatch(s) \/ Tick(s) \/ Reclaim(s) \/ ExitLocked(s) \/ ReleaseDone(s)
            \/ \E c \in Spaces : Fork(s, c)
    BY <1>b, <2>2 DEF Dispatch, Tick, Reclaim, ExitLocked, ReleaseDone, Fork
  <2>3. CASE ForkDone(s) \/ ForkFails(s)
    BY <1>a, <2>3 DEF ForkDone, ForkFails
  <2>4. CASE FaultRemap(s)
    <3>1. page[s] \in Pages /\ FlushPage(page[s]) /\ mem' = mem
      BY <2>4, FaultRemapEffect DEF FaultRemap
    <3> QED BY <1>0, <3>1, FlushFacts DEF MemTypes
  <2>5. CASE FaultCopy(s)
    <3>1. pc[s] = "fault" /\ page[s] \in Pages /\ pt[s][page[s]] # NoPage
      BY <1>0, <2>5 DEF FaultCopy, Goto, MapOp, IsCowFault
    <3>2. pt[s][page[s]].frame \in Frames
      BY <1>0, <3>1, EntryFacts DEF SpaceTypes
    <3>3. tlb' = tlb /\ \E f \in Frames : mem' = [mem EXCEPT ![f] = mem[pt[s][page[s]].frame]]
      BY <2>5 DEF FaultCopy
    <3> QED BY <1>0, <3>2, <3>3 DEF MemTypes
  <2> QED BY <1>4, <2>1, <2>2, <2>3, <2>4, <2>5 DEF Hands
<1> QED BY <1>1, <1>2, <1>3, <1>4

\* The pages of the first process have frames of their own.
LEMMA FirstFramesFacts ==
  /\ FirstFrames \in [Pages -> 0..(Cardinality(Pages) - 1)]
  /\ \A v, w \in Pages : FirstFrames[v] = FirstFrames[w] => v = w
  /\ \A f \in 0..(Cardinality(Pages) - 1) : \E v \in Pages : FirstFrames[v] = f
  /\ Cardinality(Pages) \in Nat
<1>1. Cardinality(Pages) \in Nat /\ IsFiniteSet(Pages)
  BY CowAssumption, FS_CardinalityType
<1> DEFINE n == Cardinality(Pages)
<1>2. PICK h : h \in Bijection(Pages, 1..n)
  <2>1. ExistsBijection(1..n, Pages)
    BY <1>1, FS_CardinalityType
  <2>2. ExistsBijection(Pages, 1..n)
    BY <2>1, Fun_ExistsBijSymmetric
  <2> QED BY <2>2 DEF ExistsBijection
<1> HIDE DEF n
<1> DEFINE g == [v \in Pages |-> h[v] - 1]
<1>3. g \in Bijection(Pages, 0..(n - 1))
  <2>0. n \in Nat
    BY <1>1 DEF n
  <2>1. /\ h \in [Pages -> 1..n] /\ \A v, w \in Pages : h[v] = h[w] => v = w
        /\ \A f \in 1..n : \E v \in Pages : h[v] = f
    BY <1>2 DEF Bijection, Injection, Surjection, IsInjective
  <2>2. g \in [Pages -> 0..(n - 1)]
    BY <2>0, <2>1
  <2>3. \A v, w \in Pages : g[v] = g[w] => v = w
    BY <2>0, <2>1
  <2>4. \A f \in 0..(n - 1) : \E v \in Pages : g[v] = f
    <3> TAKE f \in 0..(n - 1)
    <3>1. f + 1 \in 1..n
      BY <2>0
    <3>2. PICK v \in Pages : h[v] = f + 1
      BY <2>1, <3>1
    <3> QED BY <3>2
  <2> HIDE DEF g
  <2> QED BY <2>2, <2>3, <2>4 DEF Bijection, Injection, Surjection, IsInjective
<1>4. FirstFrames \in Bijection(Pages, 0..(n - 1))
  BY <1>3 DEF FirstFrames, n
<1> QED BY <1>1, <1>4 DEF Bijection, Injection, Surjection, IsInjective, n

\* The invariant holds at the start.
LEMMA CInitInv == CInit => CInv
<1> SUFFICES ASSUME CInit PROVE CInv
  OBVIOUS
<1> DEFINE n == Cardinality(Pages)
<1>0. /\ n \in Nat /\ FrameCount \in Nat /\ n <= FrameCount
      /\ FirstFrames \in [Pages -> 0..(n - 1)]
      /\ \A v, w \in Pages : FirstFrames[v] = FirstFrames[w] => v = w
      /\ \A f \in 0..(n - 1) : \E v \in Pages : FirstFrames[v] = f
  BY FirstFramesFacts, CowAssumption
<1>1. /\ NEXT_FREE_FRAME = n /\ FREE_FRAMES = << >>
      /\ allocation = [f \in Frames |-> IF f < n THEN "allocated" ELSE "never"]
      /\ leaf_refs = [f \in Frames |-> IF f < n THEN 1 ELSE 0]
  BY DEF CInit
<1>2. /\ pt = [s \in Spaces |-> [v \in Pages |->
                 IF s = First THEN [frame |-> FirstFrames[v], flags |-> "rw"] ELSE NoPage]]
      /\ leaves = [s \in Spaces |-> IF s = First THEN Pages ELSE {}]
      /\ custody = [s \in Spaces |-> IF s = First THEN "row" ELSE "none"]
      /\ pc = [s \in Spaces |-> IF s = First THEN "off" ELSE "none"]
      /\ mem = [f \in Frames |-> Zero] /\ tlb = [s \in Spaces |-> EmptyTable]
      /\ page = [s \in Spaces |-> NoPage]
      /\ manager = Nobody /\ work = {} /\ child = Nobody /\ copy = Nobody /\ fence = {}
  BY DEF CInit
<1> HIDE DEF n
<1>3. \A v \in Pages : FirstFrames[v] \in Frames /\ FirstFrames[v] < n
  BY <1>0 DEF Frames
<1>4. \A v \in Pages : [frame |-> FirstFrames[v], flags |-> "rw"] \in Mapping
  BY <1>3, EntryFacts
<1>5. SpaceTypes
  BY <1>2, <1>4, EntryFacts DEF SpaceTypes, Entries
<1>6. AllocTypes
  BY <1>0, <1>1 DEF AllocTypes, Frames
<1>7. MemTypes
  BY <1>2, CowAssumption DEF MemTypes, EmptyTable, Entries
<1>8. RunTypes /\ LockTypes
  BY <1>2 DEF RunTypes, LockTypes, Custodies, Places
<1>9. Lock
  BY <1>2 DEF Lock, LockPc, InstalledPc
<1>10. Held
  BY <1>2, <1>4, EntryFacts DEF Held
<1>11. MapOp /\ CopyOp /\ ForkOp
  BY <1>2 DEF MapOp, CopyOp, ForkOp
<1>12. Tlb
  BY <1>2 DEF Tlb, EmptyTable
<1>13. Alloc
  BY <1>0, <1>1 DEF Alloc, Frames, IsInjective
<1>14. Refs
  <2>1. ASSUME NEW f \in Frames
        PROVE  IsFiniteSet(MappingsOf(f)) /\ leaf_refs[f] = Cardinality(MappingsOf(f))
    <3>1. \A t \in Spaces, w \in Pages :
            <<t, w>> \in MappingsOf(f) <=> t = First /\ FirstFrames[w] = f
      <4> TAKE t \in Spaces, w \in Pages
      <4>1. <<t, w>> \in MappingsOf(f) <=> w \in leaves[t] /\ pt[t][w].frame = f
        BY DEF MappingsOf
      <4>2. CASE t = First
        <5>1. leaves[t] = Pages /\ pt[t][w] = [frame |-> FirstFrames[w], flags |-> "rw"]
          BY <1>2, <4>2
        <5> QED BY <4>1, <4>2, <5>1
      <4>3. CASE t # First
        BY <1>2, <4>1, <4>3
      <4> QED BY <4>2, <4>3
    <3>2. MappingsOf(f) \subseteq Spaces \X Pages
      BY DEF MappingsOf
    <3>3. CASE f < n
      <4>1. PICK v \in Pages : FirstFrames[v] = f
        BY <1>0, <3>3 DEF Frames
      <4>2. MappingsOf(f) = {<<First, v>>}
        <5>1. \A t \in Spaces, w \in Pages : <<t, w>> \in MappingsOf(f) <=> t = First /\ w = v
          BY <1>0, <3>1, <4>1
        <5> QED BY <3>2, <5>1, CowAssumption
      <4>3. leaf_refs[f] = 1
        BY <1>1, <3>3
      <4> QED BY <4>2, <4>3, FS_Singleton
    <3>4. CASE ~(f < n)
      <4>1. MappingsOf(f) = {}
        BY <1>3, <3>1, <3>2, <3>4
      <4>2. leaf_refs[f] = 0
        BY <1>1, <3>4
      <4> QED BY <4>1, <4>2, FS_EmptySet
    <3> QED BY <3>3, <3>4
  <2> QED BY <2>1 DEF Refs, RefsAreMappings
<1> QED BY <1>5, <1>6, <1>7, <1>8, <1>9, <1>10, <1>11, <1>12, <1>13, <1>14 DEF CInv, Types

\* Every step keeps the invariant.
LEMMA CNextInv == CInv /\ [CNext]_cvars => CInv'
<1> SUFFICES ASSUME CInv, [CNext]_cvars PROVE CInv'
  OBVIOUS
<1>1. CASE CNext
  <2>1. Core' /\ Rely'
    BY <1>1, StepCoreRely
  <2>2. Lock' /\ RunTypes' /\ LockTypes' /\ MemTypes'
    BY <1>1, LockNext, RunTypesNext, LockTypesNext, MemTypesNext
  <2> QED BY <2>1, <2>2 DEF CInv, Types, Core, Rely
<1>2. CASE UNCHANGED cvars
  <2>1. Still
    BY <1>2 DEF cvars, Still
  <2>2. Core'
    BY <2>1, StillCore
  <2>3. Held' /\ MapOp' /\ CopyOp' /\ ForkOp' /\ Tlb' /\ Lock'
    BY <1>2 DEF CInv, cvars, allocVars, spaceVars, lockVars, Held, MapOp, CopyOp, ForkOp, Tlb,
                Lock, Releasing
  <2>4. RunTypes' /\ LockTypes' /\ MemTypes'
    BY <1>2 DEF CInv, Types, cvars, lockVars, RunTypes, LockTypes, MemTypes
  <2> QED BY <2>2, <2>3, <2>4 DEF CInv, Types, Core
<1> QED BY <1>1, <1>2

-----------------------------------------------------------------------------
(***************************************************************************)
(* What the specification keeps                                             *)
(***************************************************************************)

\* CInv holds in every reachable state: the stages of a space, what the fork, the
\* write fault and mmap rely on after they have dropped or while they hold the
\* manager's lock, the allocator's lists and the counts.
THEOREM CInvariant == CSpec => []CInv
BY CInitInv, CNextInv, PTL DEF CSpec

\* Every page table and TLB entry names a frame of the memory map, and the frontier
\* of the allocator (NEXT_FREE_FRAME) never passes its end.
THEOREM CowTypes == CSpec => []CTypeOK
<1>1. CInv => CTypeOK
  BY TypeParts DEF CInv
<1> QED BY <1>1, CInvariant, PTL

\* The count of every frame is the number of mappings that will give it back
\* (acquire_leaf_mapping, decref_leaf_mapping).
THEOREM RefsAreCounted == CSpec => []RefsAreMappings
<1>1. CInv => RefsAreMappings
  BY DEF CInv, Refs
<1> QED BY <1>1, CInvariant, PTL

\* A frame that can be allocated again is listed once, and no CPU can still reach it,
\* through an installed root or a cached translation (lock_free_root_proof).
THEOREM FreeFramesAreUnmapped == CSpec => []FreeIsUnmapped
<1>1. CInv => FreeIsUnmapped
  <2> SUFFICES ASSUME CInv PROVE FreeIsUnmapped
    OBVIOUS
  <2>1. Lock /\ Held /\ Tlb /\ Alloc /\ Refs /\ SpaceTypes /\ AllocTypes
    BY DEF CInv, Types
  <2>2. \A f \in Frames : f \in Range(FREE_FRAMES) => allocation[f] = "free"
    BY <2>1 DEF Alloc, AllocTypes, Range
  <2>3. ASSUME NEW f \in Frames, allocation[f] # "allocated", NEW s \in Spaces, Reaches(s, f)
        PROVE  FALSE
    <3>1. pc[s] \in InstalledPc
      BY <2>3 DEF Reaches, Installed, InstalledPc
    <3>2. PICK v \in Pages : pt[s][v] # NoPage /\ pt[s][v].frame = f
      BY <2>1, <2>3 DEF Reaches, Tlb
    <3>3. ~Releasing(s)
      BY <2>1, <3>1 DEF Lock, Releasing, InstalledPc
    <3>4. v \in leaves[s]
      BY <2>1, <3>2, <3>3 DEF Held
    <3>5. leaf_refs[pt[s][v].frame] >= 1
      BY <2>1, <3>4, MappedIsCounted
    <3> QED BY <2>1, <2>3, <3>2, <3>5 DEF Alloc
  <2> QED BY <2>1, <2>2, <2>3 DEF FreeIsUnmapped, Alloc
<1> QED BY <1>1, CInvariant, PTL

-----------------------------------------------------------------------------
(***************************************************************************)
(* Who shares a frame                                                       *)
(***************************************************************************)

\* two pages on one frame are the same page of two spaces, shared or write-protected
Cow ==
  \A s, t \in Spaces, v, w \in Pages :
    v \in leaves[s] /\ w \in leaves[t] /\ (s # t \/ v # w) /\ pt[s][v].frame = pt[t][w].frame
    => v = w /\ (v \in SharedPages \/ pt[s][v].flags = "cow")

\* a MAP_SHARED page is writable, has one frame in all spaces, and is not mapped anew
SharedRw == \A s \in Spaces, v \in Pages : v \in leaves[s] /\ v \in SharedPages => pt[s][v].flags = "rw"
SharedFrame ==
  \A s, t \in Spaces, v \in Pages :
    v \in leaves[s] /\ v \in leaves[t] /\ v \in SharedPages => pt[s][v].frame = pt[t][v].frame
MapPrivate == \A s \in Spaces : pc[s] = "mmap" => page[s] \notin SharedPages

\* the copy of a write fault is still one when it is mapped
CopyMem == \A s \in Spaces : pc[s] = "copy" => mem[copy] = mem[pt[s][page[s]].frame]

Sharing == Cow /\ SharedRw /\ SharedFrame
MemInv == Sharing /\ MapPrivate /\ CopyMem

\* Steps that only give pages up.
LEMMA SharingFrame ==
  ASSUME Sharing,
         \A t \in Spaces, w \in Pages : w \in leaves'[t] => w \in leaves[t] /\ pt'[t][w] = pt[t][w]
  PROVE  Sharing'
<1>1. Cow'
  BY DEF Sharing, Cow
<1>2. SharedRw' /\ SharedFrame'
  BY DEF Sharing, SharedRw, SharedFrame
<1> QED BY <1>1, <1>2 DEF Sharing

\* The sole owner of a frame (frame_is_shared).
LEMMA SoleOwner ==
  ASSUME AllocTypes, SpaceTypes, Refs, NEW f \in Frames, leaf_refs[f] <= 1,
         NEW s \in Spaces, NEW v \in Pages, NEW t \in Spaces, NEW w \in Pages,
         v \in leaves[s], w \in leaves[t], pt[s][v].frame = f, pt[t][w].frame = f
  PROVE  s = t /\ v = w
<1>1. <<s, v>> \in MappingsOf(f) /\ <<t, w>> \in MappingsOf(f)
  BY DEF MappingsOf
<1>2. IsFiniteSet(MappingsOf(f)) /\ Cardinality(MappingsOf(f)) <= 1
  BY DEF Refs, RefsAreMappings
<1> DEFINE rest == MappingsOf(f) \ {<<s, v>>}
<1>3. IsFiniteSet(rest) /\ Cardinality(rest) = Cardinality(MappingsOf(f)) - 1
  BY <1>1, <1>2, CountLess
<1>4. Cardinality(rest) \in Nat /\ Cardinality(MappingsOf(f)) \in Nat
  BY <1>2, <1>3, FS_CardinalityType
<1>5. rest = {}
  <2>1. Cardinality(rest) = 0
    BY <1>2, <1>3, <1>4
  <2> QED BY <1>3, <2>1, FS_EmptySet
<1> QED BY <1>1, <1>5

\* The sole owner may write again: nobody shares the frame.
LEMMA FaultSoleSharing ==
  ASSUME CInv, Sharing, NEW s \in Spaces, FaultSole(s)
  PROVE  Sharing'
<1> DEFINE v == page[s]
           f == pt[s][v].frame
           e == [frame |-> f, flags |-> "rw"]
<1>1. AllocTypes /\ SpaceTypes /\ Refs /\ Held
  BY DEF CInv, Types
<1>2. /\ v \in Pages /\ leaves' = leaves /\ pt[s][v] # NoPage
      /\ \A t \in Spaces, w \in Pages : pt'[t][w] = IF t = s /\ w = v THEN e ELSE pt[t][w]
  BY FaultSoleEffect
<1>3. pc[s] = "fault" /\ custody[s] = "row" /\ ~(leaf_refs[f] > 1)
  BY DEF FaultSole, Resume, Goto, IsCowFault, FrameIsShared
<1>4. v \in leaves[s]
  BY <1>1, <1>2, <1>3 DEF Held, Releasing
<1>5. f \in Frames
  BY <1>1, <1>2, <1>4, MappedIsCounted
<1>6. e.frame = f /\ e.flags = "rw"
  OBVIOUS
<1> HIDE DEF v, f, e
<1>7. leaf_refs[f] <= 1
  BY <1>1, <1>3, <1>5 DEF AllocTypes
<1>8. f = pt[s][v].frame
  BY DEF f
<1>9. \A t \in Spaces, w \in Pages : w \in leaves[t] /\ pt[t][w].frame = f => t = s /\ w = v
  BY <1>1, <1>2, <1>4, <1>5, <1>7, <1>8, SoleOwner
<1>10. \A t \in Spaces, w \in Pages : pt'[t][w].frame = pt[t][w].frame
  BY <1>2, <1>6, <1>8
<1>11. Cow'
  BY <1>2, <1>8, <1>9, <1>10 DEF Sharing, Cow
<1>12. SharedRw' /\ SharedFrame'
  BY <1>2, <1>6, <1>10 DEF Sharing, SharedRw, SharedFrame
<1> QED BY <1>11, <1>12 DEF Sharing

\* One page gets a frame that nobody maps.
LEMMA FreshSharing ==
  ASSUME CInv, Sharing, NEW s \in Spaces, NEW v \in Pages, NEW f \in Frames,
         leaf_refs[f] = 0, v \notin SharedPages,
         \A t \in Spaces, w \in Pages : w \in leaves'[t] => w \in leaves[t] \/ (t = s /\ w = v),
         \A t \in Spaces, w \in Pages :
           pt'[t][w] = IF t = s /\ w = v THEN [frame |-> f, flags |-> "rw"] ELSE pt[t][w]
  PROVE  Sharing'
<1>1. SpaceTypes /\ Refs /\ Held
  BY DEF CInv, Types
<1>2. \A t \in Spaces, w \in Pages : w \in leaves[t] => pt[t][w].frame # f
  <2> TAKE t \in Spaces, w \in Pages
  <2>1. w \in leaves[t] => leaf_refs[pt[t][w].frame] >= 1
    BY <1>1, MappedIsCounted
  <2> QED BY <2>1
<1>3. pt'[s][v].frame = f
  OBVIOUS
<1>4. \A t \in Spaces, w \in Pages : ~(t = s /\ w = v) /\ w \in leaves'[t] =>
        w \in leaves[t] /\ pt'[t][w] = pt[t][w] /\ pt'[t][w].frame # f
  BY <1>2
<1>5. Cow'
  <2> SUFFICES ASSUME NEW a \in Spaces, NEW b \in Spaces, NEW x \in Pages, NEW y \in Pages,
                      x \in leaves'[a], y \in leaves'[b], a # b \/ x # y,
                      pt'[a][x].frame = pt'[b][y].frame
               PROVE  x = y /\ (x \in SharedPages \/ pt'[a][x].flags = "cow")
    BY DEF Cow
  <2>1. ~(a = s /\ x = v) /\ ~(b = s /\ y = v)
    BY <1>3, <1>4
  <2> QED BY <1>4, <2>1 DEF Sharing, Cow
<1>6. SharedRw' /\ SharedFrame'
  BY <1>4 DEF Sharing, SharedRw, SharedFrame
<1> QED BY <1>5, <1>6 DEF Sharing

\* The copied page is the writer's own.
LEMMA FaultRemapSharing ==
  ASSUME CInv, Sharing, NEW s \in Spaces, FaultRemap(s)
  PROVE  Sharing'
<1>1. /\ page[s] \in Pages /\ page[s] \in leaves[s] /\ leaves' = leaves
      /\ copy \in Frames /\ leaf_refs[copy] = 0
      /\ \A t \in Spaces, w \in Pages :
           pt'[t][w] = IF t = s /\ w = page[s] THEN [frame |-> copy, flags |-> "rw"] ELSE pt[t][w]
  BY FaultRemapEffect
<1>2. pt[s][page[s]].flags = "cow"
  BY DEF FaultRemap, Resume, Goto, CInv, CopyOp
<1>3. page[s] \notin SharedPages
  BY <1>1, <1>2 DEF Sharing, SharedRw
<1> QED BY <1>1, <1>3, FreshSharing

\* A fresh mapping is of a private page and a free frame.
LEMMA MapPageSharing ==
  ASSUME CInv, Sharing, MapPrivate, NEW s \in Spaces, MapPage(s)
  PROVE  Sharing'
<1>1. /\ pc[s] = "mmap" /\ page[s] \in Pages
      /\ \A t \in Spaces : leaves'[t] = IF t = s THEN leaves[t] \cup {page[s]} ELSE leaves[t]
  BY MapPageEffect
<1>2. PICK f \in Frames :
        /\ allocation[f] # "allocated" /\ leaf_refs[f] = 0
        /\ \A t \in Spaces, w \in Pages :
             pt'[t][w] = IF t = s /\ w = page[s] THEN [frame |-> f, flags |-> "rw"]
                                                ELSE pt[t][w]
        /\ \A g \in Frames : g # f => allocation'[g] = allocation[g] /\ leaf_refs'[g] = leaf_refs[g]
        /\ mem' = [mem EXCEPT ![f] = Zero]
  BY MapPageEffect
<1>3. page[s] \notin SharedPages
  BY <1>1 DEF MapPrivate
<1>4. \A t \in Spaces, w \in Pages : w \in leaves'[t] => w \in leaves[t] \/ (t = s /\ w = page[s])
  BY <1>1
<1> QED BY <1>1, <1>2, <1>3, <1>4, FreshSharing

\* Parent and child share the frame read-only.
LEMMA ForkPageSharing ==
  ASSUME CInv, Sharing, NEW s \in Spaces, ForkPage(s)
  PROVE  Sharing'
<1>1. child \in Spaces /\ child # s
  BY ForkPageEffect
<1>2. PICK v \in work : \E e \in Mapping : SharedAs(s, v, e)
  BY ForkPageEffect
<1>3. PICK e \in Mapping : SharedAs(s, v, e)
  BY <1>2
<1>4. /\ v \in Pages /\ v \in leaves[s] /\ v \notin leaves[child]
      /\ e.frame = pt[s][v].frame
      /\ \A t \in Spaces, w \in Pages :
           pt'[t][w] = IF w = v /\ (t = s \/ t = child) THEN e ELSE pt[t][w]
      /\ \A t \in Spaces : leaves'[t] = IF t = child THEN leaves[t] \cup {v} ELSE leaves[t]
  BY <1>3 DEF SharedAs
<1>5. e.flags = "cow" \/ (v \in SharedPages /\ e.flags = "rw")
  BY <1>3, <1>4 DEF SharedAs, ChildFlags, Sharing, SharedRw
<1>6. v \in SharedPages => e.flags = "rw"
  BY <1>3, <1>4 DEF SharedAs, ChildFlags, Sharing, SharedRw
<1>7. \A t \in Spaces, w \in Pages : w \in leaves'[t] /\ ~(t = child /\ w = v) =>
        /\ w \in leaves[t] /\ pt'[t][w].frame = pt[t][w].frame
        /\ w # v \/ t # s => pt'[t][w] = pt[t][w]
  BY <1>1, <1>4
<1>8. pt'[child][v] = e /\ pt'[s][v] = e
  BY <1>1, <1>4
<1>9. Cow'
  <2> SUFFICES ASSUME NEW a \in Spaces, NEW b \in Spaces, NEW x \in Pages, NEW y \in Pages,
                      x \in leaves'[a], y \in leaves'[b], a # b \/ x # y,
                      pt'[a][x].frame = pt'[b][y].frame
               PROVE  x = y /\ (x \in SharedPages \/ pt'[a][x].flags = "cow")
    BY DEF Cow
  <2>0. \A t, u \in Spaces, w, z \in Pages :
          w \in leaves[t] /\ z \in leaves[u] /\ (t # u \/ w # z) /\ pt[t][w].frame = pt[u][z].frame
          => w = z /\ (w \in SharedPages \/ pt[t][w].flags = "cow")
    BY DEF Sharing, Cow
  <2>1. CASE a = child /\ x = v
    <3>1. ~(b = child /\ y = v) /\ y \in leaves[b] /\ pt[b][y].frame = pt[s][v].frame
      BY <1>4, <1>7, <1>8, <2>1
    <3>2. y = v
      BY <1>4, <2>0, <3>1
    <3> QED BY <1>5, <1>8, <2>1, <3>2
  <2>2. CASE b = child /\ y = v /\ ~(a = child /\ x = v)
    <3>1. x \in leaves[a] /\ pt[a][x].frame = pt[s][v].frame
      BY <1>4, <1>7, <1>8, <2>2
    <3>2. CASE a = s /\ x = v
      BY <1>5, <1>8, <2>2, <3>2
    <3>3. CASE ~(a = s /\ x = v)
      <4>1. x = v /\ (x \in SharedPages \/ pt[a][x].flags = "cow")
        BY <1>4, <2>0, <3>1, <3>3
      <4>2. pt'[a][x] = pt[a][x]
        BY <1>7, <2>2, <3>3
      <4> QED BY <2>2, <4>1, <4>2
    <3> QED BY <3>2, <3>3
  <2>3. CASE ~(a = child /\ x = v) /\ ~(b = child /\ y = v)
    <3>1. /\ x \in leaves[a] /\ y \in leaves[b] /\ pt[a][x].frame = pt[b][y].frame
      BY <1>7, <2>3
    <3>2. x = y /\ (x \in SharedPages \/ pt[a][x].flags = "cow")
      BY <2>0, <3>1
    <3>3. CASE a = s /\ x = v
      BY <1>5, <1>8, <3>2, <3>3
    <3>4. CASE ~(a = s /\ x = v)
      BY <1>7, <2>3, <3>2, <3>4
    <3> QED BY <3>3, <3>4
  <2> QED BY <2>1, <2>2, <2>3
<1>10. SharedRw'
  BY <1>1, <1>6, <1>7, <1>8 DEF Sharing, SharedRw
<1>11. SharedFrame'
  <2> SUFFICES ASSUME NEW a \in Spaces, NEW b \in Spaces, NEW x \in Pages,
                      x \in leaves'[a], x \in leaves'[b], x \in SharedPages
               PROVE  pt'[a][x].frame = pt'[b][x].frame
    BY DEF SharedFrame
  <2>0. \A t, u \in Spaces, w \in Pages :
          w \in leaves[t] /\ w \in leaves[u] /\ w \in SharedPages => pt[t][w].frame = pt[u][w].frame
    BY DEF Sharing, SharedFrame
  <2>1. \A t \in Spaces : x \in leaves'[t] /\ ~(t = child /\ x = v) =>
          x \in leaves[t] /\ pt'[t][x].frame = pt[t][x].frame
    BY <1>7
  <2>2. CASE x = v
    <3>1. \A t \in Spaces : v \in leaves'[t] => pt'[t][v].frame = pt[s][v].frame
      BY <1>4, <1>8, <2>0, <2>1, <2>2
    <3> QED BY <2>2, <3>1
  <2>3. CASE x # v
    BY <2>0, <2>1, <2>3
  <2> QED BY <2>2, <2>3
<1> QED BY <1>9, <1>10, <1>11 DEF Sharing

\* A failed fork only gives the child's pages up.
LEMMA ForkFailsSharing ==
  ASSUME CInv, Sharing, NEW s \in Spaces, ForkFails(s)
  PROVE  Sharing'
<1>1. leaves' = leaves
  BY ForkFailsEffect
<1>2. PICK v \in Pages :
        /\ v \in leaves[s] /\ pt[s][v] # NoPage /\ pt'[s][v] # NoPage
        /\ pt'[s][v].frame = pt[s][v].frame /\ pt'[s][v].flags = ChildFlags(s, v)
        /\ \A t \in Spaces, w \in Pages : ~(t = s /\ w = v) => pt'[t][w] = pt[t][w]
  BY ForkFailsEffect
<1>3. \A t \in Spaces, w \in Pages : pt'[t][w].frame = pt[t][w].frame
  BY <1>2
<1>4. /\ v \notin SharedPages => pt'[s][v].flags = "cow"
      /\ v \in SharedPages => pt'[s][v].flags = pt[s][v].flags
  BY <1>2 DEF ChildFlags
<1>5. Cow'
  BY <1>1, <1>2, <1>3, <1>4 DEF Sharing, Cow
<1>6. SharedRw' /\ SharedFrame'
  BY <1>1, <1>2, <1>3, <1>4 DEF Sharing, SharedRw, SharedFrame
<1> QED BY <1>5, <1>6 DEF Sharing

\* Every step keeps the sharing rules: a writable private frame has one mapping.
LEMMA SharingNext ==
  ASSUME CInv, MemInv, CNext
  PROVE  Sharing'
<1>0. Sharing /\ MapPrivate /\ SpaceTypes
  BY DEF MemInv, CInv, Types
<1>1. PICK s \in Spaces : StillWalks(s) \/ StillHands(s) \/ Moves(s)
  BY StepSplit
<1>2. CASE StillWalks(s) \/ StillHands(s)
  <2>1. Still
    BY <1>2, StillWalksRely, StillHandsRely
  <2> QED BY <1>0, <2>1, SharingFrame DEF Still, spaceVars
<1>3. CASE FaultSole(s)
  BY <1>0, <1>3, FaultSoleSharing
<1>4. CASE FaultCopy(s)
  <2>1. pt' = pt /\ leaves' = leaves
    BY <1>4 DEF FaultCopy, spaceVars
  <2> QED BY <1>0, <2>1, SharingFrame
<1>5. CASE FaultRemap(s)
  BY <1>0, <1>5, FaultRemapSharing
<1>6. CASE ForkPage(s)
  BY <1>0, <1>6, ForkPageSharing
<1>7. CASE ForkFails(s)
  BY <1>0, <1>7, ForkFailsSharing
<1>8. CASE MapPage(s)
  BY <1>0, <1>8, MapPageSharing
<1>9. ASSUME NEW v \in Pages, Unmap(s, v) PROVE Sharing'
  <2>1. /\ v \in leaves[s] /\ ReleaseLeaf(pt[s][v].frame, leaf_refs)
        /\ leaves' = [leaves EXCEPT ![s] = @ \ {v}] /\ pt' = [pt EXCEPT ![s][v] = NoPage]
    BY <1>9 DEF Unmap
  <2>2. /\ \A t \in Spaces : leaves'[t] = IF t = s THEN leaves[t] \ {v} ELSE leaves[t]
        /\ \A t \in Spaces, w \in Pages : ~(t = s /\ w = v) => pt'[t][w] = pt[t][w]
    BY <2>1, LeafReleased
  <2>3. \A t \in Spaces, w \in Pages : w \in leaves'[t] => w \in leaves[t] /\ pt'[t][w] = pt[t][w]
    BY <2>2
  <2> QED BY <1>0, <2>3, SharingFrame
<1>10. CASE ReleaseMappedLeaf(s)
  <2>1. pt' = pt /\ \E v \in leaves[s] : leaves' = [leaves EXCEPT ![s] = @ \ {v}]
    BY <1>10 DEF ReleaseMappedLeaf
  <2>2. \A t \in Spaces, w \in Pages : w \in leaves'[t] => w \in leaves[t] /\ pt'[t][w] = pt[t][w]
    BY <1>0, <2>1 DEF SpaceTypes
  <2> QED BY <1>0, <2>2, SharingFrame
<1>11. CASE ReleaseDone(s)
  <2>1. /\ leaves' = leaves /\ leaves[s] = {}
        /\ \A t \in Spaces, w \in Pages : pt'[t][w] = IF t = s THEN NoPage ELSE pt[t][w]
    BY <1>11, ReleaseDoneEffect
  <2>2. \A t \in Spaces, w \in Pages : w \in leaves'[t] => w \in leaves[t] /\ pt'[t][w] = pt[t][w]
    BY <2>1
  <2> QED BY <1>0, <2>2, SharingFrame
<1> QED BY <1>1, <1>2, <1>3, <1>4, <1>5, <1>6, <1>7, <1>8, <1>9, <1>10, <1>11 DEF Moves

\* A thread that is in an mmap or a copy was there already, or has just begun it.
LEMMA Begun ==
  ASSUME CInv, CNext, NEW t \in Spaces, pc'[t] \in {"mmap", "copy"}
  PROVE  \/ pc'[t] = pc[t] /\ page'[t] = page[t]
         \/ \E v \in Pages : MapLookup(t, v)
         \/ FaultCopy(t)
<1> USE DEF Places
<1>0. RunTypes /\ ForkOp
  BY DEF CInv, Types
<1>1. PICK s \in Spaces : Walks(s) \/ Stays(s) \/ Hands(s)
  BY StepKinds
<1>a. ASSUME NEW from, NEW to, Goto(s, from, to), to \notin {"mmap", "copy"},
             \A u \in Spaces : u # s => page'[u] = page[u]
      PROVE  pc'[t] = pc[t] /\ page'[t] = page[t]
  <2>1. \A u \in Spaces : pc'[u] = IF u = s THEN to ELSE pc[u]
    BY <1>0, <1>a, Moved DEF RunTypes
  <2> QED BY <1>a, <2>1
<1>2. CASE Stays(s)
  BY <1>2, StayFacts
<1>3. CASE Walks(s)
  <2>1. CASE \E v \in Pages : StoreFaults(s, v)
    BY <1>0, <1>a, <2>1 DEF StoreFaults, RunTypes
  <2>2. ASSUME NEW v \in Pages, MapLookup(s, v)
        PROVE  (pc'[t] = pc[t] /\ page'[t] = page[t]) \/ MapLookup(t, v)
    <3>1. \A u \in Spaces : u # s => pc'[u] = pc[u] /\ page'[u] = page[u]
      BY <1>0, <2>2 DEF MapLookup, Goto, RunTypes
    <3> QED BY <2>2, <3>1
  <2>3. CASE FaultSole(s) \/ FaultFails(s) \/ MapPage(s) \/ MapFails(s)
    BY <1>0, <1>a, <2>3 DEF FaultSole, FaultFails, MapPage, MapFails, Resume, RunTypes
  <2>4. CASE Preempt(s) \/ Stamp(s) \/ DispatchGone(s) \/ Exit(s) \/ ExitRepeated(s)
    BY <1>a, <2>4 DEF Preempt, Stamp, DispatchGone, Exit, ExitRepeated
  <2> QED BY <1>3, <2>1, <2>2, <2>3, <2>4 DEF Walks
<1>4. CASE Hands(s)
  <2>1. CASE FaultCopy(s)
    <3>1. \A u \in Spaces : u # s => pc'[u] = pc[u] /\ page'[u] = page[u]
      BY <1>0, <2>1 DEF FaultCopy, Goto, RunTypes
    <3> QED BY <2>1, <3>1
  <2>2. CASE FaultRemap(s)
    BY <1>0, <1>a, <2>2 DEF FaultRemap, Resume, RunTypes
  <2>3. CASE (\E c \in Spaces : Fork(s, c)) \/ ForkFails(s) \/ Dispatch(s) \/ ExitLocked(s)
    BY <1>a, <2>3 DEF Fork, ForkFails, Dispatch, ExitLocked
  <2>4. CASE ForkDone(s)
    BY <1>0, <2>4 DEF ForkDone, RunTypes
  <2>5. CASE FaultExit(s)
    <3>1. Goto(s, "dying", "none") /\ page' = page
      BY <2>5 DEF FaultExit, Retire
    <3> QED BY <1>a, <3>1
  <2>6. CASE Kill(s) \/ Tick(s) \/ Reclaim(s)
    BY <2>6 DEF Kill, Retire, Tick, Reclaim
  <2>7. CASE ReleaseDone(s)
    BY <1>0, <2>7 DEF ReleaseDone, RunTypes
  <2> QED BY <1>4, <2>1, <2>2, <2>3, <2>4, <2>5, <2>6, <2>7 DEF Hands
<1> QED BY <1>1, <1>2, <1>3, <1>4

\* A page being mapped is not one of the shared ones.
LEMMA MapPrivateNext ==
  ASSUME CInv, MemInv, CNext
  PROVE  MapPrivate'
<1> SUFFICES ASSUME NEW t \in Spaces, pc'[t] = "mmap" PROVE page'[t] \notin SharedPages
  BY DEF MapPrivate
<1>1. CASE pc'[t] = pc[t] /\ page'[t] = page[t]
  BY <1>1 DEF MemInv, MapPrivate
<1>2. CASE \E v \in Pages : MapLookup(t, v)
  BY <1>2 DEF MapLookup, CInv, Types, RunTypes
<1>3. CASE FaultCopy(t)
  <2>1. pc'[t] = "copy"
    BY <1>3 DEF FaultCopy, Goto, CInv, Types, RunTypes
  <2> QED BY <2>1
<1> QED BY <1>1, <1>2, <1>3, Begun

\* Only stores, new pages and copies write memory.
LEMMA MemSame ==
  ASSUME RunTypes, NEW s \in Spaces, StillWalks(s) \/ StillHands(s)
  PROVE  /\ copy' = copy
         /\ mem' = mem \/ \E v \in Pages, x \in Values : Store(s, v, x)
<1>1. ASSUME NEW v \in Pages, StoreFaults(s, v) \/ MapLookup(s, v) PROVE copy' = copy /\ mem' = mem
  BY <1>1 DEF StoreFaults, MapLookup, lockVars
<1>2. CASE \E v \in Pages, x \in Values : Store(s, v, x)
  BY <1>2 DEF Store, lockVars
<1>3. CASE FaultFails(s) \/ MapFails(s) \/ Preempt(s) \/ Stamp(s) \/ DispatchGone(s)
  BY <1>3 DEF FaultFails, MapFails, Preempt, Stamp, DispatchGone, lockVars
<1>4. CASE Exit(s) \/ ExitRepeated(s) \/ Dispatch(s) \/ ExitLocked(s) \/ Tick(s) \/ Reclaim(s)
  BY <1>4 DEF Exit, ExitRepeated, Dispatch, ExitLocked, Tick, Reclaim, lockVars
<1>5. CASE (\E c \in Spaces : Fork(s, c)) \/ ForkDone(s)
  BY <1>5 DEF Fork, ForkDone
<1>6. CASE FaultExit(s) \/ Kill(s)
  BY <1>6, RetireFacts DEF FaultExit, Kill
<1> QED BY <1>1, <1>2, <1>3, <1>4, <1>5, <1>6 DEF StillWalks, StillHands

\* A store writes a counted frame, that no other space maps unless the page is shared.
LEMMA StoreFacts ==
  ASSUME CInv, Sharing, NEW s \in Spaces, NEW v \in Pages, NEW x, Store(s, v, x)
  PROVE  /\ v \in leaves[s] /\ pt[s][v] # NoPage /\ pt[s][v].frame \in Frames
         /\ leaf_refs[pt[s][v].frame] >= 1
         /\ mem' = [mem EXCEPT ![pt[s][v].frame] = x]
         /\ \A t \in Spaces, w \in Pages :
              w \in leaves[t] /\ pt[t][w].frame = pt[s][v].frame =>
                (t = s /\ w = v) \/ (w = v /\ v \in SharedPages)
<1>1. Lock /\ Held /\ Refs /\ SpaceTypes
  BY DEF CInv, Types
<1>2. pc[s] = "user" /\ Cached(s, v)
  BY DEF Store
<1>3. Translation(s, v) = pt[s][v]
  BY <1>2, CachedFacts DEF InstalledPc
<1>4. pt[s][v] # NoPage /\ pt[s][v].flags = "rw" /\ mem' = [mem EXCEPT ![pt[s][v].frame] = x]
  BY <1>3 DEF Store
<1>5. ~Releasing(s)
  BY <1>1, <1>2 DEF Releasing, Lock, InstalledPc
<1>6. v \in leaves[s]
  BY <1>1, <1>4, <1>5 DEF Held
<1>7. pt[s][v].frame \in Frames /\ leaf_refs[pt[s][v].frame] >= 1
  BY <1>1, <1>6, MappedIsCounted
<1>8. \A t \in Spaces, w \in Pages :
        w \in leaves[t] /\ pt[t][w].frame = pt[s][v].frame =>
          (t = s /\ w = v) \/ (w = v /\ v \in SharedPages)
  BY <1>4, <1>6 DEF Sharing, Cow
<1> QED BY <1>4, <1>6, <1>7, <1>8

\* The copy in progress keeps the contents it was taken from.
LEMMA CopyMemNext ==
  ASSUME CInv, MemInv, CNext
  PROVE  CopyMem'
<1> SUFFICES ASSUME NEW t \in Spaces, pc'[t] = "copy"
             PROVE  mem'[copy'] = mem'[pt'[t][page'[t]].frame]
  BY DEF CopyMem
<1>0. /\ Lock /\ Held /\ MapOp /\ CopyOp /\ Alloc /\ Refs /\ RunTypes /\ SpaceTypes /\ MemTypes
      /\ Sharing /\ CopyMem
  BY DEF CInv, Types, MemInv
<1> DEFINE w == page[t]
           old == pt[t][w].frame
<1>1. ASSUME pc[t] = "fault" \/ pc[t] = "copy", pt[t][w] # NoPage, custody[t] = "row"
      PROVE  /\ w \in Pages /\ w \in leaves[t] /\ old \in Frames /\ allocation[old] = "allocated"
             /\ leaf_refs[old] >= 1
  <2>1. w \in Pages
    BY <1>0, <1>1 DEF MapOp
  <2>2. w \in leaves[t]
    BY <1>0, <1>1, <2>1 DEF Held, Releasing
  <2>3. old \in Frames /\ leaf_refs[old] >= 1
    BY <1>0, <2>1, <2>2, MappedIsCounted
  <2> QED BY <1>0, <2>1, <2>2, <2>3 DEF Alloc
<1>2. CASE FaultCopy(t)
  <2>1. /\ pc[t] = "fault" /\ pt[t][w] # NoPage /\ custody[t] = "row" /\ page' = page
    BY <1>2 DEF FaultCopy, Goto, IsCowFault
  <2>2. /\ pt' = pt /\ copy' \in Frames /\ allocation[copy'] # "allocated"
        /\ mem' = [mem EXCEPT ![copy'] = mem[old]]
    BY <1>2, FaultCopyEffect DEF spaceVars
  <2>3. old \in Frames /\ allocation[old] = "allocated"
    BY <1>1, <2>1
  <2>4. mem'[copy'] = mem[old] /\ mem'[old] = mem[old]
    BY <1>0, <2>2, <2>3 DEF MemTypes
  <2> QED BY <2>1, <2>2, <2>4
<1>3. CASE pc[t] = "copy" /\ page'[t] = page[t]
  <2>1. /\ manager = t /\ manager # Nobody /\ custody[t] = "row"
    BY <1>0, <1>3, CowAssumption DEF Lock, LockPc
  <2>2. /\ copy \in Frames /\ allocation[copy] = "allocated" /\ leaf_refs[copy] = 0
        /\ pt[t][w] # NoPage /\ pt[t][w].flags = "cow"
    BY <1>0, <1>3 DEF CopyOp
  <2>3. /\ w \in Pages /\ w \in leaves[t] /\ old \in Frames /\ allocation[old] = "allocated"
        /\ leaf_refs[old] >= 1
    BY <1>1, <1>3, <2>1, <2>2
  <2>4. mem[copy] = mem[old]
    BY <1>0, <1>3 DEF CopyMem
  <2>5. SUFFICES copy' = copy /\ pt'[t][w] = pt[t][w] /\ mem'[copy] = mem[copy] /\ mem'[old] = mem[old]
    BY <1>3, <2>4, <2>5
  <2>6. PICK s \in Spaces : StillWalks(s) \/ StillHands(s) \/ Moves(s)
    BY StepSplit
  <2>7. CASE StillWalks(s) \/ StillHands(s)
    <3>1. pt' = pt /\ copy' = copy
      BY <1>0, <2>7, MemSame, StillWalksRely, StillHandsRely DEF Still, spaceVars
    <3>2. CASE mem' = mem
      BY <3>1, <3>2
    <3>3. ASSUME NEW v \in Pages, NEW x \in Values, Store(s, v, x)
          PROVE  mem'[copy] = mem[copy] /\ mem'[old] = mem[old]
      <4>1. /\ pt[s][v].frame \in Frames /\ leaf_refs[pt[s][v].frame] >= 1
            /\ mem' = [mem EXCEPT ![pt[s][v].frame] = x]
            /\ old = pt[s][v].frame => (t = s /\ w = v) \/ (w = v /\ v \in SharedPages)
        BY <1>0, <2>3, <3>3, StoreFacts
      <4>2. pt[s][v].frame # copy
        BY <2>2, <4>1
      <4>3. t # s
        BY <1>3, <3>3 DEF Store
      <4>4. w \notin SharedPages
        BY <1>0, <2>2, <2>3 DEF Sharing, SharedRw
      <4>5. old # pt[s][v].frame
        BY <4>1, <4>3, <4>4
      <4> QED BY <1>0, <2>2, <2>3, <4>1, <4>2, <4>5 DEF MemTypes
    <3> QED BY <1>0, <2>7, <3>1, <3>2, <3>3, MemSame
  <2>8. CASE FaultSole(s) \/ FaultCopy(s) \/ \E v \in Pages : Unmap(s, v)
    BY <2>1, <2>8 DEF FaultSole, FaultCopy, Unmap
  <2>9. CASE FaultRemap(s) \/ ForkPage(s) \/ ForkFails(s)
    <3>1. pc[s] \in LockPc
      BY <2>9 DEF FaultRemap, Resume, ForkPage, ForkFails, Goto, LockPc
    <3>2. s = t
      BY <1>0, <2>1, <3>1 DEF Lock
    <3>3. CASE FaultRemap(s)
      <4>1. pc'[s] = "user"
        BY <1>0, <3>3 DEF FaultRemap, Resume, Goto, RunTypes
      <4> QED BY <3>2, <4>1
    <3>4. CASE ForkPage(s) \/ ForkFails(s)
      BY <1>3, <3>2, <3>4 DEF ForkPage, ForkFails, Goto
    <3> QED BY <2>9, <3>3, <3>4
  <2>10. CASE MapPage(s)
    <3>1. PICK f \in Frames :
            /\ allocation[f] # "allocated" /\ leaf_refs[f] = 0
            /\ \A u \in Spaces, z \in Pages :
                 pt'[u][z] = IF u = s /\ z = page[s] THEN [frame |-> f, flags |-> "rw"]
                                                    ELSE pt[u][z]
            /\ \A g \in Frames : g # f => allocation'[g] = allocation[g] /\ leaf_refs'[g] = leaf_refs[g]
            /\ mem' = [mem EXCEPT ![f] = Zero]
      BY <2>10, MapPageEffect
    <3>2. s # t /\ copy' = copy
      BY <1>3, <2>10 DEF MapPage, Resume, Goto, lockVars
    <3>3. f # copy /\ f # old
      BY <2>2, <2>3, <3>1
    <3>4. mem'[copy] = mem[copy] /\ mem'[old] = mem[old]
      BY <1>0, <2>2, <2>3, <3>1, <3>3 DEF MemTypes
    <3> QED BY <2>3, <3>1, <3>2, <3>4
  <2>11. CASE ReleaseMappedLeaf(s)
    BY <2>11 DEF ReleaseMappedLeaf, lockVars
  <2>12. CASE ReleaseDone(s)
    <3>1. s # t
      BY <1>3, <2>1, <2>12 DEF ReleaseDone, Releasing
    <3>2. \A u \in Spaces, z \in Pages : pt'[u][z] = IF u = s THEN NoPage ELSE pt[u][z]
      BY <2>12, ReleaseDoneEffect
    <3>3. copy' = copy /\ mem' = mem
      BY <2>12 DEF ReleaseDone
    <3> QED BY <2>3, <3>1, <3>2, <3>3
  <2> QED BY <2>6, <2>7, <2>8, <2>9, <2>10, <2>11, <2>12 DEF Moves
<1>4. ASSUME NEW v \in Pages, MapLookup(t, v) PROVE FALSE
  <2>1. pc'[t] = "mmap"
    BY <1>0, <1>4 DEF MapLookup, Goto, RunTypes
  <2> QED BY <2>1
<1> QED BY <1>2, <1>3, <1>4, Begun

\* Two processes share a frame only while neither may write it, or by MAP_SHARED, and
\* the copy that a write fault maps is one although the other owners run meanwhile.
THEOREM MemInvariant == CSpec => [](CInv /\ MemInv)
<1>1. CInit => MemInv
  <2> SUFFICES ASSUME CInit PROVE MemInv
    OBVIOUS
  <2>1. /\ leaves = [s \in Spaces |-> IF s = First THEN Pages ELSE {}]
        /\ pt = [s \in Spaces |-> [v \in Pages |->
                   IF s = First THEN [frame |-> FirstFrames[v], flags |-> "rw"] ELSE NoPage]]
        /\ pc = [s \in Spaces |-> IF s = First THEN "off" ELSE "none"]
    BY DEF CInit
  <2>2. \A s \in Spaces, v \in Pages : v \in leaves[s] =>
          s = First /\ pt[s][v] = [frame |-> FirstFrames[v], flags |-> "rw"]
    BY <2>1
  <2>3. \A s \in Spaces, v \in Pages : v \in leaves[s] =>
          s = First /\ pt[s][v].frame = FirstFrames[v] /\ pt[s][v].flags = "rw"
    <3> TAKE s \in Spaces, v \in Pages
    <3> HAVE v \in leaves[s]
    <3>1. s = First /\ pt[s][v] = [frame |-> FirstFrames[v], flags |-> "rw"]
      BY <2>2
    <3> QED BY <3>1
  <2>4. Cow
    BY <2>3, FirstFramesFacts DEF Cow
  <2>5. SharedRw /\ SharedFrame
    BY <2>3 DEF SharedRw, SharedFrame
  <2>6. MapPrivate /\ CopyMem
    BY <2>1 DEF MapPrivate, CopyMem
  <2> QED BY <2>4, <2>5, <2>6 DEF MemInv, Sharing
<1>2. CInv /\ MemInv /\ [CNext]_cvars => MemInv'
  <2> SUFFICES ASSUME CInv, MemInv, [CNext]_cvars PROVE MemInv'
    OBVIOUS
  <2>1. CASE CNext
    BY <2>1, SharingNext, MapPrivateNext, CopyMemNext DEF MemInv
  <2>2. CASE UNCHANGED cvars
    BY <2>2 DEF MemInv, Sharing, Cow, SharedRw, SharedFrame, MapPrivate, CopyMem, cvars, spaceVars,
                lockVars
  <2> QED BY <2>1, <2>2
<1>3. CInv /\ MemInv /\ [CNext]_cvars => CInv'
  BY CNextInv
<1>4. CInit => CInv
  BY CInitInv
<1> QED BY <1>1, <1>2, <1>3, <1>4, PTL DEF CSpec

-----------------------------------------------------------------------------
(***************************************************************************)
(* CopyOnWrite implements PrivateMemory                                     *)
(***************************************************************************)
Runs(p, c) == p \in InstalledPc \cup {"dispatch"} \/ (p = "off" /\ c = "row")

\* The abstract memory's address spaces are those that can still run.
LEMMA AliveIs == alive = {s \in Spaces : Runs(pc[s], custody[s])}
BY DEF alive, Installed, Runs, InstalledPc

\* What a process reads is in its page table, whatever its CPU has cached.
Seen(s, v) == IF s \in alive /\ pt[s][v] # NoPage THEN mem[pt[s][v].frame] ELSE NoPage
ViewIs == view = [s \in Spaces |-> [v \in Pages |-> Seen(s, v)]]

\* What an address space reads, leaf by leaf.
LEMMA ViewFacts == CInv => ViewIs
<1> SUFFICES ASSUME CInv PROVE ViewIs
  OBVIOUS
<1>1. \A s \in Spaces, v \in Pages : Translation(s, v) = pt[s][v]
  BY DEF Translation, CInv, Tlb
<1> QED BY <1>1 DEF ViewIs, Seen, view

\* The pages of a process that can run are counted.
LEMMA AliveMapped ==
  ASSUME CInv, NEW s \in alive, NEW v \in Pages, pt[s][v] # NoPage
  PROVE  /\ s \in Spaces /\ v \in leaves[s] /\ pt[s][v].frame \in Frames
         /\ leaf_refs[pt[s][v].frame] >= 1 /\ allocation[pt[s][v].frame] = "allocated"
         /\ mem[pt[s][v].frame] \in Values /\ mem[pt[s][v].frame] # NoPage
<1>1. Lock /\ Held /\ Refs /\ Alloc /\ SpaceTypes /\ MemTypes
  BY DEF CInv, Types
<1>2. s \in Spaces /\ Runs(pc[s], custody[s])
  BY AliveIs
<1>3. ~Releasing(s)
  BY <1>1, <1>2 DEF Runs, Releasing, Lock, InstalledPc
<1>4. v \in leaves[s]
  BY <1>1, <1>2, <1>3 DEF Held
<1>5. pt[s][v].frame \in Frames /\ leaf_refs[pt[s][v].frame] >= 1
  BY <1>1, <1>2, <1>4, MappedIsCounted
<1>6. mem[pt[s][v].frame] \in Values
  BY <1>1, <1>5 DEF MemTypes
<1> QED BY <1>1, <1>2, <1>4, <1>5, <1>6, CowAssumption DEF Alloc

\* Where the step of a thread leaves the set of processes that can run.
LEMMA AliveMove ==
  ASSUME RunTypes, NEW s \in Spaces, NEW from, NEW to, Goto(s, from, to), custody' = custody
  PROVE  /\ s \in alive <=> Runs(from, custody[s])
         /\ (Runs(to, custody[s]) <=> Runs(from, custody[s])) => alive' = alive
         /\ ~Runs(to, custody[s]) => alive' = alive \ {s}
<1>1. pc[s] = from /\ \A t \in Spaces : pc'[t] = IF t = s THEN to ELSE pc[t]
  BY Moved DEF RunTypes
<1>2. alive = {t \in Spaces : Runs(pc[t], custody[t])}
  BY AliveIs
<1>3. alive' = {t \in Spaces : Runs(pc'[t], custody'[t])}
  BY AliveIs DEF alive, Installed, Runs, InstalledPc
<1> QED BY <1>1, <1>2, <1>3

\* A step that no process sees.
LEMMA Unseen ==
  ASSUME CInv, CInv', alive' = alive,
         \A t \in alive, w \in Pages : Seen(t, w)' = Seen(t, w)
  PROVE  UNCHANGED Memory!memoryVars
<1>1. ViewIs /\ ViewIs'
  BY ViewFacts, PTL
<1>2. \A t \in Spaces, w \in Pages : Seen(t, w)' = Seen(t, w)
  BY DEF Seen
<1>3. view' = view
  BY <1>1, <1>2 DEF ViewIs
<1> QED BY <1>3 DEF Memory!memoryVars

\* A step that changes no page table, memory or running space is not seen.
LEMMA StillUnseen ==
  ASSUME CInv, CInv', alive' = alive, pt' = pt, mem' = mem
  PROVE  UNCHANGED Memory!memoryVars
<1>1. \A t \in alive, w \in Pages : Seen(t, w)' = Seen(t, w)
  BY DEF Seen
<1> QED BY <1>1, Unseen

\* A process ends.
LEMMA Ended ==
  ASSUME CInv, CInv', NEW s \in alive, alive' = alive \ {s}, pt' = pt, mem' = mem
  PROVE  Memory!End(s)
<1>1. ViewIs /\ ViewIs'
  BY ViewFacts, PTL
<1>2. s \in Spaces
  BY AliveIs
<1>3. \A t \in Spaces, w \in Pages : Seen(t, w)' = IF t = s THEN NoPage ELSE Seen(t, w)
  BY DEF Seen
<1>4. view' = [view EXCEPT ![s] = Memory!Empty]
  BY <1>1, <1>2, <1>3 DEF ViewIs, Memory!Empty
<1> QED BY <1>4 DEF Memory!End

\* A store is seen by its process, and by all when the page is shared.
LEMMA StoreWrites ==
  ASSUME CInv, CInv', MemInv, NEW s \in Spaces, NEW v \in Pages, NEW x \in Values, Store(s, v, x)
  PROVE  Memory!Write(s, v, x)
<1>1. ViewIs /\ ViewIs'
  BY ViewFacts, PTL
<1>2. Sharing /\ MemTypes
  BY DEF MemInv, CInv, Types
<1>3. /\ v \in leaves[s] /\ pt[s][v] # NoPage /\ pt[s][v].frame \in Frames
      /\ mem' = [mem EXCEPT ![pt[s][v].frame] = x]
      /\ \A t \in Spaces, w \in Pages :
           w \in leaves[t] /\ pt[t][w].frame = pt[s][v].frame =>
             (t = s /\ w = v) \/ (w = v /\ v \in SharedPages)
  BY <1>2, StoreFacts
<1>4. pc[s] = "user" /\ UNCHANGED <<pc, custody, pt>>
  BY DEF Store, spaceVars
<1>5. alive' = alive /\ s \in alive
  BY <1>4 DEF alive, Installed
<1> DEFINE hit(t, w) == w = v /\ view[t][v] # NoPage /\ (t = s \/ v \in SharedPages)
<1>6. \A t \in Spaces, w \in Pages : view[t][w] = Seen(t, w)
  BY <1>1 DEF ViewIs
<1>7. ASSUME NEW t \in Spaces, NEW w \in Pages
      PROVE  Seen(t, w)' = IF hit(t, w) THEN x ELSE view[t][w]
  <2>1. CASE t \notin alive \/ pt[t][w] = NoPage
    BY <1>4, <1>5, <1>6, <2>1 DEF Seen
  <2>2. CASE t \in alive /\ pt[t][w] # NoPage
    <3>1. /\ w \in leaves[t] /\ pt[t][w].frame \in Frames /\ mem[pt[t][w].frame] # NoPage
      BY <2>2, AliveMapped
    <3>2. /\ view[t][w] = mem[pt[t][w].frame] /\ Seen(t, w)' = mem'[pt[t][w].frame]
      BY <1>4, <1>5, <1>6, <2>2 DEF Seen
    <3>3. CASE pt[t][w].frame = pt[s][v].frame
      <4>1. hit(t, w)
        BY <1>3, <3>1, <3>2, <3>3
      <4>2. mem'[pt[t][w].frame] = x
        BY <1>2, <1>3, <3>1, <3>3 DEF MemTypes
      <4> QED BY <3>2, <4>1, <4>2
    <3>4. CASE pt[t][w].frame # pt[s][v].frame
      <4>1. ~hit(t, w)
        BY <1>2, <1>3, <3>1, <3>4 DEF Sharing, SharedFrame
      <4>2. mem'[pt[t][w].frame] = mem[pt[t][w].frame]
        BY <1>2, <1>3, <3>1, <3>4 DEF MemTypes
      <4> QED BY <3>2, <4>1, <4>2
    <3> QED BY <3>3, <3>4
  <2> QED BY <2>1, <2>2
<1>8. view[s][v] # NoPage
  BY <1>3, <1>5, <1>6, AliveMapped DEF Seen
<1>9. view' = [t \in Spaces |-> [w \in Pages |-> IF hit(t, w) THEN x ELSE view[t][w]]]
  BY <1>1, <1>7 DEF ViewIs
<1> QED BY <1>5, <1>8, <1>9 DEF Memory!Write

\* The child starts with what its parent reads.
LEMMA ForkDoneForks ==
  ASSUME CInv, CInv', NEW s \in Spaces, ForkDone(s)
  PROVE  child \in Spaces /\ Memory!Fork(s, child)
<1>1. ViewIs /\ ViewIs'
  BY ViewFacts, PTL
<1>2. /\ child \in Spaces /\ pc[s] = "fork" /\ custody[child] = "child" /\ pc[child] = "none"
      /\ \A w \in Pages : pt[child][w] = pt[s][w]
  BY DEF ForkDone, CInv, ForkOp, Lock
<1>3. /\ \A t \in Spaces : pc'[t] = IF t = child THEN "off" ELSE IF t = s THEN "user" ELSE pc[t]
      /\ \A t \in Spaces : custody'[t] = IF t = child THEN "row" ELSE custody[t]
      /\ pt' = pt /\ mem' = mem
  BY <1>2 DEF ForkDone, CInv, Types, RunTypes, spaceVars
<1>4. s \in alive /\ child \notin alive /\ alive' = alive \cup {child}
  BY <1>2, <1>3 DEF alive, Installed
<1>5. \A t \in Spaces, w \in Pages : Seen(t, w)' = IF t = child THEN Seen(s, w) ELSE Seen(t, w)
  BY <1>2, <1>3, <1>4 DEF Seen
<1>6. view' = [view EXCEPT ![child] = view[s]]
  BY <1>1, <1>2, <1>5 DEF ViewIs
<1> QED BY <1>2, <1>4, <1>6 DEF Memory!Fork

\* A new page is zero.
LEMMA MapPageMaps ==
  ASSUME CInv, CInv', NEW s \in Spaces, MapPage(s)
  PROVE  page[s] \in Pages /\ Memory!Map(s, page[s])
<1> DEFINE v == page[s]
<1>1. ViewIs /\ ViewIs' /\ MemTypes /\ RunTypes
  BY ViewFacts, PTL DEF CInv, Types
<1>2. pc[s] = "mmap" /\ v \in Pages /\ pt[s][v] = NoPage
  BY MapPageEffect
<1>3. PICK f \in Frames :
        /\ allocation[f] # "allocated" /\ leaf_refs[f] = 0
        /\ \A t \in Spaces, w \in Pages :
             pt'[t][w] = IF t = s /\ w = page[s] THEN [frame |-> f, flags |-> "rw"]
                                                ELSE pt[t][w]
        /\ \A g \in Frames : g # f => allocation'[g] = allocation[g] /\ leaf_refs'[g] = leaf_refs[g]
        /\ mem' = [mem EXCEPT ![f] = Zero]
  BY MapPageEffect
<1>4. Goto(s, "mmap", "user") /\ custody' = custody
  BY DEF MapPage, Resume
<1>5. alive' = alive /\ s \in alive
  BY <1>1, <1>4, AliveMove DEF Runs, InstalledPc
<1> DEFINE e == [frame |-> f, flags |-> "rw"]
<1>6. pt'[s][v] = e /\ e.frame = f /\ e # NoPage
  BY <1>2, <1>3, EntryFacts
<1> HIDE DEF v, e
<1>7. ASSUME NEW t \in Spaces, NEW w \in Pages
      PROVE  Seen(t, w)' = IF t = s /\ w = v THEN Zero ELSE Seen(t, w)
  <2>1. CASE t = s /\ w = v
    <3>1. mem'[f] = Zero
      BY <1>1, <1>3 DEF MemTypes
    <3> QED BY <1>5, <1>6, <2>1, <3>1 DEF Seen
  <2>2. CASE ~(t = s /\ w = v)
    <3>1. pt'[t][w] = pt[t][w]
      BY <1>3, <2>2 DEF v
    <3>2. CASE t \in alive /\ pt[t][w] # NoPage
      <4>1. pt[t][w].frame \in Frames /\ pt[t][w].frame # f
        BY <1>3, <3>2, AliveMapped
      <4>2. mem'[pt[t][w].frame] = mem[pt[t][w].frame]
        BY <1>1, <1>3, <4>1 DEF MemTypes
      <4> QED BY <1>5, <2>2, <3>1, <4>2 DEF Seen
    <3>3. CASE ~(t \in alive /\ pt[t][w] # NoPage)
      BY <1>5, <2>2, <3>1, <3>3 DEF Seen
    <3> QED BY <3>2, <3>3
  <2> QED BY <2>1, <2>2
<1>8. v \in Pages /\ view[s][v] = NoPage
  BY <1>1, <1>2 DEF ViewIs, Seen, v
<1>9. view' = [view EXCEPT ![s][v] = Zero]
  BY <1>1, <1>7, <1>8 DEF ViewIs
<1> QED BY <1>5, <1>8, <1>9 DEF Memory!Map, v

\* munmap is the abstract unmap.
LEMMA UnmapUnmaps ==
  ASSUME CInv, CInv', NEW s \in Spaces, NEW v \in Pages, Unmap(s, v)
  PROVE  Memory!Unmap(s, v)
<1>1. ViewIs /\ ViewIs' /\ SpaceTypes
  BY ViewFacts, PTL DEF CInv, Types
<1>2. /\ pc[s] = "user" /\ UNCHANGED <<pc, custody, mem>> /\ pt' = [pt EXCEPT ![s][v] = NoPage]
  BY DEF Unmap
<1>3. alive' = alive /\ s \in alive
  BY <1>2 DEF alive, Installed
<1>4. \A t \in Spaces, w \in Pages : pt'[t][w] = IF t = s /\ w = v THEN NoPage ELSE pt[t][w]
  BY <1>1, <1>2 DEF SpaceTypes
<1>5. \A t \in Spaces, w \in Pages : Seen(t, w)' = IF t = s /\ w = v THEN NoPage ELSE Seen(t, w)
  BY <1>2, <1>3, <1>4 DEF Seen
<1>6. view' = [view EXCEPT ![s][v] = NoPage]
  BY <1>1, <1>5 DEF ViewIs
<1> QED BY <1>3, <1>6 DEF Memory!Unmap

\* The write fault, the pages of a fork and the release of leaves are not seen.
LEMMA MovesUnseen ==
  ASSUME CInv, CInv', MemInv, NEW s \in Spaces, Moves(s),
         ~MapPage(s), \A v \in Pages : ~Unmap(s, v)
  PROVE  UNCHANGED Memory!memoryVars
<1> USE DEF Runs, InstalledPc
<1>0. RunTypes /\ MemTypes /\ Lock /\ CopyMem
  BY DEF CInv, Types, MemInv
<1>1. CASE FaultSole(s)
  <2>1. Goto(s, "fault", "user") /\ custody' = custody /\ mem' = mem
    BY <1>1 DEF FaultSole, Resume
  <2>2. alive' = alive
    BY <1>0, <2>1, AliveMove
  <2> DEFINE e == [frame |-> pt[s][page[s]].frame, flags |-> "rw"]
  <2>3. /\ page[s] \in Pages /\ pt[s][page[s]] # NoPage
        /\ \A t \in Spaces, w \in Pages :
             pt'[t][w] = IF t = s /\ w = page[s] THEN e ELSE pt[t][w]
    BY <1>1, FaultSoleEffect
  <2>4. e # NoPage
    <3>1. pt[s][page[s]] \in Mapping
      BY <2>3, EntryFacts DEF CInv, Types, SpaceTypes
    <3> QED BY <3>1, EntryFacts
  <2>5. e.frame = pt[s][page[s]].frame
    OBVIOUS
  <2> HIDE DEF e
  <2>6. \A t \in alive, w \in Pages : Seen(t, w)' = Seen(t, w)
    BY <2>1, <2>2, <2>3, <2>4, <2>5, AliveIs DEF Seen
  <2> QED BY <2>2, <2>6, Unseen
<1>2. CASE FaultCopy(s)
  <2>1. Goto(s, "fault", "copy") /\ custody' = custody
    BY <1>2 DEF FaultCopy
  <2>2. alive' = alive
    BY <1>0, <2>1, AliveMove
  <2>3. /\ pt' = pt /\ copy' \in Frames /\ allocation[copy'] # "allocated"
        /\ mem' = [mem EXCEPT ![copy'] = mem[pt[s][page[s]].frame]]
    BY <1>2, FaultCopyEffect DEF spaceVars
  <2>4. ASSUME NEW t \in alive, NEW w \in Pages PROVE Seen(t, w)' = Seen(t, w)
    <3>1. CASE pt[t][w] # NoPage
      <4>1. pt[t][w].frame \in Frames /\ pt[t][w].frame # copy'
        BY <2>3, <3>1, AliveMapped
      <4>2. mem'[pt[t][w].frame] = mem[pt[t][w].frame]
        BY <1>0, <2>3, <4>1 DEF MemTypes
      <4> QED BY <2>2, <2>3, <4>2 DEF Seen
    <3>2. CASE pt[t][w] = NoPage
      BY <2>3, <3>2 DEF Seen
    <3> QED BY <3>1, <3>2
  <2> QED BY <2>2, <2>4, Unseen
<1>3. CASE FaultRemap(s)
  <2>1. Goto(s, "copy", "user") /\ custody' = custody /\ mem' = mem
    BY <1>3 DEF FaultRemap, Resume
  <2>2. alive' = alive
    BY <1>0, <2>1, AliveMove
  <2> DEFINE e == [frame |-> copy, flags |-> "rw"]
  <2>3. /\ page[s] \in Pages /\ copy \in Frames
        /\ \A t \in Spaces, w \in Pages :
             pt'[t][w] = IF t = s /\ w = page[s] THEN e ELSE pt[t][w]
    BY <1>3, FaultRemapEffect
  <2>4. e # NoPage /\ e.frame = copy
    BY <2>3, EntryFacts
  <2>5. mem[copy] = mem[pt[s][page[s]].frame] /\ pt[s][page[s]] # NoPage
    BY <1>0, <2>1 DEF CopyMem, CInv, CopyOp, Goto
  <2> HIDE DEF e
  <2>6. \A t \in alive, w \in Pages : Seen(t, w)' = Seen(t, w)
    BY <2>1, <2>2, <2>3, <2>4, <2>5, AliveIs DEF Seen
  <2> QED BY <2>2, <2>6, Unseen
<1>4. CASE ForkPage(s)
  <2>1. child \in Spaces /\ custody[child] = "child"
    BY <1>4, ForkPageEffect
  <2>2. PICK v \in work : \E e \in Mapping : SharedAs(s, v, e)
    BY <1>4, ForkPageEffect
  <2>3. PICK e \in Mapping : SharedAs(s, v, e)
    BY <2>2
  <2>4. /\ pt[s][v] # NoPage /\ e.frame = pt[s][v].frame
        /\ \A t \in Spaces, w \in Pages :
             pt'[t][w] = IF w = v /\ (t = s \/ t = child) THEN e ELSE pt[t][w]
    BY <2>3 DEF SharedAs
  <2>5. UNCHANGED <<pc, custody, mem>>
    BY <1>4 DEF ForkPage
  <2>6. alive' = alive
    BY <2>5 DEF alive, Installed
  <2>7. child \notin alive
    BY <1>0, <2>1, AliveIs DEF Lock
  <2>8. e # NoPage
    BY EntryFacts
  <2>9. \A t \in alive, w \in Pages : Seen(t, w)' = Seen(t, w)
    BY <2>4, <2>5, <2>6, <2>7, <2>8, AliveIs DEF Seen
  <2> QED BY <2>6, <2>9, Unseen
<1>5. CASE ForkFails(s)
  <2>1. child \in Spaces /\ child # s /\ custody[child] = "child" /\ pc[s] = "fork"
    BY <1>5, ForkFailsEffect
  <2>2. pc[child] = "none"
    BY <1>0, <2>1 DEF Lock
  <2>3. /\ \A t \in Spaces : pc'[t] = IF t = s THEN "user" ELSE pc[t]
        /\ \A t \in Spaces : t # child /\ t # s => custody'[t] = custody[t]
        /\ mem' = mem
    BY <1>0, <1>5, <2>1, Moved DEF ForkFails, RunTypes
  <2>4. alive' = alive
    BY <2>1, <2>2, <2>3 DEF alive, Installed
  <2>5. PICK v \in Pages :
          /\ v \in leaves[s] /\ pt[s][v] # NoPage /\ pt'[s][v] # NoPage
          /\ pt'[s][v].frame = pt[s][v].frame /\ pt'[s][v].flags = ChildFlags(s, v)
          /\ \A t \in Spaces, w \in Pages : ~(t = s /\ w = v) => pt'[t][w] = pt[t][w]
    BY <1>5, ForkFailsEffect
  <2>6. \A t \in alive, w \in Pages : Seen(t, w)' = Seen(t, w)
    BY <2>3, <2>4, <2>5, AliveIs DEF Seen
  <2> QED BY <2>4, <2>6, Unseen
<1>6. CASE ReleaseMappedLeaf(s)
  <2>1. UNCHANGED <<pt, mem, pc, custody>>
    BY <1>6 DEF ReleaseMappedLeaf
  <2>2. alive' = alive
    BY <2>1 DEF alive, Installed
  <2> QED BY <2>1, <2>2, StillUnseen
<1>7. CASE ReleaseDone(s)
  <2>1. /\ Releasing(s)
        /\ \A t \in Spaces, w \in Pages : pt'[t][w] = IF t = s THEN NoPage ELSE pt[t][w]
    BY <1>7, ReleaseDoneEffect
  <2>2. s \notin alive
    BY <1>0, <2>1, AliveIs DEF Releasing, Lock
  <2>3. /\ \A t \in Spaces : custody'[t] = IF t = s THEN "none" ELSE custody[t]
        /\ \A t \in Spaces : pc'[t] = pc[t] \/ (t = s /\ pc'[t] = "none")
        /\ mem' = mem
    BY <1>0, <1>7 DEF ReleaseDone, RunTypes
  <2>4. alive' = alive
    BY <2>2, <2>3 DEF alive, Installed
  <2>5. \A t \in alive, w \in Pages : Seen(t, w)' = Seen(t, w)
    BY <2>1, <2>2, <2>3, <2>4, AliveIs DEF Seen
  <2> QED BY <2>4, <2>5, Unseen
<1> QED BY <1>1, <1>2, <1>3, <1>4, <1>5, <1>6, <1>7 DEF Moves

\* The other steps of a thread are not seen, or end its process.
LEMMA WalksSeen ==
  ASSUME CInv, CInv', NEW s \in Spaces, StillWalks(s), ~\E v \in Pages, x \in Values : Store(s, v, x)
  PROVE  UNCHANGED Memory!memoryVars \/ Memory!End(s)
<1> USE DEF Runs, InstalledPc
<1>0. RunTypes
  BY DEF CInv, Types
<1>1. pt' = pt /\ mem' = mem
  BY <1>0, StillWalksRely, MemSame DEF Still, spaceVars
<1>2. ASSUME NEW from, NEW to, Goto(s, from, to), custody' = custody,
             (Runs(to, custody[s]) <=> Runs(from, custody[s])) \/ ~Runs(to, custody[s])
      PROVE  UNCHANGED Memory!memoryVars \/ Memory!End(s)
  <2>1. CASE Runs(to, custody[s]) <=> Runs(from, custody[s])
    <3>1. alive' = alive
      BY <1>0, <1>2, <2>1, AliveMove
    <3> QED BY <1>1, <3>1, StillUnseen
  <2>2. CASE ~Runs(to, custody[s]) /\ Runs(from, custody[s])
    <3>1. alive' = alive \ {s} /\ s \in alive
      BY <1>0, <1>2, <2>2, AliveMove
    <3> QED BY <1>1, <3>1, Ended
  <2> QED BY <1>2, <2>1, <2>2
<1>3. ASSUME NEW v \in Pages, StoreFaults(s, v) PROVE UNCHANGED Memory!memoryVars \/ Memory!End(s)
  <2>1. Goto(s, "user", "fault") /\ custody' = custody
    BY <1>3 DEF StoreFaults
  <2> QED BY <1>2, <2>1
<1>4. ASSUME NEW v \in Pages, MapLookup(s, v) PROVE UNCHANGED Memory!memoryVars \/ Memory!End(s)
  <2>1. Goto(s, "user", "mmap") /\ custody' = custody
    BY <1>4 DEF MapLookup
  <2> QED BY <1>2, <2>1
<1>5. CASE FaultFails(s)
  <2>1. Goto(s, "fault", "dying") /\ custody' = custody
    BY <1>5 DEF FaultFails
  <2> QED BY <1>2, <2>1
<1>6. CASE MapFails(s)
  <2>1. Goto(s, "mmap", "user") /\ custody' = custody
    BY <1>6 DEF MapFails, Resume
  <2> QED BY <1>2, <2>1
<1>7. CASE Preempt(s)
  <2>1. Goto(s, "user", "off") /\ custody' = custody
    BY <1>7 DEF Preempt
  <2>2. (Runs("off", custody[s]) <=> Runs("user", custody[s])) \/ ~Runs("off", custody[s])
    OBVIOUS
  <2> QED BY <1>2, <2>1, <2>2
<1>8. CASE Stamp(s)
  <2>1. Goto(s, "dispatch", "user") /\ custody' = custody
    BY <1>8 DEF Stamp
  <2> QED BY <1>2, <2>1
<1>9. CASE DispatchGone(s)
  <2>1. Goto(s, "off", "none") /\ custody' = custody
    BY <1>9 DEF DispatchGone
  <2> QED BY <1>2, <2>1
<1>10. CASE Exit(s)
  <2>1. Goto(s, "user", "exit") /\ custody' = custody
    BY <1>10 DEF Exit
  <2> QED BY <1>2, <2>1
<1>11. CASE ExitRepeated(s)
  <2>1. PICK from \in {"exit", "dying"} : Goto(s, from, "none")
    BY <1>11 DEF ExitRepeated
  <2>2. custody' = custody
    BY <1>11 DEF ExitRepeated
  <2> QED BY <1>2, <2>1, <2>2
<1>12. CASE Dispatch(s)
  <2>1. Goto(s, "off", "dispatch") /\ custody' = custody /\ custody[s] = "row"
    BY <1>12 DEF Dispatch
  <2> QED BY <1>2, <2>1
<1> QED
  BY <1>3, <1>4, <1>5, <1>6, <1>7, <1>8, <1>9, <1>10, <1>11, <1>12 DEF StillWalks

\* A hand-over is not seen, or ends the address space.
LEMMA HandsSeen ==
  ASSUME CInv, CInv', NEW s \in Spaces, StillHands(s), ~ForkDone(s)
  PROVE  UNCHANGED Memory!memoryVars \/ Memory!End(s)
<1> USE DEF Runs, InstalledPc
<1>0. RunTypes
  BY DEF CInv, Types
<1>1. pt' = pt /\ mem' = mem
  <2>1. ~\E v \in Pages, x \in Values : Store(s, v, x) /\ mem' # mem
    BY DEF StillHands, Fork, ForkDone, ExitLocked, FaultExit, Kill, Retire, Tick, Reclaim
  <2> QED BY <1>0, <2>1, StillHandsRely, MemSame DEF Still, spaceVars
<1>2. ASSUME NEW c \in Spaces, Fork(s, c) PROVE alive' = alive
  <2>1. /\ pc[s] = "user" /\ pc[c] = "none" /\ custody[c] = "none"
        /\ \A t \in Spaces : pc'[t] = IF t = s THEN "fork" ELSE pc[t]
        /\ \A t \in Spaces : custody'[t] = IF t = c THEN "child" ELSE custody[t]
    BY <1>0, <1>2, Moved DEF Fork, RunTypes
  <2> QED BY <2>1 DEF alive, Installed
<1>3. CASE ExitLocked(s)
  <2>1. Goto(s, "exit", "release") /\ custody' = custody
    BY <1>3 DEF ExitLocked
  <2>2. alive' = alive
    BY <1>0, <2>1, AliveMove
  <2> QED BY <1>1, <2>2, StillUnseen
<1>4. CASE FaultExit(s)
  <2>1. /\ pc[s] = "dying" /\ \A t \in Spaces : pc'[t] = IF t = s THEN "none" ELSE pc[t]
        /\ \A t \in Spaces : t # s => custody'[t] = custody[t]
    BY <1>0, <1>4, Moved, RetireFacts DEF FaultExit, RunTypes
  <2>2. alive' = alive
    BY <2>1 DEF alive, Installed
  <2> QED BY <1>1, <2>2, StillUnseen
<1>5. CASE Kill(s)
  <2>1. /\ pc' = pc /\ \A t \in Spaces : t # s => custody'[t] = custody[t]
        /\ custody[s] = "row" /\ custody'[s] \in {"receipt", "lost"}
    BY <1>0, <1>5, RetireFacts DEF Kill
  <2>2. CASE pc[s] = "off"
    <3>1. s \in alive /\ alive' = alive \ {s}
      BY <2>1, <2>2 DEF alive, Installed
    <3> QED BY <1>1, <3>1, Ended
  <2>3. CASE pc[s] # "off"
    <3>1. alive' = alive
      BY <2>1, <2>3 DEF alive, Installed
    <3> QED BY <1>1, <3>1, StillUnseen
  <2> QED BY <2>2, <2>3
<1>6. CASE Tick(s)
  <2>1. alive' = alive
    BY <1>6 DEF Tick, alive, Installed
  <2> QED BY <1>1, <2>1, StillUnseen
<1>7. CASE Reclaim(s)
  <2>1. /\ pc' = pc /\ custody[s] = "receipt"
        /\ \A t \in Spaces : custody'[t] = IF t = s THEN "draining" ELSE custody[t]
    BY <1>0, <1>7 DEF Reclaim, RunTypes
  <2>2. alive' = alive
    BY <2>1 DEF alive, Installed
  <2> QED BY <1>1, <2>2, StillUnseen
<1> QED BY <1>1, <1>2, <1>3, <1>4, <1>5, <1>6, <1>7, StillUnseen DEF StillHands

\* Fork gives the child a memory of its own: copy-on-write implements a private memory
\* for each process, whatever forks, faults, kills and drains run at the same time
\* (setup_cow_pages_with_vmas, handle_cow_fault_arm64).
THEOREM CowImplementsPrivateMemory == CSpec => ImplementsPrivateMemory
<1>1. CInit => Memory!MemoryInit
  <2> SUFFICES ASSUME CInit PROVE Memory!MemoryInit
    OBVIOUS
  <2>1. CInv
    BY CInitInv
  <2>2. ViewIs
    BY <2>1, ViewFacts
  <2>3. alive = {First} /\ First \in Spaces
    BY CowAssumption DEF CInit, alive, Installed
  <2>4. /\ pt = [s \in Spaces |-> [v \in Pages |->
                   IF s = First THEN [frame |-> FirstFrames[v], flags |-> "rw"] ELSE NoPage]]
        /\ mem = [f \in Frames |-> Zero]
    BY DEF CInit
  <2>5. ASSUME NEW s \in Spaces, NEW v \in Pages
        PROVE  Seen(s, v) = IF s \in alive THEN Zero ELSE NoPage
    <3>1. CASE s = First
      <4>1. pt[s][v] = [frame |-> FirstFrames[v], flags |-> "rw"]
        BY <2>4, <3>1
      <4>2. FirstFrames[v] \in Frames
        BY FirstFramesFacts, CowAssumption DEF Frames
      <4>3. pt[s][v] # NoPage /\ pt[s][v].frame \in Frames
        BY <4>1, <4>2, EntryFacts
      <4> QED BY <2>3, <2>4, <3>1, <4>3 DEF Seen
    <3>2. CASE s # First
      BY <2>3, <3>2 DEF Seen
    <3> QED BY <3>1, <3>2
  <2>6. view = [s \in Spaces |-> [v \in Pages |-> IF s \in alive THEN Zero ELSE NoPage]]
    BY <2>2, <2>5 DEF ViewIs
  <2> QED BY <2>3, <2>6 DEF Memory!MemoryInit
<1>2. ASSUME CInv, CInv', MemInv, [CNext]_cvars
      PROVE  [Memory!MemoryNext]_(Memory!memoryVars)
  <2>1. CASE UNCHANGED cvars
    <3>1. alive' = alive /\ pt' = pt /\ mem' = mem
      BY <2>1 DEF cvars, spaceVars, alive, Installed
    <3> QED BY <1>2, <3>1, StillUnseen
  <2>2. CASE CNext
    <3>1. PICK s \in Spaces : StillWalks(s) \/ StillHands(s) \/ Moves(s)
      BY <2>2, StepSplit
    <3>2. ASSUME NEW v \in Pages, NEW x \in Values, Store(s, v, x)
          PROVE  Memory!MemoryNext
      <4>1. Memory!Write(s, v, x)
        BY <1>2, <3>2, StoreWrites
      <4> QED BY <4>1 DEF Memory!MemoryNext
    <3>3. CASE ForkDone(s)
      <4>1. child \in Spaces /\ Memory!Fork(s, child)
        BY <1>2, <3>3, ForkDoneForks
      <4> QED BY <4>1 DEF Memory!MemoryNext
    <3>4. CASE MapPage(s)
      <4>1. page[s] \in Pages /\ Memory!Map(s, page[s])
        BY <1>2, <3>4, MapPageMaps
      <4> QED BY <4>1 DEF Memory!MemoryNext
    <3>5. ASSUME NEW v \in Pages, Unmap(s, v)
          PROVE  Memory!MemoryNext
      <4>1. Memory!Unmap(s, v)
        BY <1>2, <3>5, UnmapUnmaps
      <4> QED BY <4>1 DEF Memory!MemoryNext
    <3>6. CASE StillWalks(s) /\ ~\E v \in Pages, x \in Values : Store(s, v, x)
      <4>1. UNCHANGED Memory!memoryVars \/ Memory!End(s)
        BY <1>2, <3>6, WalksSeen
      <4> QED BY <4>1 DEF Memory!MemoryNext
    <3>7. CASE StillHands(s) /\ ~ForkDone(s)
      <4>1. UNCHANGED Memory!memoryVars \/ Memory!End(s)
        BY <1>2, <3>7, HandsSeen
      <4> QED BY <4>1 DEF Memory!MemoryNext
    <3>8. CASE Moves(s) /\ ~MapPage(s) /\ \A v \in Pages : ~Unmap(s, v)
      BY <1>2, <3>8, MovesUnseen
    <3> QED BY <3>1, <3>2, <3>3, <3>4, <3>5, <3>6, <3>7, <3>8
  <2> QED BY <1>2, <2>1, <2>2
<1> QED BY <1>1, <1>2, MemInvariant, PTL DEF CSpec, ImplementsPrivateMemory, Memory!MemorySpec
=============================================================================
