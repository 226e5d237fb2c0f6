--------------------------- MODULE ResourceProofs ---------------------------
(***************************************************************************)
(* Proofs about DeviceMemory, for every number of memories, arrays, sizes  *)
(* and memory types, every width of unsigned and every driver; and about   *)
(* Renderers, for every set of files and resources.                        *)
(***************************************************************************)
EXTENDS DeviceMemory, Renderers, SequenceTheorems, FiniteSetTheorems, WellFoundedInduction, TLAPS

(* A set of natural numbers has a least one. *)
LEMMA LeastOf ==
  ASSUME NEW S \in SUBSET Nat, S # {}
  PROVE  \E i \in S : \A j \in S : i <= j
<1> DEFINE R == StrictSubsetOrdering(Nat)
           F == FiniteSubsetsOf(Nat)
           T == {0 .. i : i \in S}
<1>1. T \subseteq F /\ T # {}
  <2>1. ASSUME NEW i \in S
        PROVE  0 .. i \in F
    <3>1. IsFiniteSet(0 .. i)
      BY FS_Interval
    <3>2. 0 .. i \subseteq Nat
      OBVIOUS
    <3>3. QED
      BY <3>1, <3>2 DEF FiniteSubsetsOf
  <2> HIDE DEF F
  <2>2. QED
    BY <2>1
<1>2. IsWellFoundedOn(R, F)
  BY FS_StrictSubsetOrderingWellFounded
<1>3. \E x \in T : \A y \in T : <<y, x>> \notin R
  <2> HIDE DEF R, F, T
  <2> QED
    BY <1>1, <1>2, WFMin
<1>4. PICK i \in S : \A j \in S : <<0 .. j, 0 .. i>> \notin R
  BY <1>3
<1>5. ASSUME NEW j \in S, j < i
      PROVE  FALSE
  <2>1. (0 .. j) \subseteq (0 .. i) /\ i \in 0 .. i /\ i \notin 0 .. j
    BY <1>5
  <2>2. <<0 .. j, 0 .. i>> \in R
    BY <2>1 DEF StrictSubsetOrdering
  <2>3. QED
    BY <1>4, <1>5, <2>2
<1>6. QED
  BY <1>5

(***************************************************************************)
(* What the helpers return.                                                *)
(***************************************************************************)

(* memType returns a type of the device.                                   *)
LEMMA MemTypeFits ==
  ASSUME NEW filter, NEW visible
  PROVE  MemType(filter, visible) \in DOMAIN Types
<1> DEFINE fit == Suitable(filter, visible)
<1>1. DOMAIN Types = 1 .. Len(Types) /\ Len(Types) \in Nat /\ Len(Types) # 0
  BY MemoryAssumption, LenProperties, EmptySeq
<1>2. fit \subseteq DOMAIN Types
  BY DEF Suitable
<1>3. CASE fit = {}
  BY <1>1, <1>3 DEF MemType
<1>4. CASE fit # {}
  <2>1. \E i \in fit : \A j \in fit : i <= j
    BY <1>1, <1>2, <1>4, LeastOf
  <2> HIDE DEF fit
  <2>2. MemType(filter, visible) \in fit
    BY <1>4, <2>1 DEF MemType, fit
  <2>3. QED
    BY <1>2, <2>2 DEF fit
<1>5. QED
  BY <1>3, <1>4

LEMMA UnitsMod ==
  ASSUME NEW n \in Nat
  PROVE  n % Wrap \in Units
BY MemoryAssumption DEF Units

LEMMA ModOfSum ==
  ASSUME NEW w \in Nat \ {0}, NEW x \in 0 .. w - 1
  PROVE  (x + w) % w = x /\ x % w = x
BY SMTT(30)

(* An unsigned difference is the difference, when an offset is at most the *)
(* size.                                                                   *)
LEMMA RoomLeft ==
  ASSUME NEW r, r.size \in Units, r.offset \in Units, r.offset <= r.size
  PROVE  Room(r) = r.size - r.offset
<1>1. r.size - r.offset \in 0 .. Wrap - 1
  BY MemoryAssumption DEF Units
<1>2. QED
  BY <1>1, ModOfSum, MemoryAssumption DEF Room

-----------------------------------------------------------------------------
(* Sequences of records of which one is added or one is changed.           *)

LEMMA Rewritten ==
  ASSUME NEW R, NEW s \in Seq(R), NEW t \in [1 .. Len(s) -> R]
  PROVE  t \in Seq(R) /\ Len(t) = Len(s) /\ DOMAIN t = 1 .. Len(s)
OBVIOUS

LEMMA SpaceAdded ==
  ASSUME NEW R, NEW s \in Seq(R), NEW e \in R
  PROVE  LET t == Append(s, e) IN
         /\ t \in Seq(R) /\ Len(t) = Len(s) + 1
         /\ DOMAIN s = 1 .. Len(s) /\ DOMAIN t = 1 .. Len(s) + 1
         /\ \A k \in 1 .. Len(s) : t[k] = s[k]
         /\ t[Len(s) + 1] = e
BY AppendProperties, LenProperties

(* Nothing but the flag of one record is changed. *)
LEMMA Freed ==
  ASSUME NEW n, NEW s \in Seq(AllocRecords)
  PROVE  LET t == [s EXCEPT ![n].live = FALSE] IN
         /\ t \in Seq(AllocRecords) /\ Len(t) = Len(s)
         /\ \A k \in 1 .. Len(s) : t[k] = IF k = n THEN [s[k] EXCEPT !.live = FALSE] ELSE s[k]
<1> DEFINE t == [s EXCEPT ![n].live = FALSE]
<1>1. DOMAIN s = 1 .. Len(s) /\ \A k \in 1 .. Len(s) : s[k] \in AllocRecords
  BY LenProperties
<1>2. \A r \in AllocRecords : [r EXCEPT !.live = FALSE] \in AllocRecords
  BY DEF AllocRecords
<1>3. \A k \in 1 .. Len(s) : t[k] = IF k = n THEN [s[k] EXCEPT !.live = FALSE] ELSE s[k]
  BY <1>1
<1>4. t \in [1 .. Len(s) -> AllocRecords]
  BY <1>1, <1>2, <1>3
<1>5. QED
  BY <1>3, <1>4, Rewritten

LEMMA Written ==
  ASSUME NEW n, NEW s \in Seq(AllocRecords)
  PROVE  LET t == [s EXCEPT ![n].filled = TRUE] IN
         /\ t \in Seq(AllocRecords) /\ Len(t) = Len(s)
         /\ \A k \in 1 .. Len(s) : t[k] = IF k = n THEN [s[k] EXCEPT !.filled = TRUE] ELSE s[k]
<1> DEFINE t == [s EXCEPT ![n].filled = TRUE]
<1>1. DOMAIN s = 1 .. Len(s) /\ \A k \in 1 .. Len(s) : s[k] \in AllocRecords
  BY LenProperties
<1>2. \A r \in AllocRecords : [r EXCEPT !.filled = TRUE] \in AllocRecords
  BY DEF AllocRecords
<1>3. \A k \in 1 .. Len(s) : t[k] = IF k = n THEN [s[k] EXCEPT !.filled = TRUE] ELSE s[k]
  BY <1>1
<1>4. t \in [1 .. Len(s) -> AllocRecords]
  BY <1>1, <1>2, <1>3
<1>5. QED
  BY <1>3, <1>4, Rewritten

LEMMA HostFreed ==
  ASSUME NEW n, NEW s \in Seq(HostRecords)
  PROVE  LET t == [s EXCEPT ![n].live = FALSE] IN
         /\ t \in Seq(HostRecords) /\ Len(t) = Len(s)
         /\ \A k \in 1 .. Len(s) : t[k] = IF k = n THEN [s[k] EXCEPT !.live = FALSE] ELSE s[k]
<1> DEFINE t == [s EXCEPT ![n].live = FALSE]
<1>1. DOMAIN s = 1 .. Len(s) /\ \A k \in 1 .. Len(s) : s[k] \in HostRecords
  BY LenProperties
<1>2. \A r \in HostRecords : [r EXCEPT !.live = FALSE] \in HostRecords
  BY DEF HostRecords
<1>3. \A k \in 1 .. Len(s) : t[k] = IF k = n THEN [s[k] EXCEPT !.live = FALSE] ELSE s[k]
  BY <1>1
<1>4. t \in [1 .. Len(s) -> HostRecords]
  BY <1>1, <1>2, <1>3
<1>5. QED
  BY <1>3, <1>4, Rewritten

LEMMA HostWritten ==
  ASSUME NEW n, NEW s \in Seq(HostRecords)
  PROVE  LET t == [s EXCEPT ![n].filled = TRUE] IN
         /\ t \in Seq(HostRecords) /\ Len(t) = Len(s)
         /\ \A k \in 1 .. Len(s) : t[k] = IF k = n THEN [s[k] EXCEPT !.filled = TRUE] ELSE s[k]
<1> DEFINE t == [s EXCEPT ![n].filled = TRUE]
<1>1. DOMAIN s = 1 .. Len(s) /\ \A k \in 1 .. Len(s) : s[k] \in HostRecords
  BY LenProperties
<1>2. \A r \in HostRecords : [r EXCEPT !.filled = TRUE] \in HostRecords
  BY DEF HostRecords
<1>3. \A k \in 1 .. Len(s) : t[k] = IF k = n THEN [s[k] EXCEPT !.filled = TRUE] ELSE s[k]
  BY <1>1
<1>4. t \in [1 .. Len(s) -> HostRecords]
  BY <1>1, <1>2, <1>3
<1>5. QED
  BY <1>3, <1>4, Rewritten

LEMMA BufferGone ==
  ASSUME NEW n, NEW s \in Seq(BufferRecords)
  PROVE  LET t == [s EXCEPT ![n].live = FALSE] IN
         /\ t \in Seq(BufferRecords) /\ Len(t) = Len(s)
         /\ \A k \in 1 .. Len(s) : t[k] = IF k = n THEN [s[k] EXCEPT !.live = FALSE] ELSE s[k]
<1> DEFINE t == [s EXCEPT ![n].live = FALSE]
<1>1. DOMAIN s = 1 .. Len(s) /\ \A k \in 1 .. Len(s) : s[k] \in BufferRecords
  BY LenProperties
<1>2. \A r \in BufferRecords : [r EXCEPT !.live = FALSE] \in BufferRecords
  BY DEF BufferRecords
<1>3. \A k \in 1 .. Len(s) : t[k] = IF k = n THEN [s[k] EXCEPT !.live = FALSE] ELSE s[k]
  BY <1>1
<1>4. t \in [1 .. Len(s) -> BufferRecords]
  BY <1>1, <1>2, <1>3
<1>5. QED
  BY <1>3, <1>4, Rewritten

LEMMA AllocatedFacts ==
  ASSUME allocations \in Seq(AllocRecords), NEW size \in Nat,
         NEW filter \in SUBSET DOMAIN Types, NEW visible \in BOOLEAN
  PROVE  LET t == Allocated(size, filter, visible)
             e == t[Len(allocations) + 1]
         IN  /\ t \in Seq(AllocRecords) /\ Len(t) = Len(allocations) + 1
             /\ DOMAIN allocations = 1 .. Len(allocations)
             /\ DOMAIN t = 1 .. Len(allocations) + 1
             /\ \A k \in 1 .. Len(allocations) : t[k] = allocations[k]
             /\ e.size = size /\ e.live
             /\ e.type = MemType(filter, visible)
<1> DEFINE e == [size |-> size, type |-> MemType(filter, visible), live |-> TRUE, filled |-> FALSE]
<1>1. e \in AllocRecords
  BY MemTypeFits DEF AllocRecords
<1> HIDE DEF e
<1>2. Allocated(size, filter, visible) = Append(allocations, e)
  BY DEF Allocated, e
<1>3. /\ e.size = size /\ e.live
      /\ e.type = MemType(filter, visible)
  BY DEF e
<1>4. QED
  BY <1>1, <1>2, <1>3, SpaceAdded

LEMMA HostCopyFacts ==
  ASSUME hosts \in Seq(HostRecords), NEW size \in Nat
  PROVE  LET t == HostCopy(size)
             e == t[Len(hosts) + 1]
         IN  /\ t \in Seq(HostRecords) /\ Len(t) = Len(hosts) + 1
             /\ DOMAIN hosts = 1 .. Len(hosts) /\ DOMAIN t = 1 .. Len(hosts) + 1
             /\ \A k \in 1 .. Len(hosts) : t[k] = hosts[k]
             /\ e.size = size /\ e.live
<1> DEFINE e == [size |-> size, live |-> TRUE, filled |-> FALSE]
<1>1. e \in HostRecords
  BY DEF HostRecords
<1>2. HostCopy(size) = Append(hosts, e)
  BY DEF HostCopy
<1> HIDE DEF e
<1>3. e.size = size /\ e.live
  BY DEF e
<1>4. QED
  BY <1>1, <1>2, <1>3, SpaceAdded

-----------------------------------------------------------------------------
(* Types. *)

LEMMA Lengths ==
  ASSUME MemoryTypeOK
  PROVE  /\ Len(allocations) \in Nat /\ Len(hosts) \in Nat /\ Len(buffers) \in Nat
         /\ DOMAIN allocations = 1 .. Len(allocations)
         /\ DOMAIN hosts = 1 .. Len(hosts) /\ DOMAIN buffers = 1 .. Len(buffers)
         /\ \A k \in 1 .. Len(allocations) : allocations[k] \in AllocRecords
         /\ \A k \in 1 .. Len(hosts) : hosts[k] \in HostRecords
         /\ \A k \in 1 .. Len(buffers) : buffers[k] \in BufferRecords
BY LenProperties DEF MemoryTypeOK

(* The sets of records grow with what there is. *)
LEMMA RecordsGrow ==
  ASSUME MemoryTypeOK, Len(hosts') \in Nat, Len(buffers') \in Nat,
         Len(hosts) <= Len(hosts'), Len(buffers) <= Len(buffers')
  PROVE  MemoryRecords \subseteq MemoryRecords' /\ ArrayRecords \subseteq ArrayRecords'
<1>1. (0 .. Len(hosts)) \subseteq (0 .. Len(hosts')) /\ (0 .. Len(buffers)) \subseteq (0 .. Len(buffers'))
  BY Lengths
<1>2. MemoryRecords \subseteq MemoryRecords'
  BY <1>1 DEF MemoryRecords
<1>3. QED
  BY <1>1, <1>2 DEF ArrayRecords

LEMMA TypeInit == MemoryInit => MemoryTypeOK
<1> SUFFICES ASSUME MemoryInit
             PROVE  MemoryTypeOK
  OBVIOUS
<1>1. 0 \in Units /\ MaxAllocations \in Nat
  BY MemoryAssumption DEF Units
<1>2. Len(hosts) = 0 /\ Len(buffers) = 0 /\ Len(allocations) = 0
  BY DEF MemoryInit
<1>3. NoMemory \in MemoryRecords
  BY <1>1, <1>2 DEF NoMemory, MemoryRecords
<1>4. NoArray \in ArrayRecords
  BY <1>1, <1>2, <1>3 DEF NoArray, ArrayRecords
<1>5. /\ allocations \in Seq(AllocRecords) /\ hosts \in Seq(HostRecords)
      /\ buffers \in Seq(BufferRecords)
  BY EmptySeq DEF MemoryInit
<1>6. /\ ready \in BOOLEAN
      /\ memory \in [Memories -> MemoryRecords] /\ array \in [Arrays -> ArrayRecords]
  BY <1>3, <1>4 DEF MemoryInit
<1>7. QED
  BY <1>1, <1>2, <1>5, <1>6 DEF MemoryTypeOK

LEMMA TypeInitializeMemory ==
  ASSUME MemoryTypeOK, NEW m \in Memories, NEW size \in Sizes, NEW visible \in BOOLEAN,
         NEW host \in BOOLEAN, InitializeMemory(m, size, visible, host)
  PROVE  MemoryTypeOK'
<1>1. size \in Units /\ size \in Nat
  BY MemoryAssumption DEF Units
<1>2. /\ Len(allocations) < MaxAllocations
      /\ allocations' = IF ready THEN Allocated(size, DOMAIN Types, visible) ELSE allocations
      /\ hosts' = IF host THEN HostCopy(size) ELSE hosts
      /\ memory' = [memory EXCEPT ![m] = Holding(memory[m], size, host)]
      /\ ready' = TRUE /\ buffers' = buffers /\ array' = array
  BY DEF InitializeMemory, MayAllocate
<1>3. Len(allocations) \in Nat /\ Len(hosts) \in Nat /\ Len(buffers) \in Nat /\ MaxAllocations \in Nat
  BY Lengths, MemoryAssumption
<1>4. /\ allocations \in Seq(AllocRecords) /\ hosts \in Seq(HostRecords)
      /\ buffers \in Seq(BufferRecords)
      /\ memory \in [Memories -> MemoryRecords] /\ array \in [Arrays -> ArrayRecords]
  BY DEF MemoryTypeOK
<1>5. /\ allocations' \in Seq(AllocRecords) /\ Len(allocations') <= MaxAllocations
      /\ Len(allocations) + 1 \in 0 .. MaxAllocations
  <2>1. CASE ready
    <3>1. /\ Allocated(size, DOMAIN Types, visible) \in Seq(AllocRecords)
          /\ Len(Allocated(size, DOMAIN Types, visible)) = Len(allocations) + 1
      BY <1>1, <1>4, AllocatedFacts
    <3>2. QED
      BY <1>2, <1>3, <2>1, <3>1
  <2>2. CASE ~ready
    BY <1>2, <1>3, <1>4, <2>2
  <2>3. QED
    BY <2>1, <2>2
<1>6. /\ hosts' \in Seq(HostRecords) /\ Len(hosts) <= Len(hosts') /\ Len(hosts') \in Nat
      /\ host => Len(hosts) + 1 \in 0 .. Len(hosts')
  <2>1. HostCopy(size) \in Seq(HostRecords) /\ Len(HostCopy(size)) = Len(hosts) + 1
    BY <1>1, <1>4, HostCopyFacts
  <2>2. QED
    BY <1>2, <1>3, <1>4, <2>1
<1>7. MemoryRecords \subseteq MemoryRecords' /\ ArrayRecords \subseteq ArrayRecords'
  BY <1>2, <1>3, <1>6, RecordsGrow
<1>8. memory' \in [Memories -> MemoryRecords']
  <2>1. \A r \in MemoryRecords' : Holding(r, size, host) \in MemoryRecords'
    BY <1>1, <1>5, <1>6 DEF MemoryRecords, Holding
  <2>2. QED
    BY <1>2, <1>4, <1>7, <2>1
<1>9. array' \in [Arrays -> ArrayRecords']
  BY <1>2, <1>4, <1>7
<1>10. QED
  BY <1>2, <1>4, <1>5, <1>6, <1>8, <1>9 DEF MemoryTypeOK

LEMMA AtType ==
  ASSUME MemoryTypeOK, NEW from \in Memories, NEW offset \in Offsets
  PROVE  At(from, offset) \in MemoryRecords
<1>1. memory[from] \in MemoryRecords /\ memory[from].offset \in Nat /\ offset \in Nat
  BY MemoryAssumption DEF MemoryTypeOK, MemoryRecords, Units
<1>2. (memory[from].offset + offset) % Wrap \in Units
  BY <1>1, UnitsMod
<1>3. QED
  BY <1>1, <1>2 DEF At, MemoryRecords

(* Giving back changes flags only. *)
LEMMA TypeDeallocating ==
  ASSUME MemoryTypeOK, NEW r \in MemoryRecords, Deallocating(r)
  PROVE  /\ allocations' \in Seq(AllocRecords) /\ Len(allocations') = Len(allocations)
         /\ hosts' \in Seq(HostRecords) /\ Len(hosts') = Len(hosts)
BY Freed, HostFreed DEF Deallocating, MemoryTypeOK

(* What does not touch the lengths of sequences leaves the sets of records. *)
LEMMA SameLengths ==
  ASSUME MemoryTypeOK, UNCHANGED <<ready, memory, array>>,
         allocations' \in Seq(AllocRecords), Len(allocations') = Len(allocations),
         hosts' \in Seq(HostRecords), Len(hosts') = Len(hosts),
         buffers' \in Seq(BufferRecords), Len(buffers') = Len(buffers)
  PROVE  MemoryTypeOK'
<1>1. MemoryRecords' = MemoryRecords
  BY DEF MemoryRecords
<1>2. ArrayRecords' = ArrayRecords
  BY <1>1 DEF ArrayRecords
<1>3. QED
  BY <1>1, <1>2 DEF MemoryTypeOK

LEMMA TypeAssignMemory ==
  ASSUME MemoryTypeOK, NEW m \in Memories, NEW from \in Memories, NEW offset \in Offsets,
         AssignMemory(m, from, offset)
  PROVE  MemoryTypeOK'
<1>1. /\ memory' = [memory EXCEPT ![m] = At(from, offset)]
      /\ UNCHANGED <<ready, allocations, hosts, buffers, array>>
  BY DEF AssignMemory
<1>2. memory' \in [Memories -> MemoryRecords]
  BY <1>1, AtType DEF MemoryTypeOK
<1>3. MemoryRecords' = MemoryRecords /\ ArrayRecords' = ArrayRecords
  BY <1>1 DEF MemoryRecords, ArrayRecords
<1>4. QED
  BY <1>1, <1>2, <1>3 DEF MemoryTypeOK

LEMMA TypeDeallocate ==
  ASSUME MemoryTypeOK, NEW m \in Memories, Deallocate(m)
  PROVE  MemoryTypeOK'
<1>1. memory[m] \in MemoryRecords /\ buffers \in Seq(BufferRecords)
  BY DEF MemoryTypeOK
<1>2. Deallocating(memory[m]) /\ UNCHANGED <<ready, memory, buffers, array>>
  BY DEF Deallocate
<1>3. QED
  BY <1>1, <1>2, TypeDeallocating, SameLengths

(* The four copies change no more than what is filled. *)
LEMMA TypeCopies ==
  ASSUME MemoryTypeOK, NEW n, UNCHANGED <<ready, memory, buffers, array>>,
         \/ allocations' = [allocations EXCEPT ![n].filled = TRUE] /\ hosts' = hosts
         \/ hosts' = [hosts EXCEPT ![n].filled = TRUE] /\ allocations' = allocations
  PROVE  MemoryTypeOK'
<1> DEFINE s == [allocations EXCEPT ![n].filled = TRUE]
           t == [hosts EXCEPT ![n].filled = TRUE]
<1>1. /\ allocations \in Seq(AllocRecords) /\ hosts \in Seq(HostRecords)
      /\ buffers \in Seq(BufferRecords)
  BY DEF MemoryTypeOK
<1>2. s \in Seq(AllocRecords) /\ Len(s) = Len(allocations)
  BY <1>1, Written
<1>3. t \in Seq(HostRecords) /\ Len(t) = Len(hosts)
  BY <1>1, HostWritten
<1>4. \/ allocations' = s /\ hosts' = hosts
      \/ hosts' = t /\ allocations' = allocations
  OBVIOUS
<1> HIDE DEF s, t
<1>5. /\ allocations' \in Seq(AllocRecords) /\ Len(allocations') = Len(allocations)
      /\ hosts' \in Seq(HostRecords) /\ Len(hosts') = Len(hosts)
  BY <1>1, <1>2, <1>3, <1>4
<1>6. QED
  BY <1>1, <1>5, SameLengths

(* The three parts of Binding. *)
Bounded(r, count) ==
  IF Aligned(count) <= Room(r) THEN [NewBuffer(count) EXCEPT !.alloc = r.alloc, !.at = r.offset]
  ELSE NewBuffer(count)

Entry(r, count, preallocated, was) ==
  [buffer |-> Len(buffers) + 1, memory |-> r, preallocated |-> preallocated,
   initialized |-> was \/ Aligned(count) <= Room(r), count |-> count]

LEMMA BindingParts ==
  ASSUME NEW a, NEW r, NEW count, NEW preallocated, NEW was,
         Binding(a, r, count, preallocated, was)
  PROVE  /\ buffers' = Append(buffers, Bounded(r, count))
         /\ array' = [array EXCEPT ![a] = Entry(r, count, preallocated, was)]
BY DEF Binding, Bounded, Entry

LEMMA BoundedFacts ==
  ASSUME MemoryTypeOK, NEW r, r.alloc \in 0 .. MaxAllocations, r.offset \in Units,
         NEW count \in Units
  PROVE  LET t == Append(buffers, Bounded(r, count))
             e == t[Len(buffers) + 1]
             fits == Aligned(count) <= Room(r)
         IN  /\ t \in Seq(BufferRecords) /\ Len(t) = Len(buffers) + 1
             /\ DOMAIN buffers = 1 .. Len(buffers) /\ DOMAIN t = 1 .. Len(buffers) + 1
             /\ \A k \in 1 .. Len(buffers) : t[k] = buffers[k]
             /\ e.live /\ e.requires = Aligned(count) /\ Aligned(count) \in Nat
             /\ fits => e.alloc = r.alloc /\ e.at = r.offset
             /\ ~fits => e.alloc = 0
<1>1. Aligned(count) \in Nat /\ 0 \in Units /\ 0 \in 0 .. MaxAllocations
  BY MemoryAssumption DEF Units
<1>2. /\ Bounded(r, count) \in BufferRecords
      /\ Bounded(r, count).live /\ Bounded(r, count).requires = Aligned(count)
      /\ Aligned(count) <= Room(r) => Bounded(r, count).alloc = r.alloc /\ Bounded(r, count).at = r.offset
      /\ ~(Aligned(count) <= Room(r)) => Bounded(r, count).alloc = 0
  BY <1>1 DEF Bounded, NewBuffer, BufferRecords
<1>3. buffers \in Seq(BufferRecords)
  BY DEF MemoryTypeOK
<1>4. QED
  BY <1>1, <1>2, <1>3, SpaceAdded

LEMMA TypeBinding ==
  ASSUME MemoryTypeOK, NEW a \in Arrays, NEW r, NEW count \in Units,
         NEW preallocated \in BOOLEAN, NEW was \in BOOLEAN,
         Len(hosts') \in Nat, Len(hosts) <= Len(hosts'), r \in MemoryRecords',
         Binding(a, r, count, preallocated, was)
  PROVE  /\ buffers' \in Seq(BufferRecords) /\ Len(buffers') = Len(buffers) + 1
         /\ array' \in [Arrays -> ArrayRecords']
<1>1. r.alloc \in 0 .. MaxAllocations /\ r.offset \in Units
  BY DEF MemoryRecords
<1>2. buffers' \in Seq(BufferRecords) /\ Len(buffers') = Len(buffers) + 1
  BY <1>1, BindingParts, BoundedFacts
<1>3. Len(buffers) \in Nat
  BY Lengths
<1>4. ArrayRecords \subseteq ArrayRecords'
  BY <1>2, <1>3, RecordsGrow
<1>5. Entry(r, count, preallocated, was) \in ArrayRecords'
  BY <1>2, <1>3 DEF Entry, ArrayRecords
<1>6. array \in [Arrays -> ArrayRecords]
  BY DEF MemoryTypeOK
<1>7. array' \in [Arrays -> ArrayRecords']
  BY <1>4, <1>5, <1>6, BindingParts
<1>8. QED
  BY <1>2, <1>7

LEMMA TypeCopying ==
  ASSUME MemoryTypeOK, NEW m \in Memories,
         \/ \E amount \in Sizes, at \in Offsets : CopyToDevice(m, amount, at)
         \/ \E amount \in Sizes, element \in Elements : CopyToHost(m, amount, element)
         \/ SyncToDevice(m) \/ SyncToHost(m)
  PROVE  MemoryTypeOK'
<1>1. UNCHANGED <<ready, memory, buffers, array>>
  BY DEF CopyToDevice, CopyToHost, SyncToDevice, SyncToHost
<1>2. \/ /\ allocations' = [allocations EXCEPT ![memory[m].alloc].filled = TRUE]
         /\ hosts' = hosts
      \/ /\ hosts' = [hosts EXCEPT ![memory[m].host].filled = TRUE]
         /\ allocations' = allocations
  BY Zenon DEF CopyToDevice, CopyToHost, SyncToDevice, SyncToHost
<1> HIDE DEF MemoryTypeOK
<1>3. CASE /\ allocations' = [allocations EXCEPT ![memory[m].alloc].filled = TRUE]
           /\ hosts' = hosts
  BY ONLY MemoryTypeOK, <1>1, <1>3, TypeCopies, Zenon
<1>4. CASE /\ hosts' = [hosts EXCEPT ![memory[m].host].filled = TRUE]
           /\ allocations' = allocations
  BY ONLY MemoryTypeOK, <1>1, <1>4, TypeCopies, Zenon
<1>5. QED
  BY <1>2, <1>3, <1>4

LEMMA TypeInitializeArray ==
  ASSUME MemoryTypeOK, NEW a \in Arrays, NEW count \in Sizes, NEW filter \in SUBSET DOMAIN Types,
         NEW hostLocal \in BOOLEAN, InitializeArray(a, count, filter, hostLocal)
  PROVE  MemoryTypeOK'
<1> DEFINE own == array[a]
           size == Told(count)
<1>1. /\ own \in ArrayRecords /\ own.memory \in MemoryRecords /\ own.initialized \in BOOLEAN
      /\ count \in Units /\ Aligned(count) \in Nat
  BY MemoryAssumption DEF MemoryTypeOK, ArrayRecords, Units
<1>2. size \in Units /\ size \in Nat
  BY <1>1, UnitsMod DEF Told, Units
<1>3. /\ allocations \in Seq(AllocRecords) /\ Len(allocations) <= MaxAllocations
      /\ hosts \in Seq(HostRecords) /\ memory \in [Memories -> MemoryRecords]
      /\ Len(allocations) \in Nat /\ Len(hosts) \in Nat /\ Len(buffers) \in Nat
      /\ MaxAllocations \in Nat
  BY Lengths, MemoryAssumption DEF MemoryTypeOK
<1>4. /\ ready' = TRUE /\ memory' = memory
      /\ \/ /\ Binding(a, own.memory, count, TRUE, own.initialized)
            /\ UNCHANGED <<allocations, hosts>>
         \/ /\ Len(allocations) < MaxAllocations
            /\ allocations' = Allocated(size, filter, hostLocal)
            /\ hosts' = IF hostLocal THEN HostCopy(size) ELSE hosts
            /\ Binding(a, Holding(own.memory, size, hostLocal), count, FALSE, own.initialized)
  BY DEF InitializeArray, MayAllocate
<1> HIDE DEF own, size
<1>5. ASSUME NEW r \in MemoryRecords', NEW preallocated \in BOOLEAN,
             Binding(a, r, count, preallocated, own.initialized),
             allocations' \in Seq(AllocRecords), Len(allocations') <= MaxAllocations,
             hosts' \in Seq(HostRecords), Len(hosts) <= Len(hosts'), Len(hosts') \in Nat
      PROVE  MemoryTypeOK'
  <2>1. /\ buffers' \in Seq(BufferRecords) /\ Len(buffers') = Len(buffers) + 1
        /\ array' \in [Arrays -> ArrayRecords']
    BY <1>1, <1>5, TypeBinding
  <2>2. MemoryRecords \subseteq MemoryRecords'
    BY <1>3, <1>5, <2>1, RecordsGrow
  <2>3. QED
    BY <1>3, <1>4, <1>5, <2>1, <2>2 DEF MemoryTypeOK
<1>6. CASE /\ Binding(a, own.memory, count, TRUE, own.initialized)
           /\ UNCHANGED <<allocations, hosts>>
  <2>1. MemoryRecords' = MemoryRecords
    BY <1>6 DEF MemoryRecords
  <2>2. own.memory \in MemoryRecords'
    BY <1>1, <2>1
  <2>3. /\ allocations' \in Seq(AllocRecords) /\ Len(allocations') <= MaxAllocations
        /\ hosts' \in Seq(HostRecords) /\ Len(hosts) <= Len(hosts') /\ Len(hosts') \in Nat
    BY <1>3, <1>6
  <2>4. TRUE \in BOOLEAN
    OBVIOUS
  <2>5. QED
    BY <1>5, <1>6, <2>2, <2>3, <2>4, Zenon
<1>7. CASE /\ Len(allocations) < MaxAllocations
           /\ allocations' = Allocated(size, filter, hostLocal)
           /\ hosts' = IF hostLocal THEN HostCopy(size) ELSE hosts
           /\ Binding(a, Holding(own.memory, size, hostLocal), count, FALSE, own.initialized)
  <2>1. /\ allocations' \in Seq(AllocRecords) /\ Len(allocations') = Len(allocations) + 1
        /\ Len(allocations) + 1 \in 0 .. MaxAllocations
    BY <1>2, <1>3, <1>7, AllocatedFacts
  <2>2. /\ hosts' \in Seq(HostRecords) /\ Len(hosts) <= Len(hosts') /\ Len(hosts') \in Nat
        /\ hostLocal => Len(hosts) + 1 \in 0 .. Len(hosts')
    <3>1. HostCopy(size) \in Seq(HostRecords) /\ Len(HostCopy(size)) = Len(hosts) + 1
      BY <1>2, <1>3, HostCopyFacts
    <3>2. QED
      BY <1>3, <1>7, <3>1
  <2>3. Holding(own.memory, size, hostLocal) \in MemoryRecords'
    BY <1>1, <1>2, <1>3, <2>1, <2>2 DEF Holding, MemoryRecords
  <2>4. Len(allocations') <= MaxAllocations /\ FALSE \in BOOLEAN
    BY <2>1
  <2>5. QED
    BY <1>5, <1>7, <2>1, <2>2, <2>3, <2>4, Zenon
<1>8. QED
  BY <1>4, <1>6, <1>7

LEMMA TypeInitializeArrayIn ==
  ASSUME MemoryTypeOK, NEW a \in Arrays, NEW m \in Memories, NEW count \in {0} \union Sizes,
         InitializeArrayIn(a, m, count)
  PROVE  MemoryTypeOK'
<1> DEFINE elements == IF count = 0 THEN memory[m].size ELSE count
<1>1. /\ memory[m] \in MemoryRecords /\ memory[m].size \in Units
      /\ array[a].initialized \in BOOLEAN
      /\ memory \in [Memories -> MemoryRecords] /\ Len(buffers) \in Nat /\ Len(hosts) \in Nat
  BY Lengths DEF MemoryTypeOK, ArrayRecords, MemoryRecords
<1>2. elements \in Units
  <2>1. Sizes \subseteq Units
    BY MemoryAssumption DEF Units
  <2>2. QED
    BY <1>1, <2>1
<1>3. /\ UNCHANGED <<ready, allocations, hosts, memory>>
      /\ Binding(a, memory[m], elements, TRUE, array[a].initialized)
  BY DEF InitializeArrayIn
<1> HIDE DEF elements
<1>4. MemoryRecords' = MemoryRecords
  BY <1>3 DEF MemoryRecords
<1>5. /\ buffers' \in Seq(BufferRecords) /\ Len(buffers') = Len(buffers) + 1
      /\ array' \in [Arrays -> ArrayRecords']
  <2>1. Len(hosts') \in Nat /\ Len(hosts) <= Len(hosts') /\ memory[m] \in MemoryRecords'
    BY <1>1, <1>3, <1>4
  <2>2. TRUE \in BOOLEAN
    OBVIOUS
  <2>3. QED
    BY <1>1, <1>2, <1>3, <2>1, <2>2, TypeBinding, Zenon
<1>6. QED
  BY <1>1, <1>3, <1>4, <1>5 DEF MemoryTypeOK

LEMMA TypeAssignArray ==
  ASSUME MemoryTypeOK, NEW a \in Arrays, NEW from \in Arrays, AssignArray(a, from)
  PROVE  MemoryTypeOK'
<1>1. /\ array' = [array EXCEPT ![a] = array[from]]
      /\ UNCHANGED <<ready, allocations, hosts, memory, buffers>>
  BY DEF AssignArray
<1>2. array' \in [Arrays -> ArrayRecords]
  BY <1>1 DEF MemoryTypeOK
<1>3. MemoryRecords' = MemoryRecords /\ ArrayRecords' = ArrayRecords
  BY <1>1 DEF MemoryRecords, ArrayRecords
<1>4. QED
  BY <1>1, <1>2, <1>3 DEF MemoryTypeOK

LEMMA TypeResetArray ==
  ASSUME MemoryTypeOK, NEW a \in Arrays, ResetArray(a)
  PROVE  MemoryTypeOK'
<1>1. /\ array[a].memory \in MemoryRecords
      /\ allocations \in Seq(AllocRecords) /\ hosts \in Seq(HostRecords)
      /\ buffers \in Seq(BufferRecords)
  BY DEF MemoryTypeOK, ArrayRecords
<1>2. /\ UNCHANGED <<ready, memory, array>>
      /\ Deallocating(array[a].memory) \/ UNCHANGED <<allocations, hosts>>
  BY DEF ResetArray
<1>3. buffers' \in Seq(BufferRecords) /\ Len(buffers') = Len(buffers)
  <2>1. buffers' = [buffers EXCEPT ![array[a].buffer].live = FALSE]
    BY DEF ResetArray
  <2>2. QED
    BY <1>1, <2>1, BufferGone
<1>4. /\ allocations' \in Seq(AllocRecords) /\ Len(allocations') = Len(allocations)
      /\ hosts' \in Seq(HostRecords) /\ Len(hosts') = Len(hosts)
  BY <1>1, <1>2, TypeDeallocating
<1>5. QED
  BY <1>2, <1>3, <1>4, SameLengths

LEMMA TypeStep == MemoryTypeOK /\ [MemoryNext]_memoryVars => MemoryTypeOK'
<1> SUFFICES ASSUME MemoryTypeOK, [MemoryNext]_memoryVars
             PROVE  MemoryTypeOK'
  OBVIOUS
<1>1. CASE Prepare
  <2>1. /\ ready' = TRUE /\ UNCHANGED <<allocations, hosts, memory, buffers, array>>
    BY <1>1 DEF Prepare
  <2>2. MemoryRecords' = MemoryRecords /\ ArrayRecords' = ArrayRecords
    BY <2>1 DEF MemoryRecords, ArrayRecords
  <2>3. QED
    BY <2>1, <2>2 DEF MemoryTypeOK
<1>2. ASSUME NEW m \in Memories, OnMemory(m)
      PROVE  MemoryTypeOK'
  <2>1. ASSUME NEW size \in Sizes, NEW kind \in Asked, InitializeMemory(m, size, kind[1], kind[2])
        PROVE  MemoryTypeOK'
    <3>1. kind[1] \in BOOLEAN /\ kind[2] \in BOOLEAN
      BY MemoryAssumption
    <3>2. QED
      BY <2>1, <3>1, TypeInitializeMemory
  <2>2. ASSUME NEW from \in Memories, NEW offset \in Offsets, AssignMemory(m, from, offset)
        PROVE  MemoryTypeOK'
    BY <2>2, TypeAssignMemory
  <2>3. QED
    BY <1>2, <2>1, <2>2, TypeDeallocate, TypeCopying DEF OnMemory
<1>3. ASSUME NEW a \in Arrays, OnArray(a)
      PROVE  MemoryTypeOK'
  <2>1. \A filter \in Filters : filter \in SUBSET DOMAIN Types
    BY DEF Filters
  <2>2. QED
    BY <1>3, <2>1, TypeInitializeArray, TypeInitializeArrayIn, TypeAssignArray, TypeResetArray
       DEF OnArray
<1>4. CASE UNCHANGED memoryVars
  <2>1. UNCHANGED <<ready, allocations, hosts, memory, buffers, array>>
    BY <1>4 DEF memoryVars
  <2>2. MemoryRecords' = MemoryRecords /\ ArrayRecords' = ArrayRecords
    BY <2>1 DEF MemoryRecords, ArrayRecords
  <2>3. QED
    BY <2>1, <2>2 DEF MemoryTypeOK
<1>5. QED
  BY <1>1, <1>2, <1>3, <1>4 DEF MemoryNext

(* Handles, allocations, buffers and arrays have their types: no offset    *)
(* and no size leaves the range of unsigned.                               *)
THEOREM MemoryType == MemorySpec => []MemoryTypeOK
BY TypeInit, TypeStep, PTL DEF MemorySpec

-----------------------------------------------------------------------------
(* The invariant of a program without liberties.                           *)

LEMMA HandleTypes ==
  ASSUME MemoryTypeOK, NEW r \in Handles
  PROVE  r \in MemoryRecords
BY DEF Handles, MemoryTypeOK, ArrayRecords

(* What a handle of something tells. *)
LEMMA HandleFacts ==
  ASSUME MemoryTypeOK, MemoryInv, NEW r \in Handles, r.alloc # 0
  PROVE  /\ r.alloc \in 1 .. Len(allocations)
         /\ r.size = allocations[r.alloc].size /\ r.size \in Units
         /\ r.offset \in Units /\ r.offset <= r.size
         /\ r.host # 0 => /\ r.host \in 1 .. Len(hosts)
                         /\ hosts[r.host].size = r.size
                         /\ hosts[r.host].live = allocations[r.alloc].live
BY HandleTypes, Lengths DEF MemoryInv, Known, MemoryRecords

(* The handle of a new allocation says what was allocated, and shares      *)
(* nothing with the others.                                                *)
LEMMA Grown ==
  ASSUME MemoryTypeOK, MemoryInv, NEW size \in Units,
         NEW filter \in SUBSET DOMAIN Types, NEW visible \in BOOLEAN, NEW host \in BOOLEAN,
         NEW r, r = Holding(NoMemory, size, host),
         allocations' = Allocated(size, filter, visible),
         hosts' = IF host THEN HostCopy(size) ELSE hosts,
         Handles' \subseteq Handles \union {r}
  PROVE  /\ DOMAIN allocations' = 1 .. Len(allocations) + 1
         /\ \A k \in 1 .. Len(allocations) : allocations'[k] = allocations[k]
         /\ r.alloc = Len(allocations) + 1 /\ r.size = size /\ r.offset = 0
         /\ allocations'[r.alloc].size = size /\ allocations'[r.alloc].live
         /\ \A q \in Handles' : Known(q)'
         /\ Paired'
<1>1. /\ allocations \in Seq(AllocRecords) /\ hosts \in Seq(HostRecords) /\ size \in Nat
      /\ Len(allocations) \in Nat /\ Len(hosts) \in Nat
      /\ DOMAIN allocations = 1 .. Len(allocations) /\ DOMAIN hosts = 1 .. Len(hosts)
  BY Lengths, MemoryAssumption DEF MemoryTypeOK, Units
<1>2. /\ r.alloc = Len(allocations) + 1 /\ r.size = size /\ r.offset = 0
      /\ r.host = IF host THEN Len(hosts) + 1 ELSE 0
  BY DEF Holding, NoMemory
<1>3. /\ DOMAIN allocations' = 1 .. Len(allocations) + 1
      /\ \A k \in 1 .. Len(allocations) : allocations'[k] = allocations[k]
      /\ allocations'[r.alloc].size = size /\ allocations'[r.alloc].live = TRUE
  <2> PICK t : t = Allocated(size, filter, visible)
    OBVIOUS
  <2>1. /\ t \in Seq(AllocRecords) /\ DOMAIN t = 1 .. Len(allocations) + 1
        /\ \A k \in 1 .. Len(allocations) : t[k] = allocations[k]
        /\ t[Len(allocations) + 1].size = size /\ t[Len(allocations) + 1].live
    BY <1>1, AllocatedFacts
  <2>2. t[Len(allocations) + 1] \in AllocRecords
    BY <1>1, <2>1, ElementOfSeq, LenProperties
  <2>3. \A e \in AllocRecords : e.live \in BOOLEAN
    BY DEF AllocRecords
  <2>4. allocations' = t
    OBVIOUS
  <2>5. QED
    BY <1>2, <2>1, <2>2, <2>3, <2>4
<1>4. /\ \A k \in 1 .. Len(hosts) : k \in DOMAIN hosts' /\ hosts'[k] = hosts[k]
      /\ host => /\ Len(hosts) + 1 \in DOMAIN hosts'
                /\ hosts'[Len(hosts) + 1].size = size /\ hosts'[Len(hosts) + 1].live = TRUE
  <2> DEFINE t == HostCopy(size)
  <2>1. /\ DOMAIN t = 1 .. Len(hosts) + 1
        /\ \A k \in 1 .. Len(hosts) : t[k] = hosts[k]
        /\ t[Len(hosts) + 1].size = size /\ t[Len(hosts) + 1] \in HostRecords
        /\ t[Len(hosts) + 1].live
    <3>1. t \in Seq(HostRecords) /\ DOMAIN t = 1 .. Len(hosts) + 1
      BY <1>1, HostCopyFacts
    <3>2. t[Len(hosts) + 1] \in HostRecords
      BY <1>1, <3>1, ElementOfSeq, LenProperties
    <3>3. QED
      BY <1>1, <3>1, <3>2, HostCopyFacts
  <2>2. hosts' = IF host THEN t ELSE hosts
    BY DEF t
  <2> HIDE DEF t
  <2>3. \A e \in HostRecords : e.live \in BOOLEAN
    BY DEF HostRecords
  <2>4. QED
    BY <1>1, <2>1, <2>2, <2>3
<1>5. \A q \in Handles : q.alloc # 0 =>
        /\ q.alloc \in 1 .. Len(allocations)
        /\ q.size = allocations[q.alloc].size /\ q.offset <= q.size
        /\ q.host # 0 => /\ q.host \in 1 .. Len(hosts)
                        /\ hosts[q.host].size = q.size
                        /\ hosts[q.host].live = allocations[q.alloc].live
  BY HandleFacts
<1>6. \A q \in Handles : q.alloc = 0 => q = NoMemory /\ q.host = 0
  BY DEF MemoryInv, Known, NoMemory
<1>7. \A q \in Handles' : Known(q)'
  <2>1. ASSUME NEW q \in Handles
        PROVE  Known(q)'
    BY <1>1, <1>3, <1>4, <1>5, <1>6 DEF Known
  <2>2. Known(r)'
    <3>1. r.alloc # 0 /\ r.offset <= r.size
      BY <1>1, <1>2
    <3>2. r.host # 0 => /\ r.host \in DOMAIN hosts' /\ hosts'[r.host].size = r.size
                        /\ hosts'[r.host].live = TRUE
      BY <1>1, <1>2, <1>4
    <3>3. r.alloc \in DOMAIN allocations'
      BY <1>1, <1>2, <1>3
    <3>4. QED
      BY <1>2, <1>3, <3>1, <3>2, <3>3 DEF Known
  <2>3. QED
    BY <2>1, <2>2
<1>8. Paired'
  <2>1. \A q \in Handles : q.alloc # r.alloc /\ (q.host # 0 => q.host # r.host)
    BY <1>1, <1>2, <1>5, <1>6
  <2>2. \A q, z \in Handles \union {r} :
          /\ q.alloc = z.alloc => q.host = z.host
          /\ q.host # 0 /\ q.host = z.host => q.alloc = z.alloc
    BY <2>1 DEF MemoryInv, Paired
  <2>3. QED
    BY <2>2 DEF Paired
<1>9. QED
  BY <1>2, <1>3, <1>7, <1>8

(* What is given back was there, and every handle of it knows. *)
LEMMA Returned ==
  ASSUME MemoryTypeOK, MemoryInv, NEW r \in Handles, Live(r.alloc), Deallocating(r),
         Handles' = Handles
  PROVE  /\ misuse' = misuse
         /\ DOMAIN allocations' = 1 .. Len(allocations)
         /\ \A k \in 1 .. Len(allocations) :
              /\ allocations'[k].size = allocations[k].size
              /\ allocations'[k].live = IF k = r.alloc THEN FALSE ELSE allocations[k].live
         /\ \A q \in Handles' : Known(q)'
         /\ Paired'
<1>1. /\ allocations \in Seq(AllocRecords) /\ hosts \in Seq(HostRecords)
      /\ DOMAIN allocations = 1 .. Len(allocations) /\ DOMAIN hosts = 1 .. Len(hosts)
      /\ \A k \in 1 .. Len(allocations) : allocations[k] \in AllocRecords
      /\ \A k \in 1 .. Len(hosts) : hosts[k] \in HostRecords
  BY Lengths DEF MemoryTypeOK
<1>2. r.alloc # 0 /\ allocations[r.alloc].live
  BY DEF Live
<1>3. /\ r.alloc \in 1 .. Len(allocations)
      /\ r.host # 0 => r.host \in 1 .. Len(hosts) /\ hosts[r.host].live
  BY <1>2, HandleFacts
<1>4. /\ misuse' = IF \/ r.host # 0 /\ ~hosts[r.host].live
                      \/ r.alloc # 0 /\ ~allocations[r.alloc].live
                   THEN "given back twice" ELSE misuse
      /\ hosts' = IF r.host = 0 THEN hosts ELSE [hosts EXCEPT ![r.host].live = FALSE]
      /\ allocations' = IF r.alloc = 0 THEN allocations
                        ELSE [allocations EXCEPT ![r.alloc].live = FALSE]
  BY Zenon DEF Deallocating
<1>5. misuse' = misuse
  BY ONLY <1>2, <1>3, <1>4, Zenon
<1>6. /\ DOMAIN allocations' = 1 .. Len(allocations)
      /\ \A k \in 1 .. Len(allocations) :
           /\ allocations'[k].size = allocations[k].size
           /\ allocations'[k].live = IF k = r.alloc THEN FALSE ELSE allocations[k].live
  <2> DEFINE n == r.alloc
             t == [allocations EXCEPT ![n].live = FALSE]
  <2>1. /\ t \in Seq(AllocRecords) /\ Len(t) = Len(allocations)
        /\ \A k \in 1 .. Len(allocations) :
             t[k] = IF k = n THEN [allocations[k] EXCEPT !.live = FALSE] ELSE allocations[k]
    BY <1>1, Freed
  <2>2. allocations' = t
    BY <1>2, <1>4
  <2> HIDE DEF t, n
  <2>3. DOMAIN t = 1 .. Len(allocations)
    BY <2>1, LenProperties
  <2>4. \A k \in 1 .. Len(allocations) :
          /\ t[k].size = allocations[k].size
          /\ t[k].live = IF k = n THEN FALSE ELSE allocations[k].live
    BY ONLY <1>1, <2>1 DEF AllocRecords
  <2>5. QED
    BY <2>2, <2>3, <2>4 DEF n
<1>7. /\ DOMAIN hosts' = 1 .. Len(hosts)
      /\ \A k \in 1 .. Len(hosts) :
           /\ hosts'[k].size = hosts[k].size
           /\ hosts'[k].live = IF k = r.host THEN FALSE ELSE hosts[k].live
  <2> DEFINE n == r.host
             t == [hosts EXCEPT ![n].live = FALSE]
  <2>1. /\ t \in Seq(HostRecords) /\ Len(t) = Len(hosts)
        /\ \A k \in 1 .. Len(hosts) :
             t[k] = IF k = n THEN [hosts[k] EXCEPT !.live = FALSE] ELSE hosts[k]
    BY <1>1, HostFreed
  <2>2. hosts' = IF n = 0 THEN hosts ELSE t
    BY <1>4
  <2> HIDE DEF t, n
  <2>3. DOMAIN t = 1 .. Len(hosts) /\ Len(hosts) \in Nat
    BY <1>1, <2>1, LenProperties
  <2>4. \A k \in 1 .. Len(hosts) :
          /\ t[k].size = hosts[k].size
          /\ t[k].live = IF k = n THEN FALSE ELSE hosts[k].live
    BY ONLY <1>1, <2>1 DEF HostRecords
  <2>5. /\ DOMAIN hosts' = 1 .. Len(hosts)
        /\ \A k \in 1 .. Len(hosts) :
             /\ hosts'[k].size = hosts[k].size
             /\ hosts'[k].live = IF k = n THEN FALSE ELSE hosts[k].live
    <3>1. CASE n = 0
      <4>1. hosts' = hosts
        BY <2>2, <3>1
      <4>2. \A k \in 1 .. Len(hosts) : k # n
        BY <2>3, <3>1
      <4>3. \A k \in 1 .. Len(hosts) : hosts[k].live \in BOOLEAN
        BY <1>1 DEF HostRecords
      <4>4. QED
        BY ONLY <1>1, <4>1, <4>2, <4>3
    <3>2. CASE n # 0
      BY ONLY <2>2, <2>3, <2>4, <3>2
    <3>3. QED
      BY <3>1, <3>2
  <2>6. QED
    BY <2>5 DEF n
<1>8. Paired /\ Paired'
  BY DEF MemoryInv, Paired
<1>9. \A q \in Handles' : Known(q)'
  <2>1. SUFFICES ASSUME NEW q \in Handles
                 PROVE  Known(q)'
    OBVIOUS
  <2>2. CASE q.alloc = 0
    BY <2>2 DEF MemoryInv, Known
  <2>3. CASE q.alloc # 0
    <3>1. /\ q.alloc \in 1 .. Len(allocations)
          /\ q.size = allocations[q.alloc].size /\ q.offset <= q.size
          /\ q.host # 0 => /\ q.host \in 1 .. Len(hosts)
                          /\ hosts[q.host].size = q.size
                          /\ hosts[q.host].live = allocations[q.alloc].live
      BY <2>3, HandleFacts
    <3>2. /\ q.alloc = r.alloc => q.host = r.host
          /\ q.host # 0 /\ q.host = r.host => q.alloc = r.alloc
      BY <1>8 DEF Paired
    <3>3. QED
      BY ONLY <1>6, <1>7, <2>3, <3>1, <3>2 DEF Known
  <2>4. QED
    BY <2>2, <2>3
<1>10. QED
  BY <1>5, <1>6, <1>8, <1>9

(* What changes neither sizes nor what is live changes nothing here. *)
LEMMA SameShape ==
  ASSUME MemoryInv, UNCHANGED <<memory, buffers, array>>, misuse' = "none",
         DOMAIN allocations' = DOMAIN allocations, DOMAIN hosts' = DOMAIN hosts,
         \A k \in DOMAIN allocations : /\ allocations'[k].size = allocations[k].size
                                      /\ allocations'[k].live = allocations[k].live,
         \A k \in DOMAIN hosts : /\ hosts'[k].size = hosts[k].size
                                /\ hosts'[k].live = hosts[k].live
  PROVE  MemoryInv'
<1>1. Handles' = Handles
  BY DEF Handles
<1>2. \A r \in Handles : Known(r)'
  BY DEF MemoryInv, Known
<1>3. Paired'
  BY <1>1 DEF MemoryInv, Paired
<1>4. ArraysHold'
  BY DEF MemoryInv, ArraysHold, OwnsAlone
<1>5. BuffersInside'
  BY DEF MemoryInv, BuffersInside
<1>6. QED
  BY <1>1, <1>2, <1>3, <1>4, <1>5 DEF MemoryInv, Sound

LEMMA CopiesKeep ==
  ASSUME MemoryTypeOK, MemoryInv, NEW n, UNCHANGED <<memory, buffers, array>>, misuse' = "none",
         \/ allocations' = [allocations EXCEPT ![n].filled = TRUE] /\ hosts' = hosts
         \/ hosts' = [hosts EXCEPT ![n].filled = TRUE] /\ allocations' = allocations
  PROVE  MemoryInv'
<1> DEFINE s == [allocations EXCEPT ![n].filled = TRUE]
           t == [hosts EXCEPT ![n].filled = TRUE]
<1>1. /\ allocations \in Seq(AllocRecords) /\ hosts \in Seq(HostRecords)
      /\ DOMAIN allocations = 1 .. Len(allocations) /\ DOMAIN hosts = 1 .. Len(hosts)
      /\ \A k \in 1 .. Len(allocations) : allocations[k] \in AllocRecords
      /\ \A k \in 1 .. Len(hosts) : hosts[k] \in HostRecords
  BY Lengths DEF MemoryTypeOK
<1>2. /\ s \in Seq(AllocRecords) /\ Len(s) = Len(allocations)
      /\ \A k \in 1 .. Len(allocations) :
           s[k] = IF k = n THEN [allocations[k] EXCEPT !.filled = TRUE] ELSE allocations[k]
  BY ONLY <1>1, Written
<1>3. /\ t \in Seq(HostRecords) /\ Len(t) = Len(hosts)
      /\ \A k \in 1 .. Len(hosts) :
           t[k] = IF k = n THEN [hosts[k] EXCEPT !.filled = TRUE] ELSE hosts[k]
  BY ONLY <1>1, HostWritten
<1>4. \/ allocations' = s /\ hosts' = hosts
      \/ hosts' = t /\ allocations' = allocations
  OBVIOUS
<1> HIDE DEF s, t
<1>5. /\ DOMAIN s = DOMAIN allocations
      /\ \A k \in DOMAIN allocations : s[k].size = allocations[k].size /\ s[k].live = allocations[k].live
  BY ONLY <1>1, <1>2, LenProperties DEF AllocRecords
<1>6. /\ DOMAIN t = DOMAIN hosts
      /\ \A k \in DOMAIN hosts : t[k].size = hosts[k].size /\ t[k].live = hosts[k].live
  BY ONLY <1>1, <1>3, LenProperties DEF HostRecords
<1>7. /\ DOMAIN allocations' = DOMAIN allocations /\ DOMAIN hosts' = DOMAIN hosts
      /\ \A k \in DOMAIN allocations : /\ allocations'[k].size = allocations[k].size
                                       /\ allocations'[k].live = allocations[k].live
      /\ \A k \in DOMAIN hosts : /\ hosts'[k].size = hosts[k].size
                                 /\ hosts'[k].live = hosts[k].live
  BY ONLY <1>4, <1>5, <1>6
<1>8. QED
  BY <1>7, SameShape, Zenon

LEMMA NoLiberty ==
  ASSUME MemoryLiberties = {}, NEW liberty
  PROVE  ~May(liberty)
BY DEF May

LEMMA InvInit == MemoryInit => MemoryInv
<1> SUFFICES ASSUME MemoryInit
             PROVE  MemoryInv
  OBVIOUS
<1>1. /\ \A m \in Memories : memory[m] = NoMemory
      /\ \A a \in Arrays : array[a] = NoArray
      /\ buffers = <<>> /\ misuse = "none"
  BY DEF MemoryInit
<1>2. \A r \in Handles : r = NoMemory
  BY <1>1 DEF Handles, NoArray
<1>3. \A r \in Handles : Known(r)
  BY <1>2 DEF Known, NoMemory
<1>4. Paired
  BY <1>2 DEF Paired, NoMemory
<1>5. ArraysHold
  <2>1. NoArray.buffer = 0
    BY DEF NoArray
  <2>2. QED
    BY <1>1, <2>1 DEF ArraysHold
<1>6. BuffersInside
  <2>1. DOMAIN buffers = {}
    BY <1>1
  <2>2. QED
    BY <2>1 DEF BuffersInside
<1>7. QED
  BY <1>1, <1>3, <1>4, <1>5, <1>6 DEF MemoryInv, Sound

LEMMA InvInitializeMemory ==
  ASSUME MemoryLiberties = {}, MemoryTypeOK, MemoryInv, NEW m \in Memories, NEW size \in Sizes,
         NEW visible \in BOOLEAN, NEW host \in BOOLEAN, InitializeMemory(m, size, visible, host)
  PROVE  MemoryInv'
<1> DEFINE r == Holding(NoMemory, size, host)
<1>1. size \in Units /\ DOMAIN Types \in SUBSET DOMAIN Types
  BY MemoryAssumption DEF Units
<1>2. /\ memory[m] = NoMemory
      /\ allocations' = Allocated(size, DOMAIN Types, visible)
      /\ hosts' = IF host THEN HostCopy(size) ELSE hosts
      /\ memory' = [memory EXCEPT ![m] = r]
      /\ misuse' = misuse /\ buffers' = buffers /\ array' = array
  BY NoLiberty DEF InitializeMemory
<1>3. memory \in [Memories -> MemoryRecords]
  BY DEF MemoryTypeOK
<1> HIDE DEF r
<1>4. \A k \in Memories : memory'[k] = IF k = m THEN r ELSE memory[k]
  BY <1>2, <1>3
<1>5. Handles' \subseteq Handles \union {r}
  BY <1>2, <1>4 DEF Handles
<1>6. /\ DOMAIN allocations' = 1 .. Len(allocations) + 1
      /\ \A k \in 1 .. Len(allocations) : allocations'[k] = allocations[k]
      /\ r.alloc = Len(allocations) + 1
      /\ \A q \in Handles' : Known(q)'
      /\ Paired'
  <2>1. r = Holding(NoMemory, size, host) /\ r.alloc = Len(allocations) + 1
    BY DEF r, Holding
  <2>2. /\ DOMAIN allocations' = 1 .. Len(allocations) + 1
        /\ \A k \in 1 .. Len(allocations) : allocations'[k] = allocations[k]
    BY <1>1, <1>2, <1>5, <2>1, Grown, Zenon
  <2>3. \A q \in Handles' : Known(q)'
    BY <1>1, <1>2, <1>5, <2>1, Grown
  <2>4. Paired'
    BY <1>1, <1>2, <1>5, <2>1, Grown
  <2>5. QED
    BY <2>1, <2>2, <2>3, <2>4
<1>7. /\ Len(allocations) \in Nat
      /\ \A q \in Handles : q.alloc # 0 => q.alloc \in 1 .. Len(allocations)
  BY Lengths, HandleFacts
<1>8. ArraysHold'
  <2>1. ASSUME NEW a \in Arrays, array[a].memory.alloc # 0, OwnsAlone(a)
        PROVE  OwnsAlone(a)'
    <3>1. array[a].memory.alloc # r.alloc
      BY <1>6, <1>7, <2>1 DEF Handles
    <3>2. QED
      BY <1>2, <1>4, <2>1, <3>1 DEF OwnsAlone
  <2>2. QED
    BY <1>2, <2>1 DEF MemoryInv, ArraysHold
<1>9. BuffersInside'
  <2>1. DOMAIN allocations = 1 .. Len(allocations)
    BY Lengths
  <2>2. QED
    BY <1>2, <1>6, <1>7, <2>1 DEF MemoryInv, BuffersInside
<1>10. QED
  BY <1>2, <1>6, <1>8, <1>9 DEF MemoryInv, Sound

LEMMA InvAssignMemory ==
  ASSUME MemoryTypeOK, MemoryInv, NEW m \in Memories, NEW from \in Memories,
         NEW offset \in Offsets, AssignMemory(m, from, offset)
  PROVE  MemoryInv'
<1> DEFINE r == At(from, offset)
           q == memory[from]
<1>1. /\ q.alloc # 0
      /\ memory' = [memory EXCEPT ![m] = r]
      /\ UNCHANGED <<ready, allocations, hosts, buffers, array, misuse>>
  BY DEF AssignMemory
<1>2. memory \in [Memories -> MemoryRecords] /\ q \in MemoryRecords /\ q \in Handles
  BY DEF MemoryTypeOK, Handles
<1>3. r.alloc = q.alloc /\ r.host = q.host /\ r.size = q.size /\ r.offset <= r.size
  <2>1. q.offset \in Nat /\ q.size \in Nat /\ offset \in Nat
    BY <1>2, MemoryAssumption DEF MemoryRecords, Units
  <2>2. (q.offset + offset) % Wrap \in Nat
    BY <2>1, UnitsMod DEF Units
  <2>3. QED
    BY <1>2, <2>1, <2>2 DEF At, MemoryRecords
<1> HIDE DEF r, q
<1>4. \A k \in Memories : memory'[k] = IF k = m THEN r ELSE memory[k]
  BY <1>1, <1>2
<1>5. Handles' \subseteq Handles \union {r}
  BY <1>1, <1>4 DEF Handles
<1>6. \A z \in Handles' : Known(z)'
  <2>1. Known(q) /\ \A z \in Handles : Known(z)
    BY <1>2 DEF MemoryInv
  <2>2. Known(r)
    BY <1>1, <1>3, <2>1 DEF Known
  <2>3. QED
    BY <1>1, <1>5, <2>1, <2>2 DEF Known
<1>7. Paired'
  <2>1. \A x, z \in Handles :
          /\ x.alloc = z.alloc => x.host = z.host
          /\ x.host # 0 /\ x.host = z.host => x.alloc = z.alloc
    BY DEF MemoryInv, Paired
  <2>2. \A x, z \in Handles \union {r} :
          /\ x.alloc = z.alloc => x.host = z.host
          /\ x.host # 0 /\ x.host = z.host => x.alloc = z.alloc
    BY <1>2, <1>3, <2>1
  <2>3. QED
    BY <1>5, <2>2 DEF Paired
<1>8. ArraysHold'
  <2>1. \A a \in Arrays : OwnsAlone(a) => OwnsAlone(a)'
    BY <1>1, <1>3, <1>4 DEF OwnsAlone, q
  <2>2. QED
    BY <1>1, <2>1 DEF MemoryInv, ArraysHold
<1>9. QED
  BY <1>1, <1>6, <1>7, <1>8 DEF MemoryInv, Sound, BuffersInside

LEMMA InvDeallocate ==
  ASSUME MemoryLiberties = {}, MemoryTypeOK, MemoryInv, NEW m \in Memories, Deallocate(m)
  PROVE  MemoryInv'
<1> DEFINE r == memory[m]
<1>1. /\ Live(r.alloc) /\ Bound(r.alloc) = {} /\ Deallocating(r)
      /\ UNCHANGED <<memory, buffers, array>>
  BY NoLiberty DEF Deallocate, MayGiveBack
<1>2. r \in Handles /\ Handles' = Handles
  BY <1>1 DEF Handles
<1> HIDE DEF r
<1>3. /\ misuse' = misuse
      /\ DOMAIN allocations' = 1 .. Len(allocations)
      /\ \A k \in 1 .. Len(allocations) :
           /\ allocations'[k].size = allocations[k].size
           /\ allocations'[k].live = IF k = r.alloc THEN FALSE ELSE allocations[k].live
      /\ \A q \in Handles' : Known(q)'
      /\ Paired'
  BY <1>1, <1>2, Returned
<1>4. ArraysHold'
  BY <1>1 DEF MemoryInv, ArraysHold, OwnsAlone
<1>5. BuffersInside'
  <2>1. DOMAIN allocations = 1 .. Len(allocations)
    BY Lengths
  <2>2. \A k \in DOMAIN buffers : buffers[k].live => buffers[k].alloc # r.alloc
    BY <1>1 DEF Bound
  <2>3. QED
    BY <1>1, <1>3, <2>1, <2>2 DEF MemoryInv, BuffersInside
<1>6. QED
  BY <1>3, <1>4, <1>5 DEF MemoryInv, Sound

(* A range inside the object is inside the allocation it has. *)
LEMMA MappedWell ==
  ASSUME MemoryLiberties = {}, MemoryTypeOK, MemoryInv, NEW r \in Handles, MayMap(r),
         NEW from \in Nat, NEW to \in Nat, to <= r.size
  PROVE  Mapped(r, from, to) = "none"
<1>1. r.alloc # 0 /\ Live(r.alloc) /\ Types[allocations[r.alloc].type] /\ r.offset = 0
  BY NoLiberty DEF MayMap
<1>2. allocations[r.alloc].size = r.size
  BY <1>1, HandleFacts
<1>3. ~(to > allocations[r.alloc].size) /\ ~(from < r.offset)
  <2>1. r.size \in Nat
    BY HandleTypes DEF MemoryRecords, Units
  <2>2. QED
    BY <1>1, <1>2, <2>1
<1>4. QED
  BY <1>1, <1>3 DEF Mapped

LEMMA InvCopying ==
  ASSUME MemoryLiberties = {}, MemoryTypeOK, MemoryInv, NEW m \in Memories,
         \/ \E amount \in Sizes, at \in Offsets : CopyToDevice(m, amount, at)
         \/ \E amount \in Sizes, element \in Elements : CopyToHost(m, amount, element)
         \/ SyncToDevice(m) \/ SyncToHost(m)
  PROVE  MemoryInv'
<1> DEFINE o == memory[m]
<1>1. o \in Handles /\ o.size \in Nat /\ misuse = "none"
  BY HandleTypes DEF Handles, MemoryRecords, Units, MemoryInv, Sound
<1>2. UNCHANGED <<memory, buffers, array>>
  BY DEF CopyToDevice, CopyToHost, SyncToDevice, SyncToHost
<1>3. \/ /\ allocations' = [allocations EXCEPT ![memory[m].alloc].filled = TRUE]
         /\ hosts' = hosts
      \/ /\ hosts' = [hosts EXCEPT ![memory[m].host].filled = TRUE]
         /\ allocations' = allocations
  BY Zenon DEF CopyToDevice, CopyToHost, SyncToDevice, SyncToHost
<1>4. misuse' = "none"
  <2>1. ASSUME NEW amount \in Sizes, NEW at \in Offsets, CopyToDevice(m, amount, at)
        PROVE  misuse' = "none"
    <3>1. /\ MayMap(o)
          /\ at = 0 \/ at + amount <= o.size
          /\ misuse' = Mapped(o, at, at + Amount(o, amount))
      BY <2>1, NoLiberty DEF CopyToDevice
    <3>2. amount \in Nat /\ at \in Nat
      BY MemoryAssumption
    <3> DEFINE to == at + Amount(o, amount)
    <3>3. to \in Nat /\ to <= o.size
      BY <1>1, <3>1, <3>2 DEF Amount
    <3>4. misuse' = Mapped(o, at, to)
      BY <3>1
    <3> HIDE DEF to, o
    <3>5. Mapped(o, at, to) = "none"
      BY <1>1, <3>1, <3>2, <3>3, MappedWell
    <3>6. QED
      BY <3>4, <3>5
  <2>2. ASSUME MayMap(o), HasHost(o)
        PROVE  ~(hosts[o.host].size < o.size) /\ Mapped(o, 0, o.size) = "none"
    <3>1. o.alloc # 0 /\ o.host # 0
      BY <2>2 DEF MayMap, HasHost
    <3>2. hosts[o.host].size = o.size
      BY <1>1, <3>1, HandleFacts
    <3>3. QED
      BY <1>1, <2>2, <3>2, MappedWell
  <2>3. CASE SyncToDevice(m)
    BY <2>2, <2>3, NoLiberty DEF SyncToDevice
  <2>4. CASE SyncToHost(m)
    BY <2>2, <2>4, NoLiberty DEF SyncToHost
  <2>5. ASSUME NEW amount \in Sizes, NEW element \in Elements, CopyToHost(m, amount, element)
        PROVE  misuse' = "none"
    <3>1. /\ o.host # 0
          /\ amount * element <= o.size
          /\ misuse' = IF Amount(o, amount) * element > hosts[o.host].size
                       THEN "copying past the end on the host" ELSE misuse
      BY <2>5, NoLiberty DEF CopyToHost, HasHost
    <3>2. amount \in Nat /\ element \in Nat \ {0}
      BY MemoryAssumption
    <3>3. PICK bytes : bytes = amount * element
      OBVIOUS
    <3> HIDE DEF o
    <3>4. bytes \in Nat /\ amount <= bytes
      BY <3>2, <3>3, Z3
    <3>5. bytes <= o.size
      BY <3>1, <3>3
    <3>6. amount <= o.size
      BY <1>1, <3>2, <3>4, <3>5
    <3>7. Amount(o, amount) = amount
      BY <1>1, <3>2, <3>6 DEF Amount
    <3>8. Known(o) /\ NoMemory.host = 0
      BY <1>1 DEF MemoryInv, NoMemory
    <3>9. o.alloc # 0
      BY <3>1, <3>8, Zenon DEF Known
    <3>10. hosts[o.host].size = o.size
      BY <1>1, <3>1, <3>9, HandleFacts
    <3>11. misuse' = IF bytes > o.size THEN "copying past the end on the host" ELSE misuse
      BY <3>1, <3>3, <3>7, <3>10
    <3>12. ~(bytes > o.size)
      BY ONLY <1>1, <3>4, <3>5
    <3>13. QED
      BY <1>1, <3>11, <3>12, Zenon
  <2>6. QED
    BY <2>1, <2>3, <2>4, <2>5
<1> HIDE DEF o
<1>5. CASE /\ allocations' = [allocations EXCEPT ![memory[m].alloc].filled = TRUE]
           /\ hosts' = hosts
  BY ONLY MemoryTypeOK, MemoryInv, <1>2, <1>4, <1>5, CopiesKeep, Zenon
<1>6. CASE /\ hosts' = [hosts EXCEPT ![memory[m].host].filled = TRUE]
           /\ allocations' = allocations
  BY ONLY MemoryTypeOK, MemoryInv, <1>2, <1>4, <1>6, CopiesKeep, Zenon
<1>7. QED
  BY <1>3, <1>5, <1>6

(* A new buffer lies inside what it is bound to. *)
LEMMA BindingFacts ==
  ASSUME MemoryTypeOK, MemoryInv, NEW a \in Arrays, NEW r, NEW count \in Units,
         NEW preallocated \in BOOLEAN, NEW was \in BOOLEAN,
         r.alloc \in 0 .. MaxAllocations, r.size \in Units, r.offset \in Units, r.offset <= r.size,
         Binding(a, r, count, preallocated, was)
  PROVE  /\ DOMAIN buffers' = 1 .. Len(buffers) + 1
         /\ \A k \in 1 .. Len(buffers) : buffers'[k] = buffers[k]
         /\ LET e == buffers'[Len(buffers) + 1]
            IN  /\ e.live
                /\ e.alloc = r.alloc \/ e.alloc = 0
                /\ Aligned(count) <= r.size - r.offset => e.alloc = r.alloc
                /\ e.alloc # 0 => e.at + e.requires <= r.size
         /\ \A b \in Arrays : array'[b] = IF b = a THEN Entry(r, count, preallocated, was) ELSE array[b]
         /\ Entry(r, count, preallocated, was).initialized =
              (was \/ Aligned(count) <= r.size - r.offset)
<1>1. /\ buffers' = Append(buffers, Bounded(r, count))
      /\ array' = [array EXCEPT ![a] = Entry(r, count, preallocated, was)]
  BY BindingParts
<1>2. Room(r) = r.size - r.offset /\ r.size \in Nat /\ r.offset \in Nat
  BY RoomLeft, MemoryAssumption DEF Units
<1> DEFINE t == Append(buffers, Bounded(r, count))
           e == t[Len(buffers) + 1]
<1>3. /\ t \in Seq(BufferRecords) /\ Len(t) = Len(buffers) + 1
      /\ DOMAIN t = 1 .. Len(buffers) + 1
      /\ \A k \in 1 .. Len(buffers) : t[k] = buffers[k]
      /\ e.live /\ e.requires = Aligned(count) /\ Aligned(count) \in Nat
      /\ Aligned(count) <= Room(r) => e.alloc = r.alloc /\ e.at = r.offset
      /\ ~(Aligned(count) <= Room(r)) => e.alloc = 0
  BY BoundedFacts
<1> HIDE DEF t, e
<1>4. /\ e.alloc = r.alloc \/ e.alloc = 0
      /\ Aligned(count) <= r.size - r.offset => e.alloc = r.alloc
      /\ e.alloc # 0 => e.at + e.requires <= r.size
  BY <1>2, <1>3
<1>5. \A b \in Arrays : array'[b] = IF b = a THEN Entry(r, count, preallocated, was) ELSE array[b]
  BY <1>1 DEF MemoryTypeOK
<1>6. Entry(r, count, preallocated, was).initialized = (was \/ Aligned(count) <= r.size - r.offset)
  BY <1>2 DEF Entry
<1>7. buffers' = t /\ buffers'[Len(buffers) + 1] = e
  BY <1>1 DEF t, e
<1>8. QED
  BY <1>3, <1>4, <1>5, <1>6, <1>7

(* Arrays refer to buffers that were made. *)
LEMMA ArrayFacts ==
  ASSUME MemoryTypeOK, MemoryInv, NEW a \in Arrays
  PROVE  /\ array[a].buffer = 0 => array[a] = NoArray
         /\ array[a].buffer # 0 => /\ array[a].memory.alloc \in 1 .. Len(allocations)
                                  /\ array[a].buffer \in 1 .. Len(buffers)
         /\ array[a].buffer # 0 /\ ~array[a].preallocated => OwnsAlone(a)
         /\ \A b \in Arrays : array[a].buffer = array[b].buffer => array[a] = array[b]
         /\ array[a].memory \in Handles
<1>1. array[a].memory \in Handles
  BY DEF Handles
<1>2. DOMAIN buffers = 1 .. Len(buffers)
  BY Lengths
<1>3. QED
  BY <1>1, <1>2, HandleFacts DEF MemoryInv, ArraysHold

(* An array that takes what no array with memory of its own has leaves     *)
(* those alone.                                                            *)
LEMMA ArraysTake ==
  ASSUME MemoryTypeOK, MemoryInv, NEW a \in Arrays, array[a] = NoArray,
         NEW e, e.buffer = Len(buffers) + 1, e.memory.alloc # 0,
         \A b \in Arrays : array'[b] = IF b = a THEN e ELSE array[b],
         memory' = memory, DOMAIN buffers' = 1 .. Len(buffers) + 1,
         \A k \in 1 .. Len(buffers) : buffers'[k] = buffers[k],
         buffers'[Len(buffers) + 1].alloc \in {0, e.memory.alloc},
         \A b \in Arrays : array[b].buffer # 0 /\ ~array[b].preallocated =>
                            array[b].memory.alloc # e.memory.alloc,
         ~e.preallocated => OwnsAlone(a)'
  PROVE  ArraysHold'
<1>1. /\ Len(buffers) \in Nat /\ DOMAIN buffers = 1 .. Len(buffers)
  BY Lengths
<1>2. /\ e.buffer # 0 /\ e.buffer \in DOMAIN buffers'
      /\ \A b \in Arrays : array[b].buffer # e.buffer
  BY <1>1, ArrayFacts
<1>3. ASSUME NEW b \in Arrays, b # a, array[b].buffer # 0, ~array[b].preallocated
      PROVE  OwnsAlone(b)'
  <2>1. /\ OwnsAlone(b) /\ array[b].buffer \in 1 .. Len(buffers)
        /\ array[b].memory.alloc # 0 /\ array[b].memory.alloc # e.memory.alloc
    BY <1>3, ArrayFacts
  <2>2. array'[b] = array[b]
    BY <1>3
  <2>3. \A m \in Memories : memory'[m].alloc # array'[b].memory.alloc
    BY <2>1, <2>2 DEF OwnsAlone
  <2>4. \A c \in Arrays : array'[c].memory.alloc = array'[b].memory.alloc => array'[c].buffer = array'[b].buffer
    BY <2>1, <2>2 DEF OwnsAlone
  <2>5. \A k \in DOMAIN buffers' : buffers'[k].alloc = array'[b].memory.alloc => k = array'[b].buffer
    <3>1. \A k \in 1 .. Len(buffers) + 1 : k \in 1 .. Len(buffers) \/ k = Len(buffers) + 1
      BY <1>1
    <3>2. \A k \in 1 .. Len(buffers) : buffers[k].alloc = array[b].memory.alloc => k = array[b].buffer
      BY <1>1, <2>1 DEF OwnsAlone
    <3>3. QED
      BY <2>1, <2>2, <3>1, <3>2
  <2>6. array'[b].initialized => buffers'[array'[b].buffer].alloc = array'[b].memory.alloc
    BY <2>1, <2>2 DEF OwnsAlone
  <2>7. QED
    BY <2>3, <2>4, <2>5, <2>6 DEF OwnsAlone
<1>4. ASSUME NEW b \in Arrays
      PROVE  /\ array'[b].buffer = 0 => array'[b] = NoArray
             /\ array'[b].buffer # 0 => array'[b].memory.alloc # 0 /\ array'[b].buffer \in DOMAIN buffers'
             /\ \A c \in Arrays : array'[b].buffer = array'[c].buffer => array'[b] = array'[c]
  <2>1. array[b].buffer # 0 => array[b].buffer \in DOMAIN buffers'
    BY <1>1, ArrayFacts
  <2>2. QED
    BY <1>2, <2>1, ArrayFacts
<1>5. QED
  BY <1>3, <1>4 DEF ArraysHold

(* Buffers stay inside what grows, and a new one is.                       *)
LEMMA BuffersTake ==
  ASSUME MemoryTypeOK, MemoryInv,
         DOMAIN buffers' = 1 .. Len(buffers) + 1,
         \A k \in 1 .. Len(buffers) : buffers'[k] = buffers[k],
         1 .. Len(allocations) \subseteq DOMAIN allocations',
         \A k \in 1 .. Len(allocations) : allocations'[k] = allocations[k],
         LET e == buffers'[Len(buffers) + 1]
         IN  e.alloc # 0 => /\ e.alloc \in DOMAIN allocations'
                            /\ e.at + e.requires <= allocations'[e.alloc].size
                            /\ allocations'[e.alloc].live
  PROVE  BuffersInside'
<1>1. /\ DOMAIN buffers = 1 .. Len(buffers) /\ DOMAIN allocations = 1 .. Len(allocations)
      /\ Len(buffers) \in Nat
  BY Lengths
<1>2. \A k \in 1 .. Len(buffers) + 1 : k \in 1 .. Len(buffers) \/ k = Len(buffers) + 1
  BY <1>1
<1>3. ASSUME NEW k \in 1 .. Len(buffers), buffers[k].alloc # 0
      PROVE  /\ buffers[k].alloc \in DOMAIN allocations'
             /\ buffers[k].at + buffers[k].requires <= allocations'[buffers[k].alloc].size
             /\ buffers[k].live => allocations'[buffers[k].alloc].live
  BY <1>1, <1>3 DEF MemoryInv, BuffersInside
<1>4. QED
  BY <1>2, <1>3 DEF BuffersInside

LEMMA InvInitializeArray ==
  ASSUME MemoryLiberties = {}, MemoryTypeOK, MemoryInv, NEW a \in Arrays, NEW count \in Sizes,
         NEW filter \in SUBSET DOMAIN Types, NEW hostLocal \in BOOLEAN,
         InitializeArray(a, count, filter, hostLocal)
  PROVE  /\ MemoryInv'
         /\ array[a] = NoArray /\ memory' = memory
         /\ \A b \in Arrays \ {a} : array'[b] = array[b]
         /\ array'[a].memory.alloc = Len(allocations) + 1
         /\ array'[a].buffer = Len(buffers) + 1 /\ buffers'[Len(buffers) + 1].live
         /\ Aligned(count) < Wrap => array'[a].initialized
         /\ DOMAIN allocations' = 1 .. Len(allocations) + 1
         /\ \A k \in 1 .. Len(allocations) : allocations'[k] = allocations[k]
         /\ \A k \in 1 .. Len(buffers) : buffers'[k] = buffers[k]
<1> DEFINE size == Told(count)
           r == Holding(NoMemory, size, hostLocal)
           e == Entry(r, count, FALSE, FALSE)
           new == buffers'[Len(buffers) + 1]
<1>1. /\ Len(allocations) \in Nat /\ Len(hosts) \in Nat /\ Len(buffers) \in Nat
      /\ DOMAIN buffers = 1 .. Len(buffers) /\ DOMAIN allocations = 1 .. Len(allocations)
      /\ MaxAllocations \in Nat
  BY Lengths, MemoryAssumption
<1>2. size \in Units /\ size \in Nat /\ count \in Units /\ Aligned(count) \in Nat
  <2>1. Aligned(count) \in Nat /\ count \in Units
    BY MemoryAssumption DEF Units
  <2>2. QED
    BY <2>1, UnitsMod DEF Told, Units
<1>3. /\ array[a] = NoArray /\ Len(allocations) < MaxAllocations
      /\ allocations' = Allocated(size, filter, hostLocal)
      /\ hosts' = IF hostLocal THEN HostCopy(size) ELSE hosts
      /\ Binding(a, r, count, FALSE, FALSE)
      /\ memory' = memory
  <2>1. array[a] = NoArray
    BY NoLiberty DEF InitializeArray, MayMake
  <2>2. ~array[a].preallocated /\ array[a].memory = NoMemory /\ array[a].initialized = FALSE
    BY <2>1 DEF NoArray
  <2>3. QED
    BY <2>1, <2>2 DEF InitializeArray, MayAllocate
<1>4. r.alloc = Len(allocations) + 1 /\ r.size = size /\ r.offset = 0
  BY DEF Holding, NoMemory
<1>5. r.alloc \in 0 .. MaxAllocations /\ r.size \in Units /\ r.offset \in Units /\ r.offset <= r.size
  BY <1>1, <1>2, <1>3, <1>4, MemoryAssumption DEF Units
<1>6. /\ e.buffer = Len(buffers) + 1 /\ e.memory = r /\ e.preallocated = FALSE
  BY DEF Entry
<1> HIDE DEF r, size
<1>7. misuse' = "none"
  <2>1. r.alloc \notin DOMAIN allocations
    BY <1>1, <1>4
  <2>2. misuse' = misuse
    BY <1>3, <2>1 DEF Binding
  <2>3. QED
    BY <2>2 DEF MemoryInv, Sound
<1>8. /\ DOMAIN buffers' = 1 .. Len(buffers) + 1
      /\ \A k \in 1 .. Len(buffers) : buffers'[k] = buffers[k]
      /\ new.live
      /\ new.alloc = r.alloc \/ new.alloc = 0
      /\ Aligned(count) <= r.size - r.offset => new.alloc = r.alloc
      /\ new.alloc # 0 => new.at + new.requires <= r.size
      /\ \A b \in Arrays : array'[b] = IF b = a THEN e ELSE array[b]
      /\ e.initialized = (Aligned(count) <= r.size - r.offset)
  <2>1. PICK no \in BOOLEAN : no = FALSE
    OBVIOUS
  <2>2. Binding(a, r, count, no, no) /\ e = Entry(r, count, no, no)
    BY <1>3, <2>1
  <2> HIDE DEF e
  <2>3. DOMAIN buffers' = 1 .. Len(buffers) + 1
    BY <1>2, <1>5, <2>2, BindingFacts
  <2>4. \A k \in 1 .. Len(buffers) : buffers'[k] = buffers[k]
    BY <1>2, <1>5, <2>2, BindingFacts
  <2>5. new.live
    BY <1>2, <1>5, <2>2, BindingFacts
  <2>6. new.alloc = r.alloc \/ new.alloc = 0
    BY <1>2, <1>5, <2>2, BindingFacts
  <2>7. Aligned(count) <= r.size - r.offset => new.alloc = r.alloc
    BY <1>2, <1>5, <2>2, BindingFacts
  <2>8. new.alloc # 0 => new.at + new.requires <= r.size
    BY <1>2, <1>5, <2>2, BindingFacts
  <2>9. /\ \A b \in Arrays : array'[b] = IF b = a THEN e ELSE array[b]
        /\ e.initialized = (no \/ Aligned(count) <= r.size - r.offset)
    BY <1>2, <1>5, <2>2, BindingFacts
  <2>10. QED
    BY <2>1, <2>3, <2>4, <2>5, <2>6, <2>7, <2>8, <2>9
<1> HIDE DEF e, new
<1>9. Handles' \subseteq Handles \union {r}
  BY <1>3, <1>6, <1>8 DEF Handles
<1>10. /\ DOMAIN allocations' = 1 .. Len(allocations) + 1
       /\ \A k \in 1 .. Len(allocations) : allocations'[k] = allocations[k]
       /\ allocations'[r.alloc].size = size /\ allocations'[r.alloc].live
  <2>1. r = Holding(NoMemory, size, hostLocal)
    BY DEF r
  <2>2. QED
    BY <1>2, <1>3, <1>9, <2>1, Grown, ZenonT(30)
<1>11. \A q \in Handles' : Known(q)'
  <2>1. r = Holding(NoMemory, size, hostLocal)
    BY DEF r
  <2>2. QED
    BY <1>2, <1>3, <1>9, <2>1, Grown
<1>12. Paired'
  <2>1. r = Holding(NoMemory, size, hostLocal)
    BY DEF r
  <2>2. QED
    BY <1>2, <1>3, <1>9, <2>1, Grown
<1>13. \A q \in Handles : q.alloc # r.alloc
  BY <1>1, <1>4, HandleFacts
<1>14. \A k \in 1 .. Len(buffers) : buffers[k].alloc # r.alloc
  BY <1>1, <1>4 DEF MemoryInv, BuffersInside
<1>15. OwnsAlone(a)'
  <2>1. array'[a] = e
    BY <1>8
  <2>2. \A m \in Memories : memory'[m].alloc # e.memory.alloc
    BY <1>3, <1>6, <1>13 DEF Handles
  <2>3. \A b \in Arrays : array'[b].memory.alloc = e.memory.alloc => array'[b].buffer = e.buffer
    BY <1>6, <1>8, <1>13 DEF Handles
  <2>4. \A k \in DOMAIN buffers' : buffers'[k].alloc = e.memory.alloc => k = e.buffer
    BY <1>1, <1>6, <1>8, <1>14
  <2>5. e.initialized => buffers'[e.buffer].alloc = e.memory.alloc
    BY <1>6, <1>8 DEF new
  <2>6. QED
    BY <2>1, <2>2, <2>3, <2>4, <2>5 DEF OwnsAlone
<1>16. ArraysHold'
  <2>1. \A b \in Arrays : array[b].memory.alloc # e.memory.alloc
    BY <1>6, <1>13 DEF Handles
  <2>2. e.memory.alloc # 0 /\ new.alloc \in {0, e.memory.alloc}
    BY <1>1, <1>4, <1>6, <1>8
  <2>3. QED
    BY <1>3, <1>6, <1>8, <1>15, <2>1, <2>2, ArraysTake DEF new
<1>17. BuffersInside'
  <2>1. 1 .. Len(allocations) \subseteq DOMAIN allocations' /\ r.alloc \in DOMAIN allocations'
    BY <1>1, <1>4, <1>10
  <2>2. new.alloc # 0 => /\ new.alloc \in DOMAIN allocations'
                         /\ new.at + new.requires <= allocations'[new.alloc].size
                         /\ allocations'[new.alloc].live
    BY <1>4, <1>8, <1>10, <2>1
  <2>3. QED
    BY <1>8, <1>10, <2>1, <2>2, BuffersTake DEF new
<1>18. Aligned(count) < Wrap => e.initialized
  <2>1. ASSUME Aligned(count) < Wrap
        PROVE  Aligned(count) <= r.size - r.offset
    <3>1. Aligned(count) \in 0 .. Wrap - 1
      BY <1>2, <2>1, MemoryAssumption
    <3>2. size = Aligned(count)
      BY <3>1, ModOfSum, MemoryAssumption DEF Told, size
    <3>3. QED
      BY <1>2, <1>4, <3>2
  <2>2. QED
    BY <1>8, <2>1
<1>19. array'[a] = e
  BY <1>8
<1>20. MemoryInv'
  BY <1>7, <1>11, <1>12, <1>16, <1>17 DEF MemoryInv, Sound
<1>21. QED
  BY <1>3, <1>4, <1>6, <1>8, <1>10, <1>18, <1>19, <1>20 DEF new

LEMMA InvInitializeArrayIn ==
  ASSUME MemoryLiberties = {}, MemoryTypeOK, MemoryInv, NEW a \in Arrays, NEW m \in Memories,
         NEW count \in {0} \union Sizes, InitializeArrayIn(a, m, count)
  PROVE  /\ MemoryInv'
         /\ array[a] = NoArray /\ UNCHANGED <<allocations, memory>>
         /\ \A b \in Arrays \ {a} : array'[b] = array[b]
         /\ \A k \in 1 .. Len(buffers) : buffers'[k] = buffers[k]
<1> DEFINE r == memory[m]
           elements == IF count = 0 THEN r.size ELSE count
           was == array[a].initialized
           e == Entry(r, elements, TRUE, was)
           new == buffers'[Len(buffers) + 1]
<1>1. /\ Len(allocations) \in Nat /\ Len(buffers) \in Nat
      /\ DOMAIN buffers = 1 .. Len(buffers) /\ DOMAIN allocations = 1 .. Len(allocations)
  BY Lengths
<1>2. /\ r \in Handles /\ r \in MemoryRecords /\ was \in BOOLEAN
  BY HandleTypes DEF Handles, MemoryTypeOK, ArrayRecords
<1>3. /\ array[a] = NoArray /\ r.alloc # 0 /\ allocations[r.alloc].live
      /\ UNCHANGED <<allocations, hosts, memory>>
      /\ Binding(a, r, elements, TRUE, was)
  BY NoLiberty DEF InitializeArrayIn, MayMake
<1>4. elements \in Units
  <2>1. r.size \in Units /\ Sizes \subseteq Units
    BY <1>2, MemoryAssumption DEF MemoryRecords, Units
  <2>2. QED
    BY <2>1
<1> HIDE DEF r, elements, was
<1>5. /\ r.alloc \in 1 .. Len(allocations) /\ r.size = allocations[r.alloc].size
      /\ r.alloc \in 0 .. MaxAllocations
      /\ r.size \in Units /\ r.offset \in Units /\ r.offset <= r.size
  BY <1>2, <1>3, HandleFacts DEF MemoryRecords
<1>6. e.buffer = Len(buffers) + 1 /\ e.memory = r /\ e.preallocated = TRUE
  BY DEF Entry
<1>7. misuse' = "none"
  <2>1. misuse' = misuse
    BY <1>3 DEF Binding, Live
  <2>2. QED
    BY <2>1 DEF MemoryInv, Sound
<1>8. PICK yes \in BOOLEAN, before \in BOOLEAN, size \in Units, it \in MemoryRecords :
             yes = TRUE /\ before = was /\ size = elements /\ it = r
  BY <1>2, <1>4
<1> HIDE DEF e
<1>9. Binding(a, it, size, yes, before) /\ e = Entry(it, size, yes, before)
  BY <1>3, <1>8 DEF e
<1>10. /\ it.alloc \in 0 .. MaxAllocations
       /\ it.size \in Units /\ it.offset \in Units /\ it.offset <= it.size
  BY <1>5, <1>8
<1>11. /\ buffers' = Append(buffers, Bounded(it, size))
        /\ array' = [array EXCEPT ![a] = Entry(it, size, yes, before)]
  BY <1>9, BindingParts
<1>12. new.alloc = it.alloc \/ new.alloc = 0
  BY <1>10, <1>11, BoundedFacts
<1>13. new.alloc # 0 => new.at + new.requires <= it.size
  <2>1. Room(it) = it.size - it.offset /\ it.size \in Nat /\ it.offset \in Nat
    BY <1>10, RoomLeft, MemoryAssumption DEF Units
  <2>2. /\ Aligned(size) <= Room(it) => new.at = it.offset
        /\ ~(Aligned(size) <= Room(it)) => new.alloc = 0
        /\ new.requires = Aligned(size) /\ Aligned(size) \in Nat
    BY <1>10, <1>11, BoundedFacts
  <2>3. QED
    BY <2>1, <2>2
<1>14. DOMAIN buffers' = 1 .. Len(buffers) + 1
  BY <1>9, <1>10, BindingFacts
<1>15. \A k \in 1 .. Len(buffers) : buffers'[k] = buffers[k]
  BY <1>9, <1>10, BindingFacts
<1>16. new.alloc = r.alloc \/ new.alloc = 0
  BY <1>8, <1>12
<1>17. new.alloc # 0 => new.at + new.requires <= r.size
  BY <1>8, <1>13
<1>18. \A b \in Arrays : array'[b] = IF b = a THEN e ELSE array[b]
  BY <1>9, <1>11 DEF MemoryTypeOK
<1> HIDE DEF new
<1>19. Handles' \subseteq Handles
  BY <1>2, <1>3, <1>6, <1>18 DEF Handles
<1>20. \A q \in Handles' : Known(q)'
  BY <1>3, <1>19 DEF MemoryInv, Known
<1>21. Paired'
  BY <1>19 DEF MemoryInv, Paired
<1>22. ArraysHold'
  <2>1. ASSUME NEW b \in Arrays, array[b].buffer # 0, ~array[b].preallocated
        PROVE  array[b].memory.alloc # e.memory.alloc
    <3>1. memory[m].alloc # array[b].memory.alloc
      BY <2>1, ArrayFacts DEF OwnsAlone
    <3>2. QED
      BY <1>6, <3>1 DEF r
  <2>2. e.memory.alloc # 0 /\ new.alloc \in {0, e.memory.alloc}
    BY <1>3, <1>6, <1>16
  <2>3. QED
    BY <1>3, <1>6, <1>14, <1>15, <1>18, <2>1, <2>2, ArraysTake DEF new
<1>23. BuffersInside'
  <2>1. /\ 1 .. Len(allocations) \subseteq DOMAIN allocations'
        /\ \A k \in 1 .. Len(allocations) : allocations'[k] = allocations[k]
    BY <1>1, <1>3
  <2>2. new.alloc # 0 => /\ new.alloc \in DOMAIN allocations'
                         /\ new.at + new.requires <= allocations'[new.alloc].size
                         /\ allocations'[new.alloc].live
    BY <1>3, <1>5, <1>16, <1>17, <2>1
  <2>3. QED
    BY <1>14, <1>15, <2>1, <2>2, BuffersTake DEF new
<1>24. MemoryInv'
  BY <1>7, <1>20, <1>21, <1>22, <1>23 DEF MemoryInv, Sound
<1>25. QED
  BY <1>3, <1>15, <1>18, <1>24

LEMMA InvAssignArray ==
  ASSUME MemoryLiberties = {}, MemoryTypeOK, MemoryInv, NEW a \in Arrays, NEW from \in Arrays,
         AssignArray(a, from)
  PROVE  /\ MemoryInv'
         /\ array[a] = NoArray /\ UNCHANGED <<allocations, buffers, memory>>
         /\ \A b \in Arrays \ {a} : array'[b] = array[b]
<1>1. /\ array[a] = NoArray /\ array[from].buffer # 0
      /\ array' = [array EXCEPT ![a] = array[from]]
      /\ UNCHANGED <<allocations, hosts, memory, buffers, misuse>>
  BY NoLiberty DEF AssignArray
<1>2. \A b \in Arrays : array'[b] = IF b = a THEN array[from] ELSE array[b]
  BY <1>1 DEF MemoryTypeOK
<1>3. Handles' \subseteq Handles
  BY <1>1, <1>2 DEF Handles
<1>4. \A q \in Handles' : Known(q)'
  BY <1>1, <1>3 DEF MemoryInv, Known
<1>5. Paired'
  BY <1>3 DEF MemoryInv, Paired
<1>6. ArraysHold'
  <2>1. ASSUME NEW b \in Arrays, NEW c \in Arrays, array'[b] = array[c], OwnsAlone(c)
        PROVE  OwnsAlone(b)'
    <3>1. \A d \in Arrays : \E z \in Arrays : array'[d] = array[z]
      BY <1>2
    <3>2. QED
      BY <1>1, <2>1, <3>1 DEF OwnsAlone
  <2>2. \A b \in Arrays : \E c \in Arrays : array'[b] = array[c]
    BY <1>2
  <2>3. QED
    BY <1>1, <2>1, <2>2 DEF MemoryInv, ArraysHold
<1>7. QED
  BY <1>1, <1>2, <1>4, <1>5, <1>6 DEF MemoryInv, BuffersInside, Sound

LEMMA InvResetArray ==
  ASSUME MemoryLiberties = {}, MemoryTypeOK, MemoryInv, NEW a \in Arrays, ResetArray(a)
  PROVE  /\ MemoryInv' /\ UNCHANGED <<memory, array>>
         /\ array[a].buffer \in 1 .. Len(buffers)
         /\ DOMAIN allocations' = 1 .. Len(allocations)
         /\ \A k \in 1 .. Len(allocations) : allocations'[k].live => allocations[k].live
         /\ GivesBack(array[a]) => ~allocations'[array[a].memory.alloc].live
         /\ \A k \in 1 .. Len(buffers) : k # array[a].buffer => buffers'[k] = buffers[k]
<1> DEFINE o == array[a]
           n == o.memory.alloc
<1>1. /\ o.buffer # 0 /\ buffers[o.buffer].live
      /\ UNCHANGED <<memory, array>>
      /\ \/ GivesBack(o) /\ Deallocating(o.memory)
         \/ ~GivesBack(o) /\ UNCHANGED <<allocations, hosts, misuse>>
  BY NoLiberty DEF ResetArray
<1>2. /\ n \in 1 .. Len(allocations) /\ o.buffer \in 1 .. Len(buffers) /\ o.memory \in Handles
      /\ ~o.preallocated => OwnsAlone(a)
  BY <1>1, ArrayFacts
<1>3. Handles' = Handles
  BY <1>1 DEF Handles
<1>4. /\ DOMAIN buffers = 1 .. Len(buffers) /\ buffers \in Seq(BufferRecords)
      /\ \A k \in 1 .. Len(buffers) : buffers[k] \in BufferRecords
      /\ DOMAIN allocations = 1 .. Len(allocations) /\ Len(allocations) \in Nat
  BY Lengths DEF MemoryTypeOK
<1>5. /\ DOMAIN buffers' = 1 .. Len(buffers)
      /\ \A k \in 1 .. Len(buffers) : buffers'[k].alloc = buffers[k].alloc
      /\ \A k \in 1 .. Len(buffers) : buffers'[k].at = buffers[k].at
      /\ \A k \in 1 .. Len(buffers) : buffers'[k].requires = buffers[k].requires
      /\ \A k \in 1 .. Len(buffers) : buffers'[k].live => buffers[k].live /\ k # o.buffer
      /\ \A k \in 1 .. Len(buffers) : k # o.buffer => buffers'[k] = buffers[k]
  <2> DEFINE j == o.buffer
             t == [buffers EXCEPT ![j].live = FALSE]
  <2>1. /\ t \in Seq(BufferRecords) /\ Len(t) = Len(buffers)
        /\ \A k \in 1 .. Len(buffers) :
             t[k] = IF k = j THEN [buffers[k] EXCEPT !.live = FALSE] ELSE buffers[k]
    BY ONLY <1>4, BufferGone
  <2>2. buffers' = t
    BY DEF ResetArray
  <2> HIDE DEF t, j
  <2>3. DOMAIN t = 1 .. Len(buffers)
    BY ONLY <2>1, LenProperties
  <2>4. \A k \in 1 .. Len(buffers) : /\ t[k].alloc = buffers[k].alloc
                                     /\ t[k].at = buffers[k].at
                                     /\ t[k].requires = buffers[k].requires
                                     /\ t[k].live => buffers[k].live /\ k # j
                                     /\ k # j => t[k] = buffers[k]
    BY ONLY <1>4, <2>1 DEF BufferRecords
  <2>5. QED
    BY <2>2, <2>3, <2>4 DEF j
<1> HIDE DEF o, n
<1>6. ArraysHold'
  <2>1. \A b \in Arrays : OwnsAlone(b) /\ array[b].buffer \in 1 .. Len(buffers) => OwnsAlone(b)'
    BY <1>1, <1>4, <1>5 DEF OwnsAlone
  <2>2. QED
    BY <1>1, <1>4, <1>5, <2>1 DEF MemoryInv, ArraysHold
<1>7. CASE GivesBack(o) /\ Deallocating(o.memory)
  <2>1. ~o.preallocated /\ o.initialized
    BY <1>7 DEF GivesBack
  <2>2. buffers[o.buffer].alloc = n /\ \A k \in 1 .. Len(buffers) : buffers[k].alloc = n => k = o.buffer
    BY <1>2, <1>4, <2>1 DEF OwnsAlone, o, n
  <2>3. n # 0 /\ allocations[n].live
    BY <1>1, <1>2, <1>4, <2>2 DEF MemoryInv, BuffersInside
  <2>4. Live(o.memory.alloc)
    BY <2>3 DEF Live, n
  <2>5. misuse' = misuse
    BY <1>2, <1>3, <1>7, <2>4, Returned
  <2>6. /\ DOMAIN allocations' = 1 .. Len(allocations)
        /\ \A k \in 1 .. Len(allocations) :
             /\ allocations'[k].size = allocations[k].size
             /\ allocations'[k].live = IF k = n THEN FALSE ELSE allocations[k].live
    BY <1>2, <1>3, <1>7, <2>4, Returned DEF n
  <2>7. Paired' /\ \A q \in Handles' : Known(q)'
    BY <1>2, <1>3, <1>7, <2>4, Returned
  <2>8. BuffersInside'
    <3>1. \A k \in 1 .. Len(buffers) : buffers'[k].live => buffers[k].live /\ buffers[k].alloc # n
      BY <1>5, <2>2
    <3>2. QED
      BY <1>4, <1>5, <2>6, <3>1, ZenonT(30) DEF MemoryInv, BuffersInside
  <2>9. MemoryInv'
    BY <1>6, <2>5, <2>7, <2>8 DEF MemoryInv, Sound
  <2>10. /\ \A k \in 1 .. Len(allocations) : allocations'[k].live => allocations[k].live
         /\ ~allocations'[n].live
    BY <1>2, <2>6
  <2>11. QED
    BY <1>1, <1>2, <1>5, <2>6, <2>9, <2>10 DEF o, n
<1>8. CASE ~GivesBack(o) /\ UNCHANGED <<allocations, hosts, misuse>>
  <2>1. Paired' /\ \A q \in Handles' : Known(q)'
    BY <1>3, <1>8 DEF MemoryInv, Paired, Known
  <2>2. BuffersInside'
    BY <1>4, <1>5, <1>8 DEF MemoryInv, BuffersInside
  <2>3. MemoryInv'
    BY <1>6, <1>8, <2>1, <2>2 DEF MemoryInv, Sound
  <2>4. QED
    BY <1>1, <1>2, <1>4, <1>5, <1>8, <2>3 DEF o
<1>9. QED
  BY <1>1, <1>7, <1>8 DEF o

LEMMA InvStep ==
  ASSUME MemoryLiberties = {}, MemoryTypeOK, MemoryInv, [MemoryNext]_memoryVars
  PROVE  MemoryInv'
<1>1. ASSUME UNCHANGED <<allocations, hosts, memory, buffers, array, misuse>>
      PROVE  MemoryInv'
  <2>1. misuse = "none"
    BY DEF MemoryInv, Sound
  <2>2. QED
    BY <1>1, <2>1, SameShape
<1>2. CASE Prepare
  BY <1>1, <1>2 DEF Prepare
<1>3. ASSUME NEW m \in Memories, OnMemory(m)
      PROVE  MemoryInv'
  <2>1. ASSUME NEW size \in Sizes, NEW kind \in Asked, InitializeMemory(m, size, kind[1], kind[2])
        PROVE  MemoryInv'
    <3>1. kind[1] \in BOOLEAN /\ kind[2] \in BOOLEAN
      BY MemoryAssumption
    <3>2. QED
      BY <2>1, <3>1, InvInitializeMemory
  <2>2. ASSUME NEW from \in Memories, NEW offset \in Offsets, AssignMemory(m, from, offset)
        PROVE  MemoryInv'
    BY <2>2, InvAssignMemory
  <2>3. QED
    BY <1>3, <2>1, <2>2, InvDeallocate, InvCopying DEF OnMemory
<1>4. ASSUME NEW a \in Arrays, OnArray(a)
      PROVE  MemoryInv'
  <2>1. \A filter \in Filters : filter \in SUBSET DOMAIN Types
    BY DEF Filters
  <2>2. QED
    BY <1>4, <2>1, InvInitializeArray, InvInitializeArrayIn, InvAssignArray, InvResetArray
       DEF OnArray
<1>5. CASE UNCHANGED memoryVars
  BY <1>1, <1>5 DEF memoryVars
<1>6. QED
  BY <1>2, <1>3, <1>4, <1>5 DEF MemoryNext

(* A program without liberties keeps its handles, copies on the host and   *)
(* buffers in step with what is allocated.                                 *)
THEOREM DisciplinedMemory ==
  ASSUME MemoryLiberties = {}
  PROVE  MemorySpec => []MemoryInv
BY InvInit, InvStep, MemoryType, PTL DEF MemorySpec

(* The test at the end of Buffer::initialize keeps every buffer inside its *)
(* memory, and that memory is there as long as the buffer is.              *)
THEOREM DisciplinedInside ==
  ASSUME MemoryLiberties = {}
  PROVE  MemorySpec => []BoundInside
<1>1. MemoryInv => BoundInside
  BY DEF MemoryInv, BuffersInside, BoundInside
<1>2. QED
  BY <1>1, DisciplinedMemory, PTL

-----------------------------------------------------------------------------
(* Nothing is lost, when the driver's sizes fit the unsigned they are told *)
(* to Memory::initialize in.                                               *)

Fitting == \A s \in Sizes : Aligned(s) < Wrap

(* What holds the allocation n. *)
Held(n) ==
  \/ \E m \in Memories : memory[m].alloc = n
  \/ \E a \in Arrays : /\ array[a].memory.alloc = n
                       /\ array[a].preallocated \/ (array[a].initialized /\ buffers[array[a].buffer].live)

LEMMA HeldIs == MemoryTypeOK /\ MemoryInv =>
  (NothingLost <=> \A n \in 1 .. Len(allocations) : allocations[n].live => Held(n))
BY Lengths DEF NothingLost, Held, MemoryInv

(* An object set to something else was not the last to hold what it had.   *)
LEMMA AnotherHolds ==
  ASSUME MemoryLiberties = {}, MemoryTypeOK, MemoryInv, NEW m \in Memories,
         MayDrop(m), Live(memory[m].alloc)
  PROVE  \/ \E k \in Memories \ {m} : memory[k].alloc = memory[m].alloc
         \/ \E a \in Arrays : array[a].memory.alloc = memory[m].alloc /\ array[a].preallocated
<1> DEFINE n == memory[m].alloc
           H == Holders(n)
<1>1. Cardinality(H) > 1
  BY NoLiberty DEF MayDrop
<1>2. H # {m}
  <2>1. Cardinality({m}) = 1
    BY FS_Singleton
  <2>2. QED
    BY <1>1, <2>1
<1>3. m \in H
  BY DEF Holders
<1>4. PICK x \in H : x # m
  BY <1>2, <1>3
<1>5. ASSUME NEW a \in Arrays, array[a].memory.alloc = n
      PROVE  array[a].preallocated
  <2>1. n # 0
    BY DEF Live
  <2>2. NoArray.memory.alloc = 0
    BY DEF NoArray, NoMemory
  <2>3. array[a].buffer # 0
    BY <1>5, <2>1, <2>2, ArrayFacts
  <2>4. ~array[a].preallocated => memory[m].alloc # array[a].memory.alloc
    BY <2>3, ArrayFacts DEF OwnsAlone
  <2>5. QED
    BY <1>5, <2>4
<1>6. \/ x \in Memories /\ memory[x].alloc = n
      \/ x \in Arrays /\ array[x].memory.alloc = n
  BY <1>4 DEF Holders
<1>7. QED
  BY <1>4, <1>5, <1>6

LEMMA HeldStep ==
  ASSUME MemoryLiberties = {}, Fitting, MemoryTypeOK, MemoryInv, MemoryTypeOK', MemoryInv',
         NothingLost, [MemoryNext]_memoryVars
  PROVE  NothingLost'
<1>1. /\ \A n \in 1 .. Len(allocations) : allocations[n].live => Held(n)
      /\ Len(allocations) \in Nat /\ Len(allocations') \in Nat
      /\ DOMAIN allocations' = 1 .. Len(allocations')
      /\ DOMAIN allocations = 1 .. Len(allocations)
  <2>1. Len(allocations') \in Nat /\ DOMAIN allocations' = 1 .. Len(allocations')
    BY LenProperties DEF MemoryTypeOK
  <2>2. QED
    BY <2>1, HeldIs, Lengths
<1>2. SUFFICES ASSUME NEW n \in DOMAIN allocations', allocations'[n].live
               PROVE  Held(n)'
  BY DEF NothingLost, Held
<1>3. n # 0
  BY <1>1
<1>4. ASSUME NEW a \in Arrays, array[a].memory.alloc = n
      PROVE  array[a] # NoArray /\ array[a].buffer \in 1 .. Len(buffers)
  <2>1. NoArray.memory.alloc = 0
    BY DEF NoArray, NoMemory
  <2>2. QED
    BY <1>3, <1>4, <2>1, ArrayFacts
<1>5. ASSUME n \in 1 .. Len(allocations), allocations[n].live,
             UNCHANGED <<memory, array, buffers>>
      PROVE  Held(n)'
  BY <1>1, <1>5 DEF Held
<1>6. ASSUME NEW z \in Arrays, n \in 1 .. Len(allocations), allocations[n].live,
             memory' = memory, array[z] = NoArray,
             \A b \in Arrays \ {z} : array'[b] = array[b],
             \A k \in 1 .. Len(buffers) : buffers'[k] = buffers[k]
      PROVE  Held(n)'
  <2>1. ASSUME NEW a \in Arrays, array[a].memory.alloc = n
        PROVE  array'[a] = array[a] /\ buffers'[array[a].buffer] = buffers[array[a].buffer]
    BY <1>4, <1>6, <2>1
  <2>2. QED
    BY <1>1, <1>6, <2>1 DEF Held
<1>7. CASE Prepare
  BY <1>1, <1>2, <1>5, <1>7 DEF Prepare
<1>8. ASSUME NEW m \in Memories, OnMemory(m)
      PROVE  Held(n)'
  <2>1. memory \in [Memories -> MemoryRecords]
    BY DEF MemoryTypeOK
  <2>2. ASSUME NEW size \in Sizes, NEW kind \in Asked, InitializeMemory(m, size, kind[1], kind[2])
        PROVE  Held(n)'
    <3>1. /\ memory[m] = NoMemory /\ UNCHANGED <<array, buffers>>
          /\ allocations' = Allocated(size, DOMAIN Types, kind[1])
          /\ memory' = [memory EXCEPT ![m] = Holding(memory[m], size, kind[2])]
      BY <2>2, NoLiberty DEF InitializeMemory
    <3>2. /\ DOMAIN allocations' = 1 .. Len(allocations) + 1
          /\ \A k \in 1 .. Len(allocations) : allocations'[k] = allocations[k]
      <4>1. kind[1] \in BOOLEAN /\ size \in Nat /\ DOMAIN Types \in SUBSET DOMAIN Types
        BY MemoryAssumption
      <4>2. allocations \in Seq(AllocRecords)
        BY DEF MemoryTypeOK
      <4>3. QED
        BY <3>1, <4>1, <4>2, AllocatedFacts
    <3>3. memory'[m].alloc = Len(allocations) + 1 /\ \A k \in Memories \ {m} : memory'[k] = memory[k]
      BY <2>1, <3>1 DEF Holding
    <3>4. CASE n = Len(allocations) + 1
      BY <3>3, <3>4 DEF Held
    <3>5. CASE n \in 1 .. Len(allocations)
      <4>1. Held(n) /\ memory[m].alloc # n
        BY <1>1, <1>2, <1>3, <3>1, <3>2, <3>5 DEF NoMemory
      <4>2. QED
        BY <3>1, <3>3, <4>1 DEF Held
    <3>6. QED
      BY <1>1, <1>2, <3>2, <3>4, <3>5
  <2>3. ASSUME NEW from \in Memories, NEW offset \in Offsets, AssignMemory(m, from, offset)
        PROVE  Held(n)'
    <3>1. /\ MayDrop(m) /\ UNCHANGED <<allocations, array, buffers>>
          /\ memory' = [memory EXCEPT ![m] = At(from, offset)]
      BY <2>3 DEF AssignMemory
    <3>2. \A k \in Memories \ {m} : memory'[k] = memory[k]
      BY <2>1, <3>1
    <3>3. Held(n)
      BY <1>1, <1>2, <3>1
    <3>4. CASE memory[m].alloc = n
      <4>1. Live(memory[m].alloc)
        BY <1>2, <1>3, <3>1, <3>4 DEF Live
      <4>2. \/ \E k \in Memories \ {m} : memory[k].alloc = n
            \/ \E a \in Arrays : array[a].memory.alloc = n /\ array[a].preallocated
        BY <3>1, <3>4, <4>1, AnotherHolds
      <4>3. QED
        BY <3>1, <3>2, <4>2 DEF Held
    <3>5. CASE memory[m].alloc # n
      BY <3>1, <3>2, <3>3, <3>5 DEF Held
    <3>6. QED
      BY <3>4, <3>5
  <2>4. CASE Deallocate(m)
    <3>1. /\ Live(memory[m].alloc) /\ Deallocating(memory[m])
          /\ UNCHANGED <<memory, buffers, array>>
      BY <2>4, NoLiberty DEF Deallocate, MayGiveBack
    <3>2. memory[m] \in Handles /\ Handles' = Handles
      BY <3>1 DEF Handles
    <3>3. /\ DOMAIN allocations' = 1 .. Len(allocations)
          /\ \A k \in 1 .. Len(allocations) :
               /\ allocations'[k].size = allocations[k].size
               /\ allocations'[k].live = IF k = memory[m].alloc THEN FALSE ELSE allocations[k].live
      BY <3>1, <3>2, Returned
    <3>4. n \in 1 .. Len(allocations) /\ allocations[n].live
      BY <1>2, <3>3
    <3>5. QED
      BY <1>5, <3>1, <3>4
  <2>5. CASE \/ \E amount \in Sizes, at \in Offsets : CopyToDevice(m, amount, at)
             \/ \E amount \in Sizes, element \in Elements : CopyToHost(m, amount, element)
             \/ SyncToDevice(m) \/ SyncToHost(m)
    <3>1. UNCHANGED <<memory, buffers, array>>
      BY <2>5 DEF CopyToDevice, CopyToHost, SyncToDevice, SyncToHost
    <3>2. \/ allocations' = allocations
          \/ allocations' = [allocations EXCEPT ![memory[m].alloc].filled = TRUE]
      BY <2>5, Zenon DEF CopyToDevice, CopyToHost, SyncToDevice, SyncToHost
    <3>3. n \in 1 .. Len(allocations) /\ allocations[n].live
      <4>1. CASE allocations' = allocations
        BY <1>1, <1>2, <4>1
      <4>2. CASE allocations' = [allocations EXCEPT ![memory[m].alloc].filled = TRUE]
        <5> DEFINE j == memory[m].alloc
                   t == [allocations EXCEPT ![j].filled = TRUE]
        <5> HIDE DEF j
        <5>1. /\ allocations \in Seq(AllocRecords)
              /\ \A k \in 1 .. Len(allocations) : allocations[k] \in AllocRecords
          BY Lengths DEF MemoryTypeOK
        <5>2. /\ t \in Seq(AllocRecords) /\ Len(t) = Len(allocations)
              /\ \A k \in 1 .. Len(allocations) :
                   t[k] = IF k = j THEN [allocations[k] EXCEPT !.filled = TRUE] ELSE allocations[k]
          BY ONLY <5>1, Written
        <5>3. allocations' = t
          BY <4>2 DEF j
        <5> HIDE DEF t
        <5>4. DOMAIN t = 1 .. Len(allocations)
          BY ONLY <5>2, LenProperties
        <5>5. \A k \in 1 .. Len(allocations) : t[k].live => allocations[k].live
          BY ONLY <5>1, <5>2 DEF AllocRecords
        <5>6. QED
          BY <1>2, <5>3, <5>4, <5>5
      <4>3. QED
        BY <3>2, <4>1, <4>2
    <3>4. QED
      BY <1>5, <3>1, <3>3
  <2>6. QED
    BY <1>8, <2>2, <2>3, <2>4, <2>5 DEF OnMemory
<1>9. ASSUME NEW a \in Arrays, OnArray(a)
      PROVE  Held(n)'
  <2>1. ASSUME NEW count \in Sizes, NEW filter \in Filters, NEW hostLocal \in BOOLEAN,
               InitializeArray(a, count, filter, hostLocal)
        PROVE  Held(n)'
    <3>1. filter \in SUBSET DOMAIN Types /\ Aligned(count) < Wrap
      BY DEF Filters, Fitting
    <3>2. /\ array[a] = NoArray /\ memory' = memory
          /\ \A b \in Arrays \ {a} : array'[b] = array[b]
          /\ array'[a].memory.alloc = Len(allocations) + 1
          /\ array'[a].buffer = Len(buffers) + 1 /\ buffers'[Len(buffers) + 1].live
          /\ array'[a].initialized
          /\ DOMAIN allocations' = 1 .. Len(allocations) + 1
          /\ \A k \in 1 .. Len(allocations) : allocations'[k] = allocations[k]
          /\ \A k \in 1 .. Len(buffers) : buffers'[k] = buffers[k]
      BY <2>1, <3>1, InvInitializeArray, ZenonT(30)
    <3>3. CASE n = Len(allocations) + 1
      BY <3>2, <3>3 DEF Held
    <3>4. CASE n \in 1 .. Len(allocations)
      BY <1>2, <1>6, <3>2, <3>4
    <3>5. QED
      BY <1>1, <1>2, <3>2, <3>3, <3>4
  <2>2. ASSUME NEW m \in Memories, NEW count \in {0} \union Sizes, InitializeArrayIn(a, m, count)
        PROVE  Held(n)'
    BY <1>1, <1>2, <1>6, <2>2, InvInitializeArrayIn
  <2>3. ASSUME NEW from \in Arrays, AssignArray(a, from)
        PROVE  Held(n)'
    BY <1>1, <1>2, <1>6, <2>3, InvAssignArray
  <2>4. CASE ResetArray(a)
    <3>1. /\ UNCHANGED <<memory, array>>
          /\ DOMAIN allocations' = 1 .. Len(allocations)
          /\ \A k \in 1 .. Len(allocations) : allocations'[k].live => allocations[k].live
          /\ GivesBack(array[a]) => ~allocations'[array[a].memory.alloc].live
          /\ \A k \in 1 .. Len(buffers) : k # array[a].buffer => buffers'[k] = buffers[k]
      BY <2>4, InvResetArray
    <3>2. Held(n)
      BY <1>1, <1>2, <3>1
    <3>3. ASSUME NEW b \in Arrays, array[b].memory.alloc = n,
                 ~array[b].preallocated, array[b].initialized
          PROVE  array[b].buffer # array[a].buffer
      <4>1. CASE array[b] = array[a]
        BY <1>2, <3>1, <3>3, <4>1 DEF GivesBack
      <4>2. QED
        BY <4>1, ArrayFacts
    <3>4. \A b \in Arrays :
            /\ array[b].memory.alloc = n
            /\ array[b].preallocated \/ (array[b].initialized /\ buffers[array[b].buffer].live)
            => array[b].preallocated \/ (array[b].initialized /\ buffers'[array[b].buffer].live)
      BY <1>4, <3>1, <3>3
    <3>5. QED
      BY <3>1, <3>2, <3>4 DEF Held
  <2>5. QED
    BY <1>9, <2>1, <2>2, <2>3, <2>4 DEF OnArray
<1>10. CASE UNCHANGED memoryVars
  BY <1>1, <1>2, <1>5, <1>10 DEF memoryVars
<1>11. QED
  BY <1>7, <1>8, <1>9, <1>10 DEF MemoryNext

(* What is allocated can always still be given back by some object, if no  *)
(* size the driver requires is larger than unsigned can tell.              *)
THEOREM DisciplinedNothingLost ==
  ASSUME MemoryLiberties = {}, Fitting
  PROVE  MemorySpec => []NothingLost
<1>1. MemoryInit => NothingLost
  BY DEF MemoryInit, NothingLost
<1>2. QED
  BY <1>1, HeldStep, DisciplinedMemory, MemoryType, PTL DEF MemorySpec

-----------------------------------------------------------------------------
(***************************************************************************)
(* Sequences of sequences, one after the other.                            *)
(***************************************************************************)

FlatFrom(g, seqs, n) == g = [i \in 1 .. n |-> IF i = 1 THEN seqs[i] ELSE g[i - 1] \o seqs[i]]

(* The recursion of FlattenSeq has a function. *)
LEMMA FlatExists ==
  ASSUME NEW seqs, NEW n \in Nat
  PROVE  \E g : FlatFrom(g, seqs, n)
<1> DEFINE S == {m \in Nat : ~\E g : FlatFrom(g, seqs, m)}
<1> SUFFICES ASSUME S # {} PROVE FALSE
  OBVIOUS
<1>1. PICK m \in S : \A j \in S : m <= j
  <2>1. S \in SUBSET Nat
    OBVIOUS
  <2> QED BY <2>1, LeastOf
<1>2. CASE m = 0
  <2> DEFINE g == [i \in 1 .. 0 |-> IF i = 1 THEN seqs[i] ELSE seqs[i - 1] \o seqs[i]]
  <2>1. \A i \in 1 .. 0 : FALSE
    OBVIOUS
  <2>2. g = [i \in 1 .. 0 |-> IF i = 1 THEN seqs[i] ELSE g[i - 1] \o seqs[i]]
    BY <2>1
  <2> QED BY <1>2, <2>2 DEF FlatFrom
<1>3. CASE m > 0
  <2>1. m - 1 \in Nat /\ m - 1 \notin S
    BY <1>1, <1>3
  <2>2. PICK g : FlatFrom(g, seqs, m - 1)
    BY <2>1
  <2> DEFINE h == [i \in 1 .. m |-> IF i = 1 THEN seqs[i] ELSE g[i - 1] \o seqs[i]]
  <2>3. \A i \in 1 .. m - 1 : g[i] = IF i = 1 THEN seqs[i] ELSE g[i - 1] \o seqs[i]
    BY <2>2 DEF FlatFrom
  <2>4. \A i \in 1 .. m - 1 : h[i] = g[i]
    BY <1>1, <2>3
  <2>5. \A i \in 1 .. m : i # 1 => i - 1 \in 1 .. m - 1
    BY <1>1
  <2>6. h = [i \in 1 .. m |-> IF i = 1 THEN seqs[i] ELSE h[i - 1] \o seqs[i]]
    <3>1. \A i \in 1 .. m : i # 1 => h[i - 1] = g[i - 1]
      BY <2>4, <2>5
    <3> HIDE DEF h
    <3>2. \A i \in 1 .. m : (IF i = 1 THEN seqs[i] ELSE g[i - 1] \o seqs[i])
                              = (IF i = 1 THEN seqs[i] ELSE h[i - 1] \o seqs[i])
      BY <3>1
    <3>3. [i \in 1 .. m |-> IF i = 1 THEN seqs[i] ELSE g[i - 1] \o seqs[i]]
            = [i \in 1 .. m |-> IF i = 1 THEN seqs[i] ELSE h[i - 1] \o seqs[i]]
      BY <3>2
    <3> QED BY <3>3 DEF h
  <2> QED BY <1>1, <2>6 DEF FlatFrom
<1> QED BY <1>1, <1>2, <1>3

LEMMA FlattenIs ==
  ASSUME NEW seqs, Len(seqs) \in Nat, Len(seqs) # 0
  PROVE  \E g : FlatFrom(g, seqs, Len(seqs)) /\ FlattenSeq(seqs) = g[Len(seqs)]
<1> DEFINE h == CHOOSE h : h = [i \in 1 .. Len(seqs) |-> IF i = 1 THEN seqs[i] ELSE h[i - 1] \o seqs[i]]
<1>1. h = [i \in 1 .. Len(seqs) |-> IF i = 1 THEN seqs[i] ELSE h[i - 1] \o seqs[i]]
  <2>1. \E g : g = [i \in 1 .. Len(seqs) |-> IF i = 1 THEN seqs[i] ELSE g[i - 1] \o seqs[i]]
    <3>1. \E g : FlatFrom(g, seqs, Len(seqs))
      BY FlatExists
    <3> QED BY <3>1 DEF FlatFrom
  <2> QED BY <2>1, Zenon
<1>2. FlattenSeq(seqs) = h[Len(seqs)]
  BY Zenon DEF FlattenSeq
<1> QED BY <1>1, <1>2 DEF FlatFrom


LEMMA ConcatRange ==
  ASSUME NEW S, NEW s \in Seq(S), NEW t \in Seq(S)
  PROVE  s \o t \in Seq(S) /\ Range(s \o t) = Range(s) \union Range(t)
<1> PICK c : c = s \o t
  OBVIOUS
<1>1. /\ c \in Seq(S) /\ Len(c) = Len(s) + Len(t)
      /\ \A i \in 1 .. Len(s) + Len(t) : c[i] = IF i <= Len(s) THEN s[i] ELSE t[i - Len(s)]
  BY ConcatProperties
<1>2. /\ Len(s) \in Nat /\ Len(t) \in Nat
      /\ DOMAIN s = 1 .. Len(s) /\ DOMAIN t = 1 .. Len(t) /\ DOMAIN c = 1 .. Len(s) + Len(t)
  BY <1>1
<1>3. ASSUME NEW i \in DOMAIN c
      PROVE  c[i] \in Range(s) \union Range(t)
  <2>1. CASE i <= Len(s)
    BY <1>1, <1>2, <2>1 DEF Range
  <2>2. CASE i > Len(s)
    <3>1. i - Len(s) \in DOMAIN t /\ c[i] = t[i - Len(s)]
      BY <1>1, <1>2, <2>2
    <3> QED BY <3>1 DEF Range
  <2>3. i \in Nat
    BY <1>2
  <2> QED BY <1>2, <2>1, <2>2, <2>3
<1>4. ASSUME NEW i \in DOMAIN s
      PROVE  s[i] \in Range(c)
  BY <1>1, <1>2 DEF Range
<1>5. ASSUME NEW i \in DOMAIN t
      PROVE  t[i] \in Range(c)
  <2>1. i + Len(s) \in DOMAIN c /\ c[i + Len(s)] = t[i]
    BY <1>1, <1>2
  <2> QED BY <2>1 DEF Range
<1>6. Range(c) \subseteq Range(s) \union Range(t)
  BY <1>3 DEF Range
<1>7. Range(s) \subseteq Range(c) /\ Range(t) \subseteq Range(c)
  BY <1>4, <1>5 DEF Range
<1> QED BY <1>1, <1>6, <1>7

(* What is flattened holds what the sequences hold, and nothing else.      *)
LEMMA FlattenRange ==
  ASSUME NEW S, NEW seqs \in Seq(Seq(S)), seqs # <<>>
  PROVE  /\ FlattenSeq(seqs) \in Seq(S)
         /\ Range(FlattenSeq(seqs)) = UNION {Range(seqs[k]) : k \in DOMAIN seqs}
<1>1. Len(seqs) \in Nat /\ Len(seqs) # 0 /\ DOMAIN seqs = 1 .. Len(seqs)
  BY EmptySeq
<1> PICK N \in Nat : N = Len(seqs)
  BY <1>1
<1>2. PICK g : FlatFrom(g, seqs, N) /\ FlattenSeq(seqs) = g[N]
  BY <1>1, FlattenIs
<1>3. \A k \in 1 .. N : seqs[k] \in Seq(S)
  OBVIOUS
<1> DEFINE Done(k) == g[k] \in Seq(S) /\ Range(g[k]) = UNION {Range(seqs[j]) : j \in 1 .. k}
           D == {k \in 1 .. N : ~Done(k)}
<1>4. D = {}
  <2> SUFFICES ASSUME D # {} PROVE FALSE
    OBVIOUS
  <2>1. PICK m \in D : \A j \in D : m <= j
    <3>1. D \in SUBSET Nat
      OBVIOUS
    <3> QED BY <3>1, LeastOf
  <2>2. CASE m = 1
    <3>1. g[1] = seqs[1] /\ 1 .. 1 = {1}
      BY <2>1, <2>2, <1>2 DEF FlatFrom
    <3>2. UNION {Range(seqs[j]) : j \in {1}} = Range(seqs[1])
      OBVIOUS
    <3>3. Done(1)
      BY <1>3, <2>1, <2>2, <3>1, <3>2
    <3> QED BY <2>1, <2>2, <3>3
  <2>3. CASE m > 1
    <3>1. m - 1 \in 1 .. N /\ m - 1 \notin D
      <4>1. m \in 1 .. N
        BY <2>1 DEF D
      <4>2. m - 1 \in 1 .. N /\ ~(m <= m - 1)
        BY <2>3, <4>1
      <4> HIDE DEF D
      <4> QED BY <2>1, <4>2
    <3>2. Done(m - 1)
      BY <3>1
    <3>3. g[m] = g[m - 1] \o seqs[m]
      <4>1. m \in 1 .. N
        BY <2>1 DEF D
      <4> HIDE DEF D, Done
      <4>2. \A i \in 1 .. N : g[i] = IF i = 1 THEN seqs[i] ELSE g[i - 1] \o seqs[i]
        BY <1>2 DEF FlatFrom
      <4>3. m # 1
        BY <2>3
      <4> QED BY <4>1, <4>2, <4>3, Zenon
    <3>4. g[m] \in Seq(S) /\ Range(g[m]) = Range(g[m - 1]) \union Range(seqs[m])
      <4>1. g[m - 1] \in Seq(S) /\ seqs[m] \in Seq(S)
        BY <1>3, <2>1, <3>2
      <4> HIDE DEF Done, D
      <4> QED BY <3>3, <4>1, ConcatRange
    <3>5. 1 .. m = (1 .. m - 1) \union {m}
      BY <2>1, <2>3
    <3>6. Range(g[m]) = UNION {Range(seqs[j]) : j \in 1 .. m}
      BY <3>2, <3>4, <3>5
    <3> QED BY <2>1, <3>4, <3>6
  <2> QED BY <2>1, <2>2, <2>3
<1>5. N \in 1 .. N
  BY <1>1
<1>6. Done(N)
  BY <1>4, <1>5
<1> QED BY <1>1, <1>2, <1>6

(* Sequences of one element each.                                          *)
LEMMA FlattenOnes ==
  ASSUME NEW S, NEW seqs \in Seq(Seq(S)), \A k \in DOMAIN seqs : Len(seqs[k]) = 1
  PROVE  /\ FlattenSeq(seqs) \in Seq(S)
         /\ Len(FlattenSeq(seqs)) = Len(seqs)
         /\ \A k \in DOMAIN seqs : FlattenSeq(seqs)[k] = seqs[k][1]
<1>1. Len(seqs) \in Nat /\ DOMAIN seqs = 1 .. Len(seqs)
  OBVIOUS
<1> PICK N \in Nat : N = Len(seqs)
  BY <1>1
<1>2. CASE N = 0
  <2>1. FlattenSeq(seqs) = seqs
    BY <1>2 DEF FlattenSeq
  <2>2. seqs = <<>> /\ <<>> \in Seq(S)
    BY <1>2, EmptySeq
  <2> QED BY <2>1, <2>2
<1>3. CASE N # 0
  <2>1. PICK g : FlatFrom(g, seqs, N) /\ FlattenSeq(seqs) = g[N]
    BY <1>1, <1>3, FlattenIs
  <2>2. \A k \in 1 .. N : seqs[k] \in Seq(S) /\ Len(seqs[k]) = 1
    <3>1. \A k \in 1 .. N : seqs[k] \in Seq(S)
      BY ElementOfSeq
    <3> QED BY <1>1, <3>1
  <2> DEFINE Done(k) == g[k] \in Seq(S) /\ Len(g[k]) = k /\ \A j \in 1 .. k : g[k][j] = seqs[j][1]
             D == {k \in 1 .. N : ~Done(k)}
  <2>3. D = {}
    <3> SUFFICES ASSUME D # {} PROVE FALSE
      OBVIOUS
    <3>1. PICK m \in D : \A j \in D : m <= j
      <4>1. D \in SUBSET Nat
        OBVIOUS
      <4> QED BY <4>1, LeastOf
    <3>2. CASE m = 1
      <4>1. g[1] = seqs[1]
        BY <2>1, <3>1, <3>2 DEF FlatFrom
      <4> QED BY <2>2, <3>1, <3>2, <4>1
    <3>3. CASE m > 1
      <4>1. m - 1 \in 1 .. N /\ m - 1 \notin D
        BY <3>1, <3>3
      <4>2. Done(m - 1)
        BY <4>1
      <4>3. g[m] = g[m - 1] \o seqs[m]
        <5>1. m \in 1 .. N
          BY <3>1 DEF D
        <5> HIDE DEF D, Done
        <5>2. \A i \in 1 .. N : g[i] = IF i = 1 THEN seqs[i] ELSE g[i - 1] \o seqs[i]
          BY <2>1 DEF FlatFrom
        <5>3. m # 1
          BY <3>3
        <5> QED BY <5>1, <5>2, <5>3, Zenon
      <4>4. g[m - 1] \in Seq(S) /\ seqs[m] \in Seq(S) /\ Len(g[m - 1]) = m - 1 /\ Len(seqs[m]) = 1
        BY <2>2, <3>1, <4>2
      <4>5. /\ g[m] \in Seq(S) /\ Len(g[m]) = m
            /\ \A j \in 1 .. m : g[m][j] = IF j <= m - 1 THEN g[m - 1][j] ELSE seqs[m][j - (m - 1)]
        <5> HIDE DEF Done, D
        <5>1. m \in Nat
          BY <3>1 DEF D
        <5>2. /\ g[m] \in Seq(S) /\ Len(g[m]) = Len(g[m - 1]) + Len(seqs[m])
              /\ \A j \in 1 .. Len(g[m - 1]) + Len(seqs[m]) :
                   g[m][j] = IF j <= Len(g[m - 1]) THEN g[m - 1][j] ELSE seqs[m][j - Len(g[m - 1])]
          <6>1. PICK s, t, c : s = g[m - 1] /\ t = seqs[m] /\ c = g[m]
            OBVIOUS
          <6>2. s \in Seq(S) /\ t \in Seq(S) /\ c = s \o t
            BY <4>3, <4>4, <6>1
          <6>3. /\ c \in Seq(S) /\ Len(c) = Len(s) + Len(t)
                /\ \A j \in 1 .. Len(s) + Len(t) : c[j] = IF j <= Len(s) THEN s[j] ELSE t[j - Len(s)]
            BY <6>2, ConcatProperties
          <6> QED BY <6>1, <6>3
        <5> QED BY <4>4, <5>1, <5>2
      <4>6. \A j \in 1 .. m : g[m][j] = seqs[j][1]
        <5>1. m \in Nat /\ m > 1
          BY <3>1, <3>3 DEF D
        <5>2. \A j \in 1 .. m - 1 : g[m - 1][j] = seqs[j][1]
          BY <4>2 DEF Done
        <5> HIDE DEF D, Done
        <5>3. ASSUME NEW j \in 1 .. m, j <= m - 1
              PROVE  g[m][j] = seqs[j][1]
          BY <4>5, <5>1, <5>2, <5>3
        <5>4. g[m][m] = seqs[m][1]
          BY <4>5, <5>1
        <5>5. \A j \in 1 .. m : j <= m - 1 \/ j = m
          BY <5>1
        <5> QED BY <5>3, <5>4, <5>5
      <4> QED BY <3>1, <4>5, <4>6
    <3> QED BY <3>1, <3>2, <3>3
  <2>4. Done(N)
    <3>1. N \in 1 .. N
      BY <1>3
    <3> QED BY <2>3, <3>1
  <2> QED BY <1>1, <2>1, <2>4
<1> QED BY <1>2, <1>3

-----------------------------------------------------------------------------
(* What a file says. *)

Declarations == [stage : Stages, is : UniformsOf]

IsMap(map) == DOMAIN map \subseteq Stages /\ \A stage \in DOMAIN map : map[stage] \in Seq(UniformsOf)

LEMMA StagesAre ==
  /\ Len(StageOrder) = 6 /\ DOMAIN StageOrder = 1 .. 6
  /\ Stages = {"Vertex", "Fragment", "Geometry", "Tess_C", "Tess_E", "Compute"}
  /\ \A stage \in Stages : \E k \in 1 .. 6 : StageOrder[k] = stage
<1>1. Len(StageOrder) = 6 /\ DOMAIN StageOrder = 1 .. 6
  BY DEF StageOrder
<1>2. /\ StageOrder[1] = "Vertex" /\ StageOrder[2] = "Fragment" /\ StageOrder[3] = "Geometry"
      /\ StageOrder[4] = "Tess_C" /\ StageOrder[5] = "Tess_E" /\ StageOrder[6] = "Compute"
  BY DEF StageOrder
<1>3. 1 .. 6 = {1, 2, 3, 4, 5, 6}
  OBVIOUS
<1>4. Stages = {StageOrder[k] : k \in {1, 2, 3, 4, 5, 6}}
  BY <1>1, <1>3 DEF Stages, Range
<1>5. Stages = {"Vertex", "Fragment", "Geometry", "Tess_C", "Tess_E", "Compute"}
  BY <1>2, <1>4
<1>6. \A stage \in Stages : \E k \in 1 .. 6 : StageOrder[k] = stage
  BY <1>3, <1>4
<1> QED BY <1>1, <1>5, <1>6

(* The uniforms met are those of the stages of the map.                    *)
LEMMA DeclaredIs ==
  ASSUME NEW map, IsMap(map)
  PROVE  /\ Declared(map) \in Seq(Declarations)
         /\ \A u \in Range(Declared(map)) :
              u.stage \in DOMAIN map /\ u.is \in Range(map[u.stage])
         /\ \A stage \in DOMAIN map : \A u \in Range(map[stage]) :
              [stage |-> stage, is |-> u] \in Range(Declared(map))
<1> DEFINE Of(k) == [n \in DOMAIN map[StageOrder[k]] |->
                       [stage |-> StageOrder[k], is |-> map[StageOrder[k]][n]]]
           seqs == [k \in DOMAIN StageOrder |-> IF StageOrder[k] \notin DOMAIN map THEN <<>> ELSE Of(k)]
<1>1. Declared(map) = FlattenSeq(seqs)
  BY Zenon DEF Declared
<1>2. ASSUME NEW k \in 1 .. 6, StageOrder[k] \in DOMAIN map
      PROVE  /\ Of(k) \in Seq(Declarations)
             /\ Range(Of(k)) = {[stage |-> StageOrder[k], is |-> u] : u \in Range(map[StageOrder[k]])}
  <2> PICK stage \in Stages : stage = StageOrder[k]
    BY <1>2 DEF IsMap
  <2> PICK us \in Seq(UniformsOf) : us = map[stage]
    BY <1>2 DEF IsMap
  <2>1. Of(k) = [n \in 1 .. Len(us) |-> [stage |-> stage, is |-> us[n]]]
    OBVIOUS
  <2>2. Len(us) \in Nat /\ DOMAIN us = 1 .. Len(us) /\ \A n \in 1 .. Len(us) : us[n] \in UniformsOf
    OBVIOUS
  <2>3. \A n \in 1 .. Len(us) : [stage |-> stage, is |-> us[n]] \in Declarations
    BY <2>2 DEF Declarations
  <2>4. Of(k) \in Seq(Declarations)
    BY <2>1, <2>2, <2>3
  <2>5. Range(Of(k)) = {[stage |-> stage, is |-> us[n]] : n \in 1 .. Len(us)}
    BY <2>1, Zenon DEF Range
  <2>6. Range(us) = {us[n] : n \in 1 .. Len(us)}
    BY <2>2 DEF Range
  <2> HIDE DEF Of
  <2>7. Range(Of(k)) = {[stage |-> stage, is |-> u] : u \in Range(us)}
    BY <2>5, <2>6
  <2> QED BY <2>4, <2>7
<1>3. ASSUME NEW k \in 1 .. 6, StageOrder[k] \notin DOMAIN map
      PROVE  seqs[k] = <<>> /\ seqs[k] \in Seq(Declarations) /\ Range(seqs[k]) = {}
  <2>1. seqs[k] = <<>>
    BY <1>3, StagesAre
  <2>2. <<>> \in Seq(Declarations) /\ DOMAIN <<>> = {}
    OBVIOUS
  <2>3. Range(<<>>) = {}
    BY <2>2 DEF Range
  <2> HIDE DEF seqs
  <2> QED BY <2>1, <2>2, <2>3
<1>4. ASSUME NEW k \in 1 .. 6, StageOrder[k] \in DOMAIN map
      PROVE  /\ seqs[k] \in Seq(Declarations)
             /\ Range(seqs[k]) = {[stage |-> StageOrder[k], is |-> u] : u \in Range(map[StageOrder[k]])}
  <2>1. seqs[k] = Of(k)
    BY <1>4, StagesAre
  <2> HIDE DEF seqs, Of
  <2> QED BY <1>2, <1>4, <2>1
<1>5. seqs \in Seq(Seq(Declarations)) /\ seqs # <<>> /\ DOMAIN seqs = 1 .. 6
  <2>1. DOMAIN seqs = 1 .. 6 /\ seqs = [k \in 1 .. 6 |-> seqs[k]]
    BY StagesAre
  <2> HIDE DEF seqs
  <2>2. \A k \in 1 .. 6 : seqs[k] \in Seq(Declarations)
    BY <1>3, <1>4
  <2> PICK T : T = Seq(Declarations)
    OBVIOUS
  <2>3. [k \in 1 .. 6 |-> seqs[k]] \in Seq(T) /\ Len([k \in 1 .. 6 |-> seqs[k]]) = 6
    BY <2>2
  <2>4. seqs \in Seq(Seq(Declarations)) /\ Len(seqs) = 6
    BY <2>1, <2>3, Zenon
  <2>5. seqs # <<>>
    <3>1. Len(<<>>) # 6
      OBVIOUS
    <3>2. Len(seqs) = 6
      BY <2>4
    <3> QED BY <3>1, <3>2, Zenon
  <2> QED BY <2>1, <2>4, <2>5
<1> HIDE DEF seqs, Of
<1>6. /\ Declared(map) \in Seq(Declarations)
      /\ Range(Declared(map)) = UNION {Range(seqs[k]) : k \in 1 .. 6}
  BY <1>1, <1>5, FlattenRange
<1>7. ASSUME NEW u \in Range(Declared(map))
      PROVE  u.stage \in DOMAIN map /\ u.is \in Range(map[u.stage])
  <2>1. PICK k \in 1 .. 6 : u \in Range(seqs[k])
    BY <1>6
  <2>2. StageOrder[k] \in DOMAIN map
    BY <1>3, <2>1
  <2> QED BY <1>4, <2>1, <2>2
<1>8. ASSUME NEW stage \in DOMAIN map, NEW u \in Range(map[stage])
      PROVE  [stage |-> stage, is |-> u] \in Range(Declared(map))
  <2>1. PICK k \in 1 .. 6 : StageOrder[k] = stage
    BY StagesAre DEF IsMap
  <2>2. [stage |-> stage, is |-> u] \in Range(seqs[k])
    BY <1>4, <2>1
  <2> QED BY <1>6, <2>2
<1> QED BY <1>6, <1>7, <1>8

(* Uniforms of a file that works, in the order they are met.               *)
Consistent(us) ==
  /\ us \in Seq(Declarations)
  /\ \A k \in DOMAIN us : us[k].is.type \in {"Ubo", "None", "Sampler"}
  /\ \A j, k \in DOMAIN us : us[j].is.name = us[k].is.name => us[j].is = us[k].is

NamesUpTo(us, k) == {us[j].is.name : j \in 1 .. k}

ParsedFrom(g, us, n) == g = [k \in 0 .. n |-> IF k = 0 THEN Unparsed ELSE Added(g[k - 1], us[k])]

(* The recursion of Reflect has a function. *)
LEMMA ParsedExists ==
  ASSUME NEW us, NEW n \in Nat
  PROVE  \E g : ParsedFrom(g, us, n)
<1> DEFINE S == {m \in Nat : ~\E g : ParsedFrom(g, us, m)}
<1> SUFFICES ASSUME S # {} PROVE FALSE
  OBVIOUS
<1>1. PICK m \in S : \A j \in S : m <= j
  BY LeastOf
<1>2. CASE m = 0
  <2> DEFINE g == [k \in 0 .. 0 |-> Unparsed]
  <2>1. ParsedFrom(g, us, 0)
    BY DEF ParsedFrom
  <2> QED BY <1>2, <2>1
<1>3. CASE m > 0
  <2>1. m - 1 \in Nat /\ m - 1 \notin S
    BY <1>1, <1>3
  <2>2. PICK g : ParsedFrom(g, us, m - 1)
    BY <2>1
  <2> DEFINE h == [k \in 0 .. m |-> IF k = 0 THEN Unparsed ELSE Added(g[k - 1], us[k])]
  <2>3. \A k \in 0 .. m - 1 : g[k] = IF k = 0 THEN Unparsed ELSE Added(g[k - 1], us[k])
    BY <2>2 DEF ParsedFrom
  <2>4. \A k \in 0 .. m - 1 : h[k] = g[k]
    BY <1>1, <2>3
  <2>5. \A k \in 0 .. m : k # 0 => k - 1 \in 0 .. m - 1
    BY <1>1
  <2>6. h = [k \in 0 .. m |-> IF k = 0 THEN Unparsed ELSE Added(h[k - 1], us[k])]
    <3>1. \A k \in 0 .. m : k # 0 => h[k - 1] = g[k - 1]
      BY <2>4, <2>5
    <3> HIDE DEF h
    <3>2. \A k \in 0 .. m : (IF k = 0 THEN Unparsed ELSE Added(g[k - 1], us[k]))
                              = (IF k = 0 THEN Unparsed ELSE Added(h[k - 1], us[k]))
      BY <3>1
    <3>3. [k \in 0 .. m |-> IF k = 0 THEN Unparsed ELSE Added(g[k - 1], us[k])]
            = [k \in 0 .. m |-> IF k = 0 THEN Unparsed ELSE Added(h[k - 1], us[k])]
      BY <3>2
    <3> QED BY <3>3 DEF h
  <2> QED BY <1>1, <2>6 DEF ParsedFrom
<1> QED BY <1>1, <1>2, <1>3

LEMMA ReflectIs ==
  ASSUME NEW map, NEW us, us = Declared(map), Len(us) \in Nat
  PROVE  \E g : ParsedFrom(g, us, Len(us)) /\ Reflect(map) = g[Len(us)].made
<1> DEFINE h == CHOOSE h : h = [k \in 0 .. Len(us) |-> IF k = 0 THEN Unparsed ELSE Added(h[k - 1], us[k])]
<1>1. h = [k \in 0 .. Len(us) |-> IF k = 0 THEN Unparsed ELSE Added(h[k - 1], us[k])]
  <2>1. \E g : g = [k \in 0 .. Len(us) |-> IF k = 0 THEN Unparsed ELSE Added(g[k - 1], us[k])]
    <3>1. \E g : ParsedFrom(g, us, Len(us))
      BY ParsedExists
    <3> QED BY <3>1 DEF ParsedFrom
  <2> QED BY <2>1, Zenon
<1>2. Reflect(map) = h[Len(us)].made
  BY Zenon DEF Reflect
<1> QED BY <1>1, <1>2 DEF ParsedFrom

Fits(d, u) ==
  /\ d.binding = u.is.binding /\ d.count = u.is.size /\ d.type = LayoutType(u.is.type, "")
  /\ u.stage \in d.stages

Bindings == [binding : Nat, count : Nat, stages : SUBSET Stages, type : DescriptorTypes]

(* What there is after the first k uniforms. *)
Reflected(r, us, k) ==
  /\ r \in [made : [NamesUpTo(us, k) -> Bindings], last : Bindings]
  /\ \A j \in 1 .. k : Fits(r.made[us[j].is.name], us[j])

LEMMA AddedIs ==
  ASSUME NEW us, Consistent(us), NEW k \in 1 .. Len(us), NEW r, Reflected(r, us, k - 1)
  PROVE  Reflected(Added(r, us[k]), us, k)
<1>1. Len(us) \in Nat /\ DOMAIN us = 1 .. Len(us) /\ k \in Nat /\ k >= 1
  BY DEF Consistent
<1>2. us[k] \in Declarations
  BY <1>1 DEF Consistent
<1> PICK u \in Declarations : u = us[k]
  BY <1>2
<1>3. u.is \in UniformsOf /\ u.stage \in Stages /\ u.is.size \in Nat /\ u.is.binding \in Nat
  BY DEF Declarations, UniformsOf
<1>4. u.is.type \in {"Ubo", "None", "Sampler"}
  BY <1>1 DEF Consistent
<1> PICK name : name = u.is.name
  OBVIOUS
<1> PICK N : N = NamesUpTo(us, k - 1)
  OBVIOUS
<1>5. NamesUpTo(us, k) = N \union {name}
  <2>1. 1 .. k = (1 .. k - 1) \union {k}
    BY <1>1
  <2> QED BY <2>1 DEF NamesUpTo
<1> PICK made \in [N -> Bindings] : made = r.made
  BY DEF Reflected
<1> PICK last \in Bindings : last = r.last
  BY DEF Reflected
<1>6. r \in [made : [N -> Bindings], last : Bindings] /\ r = [made |-> made, last |-> last]
  BY DEF Reflected
<1>7. \A j \in 1 .. k - 1 : us[j].is.name \in N /\ Fits(made[us[j].is.name], us[j])
  BY DEF Reflected, NamesUpTo
<1>8. \A j \in 1 .. k : j = k \/ j \in 1 .. k - 1
  BY ONLY <1>1, SMTT(30)
<1>9. CASE name \in N
  <2>1. PICK i \in 1 .. k - 1 : us[i].is.name = name
    BY <1>9 DEF NamesUpTo
  <2>2. us[i].is = u.is /\ Fits(made[name], us[i])
    <3>1. i \in DOMAIN us /\ k \in DOMAIN us
      BY <1>1
    <3> QED BY <1>7, <2>1, <3>1 DEF Consistent
  <2> PICK d \in Bindings : d = made[name]
    BY <1>9
  <2> PICK e : e = [d EXCEPT !.stages = @ \union {u.stage}]
    OBVIOUS
  <2>3. e \in Bindings /\ e.binding = d.binding /\ e.count = d.count /\ e.type = d.type
        /\ e.stages = d.stages \union {u.stage}
    BY <1>3 DEF Bindings
  <2>4. Added(r, u) = [made |-> [made EXCEPT ![name] = e], last |-> last]
    <3>1. Added(r, u) = [r EXCEPT !.made[name] = SeenAgain(@, u.stage)]
      BY <1>9 DEF Added
    <3>2. SeenAgain(r.made[name], u.stage) = e
      BY DEF SeenAgain
    <3>3. [r EXCEPT !.made[name] = SeenAgain(@, u.stage)] = [r EXCEPT !.made = [made EXCEPT ![name] = e]]
      BY <3>2, Zenon
    <3>4. [r EXCEPT !.made = [made EXCEPT ![name] = e]] = [made |-> [made EXCEPT ![name] = e], last |-> last]
      BY <1>6, SMTT(30)
    <3> QED BY <3>1, <3>3, <3>4, ZenonT(40)
  <2> PICK f : f = [made EXCEPT ![name] = e]
    OBVIOUS
  <2>5. f \in [N -> Bindings] /\ f[name] = e /\ \A n \in N : n # name => f[n] = made[n]
    BY <1>9, <2>3, SMTT(40)
  <2>6. NamesUpTo(us, k) = N
    BY <1>5, <1>9
  <2>7. Added(r, u) \in [made : [N -> Bindings], last : Bindings] /\ Added(r, u).made = f
    <3>0. PICK F, B : F = [N -> Bindings] /\ B = Bindings
      OBVIOUS
    <3>1. [made |-> f, last |-> last] \in [made : F, last : B] /\ [made |-> f, last |-> last].made = f
      BY ONLY <2>5, last \in Bindings, <3>0, SMTT(40)
    <3> QED BY <2>4, <3>0, <3>1, ZenonT(60)
  <2>8. ASSUME NEW j \in 1 .. k - 1
        PROVE  Fits(f[us[j].is.name], us[j])
    <3>1. CASE us[j].is.name = name
      <4>1. Fits(made[name], us[j])
        BY ONLY <1>7, <3>1, j \in 1 .. k - 1, SMTT(30)
      <4> QED BY <2>3, <2>5, <3>1, <4>1, ZenonT(60) DEF Fits
    <3>2. CASE us[j].is.name # name
      BY ONLY <1>7, <2>5, <3>2, j \in 1 .. k - 1, SMTT(40)
    <3> QED BY ONLY <3>1, <3>2, SMTT(30)
  <2>9. Fits(f[name], u)
    BY <2>2, <2>3, <2>5 DEF Fits
  <2> QED BY <1>8, <2>6, <2>7, <2>8, <2>9 DEF Reflected
<1>10. CASE name \notin N
  <2> PICK e : e = [binding |-> u.is.binding, count |-> u.is.size,
                    stages |-> last.stages \union {u.stage},
                    type |-> LayoutType(u.is.type, last.type)]
    OBVIOUS
  <2>1. LayoutType(u.is.type, last.type) = LayoutType(u.is.type, "")
        /\ LayoutType(u.is.type, "") \in DescriptorTypes
    BY <1>4 DEF LayoutType, DescriptorTypes
  <2>2. e \in Bindings /\ Fits(e, u)
    BY <1>3, <2>1 DEF Bindings, Fits
  <2> PICK f : f = [n \in N \union {name} |-> IF n = name THEN e ELSE made[n]]
    OBVIOUS
  <2>3. Added(r, u) = [made |-> f, last |-> e]
    <3>1. DOMAIN r.made = N
      OBVIOUS
    <3> QED BY <1>10, <3>1, Zenon DEF Added
  <2>4. f \in [N \union {name} -> Bindings] /\ f[name] = e /\ \A n \in N : f[n] = made[n]
    BY <1>10, <2>2
  <2>5. \A j \in 1 .. k - 1 : Fits(f[us[j].is.name], us[j])
    BY <1>7, <2>4
  <2>6. Added(r, u) \in [made : [N \union {name} -> Bindings], last : Bindings] /\ Added(r, u).made = f
    <3> PICK F, B : F = [N \union {name} -> Bindings] /\ B = Bindings
      OBVIOUS
    <3>1. [made |-> f, last |-> e] \in [made : F, last : B] /\ [made |-> f, last |-> e].made = f
      BY <2>2, <2>4
    <3> QED BY <2>3, <3>1, Zenon
  <2> QED BY <1>5, <1>8, <2>2, <2>4, <2>5, <2>6, ZenonT(40) DEF Reflected
<1> QED BY <1>9, <1>10

(* The layout of the uniforms: all of them, as the file says, and seen by  *)
(* the stages that declare them.                                           *)
LEMMA ReflectsAll ==
  ASSUME NEW map, Consistent(Declared(map))
  PROVE  LET us == Declared(map) IN
         /\ Reflect(map) \in [NamesUpTo(us, Len(us)) -> Bindings]
         /\ \A k \in DOMAIN us : Fits(Reflect(map)[us[k].is.name], us[k])
<1> PICK us : us = Declared(map)
  OBVIOUS
<1>1. Len(us) \in Nat /\ DOMAIN us = 1 .. Len(us) /\ Consistent(us)
  BY SMTT(40) DEF Consistent
<1> PICK n \in Nat : n = Len(us)
  BY <1>1
<1>2. PICK g : ParsedFrom(g, us, n) /\ Reflect(map) = g[n].made
  BY <1>1, ReflectIs
<1>3. \A k \in 0 .. n : g[k] = IF k = 0 THEN Unparsed ELSE Added(g[k - 1], us[k])
  BY <1>2 DEF ParsedFrom
<1> DEFINE D == {k \in 0 .. n : ~Reflected(g[k], us, k)}
<1>4. D = {}
  <2> SUFFICES ASSUME D # {} PROVE FALSE
    OBVIOUS
  <2>1. PICK m \in D : \A j \in D : m <= j
    <3>1. D \in SUBSET Nat
      OBVIOUS
    <3> QED BY <3>1, LeastOf
  <2>2. CASE m = 0
    <3>1. g[0] = Unparsed
      BY <1>3
    <3>2. NamesUpTo(us, 0) = {}
      BY DEF NamesUpTo
    <3>3. Unparsed.made \in [{} -> Bindings] /\ Unparsed.last \in Bindings
      BY DEF Unparsed, Nothing, Bindings, DescriptorTypes
    <3>4. Unparsed \in [made : [{} -> Bindings], last : Bindings]
      BY <3>3 DEF Unparsed
    <3>5. Reflected(Unparsed, us, 0)
      <4>1. \A j \in 1 .. 0 : FALSE
        OBVIOUS
      <4> QED BY <3>2, <3>4, <4>1, Zenon DEF Reflected
    <3> QED BY <2>1, <2>2, <3>1, <3>5
  <2>3. CASE m > 0
    <3>1. m - 1 \in 0 .. n /\ m - 1 \notin D /\ m \in 1 .. n
      BY <2>1, <2>3
    <3>2. Reflected(g[m - 1], us, m - 1)
      BY <3>1
    <3>3. g[m] = Added(g[m - 1], us[m])
      BY <1>3, <3>1
    <3>4. Reflected(g[m], us, m)
      BY <1>1, <3>1, <3>2, <3>3, AddedIs
    <3> QED BY <2>1, <3>4
  <2> QED BY <2>1, <2>2, <2>3
<1>5. Reflected(g[n], us, n)
  BY <1>4
<1>6. g[n].made \in [NamesUpTo(us, n) -> Bindings] /\ \A j \in 1 .. n : Fits(g[n].made[us[j].is.name], us[j])
  BY <1>5 DEF Reflected
<1> QED BY <1>1, <1>2, <1>6

ToldFrom(g, map, us, n) == g = [k \in 0 .. n |-> IF k = 0 THEN map ELSE WithUniform(g[k - 1], us[k].is)]

(* The recursion of Uniforms has a function. *)
LEMMA ToldExists ==
  ASSUME NEW map, NEW us, NEW n \in Nat
  PROVE  \E g : ToldFrom(g, map, us, n)
<1> DEFINE S == {m \in Nat : ~\E g : ToldFrom(g, map, us, m)}
<1> SUFFICES ASSUME S # {} PROVE FALSE
  OBVIOUS
<1>1. PICK m \in S : \A j \in S : m <= j
  BY LeastOf
<1>2. CASE m = 0
  <2> DEFINE g == [k \in 0 .. 0 |-> map]
  <2>1. ToldFrom(g, map, us, 0)
    BY DEF ToldFrom
  <2> QED BY <1>2, <2>1
<1>3. CASE m > 0
  <2>1. m - 1 \in Nat /\ m - 1 \notin S
    BY <1>1, <1>3
  <2>2. PICK g : ToldFrom(g, map, us, m - 1)
    BY <2>1
  <2> DEFINE h == [k \in 0 .. m |-> IF k = 0 THEN map ELSE WithUniform(g[k - 1], us[k].is)]
  <2>3. \A k \in 0 .. m - 1 : g[k] = IF k = 0 THEN map ELSE WithUniform(g[k - 1], us[k].is)
    BY <2>2 DEF ToldFrom
  <2>4. \A k \in 0 .. m - 1 : h[k] = g[k]
    BY <1>1, <2>3
  <2>5. \A k \in 0 .. m : k # 0 => k - 1 \in 0 .. m - 1
    BY <1>1
  <2>6. h = [k \in 0 .. m |-> IF k = 0 THEN map ELSE WithUniform(h[k - 1], us[k].is)]
    <3>1. \A k \in 0 .. m : k # 0 => h[k - 1] = g[k - 1]
      BY <2>4, <2>5
    <3> HIDE DEF h
    <3>2. \A k \in 0 .. m : (IF k = 0 THEN map ELSE WithUniform(g[k - 1], us[k].is))
                              = (IF k = 0 THEN map ELSE WithUniform(h[k - 1], us[k].is))
      BY <3>1
    <3>3. [k \in 0 .. m |-> IF k = 0 THEN map ELSE WithUniform(g[k - 1], us[k].is)]
            = [k \in 0 .. m |-> IF k = 0 THEN map ELSE WithUniform(h[k - 1], us[k].is)]
      BY <3>2
    <3> QED BY <3>3 DEF h
  <2> QED BY <1>1, <2>6 DEF ToldFrom
<1> QED BY <1>1, <1>2, <1>3

LEMMA UniformsIs ==
  ASSUME NEW map, NEW s, NEW us, us = Declared(s.file.map), Len(us) \in Nat
  PROVE  \E g : ToldFrom(g, map, us, Len(us)) /\ Uniforms(map, s) = g[Len(us)]
<1> DEFINE h == CHOOSE h : h = [k \in 0 .. Len(us) |-> IF k = 0 THEN map ELSE WithUniform(h[k - 1], us[k].is)]
<1>1. h = [k \in 0 .. Len(us) |-> IF k = 0 THEN map ELSE WithUniform(h[k - 1], us[k].is)]
  <2>1. \E g : g = [k \in 0 .. Len(us) |-> IF k = 0 THEN map ELSE WithUniform(g[k - 1], us[k].is)]
    <3>1. \E g : ToldFrom(g, map, us, Len(us))
      BY ToldExists
    <3> QED BY <3>1 DEF ToldFrom
  <2> QED BY <2>1, Zenon
<1>2. Uniforms(map, s) = h[Len(us)]
  BY Zenon DEF Uniforms
<1> QED BY <1>1, <1>2 DEF ToldFrom

Listed(map, us) == \A k \in DOMAIN us : map[us[k].is.name] = us[k].is

(* An empty pool is told of every uniform, as the file says.               *)
LEMMA TellsAll ==
  ASSUME NEW map, DOMAIN map = {}, NEW s, NEW us, us = Declared(s.file.map), Consistent(us)
  PROVE  /\ DOMAIN Uniforms(map, s) = NamesUpTo(us, Len(us))
         /\ Listed(Uniforms(map, s), us)
<1>1. Len(us) \in Nat /\ DOMAIN us = 1 .. Len(us)
  BY DEF Consistent
<1> PICK n \in Nat : n = Len(us)
  BY <1>1
<1>2. PICK g : ToldFrom(g, map, us, n) /\ Uniforms(map, s) = g[n]
  BY <1>1, UniformsIs
<1>3. \A k \in 0 .. n : g[k] = IF k = 0 THEN map ELSE WithUniform(g[k - 1], us[k].is)
  BY <1>2, SMTT(40) DEF ToldFrom
<1> DEFINE Heard(k) == /\ DOMAIN g[k] = NamesUpTo(us, k)
                      /\ \A j \in 1 .. k : g[k][us[j].is.name] = us[j].is
           D == {k \in 0 .. n : ~Heard(k)}
<1>4. D = {}
  <2> SUFFICES ASSUME D # {} PROVE FALSE
    BY SMTT(40)
  <2>1. PICK m \in D : \A j \in D : m <= j
    <3>1. D \in SUBSET Nat
      OBVIOUS
    <3> QED BY <3>1, LeastOf
  <2>0. m \in 0 .. n
    BY <2>1, ZenonT(60) DEF D
  <2>2. CASE m = 0
    <3>1. g[0] = map
      BY <1>3, SMTT(30)
    <3>2. NamesUpTo(us, 0) = {} /\ \A j \in 1 .. 0 : FALSE
      BY SMTT(30) DEF NamesUpTo
    <3>3. Heard(0)
      BY <3>1, <3>2, Zenon
    <3> QED BY <2>1, <2>2, <3>3, ZenonT(60)
  <2>3. CASE m > 0
    <3>1. m - 1 \in 0 .. n /\ m \in 1 .. n /\ m # 0 /\ ~(m <= m - 1)
      BY <2>0, <2>3, SMTT(30)
    <3>2. Heard(m - 1)
      <4>1. m - 1 \notin D
        <5> HIDE DEF D
        <5> QED BY <2>1, <3>1, SMTT(40)
      <4> QED BY <3>1, <4>1
    <3> PICK u : u = us[m].is
      BY SMTT(40)
    <3> PICK f : f = g[m - 1]
      OBVIOUS
    <3>3. g[m] = [x \in DOMAIN f \union {u.name} |-> IF x = u.name THEN u ELSE f[x]]
      <4> HIDE DEF Heard, D
      <4>1. g[m] = WithUniform(f, u)
        BY <1>3, <2>0, <3>1, ZenonT(60)
      <4> QED BY <4>1 DEF WithUniform
    <3>4. NamesUpTo(us, m) = NamesUpTo(us, m - 1) \union {u.name}
      <4>1. 1 .. m = (1 .. m - 1) \union {m}
        BY <3>1, SMTT(30)
      <4> QED BY <4>1, ZenonT(60) DEF NamesUpTo
    <3>5. DOMAIN f = NamesUpTo(us, m - 1) /\ \A j \in 1 .. m - 1 : f[us[j].is.name] = us[j].is
      BY <3>2
    <3> HIDE DEF Heard, D
    <3>6. DOMAIN g[m] = NamesUpTo(us, m)
      BY <3>3, <3>4, <3>5
    <3>7. ASSUME NEW j \in 1 .. m
          PROVE  g[m][us[j].is.name] = us[j].is
      <4>1. us[j].is.name \in NamesUpTo(us, m)
        BY SMTT(30) DEF NamesUpTo
      <4>2. CASE us[j].is.name = u.name
        <5>1. j \in DOMAIN us /\ m \in DOMAIN us
          BY <1>1, <3>1
        <5>2. us[j].is = u
          BY <4>2, <5>1 DEF Consistent
        <5> QED BY <3>3, <3>6, <4>1, <4>2, <5>2
      <4>3. CASE us[j].is.name # u.name
        <5>1. j \in 1 .. m - 1
          BY <3>1, <4>3
        <5> QED BY <3>3, <3>5, <3>6, <4>1, <4>3, <5>1, ZenonT(40)
      <4> QED BY <4>2, <4>3
    <3>8. Heard(m)
      BY <3>6, <3>7 DEF Heard
    <3> QED BY <2>1, <3>8, SMTT(40) DEF D
  <2> QED BY <2>0, <2>2, <2>3, SMTT(30)
<1>5. Heard(n)
  BY <1>4
<1>6. Listed(g[n], us)
  BY <1>1, <1>5 DEF Listed
<1> QED BY <1>1, <1>2, <1>5, <1>6

-----------------------------------------------------------------------------
(* What a file that works makes of a new shader. *)

(* Its map: no stage of the tessellation, and uniforms that agree.         *)
LEMMA LoadIs ==
  ASSUME NEW file \in Files, Works(file)
  PROVE  LET new == Load(EmptyFile, file) IN
         /\ new.inputs = file.inputs /\ new.outputs \in {0, 1}
         /\ IsMap(new.map) /\ DOMAIN new.map # {}
         /\ "Tess_C" \notin DOMAIN new.map /\ "Tess_E" \notin DOMAIN new.map
         /\ Consistent(Declared(new.map))
<1> PICK new : new = Load(EmptyFile, file)
  OBVIOUS
<1> PICK shaders : shaders = file.shaders
  OBVIOUS
<1>1. file \in FilesOf /\ file.opens /\ file.magic /\ file.outputs \in {0, 1}
  <2>1. file \in FilesOf /\ file.outputs \in Nat
    BY FilesAssumption DEF FilesOf
  <2>2. file.opens /\ file.magic /\ file.outputs <= 1
    BY DEF Works
  <2> QED BY <2>1, <2>2
<1>2. /\ shaders \in Seq(ShadersOf) /\ shaders # <<>>
      /\ file.inputs \in Seq(STRING) /\ file.outputs \in Nat
  BY <1>1 DEF FilesOf, Works
<1>3. Len(shaders) \in Nat \ {0} /\ DOMAIN shaders = 1 .. Len(shaders)
  BY <1>2, EmptySeq
<1>4. \A k \in DOMAIN shaders :
        /\ shaders[k].stage \in Stages /\ shaders[k].stage \notin {"Tess_C", "Tess_E"}
        /\ shaders[k].uniforms \in Seq(UniformsOf)
  <2>1. \A k \in DOMAIN shaders : shaders[k] \in ShadersOf
    BY <1>2, <1>3, ElementOfSeq
  <2> QED BY <2>1 DEF Works, ShadersOf
<1>5. /\ new = [inputs |-> <<>> \o file.inputs, outputs |-> 0 + file.outputs, map |-> Inserted(shaders)]
  BY <1>1 DEF Load, EmptyFile
<1>6. new.inputs = file.inputs /\ new.outputs \in {0, 1} /\ new.map = Inserted(shaders)
  <2>1. <<>> \o file.inputs = file.inputs
    BY <1>2, ConcatEmptySeq
  <2> QED BY <1>1, <1>2, <1>5, <2>1
<1> PICK map : map = Inserted(shaders)
  OBVIOUS
<1>7. DOMAIN map = {shaders[k].stage : k \in DOMAIN shaders}
  BY DEF Inserted
<1>8. ASSUME NEW stage \in DOMAIN map
      PROVE  \E k \in DOMAIN shaders : shaders[k].stage = stage /\ map[stage] = shaders[k].uniforms
  <2> DEFINE of == {k \in DOMAIN shaders : shaders[k].stage = stage}
  <2> PICK first : first = CHOOSE k \in of : \A j \in of : k <= j
    OBVIOUS
  <2>1. map[stage] = shaders[first].uniforms
    BY <1>7, Zenon DEF Inserted
  <2>2. of # {} /\ of \in SUBSET Nat
    BY <1>3, <1>7, <1>8
  <2>3. first \in of
    <3> HIDE DEF of
    <3>1. \E i \in of : \A j \in of : i <= j
      BY <2>2, LeastOf
    <3> QED BY <3>1
  <2> QED BY <2>1, <2>3
<1>9. IsMap(map) /\ DOMAIN map # {} /\ "Tess_C" \notin DOMAIN map /\ "Tess_E" \notin DOMAIN map
  <2>1. DOMAIN map \subseteq Stages /\ "Tess_C" \notin DOMAIN map /\ "Tess_E" \notin DOMAIN map
    BY <1>4, <1>7
  <2>2. DOMAIN map # {}
    <3>1. 1 \in DOMAIN shaders
      BY <1>3
    <3> QED BY <1>7, <3>1
  <2>3. \A stage \in DOMAIN map : map[stage] \in Seq(UniformsOf)
    BY <1>4, <1>8
  <2> QED BY <2>1, <2>2, <2>3 DEF IsMap
<1> PICK us : us = Declared(map)
  OBVIOUS
<1> DEFINE declared == UNION {Range(shaders[k].uniforms) : k \in DOMAIN shaders}
<1>10. us \in Seq(Declarations)
  BY <1>9, DeclaredIs
<1>11. ASSUME NEW j \in DOMAIN us
       PROVE  us[j].is \in declared
  <2>1. us[j] \in Range(us)
    BY DEF Range
  <2>2. us[j].stage \in DOMAIN map /\ us[j].is \in Range(map[us[j].stage])
    BY <1>9, <2>1, DeclaredIs
  <2>3. PICK k \in DOMAIN shaders : map[us[j].stage] = shaders[k].uniforms
    BY <1>8, <2>2
  <2> QED BY <2>2, <2>3
<1>12. /\ \A u \in declared : u.type \in {"Ubo", "None", "Sampler"}
       /\ \A u, v \in declared : u.name = v.name => u = v
  <2> DEFINE said == UNION {Range(file.shaders[k].uniforms) : k \in DOMAIN file.shaders}
  <2>1. /\ \A u \in said : u.type \in {"Ubo", "None", "Sampler"}
        /\ \A u, v \in said : u.name = v.name => u = v
    BY Zenon DEF Works
  <2>2. said = declared
    OBVIOUS
  <2> HIDE DEF said, declared
  <2> QED BY <2>1, <2>2, Zenon
<1> HIDE DEF declared
<1>13. Consistent(us)
  BY <1>10, <1>11, <1>12 DEF Consistent
<1> QED BY <1>6, <1>9, <1>13

(* Attributes of vectors and numbers have locations of their own.          *)
LEMMA LocationsAre ==
  ASSUME NEW inputs \in Seq(STRING), \A k \in DOMAIN inputs : Rows(inputs[k]) = 1
  PROVE  Locations(inputs) \in Seq(Nat) /\ \A k \in DOMAIN Locations(inputs) : Locations(inputs)[k] = k - 1
<1> PICK n \in Nat : n = Len(inputs)
  OBVIOUS
<1>1. DOMAIN inputs = 1 .. n
  OBVIOUS
<1> PICK seqs : seqs = [k \in 1 .. n |-> Attributes(inputs, k)]
  OBVIOUS
<1>2. \A k \in 1 .. n : Attributes(inputs, k) = [i \in 1 .. 1 |-> k - 1]
  BY <1>1 DEF Attributes
<1>3. \A k \in 1 .. n : /\ Attributes(inputs, k) \in Seq(Nat) /\ Len(Attributes(inputs, k)) = 1
                        /\ Attributes(inputs, k)[1] = k - 1
  <2> TAKE k \in 1 .. n
  <2>1. k - 1 \in Nat
    OBVIOUS
  <2>2. /\ [i \in 1 .. 1 |-> k - 1] \in Seq(Nat) /\ Len([i \in 1 .. 1 |-> k - 1]) = 1
        /\ [i \in 1 .. 1 |-> k - 1][1] = k - 1
    BY <2>1
  <2> QED BY <1>2, <2>2
<1>4. seqs \in Seq(Seq(Nat)) /\ Len(seqs) = n /\ DOMAIN seqs = 1 .. n
  <2> PICK T : T = Seq(Nat)
    OBVIOUS
  <2>1. \A k \in 1 .. n : Attributes(inputs, k) \in T
    BY <1>3
  <2>2. seqs \in Seq(T) /\ Len(seqs) = n /\ DOMAIN seqs = 1 .. n
    BY <2>1
  <2> QED BY <2>2
<1>5. \A k \in DOMAIN seqs : Len(seqs[k]) = 1 /\ seqs[k][1] = k - 1
  BY <1>3, <1>4
<1>6. /\ FlattenSeq(seqs) \in Seq(Nat) /\ Len(FlattenSeq(seqs)) = n
      /\ \A k \in 1 .. n : FlattenSeq(seqs)[k] = seqs[k][1]
  BY <1>4, <1>5, FlattenOnes, ZenonT(40)
<1>7. Locations(inputs) = FlattenSeq(seqs)
  BY <1>1 DEF Locations
<1>8. DOMAIN FlattenSeq(seqs) = 1 .. n
  BY <1>6
<1> QED BY <1>4, <1>5, <1>6, <1>7, <1>8

(* Without tessellation, every stage has its own code.                     *)
LEMMA ModulesAre ==
  ASSUME NEW spirv, spirv \subseteq Stages, "Tess_C" \notin spirv, "Tess_E" \notin spirv
  PROVE  Modules(spirv) = [stage \in spirv |-> stage]
<1>1. \A s \in spirv : StageBack(s) = s
  BY DEF StageBack
<1>2. {StageBack(s) : s \in spirv} = spirv
  BY <1>1
<1>3. ASSUME NEW stage \in spirv
      PROVE  LET of == {k \in DOMAIN VulkanOrder : VulkanOrder[k] \in spirv /\ StageBack(VulkanOrder[k]) = stage}
             IN  VulkanOrder[CHOOSE k \in of : \A j \in of : j <= k] = stage
  <2> DEFINE of == {k \in DOMAIN VulkanOrder : VulkanOrder[k] \in spirv /\ StageBack(VulkanOrder[k]) = stage}
  <2>1. DOMAIN VulkanOrder = {1, 2, 3, 4, 5, 6}
    <3>1. DOMAIN VulkanOrder = 1 .. 6
      BY DEF VulkanOrder
    <3> QED BY <3>1
  <2>2. /\ VulkanOrder[1] = "Vertex" /\ VulkanOrder[2] = "Tess_C" /\ VulkanOrder[3] = "Tess_E"
        /\ VulkanOrder[4] = "Geometry" /\ VulkanOrder[5] = "Fragment" /\ VulkanOrder[6] = "Compute"
    BY DEF VulkanOrder
  <2>3. of = {k \in {1, 2, 3, 4, 5, 6} : VulkanOrder[k] = stage}
    BY <1>1, <2>1
  <2>4. stage \in {"Vertex", "Geometry", "Fragment", "Compute"}
    BY StagesAre
  <2>5. PICK k \in {1, 4, 5, 6} : of = {k} /\ VulkanOrder[k] = stage
    BY <2>2, <2>3, <2>4
  <2> HIDE DEF of
  <2>6. (CHOOSE i \in of : \A j \in of : j <= i) = k
    BY <2>5
  <2> QED BY <2>5, <2>6 DEF of
<1>4. Modules(spirv) = [stage \in spirv |->
        LET of == {k \in DOMAIN VulkanOrder : VulkanOrder[k] \in spirv /\ StageBack(VulkanOrder[k]) = stage}
        IN  VulkanOrder[CHOOSE k \in of : \A j \in of : j <= k]]
  BY <1>2, Zenon DEF Modules
<1> QED BY <1>3, <1>4, Zenon

-----------------------------------------------------------------------------
(* The records keep their fields. *)

Fields ==
  /\ DOMAIN shader = {"file", "locations", "strides", "descriptors", "spirv", "modules", "layout"}
  /\ DOMAIN pipeline = {"handle", "made", "viewports", "blend", "colors", "depth", "asked", "reset"}
  /\ DOMAIN pool = {"map", "amount", "made"}
  /\ DOMAIN set = {"handle", "known", "content"}

LEMMA FieldsInit == Init => Fields
  BY DEF Init, Fields, NoShader

LEMMA FieldsStep == Fields /\ [Next]_vars => Fields'
<1> SUFFICES ASSUME Fields, [Next]_vars PROVE Fields'
  OBVIOUS
<1>1. \A s, file : DOMAIN InitializeShader(s, file) = DOMAIN s /\ DOMAIN MakeShader(s) = DOMAIN s
  BY DEF InitializeShader, Parse, MakeShader
<1>2. \A p, s, handle : DOMAIN Created(p, s, handle) = DOMAIN p
  BY DEF Created
<1>3. \A s : DOMAIN Pooled(s) = DOMAIN pool
  BY DEF Pooled
<1>4. \A p, s : \A new \in SetsOf(p, s) : DOMAIN new = {"handle", "known", "content"}
  BY DEF SetsOf
<1>5. \A name, with : DOMAIN SetContent(name, with) = DOMAIN set
  BY DEF SetContent
<1>6. ASSUME NEW file, NEW pass, NEW colors, Initialize(file, pass, colors)
      PROVE  Fields'
  BY <1>1, <1>2, <1>3, <1>4, <1>6 DEF Initialize, Makes, Fields
<1>7. ASSUME BuildByHand
      PROVE  Fields'
  <2>1. DOMAIN shader' = DOMAIN shader /\ DOMAIN pool' = DOMAIN pool
    BY <1>7 DEF BuildByHand, AddAttribute, AddShaderModule, AddDescriptor
  <2> QED BY <1>7, <2>1 DEF BuildByHand, Fields
<1>8. ASSUME NEW colors, NEW told, InitializeByHand(colors, told)
      PROVE  Fields'
  <2>1. DOMAIN pool' = DOMAIN pool
    <3>1. pool' = Pooled(MakeShader(shader)) \/ pool' = pool
      BY <1>8 DEF InitializeByHand
    <3> QED BY <1>3, <3>1
  <2>2. PICK new : new \in SetsOf(pool, MakeShader(shader)) /\ set' = new
    BY <1>8 DEF InitializeByHand
  <2>3. DOMAIN set' = {"handle", "known", "content"}
    BY <1>4, <2>2
  <2>4. /\ shader' = MakeShader(shader)
        /\ pipeline' = Created([pipeline EXCEPT !.colors = colors], MakeShader(shader), NextHandle)
    BY <1>8 DEF InitializeByHand, Makes
  <2>5. DOMAIN shader' = DOMAIN shader /\ DOMAIN pipeline' = DOMAIN pipeline
    BY <1>1, <1>2, <2>4
  <2> QED BY <2>1, <2>3, <2>5 DEF Fields
<1>9. ASSUME AddViewport
      PROVE  Fields'
  <2>1. DOMAIN pipeline' = DOMAIN pipeline
    BY <1>2, <1>9 DEF AddViewport
  <2> QED BY <1>9, <2>1 DEF AddViewport, Fields
<1>10. ASSUME NEW on, SetTestDepth(on)
       PROVE  Fields'
  BY <1>10 DEF SetTestDepth, Fields
<1>11. ASSUME NEW op, NEW name, NEW with, Call(op, name, with)
       PROVE  Fields'
  BY <1>11 DEF Call, Fields
<1>12. ASSUME Bind
       PROVE  Fields'
  BY <1>5, <1>12 DEF Bind, Fields
<1>13. ASSUME Reset
       PROVE  Fields'
  BY <1>13 DEF Reset, Fields
<1>14. ASSUME NEW r, Transition(r)
       PROVE  Fields'
  BY <1>14 DEF Transition, Fields
<1>15. ASSUME NEW subpass, Draw(subpass)
       PROVE  Fields'
  BY <1>15 DEF Draw, Fields
<1>16. ASSUME Submit \/ Complete
       PROVE  Fields'
  BY <1>16 DEF Submit, Complete, Fields
<1>17. ASSUME UNCHANGED vars
       PROVE  Fields'
  BY <1>17 DEF vars, Fields
<1> QED BY <1>6, <1>7, <1>8, <1>9, <1>10, <1>11, <1>12, <1>13, <1>14, <1>15, <1>16, <1>17
        DEF Next, OfRenderer, OfFrames

(* Each record of the renderer has the fields of the class it stands for   *)
(* (NyxShaderData, PipelineData, DescriptorPoolData, DescriptorData).      *)
LEMMA FieldsAlways == Spec => []Fields
  BY FieldsInit, FieldsStep, PTL DEF Spec

-----------------------------------------------------------------------------
(* The frames and the set they were drawn with. *)

LEMMA InItsRange ==
  ASSUME NEW S, NEW t \in Seq(S)
  PROVE  t \in Seq(Range(t))
<1> PICK m \in Nat : m = Len(t)
  BY LenProperties
<1> PICK R : R = Range(t)
  OBVIOUS
<1>1. t \in [1 .. m -> S]
  BY LenProperties
<1>2. \A k \in 1 .. m : t[k] \in R
  BY <1>1 DEF Range
<1>3. t \in [1 .. m -> R]
  BY <1>1, <1>2
<1>4. t \in Seq(R)
  BY <1>3, SeqDef
<1> QED BY <1>4

LEMMA Grows ==
  ASSUME NEW s, s \in Seq(Range(s)), NEW e
  PROVE  /\ Append(s, e) \in Seq(Range(Append(s, e)))
         /\ \A k \in DOMAIN Append(s, e) : Append(s, e)[k] = e \/ \E j \in DOMAIN s : Append(s, e)[k] = s[j]
<1> PICK R, S : R = Range(s) /\ S = Range(s) \union {e}
  OBVIOUS
<1> PICK n \in Nat : n = Len(s)
  BY LenProperties
<1>1. DOMAIN s = 1 .. n /\ \A k \in 1 .. n : s[k] \in S
  BY DEF Range
<1>2. s \in Seq(S)
  BY <1>1
<1> PICK t : t = Append(s, e)
  OBVIOUS
<1>3. t \in Seq(S) /\ Len(t) = n + 1 /\ DOMAIN t = 1 .. n + 1 /\ t[n + 1] = e /\ \A k \in 1 .. n : t[k] = s[k]
  BY <1>2
<1>4. t \in Seq(Range(t))
  BY <1>3, InItsRange
<1>5. \A k \in DOMAIN t : t[k] = e \/ \E j \in DOMAIN s : t[k] = s[j]
  BY <1>1, <1>3
<1> QED BY <1>4, <1>5

LEMMA Shrinks ==
  ASSUME NEW s, s \in Seq(Range(s)), s # <<>>
  PROVE  /\ Tail(s) \in Seq(Range(Tail(s)))
         /\ \A k \in DOMAIN Tail(s) : \E j \in DOMAIN s : Tail(s)[k] = s[j]
<1> PICK S : S = Range(s)
  OBVIOUS
<1> PICK n \in Nat : n = Len(s)
  BY LenProperties
<1>1. s \in Seq(S) /\ DOMAIN s = 1 .. n /\ n > 0
  BY EmptySeq
<1> PICK t : t = Tail(s)
  OBVIOUS
<1>2. t \in Seq(S) /\ Len(t) = n - 1 /\ DOMAIN t = 1 .. n - 1 /\ \A k \in 1 .. n - 1 : t[k] = s[k + 1]
  BY <1>1
<1>3. t \in Seq(Range(t))
  BY <1>2, InItsRange
<1>4. \A k \in DOMAIN t : \E j \in DOMAIN s : t[k] = s[j]
  <2>1. \A k \in 1 .. n - 1 : k + 1 \in 1 .. n
    BY <1>1
  <2> QED BY <1>1, <1>2, <2>1
<1> QED BY <1>3, <1>4

\* The renderer is initialised once.
Once == {"again", "anew"} \cap RendererLiberties = {}

FrameInv ==
  /\ pipeline.handle \in Nat
  /\ pending \in Seq(Range(pending))
  /\ ~Initialized => open = Blank /\ pending = <<>> /\ caller.op = "none"
  /\ caller.op = "bind" => open.set = "none"
  /\ DrawnAsBound

LEMMA FrameInit == Init => FrameInv
<1> SUFFICES ASSUME Init PROVE FrameInv
  OBVIOUS
<1>1. pending = <<>> /\ open = Blank /\ pipeline.handle = 0 /\ caller.op = "none"
  BY DEF Init, Idle
<1>2. open.set = "none"
  BY <1>1 DEF Blank
<1>3. <<>> \in Seq(Range(<<>>)) /\ DOMAIN <<>> = {}
  OBVIOUS
<1> QED BY <1>1, <1>2, <1>3 DEF FrameInv, DrawnAsBound, Initialized

\* A pipeline of a renderer that has none yet.
LEMMA FrameMakes ==
  ASSUME Fields, FrameInv, ~Initialized, NEW s, NEW colors, Makes(s, colors), UNCHANGED <<caller, recording>>
  PROVE  FrameInv'
<1>1. pipeline'.handle = NextHandle
  BY DEF Makes, Created, Fields
<1>2. NextHandle \in Nat /\ NextHandle # 0
  BY DEF NextHandle, FrameInv
<1>3. open' = Blank /\ pending' = <<>> /\ caller' = caller
  BY DEF FrameInv, recording
<1>4. open'.set = "none" /\ DOMAIN pending' = {} /\ pending' \in Seq(Range(pending'))
  <2>1. <<>> \in Seq(Range(<<>>)) /\ DOMAIN <<>> = {}
    OBVIOUS
  <2> QED BY <1>3, <2>1 DEF Blank
<1> QED BY <1>1, <1>2, <1>3, <1>4 DEF FrameInv, Initialized, DrawnAsBound

LEMMA FrameStep ==
  ASSUME Once, ~Permits("rebind"), Fields, FrameInv, [Next]_vars
  PROVE  FrameInv'
<1>1. ASSUME NEW file, NEW pass, NEW colors, Initialize(file, pass, colors)
      PROVE  FrameInv'
  <2>1. ~Initialized
    BY <1>1 DEF Initialize, MayInitialize, Once, Permits
  <2> QED BY <1>1, <2>1, FrameMakes DEF Initialize
<1>2. ASSUME NEW colors, NEW told, InitializeByHand(colors, told)
      PROVE  FrameInv'
  BY <1>2, FrameMakes DEF InitializeByHand
<1>3. ASSUME AddViewport
      PROVE  FrameInv'
  <2>1. pipeline'.handle \in Nat /\ (pipeline'.handle = 0 => pipeline.handle = 0)
    BY <1>3 DEF AddViewport, MustRemake, NextHandle, Created, Initialized, Fields, FrameInv
  <2> QED BY <1>3, <2>1 DEF AddViewport, FrameInv, DrawnAsBound, Initialized, recording
<1>4. ASSUME NEW on, SetTestDepth(on)
      PROVE  FrameInv'
  <2>1. pipeline'.handle = pipeline.handle
    BY <1>4 DEF SetTestDepth, Fields
  <2> QED BY <1>4, <2>1 DEF SetTestDepth, FrameInv, DrawnAsBound, Initialized, recording
<1>5. ASSUME NEW op, NEW name, NEW with, Call(op, name, with)
      PROVE  FrameInv'
  <2>1. Initialized /\ caller'.op = op /\ (op = "bind" => open.set = "none")
    BY <1>5 DEF Call
  <2> QED BY <1>5, <2>1 DEF Call, FrameInv, DrawnAsBound, Initialized, recording
<1>6. ASSUME Bind
      PROVE  FrameInv'
  <2>1. open.set = "none" /\ pending = <<>> /\ caller'.op = "none"
    BY <1>6 DEF Bind, DeviceIdle, FrameInv, Idle
  <2>2. open' = open /\ pending' = pending /\ pipeline' = pipeline /\ DOMAIN pending' = {}
    <3>1. DOMAIN <<>> = {}
      OBVIOUS
    <3>2. open' = open /\ pending' = pending /\ pipeline' = pipeline
      BY <1>6 DEF Bind, recording
    <3> QED BY <2>1, <3>1, <3>2, Zenon
  <2>3. pending' \in Seq(Range(pending')) /\ (~Initialized' => open' = Blank /\ pending' = <<>>)
    BY <2>2, Zenon DEF FrameInv, Initialized
  <2> QED BY <2>1, <2>2, <2>3 DEF FrameInv, DrawnAsBound
<1>7. ASSUME Reset
      PROVE  FrameInv'
  <2>1. pipeline'.handle = pipeline.handle /\ caller'.op = "none"
    BY <1>7 DEF Reset, Fields, Idle
  <2> QED BY <1>7, <2>1 DEF Reset, FrameInv, DrawnAsBound, Initialized, recording
<1>8. ASSUME BuildByHand
      PROVE  FrameInv'
  BY <1>8 DEF BuildByHand, FrameInv, DrawnAsBound, Initialized, recording
<1>9. ASSUME NEW r, Transition(r)
      PROVE  FrameInv'
  <2>1. open.set = "none" /\ DOMAIN pending = {}
    BY <1>9 DEF Transition, Blank
  <2> QED BY <1>9, <2>1 DEF Transition, FrameInv, DrawnAsBound, Initialized, recording
<1>10. ASSUME NEW subpass, Draw(subpass)
       PROVE  FrameInv'
  <2>1. Initialized /\ caller.op = "none" /\ (open'.set = "made" => open'.content = set.content)
    BY <1>10 DEF Draw, Ready
  <2> QED BY <1>10, <2>1 DEF Draw, FrameInv, DrawnAsBound, Initialized
<1>11. ASSUME Submit
       PROVE  FrameInv'
  <2>1. Initialized /\ caller.op = "none" /\ open'.set = "none"
    BY <1>11 DEF Submit, Ready, FrameInv, Blank
  <2>2. /\ pending' \in Seq(Range(pending'))
        /\ \A k \in DOMAIN pending' : pending'[k] = open \/ \E j \in DOMAIN pending : pending'[k] = pending[j]
    <3>1. pending' = Append(pending, open) /\ pending \in Seq(Range(pending))
      BY <1>11 DEF Submit, FrameInv
    <3>2. /\ Append(pending, open) \in Seq(Range(Append(pending, open)))
          /\ \A k \in DOMAIN Append(pending, open) :
               Append(pending, open)[k] = open \/ \E j \in DOMAIN pending : Append(pending, open)[k] = pending[j]
      BY <3>1, Grows
    <3> QED BY <3>1, <3>2, Zenon
  <2>3. \A k \in DOMAIN pending' : pending'[k].set = "made" => pending'[k].content = set.content
    BY <2>2 DEF FrameInv, DrawnAsBound
  <2> QED BY <1>11, <2>1, <2>2, <2>3 DEF Submit, FrameInv, DrawnAsBound, Initialized
<1>12. ASSUME Complete
       PROVE  FrameInv'
  <2>1. Initialized
    BY <1>12 DEF Complete, FrameInv
  <2>2. /\ pending' \in Seq(Range(pending'))
        /\ \A k \in DOMAIN pending' : \E j \in DOMAIN pending : pending'[k] = pending[j]
    BY <1>12, Shrinks, Zenon DEF Complete, FrameInv
  <2>3. \A k \in DOMAIN pending' : pending'[k].set = "made" => pending'[k].content = set.content
    BY <2>2 DEF FrameInv, DrawnAsBound
  <2> QED BY <1>12, <2>1, <2>2, <2>3 DEF Complete, FrameInv, DrawnAsBound, Initialized
<1>13. ASSUME UNCHANGED vars
       PROVE  FrameInv'
  BY <1>13 DEF vars, FrameInv, DrawnAsBound, Initialized
<1> QED BY <1>1, <1>2, <1>3, <1>4, <1>5, <1>6, <1>7, <1>8, <1>9, <1>10, <1>11, <1>12, <1>13
        DEF Next, OfRenderer, OfFrames

(* A frame finds the set as it was when it was drawn, as long as none is   *)
(* bound in between and the renderer is initialised once (Renderer::bind,  *)
(* which waits for the device): whatever the files say, and whether their  *)
(* pipelines, sets and stages are sound or not.                            *)
THEOREM FramesDrawnAsBound ==
  ASSUME {"rebind", "again", "anew"} \cap RendererLiberties = {}
  PROVE  Spec => []DrawnAsBound
<1>1. Once /\ ~Permits("rebind")
  BY DEF Once, Permits
<1>2. Fields /\ FrameInv /\ [Next]_vars => FrameInv'
  BY <1>1, FrameStep
<1>3. FrameInv => DrawnAsBound
  BY DEF FrameInv
<1> QED BY <1>2, <1>3, FrameInit, FieldsAlways, PTL DEF Spec

-----------------------------------------------------------------------------
(* The shader, and the pool and the pipeline made of it. *)

Working == \A file \in Files : Works(file)

\* The pool is told of the uniforms of the layout, and alike.
Agree(p, s) ==
  /\ IsFiniteSet(DOMAIN s.descriptors) /\ DOMAIN p.map = DOMAIN s.descriptors
  /\ p.amount \in Nat \ {0}
  /\ \A n \in DOMAIN s.descriptors :
       /\ s.descriptors[n].type \in DescriptorTypes /\ s.descriptors[n].stages \subseteq Stages
       /\ p.map[n].size = s.descriptors[n].count
       /\ p.map[n].binding = s.descriptors[n].binding
       /\ PoolType(p.map[n].type) = s.descriptors[n].type

\* The attributes are at the locations 0, 1, 2 and so on.
Located(s) == s.locations \in Seq(Nat) /\ \A k \in DOMAIN s.locations : s.locations[k] = k - 1

\* The stages of the layout are those that declare the uniform.
Seen(s) ==
  \A stage \in DOMAIN s.file.map : \A k \in DOMAIN s.file.map[stage] :
    stage \in s.descriptors[s.file.map[stage][k].name].stages

\* Every stage has its own code, and there is an output or none.
Compiled(s) ==
  /\ s.spirv \subseteq Stages /\ s.modules = [stage \in s.spirv |-> stage]
  /\ s.file.outputs \in {0, 1}
  /\ Seen(s)

\* The pipeline is made of what the shader is, and of what it is told.
Follows(p, s) ==
  /\ p.made.stages = {<<stage, stage>> : stage \in s.spirv}
  /\ p.made.locations = s.locations
  /\ p.made.blend = p.blend /\ p.made.colors = p.colors /\ p.colors = s.file.outputs
  /\ p.blend = [k \in 1 .. p.colors |-> TRUE]

\* The driver had a set to give, or there is an array.
SetGiven == set.handle = "failed" => \E n \in DOMAIN shader.descriptors : shader.descriptors[n].count # 1

Untouched ==
  /\ shader.file = EmptyFile /\ shader.modules = Nothing /\ shader.spirv \subseteq {"Vertex", "Fragment"}
  /\ ~pool.made /\ set.handle = "none" /\ caller.op = "none"
  /\ pipeline.blend = <<TRUE>> /\ ~pipeline.reset

ShaderInv ==
  /\ Agree(pool, shader) /\ Located(shader) /\ SetGiven
  /\ ~Initialized => Untouched
  /\ Initialized => Compiled(shader) /\ Follows(pipeline, shader)
  /\ pipeline.handle \in 0 .. MaxPipelines
  /\ alive = IF Initialized /\ ~pipeline.reset THEN {pipeline.handle} ELSE {}

\* Uniforms of a file that works, to the pool and to the layout.
LEMMA TypesAgree ==
  ASSUME NEW type \in {"Ubo", "None", "Sampler"}
  PROVE  PoolType(type) = LayoutType(type, "")
BY DEF PoolType, LayoutType

(* The names of the uniforms are finitely many.                            *)
LEMMA NamesFinite ==
  ASSUME NEW us, NEW n \in Nat
  PROVE  IsFiniteSet(NamesUpTo(us, n))
<1>1. IsFiniteSet(1 .. n)
  BY FS_Interval
<1> PICK f : f = [j \in 1 .. n |-> us[j].is.name]
  OBVIOUS
<1>2. f \in Surjection(1 .. n, NamesUpTo(us, n))
  BY DEF Surjection, NamesUpTo
<1> QED BY <1>1, <1>2, FS_Surjection

(* What a file that works makes of a new shader, and of a new pool.        *)
LEMMA ReadIs ==
  ASSUME Fields, NEW file \in Files, Works(file), shader.file = EmptyFile, shader.locations = <<>>,
         shader.spirv = {}, DOMAIN pool.map = {}, NEW s, s = InitializeShader(shader, file)
  PROVE  /\ Agree(Pooled(s), s) /\ Located(s) /\ Compiled(s)
         /\ DOMAIN s.file.map # {} /\ s.spirv = DOMAIN s.file.map
<1> PICK new : new = Load(EmptyFile, file)
  OBVIOUS
<1>1. /\ new.inputs = file.inputs /\ new.outputs \in {0, 1}
      /\ IsMap(new.map) /\ DOMAIN new.map # {}
      /\ "Tess_C" \notin DOMAIN new.map /\ "Tess_E" \notin DOMAIN new.map
      /\ Consistent(Declared(new.map))
  BY LoadIs
<1>2. /\ s.file = new /\ s.locations = <<>> \o Locations(new.inputs)
      /\ s.descriptors = Reflect(new.map) /\ s.spirv = {} \union DOMAIN new.map
      /\ s.modules = Modules({} \union DOMAIN new.map)
  BY DEF InitializeShader, MakeShader, Parse, Fields
<1>3. Located(s)
  <2>1. file.inputs \in Seq(STRING) /\ \A k \in DOMAIN file.inputs : Rows(file.inputs[k]) = 1
    BY FilesAssumption DEF FilesOf, Works
  <2> PICK L : L = Locations(new.inputs)
    OBVIOUS
  <2>2. L \in Seq(Nat) /\ \A k \in DOMAIN L : L[k] = k - 1
    BY <1>1, <2>1, LocationsAre
  <2>3. s.locations = L
    BY <1>2, <2>2, ConcatEmptySeq
  <2> QED BY <2>2, <2>3 DEF Located
<1> PICK us : us = Declared(new.map)
  OBVIOUS
<1>4. Consistent(us) /\ us = Declared(s.file.map) /\ Len(us) \in Nat /\ DOMAIN us = 1 .. Len(us)
  BY <1>1, <1>2 DEF Consistent
<1>5. /\ s.descriptors \in [NamesUpTo(us, Len(us)) -> Bindings]
      /\ \A k \in DOMAIN us : Fits(s.descriptors[us[k].is.name], us[k])
  BY <1>1, <1>2, ReflectsAll
<1>6. /\ DOMAIN Uniforms(pool.map, s) = NamesUpTo(us, Len(us))
      /\ \A k \in DOMAIN us : Uniforms(pool.map, s)[us[k].is.name] = us[k].is
  <2> PICK m : m = pool.map
    OBVIOUS
  <2>1. DOMAIN m = {} /\ us = Declared(s.file.map) /\ Consistent(us)
    BY <1>4
  <2>2. DOMAIN Uniforms(m, s) = NamesUpTo(us, Len(us)) /\ Listed(Uniforms(m, s), us)
    BY <2>1, TellsAll, ZenonT(40)
  <2> QED BY <2>2, Zenon DEF Listed
<1>7. Pooled(s).map = Uniforms(pool.map, s) /\ Pooled(s).amount = 1
  BY <1>1, <1>2 DEF Pooled, Fields
<1>8. Agree(Pooled(s), s)
  <2>1. IsFiniteSet(DOMAIN s.descriptors) /\ DOMAIN Pooled(s).map = DOMAIN s.descriptors
    BY <1>4, <1>5, <1>6, <1>7, NamesFinite
  <2>2. ASSUME NEW n \in DOMAIN s.descriptors
        PROVE  /\ s.descriptors[n].type \in DescriptorTypes /\ s.descriptors[n].stages \subseteq Stages
               /\ Pooled(s).map[n].size = s.descriptors[n].count
               /\ Pooled(s).map[n].binding = s.descriptors[n].binding
               /\ PoolType(Pooled(s).map[n].type) = s.descriptors[n].type
    <3>1. PICK k \in DOMAIN us : n = us[k].is.name
      BY <1>4, <1>5, <2>2 DEF NamesUpTo
    <3> PICK d, u : d = s.descriptors[n] /\ u = us[k]
      OBVIOUS
    <3>2. d \in Bindings
      BY <1>5, <2>2
    <3>3. Fits(d, u) /\ Pooled(s).map[n] = u.is
      BY <1>5, <1>6, <1>7, <3>1
    <3>4. u.is.type \in {"Ubo", "None", "Sampler"}
      BY <1>4 DEF Consistent
    <3>5. PoolType(u.is.type) = LayoutType(u.is.type, "")
      BY <3>4, TypesAgree
    <3> QED BY <3>2, <3>3, <3>4, <3>5 DEF Fits, Bindings
  <2> QED BY <1>7, <2>1, <2>2 DEF Agree
<1>9. Seen(s)
  <2> SUFFICES ASSUME NEW stage \in DOMAIN new.map, NEW k \in DOMAIN new.map[stage]
               PROVE  stage \in s.descriptors[new.map[stage][k].name].stages
    BY <1>2 DEF Seen
  <2> PICK u : u = new.map[stage][k]
    OBVIOUS
  <2>1. u \in Range(new.map[stage])
    BY DEF Range
  <2>2. [stage |-> stage, is |-> u] \in Range(us)
    BY <1>1, <2>1, DeclaredIs
  <2>3. PICK j \in DOMAIN us : us[j] = [stage |-> stage, is |-> u]
    BY <2>2 DEF Range
  <2>4. us[j].stage \in s.descriptors[us[j].is.name].stages
    BY <1>5 DEF Fits
  <2> QED BY <2>3, <2>4
<1>10. Compiled(s)
  <2>1. {} \union DOMAIN new.map = DOMAIN new.map /\ DOMAIN new.map \subseteq Stages
    BY <1>1 DEF IsMap
  <2>2. Modules(DOMAIN new.map) = [stage \in DOMAIN new.map |-> stage]
    BY <1>1, <2>1, ModulesAre
  <2> QED BY <1>1, <1>2, <1>9, <2>1, <2>2 DEF Compiled
<1> QED BY <1>1, <1>2, <1>3, <1>8, <1>10

(* A pool that is told of every uniform has enough for a set if each is    *)
(* one resource: the amount is of every type.                              *)
LEMMA ServesAll ==
  ASSUME NEW p, NEW s, Agree(p, s), \A n \in DOMAIN s.descriptors : s.descriptors[n].count = 1
  PROVE  Serves(p, s)
<1> SUFFICES ASSUME NEW type \in DescriptorTypes
             PROVE  Takes(s, type) <= Holds(p, type)
  BY DEF Serves
<1> PICK D, of : D = DOMAIN s.descriptors /\ of = {n \in DOMAIN s.descriptors : s.descriptors[n].type = type}
  OBVIOUS
<1>1. IsFiniteSet(of)
  BY FS_Subset DEF Agree
<1> PICK c \in Nat : c = Cardinality(of)
  BY <1>1, FS_CardinalityType
<1>2. Takes(s, type) = c
  <2>1. \A n \in of : s.descriptors[n].count = 1
    BY DEF Agree
  <2>2. 1 .. 1 = {1}
    OBVIOUS
  <2>3. {{n} \X (1 .. s.descriptors[n].count) : n \in of} = {{n} \X {1} : n \in of}
    BY <2>1, <2>2
  <2>4. UNION {{n} \X {1} : n \in of} = of \X {1}
    OBVIOUS
  <2>5. Cardinality(of \X {1}) = Cardinality(of) * Cardinality({1}) /\ Cardinality({1}) = 1
    BY <1>1, FS_Product, FS_Singleton
  <2>6. Takes(s, type) = Cardinality(UNION {{n} \X (1 .. s.descriptors[n].count) : n \in of})
    BY Zenon DEF Takes
  <2>7. Takes(s, type) = Cardinality(of \X {1})
    BY <2>3, <2>4, <2>6, Zenon
  <2> QED BY <2>5, <2>7
<1>3. Holds(p, type) = p.amount * c
  <2>1. {n \in DOMAIN p.map : PoolType(p.map[n].type) = type} = of
    BY DEF Agree
  <2> QED BY <2>1, Zenon DEF Holds
<1>4. c <= p.amount * c
  <2>1. PICK a \in Nat : p.amount = a + 1
    <3>1. p.amount - 1 \in Nat /\ p.amount = (p.amount - 1) + 1
      BY DEF Agree
    <3> QED BY <3>1, Zenon
  <2>2. \A x, y \in Nat : y <= (x + 1) * y
    <3> SUFFICES ASSUME NEW x \in Nat, NEW y \in Nat
                 PROVE  y <= (x + 1) * y
      OBVIOUS
    <3>1. x * y \in Nat /\ (x + 1) * y = x * y + y
      BY SMTT(30)
    <3> QED BY <3>1
  <2>3. c <= (a + 1) * c
    BY <2>2
  <2> QED BY <2>1, <2>3
<1> QED BY <1>2, <1>3, <1>4

(* Nothing was added by hand. *)
LEMMA NothingAdded ==
  ASSUME Located(shader), IsFiniteSet(DOMAIN shader.descriptors), shader.spirv \subseteq {"Vertex", "Fragment"},
         HandSize = 0
  PROVE  shader.locations = <<>> /\ DOMAIN shader.descriptors = {} /\ shader.spirv = {}
<1>1. IsFiniteSet({"Vertex", "Fragment"})
  <2>1. IsFiniteSet({"Vertex"} \union {"Fragment"})
    BY FS_Singleton, FS_AddElement
  <2>2. {"Vertex"} \union {"Fragment"} = {"Vertex", "Fragment"}
    OBVIOUS
  <2> QED BY <2>1, <2>2, Zenon
<1>2. IsFiniteSet(shader.spirv)
  BY <1>1, FS_Subset
<1>3. /\ Cardinality(shader.spirv) \in Nat /\ Cardinality(DOMAIN shader.descriptors) \in Nat
      /\ Len(shader.locations) \in Nat
  BY <1>2, FS_CardinalityType DEF Located
<1>4. Cardinality(shader.spirv) = 0 /\ Cardinality(DOMAIN shader.descriptors) = 0 /\ Len(shader.locations) = 0
  BY <1>3 DEF HandSize
<1> QED BY <1>2, <1>4, FS_EmptySet, EmptySeq DEF Located

(* The attachments keep the colours they write. *)
LEMMA BlendIs ==
  ASSUME NEW n \in Nat, NEW single, single = <<TRUE>>, NEW all, all = [k \in 1 .. n |-> TRUE]
  PROVE  (n <= 1 => Resized(single, n) = all) /\ Resized(all, n) = all
<1>1. ASSUME NEW T, NEW b \in Seq({T}), n <= Len(b)
      PROVE  [k \in 1 .. n |-> IF k <= Len(b) THEN b[k] ELSE FALSE] = [k \in 1 .. n |-> T]
  <2>1. \A k \in 1 .. n : k \in 1 .. Len(b) /\ k <= Len(b)
    BY <1>1
  <2>2. \A k \in 1 .. Len(b) : b[k] \in {T}
    BY ElementOfSeq
  <2>3. \A k \in 1 .. n : (IF k <= Len(b) THEN b[k] ELSE FALSE) = T
    BY <2>1, <2>2, Zenon
  <2> QED BY <2>3, Zenon
<1>2. <<TRUE>> \in Seq({TRUE}) /\ Len(<<TRUE>>) = 1
  <2>1. \A T : <<T>> \in Seq({T}) /\ Len(<<T>>) = 1
    OBVIOUS
  <2> QED BY <2>1, Zenon
<1>3. [k \in 1 .. n |-> TRUE] \in Seq({TRUE}) /\ Len([k \in 1 .. n |-> TRUE]) = n
  <2>1. \A T : [k \in 1 .. n |-> T] \in Seq({T}) /\ Len([k \in 1 .. n |-> T]) = n
    OBVIOUS
  <2> QED BY <2>1, Zenon
<1>4. ASSUME NEW T, NEW b \in Seq({T}), n <= Len(b)
      PROVE  Resized(b, n) = [k \in 1 .. n |-> T]
  BY <1>1, <1>4, Zenon DEF Resized
<1>5. n <= 1 => Resized(single, n) = all
  <2>1. single \in Seq({TRUE}) /\ (n <= 1 => n <= Len(single))
    BY <1>2, Zenon
  <2> QED BY <1>4, <2>1, Zenon
<1>6. Resized(all, n) = all
  <2>1. n <= n
    OBVIOUS
  <2>2. all \in Seq({TRUE}) /\ n <= Len(all)
    BY <1>3, <2>1, Zenon
  <2> QED BY <1>4, <2>2, Zenon
<1> QED BY <1>5, <1>6, Zenon

LEMMA ShaderInit == Init => ShaderInv
<1> SUFFICES ASSUME Init PROVE ShaderInv
  OBVIOUS
<1>1. /\ shader.file = EmptyFile /\ shader.modules = Nothing /\ shader.spirv = {} /\ shader.locations = <<>>
      /\ shader.descriptors = Nothing /\ pool.map = Nothing /\ pool.amount = 20 /\ ~pool.made
      /\ set.handle = "none" /\ caller.op = "none" /\ pipeline.handle = 0 /\ ~pipeline.reset /\ alive = {}
  BY DEF Init, NoShader, Idle
<1>2. pipeline.blend = <<TRUE>>
  BY Zenon DEF Init
<1>3. DOMAIN Nothing = {} /\ IsFiniteSet({})
  BY FS_EmptySet DEF Nothing
<1>4. Agree(pool, shader)
  BY <1>1, <1>3 DEF Agree
<1>5. Located(shader)
  <2>1. <<>> \in Seq(Nat) /\ DOMAIN <<>> = {}
    OBVIOUS
  <2> QED BY <1>1, <2>1 DEF Located
<1>6. 0 \in 0 .. MaxPipelines /\ ~Initialized
  BY <1>1, RendererAssumption DEF Initialized
<1> QED BY <1>1, <1>2, <1>4, <1>5, <1>6 DEF ShaderInv, Untouched, SetGiven

(* A pipeline that is made, or made again, of a shader that is sound.      *)
LEMMA CreatedIs ==
  ASSUME NEW p, DOMAIN p = DOMAIN pipeline, Fields, NEW s, NEW handle, Compiled(s),
         p.colors = s.file.outputs, p.blend = <<TRUE>> \/ p.blend = [k \in 1 .. p.colors |-> TRUE]
  PROVE  /\ Follows(Created(p, s, handle), s)
         /\ Created(p, s, handle).handle = handle /\ ~Created(p, s, handle).reset
<1> PICK blend : blend = Resized(p.blend, s.file.outputs)
  OBVIOUS
<1> PICK new : new = Created(p, s, handle)
  OBVIOUS
<1>1. /\ new.handle = handle /\ new.reset = FALSE /\ new.blend = blend /\ new.colors = p.colors
      /\ new.made.stages = {<<t, s.modules[t]>> : t \in DOMAIN s.modules}
      /\ new.made.locations = s.locations /\ new.made.blend = blend /\ new.made.colors = p.colors
  BY DEF Created, Fields
<1>2. new.made.stages = {<<stage, stage>> : stage \in s.spirv}
  BY <1>1 DEF Compiled
<1>3. blend = [k \in 1 .. p.colors |-> TRUE]
  <2>1. s.file.outputs \in Nat /\ s.file.outputs <= 1
    BY DEF Compiled
  <2>2. ASSUME NEW n \in Nat, n <= 1, n = s.file.outputs
        PROVE  Resized(p.blend, n) = [k \in 1 .. n |-> TRUE]
    <3>1. CASE p.blend = <<TRUE>>
      BY ONLY <2>2, <3>1, n \in Nat, BlendIs, ZenonT(60)
    <3>2. CASE p.blend = [k \in 1 .. n |-> TRUE]
      BY ONLY <2>2, <3>2, n \in Nat, BlendIs, Zenon
    <3>3. p.colors = n
      BY <2>2
    <3>4. p.blend = <<TRUE>> \/ p.blend = [k \in 1 .. n |-> TRUE]
      BY <3>3, Zenon
    <3> QED BY <3>1, <3>2, <3>4, Zenon
  <2>3. PICK n \in Nat : n = s.file.outputs /\ n <= 1
    BY <2>1
  <2>4. blend = [k \in 1 .. n |-> TRUE] /\ n = p.colors
    BY <2>2, <2>3, Zenon
  <2> QED BY <2>4, Zenon
<1> QED BY <1>1, <1>2, <1>3, Zenon DEF Follows

LEMMA ShaderMakes ==
  ASSUME Fields, ShaderInv, ~Initialized, ~Permits("colors"), NEW s, NEW colors, Makes(s, colors),
         Agree(pool', s), Located(s), Compiled(s),
         set'.handle = "failed" => \E n \in DOMAIN s.descriptors : s.descriptors[n].count # 1
  PROVE  ShaderInv'
<1>1. pipeline.blend = <<TRUE>> /\ alive = {}
  BY DEF ShaderInv, Untouched
<1>2. colors = s.file.outputs /\ NextHandle <= MaxPipelines
  BY DEF Makes
<1> PICK p : p = [pipeline EXCEPT !.colors = colors]
  OBVIOUS
<1>3. DOMAIN p = DOMAIN pipeline /\ p.colors = s.file.outputs /\ p.blend = <<TRUE>>
  <2>1. DOMAIN p = DOMAIN pipeline /\ p.colors = colors /\ p.blend = pipeline.blend
    BY DEF Fields
  <2> QED BY <1>1, <1>2, <2>1, Zenon
<1>4. /\ Follows(Created(p, s, NextHandle), s)
      /\ Created(p, s, NextHandle).handle = NextHandle /\ ~Created(p, s, NextHandle).reset
  <2>1. p.blend = <<TRUE>> \/ p.blend = [k \in 1 .. p.colors |-> TRUE]
    BY <1>3, Zenon
  <2>2. ASSUME NEW q, DOMAIN q = DOMAIN pipeline, q.colors = s.file.outputs,
               q.blend = <<TRUE>> \/ q.blend = [k \in 1 .. q.colors |-> TRUE]
        PROVE  /\ Follows(Created(q, s, NextHandle), s)
               /\ Created(q, s, NextHandle).handle = NextHandle /\ ~Created(q, s, NextHandle).reset
    BY <2>2, CreatedIs
  <2> QED BY <1>3, <2>1, <2>2
<1>5. NextHandle \in 0 .. MaxPipelines /\ NextHandle # 0
  BY <1>2, RendererAssumption DEF NextHandle, ShaderInv
<1>6. shader' = s /\ pipeline' = Created(p, s, NextHandle) /\ alive' = {NextHandle}
  BY <1>1 DEF Makes
<1>7. Initialized' /\ ~pipeline'.reset /\ pipeline'.handle = NextHandle
  BY <1>4, <1>5, <1>6 DEF Initialized
<1>8. SetGiven'
  BY <1>6 DEF SetGiven
<1> QED BY <1>4, <1>5, <1>6, <1>7, <1>8 DEF ShaderInv

\* What is asked of a shader that is not made yet.
LEMMA ShaderTouched ==
  ASSUME ShaderInv, ~Initialized, UNCHANGED <<pipeline, alive, set, caller>>, Agree(pool', shader'), Located(shader'),
         shader'.file = shader.file, shader'.modules = shader.modules, pool'.made = pool.made,
         shader'.spirv \subseteq {"Vertex", "Fragment"}
  PROVE  ShaderInv'
<1>1. set'.handle = "none"
  BY DEF ShaderInv, Untouched
<1> QED BY <1>1 DEF ShaderInv, Untouched, Initialized, SetGiven

LEMMA ShaderByHand ==
  ASSUME Fields, ShaderInv, BuildByHand
  PROVE  ShaderInv'
<1>1. ~Initialized /\ UNCHANGED <<pipeline, alive, set, caller>> /\ Agree(pool, shader) /\ Located(shader)
  BY DEF BuildByHand, ShaderInv
<1>2. shader.spirv \subseteq {"Vertex", "Fragment"}
  BY <1>1 DEF ShaderInv, Untouched
<1>3. CASE shader' = AddAttribute(shader, Len(shader.locations), 16) /\ UNCHANGED pool
  <2> PICK L : L = shader.locations
    OBVIOUS
  <2>1. L \in Seq(Nat) /\ \A k \in DOMAIN L : L[k] = k - 1
    BY <1>1 DEF Located
  <2> PICK n \in Nat : n = Len(L)
    BY <2>1
  <2>2. /\ Append(L, n) \in Seq(Nat)
        /\ \A k \in DOMAIN Append(L, n) : Append(L, n)[k] = k - 1
    <3> PICK M : M = Append(L, n)
      OBVIOUS
    <3>1. DOMAIN L = 1 .. n /\ \A k \in 1 .. n : L[k] = k - 1
      BY <2>1
    <3>2. M \in Seq(Nat) /\ DOMAIN M = 1 .. n + 1 /\ M[n + 1] = n /\ \A k \in 1 .. n : M[k] = L[k]
      BY <2>1
    <3>3. \A k \in 1 .. n + 1 : k \in 1 .. n \/ k = n + 1
      OBVIOUS
    <3>4. \A k \in 1 .. n + 1 : M[k] = k - 1
      BY <3>1, <3>2, <3>3
    <3> QED BY <3>2, <3>4
  <2>3. /\ shader'.locations = Append(L, n) /\ shader'.file = shader.file /\ shader'.modules = shader.modules
        /\ shader'.spirv = shader.spirv /\ shader'.descriptors = shader.descriptors
    BY <1>3 DEF AddAttribute, Fields
  <2>4. Located(shader') /\ Agree(pool', shader')
    BY <1>1, <1>3, <2>2, <2>3, ZenonT(40) DEF Located, Agree
  <2> QED BY <1>1, <1>2, <1>3, <2>3, <2>4, ShaderTouched
<1>4. ASSUME NEW stage \in {"Vertex", "Fragment"} \ shader.spirv,
             shader' = AddShaderModule(shader, stage), UNCHANGED pool
      PROVE  ShaderInv'
  <2>1. /\ shader'.locations = shader.locations /\ shader'.file = shader.file /\ shader'.modules = shader.modules
        /\ shader'.spirv = shader.spirv \union {stage} /\ shader'.descriptors = shader.descriptors
    BY <1>4 DEF AddShaderModule, Fields
  <2>2. Located(shader') /\ Agree(pool', shader')
    BY <1>1, <1>4, <2>1 DEF Located, Agree
  <2> QED BY <1>1, <1>2, <1>4, <2>1, <2>2, ShaderTouched
<1>5. ASSUME NEW kind \in {"UniformBuffer", "Sampled"}, shader' = AddDescriptor(shader, kind, kind, "Vertex"),
             pool' = [pool EXCEPT !.map = WithUniform(@,
               [name |-> kind, size |-> 1, binding |-> shader'.descriptors[kind].binding,
                type |-> IF kind = "Sampled" THEN "Sampler" ELSE "Ubo"])]
      PROVE  ShaderInv'
  <2> PICK D, M : D = shader.descriptors /\ M = pool.map
    OBVIOUS
  <2> PICK d : d = [binding |-> Cardinality(DOMAIN D), count |-> 1, stages |-> {"Vertex"}, type |-> HandType(kind)]
    OBVIOUS
  <2> PICK u : u = [name |-> kind, size |-> 1, binding |-> d.binding,
                    type |-> IF kind = "Sampled" THEN "Sampler" ELSE "Ubo"]
    OBVIOUS
  <2>1. /\ shader'.locations = shader.locations /\ shader'.file = shader.file /\ shader'.modules = shader.modules
        /\ shader'.spirv = shader.spirv
        /\ shader'.descriptors = [n \in DOMAIN D \union {kind} |-> IF n = kind THEN d ELSE D[n]]
    BY <1>5 DEF AddDescriptor, Fields
  <2>2. shader'.descriptors[kind] = d
    BY <2>1
  <2>3. /\ pool'.map = [n \in DOMAIN M \union {kind} |-> IF n = kind THEN u ELSE M[n]]
        /\ pool'.amount = pool.amount /\ pool'.made = pool.made
    BY <1>5, <2>2 DEF WithUniform, Fields
  <2>4. d.type \in DescriptorTypes /\ d.stages \subseteq Stages /\ d.count = 1 /\ PoolType(u.type) = d.type
    BY StagesAre DEF HandType, PoolType, DescriptorTypes
  <2>5. IsFiniteSet(DOMAIN D \union {kind}) /\ DOMAIN M = DOMAIN D
    BY <1>1, FS_AddElement DEF Agree
  <2>6. Agree(pool', shader')
    <3>1. ASSUME NEW n \in DOMAIN D \union {kind}
          PROVE  /\ shader'.descriptors[n].type \in DescriptorTypes /\ shader'.descriptors[n].stages \subseteq Stages
                 /\ pool'.map[n].size = shader'.descriptors[n].count
                 /\ pool'.map[n].binding = shader'.descriptors[n].binding
                 /\ PoolType(pool'.map[n].type) = shader'.descriptors[n].type
      <4>1. CASE n = kind
        <5>1. shader'.descriptors[n] = d /\ pool'.map[n] = u
          BY <2>1, <2>3, <4>1
        <5>2. u.size = 1 /\ u.binding = d.binding
          OBVIOUS
        <5> QED BY <2>4, <5>1, <5>2
      <4>2. CASE n # kind
        <5>1. shader'.descriptors[n] = D[n] /\ pool'.map[n] = M[n] /\ n \in DOMAIN D
          BY <2>1, <2>3, <2>5, <4>2
        <5> QED BY <1>1, <5>1 DEF Agree
      <4> QED BY <4>1, <4>2
    <3>2. DOMAIN shader'.descriptors = DOMAIN D \union {kind} /\ DOMAIN pool'.map = DOMAIN D \union {kind}
      BY <2>1, <2>3, <2>5
    <3> QED BY <1>1, <2>3, <2>5, <3>1, <3>2 DEF Agree
  <2>7. Located(shader')
    BY <1>1, <2>1 DEF Located
  <2> QED BY <1>1, <1>2, <2>1, <2>3, <2>6, <2>7, ShaderTouched
<1> QED BY <1>3, <1>4, <1>5 DEF BuildByHand

LEMMA ShaderStep ==
  ASSUME Once, ~Permits("colors"), Working, Fields, ShaderInv, [Next]_vars
  PROVE  ShaderInv'
<1>1. ASSUME NEW file \in Files, NEW pass, NEW colors, Initialize(file, pass, colors)
      PROVE  ShaderInv'
  <2> PICK s : s = InitializeShader(shader, file)
    OBVIOUS
  <2>1. /\ ~Initialized /\ HandSize = 0 /\ Makes(s, colors) /\ pool' = Pooled(s)
        /\ set' \in SetsOf(Pooled(s), s)
    BY <1>1 DEF Initialize, MayInitialize, Once, Permits
  <2>2. Untouched /\ Located(shader) /\ Agree(pool, shader)
    BY <2>1 DEF ShaderInv
  <2>3. shader.locations = <<>> /\ shader.spirv = {} /\ DOMAIN pool.map = {}
    BY <2>1, <2>2, NothingAdded DEF Agree, Untouched
  <2>4. Works(file)
    BY DEF Working
  <2>5. Agree(Pooled(s), s) /\ Located(s) /\ Compiled(s)
    BY <2>2, <2>3, <2>4, ReadIs DEF Untouched
  <2>6. set'.handle = "failed" => \E n \in DOMAIN s.descriptors : s.descriptors[n].count # 1
    <3>1. set'.handle = "failed" => ~Serves(Pooled(s), s)
      BY <2>1 DEF SetsOf
    <3> QED BY <2>5, <3>1, ServesAll
  <2> QED BY <2>1, <2>5, <2>6, ShaderMakes
<1>2. ASSUME NEW colors, NEW told, InitializeByHand(colors, told)
      PROVE  ShaderInv'
  <2> PICK s : s = MakeShader(shader)
    OBVIOUS
  <2>1. /\ ~Initialized /\ Makes(s, colors) /\ pool' = (IF told THEN Pooled(s) ELSE pool)
        /\ set' \in SetsOf(pool, s)
    BY <1>2 DEF InitializeByHand
  <2>2. Untouched /\ Located(shader) /\ Agree(pool, shader)
    BY <2>1 DEF ShaderInv
  <2>3. /\ s.locations = shader.locations /\ s.descriptors = shader.descriptors
        /\ s.file = shader.file /\ s.spirv = shader.spirv /\ s.modules = Modules(shader.spirv)
    BY DEF MakeShader, Fields
  <2>4. DOMAIN s.file.map = {} /\ s.file.outputs = 0
    BY <2>2, <2>3 DEF Untouched, EmptyFile, Nothing
  <2>5. Located(s) /\ Agree(pool', s)
    <3>1. pool'.map = pool.map /\ pool'.amount \in Nat \ {0}
      <4>1. pool.amount \in Nat \ {0}
        BY <2>2 DEF Agree
      <4>2. Pooled(s).map = pool.map /\ Pooled(s).amount = 1
        BY <2>4 DEF Pooled, Fields
      <4> QED BY <2>1, <4>1, <4>2
    <3> QED BY <2>2, <2>3, <3>1 DEF Located, Agree
  <2>6. Compiled(s)
    <3>1. shader.spirv \subseteq Stages /\ "Tess_C" \notin shader.spirv /\ "Tess_E" \notin shader.spirv
      BY <2>2, StagesAre DEF Untouched
    <3>2. Modules(shader.spirv) = [stage \in shader.spirv |-> stage]
      BY <3>1, ModulesAre
    <3> QED BY <2>3, <2>4, <3>1, <3>2 DEF Compiled, Seen
  <2>7. set'.handle = "none"
    BY <2>1, <2>2 DEF SetsOf, Untouched
  <2> QED BY <2>1, <2>5, <2>6, <2>7, ShaderMakes
<1>3. ASSUME AddViewport
      PROVE  ShaderInv'
  <2>1. ~pipeline.reset /\ NextHandle <= MaxPipelines /\ UNCHANGED <<shader, pool, set, caller>>
    BY <1>3 DEF AddViewport, Once, Permits
  <2>2. PICK told : /\ DOMAIN told = DOMAIN pipeline /\ told.handle = pipeline.handle
                    /\ told.blend = pipeline.blend /\ told.colors = pipeline.colors
                    /\ told.reset = pipeline.reset
                    /\ pipeline' = IF Initialized THEN Created(told, shader, NextHandle) ELSE told
    BY <1>3 DEF AddViewport, MustRemake, Fields
  <2>3. CASE Initialized
    <3>1. /\ pipeline' = Created(told, shader, NextHandle)
          /\ alive' = (alive \ {pipeline.handle}) \union {NextHandle}
      BY <1>3, <2>2, <2>3 DEF AddViewport, MustRemake, Destroyed
    <3>2. Compiled(shader) /\ Follows(pipeline, shader) /\ alive = {pipeline.handle}
      BY <2>1, <2>3 DEF ShaderInv
    <3>3. told.colors = shader.file.outputs /\ told.blend = [k \in 1 .. told.colors |-> TRUE]
      BY <2>2, <3>2, Zenon DEF Follows
    <3>4. /\ Follows(Created(told, shader, NextHandle), shader)
          /\ Created(told, shader, NextHandle).handle = NextHandle
          /\ ~Created(told, shader, NextHandle).reset
      BY <2>2, <3>2, <3>3, CreatedIs, Zenon
    <3>5. NextHandle \in 0 .. MaxPipelines /\ NextHandle # 0
      BY <2>1, RendererAssumption DEF NextHandle, ShaderInv
    <3>6. Initialized' /\ ~pipeline'.reset /\ pipeline'.handle = NextHandle /\ alive' = {NextHandle}
      BY <3>1, <3>2, <3>4, <3>5 DEF Initialized
    <3> QED BY <2>1, <3>1, <3>2, <3>4, <3>5, <3>6 DEF ShaderInv, SetGiven
  <2>4. CASE ~Initialized
    <3>1. pipeline' = told /\ alive' = alive
      BY <1>3, <2>2, <2>4 DEF AddViewport, MustRemake
    <3>2. ~Initialized'
      BY <2>2, <2>4, <3>1 DEF Initialized
    <3> QED BY <2>1, <2>2, <2>4, <3>1, <3>2 DEF ShaderInv, Untouched, SetGiven
  <2> QED BY <2>3, <2>4
<1>4. ASSUME NEW on, SetTestDepth(on)
      PROVE  ShaderInv'
  <2>1. /\ pipeline'.handle = pipeline.handle /\ pipeline'.blend = pipeline.blend /\ pipeline'.made = pipeline.made
        /\ pipeline'.reset = pipeline.reset /\ pipeline'.colors = pipeline.colors
    BY <1>4 DEF SetTestDepth, Fields
  <2>2. UNCHANGED <<shader, alive, pool, set, caller>>
    BY <1>4 DEF SetTestDepth
  <2> QED BY <2>1, <2>2 DEF ShaderInv, Untouched, Initialized, Follows, SetGiven
<1>5. ASSUME NEW op, NEW name, NEW with, Call(op, name, with)
      PROVE  ShaderInv'
  BY <1>5 DEF Call, ShaderInv, Initialized, SetGiven
<1>6. ASSUME Bind
      PROVE  ShaderInv'
  <2>1. Initialized /\ UNCHANGED <<shader, pipeline, alive, pool>>
    BY <1>6 DEF Bind, ShaderInv, Untouched
  <2>2. set'.handle = set.handle
    BY <1>6 DEF Bind, SetContent, Fields
  <2> QED BY <2>1, <2>2 DEF ShaderInv, Initialized, SetGiven
<1>7. ASSUME Reset
      PROVE  ShaderInv'
  <2>1. Initialized /\ UNCHANGED <<shader, pool, set>>
    BY <1>7 DEF Reset, ShaderInv, Untouched
  <2>2. /\ pipeline'.handle = pipeline.handle /\ pipeline'.blend = pipeline.blend /\ pipeline'.made = pipeline.made
        /\ pipeline'.reset /\ pipeline'.colors = pipeline.colors
    BY <1>7 DEF Reset, Fields
  <2>3. alive' = {}
    BY <1>7 DEF Reset, Destroyed, ShaderInv
  <2> QED BY <2>1, <2>2, <2>3 DEF ShaderInv, Initialized, Follows, SetGiven
<1>8. ASSUME NEW r, Transition(r)
      PROVE  ShaderInv'
  <2>1. set'.handle = set.handle /\ UNCHANGED <<shader, pipeline, alive, pool, caller>>
    BY <1>8 DEF Transition, Fields
  <2> QED BY <2>1 DEF ShaderInv, Untouched, Initialized, SetGiven
<1>9. ASSUME (\E subpass : Draw(subpass)) \/ Submit \/ Complete \/ UNCHANGED vars
      PROVE  ShaderInv'
  <2>1. UNCHANGED <<shader, pipeline, alive, pool, set, caller>>
    BY <1>9 DEF Draw, Submit, Complete, vars
  <2> QED BY <2>1 DEF ShaderInv, Untouched, Initialized, SetGiven
<1> QED BY <1>1, <1>2, <1>3, <1>4, <1>5, <1>6, <1>7, <1>8, <1>9, ShaderByHand
        DEF Next, OfRenderer, OfFrames

(* Switching the depth test on is never taken back. *)
DepthKept == pipeline.asked = pipeline.depth /\ pipeline.made.asked = pipeline.made.depth

LEMMA DepthStep ==
  ASSUME ~Permits("undepth"), Fields, DepthKept, [Next]_vars
  PROVE  DepthKept'
<1>1. ASSUME NEW p, NEW s, NEW handle, DOMAIN p = DOMAIN pipeline, p.asked = p.depth,
             pipeline' = Created(p, s, handle)
      PROVE  DepthKept'
  <2> PICK new : new = Created(p, s, handle)
    OBVIOUS
  <2>1. new.asked = p.asked /\ new.depth = p.depth /\ new.made.asked = p.asked /\ new.made.depth = p.depth
    BY <1>1 DEF Created, Fields
  <2> QED BY <1>1, <2>1, Zenon DEF DepthKept
<1>2. ASSUME NEW s, NEW colors, Makes(s, colors)
      PROVE  DepthKept'
  <2> PICK p : p = [pipeline EXCEPT !.colors = colors]
    OBVIOUS
  <2>1. DOMAIN p = DOMAIN pipeline /\ p.asked = pipeline.asked /\ p.depth = pipeline.depth
    BY DEF Fields
  <2>2. pipeline' = Created(p, s, NextHandle)
    BY <1>2 DEF Makes
  <2> QED BY <1>1, <2>1, <2>2, Zenon DEF DepthKept
<1>3. ASSUME AddViewport
      PROVE  DepthKept'
  <2>1. PICK told : /\ DOMAIN told = DOMAIN pipeline
                    /\ told.asked = pipeline.asked /\ told.depth = pipeline.depth /\ told.made = pipeline.made
                    /\ pipeline' = told \/ pipeline' = Created(told, shader, NextHandle)
    BY <1>3 DEF AddViewport, Fields
  <2>2. CASE pipeline' = told
    BY <2>1, <2>2, Zenon DEF DepthKept
  <2>3. CASE pipeline' = Created(told, shader, NextHandle)
    BY <1>1, <2>1, <2>3, Zenon DEF DepthKept
  <2> QED BY <2>1, <2>2, <2>3
<1>4. ASSUME NEW on \in BOOLEAN, SetTestDepth(on)
      PROVE  DepthKept'
  <2>1. on = TRUE
    BY <1>4 DEF SetTestDepth
  <2>2. pipeline' = [pipeline EXCEPT !.depth = @ \/ on, !.asked = on]
    BY <1>4, Zenon DEF SetTestDepth
  <2>3. /\ pipeline'.asked = on /\ pipeline'.depth = (pipeline.depth \/ on)
        /\ pipeline'.made = pipeline.made
    BY <2>2 DEF Fields
  <2> QED BY <2>1, <2>3, Zenon DEF DepthKept
<1>5. ASSUME Reset
      PROVE  DepthKept'
  BY <1>5 DEF Reset, Fields, DepthKept
<1>6. ASSUME UNCHANGED pipeline
      PROVE  DepthKept'
  BY <1>6 DEF DepthKept
<1>7. ASSUME NEW op, NEW name, NEW with, Call(op, name, with)
      PROVE  DepthKept'
  BY <1>6, <1>7 DEF Call
<1>8. ASSUME NEW r, Transition(r)
      PROVE  DepthKept'
  BY <1>6, <1>8 DEF Transition
<1>9. ASSUME (\E subpass : Draw(subpass)) \/ Submit \/ Complete \/ Bind \/ BuildByHand \/ UNCHANGED vars
      PROVE  DepthKept'
  BY <1>6, <1>9 DEF Draw, Submit, Complete, Bind, BuildByHand, vars
<1> QED BY <1>2, <1>3, <1>4, <1>5, <1>7, <1>8, <1>9
        DEF Next, OfRenderer, OfFrames, Initialize, InitializeByHand

(* What is drawn with is what the shader says, for every set of files that *)
(* work, arrays among their uniforms or not, and every resources bound, in *)
(* a program that initialises the renderer once and never switches the     *)
(* depth test off, for passes with as many colours as outputs              *)
(* (NyxShader::parse, DescriptorPool::initialize, createPipeline).  The    *)
(* allocation of the set may fail, as the code ignores the size of an      *)
(* array: for arrays only.                                                 *)
THEOREM RenderersKeepFiles ==
  ASSUME Working, {"again", "anew", "undepth", "colors"} \cap RendererLiberties = {}
  PROVE  Spec => []FileKept
<1>1. Once /\ ~Permits("undepth") /\ ~Permits("colors")
  BY DEF Once, Permits
<1>2. Init => DepthKept
  <2> SUFFICES ASSUME Init PROVE DepthKept
    OBVIOUS
  <2>1. pipeline.asked = FALSE /\ pipeline.depth = FALSE /\ pipeline.made = NotMade
    BY Zenon DEF Init
  <2>2. NotMade.asked = FALSE /\ NotMade.depth = FALSE
    BY Zenon DEF NotMade
  <2> QED BY <2>1, <2>2, Zenon DEF DepthKept
<1>3. Fields /\ ShaderInv /\ [Next]_vars => ShaderInv'
  BY <1>1, ShaderStep
<1>4. Fields /\ DepthKept /\ [Next]_vars => DepthKept'
  BY <1>1, DepthStep
<1>5. ShaderInv /\ DepthKept => FileKept
  <2> SUFFICES ASSUME ShaderInv, DepthKept
               PROVE  FileKept
    OBVIOUS
  <2>1. PoolAgrees
    <3>1. Agree(pool, shader) /\ SetGiven
      BY SMTT(30) DEF ShaderInv
    <3> QED BY <3>1 DEF Agree, PoolAgrees, SetGiven
  <2>2. StagesSee
    BY DEF ShaderInv, Compiled, Seen, StagesSee
  <2>3. PipelineSound
    <3> SUFFICES ASSUME pipeline.handle \in alive
                 PROVE  PipelineSound
      BY DEF PipelineSound
    <3>1. Initialized /\ Follows(pipeline, shader) /\ Located(shader)
      BY DEF ShaderInv
    <3>2. \A i, j \in DOMAIN shader.locations : shader.locations[i] = shader.locations[j] => i = j
      <4> PICK L : L = shader.locations
        OBVIOUS
      <4> PICK n \in Nat : n = Len(L)
        BY <3>1, LenProperties DEF Located
      <4>1. DOMAIN L = 1 .. n /\ \A k \in 1 .. n : L[k] = k - 1
        BY <3>1 DEF Located
      <4> QED BY <4>1
    <3> QED BY <3>1, <3>2, Zenon DEF PipelineSound, Follows, DepthKept
  <2> QED BY <2>1, <2>2, <2>3 DEF FileKept
<1> QED BY <1>2, <1>3, <1>4, <1>5, ShaderInit, FieldsAlways, PTL DEF Spec

-----------------------------------------------------------------------------
(* The pipelines and the frames that use them. *)

LiveInv ==
  /\ pipeline.handle \in Nat
  /\ pending \in Seq(Range(pending))
  /\ Initialized /\ ~pipeline.reset => pipeline.handle \in alive
  /\ caller.op # "none" => Initialized /\ ~pipeline.reset
  /\ caller.op = "reset" => pipeline.handle \notin open.pipelines
  /\ PipelinesLive

LEMMA LiveInit == Init => LiveInv
<1> SUFFICES ASSUME Init PROVE LiveInv
  OBVIOUS
<1>1. pending = <<>> /\ open.pipelines = {} /\ pipeline.handle = 0 /\ caller.op = "none"
  BY DEF Init, Idle, Blank
<1>2. <<>> \in Seq(Range(<<>>)) /\ DOMAIN <<>> = {}
  OBVIOUS
<1>3. InUse = {}
  BY <1>1, <1>2 DEF InUse
<1> QED BY <1>1, <1>2, <1>3 DEF LiveInv, PipelinesLive, Initialized

\* A pipeline more, and it is the renderer's.
LEMMA LiveMakes ==
  ASSUME Fields, LiveInv, Ready, NEW s, NEW colors, Makes(s, colors), UNCHANGED <<caller, recording>>
  PROVE  LiveInv'
<1>1. pipeline'.handle = NextHandle /\ ~pipeline'.reset
  BY DEF Makes, Created, Fields
<1>2. NextHandle \in Nat
  BY DEF NextHandle, LiveInv
<1>3. alive' = alive \union {NextHandle} /\ caller' = caller /\ caller.op = "none"
  BY DEF Makes, Ready
<1>4. open' = open /\ pending' = pending
  BY DEF recording
<1>5. PipelinesLive'
  BY <1>3, <1>4 DEF LiveInv, PipelinesLive, InUse
<1> QED BY <1>1, <1>2, <1>3, <1>4, <1>5 DEF LiveInv

LEMMA LiveStep ==
  ASSUME ~Permits("rebuild"), ~Permits("again"), Fields, LiveInv, [Next]_vars
  PROVE  LiveInv'
<1>1. ASSUME UNCHANGED <<pipeline, alive, caller, recording>>
      PROVE  LiveInv'
  BY <1>1 DEF LiveInv, PipelinesLive, InUse, Initialized, recording
<1>2. ASSUME NEW file, NEW pass, NEW colors, Initialize(file, pass, colors)
      PROVE  LiveInv'
  BY <1>2, LiveMakes DEF Initialize
<1>3. ASSUME NEW colors, NEW told, InitializeByHand(colors, told)
      PROVE  LiveInv'
  BY <1>3, LiveMakes DEF InitializeByHand
<1>4. ASSUME AddViewport
      PROVE  LiveInv'
  <2>1. /\ pipeline.handle \notin InUse /\ ~pipeline.reset /\ caller' = caller /\ caller.op = "none"
        /\ open' = open /\ pending' = pending
    BY <1>4 DEF AddViewport, Using, Ready, recording
  <2>2. PICK told : /\ DOMAIN told = DOMAIN pipeline /\ told.handle = pipeline.handle
                    /\ told.reset = pipeline.reset
                    /\ pipeline' = IF Initialized THEN Created(told, shader, NextHandle) ELSE told
    BY <1>4 DEF AddViewport, MustRemake, Fields
  <2>3. CASE Initialized
    <3>1. pipeline'.handle = NextHandle /\ ~pipeline'.reset
      BY <2>2, <2>3 DEF Created, Fields
    <3>2. alive' = (alive \ {pipeline.handle}) \union {NextHandle} /\ NextHandle \in Nat
      BY <1>4, <2>3 DEF AddViewport, MustRemake, Destroyed, NextHandle, LiveInv
    <3>3. PipelinesLive'
      BY <2>1, <3>2 DEF LiveInv, PipelinesLive, InUse
    <3> QED BY <2>1, <3>1, <3>2, <3>3 DEF LiveInv
  <2>4. CASE ~Initialized
    <3>1. pipeline'.handle = pipeline.handle /\ alive' = alive /\ pipeline'.reset = pipeline.reset
      BY <1>4, <2>2, <2>4 DEF AddViewport, MustRemake
    <3> QED BY <2>1, <2>4, <3>1 DEF LiveInv, PipelinesLive, InUse, Initialized
  <2> QED BY <2>3, <2>4
<1>5. ASSUME NEW on, SetTestDepth(on)
      PROVE  LiveInv'
  <2>1. pipeline'.handle = pipeline.handle /\ pipeline'.reset = pipeline.reset
    BY <1>5 DEF SetTestDepth, Fields
  <2> QED BY <1>5, <2>1 DEF SetTestDepth, LiveInv, PipelinesLive, InUse, Initialized, recording
<1>6. ASSUME NEW op, NEW name, NEW with, Call(op, name, with)
      PROVE  LiveInv'
  <2>1. /\ Initialized /\ ~pipeline.reset /\ caller'.op = op
        /\ op = "reset" => pipeline.handle \notin open.pipelines
    BY <1>6 DEF Call
  <2> QED BY <1>6, <2>1 DEF Call, LiveInv, PipelinesLive, InUse, Initialized, recording
<1>7. ASSUME Bind
      PROVE  LiveInv'
  <2>1. caller'.op = "none" /\ UNCHANGED <<pipeline, alive, recording>>
    BY <1>7 DEF Bind, Idle
  <2> QED BY <2>1 DEF LiveInv, PipelinesLive, InUse, Initialized, recording
<1>8. ASSUME Reset
      PROVE  LiveInv'
  <2>1. pipeline'.handle = pipeline.handle /\ pipeline'.reset /\ caller'.op = "none"
    BY <1>8 DEF Reset, Fields, Idle
  <2>2. /\ caller.op = "reset" /\ pending = <<>> /\ alive' = alive \ {pipeline.handle}
        /\ open' = open /\ pending' = pending
    BY <1>8 DEF Reset, DeviceWaited, Destroyed, recording
  <2>3. InUse = open.pipelines
    <3>1. DOMAIN <<>> = {}
      OBVIOUS
    <3> QED BY <2>2, <3>1, Zenon DEF InUse
  <2>4. PipelinesLive'
    BY <2>2, <2>3 DEF LiveInv, PipelinesLive, InUse
  <2> QED BY <2>1, <2>2, <2>4 DEF LiveInv
<1>9. ASSUME NEW subpass, Draw(subpass)
      PROVE  LiveInv'
  <2>1. /\ Initialized /\ ~pipeline.reset /\ caller.op = "none"
        /\ open'.pipelines = open.pipelines \union {pipeline.handle}
        /\ UNCHANGED <<pipeline, alive, caller, pending>>
    BY <1>9 DEF Draw, Ready
  <2>2. PipelinesLive'
    BY <2>1 DEF LiveInv, PipelinesLive, InUse
  <2> QED BY <2>1, <2>2 DEF LiveInv, Initialized
<1>10. ASSUME Submit
       PROVE  LiveInv'
  <2>1. open'.pipelines = {} /\ caller.op = "none" /\ UNCHANGED <<pipeline, alive, caller>>
    BY <1>10 DEF Submit, Ready, Blank
  <2>2. /\ pending' \in Seq(Range(pending'))
        /\ \A k \in DOMAIN pending' : pending'[k] = open \/ \E j \in DOMAIN pending : pending'[k] = pending[j]
    <3>1. pending' = Append(pending, open) /\ pending \in Seq(Range(pending))
      BY <1>10 DEF Submit, LiveInv
    <3>2. /\ Append(pending, open) \in Seq(Range(Append(pending, open)))
          /\ \A k \in DOMAIN Append(pending, open) :
               Append(pending, open)[k] = open \/ \E j \in DOMAIN pending : Append(pending, open)[k] = pending[j]
      BY <3>1, Grows
    <3> QED BY <3>1, <3>2, Zenon
  <2>3. InUse' \subseteq InUse
    BY <2>1, <2>2 DEF InUse
  <2>4. PipelinesLive'
    BY <2>1, <2>3 DEF LiveInv, PipelinesLive
  <2> QED BY <2>1, <2>2, <2>4 DEF LiveInv, Initialized
<1>11. ASSUME Complete
       PROVE  LiveInv'
  <2>1. open' = open /\ UNCHANGED <<pipeline, alive, caller>>
    BY <1>11 DEF Complete
  <2>2. /\ pending' \in Seq(Range(pending'))
        /\ \A k \in DOMAIN pending' : \E j \in DOMAIN pending : pending'[k] = pending[j]
    BY <1>11, Shrinks, ZenonT(60) DEF Complete, LiveInv
  <2>3. InUse' \subseteq InUse
    BY <2>1, <2>2 DEF InUse
  <2>4. PipelinesLive'
    BY <2>1, <2>3 DEF LiveInv, PipelinesLive
  <2> QED BY <2>1, <2>2, <2>4 DEF LiveInv, Initialized
<1>12. ASSUME BuildByHand
       PROVE  LiveInv'
  <2>1. UNCHANGED <<pipeline, alive, caller, recording>>
    BY <1>12 DEF BuildByHand
  <2> QED BY <1>1, <2>1
<1>13. ASSUME NEW r, Transition(r)
       PROVE  LiveInv'
  <2>1. UNCHANGED <<pipeline, alive, caller, recording>>
    BY <1>13 DEF Transition
  <2> QED BY <1>1, <2>1
<1>14. ASSUME UNCHANGED vars
       PROVE  LiveInv'
  <2>1. UNCHANGED <<pipeline, alive, caller, recording>>
    BY <1>14 DEF vars, recording
  <2> QED BY <1>1, <2>1
<1> QED BY <1>2, <1>3, <1>4, <1>5, <1>6, <1>7, <1>8, <1>9, <1>10, <1>11, <1>12, <1>13, <1>14
        DEF Next, OfRenderer, OfFrames

(* The pipeline a frame was recorded with lives until the device has       *)
(* finished the frame, whatever the files say and however often the        *)
(* renderer is initialised, if it is not used after reset and no viewport  *)
(* is added while frames use the pipeline (RendererImpl::reset waits for   *)
(* the device, addViewport does not).                                      *)
THEOREM PipelinesOutliveFrames ==
  ASSUME {"rebuild", "again"} \cap RendererLiberties = {}
  PROVE  Spec => []PipelinesLive
<1>1. ~Permits("rebuild") /\ ~Permits("again")
  BY DEF Permits
<1>2. Fields /\ LiveInv /\ [Next]_vars => LiveInv'
  BY <1>1, LiveStep
<1>3. LiveInv => PipelinesLive
  BY DEF LiveInv
<1> QED BY <1>2, <1>3, LiveInit, FieldsAlways, PTL DEF Spec

=============================================================================
