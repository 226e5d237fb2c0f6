---------------------------- MODULE DeviceMemory ----------------------------
(***************************************************************************)
(* nyx::Memory, vkg::Buffer and nyx::Array.  A Memory is a value: a handle *)
(* of an allocation on the device, a pointer to a copy on the host, a size *)
(* and an offset.  It is copied freely, and only deallocate gives anything *)
(* back.  A Buffer is a value as well, with a Memory of its own or of its  *)
(* caller.                                                                 *)
(*                                                                         *)
(* Sizes are in bytes, unless they are of elements; unsigned arithmetic is *)
(* modulo Wrap.                                                            *)
(***************************************************************************)
EXTENDS Naturals, Sequences, FiniteSets

CONSTANTS
  Memories, Arrays, \* objects of the program
  Sizes,            \* sizes asked for
  Elements,         \* sizes of the elements copied: sizeof( TYPE )
  Offsets,          \* distances from the start of a memory
  Asked,            \* memories asked for: host-visible, with a copy on the host
  Aligned(_),       \* the size the driver requires for a buffer
  Wrap,             \* 2^w, for unsigned of w bits
  Types,            \* memory types of the device, a sequence: host-visible?
  MemoryLiberties,
  MaxAllocations,   \* bound: allocations made
  MaxBuffers        \* bound: buffers created

(* "first": a Memory is the first thing a program makes.                   *)
(* "twice": what a copy has given back is used or given back again.        *)
(* "again": an object is initialised that still has something.             *)
(* "scarce": memory is asked for that no type the driver allows has.       *)
(* "opaque": data is copied to memory that is not host-visible.            *)
(* "blank": data is copied that was never written.                         *)
(* "part": data is copied by way of a part of a memory, or past its end.   *)
(* "many": more elements are copied to the host than it has room for.      *)
ASSUME MemoryAssumption ==
  /\ Wrap \in Nat \ {0} /\ Sizes \subseteq 1 .. (Wrap - 1) /\ Offsets \subseteq 0 .. (Wrap - 1)
  /\ Elements \subseteq Nat \ {0}
  /\ Asked \subseteq BOOLEAN \X BOOLEAN
  /\ \A s \in 0 .. (Wrap - 1) : Aligned(s) \in Nat /\ Aligned(s) >= s
  /\ Types \in Seq(BOOLEAN) /\ Types # <<>>
  /\ MemoryLiberties \subseteq {"first", "twice", "again", "scarce", "opaque", "part",
                             "many", "blank"}
  /\ MaxAllocations \in Nat /\ MaxBuffers \in Nat

VARIABLES
  ready,       \* vkg::Vulkan is initialised
  allocations, \* vk::DeviceMemory made: size, type, live, and written to
  hosts,       \* copies on the host: size, live, and written to
  memory,      \* the Memory objects
  buffers,     \* vk::Buffer made: where they are bound, and whether live
  array,       \* the arrays, with the BufferData of each
  misuse       \* first use of what is not there, or "none"

memoryVars == <<ready, allocations, hosts, memory, buffers, array, misuse>>

Units == 0 .. (Wrap - 1)

NoMemory == [alloc |-> 0, host |-> 0, size |-> 0, offset |-> 0]
NoArray  == [buffer |-> 0, memory |-> NoMemory, preallocated |-> FALSE,
             initialized |-> FALSE, count |-> 0]

MemoryInit ==
  /\ ready = FALSE
  /\ allocations = <<>> /\ hosts = <<>> /\ buffers = <<>>
  /\ memory = [m \in Memories |-> NoMemory]
  /\ array = [a \in Arrays |-> NoArray]
  /\ misuse = "none"

Sound == misuse = "none"
May(liberty) == liberty \in MemoryLiberties

Live(n) == n # 0 /\ allocations[n].live

(* Vulkan::initialize, by whatever a program begins with. *)
Prepare ==
  /\ Sound /\ ~ready
  /\ ready' = TRUE
  /\ UNCHANGED <<allocations, hosts, memory, buffers, array, misuse>>

-----------------------------------------------------------------------------
(* Allocating. *)

(* The types that pass the filter and have the flags wanted. *)
Suitable(filter, visible) == {i \in DOMAIN Types : i \in filter /\ (visible => Types[i])}

(* memType: the first one; the first of all when there is none.            *)
MemType(filter, visible) ==
  LET fit == Suitable(filter, visible)
  IN  IF fit = {} THEN 1 ELSE CHOOSE i \in fit : \A j \in fit : i <= j

Allocated(size, filter, visible) ==
  Append(allocations, [size |-> size, type |-> MemType(filter, visible),
                       live |-> TRUE, filled |-> FALSE])

HostCopy(size) == Append(hosts, [size |-> size, live |-> TRUE, filled |-> FALSE])

(* The handle r of what is allocated now. *)
Holding(r, size, host) ==
  [alloc |-> Len(allocations) + 1, host |-> IF host THEN Len(hosts) + 1 ELSE r.host,
   size |-> size, offset |-> r.offset]

MayAllocate(filter, visible) ==
  /\ Len(allocations) < MaxAllocations
  /\ May("scarce") \/ Suitable(filter, visible) # {}

(* Memory::initialize.  The data pointer is set only when a copy on the    *)
(* host is asked for.  createMemory takes the device before it initialises *)
(* the library, and the dummy it gets then has no vk::Device.              *)
InitializeMemory(m, size, visible, host) ==
  /\ Sound
  /\ ready \/ May("first")
  /\ MayAllocate(DOMAIN Types, visible)
  /\ May("again") \/ memory[m] = NoMemory
  /\ allocations' = IF ready THEN Allocated(size, DOMAIN Types, visible) ELSE allocations
  /\ misuse' = IF ready THEN misuse ELSE "allocation on no device"
  /\ hosts' = IF host THEN HostCopy(size) ELSE hosts
  /\ memory' = [memory EXCEPT ![m] = Holding(memory[m], size, host)]
  /\ ready' = TRUE
  /\ UNCHANGED <<buffers, array>>

\* Mutant: the offset is not clamped.
Unclamped(from, offset) ==
  [memory[from] EXCEPT !.offset = (@ + offset) % Wrap]

(* operator+ : the offset is at most the size. *)
At(from, offset) ==
  LET next == (memory[from].offset + offset) % Wrap
  IN  [memory[from] EXCEPT !.offset = IF next >= memory[from].size THEN memory[from].size ELSE next]

Holders(n) == {m \in Memories : memory[m].alloc = n} \union {a \in Arrays : array[a].memory.alloc = n}

(* An object may be set to something else, when it is not the last one to  *)
(* hold what it has.                                                       *)
MayDrop(m) ==
  Live(memory[m].alloc) => May("again") \/ Cardinality(Holders(memory[m].alloc)) > 1

AssignMemory(m, from, offset) ==
  /\ Sound /\ m # from
  /\ MayDrop(m) /\ memory[from].alloc # 0
  /\ memory' = [memory EXCEPT ![m] = At(from, offset)]
  /\ UNCHANGED <<ready, allocations, hosts, buffers, array, misuse>>

(* What deallocate gives back: the copy on the host and, unless the handle *)
(* is null, the allocation.  The object stays as it is.                    *)
Deallocating(m) ==
  /\ misuse' = IF \/ m.host # 0 /\ ~hosts[m.host].live
                  \/ m.alloc # 0 /\ ~allocations[m.alloc].live
               THEN "given back twice" ELSE misuse
  /\ hosts' = IF m.host = 0 THEN hosts ELSE [hosts EXCEPT ![m.host].live = FALSE]
  /\ allocations' = IF m.alloc = 0 THEN allocations
                    ELSE [allocations EXCEPT ![m.alloc].live = FALSE]

MayGiveBack(m) == Live(m.alloc) \/ May("twice")

Bound(n) == {b \in DOMAIN buffers : buffers[b].live /\ buffers[b].alloc = n}

Deallocate(m) ==
  /\ Sound
  /\ MayGiveBack(memory[m])
  /\ Bound(memory[m].alloc) = {} \/ May("twice")
  /\ Deallocating(memory[m])
  /\ UNCHANGED <<ready, memory, buffers, array>>

-----------------------------------------------------------------------------
(* Copying. *)

(* copyToDevice and copyToHost copy at most the size of the object: of     *)
(* bytes the one, and of elements the other.                               *)
Amount(m, amount) == IF amount > m.size THEN m.size ELSE amount

(* mapMemory, memcpy and unmapMemory: the range must lie in an allocation  *)
(* that is there, and can be mapped.  The offset of the Memory is not      *)
(* added, so that by way of a part of a memory another part is reached.    *)
Mapped(m, from, to) ==
  IF ~Live(m.alloc) THEN "mapping memory given back"
  ELSE IF ~Types[allocations[m.alloc].type] THEN "mapping memory of the device"
  ELSE IF to > allocations[m.alloc].size THEN "mapping past the end"
  ELSE IF from < m.offset THEN "copying to another part"
  ELSE "none"

MayMap(m) ==
  /\ m.alloc # 0
  /\ Live(m.alloc) \/ May("twice")
  /\ Types[allocations[m.alloc].type] \/ May("opaque")
  /\ m.offset = 0 \/ May("part")

CopyToDevice(m, amount, at) ==
  LET o == memory[m]
  IN  /\ Sound /\ ready
      /\ MayMap(o)
      /\ at = 0 \/ at + amount <= o.size \/ May("part")
      /\ misuse' = Mapped(o, at, at + Amount(o, amount))
      /\ allocations' = [allocations EXCEPT ![o.alloc].filled = TRUE]
      /\ UNCHANGED <<ready, hosts, memory, buffers, array>>

HasHost(m) == m.host # 0 /\ hosts[m.host].live

(* copyToHost fills the copy on the host from elsewhere; copySynced copies *)
(* to the device before that.                                              *)
CopyToHost(m, amount, element) ==
  LET o == memory[m]
  IN  /\ Sound
      /\ HasHost(o)
      /\ amount * element <= o.size \/ May("many")
      /\ misuse' = IF Amount(o, amount) * element > hosts[o.host].size
                   THEN "copying past the end on the host" ELSE misuse
      /\ hosts' = [hosts EXCEPT ![o.host].filled = TRUE]
      /\ UNCHANGED <<ready, allocations, memory, buffers, array>>

(* syncToDevice and syncToHost move the whole of the copy on the host,     *)
(* which new does not initialise.                                          *)
SyncToDevice(m) ==
  LET o == memory[m]
  IN  /\ Sound /\ ready
      /\ MayMap(o) /\ HasHost(o)
      /\ hosts[o.host].filled \/ May("blank")
      /\ misuse' = IF ~hosts[o.host].filled THEN "reading what was never written"
                   ELSE IF hosts[o.host].size < o.size THEN "host data too short"
                   ELSE Mapped(o, 0, o.size)
      /\ allocations' = [allocations EXCEPT ![o.alloc].filled = TRUE]
      /\ UNCHANGED <<ready, hosts, memory, buffers, array>>

SyncToHost(m) ==
  LET o == memory[m]
  IN  /\ Sound /\ ready
      /\ MayMap(o) /\ HasHost(o)
      /\ allocations[o.alloc].filled \/ May("blank")
      /\ misuse' = IF ~allocations[o.alloc].filled THEN "reading what was never written"
                   ELSE IF hosts[o.host].size < o.size THEN "host data too short"
                   ELSE Mapped(o, 0, o.size)
      /\ hosts' = [hosts EXCEPT ![o.host].filled = TRUE]
      /\ UNCHANGED <<ready, allocations, memory, buffers, array>>

-----------------------------------------------------------------------------
(* Buffers and arrays. *)

NewBuffer(size) == [live |-> TRUE, requires |-> Aligned(size), alloc |-> 0, at |-> 0]

(* What is left of a memory behind its offset. *)
Room(m) == (m.size - m.offset + Wrap) % Wrap

(* The end of Buffer::initialize: the buffer is bound if it fits.          *)
Binding(a, m, count, preallocated, was) ==
  LET need == Aligned(count)
      fits == need <= Room(m)
  IN  /\ buffers' = Append(buffers, IF fits THEN [NewBuffer(count) EXCEPT !.alloc = m.alloc,
                                                                        !.at = m.offset]
                                    ELSE NewBuffer(count))
      /\ array' = [array EXCEPT ![a] = [buffer |-> Len(buffers) + 1, memory |-> m,
                                        preallocated |-> preallocated,
                                        initialized |-> was \/ fits, count |-> count]]
      /\ misuse' = IF fits /\ m.alloc \in DOMAIN allocations /\ ~Live(m.alloc)
                   THEN "buffer bound to memory given back" ELSE misuse

(* The driver's 64 bits become the unsigned of Memory::initialize.          *)
Told(count) == Aligned(count) % Wrap

MayMake(a) ==
  /\ Sound /\ Len(buffers) < MaxBuffers
  /\ May("again") \/ array[a] = NoArray

(* initialize( gpu, size, host_local ): with a memory of its own, of a     *)
(* type the driver allows for the buffer, or, when the object had memory   *)
(* of its caller before, in that.                                          *)
InitializeArray(a, count, filter, hostLocal) ==
  LET own == array[a]
  IN  /\ MayMake(a)
      /\ ready' = TRUE
      /\ \/ /\ own.preallocated
            /\ Binding(a, own.memory, count, TRUE, own.initialized)
            /\ UNCHANGED <<allocations, hosts>>
         \/ /\ ~own.preallocated
            /\ MayAllocate(filter, hostLocal)
            /\ allocations' = Allocated(Told(count), filter, hostLocal)
            /\ hosts' = IF hostLocal THEN HostCopy(Told(count)) ELSE hosts
            /\ Binding(a, Holding(own.memory, Told(count), hostLocal), count, FALSE, own.initialized)
      /\ UNCHANGED <<memory>>

(* initialize( prealloc, size ): in memory of the caller; a size of 0 is   *)
(* the size of the memory.                                                 *)
InitializeArrayIn(a, m, count) ==
  /\ MayMake(a)
  /\ ready /\ memory[m].alloc # 0
  /\ May("twice") \/ allocations[memory[m].alloc].live
  /\ Binding(a, memory[m], IF count = 0 THEN memory[m].size ELSE count, TRUE, array[a].initialized)
  /\ UNCHANGED <<ready, allocations, hosts, memory>>

AssignArray(a, from) ==
  /\ Sound /\ a # from
  /\ May("again") \/ array[a] = NoArray
  /\ array[from].buffer # 0
  /\ array' = [array EXCEPT ![a] = array[from]]
  /\ UNCHANGED <<ready, allocations, hosts, memory, buffers, misuse>>

\* Mutant: the flag of preallocated memory is read the wrong way round.
GivesTheirsBack(o) == o.preallocated /\ o.initialized

(* Buffer::reset gives back a memory of its own, once it was bound.        *)
GivesBack(o) == ~o.preallocated /\ o.initialized

ResetArray(a) ==
  LET o == array[a]
  IN  /\ Sound
      /\ o.buffer # 0
      /\ May("twice") \/ buffers[o.buffer].live
      /\ buffers' = [buffers EXCEPT ![o.buffer].live = FALSE]
      /\ \/ /\ ~buffers[o.buffer].live
            /\ misuse' = "buffer destroyed twice"
            /\ UNCHANGED <<allocations, hosts>>
         \/ /\ buffers[o.buffer].live /\ GivesBack(o)
            /\ Deallocating(o.memory)
         \/ /\ buffers[o.buffer].live /\ ~GivesBack(o)
            /\ UNCHANGED <<allocations, hosts, misuse>>
      /\ UNCHANGED <<ready, memory, array>>

-----------------------------------------------------------------------------
(* What a driver may allow for a buffer. *)
Filters == {{i} : i \in DOMAIN Types}

OnMemory(m) ==
  \/ \E size \in Sizes, kind \in Asked : InitializeMemory(m, size, kind[1], kind[2])
  \/ \E from \in Memories, offset \in Offsets : AssignMemory(m, from, offset)
  \/ Deallocate(m)
  \/ \E amount \in Sizes, at \in Offsets : CopyToDevice(m, amount, at)
  \/ \E amount \in Sizes, element \in Elements : CopyToHost(m, amount, element)
  \/ SyncToDevice(m) \/ SyncToHost(m)

OnArray(a) ==
  \/ \E count \in Sizes, filter \in Filters, hostLocal \in BOOLEAN :
       InitializeArray(a, count, filter, hostLocal)
  \/ \E m \in Memories, count \in {0} \union Sizes : InitializeArrayIn(a, m, count)
  \/ \E from \in Arrays : AssignArray(a, from)
  \/ ResetArray(a)

MemoryNext ==
  \/ Prepare
  \/ \E m \in Memories : OnMemory(m)
  \/ \E a \in Arrays : OnArray(a)

MemorySpec == MemoryInit /\ [][MemoryNext]_memoryVars

-----------------------------------------------------------------------------
(* Properties. *)

MemoryRecords == [alloc : 0 .. MaxAllocations, host : 0 .. Len(hosts), size : Units, offset : Units]
AllocRecords  == [size : Nat, type : DOMAIN Types, live : BOOLEAN, filled : BOOLEAN]
HostRecords   == [size : Nat, live : BOOLEAN, filled : BOOLEAN]
BufferRecords == [live : BOOLEAN, requires : Nat, alloc : 0 .. MaxAllocations, at : Units]
ArrayRecords  == [buffer : 0 .. Len(buffers), memory : MemoryRecords, preallocated : BOOLEAN,
                  initialized : BOOLEAN, count : Units]

MemoryTypeOK ==
  /\ ready \in BOOLEAN
  /\ allocations \in Seq(AllocRecords) /\ Len(allocations) <= MaxAllocations
  /\ hosts \in Seq(HostRecords)
  /\ memory \in [Memories -> MemoryRecords]
  /\ buffers \in Seq(BufferRecords)
  /\ array \in [Arrays -> ArrayRecords]

(* A buffer that is bound lies in an allocation that is there, behind the  *)
(* offset it was bound at, whatever chain of offsets led to it             *)
(* (Memory::operator+ and the check in Buffer::initialize).                *)
BoundInside ==
  Sound =>
    \A b \in DOMAIN buffers :
      buffers[b].live /\ buffers[b].alloc # 0 =>
        /\ allocations[buffers[b].alloc].live
        /\ buffers[b].at + buffers[b].requires <= allocations[buffers[b].alloc].size

(* What is allocated and not given back is held by an object that can      *)
(* still give it back: by a Memory, by an array in memory of its caller,   *)
(* or by an array that was not reset and whose reset will (Buffer::reset,  *)
(* which returns the memory only of a buffer that was bound).              *)
NothingLost ==
  Sound =>
    \A n \in DOMAIN allocations : allocations[n].live =>
      \/ \E m \in Memories : memory[m].alloc = n
      \/ \E a \in Arrays :
           /\ array[a].memory.alloc = n
           /\ array[a].preallocated \/ (array[a].initialized /\ buffers[array[a].buffer].live)

-----------------------------------------------------------------------------
(* The invariant of a program that takes no liberties. *)

Handles == {memory[m] : m \in Memories} \union {array[a].memory : a \in Arrays}

(* A handle tells the size of what it holds; it points inside; and its     *)
(* copy on the host lives as long as the allocation.                       *)
Known(r) ==
  IF r.alloc = 0 THEN r = NoMemory
  ELSE /\ r.alloc \in DOMAIN allocations
       /\ r.size = allocations[r.alloc].size
       /\ r.offset <= r.size
       /\ r.host # 0 => /\ r.host \in DOMAIN hosts
                        /\ hosts[r.host].size = r.size
                        /\ hosts[r.host].live = allocations[r.alloc].live

(* Handles of one allocation have one copy on the host, and none has that  *)
(* of another.                                                             *)
Paired ==
  \A r, q \in Handles :
    /\ r.alloc = q.alloc => r.host = q.host
    /\ r.host # 0 /\ r.host = q.host => r.alloc = q.alloc

(* An array with memory of its own shares it with its copies only, and its *)
(* buffer is the one bound there.                                          *)
OwnsAlone(a) ==
  LET n == array[a].memory.alloc
  IN  /\ \A m \in Memories : memory[m].alloc # n
      /\ \A b \in Arrays : array[b].memory.alloc = n => array[b].buffer = array[a].buffer
      /\ \A k \in DOMAIN buffers : buffers[k].alloc = n => k = array[a].buffer
      /\ array[a].initialized => buffers[array[a].buffer].alloc = n

ArraysHold ==
  \A a \in Arrays :
    /\ array[a].buffer = 0 => array[a] = NoArray
    /\ array[a].buffer # 0 => array[a].memory.alloc # 0 /\ array[a].buffer \in DOMAIN buffers
    /\ array[a].buffer # 0 /\ ~array[a].preallocated => OwnsAlone(a)
    /\ \A b \in Arrays : array[a].buffer = array[b].buffer => array[a] = array[b]

BuffersInside ==
  \A k \in DOMAIN buffers :
    buffers[k].alloc # 0 =>
      /\ buffers[k].alloc \in DOMAIN allocations
      /\ buffers[k].at + buffers[k].requires <= allocations[buffers[k].alloc].size
      /\ buffers[k].live => allocations[buffers[k].alloc].live

(* Nothing given back is given back again, copied to, or bound; what is    *)
(* mapped can be, and lies inside its allocation and in the part a Memory  *)
(* stands for; what is copied to the host lies inside its copy there       *)
(* (Memory::deallocate, Buffer::reset, memType, copyToDevice, copyToHost). *)
(* It is so because every handle, however copied, knows what it holds: the *)
(* rest of the formula, which implies BoundInside.                         *)
MemoryInv ==
  /\ Sound
  /\ \A r \in Handles : Known(r)
  /\ Paired
  /\ ArraysHold
  /\ BuffersInside

=============================================================================
