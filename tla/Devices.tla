------------------------------ MODULE Devices ------------------------------
(***************************************************************************)
(* The global state of the Vulkan back end: the instance and the registry  *)
(* of devices behind vkg::Vulkan, vkg::Device and vkg::Queue, with the     *)
(* errors that Vulkan::add hands out and the threads that share the queues *)
(* of a device.                                                            *)
(*                                                                         *)
(* Devices are objects: those of the registry, and those a program makes   *)
(* itself.  A copy of one shares its table of queue families, whose        *)
(* properties stay those of the object that found them.                    *)
(***************************************************************************)
EXTENDS Naturals, FiniteSets

CONSTANTS
  Registry,    \* VulkanData::devices: an initial segment of Nat
  Own,         \* Device objects of the program
  Extensions,  \* names a program asks for: device extensions and layers
  Default,     \* extensions every DeviceData asks for
  Available(_),\* the names each physical device (a member of Registry) knows
  Families(_), \* the queue families of each: records of kinds and count
  Threads,
  Handlers,    \* error callbacks a program sets, besides the default
  Liberties,
  MaxCalls,    \* bound: calls by each thread
  MaxInits     \* bound: times a program initialises a Device

Objects == Registry \union Own
Kinds   == {"graphics", "compute", "present"}

(* "retry": a program goes on after no device was found, or asks for       *)
(* extensions after the initialisation.                                    *)
(* "orphan": a Device is destroyed, reset or initialised again while       *)
(* others share its families.                                              *)
(* "race": two threads look for queues at the same time, and a family has  *)
(* not made all of its queues yet.                                         *)
(* "share": two threads use one Queue object.                              *)
(* "dummy": the queue returned for want of a better one is used.           *)
(* "handler": the error callback waits for the queue.                      *)
(* "idle": a thread waits for a device while others use its queues.        *)
ASSUME DevicesAssumption ==
  /\ Registry = 0 .. (Cardinality(Registry) - 1)
  /\ Own \subseteq Nat /\ Own \intersect Registry = {}
  /\ Default \subseteq Extensions
  /\ \A d \in Registry :
       /\ Available(d) \subseteq Extensions
       /\ IsFiniteSet(Families(d))
       /\ Families(d) \subseteq [family : Nat, kinds : SUBSET Kinds, count : Nat \ {0}]
  /\ Handlers \subseteq {"own", "null"}
  /\ Liberties \subseteq {"retry", "orphan", "race", "share", "dummy", "handler", "idle"}
  /\ MaxCalls \in Nat /\ MaxInits \in Nat

VARIABLES
  instance, \* vkg::Instance: made, and the layers it was made with
  asked,    \* validation_layers and device_ext of VulkanData
  wanted,   \* every name asked for so far
  device,   \* DeviceData of each object, or "absent"
  table,    \* the shared families: whose properties, and queues made
  box,      \* QueueData of each thread's Queue object
  filled,   \* whose submit info stands in each Queue object
  mutex,    \* mutex_map: the thread that holds the mutex of a queue, or none
  call,     \* what each thread is doing
  calls,    \* calls made
  handler,  \* VulkanData::error_cb
  fault     \* first use of something that is not there, or "none"

vars == <<instance, asked, wanted, device, table, box, filled, mutex, call, calls,
          handler, fault>>

Idle    == [at |-> "idle"]
NoQueue == [is |-> "none"]
Dummy   == [is |-> "dummy"]

Init ==
  /\ instance = [made |-> FALSE, layers |-> {}]
  /\ asked = {} /\ wanted = {}
  /\ device = [o \in Objects |-> [state |-> "absent"]]
  /\ table = [o \in Objects |-> [edition |-> 0, made |-> <<>>]]
  /\ box = [t \in Threads |-> NoQueue]
  /\ filled = [t \in Threads |-> t]
  /\ mutex = {}
  /\ call = [t \in Threads |-> Idle]
  /\ calls = [t \in Threads |-> 0]
  /\ handler = "default"
  /\ fault = "none"

Running == fault = "none" /\ \A t \in Threads : call[t].at # "exit"

-----------------------------------------------------------------------------
(* The registry. *)

Made == {d \in Registry : device[d].state = "live"}

Initialized == instance.made /\ Made # {}

(* generateDevice has one vector of priorities for all families: where the *)
(* pointer of one family points stays, if no later one has more queues     *)
(* than there was room for.                                                *)
PrioritiesStay(d) ==
  \A f, g \in Families(d) :
    f.family < g.family => \E e \in Families(d) : e.family <= f.family /\ e.count >= g.count

(* What the driver reads when these physical devices are given a device.   *)
Generated(ds) ==
  IF \A d \in ds : PrioritiesStay(d) THEN fault ELSE "priorities of a family that moved"

(* addDeviceExtension and addValidationLayer, of what is not on the list    *)
(* already.                                                                *)
Ask(e) ==
  /\ Running
  /\ "retry" \in Liberties \/ ~instance.made
  /\ asked' = asked \union {e} /\ wanted' = wanted \union {e}
  /\ UNCHANGED <<instance, device, table, box, filled, mutex, call, calls, handler, fault>>

\* Mutant: only what was asked for, in place of the lists a device begins with.
OnlyAsked(names, d) == asked \intersect Default \intersect Available(d)

(* filterExtensions, filterLayers: the names that there are. *)
Filtered(names, d) == names \intersect Available(d)

(* DeviceData after initialize: its families are found anew.               *)
Fresh(o, d, names) ==
  [state |-> "live", phys |-> d, ext |-> Filtered(names, d),
   families |-> o, edition |-> table[o].edition + 1]

NoneMade(d) == [f \in Families(d) |-> 0]

Found(o, d) == [edition |-> table[o].edition + 1, made |-> NoneMade(d)]

(* Vulkan::initialize, when n devices are there to be found: the lists are *)
(* given to the instance and to all devices, and cleared in any case.      *)
Initialize(n) ==
  IF Initialized
  THEN /\ asked' = {} /\ UNCHANGED <<instance, device, table>>
  ELSE /\ instance' = [made |-> TRUE, layers |-> instance.layers \union asked]
       /\ device' = [o \in Objects |-> IF o \in Registry /\ o < n
                                       THEN Fresh(o, o, Default \union asked)
                                       ELSE device[o]]
       /\ table' = [o \in Objects |-> IF o \in Registry /\ o < n THEN Found(o, o) ELSE table[o]]
       /\ asked' = {}

Initializing ==
  /\ Running
  /\ "retry" \in Liberties \/ ~instance.made \/ Initialized
  /\ \E n \in 0 .. Cardinality(Registry) :
       /\ Initialize(n)
       /\ fault' = Generated({d \in Registry : d < n /\ ~Initialized})
  /\ UNCHANGED <<wanted, box, filled, mutex, call, calls, handler>>

(* Vulkan::device( id ): the one asked for, or else the first.             *)
DeviceFor(id) == IF id \in Made THEN {id} ELSE Made \intersect {0}

-----------------------------------------------------------------------------
(* Devices of the program. *)

(* Some thread waits for this device. *)
Waited(o) == \E t \in Threads : call[t].at = "idling" /\ call[t].gpu = o

Sharing(o) == {p \in Objects \ {o} : device[p].state # "absent" /\ device[p].families = o}

InUse(o) ==
  \/ Sharing(o) # {}
  \/ \E t \in Threads : box[t].is = "queue" /\ box[t].gpu = o
  \/ \E t \in Threads : call[t].at = "looking" /\ call[t].of = o
  \/ Waited(o)

MayDisturb(o) == "orphan" \in Liberties \/ ~InUse(o)

InitializeOwn(o, d, names) ==
  /\ Running /\ MayDisturb(o)
  /\ instance.made /\ table[o].edition < MaxInits
  /\ device' = [device EXCEPT ![o] = Fresh(o, d, Default \union names)]
  /\ table' = [table EXCEPT ![o] = Found(o, d)]
  /\ fault' = Generated({d})
  /\ UNCHANGED <<instance, asked, wanted, box, filled, mutex, call, calls, handler>>

(* The copy constructor and the assignment: the families are shared.       *)
CopyDevice(o, from) ==
  /\ Running /\ MayDisturb(o)
  /\ device[from].state = "live"
  /\ device' = [device EXCEPT ![o] = device[from]]
  /\ UNCHANGED <<instance, asked, wanted, table, box, filled, mutex, call, calls, handler, fault>>

(* Device::reset destroys the vk::Device, and keeps the handle; ~Device    *)
(* takes the properties of the families with it.                           *)
ResetDevice(o) ==
  /\ Running /\ MayDisturb(o)
  /\ device[o].state = "live" /\ device[o].families = o
  /\ device' = [p \in Objects |->
                  IF device[p].state = "live" /\ device[p].families = o
                  THEN [device[p] EXCEPT !.state = "reset"] ELSE device[p]]
  /\ UNCHANGED <<instance, asked, wanted, table, box, filled, mutex, call, calls, handler, fault>>

DestroyDevice(o) ==
  /\ Running /\ MayDisturb(o)
  /\ device[o].state # "absent"
  /\ device' = [device EXCEPT ![o] = [state |-> "absent"]]
  /\ UNCHANGED <<instance, asked, wanted, table, box, filled, mutex, call, calls, handler, fault>>

-----------------------------------------------------------------------------
(* Looking for a queue. *)

(* The families that will do; presentQueue wants graphics as well.         *)
Suits(kind, f) ==
  /\ kind \in f.kinds
  /\ kind = "present" => "graphics" \in f.kinds

Suited(o, kind) == {f \in Families(device[o].phys) : Suits(kind, f)}

FirstFamily(set) == CHOOSE f \in set : \A g \in set : f.family <= g.family

(* The properties the families point to are those of the object that found *)
(* them, as long as it is there and has not found others.                  *)
PropertiesThere(o) ==
  LET of == device[o].families
  IN  /\ device[of].state # "absent" /\ device[of].families = of
      /\ device[of].edition = device[o].edition

Grows(of, f) == table[of].made[f] < f.count

\* Mutant: another queue is made each time.
MakeAlways(of, f) == table' = [table EXCEPT ![of].made[f] = @ + 1]

(* makeQueue: another queue is made, as long as the family has more, and   *)
(* the first one is returned by reference, for the caller to copy.         *)
MakeQueue(of, f) ==
  IF Grows(of, f) THEN table' = [table EXCEPT ![of].made[f] = @ + 1] ELSE UNCHANGED table

(* A family that has made all its queues is one that any number of threads *)
(* can look for a queue in.                                                *)
MayLookIn(of, f) ==
  "race" \in Liberties \/
    \A u \in Threads : call[u].at = "looking" => ~call[u].grew /\ ~Grows(of, f)

(* graphicsQueue, computeQueue and presentQueue, on an object; the queue  *)
(* is a dummy when no family will do.                                      *)
Look(t, o, kind) ==
  /\ PropertiesThere(o)
  /\ \/ /\ Suited(o, kind) = {}
        /\ call' = [call EXCEPT ![t] = [at |-> "refused"]]
        /\ UNCHANGED table
     \/ /\ Suited(o, kind) # {}
        /\ LET f  == FirstFamily(Suited(o, kind))
               of == device[o].families
           IN  /\ MayLookIn(of, f)
               /\ MakeQueue(of, f)
               /\ call' = [call EXCEPT ![t] = [at |-> "looking", of |-> of, family |-> f,
                                              grew |-> Grows(of, f),
                                              edition |-> table[of].edition,
                                              made |-> table'[of].made[f]]]
  /\ UNCHANGED fault

Stray(t, o) ==
  /\ ~PropertiesThere(o)
  /\ fault' = "properties of another device"
  /\ UNCHANGED <<table, call>>

MayLook(t) ==
  /\ Running
  /\ call[t] = Idle /\ calls[t] < MaxCalls

(* Vulkan::graphicsQueue( gpu ) and the others, and presentQueue for a     *)
(* window that there is, once Vulkan::initialize, which they call first,   *)
(* has nothing to do or has found nothing.                                 *)
LookUp(t, id, kind) ==
  /\ MayLook(t) /\ instance.made /\ asked = {}
  /\ \/ /\ DeviceFor(id) = {}
        /\ call' = [call EXCEPT ![t] = [at |-> "refused"]]
        /\ UNCHANGED <<table, fault>>
     \/ \E o \in DeviceFor(id) : Look(t, o, kind) \/ Stray(t, o)
  /\ calls' = [calls EXCEPT ![t] = @ + 1]
  /\ UNCHANGED <<instance, asked, wanted, device, box, filled, mutex, handler>>

(* The same on a device of the program. *)
LookAt(t, o, kind) ==
  /\ MayLook(t) /\ device[o].state = "live"
  /\ Look(t, o, kind) \/ Stray(t, o)
  /\ calls' = [calls EXCEPT ![t] = @ + 1]
  /\ UNCHANGED <<instance, asked, wanted, device, box, filled, mutex, handler>>

(* The queues of the family are those there were, and as many.             *)
Stayed(c) ==
  c.edition = table[c.of].edition /\ c.made = table[c.of].made[c.family]

(* The caller copies what it was given a reference to.                     *)
Take(t) ==
  LET c == call[t]
  IN  /\ Running
      /\ \/ /\ c.at = "refused"
            /\ box' = [box EXCEPT ![t] = Dummy] /\ UNCHANGED fault
         \/ /\ c.at = "looking" /\ Stayed(c)
            /\ box' = [box EXCEPT ![t] = [is |-> "queue", gpu |-> c.of, family |-> c.family]]
            /\ UNCHANGED fault
         \/ /\ c.at = "looking" /\ ~Stayed(c)
            /\ fault' = "reference to a queue that moved" /\ UNCHANGED box
      /\ call' = [call EXCEPT ![t] = Idle]
      /\ UNCHANGED <<instance, asked, wanted, device, table, filled, mutex, calls, handler>>

-----------------------------------------------------------------------------
(* Using a queue. *)

\* Mutant: each Queue object has a mutex of its own.
OwnMutex(b) == b

(* The mutex of a queue: mutex_map[ vk_queue ]. *)
MutexOf(b) == box[b]

Held(m) == {pair \in mutex : pair[1] = m}

Filled(t, b) == [filled EXCEPT ![b] = t]

(* submit fills the info that the Queue object keeps, before the mutex.    *)
Fill(t, b) ==
  /\ Running
  /\ call[t] = Idle /\ calls[t] < MaxCalls
  /\ b = t \/ "share" \in Liberties
  /\ box[b] # NoQueue /\ (box[b] # Dummy \/ "dummy" \in Liberties)
  /\ "idle" \in Liberties \/ box[b] = Dummy \/ ~Waited(box[b].gpu)
  /\ filled' = Filled(t, b)
  /\ \E does \in {"submit", "wait"} :
       call' = [call EXCEPT ![t] = [at |-> "locking", box |-> b, does |-> does]]
  /\ calls' = [calls EXCEPT ![t] = @ + 1]
  /\ UNCHANGED <<instance, asked, wanted, device, table, box, mutex, handler, fault>>

Lock(t) ==
  LET c == call[t]
  IN  /\ Running /\ c.at = "locking"
      /\ \/ /\ box[c.box] = Dummy
            /\ fault' = "mutex of a dummy queue" /\ UNCHANGED <<call, mutex>>
         \/ /\ box[c.box] # Dummy
            /\ Held(MutexOf(c.box)) = {}
            /\ mutex' = mutex \union {<<MutexOf(c.box), t>>}
            /\ call' = [call EXCEPT ![t] = [at |-> "driving", queue |-> box[c.box],
                                           does |-> c.does, for |-> filled[c.box],
                                           holds |-> MutexOf(c.box), box |-> c.box]]
            /\ UNCHANGED fault
      /\ UNCHANGED <<instance, asked, wanted, device, table, box, filled, calls, handler>>

(* What a thread is using, or about to: a queue of a device, or all.       *)
Using(t, o) ==
  LET c == call[t]
  IN  \/ c.at = "locking" /\ box[c.box] # Dummy /\ box[c.box].gpu = o
      \/ c.at = "driving" /\ c.queue.gpu = o
      \/ c.at = "idling" /\ c.gpu = o

(* Device::wait, which chains, swapchains and renderers call by            *)
(* Vulkan::deviceSynchronize: the driver uses every queue of the device,   *)
(* and no mutex is locked.                                                 *)
Synchronize(t, o) ==
  /\ Running
  /\ call[t] = Idle /\ calls[t] < MaxCalls
  /\ device[o].state = "live"
  /\ LET of == device[o].families
     IN  /\ "idle" \in Liberties \/ \A u \in Threads : ~Using(u, of)
         /\ call' = [call EXCEPT ![t] = [at |-> "idling", gpu |-> of]]
  /\ calls' = [calls EXCEPT ![t] = @ + 1]
  /\ UNCHANGED <<instance, asked, wanted, device, table, box, filled, mutex, handler, fault>>

Severities == {"none", "warning", "fatal"}

\* Mutant: the mutex is kept on an error.
KeepsOnError(t, severity) ==
  IF severity = "none" THEN mutex \ {<<call[t].holds, t>>} ELSE mutex

Unlocked(t, severity) == mutex \ {<<call[t].holds, t>>}

(* The driver returns.  Vulkan::add passes an error to the callback, while *)
(* the mutex is still held: the default one ends the program on what is    *)
(* fatal, and one of the program's own may wait for the queue.             *)
Driven(t, severity) ==
  LET c == call[t]
  IN  /\ Running /\ c.at = "driving"
      /\ \/ /\ severity = "fatal" /\ handler = "default"
            /\ call' = [call EXCEPT ![t] = [at |-> "exit"]]
            /\ UNCHANGED mutex
         \/ /\ severity # "none" /\ handler = "own" /\ "handler" \in Liberties
            /\ call' = [call EXCEPT ![t] = [at |-> "locking", box |-> c.box, does |-> "wait"]]
            /\ UNCHANGED mutex
         \/ /\ severity = "fatal" => handler # "default"
            /\ call' = [call EXCEPT ![t] = Idle]
            /\ mutex' = Unlocked(t, severity)
      /\ UNCHANGED <<instance, asked, wanted, device, table, box, filled, calls, handler, fault>>

(* The wait is over.  The callback has no mutex to wait for.               *)
Idled(t, severity) ==
  /\ Running /\ call[t].at = "idling"
  /\ call' = [call EXCEPT ![t] = IF severity = "fatal" /\ handler = "default"
                                 THEN [at |-> "exit"] ELSE Idle]
  /\ UNCHANGED <<instance, asked, wanted, device, table, box, filled, mutex, calls, handler, fault>>

SetErrorHandler(h) ==
  /\ Running
  /\ handler # h
  /\ handler' = h
  /\ UNCHANGED <<instance, asked, wanted, device, table, box, filled, mutex, call, calls, fault>>

-----------------------------------------------------------------------------
Registration ==
  \/ \E e \in Extensions \ Default : Ask(e)
  \/ Initializing
  \/ \E h \in Handlers : SetErrorHandler(h)

Programs ==
  \E o \in Own :
    \/ \E d \in Registry, names \in {{}, Extensions} : InitializeOwn(o, d, names)
    \/ \E from \in Objects \ {o} : CopyDevice(o, from)
    \/ ResetDevice(o)
    \/ DestroyDevice(o)

Step(t) ==
  Take(t) \/ Lock(t) \/ \E severity \in Severities : Driven(t, severity) \/ Idled(t, severity)

Queues ==
  \E t \in Threads :
    \/ \E id \in Registry \union Own, kind \in Kinds : LookUp(t, id, kind)
    \/ \E o \in Own, kind \in Kinds : LookAt(t, o, kind)
    \/ \E b \in Threads : Fill(t, b)
    \/ \E o \in Objects : Synchronize(t, o)
    \/ Step(t)

Next == Registration \/ Programs \/ Queues

(* A thread goes on, and the driver returns.                               *)
Spec == Init /\ [][Next]_vars /\ \A t \in Threads : WF_vars(Step(t))

-----------------------------------------------------------------------------
(* Properties. *)

DeviceData ==
  [state : {"absent"}]
    \union [state : {"live", "reset"}, phys : Registry, ext : SUBSET Extensions,
            families : Objects, edition : Nat]

TypeOK ==
  /\ instance \in [made : BOOLEAN, layers : SUBSET Extensions]
  /\ asked \subseteq wanted /\ wanted \subseteq Extensions
  /\ device \in [Objects -> DeviceData]
  /\ \A o \in Objects : table[o].edition \in Nat
  /\ \A t \in Threads : box[t].is \in {"none", "dummy", "queue"}
  /\ filled \in [Threads -> Threads]
  /\ \A t \in Threads :
       /\ call[t].at \in {"idle", "looking", "refused", "locking", "driving", "idling", "exit"}
       /\ calls[t] \in 0 .. MaxCalls
  /\ handler \in {"default"} \union Handlers

(* Queue families are read through properties that are still there, the    *)
(* driver reads priorities that are, the reference makeQueue returns is    *)
(* copied before the vector it points into grows, and no queue without a   *)
(* mutex is locked.                                                        *)
NoFault == fault = "none"

(* What a program asks for, and a device or the instance knows, it gets,   *)
(* on every device (addDeviceExtension, addValidationLayer, initialize).   *)
AskedEnabled ==
  /\ instance.made => wanted \subseteq instance.layers
  /\ \A d \in Made : (Default \union wanted) \intersect Available(d) \subseteq device[d].ext

Driving(t) == call[t].at = "driving"

(* Vulkan wants the calls on one vk::Queue one at a time: all the copies   *)
(* of a Queue have the same mutex (Queue::initialize, mutex_map).  Of the  *)
(* calls that lock it this is so whatever programs do.                     *)
OneAtATime ==
  \A t, u \in Threads : t # u /\ Driving(t) /\ Driving(u) => call[t].queue # call[u].queue

(* A wait for a device is a call on all its queues, and locks nothing      *)
(* (Device::wait): no other thread uses one of them meanwhile.             *)
WaitsAlone ==
  \A t, u \in Threads : t # u /\ call[t].at = "idling" => ~Using(u, call[t].gpu)

(* The driver is given the submit info its caller filled, although that is *)
(* filled before the mutex is locked (Queue::submit).                      *)
SubmitsOwn == \A t \in Threads : Driving(t) /\ call[t].does = "submit" => call[t].for = t

(* Who holds a mutex is with the driver, or has ended the program there,   *)
(* or waits in an error callback: no call keeps it when it returns.        *)
NoneLeft == \A m \in mutex : call[m[2]].at \in {"locking", "driving", "exit"}

(* A vk::Device that is live is one device's: the copies of an object have *)
(* the families, extensions and physical device it has.                    *)
CopiesAgree ==
  \A o, p \in Objects :
    device[o].state = "live" /\ device[p].state = "live" /\ device[o].families = device[p].families
      => device[o] = device[p]

(* Types, and no reference or pointer is followed to what has gone, or     *)
(* was never there (Device, generateDevice, makeQueue, Queue).             *)
Safe == TypeOK /\ NoFault

(* A device is what was asked for, in the registry and in every copy.      *)
(* (Vulkan::initialize, Device::initialize and assignment).                *)
DevicesAsAsked == AskedEnabled /\ CopiesAgree

(* Threads that share a queue take turns, each has its own submission      *)
(* executed, and none leaves the mutex locked (Queue::submit, wait); who   *)
(* waits for a device waits alone (Device::wait).                          *)
QueuesKept == OneAtATime /\ WaitsAlone /\ SubmitsOwn /\ NoneLeft

(* Every call on a queue returns, or an error ends the program: no error   *)
(* leaves a mutex locked (Queue::wait, Queue::submit, Vulkan::add).        *)
CallsReturn ==
  \A t \in Threads : call[t].at # "idle" ~> call[t].at = "idle" \/ ~Running
-----------------------------------------------------------------------------
(* What the properties rest on: each part is inductive, given the ones     *)
(* before it, under the liberties its name leaves out.                     *)

(* The forms of the variables, beyond TypeOK.                              *)
Formed ==
  /\ table = [o \in Objects |-> [edition |-> table[o].edition, made |-> table[o].made]]
  /\ box = [t \in Threads |-> box[t]]
  /\ calls = [t \in Threads |-> calls[t]]
  /\ call = [t \in Threads |-> call[t]]
  /\ \A t \in Threads :
       /\ call[t].at = "looking" => call[t].of \in Objects
       /\ call[t].at \in {"locking", "driving"} => call[t].box \in Threads
       /\ call[t].at = "driving" => call[t].for \in Threads

(* A thread that is with the driver holds the mutex of the queue it uses,  *)
(* and a mutex has one holder.                                             *)
Excluded ==
  /\ \A m \in mutex : m = <<m[1], m[2]>> /\ m[2] \in Threads
  /\ \A m, n \in mutex : m[1] = n[1] => m = n
  /\ \A t \in Threads :
       Driving(t) => call[t].holds = call[t].queue /\ <<call[t].holds, t>> \in mutex

(* Threads that share no Queue object use the one they have, which stays   *)
(* as it is and is filled by nobody else.                                  *)
OwnQueue ==
  "share" \notin Liberties =>
    /\ \A t \in Threads : filled[t] = t
    /\ \A t \in Threads :
         call[t].at \in {"locking", "driving"} =>
           /\ call[t].box = t
           /\ box[t] = Dummy => "dummy" \in Liberties
    /\ \A t \in Threads : Driving(t) => call[t].holds = box[t] /\ call[t].for = t

(* Who holds a mutex is with the driver, or has ended the program there,   *)
(* or waits for that mutex itself, in an error callback.                   *)
Released ==
  \A m \in mutex :
    LET c == call[m[2]]
    IN  /\ c.at \in {"locking", "driving", "exit"}
        /\ c.at = "driving" => m[1] = c.holds
        /\ c.at = "locking" => "handler" \in Liberties /\ m[1] = MutexOf(c.box)

(* The devices of the registry are their own, and there are none before    *)
(* the instance.                                                           *)
Registered ==
  /\ ~instance.made => \A o \in Objects : device[o].state = "absent"
  /\ \A d \in Registry :
       device[d].state # "absent" => device[d].state = "live" /\ device[d].families = d

(* What was asked for is on a list until it is given to everyone.          *)
Asked ==
  "retry" \notin Liberties =>
    /\ ~instance.made => asked = wanted
    /\ instance.made => asked = {} /\ wanted \subseteq instance.layers
    /\ \A d \in Made : device[d].ext = Filtered(Default \union wanted, d)

(* A device is as the one that found its families, which is still there.   *)
Shared ==
  "orphan" \notin Liberties =>
    /\ \A o \in Objects :
         device[o].state # "absent" => device[device[o].families] = device[o]
    /\ \A t \in Threads :
         call[t].at = "looking" =>
           device[call[t].of].state # "absent" /\ device[call[t].of].families = call[t].of

(* Whoever has a reference to a queue, it is good.                         *)
Referred ==
  {"race", "orphan"} \intersect Liberties = {} =>
    \A t \in Threads : call[t].at = "looking" => Stayed(call[t])

QueueInv  == Formed /\ Excluded /\ OwnQueue
DeviceInv == Registered /\ Asked /\ Shared /\ Referred

=============================================================================
