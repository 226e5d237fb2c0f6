------------------------------ MODULE Staging ------------------------------
(***************************************************************************)
(* Copies between host and device (vkg::Chain::copy with a host pointer).  *)
(* Host data goes through a staging buffer taken from a pool that all      *)
(* chains of the program share.  A staging buffer is locked while a call   *)
(* uses it and unlocked when the call returns; the device reads or writes  *)
(* it later, when it executes the copy that was recorded.                  *)
(*                                                                         *)
(* One thread drives each chain.  The ring of command buffers below a      *)
(* chain is taken for what CommandRing shows it to be: a queue that        *)
(* executes every operation once and in order.  The arrays and images a    *)
(* copy may touch are alike here and called arrays.  Host data are         *)
(* numbers, a new one for each copy.                                       *)
(***************************************************************************)
EXTENDS Naturals, Sequences

CONSTANTS
  Threads,     \* each drives a chain of its own
  Second,      \* the threads whose chain is on another device
  Arrays,
  MaxStaging,  \* MAX_STAGING_BUFFERS
  NoThread,
  Liberties,   \* what clients do beyond the discipline below
  MaxCopies    \* bound: copies called

AllLiberties == {"pending", "threads", "large"}

ASSUME ThreadsAssumption == NoThread \notin Threads /\ Second \subseteq Threads
ASSUME ArraysAssumption == Arrays # {}
ASSUME MaxStagingAssumption == MaxStaging \in Nat \ {0}
ASSUME MaxCopiesAssumption == MaxCopies \in Nat
ASSUME LibertiesAssumption == Liberties \subseteq AllLiberties

VARIABLES
  pool,    \* staging_buffers, in the order of their identifiers
  bytes,   \* device memory of each staging buffer
  pc,      \* where each thread is in its call, or "idle"
  iter,    \* the staging buffer it is looking at or using
  job,     \* the copy it was called for
  result,  \* host memory the last read-back of each thread has written
  called,  \* number of copies called
  array,   \* contents of each device array
  work,    \* copies recorded and not executed, per chain
  handed,  \* how many of them the device has been given
  fault    \* first use the program or the driver forbids, or "none"

callVars == <<pc, iter, job, result, called>>
vars == <<pool, bytes, callVars, array, work, handed, fault>>

Device(t) == IF t \in Second THEN 2 ELSE 1

Kinds  == {"put", "move", "fetch"}
Faults == {"none", "map_race", "unready", "foreign_device", "overrun"}
Stages == {"idle", "probe", "grow", "prepare", "fill", "record", "wait",
           "read", "unlock"}

(* A recorded copy: a put or a fetch goes through a staging buffer, slot.  *)
Copy(kind, from, to, val, slot) ==
  [kind |-> kind, from |-> from, to |-> to, val |-> val, slot |-> slot]

(* What job holds before the first call. *)
NoJob == [kind |-> "fetch", array |-> CHOOSE a \in Arrays : TRUE, val |-> 0,
          large |-> FALSE]

Defined == fault = "none"
Idle(t) == pc[t] = "idle"

Init ==
  /\ pool = <<>>
  /\ bytes = <<>>
  /\ pc = [t \in Threads |-> "idle"]
  /\ iter = [t \in Threads |-> 1]
  /\ job = [t \in Threads |-> NoJob]
  /\ result = [t \in Threads |-> 0]
  /\ called = 0
  /\ array = [a \in Arrays |-> 0]
  /\ work = [t \in Threads |-> <<>>]
  /\ handed = [t \in Threads |-> 0]
  /\ fault = "none"

-----------------------------------------------------------------------------
(* The discipline of Model.h and RenderTest.cpp: one thread copies at a    *)
(* time, and submits and synchronizes before the next copy from the host.  *)

Staged(t) == {i \in 1 .. Len(work[t]) : work[t][i].kind # "move"}

Permitted(t, kind) ==
  /\ \/ \A u \in Threads : Idle(u)
     \/ "threads" \in Liberties
  /\ \/ \A u \in Threads : (kind = "fetch" /\ u = t) \/ Staged(u) = {}
     \/ "pending" \in Liberties

-----------------------------------------------------------------------------
(* Chain::copy with a host pointer. *)

(* A thread that changes the table of staging buffers must be alone in it. *)
RaceFault(t) ==
  IF \E u \in Threads \ {t} : pc[u] = "grow" THEN "map_race" ELSE fault

Call(t, kind, a, large) ==
  /\ Defined
  /\ Idle(t)
  /\ called < MaxCopies
  /\ Permitted(t, kind)
  /\ large => "large" \in Liberties
  /\ called' = called + 1
  /\ job' = [job EXCEPT ![t] = [kind |-> kind, array |-> a, val |-> called + 1,
                                large |-> large]]
  /\ iter' = [iter EXCEPT ![t] = 1]
  /\ pc' = [pc EXCEPT ![t] = IF pool = <<>> THEN "grow" ELSE "probe"]
  /\ fault' = RaceFault(t)
  /\ UNCHANGED <<pool, bytes, result, array, work, handed>>

\* Mutant: a staging buffer is taken whether or not it is locked.
TakesAny(s) == TRUE

(* StagingBuffer::lock is a try_lock. *)
Free(s) == pool[s].holder = NoThread

(* The memory of a new buffer is allocated after the buffer is added.      *)
Ready(s) == \A t \in Threads : ~(pc[t] = "prepare" /\ iter[t] = s)

(* findStaging adds a buffer while there are fewer than it may have. *)
MayGrow == Len(pool) < MaxStaging

(* One turn of the loop of findStaging: lock the buffer, or go to the next *)
(* one, to a new one at the end of the pool, or back to the first.         *)
Probe(t) ==
  /\ Defined
  /\ pc[t] = "probe"
  /\ \/ /\ Free(iter[t])
        /\ pool' = [pool EXCEPT ![iter[t]].holder = t]
        /\ pc' = [pc EXCEPT ![t] =
                    IF job[t].kind = "put" THEN "fill" ELSE "record"]
        /\ fault' = IF Ready(iter[t]) THEN fault ELSE "unready"
        /\ UNCHANGED iter
     \/ /\ ~Free(iter[t])
        /\ fault' = RaceFault(t)
        /\ \/ /\ iter[t] < Len(pool)
              /\ iter' = [iter EXCEPT ![t] = @ + 1]
              /\ UNCHANGED pc
           \/ /\ iter[t] = Len(pool) /\ MayGrow
              /\ pc' = [pc EXCEPT ![t] = "grow"]
              /\ UNCHANGED iter
           \/ /\ iter[t] = Len(pool) /\ ~MayGrow
              /\ iter' = [iter EXCEPT ![t] = 1]
              /\ UNCHANGED pc
        /\ UNCHANGED pool
  /\ UNCHANGED <<bytes, job, result, called, array, work, handed>>

(* staging_buffers.insert: the new buffer can be found from here on. *)
Grow(t) ==
  /\ Defined
  /\ pc[t] = "grow"
  /\ pool' = Append(pool, [holder |-> NoThread, device |-> Device(t)])
  /\ bytes' = Append(bytes, 0)
  /\ iter' = [iter EXCEPT ![t] = Len(pool) + 1]
  /\ pc' = [pc EXCEPT ![t] = "prepare"]
  /\ fault' = RaceFault(t)
  /\ UNCHANGED <<job, result, called, array, work, handed>>

(* Its memory is allocated, on the device of the chain that called. *)
Prepare(t) ==
  /\ Defined
  /\ pc[t] = "prepare"
  /\ pc' = [pc EXCEPT ![t] = "probe"]
  /\ UNCHANGED <<pool, bytes, iter, job, result, called, array, work, handed, fault>>

\* Mutant: host data goes to the host mirror and not to the device.
FillsMirror(s, data) == bytes

(* Memory::copyToDevice. *)
Filled(s, data) == [bytes EXCEPT ![s] = data]

Fill(t) ==
  /\ Defined
  /\ pc[t] = "fill"
  /\ bytes' = Filled(iter[t], job[t].val)
  /\ pc' = [pc EXCEPT ![t] = "record"]
  /\ UNCHANGED <<pool, iter, job, result, called, array, work, handed, fault>>

(* The copy between the staging buffer and the array is recorded. *)
Record(t) ==
  /\ Defined
  /\ pc[t] = "record"
  /\ LET j == job[t]
     IN  work' = [work EXCEPT ![t] =
                    Append(@, Copy(j.kind, j.array, j.array, j.val, iter[t]))]
  /\ pc' = [pc EXCEPT ![t] = IF job[t].kind = "put" THEN "unlock" ELSE "wait"]
  /\ fault' = IF pool[iter[t]].device # Device(t) THEN "foreign_device"
              ELSE IF job[t].large THEN "overrun" ELSE fault
  /\ UNCHANGED <<pool, bytes, iter, job, result, called, array, handed>>

(* Vulkan::deviceSynchronize: what was submitted to the device is done. *)
Wait(t) ==
  /\ Defined
  /\ pc[t] = "wait"
  /\ \A u \in Threads : Device(u) = Device(t) => handed[u] = 0
  /\ pc' = [pc EXCEPT ![t] = "read"]
  /\ UNCHANGED <<pool, bytes, iter, job, result, called, array, work, handed,
                 fault>>

(* Memory::syncToHost, and the copy from the mirror to the caller's data. *)
Read(t) ==
  /\ Defined
  /\ pc[t] = "read"
  /\ result' = [result EXCEPT ![t] = bytes[iter[t]]]
  /\ pc' = [pc EXCEPT ![t] = "unlock"]
  /\ UNCHANGED <<pool, bytes, iter, job, called, array, work, handed, fault>>

\* Mutant: a read-back returns with its staging buffer still locked.
KeepsFetch(t) == IF job[t].kind = "fetch" THEN t ELSE NoThread

(* StagingBuffer::unlock. *)
Unlocked(t) == NoThread

Unlock(t) ==
  /\ Defined
  /\ pc[t] = "unlock"
  /\ pool' = [pool EXCEPT ![iter[t]].holder = Unlocked(t)]
  /\ pc' = [pc EXCEPT ![t] = "idle"]
  /\ UNCHANGED <<bytes, iter, job, result, called, array, work, handed, fault>>

-----------------------------------------------------------------------------
(* The other calls, and the device. *)

(* Chain::copy from one array to another. *)
Move(t, a, b) ==
  /\ Defined
  /\ Idle(t)
  /\ called < MaxCopies
  /\ called' = called + 1
  /\ work' = [work EXCEPT ![t] = Append(@, Copy("move", a, b, 0, 0))]
  /\ UNCHANGED <<pool, bytes, pc, iter, job, result, array, handed, fault>>

(* Chain::submit. *)
Submit(t) ==
  /\ Defined
  /\ Idle(t)
  /\ handed[t] < Len(work[t])
  /\ handed' = [handed EXCEPT ![t] = Len(work[t])]
  /\ UNCHANGED <<pool, bytes, callVars, array, work, fault>>

(* The device executes the oldest copy of a chain. *)
Execute(t) ==
  /\ Defined
  /\ handed[t] > 0
  /\ LET c == Head(work[t])
     IN  \/ /\ c.kind = "put"
            /\ array' = [array EXCEPT ![c.to] = bytes[c.slot]]
            /\ UNCHANGED bytes
         \/ /\ c.kind = "move"
            /\ array' = [array EXCEPT ![c.to] = array[c.from]]
            /\ UNCHANGED bytes
         \/ /\ c.kind = "fetch"
            /\ bytes' = [bytes EXCEPT ![c.slot] = array[c.from]]
            /\ UNCHANGED array
  /\ work' = [work EXCEPT ![t] = Tail(@)]
  /\ handed' = [handed EXCEPT ![t] = @ - 1]
  /\ UNCHANGED <<pool, callVars, fault>>

CallStep(t) ==
  \/ Probe(t) \/ Grow(t) \/ Prepare(t) \/ Fill(t) \/ Record(t)
  \/ Wait(t) \/ Read(t) \/ Unlock(t)

Next == \E t \in Threads :
  \/ \E kind \in {"put", "fetch"}, a \in Arrays, large \in BOOLEAN :
       Call(t, kind, a, large)
  \/ CallStep(t)
  \/ \E a, b \in Arrays : Move(t, a, b)
  \/ Submit(t)
  \/ Execute(t)

(* A thread inside a call goes on, and the device executes what it has.    *)
Fairness == \A t \in Threads : WF_vars(CallStep(t)) /\ WF_vars(Execute(t))

Spec == Init /\ [][Next]_vars /\ Fairness

-----------------------------------------------------------------------------
(* Properties. *)

Buffers == [holder : Threads \union {NoThread}, device : {1, 2}]
Jobs    == [kind : {"put", "fetch"}, array : Arrays, val : 0 .. MaxCopies,
            large : BOOLEAN]
Copies  == [kind : Kinds, from : Arrays, to : Arrays, val : 0 .. MaxCopies,
            slot : Nat]

(* The variables have their types: no thread ever looks past the end of    *)
(* the pool, whatever clients do.                                          *)
TypeOK ==
  /\ pool \in Seq(Buffers)
  /\ bytes \in Seq(Nat) /\ Len(bytes) = Len(pool)
  /\ pc \in [Threads -> Stages]
  /\ iter \in [Threads -> 1 .. MaxStaging]
  /\ job \in [Threads -> Jobs]
  /\ result \in [Threads -> Nat]
  /\ called \in 0 .. MaxCopies
  /\ array \in [Arrays -> Nat]
  /\ work \in [Threads -> Seq(Copies)]
  /\ handed \in [Threads -> Nat]
  /\ fault \in Faults

(* The stages in which a thread holds the staging buffer it looks at. *)
Holding(t) == pc[t] \in {"fill", "record", "wait", "read", "unlock"}

(* Whatever clients do, the pool stays within its limit, a staging buffer  *)
(* is locked by the thread that uses it, and by that thread only while its *)
(* call lasts (findStaging, StagingBuffer::lock, unlock).                  *)
PoolSound ==
  Defined =>
    /\ Len(pool) <= MaxStaging
    /\ \A s \in 1 .. Len(pool), t \in Threads :
         pool[s].holder = t <=> Holding(t) /\ iter[t] = s

(* Copies in flight between host and device do no harm: no buffer of       *)
(* another device or not yet allocated is used, no copy overruns one, and  *)
(* the table of buffers is not changed while another thread is in it.      *)
NoFault == Defined

(* A staging buffer still holds the data of every copy from the host that  *)
(* the device has yet to execute (Chain::copy unlocks it long before).     *)
DataStays ==
  \A t \in Threads : \A i \in 1 .. Len(work[t]) :
    work[t][i].kind = "put" => bytes[work[t][i].slot] = work[t][i].val

-----------------------------------------------------------------------------
(* What keeps the pool sound, whatever clients do. *)

(* Only one thread extends the pool, and only where there is room for it.  *)
GrowAlone ==
  \A t \in Threads : pc[t] = "grow" =>
    Len(pool) < MaxStaging /\ \A u \in Threads \ {t} : pc[u] # "grow"

(* A thread inside a call looks at a buffer of the pool. *)
InPool ==
  \A t \in Threads : pc[t] \notin {"idle", "grow"} => iter[t] \in 1 .. Len(pool)

PoolInv ==
  /\ Len(pool) <= MaxStaging
  /\ InPool
  /\ Defined => GrowAlone /\ PoolSound

-----------------------------------------------------------------------------
(* What a disciplined client preserves, on one device. *)

(* One thread at a time is inside a call. *)
OneCaller == \A t, u \in Threads : ~Idle(t) /\ ~Idle(u) => t = u

(* Every buffer of the pool is on the chains' device. *)
OneDevice == \A s \in 1 .. Len(pool) : pool[s].device = 1

(* The thread has been called and has not recorded its copy yet. *)
Arriving(t) == pc[t] \in {"probe", "grow", "prepare", "fill", "record"}

(* A put finds no pending copy that uses a staging buffer, a fetch none of *)
(* another chain; and the data of a put are in its buffer once filled.     *)
Room ==
  \A t \in Threads : Arriving(t) =>
    /\ ~job[t].large
    /\ \A u \in Threads :
         Staged(u) = {} \/ (u = t /\ job[t].kind = "fetch")
    /\ pc[t] = "fill" => job[t].kind = "put"
    /\ pc[t] = "record" /\ job[t].kind = "put" =>
         bytes[iter[t]] = job[t].val

(* No read-back is executed before a pending put. *)
PutsFirst ==
  \A t, u \in Threads : \A i \in 1 .. Len(work[t]), j \in 1 .. Len(work[u]) :
    work[t][i].kind = "put" /\ work[u][j].kind = "fetch" => u = t /\ i < j

(* The device is given copies in order, and their buffers exist. *)
WorkFits ==
  \A t \in Threads :
    /\ handed[t] <= Len(work[t])
    /\ \A i \in Staged(t) : work[t][i].slot \in 1 .. Len(bytes)

StagingInv ==
  NoFault /\ OneCaller /\ OneDevice /\ Room /\ PutsFirst /\ WorkFits /\ DataStays

-----------------------------------------------------------------------------

(* A read-back returns what the array holds, when no copy that could       *)
(* change an array is pending (Chain.h: copy "from a library array to a    *)
(* host data pointer").                                                    *)
ReadsTell ==
  (\A t \in Threads : \A i \in 1 .. Len(work[t]) : work[t][i].kind = "fetch")
    => \A t \in Threads :
         pc[t] = "unlock" /\ job[t].kind = "fetch" =>
           result[t] = array[job[t].array]

(* Every call returns: no thread looks for a staging buffer for ever.      *)
CallsReturn == \A t \in Threads : ~Idle(t) ~> Idle(t) \/ ~Defined

(* The copies as DeferredCopies sees them. *)
Plain(c)     == [kind |-> c.kind, from |-> c.from, to |-> c.to, val |-> c.val]
PlainSeq(s)  == [i \in 1 .. Len(s) |-> Plain(s[i])]
PlainWork    == [t \in Threads |-> PlainSeq(work[t])]

Deferred == INSTANCE DeferredCopies WITH
  Chains <- Threads,
  Data <- 0 .. MaxCopies,
  work <- PlainWork

(* Copies through the pool do what copies promise: each copy from the host *)
(* brings the data the host had when it was called.                        *)
IsDeferred == Deferred!Safety

=============================================================================
