--------------------------- MODULE DevicesProofs ---------------------------
(***************************************************************************)
(* Proofs about the global state: the mutexes of queues, the lists of what *)
(* is asked for, and the devices that share their families.                *)
(*                                                                         *)
(* The invariants are QueueInv, Released and DeviceInv of Devices.  Each   *)
(* of their parts needs few of the liberties to be left out; a theorem     *)
(* names those its property needs.                                         *)
(***************************************************************************)
EXTENDS Devices, TLAPS

-----------------------------------------------------------------------------
(* Steps, and what they leave alone.                                       *)

(* What is done to devices changes nothing of the queues in use.           *)
LEMMA DeviceFrame ==
  ASSUME Registration \/ Programs
  PROVE  /\ UNCHANGED <<box, filled, mutex, call, calls>>
         /\ UNCHANGED fault \/ \E ds \in SUBSET Registry : fault' = Generated(ds)
<1>1. ASSUME Initializing
      PROVE  /\ UNCHANGED <<box, filled, mutex, call, calls>>
             /\ \E ds \in SUBSET Registry : fault' = Generated(ds)
  <2>1. PICK n : fault' = Generated({d \in Registry : d < n /\ ~Initialized})
    BY <1>1, Zenon DEF Initializing
  <2>2. UNCHANGED <<box, filled, mutex, call, calls>>
    BY <1>1, Zenon DEF Initializing
  <2>3. {d \in Registry : d < n /\ ~Initialized} \in SUBSET Registry
    OBVIOUS
  <2> QED BY <2>1, <2>2, <2>3
<1>2. ASSUME NEW o, NEW d \in Registry, NEW names, InitializeOwn(o, d, names)
      PROVE  /\ UNCHANGED <<box, filled, mutex, call, calls>>
             /\ \E ds \in SUBSET Registry : fault' = Generated(ds)
  <2>1. fault' = Generated({d}) /\ UNCHANGED <<box, filled, mutex, call, calls>>
    BY <1>2, Zenon DEF InitializeOwn
  <2>2. {d} \in SUBSET Registry
    OBVIOUS
  <2> QED BY <2>1, <2>2
<1>3. CASE Registration
  <2>1. Initializing \/ UNCHANGED <<box, filled, mutex, call, calls, fault>>
    BY <1>3, Zenon DEF Registration, Ask, SetErrorHandler
  <2> QED BY <1>1, <2>1
<1>4. CASE Programs
  <2>1. \/ \E o \in Own, d \in Registry, names \in {{}, Extensions} : InitializeOwn(o, d, names)
        \/ UNCHANGED <<box, filled, mutex, call, calls, fault>>
    <3>1. PICK o \in Own :
            \/ \E d \in Registry, names \in {{}, Extensions} : InitializeOwn(o, d, names)
            \/ \E from \in Objects \ {o} : CopyDevice(o, from)
            \/ ResetDevice(o)
            \/ DestroyDevice(o)
      BY <1>4, Zenon DEF Programs
    <3> QED BY <3>1, Zenon DEF CopyDevice, ResetDevice, DestroyDevice
  <2> QED BY <1>2, <2>1
<1> QED BY <1>3, <1>4

(* A thread waits for a device, or has waited. *)
Waits(t) ==
  (\E o \in Objects : Synchronize(t, o)) \/ (\E severity \in Severities : Idled(t, severity))

LEMMA WaitCall ==
  ASSUME NEW t, Waits(t)
  PROVE  /\ UNCHANGED <<instance, asked, wanted, device, table, box, filled, mutex, handler, fault>>
         /\ call[t].at \in {"idle", "idling"}
         /\ \/ UNCHANGED calls
            \/ calls[t] < MaxCalls /\ calls' = [calls EXCEPT ![t] = calls[t] + 1]
         /\ \E c : /\ call' = [call EXCEPT ![t] = c]
                   /\ c.at \in {"idle", "idling", "exit"}
                   /\ c.at = "idling" => "idle" \in Liberties \/ \A u \in Threads : ~Using(u, c.gpu)
<1> DEFINE Good == \E c : /\ call' = [call EXCEPT ![t] = c]
                          /\ c.at \in {"idle", "idling", "exit"}
                          /\ c.at = "idling" => "idle" \in Liberties \/ \A u \in Threads : ~Using(u, c.gpu)
<1>1. ASSUME NEW o, Synchronize(t, o)
      PROVE  Good /\ call[t].at = "idle"
  <2>1. PICK c : c = [at |-> "idling", gpu |-> device[o].families]
    OBVIOUS
  <2>2. c.at = "idling" /\ c.gpu = device[o].families
    BY <2>1
  <2>3. call' = [call EXCEPT ![t] = c]
    BY <1>1, <2>1, Zenon DEF Synchronize
  <2>4. "idle" \in Liberties \/ \A u \in Threads : ~Using(u, device[o].families)
    BY <1>1, Zenon DEF Synchronize
  <2>5. call[t].at = "idle"
    BY <1>1 DEF Synchronize, Idle
  <2> QED BY <2>2, <2>3, <2>4, <2>5
<1>2. ASSUME NEW severity, Idled(t, severity)
      PROVE  Good /\ call[t].at = "idling"
  <2>1. PICK c : c = IF severity = "fatal" /\ handler = "default" THEN [at |-> "exit"] ELSE Idle
    OBVIOUS
  <2>2. c.at \in {"idle", "exit"}
    BY <2>1 DEF Idle
  <2>3. call' = [call EXCEPT ![t] = c] /\ call[t].at = "idling"
    BY <1>2, <2>1, Zenon DEF Idled
  <2> QED BY <2>2, <2>3
<1>3. UNCHANGED <<instance, asked, wanted, device, table, box, filled, mutex, handler, fault>>
  BY Zenon DEF Waits, Synchronize, Idled
<1>4. \/ UNCHANGED calls
      \/ calls[t] < MaxCalls /\ calls' = [calls EXCEPT ![t] = calls[t] + 1]
  BY Zenon DEF Waits, Synchronize, Idled
<1> QED BY <1>1, <1>2, <1>3, <1>4 DEF Waits

(* What is done to queues changes nothing of the devices.                  *)
LEMMA QueueFrame ==
  ASSUME Queues
  PROVE  UNCHANGED <<instance, asked, wanted, device, handler>>
<1>1. ASSUME NEW t, Waits(t)
      PROVE  UNCHANGED <<instance, asked, wanted, device, handler>>
  BY <1>1, WaitCall
<1> QED BY <1>1 DEF Queues, Step, Waits, LookUp, LookAt, Take, Fill, Lock, Driven

-----------------------------------------------------------------------------
(* Forms and types. *)

LEMMA FormedInit == Init => Formed
BY DEF Init, Formed, Idle

LEMMA LiveFamilies ==
  ASSUME TypeOK, NEW o \in Objects, device[o].state # "absent"
  PROVE  device[o].families \in Objects
BY DEF TypeOK, DeviceData

LEMMA MoreMade ==
  ASSUME NEW e, NEW m, NEW f, NEW x
  PROVE  [[edition |-> e, made |-> m] EXCEPT !.made[f] = x]
           = [edition |-> e, made |-> [m EXCEPT ![f] = x]]
OBVIOUS

(* Look leaves the forms as they are. *)
LEMMA LookFormed ==
  ASSUME TypeOK, Formed, NEW t \in Threads, NEW o \in Objects, NEW kind,
         device[o].state = "live", Look(t, o, kind)
  PROVE  /\ table' = [p \in Objects |-> [edition |-> table[p].edition, made |-> table'[p].made]]
         /\ call' = [u \in Threads |-> IF u = t THEN call'[t] ELSE call[u]]
         /\ call'[t].at \in {"refused", "looking"}
         /\ call'[t].at = "looking" => call'[t].of \in Objects
<1>1. device[o].families \in Objects
  BY LiveFamilies
<1>2. CASE Suited(o, kind) = {} /\ call' = [call EXCEPT ![t] = [at |-> "refused"]] /\ UNCHANGED table
  BY <1>2 DEF Formed
<1>3. ASSUME NEW f, NEW of, of = device[o].families, MakeQueue(of, f),
             call' = [call EXCEPT ![t] = [at |-> "looking", of |-> of, family |-> f,
                                          grew |-> Grows(of, f), edition |-> table[of].edition,
                                          made |-> table'[of].made[f]]]
      PROVE  /\ table' = [p \in Objects |-> [edition |-> table[p].edition, made |-> table'[p].made]]
             /\ call' = [u \in Threads |-> IF u = t THEN call'[t] ELSE call[u]]
             /\ call'[t].at \in {"refused", "looking"}
             /\ call'[t].at = "looking" => call'[t].of \in Objects
  <2>1. UNCHANGED table =>
          table' = [p \in Objects |-> [edition |-> table[p].edition, made |-> table'[p].made]]
    BY DEF Formed
  <2>2. ASSUME table' = [table EXCEPT ![of].made[f] = @ + 1]
        PROVE  table' = [p \in Objects |-> [edition |-> table[p].edition, made |-> table'[p].made]]
    <3>1. PICK x : x = table[of].made[f] + 1
      OBVIOUS
    <3>2. table' = [table EXCEPT ![of].made[f] = x]
      BY <2>2, <3>1
    <3>3. PICK e, m : table[of] = [edition |-> e, made |-> m] /\ e = table[of].edition
      BY <1>1, <1>3 DEF Formed
    <3>4. [table[of] EXCEPT !.made[f] = x] = [edition |-> e, made |-> [m EXCEPT ![f] = x]]
      BY <3>3, MoreMade
    <3>5. PICK w : w = [edition |-> e, made |-> [m EXCEPT ![f] = x]]
      OBVIOUS
    <3>6. table' = [table EXCEPT ![of] = w]
      BY <3>2, <3>4, <3>5, Zenon
    <3>7. w = [edition |-> table[of].edition, made |-> w.made]
      BY <3>3, <3>5
    <3> QED BY <1>1, <1>3, <3>6, <3>7 DEF Formed
  <2>4. table' = [p \in Objects |-> [edition |-> table[p].edition, made |-> table'[p].made]]
    BY <1>3, <2>1, <2>2, Zenon DEF MakeQueue
  <2>5. PICK y : y = [at |-> "looking", of |-> of, family |-> f,
                      grew |-> Grows(of, f), edition |-> table[of].edition,
                      made |-> table'[of].made[f]]
    OBVIOUS
  <2>6. call' = [call EXCEPT ![t] = y]
    BY <1>3, <2>5
  <2>7. y.at = "looking" /\ y.of = of
    BY <2>5
  <2> QED BY <1>1, <1>3, <2>4, <2>6, <2>7 DEF Formed
<1> QED BY <1>2, <1>3 DEF Look

(* A call that a thread makes, or goes on with, is in form. *)
LEMMA CallFormed ==
  ASSUME Formed, NEW t \in Threads, NEW c,
         call' = [u \in Threads |-> IF u = t THEN c ELSE call[u]],
         c.at = "looking" => c.of \in Objects,
         c.at \in {"locking", "driving"} => c.box \in Threads,
         c.at = "driving" => c.for \in Threads,
         table' = [o \in Objects |-> [edition |-> table[o].edition, made |-> table'[o].made]],
         UNCHANGED box \/ \E v : box' = [box EXCEPT ![t] = v],
         UNCHANGED calls \/ \E v : calls' = [calls EXCEPT ![t] = v]
  PROVE  Formed'
<1>1. box' = [u \in Threads |-> box'[u]] /\ calls' = [u \in Threads |-> calls'[u]]
  BY DEF Formed
<1>2. table' = [o \in Objects |-> [edition |-> table'[o].edition, made |-> table'[o].made]]
  OBVIOUS
<1>3. call' = [u \in Threads |-> call'[u]]
  OBVIOUS
<1>4. ASSUME NEW u \in Threads
      PROVE  /\ call'[u].at = "looking" => call'[u].of \in Objects
             /\ call'[u].at \in {"locking", "driving"} => call'[u].box \in Threads
             /\ call'[u].at = "driving" => call'[u].for \in Threads
  BY DEF Formed
<1> QED BY <1>1, <1>2, <1>3, <1>4 DEF Formed

LEMMA LockingForm ==
  \A b, does : LET c == [at |-> "locking", box |-> b, does |-> does]
               IN  c.at = "locking" /\ c.box = b
OBVIOUS

LEMMA CallSet ==
  ASSUME Formed, NEW t \in Threads, NEW c, call' = [call EXCEPT ![t] = c]
  PROVE  call' = [u \in Threads |-> IF u = t THEN c ELSE call[u]]
BY DEF Formed

LEMMA TableFormed ==
  ASSUME Formed, Registration \/ Programs
  PROVE  table' = [o \in Objects |-> [edition |-> table'[o].edition, made |-> table'[o].made]]
<1>1. CASE UNCHANGED table
  BY <1>1 DEF Formed
<1>2. ASSUME NEW n, Initialize(n)
      PROVE  table' = [o \in Objects |-> [edition |-> table'[o].edition, made |-> table'[o].made]]
  <2>1. CASE table' = [o \in Objects |-> IF o \in Registry /\ o < n THEN Found(o, o) ELSE table[o]]
    BY <2>1 DEF Formed, Found
  <2>2. UNCHANGED table \/ table' = [o \in Objects |-> IF o \in Registry /\ o < n THEN Found(o, o) ELSE table[o]]
    BY <1>2, Zenon DEF Initialize
  <2> QED BY <1>1, <2>1, <2>2
<1>3. ASSUME NEW o \in Own, NEW d \in Registry, NEW names, InitializeOwn(o, d, names)
      PROVE  table' = [p \in Objects |-> [edition |-> table'[p].edition, made |-> table'[p].made]]
  <2>1. table' = [table EXCEPT ![o] = [edition |-> table[o].edition + 1, made |-> NoneMade(d)]]
    BY <1>3, Zenon DEF InitializeOwn, Found
  <2> QED BY <2>1 DEF Formed
<1>4. \/ UNCHANGED table
      \/ \E n \in 0 .. Cardinality(Registry) : Initialize(n)
      \/ \E o \in Own, d \in Registry, names \in {{}, Extensions} : InitializeOwn(o, d, names)
  BY Zenon DEF Registration, Programs, Ask, Initializing, SetErrorHandler, CopyDevice, ResetDevice,
               DestroyDevice
<1> QED BY <1>1, <1>2, <1>3, <1>4

(* The calls after each action on a queue. *)
LEMMA FillCall ==
  ASSUME NEW t, NEW b, Fill(t, b)
  PROVE  \E c : call' = [call EXCEPT ![t] = c] /\ c.at = "locking" /\ c.box = b
<1>1. PICK does \in {"submit", "wait"} :
        call' = [call EXCEPT ![t] = [at |-> "locking", box |-> b, does |-> does]]
  BY Zenon DEF Fill
<1> QED BY <1>1, LockingForm

LEMMA LockCall ==
  ASSUME NEW t, Lock(t)
  PROVE  \/ /\ box[call[t].box] = Dummy
            /\ UNCHANGED <<call, mutex>> /\ fault' # "none"
         \/ /\ box[call[t].box] # Dummy
            /\ Held(MutexOf(call[t].box)) = {}
            /\ mutex' = mutex \union {<<MutexOf(call[t].box), t>>}
            /\ UNCHANGED fault
            /\ \E c : /\ call' = [call EXCEPT ![t] = c]
                      /\ c.at = "driving" /\ c.queue = box[call[t].box]
                      /\ c.for = filled[call[t].box] /\ c.holds = MutexOf(call[t].box)
                      /\ c.box = call[t].box
<1>1. \A q, does, for, holds, b :
        LET c == [at |-> "driving", queue |-> q, does |-> does, for |-> for, holds |-> holds, box |-> b]
        IN  c.at = "driving" /\ c.queue = q /\ c.for = for /\ c.holds = holds /\ c.box = b
  OBVIOUS
<1>2. \/ box[call[t].box] = Dummy /\ fault' = "mutex of a dummy queue" /\ UNCHANGED <<call, mutex>>
      \/ /\ box[call[t].box] # Dummy
         /\ Held(MutexOf(call[t].box)) = {}
         /\ mutex' = mutex \union {<<MutexOf(call[t].box), t>>}
         /\ UNCHANGED fault
         /\ call' = [call EXCEPT ![t] = [at |-> "driving", queue |-> box[call[t].box],
                                         does |-> call[t].does, for |-> filled[call[t].box],
                                         holds |-> MutexOf(call[t].box), box |-> call[t].box]]
  BY Zenon DEF Lock
<1>3. "mutex of a dummy queue" # "none"
  OBVIOUS
<1> QED BY <1>1, <1>2, <1>3, ZenonT(30)

LEMMA DrivenCall ==
  ASSUME NEW t, NEW severity, Driven(t, severity)
  PROVE  \E c : /\ call' = [call EXCEPT ![t] = c]
                /\ c.at \in {"exit", "idle", "locking"}
                /\ c.at = "exit" => UNCHANGED mutex
                /\ c.at = "locking" => c.box = call[t].box /\ UNCHANGED mutex /\ "handler" \in Liberties
                /\ c.at = "idle" => mutex' = Unlocked(t, severity)
<1>1. \/ call' = [call EXCEPT ![t] = [at |-> "exit"]] /\ UNCHANGED mutex
      \/ call' = [call EXCEPT ![t] = [at |-> "idle"]] /\ mutex' = Unlocked(t, severity)
      \/ /\ call' = [call EXCEPT ![t] = [at |-> "locking", box |-> call[t].box, does |-> "wait"]]
         /\ UNCHANGED mutex /\ "handler" \in Liberties
  BY Zenon DEF Driven, Idle
<1> DEFINE Good(c) == /\ call' = [call EXCEPT ![t] = c]
                      /\ c.at \in {"exit", "idle", "locking"}
                      /\ c.at = "exit" => UNCHANGED mutex
                      /\ c.at = "locking" => c.box = call[t].box /\ UNCHANGED mutex /\ "handler" \in Liberties
                      /\ c.at = "idle" => mutex' = Unlocked(t, severity)
<1>3. ASSUME call' = [call EXCEPT ![t] = [at |-> "exit"]], UNCHANGED mutex
      PROVE  \E c : Good(c)
  <2>1. PICK c : c = [at |-> "exit"]
    OBVIOUS
  <2>2. c.at = "exit"
    BY <2>1
  <2> QED BY <1>3, <2>1, <2>2
<1>4. ASSUME call' = [call EXCEPT ![t] = [at |-> "idle"]], mutex' = Unlocked(t, severity)
      PROVE  \E c : Good(c)
  <2>1. PICK c : c = [at |-> "idle"]
    OBVIOUS
  <2>2. c.at = "idle"
    BY <2>1
  <2> QED BY <1>4, <2>1, <2>2
<1>5. ASSUME call' = [call EXCEPT ![t] = [at |-> "locking", box |-> call[t].box, does |-> "wait"]],
             UNCHANGED mutex, "handler" \in Liberties
      PROVE  \E c : Good(c)
  <2>1. PICK c : c = [at |-> "locking", box |-> call[t].box, does |-> "wait"]
    OBVIOUS
  <2>2. c.at = "locking" /\ c.box = call[t].box
    BY <2>1
  <2> QED BY <1>5, <2>1, <2>2
<1> QED BY <1>1, <1>3, <1>4, <1>5

LEMMA FormedStep ==
  ASSUME TypeOK, Formed, [Next]_vars
  PROVE  Formed'
<1>1. CASE Registration \/ Programs
  BY <1>1, TableFormed, DeviceFrame DEF Formed
<1>2. ASSUME NEW t \in Threads, NEW o \in Objects, NEW kind, device[o].state = "live",
             Look(t, o, kind), UNCHANGED <<box, mutex>>, calls' = [calls EXCEPT ![t] = @ + 1]
      PROVE  Formed'
  <2>1. \A c : c.at \in {"refused", "looking"} => c.at \notin {"locking", "driving"}
    OBVIOUS
  <2>2. PICK c : c = call'[t]
    OBVIOUS
  <2>3. /\ table' = [p \in Objects |-> [edition |-> table[p].edition, made |-> table'[p].made]]
        /\ call' = [u \in Threads |-> IF u = t THEN c ELSE call[u]]
        /\ c.at \in {"refused", "looking"}
        /\ c.at = "looking" => c.of \in Objects
    BY <1>2, <2>2, LookFormed
  <2> QED BY <1>2, <2>1, <2>3, CallFormed
<1>3. ASSUME NEW t \in Threads, UNCHANGED <<table, box>>, calls' = [calls EXCEPT ![t] = @ + 1],
             UNCHANGED call \/ call' = [call EXCEPT ![t] = [at |-> "refused"]]
      PROVE  Formed'
  <2>1. calls' = [u \in Threads |-> calls'[u]]
    BY <1>3 DEF Formed
  <2>2. CASE UNCHANGED call
    BY <1>3, <2>1, <2>2 DEF Formed
  <2>3. CASE call' = [call EXCEPT ![t] = [at |-> "refused"]]
    BY <1>3, <2>1, <2>3 DEF Formed
  <2> QED BY <1>3, <2>2, <2>3
<1>4. ASSUME NEW t \in Threads, NEW id, NEW kind, LookUp(t, id, kind)
      PROVE  Formed'
  <2>1. ASSUME NEW o \in DeviceFor(id)
        PROVE  o \in Objects /\ device[o].state = "live"
    BY <2>1 DEF DeviceFor, Made, Objects
  <2> QED BY <1>2, <1>3, <1>4, <2>1 DEF LookUp, Stray
<1>5. ASSUME NEW t \in Threads, NEW o \in Own, NEW kind, LookAt(t, o, kind)
      PROVE  Formed'
  BY <1>2, <1>3, <1>5 DEF LookAt, Stray, Objects
<1>6. ASSUME NEW t \in Threads, Take(t)
      PROVE  Formed'
  BY <1>6 DEF Take, Idle, Formed
<1>7. ASSUME NEW t \in Threads, NEW b \in Threads, Fill(t, b)
      PROVE  Formed'
  <2>1. PICK c : call' = [call EXCEPT ![t] = c] /\ c.at = "locking" /\ c.box = b
    BY <1>7, FillCall
  <2>2. UNCHANGED <<table, box>> /\ calls' = [calls EXCEPT ![t] = calls[t] + 1]
    BY <1>7 DEF Fill
  <2>3. table' = [o \in Objects |-> [edition |-> table[o].edition, made |-> table'[o].made]]
    BY <2>2 DEF Formed
  <2>4. call' = [u \in Threads |-> IF u = t THEN c ELSE call[u]]
    BY <2>1, CallSet
  <2> QED BY <2>1, <2>2, <2>3, <2>4, CallFormed
<1>8. ASSUME NEW t \in Threads, Lock(t)
      PROVE  Formed'
  <2>1. ASSUME box[call[t].box] # Dummy, call[t].at = "locking",
               NEW c, c = [at |-> "driving", queue |-> box[call[t].box],
                           does |-> call[t].does, for |-> filled[call[t].box],
                           holds |-> MutexOf(call[t].box), box |-> call[t].box],
               call' = [call EXCEPT ![t] = c]
        PROVE  Formed'
    <3>1. call[t].box \in Threads /\ filled[call[t].box] \in Threads
      BY <2>1 DEF Formed, TypeOK
    <3>2. c.at = "driving" /\ c.box = call[t].box /\ c.for = filled[call[t].box]
      BY <2>1
    <3>3. call' = [u \in Threads |-> IF u = t THEN c ELSE call[u]]
      BY <2>1, CallSet, ZenonT(30)
    <3>4. UNCHANGED <<table, box, calls>>
      BY <1>8 DEF Lock
    <3>5. table' = [o \in Objects |-> [edition |-> table[o].edition, made |-> table'[o].made]]
      BY <3>4 DEF Formed
    <3> HIDE <2>1
    <3> QED BY <3>1, <3>2, <3>3, <3>4, <3>5, CallFormed
  <2>2. CASE UNCHANGED call
    BY <1>8, <2>2 DEF Lock, Formed
  <2> QED BY <1>8, <2>1, <2>2 DEF Lock
<1>9. ASSUME NEW t \in Threads, NEW severity, Driven(t, severity)
      PROVE  Formed'
  <2>1. PICK c : /\ call' = [call EXCEPT ![t] = c]
                 /\ c.at \in {"exit", "idle", "locking"}
                 /\ c.at = "locking" => c.box = call[t].box
    BY <1>9, DrivenCall
  <2>2. UNCHANGED <<table, box, calls>> /\ call[t].at = "driving"
    BY <1>9 DEF Driven
  <2>3. table' = [o \in Objects |-> [edition |-> table[o].edition, made |-> table'[o].made]]
    BY <2>2 DEF Formed
  <2>4. call' = [u \in Threads |-> IF u = t THEN c ELSE call[u]]
    BY <2>1, CallSet
  <2>5. call[t].box \in Threads
    BY <2>2 DEF Formed
  <2>6. /\ c.at = "looking" => c.of \in Objects
        /\ c.at \in {"locking", "driving"} => c.box \in Threads
        /\ c.at = "driving" => c.for \in Threads
    BY <2>1, <2>5
  <2> QED BY <2>2, <2>3, <2>4, <2>6, CallFormed
<1>10. CASE UNCHANGED vars
  BY <1>10 DEF vars, Formed
<1>11. ASSUME NEW t \in Threads, Waits(t)
       PROVE  Formed'
  <2>1. PICK c : call' = [call EXCEPT ![t] = c] /\ c.at \in {"idle", "idling", "exit"}
    BY <1>11, WaitCall
  <2>2. UNCHANGED <<table, box>>
    BY <1>11, WaitCall
  <2>3. UNCHANGED calls \/ \E v : calls' = [calls EXCEPT ![t] = v]
    BY <1>11, WaitCall
  <2>4. table' = [o \in Objects |-> [edition |-> table[o].edition, made |-> table'[o].made]]
    BY <2>2 DEF Formed
  <2>5. call' = [u \in Threads |-> IF u = t THEN c ELSE call[u]]
    BY <2>1, CallSet
  <2> QED BY <2>1, <2>2, <2>3, <2>4, <2>5, CallFormed, ZenonT(90)
<1> QED BY <1>1, <1>4, <1>5, <1>6, <1>7, <1>8, <1>9, <1>10, <1>11 DEF Next, Queues, Step, Waits

LEMMA ResetIs ==
  ASSUME NEW r \in DeviceData, r.state = "live"
  PROVE  LET d == [r EXCEPT !.state = "reset"]
         IN  /\ d \in DeviceData /\ d.state = "reset"
             /\ d.phys = r.phys /\ d.ext = r.ext /\ d.families = r.families /\ d.edition = r.edition
<1>1. r \in [state : {"live", "reset"}, phys : Registry, ext : SUBSET Extensions,
             families : Objects, edition : Nat]
  BY DEF DeviceData
<1> QED BY <1>1 DEF DeviceData

LEMMA FreshIs ==
  ASSUME TypeOK, NEW o \in Objects, NEW d \in Registry, NEW names
  PROVE  /\ Fresh(o, d, names) \in DeviceData
         /\ Fresh(o, d, names).state = "live" /\ Fresh(o, d, names).families = o
         /\ Fresh(o, d, names).ext = Filtered(names, d) /\ Fresh(o, d, names).phys = d
         /\ Found(o, d).edition \in Nat
<1>1. Available(d) \subseteq Extensions
  BY DevicesAssumption
<1>2. table[o].edition + 1 \in Nat
  BY DEF TypeOK
<1> QED BY <1>1, <1>2 DEF Fresh, Found, DeviceData, Filtered

LEMMA InitializeTypes ==
  ASSUME TypeOK, NEW n, Initialize(n)
  PROVE  /\ instance' \in [made : BOOLEAN, layers : SUBSET Extensions]
         /\ asked' = {}
         /\ device' \in [Objects -> DeviceData]
         /\ \A o \in Objects : table'[o].edition \in Nat
<1>1. CASE Initialized
  BY <1>1 DEF Initialize, TypeOK
<1>2. CASE ~Initialized
  <2>1. instance.layers \union asked \subseteq Extensions
    BY DEF TypeOK
  <2>2. instance' = [made |-> TRUE, layers |-> instance.layers \union asked] /\ asked' = {}
    BY <1>2 DEF Initialize
  <2>3. /\ device' = [o \in Objects |-> IF o \in Registry /\ o < n
                                        THEN Fresh(o, o, Default \union asked) ELSE device[o]]
        /\ table' = [o \in Objects |-> IF o \in Registry /\ o < n THEN Found(o, o) ELSE table[o]]
    BY <1>2, Zenon DEF Initialize
  <2>4. device' \in [Objects -> DeviceData]
    BY <2>3, FreshIs DEF TypeOK
  <2>5. \A o \in Objects : table'[o].edition \in Nat
    BY <2>3, FreshIs DEF TypeOK
  <2> QED BY <2>1, <2>2, <2>4, <2>5
<1> QED BY <1>1, <1>2

LEMMA DeviceTypes ==
  ASSUME TypeOK, Registration \/ Programs
  PROVE  /\ instance' \in [made : BOOLEAN, layers : SUBSET Extensions]
         /\ asked' \subseteq wanted' /\ wanted' \subseteq Extensions
         /\ device' \in [Objects -> DeviceData]
         /\ \A o \in Objects : table'[o].edition \in Nat
         /\ handler' \in {"default"} \union Handlers
<1>1. ASSUME NEW e \in Extensions, Ask(e)
      PROVE  /\ asked' \subseteq wanted' /\ wanted' \subseteq Extensions
             /\ UNCHANGED <<instance, device, table, handler>>
  BY <1>1 DEF Ask, TypeOK
<1>2. ASSUME Initializing
      PROVE  /\ instance' \in [made : BOOLEAN, layers : SUBSET Extensions]
             /\ asked' \subseteq wanted' /\ wanted' \subseteq Extensions
             /\ device' \in [Objects -> DeviceData]
             /\ \A o \in Objects : table'[o].edition \in Nat
             /\ UNCHANGED handler
  <2>1. PICK n : Initialize(n) /\ UNCHANGED <<wanted, handler>>
    BY <1>2 DEF Initializing
  <2> QED BY <2>1, InitializeTypes DEF TypeOK
<1>3. ASSUME NEW h \in Handlers, SetErrorHandler(h)
      PROVE  handler' \in Handlers /\ UNCHANGED <<instance, asked, wanted, device, table>>
  BY <1>3 DEF SetErrorHandler
<1>4. ASSUME Programs
      PROVE  /\ UNCHANGED <<instance, asked, wanted, handler>>
             /\ device' \in [Objects -> DeviceData]
             /\ \A o \in Objects : table'[o].edition \in Nat
  <2> PICK o \in Own :
        \/ \E d \in Registry, names \in {{}, Extensions} : InitializeOwn(o, d, names)
        \/ \E from \in Objects \ {o} : CopyDevice(o, from)
        \/ ResetDevice(o)
        \/ DestroyDevice(o)
    BY <1>4 DEF Programs
  <2> o \in Objects
    BY DEF Objects
  <2>1. ASSUME NEW d \in Registry, NEW names, InitializeOwn(o, d, names)
        PROVE  /\ UNCHANGED <<instance, asked, wanted, handler>>
               /\ device' \in [Objects -> DeviceData]
               /\ \A p \in Objects : table'[p].edition \in Nat
    <3>1. /\ UNCHANGED <<instance, asked, wanted, handler>>
          /\ device' = [device EXCEPT ![o] = Fresh(o, d, Default \union names)]
          /\ table' = [table EXCEPT ![o] = Found(o, d)]
      BY <2>1, Zenon DEF InitializeOwn
    <3>2. Fresh(o, d, Default \union names) \in DeviceData /\ Found(o, d).edition \in Nat
      BY FreshIs
    <3>3. \A p \in Objects : table'[p].edition \in Nat
      BY <3>1, <3>2 DEF TypeOK
    <3> QED BY <3>1, <3>2, <3>3 DEF TypeOK
  <2>2. ASSUME NEW from \in Objects, CopyDevice(o, from)
        PROVE  /\ UNCHANGED <<instance, asked, wanted, handler, table>>
               /\ device' \in [Objects -> DeviceData]
    BY <2>2 DEF CopyDevice, TypeOK
  <2>3. ASSUME ResetDevice(o)
        PROVE  /\ UNCHANGED <<instance, asked, wanted, handler, table>>
               /\ device' \in [Objects -> DeviceData]
    <3>1. UNCHANGED <<instance, asked, wanted, handler, table>>
      BY <2>3 DEF ResetDevice
    <3>2. device' = [p \in Objects |->
                       IF device[p].state = "live" /\ device[p].families = o
                       THEN [device[p] EXCEPT !.state = "reset"] ELSE device[p]]
      BY <2>3, Zenon DEF ResetDevice
    <3>3. ASSUME NEW p \in Objects, device[p].state = "live"
          PROVE  [device[p] EXCEPT !.state = "reset"] \in DeviceData
      BY <3>3, ResetIs DEF TypeOK
    <3> QED BY <3>1, <3>2, <3>3 DEF TypeOK
  <2>4. ASSUME DestroyDevice(o)
        PROVE  /\ UNCHANGED <<instance, asked, wanted, handler, table>>
               /\ device' \in [Objects -> DeviceData]
    BY <2>4 DEF DestroyDevice, TypeOK, DeviceData
  <2> QED BY <2>1, <2>2, <2>3, <2>4 DEF TypeOK
<1> QED BY <1>1, <1>2, <1>3, <1>4 DEF Registration, TypeOK

(* The types of what threads keep of queues. *)
QueuesTyped ==
  /\ \A o \in Objects : table[o].edition \in Nat
  /\ \A t \in Threads : box[t].is \in {"none", "dummy", "queue"}
  /\ filled \in [Threads -> Threads]
  /\ \A t \in Threads :
       /\ call[t].at \in {"idle", "looking", "refused", "locking", "driving", "idling", "exit"}
       /\ calls[t] \in 0 .. MaxCalls

LEMMA QueueTypes ==
  ASSUME TypeOK, Formed, Queues
  PROVE  QueuesTyped'
<1> USE DEF Formed
<1>1. ASSUME NEW t \in Threads, calls[t] < MaxCalls, calls' = [calls EXCEPT ![t] = @ + 1]
      PROVE  \A u \in Threads : calls'[u] \in 0 .. MaxCalls
  <2>1. MaxCalls \in Nat
    BY DevicesAssumption
  <2> QED BY <1>1, <2>1 DEF TypeOK
<1>2. ASSUME NEW t \in Threads, NEW c, call' = [u \in Threads |-> IF u = t THEN c ELSE call[u]],
             c.at \in {"idle", "looking", "refused", "locking", "driving", "idling", "exit"}
      PROVE  \A u \in Threads :
               call'[u].at \in {"idle", "looking", "refused", "locking", "driving", "idling", "exit"}
  BY <1>2 DEF TypeOK
<1>3. ASSUME NEW t \in Threads, NEW o \in Objects, NEW kind, device[o].state = "live",
             Look(t, o, kind), UNCHANGED <<box, filled>>,
             calls[t] < MaxCalls, calls' = [calls EXCEPT ![t] = @ + 1]
      PROVE  QueuesTyped'
  <2>1. PICK c : c = call'[t]
    OBVIOUS
  <2>2. /\ table' = [p \in Objects |-> [edition |-> table[p].edition, made |-> table'[p].made]]
        /\ call' = [u \in Threads |-> IF u = t THEN c ELSE call[u]]
        /\ c.at \in {"refused", "looking"}
    BY <1>3, <2>1, LookFormed
  <2>3. \A p \in Objects : table'[p].edition \in Nat
    BY <2>2 DEF TypeOK
  <2>4. c.at \in {"idle", "looking", "refused", "locking", "driving", "idling", "exit"}
    BY <2>2
  <2> QED BY <1>1, <1>2, <1>3, <2>2, <2>3, <2>4 DEF TypeOK, QueuesTyped
<1>4. ASSUME NEW t \in Threads, UNCHANGED <<table, box, filled>>,
             calls[t] < MaxCalls, calls' = [calls EXCEPT ![t] = @ + 1],
             UNCHANGED call \/ call' = [call EXCEPT ![t] = [at |-> "refused"]]
      PROVE  QueuesTyped'
  <2>1. CASE UNCHANGED call
    BY <1>1, <1>4, <2>1 DEF TypeOK, QueuesTyped
  <2>2. CASE call' = [call EXCEPT ![t] = [at |-> "refused"]]
    <3>1. PICK c : c.at = "refused" /\ call' = [call EXCEPT ![t] = c]
      BY <2>2
    <3> QED BY <1>1, <1>2, <1>4, <3>1, CallSet DEF TypeOK, QueuesTyped
  <2> QED BY <1>4, <2>1, <2>2
<1>5. ASSUME NEW t \in Threads, NEW id, NEW kind, LookUp(t, id, kind)
      PROVE  QueuesTyped'
  <2>1. ASSUME NEW o \in DeviceFor(id)
        PROVE  o \in Objects /\ device[o].state = "live"
    BY <2>1 DEF DeviceFor, Made, Objects
  <2> QED BY <1>3, <1>4, <1>5, <2>1 DEF LookUp, Stray, MayLook
<1>6. ASSUME NEW t \in Threads, NEW o \in Own, NEW kind, LookAt(t, o, kind)
      PROVE  QueuesTyped'
  BY <1>3, <1>4, <1>6 DEF LookAt, Stray, MayLook, Objects
<1>7. ASSUME NEW t \in Threads, Take(t)
      PROVE  QueuesTyped'
  <2>1. UNCHANGED <<table, filled, calls>> /\ call' = [call EXCEPT ![t] = [at |-> "idle"]]
    BY <1>7 DEF Take, Idle
  <2>2. \/ UNCHANGED box
        \/ box' = [box EXCEPT ![t] = [is |-> "dummy"]]
        \/ box' = [box EXCEPT ![t] = [is |-> "queue", gpu |-> call[t].of, family |-> call[t].family]]
    BY <1>7, Zenon DEF Take, Dummy
  <2>3. \A u \in Threads : box'[u].is \in {"none", "dummy", "queue"}
    BY <2>2 DEF TypeOK
  <2> QED BY <2>1, <2>3 DEF TypeOK, QueuesTyped
<1>8. ASSUME NEW t \in Threads, NEW b \in Threads, Fill(t, b)
      PROVE  QueuesTyped'
  <2>1. PICK c : call' = [call EXCEPT ![t] = c] /\ c.at = "locking" /\ c.box = b
    BY <1>8, FillCall
  <2>2. /\ UNCHANGED <<table, box>> /\ calls' = [calls EXCEPT ![t] = calls[t] + 1]
        /\ calls[t] < MaxCalls /\ filled' = [filled EXCEPT ![b] = t]
    BY <1>8 DEF Fill, Filled
  <2> QED BY <1>1, <1>2, <2>1, <2>2, CallSet DEF TypeOK, QueuesTyped
<1>9. ASSUME NEW t \in Threads, Lock(t)
      PROVE  QueuesTyped'
  <2>1. UNCHANGED <<table, box, filled, calls>>
    BY <1>9 DEF Lock
  <2>2. CASE UNCHANGED call
    BY <2>1, <2>2 DEF TypeOK, QueuesTyped
  <2>3. ASSUME NEW c, c.at = "driving", call' = [call EXCEPT ![t] = c]
        PROVE  QueuesTyped'
    BY <1>2, <2>1, <2>3, CallSet DEF TypeOK, QueuesTyped
  <2> QED BY <1>9, <2>2, <2>3, LockCall
<1>10. ASSUME NEW t \in Threads, NEW severity, Driven(t, severity)
       PROVE  QueuesTyped'
  <2>1. PICK c : call' = [call EXCEPT ![t] = c] /\ c.at \in {"exit", "idle", "locking"}
    BY <1>10, DrivenCall
  <2>2. UNCHANGED <<table, box, filled, calls>>
    BY <1>10 DEF Driven
  <2> QED BY <1>2, <2>1, <2>2, CallSet DEF TypeOK, QueuesTyped
<1>11. ASSUME NEW t \in Threads, Waits(t)
       PROVE  QueuesTyped'
  <2>1. PICK c : call' = [call EXCEPT ![t] = c] /\ c.at \in {"idle", "idling", "exit"}
    BY <1>11, WaitCall
  <2>2. UNCHANGED <<table, box, filled>>
    BY <1>11, WaitCall
  <2>3. \A u \in Threads : calls'[u] \in 0 .. MaxCalls
    <3>1. CASE UNCHANGED calls
      BY <3>1 DEF TypeOK
    <3> QED BY <1>1, <1>11, <3>1, WaitCall
  <2> QED BY <1>2, <2>1, <2>2, <2>3, CallSet DEF TypeOK, QueuesTyped
<1> QED BY <1>5, <1>6, <1>7, <1>8, <1>9, <1>10, <1>11 DEF Queues, Step, Waits

-----------------------------------------------------------------------------
(* Mutexes. *)

(* What a step on the queues is, for those who read calls and mutexes.     *)
LEMMA LookedCall ==
  ASSUME TypeOK, Formed, NEW t \in Threads,
         \/ \E id \in Registry \union Own, kind \in Kinds : LookUp(t, id, kind)
         \/ \E o \in Own, kind \in Kinds : LookAt(t, o, kind)
  PROVE  /\ UNCHANGED <<box, filled, mutex>>
         /\ call[t].at = "idle"
         /\ \/ UNCHANGED call
            \/ \E c : /\ call' = [u \in Threads |-> IF u = t THEN c ELSE call[u]]
                      /\ c.at \in {"refused", "looking"}
<1> DEFINE Good == \/ UNCHANGED call
                   \/ \E c : /\ call' = [u \in Threads |-> IF u = t THEN c ELSE call[u]]
                             /\ c.at \in {"refused", "looking"}
<1>1. ASSUME NEW o \in Objects, NEW kind, device[o].state = "live", Look(t, o, kind)
      PROVE  Good
  BY <1>1, LookFormed
<1>2. ASSUME call' = [call EXCEPT ![t] = [at |-> "refused"]]
      PROVE  Good
  <2>1. PICK c : c = [at |-> "refused"]
    OBVIOUS
  <2>2. c.at \in {"refused", "looking"}
    BY <2>1
  <2>3. call' = [u \in Threads |-> IF u = t THEN c ELSE call[u]]
    BY <1>2, <2>1, CallSet
  <2> QED BY <2>2, <2>3
<1>3. ASSUME NEW id, NEW kind, LookUp(t, id, kind)
      PROVE  /\ UNCHANGED <<box, filled, mutex>> /\ call[t].at = "idle" /\ Good
  <2>1. ASSUME NEW o \in DeviceFor(id)
        PROVE  o \in Objects /\ device[o].state = "live"
    BY <2>1 DEF DeviceFor, Made, Objects
  <2>2. UNCHANGED <<box, filled, mutex>> /\ call[t].at = "idle"
    BY <1>3 DEF LookUp, MayLook, Idle
  <2>3. \/ call' = [call EXCEPT ![t] = [at |-> "refused"]]
        \/ \E o \in DeviceFor(id) : Look(t, o, kind) \/ UNCHANGED call
    BY <1>3, Zenon DEF LookUp, Stray
  <2> QED BY <1>1, <1>2, <2>1, <2>2, <2>3
<1>4. ASSUME NEW o \in Own, NEW kind, LookAt(t, o, kind)
      PROVE  /\ UNCHANGED <<box, filled, mutex>> /\ call[t].at = "idle" /\ Good
  <2>1. UNCHANGED <<box, filled, mutex>> /\ call[t].at = "idle" /\ device[o].state = "live"
    BY <1>4 DEF LookAt, MayLook, Idle
  <2>2. Look(t, o, kind) \/ UNCHANGED call
    BY <1>4, Zenon DEF LookAt, Stray
  <2>3. o \in Objects
    BY DEF Objects
  <2> QED BY <1>1, <2>1, <2>2, <2>3
<1> QED BY <1>3, <1>4

LEMMA ExcludedInit == Init => Excluded
BY DEF Init, Excluded, Driving, Idle

LEMMA ExcludedStep ==
  ASSUME TypeOK, Formed, Excluded, [Next]_vars
  PROVE  Excluded'
<1>1. CASE UNCHANGED <<mutex, call>>
  BY <1>1 DEF Excluded, Driving
<1>2. ASSUME NEW t \in Threads, NEW c, UNCHANGED mutex, c.at # "driving",
             call' = [u \in Threads |-> IF u = t THEN c ELSE call[u]]
      PROVE  Excluded'
  BY <1>2 DEF Excluded, Driving
<1>3. ASSUME NEW t \in Threads,
             \/ \E id \in Registry \union Own, kind \in Kinds : LookUp(t, id, kind)
             \/ \E o \in Own, kind \in Kinds : LookAt(t, o, kind)
      PROVE  Excluded'
  BY <1>1, <1>2, <1>3, LookedCall
<1>4. ASSUME NEW t \in Threads, Take(t)
      PROVE  Excluded'
  <2>1. PICK c : c.at = "idle" /\ call' = [call EXCEPT ![t] = c]
    BY <1>4 DEF Take, Idle
  <2>2. UNCHANGED mutex
    BY <1>4 DEF Take
  <2> QED BY <1>2, <2>1, <2>2, CallSet
<1>5. ASSUME NEW t \in Threads, NEW b \in Threads, Fill(t, b)
      PROVE  Excluded'
  <2>1. PICK c : c.at = "locking" /\ call' = [call EXCEPT ![t] = c]
    BY <1>5, FillCall
  <2>2. UNCHANGED mutex
    BY <1>5 DEF Fill
  <2> QED BY <1>2, <2>1, <2>2, CallSet
<1>6. ASSUME NEW t \in Threads, Lock(t)
      PROVE  Excluded'
  <2>1. CASE UNCHANGED <<call, mutex>>
    BY <1>1, <2>1
  <2>2. ASSUME NEW q, NEW c, \A m \in mutex : m[1] # q,
               mutex' = mutex \union {<<q, t>>}, call' = [call EXCEPT ![t] = c],
               c.at = "driving", c.queue = q, c.holds = q
        PROVE  Excluded'
    <3>1. \A u \in Threads : call'[u] = IF u = t THEN c ELSE call[u]
      BY <2>2, CallSet
    <3>2. \A m \in mutex' : m = <<m[1], m[2]>> /\ m[2] \in Threads
      BY <2>2 DEF Excluded
    <3>3. \A m, n \in mutex' : m[1] = n[1] => m = n
      BY <2>2 DEF Excluded
    <3>4. \A u \in Threads : call'[u].at = "driving" =>
            call'[u].holds = call'[u].queue /\ <<call'[u].holds, u>> \in mutex'
      BY <2>2, <3>1 DEF Excluded, Driving
    <3> QED BY <3>2, <3>3, <3>4 DEF Excluded, Driving
  <2>3. Held(MutexOf(call[t].box)) = {} => \A m \in mutex : m[1] # box[call[t].box]
    BY DEF Held, MutexOf
  <2> QED BY <1>6, <2>1, <2>2, <2>3, LockCall DEF MutexOf
<1>7. ASSUME NEW t \in Threads, NEW severity, Driven(t, severity)
      PROVE  Excluded'
  <2>1. PICK c : /\ call' = [call EXCEPT ![t] = c]
                 /\ c.at \in {"exit", "idle", "locking"}
                 /\ UNCHANGED mutex \/ mutex' = mutex \ {<<call[t].holds, t>>}
    BY <1>7, DrivenCall DEF Unlocked
  <2>2. \A u \in Threads : call'[u] = IF u = t THEN c ELSE call[u]
    BY <2>1, CallSet
  <2>3. \A u \in Threads : u # t => <<call[u].holds, u>> # <<call[t].holds, t>>
    OBVIOUS
  <2>4. \A u \in Threads : call'[u].at = "driving" => u # t
    BY <2>1, <2>2
  <2>5. mutex' \subseteq mutex
    BY <2>1
  <2>6. \A u \in Threads : call'[u].at = "driving" =>
          call'[u].holds = call'[u].queue /\ <<call'[u].holds, u>> \in mutex'
    BY <2>1, <2>2, <2>3, <2>4 DEF Excluded, Driving
  <2> QED BY <2>5, <2>6 DEF Excluded, Driving
<1>8. Registration \/ Programs => UNCHANGED <<mutex, call>>
  BY DeviceFrame
<1>9. UNCHANGED vars => UNCHANGED <<mutex, call>>
  BY DEF vars
<1>10. ASSUME NEW t \in Threads, Waits(t)
       PROVE  Excluded'
  <2>1. PICK c : c.at # "driving" /\ call' = [call EXCEPT ![t] = c]
    BY <1>10, WaitCall
  <2>2. UNCHANGED mutex
    BY <1>10, WaitCall
  <2>3. call' = [u \in Threads |-> IF u = t THEN c ELSE call[u]]
    BY <2>1, CallSet
  <2> QED BY <1>2, <2>1, <2>2, <2>3
<1> QED BY <1>1, <1>3, <1>4, <1>5, <1>6, <1>7, <1>8, <1>9, <1>10 DEF Next, Queues, Step, Waits

LEMMA OwnQueueInit == Init => OwnQueue
BY DEF Init, OwnQueue, Idle, Driving

LEMMA OwnQueueStep ==
  ASSUME TypeOK, Formed, OwnQueue, [Next]_vars
  PROVE  OwnQueue'
<1> SUFFICES ASSUME "share" \notin Liberties
             PROVE  OwnQueue'
  BY DEF OwnQueue
<1>1. CASE UNCHANGED <<box, filled, call>>
  BY <1>1 DEF OwnQueue, Driving
<1>2. ASSUME NEW t \in Threads, NEW c, \A u \in Threads : u # t => box'[u] = box[u],
             UNCHANGED filled, c.at \notin {"locking", "driving"},
             call' = [u \in Threads |-> IF u = t THEN c ELSE call[u]]
      PROVE  OwnQueue'
  BY <1>2 DEF OwnQueue, Driving
<1>3. ASSUME NEW t \in Threads,
             \/ \E id \in Registry \union Own, kind \in Kinds : LookUp(t, id, kind)
             \/ \E o \in Own, kind \in Kinds : LookAt(t, o, kind)
      PROVE  OwnQueue'
  <2>1. /\ UNCHANGED <<box, filled>>
        /\ \/ UNCHANGED call
           \/ \E c : /\ call' = [u \in Threads |-> IF u = t THEN c ELSE call[u]]
                     /\ c.at \in {"refused", "looking"}
    BY <1>3, LookedCall
  <2>2. ASSUME NEW c, call' = [u \in Threads |-> IF u = t THEN c ELSE call[u]],
               c.at \in {"refused", "looking"}
        PROVE  OwnQueue'
    BY <1>2, <2>1, <2>2
  <2> QED BY <1>1, <2>1, <2>2
<1>4. ASSUME NEW t \in Threads, Take(t)
      PROVE  OwnQueue'
  <2>1. PICK c : c.at = "idle" /\ call' = [call EXCEPT ![t] = c]
    BY <1>4 DEF Take, Idle
  <2>2. UNCHANGED filled /\ \A u \in Threads : u # t => box'[u] = box[u]
    BY <1>4 DEF Take, Formed
  <2> QED BY <1>2, <2>1, <2>2, CallSet
<1>5. ASSUME NEW t \in Threads, NEW b \in Threads, Fill(t, b)
      PROVE  OwnQueue'
  <2>1. PICK c : c.at = "locking" /\ c.box = b /\ call' = [call EXCEPT ![t] = c]
    BY <1>5, FillCall
  <2>2. /\ UNCHANGED box /\ filled' = [filled EXCEPT ![b] = t] /\ b = t
        /\ box[b] = Dummy => "dummy" \in Liberties
    BY <1>5 DEF Fill, Filled
  <2>3. call' = [u \in Threads |-> IF u = t THEN c ELSE call[u]]
    BY <2>1, CallSet
  <2>4. \A u \in Threads : filled'[u] = u
    BY <2>2 DEF OwnQueue, TypeOK
  <2> QED BY <2>1, <2>2, <2>3, <2>4 DEF OwnQueue, Driving
<1>6. ASSUME NEW t \in Threads, Lock(t)
      PROVE  OwnQueue'
  <2>1. UNCHANGED <<box, filled>> /\ call[t].at = "locking"
    BY <1>6 DEF Lock
  <2>2. CASE UNCHANGED call
    BY <1>1, <2>1, <2>2
  <2>3. ASSUME NEW c, call' = [call EXCEPT ![t] = c],
               c.at = "driving", c.for = filled[call[t].box],
               c.holds = box[call[t].box], c.box = call[t].box
        PROVE  OwnQueue'
    <3>1. call' = [u \in Threads |-> IF u = t THEN c ELSE call[u]]
      BY <2>3, CallSet
    <3>2. call[t].box = t /\ filled[t] = t /\ (box[t] = Dummy => "dummy" \in Liberties)
      BY <2>1 DEF OwnQueue
    <3> QED BY <2>1, <2>3, <3>1, <3>2 DEF OwnQueue, Driving
  <2> QED BY <1>6, <2>2, <2>3, LockCall DEF MutexOf
<1>7. ASSUME NEW t \in Threads, NEW severity, Driven(t, severity)
      PROVE  OwnQueue'
  <2>1. PICK c : /\ call' = [call EXCEPT ![t] = c]
                 /\ c.at \in {"exit", "idle", "locking"}
                 /\ c.at = "locking" => c.box = call[t].box
    BY <1>7, DrivenCall
  <2>2. UNCHANGED <<box, filled>> /\ call[t].at = "driving"
    BY <1>7 DEF Driven
  <2>3. call' = [u \in Threads |-> IF u = t THEN c ELSE call[u]]
    BY <2>1, CallSet
  <2>4. call[t].box = t /\ (box[t] = Dummy => "dummy" \in Liberties)
    BY <2>2 DEF OwnQueue
  <2> QED BY <2>1, <2>2, <2>3, <2>4 DEF OwnQueue, Driving
<1>8. Registration \/ Programs => UNCHANGED <<box, filled, call>>
  BY DeviceFrame
<1>9. UNCHANGED vars => UNCHANGED <<box, filled, call>>
  BY DEF vars
<1>10. ASSUME NEW t \in Threads, Waits(t)
       PROVE  OwnQueue'
  <2>1. PICK c : c.at \notin {"locking", "driving"} /\ call' = [call EXCEPT ![t] = c]
    BY <1>10, WaitCall
  <2>2. UNCHANGED <<box, filled>>
    BY <1>10, WaitCall
  <2>3. call' = [u \in Threads |-> IF u = t THEN c ELSE call[u]]
    BY <2>1, CallSet
  <2> QED BY <1>2, <2>1, <2>2, <2>3
<1> QED BY <1>1, <1>3, <1>4, <1>5, <1>6, <1>7, <1>8, <1>9, <1>10 DEF Next, Queues, Step, Waits

(* Who waits for a device waits alone, as long as nobody waits for one     *)
(* while others use its queues.                                            *)
LEMMA WaitsAloneInit == Init => WaitsAlone
BY DEF Init, WaitsAlone, Idle

LEMMA WaitsAloneStep ==
  ASSUME TypeOK, Formed, Excluded, OwnQueue, WaitsAlone, [Next]_vars,
         {"share", "idle"} \intersect Liberties = {}
  PROVE  WaitsAlone'
<1> DEFINE UsesIn(c, b, o) == \/ c.at = "locking" /\ b[c.box] # Dummy /\ b[c.box].gpu = o
                              \/ c.at = "driving" /\ c.queue.gpu = o
                              \/ c.at = "idling" /\ c.gpu = o
<1>1. CASE UNCHANGED <<box, call>>
  BY <1>1 DEF WaitsAlone, Using
(* A thread that goes on with what it uses, or with less, and waits for no *)
(* device, leaves the others alone.                                        *)
<1>2. ASSUME NEW t \in Threads, NEW c, c.at # "idling",
             call' = [u \in Threads |-> IF u = t THEN c ELSE call[u]],
             \A u \in Threads : u # t => box'[u] = box[u],
             \A u \in Threads : u # t /\ call[u].at = "idling" => ~UsesIn(c, box', call[u].gpu)
      PROVE  WaitsAlone'
  <2> SUFFICES ASSUME NEW v \in Threads, NEW u \in Threads, v # u, call'[v].at = "idling"
               PROVE  ~UsesIn(call'[u], box', call'[v].gpu)
    BY DEF WaitsAlone, Using
  <2>1. v # t /\ call'[v] = call[v]
    BY <1>2
  <2>2. CASE u = t
    BY <1>2, <2>1, <2>2
  <2>3. CASE u # t
    <3>1. call'[u] = call[u] /\ ~UsesIn(call[u], box, call[v].gpu)
      BY <1>2, <2>1, <2>3 DEF WaitsAlone, Using
    <3>2. call[u].at = "locking" => box'[call[u].box] = box[call[u].box]
      BY <1>2, <2>3 DEF OwnQueue
    <3> QED BY <2>1, <3>1, <3>2
  <2> QED BY <2>2, <2>3
<1>3. ASSUME NEW t \in Threads,
             \/ \E id \in Registry \union Own, kind \in Kinds : LookUp(t, id, kind)
             \/ \E o \in Own, kind \in Kinds : LookAt(t, o, kind)
      PROVE  WaitsAlone'
  <2>1. /\ UNCHANGED box
        /\ \/ UNCHANGED call
           \/ \E c : /\ call' = [u \in Threads |-> IF u = t THEN c ELSE call[u]]
                     /\ c.at \in {"refused", "looking"}
    BY <1>3, LookedCall
  <2>2. ASSUME NEW c, call' = [u \in Threads |-> IF u = t THEN c ELSE call[u]],
               c.at \in {"refused", "looking"}
        PROVE  WaitsAlone'
    BY <1>2, <2>1, <2>2
  <2> QED BY <1>1, <2>1, <2>2
<1>4. ASSUME NEW t \in Threads, Take(t)
      PROVE  WaitsAlone'
  <2>1. PICK c : c.at = "idle" /\ call' = [call EXCEPT ![t] = c]
    BY <1>4 DEF Take, Idle
  <2>2. \A u \in Threads : u # t => box'[u] = box[u]
    BY <1>4 DEF Take, Formed
  <2>3. call' = [u \in Threads |-> IF u = t THEN c ELSE call[u]]
    BY <2>1, CallSet
  <2> QED BY <1>2, <2>1, <2>2, <2>3
<1>5. ASSUME NEW t \in Threads, NEW b \in Threads, Fill(t, b)
      PROVE  WaitsAlone'
  <2>1. PICK c : c.at = "locking" /\ c.box = b /\ call' = [call EXCEPT ![t] = c]
    BY <1>5, FillCall
  <2>2. UNCHANGED box /\ (box[b] = Dummy \/ ~Waited(box[b].gpu))
    BY <1>5, Zenon DEF Fill
  <2>3. call' = [u \in Threads |-> IF u = t THEN c ELSE call[u]]
    BY <2>1, CallSet
  <2>4. \A u \in Threads : call[u].at = "idling" => box[b] = Dummy \/ box[b].gpu # call[u].gpu
    BY <2>2 DEF Waited
  <2> QED BY <1>2, <2>1, <2>2, <2>3, <2>4
<1>6. ASSUME NEW t \in Threads, Lock(t)
      PROVE  WaitsAlone'
  <2>1. UNCHANGED box /\ call[t].at = "locking"
    BY <1>6 DEF Lock
  <2>2. CASE UNCHANGED call
    BY <1>1, <2>1, <2>2
  <2>3. ASSUME NEW c, call' = [call EXCEPT ![t] = c], c.at = "driving",
               c.queue = box[call[t].box], box[call[t].box] # Dummy
        PROVE  WaitsAlone'
    <3>1. call' = [u \in Threads |-> IF u = t THEN c ELSE call[u]]
      BY <2>3, CallSet
    <3>2. \A u \in Threads : u # t /\ call[u].at = "idling" => box[call[t].box].gpu # call[u].gpu
      BY <2>1, <2>3 DEF WaitsAlone, Using
    <3>3. \A u \in Threads : u # t /\ call[u].at = "idling" => ~UsesIn(c, box', call[u].gpu)
      BY <2>1, <2>3, <3>2
    <3>4. c.at # "idling" /\ \A u \in Threads : u # t => box'[u] = box[u]
      BY <2>1, <2>3
    <3> QED BY <1>2, <3>1, <3>3, <3>4
  <2> QED BY <1>6, <2>2, <2>3, LockCall
<1>7. ASSUME NEW t \in Threads, NEW severity, Driven(t, severity)
      PROVE  WaitsAlone'
  <2>1. PICK c : /\ call' = [call EXCEPT ![t] = c]
                 /\ c.at \in {"exit", "idle", "locking"}
                 /\ c.at = "locking" => c.box = call[t].box
    BY <1>7, DrivenCall
  <2>2. UNCHANGED box /\ call[t].at = "driving"
    BY <1>7 DEF Driven
  <2>3. call' = [u \in Threads |-> IF u = t THEN c ELSE call[u]]
    BY <2>1, CallSet
  <2>4. call[t].box = t /\ call[t].queue = box[t]
    BY <2>2 DEF OwnQueue, Excluded, Driving
  <2>5. \A u \in Threads : u # t /\ call[u].at = "idling" => box[t].gpu # call[u].gpu
    BY <2>2, <2>4 DEF WaitsAlone, Using
  <2>6. \A u \in Threads : u # t /\ call[u].at = "idling" => ~UsesIn(c, box', call[u].gpu)
    BY <2>1, <2>2, <2>4, <2>5
  <2>7. c.at # "idling" /\ \A u \in Threads : u # t => box'[u] = box[u]
    BY <2>1, <2>2
  <2> QED BY <1>2, <2>3, <2>6, <2>7
<1>8. ASSUME NEW t \in Threads, Waits(t)
      PROVE  WaitsAlone'
  <2>1. PICK c : /\ call' = [call EXCEPT ![t] = c]
                 /\ c.at \in {"idle", "idling", "exit"}
                 /\ c.at = "idling" => \A u \in Threads : ~Using(u, c.gpu)
    BY <1>8, WaitCall
  <2>2. UNCHANGED box
    BY <1>8, WaitCall
  <2>3. call' = [u \in Threads |-> IF u = t THEN c ELSE call[u]]
    BY <2>1, CallSet
  <2>4. CASE c.at # "idling"
    BY <1>2, <2>1, <2>2, <2>3, <2>4
  <2>5. CASE c.at = "idling"
    <3> SUFFICES ASSUME NEW v \in Threads, NEW u \in Threads, v # u, call'[v].at = "idling"
                 PROVE  ~UsesIn(call'[u], box', call'[v].gpu)
      BY DEF WaitsAlone, Using
    <3>1. CASE v = t
      <4>1. call'[v] = c /\ call'[u] = call[u]
        BY <2>3, <3>1
      <4> QED BY <2>1, <2>2, <2>5, <4>1 DEF Using
    <3>2. CASE u = t
      <4>1. call'[u] = c /\ call'[v] = call[v]
        BY <2>3, <3>2
      <4>2. c.gpu # call[v].gpu
        BY <2>1, <2>5, <4>1 DEF Using
      <4> QED BY <2>5, <4>1, <4>2
    <3>3. CASE v # t /\ u # t
      <4>1. call'[u] = call[u] /\ call'[v] = call[v]
        BY <2>3, <3>3
      <4> QED BY <2>2, <4>1 DEF WaitsAlone, Using
    <3> QED BY <3>1, <3>2, <3>3
  <2> QED BY <2>4, <2>5
<1>9. Registration \/ Programs => UNCHANGED <<box, call>>
  BY DeviceFrame
<1>10. UNCHANGED vars => UNCHANGED <<box, call>>
  BY DEF vars
<1> QED BY <1>1, <1>3, <1>4, <1>5, <1>6, <1>7, <1>8, <1>9, <1>10 DEF Next, Queues, Step, Waits

LEMMA ReleasedInit == Init => Released
BY DEF Init, Released

LEMMA ReleasedStep ==
  ASSUME TypeOK, Formed, Excluded, OwnQueue, Released, [Next]_vars,
         ~({"handler", "share"} \subseteq Liberties)
  PROVE  Released'
<1>1. CASE UNCHANGED <<box, mutex, call>>
  BY <1>1 DEF Released, MutexOf
<1>2. ASSUME NEW t \in Threads, NEW c, UNCHANGED mutex, \A m \in mutex : m[2] # t,
             \A u \in Threads : u # t => box'[u] = box[u],
             call[t].at \notin {"locking", "driving"},
             call' = [u \in Threads |-> IF u = t THEN c ELSE call[u]]
      PROVE  Released'
  <2>1. ASSUME NEW m \in mutex
        PROVE  /\ m[2] \in Threads /\ call'[m[2]] = call[m[2]]
               /\ call[m[2]].at = "locking" => box'[call[m[2]].box] = box[call[m[2]].box]
    <3>1. m[2] \in Threads /\ m[2] # t
      BY <1>2 DEF Excluded
    <3>2. ASSUME call[m[2]].at = "locking"
          PROVE  box'[call[m[2]].box] = box[call[m[2]].box]
      <4>1. "share" \notin Liberties
        BY <3>2 DEF Released
      <4> QED BY <1>2, <3>1, <3>2, <4>1 DEF OwnQueue
    <3> QED BY <1>2, <3>1, <3>2
  <2> QED BY <1>2, <2>1 DEF Released, MutexOf
<1>3. ASSUME NEW t \in Threads, call[t].at \in {"idle", "idling", "refused", "looking"}
      PROVE  \A m \in mutex : m[2] # t
  BY <1>3 DEF Released
<1>4. ASSUME NEW t \in Threads,
             \/ \E id \in Registry \union Own, kind \in Kinds : LookUp(t, id, kind)
             \/ \E o \in Own, kind \in Kinds : LookAt(t, o, kind)
      PROVE  Released'
  BY <1>1, <1>2, <1>3, <1>4, LookedCall
<1>5. ASSUME NEW t \in Threads, Take(t)
      PROVE  Released'
  <2>1. PICK c : call' = [call EXCEPT ![t] = c]
    BY <1>5 DEF Take, Idle
  <2>2. UNCHANGED mutex /\ call[t].at \in {"refused", "looking"}
    BY <1>5 DEF Take
  <2>3. \A u \in Threads : u # t => box'[u] = box[u]
    BY <1>5 DEF Take, Formed
  <2>4. call' = [u \in Threads |-> IF u = t THEN c ELSE call[u]]
    BY <2>1, CallSet
  <2>5. (\A m \in mutex : m[2] # t) /\ call[t].at \notin {"locking", "driving"}
    BY <1>3, <2>2
  <2> QED BY <1>2, <2>2, <2>3, <2>4, <2>5
<1>6. ASSUME NEW t \in Threads, NEW b \in Threads, Fill(t, b)
      PROVE  Released'
  <2>1. PICK c : call' = [call EXCEPT ![t] = c]
    BY <1>6, FillCall
  <2>2. UNCHANGED <<mutex, box>> /\ call[t].at = "idle"
    BY <1>6 DEF Fill, Idle
  <2>3. call' = [u \in Threads |-> IF u = t THEN c ELSE call[u]]
    BY <2>1, CallSet
  <2>4. (\A m \in mutex : m[2] # t) /\ call[t].at \notin {"locking", "driving"}
    BY <1>3, <2>2
  <2>5. \A u \in Threads : u # t => box'[u] = box[u]
    BY <2>2
  <2> QED BY <1>2, <2>2, <2>3, <2>4, <2>5
<1>7. ASSUME NEW t \in Threads, Lock(t)
      PROVE  Released'
  <2>1. UNCHANGED box /\ call[t].at = "locking"
    BY <1>7 DEF Lock
  <2>2. CASE UNCHANGED <<call, mutex>>
    BY <1>1, <2>1, <2>2
  <2>3. ASSUME NEW c, call' = [call EXCEPT ![t] = c], c.at = "driving", c.holds = MutexOf(call[t].box),
               mutex' = mutex \union {<<MutexOf(call[t].box), t>>}, Held(MutexOf(call[t].box)) = {}
        PROVE  Released'
    <3>1. call' = [u \in Threads |-> IF u = t THEN c ELSE call[u]]
      BY <2>3, CallSet
    <3>2. \A m \in mutex : m[2] # t /\ m[2] \in Threads
      BY <2>1, <2>3 DEF Released, Held, Excluded
    <3>3. ASSUME NEW m \in mutex
          PROVE  call'[m[2]] = call[m[2]]
      BY <3>1, <3>2
    <3>4. \A m \in mutex' : m \in mutex \/ (m[1] = MutexOf(call[t].box) /\ m[2] = t)
      BY <2>3
    <3>5. call'[t] = c
      BY <3>1
    <3> QED BY <2>1, <2>3, <3>3, <3>4, <3>5 DEF Released, MutexOf
  <2> QED BY <1>7, <2>2, <2>3, LockCall
<1>8. ASSUME NEW t \in Threads, NEW severity, Driven(t, severity)
      PROVE  Released'
  <2>1. PICK c : /\ call' = [call EXCEPT ![t] = c]
                 /\ c.at \in {"exit", "idle", "locking"}
                 /\ c.at = "exit" => UNCHANGED mutex
                 /\ c.at = "locking" => c.box = call[t].box /\ UNCHANGED mutex /\ "handler" \in Liberties
                 /\ c.at = "idle" => mutex' = Unlocked(t, severity)
    BY <1>8, DrivenCall
  <2>2. UNCHANGED box /\ call[t].at = "driving"
    BY <1>8 DEF Driven
  <2>3. call' = [u \in Threads |-> IF u = t THEN c ELSE call[u]]
    BY <2>1, CallSet
  <2>4. \A m \in mutex : m[2] \in Threads /\ (m[2] # t => call'[m[2]] = call[m[2]])
                         /\ (m[2] = t => call'[m[2]] = c)
    BY <2>3 DEF Excluded
  <2>5. \A m \in mutex : m[2] = t => m = <<call[t].holds, t>> /\ m[1] = call[t].holds
    BY <2>2 DEF Released, Excluded
  <2>6. mutex' \subseteq mutex /\ (c.at = "idle" => \A m \in mutex' : m[2] # t)
    BY <2>1, <2>5 DEF Unlocked
  <2>7. c.at = "locking" => call[t].holds = MutexOf(c.box)
    BY <2>1, <2>2 DEF OwnQueue, MutexOf, Driving
  <2>8. ASSUME NEW m \in mutex', m[2] = t
        PROVE  /\ call'[m[2]].at \in {"locking", "exit"}
               /\ call'[m[2]].at = "locking" => "handler" \in Liberties /\ m[1] = box'[call'[m[2]].box]
    BY <2>1, <2>2, <2>4, <2>5, <2>6, <2>7, <2>8 DEF MutexOf
  <2>9. ASSUME NEW m \in mutex', m[2] # t
        PROVE  LET d == call'[m[2]]
               IN  /\ d.at \in {"locking", "driving", "exit"}
                   /\ d.at = "driving" => m[1] = d.holds
                   /\ d.at = "locking" => "handler" \in Liberties /\ m[1] = box'[d.box]
    BY <2>2, <2>4, <2>6, <2>9 DEF Released, MutexOf
  <2> QED BY <2>8, <2>9 DEF Released, MutexOf
<1>9. Registration \/ Programs => UNCHANGED <<box, mutex, call>>
  BY DeviceFrame
<1>10. UNCHANGED vars => UNCHANGED <<box, mutex, call>>
  BY DEF vars
<1>11. ASSUME NEW t \in Threads, Waits(t)
       PROVE  Released'
  <2>1. PICK c : call' = [call EXCEPT ![t] = c]
    BY <1>11, WaitCall
  <2>2. UNCHANGED <<mutex, box>> /\ call[t].at \in {"idle", "idling"}
    BY <1>11, WaitCall
  <2>3. call' = [u \in Threads |-> IF u = t THEN c ELSE call[u]]
    BY <2>1, CallSet
  <2>4. (\A m \in mutex : m[2] # t) /\ call[t].at \notin {"locking", "driving"}
    BY <1>3, <2>2
  <2>5. \A u \in Threads : u # t => box'[u] = box[u]
    BY <2>2
  <2> QED BY <1>2, <2>2, <2>3, <2>4, <2>5
<1> QED BY <1>1, <1>4, <1>5, <1>6, <1>7, <1>8, <1>9, <1>10, <1>11 DEF Next, Queues, Step, Waits

-----------------------------------------------------------------------------
(* Devices and what is asked for. *)

LEMMA RegistryIs ==
  Objects = Registry \union Own /\ Own \intersect Registry = {}
BY DevicesAssumption DEF Objects

(* What a program does with its devices leaves the registry alone. *)
LEMMA RegistryKept ==
  ASSUME TypeOK, Registered, Programs
  PROVE  /\ UNCHANGED <<instance, asked, wanted>> /\ instance.made
         /\ \A d \in Registry : device'[d] = device[d]
<1> PICK o \in Own :
      \/ \E d \in Registry, names \in {{}, Extensions} : InitializeOwn(o, d, names)
      \/ \E from \in Objects \ {o} : CopyDevice(o, from)
      \/ ResetDevice(o)
      \/ DestroyDevice(o)
  BY DEF Programs
<1>1. o \in Objects /\ o \notin Registry /\ Registry \subseteq Objects
  BY RegistryIs
<1>2. ASSUME NEW x, device' = [device EXCEPT ![o] = x]
      PROVE  \A d \in Registry : device'[d] = device[d]
  BY <1>1, <1>2 DEF TypeOK
<1>3. ASSUME NEW d, NEW names, InitializeOwn(o, d, names)
      PROVE  /\ UNCHANGED <<instance, asked, wanted>> /\ instance.made
             /\ \E x : device' = [device EXCEPT ![o] = x]
  BY <1>3, Zenon DEF InitializeOwn
<1>4. ASSUME NEW from \in Objects, CopyDevice(o, from)
      PROVE  /\ UNCHANGED <<instance, asked, wanted>> /\ instance.made
             /\ \E x : device' = [device EXCEPT ![o] = x]
  BY <1>4 DEF CopyDevice, Registered
<1>5. ASSUME ResetDevice(o)
      PROVE  /\ UNCHANGED <<instance, asked, wanted>> /\ instance.made
             /\ \A d \in Registry : device'[d] = device[d]
  <2>1. UNCHANGED <<instance, asked, wanted>> /\ device[o].state = "live"
    BY <1>5 DEF ResetDevice
  <2>2. device' = [p \in Objects |->
                     IF device[p].state = "live" /\ device[p].families = o
                     THEN [device[p] EXCEPT !.state = "reset"] ELSE device[p]]
    BY <1>5, Zenon DEF ResetDevice
  <2>3. \A d \in Registry : ~(device[d].state = "live" /\ device[d].families = o)
    BY <1>1 DEF Registered
  <2>4. \A d \in Registry : device'[d] = device[d]
    BY <1>1, <2>2, <2>3, Zenon
  <2> QED BY <1>1, <2>1, <2>4 DEF Registered
<1>6. ASSUME DestroyDevice(o)
      PROVE  /\ UNCHANGED <<instance, asked, wanted>> /\ instance.made
             /\ \E x : device' = [device EXCEPT ![o] = x]
  BY <1>1, <1>6 DEF DestroyDevice, Registered
<1> QED BY <1>2, <1>3, <1>4, <1>5, <1>6

(* Vulkan::initialize finds devices where there were none. *)
LEMMA InitializeIs ==
  ASSUME TypeOK, Registered, NEW n, Initialize(n)
  PROVE  /\ asked' = {}
         /\ \/ Initialized /\ UNCHANGED <<instance, device, table>>
            \/ /\ instance' = [made |-> TRUE, layers |-> instance.layers \union asked]
               /\ \A d \in Registry : device[d].state = "absent"
               /\ \A d \in Registry :
                    device'[d] = device[d] \/ device'[d] = Fresh(d, d, Default \union asked)
               /\ \A o \in Objects : o \notin Registry => device'[o] = device[o] /\ table'[o] = table[o]
<1>1. CASE Initialized
  BY <1>1 DEF Initialize
<1>2. CASE ~Initialized
  <2>1. \A d \in Registry : device[d].state = "absent"
    BY <1>2, RegistryIs DEF Initialized, Made, Registered
  <2>2. instance' = [made |-> TRUE, layers |-> instance.layers \union asked] /\ asked' = {}
    BY <1>2, Zenon DEF Initialize
  <2>3. /\ device' = [o \in Objects |-> IF o \in Registry /\ o < n
                                        THEN Fresh(o, o, Default \union asked) ELSE device[o]]
        /\ table' = [o \in Objects |-> IF o \in Registry /\ o < n THEN Found(o, o) ELSE table[o]]
    BY <1>2, Zenon DEF Initialize
  <2>4. \A d \in Registry :
          device'[d] = device[d] \/ device'[d] = Fresh(d, d, Default \union asked)
    BY <2>3, RegistryIs
  <2>5. \A o \in Objects : o \notin Registry => device'[o] = device[o] /\ table'[o] = table[o]
    BY <2>3
  <2> QED BY <2>1, <2>2, <2>4, <2>5
<1> QED BY <1>1, <1>2

LEMMA RegisteredInit == Init => Registered
BY RegistryIs DEF Init, Registered

LEMMA RegisteredStep ==
  ASSUME TypeOK, Registered, [Next]_vars
  PROVE  Registered'
<1>1. CASE UNCHANGED <<instance, device>>
  BY <1>1 DEF Registered
<1>2. ASSUME NEW n, Initialize(n)
      PROVE  Registered'
  <2>1. CASE Initialized /\ UNCHANGED <<instance, device, table>>
    BY <1>1, <2>1
  <2>2. ASSUME instance' = [made |-> TRUE, layers |-> instance.layers \union asked],
               NEW d \in Registry,
               device'[d] = device[d] \/ device'[d] = Fresh(d, d, Default \union asked)
        PROVE  /\ instance'.made
               /\ device'[d].state # "absent" => device'[d].state = "live" /\ device'[d].families = d
    <3>1. d \in Objects
      BY RegistryIs
    <3>2. /\ Fresh(d, d, Default \union asked).state = "live"
          /\ Fresh(d, d, Default \union asked).families = d
      BY <3>1, FreshIs
    <3> QED BY <2>2, <3>2 DEF Registered
  <2>3. instance' = [made |-> TRUE, layers |-> instance.layers \union asked] => instance'.made
    OBVIOUS
  <2> QED BY <1>2, <2>1, <2>2, <2>3, InitializeIs DEF Registered
<1>3. CASE Registration
  <2>1. UNCHANGED <<instance, device>> \/ \E n \in 0 .. Cardinality(Registry) : Initialize(n)
    BY <1>3, Zenon DEF Registration, Ask, Initializing, SetErrorHandler
  <2> QED BY <1>1, <1>2, <2>1
<1>4. CASE Programs
  BY <1>4, RegistryKept DEF Registered
<1>5. CASE Queues
  BY <1>1, <1>5, QueueFrame
<1>6. CASE UNCHANGED vars
  BY <1>1, <1>6 DEF vars
<1> QED BY <1>3, <1>4, <1>5, <1>6 DEF Next

LEMMA AskedInit == Init => Asked
BY DEF Init, Asked, Made, Objects

LEMMA AskedStep ==
  ASSUME TypeOK, Registered, Asked, [Next]_vars
  PROVE  Asked'
<1> SUFFICES ASSUME "retry" \notin Liberties
             PROVE  Asked'
  BY DEF Asked
<1>1. CASE UNCHANGED <<instance, asked, wanted, device>>
  BY <1>1 DEF Asked, Made, Filtered
<1>2. ASSUME NEW e \in Extensions, Ask(e)
      PROVE  Asked'
  <2>1. ~instance.made
    BY <1>2 DEF Ask
  <2>2. Made' = {}
    BY <1>2, <2>1, RegistryIs DEF Ask, Registered, Made
  <2> QED BY <1>2, <2>1, <2>2 DEF Ask, Asked
<1>3. ASSUME NEW n, Initialize(n), UNCHANGED wanted, ~instance.made \/ Initialized
      PROVE  Asked'
  <2>1. CASE Initialized /\ UNCHANGED <<instance, device, table>>
    <3>1. asked' = {} /\ instance.made
      BY <1>3, <2>1, InitializeIs DEF Initialized
    <3> QED BY <1>3, <2>1, <3>1 DEF Asked, Made, Filtered
  <2>2. ASSUME instance' = [made |-> TRUE, layers |-> instance.layers \union asked],
               \A d \in Registry : device[d].state = "absent",
               \A d \in Registry :
                 device'[d] = device[d] \/ device'[d] = Fresh(d, d, Default \union asked),
               asked' = {}
        PROVE  Asked'
    <3>1. ~instance.made
      BY <1>3, <2>2 DEF Initialized, Made
    <3>2. asked = wanted
      BY <3>1 DEF Asked
    <3>3. wanted \subseteq instance'.layers /\ instance'.made
      BY <2>2, <3>2
    <3>4. ASSUME NEW d \in Made'
          PROVE  device'[d].ext = Filtered(Default \union wanted, d)
      <4>1. d \in Registry /\ device'[d].state = "live"
        BY DEF Made
      <4>2. device'[d] = Fresh(d, d, Default \union asked)
        BY <2>2, <4>1
      <4>3. Fresh(d, d, Default \union asked).ext = Filtered(Default \union asked, d)
        BY <4>1, FreshIs, RegistryIs
      <4> QED BY <3>2, <4>2, <4>3
    <3> QED BY <1>3, <2>2, <3>3, <3>4 DEF Asked, Filtered
  <2> QED BY <1>3, <2>1, <2>2, InitializeIs
<1>4. CASE Registration
  <2>1. ASSUME Initializing
        PROVE  \E n : Initialize(n) /\ UNCHANGED wanted /\ (~instance.made \/ Initialized)
    BY <2>1 DEF Initializing
  <2>2. \/ UNCHANGED <<instance, asked, wanted, device>>
        \/ \E e \in Extensions \ Default : Ask(e)
        \/ Initializing
    BY <1>4, Zenon DEF Registration, SetErrorHandler
  <2> QED BY <1>1, <1>2, <1>3, <2>1, <2>2
<1>5. CASE Programs
  <2>1. /\ UNCHANGED <<instance, asked, wanted>>
        /\ \A d \in Registry : device'[d] = device[d]
    BY <1>5, RegistryKept
  <2> QED BY <2>1 DEF Asked, Made, Filtered
<1>6. CASE Queues
  BY <1>1, <1>6, QueueFrame
<1>7. CASE UNCHANGED vars
  BY <1>1, <1>7 DEF vars
<1> QED BY <1>4, <1>5, <1>6, <1>7 DEF Next

-----------------------------------------------------------------------------
(* Families that are shared, and references to queues.                     *)

(* The reference that a look has returned is to the queues of its family. *)
StaysAfter(c) == c.edition = table'[c.of].edition /\ c.made = table'[c.of].made[c.family]

(* The reference that Look returns is good, and it is to a family of the   *)
(* device that found it.                                                   *)
LEMMA LookReference ==
  ASSUME TypeOK, Formed, NEW t \in Threads, NEW o \in Objects, NEW kind,
         device[o].state = "live", Look(t, o, kind)
  PROVE  /\ UNCHANGED fault
         /\ \/ call'[t].at = "refused" /\ UNCHANGED table
            \/ /\ call'[t].at = "looking" /\ call'[t].of = device[o].families
               /\ StaysAfter(call'[t])
<1>1. device[o].families \in Objects
  BY LiveFamilies
<1>2. CASE Suited(o, kind) = {} /\ call' = [call EXCEPT ![t] = [at |-> "refused"]] /\ UNCHANGED table
  <2>1. call'[t] = [at |-> "refused"]
    BY <1>2 DEF Formed
  <2>2. UNCHANGED fault
    BY DEF Look
  <2> QED BY <1>2, <2>1, <2>2
<1>3. ASSUME NEW f, NEW of, of = device[o].families,
             call' = [call EXCEPT ![t] = [at |-> "looking", of |-> of, family |-> f,
                                          grew |-> Grows(of, f), edition |-> table[of].edition,
                                          made |-> table'[of].made[f]]]
      PROVE  /\ call'[t].at = "looking" /\ call'[t].of = of
             /\ StaysAfter(call'[t])
  <2>1. call'[t] = [at |-> "looking", of |-> of, family |-> f, grew |-> Grows(of, f),
                    edition |-> table[of].edition, made |-> table'[of].made[f]]
    BY <1>3 DEF Formed
  <2>2. /\ call'[t].at = "looking" /\ call'[t].of = of /\ call'[t].family = f
        /\ call'[t].edition = table[of].edition /\ call'[t].made = table'[of].made[f]
    BY <2>1
  <2>3. table'[of].edition = table[of].edition
    <3>1. table' = [p \in Objects |-> [edition |-> table[p].edition, made |-> table'[p].made]]
      BY LookFormed
    <3> QED BY <1>1, <1>3, <3>1
  <2> QED BY <2>2, <2>3 DEF StaysAfter
<1>4. \/ Suited(o, kind) = {} /\ call' = [call EXCEPT ![t] = [at |-> "refused"]] /\ UNCHANGED table
      \/ LET f  == FirstFamily(Suited(o, kind))
             of == device[o].families
         IN  call' = [call EXCEPT ![t] = [at |-> "looking", of |-> of, family |-> f,
                                          grew |-> Grows(of, f), edition |-> table[of].edition,
                                          made |-> table'[of].made[f]]]
  BY Zenon DEF Look
<1>5. UNCHANGED fault
  BY DEF Look
<1> QED BY <1>2, <1>3, <1>4, <1>5

(* The families of a device change at a look that nobody else is at.       *)
LEMMA LookGrows ==
  ASSUME TypeOK, Formed, NEW t \in Threads, NEW o \in Objects, NEW kind,
         device[o].state = "live", Look(t, o, kind)
  PROVE  "race" \in Liberties \/ UNCHANGED table \/ \A u \in Threads : call[u].at # "looking"
<1>1. device[o].families \in Objects
  BY LiveFamilies
<1>2. ASSUME NEW f, NEW of, MakeQueue(of, f), ~Grows(of, f)
      PROVE  UNCHANGED table
  BY <1>2 DEF MakeQueue
<1>3. \/ UNCHANGED table
      \/ LET f  == FirstFamily(Suited(o, kind))
             of == device[o].families
         IN  MayLookIn(of, f) /\ MakeQueue(of, f)
  BY Zenon DEF Look
<1> QED BY <1>1, <1>2, <1>3 DEF MayLookIn

(* A look leaves everything as it is, or is refused, or it has a good      *)
(* reference, and the families do not change when others are looking.      *)
LEMMA Looked ==
  ASSUME TypeOK, Formed, NEW t \in Threads,
         \/ \E id \in Registry \union Own, kind \in Kinds : LookUp(t, id, kind)
         \/ \E o \in Own, kind \in Kinds : LookAt(t, o, kind)
  PROVE  /\ "race" \in Liberties \/ UNCHANGED table \/ \A u \in Threads : call[u].at # "looking"
         /\ \/ UNCHANGED <<call, table>>
            \/ \E c : /\ call' = [u \in Threads |-> IF u = t THEN c ELSE call[u]]
                      /\ \/ c.at = "refused" /\ UNCHANGED table
                         \/ /\ c.at = "looking" /\ StaysAfter(c)
                            /\ \E o \in Objects : device[o].state = "live" /\ c.of = device[o].families
<1> DEFINE Only == "race" \in Liberties \/ UNCHANGED table \/ \A u \in Threads : call[u].at # "looking"
           Good == \/ UNCHANGED <<call, table>>
                   \/ \E c : /\ call' = [u \in Threads |-> IF u = t THEN c ELSE call[u]]
                             /\ \/ c.at = "refused" /\ UNCHANGED table
                                \/ /\ c.at = "looking" /\ StaysAfter(c)
                                   /\ \E o \in Objects : device[o].state = "live" /\ c.of = device[o].families
<1>1. ASSUME NEW o \in Objects, NEW kind, device[o].state = "live", Look(t, o, kind)
      PROVE  Only /\ Good
  <2>1. PICK c : c = call'[t]
    OBVIOUS
  <2>2. call' = [u \in Threads |-> IF u = t THEN c ELSE call[u]]
    BY <1>1, <2>1, LookFormed
  <2>3. \/ c.at = "refused" /\ UNCHANGED table
        \/ c.at = "looking" /\ c.of = device[o].families /\ StaysAfter(c)
    <3>1. \/ call'[t].at = "refused" /\ UNCHANGED table
          \/ call'[t].at = "looking" /\ call'[t].of = device[o].families /\ StaysAfter(call'[t])
      BY <1>1, LookReference
    <3> QED BY <2>1, <3>1
  <2> QED BY <1>1, <2>2, <2>3, LookGrows
<1>2. ASSUME call' = [call EXCEPT ![t] = [at |-> "refused"]], UNCHANGED table
      PROVE  Only /\ Good
  <2>1. PICK c : c = [at |-> "refused"]
    OBVIOUS
  <2>2. c.at = "refused"
    BY <2>1
  <2>3. call' = [u \in Threads |-> IF u = t THEN c ELSE call[u]]
    BY <1>2, <2>1, CallSet
  <2> QED BY <1>2, <2>2, <2>3
<1>3. ASSUME NEW id, NEW kind, LookUp(t, id, kind)
      PROVE  Only /\ Good
  <2>1. ASSUME NEW o \in DeviceFor(id)
        PROVE  o \in Objects /\ device[o].state = "live"
    BY <2>1 DEF DeviceFor, Made, Objects
  <2>3. \/ call' = [call EXCEPT ![t] = [at |-> "refused"]] /\ UNCHANGED table
        \/ \E o \in DeviceFor(id) : Look(t, o, kind) \/ UNCHANGED <<call, table>>
    BY <1>3 DEF LookUp, Stray
  <2> QED BY <1>1, <1>2, <2>1, <2>3
<1>4. ASSUME NEW o \in Own, NEW kind, LookAt(t, o, kind)
      PROVE  Only /\ Good
  <2>1. device[o].state = "live"
    BY <1>4 DEF LookAt
  <2>3. Look(t, o, kind) \/ UNCHANGED <<call, table>>
    BY <1>4 DEF LookAt, Stray
  <2>4. o \in Objects
    BY DEF Objects
  <2> QED BY <1>1, <2>1, <2>3, <2>4
<1> QED BY <1>3, <1>4

(* Other steps on queues change no family, and begin no look. *)
LEMMA Unlooked ==
  ASSUME TypeOK, Formed, NEW t \in Threads,
         Step(t) \/ Waits(t) \/ \E b \in Threads : Fill(t, b)
  PROVE  /\ UNCHANGED table
         /\ UNCHANGED call \/ \E c : /\ call' = [u \in Threads |-> IF u = t THEN c ELSE call[u]]
                                     /\ c.at # "looking"
<1>1. UNCHANGED table
  BY Zenon DEF Step, Take, Lock, Driven, Fill, Waits, Synchronize, Idled
<1>2. UNCHANGED call \/ \E c : call' = [call EXCEPT ![t] = c] /\ c.at # "looking"
  <2>1. Take(t) => \E c : call' = [call EXCEPT ![t] = c] /\ c.at # "looking"
    <3>1. PICK c : c = [at |-> "idle"]
      OBVIOUS
    <3>2. c.at # "looking"
      BY <3>1
    <3> QED BY <3>1, <3>2 DEF Take, Idle
  <2>2. Lock(t) => UNCHANGED call \/ \E c : call' = [call EXCEPT ![t] = c] /\ c.at # "looking"
    BY LockCall
  <2>3. ASSUME NEW severity, Driven(t, severity)
        PROVE  \E c : call' = [call EXCEPT ![t] = c] /\ c.at # "looking"
    BY <2>3, DrivenCall
  <2>4. ASSUME NEW b, Fill(t, b)
        PROVE  \E c : call' = [call EXCEPT ![t] = c] /\ c.at # "looking"
    BY <2>4, FillCall
  <2>5. Waits(t) => \E c : call' = [call EXCEPT ![t] = c] /\ c.at # "looking"
    BY WaitCall
  <2> QED BY <2>1, <2>2, <2>3, <2>4, <2>5 DEF Step, Waits
<1> QED BY <1>1, <1>2, CallSet

LEMMA SharedInit == Init => Shared
BY DEF Init, Shared, Idle

(* When no device is in use that changes, one device at most does.         *)
LEMMA ProgramsDisturb ==
  ASSUME TypeOK, Formed, Shared, Programs, "orphan" \notin Liberties
  PROVE  \E o \in Objects :
           /\ ~InUse(o)
           /\ \A p \in Objects : p # o => device'[p] = device[p] /\ table'[p] = table[p]
           /\ \/ device'[o].state = "absent"
              \/ device'[o].families = o
              \/ \E from \in Objects \ {o} : device[from].state = "live" /\ device'[o] = device[from]
<1> PICK o \in Own :
      \/ \E d \in Registry, names \in {{}, Extensions} : InitializeOwn(o, d, names)
      \/ \E from \in Objects \ {o} : CopyDevice(o, from)
      \/ ResetDevice(o)
      \/ DestroyDevice(o)
  BY DEF Programs
<1> DEFINE Good == /\ ~InUse(o)
                   /\ \A p \in Objects : p # o => device'[p] = device[p] /\ table'[p] = table[p]
                   /\ \/ device'[o].state = "absent"
                      \/ device'[o].families = o
                      \/ \E from \in Objects \ {o} : device[from].state = "live" /\ device'[o] = device[from]
<1>1. o \in Objects
  BY RegistryIs
<1>2. ASSUME NEW d \in Registry, NEW names, InitializeOwn(o, d, names)
      PROVE  Good
  <2>1. /\ MayDisturb(o)
        /\ device' = [device EXCEPT ![o] = Fresh(o, d, Default \union names)]
        /\ table' = [table EXCEPT ![o] = Found(o, d)]
    BY <1>2, Zenon DEF InitializeOwn
  <2>2. Fresh(o, d, Default \union names).families = o
    BY <1>1, FreshIs
  <2> QED BY <1>1, <2>1, <2>2 DEF MayDisturb, TypeOK, Formed
<1>3. ASSUME NEW from \in Objects \ {o}, CopyDevice(o, from)
      PROVE  Good
  BY <1>1, <1>3 DEF CopyDevice, MayDisturb, TypeOK
<1>4. ASSUME ResetDevice(o)
      PROVE  Good
  <2>1. MayDisturb(o) /\ device[o].state = "live" /\ device[o].families = o /\ UNCHANGED table
    BY <1>4 DEF ResetDevice
  <2>2. device' = [p \in Objects |->
                     IF device[p].state = "live" /\ device[p].families = o
                     THEN [device[p] EXCEPT !.state = "reset"] ELSE device[p]]
    BY <1>4, Zenon DEF ResetDevice
  <2>3. ~InUse(o)
    BY <2>1 DEF MayDisturb
  <2>4. \A p \in Objects : p # o => ~(device[p].state = "live" /\ device[p].families = o)
    BY <2>3 DEF InUse, Sharing
  <2>5. \A p \in Objects : p # o => device'[p] = device[p]
    BY <2>2, <2>4, Zenon
  <2>6. device'[o] = [device[o] EXCEPT !.state = "reset"]
    BY <1>1, <2>1, <2>2, Zenon
  <2>7. device[o] \in DeviceData
    BY <1>1 DEF TypeOK
  <2>8. device'[o].families = o
    BY <2>1, <2>6, <2>7, ResetIs
  <2> QED BY <2>1, <2>3, <2>5, <2>8
<1>5. ASSUME DestroyDevice(o)
      PROVE  Good
  BY <1>1, <1>5 DEF DestroyDevice, MayDisturb, TypeOK
<1> QED BY <1>1, <1>2, <1>3, <1>4, <1>5

LEMMA SharedStep ==
  ASSUME TypeOK, Formed, Registered, Shared, [Next]_vars
  PROVE  Shared'
<1> SUFFICES ASSUME "orphan" \notin Liberties
             PROVE  Shared'
  BY DEF Shared
<1> DEFINE Kept == \A o \in Objects :
                     device'[o].state # "absent" => device'[device'[o].families] = device'[o]
           Looking == \A t \in Threads :
                        call[t].at = "looking" =>
                          /\ device'[call[t].of].state # "absent"
                          /\ device'[call[t].of].families = call[t].of
<1>1. UNCHANGED call /\ Kept /\ Looking => Shared'
  BY DEF Shared
<1>2. CASE UNCHANGED <<device, call>>
  BY <1>2 DEF Shared
<1>3. ASSUME NEW n, Initialize(n)
      PROVE  Kept /\ Looking
  <2>1. CASE UNCHANGED device
    BY <2>1 DEF Shared
  <2>2. ASSUME \A d \in Registry : device[d].state = "absent",
               \A d \in Registry :
                 device'[d] = device[d] \/ device'[d] = Fresh(d, d, Default \union asked),
               \A o \in Objects : o \notin Registry => device'[o] = device[o] /\ table'[o] = table[o]
        PROVE  Kept /\ Looking
    <3>1. \A o \in Objects : device[o].state # "absent" =>
            o \notin Registry /\ device[o].families \in Objects /\ device[o].families \notin Registry
      <4>1. \A o \in Objects : device[o].state # "absent" => device[o].families \in Objects
        BY LiveFamilies
      <4> QED BY <2>2, <4>1 DEF Shared
    <3>2. \A d \in Registry : device'[d].state # "absent" => device'[d].families = d
      BY <2>2, FreshIs, RegistryIs
    <3>3. Kept
      BY <2>2, <3>1, <3>2 DEF Shared
    <3>4. Looking
      BY <2>2, <3>1 DEF Shared, Formed
    <3> QED BY <3>3, <3>4
  <2> QED BY <1>3, <2>1, <2>2, InitializeIs
<1>4. CASE Registration
  <2>1. UNCHANGED device \/ \E n \in 0 .. Cardinality(Registry) : Initialize(n)
    BY <1>4, Zenon DEF Registration, Ask, Initializing, SetErrorHandler
  <2>2. UNCHANGED call
    BY <1>4, DeviceFrame
  <2> QED BY <1>1, <1>2, <1>3, <2>1, <2>2
<1>5. CASE Programs
  <2>1. PICK o \in Objects :
          /\ ~InUse(o)
          /\ \A p \in Objects : p # o => device'[p] = device[p] /\ table'[p] = table[p]
          /\ \/ device'[o].state = "absent"
             \/ device'[o].families = o
             \/ \E from \in Objects \ {o} : device[from].state = "live" /\ device'[o] = device[from]
    BY <1>5, ProgramsDisturb
  <2>2. \A p \in Objects : p # o /\ device[p].state # "absent" =>
          device[p].families \in Objects /\ device[p].families # o
    BY <2>1, LiveFamilies DEF InUse, Sharing
  <2>3. \A p \in Objects : p # o => (device'[p].state # "absent" => device'[device'[p].families] = device'[p])
    BY <2>1, <2>2 DEF Shared
  <2>4. device'[o].state # "absent" => device'[device'[o].families] = device'[o]
    <3>1. CASE device'[o].families = o
      BY <3>1
    <3>2. ASSUME NEW from \in Objects \ {o}, device[from].state = "live", device'[o] = device[from]
          PROVE  device'[device'[o].families] = device'[o]
      BY <2>1, <2>2, <3>2 DEF Shared
    <3> QED BY <2>1, <3>1, <3>2
  <2>5. Kept
    BY <2>3, <2>4
  <2>6. Looking
    <3>1. \A t \in Threads : call[t].at = "looking" => call[t].of \in Objects /\ call[t].of # o
      BY <2>1 DEF InUse, Formed
    <3> QED BY <2>1, <3>1 DEF Shared
  <2>7. UNCHANGED call
    BY <1>5, DeviceFrame
  <2> QED BY <1>1, <2>5, <2>6, <2>7
<1>6. ASSUME NEW t \in Threads, UNCHANGED device,
             NEW c, call' = [u \in Threads |-> IF u = t THEN c ELSE call[u]],
             c.at = "looking" => \E o \in Objects : device[o].state = "live" /\ c.of = device[o].families
      PROVE  Shared'
  <2>1. c.at = "looking" => device[c.of].state # "absent" /\ device[c.of].families = c.of
    BY <1>6 DEF Shared
  <2> QED BY <1>6, <2>1 DEF Shared
<1>7. ASSUME NEW t \in Threads, UNCHANGED device,
             \/ \E id \in Registry \union Own, kind \in Kinds : LookUp(t, id, kind)
             \/ \E o \in Own, kind \in Kinds : LookAt(t, o, kind)
      PROVE  Shared'
  <2>1. \/ UNCHANGED call
        \/ \E c : /\ call' = [u \in Threads |-> IF u = t THEN c ELSE call[u]]
                  /\ \/ c.at = "refused"
                     \/ /\ c.at = "looking"
                        /\ \E o \in Objects : device[o].state = "live" /\ c.of = device[o].families
    BY <1>7, Looked
  <2> QED BY <1>2, <1>6, <1>7, <2>1
<1>8. ASSUME NEW t \in Threads, UNCHANGED device, Step(t) \/ Waits(t) \/ \E b \in Threads : Fill(t, b)
      PROVE  Shared'
  BY <1>2, <1>6, <1>8, Unlooked
<1>9. CASE Queues
  BY <1>7, <1>8, <1>9, QueueFrame DEF Queues, Waits
<1>10. CASE UNCHANGED vars
  BY <1>2, <1>10 DEF vars
<1> QED BY <1>4, <1>5, <1>9, <1>10 DEF Next

LEMMA ReferredInit == Init => Referred
BY DEF Init, Referred, Idle

LEMMA ReferredStep ==
  ASSUME TypeOK, Formed, Registered, Shared, Referred, [Next]_vars
  PROVE  Referred'
<1> SUFFICES ASSUME "race" \notin Liberties, "orphan" \notin Liberties
             PROVE  Referred'
  BY DEF Referred
<1>1. CASE UNCHANGED <<table, call>>
  BY <1>1 DEF Referred, Stayed
<1>2. CASE Registration \/ Programs
  <2>1. UNCHANGED call
    BY <1>2, DeviceFrame
  <2>2. ASSUME NEW t \in Threads, call[t].at = "looking"
        PROVE  table'[call[t].of] = table[call[t].of]
    <3>1. /\ call[t].of \in Objects
          /\ device[call[t].of].state # "absent"
      BY <2>2 DEF Shared, Formed
    <3>2. ASSUME NEW n, Initialize(n)
          PROVE  table'[call[t].of] = table[call[t].of]
      BY <3>1, <3>2, InitializeIs
    <3>3. CASE Programs
      <4>1. PICK o \in Objects :
              /\ ~InUse(o)
              /\ \A p \in Objects : p # o => device'[p] = device[p] /\ table'[p] = table[p]
        BY <2>2, <3>3, ProgramsDisturb
      <4> QED BY <2>2, <3>1, <4>1 DEF InUse
    <3>4. CASE Registration
      <4>1. UNCHANGED table \/ \E n \in 0 .. Cardinality(Registry) : Initialize(n)
        BY <3>4, Zenon DEF Registration, Ask, Initializing, SetErrorHandler
      <4> QED BY <3>2, <4>1
    <3> QED BY <1>2, <3>3, <3>4
  <2> QED BY <2>1, <2>2 DEF Referred, Stayed
<1>3. ASSUME NEW t \in Threads,
             \/ \E id \in Registry \union Own, kind \in Kinds : LookUp(t, id, kind)
             \/ \E o \in Own, kind \in Kinds : LookAt(t, o, kind)
      PROVE  Referred'
  <2>1. UNCHANGED table \/ \A u \in Threads : call[u].at # "looking"
    BY <1>3, Looked
  <2>2. ASSUME NEW c, call' = [u \in Threads |-> IF u = t THEN c ELSE call[u]],
               c.at = "refused" \/ StaysAfter(c)
        PROVE  Referred'
    <3>1. ASSUME NEW u \in Threads, call'[u].at = "looking"
          PROVE  StaysAfter(call'[u])
      <4>1. CASE u = t
        BY <2>2, <3>1, <4>1
      <4>2. CASE u # t
        <5>1. call'[u] = call[u] /\ UNCHANGED table /\ Stayed(call[u])
          BY <2>1, <2>2, <3>1, <4>2 DEF Referred
        <5> QED BY <5>1 DEF Stayed, StaysAfter
      <4> QED BY <4>1, <4>2
    <3> QED BY <3>1 DEF Referred, Stayed, StaysAfter
  <2> QED BY <1>1, <1>3, <2>2, Looked
<1>4. ASSUME NEW t \in Threads, Step(t) \/ Waits(t) \/ \E b \in Threads : Fill(t, b)
      PROVE  Referred'
  <2>1. UNCHANGED table
    BY <1>4, Unlooked
  <2>2. ASSUME NEW c, call' = [u \in Threads |-> IF u = t THEN c ELSE call[u]], c.at # "looking"
        PROVE  Referred'
    <3>1. \A u \in Threads : call'[u].at = "looking" => call'[u] = call[u]
      BY <2>2
    <3> QED BY <2>1, <3>1 DEF Referred, Stayed
  <2> QED BY <1>1, <1>4, <2>1, <2>2, Unlooked
<1>5. CASE Queues
  BY <1>3, <1>4, <1>5 DEF Queues, Waits
<1>6. CASE UNCHANGED vars
  BY <1>1, <1>6 DEF vars
<1> QED BY <1>2, <1>5, <1>6 DEF Next

-----------------------------------------------------------------------------
(* The theorems. *)

LEMMA TypesInit == Init => TypeOK
BY DevicesAssumption DEF Init, TypeOK, DeviceData, Idle, NoQueue

LEMMA TypesStep ==
  ASSUME TypeOK, Formed, [Next]_vars
  PROVE  TypeOK'
<1>1. CASE Registration \/ Programs
  BY <1>1, DeviceTypes, DeviceFrame DEF TypeOK
<1>2. CASE Queues
  BY <1>2, QueueTypes, QueueFrame DEF TypeOK, QueuesTyped
<1>3. CASE UNCHANGED vars
  BY <1>3 DEF vars, TypeOK
<1> QED BY <1>1, <1>2, <1>3 DEF Next

LEMMA FormsAlways == Spec => [](TypeOK /\ QueueInv)
<1>1. Init => TypeOK /\ QueueInv
  BY TypesInit, FormedInit, ExcludedInit, OwnQueueInit DEF QueueInv
<1>2. TypeOK /\ QueueInv /\ [Next]_vars => (TypeOK /\ QueueInv)'
  BY TypesStep, FormedStep, ExcludedStep, OwnQueueStep DEF QueueInv
<1> QED BY <1>1, <1>2, PTL DEF Spec

LEMMA DevicesAlways == Spec => []DeviceInv
<1>1. Init => DeviceInv
  BY RegisteredInit, AskedInit, SharedInit, ReferredInit DEF DeviceInv
<1>2. TypeOK /\ QueueInv /\ DeviceInv /\ [Next]_vars => DeviceInv'
  BY RegisteredStep, AskedStep, SharedStep, ReferredStep DEF DeviceInv, QueueInv
<1> QED BY <1>1, <1>2, FormsAlways, PTL DEF Spec

(* Whatever the program and the driver do, no two threads at a time are    *)
(* with the driver in calls on one queue of Vulkan that lock its mutex     *)
(* (Queue::submit, Queue::wait, mutex_map): any copies of a Queue object,  *)
(* however they came about, find the same mutex.                           *)
THEOREM UsedOneAtATime == Spec => []OneAtATime
<1>1. QueueInv => OneAtATime
  <2> SUFFICES ASSUME QueueInv, NEW t \in Threads, NEW u \in Threads, Driving(t), Driving(u),
                      call[t].queue = call[u].queue
               PROVE  t = u
    BY DEF OneAtATime
  <2> USE DEF Driving
  <2>1. t = u
    <3>1. PICK q : q = call[t].queue /\ <<q, t>> \in mutex /\ <<q, u>> \in mutex
      BY DEF QueueInv, Excluded
    <3>2. <<q, t>>[1] = <<q, u>>[1]
      OBVIOUS
    <3>3. <<q, t>> = <<q, u>>
      BY <3>1, <3>2 DEF QueueInv, Excluded
    <3> QED BY <3>3
  <2> QED BY <2>1
<1> QED BY <1>1, FormsAlways, PTL

(* Threads take turns, each has the submission it filled executed, and no  *)
(* error leaves a mutex locked, as long as none uses the Queue object of   *)
(* another (Queue::submit, Queue::wait, Vulkan::add), or waits for a       *)
(* device, or goes on with one, while another waits for it (Device::wait). *)
THEOREM QueuesAreKept ==
  ASSUME {"share", "idle"} \intersect Liberties = {}
  PROVE  Spec => []QueuesKept
<1>1. Init => Released
  BY ReleasedInit
<1>2. TypeOK /\ QueueInv /\ Released /\ [Next]_vars => Released'
  BY ReleasedStep DEF QueueInv
<1>3. QueueInv /\ Released => SubmitsOwn /\ NoneLeft
  BY DEF QueueInv, OwnQueue, Released, SubmitsOwn, NoneLeft
<1>4. TypeOK /\ QueueInv /\ WaitsAlone /\ [Next]_vars => WaitsAlone'
  BY WaitsAloneStep DEF QueueInv
<1> QED BY <1>1, <1>2, <1>3, <1>4, WaitsAloneInit, FormsAlways, UsedOneAtATime, PTL
        DEF Spec, QueuesKept

(* Every device has the extensions a program asked for and it knows, and   *)
(* the instance the layers, when they are asked for before the devices are *)
(* found (addDeviceExtension, addValidationLayer, Vulkan::initialize).     *)
THEOREM AskedIsEnabled ==
  ASSUME "retry" \notin Liberties
  PROVE  Spec => []AskedEnabled
<1>1. DeviceInv => AskedEnabled
  BY DEF DeviceInv, Asked, AskedEnabled, Filtered
<1> QED BY <1>1, DevicesAlways, PTL

(* The copies of a device agree with it, as long as none goes that others  *)
(* share the families of (Device's copies, reset, ~Device).                *)
THEOREM DevicesAreAsAsked ==
  ASSUME {"retry", "orphan"} \intersect Liberties = {}
  PROVE  Spec => []DevicesAsAsked
<1>1. TypeOK /\ DeviceInv => CopiesAgree
  <2> SUFFICES ASSUME TypeOK, Shared, NEW o \in Objects, NEW p \in Objects,
                      device[o].state = "live", device[p].state = "live",
                      device[o].families = device[p].families
               PROVE  device[o] = device[p]
    BY DEF CopiesAgree, DeviceInv
  <2> QED BY DEF Shared
<1>2. "retry" \notin Liberties
  OBVIOUS
<1> QED BY <1>1, <1>2, AskedIsEnabled, DevicesAlways, FormsAlways, PTL DEF DevicesAsAsked

(* No family is read through properties that are gone, no reference to a   *)
(* queue outlives the vector it points into, though threads look in a full *)
(* family at the same time, and no queue that is not there is locked       *)
(* (QueueFamily::makeQueue, Device, Queue); the driver reads the           *)
(* priorities of every family, where no family has more queues than all    *)
(* before it (generateDevice).                                             *)
THEOREM DevicesAreSafe ==
  ASSUME Liberties \subseteq {"retry", "handler", "idle"},
         \A d \in Registry : PrioritiesStay(d)
  PROVE  Spec => []Safe
<1>1. Init => NoFault
  BY DEF Init, NoFault
<1>2. TypeOK /\ QueueInv /\ DeviceInv /\ NoFault /\ [Next]_vars => NoFault'
  <2> SUFFICES ASSUME TypeOK, QueueInv, DeviceInv, NoFault, [Next]_vars
               PROVE  UNCHANGED fault
    BY DEF NoFault
  <2>1. ASSUME NEW o \in Objects, device[o].state = "live"
        PROVE  PropertiesThere(o)
    BY <2>1 DEF PropertiesThere, DeviceInv, Shared
  <2>2. ASSUME NEW t \in Threads, NEW o \in Objects, device[o].state = "live", NEW kind,
               Look(t, o, kind) \/ Stray(t, o)
        PROVE  UNCHANGED fault
    BY <2>1, <2>2 DEF Look, Stray
  <2>3. ASSUME NEW t \in Threads, NEW id, NEW kind, LookUp(t, id, kind)
        PROVE  UNCHANGED fault
    <3>1. ASSUME NEW o \in DeviceFor(id)
          PROVE  o \in Objects /\ device[o].state = "live"
      BY <3>1 DEF DeviceFor, Made, Objects
    <3>2. \/ UNCHANGED fault
          \/ \E o \in DeviceFor(id) : Look(t, o, kind) \/ Stray(t, o)
      BY <2>3, Zenon DEF LookUp
    <3> QED BY <2>2, <3>1, <3>2
  <2>4. ASSUME NEW t \in Threads, NEW o \in Own, NEW kind, LookAt(t, o, kind)
        PROVE  UNCHANGED fault
    <3>1. o \in Objects /\ device[o].state = "live" /\ (Look(t, o, kind) \/ Stray(t, o))
      BY <2>4, RegistryIs, Zenon DEF LookAt
    <3> QED BY <2>2, <3>1
  <2>5. ASSUME NEW t \in Threads, Take(t)
        PROVE  UNCHANGED fault
    <3>1. call[t].at = "looking" => Stayed(call[t])
      BY DEF DeviceInv, Referred
    <3> QED BY <2>5, <3>1 DEF Take
  <2>6. ASSUME NEW t \in Threads, Lock(t)
        PROVE  UNCHANGED fault
    <3>1. call[t].at = "locking"
      BY <2>6 DEF Lock
    <3>2. box[call[t].box] # Dummy
      BY <3>1 DEF QueueInv, OwnQueue
    <3> QED BY <2>6, <3>2, LockCall
  <2>7. ASSUME NEW t \in Threads, NEW b, Fill(t, b)
        PROVE  UNCHANGED fault
    BY <2>7 DEF Fill
  <2>8. ASSUME NEW t \in Threads, NEW severity, Driven(t, severity)
        PROVE  UNCHANGED fault
    BY <2>8 DEF Driven
  <2>9. UNCHANGED vars => UNCHANGED fault
    BY DEF vars
  <2>10. ASSUME NEW t \in Threads, Waits(t)
         PROVE  UNCHANGED fault
    BY <2>10, WaitCall
  <2>11. CASE Registration \/ Programs
    <3>1. \A ds \in SUBSET Registry : Generated(ds) = fault
      BY DEF Generated
    <3> QED BY <2>11, <3>1, DeviceFrame
  <2> QED BY <2>3, <2>4, <2>5, <2>6, <2>7, <2>8, <2>9, <2>10, <2>11 DEF Next, Queues, Step, Waits
<1> QED BY <1>1, <1>2, FormsAlways, DevicesAlways, PTL DEF Spec, Safe

=============================================================================
