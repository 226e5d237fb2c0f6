---------------------------- MODULE StagingProofs ----------------------------
(***************************************************************************)
(* Proofs about Staging, for every number of threads, arrays and buffers.  *)
(***************************************************************************)
EXTENDS Staging, SequenceTheorems, TLAPS

(***************************************************************************)
(* Any client: the types, and the soundness of the pool.                   *)
(***************************************************************************)

LEMMA SoundInit == Init => TypeOK /\ PoolInv
<1> SUFFICES ASSUME Init
             PROVE  TypeOK /\ PoolInv
  OBVIOUS
<1> USE MaxStagingAssumption, MaxCopiesAssumption, ArraysAssumption,
        ThreadsAssumption DEF Init
<1>1. NoJob \in Jobs
  BY DEF NoJob, Jobs
<1>2. TypeOK
  BY <1>1 DEF TypeOK, Stages, Faults
<1>3. PoolInv
  BY DEF PoolInv, InPool, GrowAlone, PoolSound, Holding
<1>4. QED
  BY <1>2, <1>3

LEMMA SoundCall ==
  ASSUME TypeOK, PoolInv, NEW t \in Threads, NEW kind \in {"put", "fetch"},
         NEW a \in Arrays, NEW large \in BOOLEAN, Call(t, kind, a, large)
  PROVE  TypeOK' /\ PoolInv'
<1> USE MaxStagingAssumption, MaxCopiesAssumption DEF Call, TypeOK
<1>1. TypeOK'
  BY DEF Stages, Faults, Jobs, RaceFault
<1>2. PoolInv'
  <2>1. InPool' /\ Len(pool') <= MaxStaging
    BY DEF PoolInv, InPool, Idle
  <2>2. (Defined => GrowAlone)'
    BY DEF PoolInv, GrowAlone, RaceFault, Defined, Idle
  <2>3. PoolSound'
    BY DEF PoolInv, PoolSound, Holding, Defined, Idle
  <2>4. QED
    BY <2>1, <2>2, <2>3 DEF PoolInv
<1>3. QED
  BY <1>1, <1>2

(* Locking, unlocking or preparing a buffer changes that buffer's entry.   *)
LEMMA Relocked ==
  ASSUME NEW p \in Seq(Buffers), NEW i \in 1 .. Len(p),
         NEW h \in Threads \union {NoThread}
  PROVE  LET q == [p EXCEPT ![i].holder = h] IN
         /\ q \in Seq(Buffers) /\ Len(q) = Len(p)
         /\ \A s \in 1 .. Len(p) :
              /\ q[s].holder = IF s = i THEN h ELSE p[s].holder
              /\ q[s].device = p[s].device
<1> DEFINE q == [p EXCEPT ![i].holder = h]
<1>1. p[i] \in Buffers
  OBVIOUS
<1>2. [p[i] EXCEPT !.holder = h] \in Buffers
  BY <1>1 DEF Buffers
<1>3. q = [p EXCEPT ![i] = [p[i] EXCEPT !.holder = h]]
  BY DEF q
<1> HIDE DEF q
<1>4. q \in Seq(Buffers) /\ Len(q) = Len(p)
  BY <1>2, <1>3
<1>5. \A s \in 1 .. Len(p) : q[s] = IF s = i THEN [p[i] EXCEPT !.holder = h] ELSE p[s]
  BY <1>3
<1>6. QED
  BY <1>1, <1>4, <1>5 DEF Buffers, q

LEMMA SoundProbe ==
  ASSUME TypeOK, PoolInv, NEW t \in Threads, Probe(t)
  PROVE  TypeOK' /\ PoolInv'
<1> USE MaxStagingAssumption, ThreadsAssumption
<1>1. iter[t] \in 1 .. Len(pool) /\ pc[t] = "probe"
  BY DEF PoolInv, InPool, Probe
<1>2. UNCHANGED <<bytes, job, result, called, array, work, handed>>
  BY DEF Probe
<1>3. CASE Free(iter[t]) /\ iter' = iter
           /\ pool' = [pool EXCEPT ![iter[t]].holder = t]
           /\ pc' \in {[pc EXCEPT ![t] = "fill"], [pc EXCEPT ![t] = "record"]}
           /\ fault' \in {fault, "unready"}
  <2>1. /\ pool' \in Seq(Buffers) /\ Len(pool') = Len(pool)
        /\ \A s \in 1 .. Len(pool) :
             pool'[s].holder = IF s = iter[t] THEN t ELSE pool[s].holder
    <3>1. pool \in Seq(Buffers)
      BY DEF TypeOK
    <3>2. QED
      BY <1>1, <1>3, <3>1, Relocked
  <2>2. TypeOK'
    BY <1>2, <1>3, <2>1 DEF TypeOK, Stages, Faults
  <2>3. InPool' /\ Len(pool') <= MaxStaging
    BY <1>1, <1>3, <2>1 DEF TypeOK, PoolInv, InPool
  <2>4. (Defined => GrowAlone)'
    BY <1>3, <2>1 DEF TypeOK, PoolInv, GrowAlone, Defined, Faults
  <2>5. PoolSound'
    <3>1. SUFFICES ASSUME Defined', NEW s \in 1 .. Len(pool), NEW u \in Threads
                   PROVE  pool'[s].holder = u <=> Holding(u)' /\ iter[u] = s
      BY <1>3, <2>1, <2>3 DEF PoolSound
    <3>2. pool[s].holder = u <=> Holding(u) /\ iter[u] = s
      BY <1>3, <3>1 DEF PoolInv, PoolSound, Defined
    <3>3. \A v \in Threads : Holding(v)' <=> v = t \/ Holding(v)
      BY <1>1, <1>3 DEF Holding, TypeOK
    <3>4. ~Holding(t) /\ (s = iter[t] => pool[s].holder = NoThread)
      BY <1>1, <1>3 DEF Holding, Free
    <3>5. CASE s = iter[t]
      BY <2>1, <3>2, <3>3, <3>4, <3>5
    <3>6. CASE s # iter[t]
      BY <2>1, <3>2, <3>3, <3>4, <3>6
    <3>7. QED
      BY <3>5, <3>6
  <2>6. QED
    BY <2>2, <2>3, <2>4, <2>5 DEF PoolInv
<1>4. CASE /\ pool' = pool /\ fault' = RaceFault(t)
           /\ \/ iter[t] < Len(pool) /\ iter' = [iter EXCEPT ![t] = @ + 1] /\ pc' = pc
              \/ Len(pool) < MaxStaging /\ iter' = iter /\ pc' = [pc EXCEPT ![t] = "grow"]
              \/ iter' = [iter EXCEPT ![t] = 1] /\ pc' = pc
  <2>1. Len(pool) \in Nat /\ Len(pool) <= MaxStaging
    BY DEF PoolInv, TypeOK
  <2>2. iter' \in [Threads -> 1 .. MaxStaging] /\ iter'[t] \in 1 .. Len(pool)
    <3>1. iter \in [Threads -> 1 .. MaxStaging]
      BY DEF TypeOK
    <3>2. \E n \in 1 .. Len(pool) : iter' = [iter EXCEPT ![t] = n]
      BY <1>1, <1>4, <2>1, <3>1
    <3>3. QED
      BY <2>1, <3>1, <3>2
  <2>3. TypeOK'
    BY <1>2, <1>4, <2>2 DEF TypeOK, Stages, Faults, RaceFault
  <2>4. InPool'
    BY <1>4, <2>2 DEF TypeOK, PoolInv, InPool
  <2>5. (Defined => GrowAlone)'
    BY <1>4 DEF TypeOK, PoolInv, GrowAlone, Defined, RaceFault
  <2>6. PoolSound'
    BY <1>1, <1>4, SMTT(30) DEF TypeOK, PoolInv, PoolSound, Holding, Defined, RaceFault
  <2>7. QED
    BY <1>4, <2>1, <2>3, <2>4, <2>5, <2>6 DEF PoolInv
<1>5. QED
  BY <1>3, <1>4 DEF Probe, MayGrow

LEMMA SoundGrow ==
  ASSUME TypeOK, PoolInv, NEW t \in Threads, Grow(t)
  PROVE  TypeOK' /\ PoolInv'
<1> USE MaxStagingAssumption, ThreadsAssumption DEF Grow, TypeOK
<1>1. Len(pool) < MaxStaging /\ \A u \in Threads \ {t} : pc[u] # "grow"
  BY DEF PoolInv, GrowAlone
<1> DEFINE new == [holder |-> NoThread, device |-> Device(t)]
<1>2. new \in Buffers
  BY DEF Buffers, Device
<1>3. /\ pool' \in Seq(Buffers) /\ Len(pool') = Len(pool) + 1
      /\ \A s \in 1 .. Len(pool) : pool'[s] = pool[s]
      /\ pool'[Len(pool) + 1] = new
  BY <1>2 DEF Buffers
<1>4. TypeOK'
  BY <1>1, <1>3 DEF Buffers, Stages, Faults, RaceFault
<1>5. PoolInv'
  <2>1. InPool' /\ Len(pool') <= MaxStaging
    BY <1>1, <1>3 DEF PoolInv, InPool
  <2>2. (Defined => GrowAlone)'
    BY <1>1, <1>3 DEF GrowAlone
  <2>3. PoolSound'
    <3>1. SUFFICES ASSUME NEW s \in 1 .. Len(pool) + 1, NEW u \in Threads
                   PROVE  pool'[s].holder = u <=> Holding(u)' /\ iter'[u] = s
      BY <1>1, <1>3, SMTT(30) DEF PoolSound
    <3>2. Holding(u)' <=> Holding(u)
      BY DEF Holding
    <3>3. Holding(u) => u # t /\ iter[u] \in 1 .. Len(pool)
      BY DEF Holding, PoolInv, InPool
    <3>4. u # t => iter'[u] = iter[u]
      OBVIOUS
    <3>5. CASE s = Len(pool) + 1
      <4>1. pool'[s].holder # u
        BY <1>3, <3>5
      <4>2. QED
        BY <3>2, <3>3, <3>4, <3>5, <4>1
    <3>6. CASE s \in 1 .. Len(pool)
      <4>1. pool[s].holder = u <=> Holding(u) /\ iter[u] = s
        BY <3>6 DEF PoolInv, PoolSound
      <4>2. QED
        BY <1>3, <3>2, <3>3, <3>4, <3>6, <4>1
    <3>7. QED
      BY <3>5, <3>6, SMTT(30)
  <2>4. QED
    BY <2>1, <2>2, <2>3 DEF PoolInv
<1>6. QED
  BY <1>4, <1>5

LEMMA SoundPrepare ==
  ASSUME TypeOK, PoolInv, NEW t \in Threads, Prepare(t)
  PROVE  TypeOK' /\ PoolInv'
<1>1. TypeOK'
  BY DEF Prepare, TypeOK, Stages
<1>2. PoolInv'
  BY DEF Prepare, TypeOK, PoolInv, InPool, GrowAlone, PoolSound, Holding,
         Defined
<1>3. QED
  BY <1>1, <1>2

LEMMA SoundUnlock ==
  ASSUME TypeOK, PoolInv, NEW t \in Threads, Unlock(t)
  PROVE  TypeOK' /\ PoolInv'
<1> USE ThreadsAssumption
<1>1. iter[t] \in 1 .. Len(pool)
  BY DEF PoolInv, InPool, Unlock
<1>2. /\ pool' \in Seq(Buffers) /\ Len(pool') = Len(pool)
      /\ \A s \in 1 .. Len(pool) :
           pool'[s].holder = IF s = iter[t] THEN NoThread ELSE pool[s].holder
  <2>1. /\ pool \in Seq(Buffers)
        /\ pool' = [pool EXCEPT ![iter[t]].holder = NoThread]
    BY DEF Unlock, Unlocked, TypeOK
  <2>2. QED
    BY <1>1, <2>1, Relocked
<1>3. TypeOK'
  BY <1>2 DEF Unlock, TypeOK, Stages
<1>4. PoolInv'
  BY <1>1, <1>2 DEF Unlock, TypeOK, PoolInv, InPool, GrowAlone, PoolSound,
                    Holding, Defined
<1>5. QED
  BY <1>3, <1>4

(* The steps of a call that leave the pool alone and stay in its holding   *)
(* stages.                                                                 *)
LEMMA SoundHolding ==
  ASSUME TypeOK, PoolInv, NEW t \in Threads,
         Fill(t) \/ Record(t) \/ Wait(t) \/ Read(t)
  PROVE  TypeOK' /\ PoolInv'
<1> USE DEF TypeOK
<1>1. iter[t] \in 1 .. Len(pool)
  BY DEF PoolInv, InPool, Fill, Record, Wait, Read
<1>2. CASE Fill(t)
  <2>1. TypeOK'
    BY <1>1, <1>2, MaxCopiesAssumption DEF Fill, Filled, Stages, Jobs
  <2>2. PoolInv'
    BY <1>2 DEF Fill, PoolInv, InPool, GrowAlone, PoolSound, Holding, Defined
  <2>3. QED
    BY <2>1, <2>2
<1>3. CASE Record(t)
  <2>1. Copy(job[t].kind, job[t].array, job[t].array, job[t].val, iter[t]) \in Copies
    BY DEF Copy, Copies, Jobs, Kinds
  <2>2. work' \in [Threads -> Seq(Copies)]
    BY <1>3, <2>1 DEF Record
  <2>3. TypeOK'
    BY <1>3, <2>2 DEF Record, Stages, Faults
  <2>4. PoolInv'
    BY <1>3, SMTT(30) DEF Record, PoolInv, InPool, GrowAlone, PoolSound, Holding, Defined
  <2>5. QED
    BY <2>3, <2>4
<1>4. CASE Wait(t)
  BY <1>4, SMTT(30) DEF Wait, Stages, PoolInv, InPool, GrowAlone, PoolSound, Holding, Defined
<1>5. CASE Read(t)
  <2>1. TypeOK'
    BY <1>1, <1>5 DEF Read, Stages
  <2>2. PoolInv'
    BY <1>5, SMTT(30) DEF Read, PoolInv, InPool, GrowAlone, PoolSound, Holding, Defined
  <2>3. QED
    BY <2>1, <2>2
<1>6. QED
  BY <1>2, <1>3, <1>4, <1>5

(* A step that changes no chain's work and hands nothing over. *)
LEMMA WorkKept ==
  ASSUME TypeOK, TypeOK', WorkFits, UNCHANGED <<work, handed>>,
         Len(bytes) <= Len(bytes')
  PROVE  WorkFits'
  BY DEF WorkFits, Staged, TypeOK

(* One more copy is recorded on a chain. *)
LEMMA WorkAppended ==
  ASSUME TypeOK, WorkFits, NEW t \in Threads, NEW c \in Copies,
         work' = [work EXCEPT ![t] = Append(@, c)], UNCHANGED <<handed, bytes>>,
         c.kind # "move" => c.slot \in 1 .. Len(bytes)
  PROVE  WorkFits' /\ work' \in [Threads -> Seq(Copies)]
<1>1. /\ work' \in [Threads -> Seq(Copies)]
      /\ Len(work'[t]) = Len(work[t]) + 1
      /\ work'[t][Len(work[t]) + 1] = c
      /\ \A i \in 1 .. Len(work[t]) : work'[t][i] = work[t][i]
      /\ \A u \in Threads \ {t} : work'[u] = work[u]
  BY DEF TypeOK
<1>2. SUFFICES ASSUME NEW u \in Threads
               PROVE  /\ handed'[u] <= Len(work'[u])
                      /\ \A i \in Staged(u)' : work'[u][i].slot \in 1 .. Len(bytes')
  BY <1>1 DEF WorkFits
<1>3. CASE u = t
  <2>1. handed[t] <= Len(work[t]) /\ Len(work[t]) \in Nat /\ handed[t] \in Nat
    BY DEF WorkFits, TypeOK
  <2>2. \A i \in 1 .. Len(work[t]) :
          work[t][i].kind # "move" => work[t][i].slot \in 1 .. Len(bytes)
    BY DEF WorkFits, Staged
  <2>3. QED
    BY <1>1, <1>3, <2>1, <2>2 DEF Staged
<1>4. CASE u # t
  BY <1>1, <1>4 DEF WorkFits, Staged
<1>5. QED
  BY <1>3, <1>4

(* The device executes the oldest copy of a chain. *)
LEMMA WorkExecuted ==
  ASSUME TypeOK, WorkFits, NEW t \in Threads, Execute(t)
  PROVE  /\ work[t] # <<>> /\ Head(work[t]) = work[t][1]
         /\ work[t][1] \in Copies
         /\ work[t][1].kind # "move" => work[t][1].slot \in 1 .. Len(bytes)
         /\ work' \in [Threads -> Seq(Copies)]
         /\ Len(work'[t]) = Len(work[t]) - 1
         /\ \A i \in 1 .. Len(work[t]) - 1 : work'[t][i] = work[t][i + 1]
         /\ \A u \in Threads \ {t} : work'[u] = work[u]
         /\ handed' \in [Threads -> Nat]
         /\ \A u \in Threads : handed'[u] = IF u = t THEN handed[t] - 1 ELSE handed[u]
<1>1. handed[t] > 0 /\ handed[t] <= Len(work[t]) /\ handed[t] \in Nat
  BY DEF Execute, WorkFits, TypeOK
<1>2. work[t] \in Seq(Copies) /\ work[t] # <<>> /\ 1 \in 1 .. Len(work[t])
  BY <1>1 DEF TypeOK
<1>3. work[t][1].kind # "move" => work[t][1].slot \in 1 .. Len(bytes)
  BY <1>2 DEF WorkFits, Staged
<1>4. work' = [work EXCEPT ![t] = Tail(@)] /\ handed' = [handed EXCEPT ![t] = @ - 1]
  BY DEF Execute
<1>5. /\ Tail(work[t]) \in Seq(Copies) /\ Len(Tail(work[t])) = Len(work[t]) - 1
      /\ \A i \in 1 .. Len(work[t]) - 1 : Tail(work[t])[i] = work[t][i + 1]
      /\ Head(work[t]) = work[t][1] /\ work[t][1] \in Copies
  BY <1>2
<1>6. handed' \in [Threads -> Nat]
  BY <1>1, <1>4 DEF TypeOK
<1>7. QED
  BY <1>1, <1>2, <1>3, <1>4, <1>5, <1>6 DEF TypeOK

LEMMA SoundExecute ==
  ASSUME TypeOK, PoolInv, WorkFits, NEW t \in Threads, Execute(t)
  PROVE  TypeOK' /\ PoolInv' /\ WorkFits'
<1> DEFINE c == work[t][1]
<1>1. c \in Copies /\ Head(work[t]) = c
  BY WorkExecuted
<1>2. c.kind \in Kinds /\ c.from \in Arrays /\ c.to \in Arrays
  BY <1>1 DEF Copies
<1>3. c.kind # "move" => c.slot \in 1 .. Len(bytes)
  BY WorkExecuted
<1> HIDE DEF c
<1>4. /\ array' \in [Arrays -> Nat]
      /\ bytes' \in Seq(Nat) /\ Len(bytes') = Len(bytes)
  <2>1. /\ array \in [Arrays -> Nat] /\ bytes \in Seq(Nat)
        /\ \A i \in 1 .. Len(bytes) : bytes[i] \in Nat
    BY DEF TypeOK
  <2>2. CASE /\ c.kind = "put" /\ bytes' = bytes
             /\ array' = [array EXCEPT ![c.to] = bytes[c.slot]]
    <3>1. bytes[c.slot] \in Nat
      BY <1>3, <2>1, <2>2
    <3>2. QED
      BY <1>2, <2>1, <2>2, <3>1
  <2>3. CASE /\ c.kind = "move" /\ bytes' = bytes
             /\ array' = [array EXCEPT ![c.to] = array[c.from]]
    BY <1>2, <2>1, <2>3
  <2>4. CASE /\ c.kind = "fetch" /\ array' = array
             /\ bytes' = [bytes EXCEPT ![c.slot] = array[c.from]]
    <3>1. array[c.from] \in Nat /\ c.slot \in 1 .. Len(bytes)
      BY <1>2, <1>3, <2>1, <2>4
    <3>2. QED
      BY <2>1, <2>4, <3>1
  <2>5. QED
    BY <1>1, <2>2, <2>3, <2>4 DEF Execute
<1>5. Len(bytes') = Len(bytes)
  BY <1>4
<1>6. work' \in [Threads -> Seq(Copies)] /\ handed' \in [Threads -> Nat]
  BY WorkExecuted
<1>7. UNCHANGED <<pool, callVars, fault>>
  BY DEF Execute
<1>8. TypeOK'
  BY <1>4, <1>6, <1>7 DEF TypeOK, callVars
<1>9. PoolInv'
  BY <1>7 DEF callVars, PoolInv, InPool, GrowAlone, PoolSound, Holding, Defined
<1>10. WorkFits'
  <2>1. SUFFICES ASSUME NEW u \in Threads
                 PROVE  /\ handed'[u] <= Len(work'[u])
                        /\ \A i \in Staged(u)' :
                             work'[u][i].slot \in 1 .. Len(bytes')
    BY DEF WorkFits
  <2>2. CASE u = t
    <3>1. handed[t] <= Len(work[t]) /\ Len(work[t]) \in Nat /\ handed[t] \in Nat
      BY DEF WorkFits, TypeOK
    <3>2. handed'[t] = handed[t] - 1 /\ Len(work'[t]) = Len(work[t]) - 1
      BY WorkExecuted
    <3>3. \A i \in 1 .. Len(work[t]) - 1 : work'[t][i] = work[t][i + 1]
      BY WorkExecuted
    <3>4. \A i \in 1 .. Len(work[t]) :
            work[t][i].kind # "move" => work[t][i].slot \in 1 .. Len(bytes)
      BY DEF WorkFits, Staged
    <3>5. \A i \in 1 .. Len(work[t]) - 1 : i + 1 \in 1 .. Len(work[t])
      BY <3>1
    <3>6. \A i \in Staged(t)' :
            i + 1 \in 1 .. Len(work[t]) /\ work'[t][i] = work[t][i + 1]
                                     /\ work[t][i + 1].kind # "move"
      BY <3>2, <3>3, <3>5 DEF Staged
    <3>7. QED
      BY <1>5, <2>2, <3>1, <3>2, <3>4, <3>6, SMTT(30)
  <2>3. CASE u # t
    <3>1. handed'[u] = handed[u] /\ work'[u] = work[u]
      BY <2>3, WorkExecuted
    <3>2. QED
      BY <1>5, <3>1 DEF WorkFits, Staged
  <2>4. QED
    BY <2>2, <2>3
<1>11. QED
  BY <1>8, <1>9, <1>10

SoundInv == TypeOK /\ PoolInv /\ WorkFits

LEMMA SoundCallStep ==
  ASSUME SoundInv, NEW t \in Threads, CallStep(t)
  PROVE  SoundInv'
<1>1. TypeOK' /\ PoolInv'
  BY SoundProbe, SoundGrow, SoundPrepare, SoundHolding, SoundUnlock
     DEF SoundInv, CallStep
<1>2. WorkFits'
  <2>1. CASE Record(t)
    <3>1. iter[t] \in 1 .. Len(pool) /\ Len(bytes) = Len(pool)
      BY <2>1 DEF SoundInv, TypeOK, PoolInv, InPool, Record
    <3>2. Copy(job[t].kind, job[t].array, job[t].array, job[t].val, iter[t])
            \in Copies
      BY <3>1 DEF SoundInv, TypeOK, Copy, Copies, Jobs, Kinds
    <3>3. QED
      BY <2>1, <3>1, <3>2, WorkAppended DEF Record, SoundInv, Copy
  <2>2. CASE Grow(t)
    <3>1. Len(bytes) <= Len(bytes')
      BY <2>2 DEF SoundInv, TypeOK, Grow
    <3>2. QED
      BY <1>1, <2>2, <3>1, WorkKept DEF SoundInv, Grow
  <2>3. CASE Fill(t)
    <3>1. Len(bytes) <= Len(bytes')
      BY <2>3 DEF SoundInv, TypeOK, Fill, Filled
    <3>2. QED
      BY <1>1, <2>3, <3>1, WorkKept DEF SoundInv, Fill
  <2>4. CASE Probe(t) \/ Prepare(t) \/ Wait(t) \/ Read(t) \/ Unlock(t)
    <3>1. UNCHANGED <<bytes, work, handed>>
      BY <2>4 DEF Probe, Prepare, Wait, Read, Unlock
    <3>2. QED
      BY <3>1 DEF SoundInv, WorkFits, Staged
  <2>5. QED
    BY <2>1, <2>2, <2>3, <2>4 DEF CallStep
<1>3. QED
  BY <1>1, <1>2 DEF SoundInv

LEMMA SoundMove ==
  ASSUME SoundInv, NEW t \in Threads, NEW a \in Arrays, NEW b \in Arrays,
         Move(t, a, b)
  PROVE  SoundInv'
<1>1. Copy("move", a, b, 0, 0) \in Copies /\ Copy("move", a, b, 0, 0).kind = "move"
  BY MaxCopiesAssumption DEF Copy, Copies, Kinds
<1>2. WorkFits' /\ work' \in [Threads -> Seq(Copies)]
  BY <1>1, WorkAppended DEF Move, SoundInv
<1>3. TypeOK'
  BY <1>2, MaxCopiesAssumption DEF Move, SoundInv, TypeOK
<1>4. PoolInv'
  BY DEF Move, SoundInv, PoolInv, InPool, GrowAlone, PoolSound, Holding, Defined
<1>5. QED
  BY <1>2, <1>3, <1>4 DEF SoundInv

LEMMA SoundSubmit ==
  ASSUME SoundInv, NEW t \in Threads, Submit(t)
  PROVE  SoundInv'
<1>1. handed' \in [Threads -> Nat] /\ \A u \in Threads : handed'[u] <= Len(work[u])
  BY DEF Submit, SoundInv, TypeOK, WorkFits
<1> USE DEF Submit, callVars
<1>2. TypeOK'
  BY <1>1 DEF SoundInv, TypeOK
<1>3. PoolInv'
  BY DEF SoundInv, PoolInv, InPool, GrowAlone, PoolSound, Holding, Defined
<1>4. WorkFits'
  BY <1>1 DEF SoundInv, WorkFits, Staged
<1>5. QED
  BY <1>2, <1>3, <1>4 DEF SoundInv

LEMMA SoundInvariant == Spec => []SoundInv
<1>1. Init => SoundInv
  BY SoundInit DEF Init, SoundInv, WorkFits, Staged
<1>2. SoundInv /\ [Next]_vars => SoundInv'
  <2> SUFFICES ASSUME SoundInv, [Next]_vars
               PROVE  SoundInv'
    OBVIOUS
  <2>1. CASE UNCHANGED vars
    <3>1. UNCHANGED <<pool, bytes, pc, iter, job, result, called, array, work,
                      handed, fault>>
      BY <2>1 DEF vars, callVars
    <3>2. TypeOK'
      BY <3>1 DEF SoundInv, TypeOK
    <3>3. PoolInv'
      BY <3>1 DEF SoundInv, PoolInv, InPool, GrowAlone, PoolSound, Holding, Defined
    <3>4. WorkFits'
      BY <3>1 DEF SoundInv, WorkFits, Staged
    <3>5. QED
      BY <3>2, <3>3, <3>4 DEF SoundInv
  <2>2. ASSUME NEW t \in Threads, NEW kind \in {"put", "fetch"}, NEW a \in Arrays,
               NEW large \in BOOLEAN, Call(t, kind, a, large)
        PROVE  SoundInv'
    <3>1. UNCHANGED <<bytes, work, handed>>
      BY <2>2 DEF Call, SoundInv, TypeOK
    <3>2. WorkFits'
      BY <3>1 DEF SoundInv, WorkFits, Staged
    <3>3. QED
      BY <2>2, <3>2, SoundCall DEF SoundInv
  <2>3. QED
    BY <2>1, <2>2, SoundCallStep, SoundMove, SoundSubmit, SoundExecute
       DEF Next, SoundInv
<1>3. QED
  BY <1>1, <1>2, PTL DEF Spec

(* Whatever clients do, the variables have their types: no thread ever     *)
(* looks past the end of the pool.                                         *)
THEOREM StagingTypeCorrect == Spec => []TypeOK
<1>1. SoundInv => TypeOK
  BY DEF SoundInv
<1>2. QED
  BY <1>1, SoundInvariant, PTL

(* Whatever clients do, the pool keeps its limit and a staging buffer is   *)
(* locked by the one thread that uses it.                                  *)
THEOREM AnyClientPool == Spec => []PoolSound
<1>1. SoundInv => PoolSound
  BY DEF SoundInv, PoolInv, PoolSound
<1>2. QED
  BY <1>1, SoundInvariant, PTL

(***************************************************************************)
(* A disciplined client, whose chains are on one device.                   *)
(***************************************************************************)

LEMMA StagingInvInit == Init => StagingInv
  BY DEF Init, StagingInv, NoFault, Defined, OneCaller, Idle, OneDevice, Room,
         Arriving, PutsFirst, WorkFits, Staged, DataStays

(* While a thread is inside a call the others are idle. *)
LEMMA Alone ==
  ASSUME OneCaller, NEW t \in Threads, ~Idle(t), TypeOK
  PROVE  \A u \in Threads \ {t} : pc[u] = "idle"
  BY DEF OneCaller, Idle

LEMMA DisciplinedCall ==
  ASSUME SoundInv, SoundInv', StagingInv, Liberties = {}, NEW t \in Threads,
         NEW kind \in {"put", "fetch"}, NEW a \in Arrays, NEW large \in BOOLEAN,
         Call(t, kind, a, large)
  PROVE  StagingInv'
<1>1. /\ ~large /\ \A u \in Threads : pc[u] = "idle"
      /\ \A u \in Threads : (kind = "fetch" /\ u = t) \/ Staged(u) = {}
  BY DEF Call, Permitted, Idle
<1>2. /\ pc' \in {[pc EXCEPT ![t] = "grow"], [pc EXCEPT ![t] = "probe"]}
      /\ job'[t].kind = kind /\ job'[t].large = large
  BY DEF Call, SoundInv, TypeOK
<1>3. UNCHANGED <<pool, bytes, work, handed>>
  BY DEF Call
<1>4. \A u \in Threads : u # t => pc'[u] = "idle"
  BY <1>1, <1>2 DEF SoundInv, TypeOK
<1>5. pc'[t] \in {"grow", "probe"}
  BY <1>2 DEF SoundInv, TypeOK
<1>6. NoFault'
  BY <1>1 DEF Call, RaceFault, StagingInv, NoFault, Defined
<1>7. OneCaller'
  BY <1>4 DEF OneCaller, Idle
<1>8. Room'
  BY <1>1, <1>2, <1>3, <1>4, <1>5 DEF Room, Arriving, Staged
<1>9. (OneDevice /\ PutsFirst /\ DataStays)'
  BY <1>3 DEF StagingInv, OneDevice, PutsFirst, DataStays
<1>10. QED
  BY <1>6, <1>7, <1>8, <1>9 DEF StagingInv, SoundInv

LEMMA DisciplinedProbe ==
  ASSUME SoundInv, SoundInv', StagingInv, NEW t \in Threads, Probe(t)
  PROVE  StagingInv'
<1>1. \A u \in Threads \ {t} : pc[u] = "idle"
  BY Alone DEF StagingInv, SoundInv, Idle, Probe
<1>2. pc[t] = "probe" /\ iter[t] \in 1 .. Len(pool)
  BY DEF Probe, SoundInv, PoolInv, InPool
<1>3. UNCHANGED <<bytes, job, work, handed>>
  BY DEF Probe
<1>4. /\ \A u \in Threads \ {t} : pc'[u] = "idle"
      /\ pc'[t] \in {"fill", "record", "probe", "grow"}
      /\ pc'[t] = "fill" => job[t].kind = "put"
      /\ pc'[t] = "record" => job[t].kind # "put"
  BY <1>1, <1>2 DEF Probe, SoundInv, TypeOK
<1>5. NoFault'
  BY <1>1, <1>2 DEF Probe, Ready, RaceFault, StagingInv, NoFault, Defined
<1>6. OneCaller'
  BY <1>4 DEF OneCaller, Idle
<1>7. OneDevice'
  <2>1. pool \in Seq(Buffers) /\ t \in Threads \union {NoThread}
    BY DEF SoundInv, TypeOK
  <2>2. pool' = pool \/ pool' = [pool EXCEPT ![iter[t]].holder = t]
    BY DEF Probe
  <2>3. /\ Len(pool') = Len(pool)
        /\ \A s \in 1 .. Len(pool) : pool'[s].device = pool[s].device
    <3>1. CASE pool' = [pool EXCEPT ![iter[t]].holder = t]
      BY <1>2, <2>1, <3>1, Relocked
    <3>2. QED
      BY <2>2, <3>1
  <2>4. QED
    BY <2>3 DEF StagingInv, OneDevice
<1>8. Room'
  <2>1. Arriving(t)
    BY <1>2 DEF Arriving
  <2>2. QED
    BY <1>3, <1>4, <2>1 DEF StagingInv, Room, Arriving, Staged
<1>9. (PutsFirst /\ DataStays)'
  BY <1>3 DEF StagingInv, PutsFirst, DataStays
<1>10. QED
  BY <1>5, <1>6, <1>7, <1>8, <1>9 DEF StagingInv, SoundInv

LEMMA DisciplinedGrow ==
  ASSUME SoundInv, SoundInv', StagingInv, Second = {}, NEW t \in Threads, Grow(t)
  PROVE  StagingInv'
<1>1. \A u \in Threads \ {t} : pc[u] = "idle"
  BY Alone DEF StagingInv, SoundInv, Idle, Grow
<1>2. /\ \A u \in Threads \ {t} : pc'[u] = "idle"
      /\ pc'[t] = "prepare" /\ pc[t] = "grow"
  BY <1>1 DEF Grow, SoundInv, TypeOK
<1>3. UNCHANGED <<job, work, handed>>
  BY DEF Grow
<1>4. bytes \in Seq(Nat) /\ bytes' = Append(bytes, 0)
  BY DEF Grow, SoundInv, TypeOK
<1>5. \A i \in 1 .. Len(bytes) : bytes'[i] = bytes[i]
  BY <1>4
<1>6. NoFault' /\ OneCaller'
  BY <1>1, <1>2 DEF Grow, RaceFault, StagingInv, NoFault, Defined, OneCaller, Idle
<1>7. OneDevice'
  <2>1. Device(t) = 1
    BY DEF Device
  <2>2. pool \in Seq(Buffers) /\ [holder |-> NoThread, device |-> 1] \in Buffers
    BY DEF SoundInv, TypeOK, Buffers
  <2>3. pool' = Append(pool, [holder |-> NoThread, device |-> 1])
    BY <2>1 DEF Grow
  <2>4. /\ Len(pool') = Len(pool) + 1
        /\ \A s \in 1 .. Len(pool) : pool'[s] = pool[s]
        /\ pool'[Len(pool) + 1].device = 1
    BY <2>2, <2>3
  <2>5. QED
    BY <2>2, <2>4 DEF StagingInv, OneDevice
<1>8. Room'
  <2>1. Arriving(t)
    BY <1>2 DEF Arriving
  <2>2. QED
    BY <1>2, <1>3, <2>1 DEF StagingInv, Room, Arriving, Staged
<1>9. PutsFirst'
  BY <1>3 DEF StagingInv, PutsFirst
<1>10. DataStays'
  <2>1. \A u \in Threads : \A i \in 1 .. Len(work[u]) :
          work[u][i].kind = "put" => work[u][i].slot \in 1 .. Len(bytes)
    BY DEF SoundInv, WorkFits, Staged
  <2>2. QED
    BY <1>3, <1>5, <2>1 DEF StagingInv, DataStays
<1>11. QED
  BY <1>6, <1>7, <1>8, <1>9, <1>10 DEF StagingInv, SoundInv

(* The steps of a call that record nothing and fill nothing. *)
LEMMA DisciplinedPassing ==
  ASSUME SoundInv, SoundInv', StagingInv, NEW t \in Threads,
         Prepare(t) \/ Wait(t) \/ Read(t) \/ Unlock(t)
  PROVE  StagingInv'
<1>1. ~Idle(t)
  BY DEF Idle, Prepare, Wait, Read, Unlock
<1>2. \A u \in Threads \ {t} : pc[u] = "idle"
  BY <1>1, Alone DEF StagingInv, SoundInv
<1>3. UNCHANGED <<bytes, job, work, handed, fault, iter>>
  BY DEF Prepare, Wait, Read, Unlock
<1>4. /\ \A u \in Threads \ {t} : pc'[u] = "idle"
      /\ pc'[t] \in {"probe", "read", "unlock", "idle"}
      /\ pc'[t] = "probe" => pc[t] = "prepare"
  BY <1>2 DEF Prepare, Wait, Read, Unlock, SoundInv, TypeOK
<1>5. NoFault' /\ OneCaller'
  BY <1>3, <1>4 DEF StagingInv, NoFault, Defined, OneCaller, Idle
<1>6. OneDevice'
  <2>1. CASE Unlock(t)
    <3>1. /\ pool \in Seq(Buffers) /\ iter[t] \in 1 .. Len(pool)
          /\ pool' = [pool EXCEPT ![iter[t]].holder = NoThread]
      BY <2>1 DEF SoundInv, TypeOK, PoolInv, InPool, Unlock, Unlocked
    <3>2. /\ Len(pool') = Len(pool)
          /\ \A s \in 1 .. Len(pool) : pool'[s].device = pool[s].device
      BY <3>1, Relocked
    <3>3. QED
      BY <3>2 DEF StagingInv, OneDevice
  <2>2. CASE ~Unlock(t)
    BY <2>2 DEF Prepare, Wait, Read, StagingInv, OneDevice
  <2>3. QED
    BY <2>1, <2>2
<1>7. Room'
  <2>1. \A u \in Threads : Arriving(u)' => u = t /\ pc'[t] = "probe" /\ Arriving(t)
    BY <1>4 DEF Arriving
  <2>2. QED
    BY <1>3, <2>1 DEF StagingInv, Room, Staged
<1>8. (PutsFirst /\ DataStays)'
  BY <1>3 DEF StagingInv, PutsFirst, DataStays
<1>9. QED
  BY <1>5, <1>6, <1>7, <1>8 DEF StagingInv, SoundInv

LEMMA DisciplinedFill ==
  ASSUME SoundInv, SoundInv', StagingInv, NEW t \in Threads, Fill(t)
  PROVE  StagingInv'
<1>1. \A u \in Threads \ {t} : pc[u] = "idle"
  BY Alone DEF StagingInv, SoundInv, Idle, Fill
<1>2. UNCHANGED <<pool, job, work, handed, fault, iter>>
  BY DEF Fill
<1>3. pc'[t] = "record" /\ \A u \in Threads \ {t} : pc'[u] = "idle"
  BY <1>1 DEF Fill, SoundInv, TypeOK
<1>4. Arriving(t) /\ job[t].kind = "put" /\ ~job[t].large
  BY DEF Fill, StagingInv, Room, Arriving
<1>5. \A u \in Threads : Staged(u) = {}
  BY <1>4 DEF StagingInv, Room
<1>6. bytes'[iter[t]] = job[t].val
  BY DEF Fill, Filled, SoundInv, TypeOK, PoolInv, InPool
<1>7. NoFault' /\ OneCaller' /\ OneDevice'
  BY <1>2, <1>3 DEF StagingInv, NoFault, Defined, OneCaller, Idle, OneDevice
<1>8. Room'
  <2>1. \A u \in Threads : Staged(u)' = {}
    BY <1>2, <1>5 DEF Staged
  <2>2. QED
    BY <1>2, <1>3, <1>4, <1>6, <2>1 DEF Room, Arriving
<1>9. PutsFirst'
  BY <1>2 DEF StagingInv, PutsFirst
<1>10. DataStays'
  BY <1>2, <1>5 DEF DataStays, Staged
<1>11. QED
  BY <1>7, <1>8, <1>9, <1>10 DEF StagingInv, SoundInv

LEMMA DisciplinedRecord ==
  ASSUME SoundInv, SoundInv', StagingInv, Second = {}, NEW t \in Threads, Record(t)
  PROVE  StagingInv'
<1>1. \A u \in Threads \ {t} : pc[u] = "idle"
  BY Alone DEF StagingInv, SoundInv, Idle, Record
<1>2. UNCHANGED <<pool, bytes, job, handed, iter>>
  BY DEF Record
<1>3. /\ pc'[t] \in {"unlock", "wait"}
      /\ \A u \in Threads \ {t} : pc'[u] = "idle"
  BY <1>1 DEF Record, SoundInv, TypeOK
<1>4. /\ ~job[t].large
      /\ \A u \in Threads : Staged(u) = {} \/ (u = t /\ job[t].kind = "fetch")
      /\ job[t].kind = "put" => bytes[iter[t]] = job[t].val
  BY DEF Record, StagingInv, Room, Arriving
<1> DEFINE c == Copy(job[t].kind, job[t].array, job[t].array, job[t].val, iter[t])
<1>5. c.kind = job[t].kind /\ c.slot = iter[t] /\ c.val = job[t].val
  BY DEF Copy
<1>6. job[t].kind \in {"put", "fetch"} /\ c \in Copies
  BY SMTT(30) DEF Copy, Copies, Kinds, SoundInv, TypeOK, Jobs
<1>7. work' = [work EXCEPT ![t] = Append(@, c)]
  BY DEF Record
<1> HIDE DEF c
<1>8. /\ Len(work'[t]) = Len(work[t]) + 1 /\ Len(work[t]) \in Nat
      /\ work'[t][Len(work[t]) + 1] = c
      /\ \A i \in 1 .. Len(work[t]) : work'[t][i] = work[t][i]
      /\ \A u \in Threads \ {t} : work'[u] = work[u]
  BY <1>6, <1>7 DEF SoundInv, TypeOK
<1>9. NoFault'
  <2>1. pool[iter[t]].device = 1 /\ Device(t) = 1
    BY DEF Record, StagingInv, OneDevice, Device, SoundInv, PoolInv, InPool
  <2>2. QED
    BY <1>4, <2>1 DEF Record, StagingInv, NoFault, Defined
<1>10. OneCaller' /\ OneDevice'
  BY <1>2, <1>3 DEF StagingInv, OneCaller, Idle, OneDevice
<1>11. Room'
  BY <1>3 DEF Room, Arriving
<1>12. PutsFirst'
  <2>1. SUFFICES ASSUME NEW u \in Threads, NEW v \in Threads,
                        NEW i \in 1 .. Len(work'[u]), NEW j \in 1 .. Len(work'[v]),
                        work'[u][i].kind = "put", work'[v][j].kind = "fetch"
                 PROVE  v = u /\ i < j
    BY DEF PutsFirst
  <2>2. CASE c.kind = "put"
    <3>1. \A w \in Threads : \A k \in 1 .. Len(work[w]) : work[w][k].kind = "move"
      BY <1>4, <1>5, <2>2 DEF Staged
    <3>2. \A w \in Threads : \A k \in 1 .. Len(work'[w]) :
            work'[w][k].kind \in {"put", "move"}
      BY <1>8, <2>2, <3>1
    <3>3. QED
      BY <2>1, <3>2
  <2>3. CASE c.kind = "fetch"
    <3>1. \A w \in Threads \ {t} : \A k \in 1 .. Len(work[w]) : work[w][k].kind = "move"
      BY <1>4 DEF Staged
    <3>2. u = t /\ v = t
      BY <1>8, <2>1, <3>1
    <3>3. i \in 1 .. Len(work[t]) /\ work[t][i].kind = "put"
      BY <1>8, <2>1, <2>3, <3>2, SMTT(30)
    <3>4. CASE j = Len(work[t]) + 1
      BY <3>2, <3>3, <3>4
    <3>5. CASE j \in 1 .. Len(work[t])
      BY <1>8, <2>1, <3>2, <3>3, <3>5 DEF StagingInv, PutsFirst
    <3>6. QED
      BY <1>8, <3>2, <3>4, <3>5
  <2>4. QED
    BY <1>5, <1>6, <2>2, <2>3
<1>13. DataStays'
  <2>1. SUFFICES ASSUME NEW u \in Threads, NEW i \in 1 .. Len(work'[u]),
                        work'[u][i].kind = "put"
                 PROVE  bytes[work'[u][i].slot] = work'[u][i].val
    BY <1>2 DEF DataStays
  <2>2. CASE u = t /\ i = Len(work[t]) + 1
    BY <1>4, <1>5, <1>8, <2>1, <2>2
  <2>3. CASE i \in 1 .. Len(work[u]) /\ work'[u][i] = work[u][i]
    BY <2>1, <2>3 DEF StagingInv, DataStays
  <2>4. QED
    BY <1>8, <2>2, <2>3
<1>14. QED
  BY <1>9, <1>10, <1>11, <1>12, <1>13 DEF StagingInv, SoundInv

LEMMA DisciplinedMove ==
  ASSUME SoundInv, SoundInv', StagingInv, NEW t \in Threads, NEW a \in Arrays,
         NEW b \in Arrays, Move(t, a, b)
  PROVE  StagingInv'
<1> DEFINE c == Copy("move", a, b, 0, 0)
<1>1. c \in Copies /\ c.kind = "move"
  BY MaxCopiesAssumption DEF Copy, Copies, Kinds
<1>2. work' = [work EXCEPT ![t] = Append(@, c)]
  BY DEF Move
<1> HIDE DEF c
<1>3. /\ Len(work'[t]) = Len(work[t]) + 1 /\ Len(work[t]) \in Nat
      /\ work'[t][Len(work[t]) + 1] = c
      /\ \A i \in 1 .. Len(work[t]) : work'[t][i] = work[t][i]
      /\ \A u \in Threads \ {t} : work'[u] = work[u]
  BY <1>1, <1>2, SMTT(30) DEF SoundInv, TypeOK
<1>4. \A u \in Threads : \A i \in 1 .. Len(work'[u]) :
        \/ i \in 1 .. Len(work[u]) /\ work'[u][i] = work[u][i]
        \/ work'[u][i].kind = "move"
  BY <1>1, <1>3
<1>5. UNCHANGED <<pool, bytes, pc, iter, job, fault>>
  BY DEF Move
<1>6. NoFault' /\ OneCaller' /\ OneDevice'
  BY <1>5 DEF StagingInv, NoFault, Defined, OneCaller, Idle, OneDevice
<1>7. Room'
  <2>1. \A u \in Threads : Staged(u)' \subseteq Staged(u)
    BY <1>4 DEF Staged
  <2>2. QED
    BY <1>5, <2>1 DEF StagingInv, Room, Arriving
<1>8. PutsFirst'
  <2>1. SUFFICES ASSUME NEW u \in Threads, NEW v \in Threads,
                        NEW i \in 1 .. Len(work'[u]), NEW j \in 1 .. Len(work'[v]),
                        work'[u][i].kind = "put", work'[v][j].kind = "fetch"
                 PROVE  v = u /\ i < j
    BY DEF PutsFirst
  <2>2. i \in 1 .. Len(work[u]) /\ work'[u][i] = work[u][i]
    BY <1>4, <2>1
  <2>3. j \in 1 .. Len(work[v]) /\ work'[v][j] = work[v][j]
    BY <1>4, <2>1
  <2>4. QED
    BY <2>1, <2>2, <2>3 DEF StagingInv, PutsFirst
<1>9. DataStays'
  BY <1>4, <1>5 DEF StagingInv, DataStays
<1>10. QED
  BY <1>6, <1>7, <1>8, <1>9 DEF StagingInv, SoundInv

LEMMA DisciplinedSubmit ==
  ASSUME SoundInv, SoundInv', StagingInv, NEW t \in Threads, Submit(t)
  PROVE  StagingInv'
  BY DEF Submit, callVars, StagingInv, SoundInv, NoFault, Defined, OneCaller,
         Idle, OneDevice, Room, Arriving, Staged, PutsFirst, DataStays

LEMMA DisciplinedExecute ==
  ASSUME SoundInv, SoundInv', StagingInv, NEW t \in Threads, Execute(t)
  PROVE  StagingInv'
<1>1. /\ work[t] # <<>> /\ Head(work[t]) = work[t][1]
      /\ work[t][1] \in Copies
      /\ Len(work'[t]) = Len(work[t]) - 1
      /\ \A i \in 1 .. Len(work[t]) - 1 : work'[t][i] = work[t][i + 1]
      /\ \A u \in Threads \ {t} : work'[u] = work[u]
  BY WorkExecuted DEF SoundInv
<1>2. \A u \in Threads : Len(work[u]) \in Nat
  BY DEF SoundInv, TypeOK
<1>3. 1 \in 1 .. Len(work[t])
  BY <1>1, <1>2 DEF SoundInv, TypeOK
<1>4. \A u \in Threads : \A i \in 1 .. Len(work'[u]) :
        \E k \in 1 .. Len(work[u]) :
          work'[u][i] = work[u][k] /\ k = (IF u = t THEN i + 1 ELSE i)
  BY <1>1, <1>2
<1>5. UNCHANGED <<pool, pc, iter, job, fault>>
  BY DEF Execute, callVars
<1>6. NoFault' /\ OneCaller' /\ OneDevice'
  BY <1>5 DEF StagingInv, NoFault, Defined, OneCaller, Idle, OneDevice
<1>7. (Room /\ DataStays)'
  <2>1. CASE work[t][1].kind # "fetch"
    <3>1. bytes' = bytes
      BY <1>1, <2>1 DEF Execute
    <3>2. Room'
      <4>1. \A u \in Threads : Staged(u) = {} => Staged(u)' = {}
        BY <1>4, SMTT(30) DEF Staged
      <4>2. QED
        BY <1>5, <3>1, <4>1 DEF StagingInv, Room, Arriving
    <3>3. DataStays'
      BY <1>4, <3>1 DEF StagingInv, DataStays
    <3>4. QED
      BY <3>2, <3>3
  <2>2. CASE work[t][1].kind = "fetch"
    <3>1. \A u \in Threads : \A i \in 1 .. Len(work[u]) : work[u][i].kind # "put"
      BY <1>2, <1>3, <2>2 DEF StagingInv, PutsFirst
    <3>2. DataStays'
      BY <1>4, <3>1 DEF DataStays
    <3>3. Staged(t) # {}
      BY <1>3, <2>2 DEF Staged
    <3>4. Room'
      <4>1. \A u \in Threads : Staged(u) = {} => Staged(u)' = {}
        BY <1>4, SMTT(30) DEF Staged
      <4>2. \A u \in Threads : Arriving(u) => job[u].kind = "fetch"
        BY <3>3 DEF StagingInv, Room
      <4>3. QED
        BY <1>5, <4>1, <4>2 DEF StagingInv, Room, Arriving
    <3>5. QED
      BY <3>2, <3>4
  <2>3. QED
    BY <2>1, <2>2
<1>8. PutsFirst'
  <2>1. SUFFICES ASSUME NEW u \in Threads, NEW v \in Threads,
                        NEW i \in 1 .. Len(work'[u]), NEW j \in 1 .. Len(work'[v]),
                        work'[u][i].kind = "put", work'[v][j].kind = "fetch"
                 PROVE  v = u /\ i < j
    BY DEF PutsFirst
  <2>2. PICK k \in 1 .. Len(work[u]) :
          work'[u][i] = work[u][k] /\ k = (IF u = t THEN i + 1 ELSE i)
    BY <1>4
  <2>3. PICK l \in 1 .. Len(work[v]) :
          work'[v][j] = work[v][l] /\ l = (IF v = t THEN j + 1 ELSE j)
    BY <1>4
  <2>4. v = u /\ k < l
    BY <2>1, <2>2, <2>3 DEF StagingInv, PutsFirst
  <2>5. QED
    BY <2>2, <2>3, <2>4
<1>9. QED
  BY <1>6, <1>7, <1>8 DEF StagingInv, SoundInv

(* With that discipline no staging buffer is overrun, used before it has   *)
(* memory, or handed out while a copy from the host is pending in it.      *)
THEOREM DisciplinedStaging ==
  ASSUME Liberties = {}, Second = {}
  PROVE  Spec => []StagingInv
<1>1. SoundInv /\ SoundInv' /\ StagingInv /\ [Next]_vars => StagingInv'
  <2> SUFFICES ASSUME SoundInv, SoundInv', StagingInv, [Next]_vars
               PROVE  StagingInv'
    OBVIOUS
  <2>1. CASE UNCHANGED vars
    BY <2>1 DEF vars, callVars, StagingInv, SoundInv, NoFault, Defined, OneCaller,
                Idle, OneDevice, Room, Arriving, Staged, PutsFirst, DataStays
  <2>2. CASE Next
    BY <2>2, DisciplinedCall, DisciplinedProbe, DisciplinedGrow,
       DisciplinedPassing, DisciplinedFill, DisciplinedRecord, DisciplinedMove,
       DisciplinedSubmit, DisciplinedExecute DEF Next, CallStep
  <2>3. QED
    BY <2>1, <2>2
<1>2. QED
  BY <1>1, StagingInvInit, SoundInvariant, PTL DEF Spec

(* When one thread at a time copies, and submits and synchronizes before   *)
(* the next copy from the host, a staging buffer keeps the data of every   *)
(* copy until the device has executed it.                                  *)
THEOREM DisciplinedDataStays ==
  ASSUME Liberties = {}, Second = {}
  PROVE  Spec => []DataStays
<1>1. StagingInv => DataStays
  BY DEF StagingInv
<1>2. QED
  BY <1>1, DisciplinedStaging, PTL

(***************************************************************************)
(* The staging pool implements DeferredCopies.                             *)
(***************************************************************************)

LEMMA PlainCopy == \A c \in Copies : Plain(c) \in Deferred!Copies
  BY DEF Copies, Kinds, Plain, Deferred!Copies

LEMMA PlainSeqs ==
  ASSUME NEW s \in Seq(Copies)
  PROVE  /\ PlainSeq(s) \in Seq(Deferred!Copies)
         /\ Len(PlainSeq(s)) = Len(s)
         /\ \A i \in 1 .. Len(s) : PlainSeq(s)[i] = Plain(s[i])
<1>1. \A i \in 1 .. Len(s) : s[i] \in Copies
  OBVIOUS
<1>2. QED
  BY <1>1, PlainCopy DEF PlainSeq

LEMMA PlainAppend ==
  ASSUME NEW s \in Seq(Copies), NEW c \in Copies
  PROVE  PlainSeq(Append(s, c)) = Append(PlainSeq(s), Plain(c))
<1> DEFINE l == PlainSeq(Append(s, c))
           r == Append(PlainSeq(s), Plain(c))
<1>0. Append(s, c) \in Seq(Copies) /\ Len(Append(s, c)) = Len(s) + 1
  OBVIOUS
<1>1. l \in Seq(Deferred!Copies) /\ Len(l) = Len(s) + 1
  BY <1>0, PlainSeqs
<1>2. r \in Seq(Deferred!Copies) /\ Len(r) = Len(s) + 1
  BY PlainSeqs, PlainCopy
<1>3. \A i \in 1 .. Len(s) + 1 : l[i] = r[i]
  BY PlainSeqs DEF PlainSeq
<1>4. QED
  BY <1>1, <1>2, <1>3, SeqEqual

LEMMA PlainTail ==
  ASSUME NEW s \in Seq(Copies), s # <<>>
  PROVE  PlainSeq(Tail(s)) = Tail(PlainSeq(s)) /\ Head(PlainSeq(s)) = Plain(s[1])
<1> DEFINE l == PlainSeq(Tail(s))
           r == Tail(PlainSeq(s))
<1>0. Tail(s) \in Seq(Copies) /\ Len(Tail(s)) = Len(s) - 1
  OBVIOUS
<1>1. l \in Seq(Deferred!Copies) /\ Len(l) = Len(s) - 1
  BY <1>0, PlainSeqs
<1>2. r \in Seq(Deferred!Copies) /\ Len(r) = Len(s) - 1
  BY PlainSeqs
<1>3. \A i \in 1 .. Len(s) - 1 : l[i] = r[i]
  BY PlainSeqs DEF PlainSeq
<1>4. QED
  BY <1>1, <1>2, <1>3, PlainSeqs, SeqEqual

(* A call that records one more copy. *)
LEMMA RecordsDeferred ==
  ASSUME SoundInv, NEW t \in Threads, NEW c \in Copies,
         work' = [work EXCEPT ![t] = Append(@, c)], UNCHANGED <<array, handed>>
  PROVE  Deferred!Record(t)
<1>1. \A u \in Threads : work[u] \in Seq(Copies)
  BY DEF SoundInv, TypeOK
<1>2. PlainWork' = [PlainWork EXCEPT ![t] = Append(@, Plain(c))]
  BY <1>1, PlainAppend DEF PlainWork, SoundInv, TypeOK
<1>3. QED
  BY <1>2, PlainCopy DEF Deferred!Record

LEMMA ExecutesDeferred ==
  ASSUME SoundInv, StagingInv, NEW t \in Threads, Execute(t)
  PROVE  Deferred!Execute(t)
<1>1. /\ work[t] # <<>> /\ Head(work[t]) = work[t][1] /\ 1 \in 1 .. Len(work[t])
      /\ work[t] \in Seq(Copies)
  BY WorkExecuted DEF SoundInv, TypeOK
<1> DEFINE c == work[t][1]
<1>2. Head(PlainWork[t]) = Plain(c)
  BY <1>1, PlainTail DEF PlainWork
<1>3. PlainWork' = [PlainWork EXCEPT ![t] = Tail(@)]
  BY <1>1, PlainTail DEF PlainWork, Execute, SoundInv, TypeOK
<1>4. handed[t] > 0 /\ handed' = [handed EXCEPT ![t] = @ - 1]
  BY DEF Execute
<1>5. c.kind = "put" => bytes[c.slot] = c.val
  BY <1>1 DEF StagingInv, DataStays
<1>6. /\ Plain(c).kind = c.kind /\ Plain(c).from = c.from
      /\ Plain(c).to = c.to /\ Plain(c).val = c.val
  BY DEF Plain
<1>7. \/ c.kind = "put" /\ array' = [array EXCEPT ![c.to] = bytes[c.slot]]
      \/ c.kind = "move" /\ array' = [array EXCEPT ![c.to] = array[c.from]]
      \/ c.kind = "fetch" /\ array' = array
  BY <1>1 DEF Execute
<1> HIDE DEF c
<1>8. QED
  BY <1>2, <1>3, <1>4, <1>5, <1>6, <1>7 DEF Deferred!Execute

(* A disciplined client's copies do what copies promise: each copy from    *)
(* the host brings the data the host had when it was called, in the order  *)
(* the chain recorded it.                                                  *)
THEOREM CopiesAreDeferred ==
  ASSUME Liberties = {}, Second = {}
  PROVE  Spec => IsDeferred
<1>1. Init => Deferred!Init
  BY DEF Init, Deferred!Init, PlainWork, PlainSeq
<1>2. SoundInv /\ StagingInv /\ [Next]_vars => [Deferred!Next]_(Deferred!vars)
  <2> SUFFICES ASSUME SoundInv, StagingInv, [Next]_vars
               PROVE  Deferred!Next \/ UNCHANGED Deferred!vars
    OBVIOUS
  <2>1. CASE UNCHANGED <<array, work, handed>>
    BY <2>1 DEF Deferred!vars, PlainWork
  <2>2. ASSUME NEW t \in Threads, Record(t)
        PROVE  Deferred!Record(t)
    <3>1. Copy(job[t].kind, job[t].array, job[t].array, job[t].val, iter[t])
            \in Copies
      BY DEF SoundInv, TypeOK, Copy, Copies, Jobs, Kinds
    <3>2. QED
      BY <2>2, <3>1, RecordsDeferred DEF Record
  <2>3. ASSUME NEW t \in Threads, NEW a \in Arrays, NEW b \in Arrays, Move(t, a, b)
        PROVE  Deferred!Record(t)
    <3>1. Copy("move", a, b, 0, 0) \in Copies
      BY MaxCopiesAssumption DEF Copy, Copies, Kinds
    <3>2. QED
      BY <2>3, <3>1, RecordsDeferred DEF Move
  <2>4. ASSUME NEW t \in Threads, Submit(t)
        PROVE  Deferred!Submit(t)
    <3>1. Len(PlainWork[t]) = Len(work[t])
      BY PlainSeqs DEF PlainWork, SoundInv, TypeOK
    <3>2. QED
      BY <2>4, <3>1 DEF Submit, Deferred!Submit, PlainWork
  <2>5. CASE \E t \in Threads : Record(t) \/ Submit(t) \/ Execute(t)
                              \/ \E a, b \in Arrays : Move(t, a, b)
    BY <2>2, <2>3, <2>4, <2>5, ExecutesDeferred DEF Deferred!Next
  <2>6. CASE UNCHANGED vars
    BY <2>1, <2>6 DEF vars
  <2>7. CASE \E t \in Threads :
               \/ \E kind \in {"put", "fetch"}, a \in Arrays, large \in BOOLEAN :
                    Call(t, kind, a, large)
               \/ Probe(t) \/ Grow(t) \/ Prepare(t) \/ Fill(t) \/ Wait(t)
               \/ Read(t) \/ Unlock(t)
    BY <2>1, <2>7 DEF Call, Probe, Grow, Prepare, Fill, Wait, Read, Unlock
  <2>8. QED
    BY <2>5, <2>6, <2>7 DEF Next, CallStep
<1>3. QED
  BY <1>1, <1>2, SoundInvariant, DisciplinedStaging, PTL
     DEF Spec, IsDeferred, Deferred!Safety

=============================================================================
