------------------------- MODULE CommandRingProofs -------------------------
(***************************************************************************)
(* Proofs about the command ring, for every number of buffers.             *)
(***************************************************************************)
EXTENDS CommandRing, SequenceTheorems, TLAPS

(***************************************************************************)
(* The ring's arithmetic.                                                  *)
(***************************************************************************)

(* advance() stays in the ring. *)
LEMMA SuccInRing == \A s \in Slots : Succ(s) \in Slots
  BY CountAssumption DEF Slots, Succ

(* Every buffer is some number of advances below Count ahead of another,   *)
(* and that number identifies it.                                          *)
LEMMA AheadBounds ==
  ASSUME NEW a \in Slots, NEW s \in Slots
  PROVE  /\ Ahead(a, s) \in 0 .. Count - 1
         /\ Ahead(a, a) = 0
  BY CountAssumption DEF Slots, Ahead

LEMMA AheadInjective ==
  ASSUME NEW a \in Slots, NEW s \in Slots, NEW t \in Slots,
         Ahead(a, s) = Ahead(a, t)
  PROVE  s = t
  BY CountAssumption DEF Slots, Ahead

(* One more advance is one further ahead, until the ring closes. *)
LEMMA AheadOfSucc ==
  ASSUME NEW a \in Slots, NEW s \in Slots, Ahead(a, s) + 1 < Count
  PROVE  Ahead(a, Succ(s)) = Ahead(a, s) + 1
  BY CountAssumption DEF Slots, Ahead, Succ

(***************************************************************************)
(* Types.                                                                  *)
(***************************************************************************)

(* The variables keep their types whatever liberties the client takes. *)
THEOREM TypeCorrect == Spec => []TypeOK
<1> USE CountAssumption, NumBuffersAssumption, HasPassAssumption
<1>1. Init => TypeOK
  <2> SUFFICES ASSUME Init
               PROVE  TypeOK
    OBVIOUS
  <2> USE DEF Init
  <2>1. 0 \in Slots /\ 0 \in 0 .. NumBuffers - 1 /\ 0 \in 0 .. Count
    BY DEF Slots
  <2>2. is_signaled \in [Slots -> BOOLEAN] /\ fence \in [Slots -> BOOLEAN]
    OBVIOUS
  <2>3. started_render_pass \in [Slots -> BOOLEAN]
    OBVIOUS
  <2>4. state \in [Slots -> States] /\ contents \in [Slots -> Seq(Nat)]
    BY DEF States
  <2>5. gpu \in Seq(Slots) /\ done \in Seq(Seq(Nat))
    OBVIOUS
  <2>6. QED
    BY <2>1, <2>2, <2>3, <2>4, <2>5 DEF TypeOK, Ops, Faults
<1>2. TypeOK /\ [Next]_vars => TypeOK'
  <2> SUFFICES ASSUME TypeOK, [Next]_vars
               PROVE  TypeOK'
    OBVIOUS
  <2> USE DEF TypeOK
  <2>1. ASSUME NEW op \in Ops, Invoke(op)
        PROVE  TypeOK'
    BY <2>1 DEF Invoke, cmdVars, chainVars, driverVars
  <2>2. CASE BeginNext
    <3>1. Succ(current) \in Slots
      BY SuccInRing
    <3>2. left' \in 0 .. Count
      BY <2>2 DEF BeginNext
    <3>3. /\ fence' \in [Slots -> BOOLEAN]
          /\ is_signaled' \in [Slots -> BOOLEAN]
          /\ started_render_pass' \in [Slots -> BOOLEAN]
          /\ recording' \in BOOLEAN
      BY <2>2 DEF BeginNext, BeginsPass, MustWait, FenceTaken
    <3>4. /\ state' \in [Slots -> States]
          /\ contents' \in [Slots -> Seq(Nat)]
          /\ fault' \in Faults
      BY <2>2 DEF BeginNext, States, Faults
    <3>5. QED
      BY <2>2, <3>1, <3>2, <3>3, <3>4 DEF BeginNext, chainVars
  <2>3. CASE Emit
    <3>1. contents' \in [Slots -> Seq(Nat)]
      <4>1. CASE call \in Silent
        BY <2>3, <4>1 DEF Emit
      <4>2. CASE call \notin Silent
        <5>1. \A s \in Slots : Append(contents[s], issued + 1) \in Seq(Nat)
          OBVIOUS
        <5>2. QED
          BY <2>3, <4>2, <5>1 DEF Emit
      <4>3. QED
        BY <4>1, <4>2
    <3>2. fault' \in Faults
      BY <2>3 DEF Emit, EmitFault, Faults
    <3>3. issued' \in Nat /\ dirty' \in BOOLEAN /\ has_record' \in BOOLEAN
      <4>1. CASE call \in Silent
        BY <2>3, <4>1 DEF Emit
      <4>2. CASE call \notin Silent
        BY <2>3, <4>2 DEF Emit
      <4>3. QED
        BY <4>1, <4>2
    <3>4. QED
      BY <2>3, <3>1, <3>2, <3>3 DEF Emit, Ops
  <2>4. EndState \in [Slots -> States] /\ EndPass \in [Slots -> BOOLEAN]
    BY DEF EndState, EndPass, States
  <2>5. EndCurrent \in Slots /\ EndHasRecord \in BOOLEAN /\ EndFault \in Faults
    BY DEF EndCurrent, EndHasRecord, EndFault, Faults
  <2>6. CASE End
    BY <2>4, <2>5, <2>6 DEF End, clientVars
  <2>7. CASE Submit
    <3>1. framebuffer' \in 0 .. NumBuffers - 1
      BY <2>7 DEF Submit, NextFramebuffer
    <3>2. CASE HasFrame /\ HandOver(EndCurrent)
      <4>1. Succ(EndCurrent) \in Slots
        BY <2>5, SuccInRing
      <4>2. state' \in [Slots -> States]
        BY <2>4, <2>5, <3>2 DEF HandOver, States
      <4>3. is_signaled' \in [Slots -> BOOLEAN]
        BY <2>5, <3>2 DEF HandOver, FenceMarked
      <4>4. gpu' \in Seq(Slots)
        BY <2>5, <3>2 DEF HandOver
      <4>5. fault' \in Faults
        BY <2>5, <3>2 DEF HandOver, Faults
      <4>6. dirty' \in BOOLEAN
        BY <3>2 DEF HandOver, DirtyAfterSubmit
      <4>7. QED
        BY <2>4, <2>5, <2>7, <3>1, <3>2, <4>1, <4>2, <4>3, <4>4, <4>5, <4>6
           DEF Submit, HandOver, clientVars
    <3>3. CASE ~HasFrame /\ state' = EndState /\ current' = EndCurrent
               /\ fault' = EndFault
               /\ UNCHANGED <<is_signaled, gpu, active, dirty>>
      BY <2>4, <2>5, <2>7, <3>1, <3>3 DEF Submit, clientVars
    <3>4. QED
      BY <2>7, <3>2, <3>3 DEF Submit
  <2>8. ASSUME NEW n \in {1, Count}, SetMode(n)
        PROVE  TypeOK'
    BY <2>8 DEF SetMode, cmdVars, clientVars, driverVars
  <2>9. CASE Advance
    BY <2>9, SuccInRing DEF Advance, chainVars, clientVars, driverVars
  <2>10. CASE Reinitialize
    BY <2>10 DEF Reinitialize, chainVars, clientVars, States
  <2>11. CASE Finish
    <3>1. Head(gpu) \in Slots /\ Tail(gpu) \in Seq(Slots)
      BY <2>11 DEF Finish
    <3>2. done' \in Seq(Seq(Nat))
      BY <2>11, <3>1 DEF Finish
    <3>3. QED
      BY <2>11, <3>1, <3>2 DEF Finish, cmdVars, chainVars, clientVars, States
  <2>12. CASE UNCHANGED vars
    BY <2>12 DEF vars, cmdVars, chainVars, clientVars, driverVars
  <2>13. QED
    BY <2>1, <2>2, <2>3, <2>6, <2>7, <2>8, <2>9, <2>10, <2>11, <2>12 DEF Next
<1>3. QED
  BY <1>1, <1>2, PTL DEF Spec

(***************************************************************************)
(* Safety of any client.                                                   *)
(***************************************************************************)

(* The fences protect the buffers in flight from every sequence of calls.  *)
LEMMA FencesInvariant == Spec => [](NeverPending /\ FencesHold)
<1> USE DEF NeverPending, FencesHold, Defined
<1>1. Init => NeverPending /\ FencesHold
  BY DEF Init, FencesTold, WaitsEnd, QueueTold
<1>2. TypeOK /\ NeverPending /\ FencesHold /\ [Next]_vars
        => (NeverPending /\ FencesHold)'
  <2> SUFFICES ASSUME TypeOK, NeverPending, FencesHold, [Next]_vars
               PROVE  (NeverPending /\ FencesHold)'
    OBVIOUS
  <2> USE DEF TypeOK
  <2>1. ASSUME UNCHANGED <<state, fence, is_signaled, gpu, fault>>
        PROVE  (NeverPending /\ FencesHold)'
    BY <2>1 DEF FencesTold, WaitsEnd, QueueTold
  <2>2. ASSUME NEW op \in Ops, Invoke(op)
        PROVE  (NeverPending /\ FencesHold)'
    BY <2>1, <2>2 DEF Invoke, cmdVars, driverVars
  <2>3. CASE BeginNext
    <3>1. FencesTold /\ WaitsEnd
      BY <2>3 DEF BeginNext
    <3>2. is_signaled[current] => fence[current]
      BY <2>3 DEF BeginNext, MustWait
    <3>3. state[current] # "pending"
      BY <3>1, <3>2 DEF FencesTold
    <3>4. NeverPending'
      BY <2>3, <3>3 DEF BeginNext
    <3>5. \A s \in Slots :
            /\ state'[s] = IF s = current THEN "recording" ELSE state[s]
            /\ is_signaled'[s] = (s # current /\ is_signaled[s])
            /\ fence'[s] = (fence[s] /\ (s = current => ~is_signaled[s]))
      BY <2>3 DEF BeginNext, MustWait, FenceTaken
    <3>6. FencesTold' /\ WaitsEnd'
      BY <3>1, <3>2, <3>5 DEF FencesTold, WaitsEnd
    <3>7. QueueTold'
      <4>1. QueueTold /\ gpu' = gpu
        BY <2>3 DEF BeginNext
      <4>2. \A i \in 1 .. Len(gpu) : gpu[i] \in Slots /\ gpu[i] # current
        BY <3>3, <4>1 DEF QueueTold
      <4>3. QED
        BY <3>5, <4>1, <4>2 DEF QueueTold
    <3>8. QED
      BY <3>4, <3>6, <3>7
  <2>4. CASE Emit
    <3>1. /\ UNCHANGED <<state, fence, is_signaled, gpu>>
          /\ FencesTold /\ WaitsEnd /\ QueueTold
      BY <2>4 DEF Emit
    <3>2. fault' # "begin_pending"
      BY <2>4 DEF Emit, EmitFault
    <3>3. QED
      BY <3>1, <3>2 DEF FencesTold, WaitsEnd, QueueTold
  <2>5. ASSUME fault = "none", EndFault = "none"
        PROVE  \A s \in Slots : EndState[s] =
                 IF state[s] = "recording" /\ s \in Stopped
                 THEN "executable" ELSE state[s]
    BY <2>5 DEF EndState, EndFault
  <2>6. EndFault \in {"none", "end_unbegun"} \/ EndFault = fault
    BY DEF EndFault
  <2>7. CASE End
    <3>1. fault' # "begin_pending"
      BY <2>6, <2>7 DEF End
    <3>2. CASE EndFault = "none"
      <4>1. \A s \in Slots : state'[s] =
              IF state[s] = "recording" /\ s \in Stopped
              THEN "executable" ELSE state[s]
        BY <2>5, <2>7, <3>2 DEF End
      <4>2. /\ UNCHANGED <<fence, is_signaled, gpu>>
            /\ FencesTold /\ WaitsEnd /\ QueueTold
        BY <2>7 DEF End
      <4>3. FencesTold' /\ WaitsEnd' /\ QueueTold'
        BY <4>1, <4>2 DEF FencesTold, WaitsEnd, QueueTold
      <4>4. QED
        BY <3>1, <4>3
    <3>3. CASE EndFault # "none"
      BY <2>7, <3>1, <3>3 DEF End
    <3>4. QED
      BY <3>2, <3>3
  <2>8. CASE Submit
    <3>1. /\ fault = "none" /\ UNCHANGED fence
          /\ FencesTold /\ WaitsEnd /\ QueueTold
          /\ EndCurrent \in Slots
      BY <2>8 DEF Submit, EndCurrent
    <3>2. CASE HasFrame /\ HandOver(EndCurrent)
      <4>1. fault' # "begin_pending"
        BY <2>6, <3>1, <3>2 DEF HandOver
      <4>2. CASE fault' = "none"
        <5>1. EndFault = "none" /\ ~fence[EndCurrent]
          BY <3>1, <3>2, <4>2 DEF HandOver
        <5>2. \A s \in Slots :
                /\ state'[s] = IF s = EndCurrent THEN "pending"
                               ELSE IF state[s] = "recording" /\ s \in Stopped
                               THEN "executable" ELSE state[s]
                /\ is_signaled'[s] = (s = EndCurrent \/ is_signaled[s])
          BY <2>5, <3>1, <3>2, <5>1 DEF HandOver, FenceMarked, EndState
        <5>3. FencesTold' /\ WaitsEnd'
          BY <3>1, <5>1, <5>2 DEF FencesTold, WaitsEnd
        <5>4. QueueTold'
          <6>1. gpu' = Append(gpu, EndCurrent)
            BY <3>2 DEF HandOver
          <6>2. state[EndCurrent] # "pending"
            <7>1. EndState[EndCurrent] = "executable"
              BY <3>2, <4>2, <5>1 DEF HandOver
            <7>2. QED
              BY <2>5, <3>1, <5>1, <7>1
          <6>3. \A i \in 1 .. Len(gpu) : gpu[i] \in Slots /\ gpu[i] # EndCurrent
            <7>1. \A i \in 1 .. Len(gpu) : state[gpu[i]] = "pending"
              BY <3>1 DEF QueueTold
            <7>2. \A i \in 1 .. Len(gpu) : gpu[i] \in Slots
              OBVIOUS
            <7>3. QED
              BY <6>2, <7>1, <7>2
          <6>4. /\ Len(gpu) \in Nat /\ Len(gpu') = Len(gpu) + 1
                /\ \A i \in 1 .. Len(gpu) : gpu'[i] = gpu[i]
                /\ gpu'[Len(gpu) + 1] = EndCurrent
            BY <3>1, <6>1
          <6>5. ASSUME NEW i \in 1 .. Len(gpu')
                PROVE  \/ i = Len(gpu) + 1 /\ gpu'[i] = EndCurrent
                       \/ /\ i \in 1 .. Len(gpu) /\ gpu'[i] = gpu[i]
                          /\ gpu[i] \in Slots /\ gpu[i] # EndCurrent
            <7>1. i = Len(gpu) + 1 \/ i \in 1 .. Len(gpu)
              BY <6>4
            <7>2. QED
              BY <6>3, <6>4, <7>1
          <6>6. ASSUME NEW i \in 1 .. Len(gpu')
                PROVE  state'[gpu'[i]] = "pending"
            <7>1. i \in 1 .. Len(gpu) => state[gpu[i]] = "pending"
              BY <3>1 DEF QueueTold
            <7>2. QED
              BY <3>1, <5>2, <6>5, <7>1
          <6>7. ASSUME NEW i \in 1 .. Len(gpu'), NEW j \in 1 .. Len(gpu'),
                       gpu'[i] = gpu'[j]
                PROVE  i = j
            <7>1. i \in 1 .. Len(gpu) /\ j \in 1 .. Len(gpu)
                    => (gpu[i] = gpu[j] => i = j)
              BY <3>1 DEF QueueTold
            <7>2. QED
              BY <6>5, <6>7, <7>1
          <6>8. QED
            BY <6>6, <6>7 DEF QueueTold
        <5>5. QED
          BY <4>1, <5>3, <5>4
      <4>3. QED
        BY <4>1, <4>2
    <3>3. CASE /\ state' = EndState /\ fault' = EndFault
               /\ UNCHANGED <<is_signaled, gpu>>
      <4>1. fault' # "begin_pending"
        BY <2>6, <3>1, <3>3
      <4>2. CASE EndFault = "none"
        <5>1. \A s \in Slots : state'[s] =
                IF state[s] = "recording" /\ s \in Stopped
                THEN "executable" ELSE state[s]
          BY <2>5, <3>1, <3>3, <4>2
        <5>2. FencesTold' /\ WaitsEnd' /\ QueueTold'
          BY <3>1, <3>3, <5>1 DEF FencesTold, WaitsEnd, QueueTold
        <5>3. QED
          BY <4>1, <5>2
      <4>3. QED
        BY <3>3, <4>1, <4>2
    <3>4. QED
      BY <2>8, <3>2, <3>3 DEF Submit
  <2>9. ASSUME NEW n \in {1, Count}, SetMode(n)
        PROVE  (NeverPending /\ FencesHold)'
    BY <2>1, <2>9 DEF SetMode, cmdVars, driverVars
  <2>10. CASE Advance
    BY <2>1, <2>10 DEF Advance, driverVars
  <2>11. CASE Reinitialize
    <3>1. \A s \in Slots : state'[s] = "initial" /\ is_signaled'[s] /\ fence'[s]
      BY <2>11 DEF Reinitialize
    <3>2. FencesTold' /\ WaitsEnd'
      BY <3>1 DEF FencesTold, WaitsEnd
    <3>3. gpu' = <<>> /\ fault' = "none"
      BY <2>11 DEF Reinitialize
    <3>4. QED
      BY <3>2, <3>3 DEF QueueTold
  <2>12. CASE Finish
    <3>1. /\ FencesTold /\ WaitsEnd /\ QueueTold
          /\ fault' = "none" /\ is_signaled' = is_signaled
          /\ gpu' = Tail(gpu) /\ Head(gpu) = gpu[1] /\ gpu[1] \in Slots
          /\ Len(gpu) \in Nat /\ Len(gpu) >= 1
      BY <2>12 DEF Finish, cmdVars
    <3>2. state[gpu[1]] = "pending"
      BY <3>1 DEF QueueTold
    <3>3. \A s \in Slots :
            /\ state'[s] = IF s = gpu[1] THEN "executable" ELSE state[s]
            /\ fence'[s] = (s = gpu[1] \/ fence[s])
      BY <2>12, <3>1 DEF Finish
    <3>4. FencesTold' /\ WaitsEnd'
      BY <3>1, <3>2, <3>3 DEF FencesTold, WaitsEnd
    <3>5. /\ Len(gpu') = Len(gpu) - 1
          /\ \A i \in 1 .. Len(gpu') : /\ i + 1 \in 1 .. Len(gpu)
                                       /\ gpu'[i] = gpu[i + 1]
                                       /\ gpu[i + 1] \in Slots
      BY <3>1
    <3>6. \A i \in 1 .. Len(gpu') : gpu[i + 1] # gpu[1]
      BY <3>1, <3>5 DEF QueueTold
    <3>7. \A i \in 1 .. Len(gpu') : state'[gpu'[i]] = "pending"
      BY <3>1, <3>3, <3>5, <3>6 DEF QueueTold
    <3>8. ASSUME NEW i \in 1 .. Len(gpu'), NEW j \in 1 .. Len(gpu'),
                 gpu'[i] = gpu'[j]
          PROVE  i = j
      <4>1. i + 1 = j + 1
        BY <3>1, <3>5, <3>8 DEF QueueTold
      <4>2. QED
        BY <4>1
    <3>9. QueueTold'
      BY <3>7, <3>8 DEF QueueTold
    <3>10. QED
      BY <3>1, <3>4, <3>9
  <2>13. CASE UNCHANGED vars
    BY <2>1, <2>13 DEF vars, cmdVars, driverVars
  <2>14. QED
    BY <2>2, <2>3, <2>4, <2>7, <2>8, <2>9, <2>10, <2>11, <2>12, <2>13 DEF Next
<1>3. QED
  BY <1>1, <1>2, TypeCorrect, PTL DEF Spec

(* Whatever sequence of calls the client makes, no buffer is begun while   *)
(* the device may be executing it.                                         *)
THEOREM AnyClientGuarded == Spec => []NeverPending
  BY FencesInvariant, PTL

(* Whatever sequence of calls the client makes, no wait is skipped or      *)
(* started in vain, and no buffer is in flight twice.                      *)
THEOREM AnyClientFences == Spec => []FencesHold
  BY FencesInvariant, PTL

-----------------------------------------------------------------------------
(* The render pass of any client. *)

(* A number has one remainder. *)
LEMMA QuotientUnique ==
  ASSUME NEW m \in Nat \ {0}, NEW q \in Int, NEW p \in Int,
         NEW r \in 0 .. m - 1, NEW s \in 0 .. m - 1, m * q + r = m * p + s
  PROVE  r = s
<1>1. m * (q - p) = s - r
  OBVIOUS
<1>2. q - p >= 1 => m * (q - p) >= m
  OBVIOUS
<1>3. q - p <= -1 => m * (q - p) <= -m
  OBVIOUS
<1>4. q - p \in Int /\ -m < s - r /\ s - r < m
  OBVIOUS
<1>5. q - p = 0
  BY <1>1, <1>2, <1>3, <1>4
<1>6. m * 0 = s - r
  BY <1>1, <1>5
<1>7. QED
  BY <1>6

(* Counting wraps as RenderPass::advance does. *)
LEMMA ModOfSucc ==
  ASSUME NEW m \in Nat \ {0}, NEW n \in Nat
  PROVE  (n + 1) % m = IF (n % m) + 1 >= m THEN 0 ELSE (n % m) + 1
<1>1. m \in Int /\ m > 0 /\ n \in Int
  OBVIOUS
<1> DEFINE q == n \div m
           r == n % m
           p == (n + 1) \div m
           s == (n + 1) % m
<1>2. n = m * q + r /\ n + 1 = m * p + s
  BY <1>1, SMTT(30)
<1>3. q \in Int /\ p \in Int /\ r \in 0 .. m - 1 /\ s \in 0 .. m - 1
  OBVIOUS
<1> HIDE DEF q, r, p, s
<1>4. CASE r + 1 >= m
  <2>1. r + 1 = m
    BY <1>3, <1>4
  <2>2. m * (q + 1) = m * q + m
    BY <1>3
  <2>3. m * (q + 1) + 0 = m * p + s
    BY <1>2, <1>3, <2>1, <2>2
  <2>4. q + 1 \in Int /\ 0 \in 0 .. m - 1
    BY <1>3
  <2>5. s = 0
    BY <1>3, <2>3, <2>4, QuotientUnique
  <2>6. QED
    BY <1>4, <2>5 DEF r, s
<1>5. CASE r + 1 < m
  <2>1. r + 1 \in 0 .. m - 1 /\ m * q + (r + 1) = m * p + s
    BY <1>2, <1>3, <1>5
  <2>2. s = r + 1
    BY <1>3, <2>1, QuotientUnique
  <2>3. QED
    BY <1>3, <1>5, <2>2 DEF r, s
<1>6. QED
  BY <1>3, <1>4, <1>5

(* Whatever sequence of calls the client makes, the render pass is at the  *)
(* framebuffer of the frame to come, counted over the frames handed over.  *)
THEOREM PassKeepsStep == Spec => []PassInStep
<1> USE NumBuffersAssumption
<1>1. Init => PassInStep
  BY DEF Init, PassInStep
<1>2. TypeOK /\ PassInStep /\ [Next]_vars => PassInStep'
  <2> SUFFICES ASSUME TypeOK, PassInStep, [Next]_vars
               PROVE  PassInStep'
    OBVIOUS
  <2>0. Len(gpu) \in Nat /\ Len(done) \in Nat
    BY DEF TypeOK
  <2>1. CASE UNCHANGED <<framebuffer, gpu, done>>
    BY <2>1 DEF PassInStep
  <2>2. CASE Submit
    <3>1. CASE HasFrame /\ HandOver(EndCurrent)
      <4>1. Len(gpu') = Len(gpu) + 1
        BY <3>1 DEF HandOver, TypeOK
      <4>2. HasPass => framebuffer' = NextFramebuffer(framebuffer)
        BY <2>2, <3>1, HasPassAssumption DEF Submit, AdvancesPass
      <4>3. done' = done
        BY <2>2 DEF Submit
      <4>4. Len(done') + Len(gpu') = (Len(done) + Len(gpu)) + 1
        BY <2>0, <4>1, <4>3
      <4>5. Len(done) + Len(gpu) \in Nat
        BY <2>0
      <4>6. QED
        BY <4>2, <4>4, <4>5, ModOfSucc DEF PassInStep, NextFramebuffer
    <3>2. CASE ~HasFrame
      BY <2>2, <3>2 DEF Submit, AdvancesPass, PassInStep
    <3>3. QED
      BY <2>2, <3>1, <3>2 DEF Submit
  <2>3. CASE Finish
    <3>1. gpu # <<>> /\ gpu' = Tail(gpu) /\ framebuffer' = framebuffer
      BY <2>3 DEF Finish
    <3>2. Len(gpu') = Len(gpu) - 1
      BY <3>1 DEF TypeOK
    <3>3. contents[Head(gpu)] \in Seq(Nat)
      BY <3>1 DEF TypeOK
    <3>4. Len(done') = Len(done) + 1
      BY <2>3, <3>3 DEF Finish, TypeOK
    <3>5. Len(done') + Len(gpu') = Len(done) + Len(gpu)
      BY <2>0, <3>2, <3>4
    <3>6. QED
      BY <3>1, <3>5 DEF PassInStep
  <2>4. CASE UNCHANGED vars
    BY <2>1, <2>4 DEF vars, driverVars
  <2>5. CASE Next /\ ~Submit /\ ~Finish
    BY <2>1, <2>5
       DEF Next, Invoke, BeginNext, Emit, End, SetMode, Advance,
           Reinitialize, driverVars
  <2>6. QED
    BY <2>2, <2>3, <2>4, <2>5
<1>3. QED
  BY <1>1, <1>2, TypeCorrect, PTL DEF Spec

(***************************************************************************)
(* Safety of a disciplined client.                                         *)
(***************************************************************************)

(* The disciplined client is asked for nothing but record, then submit. *)
LEMMA RingInvInit == Init => RingInv
<1> SUFFICES ASSUME Init
             PROVE  RingInv
  OBVIOUS
<1> USE CountAssumption DEF Init
<1>1. NoFault /\ Phases
  BY DEF NoFault, Phases, Idle
<1>2. Window /\ FencesTold /\ WaitsEnd
  BY DEF Window, FencesTold, WaitsEnd
<1>3. EndedReady /\ Alike /\ PassFits
  BY DEF EndedReady, Alike, PassFits
<1>4. DirtyTold
  BY DEF DirtyTold
<1>5. RingOrder
  BY DEF RingOrder, Behind, Slots
<1>6. QED
  BY <1>1, <1>2, <1>3, <1>4, <1>5 DEF RingInv

(* Invoke starts a call in a state that has its render pass right. *)
LEMMA RingInvInvoke ==
  ASSUME TypeOK, RingInv, Liberties = {}, NEW op \in Ops, Invoke(op)
  PROVE  RingInv'
<1> USE CountAssumption DEF RingInv, Invoke, cmdVars, chainVars, driverVars
<1>1. NoFault' /\ FencesTold' /\ WaitsEnd' /\ EndedReady' /\ DirtyTold'
  BY DEF NoFault, FencesTold, WaitsEnd, EndedReady, DirtyTold
<1>2. RingOrder'
  BY DEF RingOrder, Behind
<1>3. ~recording => ~dirty
  BY DEF Permitted
<1>4. Phases'
  BY <1>3, AheadBounds DEF Phases, Idle, TypeOK, Ops
<1>5. left = 0 /\ left' = IF recording THEN 0 ELSE num_cmd
  BY DEF Phases
<1>6. Window'
  BY <1>5 DEF Window, TypeOK
<1>7. Alike'
  BY <1>5 DEF Alike, TypeOK
<1>8. PassFits'
  <2>1. CASE HasPass
    BY <2>1 DEF PassFits, Permitted, TypeOK, Idle
  <2>2. CASE ~HasPass
    <3>1. op # "draw"
      BY <2>2 DEF Permitted
    <3>2. \A s \in Slots : ~started_render_pass[s]
      BY <2>2 DEF Alike
    <3>3. QED
      BY <3>1, <3>2 DEF PassFits, TypeOK
  <2>3. QED
    BY <2>1, <2>2
<1>9. QED
  BY <1>1, <1>2, <1>4, <1>6, <1>7, <1>8

(* BeginNext finds a buffer that is neither recording nor in flight. *)
LEMMA RingInvBeginNext ==
  ASSUME TypeOK, RingInv, BeginNext
  PROVE  RingInv'
<1> USE CountAssumption DEF RingInv
<1> DEFINE begun == num_cmd - left
<1>1. /\ left > 0 /\ ~dirty /\ ~Idle
      /\ left <= num_cmd
      /\ Ahead(active, current) = begun
      /\ recording <=> begun > 0
  BY DEF BeginNext, Phases, TypeOK
<1>2. /\ current \in Slots /\ active \in Slots
      /\ num_cmd \in {1, Count} /\ left \in 0 .. Count
  BY DEF TypeOK
<1>3. /\ state' = [state EXCEPT ![current] = "recording"]
      /\ contents' = [contents EXCEPT ![current] = <<>>]
      /\ is_signaled' = [is_signaled EXCEPT ![current] = FALSE]
      /\ fence' = [fence EXCEPT ![current] = @ /\ ~is_signaled[current]]
      /\ started_render_pass' =
           [started_render_pass EXCEPT ![current] = @ \/ BeginsPass(call)]
      /\ recording' = TRUE
      /\ current' = Succ(current)
      /\ left' = left - 1
      /\ is_signaled[current] => fence[current]
      /\ UNCHANGED <<active, num_cmd, dirty, call, gpu>>
  BY DEF BeginNext, MustWait, FenceTaken, chainVars
<1>4. state[current] # "recording"
  BY <1>1, <1>2 DEF Window
<1>5. state[current] # "pending"
  BY <1>2, <1>3 DEF FencesTold
<1>6. NoFault'
  BY <1>4, <1>5 DEF NoFault, BeginNext
<1>7. Phases'
  <2>1. left' > 0 => Ahead(active, Succ(current)) = num_cmd - left'
    BY <1>1, <1>2, <1>3, AheadOfSucc
  <2>2. QED
    BY <1>1, <1>2, <1>3, <2>1 DEF Phases, Idle
<1>8. Window'
  <2>1. \A s \in Slots : Ahead(active, s) = begun => s = current
    BY <1>1, <1>2, AheadInjective
  <2>2. \A s \in Slots : Ahead(active, s) \in Nat
    BY <1>2, AheadBounds
  <2>3. SUFFICES ASSUME NEW s \in Slots
                 PROVE  (state[s] = "recording" <=>
                          recording /\ Ahead(active, s) < num_cmd - left)'
    BY DEF Window
  <2>4. CASE s = current
    BY <1>1, <1>2, <1>3, <2>4 DEF TypeOK, Ahead
  <2>5. CASE s # current
    <3>1. state'[s] = "recording" <=> recording /\ Ahead(active, s) < begun
      BY <1>3, <2>5 DEF Window, TypeOK
    <3>2. Ahead(active, s) < begun + 1 <=> Ahead(active, s) < begun
      BY <1>2, <2>1, <2>2, <2>5
    <3>3. Ahead(active, s) < begun => recording
      BY <1>1, <1>2, <2>2
    <3>4. Ahead(active, s)' = Ahead(active, s)
      BY <1>3 DEF Ahead
    <3>5. QED
      BY <1>2, <1>3, <3>1, <3>2, <3>3, <3>4
  <2>6. QED
    BY <2>4, <2>5
<1>9. FencesTold' /\ WaitsEnd'
  BY <1>2, <1>3, <1>5 DEF FencesTold, WaitsEnd, TypeOK
<1>10. EndedReady'
  BY <1>1, <1>3 DEF EndedReady
<1>11. Alike'
  <2>1. ~started_render_pass[current]
    BY <1>2, <1>4 DEF Alike
  <2>2. CASE begun = 0
    <3>1. current = active /\ ~recording
      BY <1>1, <1>2, <2>2, AheadInjective, AheadBounds
    <3>2. \A s \in Slots : state[s] # "recording"
      BY <3>1 DEF Window
    <3>3. QED
      BY <1>2, <1>3, <2>1, <3>1, <3>2 DEF Alike, BeginsPass, TypeOK
  <2>3. CASE begun # 0
    <3>1. recording /\ state[active] = "recording"
      BY <1>1, <1>2, <2>3, AheadBounds DEF Window
    <3>2. current # active
      BY <1>4, <3>1
    <3>3. /\ contents[active] = <<>>
          /\ started_render_pass[active] = BeginsPass(call)
      BY <1>1, <3>1 DEF Alike, DirtyTold
    <3>4. QED
      BY <1>2, <1>3, <2>1, <3>1, <3>2, <3>3 DEF Alike, BeginsPass, TypeOK
  <2>4. QED
    BY <2>2, <2>3
<1>12. PassFits'
  <2>1. ~started_render_pass[current]
    BY <1>2, <1>4 DEF Alike
  <2>2. CASE current = active
    BY <1>2, <1>3, <2>1, <2>2 DEF PassFits, BeginsPass, TypeOK
  <2>3. CASE current # active
    <3>1. begun # 0
      BY <1>1, <1>2, <2>3, AheadInjective, AheadBounds
    <3>2. recording
      BY <1>1, <1>2, <3>1
    <3>3. QED
      BY <1>2, <1>3, <2>3, <3>2 DEF PassFits, TypeOK
  <2>4. QED
    BY <2>2, <2>3
<1>13. RingOrder'
  BY <1>2, <1>3, <1>5 DEF RingOrder, Behind, TypeOK
<1>14. DirtyTold'
  <2>1. begun = 0 => current = active
    BY <1>1, <1>2, AheadInjective, AheadBounds
  <2>2. begun # 0 => contents[active] = <<>>
    BY <1>1, <1>2 DEF DirtyTold
  <2>3. contents'[active] = <<>>
    BY <1>2, <1>3, <2>1, <2>2 DEF TypeOK
  <2>4. QED
    BY <1>1, <1>3, <2>3 DEF DirtyTold
<1>15. QED
  BY <1>6, <1>7, <1>8, <1>9, <1>10, <1>11, <1>12, <1>13, <1>14

(* Emit records into buffers that were all begun, with the pass it needs. *)
LEMMA RingInvEmit ==
  ASSUME TypeOK, RingInv, Emit
  PROVE  RingInv'
<1> USE CountAssumption DEF RingInv
<1>1. /\ ~Idle /\ left = 0 /\ recording
      /\ call' = "none" /\ current' = active
      /\ UNCHANGED <<recording, is_signaled, started_render_pass, active,
                     num_cmd, left, state, fence, gpu>>
  BY DEF Emit, Phases
<1>2. \A s \in Visited(active, num_cmd) : s \in Slots /\ state[s] = "recording"
  BY <1>1 DEF Visited, Window, TypeOK
<1>3. active \in Slots /\ state[active] = "recording"
  BY <1>1, AheadBounds DEF Window, TypeOK
<1>4. call \notin Silent =>
        \A s \in Slots : contents'[s] =
          IF state[s] = "recording" THEN Append(contents[s], issued + 1)
          ELSE contents[s]
  BY <1>1 DEF Emit, Written, Visited, Window, TypeOK
<1>5. NoFault'
  <2>1. CASE call \in Silent
    BY <2>1 DEF Emit, NoFault
  <2>2. CASE call \notin Silent
    <3>1. \A s \in Visited(active, num_cmd) :
            started_render_pass[s] = started_render_pass[active]
      BY <1>2 DEF Alike
    <3>2. EmitFault(call, Visited(active, num_cmd)) = fault
      BY <1>1, <1>2, <3>1 DEF EmitFault, PassFits
    <3>3. QED
      BY <2>2, <3>2 DEF Emit, Written, NoFault
  <2>3. QED
    BY <2>1, <2>2
<1>6. Phases'
  BY <1>1 DEF Phases, Idle, TypeOK
<1>7. Window' /\ FencesTold' /\ WaitsEnd' /\ EndedReady' /\ PassFits'
  BY <1>1 DEF Window, FencesTold, WaitsEnd, EndedReady, PassFits, Ahead
<1>8. Alike'
  <2>1. CASE call \in Silent
    BY <1>1, <2>1 DEF Emit, Alike
  <2>2. CASE call \notin Silent
    BY <1>1, <1>3, <1>4, <2>2 DEF Alike
  <2>3. QED
    BY <2>1, <2>2
<1>9. DirtyTold'
  <2>1. CASE call \in Silent
    BY <1>1, <2>1 DEF Emit, DirtyTold
  <2>2. CASE call \notin Silent
    <3>1. dirty' = TRUE /\ contents'[active] = Append(contents[active], issued + 1)
      BY <1>3, <1>4, <2>2 DEF Emit
    <3>2. contents[active] \in Seq(Nat) /\ issued + 1 \in Nat
      BY <1>3 DEF TypeOK
    <3>3. contents'[active] # <<>>
      BY <3>1, <3>2
    <3>4. QED
      BY <1>1, <3>1, <3>3 DEF DirtyTold
  <2>3. QED
    BY <2>1, <2>2
<1>10. RingOrder'
  BY <1>1 DEF RingOrder, Behind
<1>11. QED
  BY <1>5, <1>6, <1>7, <1>8, <1>9, <1>10

(* end() stops exactly the buffers being recorded. *)
LEMMA EndStopsAll ==
  ASSUME TypeOK, RingInv, Idle
  PROVE  /\ \A s \in Slots : EndState[s] =
              IF state[s] = "recording" THEN "executable" ELSE state[s]
         /\ \A s \in Slots : ~EndPass[s]
         /\ EndFault = "none"
         /\ EndCurrent = active
<1> USE CountAssumption DEF RingInv
<1>1. left = 0 /\ current = active
  BY DEF Phases
<1>2. \A s \in Slots : s \in Stopped <=> state[s] = "recording"
  BY <1>1 DEF Stopped, Visited, Window, TypeOK
<1>3. Stopped \subseteq Slots
  BY DEF Stopped, Visited
<1>4. \A s \in Slots : ~EndPass[s]
  BY <1>2 DEF EndPass, Alike
<1>5. QED
  BY <1>1, <1>2, <1>3, <1>4 DEF EndState, EndFault, EndCurrent, NoFault

LEMMA RingInvEnd ==
  ASSUME TypeOK, RingInv, End
  PROVE  RingInv'
<1> USE CountAssumption DEF RingInv
<1>1. /\ Idle /\ recording
      /\ state' = EndState /\ started_render_pass' = EndPass
      /\ recording' = FALSE /\ current' = active /\ fault' = "none"
      /\ UNCHANGED <<is_signaled, active, num_cmd, dirty, call, left,
                     contents, fence, gpu>>
  BY EndStopsAll DEF End, clientVars
<1>2. \A s \in Slots : /\ state'[s] = IF state[s] = "recording"
                                      THEN "executable" ELSE state[s]
                       /\ ~started_render_pass'[s]
  BY <1>1, EndStopsAll
<1>3. left = 0 /\ active \in Slots
  BY <1>1 DEF Phases, TypeOK
<1>4. state[active] = "recording"
  BY <1>1, <1>3, AheadBounds DEF Window, TypeOK
<1>5. NoFault' /\ Phases'
  BY <1>1, <1>3 DEF NoFault, Phases, Idle, TypeOK
<1>6. Window' /\ FencesTold' /\ WaitsEnd' /\ EndedReady'
  BY <1>1, <1>2, <1>3, <1>4 DEF Window, FencesTold, WaitsEnd, EndedReady, TypeOK
<1>7. Alike' /\ DirtyTold' /\ PassFits'
  BY <1>1, <1>2, <1>3 DEF Alike, DirtyTold, PassFits, Idle
<1>8. RingOrder'
  BY <1>1, <1>2 DEF RingOrder, Behind
<1>9. QED
  BY <1>5, <1>6, <1>7, <1>8

(* The buffer submitted becomes the last one behind the active one. *)
LEMMA BehindAfterSucc ==
  ASSUME NEW a \in Slots, NEW s \in Slots
  PROVE  LET behind(b) == IF s < b THEN b - s ELSE b + Count - s
         IN  behind(Succ(a)) = IF s = a THEN 1 ELSE behind(a) + 1
  BY CountAssumption DEF Slots, Succ

LEMMA RingInvSubmit ==
  ASSUME TypeOK, RingInv, Submit
  PROVE  RingInv'
<1> USE CountAssumption DEF RingInv
<1>1. /\ Idle /\ left = 0 /\ current = active /\ active \in Slots
      /\ EndFault = "none" /\ EndCurrent = active
  BY EndStopsAll DEF Submit, Phases, TypeOK
<1>2. \A s \in Slots : /\ EndState[s] = IF state[s] = "recording"
                                       THEN "executable" ELSE state[s]
                       /\ ~EndPass[s]
  BY <1>1, EndStopsAll
<1>3. /\ recording' = FALSE /\ started_render_pass' = EndPass
      /\ UNCHANGED <<num_cmd, call, left, contents, fence>>
  BY DEF Submit, clientVars
<1>4. CASE HasFrame /\ HandOver(EndCurrent)
  <2>1. /\ state' = [EndState EXCEPT ![active] = "pending"]
        /\ is_signaled' = [is_signaled EXCEPT ![active] = TRUE]
        /\ gpu' = Append(gpu, active)
        /\ current' = Succ(active) /\ active' = Succ(active)
        /\ dirty' = FALSE
    BY <1>1, <1>4 DEF HandOver, FenceMarked, DirtyAfterSubmit
  <2>2. EndState[active] = "executable" /\ ~fence[active]
    <3>1. CASE recording
      BY <1>1, <1>2, <3>1, AheadBounds DEF Window, FencesTold, TypeOK
    <3>2. CASE ~recording
      BY <1>1, <1>2, <1>4, <3>2 DEF EndedReady, FencesTold, HasFrame
    <3>3. QED
      BY <3>1, <3>2
  <2>3. state[active] # "pending"
    BY <1>1, <1>2, <2>2
  <2>4. \A s \in Slots :
          /\ state'[s] = IF s = active THEN "pending"
                         ELSE IF state[s] = "recording" THEN "executable"
                         ELSE state[s]
          /\ is_signaled'[s] = (s = active \/ is_signaled[s])
          /\ ~started_render_pass'[s]
    BY <1>1, <1>2, <1>3, <2>1 DEF EndState, TypeOK
  <2>5. NoFault'
    BY <1>1, <1>4, <2>2 DEF HandOver, NoFault
  <2>6. Phases'
    BY <1>1, <1>3, <2>1 DEF Phases, Idle, TypeOK
  <2>7. Window' /\ FencesTold' /\ WaitsEnd' /\ EndedReady'
    <3>1. Window' /\ EndedReady'
      <4>1. \A s \in Slots : state'[s] # "recording"
        BY <2>4
      <4>2. QED
        BY <1>3, <2>1, <4>1 DEF Window, EndedReady
    <3>2. FencesTold'
      BY <1>3, <2>2, <2>4 DEF FencesTold
    <3>3. WaitsEnd'
      BY <1>3, <2>4 DEF WaitsEnd, FencesTold
    <3>4. QED
      BY <3>1, <3>2, <3>3
  <2>8. Alike' /\ DirtyTold' /\ PassFits'
    <3>1. Alike' /\ PassFits'
      BY <1>1, <1>3, <2>4 DEF Alike, PassFits, Idle
    <3>2. DirtyTold'
      BY <1>3, <2>1 DEF DirtyTold
    <3>3. QED
      BY <3>1, <3>2
  <2>9. RingOrder'
    <3>1. \A s \in Slots :
            Behind(s)' = IF s = active THEN 1 ELSE Behind(s) + 1
      BY <1>1, <2>1, BehindAfterSucc DEF Behind
    <3>2. Behind(active) = Count
      BY <1>1 DEF Behind, Slots
    <3>3. gpu \in Seq(Slots) /\ Len(gpu) < Count
      BY <1>1, <2>3, <3>2 DEF RingOrder, TypeOK
    <3>4. Len(gpu') = Len(gpu) + 1
      BY <1>1, <2>1, <3>3
    <3>5. ASSUME NEW i \in 1 .. Len(gpu)
          PROVE  /\ gpu[i] \in Slots /\ gpu[i] # active
                 /\ gpu'[i] = gpu[i]
                 /\ Behind(gpu[i]) = Len(gpu) - i + 1
      <4>1. Behind(gpu[i]) = Len(gpu) - i + 1
        BY DEF RingOrder
      <4>2. Behind(gpu[i]) # Count
        BY <3>3, <4>1
      <4>3. QED
        BY <1>1, <2>1, <3>2, <3>3, <4>1, <4>2
    <3>6. ASSUME NEW i \in 1 .. Len(gpu')
          PROVE  Behind(gpu[i])' = Len(gpu') - i + 1
      <4>1. CASE i = Len(gpu')
        <5>1. gpu'[i] = active
          BY <1>1, <2>1, <3>3, <3>4, <4>1
        <5>2. QED
          BY <1>1, <3>1, <3>3, <3>4, <4>1, <5>1
      <4>2. CASE i # Len(gpu')
        <5>1. i \in 1 .. Len(gpu)
          BY <3>3, <3>4, <4>2
        <5>2. QED
          BY <3>1, <3>3, <3>4, <3>5, <5>1
      <4>3. QED
        BY <4>1, <4>2
    <3>7. ASSUME NEW s \in Slots
          PROVE  state'[s] = "pending" <=> Behind(s)' <= Len(gpu')
      <4>1. Behind(s) \in Nat /\ Len(gpu) \in Nat
        BY <1>1, <3>3 DEF Behind, Slots
      <4>2. state[s] = "pending" <=> Behind(s) <= Len(gpu)
        BY DEF RingOrder
      <4>3. state'[s] = "pending" <=> s = active \/ state[s] = "pending"
        BY <2>4
      <4>4. QED
        BY <3>1, <3>4, <4>1, <4>2, <4>3
    <3>8. QED
      BY <3>3, <3>4, <3>6, <3>7 DEF RingOrder
  <2>10. QED
    BY <2>5, <2>6, <2>7, <2>8, <2>9
<1>5. CASE /\ ~HasFrame /\ state' = EndState /\ current' = EndCurrent
           /\ fault' = EndFault
           /\ UNCHANGED <<is_signaled, gpu, active, dirty>>
  <2>1. \A s \in Slots : /\ state'[s] = IF state[s] = "recording"
                                        THEN "executable" ELSE state[s]
                         /\ ~started_render_pass'[s]
    BY <1>2, <1>3, <1>5
  <2>2. NoFault' /\ Phases'
    BY <1>1, <1>3, <1>5 DEF NoFault, Phases, Idle, TypeOK
  <2>3. EndedReady'
    <3>1. dirty => ~recording
      BY <1>5 DEF HasFrame, EndHasRecord
    <3>2. QED
      BY <1>1, <1>5, <2>1, <3>1 DEF EndedReady
  <2>4. Window' /\ FencesTold' /\ WaitsEnd'
    BY <1>1, <1>3, <1>5, <2>1 DEF Window, FencesTold, WaitsEnd
  <2>5. Alike' /\ DirtyTold' /\ PassFits'
    BY <1>1, <1>3, <1>5, <2>1 DEF Alike, DirtyTold, PassFits, Idle
  <2>6. RingOrder'
    BY <1>5, <2>1 DEF RingOrder, Behind
  <2>7. QED
    BY <2>2, <2>3, <2>4, <2>5, <2>6
<1>6. QED
  BY <1>4, <1>5 DEF Submit

LEMMA RingInvSetMode ==
  ASSUME TypeOK, RingInv, Liberties = {}, NEW n \in {1, Count}, SetMode(n)
  PROVE  RingInv'
<1> USE CountAssumption
    DEF RingInv, SetMode, cmdVars, clientVars, driverVars
<1>1. Idle /\ left = 0 /\ ~recording
  BY DEF Phases
<1>2. NoFault' /\ FencesTold' /\ WaitsEnd' /\ EndedReady' /\ PassFits'
  BY DEF NoFault, FencesTold, WaitsEnd, EndedReady, PassFits
<1>3. Phases'
  BY <1>1 DEF Phases, Idle, TypeOK
<1>4. Window' /\ Alike' /\ DirtyTold'
  BY <1>1 DEF Window, Alike, DirtyTold
<1>5. RingOrder'
  BY DEF RingOrder, Behind
<1>6. QED
  BY <1>2, <1>3, <1>4, <1>5

LEMMA RingInvReinitialize ==
  ASSUME TypeOK, RingInv, Liberties = {}, Reinitialize
  PROVE  RingInv'
<1> USE CountAssumption DEF RingInv
<1>1. /\ Idle /\ left = 0 /\ ~recording /\ ~dirty /\ gpu = <<>>
      /\ active \in Slots
  BY DEF Reinitialize, Phases, TypeOK
<1>2. /\ UNCHANGED <<current, recording, active, num_cmd, dirty, call, left,
                     gpu, fault>>
      /\ \A s \in Slots : /\ state'[s] = "initial"
                           /\ is_signaled'[s] /\ fence'[s]
                           /\ ~started_render_pass'[s]
  BY DEF Reinitialize, chainVars, clientVars
<1>3. NoFault' /\ Phases' /\ EndedReady' /\ PassFits'
  BY <1>1, <1>2 DEF NoFault, Phases, Idle, EndedReady, PassFits
<1>4. Window' /\ FencesTold' /\ WaitsEnd' /\ Alike' /\ DirtyTold'
  BY <1>1, <1>2 DEF Window, FencesTold, WaitsEnd, Alike, DirtyTold
<1>5. RingOrder'
  BY <1>1, <1>2 DEF RingOrder, Behind, Slots
<1>6. QED
  BY <1>3, <1>4, <1>5

(* The buffer the device finishes is the furthest behind. *)
LEMMA RingInvFinish ==
  ASSUME TypeOK, RingInv, Finish
  PROVE  RingInv'
<1> USE CountAssumption DEF RingInv
<1> DEFINE s0 == gpu[1]
<1>1. /\ gpu # <<>> /\ gpu \in Seq(Slots) /\ Head(gpu) = s0
      /\ gpu' = Tail(gpu)
      /\ state' = [state EXCEPT ![s0] = "executable"]
      /\ fence' = [fence EXCEPT ![s0] = TRUE]
      /\ UNCHANGED <<current, recording, is_signaled, started_render_pass,
                     active, num_cmd, dirty, call, left, contents, fault>>
  BY DEF Finish, cmdVars, chainVars, clientVars, TypeOK
<1>2. Len(gpu) \in Nat /\ Len(gpu) >= 1 /\ s0 \in Slots /\ active \in Slots
  BY <1>1 DEF TypeOK
<1>3. Behind(s0) = Len(gpu) /\ state[s0] = "pending"
  BY <1>2 DEF RingOrder
<1>4. \A s \in Slots :
        /\ state'[s] = IF s = s0 THEN "executable" ELSE state[s]
        /\ s # s0 => (fence'[s] <=> fence[s])
        /\ s = s0 => fence'[s]
  BY <1>1, <1>2 DEF TypeOK
<1>5. NoFault' /\ Phases' /\ PassFits'
  BY <1>1 DEF NoFault, Phases, Idle, PassFits, Ahead
<1>6. Window'
  BY <1>1, <1>3, <1>4 DEF Window, Ahead
<1>7. FencesTold' /\ WaitsEnd'
  BY <1>1, <1>2, <1>3, <1>4 DEF FencesTold, WaitsEnd
<1>8. EndedReady'
  BY <1>1, <1>2, <1>3, <1>4 DEF EndedReady
<1>9. Alike' /\ DirtyTold'
  BY <1>1, <1>2, <1>3, <1>4 DEF Alike, DirtyTold, BeginsPass
<1>10. RingOrder'
  <2>1. Len(gpu') = Len(gpu) - 1
    BY <1>1, <1>2
  <2>2. ASSUME NEW i \in 1 .. Len(gpu')
        PROVE  Behind(gpu[i])' = Len(gpu') - i + 1
    <3>1. i + 1 \in 1 .. Len(gpu) /\ gpu'[i] = gpu[i + 1]
      BY <1>1, <1>2, <2>1
    <3>2. Behind(gpu[i + 1]) = Len(gpu) - (i + 1) + 1
      BY <3>1 DEF RingOrder
    <3>3. Behind(gpu[i])' = Behind(gpu[i + 1])
      BY <1>1, <3>1 DEF Behind
    <3>4. QED
      BY <1>2, <2>1, <3>1, <3>2, <3>3
  <2>3. ASSUME NEW s \in Slots
        PROVE  state'[s] = "pending" <=> Behind(s)' <= Len(gpu')
    <3>1. Behind(s) = Behind(s0) => s = s0
      BY <1>2 DEF Behind, Slots
    <3>2. Behind(s) \in Nat
      BY <1>2 DEF Behind, Slots
    <3>3. Behind(s)' = Behind(s)
      BY <1>1 DEF Behind
    <3>4. state[s] = "pending" <=> Behind(s) <= Len(gpu)
      BY DEF RingOrder
    <3>5. QED
      BY <1>2, <1>3, <1>4, <2>1, <3>1, <3>2, <3>3, <3>4
  <2>4. Len(gpu') <= Count
    BY <1>2, <2>1 DEF RingOrder
  <2>5. QED
    BY <2>2, <2>3, <2>4 DEF RingOrder
<1>11. QED
  BY <1>5, <1>6, <1>7, <1>8, <1>9, <1>10

(* Whatever the client does inside the discipline, and however the device  *)
(* keeps pace, the inductive invariant holds.                              *)
LEMMA RingInvInvariant ==
  ASSUME Liberties = {}
  PROVE  Spec => []RingInv
<1>1. TypeOK /\ RingInv /\ [Next]_vars => RingInv'
  <2> SUFFICES ASSUME TypeOK, RingInv, [Next]_vars
               PROVE  RingInv'
    OBVIOUS
  <2>1. CASE UNCHANGED vars
    BY <2>1 DEF vars, cmdVars, chainVars, clientVars, driverVars, RingInv,
       NoFault, Phases, Idle, Ahead, Window, FencesTold, WaitsEnd, EndedReady,
       Alike, DirtyTold, PassFits, RingOrder, Behind
  <2>2. CASE Next
    <3>1. ~Advance
      BY DEF Advance
    <3>2. QED
      BY <2>2, <3>1, RingInvInvoke, RingInvBeginNext, RingInvEmit, RingInvEnd,
         RingInvSubmit, RingInvSetMode, RingInvReinitialize, RingInvFinish
         DEF Next
  <2>3. QED
    BY <2>1, <2>2
<1>2. QED
  BY <1>1, RingInvInit, TypeCorrect, PTL DEF Spec

(* No call of a disciplined client makes the chain break a Vulkan rule: no *)
(* buffer in flight is begun again, no command is lost outside a buffer    *)
(* that was begun, no buffer is submitted before it was ended.             *)
THEOREM DisciplinedSafe ==
  ASSUME Liberties = {}
  PROVE  Spec => []NoFault
<1>1. RingInv => NoFault
  BY DEF RingInv
<1>2. QED
  BY <1>1, RingInvInvariant, PTL

(* Every fence the chain waits for is, or will be, signalled. *)
THEOREM DisciplinedWaitsEnd ==
  ASSUME Liberties = {}
  PROVE  Spec => []WaitsEnd
<1>1. RingInv => WaitsEnd
  BY DEF RingInv
<1>2. QED
  BY <1>1, RingInvInvariant, PTL

(* The buffers in flight are the ring's last ones, oldest first. *)
THEOREM DisciplinedRingOrder ==
  ASSUME Liberties = {}
  PROVE  Spec => []RingOrder
<1>1. RingInv => RingOrder
  BY DEF RingInv
<1>2. QED
  BY <1>1, RingInvInvariant, PTL

(* In mode All every buffer being recorded holds the same operations. *)
THEOREM DisciplinedAllAgree ==
  ASSUME Liberties = {}
  PROVE  Spec => []AllBuffersAgree
<1>1. TypeOK /\ RingInv => AllBuffersAgree
  <2> SUFFICES ASSUME TypeOK, RingInv, num_cmd = Count, recording, left = 0
               PROVE  \A s \in Slots : contents[s] = contents[active]
    BY DEF AllBuffersAgree
  <2>1. \A s \in Slots : Ahead(active, s) < Count
    BY AheadBounds, CountAssumption DEF TypeOK
  <2>2. \A s \in Slots : state[s] = "recording"
    BY <2>1, CountAssumption DEF RingInv, Window
  <2>3. QED
    BY <2>2 DEF RingInv, Alike
<1>2. QED
  BY <1>1, RingInvInvariant, TypeCorrect, PTL

(***************************************************************************)
(* The ring implements the frame queue.                                    *)
(***************************************************************************)

(* The frames in flight form a sequence, one for each buffer submitted. *)
LEMMA InFlightSeq ==
  ASSUME gpu \in Seq(Slots), contents \in [Slots -> Seq(Nat)]
  PROVE  /\ InFlight \in Seq(Seq(Nat))
         /\ Len(InFlight) = Len(gpu)
         /\ \A i \in 1 .. Len(gpu) : InFlight[i] = contents[gpu[i]]
<1>1. /\ Len(gpu) \in Nat
      /\ \A i \in 1 .. Len(gpu) : contents[gpu[i]] \in Seq(Nat)
  OBVIOUS
<1>2. InFlight \in [1 .. Len(gpu) -> Seq(Nat)]
  BY <1>1 DEF InFlight
<1>3. InFlight \in Seq(Seq(Nat))
  <2>1. \E n \in Nat : InFlight \in [1 .. n -> Seq(Nat)]
    BY <1>1, <1>2
  <2>2. Seq(Seq(Nat)) = UNION {[1 .. n -> Seq(Nat)] : n \in Nat}
    BY SeqDef
  <2>3. QED
    BY <2>1, <2>2, Zenon
<1>4. Len(InFlight) = Len(gpu)
  BY <1>1, <1>2, <1>3, LenProperties
<1>5. QED
  BY <1>3, <1>4 DEF InFlight

(* Every buffer in flight is pending. *)
LEMMA InFlightPending ==
  ASSUME TypeOK, RingInv, NEW i \in 1 .. Len(gpu)
  PROVE  gpu[i] \in Slots /\ state[gpu[i]] = "pending"
<1>1. gpu[i] \in Slots /\ Len(gpu) \in Nat
  BY DEF TypeOK
<1>2. Behind(gpu[i]) <= Len(gpu)
  BY <1>1 DEF RingInv, RingOrder
<1>3. QED
  BY <1>1, <1>2 DEF RingInv, RingOrder

(* A step that leaves the open frame, the buffers in flight and the history *)
(* as they are is no step of the frame queue.                              *)
LEMMA FrameStutter ==
  ASSUME TypeOK, RingInv, UNCHANGED <<issued, gpu, done>>,
         OpenFrame' = OpenFrame,
         \A s \in Slots : state[s] = "pending" => contents'[s] = contents[s]
  PROVE  UNCHANGED Frames!vars
<1>1. \A i \in 1 .. Len(gpu) : contents'[gpu[i]] = contents[gpu[i]]
  BY InFlightPending
<1>2. InFlight' = InFlight
  BY <1>1 DEF InFlight
<1>3. QED
  BY <1>2 DEF Frames!vars

(* Emit adds the operation to the open frame. *)
LEMMA EmitIssues ==
  ASSUME TypeOK, RingInv, Emit
  PROVE  Frames!Issue \/ UNCHANGED Frames!vars
<1> USE CountAssumption DEF RingInv
<1>1. /\ left = 0 /\ recording /\ active \in Slots
      /\ UNCHANGED <<recording, active, gpu, done, state>>
  BY DEF Emit, Phases, TypeOK
<1>2. state[active] = "recording"
  BY <1>1, AheadBounds DEF Window, TypeOK
<1>3. CASE call \in Silent
  <2>1. UNCHANGED <<contents, issued, dirty>>
    BY <1>3 DEF Emit
  <2>2. OpenFrame' = OpenFrame
    BY <1>1, <2>1 DEF OpenFrame
  <2>3. QED
    BY <1>1, <2>1, <2>2, FrameStutter
<1>4. CASE call \notin Silent
  <2>1. /\ issued' = issued + 1
        /\ \A s \in Slots : contents'[s] =
             IF s \in Visited(active, num_cmd)
             THEN Append(contents[s], issued + 1) ELSE contents[s]
    BY <1>4 DEF Emit, Written
  <2>2. \A s \in Visited(active, num_cmd) : state[s] = "recording"
    BY <1>1 DEF Visited, Window, TypeOK
  <2>3. active \in Visited(active, num_cmd)
    BY <1>1, AheadBounds DEF Visited, TypeOK
  <2>4. OpenFrame' = Append(OpenFrame, issued + 1)
    BY <1>1, <2>1, <2>3 DEF OpenFrame
  <2>5. \A i \in 1 .. Len(gpu) : contents'[gpu[i]] = contents[gpu[i]]
    BY <2>1, <2>2, InFlightPending
  <2>6. InFlight' = InFlight
    BY <1>1, <2>5 DEF InFlight
  <2>7. QED
    BY <1>1, <2>1, <2>4, <2>6 DEF Frames!Issue
<1>5. QED
  BY <1>3, <1>4

(* Submit hands the open frame over whole, and there is room for it. *)
LEMMA SubmitHandsOver ==
  ASSUME TypeOK, RingInv, Submit
  PROVE  Frames!Submit \/ UNCHANGED Frames!vars
<1> USE CountAssumption DEF RingInv
<1>1. /\ Idle /\ active \in Slots /\ gpu \in Seq(Slots) /\ EndCurrent = active
      /\ contents \in [Slots -> Seq(Nat)]
  BY EndStopsAll DEF Submit, TypeOK
<1>2. recording' = FALSE /\ UNCHANGED <<issued, contents, done>>
  BY DEF Submit, clientVars
<1>3. CASE HasFrame /\ HandOver(EndCurrent)
  <2>1. /\ dirty /\ gpu' = Append(gpu, active) /\ dirty' = FALSE
    BY <1>1, <1>3 DEF HandOver, HasFrame, DirtyAfterSubmit
  <2>2. OpenFrame = contents[active] /\ OpenFrame # <<>> /\ OpenFrame' = <<>>
    BY <1>2, <2>1 DEF OpenFrame, DirtyTold
  <2>3. state[active] # "pending"
    <3>1. CASE recording
      BY <1>1, <3>1, AheadBounds DEF Window, Phases, TypeOK
    <3>2. CASE ~recording
      BY <2>1, <3>2 DEF EndedReady
    <3>3. QED
      BY <3>1, <3>2
  <2>4. Len(gpu) \in Nat /\ Len(gpu) < Count
    <3>1. Behind(active) = Count
      BY <1>1 DEF Behind, Slots
    <3>2. QED
      BY <1>1, <2>3, <3>1 DEF RingOrder
  <2>5. /\ InFlight \in Seq(Seq(Nat)) /\ Len(InFlight) = Len(gpu)
        /\ \A i \in 1 .. Len(gpu) : InFlight[i] = contents[gpu[i]]
    BY <1>1, InFlightSeq
  <2>6. InFlight' = Append(InFlight, OpenFrame)
    <3> DEFINE t == Append(InFlight, OpenFrame)
    <3>1. /\ t \in Seq(Seq(Nat)) /\ Len(t) = Len(gpu) + 1
          /\ \A i \in 1 .. Len(gpu) : t[i] = contents[gpu[i]]
          /\ t[Len(gpu) + 1] = contents[active]
      BY <1>1, <2>2, <2>5
    <3>2. /\ Len(gpu') = Len(gpu) + 1
          /\ \A i \in 1 .. Len(gpu) : gpu'[i] = gpu[i]
          /\ gpu'[Len(gpu) + 1] = active
      BY <1>1, <2>1
    <3> HIDE DEF t
    <3>3. t = [i \in 1 .. Len(gpu) + 1 |-> t[i]]
      BY <3>1, LenProperties
    <3>4. ASSUME NEW i \in 1 .. Len(gpu) + 1
          PROVE  t[i] = contents'[gpu'[i]]
      <4>1. i \in 1 .. Len(gpu) \/ i = Len(gpu) + 1
        BY <2>4
      <4>2. QED
        BY <1>2, <3>1, <3>2, <4>1
    <3>5. InFlight' = t
      BY <3>2, <3>3, <3>4 DEF InFlight
    <3>6. QED
      BY <3>5 DEF t
  <2>7. QED
    BY <1>2, <2>2, <2>4, <2>5, <2>6 DEF Frames!Submit
<1>4. CASE ~HasFrame /\ UNCHANGED <<gpu, active, dirty>>
  <2>1. OpenFrame' = OpenFrame
    BY <1>2, <1>4 DEF OpenFrame, HasFrame, EndHasRecord, DirtyTold
  <2>2. QED
    BY <1>2, <1>4, <2>1, FrameStutter
<1>5. QED
  BY <1>3, <1>4 DEF Submit

(* The buffer that finishes holds the oldest frame. *)
LEMMA FinishCompletes ==
  ASSUME TypeOK, RingInv, Finish
  PROVE  Frames!Complete
<1>1. /\ gpu # <<>> /\ gpu \in Seq(Slots) /\ contents \in [Slots -> Seq(Nat)]
      /\ gpu' = Tail(gpu) /\ done' = Append(done, contents[Head(gpu)])
      /\ UNCHANGED <<recording, dirty, active, contents, issued>>
  BY DEF Finish, cmdVars, chainVars, clientVars, TypeOK
<1>2. /\ InFlight \in Seq(Seq(Nat)) /\ Len(InFlight) = Len(gpu)
      /\ \A i \in 1 .. Len(gpu) : InFlight[i] = contents[gpu[i]]
  BY <1>1, InFlightSeq
<1>3. /\ Len(gpu) \in Nat /\ Len(gpu) >= 1 /\ Len(gpu') = Len(gpu) - 1
      /\ \A i \in 1 .. Len(gpu) - 1 : gpu'[i] = gpu[i + 1]
  BY <1>1
<1>4. InFlight # <<>> /\ Head(InFlight) = contents[Head(gpu)]
  BY <1>1, <1>2, <1>3
<1>5. InFlight' = Tail(InFlight)
  <2> DEFINE t == Tail(InFlight)
  <2>1. /\ t \in Seq(Seq(Nat)) /\ Len(t) = Len(gpu) - 1
        /\ \A i \in 1 .. Len(gpu) - 1 : t[i] = contents[gpu[i + 1]]
    BY <1>2, <1>3, <1>4
  <2> HIDE DEF t
  <2>2. t = [i \in 1 .. Len(gpu) - 1 |-> t[i]]
    BY <2>1, LenProperties
  <2>3. \A i \in 1 .. Len(gpu) - 1 : t[i] = contents'[gpu'[i]]
    BY <1>1, <1>3, <2>1
  <2>4. InFlight' = t
    BY <1>3, <2>2, <2>3 DEF InFlight
  <2>5. QED
    BY <2>4 DEF t
<1>6. OpenFrame' = OpenFrame
  BY <1>1 DEF OpenFrame
<1>7. QED
  BY <1>1, <1>4, <1>5, <1>6 DEF Frames!Complete

(* The remaining steps do not show. *)
LEMMA OthersStutter ==
  ASSUME TypeOK, RingInv, Liberties = {},
         \/ \E op \in Ops : Invoke(op)
         \/ BeginNext
         \/ End
         \/ \E n \in {1, Count} : SetMode(n)
         \/ Reinitialize
  PROVE  UNCHANGED Frames!vars
<1> USE CountAssumption
<1>1. CASE \E op \in Ops : Invoke(op)
  BY <1>1, FrameStutter
     DEF Invoke, cmdVars, chainVars, driverVars, OpenFrame
<1>2. CASE BeginNext
  <2>1. RingInv'
    BY <1>2, RingInvBeginNext
  <2>2. OpenFrame' = <<>>
    BY <1>2, <2>1
       DEF RingInv, Phases, DirtyTold, OpenFrame, BeginNext, chainVars
  <2>3. OpenFrame = <<>>
    BY <1>2 DEF RingInv, Phases, DirtyTold, OpenFrame, BeginNext
  <2>4. state[current] # "pending" /\ current \in Slots
    BY <1>2 DEF RingInv, FencesTold, BeginNext, MustWait, TypeOK
  <2>5. \A s \in Slots : state[s] = "pending" => contents'[s] = contents[s]
    BY <1>2, <2>4 DEF BeginNext, TypeOK
  <2>6. QED
    BY <1>2, <2>2, <2>3, <2>5, FrameStutter DEF BeginNext
<1>3. CASE End
  <2>1. OpenFrame' = OpenFrame
    BY <1>3 DEF End, OpenFrame, RingInv, DirtyTold
  <2>2. QED
    BY <1>3, <2>1, FrameStutter DEF End, clientVars
<1>4. CASE \E n \in {1, Count} : SetMode(n)
  BY <1>4, FrameStutter DEF SetMode, cmdVars, clientVars, driverVars, OpenFrame
<1>5. CASE Reinitialize
  <2>1. OpenFrame' = OpenFrame
    BY <1>5 DEF Reinitialize, chainVars, OpenFrame
  <2>2. \A s \in Slots : state[s] # "pending"
    BY <1>5 DEF Reinitialize, RingInv, RingOrder, Behind, TypeOK, Slots
  <2>3. QED
    BY <1>5, <2>1, <2>2, FrameStutter DEF Reinitialize, clientVars
<1>6. QED
  BY <1>1, <1>2, <1>3, <1>4, <1>5

(* A disciplined client of the chain sees a frame queue: every operation   *)
(* is executed once, in the order issued, in the frame it was recorded     *)
(* for, and no more than Count frames are ever in flight.                  *)
THEOREM ChainIsFrameQueue ==
  ASSUME Liberties = {}
  PROVE  Spec => IsFrameQueue
<1>1. Init => Frames!Init
  BY DEF Init, Frames!Init, OpenFrame, InFlight
<1>2. TypeOK /\ RingInv /\ [Next]_vars => [Frames!Next]_(Frames!vars)
  <2> SUFFICES ASSUME TypeOK, RingInv, [Next]_vars
               PROVE  Frames!Next \/ UNCHANGED Frames!vars
    OBVIOUS
  <2>1. CASE UNCHANGED vars
    BY <2>1, FrameStutter
       DEF vars, cmdVars, chainVars, clientVars, driverVars, OpenFrame
  <2>2. CASE Next
    <3>1. ~Advance
      BY DEF Advance
    <3>2. QED
      BY <2>2, <3>1, EmitIssues, SubmitHandsOver, FinishCompletes,
         OthersStutter DEF Next, Frames!Next
  <2>3. QED
    BY <2>1, <2>2
<1>3. QED
  BY <1>1, <1>2, RingInvInvariant, TypeCorrect, PTL
     DEF Spec, IsFrameQueue, Frames!Safety

=============================================================================
