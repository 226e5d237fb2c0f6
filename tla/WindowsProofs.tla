--------------------------- MODULE WindowsProofs ---------------------------
(***************************************************************************)
(* Proofs about Windows and Events, for every number of managers, tables'  *)
(* indices, subscribers, windows and events of SDL.                        *)
(***************************************************************************)
EXTENDS Windows, SequenceTheorems, FiniteSetTheorems, WellFoundedInduction, TLAPS

(***************************************************************************)
(* The order of the walk.                                                  *)
(***************************************************************************)

LEMMA RankIs ==
  \A t, u \in Tables : Rank(t) \in 1 .. 3 /\ (Rank(t) = Rank(u) => t = u)
BY DEF Tables, Rank

LEMMA OrderIs ==
  ASSUME NEW t \in Tables, NEW u \in Tables, NEW v \in Tables,
         NEW i \in Index, NEW j \in Index, NEW k \in Index
  PROVE  /\ ~Before(t, i, t, i)
         /\ Before(t, i, u, j) \/ Before(u, j, t, i) \/ (t = u /\ i = j)
         /\ Before(t, i, u, j) /\ Before(u, j, v, k) => Before(t, i, v, k)
<1>1. i \in Nat /\ j \in Nat /\ k \in Nat
  BY EventsAssumption
<1>2. /\ Rank(t) \in 1 .. 3 /\ Rank(u) \in 1 .. 3 /\ Rank(v) \in 1 .. 3
      /\ Rank(t) = Rank(u) => t = u
  BY RankIs
<1> HIDE DEF Rank
<1>3. QED
  BY <1>1, <1>2 DEF Before

(* A set of natural numbers has a least one. *)
LEMMA LeastOf ==
  ASSUME NEW S \in SUBSET Nat, S # {}
  PROVE  \E i \in S : \A j \in S : i <= j
<1> DEFINE R == StrictSubsetOrdering(Nat)
           F == FiniteSubsetsOf(Nat)
           T == {0 .. i : i \in S}
<1>1. T \subseteq F /\ T # {}
  <2>1. ASSUME NEW i \in S
        PROVE  0 .. i \in F
    <3>1. IsFiniteSet(0 .. i)
      BY FS_Interval
    <3>2. 0 .. i \subseteq Nat
      OBVIOUS
    <3>3. QED
      BY <3>1, <3>2 DEF FiniteSubsetsOf
  <2> HIDE DEF F
  <2>2. QED
    BY <2>1
<1>2. IsWellFoundedOn(R, F)
  BY FS_StrictSubsetOrderingWellFounded
<1>3. \E x \in T : \A y \in T : <<y, x>> \notin R
  <2> HIDE DEF R, F, T
  <2> QED
    BY <1>1, <1>2, WFMin
<1>4. PICK i \in S : \A j \in S : <<0 .. j, 0 .. i>> \notin R
  BY <1>3
<1>5. ASSUME NEW j \in S, j < i
      PROVE  FALSE
  <2>1. (0 .. j) \subseteq (0 .. i) /\ i \in 0 .. i /\ i \notin 0 .. j
    BY <1>5
  <2>2. <<0 .. j, 0 .. i>> \in R
    BY <2>1 DEF StrictSubsetOrdering
  <2>3. QED
    BY <1>4, <1>5, <2>2
<1>6. QED
  BY <1>5

(* What is known of a subscriber.                                          *)
LEMMA SubsAre ==
  ASSUME EventsTypeOK
  PROVE  /\ Len(subs) \in Nat /\ DOMAIN subs = 1 .. Len(subs)
         /\ \A s \in DOMAIN subs :
              subs[s].table \in Tables /\ subs[s].index \in Index /\ subs[s].live \in BOOLEAN
         /\ \A s \in DOMAIN subs : subs[s] = [table |-> subs[s].table, index |-> subs[s].index,
                                              live |-> subs[s].live]
<1>1. subs \in Seq(Subscriptions)
  BY DEF EventsTypeOK
<1>2. Len(subs) \in Nat /\ DOMAIN subs = 1 .. Len(subs)
  BY <1>1, LenProperties
<1>3. \A s \in DOMAIN subs : subs[s] \in Subscriptions
  BY <1>1, <1>2, ElementOfSeq
<1>4. QED
  BY <1>2, <1>3 DEF Subscriptions

\* The places of a set of subscribers that stand in the tables.
Stand(set) == \A s \in set : table[subs[s].table][subs[s].index] = s

(* Of subscribers that stand in the tables one comes first.                *)
LEMMA FirstIs ==
  ASSUME EventsTypeOK, NEW set \in SUBSET DOMAIN subs, set # {}, Stand(set)
  PROVE  /\ First(set) \in set
         /\ \A r \in set : First(set) = r
              \/ Before(subs[First(set)].table, subs[First(set)].index,
                        subs[r].table, subs[r].index)
<1> DEFINE Less(s, r) == Before(subs[s].table, subs[s].index, subs[r].table, subs[r].index)
           ranks == {Rank(subs[s].table) : s \in set}
<1>1. \A s \in set : subs[s].table \in Tables /\ subs[s].index \in Index
  BY SubsAre
<1>2. ranks \in SUBSET Nat /\ ranks # {}
  BY <1>1, RankIs
<1>3. PICK k \in ranks : \A j \in ranks : k <= j
  BY <1>2, LeastOf
<1> DEFINE first == {s \in set : Rank(subs[s].table) = k}
           at == {subs[s].index : s \in first}
<1>4. at \in SUBSET Nat /\ at # {}
  BY <1>1, <1>3, EventsAssumption
<1>5. PICK i \in at : \A j \in at : i <= j
  BY <1>4, LeastOf
<1>6. PICK s \in first : subs[s].index = i
  BY <1>5
<1>7. ASSUME NEW r \in set, r # s
      PROVE  Less(s, r)
  <2>1. Rank(subs[r].table) \in ranks /\ Rank(subs[s].table) = k
    BY <1>6
  <2>2. CASE Rank(subs[r].table) # k
    <3>1. k <= Rank(subs[r].table) /\ k \in Nat /\ Rank(subs[r].table) \in Nat
      BY <1>2, <1>3, <2>1
    <3>2. Rank(subs[s].table) < Rank(subs[r].table)
      BY <2>1, <2>2, <3>1
    <3>3. QED
      BY <3>2 DEF Before
  <2>3. CASE Rank(subs[r].table) = k
    <3>1. subs[r].table = subs[s].table
      BY <1>1, <1>6, <2>3, RankIs
    <3>2. subs[r].index # subs[s].index
      BY <1>6, <1>7, <3>1 DEF Stand
    <3>3. subs[r].index \in at
      BY <2>3
    <3>4. i <= subs[r].index /\ i \in Nat /\ subs[r].index \in Nat
      <4> HIDE DEF at, first
      <4> QED
        BY <1>4, <1>5, <3>3
    <3>5. subs[s].index < subs[r].index
      BY <1>6, <3>2, <3>4
    <3>6. QED
      BY <3>1, <3>5 DEF Before
  <2>4. QED
    BY <2>2, <2>3
<1>8. \E x \in set : \A r \in set : x = r \/ Less(x, r)
  BY <1>6, <1>7
<1>9. First(set) = CHOOSE x \in set : \A r \in set : x = r \/ Less(x, r)
  BY DEF First
<1>10. QED
  BY <1>8, <1>9

(***************************************************************************)
(* Types.                                                                  *)
(***************************************************************************)

LEMMA SetsStand ==
  ASSUME NEW event, NEW t, NEW i
  PROVE  /\ Ahead(event, t, i) \in SUBSET DOMAIN subs /\ Stand(Ahead(event, t, i))
         /\ Found(event) \in SUBSET DOMAIN subs /\ Stand(Found(event))
         /\ Due(event) \in SUBSET DOMAIN subs
BY DEF Ahead, Found, Due, Stand

\* A frame of the stack, in parts.
LEMMA FrameIs ==
  ASSUME EventsTypeOK, NEW k \in DOMAIN stack
  PROVE  /\ stack[k] \in Frames
         /\ stack[k].event \in EventSet /\ stack[k].at \in DOMAIN subs
         /\ stack[k].pushed \in BOOLEAN
         /\ stack[k].ran \in SUBSET DOMAIN subs /\ stack[k].due \in SUBSET DOMAIN subs
         /\ Len(stack) \in Nat /\ DOMAIN stack = 1 .. Len(stack)
<1>1. stack \in Seq(Frames)
  BY DEF EventsTypeOK
<1>2. Len(stack) \in Nat /\ DOMAIN stack = 1 .. Len(stack)
  BY <1>1, LenProperties
<1>3. stack[k] \in Frames
  BY <1>1, <1>2, ElementOfSeq
<1>4. DOMAIN subs = 1 .. Len(subs)
  BY SubsAre
<1>5. QED
  BY <1>2, <1>3, <1>4 DEF Frames

LEMMA WalkType ==
  ASSUME EventsTypeOK, NEW event \in EventSet, Found(event) # {}
  PROVE  Walk(event) \in Frames
<1>1. First(Found(event)) \in DOMAIN subs
  BY FirstIs, SetsStand
<1>2. QED
  BY <1>1, SubsAre, SetsStand DEF Walk, Frames

LEMMA TypePushing ==
  ASSUME EventsTypeOK, NEW event \in EventSet, Pushing(event)
  PROVE  EventsTypeOK'
<1>1. stack' \in Seq(Frames)
  <2>1. CASE UNCHANGED stack
    BY <2>1 DEF EventsTypeOK
  <2>2. CASE Found(event) # {} /\ ~UNCHANGED stack
    <3> DEFINE told == [k \in DOMAIN stack |-> [stack[k] EXCEPT !.pushed = TRUE]]
    <3>1. stack \in Seq(Frames) /\ Len(stack) \in Nat /\ DOMAIN stack = 1 .. Len(stack)
      BY LenProperties DEF EventsTypeOK
    <3>2. \A k \in DOMAIN stack : told[k] \in Frames
      BY FrameIs DEF Frames
    <3>3. told \in Seq(Frames)
      BY <3>1, <3>2, IsASeq
    <3>4. stack' = Append(told, Walk(event))
      BY <2>2 DEF Pushing
    <3> HIDE DEF told
    <3>5. QED
      BY <2>2, <3>3, <3>4, WalkType, AppendProperties
  <2>3. QED
    BY <2>1, <2>2 DEF Pushing
<1>2. QED
  BY <1>1 DEF Pushing, EventsTypeOK, Frames

LEMMA TypeConstruct ==
  ASSUME EventsTypeOK, NEW m \in Managers, Construct(m)
  PROVE  EventsTypeOK'
BY DEF EventsTypeOK, Construct, Frames

\* Subscribers that are listed are subscribers.
LEMMA ListedIn ==
  ASSUME EventsTypeOK, NEW m \in Managers
  PROVE  Listed(m) \in SUBSET DOMAIN subs
<1>1. ASSUME NEW t \in Tables, NEW k \in DOMAIN local[m][t]
      PROVE  local[m][t][k] \in DOMAIN subs
  <2>1. local[m][t] \in Seq(1 .. Len(subs))
    BY DEF EventsTypeOK
  <2>2. QED
    BY <1>1, <2>1, ElementOfSeq, LenProperties, SubsAre
<1>2. QED
  BY <1>1 DEF Listed

LEMMA DeletedIs ==
  \A r \in Subscriptions :
    LET deleted == [r EXCEPT !.live = FALSE]
    IN  /\ deleted \in Subscriptions
        /\ deleted.table = r.table /\ deleted.index = r.index /\ deleted.live = FALSE
BY DEF Subscriptions

(* What ResetManager leaves of each subscriber.                            *)
LEMMA ResetIs ==
  ASSUME EventsTypeOK, NEW m, ResetManager(m)
  PROVE  /\ subs' \in Seq(Subscriptions) /\ Len(subs') = Len(subs) /\ DOMAIN subs' = DOMAIN subs
         /\ \A s \in DOMAIN subs :
              /\ subs'[s].table = subs[s].table /\ subs'[s].index = subs[s].index
              /\ subs'[s].live = (s \notin Listed(m) /\ subs[s].live)
<1> DEFINE New(s) == IF s \in Listed(m) THEN [subs[s] EXCEPT !.live = FALSE] ELSE subs[s]
<1>1. DOMAIN subs = 1 .. Len(subs) /\ Len(subs) \in Nat
  BY SubsAre
<1>2. \A s \in DOMAIN subs : subs[s] \in Subscriptions /\ subs[s].live \in BOOLEAN
  BY SubsAre, ElementOfSeq DEF EventsTypeOK
<1>3. ASSUME NEW s \in DOMAIN subs
      PROVE  /\ New(s) \in Subscriptions
             /\ New(s).table = subs[s].table /\ New(s).index = subs[s].index
             /\ New(s).live = (s \notin Listed(m) /\ subs[s].live)
  <2>1. CASE s \in Listed(m)
    BY <1>2, <2>1, DeletedIs
  <2>2. CASE s \notin Listed(m)
    BY <1>2, <2>2
  <2>3. QED
    BY <2>1, <2>2
<1>4. subs' = [s \in DOMAIN subs |-> New(s)]
  BY DEF ResetManager
<1> HIDE DEF New
<1>5. subs' \in [1 .. Len(subs) -> Subscriptions]
  BY <1>1, <1>3, <1>4
<1>6. subs' \in Seq(Subscriptions) /\ Len(subs') = Len(subs)
  BY <1>1, <1>5
<1>7. QED
  BY <1>1, <1>3, <1>4, <1>6

LEMMA TypeReset ==
  ASSUME EventsTypeOK, NEW m \in Managers, ResetManager(m), UNCHANGED stack,
         local' \in [Managers -> [Tables -> Seq(1 .. Len(subs))]], managers' \in SUBSET Managers
  PROVE  EventsTypeOK' /\ Len(subs') = Len(subs) /\ DOMAIN subs' = DOMAIN subs
<1>1. subs' \in Seq(Subscriptions) /\ Len(subs') = Len(subs) /\ DOMAIN subs' = DOMAIN subs
  BY ResetIs
<1>2. table' \in [Tables -> [Index -> 0 .. Len(subs)]]
  <2>1. table \in [Tables -> [Index -> 0 .. Len(subs)]]
    BY DEF EventsTypeOK
  <2>2. 0 \in 0 .. Len(subs)
    BY SubsAre
  <2>3. table' = WithoutEntries(Listed(m))
    BY DEF ResetManager
  <2>4. QED
    BY <2>1, <2>2, <2>3 DEF WithoutEntries
<1>3. wrong' \in {"none", "erased twice", "erased under the walk"}
  BY DEF ResetManager, EventsTypeOK
<1>4. Frames' = Frames
  BY <1>1 DEF Frames, EventSet
<1>5. QED
  BY <1>1, <1>2, <1>3, <1>4 DEF EventsTypeOK

\* A subscriber allocated is the last, and changes none of the others.
LEMMA AppendedIs ==
  ASSUME EventsTypeOK, NEW t \in Tables, NEW i \in Index,
         subs' = Append(subs, [table |-> t, index |-> i, live |-> TRUE])
  PROVE  /\ subs' \in Seq(Subscriptions) /\ Len(subs') = Len(subs) + 1
         /\ DOMAIN subs' = DOMAIN subs \union {Len(subs) + 1} /\ Len(subs) + 1 \notin DOMAIN subs
         /\ \A s \in DOMAIN subs : subs'[s] = subs[s]
         /\ subs'[Len(subs) + 1] = [table |-> t, index |-> i, live |-> TRUE]
<1>1. subs \in Seq(Subscriptions) /\ Len(subs) \in Nat /\ DOMAIN subs = 1 .. Len(subs)
  BY SubsAre DEF EventsTypeOK
<1>2. [table |-> t, index |-> i, live |-> TRUE] \in Subscriptions
  BY DEF Subscriptions
<1>3. QED
  BY <1>1, <1>2, AppendProperties

\* A frame stays one when subscribers are allocated.
LEMMA FramesGrow ==
  ASSUME EventsTypeOK, Len(subs') \in Nat, Len(subs) <= Len(subs')
  PROVE  Seq(Frames) \subseteq Seq(Frames')
<1>1. 1 .. Len(subs) \subseteq 1 .. Len(subs')
  BY SubsAre
<1>2. Frames \subseteq Frames'
  BY <1>1 DEF Frames, EventSet
<1>3. QED
  BY <1>2

LEMMA TypeEnroll ==
  ASSUME EventsTypeOK, NEW m \in Managers, NEW t \in Tables, NEW i \in Index, Enroll(m, t, i)
  PROVE  EventsTypeOK'
<1> DEFINE s == Len(subs) + 1
<1>1. Len(subs) \in Nat /\ DOMAIN subs = 1 .. Len(subs)
  BY SubsAre
<1>2. subs' \in Seq(Subscriptions) /\ Len(subs') = s
  BY AppendedIs DEF Enroll
<1>3. 0 .. Len(subs) \subseteq 0 .. s /\ 1 .. Len(subs) \subseteq 1 .. s /\ s \in 1 .. s /\ s \in 0 .. s
  BY <1>1
<1>4. \/ table' = table \/ table' = [table EXCEPT ![t][i] = s]
  BY DEF Enroll
<1>5. \/ local' = local \/ local' = [local EXCEPT ![m][t] = Append(@, s)]
  BY DEF Enroll, WithListed
<1> HIDE DEF s
<1>6. table' \in [Tables -> [Index -> 0 .. s]]
  BY <1>3, <1>4, ZenonT(30) DEF EventsTypeOK
<1>7. local' \in [Managers -> [Tables -> Seq(1 .. s)]]
  <2>1. \A list \in Seq(1 .. Len(subs)) : list \in Seq(1 .. s)
    BY <1>3, SeqMonotonic
  <2>2. local \in [Managers -> [Tables -> Seq(1 .. s)]]
    BY <2>1 DEF EventsTypeOK
  <2>3. Append(local[m][t], s) \in Seq(1 .. s)
    BY <1>3, <2>2, AppendProperties
  <2>4. [local[m] EXCEPT ![t] = Append(local[m][t], s)] \in [Tables -> Seq(1 .. s)]
    BY <2>2, <2>3
  <2>5. CASE local' = [local EXCEPT ![m] = [local[m] EXCEPT ![t] = Append(local[m][t], s)]]
    BY <2>2, <2>4, <2>5
  <2>6. QED
    BY <1>5, <2>2, <2>5, Zenon
<1>8. Seq(Frames) \subseteq Seq(Frames')
  BY <1>1, <1>2, FramesGrow DEF s
<1>9. QED
  BY <1>2, <1>6, <1>7, <1>8 DEF EventsTypeOK, Enroll

\* The frames below the innermost.
LEMMA RestIs ==
  ASSUME EventsTypeOK, stack # <<>>
  PROVE  LET rest == SubSeq(stack, 1, Len(stack) - 1)
         IN  /\ Len(stack) \in DOMAIN stack
             /\ rest \in Seq(Frames) /\ Len(rest) = Len(stack) - 1
             /\ \A k \in 1 .. Len(stack) - 1 : k \in DOMAIN stack /\ rest[k] = stack[k]
<1>1. stack \in Seq(Frames) /\ Len(stack) \in Nat /\ DOMAIN stack = 1 .. Len(stack)
  BY LenProperties DEF EventsTypeOK
<1>2. Len(stack) >= 1
  BY <1>1, EmptySeq
<1>3. QED
  BY <1>1, <1>2, SubSeqProperties

\* The walk that goes on.
Goes(frame, r, s) == [frame EXCEPT !.at = r, !.pushed = FALSE, !.ran = frame.ran \union {s}]

LEMMA GoesIs ==
  ASSUME EventsTypeOK, NEW frame \in Frames, NEW r \in DOMAIN subs, NEW s \in DOMAIN subs
  PROVE  /\ Goes(frame, r, s) \in Frames
         /\ Goes(frame, r, s).event = frame.event /\ Goes(frame, r, s).at = r
         /\ Goes(frame, r, s).due = frame.due
         /\ Goes(frame, r, s).ran = frame.ran \union {s}
BY SubsAre DEF Goes, Frames

LEMMA NextFrameIs ==
  ASSUME EventsTypeOK, Len(stack) \in DOMAIN stack, NEW r \in DOMAIN subs, NEW s \in DOMAIN subs
  PROVE  LET top == stack[Len(stack)]
             on == Goes(top, r, s)
         IN  /\ on \in Frames
             /\ on.event = top.event /\ on.at = r /\ on.due = top.due
             /\ on.ran = top.ran \union {s}
<1>1. stack[Len(stack)] \in Frames
  BY FrameIs
<1>2. QED
  BY <1>1, GoesIs

(* What Return does.                                                       *)
LEMMA ReturnIs ==
  ASSUME EventsTypeOK, Return
  PROVE  LET top  == stack[Len(stack)]
             rest == SubSeq(stack, 1, Len(stack) - 1)
             next == Ahead(top.event, subs[top.at].table, subs[top.at].index)
         IN  /\ top.at \in DOMAIN subs
             /\ \/ ~subs[top.at].live /\ UNCHANGED stack
                \/ subs[top.at].live /\ next = {} /\ stack' = rest /\ UNCHANGED wrong
                \/ /\ subs[top.at].live /\ First(next) \in next /\ First(next) \in DOMAIN subs
                   /\ \A r \in next : First(next) = r
                        \/ Before(subs[First(next)].table, subs[First(next)].index,
                                  subs[r].table, subs[r].index)
                   /\ stack' = Append(rest, Goes(top, First(next), top.at))
                   /\ UNCHANGED wrong
<1> DEFINE top  == stack[Len(stack)]
           next == Ahead(top.event, subs[top.at].table, subs[top.at].index)
<1>1. stack # <<>>
  BY DEF Return
<1>2. top.at \in DOMAIN subs
  BY <1>1, RestIs, FrameIs
<1>3. next \in SUBSET DOMAIN subs /\ Stand(next)
  BY SetsStand
<1>4. CASE next = {}
  BY <1>2, <1>4 DEF Return
<1>5. CASE next # {}
  <2>1. /\ First(next) \in next
        /\ \A r \in next : First(next) = r
             \/ Before(subs[First(next)].table, subs[First(next)].index,
                       subs[r].table, subs[r].index)
    <3> HIDE DEF next
    <3>1. QED
      BY <1>3, <1>5, FirstIs
  <2>2. \/ ~subs[top.at].live /\ UNCHANGED stack
        \/ /\ subs[top.at].live
           /\ stack' = Append(SubSeq(stack, 1, Len(stack) - 1), Goes(top, First(next), top.at))
           /\ UNCHANGED wrong
    BY <1>5, Zenon DEF Return, Goes
  <2>3. QED
    BY <1>2, <1>3, <2>1, <2>2
<1>6. QED
  BY <1>4, <1>5

LEMMA TypeReturn ==
  ASSUME EventsTypeOK, Return
  PROVE  EventsTypeOK'
<1> DEFINE top  == stack[Len(stack)]
           rest == SubSeq(stack, 1, Len(stack) - 1)
<1>1. stack # <<>>
  BY DEF Return
<1>2. rest \in Seq(Frames)
  BY <1>1, RestIs
<1>3. top.at \in DOMAIN subs
  BY ReturnIs
<1>4. stack' \in Seq(Frames)
  <2>1. CASE UNCHANGED stack
    BY <2>1 DEF EventsTypeOK
  <2>2. CASE stack' = rest
    BY <1>2, <2>2
  <2>3. CASE \E r \in DOMAIN subs : stack' = Append(rest, Goes(top, r, top.at))
    <3>1. PICK r \in DOMAIN subs : stack' = Append(rest, Goes(top, r, top.at))
      BY <2>3
    <3>2. Goes(top, r, top.at) \in Frames
      BY <1>1, <1>3, RestIs, NextFrameIs
    <3>3. QED
      BY <1>2, <3>1, <3>2, AppendProperties
  <2>4. QED
    BY <2>1, <2>2, <2>3, ReturnIs
<1>5. QED
  BY <1>4 DEF Return, EventsTypeOK, Frames

LEMMA TypeOfManagers ==
  ASSUME EventsTypeOK, OfManagers
  PROVE  EventsTypeOK'
<1>1. PICK m \in Managers :
        \/ Construct(m) \/ Reset(m) \/ Destroy(m)
        \/ \E p \in Places : Enroll(m, p[1], p[2])
        \/ \E event \in PushedByClient : Push(m, event)
  BY DEF OfManagers
<1> DEFINE Locals == [Managers -> [Tables -> Seq(1 .. Len(subs))]]
<1>2. local \in Locals /\ managers \in SUBSET Managers
  BY DEF EventsTypeOK
<1>3. CASE Construct(m)
  BY <1>3, TypeConstruct
<1>4. CASE Reset(m)
  BY <1>2, <1>4, TypeReset DEF Reset
<1>5. CASE Destroy(m)
  <2>1. NoCallbacks \in [Tables -> Seq(1 .. Len(subs))]
    BY DEF NoCallbacks
  <2>2. local' \in Locals
    BY <1>2, <1>5, <2>1 DEF Destroy
  <2>3. QED
    BY <1>2, <1>5, <2>2, TypeReset DEF Destroy
<1>6. CASE \E p \in Places : Enroll(m, p[1], p[2])
  <2>1. PICK p \in Places : Enroll(m, p[1], p[2])
    BY <1>6
  <2>2. p[1] \in Tables /\ p[2] \in Index
    BY EventsAssumption
  <2>3. QED
    BY <2>1, <2>2, TypeEnroll
<1>7. CASE \E event \in PushedByClient : Push(m, event)
  <2>1. PICK event \in PushedByClient : Push(m, event)
    BY <1>7
  <2>2. event \in EventSet
    BY EventsAssumption DEF EventSet
  <2>3. QED
    BY <2>1, <2>2, TypePushing DEF Push
<1>8. QED
  BY <1>1, <1>3, <1>4, <1>5, <1>6, <1>7

\* What SDL gives is converted to an event.
LEMMA ConvertedIs ==
  \A e \in Inputs : e.kind # "motion" => Converted(e) \in EventSet
<1>1. /\ None \in Index /\ Escape \in Index /\ KeyDown \in Index /\ KeyUp \in Index
      /\ ButtonDown \in Index /\ ButtonUp \in Index /\ WindowExit \in Index
  BY WindowsAssumption DEF None, Escape, KeyDown, KeyUp, ButtonDown, ButtonUp, WindowExit
<1>2. \A c \in Codes : KeyFromSDL(c) \in Index
  BY <1>1 DEF KeyFromSDL
<1>3. SUFFICES ASSUME NEW e \in Inputs, e.kind # "motion"
               PROVE  Converted(e) \in EventSet
  OBVIOUS
<1>4. \/ e.kind \in {"down", "up"} /\ e.code \in Codes
      \/ e.kind \in Plain
  BY <1>3 DEF Inputs
<1>5. QED
  BY <1>1, <1>2, <1>4 DEF Converted, EventSet, Plain

\* The first of SDL's events, and the others.
LEMMA HeadIs ==
  ASSUME TypeOK, sdlQueue # <<>>
  PROVE  /\ Head(sdlQueue) \in Inputs /\ Tail(sdlQueue) \in Seq(Inputs)
         /\ Len(sdlQueue) \in Nat \ {0} /\ Head(sdlQueue) = sdlQueue[1]
         /\ DOMAIN sdlQueue = 1 .. Len(sdlQueue)
         /\ Len(Tail(sdlQueue)) = Len(sdlQueue) - 1
         /\ \A k \in 1 .. Len(sdlQueue) - 1 : Tail(sdlQueue)[k] = sdlQueue[k + 1]
BY HeadTailProperties, LenProperties, EmptySeq DEF TypeOK

LEMMA MotionIs ==
  \A e \in Inputs : e.kind = "motion" => e.x \in Positions /\ e.xrel \in Int
BY DEF Inputs, Plain

LEMMA TypePoll ==
  ASSUME TypeOK, Poll
  PROVE  TypeOK'
<1> DEFINE e == Head(sdlQueue)
<1>1. e \in Inputs /\ Tail(sdlQueue) \in Seq(Inputs)
  BY HeadIs DEF Poll
<1>2. CASE e.kind = "motion"
  <2>1. Motion(e)
    BY <1>2 DEF Poll
  <2>2. e.x \in Positions /\ e.xrel \in Int
    BY <1>1, <1>2, MotionIs
  <2>3. EventsTypeOK'
    BY <2>1 DEF Motion, TypeOK, EventsTypeOK, eventVars, Frames
  <2> HIDE DEF e
  <2>4. mouse' \in Positions /\ delta' \in Int /\ moved' \in BOOLEAN
    BY <2>1, <2>2 DEF Motion, Remembers
  <2>5. UNCHANGED <<loop, start>>
    BY <2>1 DEF Motion
  <2>6. QED
    BY <1>1, <2>3, <2>4, <2>5 DEF Poll, TypeOK, windowVars
<1>3. CASE e.kind # "motion"
  <2>1. Pushing(Converted(e)) /\ UNCHANGED <<mouseVars, loopVars>>
    BY <1>3 DEF Poll
  <2>2. EventsTypeOK'
    <3> HIDE DEF e
    <3>1. Converted(e) \in EventSet
      BY <1>1, <1>3, ConvertedIs
    <3>2. QED
      BY <2>1, <3>1, TypePushing DEF TypeOK
  <2>3. QED
    BY <1>1, <2>1, <2>2 DEF Poll, TypeOK, windowVars, mouseVars, loopVars
<1>4. QED
  BY <1>2, <1>3

LEMMA TypeInput ==
  ASSUME TypeOK, Input
  PROVE  TypeOK'
<1>1. EventsTypeOK'
  BY DEF Input, TypeOK, EventsTypeOK, eventVars, Frames
<1>2. sdlQueue' \in Seq(Inputs) /\ pointer' \in Positions
  <2>1. sdlQueue \in Seq(Inputs) /\ pointer \in Positions
    BY DEF TypeOK
  <2>2. CASE \E c \in Codes, kind \in {"down", "up"} :
               sdlQueue' = Append(sdlQueue, [kind |-> kind, code |-> c]) /\ UNCHANGED pointer
    <3>1. PICK c \in Codes, kind \in {"down", "up"} :
            sdlQueue' = Append(sdlQueue, [kind |-> kind, code |-> c]) /\ UNCHANGED pointer
      BY <2>2
    <3>2. [kind |-> kind, code |-> c] \in Inputs
      BY DEF Inputs
    <3>3. QED
      BY <2>1, <3>1, <3>2, AppendProperties
  <2>3. CASE \E kind \in Plain : sdlQueue' = Append(sdlQueue, [kind |-> kind]) /\ UNCHANGED pointer
    <3>1. PICK kind \in Plain : sdlQueue' = Append(sdlQueue, [kind |-> kind]) /\ UNCHANGED pointer
      BY <2>3
    <3>2. [kind |-> kind] \in Inputs
      BY DEF Inputs
    <3>3. QED
      BY <2>1, <3>1, <3>2, AppendProperties
  <2>4. CASE \E p \in Positions \ {pointer} :
               /\ sdlQueue' = Append(sdlQueue, [kind |-> "motion", x |-> p, xrel |-> p - pointer])
               /\ pointer' = p
    <3>1. PICK p \in Positions :
            /\ sdlQueue' = Append(sdlQueue, [kind |-> "motion", x |-> p, xrel |-> p - pointer])
            /\ pointer' = p
      BY <2>4
    <3>2. p - pointer \in Int
      BY <2>1, WindowsAssumption
    <3>3. [kind |-> "motion", x |-> p, xrel |-> p - pointer] \in Inputs
      BY <3>2 DEF Inputs
    <3>4. QED
      BY <2>1, <3>1, <3>3, AppendProperties
  <2>5. QED
    BY <2>2, <2>3, <2>4 DEF Input
<1>3. QED
  BY <1>1, <1>2 DEF Input, TypeOK, windowVars, mouseVars, loopVars

(* Types are kept by every step, whatever liberties a program takes.       *)
LEMMA TypeNext ==
  ASSUME TypeOK, [Next]_vars
  PROVE  TypeOK'
<1> USE DEF windowVars, mouseVars, loopVars, sdlVars
<1>1. CASE Program
  <2>1. CASE OfManagers /\ UNCHANGED <<windowVars, mouseVars, loopVars, sdlVars>>
    BY <2>1, TypeOfManagers DEF TypeOK
  <2>2. CASE \E w \in Ids : HandleEvents(w)
    BY <2>2 DEF HandleEvents, TypeOK, EventsTypeOK, eventVars, Frames
  <2>3. CASE \E w \in Ids, described \in [Attributes -> Settings] : AddWindow(w, described)
    <3>1. PICK w \in Ids, described \in [Attributes -> Settings] : AddWindow(w, described)
      BY <2>3
    <3>2. stored' \in [Ids -> [Attributes -> Settings]] /\ shown' \in [Ids -> [Attributes -> Settings]]
      BY <3>1 DEF AddWindow, TypeOK
    <3>3. QED
      BY <3>1, <3>2 DEF AddWindow, TypeOK, EventsTypeOK, eventVars, Frames
  <2>4. CASE \E w \in Ids, a \in Attributes, v \in Settings : SetAttribute(w, a, v)
    <3>1. PICK w \in Ids, a \in Attributes, v \in Settings : SetAttribute(w, a, v)
      BY <2>4
    <3>2. \A f \in [Ids -> [Attributes -> Settings]] :
            [f EXCEPT ![w] = [f[w] EXCEPT ![a] = v]] \in [Ids -> [Attributes -> Settings]]
      OBVIOUS
    <3>3. stored' \in [Ids -> [Attributes -> Settings]] /\ shown' \in [Ids -> [Attributes -> Settings]]
      BY <3>1, <3>2 DEF SetAttribute, TypeOK
    <3>4. QED
      BY <3>1, <3>3 DEF SetAttribute, TypeOK, EventsTypeOK, eventVars, Frames
  <2>5. QED
    BY <1>1, <2>1, <2>2, <2>3, <2>4 DEF Program
<1>2. CASE Returns
  BY <1>2, TypeReturn DEF Returns, TypeOK
<1>3. CASE Poll
  BY <1>3, TypePoll
<1>4. CASE Polled
  <2>1. delta' \in Int /\ mouse' \in Positions
    BY <1>4, WindowsAssumption DEF Polled, TypeOK
  <2>2. QED
    BY <1>4, <2>1 DEF Polled, TypeOK, EventsTypeOK, eventVars, Frames
<1>5. CASE Input
  BY <1>5, TypeInput
<1>6. CASE UNCHANGED vars
  BY <1>6 DEF vars, TypeOK, EventsTypeOK, eventVars, Frames
<1>7. QED
  BY <1>1, <1>2, <1>3, <1>4, <1>5, <1>6 DEF Next

LEMMA TypeInit == Init => TypeOK
<1> SUFFICES ASSUME Init
             PROVE  TypeOK
  OBVIOUS
<1>2. Default \in Settings
  BY WindowsAssumption DEF Default
<1>3. EventsTypeOK
  <2>1. /\ table = [t \in Tables |-> [i \in Index |-> 0]] /\ subs = <<>>
        /\ local = [m \in Managers |-> NoCallbacks] /\ managers = {}
        /\ stack = <<>> /\ wrong = "none"
    BY DEF Init, EventsInit
  <2>2. 0 \in 0 .. Len(subs) /\ subs \in Seq(Subscriptions) /\ stack \in Seq(Frames)
    BY <2>1
  <2>3. NoCallbacks \in [Tables -> Seq(1 .. Len(subs))]
    BY DEF NoCallbacks
  <2>4. QED
    BY <2>1, <2>2, <2>3 DEF EventsTypeOK
<1>4. stored \in [Ids -> [Attributes -> Settings]] /\ shown = stored
  BY <1>2 DEF Init
<1>5. windows \in SUBSET Ids /\ sdlQueue \in Seq(Inputs)
  BY DEF Init
<1>6. /\ pointer \in Positions /\ mouse \in Positions /\ start \in Positions
      /\ delta \in Int /\ loop \in {"no", "polling"} /\ moved \in BOOLEAN /\ input \in Nat
  <2>1. /\ pointer = 0 /\ mouse = 0 /\ start = 0 /\ delta = 0 /\ input = 0
        /\ loop = "no" /\ moved = FALSE
    BY Zenon DEF Init
  <2>2. 0 \in Positions
    BY WindowsAssumption
  <2>3. delta \in Int /\ input \in Nat
    BY <2>1
  <2>4. loop \in {"no", "polling"} /\ moved \in BOOLEAN
    BY <2>1, Zenon
  <2>5. QED
    BY <2>1, <2>2, <2>3, <2>4, Zenon
<1>7. QED
  BY <1>3, <1>4, <1>5, <1>6 DEF TypeOK
(* Types, for every liberty a program can take.                            *)
THEOREM WindowsTypes == Spec => []TypeOK
<1>1. Init => TypeOK
  BY TypeInit
<1>2. TypeOK /\ [Next]_vars => TypeOK'
  BY TypeNext
<1>3. QED
  BY <1>1, <1>2, PTL DEF Spec

(***************************************************************************)
(* The invariant of a program that takes no liberties.                     *)
(***************************************************************************)

LEMMA InvStays ==
  ASSUME EventsInv, UNCHANGED eventVars
  PROVE  EventsInv'
<1>1. UNCHANGED <<table, subs, local, managers, stack, wrong>>
  BY DEF eventVars
<1>2. NoDangling' /\ Standing' /\ InPlace'
  BY <1>1 DEF EventsInv, NoDangling, Standing, InPlace
<1>3. Lists'
  <2>1. \A n : Listed(n)' = Listed(n)
    BY <1>1 DEF Listed
  <2>2. QED
    BY <1>1, <2>1, Zenon DEF EventsInv, Lists
<1>4. \A k \in DOMAIN stack' : InOrder(stack[k])'
  BY <1>1 DEF EventsInv, InOrder, Later, Matches
<1>5. QED
  BY <1>2, <1>3, <1>4 DEF EventsInv

LEMMA InvConstruct ==
  ASSUME EventsTypeOK, EventsInv, NEW m \in Managers, Construct(m)
  PROVE  EventsInv'
<1>1. UNCHANGED <<table, subs, local, stack, wrong>> /\ managers' = managers \union {m}
  BY DEF Construct
<1>2. NoDangling' /\ Standing' /\ InPlace'
  BY <1>1 DEF EventsInv, NoDangling, Standing, InPlace
<1>3. \A n \in Managers : Listed(n)' = Listed(n)
  BY <1>1 DEF Listed
<1>4. Lists'
  <2>1. Lists /\ managers \in SUBSET Managers
    BY DEF EventsInv, EventsTypeOK
  <2>2. \A n \in Managers : \A s \in Listed(n)' : n \in managers' /\ subs'[s].live
    BY <1>1, <1>3, <2>1 DEF Lists
  <2>3. \A n, o \in Managers : n # o => Listed(n)' \intersect Listed(o)' = {}
    BY <1>1, <1>3, <2>1 DEF Lists
  <2>4. \A s \in DOMAIN subs' : subs'[s].live => \E n \in managers' : s \in Listed(n)'
    BY <1>1, <1>3, <2>1 DEF Lists
  <2>5. QED
    BY <2>2, <2>3, <2>4 DEF Lists
<1>5. \A k \in DOMAIN stack' : InOrder(stack[k])'
  BY <1>1 DEF EventsInv, InOrder, Later, Matches
<1>6. QED
  BY <1>2, <1>4, <1>5 DEF EventsInv

\* What stands in a table is a subscriber.
LEMMA TableIs ==
  ASSUME EventsTypeOK, NEW t \in Tables, NEW i \in Index, table[t][i] # 0
  PROVE  table[t][i] \in DOMAIN subs
<1>1. table[t][i] \in 0 .. Len(subs)
  BY DEF EventsTypeOK
<1>2. QED
  BY <1>1, SubsAre

\* Where no subscriber is enrolled the table has none.
LEMMA FreePlace ==
  ASSUME EventsTypeOK, EventsInv, NEW t \in Tables, NEW i \in Index, Enrolled(t, i) = {}
  PROVE  table[t][i] = 0
<1>1. SUFFICES ASSUME table[t][i] # 0
               PROVE  FALSE
  OBVIOUS
<1> DEFINE s == table[t][i]
<1>2. s \in DOMAIN subs
  BY <1>1, TableIs
<1>3. subs[s].table = t /\ subs[s].index = i
  BY <1>1 DEF EventsInv, InPlace
<1>4. subs[s].live
  BY <1>2, <1>3 DEF EventsInv, Standing
<1>5. QED
  BY <1>2, <1>3, <1>4 DEF Enrolled

LEMMA InvEnroll ==
  ASSUME EventLiberties = {}, EventsTypeOK, EventsInv,
         NEW m \in Managers, NEW t \in Tables, NEW i \in Index, Enroll(m, t, i)
  PROVE  EventsInv'
<1> DEFINE new == Len(subs) + 1
<1>1. Enrolled(t, i) = {} /\ m \in managers /\ UNCHANGED <<managers, stack, wrong>>
  BY DEF Enroll
<1>2. table[t][i] = 0
  BY <1>1, FreePlace
<1>3. table' = [table EXCEPT ![t][i] = new] /\ local' = WithListed(m, t, new)
  BY <1>2 DEF Enroll
<1>4. /\ DOMAIN subs' = DOMAIN subs \union {new} /\ new \notin DOMAIN subs
      /\ \A s \in DOMAIN subs : subs'[s] = subs[s]
      /\ subs'[new] = [table |-> t, index |-> i, live |-> TRUE]
  BY AppendedIs DEF Enroll
<1>5. /\ new \in Nat /\ new # 0
      /\ \A s \in DOMAIN subs : subs[s].table \in Tables /\ subs[s].index \in Index /\ s # new
  BY SubsAre
<1>6. \A u \in Tables, j \in Index :
        table'[u][j] = IF u = t /\ j = i THEN new ELSE table[u][j]
  BY <1>3 DEF EventsTypeOK
<1>7. subs'[new].table = t /\ subs'[new].index = i /\ subs'[new].live = TRUE
  BY <1>4
<1>8. \A s \in DOMAIN subs : subs[s].table = t /\ subs[s].index = i => ~subs[s].live
  BY <1>1 DEF Enrolled
<1>9. \A u \in Tables, j \in Index : table[u][j] # 0 => table[u][j] \in DOMAIN subs
  BY TableIs
<1> HIDE DEF new
<1>10. NoDangling'
  BY <1>1 DEF EventsInv, NoDangling
<1>11. Standing'
  BY <1>4, <1>5, <1>6, <1>7, <1>8 DEF EventsInv, Standing
<1>12. InPlace'
  BY <1>4, <1>5, <1>6, <1>7, <1>9 DEF EventsInv, InPlace
<1>13. Listed(m)' = Listed(m) \union {new}
  <2>1. local \in [Managers -> [Tables -> Seq(1 .. Len(subs))]]
    BY DEF EventsTypeOK
  <2>2. /\ \A u \in Tables : u # t => local'[m][u] = local[m][u]
        /\ local'[m][t] = Append(local[m][t], new)
    BY <1>3, <2>1 DEF WithListed
  <2>3. /\ DOMAIN local'[m][t] = DOMAIN local[m][t] \union {Len(local[m][t]) + 1}
        /\ \A k \in DOMAIN local[m][t] : local'[m][t][k] = local[m][t][k]
        /\ local'[m][t][Len(local[m][t]) + 1] = new
    <3>1. local[m][t] \in Seq(1 .. Len(subs))
      BY <2>1
    <3>2. QED
      BY <2>2, <3>1, LenProperties
  <2>4. \A s : s \in Listed(m)' <=> \E u \in Tables : \E k \in DOMAIN local'[m][u] : s = local'[m][u][k]
    BY DEF Listed
  <2>5. \A s : s \in Listed(m) <=> \E u \in Tables : \E k \in DOMAIN local[m][u] : s = local[m][u][k]
    BY DEF Listed
  <2>6. ASSUME NEW s, s \in Listed(m)'
        PROVE  s \in Listed(m) \union {new}
    <3>1. PICK u \in Tables : \E k \in DOMAIN local'[m][u] : s = local'[m][u][k]
      BY <2>4, <2>6
    <3>2. CASE u = t
      BY <2>3, <2>5, <3>1, <3>2
    <3>3. CASE u # t
      BY <2>2, <2>5, <3>1, <3>3
    <3>4. QED
      BY <3>2, <3>3
  <2>7. ASSUME NEW s, s \in Listed(m)
        PROVE  s \in Listed(m)'
    <3>1. PICK u \in Tables : \E k \in DOMAIN local[m][u] : s = local[m][u][k]
      BY <2>5, <2>7
    <3>2. CASE u = t
      BY <2>3, <2>4, <3>1, <3>2
    <3>3. CASE u # t
      BY <2>2, <2>4, <3>1, <3>3
    <3>4. QED
      BY <3>2, <3>3
  <2>8. new \in Listed(m)'
    BY <2>3, <2>4
  <2>9. QED
    BY <2>6, <2>7, <2>8
<1>14. \A n \in Managers : n # m => Listed(n)' = Listed(n)
  <2>1. \A n \in Managers : n # m => local'[n] = local[n]
    BY <1>3 DEF WithListed, EventsTypeOK
  <2>2. QED
    BY <2>1 DEF Listed
<1>15. \A n \in Managers : Listed(n) \in SUBSET DOMAIN subs
  BY ListedIn
<1>16. Lists'
  <2>1. \A n \in Managers : \A s \in Listed(n)' : n \in managers' /\ subs'[s].live
    BY <1>1, <1>4, <1>7, <1>13, <1>14, <1>15 DEF EventsInv, Lists
  <2>2. \A n, o \in Managers : n # o => Listed(n)' \intersect Listed(o)' = {}
    BY <1>4, <1>13, <1>14, <1>15 DEF EventsInv, Lists
  <2>3. \A s \in DOMAIN subs' : subs'[s].live => \E n \in managers' : s \in Listed(n)'
    <3>1. managers \in SUBSET Managers
      BY DEF EventsTypeOK
    <3>2. QED
      BY <1>1, <1>4, <1>13, <1>14, <3>1 DEF EventsInv, Lists
  <2>4. QED
    BY <2>1, <2>2, <2>3 DEF Lists
<1>17. ASSUME NEW k \in DOMAIN stack
       PROVE  InOrder(stack[k])'
  <2>1. /\ stack[k].at \in DOMAIN subs /\ stack[k].ran \in SUBSET DOMAIN subs
        /\ stack[k].due \in SUBSET DOMAIN subs /\ stack'[k] = stack[k]
    BY <1>1, FrameIs
  <2>2. InOrder(stack[k])
    BY DEF EventsInv
  <2>3. QED
    BY <1>4, <2>1, <2>2 DEF InOrder, Later, Matches
<1>18. QED
  BY <1>1, <1>10, <1>11, <1>12, <1>16, <1>17 DEF EventsInv
\* A manager that has enrolled nothing is reset, and nothing happens.
LEMMA ResetNothing ==
  ASSUME EventLiberties = {}, EventsTypeOK, NEW m \in Managers, Reset(m)
  PROVE  UNCHANGED eventVars
<1>1. Listed(m) = {} /\ ResetManager(m) /\ UNCHANGED <<local, managers, stack>>
  BY DEF Reset
<1>2. wrong' = wrong
  BY <1>1 DEF ResetManager
<1>3. subs' = subs
  <2>1. subs' = [s \in DOMAIN subs |-> subs[s]]
    BY <1>1 DEF ResetManager
  <2>2. subs \in [1 .. Len(subs) -> Subscriptions] /\ DOMAIN subs = 1 .. Len(subs)
    BY SubsAre, ElementOfSeq, LenProperties DEF EventsTypeOK
  <2>3. QED
    BY <2>1, <2>2
<1>4. table' = table
  <2>1. table' = [t \in Tables |-> [i \in Index |-> table[t][i]]]
    BY <1>1 DEF ResetManager, WithoutEntries
  <2>2. table \in [Tables -> [Index -> 0 .. Len(subs)]]
    BY DEF EventsTypeOK
  <2>3. \A t \in Tables : table[t] = [i \in Index |-> table[t][i]]
    BY <2>2
  <2>4. QED
    BY <2>1, <2>2, <2>3
<1>5. QED
  BY <1>1, <1>2, <1>3, <1>4 DEF eventVars

LEMMA InvDestroy ==
  ASSUME EventLiberties = {}, EventsTypeOK, EventsInv, NEW m \in Managers, Destroy(m)
  PROVE  EventsInv'
<1> DEFINE gone == Listed(m)
<1>1. /\ stack = <<>> /\ UNCHANGED stack /\ m \in managers /\ managers' = managers \ {m}
      /\ ResetManager(m) /\ local' = [local EXCEPT ![m] = NoCallbacks]
  BY DEF Destroy, OutsidePush
<1>2. /\ DOMAIN subs' = DOMAIN subs
      /\ \A s \in DOMAIN subs :
           /\ subs'[s].table = subs[s].table /\ subs'[s].index = subs[s].index
           /\ subs'[s].live = (s \notin gone /\ subs[s].live)
  BY <1>1, ResetIs
<1>3. \A t \in Tables, i \in Index : table'[t][i] = IF table[t][i] \in gone THEN 0 ELSE table[t][i]
  BY <1>1 DEF ResetManager, WithoutEntries
<1>4. \A n \in Managers : Listed(n) \in SUBSET DOMAIN subs
  BY ListedIn
<1>5. \A s \in DOMAIN subs :
        subs[s].table \in Tables /\ subs[s].index \in Index /\ subs[s].live \in BOOLEAN /\ s # 0
  BY SubsAre
<1>6. \A u \in Tables, j \in Index : table[u][j] # 0 => table[u][j] \in DOMAIN subs
  BY TableIs
<1>7. /\ Listed(m)' = {}
      /\ \A n \in Managers : n # m => Listed(n)' = Listed(n)
  <2>1. local \in [Managers -> [Tables -> Seq(1 .. Len(subs))]]
    BY DEF EventsTypeOK
  <2>2. local'[m] = NoCallbacks /\ \A n \in Managers : n # m => local'[n] = local[n]
    BY <1>1, <2>1
  <2>3. \A t \in Tables : DOMAIN local'[m][t] = {}
    BY <2>2 DEF NoCallbacks
  <2>4. QED
    BY <2>2, <2>3 DEF Listed
<1>8. gone \in SUBSET DOMAIN subs /\ \A s \in gone : subs[s].live
  BY <1>4 DEF EventsInv, Lists
<1> HIDE DEF gone
<1>9. NoDangling'
  BY <1>1, <1>8 DEF ResetManager, EventsInv, NoDangling, gone
<1>10. Standing'
  <2>1. ASSUME NEW s \in DOMAIN subs
        PROVE  (table'[subs'[s].table][subs'[s].index] = s) <=> subs'[s].live
    <3> DEFINE at == table[subs[s].table][subs[s].index]
    <3>1. table'[subs[s].table][subs[s].index] = IF at \in gone THEN 0 ELSE at
      BY <1>3, <1>5
    <3>2. (at = s) <=> subs[s].live
      BY DEF EventsInv, Standing
    <3>3. /\ subs'[s].table = subs[s].table /\ subs'[s].index = subs[s].index
          /\ subs'[s].live = (s \notin gone /\ subs[s].live) /\ s # 0
      BY <1>2, <1>5
    <3> HIDE DEF at
    <3>4. QED
      BY <3>1, <3>2, <3>3
  <2>2. QED
    BY <1>2, <2>1 DEF Standing
<1>11. InPlace'
  BY <1>2, <1>3, <1>6 DEF EventsInv, InPlace
<1>12. Lists'
  <2>1. Lists /\ managers \in SUBSET Managers
    BY DEF EventsInv, EventsTypeOK
  <2>2. \A n \in Managers : \A s \in Listed(n)' : n \in managers' /\ subs'[s].live
    <3>1. SUFFICES ASSUME NEW n \in Managers, NEW s \in Listed(n)'
                   PROVE  n \in managers' /\ subs'[s].live
      OBVIOUS
    <3>2. n # m /\ s \in Listed(n) /\ s \in DOMAIN subs
      BY <1>4, <1>7, <3>1
    <3>3. n \in managers /\ subs[s].live /\ s \notin gone
      BY <2>1, <3>2 DEF Lists, gone
    <3>4. QED
      BY <1>1, <1>2, <3>2, <3>3
  <2>3. \A n, o \in Managers : n # o => Listed(n)' \intersect Listed(o)' = {}
    BY <1>7, <2>1 DEF Lists
  <2>4. \A s \in DOMAIN subs' : subs'[s].live => \E n \in managers' : s \in Listed(n)'
    <3>1. SUFFICES ASSUME NEW s \in DOMAIN subs, subs'[s].live
                   PROVE  \E n \in managers' : s \in Listed(n)'
      BY <1>2
    <3>2. subs[s].live /\ s \notin gone
      BY <1>2, <3>1
    <3>3. PICK n \in managers : s \in Listed(n)
      BY <2>1, <3>2 DEF Lists
    <3>4. n \in Managers /\ n # m
      BY <2>1, <3>2, <3>3 DEF gone
    <3>5. QED
      BY <1>1, <1>7, <3>3, <3>4
  <2>5. QED
    BY <2>2, <2>3, <2>4 DEF Lists
<1>13. DOMAIN stack' = {}
  BY <1>1
<1>14. QED
  BY <1>9, <1>10, <1>11, <1>12, <1>13 DEF EventsInv

\* A subscriber that is not deleted is found where it belongs, and only one that is not is.
LEMMA FoundIsDue ==
  ASSUME EventsTypeOK, EventsInv, NEW event
  PROVE  Found(event) = Due(event)
BY DEF EventsInv, Standing, Found, Due

\* A walk begins in order.
LEMMA WalkInOrder ==
  ASSUME EventsTypeOK, EventsInv, NEW event \in EventSet, Found(event) # {}
  PROVE  InOrder(Walk(event))
<1> DEFINE at == First(Found(event))
<1>1. /\ at \in Found(event)
      /\ \A r \in Found(event) : at = r
           \/ Before(subs[at].table, subs[at].index, subs[r].table, subs[r].index)
  BY FirstIs, SetsStand
<1>2. subs[at].live /\ at \in DOMAIN subs
  BY <1>1, FoundIsDue DEF Due
<1>3. \A s \in Due(event) : Matches(event, subs[s].table, subs[s].index)
  BY DEF Due
<1>4. \A s \in Due(event) : s # at => Later(subs[at].table, subs[at].index, subs[s].table, subs[s].index)
  BY <1>1, FoundIsDue DEF Later
<1>5. /\ Walk(event).at = at /\ Walk(event).event = event
      /\ Walk(event).ran = {} /\ Walk(event).due = Due(event)
  BY DEF Walk
<1> HIDE DEF at
<1>6. QED
  BY <1>2, <1>3, <1>4, <1>5, Zenon DEF InOrder

LEMMA AppendIs ==
  \A S, longer : \A list \in Seq(S), e \in S :
    longer = Append(list, e) =>
      /\ DOMAIN longer = (1 .. Len(list)) \union {Len(list) + 1}
      /\ longer[Len(list) + 1] = e
      /\ \A k \in 1 .. Len(list) : longer[k] = list[k]
BY AppendProperties, LenProperties

LEMMA PushedIs ==
  \A frame \in Frames :
    LET pushed == [frame EXCEPT !.pushed = TRUE]
    IN  /\ pushed.event = frame.event /\ pushed.at = frame.at
        /\ pushed.ran = frame.ran /\ pushed.due = frame.due
BY DEF Frames

LEMMA InvPushing ==
  ASSUME EventsTypeOK, EventsInv, NEW event \in EventSet, Pushing(event)
  PROVE  EventsInv'
<1>1. UNCHANGED <<table, subs, local, managers, wrong>>
  BY DEF Pushing
<1>2. CASE UNCHANGED stack
  BY <1>1, <1>2, InvStays DEF eventVars
<1>3. CASE Found(event) # {} /\ ~UNCHANGED stack
  <2> DEFINE told == [k \in DOMAIN stack |-> [stack[k] EXCEPT !.pushed = TRUE]]
  <2>1. NoDangling' /\ Standing' /\ InPlace'
    BY <1>1 DEF EventsInv, NoDangling, Standing, InPlace
  <2>2. Lists'
    <3>1. \A n : Listed(n)' = Listed(n)
      BY <1>1 DEF Listed
    <3>2. QED
      BY <1>1, <3>1, Zenon DEF EventsInv, Lists
  <2>3. stack' = Append(told, Walk(event))
    BY <1>3 DEF Pushing
  <2>4. stack \in Seq(Frames) /\ Len(stack) \in Nat /\ DOMAIN stack = 1 .. Len(stack)
    BY LenProperties DEF EventsTypeOK
  <2>5. /\ DOMAIN stack' = DOMAIN stack \union {Len(stack) + 1}
        /\ stack'[Len(stack) + 1] = Walk(event)
        /\ \A k \in DOMAIN stack : stack'[k] = told[k]
    <3>1. \A k \in DOMAIN stack : told[k] \in Frames
      BY FrameIs DEF Frames
    <3>2. DOMAIN told = 1 .. Len(stack) /\ Len(told) = Len(stack) /\ told \in Seq(Frames)
      BY <2>4, <3>1, IsASeq
    <3>3. Walk(event) \in Frames
      BY <1>3, WalkType
    <3>4. /\ DOMAIN stack' = (1 .. Len(told)) \union {Len(told) + 1}
          /\ stack'[Len(told) + 1] = Walk(event)
          /\ \A k \in 1 .. Len(told) : stack'[k] = told[k]
      <4>1. PICK list \in Seq(Frames) : list = told
        BY <3>2, Zenon
      <4>2. stack' = Append(list, Walk(event))
        BY <2>3, <4>1, Zenon
      <4>3. /\ DOMAIN stack' = (1 .. Len(list)) \union {Len(list) + 1}
            /\ stack'[Len(list) + 1] = Walk(event)
            /\ \A k \in 1 .. Len(list) : stack'[k] = list[k]
        BY <3>3, <4>2, AppendIs
      <4>4. QED
        BY <4>1, <4>3, Zenon
    <3>5. QED
      BY <2>4, <3>2, <3>4, Zenon
  <2>6. ASSUME NEW k \in DOMAIN stack
        PROVE  InOrder(stack[k])'
    <3>1. /\ stack'[k].event = stack[k].event /\ stack'[k].at = stack[k].at
          /\ stack'[k].ran = stack[k].ran /\ stack'[k].due = stack[k].due
      <4>1. stack'[k] = [stack[k] EXCEPT !.pushed = TRUE]
        BY <2>5, <2>6, Zenon
      <4>2. stack[k] \in Frames
        BY FrameIs
      <4>3. QED
        BY <4>1, <4>2, PushedIs, Zenon
    <3>2. InOrder(stack[k])
      BY DEF EventsInv
    <3>3. QED
      BY <1>1, <3>1, <3>2 DEF InOrder, Later, Matches
  <2>7. ASSUME NEW k, k = Len(stack) + 1
        PROVE  InOrder(stack[k])'
    <3>1. InOrder(Walk(event))
      BY <1>3, WalkInOrder
    <3>2. QED
      BY <1>1, <2>5, <2>7, <3>1 DEF InOrder, Later, Matches
  <2>8. QED
    BY <2>1, <2>2, <2>5, <2>6, <2>7 DEF EventsInv
<1>4. QED
  BY <1>2, <1>3 DEF Pushing
(* The walk goes on in order, and with all that it owes.                   *)
LEMMA GoesInOrder ==
  ASSUME EventsTypeOK, EventsInv, Len(stack) \in DOMAIN stack, NEW r \in DOMAIN subs, NEW on,
         on.at = r, on.event = stack[Len(stack)].event, on.due = stack[Len(stack)].due,
         on.ran = stack[Len(stack)].ran \union {stack[Len(stack)].at},
         LET top  == stack[Len(stack)]
             next == Ahead(top.event, subs[top.at].table, subs[top.at].index)
         IN  /\ r \in next
             /\ \A s \in next : r = s
                  \/ Before(subs[r].table, subs[r].index, subs[s].table, subs[s].index)
  PROVE  InOrder(on)
<1> DEFINE top  == stack[Len(stack)]
           next == Ahead(top.event, subs[top.at].table, subs[top.at].index)
           Less(s, o) == Before(subs[s].table, subs[s].index, subs[o].table, subs[o].index)
<1>1. /\ top.at \in DOMAIN subs /\ top.ran \in SUBSET DOMAIN subs /\ top.due \in SUBSET DOMAIN subs
  BY FrameIs
<1>2. InOrder(top)
  BY DEF EventsInv
<1>3. \A s, o, q \in DOMAIN subs : Less(s, o) /\ Less(o, q) => Less(s, q)
  BY SubsAre, OrderIs
<1>4. table[subs[r].table][subs[r].index] = r /\ Less(top.at, r)
  BY DEF Ahead, Later
<1>5. subs[r].live
  BY <1>4 DEF EventsInv, Standing
<1>6. \A s \in top.ran : Less(s, top.at)
  BY <1>2 DEF InOrder, Later
<1>7. \A s \in on.ran : Less(s, r)
  BY <1>1, <1>3, <1>4, <1>6
<1>8. \A s \in on.due : Matches(on.event, subs[s].table, subs[s].index)
  BY <1>2 DEF InOrder
<1>9. ASSUME NEW s \in on.due, subs[s].live, s # r, s \notin on.ran
      PROVE  Less(r, s)
  <2>1. s \in DOMAIN subs /\ s # top.at /\ s \notin top.ran /\ s \in top.due
    BY <1>1, <1>9
  <2>2. Less(top.at, s) /\ Matches(top.event, subs[s].table, subs[s].index)
    BY <1>2, <1>9, <2>1 DEF InOrder, Later
  <2>3. table[subs[s].table][subs[s].index] = s
    BY <1>9, <2>1 DEF EventsInv, Standing
  <2>4. s \in next
    BY <2>1, <2>2, <2>3 DEF Ahead, Later
  <2>5. QED
    BY <1>9, <2>4
<1>10. QED
  BY <1>5, <1>7, <1>8, <1>9 DEF InOrder, Later

LEMMA InvReturn ==
  ASSUME EventsTypeOK, EventsInv, Return
  PROVE  EventsInv'
<1> DEFINE top  == stack[Len(stack)]
           rest == SubSeq(stack, 1, Len(stack) - 1)
           next == Ahead(top.event, subs[top.at].table, subs[top.at].index)
<1>1. stack # <<>> /\ UNCHANGED <<table, subs, local, managers>>
  BY DEF Return
<1>2. /\ Len(stack) \in DOMAIN stack /\ Len(stack) \in Nat
      /\ rest \in Seq(Frames) /\ Len(rest) = Len(stack) - 1 /\ DOMAIN rest = 1 .. Len(rest)
      /\ \A k \in 1 .. Len(stack) - 1 : k \in DOMAIN stack /\ rest[k] = stack[k]
  BY <1>1, RestIs, LenProperties, FrameIs
<1>3. subs[top.at].live
  BY <1>2 DEF EventsInv, InOrder
<1>4. NoDangling' /\ Standing' /\ InPlace'
  <2>1. UNCHANGED wrong
    BY <1>3, ReturnIs
  <2>2. QED
    BY <1>1, <2>1 DEF EventsInv, NoDangling, Standing, InPlace
<1>5. Lists'
  <2>1. \A n : Listed(n)' = Listed(n)
    BY <1>1 DEF Listed
  <2>2. QED
    BY <1>1, <2>1, Zenon DEF EventsInv, Lists
<1>6. ASSUME NEW k \in 1 .. Len(stack) - 1, stack'[k] = rest[k]
      PROVE  InOrder(stack[k])'
  <2>1. InOrder(stack[k]) /\ stack'[k] = stack[k]
    BY <1>2, <1>6 DEF EventsInv
  <2>2. QED
    BY <1>1, <2>1 DEF InOrder, Later, Matches
<1>7. CASE next = {}
  <2>1. stack' = rest
    BY <1>3, <1>7, ReturnIs
  <2>2. \A k \in DOMAIN stack' : InOrder(stack[k])'
    BY <1>2, <1>6, <2>1
  <2>3. QED
    BY <1>4, <1>5, <2>2 DEF EventsInv
<1>8. CASE next # {}
  <2> DEFINE r  == First(next)
             on == Goes(top, r, top.at)
  <2>1. /\ top.at \in DOMAIN subs /\ r \in next /\ r \in DOMAIN subs
        /\ \A s \in next : r = s
             \/ Before(subs[r].table, subs[r].index, subs[s].table, subs[s].index)
        /\ stack' = Append(rest, on)
    BY <1>3, <1>8, ReturnIs
  <2>2. on \in Frames
    BY <1>2, <2>1, NextFrameIs
  <2>3. /\ on.event = top.event /\ on.at = r /\ on.due = top.due
        /\ on.ran = top.ran \union {top.at}
    BY <1>2, <2>1, NextFrameIs
  <2>4. InOrder(on)
    BY <1>2, <2>1, <2>3, GoesInOrder
  <2>5. /\ DOMAIN stack' = (1 .. Len(rest)) \union {Len(rest) + 1}
        /\ stack'[Len(rest) + 1] = on
        /\ \A k \in 1 .. Len(rest) : stack'[k] = rest[k]
    BY <1>2, <2>1, <2>2, AppendIs
  <2> HIDE DEF on, r
  <2>6. ASSUME NEW k, k = Len(rest) + 1
        PROVE  InOrder(stack[k])'
    BY <1>1, <2>4, <2>5, <2>6 DEF InOrder, Later, Matches
  <2>7. \A k \in DOMAIN stack' : InOrder(stack[k])'
    BY <1>2, <1>6, <2>5, <2>6
  <2>8. QED
    BY <1>4, <1>5, <2>7 DEF EventsInv
<1>9. QED
  BY <1>7, <1>8
LEMMA InvOfManagers ==
  ASSUME EventLiberties = {}, EventsTypeOK, EventsInv, OfManagers
  PROVE  EventsInv'
<1>1. PICK m \in Managers :
        \/ Construct(m) \/ Reset(m) \/ Destroy(m)
        \/ \E p \in Places : Enroll(m, p[1], p[2])
        \/ \E event \in PushedByClient : Push(m, event)
  BY DEF OfManagers
<1>2. CASE Construct(m)
  BY <1>2, InvConstruct
<1>3. CASE Reset(m)
  BY <1>3, ResetNothing, InvStays
<1>4. CASE Destroy(m)
  BY <1>4, InvDestroy
<1>5. CASE \E p \in Places : Enroll(m, p[1], p[2])
  <2>1. PICK p \in Places : Enroll(m, p[1], p[2])
    BY <1>5
  <2>2. p[1] \in Tables /\ p[2] \in Index
    BY EventsAssumption
  <2>3. QED
    BY <2>1, <2>2, InvEnroll
<1>6. CASE \E event \in PushedByClient : Push(m, event)
  <2>1. PICK event \in PushedByClient : Push(m, event)
    BY <1>6
  <2>2. event \in EventSet
    BY EventsAssumption DEF EventSet
  <2>3. QED
    BY <2>1, <2>2, InvPushing DEF Push
<1>7. QED
  BY <1>1, <1>2, <1>3, <1>4, <1>5, <1>6

(* What a step of the whole does to the managers' tables.                  *)
LEMMA EventsStep ==
  ASSUME TypeOK, [Next]_vars
  PROVE  UNCHANGED eventVars \/ OfManagers \/ Return \/ \E event \in EventSet : Pushing(event)
<1>1. CASE UNCHANGED vars
  BY <1>1 DEF vars
<1>2. CASE Program
  BY <1>2 DEF Program, HandleEvents, AddWindow, SetAttribute
<1>3. CASE Returns
  BY <1>3 DEF Returns
<1>4. CASE Poll
  <2> DEFINE e == Head(sdlQueue)
  <2>1. e \in Inputs
    BY <1>4, HeadIs DEF Poll
  <2>2. CASE e.kind = "motion"
    BY <1>4, <2>2 DEF Poll, Motion
  <2>3. CASE e.kind # "motion"
    <3>1. Pushing(Converted(e))
      BY <1>4, <2>3 DEF Poll
    <3>2. Converted(e) \in EventSet
      BY <2>1, <2>3, ConvertedIs, Zenon
    <3>3. QED
      BY <3>1, <3>2
  <2>4. QED
    BY <2>2, <2>3
<1>5. CASE Polled \/ Input
  BY <1>5 DEF Polled, Input
<1>6. QED
  BY <1>1, <1>2, <1>3, <1>4, <1>5 DEF Next

LEMMA InvInit == Init => EventsInv
<1> SUFFICES ASSUME Init
             PROVE  EventsInv
  OBVIOUS
<1>1. /\ table = [t \in Tables |-> [i \in Index |-> 0]] /\ subs = <<>>
      /\ local = [m \in Managers |-> NoCallbacks] /\ managers = {}
      /\ stack = <<>> /\ wrong = "none"
  BY DEF Init, EventsInit
<1>2. NoDangling
  BY <1>1 DEF NoDangling
<1>3. Standing
  BY <1>1 DEF Standing
<1>4. InPlace
  BY <1>1 DEF InPlace
<1>5. \A m \in Managers : Listed(m) = {}
  <2>1. \A m \in Managers, t \in Tables : local[m][t] = <<>>
    BY <1>1 DEF NoCallbacks
  <2>2. \A m \in Managers, t \in Tables : DOMAIN local[m][t] = {}
    BY <2>1
  <2>3. QED
    BY <2>2 DEF Listed
<1>6. Lists
  BY <1>1, <1>5 DEF Lists
<1>7. \A k \in DOMAIN stack : InOrder(stack[k])
  BY <1>1
<1>8. QED
  BY <1>2, <1>3, <1>4, <1>6, <1>7 DEF EventsInv

LEMMA InvNext ==
  ASSUME EventLiberties = {}, TypeOK, EventsInv, [Next]_vars
  PROVE  EventsInv'
<1>1. EventsTypeOK
  BY DEF TypeOK
<1>2. QED
  BY <1>1, EventsStep, InvStays, InvOfManagers, InvReturn, InvPushing

(* A program that enrolls a subscriber where there is none, and whose      *)
(* managers live as long as what they enrolled and outlive the walks: all  *)
(* that is not deleted stands in its table and in one manager's list, and  *)
(* every walk is in order (EventManager::enroll, reset, pushEvent).        *)
THEOREM EventsInvariant ==
  ASSUME EventLiberties = {}
  PROVE  Spec => []EventsInv
<1>1. Init => EventsInv
  BY InvInit
<1>2. TypeOK /\ EventsInv /\ [Next]_vars => EventsInv'
  BY InvNext
<1>3. QED
  BY <1>1, <1>2, WindowsTypes, PTL DEF Spec

(* For such a program nothing deleted is used, however deep subscribers    *)
(* push and whatever they enroll (EventManager::pushEvent, reset).         *)
THEOREM EventsSafe ==
  ASSUME EventLiberties = {}
  PROVE  Spec => []Safe
<1>1. TypeOK /\ EventsInv => Safe
  BY DEF EventsInv, Safe
<1>2. QED
  BY <1>1, WindowsTypes, EventsInvariant, PTL

LEMMA InvOneOwner == TypeOK /\ EventsInv => OneOwner
<1> SUFFICES ASSUME TypeOK, EventsInv, NEW s \in DOMAIN subs, subs[s].live
             PROVE  Cardinality({m \in managers : s \in Listed(m)}) = 1
  BY DEF OneOwner, EventsInv, Standing
<1>1. Lists /\ managers \in SUBSET Managers
  BY DEF EventsInv, TypeOK, EventsTypeOK
<1>2. PICK m \in managers : s \in Listed(m)
  BY <1>1 DEF Lists
<1>3. {n \in managers : s \in Listed(n)} = {m}
  BY <1>1, <1>2 DEF Lists
<1>4. QED
  BY <1>3, FS_Singleton

(* For such a program every subscriber stands in its table and in the list *)
(* of one manager, and none is left behind (EventManager::enroll, reset).  *)
THEOREM EventsOneOwner ==
  ASSUME EventLiberties = {}
  PROVE  Spec => []OneOwner
BY InvOneOwner, WindowsTypes, EventsInvariant, PTL

(***************************************************************************)
(* Every event is heard, once.                                             *)
(***************************************************************************)

LEMMA InvNobodyTwice == TypeOK /\ EventsInv => NobodyTwice
<1> SUFFICES ASSUME TypeOK, EventsInv, NEW k \in DOMAIN stack
             PROVE  stack[k].at \notin stack[k].ran
  BY DEF NobodyTwice
<1>1. EventsTypeOK /\ InOrder(stack[k])
  BY DEF TypeOK, EventsInv
<1>2. stack[k].at \in DOMAIN subs
  BY <1>1, FrameIs
<1>3. subs[stack[k].at].table \in Tables /\ subs[stack[k].at].index \in Index
  BY <1>1, <1>2, SubsAre
<1>4. ~Before(subs[stack[k].at].table, subs[stack[k].at].index,
              subs[stack[k].at].table, subs[stack[k].at].index)
  BY <1>3, OrderIs
<1>5. QED
  BY <1>1, <1>4 DEF InOrder, Later

\* A push makes the stack no shorter.
LEMMA PushingGrows ==
  ASSUME EventsTypeOK, NEW event, Pushing(event)
  PROVE  ~(Len(stack') < Len(stack))
<1>1. stack \in Seq(Frames) /\ Len(stack) \in Nat /\ DOMAIN stack = 1 .. Len(stack)
  BY LenProperties DEF EventsTypeOK
<1>2. CASE UNCHANGED stack
  BY <1>1, <1>2
<1>3. CASE ~UNCHANGED stack
  <2> DEFINE told == [k \in DOMAIN stack |-> [stack[k] EXCEPT !.pushed = TRUE]]
  <2>1. stack' = Append(told, Walk(event))
    BY <1>3 DEF Pushing
  <2>2. \A k \in DOMAIN stack : told[k] \in Frames
    BY FrameIs DEF Frames
  <2>3. told \in Seq(Frames) /\ Len(told) = Len(stack)
    BY <1>1, <2>2, IsASeq
  <2>4. PICK list \in Seq(Frames) : list = told
    BY <2>3, Zenon
  <2>5. stack' = Append(list, Walk(event)) /\ Len(list) = Len(stack)
    BY <2>1, <2>3, <2>4, Zenon
  <2>6. Len(stack') = Len(stack) + 1
    BY <2>5
  <2>7. QED
    BY <1>1, <2>6
<1>4. QED
  BY <1>2, <1>3

LEMMA ManagersGrow ==
  ASSUME EventsTypeOK, OfManagers
  PROVE  ~(Len(stack') < Len(stack))
<1>1. CASE UNCHANGED stack
  <2>1. Len(stack) \in Nat
    BY LenProperties DEF EventsTypeOK
  <2>2. QED
    BY <1>1, <2>1
<1>2. CASE \E event : Pushing(event)
  BY <1>2, PushingGrows
<1>3. QED
  BY <1>1, <1>2 DEF OfManagers, Construct, Reset, Destroy, Enroll, Push

(* The walk that ends has executed all it still owed.                      *)
LEMMA ReturnOwesNothing ==
  ASSUME EventsTypeOK, EventsInv, Return, Len(stack') < Len(stack)
  PROVE  LET top == stack[Len(stack)]
         IN  {s \in top.due : subs[s].live} \subseteq top.ran \union {top.at}
<1> DEFINE top  == stack[Len(stack)]
           next == Ahead(top.event, subs[top.at].table, subs[top.at].index)
           rest == SubSeq(stack, 1, Len(stack) - 1)
<1>1. /\ Len(stack) \in DOMAIN stack /\ Len(stack) \in Nat
      /\ rest \in Seq(Frames) /\ Len(rest) = Len(stack) - 1
  BY RestIs, FrameIs DEF Return
<1>2. top.at \in DOMAIN subs /\ top.due \in SUBSET DOMAIN subs /\ InOrder(top)
  BY <1>1, FrameIs DEF EventsInv
<1>3. next = {}
  <2>1. SUFFICES ASSUME next # {}
                 PROVE  FALSE
    OBVIOUS
  <2> DEFINE on == Goes(top, First(next), top.at)
  <2>2. UNCHANGED stack \/ stack' = Append(rest, on)
    BY <2>1, ReturnIs
  <2>3. stack' = Append(rest, on) => Len(stack') = Len(rest) + 1
    BY <1>1
  <2>4. QED
    BY <1>1, <2>2, <2>3
<1>4. ASSUME NEW s \in top.due, subs[s].live, s # top.at, s \notin top.ran
      PROVE  FALSE
  <2>1. /\ Matches(top.event, subs[s].table, subs[s].index)
        /\ Later(subs[top.at].table, subs[top.at].index, subs[s].table, subs[s].index)
    BY <1>2, <1>4 DEF InOrder
  <2>2. table[subs[s].table][subs[s].index] = s /\ s \in DOMAIN subs
    BY <1>2, <1>4 DEF EventsInv, Standing
  <2>3. s \in next
    BY <2>1, <2>2 DEF Ahead
  <2>4. QED
    BY <1>3, <2>3
<1>5. QED
  BY <1>4

(* For such a program an event is heard once by everyone it is for,        *)
(* whatever subscribers enroll and push while the tables are walked        *)
(* (EventManager::pushEvent).                                              *)
THEOREM EventsEachOnce ==
  ASSUME EventLiberties = {}
  PROVE  Spec => EachOnce
<1> DEFINE Owed == Going' /\ Len(stack') < Len(stack) =>
             LET top == stack[Len(stack)]
             IN  {s \in top.due : subs[s].live} \subseteq top.ran \union {top.at}
<1>1. TypeOK /\ EventsInv => NobodyTwice
  BY InvNobodyTwice
<1>2. TypeOK /\ EventsInv /\ [Next]_vars => [Owed]_eventVars
  <2> SUFFICES ASSUME TypeOK, EventsInv, [Next]_vars, Len(stack') < Len(stack), ~UNCHANGED eventVars
               PROVE  LET top == stack[Len(stack)]
                      IN  {s \in top.due : subs[s].live} \subseteq top.ran \union {top.at}
    OBVIOUS
  <2>1. EventsTypeOK
    BY DEF TypeOK
  <2>2. Return
    BY <2>1, EventsStep, ManagersGrow, PushingGrows
  <2>3. QED
    BY <2>1, <2>2, ReturnOwesNothing
<1>3. QED
  BY <1>1, <1>2, WindowsTypes, EventsInvariant, PTL DEF Spec, EachOnce, EveryoneHears
(***************************************************************************)
(* What a program is told of the pointer and the windows.                  *)
(***************************************************************************)

LEMMA MouseInput ==
  ASSUME TypeOK, MouseInv, Input
  PROVE  MouseInv'
<1>1. UNCHANGED <<mouse, loop, moved, start>>
  BY DEF Input, mouseVars, loopVars
<1>2. sdlQueue \in Seq(Inputs) /\ Len(sdlQueue) \in Nat /\ DOMAIN sdlQueue = 1 .. Len(sdlQueue)
  BY LenProperties DEF TypeOK
<1>3. PICK e \in Inputs :
        /\ sdlQueue' = Append(sdlQueue, e)
        /\ \/ e.kind # "motion" /\ pointer' = pointer
           \/ e.kind = "motion" /\ e.x = pointer'
  <2>1. CASE \E c \in Codes, kind \in {"down", "up"} :
               sdlQueue' = Append(sdlQueue, [kind |-> kind, code |-> c]) /\ UNCHANGED pointer
    <3>1. PICK c \in Codes, kind \in {"down", "up"} :
            sdlQueue' = Append(sdlQueue, [kind |-> kind, code |-> c]) /\ UNCHANGED pointer
      BY <2>1
    <3>2. [kind |-> kind, code |-> c] \in Inputs /\ kind # "motion"
      BY DEF Inputs
    <3>3. QED
      BY <3>1, <3>2
  <2>2. CASE \E kind \in Plain : sdlQueue' = Append(sdlQueue, [kind |-> kind]) /\ UNCHANGED pointer
    <3>1. PICK kind \in Plain : sdlQueue' = Append(sdlQueue, [kind |-> kind]) /\ UNCHANGED pointer
      BY <2>2
    <3>2. [kind |-> kind] \in Inputs /\ kind # "motion"
      BY DEF Inputs, Plain
    <3>3. QED
      BY <3>1, <3>2
  <2>3. CASE \E p \in Positions \ {pointer} :
               /\ sdlQueue' = Append(sdlQueue, [kind |-> "motion", x |-> p, xrel |-> p - pointer])
               /\ pointer' = p
    <3>1. PICK p \in Positions :
            /\ sdlQueue' = Append(sdlQueue, [kind |-> "motion", x |-> p, xrel |-> p - pointer])
            /\ pointer' = p
      BY <2>3
    <3>2. p - pointer \in Int
      BY WindowsAssumption DEF TypeOK
    <3>3. [kind |-> "motion", x |-> p, xrel |-> p - pointer] \in Inputs
      BY <3>2 DEF Inputs
    <3>4. QED
      BY <3>1, <3>3
  <2>4. QED
    BY <2>1, <2>2, <2>3 DEF Input
<1>4. /\ DOMAIN sdlQueue' = DOMAIN sdlQueue \union {Len(sdlQueue) + 1}
      /\ sdlQueue'[Len(sdlQueue) + 1] = e
      /\ \A k \in DOMAIN sdlQueue : sdlQueue'[k] = sdlQueue[k] /\ k < Len(sdlQueue) + 1
  BY <1>2, <1>3, AppendIs
<1>5. CASE e.kind # "motion" /\ pointer' = pointer
  BY <1>1, <1>2, <1>4, <1>5 DEF MouseInv, IsMotion
<1>6. CASE e.kind = "motion" /\ e.x = pointer'
  BY <1>1, <1>2, <1>4, <1>6 DEF MouseInv, IsMotion
<1>7. QED
  BY <1>3, <1>5, <1>6

LEMMA MousePoll ==
  ASSUME TypeOK, MouseInv, Poll
  PROVE  MouseInv'
<1> DEFINE e == Head(sdlQueue)
<1>1. /\ sdlQueue # <<>> /\ sdlQueue' = Tail(sdlQueue) /\ pointer' = pointer
      /\ \/ e.kind = "motion" /\ Motion(e)
         \/ e.kind # "motion" /\ UNCHANGED <<mouse, loop, moved, start>>
  BY DEF Poll, mouseVars, loopVars
<1>2. /\ Len(sdlQueue) \in Nat \ {0} /\ e = sdlQueue[1] /\ Tail(sdlQueue) \in Seq(Inputs)
      /\ DOMAIN sdlQueue = 1 .. Len(sdlQueue)
      /\ Len(Tail(sdlQueue)) = Len(sdlQueue) - 1
      /\ \A k \in 1 .. Len(sdlQueue) - 1 : Tail(sdlQueue)[k] = sdlQueue[k + 1]
  BY <1>1, HeadIs
<1>3. /\ DOMAIN sdlQueue' = 1 .. Len(sdlQueue) - 1
      /\ \A k \in DOMAIN sdlQueue' : k + 1 \in DOMAIN sdlQueue /\ sdlQueue'[k] = sdlQueue[k + 1]
      /\ \A j \in DOMAIN sdlQueue : j = 1 \/ (j - 1 \in DOMAIN sdlQueue' /\ sdlQueue'[j - 1] = sdlQueue[j])
  BY <1>1, <1>2, LenProperties
<1> HIDE DEF e
<1>4. ASSUME NEW k \in DOMAIN sdlQueue', IsMotion(k)',
             \A j \in DOMAIN sdlQueue' : k < j => ~IsMotion(j)'
      PROVE  sdlQueue'[k].x = pointer'
  <2>1. k + 1 \in DOMAIN sdlQueue /\ sdlQueue[k + 1] = sdlQueue'[k]
    BY <1>3
  <2>2. ASSUME NEW j \in DOMAIN sdlQueue, k + 1 < j, IsMotion(j)
        PROVE  FALSE
    <3>1. j - 1 \in DOMAIN sdlQueue' /\ sdlQueue'[j - 1] = sdlQueue[j] /\ k < j - 1
      BY <1>2, <1>3, <2>2
    <3>2. QED
      BY <1>4, <2>2, <3>1 DEF IsMotion
  <2>3. QED
    BY <1>1, <1>4, <2>1, <2>2 DEF MouseInv, IsMotion
<1>5. ASSUME \A k \in DOMAIN sdlQueue' : ~IsMotion(k)'
      PROVE  mouse' = pointer' /\ (loop' = "polling" /\ ~moved' => start' = pointer')
  <2>1. \A j \in DOMAIN sdlQueue : j # 1 => ~IsMotion(j)
    BY <1>3, <1>5 DEF IsMotion
  <2>2. CASE e.kind = "motion" /\ Motion(e)
    <3>1. IsMotion(1) /\ 1 \in DOMAIN sdlQueue
      BY <1>2, <2>2 DEF IsMotion
    <3>2. sdlQueue[1].x = pointer
      BY <1>2, <2>1, <3>1 DEF MouseInv
    <3>3. QED
      BY <1>1, <1>2, <2>2, <3>2 DEF Motion, Remembers
  <2>3. CASE e.kind # "motion" /\ UNCHANGED <<mouse, loop, moved, start>>
    <3>1. \A j \in DOMAIN sdlQueue : ~IsMotion(j)
      BY <1>2, <2>1, <2>3 DEF IsMotion
    <3>2. QED
      BY <1>1, <2>3, <3>1 DEF MouseInv
  <2>4. QED
    BY <1>1, <2>2, <2>3
<1>6. QED
  BY <1>4, <1>5 DEF MouseInv

LEMMA MouseNext ==
  ASSUME TypeOK, MouseInv, [Next]_vars
  PROVE  MouseInv'
<1>1. ASSUME UNCHANGED <<sdlQueue, pointer, mouse, loop, moved, start>>
      PROVE  MouseInv'
  BY <1>1 DEF MouseInv, IsMotion
<1>2. CASE UNCHANGED vars
  BY <1>1, <1>2 DEF vars, sdlVars, mouseVars, loopVars
<1>3. CASE Program
  <2>1. CASE \E w \in Ids : HandleEvents(w)
    BY <2>1 DEF HandleEvents, MouseInv, IsMotion, mouseVars, sdlVars
  <2>2. CASE UNCHANGED <<mouseVars, loopVars, sdlVars>>
    BY <1>1, <2>2 DEF sdlVars, mouseVars, loopVars
  <2>3. QED
    BY <1>3, <2>1, <2>2 DEF Program, AddWindow, SetAttribute
<1>4. CASE Returns
  BY <1>1, <1>4 DEF Returns, sdlVars, mouseVars, loopVars
<1>5. CASE Poll
  BY <1>5, MousePoll
<1>6. CASE Polled
  <2>1. /\ sdlQueue = <<>> /\ UNCHANGED sdlQueue /\ pointer' = pointer /\ loop = "polling"
        /\ loop' = "no"
        /\ \/ moved /\ mouse' = mouse
           \/ ~moved /\ mouse' = start
    <3>1. \/ moved /\ UNCHANGED mouseVars
          \/ ~moved /\ delta' = mouse - start /\ mouse' = start
      BY <1>6 DEF Polled
    <3>2. UNCHANGED mouseVars => mouse' = mouse
      BY DEF mouseVars
    <3>3. UNCHANGED sdlVars => sdlQueue' = sdlQueue /\ pointer' = pointer
      BY DEF sdlVars
    <3>4. sdlQueue = <<>> /\ loop = "polling" /\ loop' = "no"
      BY <1>6, Zenon DEF Polled
    <3>5. UNCHANGED sdlVars
      BY <1>6 DEF Polled
    <3>6. QED
      BY <3>1, <3>2, <3>3, <3>4, <3>5, Zenon
  <2>2. DOMAIN sdlQueue = {}
    BY <2>1
  <2>3. mouse' = pointer
    BY <2>1, <2>2 DEF MouseInv
  <2>4. QED
    BY <2>1, <2>2, <2>3 DEF MouseInv
<1>7. CASE Input
  BY <1>7, MouseInput
<1>8. QED
  BY <1>2, <1>3, <1>4, <1>5, <1>6, <1>7 DEF Next

LEMMA MouseInit == Init => MouseInv
<1> SUFFICES ASSUME Init
             PROVE  MouseInv
  OBVIOUS
<1>1. sdlQueue = <<>> /\ pointer = 0 /\ mouse = 0 /\ loop = "no"
  BY Zenon DEF Init
<1>2. QED
  BY <1>1 DEF MouseInv

LEMMA WindowsNext ==
  ASSUME Attributes \subseteq Told, TypeOK, WindowsAsSet, [Next]_vars
  PROVE  WindowsAsSet'
<1>1. ASSUME UNCHANGED windowVars
      PROVE  WindowsAsSet'
  BY <1>1 DEF WindowsAsSet, windowVars
<1>2. CASE \E w \in Ids, described \in [Attributes -> Settings] : AddWindow(w, described)
  BY <1>2 DEF AddWindow, WindowsAsSet, TypeOK
<1>3. CASE \E w \in Ids, a \in Attributes, v \in Settings : SetAttribute(w, a, v)
  <2>1. PICK w \in Ids, a \in Attributes, v \in Settings : SetAttribute(w, a, v)
    BY <1>3
  <2>2. /\ stored' = [stored EXCEPT ![w][a] = v] /\ shown' = [shown EXCEPT ![w][a] = v]
        /\ UNCHANGED windows /\ windows \subseteq Ids
    BY <2>1 DEF SetAttribute, TypeOK
  <2>3. ASSUME NEW o \in windows
        PROVE  shown'[o] = stored'[o]
    <3>1. shown[o] = stored[o] /\ o \in Ids
      BY <2>2 DEF WindowsAsSet
    <3>2. QED
      BY <2>2, <3>1 DEF TypeOK
  <2>4. QED
    BY <2>2, <2>3 DEF WindowsAsSet
<1>4. CASE ~(\E w \in Ids, described \in [Attributes -> Settings] : AddWindow(w, described))
           /\ ~(\E w \in Ids, a \in Attributes, v \in Settings : SetAttribute(w, a, v))
  <2>1. UNCHANGED windowVars
    BY <1>4 DEF Next, Program, HandleEvents, Returns, Poll, Polled, Input, vars
  <2>2. QED
    BY <1>1, <2>1
<1>5. QED
  BY <1>2, <1>3, <1>4

(* Whatever liberties a program takes with subscribers: when handleEvents  *)
(* returns it has told the position the pointer has, and the windows are   *)
(* as they were set, for the attributes SDL is told of                     *)
(* (Window::handleEvents, Vulkan::addWindow, the setters).                 *)
THEOREM WindowsAgree ==
  ASSUME Attributes \subseteq Told
  PROVE  Spec => AgreesWithSDL
<1> DEFINE Reported == loop = "polling" /\ loop' = "no" => mouse' = pointer /\ (moved \/ delta' = 0)
<1>1. Init => MouseInv /\ WindowsAsSet
  BY MouseInit DEF Init, WindowsAsSet
<1>2. TypeOK /\ MouseInv /\ WindowsAsSet /\ [Next]_vars => MouseInv' /\ WindowsAsSet'
  BY MouseNext, WindowsNext
<1>3. TypeOK /\ MouseInv /\ [Next]_vars => [Reported]_vars
  <2> SUFFICES ASSUME TypeOK, MouseInv, Next, loop = "polling", loop' = "no"
               PROVE  mouse' = pointer /\ (moved \/ delta' = 0)
    BY DEF vars
  <2>1. Polled
    BY DEF Next, Program, HandleEvents, AddWindow, SetAttribute, Returns, Poll, Motion, Input, loopVars
  <2>2. /\ sdlQueue = <<>>
        /\ \/ moved /\ mouse' = mouse
           \/ ~moved /\ mouse' = start /\ delta' = mouse - start
    <3>1. \/ moved /\ UNCHANGED mouseVars
          \/ ~moved /\ delta' = mouse - start /\ mouse' = start
      BY <2>1 DEF Polled
    <3>2. UNCHANGED mouseVars => mouse' = mouse
      BY DEF mouseVars
    <3>3. sdlQueue = <<>>
      BY <2>1 DEF Polled
    <3>4. QED
      BY <3>1, <3>2, <3>3, Zenon
  <2>3. mouse = pointer /\ (~moved => start = pointer)
    <3>1. DOMAIN sdlQueue = {}
      BY <2>2
    <3>2. QED
      BY <3>1 DEF MouseInv
  <2>4. mouse \in Int
    BY WindowsAssumption DEF TypeOK
  <2>5. QED
    BY <2>2, <2>3, <2>4
<1>4. QED
  BY <1>1, <1>2, <1>3, WindowsTypes, PTL DEF Spec, AgreesWithSDL, MouseCatchesUp
=============================================================================
