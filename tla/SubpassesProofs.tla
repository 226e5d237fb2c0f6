--------------------------- MODULE SubpassesProofs ---------------------------
(***************************************************************************)
(* Proofs about Subpasses and RenderPasses, for every number of children,  *)
(* command buffers, attachments and subpasses.                             *)
(***************************************************************************)
EXTENDS Subpasses, SequenceTheorems, FiniteSetTheorems, WellFoundedInduction, TLAPS

-----------------------------------------------------------------------------
(* Vectors that grow. *)

(* A set of natural numbers has a least one. *)
LEMMA LeastOf ==
  ASSUME NEW S \in SUBSET Nat, S # {}
  PROVE  \E i \in S : \A j \in S : i <= j
<1> DEFINE R == StrictSubsetOrdering(Nat)
           F == FiniteSubsetsOf(Nat)
           T == {0 .. i : i \in S}
<1>1. T \subseteq F /\ T # {}
  <2>1. ASSUME NEW i \in S
        PROVE  0 .. i \in F
    <3>1. IsFiniteSet(0 .. i)
      BY FS_Interval
    <3>2. 0 .. i \subseteq Nat
      OBVIOUS
    <3>3. QED
      BY <3>1, <3>2 DEF FiniteSubsetsOf
  <2> HIDE DEF F
  <2>2. QED
    BY <2>1
<1>2. IsWellFoundedOn(R, F)
  BY FS_StrictSubsetOrderingWellFounded
<1>3. \E x \in T : \A y \in T : <<y, x>> \notin R
  <2> HIDE DEF R, F, T
  <2> QED
    BY <1>1, <1>2, WFMin
<1>4. PICK i \in S : \A j \in S : <<0 .. j, 0 .. i>> \notin R
  BY <1>3
<1>5. ASSUME NEW j \in S, j < i
      PROVE  FALSE
  <2>1. (0 .. j) \subseteq (0 .. i) /\ i \in 0 .. i /\ i \notin 0 .. j
    BY <1>5
  <2>2. <<0 .. j, 0 .. i>> \in R
    BY <2>1 DEF StrictSubsetOrdering
  <2>3. QED
    BY <1>4, <1>5, <2>2
<1>6. QED
  BY <1>5

PushedFrom(g, v, n) == g = [k \in 0 .. n |-> IF k = 0 THEN v ELSE Pushed(g[k - 1])]

(* The recursion has a function. *)
LEMMA PushedExists ==
  ASSUME NEW v, NEW n \in Nat
  PROVE  \E g : PushedFrom(g, v, n)
<1> DEFINE S == {m \in Nat : ~\E g : PushedFrom(g, v, m)}
<1> SUFFICES ASSUME S # {} PROVE FALSE
  OBVIOUS
<1>1. PICK m \in S : \A j \in S : m <= j
  BY LeastOf
<1>2. CASE m = 0
  <2> DEFINE g == [k \in 0 .. 0 |-> v]
  <2>1. PushedFrom(g, v, 0)
    BY DEF PushedFrom
  <2> QED BY <1>2, <2>1
<1>3. CASE m > 0
  <2>1. m - 1 \in Nat /\ m - 1 \notin S
    BY <1>1, <1>3
  <2>2. PICK g : PushedFrom(g, v, m - 1)
    BY <2>1
  <2> DEFINE h == [k \in 0 .. m |-> IF k = 0 THEN v ELSE Pushed(g[k - 1])]
  <2>3. \A k \in 0 .. m - 1 : g[k] = IF k = 0 THEN v ELSE Pushed(g[k - 1])
    BY <2>2 DEF PushedFrom
  <2>4. \A k \in 0 .. m - 1 : h[k] = g[k]
    BY <1>1, <2>3
  <2>5. \A k \in 0 .. m : k # 0 => k - 1 \in 0 .. m - 1
    BY <1>1
  <2>6. h = [k \in 0 .. m |-> IF k = 0 THEN v ELSE Pushed(h[k - 1])]
    <3>1. \A k \in 0 .. m : k # 0 => h[k - 1] = g[k - 1]
      BY <2>4, <2>5
    <3> HIDE DEF h
    <3>2. \A k \in 0 .. m : (IF k = 0 THEN v ELSE Pushed(g[k - 1])) = (IF k = 0 THEN v ELSE Pushed(h[k - 1]))
      BY <3>1
    <3>3. [k \in 0 .. m |-> IF k = 0 THEN v ELSE Pushed(g[k - 1])]
            = [k \in 0 .. m |-> IF k = 0 THEN v ELSE Pushed(h[k - 1])]
      BY <3>2
    <3> QED BY <3>3 DEF h
  <2> QED BY <1>1, <2>6 DEF PushedFrom
<1> QED BY <1>1, <1>2, <1>3

LEMMA TimesIs ==
  ASSUME NEW v, NEW n \in Nat
  PROVE  \E g : PushedFrom(g, v, n) /\ Times(v, n) = g[n]
<1> DEFINE h == CHOOSE h : h = [k \in 0 .. n |-> IF k = 0 THEN v ELSE Pushed(h[k - 1])]
<1>1. h = [k \in 0 .. n |-> IF k = 0 THEN v ELSE Pushed(h[k - 1])]
  <2>1. \E g : g = [k \in 0 .. n |-> IF k = 0 THEN v ELSE Pushed(g[k - 1])]
    BY PushedExists DEF PushedFrom
  <2> QED BY <2>1, Zenon
<1>2. Times(v, n) = h[n]
  BY Zenon DEF Times
<1> QED BY <1>1, <1>2 DEF PushedFrom

Holding == {v \in Vectors : v.size <= v.capacity}

LEMMA PushedIn ==
  ASSUME NEW v \in Holding
  PROVE  Pushed(v) \in Holding
BY DEF Holding, Vectors, Pushed

(* However much is pushed, a vector has room for what it has. *)
LEMMA TimesIn ==
  ASSUME NEW v \in Holding, NEW n \in Nat
  PROVE  Times(v, n) \in Holding
<1>1. PICK g : PushedFrom(g, v, n) /\ Times(v, n) = g[n]
  BY TimesIs
<1> DEFINE S == {k \in 0 .. n : g[k] \notin Holding}
<1> SUFFICES ASSUME S # {} PROVE FALSE
  BY <1>1
<1>2. PICK m \in S : \A j \in S : m <= j
  <2>1. S \in SUBSET Nat
    OBVIOUS
  <2> QED BY <2>1, LeastOf
<1>3. g[m] = IF m = 0 THEN v ELSE Pushed(g[m - 1])
  BY <1>1, <1>2 DEF PushedFrom
<1>4. CASE m = 0
  BY <1>2, <1>3, <1>4
<1>5. CASE m > 0
  <2>1. m - 1 \in 0 .. n /\ m - 1 \notin S
    BY <1>2, <1>5
  <2>2. g[m - 1] \in Holding
    BY <2>1
  <2> QED BY <1>2, <1>3, <1>5, <2>2, PushedIn
<1> QED BY <1>2, <1>4, <1>5

-----------------------------------------------------------------------------
(* Render passes. *)

LEMMA PassInitOK == PassInit => PassTypeOK /\ ViewsMade
<1> SUFFICES ASSUME PassInit PROVE PassTypeOK /\ ViewsMade
  OBVIOUS
<1>1. PassTypeOK
  BY PassAssumption DEF PassInit, PassTypeOK, NoVector, Vectors, NumBuffers
<1>2. ~Made
  BY DEF PassInit, Made
<1> QED BY <1>1, <1>2 DEF ViewsMade

LEMMA VectorsHold ==
  ASSUME PassTypeOK
  PROVE  color \in Holding /\ depth \in Holding
BY DEF PassTypeOK, Holding

(* What making a pass changes. *)
LEMMA MakesTypes ==
  ASSUME NEW count, Makes(count)
  PROVE  Len(views') = NumBuffers /\ views' # <<>> /\ swapchain' = count
<1>1. views' = [b \in 1 .. 3 |-> [k \in DOMAIN attachments |-> ViewOf(count, b, k)]] /\ swapchain' = count
  BY DEF Makes, NumBuffers
<1>2. Len(views') = 3
  BY <1>1
<1> QED BY <1>1, <1>2 DEF NumBuffers

LEMMA AddSubpassTypes ==
  ASSUME PassTypeOK, NEW colors \in ColorCounts, NEW wanted \in BOOLEAN, AddSubpass(colors, wanted)
  PROVE  PassTypeOK'
<1>1. colors \in Nat
  BY PassAssumption
<1>2. color' \in Holding /\ depth' \in Holding
  BY <1>1, VectorsHold, TimesIn, PushedIn DEF AddSubpass
<1>3. attachments' \in Seq({"depth", "color"}) /\ Len(attachments') <= MaxAttachments
  <2> DEFINE a == IF wanted THEN <<"depth">> ELSE <<>>
             b == Several("color", colors)
  <2>1. a \in Seq({"depth", "color"}) /\ Len(a) = IF wanted THEN 1 ELSE 0
    <3>1. <<"depth">> \in Seq({"depth", "color"}) /\ Len(<<"depth">>) = 1
      OBVIOUS
    <3>2. <<>> \in Seq({"depth", "color"}) /\ Len(<<>>) = 0
      OBVIOUS
    <3>3. CASE wanted
      BY <3>1, <3>3
    <3>4. CASE ~wanted
      BY <3>2, <3>4
    <3> QED BY <3>3, <3>4
  <2>2. b \in Seq({"depth", "color"}) /\ Len(b) = colors
    BY <1>1 DEF Several
  <2>3. attachments' = attachments \o a \o b
    BY DEF AddSubpass
  <2>4. attachments \in Seq({"depth", "color"}) /\ Len(attachments) + colors + (IF wanted THEN 1 ELSE 0) <= MaxAttachments
    BY DEF PassTypeOK, AddSubpass
  <2> HIDE DEF a, b
  <2>5. PICK c : c = attachments \o a
    OBVIOUS
  <2>6. c \in Seq({"depth", "color"}) /\ Len(c) = Len(attachments) + Len(a)
    BY <2>1, <2>4, <2>5, ConcatProperties
  <2>7. attachments' = c \o b
    BY <2>3, <2>5
  <2>8. attachments' \in Seq({"depth", "color"}) /\ Len(attachments') = Len(c) + Len(b)
    BY <2>2, <2>6, <2>7, ConcatProperties
  <2>9. Len(attachments) \in Nat
    BY <2>4
  <2>10. Len(attachments') = Len(attachments) + Len(a) + colors
    BY <2>2, <2>6, <2>8
  <2>11. MaxAttachments \in Nat
    BY PassAssumption
  <2>12. Len(attachments') <= MaxAttachments
    <3>1. Len(a) \in Nat /\ Len(attachments) + colors + Len(a) <= MaxAttachments
      BY <2>1, <2>4
    <3> PICK x, y, z : x = Len(attachments) /\ y = Len(a) /\ z = Len(attachments')
      OBVIOUS
    <3> QED BY <1>1, <2>9, <2>10, <2>11, <3>1
  <2> QED BY <2>8, <2>12
<1>4. UNCHANGED <<views, current, swapchain>>
  BY DEF AddSubpass
<1>5. subpasses' \in Seq(Descriptions)
  <2> PICK depths : depths = IF wanted THEN Pushed(depth) ELSE depth
    OBVIOUS
  <2> PICK s : s = [colors |-> colors, color |-> Pointed(color, colors), wanted |-> wanted,
                    own |-> depths.size, depth |-> [null |-> depths.size = 0, moves |-> depths.moves]]
    OBVIOUS
  <2>1. subpasses' = Append(subpasses, s) /\ depth' = depths
    BY Zenon DEF AddSubpass
  <2>2. depths \in Vectors /\ Times(color, colors) \in Vectors /\ color \in Vectors
    BY <1>2, <2>1, VectorsHold DEF AddSubpass, Holding
  <2>3. Pointed(color, colors) \in [from : Nat, moves : Nat]
    BY <2>2 DEF Pointed, Vectors
  <2>4. s \in Descriptions
    BY <1>1, <2>2, <2>3 DEF Descriptions, Vectors
  <2>5. subpasses \in Seq(Descriptions)
    BY DEF PassTypeOK
  <2> QED BY <2>1, <2>4, <2>5
<1> QED BY <1>2, <1>3, <1>4, <1>5 DEF PassTypeOK, Holding

LEMMA PassTypes ==
  ASSUME PassTypeOK, PassNext
  PROVE  PassTypeOK'
<1>1. CASE \E colors \in ColorCounts, wanted \in BOOLEAN : AddSubpass(colors, wanted)
  BY <1>1, AddSubpassTypes
<1>2. CASE \E count \in ImageCounts \cup {0} : InitializePass(count)
  BY <1>2, MakesTypes, PassAssumption DEF InitializePass, PassTypeOK
<1>3. CASE \E count \in ImageCounts : Recreate(count)
  <2>1. /\ current' = 0 /\ Len(views') = NumBuffers /\ swapchain' \in Nat
        /\ UNCHANGED <<attachments, color, depth, subpasses>>
    BY <1>3, MakesTypes, PassAssumption DEF Recreate
  <2> QED BY <2>1 DEF PassTypeOK, NumBuffers
<1>4. CASE ResetPass
  BY <1>4, PassAssumption DEF ResetPass, PassTypeOK, NoVector, Vectors
<1> QED BY <1>1, <1>2, <1>3, <1>4 DEF PassNext

(* Whatever is asked of it, a pass keeps the views it was made with.       *)
LEMMA ViewsStep ==
  ASSUME PassTypeOK, ViewsMade, PassNext
  PROVE  ViewsMade'
<1>1. CASE \E colors \in ColorCounts, wanted \in BOOLEAN : AddSubpass(colors, wanted)
  BY <1>1 DEF AddSubpass, ViewsMade, Made
<1>2. CASE ResetPass
  BY <1>2 DEF ResetPass, ViewsMade, Made
<1>3. ASSUME NEW count, Makes(count), subpasses # <<>>, UNCHANGED <<attachments, subpasses>>
      PROVE  ViewsMade'
  <2>1. /\ views' = [b \in 1 .. NumBuffers |-> [k \in DOMAIN attachments |-> ViewOf(count, b, k)]]
        /\ swapchain' = count
    BY <1>3 DEF Makes
  <2>2. \A b, k : ViewOf(swapchain, b, k)' = ViewOf(count, b, k)
    BY <1>3, <2>1 DEF ViewOf, FromSwapchain
  <2>3. views' = [b \in 1 .. NumBuffers |-> [k \in DOMAIN attachments' |-> ViewOf(swapchain, b, k)']]
    BY <1>3, <2>1, <2>2
  <2> QED BY <1>3, <2>3 DEF ViewsMade
<1>4. CASE \E count \in ImageCounts \cup {0} : InitializePass(count)
  BY <1>3, <1>4 DEF InitializePass
<1>5. CASE \E count \in ImageCounts : Recreate(count)
  BY <1>3, <1>5 DEF Recreate, ViewsMade
<1> QED BY <1>1, <1>2, <1>4, <1>5 DEF PassNext

LEMMA NumbersDiffer ==
  ASSUME NEW n \in Nat, NEW b1 \in 1 .. 3, NEW b2 \in 1 .. 3, b1 # b2,
         NEW k1 \in 1 .. n, NEW k2 \in 1 .. n
  PROVE  NumberOf(n, b1, k1) # NumberOf(n, b2, k2)
<1>1. \A x \in Nat : x * (1 - 1) = 0 /\ x * (2 - 1) = x /\ x * (3 - 1) = x + x
  OBVIOUS
<1>2. \A b \in 1 .. 3 : n * (b - 1) = (IF b = 1 THEN 0 ELSE IF b = 2 THEN n ELSE n + n)
  BY <1>1
<1> PICK x, y : x = n * (b1 - 1) /\ y = n * (b2 - 1)
  OBVIOUS
<1>3. /\ x = (IF b1 = 1 THEN 0 ELSE IF b1 = 2 THEN n ELSE n + n)
      /\ y = (IF b2 = 1 THEN 0 ELSE IF b2 = 2 THEN n ELSE n + n)
  BY <1>2
<1>4. x + k1 # y + k2
  BY <1>3
<1> QED BY <1>4 DEF NumberOf

(* Framebuffers share nothing but the images of a swapchain with too few.  *)
LEMMA ViewsOwn ==
  ASSUME PassTypeOK, ViewsMade
  PROVE  OwnViews
<1> DEFINE n == Len(attachments)
<1> SUFFICES ASSUME Made, NEW b1 \in 1 .. 3, NEW b2 \in 1 .. 3, b1 # b2, NEW v \in Common(b1, b2)
             PROVE  v.swapchain /\ Short
  BY DEF OwnViews, Apart, NumBuffers
<1>1. /\ DOMAIN attachments = 1 .. n /\ n \in Nat
      /\ \A b \in 1 .. 3 : \A k \in 1 .. n : views[b][k] = ViewOf(swapchain, b, k)
  BY DEF ViewsMade, NumBuffers, PassTypeOK
<1>2. PICK k1 \in 1 .. n : views[b1][k1] = v
  BY <1>1 DEF Common
<1>3. PICK k2 \in 1 .. n : views[b2][k2] = v
  BY <1>1 DEF Common
<1>4. v = ViewOf(swapchain, b1, k1) /\ v = ViewOf(swapchain, b2, k2)
  BY <1>1, <1>2, <1>3
<1>5. CASE FromSwapchain(swapchain, k1) /\ FromSwapchain(swapchain, k2)
  <2>1. v = [swapchain |-> TRUE, number |-> ImageOf(swapchain, b1)]
        /\ v = [swapchain |-> TRUE, number |-> ImageOf(swapchain, b2)]
    BY <1>4, <1>5 DEF ViewOf
  <2>2. v.swapchain /\ ImageOf(swapchain, b1) = ImageOf(swapchain, b2)
    BY <2>1
  <2>3. swapchain > 0 /\ swapchain \in Nat
    BY <1>5 DEF FromSwapchain, PassTypeOK
  <2>4. swapchain < 3
    BY <2>2, <2>3 DEF ImageOf
  <2> QED BY <2>2, <2>3, <2>4 DEF Short, NumBuffers
<1>6. CASE ~FromSwapchain(swapchain, k1) /\ ~FromSwapchain(swapchain, k2)
  <2>1. v = [swapchain |-> FALSE, number |-> NumberOf(n, b1, k1)]
        /\ v = [swapchain |-> FALSE, number |-> NumberOf(n, b2, k2)]
    BY <1>4, <1>6 DEF ViewOf
  <2>2. NumberOf(n, b1, k1) = NumberOf(n, b2, k2)
    BY <2>1
  <2> HIDE DEF n
  <2> QED BY <1>1, <2>2, NumbersDiffer
<1>7. CASE \/ FromSwapchain(swapchain, k1) /\ ~FromSwapchain(swapchain, k2)
           \/ ~FromSwapchain(swapchain, k1) /\ FromSwapchain(swapchain, k2)
  <2>1. ViewOf(swapchain, b1, k1).swapchain # ViewOf(swapchain, b2, k2).swapchain
    BY <1>7 DEF ViewOf
  <2> QED BY <1>4, <2>1
<1> QED BY <1>5, <1>6, <1>7

-----------------------------------------------------------------------------
(* Types, whatever the program does. *)

ChildType ==
  [phase : {"new", "making", "idle", "begun", "drawing"}, current : Slots,
   recording : BOOLEAN, subpass : Nat, pool : {"own", "main"}, fresh : BOOLEAN, late : BOOLEAN]

MainType == [phase : {"idle", "waiting"}, current : Slots, recording : BOOLEAN, dirty : BOOLEAN]

PrimaryType ==
  [state : BufferStates, parts : Seq(Parts), at : Nat, signaled : BOOLEAN, fence : BOOLEAN,
   onto : 0 .. NumBuffers - 1]

SecondaryType == [state : BufferStates, time : Nat]

LEMMA TypesAre ==
  TypeOK <=> /\ PassTypeOK
             /\ main \in MainType /\ primary \in [Slots -> PrimaryType]
             /\ child \in [Children -> ChildType] /\ secondary \in [Children -> [Slots -> SecondaryType]]
             /\ gpu \in Seq(Slots) /\ done \in Seq(Seq(Nat)) /\ issued \in Nat
             /\ frames \in 0 .. MaxFrames
BY DEF TypeOK, MainType, PrimaryType, ChildType, SecondaryType

LEMMA SuccIn ==
  ASSUME NEW s \in Slots
  PROVE  Succ(s) \in Slots
BY SubpassAssumption DEF Succ, Slots

LEMMA InitTypes == Init => TypeOK
<1> SUFFICES ASSUME Init PROVE TypeOK
  OBVIOUS
<1>1. PassTypeOK
  BY PassInitOK DEF Init
<1>2. 0 \in Slots /\ Count \in Nat /\ MaxFrames \in Nat
  BY SubpassAssumption DEF Slots
<1>3. main \in MainType
  BY <1>2 DEF Init, MainType
<1>4. primary \in [Slots -> PrimaryType]
  <2>1. NewPrimary \in PrimaryType
    BY DEF NewPrimary, PrimaryType, BufferStates, NumBuffers
  <2> QED BY <2>1 DEF Init
<1>5. child \in [Children -> ChildType]
  <2>1. NewChild \in ChildType
    BY <1>2 DEF NewChild, ChildType
  <2> QED BY <2>1 DEF Init
<1>6. secondary \in [Children -> [Slots -> SecondaryType]]
  <2>1. [state |-> "initial", time |-> 0] \in SecondaryType
    BY DEF SecondaryType, BufferStates
  <2> QED BY <2>1 DEF Init
<1>7. gpu \in Seq(Slots) /\ done \in Seq(Seq(Nat)) /\ issued \in Nat /\ frames \in 0 .. MaxFrames
  BY <1>2 DEF Init
<1> QED BY <1>1, <1>3, <1>4, <1>5, <1>6, <1>7, TypesAre

(* A child that becomes i. *)
Becomes(c, i) == child' = [child EXCEPT ![c] = i]

LEMMA ChildSet ==
  ASSUME child \in [Children -> ChildType], NEW c \in Children, NEW i \in ChildType, Becomes(c, i)
  PROVE  /\ child' \in [Children -> ChildType] /\ child'[c] = i
         /\ \A u \in Children : u # c => child'[u] = child[u]
BY DEF Becomes

LEMMA ChildFields ==
  ASSUME NEW i \in ChildType
  PROVE  /\ i.phase \in {"new", "making", "idle", "begun", "drawing"} /\ i.current \in Slots
         /\ i.recording \in BOOLEAN /\ i.subpass \in Nat /\ i.pool \in {"own", "main"}
         /\ i.fresh \in BOOLEAN /\ i.late \in BOOLEAN
BY DEF ChildType

LEMMA EnterPoolsChild ==
  ASSUME child \in [Children -> ChildType], NEW c \in Children, NEW pool \in {"own", "main"}, EnterPools(c, pool)
  PROVE  \E i \in ChildType :
           /\ Becomes(c, i)
           /\ i.phase = "making" /\ i.current = child[c].current /\ i.recording = child[c].recording
           /\ i.subpass = child[c].subpass /\ i.pool = pool /\ i.fresh = child[c].fresh /\ i.late = child[c].late
<1> PICK i : i = [child[c] EXCEPT !.phase = "making", !.pool = pool]
  OBVIOUS
<1>1. child' = [child EXCEPT ![c].phase = "making", ![c].pool = pool]
  BY DEF EnterPools
<1>2. Becomes(c, i)
  BY <1>1, Zenon DEF Becomes
<1>3. child[c] \in ChildType
  OBVIOUS
<1>5. /\ i \in ChildType
      /\ i.phase = "making" /\ i.current = child[c].current /\ i.recording = child[c].recording
      /\ i.subpass = child[c].subpass /\ i.pool = pool /\ i.fresh = child[c].fresh /\ i.late = child[c].late
  BY <1>3 DEF ChildType
<1> QED BY <1>2, <1>5

LEMMA LeavePoolsChild ==
  ASSUME child \in [Children -> ChildType], NEW c \in Children, NEW subpass \in 0 .. MaxAttachments, LeavePools(c, subpass)
  PROVE  \E i \in ChildType :
           /\ Becomes(c, i)
           /\ i.phase = "idle" /\ i.current = child[c].current /\ i.recording = child[c].recording
           /\ i.subpass = subpass /\ i.pool = child[c].pool /\ i.fresh = child[c].fresh /\ i.late = child[c].late
<1> PICK i : i = [child[c] EXCEPT !.phase = "idle", !.subpass = subpass]
  OBVIOUS
<1>1. child' = [child EXCEPT ![c].phase = "idle", ![c].subpass = subpass]
  BY DEF LeavePools
<1>2. Becomes(c, i)
  BY <1>1, Zenon DEF Becomes
<1>3. child[c] \in ChildType
  OBVIOUS
<1>4. subpass \in Nat
  BY PassAssumption
<1>5. /\ i \in ChildType
      /\ i.phase = "idle" /\ i.current = child[c].current /\ i.recording = child[c].recording
      /\ i.subpass = subpass /\ i.pool = child[c].pool /\ i.fresh = child[c].fresh /\ i.late = child[c].late
  BY <1>3, <1>4 DEF ChildType
<1> QED BY <1>2, <1>5

LEMMA CombineChild ==
  ASSUME child \in [Children -> ChildType], NEW c \in Children, Combine(c)
  PROVE  \E i \in ChildType :
           /\ Becomes(c, i)
           /\ i.phase = child[c].phase /\ i.current = child[c].current /\ i.recording = child[c].recording
           /\ i.subpass = child[c].subpass /\ i.pool = child[c].pool /\ i.fresh = FALSE /\ i.late = TRUE
<1> PICK i : i = [child[c] EXCEPT !.fresh = FALSE, !.late = TRUE]
  OBVIOUS
<1>1. child' = [child EXCEPT ![c].fresh = FALSE, ![c].late = TRUE]
  BY DEF Combine
<1>2. Becomes(c, i)
  BY <1>1, Zenon DEF Becomes
<1>3. child[c] \in ChildType
  OBVIOUS
<1>5. /\ i \in ChildType
      /\ i.phase = child[c].phase /\ i.current = child[c].current /\ i.recording = child[c].recording
      /\ i.subpass = child[c].subpass /\ i.pool = child[c].pool /\ i.fresh = FALSE /\ i.late = TRUE
  BY <1>3 DEF ChildType
<1> QED BY <1>2, <1>5

LEMMA ChildBeginChild ==
  ASSUME child \in [Children -> ChildType], NEW c \in Children, ChildBegin(c)
  PROVE  \E i \in ChildType :
           /\ Becomes(c, i)
           /\ i.phase = "begun" /\ i.current = NextSlot(c) /\ i.recording = child[c].recording
           /\ i.subpass = child[c].subpass /\ i.pool = child[c].pool /\ i.fresh = child[c].fresh /\ i.late = child[c].late
<1> PICK i : i = [child[c] EXCEPT !.phase = "begun", !.current = NextSlot(c)]
  OBVIOUS
<1>1. child' = [child EXCEPT ![c].phase = "begun", ![c].current = NextSlot(c)]
  BY DEF ChildBegin
<1>2. Becomes(c, i)
  BY <1>1, Zenon DEF Becomes
<1>3. child[c] \in ChildType
  OBVIOUS
<1>4. NextSlot(c) \in Slots
  BY <1>3, SuccIn DEF ChildType, NextSlot
<1>5. /\ i \in ChildType
      /\ i.phase = "begun" /\ i.current = NextSlot(c) /\ i.recording = child[c].recording
      /\ i.subpass = child[c].subpass /\ i.pool = child[c].pool /\ i.fresh = child[c].fresh /\ i.late = child[c].late
  BY <1>3, <1>4 DEF ChildType
<1> QED BY <1>2, <1>5

LEMMA ChildRecordChild ==
  ASSUME child \in [Children -> ChildType], NEW c \in Children, ChildRecord(c)
  PROVE  \E i \in ChildType :
           /\ Becomes(c, i)
           /\ i.phase = "idle" /\ i.current = child[c].current /\ i.recording = TRUE
           /\ i.subpass = child[c].subpass /\ i.pool = child[c].pool /\ i.fresh = child[c].fresh /\ i.late = child[c].late
<1> PICK i : i = [child[c] EXCEPT !.phase = "idle", !.recording = TRUE]
  OBVIOUS
<1>1. child' = [child EXCEPT ![c].phase = "idle", ![c].recording = TRUE]
  BY DEF ChildRecord
<1>2. Becomes(c, i)
  BY <1>1, Zenon DEF Becomes
<1>3. child[c] \in ChildType
  OBVIOUS
<1>5. /\ i \in ChildType
      /\ i.phase = "idle" /\ i.current = child[c].current /\ i.recording = TRUE
      /\ i.subpass = child[c].subpass /\ i.pool = child[c].pool /\ i.fresh = child[c].fresh /\ i.late = child[c].late
  BY <1>3 DEF ChildType
<1> QED BY <1>2, <1>5

LEMMA DrawChild ==
  ASSUME child \in [Children -> ChildType], NEW c \in Children, Draw(c)
  PROVE  \E i \in ChildType :
           /\ Becomes(c, i)
           /\ i.phase = "drawing" /\ i.current = child[c].current /\ i.recording = child[c].recording
           /\ i.subpass = child[c].subpass /\ i.pool = child[c].pool /\ i.fresh = child[c].fresh /\ i.late = child[c].late
<1> PICK i : i = [child[c] EXCEPT !.phase = "drawing"]
  OBVIOUS
<1>1. child' = [child EXCEPT ![c].phase = "drawing"]
  BY DEF Draw
<1>2. Becomes(c, i)
  BY <1>1, Zenon DEF Becomes
<1>3. child[c] \in ChildType
  OBVIOUS
<1>5. /\ i \in ChildType
      /\ i.phase = "drawing" /\ i.current = child[c].current /\ i.recording = child[c].recording
      /\ i.subpass = child[c].subpass /\ i.pool = child[c].pool /\ i.fresh = child[c].fresh /\ i.late = child[c].late
  BY <1>3 DEF ChildType
<1> QED BY <1>2, <1>5

LEMMA DrawnChild ==
  ASSUME child \in [Children -> ChildType], NEW c \in Children, Drawn(c)
  PROVE  \E i \in ChildType :
           /\ Becomes(c, i)
           /\ i.phase = "idle" /\ i.current = child[c].current /\ i.recording = child[c].recording
           /\ i.subpass = child[c].subpass /\ i.pool = child[c].pool /\ i.fresh = child[c].fresh /\ i.late = child[c].late
<1> PICK i : i = [child[c] EXCEPT !.phase = "idle"]
  OBVIOUS
<1>1. child' = [child EXCEPT ![c].phase = "idle"]
  BY DEF Drawn
<1>2. Becomes(c, i)
  BY <1>1, Zenon DEF Becomes
<1>3. child[c] \in ChildType
  OBVIOUS
<1>5. /\ i \in ChildType
      /\ i.phase = "idle" /\ i.current = child[c].current /\ i.recording = child[c].recording
      /\ i.subpass = child[c].subpass /\ i.pool = child[c].pool /\ i.fresh = child[c].fresh /\ i.late = child[c].late
  BY <1>3 DEF ChildType
<1> QED BY <1>2, <1>5

LEMMA ChildEndChild ==
  ASSUME child \in [Children -> ChildType], NEW c \in Children, ChildEnd(c)
  PROVE  \E i \in ChildType :
           /\ Becomes(c, i)
           /\ i.phase = child[c].phase /\ i.current = child[c].current /\ i.recording = FALSE
           /\ i.subpass = child[c].subpass /\ i.pool = child[c].pool /\ i.fresh = TRUE /\ i.late = child[c].late
<1> PICK i : i = [child[c] EXCEPT !.recording = FALSE, !.fresh = TRUE]
  OBVIOUS
<1>1. child' = [child EXCEPT ![c].recording = FALSE, ![c].fresh = TRUE]
  BY DEF ChildEnd
<1>2. Becomes(c, i)
  BY <1>1, Zenon DEF Becomes
<1>3. child[c] \in ChildType
  OBVIOUS
<1>5. /\ i \in ChildType
      /\ i.phase = child[c].phase /\ i.current = child[c].current /\ i.recording = FALSE
      /\ i.subpass = child[c].subpass /\ i.pool = child[c].pool /\ i.fresh = TRUE /\ i.late = child[c].late
  BY <1>3 DEF ChildType
<1> QED BY <1>2, <1>5

LEMMA PoolsTypes ==
  ASSUME TypeOK, NEW c \in Children,
         \/ \E pool \in {"own", "main"} : EnterPools(c, pool)
         \/ \E subpass \in 0 .. MaxAttachments : LeavePools(c, subpass)
  PROVE  TypeOK'
<1>1. UNCHANGED <<passVars, main, primary, secondary, gpu, done, issued, frames>>
  BY DEF EnterPools, LeavePools, bufferVars
<1>2. child' \in [Children -> ChildType]
  <2>1. child \in [Children -> ChildType]
    BY TypesAre
  <2>2. \E i \in ChildType : Becomes(c, i)
    BY <2>1, EnterPoolsChild, LeavePoolsChild
  <2> QED BY <2>1, <2>2, ChildSet
<1> QED BY <1>1, <1>2 DEF TypeOK, PassTypeOK, passVars, ChildType, Parts

LEMMA ParentTypes ==
  ASSUME TypeOK, ParentBegin \/ ParentBegun
  PROVE  TypeOK'
<1>1. /\ main \in MainType /\ primary \in [Slots -> PrimaryType] /\ child \in [Children -> ChildType]
      /\ frames \in 0 .. MaxFrames /\ MaxFrames \in Nat
  BY TypesAre, SubpassAssumption
<1>2. CASE ParentBegin
  <2>1. UNCHANGED <<passVars, child, primary, secondary, gpu, done, issued>>
    BY <1>2 DEF ParentBegin, bufferVars
  <2>2. main' \in MainType /\ frames' \in 0 .. MaxFrames
    BY <1>1, <1>2 DEF ParentBegin, MainType
  <2> QED BY <2>1, <2>2 DEF TypeOK, PassTypeOK, passVars, MainType
<1>3. CASE ParentBegun
  <2>1. UNCHANGED <<passVars, secondary, gpu, done, issued, frames>>
    BY <1>3 DEF ParentBegun
  <2>2. main' \in MainType
    BY <1>1, <1>3 DEF ParentBegun, MainType
  <2>3. primary' \in [Slots -> PrimaryType]
    <3>1. main.current \in Slots /\ primary[main.current] \in PrimaryType
      BY <1>1 DEF MainType
    <3>2. ASSUME NEW f \in BOOLEAN
          PROVE  [state |-> "recording", parts |-> <<>>, at |-> 0, signaled |-> FALSE, fence |-> f,
                   onto |-> current] \in PrimaryType
      BY DEF PrimaryType, BufferStates, TypeOK, PassTypeOK
    <3>3. primary[main.current].fence \in BOOLEAN
      BY <3>1 DEF PrimaryType
    <3>4. \E v \in PrimaryType : primary' = [primary EXCEPT ![main.current] = v]
      <4>1. CASE primary[main.current].signaled
        <5>1. primary' = [primary EXCEPT ![main.current] =
                            [state |-> "recording", parts |-> <<>>, at |-> 0, signaled |-> FALSE,
                             fence |-> FALSE, onto |-> current]]
          BY <1>3, <4>1 DEF ParentBegun
        <5> QED BY <3>2, <5>1
      <4>2. CASE ~primary[main.current].signaled
        <5>1. primary' = [primary EXCEPT ![main.current] =
                            [state |-> "recording", parts |-> <<>>, at |-> 0, signaled |-> FALSE,
                             fence |-> primary[main.current].fence, onto |-> current]]
          BY <1>3, <4>2 DEF ParentBegun
        <5> QED BY <3>2, <3>3, <5>1
      <4> QED BY <4>1, <4>2
    <3> QED BY <1>1, <3>4
  <2>4. child' \in [Children -> ChildType]
    BY <1>1, <1>3, ZenonT(30) DEF ParentBegun, ChildType
  <2> QED BY <2>1, <2>2, <2>3, <2>4 DEF TypeOK, PassTypeOK, passVars, MainType, PrimaryType, ChildType
<1> QED BY <1>2, <1>3

LEMMA CombineTypes ==
  ASSUME TypeOK, NEW c \in Children, Combine(c)
  PROVE  TypeOK'
<1>1. /\ main \in MainType /\ primary \in [Slots -> PrimaryType] /\ child \in [Children -> ChildType]
      /\ secondary \in [Children -> [Slots -> SecondaryType]] /\ issued \in Nat
  BY TypesAre
<1>2. UNCHANGED <<passVars, secondary, gpu, done, frames>>
  BY DEF Combine
<1>3. main' \in MainType /\ child' \in [Children -> ChildType] /\ issued' \in Nat
  <2>1. /\ main' = [main EXCEPT !.dirty = TRUE]
        /\ issued' = issued + 1
    BY DEF Combine
  <2>2. main' \in MainType /\ issued' \in Nat
    <3>1. main \in MainType
      BY <1>1
    <3>2. issued \in Nat
      BY <1>1
    <3>3. main' \in MainType
      BY <2>1, <3>1 DEF MainType
    <3> QED BY <2>1, <3>2, <3>3
  <2>3. child' \in [Children -> ChildType]
    BY <1>1, CombineChild, ChildSet
  <2> QED BY <2>2, <2>3
<1>4. Part(c) \in Parts
  <2>1. child[c].current \in Slots
    BY <1>1 DEF ChildType
  <2>2. secondary[c][child[c].current].time \in Nat
    BY <1>1, <2>1 DEF SecondaryType
  <2> QED BY <1>1, <2>1, <2>2 DEF Part, Parts
<1>5. primary' \in [Slots -> PrimaryType]
  <2>1. main.current \in Slots /\ Steps \in Nat
    BY <1>1 DEF MainType, Steps
  <2>2. primary' = [primary EXCEPT ![main.current].parts = Executed(@, Part(c)),
                                   ![main.current].at = @ + Steps]
    BY DEF Combine
  <2>3. Executed(primary[main.current].parts, Part(c)) \in Seq(Parts)
    BY <1>1, <1>4, <2>1 DEF Executed, PrimaryType
  <2>4. primary[main.current].at + Steps \in Nat
    BY <1>1, <2>1 DEF PrimaryType
  <2> HIDE DEF Steps
  <2> QED BY <1>1, <2>1, <2>2, <2>3, <2>4, ZenonT(60) DEF PrimaryType
<1> QED BY <1>2, <1>3, <1>5 DEF TypeOK, PassTypeOK, passVars, MainType, PrimaryType, ChildType

LEMMA SubmitTypes ==
  ASSUME TypeOK, ParentSubmit
  PROVE  TypeOK'
<1>1. /\ main \in MainType /\ primary \in [Slots -> PrimaryType] /\ gpu \in Seq(Slots)
  BY TypesAre
<1>2. UNCHANGED <<attachments, color, depth, subpasses, swapchain, views, child, secondary, done, issued, frames>>
  BY DEF ParentSubmit
<1>3. main.current \in Slots /\ Succ(main.current) \in Slots
  BY <1>1, SuccIn DEF MainType
<1>4. main' \in MainType
  BY <1>1, <1>3 DEF ParentSubmit, MainType
<1>5. primary' \in [Slots -> PrimaryType]
  <2>1. \/ primary' = [primary EXCEPT ![main.current].state = "pending", ![main.current].signaled = TRUE]
        \/ primary' = [primary EXCEPT ![main.current].state = "executable"]
    BY DEF ParentSubmit
  <2>2. ASSUME NEW v \in PrimaryType, primary' = [primary EXCEPT ![main.current] = v]
        PROVE  primary' \in [Slots -> PrimaryType]
    BY <1>1, <1>3, <2>2
  <2> PICK p : p = primary[main.current]
    OBVIOUS
  <2>3. p \in PrimaryType
    BY <1>1, <1>3
  <2>4. CASE primary' = [primary EXCEPT ![main.current].state = "pending", ![main.current].signaled = TRUE]
    <3> PICK v : v = [p EXCEPT !.state = "pending", !.signaled = TRUE]
      OBVIOUS
    <3>1. v \in PrimaryType
      BY <2>3 DEF PrimaryType, BufferStates
    <3>2. primary' = [primary EXCEPT ![main.current] = v]
      BY <2>4, Zenon
    <3> QED BY <2>2, <3>1, <3>2
  <2>5. CASE primary' = [primary EXCEPT ![main.current].state = "executable"]
    <3> PICK v : v = [p EXCEPT !.state = "executable"]
      OBVIOUS
    <3>1. v \in PrimaryType
      BY <2>3 DEF PrimaryType, BufferStates
    <3>2. primary' = [primary EXCEPT ![main.current] = v]
      BY <2>5, Zenon
    <3> QED BY <2>2, <3>1, <3>2
  <2> QED BY <2>1, <2>4, <2>5
<1>6. gpu' \in Seq(Slots)
  <2>1. Append(gpu, main.current) \in Seq(Slots)
    BY <1>1, <1>3
  <2> QED BY <1>1, <2>1 DEF ParentSubmit
<1>7. current' \in 0 .. (NumBuffers - 1)
  <2>1. current' = current \/ current' = NextBuffer(current)
    BY DEF ParentSubmit
  <2>2. current \in 0 .. 2 /\ Len(views) \in {0, 3}
    BY DEF TypeOK, PassTypeOK, NumBuffers
  <2>3. NextBuffer(current) \in 0 .. 2
    BY <2>2 DEF NextBuffer
  <2> QED BY <2>1, <2>2, <2>3 DEF NumBuffers
<1>8. PassTypeOK'
  BY <1>2, <1>7 DEF PassTypeOK, TypeOK
<1> QED BY <1>2, <1>4, <1>5, <1>6, <1>8 DEF TypeOK, MainType, PrimaryType

LEMMA CompleteTypes ==
  ASSUME TypeOK, Complete
  PROVE  TypeOK'
<1>1. /\ primary \in [Slots -> PrimaryType] /\ gpu \in Seq(Slots) /\ done \in Seq(Seq(Nat)) /\ gpu # <<>>
  BY TypesAre DEF Complete
<1>2. UNCHANGED <<passVars, main, child, secondary, issued, frames>>
  BY DEF Complete
<1>3. Head(gpu) \in Slots /\ gpu' \in Seq(Slots)
  <2> QED BY <1>1, EmptySeq, HeadTailProperties DEF Complete
<1>4. primary' \in [Slots -> PrimaryType]
  BY <1>1, <1>3, ZenonT(30) DEF Complete, PrimaryType, BufferStates
<1>5. done' \in Seq(Seq(Nat))
  <2> PICK p : p = primary[Head(gpu)]
    OBVIOUS
  <2>1. p.parts \in Seq(Parts)
    BY <1>1, <1>3 DEF PrimaryType
  <2>2. \A k \in DOMAIN p.parts : p.parts[k].number \in Nat
    <3>1. \A k \in DOMAIN p.parts : p.parts[k] \in Parts
      BY <2>1
    <3> QED BY <3>1 DEF Parts
  <2>3. [k \in DOMAIN p.parts |-> p.parts[k].number] \in Seq(Nat)
    BY <2>1, <2>2
  <2>4. done' = Append(done, [k \in DOMAIN p.parts |-> p.parts[k].number])
    BY DEF Complete
  <2> QED BY <1>1, <2>3, <2>4
<1> QED BY <1>2, <1>3, <1>4, <1>5 DEF TypeOK, PassTypeOK, passVars, PrimaryType

LEMMA ChildTypes ==
  ASSUME TypeOK, NEW c \in Children,
         ChildBegin(c) \/ ChildRecord(c) \/ Draw(c) \/ Drawn(c) \/ ChildEnd(c)
  PROVE  TypeOK'
<1>1. /\ child \in [Children -> ChildType] /\ secondary \in [Children -> [Slots -> SecondaryType]]
      /\ frames \in Nat
  BY TypesAre, SubpassAssumption
<1>2. UNCHANGED <<passVars, main, primary, gpu, done, issued, frames>>
  BY DEF ChildBegin, ChildRecord, Draw, Drawn, ChildEnd, bufferVars
<1>3. child[c].current \in Slots /\ NextSlot(c) \in Slots
  BY <1>1, SuccIn DEF ChildType, NextSlot
<1>4. child' \in [Children -> ChildType]
  <2>1. \E i \in ChildType : Becomes(c, i)
    BY <1>1, ChildBeginChild, ChildRecordChild, DrawChild, DrawnChild, ChildEndChild
  <2> QED BY <1>1, <2>1, ChildSet
<1>5. secondary' \in [Children -> [Slots -> SecondaryType]]
  <2>1. CASE ChildRecord(c)
    <3> PICK v : v = [state |-> "recording", time |-> frames]
      OBVIOUS
    <3>1. v \in SecondaryType
      BY <1>1 DEF SecondaryType, BufferStates
    <3>2. secondary' = [secondary EXCEPT ![c][child[c].current] = v]
      BY <2>1, Zenon DEF ChildRecord
    <3> QED BY <1>1, <1>3, <3>1, <3>2
  <2>2. CASE ChildEnd(c)
    <3>1. secondary' = [secondary EXCEPT ![c][child[c].current].state = "executable"]
      BY <2>2 DEF ChildEnd
    <3> PICK s : s = child[c].current
      OBVIOUS
    <3>2. secondary[c][s] \in SecondaryType /\ s \in Slots
      BY <1>1, <1>3
    <3> PICK v : v = [secondary[c][s] EXCEPT !.state = "executable"]
      OBVIOUS
    <3>3. v \in SecondaryType
      BY <3>2 DEF SecondaryType, BufferStates
    <3>4. secondary' = [secondary EXCEPT ![c] = [secondary[c] EXCEPT ![s] = v]]
      BY <3>1, Zenon
    <3> QED BY <1>1, <3>2, <3>3, <3>4
  <2> QED BY <1>1, <2>1, <2>2 DEF ChildBegin, Draw, Drawn, bufferVars
<1> QED BY <1>2, <1>4, <1>5 DEF TypeOK, PassTypeOK, passVars, ChildType, SecondaryType

LEMMA PassStepTypes ==
  ASSUME TypeOK, BuildPass \/ UsePass
  PROVE  TypeOK' /\ PassNext
<1>1. PassNext /\ UNCHANGED subVars
  BY DEF BuildPass, UsePass, PassNext
<1>2. PassTypeOK'
  BY <1>1, PassTypes DEF TypeOK
<1> QED BY <1>1, <1>2 DEF TypeOK, subVars

LEMMA StepTypes ==
  ASSUME TypeOK, [Next]_vars
  PROVE  TypeOK'
<1>1. CASE UNCHANGED vars
  BY <1>1 DEF vars, subVars, passVars, TypeOK, PassTypeOK
<1>2. CASE Next
  BY <1>2, PoolsTypes, ParentTypes, CombineTypes, SubmitTypes, CompleteTypes, ChildTypes, PassStepTypes
     DEF Next, OfParent, OfChild
<1> QED BY <1>1, <1>2

(* Whatever a program does, buffers and passes keep their types: the       *)
(* numbers of command buffers and of framebuffers stay inside their tables *)
(* and vectors have room for what they hold (Chain::begin,                 *)
(* Chain::combine, RenderPass::advance, RenderPass::addSubpass).           *)
THEOREM SubpassTypes == Spec => []TypeOK
<1>1. TypeOK /\ [Next]_vars => TypeOK'
  BY StepTypes
<1> QED BY <1>1, InitTypes, PTL DEF Spec

-----------------------------------------------------------------------------
(* The pass. *)

LEMMA PassStep ==
  ASSUME [Next]_vars
  PROVE  PassNext \/ UNCHANGED <<attachments, subpasses, swapchain, views>>
<1>1. CASE UNCHANGED vars
  BY <1>1 DEF vars, passVars
<1>2. CASE BuildPass \/ UsePass
  BY <1>2, SMTT(40) DEF BuildPass, UsePass, PassNext
<1>3. CASE OfParent \/ Complete
  BY <1>3 DEF OfParent, ParentBegin, ParentBegun, ParentSubmit, Combine, Complete, passVars
<1>4. CASE \E c \in Children : OfChild(c)
  BY <1>4, ZenonT(30) DEF OfChild, EnterPools, LeavePools, ChildBegin, ChildRecord, Draw, Drawn, ChildEnd, passVars
<1> QED BY <1>1, <1>2, <1>3, <1>4 DEF Next

LEMMA ViewsAlways == Spec => []ViewsMade
<1>1. Init => ViewsMade
  BY PassInitOK DEF Init
<1>2. TypeOK /\ ViewsMade /\ [Next]_vars => ViewsMade'
  <2> SUFFICES ASSUME TypeOK, ViewsMade, [Next]_vars PROVE ViewsMade'
    OBVIOUS
  <2>1. CASE PassNext
    BY <2>1, ViewsStep DEF TypeOK
  <2>2. CASE UNCHANGED <<attachments, subpasses, swapchain, views>>
    <3>1. \A b, k : ViewOf(swapchain, b, k)' = ViewOf(swapchain, b, k)
      BY <2>2 DEF ViewOf, FromSwapchain
    <3> QED BY <2>2, <3>1 DEF ViewsMade, Made
  <2> QED BY <2>1, <2>2, PassStep
<1> QED BY <1>1, <1>2, SubpassTypes, PTL DEF Spec

-----------------------------------------------------------------------------
(* Buffers that go round. *)

Dist(m, s) == IF s < m THEN m - s ELSE m - s + Count
Back(m, s) == IF s <= m THEN m - s ELSE m - s + Count

LEMMA DistIs ==
  ASSUME NEW m \in Slots, NEW s \in Slots
  PROVE  /\ Dist(m, s) \in 1 .. Count /\ Dist(m, m) = Count /\ Dist(Succ(m), m) = 1
         /\ s # m => Dist(m, s) < Count /\ Dist(Succ(m), s) = Dist(m, s) + 1
         /\ \A t \in Slots : Dist(m, s) = Dist(m, t) => s = t
<1>1. m \in Nat /\ m < Count /\ s \in Nat /\ s < Count /\ Count \in Nat
  BY SubpassAssumption DEF Slots
<1>2. Succ(m) = IF m + 1 >= Count THEN 0 ELSE m + 1
  BY DEF Succ
<1>3. Dist(m, s) \in 1 .. Count /\ Dist(m, m) = Count /\ (s # m => Dist(m, s) < Count)
  BY <1>1 DEF Dist
<1>4. \A t \in Slots : Dist(m, s) = Dist(m, t) => s = t
  BY <1>1 DEF Dist, Slots
<1>5. Dist(Succ(m), m) = 1
  BY <1>1, <1>2 DEF Dist
<1>6. s # m => Dist(Succ(m), s) = Dist(m, s) + 1
  BY <1>1, <1>2 DEF Dist
<1> QED BY <1>3, <1>4, <1>5, <1>6

LEMMA BackIs ==
  ASSUME NEW m \in Slots, NEW s \in Slots
  PROVE  /\ Back(m, s) \in 0 .. Count - 1 /\ Back(m, m) = 0
         /\ Back(m, s) = 0 => s = m
         /\ Back(m, s) < Count - 1 => Back(Succ(m), s) = Back(m, s) + 1
<1>1. m \in Nat /\ m < Count /\ s \in Nat /\ s < Count /\ Count \in Nat
  BY SubpassAssumption DEF Slots
<1>2. Succ(m) = IF m + 1 >= Count THEN 0 ELSE m + 1
  BY DEF Succ
<1> QED BY <1>1, <1>2 DEF Back

LEMMA BehindIs ==
  ASSUME TypeOK, NEW s \in Slots
  PROVE  /\ main.current \in Slots /\ Behind(s) = Dist(main.current, s)
         /\ Ago(s) = (IF main.recording /\ s = main.current THEN 0 ELSE Dist(main.current, s))
         /\ Ago(s) \in 0 .. Count
         /\ \A c \in Children : child[c].current \in Slots /\ Since(c, s) = Back(child[c].current, s)
<1>1. main \in MainType /\ child \in [Children -> ChildType]
  BY TypesAre
<1>2. main.current \in Slots /\ \A c \in Children : child[c].current \in Slots
  BY <1>1 DEF MainType, ChildType
<1>3. Behind(s) = Dist(main.current, s) /\ \A c \in Children : Since(c, s) = Back(child[c].current, s)
  BY DEF Behind, Since, Dist, Back
<1>4. Dist(main.current, s) \in 1 .. Count /\ Count \in Nat
  BY <1>2, DistIs, SubpassAssumption
<1> QED BY <1>2, <1>3, <1>4 DEF Ago

(* What the parts of the parent's buffers are. *)
LEMMA PartsAre ==
  ASSUME TypeOK, NEW s \in Slots, NEW k \in DOMAIN primary[s].parts
  PROVE  primary[s].parts[k] \in Parts
<1>1. primary[s].parts \in Seq(Parts)
  BY TypesAre DEF PrimaryType
<1> QED BY <1>1

LEMMA PartFields ==
  ASSUME NEW part \in Parts
  PROVE  part.child \in Children /\ part.slot \in Slots /\ part.time \in Nat /\ part.number \in Nat
BY DEF Parts

-----------------------------------------------------------------------------
(* What a disciplined program keeps. *)

(* A part stays as it was as long as its child does nothing to it.         *)
LEMMA PartKept ==
  ASSUME NEW s, NEW part, PartInTurn(s, part),
         Intact(part)', Ago(s)' = Ago(s), main'.recording = main.recording,
         child'[part.child].current = child[part.child].current,
         child'[part.child].phase \notin {"new", "making"},
         child'[part.child].phase = "begun" => child[part.child].phase = "begun",
         MayBegin(part.child)' => MayBegin(part.child) \/ (child[part.child].late /\ ~main.recording),
         child'[part.child].late => child[part.child].late \/ main.recording
  PROVE  PartInTurn(s, part)'
BY DEF PartInTurn, Since

(* Nothing but what one child is at changes. *)
LEMMA ChildOnly ==
  ASSUME TypeOK, SubpassInv, NEW c \in Children, NEW i \in ChildType, Becomes(c, i),
         UNCHANGED <<main, primary, secondary, gpu, frames, views, subpasses>>,
         i.current = child[c].current, i.late = child[c].late, i.phase # "begun",
         child[c].phase \notin {"new", "making"} => i.phase \notin {"new", "making"},
         child[c].phase \notin {"new", "making"} /\ i.phase = "idle" /\ ~i.recording /\ ~i.fresh /\ ~i.late
           => MayBegin(c),
         ChildInStep(c)'
  PROVE  SubpassInv'
<1>1. child' \in [Children -> ChildType] /\ child'[c] = i /\ \A u \in Children : u # c => child'[u] = child[u]
  BY TypesAre, ChildSet
<1>2. QueueInTurn' /\ ParentInStep'
  BY DEF SubpassInv, QueueInTurn, ParentInStep, Behind, Made
<1>3. \A u \in Children : ChildInStep(u)'
  BY <1>1 DEF SubpassInv, ChildInStep
<1>4. PartsInTurn'
  <2> SUFFICES ASSUME NEW s \in Slots, Needed(s), NEW k \in DOMAIN primary[s].parts
               PROVE  PartInTurn(s, primary[s].parts[k])'
    BY DEF PartsInTurn, Needed
  <2> PICK part \in Parts : part = primary[s].parts[k]
    BY PartsAre
  <2>1. PartInTurn(s, part)
    BY DEF SubpassInv, PartsInTurn
  <2>2. part.child \in Children
    BY PartFields
  <2>3. Intact(part)' /\ Ago(s)' = Ago(s)
    BY <2>1, SMTT(60) DEF PartInTurn, Intact, Ago, Behind
  <2>4. CASE part.child # c
    BY <1>1, <2>1, <2>2, <2>3, <2>4, PartKept DEF PartInTurn, MayBegin
  <2>5. CASE part.child = c
    <3>1. child[c].phase \notin {"new", "making"}
      BY <2>1, <2>5 DEF PartInTurn
    <3>2. MayBegin(c)' => MayBegin(c)
      BY <1>1, <3>1 DEF MayBegin
    <3> QED BY <1>1, <2>1, <2>3, <2>5, <3>1, <3>2, PartKept
  <2>6. PartInTurn(s, part)'
    BY <2>4, <2>5
  <2>7. primary' = primary
    OBVIOUS
  <2> QED BY <2>6, <2>7
<1> QED BY <1>2, <1>3, <1>4 DEF SubpassInv

Disciplined == SubLiberties = {}

LEMMA EnterPoolsInv ==
  ASSUME TypeOK, SubpassInv, Disciplined, NEW c \in Children, NEW pool \in {"own", "main"}, EnterPools(c, pool)
  PROVE  SubpassInv' /\ UNCHANGED fault
<1>1. child \in [Children -> ChildType]
  BY TypesAre
<1> PICK i \in ChildType :
      /\ Becomes(c, i)
      /\ i.phase = "making" /\ i.current = child[c].current /\ i.recording = child[c].recording
      /\ i.pool = pool /\ i.fresh = child[c].fresh /\ i.late = child[c].late
  BY <1>1, EnterPoolsChild
<1>2. /\ child[c].phase = "new" /\ pool = "own" /\ UNCHANGED fault
      /\ UNCHANGED <<main, primary, secondary, gpu, frames, views, subpasses>>
  BY DEF EnterPools, Permits, Disciplined, bufferVars, passVars
<1>3. child'[c] = i
  BY <1>1, ChildSet
<1>4. ChildInStep(c)'
  BY <1>2, <1>3 DEF SubpassInv, ChildInStep
<1> QED BY <1>2, <1>4, ChildOnly

LEMMA LeavePoolsInv ==
  ASSUME TypeOK, SubpassInv, Disciplined, NEW c \in Children, NEW subpass \in 0 .. MaxAttachments,
         LeavePools(c, subpass)
  PROVE  SubpassInv' /\ UNCHANGED fault
<1>1. child \in [Children -> ChildType]
  BY TypesAre
<1> PICK i \in ChildType :
      /\ Becomes(c, i)
      /\ i.phase = "idle" /\ i.current = child[c].current /\ i.recording = child[c].recording
      /\ i.pool = child[c].pool /\ i.fresh = child[c].fresh /\ i.late = child[c].late
  BY <1>1, LeavePoolsChild
<1>2. /\ child[c].phase = "making" /\ UNCHANGED fault
      /\ UNCHANGED <<main, primary, secondary, gpu, frames, views, subpasses>>
  BY DEF LeavePools, bufferVars, passVars
<1>3. child'[c] = i
  BY <1>1, ChildSet
<1>4. ChildInStep(c)'
  BY <1>2, <1>3 DEF SubpassInv, ChildInStep
<1> QED BY <1>2, <1>4, ChildOnly

(* With a pool of its own, a thread is alone in it. *)
LEMMA PoolsApart ==
  ASSUME SubpassInv
  PROVE  ~MainDisturbed /\ \A c \in Children : ~Disturbed(c)
<1>1. \A c \in Children : InPool(c) = c /\ c # "main"
  BY SubpassAssumption DEF SubpassInv, ChildInStep, InPool
<1> QED BY <1>1 DEF MainDisturbed, Disturbed

LEMMA DrawInv ==
  ASSUME TypeOK, SubpassInv, NEW c \in Children, Draw(c) \/ Drawn(c)
  PROVE  SubpassInv' /\ UNCHANGED fault
<1>1. child \in [Children -> ChildType]
  BY TypesAre
<1> PICK i \in ChildType :
      /\ Becomes(c, i)
      /\ i.phase \in {"idle", "drawing"} /\ i.current = child[c].current /\ i.recording = child[c].recording
      /\ i.pool = child[c].pool /\ i.fresh = child[c].fresh /\ i.late = child[c].late
  BY <1>1, DrawChild, DrawnChild
<1>2. /\ child[c].recording /\ UNCHANGED fault
      /\ UNCHANGED <<main, primary, secondary, gpu, frames, views, subpasses>>
  BY PoolsApart DEF Draw, Drawn, SubpassInv, ChildInStep, bufferVars, passVars
<1>3. child'[c] = i
  BY <1>1, ChildSet
<1>4. ~child[c].fresh
  BY <1>2 DEF SubpassInv, ChildInStep
<1>5. ChildInStep(c)'
  BY <1>2, <1>3, <1>4 DEF SubpassInv, ChildInStep
<1> QED BY <1>2, <1>5, ChildOnly

(* Nothing but the pass, or whether the main thread waits, changes.        *)
LEMMA BetweenFrames ==
  ASSUME TypeOK, SubpassInv, ViewsMade, ParentBegin \/ BuildPass \/ UsePass \/ UNCHANGED vars
  PROVE  SubpassInv' /\ UNCHANGED fault
<1>1. /\ UNCHANGED <<primary, child, secondary, gpu, fault>>
      /\ main'.recording = main.recording /\ main'.current = main.current /\ main'.dirty = main.dirty
  <2>1. CASE ParentBegin
    <3>1. main' = [main EXCEPT !.phase = "waiting"] /\ main \in MainType
      BY <2>1, TypesAre DEF ParentBegin
    <3>2. main'.recording = main.recording /\ main'.current = main.current /\ main'.dirty = main.dirty
      BY <3>1 DEF MainType
    <3> QED BY <2>1, <3>2 DEF ParentBegin, bufferVars
  <2> QED BY <2>1 DEF BuildPass, UsePass, vars, subVars
<1>2. QueueInTurn'
  BY <1>1 DEF SubpassInv, QueueInTurn, Behind
<1>3. \A u \in Children : ChildInStep(u)'
  BY <1>1 DEF SubpassInv, ChildInStep
<1>4. PartsInTurn'
  <2>1. \A s, part : PartInTurn(s, part)' <=> PartInTurn(s, part)
    BY <1>1 DEF PartInTurn, Intact, Ago, Behind, Since, MayBegin
  <2> QED BY <1>1, <2>1 DEF SubpassInv, PartsInTurn, Needed
<1>5. ParentInStep'
  <2>1. CASE UNCHANGED vars
    BY <2>1 DEF vars, subVars, passVars, SubpassInv, ParentInStep, Made
  <2>2. CASE ParentBegin
    <3>1. ~main.recording /\ Made /\ frames' > 0 /\ UNCHANGED <<views, subpasses>>
      BY <2>2, TypesAre, SubpassAssumption DEF ParentBegin, passVars
    <3> QED BY <1>1, <3>1 DEF SubpassInv, ParentInStep, Made
  <2>3. CASE BuildPass
    <3>1. ~main.recording /\ main.phase = "idle" /\ frames = 0 /\ UNCHANGED <<main, frames>>
      BY <2>3 DEF BuildPass, Quiet, subVars
    <3> QED BY <1>1, <3>1 DEF SubpassInv, ParentInStep
  <2>4. CASE UsePass
    <3>1. ~main.recording /\ main.phase = "idle" /\ UNCHANGED <<main, frames>>
      BY <2>4 DEF UsePass, Quiet, subVars
    <3>2. Made'
      BY <2>4, MakesTypes DEF UsePass, Recreate, Made
    <3> QED BY <1>1, <3>1, <3>2 DEF SubpassInv, ParentInStep
  <2> QED BY <2>1, <2>2, <2>3, <2>4
<1> QED BY <1>1, <1>2, <1>3, <1>4, <1>5 DEF SubpassInv

(* Parts whose buffers a step leaves alone. *)
LEMMA PartsKept ==
  ASSUME TypeOK, SubpassInv, NEW c \in Children, NEW i \in ChildType, Becomes(c, i),
         UNCHANGED <<main, primary, gpu, frames, views, subpasses>>,
         \A u \in Children, t \in Slots : u # c => secondary'[u][t] = secondary[u][t],
         ChildInStep(c)',
         \A s \in Slots, part \in Parts :
           Needed(s) /\ PartInTurn(s, part) /\ part.child = c => PartInTurn(s, part)'
  PROVE  SubpassInv'
<1>1. child' \in [Children -> ChildType] /\ child'[c] = i /\ \A u \in Children : u # c => child'[u] = child[u]
  BY TypesAre, ChildSet
<1>2. QueueInTurn' /\ ParentInStep'
  BY DEF SubpassInv, QueueInTurn, ParentInStep, Behind, Made
<1>3. \A u \in Children : ChildInStep(u)'
  <2> SUFFICES ASSUME NEW u \in Children, u # c PROVE ChildInStep(u)'
    OBVIOUS
  <2>1. child[u].current \in Slots /\ child'[u] = child[u]
    BY <1>1, TypesAre DEF ChildType
  <2>2. secondary'[u][child[u].current] = secondary[u][child[u].current]
    BY <2>1
  <2> QED BY <2>1, <2>2 DEF SubpassInv, ChildInStep
<1>4. PartsInTurn'
  <2> SUFFICES ASSUME NEW s \in Slots, Needed(s), NEW k \in DOMAIN primary[s].parts
               PROVE  PartInTurn(s, primary[s].parts[k])'
    BY DEF PartsInTurn, Needed
  <2> PICK part \in Parts : part = primary[s].parts[k]
    BY PartsAre
  <2>1. PartInTurn(s, part)
    BY DEF SubpassInv, PartsInTurn
  <2>2. part.child \in Children /\ part.slot \in Slots
    BY PartFields, SMTT(60)
  <2>3. CASE part.child # c
    <3>1. Intact(part)' /\ Ago(s)' = Ago(s) /\ child'[part.child] = child[part.child]
      BY <1>1, <2>1, <2>2, <2>3 DEF PartInTurn, Intact, Ago, Behind
    <3> QED BY <2>1, <3>1, PartKept, ZenonT(60) DEF PartInTurn, MayBegin
  <2>6. PartInTurn(s, part)'
    BY <2>1, <2>3
  <2>7. primary' = primary
    OBVIOUS
  <2> QED BY <2>6, <2>7
<1> QED BY <1>2, <1>3, <1>4 DEF SubpassInv

(* A child records into a buffer that no frame needs. *)
LEMMA ChildRecordInv ==
  ASSUME TypeOK, SubpassInv, Disciplined, NEW c \in Children, ChildRecord(c)
  PROVE  SubpassInv' /\ UNCHANGED fault
<1>1. child \in [Children -> ChildType] /\ secondary \in [Children -> [Slots -> SecondaryType]]
  BY TypesAre
<1> PICK i \in ChildType :
      /\ Becomes(c, i)
      /\ i.phase = "idle" /\ i.current = child[c].current /\ i.recording = TRUE
      /\ i.pool = child[c].pool /\ i.fresh = child[c].fresh /\ i.late = child[c].late
  BY <1>1, ChildRecordChild
<1>2. /\ child[c].phase = "begun"
      /\ UNCHANGED <<main, primary, gpu, frames, views, subpasses>>
  BY DEF ChildRecord, Permits, Disciplined, passVars
<1>3. child'[c] = i /\ child[c].current \in Slots
  BY <1>1, ChildSet DEF ChildType
<1>4. PICK v \in SecondaryType : secondary' = [secondary EXCEPT ![c][child[c].current] = v]
  <2> PICK v : v = [state |-> "recording", time |-> frames]
    OBVIOUS
  <2>1. v \in SecondaryType
    BY SubpassAssumption, TypesAre DEF SecondaryType, BufferStates
  <2>2. secondary' = [secondary EXCEPT ![c][child[c].current] = v]
    BY Zenon DEF ChildRecord
  <2> QED BY <2>1, <2>2
<1>5. \A u \in Children, t \in Slots :
        u # c \/ t # child[c].current => secondary'[u][t] = secondary[u][t]
  BY <1>1, <1>3, <1>4
<1>6. ~child[c].fresh
  BY <1>2 DEF SubpassInv, ChildInStep
<1>7. ChildInStep(c)'
  BY <1>2, <1>3, <1>6 DEF SubpassInv, ChildInStep
<1>8. ASSUME NEW s \in Slots, NEW part \in Parts, PartInTurn(s, part), part.child = c
      PROVE  PartInTurn(s, part)'
  <2>1. part.slot # child[c].current /\ part.slot \in Slots
    BY <1>2, <1>8, PartFields DEF PartInTurn
  <2>2. Intact(part)' /\ Ago(s)' = Ago(s)
    BY <1>2, <1>5, <1>8, <2>1 DEF PartInTurn, Intact, Ago, Behind
  <2> QED BY <1>2, <1>3, <1>8, <2>2, PartKept DEF MayBegin
<1>9. SubpassInv'
  BY <1>2, <1>5, <1>7, <1>8, PartsKept
<1>10. ~InUse(c, child[c].current)
  <2> SUFFICES ASSUME NEW q \in Slots, primary[q].state = "pending", NEW k \in DOMAIN primary[q].parts,
                      primary[q].parts[k].child = c, primary[q].parts[k].slot = child[c].current
               PROVE  FALSE
    BY DEF InUse
  <2>1. PartInTurn(q, primary[q].parts[k])
    BY DEF SubpassInv, PartsInTurn, Needed
  <2> QED BY <1>2, <2>1 DEF PartInTurn
<1> QED BY <1>9, <1>10, PoolsApart DEF ChildRecord

(* What a child has recorded is executable when it has ended. *)
LEMMA ChildEndInv ==
  ASSUME TypeOK, SubpassInv, NEW c \in Children, ChildEnd(c)
  PROVE  SubpassInv' /\ UNCHANGED fault
<1>1. child \in [Children -> ChildType] /\ secondary \in [Children -> [Slots -> SecondaryType]]
  BY TypesAre
<1> PICK i \in ChildType :
      /\ Becomes(c, i)
      /\ i.phase = child[c].phase /\ i.current = child[c].current /\ i.recording = FALSE
      /\ i.pool = child[c].pool /\ i.fresh = TRUE /\ i.late = child[c].late
  BY <1>1, ChildEndChild
<1>2. /\ child[c].phase = "idle" /\ child[c].recording
      /\ UNCHANGED <<main, primary, gpu, frames, views, subpasses>>
  BY DEF ChildEnd, passVars
<1>3. child'[c] = i /\ child[c].current \in Slots
  BY <1>1, ChildSet DEF ChildType
<1> PICK t0 \in Slots : t0 = child[c].current
  BY <1>3
<1>4. PICK v \in SecondaryType :
        /\ secondary' = [secondary EXCEPT ![c] = [secondary[c] EXCEPT ![t0] = v]]
        /\ v.state = "executable" /\ v.time = secondary[c][t0].time
  <2>1. secondary' = [secondary EXCEPT ![c][child[c].current].state = "executable"]
    BY DEF ChildEnd
  <2>2. secondary[c][t0] \in SecondaryType
    BY <1>1
  <2> PICK v : v = [secondary[c][t0] EXCEPT !.state = "executable"]
    OBVIOUS
  <2>3. v \in SecondaryType /\ v.state = "executable" /\ v.time = secondary[c][t0].time
    BY <2>2 DEF SecondaryType, BufferStates
  <2>4. secondary' = [secondary EXCEPT ![c] = [secondary[c] EXCEPT ![t0] = v]]
    BY <2>1, Zenon
  <2> QED BY <2>3, <2>4
<1>5. /\ secondary'[c][t0] = v
      /\ \A u \in Children, t \in Slots : u # c \/ t # t0 => secondary'[u][t] = secondary[u][t]
  BY <1>1, <1>4
<1>7. ChildInStep(c)'
  BY <1>2, <1>3, <1>4, <1>5 DEF SubpassInv, ChildInStep
<1>8. ASSUME NEW s \in Slots, NEW part \in Parts, PartInTurn(s, part), part.child = c
      PROVE  PartInTurn(s, part)'
  <2>1. part.slot \in Slots
    BY PartFields
  <2>2. Intact(part)' /\ Ago(s)' = Ago(s)
    BY <1>2, <1>4, <1>5, <1>8, <2>1 DEF PartInTurn, Intact, Ago, Behind
  <2> QED BY <1>2, <1>3, <1>8, <2>2, PartKept DEF MayBegin
<1>9. SubpassInv'
  BY <1>2, <1>5, <1>7, <1>8, PartsKept
<1> QED BY <1>9, PoolsApart DEF ChildEnd

(* A child goes on only when every frame that needs it has been submitted  *)
(* at least once more often than it has gone on since, so that it does not *)
(* come round to the buffer that frame needs.                              *)
LEMMA ChildBeginInv ==
  ASSUME TypeOK, SubpassInv, Disciplined, NEW c \in Children, ChildBegin(c)
  PROVE  SubpassInv' /\ UNCHANGED fault
<1>1. child \in [Children -> ChildType]
  BY TypesAre
<1> PICK i \in ChildType :
      /\ Becomes(c, i)
      /\ i.phase = "begun" /\ i.current = NextSlot(c) /\ i.recording = child[c].recording
      /\ i.pool = child[c].pool /\ i.fresh = child[c].fresh /\ i.late = child[c].late
  BY <1>1, ChildBeginChild
<1>2. /\ child[c].phase = "idle" /\ ~child[c].recording /\ ~child[c].fresh /\ ~child[c].late
      /\ main.recording
      /\ UNCHANGED <<main, primary, secondary, gpu, frames, views, subpasses, fault>>
  BY DEF ChildBegin, Permits, Disciplined, passVars, bufferVars
<1>3. child'[c] = i /\ child[c].current \in Slots /\ i.current = Succ(child[c].current)
  BY <1>1, ChildSet DEF ChildType, NextSlot
<1>7. ChildInStep(c)'
  BY <1>2, <1>3 DEF SubpassInv, ChildInStep
<1>8. ASSUME NEW s \in Slots, NEW part \in Parts, PartInTurn(s, part), part.child = c
      PROVE  PartInTurn(s, part)'
  <2>1. part.slot \in Slots
    BY PartFields
  <2>2. Since(c, part.slot) < Ago(s) /\ Ago(s) \in Nat /\ Ago(s) < Count
    <3>1. Since(c, part.slot) < Ago(s)
      BY <1>2, <1>8 DEF PartInTurn, MayBegin
    <3>2. Ago(s) = (IF s = main.current THEN 0 ELSE Dist(main.current, s)) /\ main.current \in Slots
      BY <1>2, BehindIs
    <3>3. Count \in Nat \ {0} /\ (s # main.current => Dist(main.current, s) < Count)
          /\ Dist(main.current, s) \in 1 .. Count
      BY <3>2, DistIs, SubpassAssumption
    <3> QED BY <3>1, <3>2, <3>3
  <2>3. Since(c, part.slot) = Back(child[c].current, part.slot)
    BY <2>1, BehindIs
  <2>4. Since(c, part.slot)' = Back(i.current, part.slot)
    BY <1>3 DEF Since, Back
  <2>5. Back(i.current, part.slot) = Back(child[c].current, part.slot) + 1
        /\ Back(child[c].current, part.slot) \in Nat
    BY <1>3, <2>1, <2>2, <2>3, BackIs, SubpassAssumption
  <2>6. part.slot # i.current
    BY <1>3, <2>1, <2>5, BackIs, SuccIn
  <2>7. Ago(s)' = Ago(s)
    BY <1>2 DEF Ago, Behind
  <2>8. Since(c, part.slot)' <= Ago(s)'
    BY <2>2, <2>3, <2>4, <2>5, <2>7
  <2>9. Intact(part)'
    BY <1>2, <1>8 DEF PartInTurn, Intact
  <2> QED BY <1>2, <1>3, <1>8, <2>6, <2>8, <2>9 DEF PartInTurn, MayBegin
<1>9. SubpassInv'
  BY <1>2, <1>7, <1>8, PartsKept
<1> QED BY <1>2, <1>9

(* A buffer of the parent that becomes p. *)
IsPrimary(s, p) == primary' = [primary EXCEPT ![s] = p]

LEMMA PrimarySet ==
  ASSUME primary \in [Slots -> PrimaryType], NEW s \in Slots, NEW p \in PrimaryType, IsPrimary(s, p)
  PROVE  primary'[s] = p /\ \A t \in Slots : t # s => primary'[t] = primary[t]
BY DEF IsPrimary

LEMMA PrimaryFields ==
  ASSUME NEW p \in PrimaryType
  PROVE  /\ p.state \in BufferStates /\ p.parts \in Seq(Parts) /\ p.at \in Nat
         /\ p.signaled \in BOOLEAN /\ p.fence \in BOOLEAN /\ p.onto \in 0 .. NumBuffers - 1
BY DEF PrimaryType

LEMMA BegunPrimary ==
  ASSUME TypeOK, ParentBegun
  PROVE  \E p \in PrimaryType :
           /\ IsPrimary(main.current, p)
           /\ p.state = "recording" /\ p.parts = <<>> /\ p.at = 0 /\ p.signaled = FALSE
           /\ p.onto = current
           /\ p.fence => ~primary[main.current].signaled /\ primary[main.current].fence
<1>1. main.current \in Slots /\ primary[main.current] \in PrimaryType
  BY TypesAre DEF MainType
<1> PICK q \in PrimaryType : q = primary[main.current]
  BY <1>1
<1> PICK f \in BOOLEAN : f = (q.signaled = FALSE /\ q.fence)
  OBVIOUS
<1> PICK p : p = [state |-> "recording", parts |-> <<>>, at |-> 0, signaled |-> FALSE, fence |-> f,
              onto |-> current]
  OBVIOUS
<1>2. p \in PrimaryType
  BY DEF PrimaryType, BufferStates, TypeOK, PassTypeOK
<1>3. f = IF q.signaled THEN FALSE ELSE q.fence
  BY PrimaryFields
<1>4. primary' = [primary EXCEPT ![main.current] =
                    [state |-> "recording", parts |-> <<>>, at |-> 0, signaled |-> FALSE,
                     fence |-> IF primary[main.current].signaled THEN FALSE ELSE @.fence, onto |-> current]]
  BY DEF ParentBegun
<1>5. IsPrimary(main.current, p)
  <2>1. primary' = [primary EXCEPT ![main.current] =
                    [state |-> "recording", parts |-> <<>>, at |-> 0, signaled |-> FALSE,
                     fence |-> IF q.signaled THEN FALSE ELSE q.fence, onto |-> current]]
    BY <1>4, Zenon
  <2> QED BY <1>3, <2>1, Zenon DEF IsPrimary
<1> QED BY <1>2, <1>5

LEMMA CombinePrimary ==
  ASSUME TypeOK, NEW c \in Children, Combine(c)
  PROVE  /\ Part(c) \in Parts
         /\ \E p \in PrimaryType :
              LET q == primary[main.current] IN
              /\ IsPrimary(main.current, p)
              /\ p.state = q.state /\ p.parts = Append(q.parts, Part(c)) /\ p.at = q.at + Steps
              /\ p.signaled = q.signaled /\ p.fence = q.fence /\ p.onto = q.onto
<1>1. /\ main \in MainType /\ primary \in [Slots -> PrimaryType] /\ child \in [Children -> ChildType]
      /\ secondary \in [Children -> [Slots -> SecondaryType]] /\ issued \in Nat
  BY TypesAre
<1>2. Part(c) \in Parts
  <2>1. child[c].current \in Slots
    BY <1>1 DEF ChildType
  <2>2. secondary[c][child[c].current].time \in Nat
    BY <1>1, <2>1 DEF SecondaryType
  <2> QED BY <1>1, <2>1, <2>2 DEF Part, Parts
<1>3. main.current \in Slots /\ Steps \in Nat
  BY <1>1 DEF MainType, Steps
<1> PICK q \in PrimaryType : q = primary[main.current]
  BY <1>1, <1>3
<1> PICK old \in Seq(Parts) : old = q.parts
  BY PrimaryFields
<1> PICK new \in Parts : new = Part(c)
  BY <1>2
<1>a. Append(old, new) \in Seq(Parts)
  BY AppendProperties
<1> PICK ps \in Seq(Parts) : ps = Append(old, new)
  BY <1>a
<1> PICK n \in Nat : n = q.at + Steps
  BY <1>3, PrimaryFields
<1> PICK p : p = [q EXCEPT !.parts = ps, !.at = n]
  OBVIOUS
<1>4. p \in PrimaryType /\ p.state = q.state /\ p.parts = ps /\ p.at = n
      /\ p.signaled = q.signaled /\ p.fence = q.fence /\ p.onto = q.onto
  BY DEF PrimaryType
<1>5. primary' = [primary EXCEPT ![main.current].parts = Executed(@, Part(c)),
                                 ![main.current].at = @ + Steps]
  BY DEF Combine
<1>6. IsPrimary(main.current, p)
  <2>1. primary' = [primary EXCEPT ![main.current].parts = Append(@, Part(c)),
                                   ![main.current].at = @ + Steps]
    BY <1>5, Zenon DEF Executed
  <2>2. primary' = [primary EXCEPT ![main.current] = [q EXCEPT !.parts = ps, !.at = n]]
    BY <1>1, <1>3, <2>1 DEF PrimaryType
  <2> QED BY <2>2, Zenon DEF IsPrimary
<1> QED BY <1>2, <1>4, <1>6

LEMMA SubmitPrimary ==
  ASSUME TypeOK, NEW s \in Slots, NEW q \in PrimaryType, q = primary[s]
  PROVE  /\ primary' = [primary EXCEPT ![s].state = "pending", ![s].signaled = TRUE] =>
              \E p \in PrimaryType :
                /\ IsPrimary(s, p)
                /\ p.state = "pending" /\ p.signaled = TRUE
                /\ p.parts = q.parts /\ p.at = q.at /\ p.fence = q.fence /\ p.onto = q.onto
         /\ primary' = [primary EXCEPT ![s].state = "executable"] =>
              \E p \in PrimaryType :
                /\ IsPrimary(s, p)
                /\ p.state = "executable" /\ p.signaled = q.signaled
                /\ p.parts = q.parts /\ p.at = q.at /\ p.fence = q.fence /\ p.onto = q.onto
<1>1. ASSUME primary' = [primary EXCEPT ![s].state = "pending", ![s].signaled = TRUE]
      PROVE  \E p \in PrimaryType :
                /\ IsPrimary(s, p)
                /\ p.state = "pending" /\ p.signaled = TRUE
                /\ p.parts = q.parts /\ p.at = q.at /\ p.fence = q.fence /\ p.onto = q.onto
  <2> PICK p : p = [q EXCEPT !.state = "pending", !.signaled = TRUE]
    OBVIOUS
  <2>1. p \in PrimaryType /\ p.state = "pending" /\ p.signaled = TRUE
        /\ p.parts = q.parts /\ p.at = q.at /\ p.fence = q.fence /\ p.onto = q.onto
    BY DEF PrimaryType, BufferStates
  <2>2. IsPrimary(s, p)
    BY <1>1, Zenon DEF IsPrimary
  <2> QED BY <2>1, <2>2
<1>2. ASSUME primary' = [primary EXCEPT ![s].state = "executable"]
      PROVE  \E p \in PrimaryType :
                /\ IsPrimary(s, p)
                /\ p.state = "executable" /\ p.signaled = q.signaled
                /\ p.parts = q.parts /\ p.at = q.at /\ p.fence = q.fence /\ p.onto = q.onto
  <2> PICK p : p = [q EXCEPT !.state = "executable"]
    OBVIOUS
  <2>1. p \in PrimaryType /\ p.state = "executable" /\ p.signaled = q.signaled
        /\ p.parts = q.parts /\ p.at = q.at /\ p.fence = q.fence /\ p.onto = q.onto
    BY DEF PrimaryType, BufferStates
  <2>2. IsPrimary(s, p)
    BY <1>2, Zenon DEF IsPrimary
  <2> QED BY <2>1, <2>2
<1> QED BY <1>1, <1>2

LEMMA CompletePrimary ==
  ASSUME TypeOK, NEW s \in Slots, NEW q \in PrimaryType, q = primary[s],
         primary' = [primary EXCEPT ![s].state = "executable", ![s].fence = TRUE]
  PROVE  \E p \in PrimaryType :
           /\ IsPrimary(s, p)
           /\ p.state = "executable" /\ p.signaled = q.signaled
           /\ p.parts = q.parts /\ p.at = q.at /\ p.fence /\ p.onto = q.onto
<1> PICK p : p = [q EXCEPT !.state = "executable", !.fence = TRUE]
  OBVIOUS
<1>1. p \in PrimaryType /\ p.state = "executable" /\ p.signaled = q.signaled
      /\ p.parts = q.parts /\ p.at = q.at /\ p.fence /\ p.onto = q.onto
  BY DEF PrimaryType, BufferStates
<1>2. IsPrimary(s, p)
  BY Zenon DEF IsPrimary
<1> QED BY <1>1, <1>2

(* The device does not have the buffer that is recorded or begun next.     *)
LEMMA NotPending ==
  ASSUME TypeOK, SubpassInv
  PROVE  /\ main.recording => primary[main.current].state = "recording"
         /\ ~main.recording /\ (primary[main.current].signaled => primary[main.current].fence)
              => primary[main.current].state # "pending"
         /\ primary[main.current].state # "pending" => Len(gpu) < Count
         /\ Len(gpu) \in Nat /\ Len(gpu) <= Count
<1>1. main.current \in Slots /\ gpu \in Seq(Slots) /\ Count \in Nat
  BY TypesAre, SubpassAssumption DEF MainType
<1>2. Behind(main.current) = Count
  BY <1>1, BehindIs, DistIs
<1>3. primary[main.current].state = "pending" <=> Count <= Len(gpu)
  BY <1>1, <1>2 DEF SubpassInv, QueueInTurn
<1>4. Len(gpu) \in Nat
  BY <1>1
<1>5. Len(gpu) <= Count
  <2>1. CASE gpu = <<>>
    BY <1>1, <2>1
  <2>2. CASE gpu # <<>>
    <3>1. 1 \in DOMAIN gpu /\ gpu[1] \in Slots
      BY <1>1, <2>2
    <3>2. Behind(gpu[1]) = Len(gpu) + 1 - 1
      BY <3>1 DEF SubpassInv, QueueInTurn
    <3>3. Behind(gpu[1]) \in 1 .. Count
      BY <1>1, <3>1, BehindIs, DistIs
    <3> QED BY <1>1, <1>4, <3>2, <3>3
  <2> QED BY <2>1, <2>2
<1> QED BY <1>1, <1>3, <1>4, <1>5 DEF SubpassInv, ParentInStep

(* The parent begins a buffer that the device has finished.                *)
LEMMA ParentBegunInv ==
  ASSUME TypeOK, SubpassInv, ViewsMade, ParentBegun
  PROVE  SubpassInv' /\ UNCHANGED fault
<1>1. main \in MainType /\ primary \in [Slots -> PrimaryType] /\ child \in [Children -> ChildType]
  BY TypesAre
<1>2. main.current \in Slots
  BY <1>1 DEF MainType
<1> PICK p \in PrimaryType :
      /\ IsPrimary(main.current, p)
      /\ p.state = "recording" /\ p.parts = <<>> /\ p.at = 0 /\ p.signaled = FALSE
      /\ p.fence => ~primary[main.current].signaled /\ primary[main.current].fence
  BY BegunPrimary
<1>3. /\ main.phase = "waiting" /\ ~main.recording /\ frames > 0 /\ Made
      /\ primary[main.current].signaled => primary[main.current].fence
      /\ UNCHANGED <<secondary, gpu, frames, views, subpasses>>
  BY DEF ParentBegun, MustWait, SubpassInv, ParentInStep, passVars
<1>4. primary[main.current].state # "pending"
  BY <1>3, NotPending
<1>5. main'.recording = TRUE /\ main'.phase = "idle" /\ main'.current = main.current /\ main'.dirty = main.dirty
  <2>1. main' = [main EXCEPT !.phase = "idle", !.recording = TRUE]
    BY DEF ParentBegun
  <2> QED BY <1>1, <2>1 DEF MainType
<1>6. primary'[main.current] = p /\ \A t \in Slots : t # main.current => primary'[t] = primary[t]
  BY <1>1, <1>2, PrimarySet
<1>7. \A u \in Children : /\ child'[u].late = FALSE
                          /\ child'[u].phase = child[u].phase /\ child'[u].current = child[u].current
                          /\ child'[u].recording = child[u].recording /\ child'[u].fresh = child[u].fresh
                          /\ child'[u].pool = child[u].pool
  <2> SUFFICES ASSUME NEW u \in Children
               PROVE  /\ child'[u].late = FALSE
                      /\ child'[u].phase = child[u].phase /\ child'[u].current = child[u].current
                      /\ child'[u].recording = child[u].recording /\ child'[u].fresh = child[u].fresh
                      /\ child'[u].pool = child[u].pool
    OBVIOUS
  <2>1. child' = [u_1 \in Children |-> [child[u_1] EXCEPT !.late = FALSE]]
    BY DEF ParentBegun
  <2>2. child'[u] = [child[u] EXCEPT !.late = FALSE]
    BY <2>1, Zenon
  <2>3. child[u] \in ChildType
    BY <1>1
  <2> QED BY <2>2, <2>3 DEF ChildType
<1>8. QueueInTurn'
  <2>1. \A s \in Slots : primary'[s].state = "pending" <=> primary[s].state = "pending"
    BY <1>4, <1>6
  <2>2. \A s : Behind(s)' = Behind(s)
    BY <1>5 DEF Behind
  <2> QED BY <1>3, <2>1, <2>2 DEF SubpassInv, QueueInTurn
<1>9. ParentInStep'
  <2>1. ~main.dirty
    BY <1>3 DEF SubpassInv, ParentInStep
  <2>2. 0 < Len(subpasses)
    <3>1. subpasses # <<>> /\ subpasses \in Seq(Descriptions)
      BY <1>3 DEF ViewsMade, TypeOK, PassTypeOK
    <3> QED BY <3>1, EmptySeq
  <2>3. \A s \in Slots : /\ primary'[s].state = "pending" => primary'[s].signaled /\ ~primary'[s].fence
                         /\ ~primary'[s].signaled => ~primary'[s].fence
    BY <1>6 DEF SubpassInv, ParentInStep
  <2> QED BY <1>3, <1>5, <1>6, <2>1, <2>2, <2>3 DEF ParentInStep, Made
<1>10. \A u \in Children : ChildInStep(u)'
  BY <1>3, <1>7 DEF SubpassInv, ChildInStep
<1>11. PartsInTurn'
  <2> SUFFICES ASSUME NEW s \in Slots, Needed(s)', NEW k \in DOMAIN primary'[s].parts
               PROVE  PartInTurn(s, primary[s].parts[k])'
    BY DEF PartsInTurn
  <2>1. s # main.current
    BY <1>6
  <2>2. primary[s].state = "pending" /\ primary'[s] = primary[s]
    BY <1>5, <1>6, <2>1 DEF Needed
  <2> PICK part \in Parts : part = primary[s].parts[k]
    BY <2>2, PartsAre
  <2>3. PartInTurn(s, part)
    BY <2>2 DEF SubpassInv, PartsInTurn, Needed
  <2>4. part.child \in Children
    BY PartFields, SMTT(60)
  <2>5. Intact(part)' /\ Ago(s)' = Ago(s) /\ Since(part.child, part.slot)' = Since(part.child, part.slot)
    BY <1>3, <1>5, <1>7, <2>1, <2>3, <2>4 DEF PartInTurn, Intact, Ago, Behind, Since
  <2>6. MayBegin(part.child)' => MayBegin(part.child) \/ (child[part.child].late /\ ~main.recording)
    BY <1>3, <1>7, <2>4 DEF MayBegin
  <2>7. PartInTurn(s, part)'
    BY <1>7, <2>3, <2>4, <2>5, <2>6 DEF PartInTurn
  <2> QED BY <2>2, <2>7
<1> QED BY <1>4, <1>8, <1>9, <1>10, <1>11, PoolsApart DEF SubpassInv, ParentBegun

(* What is combined is what a child has recorded for this subpass.         *)
LEMMA CombineInv ==
  ASSUME TypeOK, SubpassInv, Disciplined, NEW c \in Children, Combine(c)
  PROVE  SubpassInv' /\ UNCHANGED fault
<1>1. /\ main \in MainType /\ primary \in [Slots -> PrimaryType] /\ child \in [Children -> ChildType]
      /\ subpasses \in Seq(Descriptions)
  BY TypesAre DEF TypeOK, PassTypeOK
<1>2. main.current \in Slots
  BY <1>1 DEF MainType
<1> PICK i \in ChildType :
      /\ Becomes(c, i)
      /\ i.phase = child[c].phase /\ i.current = child[c].current /\ i.recording = child[c].recording
      /\ i.pool = child[c].pool /\ i.fresh = FALSE /\ i.late = TRUE
  BY <1>1, CombineChild
<1> PICK q \in PrimaryType : q = primary[main.current]
  BY <1>1, <1>2
<1> PICK new \in Parts : new = Part(c)
  BY CombinePrimary
<1> PICK p \in PrimaryType :
      /\ IsPrimary(main.current, p)
      /\ p.state = q.state /\ p.parts = Append(q.parts, new) /\ p.at = q.at + Steps
      /\ p.signaled = q.signaled /\ p.fence = q.fence
  BY CombinePrimary
<1>3. /\ main.recording /\ child[c].phase = "idle" /\ ~child[c].recording /\ child[c].fresh
      /\ child[c].subpass = q.at /\ (Len(subpasses) = 1 \/ q.at + 1 < Len(subpasses))
      /\ UNCHANGED <<secondary, gpu, frames, views, subpasses>>
  BY DEF Combine, MayCombine, Permits, Disciplined, passVars
<1>4. /\ main'.recording = main.recording /\ main'.current = main.current /\ main'.dirty = TRUE
      /\ main'.phase = main.phase
  <2>1. main' = [main EXCEPT !.dirty = TRUE]
    BY DEF Combine
  <2> QED BY <1>1, <2>1 DEF MainType
<1>5. primary'[main.current] = p /\ \A t \in Slots : t # main.current => primary'[t] = primary[t]
  BY <1>1, <1>2, PrimarySet
<1>6. child'[c] = i /\ \A u \in Children : u # c => child'[u] = child[u]
  BY <1>1, ChildSet
<1>7. secondary[c][child[c].current].state = "executable"
  BY <1>3 DEF SubpassInv, ChildInStep
<1>8. p.at < Len(subpasses)
  <2>1. q.at \in Nat /\ Len(subpasses) \in Nat
    BY <1>1, PrimaryFields
  <2>2. q.at < Len(subpasses)
    BY <1>3 DEF SubpassInv, ParentInStep
  <2> PICK a \in Nat, n \in Nat : a = q.at /\ n = Len(subpasses)
    BY <2>1
  <2>3. Steps = IF 1 < n THEN 1 ELSE 0
    BY DEF Steps
  <2>4. a + Steps < n
    BY <1>3, <2>2, <2>3
  <2> QED BY <2>4
<1>9. p.parts \in Seq(Parts) /\ Len(p.parts) = Len(q.parts) + 1 /\ Len(q.parts) \in Nat
      /\ p.parts # <<>> /\ p.parts[Len(p.parts)] = new
      /\ \A k \in DOMAIN q.parts : k \in DOMAIN p.parts /\ p.parts[k] = q.parts[k]
  <2>1. q.parts \in Seq(Parts)
    BY PrimaryFields
  <2> QED BY <2>1, AppendProperties, EmptySeq, SMTT(30)
<1>10. QueueInTurn'
  <2>1. \A s \in Slots : primary'[s].state = primary[s].state
    BY <1>5
  <2>2. \A s : Behind(s)' = Behind(s)
    BY <1>4 DEF Behind
  <2> QED BY <1>3, <2>1, <2>2 DEF SubpassInv, QueueInTurn
<1>11. ParentInStep'
  <2>1. \A s \in Slots : primary'[s].state = primary[s].state /\ primary'[s].signaled = primary[s].signaled
                         /\ primary'[s].fence = primary[s].fence
    BY <1>5
  <2> QED BY <1>2, <1>3, <1>4, <1>5, <1>8, <1>9, <2>1 DEF SubpassInv, ParentInStep, Made
<1>12. \A u \in Children : ChildInStep(u)'
  BY <1>3, <1>4, <1>6 DEF SubpassInv, ChildInStep
<1>13. ASSUME NEW s \in Slots, Needed(s), NEW part \in Parts, PartInTurn(s, part)
       PROVE  PartInTurn(s, part)'
  <2>1. part.child \in Children /\ Intact(part)' /\ Ago(s)' = Ago(s)
    BY <1>3, <1>4, <1>13, PartFields DEF PartInTurn, Intact, Ago, Behind
  <2>2. child'[part.child].current = child[part.child].current
        /\ child'[part.child].phase = child[part.child].phase
        /\ (MayBegin(part.child)' => MayBegin(part.child))
    BY <1>6, <2>1 DEF MayBegin
  <2>3. child[part.child].phase \notin {"new", "making"}
    BY <1>13 DEF PartInTurn
  <2> QED BY <1>3, <1>4, <1>13, <2>1, <2>2, <2>3, PartKept
<1>14. ASSUME NEW m \in Slots, m = main.current
       PROVE  PartInTurn(m, new)'
  <2>1. new.child = c /\ new.slot = child[c].current /\ new.time = secondary[c][child[c].current].time
    BY DEF Part
  <2>2. Intact(new)'
    BY <1>3, <1>7, <2>1 DEF Intact
  <2>3. Since(c, new.slot)' = 0 /\ Ago(m)' = 0
    <3>1. child[c].current \in Slots /\ Since(c, new.slot) = Back(child[c].current, child[c].current)
      BY <1>14, <2>1, BehindIs
    <3>2. Since(c, new.slot) = 0
      BY <3>1, BackIs
    <3>3. Since(c, new.slot)' = Since(c, new.slot)
      BY <1>6 DEF Since
    <3> QED BY <1>3, <1>4, <1>14, <3>2, <3>3 DEF Ago
  <2>4. child'[c].phase = "idle" /\ ~MayBegin(c)' /\ main'.recording
    BY <1>3, <1>4, <1>6 DEF MayBegin
  <2> QED BY <2>1, <2>2, <2>3, <2>4 DEF PartInTurn
<1>15. PartsInTurn'
  <2> SUFFICES ASSUME NEW s \in Slots, Needed(s)', NEW k \in DOMAIN primary'[s].parts
               PROVE  PartInTurn(s, primary[s].parts[k])'
    BY DEF PartsInTurn
  <2>1. Needed(s)
    BY <1>4, <1>5 DEF Needed
  <2>2. CASE k \in DOMAIN primary[s].parts
    <3> PICK part \in Parts : part = primary[s].parts[k]
      BY <2>2, PartsAre
    <3>1. PartInTurn(s, part)
      BY <2>1, <2>2 DEF SubpassInv, PartsInTurn
    <3>2. primary'[s].parts[k] = part
      BY <1>2, <1>5, <1>9, <2>2, SMTT(40)
    <3>3. PartInTurn(s, part)'
      BY <1>13, <2>1, <3>1
    <3> HIDE DEF PartInTurn
    <3> QED BY <3>2, <3>3
  <2>3. CASE k \notin DOMAIN primary[s].parts
    <3>1. s = main.current
      BY <1>5, <2>3
    <3>2. k = Len(p.parts)
      <4>1. k \in 1 .. Len(p.parts) /\ k \notin 1 .. Len(q.parts)
        <5>1. q.parts \in Seq(Parts)
          BY PrimaryFields
        <5>2. DOMAIN q.parts = 1 .. Len(q.parts) /\ DOMAIN p.parts = 1 .. Len(p.parts)
          BY <1>9, <5>1, LenProperties
        <5> QED BY <1>5, <2>3, <3>1, <5>2
      <4> PICK n \in Nat : n = Len(q.parts)
        BY <1>9
      <4>2. k \in 1 .. n + 1 /\ k \notin 1 .. n /\ Len(p.parts) = n + 1
        BY <1>9, <4>1
      <4> QED BY <4>2
    <3>3. primary'[s].parts[k] = new
      BY <1>5, <1>9, <3>1, <3>2
    <3>4. PartInTurn(s, new)'
      BY <1>14, <3>1
    <3> QED BY <3>3, <3>4
  <2> QED BY <2>2, <2>3
<1>16. UNCHANGED fault
  <2>1. ~(q.at + Steps >= Len(subpasses))
    <3>1. q.at \in Nat /\ Steps \in Nat /\ Len(subpasses) \in Nat
      BY <1>1, PrimaryFields DEF Steps
    <3> QED BY <1>8, <3>1
  <2> QED BY <1>3, <1>7, <2>1, PoolsApart DEF Combine
<1> QED BY <1>10, <1>11, <1>12, <1>15, <1>16 DEF SubpassInv

(* What a frame executes is intact. *)
LEMMA AllIntact ==
  ASSUME SubpassInv, NEW s \in Slots, Needed(s)
  PROVE  \A k \in DOMAIN primary[s].parts : Intact(primary[s].parts[k])
BY DEF SubpassInv, PartsInTurn, PartInTurn

(* A frame is handed over: every frame needed is one more frame ago.       *)
(* A frame submitted makes all before it older by one. *)
LEMMA SubmitAges ==
  ASSUME TypeOK, NEW m \in Slots, m = main.current, main.recording,
         ~main'.recording, main'.current = Succ(m), NEW s \in Slots
  PROVE  /\ s # m => Behind(s)' = Behind(s) + 1 /\ Ago(s) = Behind(s) /\ Behind(s) \in 1 .. Count
         /\ s = m => Behind(s)' = 1 /\ Ago(s) = 0 /\ Behind(s) = Count
         /\ Ago(s)' = Ago(s) + 1 /\ Ago(s) \in Nat
<1>1. Behind(s) = Dist(m, s)
  BY BehindIs
<1>2. Behind(s)' = Dist(Succ(m), s) /\ Ago(s)' = Behind(s)'
  BY DEF Behind, Dist, Ago
<1>3. Ago(s) = IF s = m THEN 0 ELSE Behind(s)
  BY DEF Ago
<1>4. Count \in Nat \ {0}
  BY SubpassAssumption
<1>5. CASE s = m
  <2>1. Dist(Succ(m), m) = 1 /\ Dist(m, m) = Count
    BY DistIs
  <2> QED BY <1>1, <1>2, <1>3, <1>5, <2>1
<1>6. CASE s # m
  <2>1. Dist(Succ(m), s) = Dist(m, s) + 1 /\ Dist(m, s) \in 1 .. Count
    BY <1>6, DistIs
  <2> PICK d \in 1 .. Count : d = Dist(m, s)
    BY <2>1
  <2> QED BY <1>1, <1>2, <1>3, <1>4, <1>6, <2>1
<1> QED BY <1>5, <1>6

LEMMA DirtySubmitInv ==
  ASSUME TypeOK, SubpassInv, ParentSubmit, main.dirty
  PROVE  SubpassInv' /\ UNCHANGED fault
<1>1. main \in MainType /\ primary \in [Slots -> PrimaryType] /\ gpu \in Seq(Slots) /\ Count \in Nat \ {0}
  BY TypesAre, SubpassAssumption
<1> PICK m \in Slots : m = main.current
  BY <1>1 DEF MainType
<1> PICK q \in PrimaryType : q = primary[m]
  BY <1>1
<1>2. /\ main.recording /\ main.phase = "idle"
      /\ primary' = [primary EXCEPT ![m].state = "pending", ![m].signaled = TRUE]
      /\ gpu' = Append(gpu, m)
      /\ main' = [main EXCEPT !.recording = FALSE, !.dirty = FALSE, !.current = Succ(m)]
      /\ UNCHANGED <<child, secondary, frames, views, subpasses>>
  BY DEF ParentSubmit
<1> PICK p \in PrimaryType :
      /\ IsPrimary(m, p)
      /\ p.state = "pending" /\ p.signaled = TRUE
      /\ p.parts = q.parts /\ p.at = q.at /\ p.fence = q.fence /\ p.onto = q.onto
  BY <1>2, SubmitPrimary
<1>3. primary'[m] = p /\ \A t \in Slots : t # m => primary'[t] = primary[t]
  BY <1>1, PrimarySet
<1>4. main'.recording = FALSE /\ main'.phase = "idle" /\ main'.current = Succ(m) /\ main'.dirty = FALSE
  BY <1>1, <1>2 DEF MainType
<1>5. q.state = "recording" /\ ~q.signaled /\ ~q.fence
  BY <1>2 DEF SubpassInv, ParentInStep
<1> PICK n \in Nat : n = Len(gpu)
  BY <1>1
<1>6. \A s \in Slots : /\ s # m => Behind(s)' = Behind(s) + 1 /\ Ago(s) = Behind(s) /\ Behind(s) \in 1 .. Count
                       /\ s = m => Behind(s)' = 1 /\ Ago(s) = 0 /\ Behind(s) = Count
                       /\ Ago(s)' = Ago(s) + 1 /\ Ago(s) \in Nat
  BY <1>2, <1>4, SubmitAges
<1>7. /\ \A k \in 1 .. n : gpu[k] \in Slots /\ gpu[k] # m /\ Behind(gpu[k]) = n + 1 - k
      /\ n < Count
      /\ \A s \in Slots : primary[s].state = "pending" <=> Behind(s) <= n
  <2>1. /\ \A k \in 1 .. n : gpu[k] \in Slots /\ Behind(gpu[k]) = n + 1 - k
        /\ \A s \in Slots : primary[s].state = "pending" <=> Behind(s) <= n
    BY <1>1 DEF SubpassInv, QueueInTurn
  <2>2. n < Count
    BY <1>5, NotPending
  <2>3. \A k \in 1 .. n : gpu[k] # m
    BY <1>1, <1>6, <2>1, <2>2
  <2> QED BY <2>1, <2>2, <2>3
<1>8. QueueInTurn'
  <2>1. DOMAIN gpu' = 1 .. n + 1 /\ Len(gpu') = n + 1 /\ gpu'[n + 1] = m
        /\ \A k \in 1 .. n : gpu'[k] = gpu[k]
    BY <1>1, <1>2, AppendProperties
  <2>2. ASSUME NEW k \in 1 .. n + 1
        PROVE  Behind(gpu[k])' = (n + 1) + 1 - k
    <3>1. CASE k = n + 1
      <4>1. Behind(m)' = 1 /\ gpu'[k] = m
        BY <1>6, <2>1, <3>1
      <4>2. Behind(gpu[k])' = Behind(m)'
        BY <4>1 DEF Behind
      <4> QED BY <3>1, <4>1, <4>2
    <3>2. CASE k # n + 1
      <4>1. k \in 1 .. n
        BY <3>2
      <4> PICK g \in Slots : g = gpu[k] /\ g # m /\ Behind(g) = n + 1 - k
        BY <1>7, <4>1
      <4>2. Behind(g)' = Behind(g) + 1 /\ gpu'[k] = g
        BY <1>6, <2>1, <4>1
      <4>3. Behind(gpu[k])' = Behind(g)'
        BY <4>2 DEF Behind
      <4> QED BY <4>2, <4>3
    <3> QED BY <3>1, <3>2
  <2>3. ASSUME NEW s \in Slots
        PROVE  primary'[s].state = "pending" <=> Behind(s)' <= n + 1
    <3>1. CASE s = m
      BY <1>3, <1>6, <3>1
    <3>2. CASE s # m
      BY <1>1, <1>3, <1>6, <1>7, <3>2, SMTT(30)
    <3> QED BY <3>1, <3>2
  <2> QED BY <2>1, <2>2, <2>3 DEF QueueInTurn
<1>9. ParentInStep'
  <2>1. \A s \in Slots : /\ primary'[s].state = "pending" => primary'[s].signaled /\ ~primary'[s].fence
                         /\ ~primary'[s].signaled => ~primary'[s].fence
    BY <1>3, <1>5 DEF SubpassInv, ParentInStep
  <2> QED BY <1>2, <1>4, <2>1 DEF SubpassInv, ParentInStep, Made
<1>10. \A u \in Children : ChildInStep(u)'
  BY <1>2, <1>4 DEF SubpassInv, ChildInStep
<1>11. PartsInTurn'
  <2> SUFFICES ASSUME NEW s \in Slots, Needed(s)', NEW k \in DOMAIN primary'[s].parts
               PROVE  PartInTurn(s, primary[s].parts[k])'
    BY DEF PartsInTurn
  <2>1. Needed(s) /\ primary'[s].parts = primary[s].parts
    BY <1>2, <1>3, <1>4 DEF Needed
  <2> PICK part \in Parts : part = primary[s].parts[k]
    BY <2>1, PartsAre
  <2>2. PartInTurn(s, part)
    BY <2>1 DEF SubpassInv, PartsInTurn
  <2>3. part.child \in Children /\ part.slot \in Slots
    BY PartFields
  <2>4. Since(part.child, part.slot)' = Since(part.child, part.slot) /\ Intact(part)'
    BY <1>2, <2>2 DEF Since, PartInTurn, Intact
  <2>5. Since(part.child, part.slot) \in Nat /\ Since(part.child, part.slot) <= Ago(s)
    BY <1>1, <2>2, <2>3, BehindIs, BackIs, SMTT(30) DEF PartInTurn
  <2>6. Since(part.child, part.slot)' < Ago(s)' /\ Since(part.child, part.slot)' <= Ago(s)'
    BY <1>6, <2>4, <2>5
  <2>7. PartInTurn(s, part)'
    BY <1>2, <2>2, <2>4, <2>6 DEF PartInTurn
  <2> QED BY <2>1, <2>7
<1>12. UNCHANGED fault
  BY <1>2, AllIntact DEF ParentSubmit, Needed
<1> QED BY <1>8, <1>9, <1>10, <1>11, <1>12 DEF SubpassInv

(* Nothing was combined: the buffer ends and is not handed over. *)
LEMMA CleanSubmitInv ==
  ASSUME TypeOK, SubpassInv, ParentSubmit, ~main.dirty
  PROVE  SubpassInv' /\ UNCHANGED fault
<1>1. main \in MainType /\ primary \in [Slots -> PrimaryType]
  BY TypesAre
<1> PICK m \in Slots : m = main.current
  BY <1>1 DEF MainType
<1> PICK q \in PrimaryType : q = primary[m]
  BY <1>1
<1>2. /\ main.recording /\ main.phase = "idle"
      /\ primary' = [primary EXCEPT ![m].state = "executable"]
      /\ main' = [main EXCEPT !.recording = FALSE]
      /\ UNCHANGED <<child, secondary, gpu, frames, views, subpasses, fault>>
  BY DEF ParentSubmit
<1> PICK p \in PrimaryType :
      /\ IsPrimary(m, p)
      /\ p.state = "executable" /\ p.signaled = q.signaled
      /\ p.parts = q.parts /\ p.at = q.at /\ p.fence = q.fence /\ p.onto = q.onto
  BY <1>2, SubmitPrimary, ZenonT(30)
<1>3. primary'[m] = p /\ \A t \in Slots : t # m => primary'[t] = primary[t]
  BY <1>1, PrimarySet
<1>4. main'.recording = FALSE /\ main'.phase = "idle" /\ main'.current = m /\ main'.dirty = main.dirty
  BY <1>1, <1>2 DEF MainType
<1>5. q.state = "recording"
  BY <1>2 DEF SubpassInv, ParentInStep
<1>6. QueueInTurn'
  <2>1. \A s \in Slots : primary'[s].state = "pending" <=> primary[s].state = "pending"
    BY <1>3, <1>5
  <2>2. \A s : Behind(s)' = Behind(s)
    BY <1>4 DEF Behind
  <2> QED BY <1>2, <2>1, <2>2 DEF SubpassInv, QueueInTurn
<1>7. ParentInStep'
  <2>1. \A s \in Slots : /\ primary'[s].state = "pending" => primary'[s].signaled /\ ~primary'[s].fence
                         /\ ~primary'[s].signaled => ~primary'[s].fence
    BY <1>3, <1>5 DEF SubpassInv, ParentInStep
  <2> QED BY <1>2, <1>4, <2>1 DEF SubpassInv, ParentInStep, Made
<1>8. \A u \in Children : ChildInStep(u)'
  BY <1>2, <1>4 DEF SubpassInv, ChildInStep
<1>9. PartsInTurn'
  <2> SUFFICES ASSUME NEW s \in Slots, Needed(s)', NEW k \in DOMAIN primary'[s].parts
               PROVE  PartInTurn(s, primary[s].parts[k])'
    BY DEF PartsInTurn
  <2>1. s # m /\ primary[s].state = "pending" /\ primary'[s] = primary[s]
    BY <1>3, <1>4 DEF Needed
  <2> PICK part \in Parts : part = primary[s].parts[k]
    BY <2>1, PartsAre
  <2>2. PartInTurn(s, part)
    BY <2>1 DEF SubpassInv, PartsInTurn, Needed
  <2>3. Intact(part)' /\ Ago(s)' = Ago(s) /\ Since(part.child, part.slot)' = Since(part.child, part.slot)
    <3>1. Intact(part)
      BY <2>2 DEF PartInTurn
    <3>2. secondary' = secondary /\ child' = child
      BY <1>2
    <3>3. Behind(s)' = Behind(s) /\ main'.recording = FALSE /\ main'.current = m
      BY <1>2, <1>4 DEF Behind
    <3>4. Ago(s)' = Ago(s)
      BY <2>1, <3>3 DEF Ago
    <3> QED BY <3>1, <3>2, <3>4 DEF Intact, Since
  <2>4. part.child \in Children
    BY PartFields
  <2>5. ~child[part.child].late
    BY <1>2, <2>4, SMTT(60) DEF SubpassInv, ChildInStep
  <2>6. PartInTurn(s, part)'
    BY <1>2, <2>2, <2>3, <2>5 DEF PartInTurn, MayBegin
  <2> QED BY <2>1, <2>6
<1> QED BY <1>2, <1>6, <1>7, <1>8, <1>9 DEF SubpassInv

(* The oldest frame is the one behind all others. *)
LEMMA CompleteInv ==
  ASSUME TypeOK, SubpassInv, Complete
  PROVE  SubpassInv' /\ UNCHANGED fault
<1>1. main \in MainType /\ primary \in [Slots -> PrimaryType] /\ gpu \in Seq(Slots) /\ gpu # <<>>
  BY TypesAre DEF Complete
<1>2. Head(gpu) \in Slots /\ Head(gpu) = gpu[1] /\ Len(gpu) \in Nat \ {0}
      /\ Len(Tail(gpu)) = Len(gpu) - 1 /\ \A k \in 1 .. Len(gpu) - 1 : Tail(gpu)[k] = gpu[k + 1]
      /\ Tail(gpu) \in Seq(Slots) /\ DOMAIN gpu = 1 .. Len(gpu)
  BY <1>1, EmptySeq, HeadTailProperties
<1> PICK m \in Slots : m = Head(gpu)
  BY <1>2
<1> PICK q \in PrimaryType : q = primary[m]
  BY <1>1
<1>3. /\ primary' = [primary EXCEPT ![m].state = "executable", ![m].fence = TRUE]
      /\ gpu' = Tail(gpu)
      /\ UNCHANGED <<main, child, secondary, frames, views, subpasses>>
  BY DEF Complete, passVars
<1> PICK p \in PrimaryType :
      /\ IsPrimary(m, p)
      /\ p.state = "executable" /\ p.signaled = q.signaled
      /\ p.parts = q.parts /\ p.at = q.at /\ p.fence /\ p.onto = q.onto
  BY <1>3, CompletePrimary
<1>4. primary'[m] = p /\ \A t \in Slots : t # m => primary'[t] = primary[t]
  BY <1>1, PrimarySet
<1> PICK n \in Nat : n = Len(gpu)
  BY <1>2
<1>5. /\ \A k \in 1 .. n : gpu[k] \in Slots /\ Behind(gpu[k]) = n + 1 - k
      /\ \A s \in Slots : primary[s].state = "pending" <=> Behind(s) <= n
      /\ n > 0
  <2>1. n > 0
    BY <1>2
  <2>2. /\ \A k \in 1 .. n : gpu[k] \in Slots /\ Behind(gpu[k]) = n + 1 - k
        /\ \A s \in Slots : primary[s].state = "pending" <=> Behind(s) <= n
    BY <1>1, SMTT(30) DEF SubpassInv, QueueInTurn
  <2> QED BY <2>1, <2>2
<1>6. Behind(m) = n /\ q.state = "pending"
  <2>1. Behind(gpu[1]) = n + 1 - 1
    BY <1>5
  <2>2. Behind(m) = n
    BY <1>2, <2>1
  <2> QED BY <1>5, <2>2
<1>7. \A s \in Slots : s # m => Behind(s) # n /\ Behind(s) \in Nat
  BY <1>6, BehindIs, DistIs, SubpassAssumption
<1>8. main.recording => m # main.current
  BY <1>6 DEF SubpassInv, ParentInStep
<1>9. \A s : Behind(s)' = Behind(s) /\ Ago(s)' = Ago(s)
  BY <1>3 DEF Behind, Ago
<1>10. QueueInTurn'
  <2>1. DOMAIN gpu' = 1 .. n - 1 /\ Len(gpu') = n - 1 /\ \A k \in 1 .. n - 1 : gpu'[k] = gpu[k + 1]
    BY <1>2, <1>3
  <2>2. ASSUME NEW k \in 1 .. n - 1
        PROVE  Behind(gpu[k])' = (n - 1) + 1 - k
    <3> PICK j \in 1 .. n : j = k + 1
      OBVIOUS
    <3>1. Behind(gpu[j]) = n + 1 - j /\ gpu'[k] = gpu[j]
      BY <1>5, <2>1
    <3> PICK g : g = gpu[j]
      OBVIOUS
    <3>2. Behind(g)' = n + 1 - j /\ gpu'[k] = g
      BY <1>9, <3>1
    <3>3. Behind(gpu[k])' = Behind(g)'
      BY <3>2 DEF Behind
    <3> QED BY <3>2, <3>3
  <2>3. ASSUME NEW s \in Slots
        PROVE  primary'[s].state = "pending" <=> Behind(s)' <= n - 1
    <3>1. CASE s = m
      BY <1>4, <1>6, <1>9, <3>1
    <3>2. CASE s # m
      BY <1>4, <1>5, <1>7, <1>9, <3>2
    <3> QED BY <3>1, <3>2
  <2> QED BY <2>1, <2>2, <2>3 DEF QueueInTurn
<1>11. ParentInStep'
  <2>1. \A s \in Slots : /\ primary'[s].state = "pending" => primary'[s].signaled /\ ~primary'[s].fence
                         /\ ~primary'[s].signaled => ~primary'[s].fence
    BY <1>4, <1>6 DEF SubpassInv, ParentInStep
  <2>2. main.recording => primary'[main.current] = primary[main.current]
    BY <1>1, <1>4, <1>8 DEF MainType
  <2>3. main.dirty \in BOOLEAN
    BY <1>1 DEF MainType
  <2> QED BY <1>3, <2>1, <2>2, <2>3 DEF SubpassInv, ParentInStep, Made
<1>12. \A u \in Children : ChildInStep(u)'
  BY <1>3 DEF SubpassInv, ChildInStep
<1>13. PartsInTurn'
  <2> SUFFICES ASSUME NEW s \in Slots, Needed(s)', NEW k \in DOMAIN primary'[s].parts
               PROVE  PartInTurn(s, primary[s].parts[k])'
    BY DEF PartsInTurn
  <2>1. Needed(s) /\ primary'[s].parts = primary[s].parts
    BY <1>3, <1>4, <1>6 DEF Needed
  <2> PICK part \in Parts : part = primary[s].parts[k]
    BY <2>1, PartsAre
  <2>2. PartInTurn(s, part)
    BY <2>1 DEF SubpassInv, PartsInTurn
  <2>3. PartInTurn(s, part)'
    BY <1>3, <1>9, <2>2 DEF PartInTurn, Intact, Since, MayBegin
  <2> QED BY <2>1, <2>3
<1>14. UNCHANGED fault
  BY <1>6, AllIntact DEF Complete, Needed
<1> QED BY <1>10, <1>11, <1>12, <1>13, <1>14 DEF SubpassInv

-----------------------------------------------------------------------------
(* What a disciplined program may rely on. *)

LEMMA SubpassInit == Init => SubpassInv /\ NoFault
<1> SUFFICES ASSUME Init PROVE SubpassInv /\ NoFault
  OBVIOUS
<1>1. TypeOK
  BY InitTypes
<1>2. /\ main.current = 0 /\ ~main.recording /\ ~main.dirty /\ main.phase = "idle" /\ gpu = <<>> /\ frames = 0
      /\ \A s \in Slots : primary[s] = NewPrimary
      /\ \A c \in Children : child[c] = NewChild
  BY DEF Init
<1>3. QueueInTurn
  <2>1. \A s \in Slots : Behind(s) \in 1 .. Count
    BY <1>1, BehindIs, DistIs
  <2>2. \A s \in Slots : ~(Behind(s) <= 0)
    BY <2>1, SubpassAssumption
  <2>3. DOMAIN gpu = {} /\ Len(gpu) = 0
    BY <1>2
  <2> QED BY <1>2, <2>2, <2>3 DEF QueueInTurn, NewPrimary
<1>4. ParentInStep
  BY <1>2 DEF ParentInStep, NewPrimary
<1>5. \A c \in Children : ChildInStep(c)
  BY <1>2 DEF ChildInStep, NewChild
<1>6. PartsInTurn
  BY <1>2 DEF PartsInTurn, Needed, NewPrimary
<1> QED BY <1>3, <1>4, <1>5, <1>6 DEF SubpassInv, Init, NoFault

LEMMA SubpassStep ==
  ASSUME TypeOK, SubpassInv, ViewsMade, NoFault, Disciplined, [Next]_vars
  PROVE  SubpassInv' /\ NoFault'
<1>1. SubpassInv' /\ UNCHANGED fault
  BY BetweenFrames, ParentBegunInv, CombineInv, DirtySubmitInv, CleanSubmitInv, CompleteInv,
     EnterPoolsInv, LeavePoolsInv, ChildBeginInv, ChildRecordInv, DrawInv, ChildEndInv
     DEF Next, OfParent, OfChild
<1> QED BY <1>1 DEF NoFault

LEMMA SubpassAlways ==
  ASSUME Disciplined
  PROVE  Spec => [](SubpassInv /\ NoFault)
<1>1. Init => SubpassInv /\ NoFault
  BY SubpassInit
<1>2. TypeOK /\ ViewsMade /\ (SubpassInv /\ NoFault) /\ [Next]_vars => (SubpassInv /\ NoFault)'
  BY SubpassStep
<1> QED BY <1>1, <1>2, SubpassTypes, ViewsAlways, PTL DEF Spec

(* Whatever the render pass, in a program whose children each record once  *)
(* for every frame and are combined in the order of their subpasses, no    *)
(* buffer of the parent or of a child is begun while the device has it, no *)
(* part is executed in another subpass than its own or past the last one,  *)
(* and no pool is used by two threads at once (Chain::combine,             *)
(* CommandBuffer::record, CommandBuffer::initialize).                      *)
THEOREM SubpassesAreSafe ==
  ASSUME Disciplined
  PROVE  Spec => []Safe
<1>1. TypeOK /\ NoFault => Safe
  BY DEF Safe
<1> QED BY <1>1, SubpassTypes, SubpassAlways, PTL

(* What a frame with the device executes is what the children had recorded *)
(* when they were combined, though CommandBuffer::record waits for no      *)
(* fence of a secondary buffer: a child goes round its buffers no faster   *)
(* than the parent submits frames.                                         *)
THEOREM PartsStayIntact ==
  ASSUME Disciplined
  PROVE  Spec => []PartsIntact
<1>1. SubpassInv => PartsIntact
  BY AllIntact DEF PartsIntact, Needed
<1> QED BY <1>1, SubpassAlways, PTL

-----------------------------------------------------------------------------
(* The framebuffers of the frames. *)

FramesKept ==
  \A s \in Slots : Needed(s)' => Needed(s) /\ primary'[s].onto = primary[s].onto /\ Ago(s)' = Ago(s)

LEMMA FramesKeep ==
  ASSUME FramesInTurn, FramesKept, UNCHANGED <<current, views>>
  PROVE  FramesInTurn'
BY DEF FramesInTurn, FramesKept, Made

LEMMA NoneNeeded ==
  ASSUME TypeOK, SubpassInv, Quiet
  PROVE  \A s \in Slots : ~Needed(s)
<1>1. Len(gpu) = 0 /\ ~main.recording
  BY DEF Quiet
<1>2. \A s \in Slots : Behind(s) \in 1 .. Count
  BY BehindIs, DistIs
<1>3. \A s \in Slots : primary[s].state # "pending"
  BY <1>1, <1>2, SubpassAssumption DEF SubpassInv, QueueInTurn
<1> QED BY <1>1, <1>3 DEF Needed

(* A frame is begun onto the current framebuffer, and makes that one the   *)
(* frame's by being submitted.                                             *)
LEMMA FramesStep ==
  ASSUME TypeOK, SubpassInv, FramesInTurn, Disciplined, [Next]_vars
  PROVE  FramesInTurn'
<1>1. main \in MainType /\ primary \in [Slots -> PrimaryType] /\ current \in 0 .. 2
  BY TypesAre DEF PassTypeOK, NumBuffers
<1> PICK m \in Slots : m = main.current
  BY <1>1 DEF MainType
<1> PICK q \in PrimaryType : q = primary[m]
  BY <1>1
<1>2. ASSUME UNCHANGED <<main, primary, current, views>>
      PROVE  FramesInTurn'
  BY <1>2 DEF FramesInTurn, Needed, Ago, Behind, Made
<1>3. CASE BuildPass \/ UsePass
  <2>1. (\A s \in Slots : ~Needed(s)) /\ UNCHANGED <<main, primary>>
    BY <1>3, NoneNeeded DEF BuildPass, UsePass, subVars
  <2> QED BY <2>1 DEF FramesInTurn, Needed
<1>4. CASE ParentBegin
  <2>1. main' = [main EXCEPT !.phase = "waiting"] /\ UNCHANGED <<primary, current, views>>
    BY <1>4 DEF ParentBegin, bufferVars, passVars
  <2>2. main'.recording = main.recording /\ main'.current = m
    BY <1>1, <2>1 DEF MainType
  <2>3. FramesKept
    BY <2>1, <2>2 DEF FramesKept, Needed, Ago, Behind
  <2> QED BY <2>1, <2>3, FramesKeep
<1>5. CASE ParentBegun
  <2> PICK p \in PrimaryType : IsPrimary(m, p) /\ p.onto = current
    BY <1>5, BegunPrimary
  <2>1. primary'[m] = p /\ \A t \in Slots : t # m => primary'[t] = primary[t]
    BY <1>1, PrimarySet
  <2>2. main' = [main EXCEPT !.phase = "idle", !.recording = TRUE] /\ ~main.recording
        /\ Made /\ UNCHANGED <<current, views>>
    BY <1>5 DEF ParentBegun, SubpassInv, ParentInStep, passVars
  <2>3. main'.recording /\ main'.current = m
    BY <1>1, <2>2 DEF MainType
  <2> SUFFICES ASSUME NEW s \in Slots, Needed(s)'
               PROVE  Made' /\ (primary'[s].onto + Ago(s)') % NumBuffers = current'
    BY DEF FramesInTurn
  <2>4. CASE s = m
    <3>1. primary'[s].onto = current /\ Ago(s)' = 0
      BY <2>1, <2>3, <2>4 DEF Ago
    <3> QED BY <1>1, <2>2, <3>1 DEF NumBuffers, Made
  <2>5. CASE s # m
    <3>1. Needed(s) /\ primary'[s] = primary[s] /\ Ago(s)' = Ago(s)
      BY <2>1, <2>2, <2>3, <2>5 DEF Needed, Ago, Behind
    <3> QED BY <2>2, <3>1 DEF FramesInTurn, Made
  <2> QED BY <2>4, <2>5
<1>6. ASSUME NEW c \in Children, Combine(c)
      PROVE  FramesInTurn'
  <2> PICK p \in PrimaryType : IsPrimary(m, p) /\ p.state = q.state /\ p.onto = q.onto
    BY <1>6, CombinePrimary
  <2>1. primary'[m] = p /\ \A t \in Slots : t # m => primary'[t] = primary[t]
    BY <1>1, PrimarySet
  <2>2. main' = [main EXCEPT !.dirty = TRUE] /\ UNCHANGED <<current, views>>
    BY <1>6 DEF Combine, passVars
  <2>3. main'.recording = main.recording /\ main'.current = m
    BY <1>1, <2>2 DEF MainType
  <2>4. FramesKept
    BY <2>1, <2>3 DEF FramesKept, Needed, Ago, Behind
  <2> QED BY <2>2, <2>4, FramesKeep
<1>7. CASE ParentSubmit /\ main.dirty
  <2>1. /\ main.recording /\ Made
        /\ primary' = [primary EXCEPT ![m].state = "pending", ![m].signaled = TRUE]
        /\ main' = [main EXCEPT !.recording = FALSE, !.dirty = FALSE, !.current = Succ(m)]
        /\ current' = NextBuffer(current) /\ UNCHANGED views
    BY <1>7 DEF ParentSubmit, SubpassInv, ParentInStep
  <2>a. primary' = [primary EXCEPT ![m].state = "pending", ![m].signaled = TRUE]
    BY <2>1
  <2>b. \E p \in PrimaryType :
          /\ IsPrimary(m, p)
          /\ p.state = "pending" /\ p.signaled = TRUE
          /\ p.parts = q.parts /\ p.at = q.at /\ p.fence = q.fence /\ p.onto = q.onto
    BY ONLY TypeOK, <2>a, q = primary[m], m \in Slots, q \in PrimaryType, SubmitPrimary
  <2> PICK p \in PrimaryType :
        /\ IsPrimary(m, p)
        /\ p.state = "pending" /\ p.signaled = TRUE
        /\ p.parts = q.parts /\ p.at = q.at /\ p.fence = q.fence /\ p.onto = q.onto
    BY <2>b, Zenon
  <2>2. primary'[m] = p /\ \A t \in Slots : t # m => primary'[t] = primary[t]
    BY <1>1, PrimarySet
  <2>3. ~main'.recording /\ main'.current = Succ(m)
    BY <1>1, <2>1 DEF MainType
  <2>4. current' = IF current + 1 >= 3 THEN 0 ELSE current + 1
    <3>1. Len(views) = 3
      BY <2>1 DEF Made, TypeOK, PassTypeOK, NumBuffers
    <3> QED BY <2>1, <3>1 DEF NextBuffer
  <2> SUFFICES ASSUME NEW s \in Slots, Needed(s)'
               PROVE  Made' /\ (primary'[s].onto + Ago(s)') % NumBuffers = current'
    BY DEF FramesInTurn
  <2>5. Needed(s) /\ primary'[s].onto = primary[s].onto
    BY <2>1, <2>2, <2>3 DEF Needed
  <2>6. Ago(s)' = Ago(s) + 1 /\ Ago(s) \in Nat
    BY <2>1, <2>3, SubmitAges
  <2>7. primary[s].onto \in 0 .. 2
    BY <1>1 DEF PrimaryType, NumBuffers
  <2>8. (primary[s].onto + Ago(s)) % 3 = current
    BY <2>5 DEF FramesInTurn, NumBuffers
  <2> PICK x \in Nat : x = primary[s].onto + Ago(s)
    BY <2>6, <2>7
  <2>9. primary'[s].onto + Ago(s)' = x + 1
    BY <2>5, <2>6, <2>7
  <2>10. x % 3 = current
    BY <2>8
  <2>11. (x + 1) % 3 = current'
    BY ONLY x \in Nat, <1>1, <2>4, <2>10
  <2> QED BY <2>1, <2>9, <2>11 DEF NumBuffers, Made
<1>8. CASE ParentSubmit /\ ~main.dirty
  <2>1. /\ primary' = [primary EXCEPT ![m].state = "executable"] /\ main.recording
        /\ main' = [main EXCEPT !.recording = FALSE] /\ UNCHANGED <<current, views>>
    BY <1>8 DEF ParentSubmit
  <2> PICK p \in PrimaryType :
        /\ IsPrimary(m, p)
        /\ p.state = "executable" /\ p.signaled = q.signaled
        /\ p.parts = q.parts /\ p.at = q.at /\ p.fence = q.fence /\ p.onto = q.onto
    BY <2>1, SubmitPrimary
  <2>2. primary'[m] = p /\ \A t \in Slots : t # m => primary'[t] = primary[t]
    BY <1>1, PrimarySet
  <2>3. ~main'.recording /\ main'.current = m
    BY <1>1, <2>1 DEF MainType
  <2>4. FramesKept
    BY <2>2, <2>3 DEF FramesKept, Needed, Ago, Behind
  <2> QED BY <2>1, <2>4, FramesKeep
<1>9. CASE Complete
  <2>1. /\ primary' = [primary EXCEPT ![Head(gpu)].state = "executable", ![Head(gpu)].fence = TRUE]
        /\ UNCHANGED <<main, current, views>> /\ gpu # <<>> /\ gpu \in Seq(Slots)
    BY <1>9 DEF Complete, TypeOK, passVars
  <2> PICK h \in Slots : h = Head(gpu)
    BY <2>1, EmptySeq, HeadTailProperties
  <2> PICK o \in PrimaryType : o = primary[h]
    BY <1>1
  <2> PICK p \in PrimaryType :
        /\ IsPrimary(h, p)
        /\ p.state = "executable" /\ p.signaled = o.signaled
        /\ p.parts = o.parts /\ p.at = o.at /\ p.fence /\ p.onto = o.onto
    BY <2>1, CompletePrimary, ZenonT(60)
  <2>2. primary'[h] = p /\ \A t \in Slots : t # h => primary'[t] = primary[t]
    BY <1>1, PrimarySet
  <2>3. FramesKept
    BY <2>1, <2>2 DEF FramesKept, Needed, Ago, Behind
  <2> QED BY <2>1, <2>3, FramesKeep
<1>10. CASE \E c \in Children : OfChild(c)
  BY <1>2, <1>10 DEF OfChild, EnterPools, LeavePools, ChildBegin, ChildRecord, Draw, Drawn, ChildEnd,
                     bufferVars, passVars
<1>11. CASE UNCHANGED vars
  BY <1>2, <1>11 DEF vars, subVars, passVars
<1> QED BY <1>3, <1>4, <1>5, <1>6, <1>7, <1>8, <1>9, <1>10, <1>11 DEF Next, OfParent

(* Two frames less than three apart are on different framebuffers. *)
LEMMA TurnsApart ==
  ASSUME TypeOK, FramesInTurn, ViewsMade, SubpassInv
  PROVE  FramesApart
<1> SUFFICES ASSUME NEW s \in Slots, NEW t \in Slots, Needed(s), Needed(t),
                    Ago(s) < Ago(t), Ago(t) < Ago(s) + NumBuffers
             PROVE  Apart(primary[s].onto + 1, primary[t].onto + 1)
  BY DEF FramesApart
<1>1. primary[s].onto \in 0 .. 2 /\ primary[t].onto \in 0 .. 2
  BY TypesAre DEF PrimaryType, NumBuffers
<1>2. Ago(s) \in Nat /\ Ago(t) \in Nat
  BY BehindIs, SubpassAssumption
<1>3. (primary[s].onto + Ago(s)) % 3 = (primary[t].onto + Ago(t)) % 3
  BY DEF FramesInTurn, NumBuffers
<1>4. primary[s].onto # primary[t].onto
  <2> PICK o \in 0 .. 2, p \in 0 .. 2 : o = primary[s].onto /\ p = primary[t].onto
    BY <1>1
  <2> PICK a \in Nat, b \in Nat : a = Ago(s) /\ b = Ago(t)
    BY <1>2
  <2>1. a < b /\ b < a + 3 /\ (o + a) % 3 = (p + b) % 3
    BY <1>3 DEF NumBuffers
  <2>2. o # p
    BY ONLY <2>1, o \in 0 .. 2, p \in 0 .. 2, a \in Nat, b \in Nat
  <2> QED BY <2>2
<1>5. Made
  BY DEF FramesInTurn
<1> QED BY <1>1, <1>4, <1>5, ViewsOwn DEF OwnViews, NumBuffers, TypeOK

(* Any three frames in a row that are recorded or with the device at once  *)
(* are on framebuffers that share nothing, for every number of command     *)
(* buffers and whatever the pass: the framebuffers follow what is          *)
(* submitted (RenderPass::advance), are made of images of their own        *)
(* although their indices collide (RenderPassData::makeFramebuffers), and  *)
(* share an image only if the driver gave a swapchain fewer than three     *)
(* (Swapchain::image).                                                     *)
THEOREM FramesStayApart ==
  ASSUME Disciplined
  PROVE  Spec => []FramesApart
<1>1. Init => FramesInTurn
  <2> SUFFICES ASSUME Init PROVE FramesInTurn
    OBVIOUS
  <2>1. \A s \in Slots : ~Needed(s)
    BY InitTypes, SubpassInit, NoneNeeded DEF Init, Quiet, NewChild
  <2> QED BY <2>1 DEF FramesInTurn
<1>2. TypeOK /\ SubpassInv /\ FramesInTurn /\ [Next]_vars => FramesInTurn'
  BY FramesStep
<1>3. TypeOK /\ SubpassInv /\ ViewsMade /\ FramesInTurn => FramesApart
  BY TurnsApart
<1> QED BY <1>1, <1>2, <1>3, SubpassTypes, SubpassAlways, ViewsAlways, PTL DEF Spec

-----------------------------------------------------------------------------
(* The frames of a parent. *)

NumbersOf(ps) == [k \in DOMAIN ps |-> ps[k].number]

Listed(g, f) == [k \in DOMAIN g |-> f[g[k]]]

LEMMA NumbersAre ==
  ASSUME NEW ps \in Seq(Parts), NEW new \in Parts
  PROVE  /\ NumbersOf(ps) \in Seq(Nat) /\ (ps # <<>> => NumbersOf(ps) # <<>>) /\ NumbersOf(<<>>) = <<>>
         /\ NumbersOf(Append(ps, new)) = Append(NumbersOf(ps), new.number)
<1>1. \A k \in DOMAIN ps : ps[k].number \in Nat
  <2>1. \A k \in DOMAIN ps : ps[k] \in Parts
    OBVIOUS
  <2> QED BY <2>1, PartFields
<1>2. NumbersOf(ps) \in Seq(Nat) /\ Len(NumbersOf(ps)) = Len(ps)
  BY <1>1 DEF NumbersOf
<1>3. ps # <<>> => NumbersOf(ps) # <<>>
  BY <1>2, EmptySeq
<1>4. NumbersOf(<<>>) = <<>>
  BY DEF NumbersOf
<1>5. new.number \in Nat
  BY PartFields
<1>6. NumbersOf(Append(ps, new)) = Append(NumbersOf(ps), new.number)
  <2> PICK n \in Nat : n = Len(ps)
    OBVIOUS
  <2> DEFINE a == NumbersOf(Append(ps, new))
             b == Append(NumbersOf(ps), new.number)
  <2>1. /\ Append(ps, new) \in Seq(Parts) /\ Len(Append(ps, new)) = n + 1
        /\ Append(ps, new)[n + 1] = new /\ \A k \in 1 .. n : Append(ps, new)[k] = ps[k]
    BY AppendProperties
  <2>2. DOMAIN a = 1 .. n + 1 /\ a[n + 1] = new.number /\ \A k \in 1 .. n : a[k] = ps[k].number
    BY <2>1 DEF NumbersOf
  <2>3. a \in Seq(Nat) /\ Len(a) = n + 1
    <3>1. \A k \in 1 .. n + 1 : a[k] \in Nat
      BY <1>1, <1>5, <2>2, SMTT(30)
    <3> QED BY <2>2, <3>1 DEF NumbersOf
  <2>4. b \in Seq(Nat) /\ Len(b) = n + 1 /\ b[n + 1] = new.number
        /\ \A k \in 1 .. n : b[k] = NumbersOf(ps)[k]
    BY <1>2, <1>5, AppendProperties
  <2>5. \A k \in 1 .. n : NumbersOf(ps)[k] = ps[k].number
    BY DEF NumbersOf
  <2> HIDE DEF a, b
  <2>6. \A k \in 1 .. n + 1 : a[k] = b[k]
    BY <2>2, <2>4, <2>5
  <2>7. a = b
    BY <2>3, <2>4, <2>6, SeqEqual
  <2> QED BY <2>7 DEF a, b
<1> QED BY <1>2, <1>3, <1>4, <1>6

LEMMA ListedAre ==
  ASSUME NEW g \in Seq(Slots), NEW f \in [Slots -> Seq(Nat)]
  PROVE  /\ Listed(g, f) \in Seq(Seq(Nat)) /\ Len(Listed(g, f)) = Len(g)
         /\ \A m \in Slots : Listed(Append(g, m), f) = Append(Listed(g, f), f[m])
         /\ g # <<>> => /\ Listed(g, f) # <<>> /\ Head(Listed(g, f)) = f[Head(g)]
                        /\ Listed(Tail(g), f) = Tail(Listed(g, f))
<1> PICK n \in Nat : n = Len(g)
  OBVIOUS
<1>0. \A k \in 1 .. n : f[g[k]] \in Seq(Nat)
  OBVIOUS
<1>1. Listed(g, f) \in Seq(Seq(Nat)) /\ Len(Listed(g, f)) = n /\ \A k \in 1 .. n : Listed(g, f)[k] = f[g[k]]
  BY <1>0 DEF Listed
<1>4. \A k \in 1 .. n + 1 : k = n + 1 \/ k \in 1 .. n
  OBVIOUS
<1>2. ASSUME NEW m \in Slots
      PROVE  Listed(Append(g, m), f) = Append(Listed(g, f), f[m])
  <2> DEFINE a == Listed(Append(g, m), f)
             b == Append(Listed(g, f), f[m])
  <2>1. /\ Append(g, m) \in Seq(Slots) /\ Len(Append(g, m)) = n + 1
        /\ Append(g, m)[n + 1] = m /\ \A k \in 1 .. n : Append(g, m)[k] = g[k]
    BY AppendProperties
  <2>2. DOMAIN a = 1 .. n + 1 /\ a[n + 1] = f[m] /\ \A k \in 1 .. n : a[k] = f[g[k]]
    BY <2>1 DEF Listed
  <2>3. a \in Seq(Seq(Nat)) /\ Len(a) = n + 1
    <3> HIDE DEF a
    <3>1. \A k \in 1 .. n + 1 : a[k] \in Seq(Nat)
      BY <1>0, <1>4, <2>2
    <3> USE DEF a
    <3> QED BY <2>2, <3>1 DEF Listed
  <2>4. b \in Seq(Seq(Nat)) /\ Len(b) = n + 1 /\ b[n + 1] = f[m]
        /\ \A k \in 1 .. n : b[k] = Listed(g, f)[k]
    BY <1>1, AppendProperties
  <2> HIDE DEF a, b
  <2>6. \A k \in 1 .. n + 1 : a[k] = b[k]
    BY <1>1, <1>4, <2>2, <2>4
  <2>7. a = b
    BY <2>3, <2>4, <2>6, SeqEqual
  <2> QED BY <2>7 DEF a, b
<1>3. ASSUME g # <<>>
      PROVE  /\ Listed(g, f) # <<>> /\ Head(Listed(g, f)) = f[Head(g)]
             /\ Listed(Tail(g), f) = Tail(Listed(g, f))
  <2>1. n > 0 /\ Head(g) = g[1] /\ Tail(g) \in Seq(Slots) /\ Len(Tail(g)) = n - 1
        /\ \A k \in 1 .. n - 1 : Tail(g)[k] = g[k + 1]
    BY <1>3, EmptySeq, HeadTailProperties
  <2>2. Listed(g, f) # <<>> /\ Head(Listed(g, f)) = f[Head(g)]
    <3> PICK l \in Seq(Seq(Nat)) : l = Listed(g, f)
      BY <1>1
    <3>1. Len(l) > 0 /\ l[1] = f[g[1]]
      BY <1>1, <2>1
    <3> QED BY <2>1, <3>1
  <2> DEFINE a == Listed(Tail(g), f)
             b == Tail(Listed(g, f))
  <2>3. b \in Seq(Seq(Nat)) /\ Len(b) = n - 1 /\ \A k \in 1 .. n - 1 : b[k] = Listed(g, f)[k + 1]
    BY <1>1, <2>2, HeadTailProperties
  <2>4. DOMAIN a = 1 .. n - 1 /\ \A k \in 1 .. n - 1 : a[k] = f[g[k + 1]]
    BY <2>1 DEF Listed
  <2>5. n - 1 \in Nat /\ \A k \in 1 .. n - 1 : k + 1 \in 1 .. n
    BY <2>1
  <2>6. a \in Seq(Seq(Nat)) /\ Len(a) = n - 1
    <3>1. \A k \in 1 .. n - 1 : a[k] \in Seq(Nat)
      BY <2>4, <2>5
    <3> QED BY <2>4, <2>5, <3>1 DEF Listed
  <2> HIDE DEF a, b
  <2>7. \A k \in 1 .. n - 1 : a[k] = b[k]
    BY <1>1, <2>3, <2>4, <2>5
  <2>8. a = b
    BY <2>3, <2>6, <2>7, SeqEqual
  <2> QED BY <2>2, <2>8 DEF a, b
<1> QED BY <1>1, <1>2, <1>3

Contents == [s \in Slots |-> NumbersOf(primary[s].parts)]

OpenFrame == IF main.recording THEN Numbers(main.current) ELSE <<>>

InFlight == [k \in DOMAIN gpu |-> Numbers(gpu[k])]

LEMMA ContentsAre ==
  ASSUME TypeOK
  PROVE  /\ Contents \in [Slots -> Seq(Nat)] /\ gpu \in Seq(Slots) /\ main.current \in Slots
         /\ \A s \in Slots : Contents[s] = Numbers(s)
         /\ InFlight = Listed(gpu, Contents)
<1>1. primary \in [Slots -> PrimaryType] /\ gpu \in Seq(Slots) /\ main.current \in Slots
  BY TypesAre DEF MainType
<1>2. Contents \in [Slots -> Seq(Nat)]
  <2>1. \A s \in Slots : NumbersOf(primary[s].parts) \in Seq(Nat)
    <3> SUFFICES ASSUME NEW s \in Slots PROVE NumbersOf(primary[s].parts) \in Seq(Nat)
      OBVIOUS
    <3> PICK ps \in Seq(Parts) : ps = primary[s].parts
      BY <1>1, PrimaryFields
    <3>1. NumbersOf(ps) \in Seq(Nat)
      <4>1. \A k \in DOMAIN ps : ps[k].number \in Nat
        <5>1. \A k \in DOMAIN ps : ps[k] \in Parts
          OBVIOUS
        <5> QED BY <5>1, PartFields
      <4> QED BY <4>1 DEF NumbersOf
    <3> QED BY <3>1
  <2> QED BY <2>1 DEF Contents
<1>3. \A s \in Slots : Contents[s] = Numbers(s)
  BY DEF Contents, Numbers, NumbersOf
<1>4. InFlight = Listed(gpu, Contents)
  <2>1. \A k \in DOMAIN gpu : gpu[k] \in Slots
    BY <1>1
  <2>2. \A k \in DOMAIN gpu : Contents[gpu[k]] = Numbers(gpu[k])
    BY <1>3, <2>1
  <2> QED BY <2>2 DEF Listed, InFlight
<1> QED BY <1>1, <1>2, <1>3, <1>4

LEMMA ContentsNext ==
  ASSUME TypeOK'
  PROVE  /\ Contents' \in [Slots -> Seq(Nat)]
         /\ \A s \in Slots : Contents'[s] = Numbers(s)'
         /\ InFlight' = Listed(gpu', Contents')
<1>1. primary' \in [Slots -> PrimaryType] /\ gpu' \in Seq(Slots)
  BY DEF TypeOK, PrimaryType
<1>2. Contents' \in [Slots -> Seq(Nat)]
  <2>1. \A s \in Slots : NumbersOf(primary'[s].parts) \in Seq(Nat)
    <3> SUFFICES ASSUME NEW s \in Slots PROVE NumbersOf(primary'[s].parts) \in Seq(Nat)
      OBVIOUS
    <3> PICK ps \in Seq(Parts) : ps = primary'[s].parts
      BY <1>1, PrimaryFields
    <3>1. NumbersOf(ps) \in Seq(Nat)
      <4>1. \A k \in DOMAIN ps : ps[k].number \in Nat
        <5>1. \A k \in DOMAIN ps : ps[k] \in Parts
          OBVIOUS
        <5> QED BY <5>1, PartFields
      <4> QED BY <4>1 DEF NumbersOf
    <3> QED BY <3>1
  <2> QED BY <2>1 DEF Contents
<1>3. \A s \in Slots : Contents'[s] = Numbers(s)'
  BY DEF Contents, Numbers, NumbersOf
<1>4. InFlight' = Listed(gpu', Contents')
  <2>1. \A k \in DOMAIN gpu' : gpu'[k] \in Slots
    BY <1>1
  <2>2. \A k \in DOMAIN gpu' : Contents'[gpu'[k]] = Numbers(gpu[k])'
    BY <2>1 DEF Contents, Numbers, NumbersOf
  <2> QED BY <2>2 DEF Listed, InFlight
<1> QED BY <1>2, <1>3, <1>4

(* The device has the buffers of its queue, and is not given more than     *)
(* there are.                                                              *)
LEMMA QueuePending ==
  ASSUME TypeOK, SubpassInv
  PROVE  \A k \in DOMAIN gpu : gpu[k] \in Slots /\ primary[gpu[k]].state = "pending"
<1>1. gpu \in Seq(Slots)
  BY TypesAre
<1> PICK n \in Nat : n = Len(gpu)
  BY <1>1
<1>2. \A k \in 1 .. n : gpu[k] \in Slots /\ Behind(gpu[k]) = n + 1 - k
  BY <1>1 DEF SubpassInv, QueueInTurn
<1>3. \A s \in Slots : Behind(s) <= n => primary[s].state = "pending"
  BY <1>1 DEF SubpassInv, QueueInTurn
<1>4. DOMAIN gpu = 1 .. n
  BY <1>1
<1> QED BY <1>2, <1>3, <1>4

(* A step that changes no frame. *)
LEMMA FramesStutter ==
  ASSUME TypeOK, SubpassInv, UNCHANGED <<issued, gpu, done>>, OpenFrame' = OpenFrame,
         \A s \in Slots : primary[s].state = "pending" => primary'[s].parts = primary[s].parts
  PROVE  UNCHANGED Frames!vars
<1>1. \A k \in DOMAIN gpu : gpu[k] \in Slots /\ primary'[gpu[k]].parts = primary[gpu[k]].parts
  BY QueuePending
<1>2. InFlight' = InFlight
  BY <1>1 DEF InFlight, Numbers
<1> QED BY <1>2 DEF Frames!vars, InFlight, OpenFrame

(* A child combined is an operation issued. *)
LEMMA CombineIssues ==
  ASSUME TypeOK, SubpassInv, Disciplined, NEW c \in Children, Combine(c)
  PROVE  Frames!Issue
<1>1. main \in MainType /\ primary \in [Slots -> PrimaryType] /\ issued \in Nat
  BY TypesAre
<1> PICK m \in Slots : m = main.current
  BY <1>1 DEF MainType
<1> PICK q \in PrimaryType : q = primary[m]
  BY <1>1
<1> PICK new \in Parts : new = Part(c)
  BY CombinePrimary
<1> PICK p \in PrimaryType : IsPrimary(m, p) /\ p.parts = Append(q.parts, new)
  BY CombinePrimary
<1>2. primary'[m] = p /\ \A t \in Slots : t # m => primary'[t] = primary[t]
  BY <1>1, PrimarySet
<1>3. main.recording /\ issued' = issued + 1 /\ UNCHANGED <<gpu, done>> /\ new.number = issued + 1
  BY DEF Combine, Part, Disciplined, Permits
<1>4. main'.recording /\ main'.current = m
  <2>1. main' = [main EXCEPT !.dirty = TRUE]
    BY DEF Combine
  <2> QED BY <1>1, <1>3, <2>1 DEF MainType
<1>5. OpenFrame = NumbersOf(q.parts) /\ OpenFrame' = NumbersOf(p.parts)
  BY <1>2, <1>3, <1>4 DEF OpenFrame, Numbers, NumbersOf
<1>6. OpenFrame' = Append(OpenFrame, issued + 1)
  <2> PICK ps \in Seq(Parts) : ps = q.parts
    BY PrimaryFields
  <2>1. NumbersOf(Append(ps, new)) = Append(NumbersOf(ps), new.number)
    BY NumbersAre
  <2> QED BY <1>3, <1>5, <2>1
<1>7. InFlight' = InFlight
  <2>1. \A k \in DOMAIN gpu : gpu[k] \in Slots /\ gpu[k] # m
    BY <1>3, NotPending, QueuePending
  <2>2. \A k \in DOMAIN gpu : primary'[gpu[k]] = primary[gpu[k]]
    BY <1>2, <2>1
  <2> QED BY <1>3, <2>2 DEF InFlight, Numbers
<1> QED BY <1>3, <1>6, <1>7 DEF Frames!Issue, OpenFrame, InFlight

(* A frame submitted is handed over whole, and there is room for it.       *)
LEMMA DirtySubmits ==
  ASSUME TypeOK, TypeOK', SubpassInv, ParentSubmit, main.dirty
  PROVE  Frames!Submit
<1>1. main \in MainType /\ primary \in [Slots -> PrimaryType] /\ gpu \in Seq(Slots)
  BY TypesAre
<1> PICK m \in Slots : m = main.current
  BY <1>1 DEF MainType
<1> PICK q \in PrimaryType : q = primary[m]
  BY <1>1
<1>2. /\ main.recording /\ gpu' = Append(gpu, m)
      /\ primary' = [primary EXCEPT ![m].state = "pending", ![m].signaled = TRUE]
      /\ main' = [main EXCEPT !.recording = FALSE, !.dirty = FALSE, !.current = Succ(m)]
      /\ UNCHANGED <<issued, done>>
  BY DEF ParentSubmit
<1> PICK p \in PrimaryType :
      /\ IsPrimary(m, p)
      /\ p.state = "pending" /\ p.signaled = TRUE
      /\ p.parts = q.parts /\ p.at = q.at /\ p.fence = q.fence /\ p.onto = q.onto
  BY <1>2, SubmitPrimary
<1>3. \A t \in Slots : primary'[t].parts = primary[t].parts
  BY <1>1, PrimarySet
<1>4. ~main'.recording
  BY <1>1, <1>2 DEF MainType
<1> PICK f \in [Slots -> Seq(Nat)] : f = Contents
  BY ContentsAre
<1>5. Contents' = f
  BY <1>3 DEF Contents
<1> PICK g \in Seq(Slots) : g = gpu
  BY <1>1
<1>6. InFlight = Listed(g, f) /\ InFlight' = Listed(Append(g, m), f)
  BY <1>2, <1>5, ContentsAre, ContentsNext
<1>7. OpenFrame = f[m] /\ OpenFrame' = <<>>
  BY <1>2, <1>4, ContentsAre DEF OpenFrame
<1>8. InFlight' = Append(InFlight, OpenFrame)
  BY <1>6, <1>7, ListedAre
<1>9. Len(InFlight) < Count
  <2>1. primary[m].state = "recording"
    BY <1>2, NotPending
  <2>2. Len(gpu) < Count
    BY <2>1, NotPending
  <2>3. Len(Listed(g, f)) = Len(g)
    BY ListedAre
  <2> QED BY <1>6, <2>2, <2>3
<1>10. OpenFrame # <<>>
  <2> PICK ps \in Seq(Parts) : ps = q.parts
    BY PrimaryFields
  <2>1. ps # <<>>
    BY DEF SubpassInv, ParentInStep
  <2>2. NumbersOf(ps) # <<>>
    BY <2>1, NumbersAre
  <2>3. OpenFrame = NumbersOf(ps)
    BY <1>2 DEF OpenFrame, Numbers, NumbersOf
  <2> QED BY <2>2, <2>3
<1> QED BY <1>2, <1>7, <1>8, <1>9, <1>10 DEF Frames!Submit, OpenFrame, InFlight

(* The frame the device finishes is the oldest. *)
LEMMA CompleteCompletes ==
  ASSUME TypeOK, TypeOK', SubpassInv, Complete
  PROVE  Frames!Complete
<1>1. primary \in [Slots -> PrimaryType] /\ gpu \in Seq(Slots) /\ gpu # <<>> /\ Head(gpu) \in Slots
  BY TypesAre, EmptySeq, HeadTailProperties DEF Complete
<1> PICK g \in Seq(Slots) : g = gpu
  BY <1>1
<1> PICK m \in Slots : m = Head(g)
  BY <1>1
<1> PICK q \in PrimaryType : q = primary[m]
  BY <1>1
<1>2. /\ primary' = [primary EXCEPT ![m].state = "executable", ![m].fence = TRUE]
      /\ gpu' = Tail(g) /\ done' = Append(done, NumbersOf(q.parts))
      /\ UNCHANGED <<main, issued>>
  BY DEF Complete, NumbersOf
<1> PICK p \in PrimaryType : IsPrimary(m, p) /\ p.parts = q.parts
  BY <1>2, CompletePrimary, ZenonT(60)
<1>3. \A t \in Slots : primary'[t].parts = primary[t].parts
  BY <1>1, PrimarySet
<1> PICK f \in [Slots -> Seq(Nat)] : f = Contents
  BY ContentsAre
<1>4. Contents' = f /\ f[m] = NumbersOf(q.parts)
  BY <1>3 DEF Contents
<1>5. InFlight = Listed(g, f) /\ InFlight' = Listed(Tail(g), f)
  BY <1>2, <1>4, ContentsAre, ContentsNext
<1>6. InFlight # <<>> /\ Head(InFlight) = f[m] /\ InFlight' = Tail(InFlight)
  BY <1>1, <1>5, ListedAre
<1>7. OpenFrame' = OpenFrame
  <2> PICK t \in Slots : t = main.current
    BY ContentsAre
  <2>1. primary'[t].parts = primary[t].parts
    BY <1>3
  <2>2. main' = main
    BY <1>2
  <2>3. CASE main.recording
    <3>1. OpenFrame = NumbersOf(primary[t].parts) /\ OpenFrame' = NumbersOf(primary'[t].parts)
      BY <2>2, <2>3 DEF OpenFrame, Numbers, NumbersOf
    <3> QED BY <2>1, <3>1
  <2>4. CASE ~main.recording
    BY <2>2, <2>4 DEF OpenFrame
  <2> QED BY <2>3, <2>4
<1> QED BY <1>2, <1>4, <1>6, <1>7 DEF Frames!Complete, OpenFrame, InFlight

(* The remaining steps do not show. *)
LEMMA OthersStutter ==
  ASSUME TypeOK, SubpassInv,
         \/ ParentBegin \/ ParentBegun \/ BuildPass \/ UsePass \/ UNCHANGED vars
         \/ ParentSubmit /\ ~main.dirty
         \/ \E c \in Children : OfChild(c)
  PROVE  UNCHANGED Frames!vars
<1>1. main \in MainType /\ primary \in [Slots -> PrimaryType] /\ gpu \in Seq(Slots)
  BY TypesAre
<1> PICK m \in Slots : m = main.current
  BY <1>1 DEF MainType
<1> PICK q \in PrimaryType : q = primary[m]
  BY <1>1
<1>2. CASE ParentBegun
  <2> PICK p \in PrimaryType : IsPrimary(m, p) /\ p.parts = <<>>
    BY <1>2, BegunPrimary
  <2>1. primary'[m] = p /\ \A t \in Slots : t # m => primary'[t] = primary[t]
    BY <1>1, PrimarySet
  <2>2. main' = [main EXCEPT !.phase = "idle", !.recording = TRUE] /\ ~main.recording
        /\ UNCHANGED <<gpu, done, issued>>
    BY <1>2 DEF ParentBegun, SubpassInv, ParentInStep
  <2>3. main'.recording /\ main'.current = m
    BY <1>1, <2>2 DEF MainType
  <2>4. OpenFrame = <<>> /\ OpenFrame' = <<>>
    BY <2>1, <2>2, <2>3 DEF OpenFrame, Numbers
  <2>5. q.state # "pending"
    BY <1>2, <2>2, NotPending DEF ParentBegun, MustWait
  <2> QED BY <2>1, <2>2, <2>4, <2>5, FramesStutter
<1>3. CASE ParentSubmit /\ ~main.dirty
  <2>1. /\ primary' = [primary EXCEPT ![m].state = "executable"] /\ main.recording
        /\ main' = [main EXCEPT !.recording = FALSE] /\ UNCHANGED <<gpu, done, issued>>
    BY <1>3 DEF ParentSubmit
  <2> PICK p \in PrimaryType :
        /\ IsPrimary(m, p)
        /\ p.state = "executable" /\ p.signaled = q.signaled
        /\ p.parts = q.parts /\ p.at = q.at /\ p.fence = q.fence /\ p.onto = q.onto
    BY <2>1, SubmitPrimary
  <2>2. \A t \in Slots : primary'[t].parts = primary[t].parts
    BY <1>1, PrimarySet
  <2>3. q.parts = <<>>
    BY <1>3, <2>1 DEF SubpassInv, ParentInStep
  <2>4. ~main'.recording
    BY <1>1, <2>1 DEF MainType
  <2>5. OpenFrame = <<>> /\ OpenFrame' = <<>>
    BY <2>1, <2>3, <2>4 DEF OpenFrame, Numbers
  <2> QED BY <2>1, <2>2, <2>5, FramesStutter
<1>4. CASE ParentBegin
  <2>1. main' = [main EXCEPT !.phase = "waiting"] /\ UNCHANGED <<primary, gpu, done, issued>>
    BY <1>4 DEF ParentBegin, bufferVars
  <2>2. main'.recording = main.recording /\ main'.current = main.current
    BY <1>1, <2>1 DEF MainType
  <2>3. OpenFrame' = OpenFrame
    BY <2>1, <2>2 DEF OpenFrame, Numbers
  <2> QED BY <2>1, <2>3, FramesStutter
<1>5. CASE BuildPass \/ UsePass \/ UNCHANGED vars \/ \E c \in Children : OfChild(c)
  <2>1. UNCHANGED <<main, primary, gpu, done, issued>>
    BY <1>5 DEF BuildPass, UsePass, vars, subVars, OfChild, EnterPools, LeavePools, ChildBegin, ChildRecord,
                Draw, Drawn, ChildEnd, bufferVars
  <2>2. OpenFrame' = OpenFrame
    BY <2>1 DEF OpenFrame, Numbers
  <2> QED BY <2>1, <2>2, FramesStutter
<1> QED BY <1>2, <1>3, <1>4, <1>5

(* A disciplined parent and its children are a frame queue: each child     *)
(* combined is executed once, in the order combined, in the frame it was   *)
(* combined for, and no more than Count frames are ever with the device    *)
(* (Chain::combine, Chain::submit).                                        *)
THEOREM SubpassesAreFrameQueue ==
  ASSUME Disciplined
  PROVE  Spec => IsFrameQueue
<1>1. Init => Frames!Init
  BY DEF Init, Frames!Init
<1>2. TypeOK /\ TypeOK' /\ SubpassInv /\ [Next]_vars => [Frames!Next]_(Frames!vars)
  <2> SUFFICES ASSUME TypeOK, TypeOK', SubpassInv, [Next]_vars
               PROVE  Frames!Next \/ UNCHANGED Frames!vars
    OBVIOUS
  <2>1. CASE \E c \in Children : Combine(c)
    BY <2>1, CombineIssues DEF Frames!Next
  <2>2. CASE ParentSubmit /\ main.dirty
    BY <2>2, DirtySubmits DEF Frames!Next
  <2>3. CASE Complete
    BY <2>3, CompleteCompletes DEF Frames!Next
  <2> QED BY <2>1, <2>2, <2>3, OthersStutter DEF Next, OfParent
<1> QED BY <1>1, <1>2, SubpassTypes, SubpassAlways, PTL DEF Spec, IsFrameQueue, Frames!Safety

=============================================================================
