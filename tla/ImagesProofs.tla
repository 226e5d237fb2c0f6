---------------------------- MODULE ImagesProofs ----------------------------
(***************************************************************************)
(* Proofs about Images, for every number of objects, images and commands.  *)
(***************************************************************************)
EXTENDS Images, SequenceTheorems, FiniteSetTheorems, WellFoundedInduction, TLAPS

-----------------------------------------------------------------------------
(* What a list of commands does. *)

(* A set of natural numbers has a least one. *)
LEMMA LeastOf ==
  ASSUME NEW S \in SUBSET Nat, S # {}
  PROVE  \E i \in S : \A j \in S : i <= j
<1> DEFINE R == StrictSubsetOrdering(Nat)
           F == FiniteSubsetsOf(Nat)
           T == {0 .. i : i \in S}
<1>1. T \subseteq F /\ T # {}
  <2>1. ASSUME NEW i \in S
        PROVE  0 .. i \in F
    <3>1. IsFiniteSet(0 .. i)
      BY FS_Interval
    <3>2. 0 .. i \subseteq Nat
      OBVIOUS
    <3>3. QED
      BY <3>1, <3>2 DEF FiniteSubsetsOf
  <2> HIDE DEF F
  <2>2. QED
    BY <2>1
<1>2. IsWellFoundedOn(R, F)
  BY FS_StrictSubsetOrderingWellFounded
<1>3. \E x \in T : \A y \in T : <<y, x>> \notin R
  <2> HIDE DEF R, F, T
  <2> QED
    BY <1>1, <1>2, WFMin
<1>4. PICK i \in S : \A j \in S : <<0 .. j, 0 .. i>> \notin R
  BY <1>3
<1>5. ASSUME NEW j \in S, j < i
      PROVE  FALSE
  <2>1. (0 .. j) \subseteq (0 .. i) /\ i \in 0 .. i /\ i \notin 0 .. j
    BY <1>5
  <2>2. <<0 .. j, 0 .. i>> \in R
    BY <2>1 DEF StrictSubsetOrdering
  <2>3. QED
    BY <1>4, <1>5, <2>2
<1>6. QED
  BY <1>5

DoneFrom(g, s, cs, n) == g = [k \in 0 .. n |-> IF k = 0 THEN s ELSE Execute(g[k - 1], cs[k])]

(* The recursion has a function. *)
LEMMA DoneExists ==
  ASSUME NEW s, NEW cs, NEW n \in Nat
  PROVE  \E g : DoneFrom(g, s, cs, n)
<1> DEFINE S == {m \in Nat : ~\E g : DoneFrom(g, s, cs, m)}
<1> SUFFICES ASSUME S # {} PROVE FALSE
  OBVIOUS
<1>1. PICK m \in S : \A j \in S : m <= j
  BY LeastOf
<1>2. CASE m = 0
  <2> DEFINE g == [k \in 0 .. 0 |-> s]
  <2>1. DoneFrom(g, s, cs, 0)
    BY DEF DoneFrom
  <2> QED BY <1>2, <2>1
<1>3. CASE m > 0
  <2>1. m - 1 \in Nat /\ m - 1 \notin S
    BY <1>1, <1>3
  <2>2. PICK g : DoneFrom(g, s, cs, m - 1)
    BY <2>1
  <2> DEFINE h == [k \in 0 .. m |-> IF k = 0 THEN s ELSE Execute(g[k - 1], cs[k])]
  <2>3. \A k \in 0 .. m - 1 : g[k] = IF k = 0 THEN s ELSE Execute(g[k - 1], cs[k])
    BY <2>2 DEF DoneFrom
  <2>4. \A k \in 0 .. m - 1 : h[k] = g[k]
    BY <1>1, <2>3
  <2>5. \A k \in 0 .. m : k # 0 => k - 1 \in 0 .. m - 1
    BY <1>1
  <2>6. h = [k \in 0 .. m |-> IF k = 0 THEN s ELSE Execute(h[k - 1], cs[k])]
    <3>1. \A k \in 0 .. m : k # 0 => h[k - 1] = g[k - 1]
      BY <2>4, <2>5
    <3> HIDE DEF h
    <3>2. \A k \in 0 .. m : (IF k = 0 THEN s ELSE Execute(g[k - 1], cs[k]))
                              = (IF k = 0 THEN s ELSE Execute(h[k - 1], cs[k]))
      BY <3>1
    <3>3. [k \in 0 .. m |-> IF k = 0 THEN s ELSE Execute(g[k - 1], cs[k])]
            = [k \in 0 .. m |-> IF k = 0 THEN s ELSE Execute(h[k - 1], cs[k])]
      BY <3>2
    <3> QED BY <3>3 DEF h
  <2> QED BY <1>1, <2>6 DEF DoneFrom
<1> QED BY <1>1, <1>2, <1>3

LEMMA SubmittedIs ==
  ASSUME NEW s, NEW cs, Len(cs) \in Nat
  PROVE  \E g : DoneFrom(g, s, cs, Len(cs)) /\ Submitted(s, cs) = g[Len(cs)]
<1> DEFINE h == CHOOSE h : h = [k \in 0 .. Len(cs) |-> IF k = 0 THEN s ELSE Execute(h[k - 1], cs[k])]
<1>1. h = [k \in 0 .. Len(cs) |-> IF k = 0 THEN s ELSE Execute(h[k - 1], cs[k])]
  <2>1. \E g : g = [k \in 0 .. Len(cs) |-> IF k = 0 THEN s ELSE Execute(g[k - 1], cs[k])]
    <3>1. \E g : DoneFrom(g, s, cs, Len(cs))
      BY DoneExists
    <3> QED BY <3>1 DEF DoneFrom
  <2> QED BY <2>1, Zenon
<1>2. Submitted(s, cs) = h[Len(cs)]
  BY Zenon DEF Submitted
<1> QED BY <1>1, <1>2 DEF DoneFrom

(* Nothing submitted does nothing. *)
LEMMA SubmittedNone ==
  ASSUME NEW s
  PROVE  Submitted(s, <<>>) = s
<1>1. Len(<<>>) = 0
  OBVIOUS
<1>2. PICK g : DoneFrom(g, s, <<>>, 0) /\ Submitted(s, <<>>) = g[0]
  BY <1>1, SubmittedIs
<1> QED BY <1>2 DEF DoneFrom

(* A command more is executed after those before it. *)
LEMMA SubmittedMore ==
  ASSUME NEW s, NEW S, NEW cs \in Seq(S), NEW c \in S
  PROVE  Submitted(s, Append(cs, c)) = Execute(Submitted(s, cs), c)
<1> PICK n \in Nat : n = Len(cs)
  OBVIOUS
<1> PICK ds : ds = Append(cs, c)
  OBVIOUS
<1>1. Len(ds) = n + 1 /\ ds[n + 1] = c /\ \A k \in 1 .. n : ds[k] = cs[k]
  BY AppendProperties
<1>2. PICK g : DoneFrom(g, s, cs, n) /\ Submitted(s, cs) = g[n]
  BY SubmittedIs
<1>3. PICK h : DoneFrom(h, s, ds, n + 1) /\ Submitted(s, ds) = h[n + 1]
  <2>1. Len(ds) \in Nat
    BY <1>1
  <2>2. \E h : DoneFrom(h, s, ds, Len(ds)) /\ Submitted(s, ds) = h[Len(ds)]
    BY <2>1, SubmittedIs
  <2> QED BY <1>1, <2>2
<1>4. /\ g[0] = s /\ h[0] = s
      /\ \A k \in 1 .. n : g[k] = Execute(g[k - 1], cs[k]) /\ h[k] = Execute(h[k - 1], cs[k])
      /\ h[n + 1] = Execute(h[n], c)
  <2>1. \A k \in 0 .. n : g[k] = IF k = 0 THEN s ELSE Execute(g[k - 1], cs[k])
    BY <1>2 DEF DoneFrom
  <2>2. \A k \in 0 .. n + 1 : h[k] = IF k = 0 THEN s ELSE Execute(h[k - 1], ds[k])
    BY <1>3 DEF DoneFrom
  <2>3. 0 \in 0 .. n /\ 0 \in 0 .. n + 1 /\ n + 1 \in 0 .. n + 1 /\ n + 1 # 0 /\ (n + 1) - 1 = n
        /\ \A k \in 1 .. n : k \in 0 .. n /\ k \in 0 .. n + 1 /\ k # 0
    OBVIOUS
  <2>4. g[0] = s /\ h[0] = s
    BY <2>1, <2>2, <2>3
  <2>5. \A k \in 1 .. n : g[k] = Execute(g[k - 1], cs[k]) /\ h[k] = Execute(h[k - 1], cs[k])
    BY <1>1, <2>1, <2>2, <2>3
  <2>6. h[n + 1] = Execute(h[n], c)
    BY <1>1, <2>2, <2>3
  <2> QED BY <2>4, <2>5, <2>6
<1> DEFINE D == {k \in 0 .. n : g[k] # h[k]}
<1>5. D = {}
  <2> SUFFICES ASSUME D # {} PROVE FALSE
    OBVIOUS
  <2>1. PICK m \in D : \A j \in D : m <= j
    <3>1. D \in SUBSET Nat
      OBVIOUS
    <3> QED BY <3>1, LeastOf
  <2>2. CASE m = 0
    BY <1>4, <2>1, <2>2
  <2>3. CASE m > 0
    <3>1. m - 1 \in 0 .. n /\ m - 1 \notin D /\ m \in 1 .. n
      BY <2>1, <2>3
    <3>2. g[m - 1] = h[m - 1]
      BY <3>1
    <3> QED BY <1>4, <2>1, <3>1, <3>2
  <2> QED BY <2>1, <2>2, <2>3
<1>6. g[n] = h[n]
  BY <1>5
<1> QED BY <1>2, <1>3, <1>4, <1>6

LEMMA SubmittedOne ==
  ASSUME NEW s, NEW S, NEW c \in S
  PROVE  Submitted(s, <<c>>) = Execute(s, c)
<1>1. <<>> \in Seq(S) /\ Append(<<>>, c) = <<c>>
  OBVIOUS
<1>2. Submitted(s, Append(<<>>, c)) = Execute(Submitted(s, <<>>), c)
  BY <1>1, SubmittedMore
<1> QED BY <1>1, <1>2, SubmittedNone

-----------------------------------------------------------------------------
(* What one command does. *)

State(x, f) == [texture |-> x, fault |-> f]

(* An image that takes what another one is in or shows. *)
Laid(t, layout, shows) == [t EXCEPT !.layout = layout, !.pending = TRUE, !.shows = shows]

LEMMA LaidIs ==
  ASSUME NEW t \in Textures, NEW layout \in AllLayouts, NEW shows \in Prints \union {0}
  PROVE  LET u == Laid(t, layout, shows) IN
         /\ u \in Textures /\ u.live = t.live /\ u.bound = t.bound /\ u.swapchain = t.swapchain
         /\ u.layout = layout /\ u.shows = shows /\ u.depth = t.depth
BY DEF Textures, Laid

LEMMA StateIs ==
  ASSUME NEW x, NEW y, NEW s, s = State(x, "none")
  PROVE  [s EXCEPT !.texture = y] = State(y, "none")
BY DEF State

Put(s, t, v)  == [s EXCEPT !.texture[t] = v]
With(x, t, v) == [x EXCEPT ![t] = v]

LEMMA StateSet ==
  ASSUME NEW x, NEW t, NEW v, NEW s, s = State(x, "none")
  PROVE  Put(s, t, v) = State(With(x, t, v), "none")
<1> PICK z : z = [x EXCEPT ![t] = v]
  OBVIOUS
<1>1. s.texture = x
  BY DEF State
<1>2. [s EXCEPT !.texture[t] = v] = [s EXCEPT !.texture = z]
  BY <1>1, Zenon
<1>3. [s EXCEPT !.texture = z] = State(z, "none")
  BY StateIs
<1> QED BY <1>2, <1>3, Zenon DEF Put, With

LEMMA FaultyIs ==
  ASSUME NEW x, NEW what
  PROVE  Faulty(State(x, "none"), what) = State(x, what)
BY DEF Faulty, State

(* What a barrier leaves of what an image shows. *)
Left(x, c) == IF c.from = "Undefined" THEN 0 ELSE x[c.tex].shows

LEMMA BarrierIs ==
  ASSUME NEW x \in Seq(Textures), NEW c \in Commands, c.tex \in DOMAIN x
  PROVE  Barrier(State(x, "none"), c) =
           IF c.to = "Undefined" THEN State(x, "no layout")
           ELSE IF x[c.tex].depth THEN State(x, "depth image")
           ELSE IF ~x[c.tex].bound THEN State(x, "no memory")
           ELSE IF c.from # "Undefined" /\ c.from # x[c.tex].layout THEN State(x, "wrong layout")
           ELSE State(With(x, c.tex, Laid(x[c.tex], c.to, Left(x, c))), "none")
<1> PICK s : s = State(x, "none")
  OBVIOUS
<1>1. s.texture = x /\ s.texture[c.tex] = x[c.tex]
  BY DEF State
<1> PICK shows : shows = Left(x, c)
  OBVIOUS
<1> PICK v : v = Laid(x[c.tex], c.to, shows)
  OBVIOUS
<1>2. [s EXCEPT !.texture[c.tex] = v] = State(With(x, c.tex, v), "none")
  <2>1. Put(s, c.tex, v) = State(With(x, c.tex, v), "none")
    BY StateSet
  <2>2. [s EXCEPT !.texture[c.tex] = v] = Put(s, c.tex, v)
    BY Zenon DEF Put
  <2> QED BY <2>1, <2>2, Zenon
<1>3. [x[c.tex] EXCEPT !.layout = c.to, !.pending = TRUE, !.shows = shows] = v
  BY Zenon DEF Laid
<1>4. Barrier(s, c) =
        IF c.to = "Undefined" THEN Faulty(s, "no layout")
        ELSE IF x[c.tex].depth THEN Faulty(s, "depth image")
        ELSE IF ~x[c.tex].bound THEN Faulty(s, "no memory")
        ELSE IF c.from # "Undefined" /\ c.from # x[c.tex].layout THEN Faulty(s, "wrong layout")
        ELSE [s EXCEPT !.texture[c.tex] =
                [x[c.tex] EXCEPT !.layout = c.to, !.pending = TRUE,
                             !.shows = IF c.from = "Undefined" THEN 0 ELSE x[c.tex].shows]]
  BY <1>1, Zenon DEF Barrier
<1>5. Barrier(s, c) =
        IF c.to = "Undefined" THEN Faulty(s, "no layout")
        ELSE IF x[c.tex].depth THEN Faulty(s, "depth image")
        ELSE IF ~x[c.tex].bound THEN Faulty(s, "no memory")
        ELSE IF c.from # "Undefined" /\ c.from # x[c.tex].layout THEN Faulty(s, "wrong layout")
        ELSE State(With(x, c.tex, v), "none")
  BY <1>2, <1>3, <1>4, Zenon DEF Left
<1> QED BY <1>5, FaultyIs, Zenon

LEMMA ShowsIs ==
  ASSUME NEW x \in Seq(Textures), NEW t \in DOMAIN x, NEW print \in Prints \union {0}
  PROVE  Shows(State(x, "none"), t, print) = State([x EXCEPT ![t] = Laid(x[t], x[t].layout, print)], "none")
<1> PICK s : s = State(x, "none")
  OBVIOUS
<1>1. s.texture = x /\ s.fault = "none"
  BY DEF State
<1> PICK v : v = Laid(x[t], x[t].layout, print)
  OBVIOUS
<1> PICK w : w = [x[t] EXCEPT !.shows = print]
  OBVIOUS
<1>2. w \in Textures /\ [w EXCEPT !.pending = TRUE] = v
  <2>1. x[t] \in Textures
    OBVIOUS
  <2> QED BY <2>1 DEF Textures, Laid
<1> PICK y : y = [x EXCEPT ![t] = w]
  OBVIOUS
<1>3. y[t] = w /\ [y EXCEPT ![t] = v] = [x EXCEPT ![t] = v]
  OBVIOUS
<1>4. Put(s, t, w) = State(y, "none")
  <2>1. Put(s, t, w) = State(With(x, t, w), "none")
    BY StateSet
  <2>2. With(x, t, w) = y
    BY DEF With
  <2> QED BY <2>1, <2>2
<1> PICK s2 : s2 = State(y, "none")
  OBVIOUS
<1>5. [s EXCEPT !.texture[t].shows = print] = Put(s, t, w)
  BY <1>1, Zenon DEF Put
<1>6. Put(s2, t, v) = State([x EXCEPT ![t] = v], "none")
  <2>1. Put(s2, t, v) = State(With(y, t, v), "none")
    BY StateSet
  <2>2. With(y, t, v) = [x EXCEPT ![t] = v]
    BY <1>3 DEF With
  <2> QED BY <2>1, <2>2
<1>7. [s2 EXCEPT !.texture[t].pending = TRUE] = Put(s2, t, v)
  <2>1. s2.texture[t] = w
    BY <1>3 DEF State
  <2> QED BY <1>2, <2>1, Zenon DEF Put
<1>8. Shows(s, t, print) = [s2 EXCEPT !.texture[t].pending = TRUE]
  BY <1>4, <1>5, Zenon DEF Shows
<1> QED BY <1>6, <1>7, <1>8

LEMMA WithIs ==
  ASSUME NEW x \in Seq(Textures), NEW t \in DOMAIN x, NEW v \in Textures
  PROVE  /\ With(x, t, v) \in Seq(Textures) /\ Len(With(x, t, v)) = Len(x)
         /\ DOMAIN With(x, t, v) = DOMAIN x /\ With(x, t, v)[t] = v
         /\ \A u \in DOMAIN x : u # t => With(x, t, v)[u] = x[u]
BY DEF With

(* A command the device may be asked for. *)
WellFormed(c, n) ==
  /\ c \in Commands /\ c.tex \in 1 .. n /\ c.dst \in 0 .. n
  /\ c.dst # 0 => c.dst # c.tex /\ c.op = "out"
  /\ c.op = "barrier" => c.to \in AllLayouts

Permitted(x, c) ==
  /\ x[c.tex].live
  /\ c.op = "barrier" => /\ c.to # "Undefined" /\ ~x[c.tex].depth /\ x[c.tex].bound
                         /\ c.from = "Undefined" \/ c.from = x[c.tex].layout
  /\ c.op = "in" => CanHold(x[c.tex], "TransferDst")
  /\ c.op = "out" => /\ CanHold(x[c.tex], "TransferSrc")
                     /\ c.dst # 0 => CanHold(x[c.dst], "TransferDst")

(* What the image of a command is then, and what a picture is copied to.   *)
TexAfter(x, c) ==
  IF c.op = "barrier" THEN Laid(x[c.tex], c.to, Left(x, c))
  ELSE IF c.op = "in" THEN Laid(x[c.tex], x[c.tex].layout, c.print)
  ELSE Laid(x[c.tex], x[c.tex].layout, x[c.tex].shows)

DstAfter(x, c) == Laid(x[c.dst], x[c.dst].layout, x[c.tex].shows)

After(x, c) ==
  IF c.dst = 0 THEN With(x, c.tex, TexAfter(x, c))
  ELSE With(With(x, c.tex, TexAfter(x, c)), c.dst, DstAfter(x, c))

LEMMA CopyInIs ==
  ASSUME NEW x \in Seq(Textures), NEW c, c.tex \in DOMAIN x, c.print \in Prints \union {0}
  PROVE  CopyIn(State(x, "none"), c) =
           IF ~CanHold(x[c.tex], "TransferDst") THEN State(x, "not to be written")
           ELSE State(With(x, c.tex, Laid(x[c.tex], x[c.tex].layout, c.print)), "none")
<1> PICK s : s = State(x, "none")
  OBVIOUS
<1>1. s.texture = x
  BY DEF State
<1>2. CopyIn(s, c) = IF ~CanHold(x[c.tex], "TransferDst") THEN Faulty(s, "not to be written")
                     ELSE Shows(s, c.tex, c.print)
  BY <1>1, Zenon DEF CopyIn
<1>3. Shows(s, c.tex, c.print) = State(With(x, c.tex, Laid(x[c.tex], x[c.tex].layout, c.print)), "none")
  BY ShowsIs DEF With
<1> QED BY <1>2, <1>3, FaultyIs, Zenon

LEMMA CopyOutIs ==
  ASSUME NEW x \in Seq(Textures), NEW c \in Commands, NEW t \in DOMAIN x, c.tex = t,
         c.dst \in 0 .. Len(x), c.dst # t, NEW y, y = With(x, t, Laid(x[t], x[t].layout, x[t].shows))
  PROVE  CopyOut(State(x, "none"), c) =
           IF ~CanHold(x[t], "TransferSrc") THEN State(x, "not to be read")
           ELSE IF c.dst = 0 THEN State(y, "none")
           ELSE IF ~CanHold(x[c.dst], "TransferDst") THEN State(y, "not to be written")
           ELSE State(With(y, c.dst, Laid(x[c.dst], x[c.dst].layout, x[t].shows)), "none")
<1> PICK s : s = State(x, "none")
  OBVIOUS
<1>1. s.texture = x /\ s.texture[c.tex] = x[t]
  BY DEF State
<1>2. x[t] \in Textures /\ x[t].shows \in Prints \union {0} /\ x[t].layout \in AllLayouts
  <2>1. x[t] \in Textures
    OBVIOUS
  <2> QED BY <2>1 DEF Textures
<1> PICK v : v = Laid(x[t], x[t].layout, x[t].shows)
  OBVIOUS
<1>3. v \in Textures /\ [x[t] EXCEPT !.pending = TRUE] = v
  BY <1>2 DEF Textures, Laid
<1>4. [s EXCEPT !.texture[c.tex].pending = TRUE] = State(y, "none")
  <2>1. [s EXCEPT !.texture[c.tex].pending = TRUE] = Put(s, t, v)
    BY <1>1, <1>3, Zenon DEF Put
  <2>2. Put(s, t, v) = State(With(x, t, v), "none")
    BY StateSet
  <2> QED BY <2>1, <2>2
<1>5. y \in Seq(Textures) /\ DOMAIN y = DOMAIN x /\ \A u \in DOMAIN x : u # t => y[u] = x[u]
  BY <1>3, WithIs
<1>6. CopyOut(s, c) =
        IF ~CanHold(x[t], "TransferSrc") THEN Faulty(s, "not to be read")
        ELSE IF c.dst = 0 THEN State(y, "none")
        ELSE CopyIn(State(y, "none"), [tex |-> c.dst, print |-> x[t].shows])
  BY <1>1, <1>4, Zenon DEF CopyOut
<1>7. CASE c.dst = 0
  BY <1>6, <1>7, FaultyIs, Zenon
<1>8. CASE c.dst # 0
  <2> PICK d \in DOMAIN y : d = c.dst
    BY <1>5, <1>8
  <2> PICK e : e = [tex |-> d, print |-> x[t].shows]
    OBVIOUS
  <2>1. e.tex = d /\ e.print = x[t].shows /\ y[d] = x[d]
    BY <1>5
  <2>2. CopyIn(State(y, "none"), e) =
           IF ~CanHold(y[e.tex], "TransferDst") THEN State(y, "not to be written")
           ELSE State(With(y, e.tex, Laid(y[e.tex], y[e.tex].layout, e.print)), "none")
    <3>1. y \in Seq(Textures) /\ e.tex \in DOMAIN y /\ e.print \in Prints \union {0}
      BY <1>2, <1>5, <2>1
    <3> QED BY <3>1, CopyInIs
  <2>3. CopyOut(s, c) =
        IF ~CanHold(x[t], "TransferSrc") THEN Faulty(s, "not to be read")
        ELSE CopyIn(State(y, "none"), e)
    BY <1>6, <1>8, Zenon
  <2> QED BY <1>8, <2>1, <2>2, <2>3, FaultyIs, ZenonT(30)
<1> QED BY <1>7, <1>8

LEMMA ExecuteIs ==
  ASSUME NEW x \in Seq(Textures), NEW c, WellFormed(c, Len(x))
  PROVE  /\ Permitted(x, c) => Execute(State(x, "none"), c) = State(After(x, c), "none")
         /\ ~Permitted(x, c) => Execute(State(x, "none"), c).fault # "none"
<1> PICK t \in DOMAIN x : t = c.tex
  BY DEF WellFormed
<1> PICK s : s = State(x, "none")
  OBVIOUS
<1>1. s.texture = x /\ s.fault = "none" /\ c \in Commands /\ c.dst \in 0 .. Len(x) /\ c.dst # t
  BY DEF State, WellFormed
<1>2. c.op \in {"barrier", "in", "out"} /\ c.print \in Prints \union {0}
  BY <1>1 DEF Commands
<1>3. s.texture[c.tex] = x[t]
  BY <1>1
<1>4. \A y, f : f # "none" => State(y, f).fault # "none"
  BY DEF State
<1>5. CASE ~x[t].live
  <2>1. ~Permitted(x, c)
    BY <1>5 DEF Permitted
  <2>2. Execute(s, c) = Faulty(s, "image destroyed")
    BY <1>1, <1>3, <1>5 DEF Execute
  <2>3. State(x, "image destroyed").fault # "none"
    BY <1>4
  <2> QED BY <2>1, <2>2, <2>3, FaultyIs
<1>6. CASE x[t].live /\ c.op = "barrier"
  <2>1. Execute(s, c) = Barrier(s, c) /\ c.dst = 0
    <3>1. x[t].live /\ c.op = "barrier"
      BY <1>6
    <3>2. Execute(s, c) = Barrier(s, c)
      BY <1>1, <1>3, <3>1 DEF Execute
    <3>3. c.dst = 0
      BY <3>1 DEF WellFormed
    <3> QED BY <3>2, <3>3
  <2>2. After(x, c) = With(x, t, Laid(x[t], c.to, Left(x, c)))
    BY <1>6, <2>1 DEF After, TexAfter
  <2>3. Barrier(s, c) =
           IF c.to = "Undefined" THEN State(x, "no layout")
           ELSE IF x[t].depth THEN State(x, "depth image")
           ELSE IF ~x[t].bound THEN State(x, "no memory")
           ELSE IF c.from # "Undefined" /\ c.from # x[t].layout THEN State(x, "wrong layout")
           ELSE State(After(x, c), "none")
    <3>1. Barrier(s, c) =
             IF c.to = "Undefined" THEN State(x, "no layout")
             ELSE IF x[t].depth THEN State(x, "depth image")
             ELSE IF ~x[t].bound THEN State(x, "no memory")
             ELSE IF c.from # "Undefined" /\ c.from # x[t].layout THEN State(x, "wrong layout")
             ELSE State(With(x, t, Laid(x[t], c.to, Left(x, c))), "none")
      BY <1>1, BarrierIs
    <3> QED BY <2>2, <3>1, Zenon
  <2>4. Permitted(x, c) <=> /\ c.to # "Undefined" /\ ~x[t].depth /\ x[t].bound
                            /\ c.from = "Undefined" \/ c.from = x[t].layout
    BY <1>6 DEF Permitted
  <2>5. /\ State(x, "no layout").fault # "none" /\ State(x, "depth image").fault # "none"
        /\ State(x, "wrong layout").fault # "none" /\ State(x, "no memory").fault # "none"
    BY <1>4
  <2> QED BY <2>1, <2>3, <2>4, <2>5, Zenon
<1>7. CASE x[t].live /\ c.op = "in"
  <2>1. Execute(s, c) = CopyIn(s, c) /\ c.dst = 0
    <3>1. x[t].live /\ c.op = "in"
      BY <1>7
    <3>2. Execute(s, c) = CopyIn(s, c)
      BY <1>1, <1>3, <3>1 DEF Execute
    <3>3. c.dst = 0
      BY <3>1 DEF WellFormed
    <3> QED BY <3>2, <3>3
  <2>2. After(x, c) = With(x, t, Laid(x[t], x[t].layout, c.print))
    BY <1>7, <2>1 DEF After, TexAfter
  <2>3. CopyIn(s, c) = IF ~CanHold(x[t], "TransferDst") THEN State(x, "not to be written")
                       ELSE State(After(x, c), "none")
    BY <1>2, <2>2, CopyInIs
  <2>4. Permitted(x, c) <=> CanHold(x[t], "TransferDst")
    BY <1>7 DEF Permitted
  <2>5. State(x, "not to be written").fault # "none"
    BY <1>4
  <2> QED BY <2>1, <2>3, <2>4, <2>5, Zenon
<1>8. CASE x[t].live /\ c.op = "out"
  <2>1. Execute(s, c) = CopyOut(s, c)
    <3>1. x[t].live /\ c.op = "out"
      BY <1>8
    <3> QED BY <1>1, <1>3, <3>1 DEF Execute
  <2> PICK y : y = With(x, t, Laid(x[t], x[t].layout, x[t].shows))
    OBVIOUS
  <2>2. After(x, c) = IF c.dst = 0 THEN y ELSE With(y, c.dst, Laid(x[c.dst], x[c.dst].layout, x[t].shows))
    BY <1>8 DEF After, TexAfter, DstAfter
  <2>3. CopyOut(s, c) =
           IF ~CanHold(x[t], "TransferSrc") THEN State(x, "not to be read")
           ELSE IF c.dst = 0 THEN State(y, "none")
           ELSE IF ~CanHold(x[c.dst], "TransferDst") THEN State(y, "not to be written")
           ELSE State(With(y, c.dst, Laid(x[c.dst], x[c.dst].layout, x[t].shows)), "none")
    BY <1>1, CopyOutIs
  <2>4. Permitted(x, c) <=> /\ CanHold(x[t], "TransferSrc")
                            /\ c.dst # 0 => CanHold(x[c.dst], "TransferDst")
    BY <1>8 DEF Permitted
  <2>5. CASE Permitted(x, c)
    BY <2>1, <2>2, <2>3, <2>4, <2>5
  <2>6. CASE ~Permitted(x, c)
    <3>1. State(x, "not to be read").fault # "none" /\ State(y, "not to be written").fault # "none"
      BY <1>4
    <3> QED BY <2>1, <2>3, <2>4, <2>6, <3>1, Zenon
  <2> QED BY <2>5, <2>6
<1> QED BY <1>2, <1>5, <1>6, <1>7, <1>8


-----------------------------------------------------------------------------
(* Commands executed on images that differ in what they do not touch. *)

(* What no command changes of an image, and what is left of it when the    *)
(* device is idle.                                                         *)
Same(t, u)  == u.live = t.live /\ u.bound = t.bound /\ u.swapchain = t.swapchain /\ u.depth = t.depth
Alike(t, u) == Same(t, u) /\ u.layout = t.layout /\ u.shows = t.shows

LEMMA LaidSame ==
  ASSUME NEW t \in Textures, NEW layout \in AllLayouts, NEW shows \in Prints \union {0}
  PROVE  Laid(t, layout, shows) \in Textures /\ Same(t, Laid(t, layout, shows))
BY LaidIs DEF Same

LEMMA FieldsOf ==
  ASSUME NEW c \in Commands
  PROVE  c.op \in {"barrier", "in", "out"} /\ c.print \in Prints \union {0} /\ c.tex \in Nat /\ c.dst \in Nat
BY DEF Commands

LEMMA AfterIs ==
  ASSUME NEW x \in Seq(Textures), NEW c, WellFormed(c, Len(x))
  PROVE  /\ After(x, c) \in Seq(Textures) /\ Len(After(x, c)) = Len(x)
         /\ TexAfter(x, c) \in Textures /\ Same(x[c.tex], TexAfter(x, c))
         /\ After(x, c)[c.tex] = TexAfter(x, c)
         /\ c.dst # 0 => /\ DstAfter(x, c) \in Textures /\ Same(x[c.dst], DstAfter(x, c))
                         /\ After(x, c)[c.dst] = DstAfter(x, c)
         /\ \A u \in DOMAIN x : u # c.tex /\ u # c.dst => After(x, c)[u] = x[u]
<1>1. /\ c.tex \in DOMAIN x /\ c.print \in Prints \union {0} /\ c.op \in {"barrier", "in", "out"}
      /\ c.op = "barrier" => c.to \in AllLayouts
  BY FieldsOf DEF WellFormed
<1>2. x[c.tex] \in Textures /\ x[c.tex].layout \in AllLayouts /\ x[c.tex].shows \in Prints \union {0}
      /\ Left(x, c) \in Prints \union {0}
  <2>1. x[c.tex] \in Textures
    BY <1>1
  <2> QED BY <2>1 DEF Textures, Left
<1>3. TexAfter(x, c) \in Textures /\ Same(x[c.tex], TexAfter(x, c))
  <2>1. CASE c.op = "barrier"
    BY <1>1, <1>2, <2>1, LaidSame DEF TexAfter
  <2>2. CASE c.op = "in"
    BY <1>1, <1>2, <2>2, LaidSame DEF TexAfter
  <2>3. CASE c.op = "out"
    BY <1>1, <1>2, <2>3, LaidSame DEF TexAfter
  <2> QED BY <1>1, <2>1, <2>2, <2>3
<1>7. PICK y : y = With(x, c.tex, TexAfter(x, c))
  OBVIOUS
<1>4. /\ y \in Seq(Textures) /\ Len(y) = Len(x) /\ DOMAIN y = DOMAIN x /\ y[c.tex] = TexAfter(x, c)
      /\ \A u \in DOMAIN x : u # c.tex => y[u] = x[u]
  <2>1. PICK t \in DOMAIN x : t = c.tex
    BY <1>1
  <2>2. PICK v \in Textures : v = TexAfter(x, c)
    BY <1>3
  <2>3. y = With(x, t, v)
    BY <1>7, <2>1, <2>2
  <2>4. /\ With(x, t, v) \in Seq(Textures) /\ Len(With(x, t, v)) = Len(x)
        /\ DOMAIN With(x, t, v) = DOMAIN x /\ With(x, t, v)[t] = v
        /\ \A u \in DOMAIN x : u # t => With(x, t, v)[u] = x[u]
    BY WithIs
  <2> QED BY <2>1, <2>2, <2>3, <2>4, Zenon
<1>5. CASE c.dst = 0
  <2>1. After(x, c) = y
    BY <1>5, <1>7 DEF After
  <2> QED BY <1>3, <1>4, <1>5, <2>1
<1>6. CASE c.dst # 0
  <2>1. c.dst \in DOMAIN x /\ c.dst # c.tex
    BY <1>6 DEF WellFormed
  <2>2. x[c.dst] \in Textures /\ x[c.dst].layout \in AllLayouts
    <3>1. x[c.dst] \in Textures
      BY <2>1
    <3> QED BY <3>1 DEF Textures
  <2>3. DstAfter(x, c) \in Textures /\ Same(x[c.dst], DstAfter(x, c))
    BY <1>2, <2>2, LaidSame DEF DstAfter
  <2>6. PICK z : z = With(y, c.dst, DstAfter(x, c))
    OBVIOUS
  <2>4. After(x, c) = z
    BY <1>6, <1>7, <2>6 DEF After
  <2>5. /\ z \in Seq(Textures) /\ Len(z) = Len(y) /\ z[c.dst] = DstAfter(x, c)
        /\ \A u \in DOMAIN y : u # c.dst => z[u] = y[u]
    <3>1. c.dst \in DOMAIN y
      BY <1>4, <2>1
    <3> QED BY <1>4, <2>3, <2>6, <3>1, WithIs, ZenonT(30)
  <2> QED BY <1>1, <1>3, <1>4, <2>1, <2>3, <2>4, <2>5
<1> QED BY <1>5, <1>6

LEMMA AfterSame ==
  ASSUME NEW x \in Seq(Textures), NEW c, WellFormed(c, Len(x)), NEW u \in DOMAIN x
  PROVE  Same(x[u], After(x, c)[u])
<1>1. Same(x[u], x[u])
  BY DEF Same
<1>2. CASE u = c.tex
  BY <1>2, AfterIs
<1>3. CASE u = c.dst
  <2>1. c.dst # 0
    BY <1>3
  <2> QED BY <1>3, <2>1, AfterIs
<1>4. CASE u # c.tex /\ u # c.dst
  BY <1>1, <1>4, AfterIs
<1> QED BY <1>2, <1>3, <1>4

LEMMA AfterAlike ==
  ASSUME NEW x \in Seq(Textures), NEW z \in Seq(Textures), NEW c,
         WellFormed(c, Len(x)), WellFormed(c, Len(z)), Permitted(x, c),
         Alike(x[c.tex], z[c.tex]), c.dst # 0 => Alike(x[c.dst], z[c.dst])
  PROVE  /\ Permitted(z, c) /\ Alike(TexAfter(x, c), TexAfter(z, c))
         /\ c.dst # 0 => Alike(DstAfter(x, c), DstAfter(z, c))
<1>1. /\ c.tex \in DOMAIN x /\ c.tex \in DOMAIN z /\ c.op \in {"barrier", "in", "out"}
      /\ c.print \in Prints \union {0} /\ (c.op = "barrier" => c.to \in AllLayouts)
  BY FieldsOf DEF WellFormed
<1>2. x[c.tex] \in Textures /\ z[c.tex] \in Textures
  BY <1>1
<1>3. Permitted(z, c)
  BY DEF Permitted, Alike, Same, CanHold
<1>4. Alike(TexAfter(x, c), TexAfter(z, c))
  <2>1. /\ z[c.tex].layout = x[c.tex].layout /\ z[c.tex].shows = x[c.tex].shows /\ Left(z, c) = Left(x, c)
        /\ x[c.tex].layout \in AllLayouts /\ x[c.tex].shows \in Prints \union {0}
        /\ Left(x, c) \in Prints \union {0} /\ Same(x[c.tex], z[c.tex])
    BY <1>2 DEF Alike, Left, Textures
  <2>2. ASSUME NEW l \in AllLayouts, NEW p \in Prints \union {0}
        PROVE  Alike(Laid(x[c.tex], l, p), Laid(z[c.tex], l, p))
    <3> PICK a : a = Laid(x[c.tex], l, p)
      OBVIOUS
    <3> PICK b : b = Laid(z[c.tex], l, p)
      OBVIOUS
    <3>1. Same(x[c.tex], a) /\ a.layout = l /\ a.shows = p
      BY <1>2, LaidIs DEF Same
    <3>2. Same(z[c.tex], b) /\ b.layout = l /\ b.shows = p
      BY <1>2, LaidIs DEF Same
    <3>3. Alike(a, b)
      BY <2>1, <3>1, <3>2 DEF Alike, Same
    <3> QED BY <3>3
  <2>3. CASE c.op = "barrier"
    <3>1. Alike(Laid(x[c.tex], c.to, Left(x, c)), Laid(z[c.tex], c.to, Left(x, c)))
      BY <1>1, <2>1, <2>2, <2>3
    <3> QED BY <2>1, <2>3, <3>1 DEF TexAfter
  <2>4. CASE c.op = "in"
    <3>1. Alike(Laid(x[c.tex], x[c.tex].layout, c.print), Laid(z[c.tex], x[c.tex].layout, c.print))
      BY <1>1, <2>1, <2>2
    <3> QED BY <2>1, <2>4, <3>1 DEF TexAfter
  <2>5. CASE c.op = "out"
    <3>1. Alike(Laid(x[c.tex], x[c.tex].layout, x[c.tex].shows), Laid(z[c.tex], x[c.tex].layout, x[c.tex].shows))
      BY <2>1, <2>2
    <3> QED BY <2>1, <2>5, <3>1 DEF TexAfter
  <2> QED BY <1>1, <2>3, <2>4, <2>5
<1>5. ASSUME c.dst # 0
      PROVE  Alike(DstAfter(x, c), DstAfter(z, c))
  <2>1. c.dst \in DOMAIN x /\ c.dst \in DOMAIN z
    BY <1>5 DEF WellFormed
  <2>2. x[c.dst] \in Textures /\ z[c.dst] \in Textures
    BY <2>1
  <2>3. /\ z[c.dst].layout = x[c.dst].layout /\ x[c.dst].layout \in AllLayouts
        /\ z[c.tex].shows = x[c.tex].shows /\ x[c.tex].shows \in Prints \union {0} /\ Same(x[c.dst], z[c.dst])
    BY <1>2, <1>5, <2>2 DEF Alike, Textures
  <2> QED BY <2>2, <2>3, LaidIs DEF DstAfter, Alike, Same
<1> QED BY <1>3, <1>4, <1>5

(* What commands on some images make of two states in which those images   *)
(* are alike.                                                              *)
Agree(x, z, a, b, T) ==
  /\ a \in Seq(Textures) /\ Len(a) = Len(x)
  /\ b \in Seq(Textures) /\ Len(b) = Len(z)
  /\ \A u \in DOMAIN x : Same(x[u], a[u]) /\ (u \notin T => a[u] = x[u])
  /\ \A u \in DOMAIN z : Same(z[u], b[u]) /\ (u \notin T => b[u] = z[u])
  /\ \A t \in T : Alike(a[t], b[t])

LEMMA AgreeAfter ==
  ASSUME NEW x \in Seq(Textures), NEW z \in Seq(Textures), NEW T, T \subseteq DOMAIN x, T \subseteq DOMAIN z,
         NEW a, NEW b, Agree(x, z, a, b, T),
         NEW c, WellFormed(c, Len(x)), WellFormed(c, Len(z)), Permitted(a, c),
         c.tex \in T, c.dst # 0 => c.dst \in T
  PROVE  Permitted(b, c) /\ Agree(x, z, After(a, c), After(b, c), T)
<1>1. /\ a \in Seq(Textures) /\ Len(a) = Len(x) /\ DOMAIN a = DOMAIN x
      /\ b \in Seq(Textures) /\ Len(b) = Len(z) /\ DOMAIN b = DOMAIN z
      /\ \A t \in T : Alike(a[t], b[t])
  BY DEF Agree
<1>2. WellFormed(c, Len(a)) /\ WellFormed(c, Len(b))
  BY <1>1
<1>3. Alike(a[c.tex], b[c.tex]) /\ (c.dst # 0 => Alike(a[c.dst], b[c.dst]))
  BY <1>1
<1>4. /\ Permitted(b, c) /\ Alike(TexAfter(a, c), TexAfter(b, c))
      /\ c.dst # 0 => Alike(DstAfter(a, c), DstAfter(b, c))
  BY <1>1, <1>2, <1>3, AfterAlike
<1>5. PICK d : d = After(a, c)
  OBVIOUS
<1>6. PICK e : e = After(b, c)
  OBVIOUS
<1>7. /\ d \in Seq(Textures) /\ Len(d) = Len(a) /\ d[c.tex] = TexAfter(a, c)
      /\ c.dst # 0 => d[c.dst] = DstAfter(a, c)
      /\ \A u \in DOMAIN a : u # c.tex /\ u # c.dst => d[u] = a[u]
  BY <1>1, <1>2, <1>5, AfterIs
<1>8. /\ e \in Seq(Textures) /\ Len(e) = Len(b) /\ e[c.tex] = TexAfter(b, c)
      /\ c.dst # 0 => e[c.dst] = DstAfter(b, c)
      /\ \A u \in DOMAIN b : u # c.tex /\ u # c.dst => e[u] = b[u]
  BY <1>1, <1>2, <1>6, AfterIs
<1>9. ASSUME NEW u \in DOMAIN x
      PROVE  Same(x[u], d[u]) /\ (u \notin T => d[u] = x[u])
  <2>1. Same(x[u], a[u]) /\ (u \notin T => a[u] = x[u]) /\ u \in DOMAIN a
    BY <1>1 DEF Agree
  <2>2. Same(a[u], d[u])
    BY <1>1, <1>2, <1>5, <2>1, AfterSame
  <2>3. Same(x[u], d[u])
    BY <2>1, <2>2 DEF Same
  <2>4. ASSUME u \notin T
        PROVE  d[u] = x[u]
    <3>1. u # c.tex /\ (u # c.dst \/ c.dst = 0)
      BY <2>4
    <3>2. u # 0
      BY <1>1
    <3> QED BY <1>7, <2>1, <2>4, <3>1, <3>2
  <2> QED BY <2>3, <2>4
<1>10. ASSUME NEW u \in DOMAIN z
       PROVE  Same(z[u], e[u]) /\ (u \notin T => e[u] = z[u])
  <2>1. Same(z[u], b[u]) /\ (u \notin T => b[u] = z[u]) /\ u \in DOMAIN b
    BY <1>1 DEF Agree
  <2>2. Same(b[u], e[u])
    BY <1>1, <1>2, <1>6, <2>1, AfterSame
  <2>3. Same(z[u], e[u])
    BY <2>1, <2>2 DEF Same
  <2>4. ASSUME u \notin T
        PROVE  e[u] = z[u]
    <3>1. u # c.tex /\ (u # c.dst \/ c.dst = 0)
      BY <2>4
    <3>2. u # 0
      BY <1>1
    <3> QED BY <1>8, <2>1, <2>4, <3>1, <3>2
  <2> QED BY <2>3, <2>4
<1>11. ASSUME NEW t \in T
       PROVE  Alike(d[t], e[t])
  <2>1. t \in DOMAIN a /\ t \in DOMAIN b /\ t # 0
    BY <1>1
  <2>2. CASE t = c.tex
    BY <1>4, <1>7, <1>8, <2>2
  <2>3. CASE t = c.dst
    BY <1>4, <1>7, <1>8, <2>1, <2>3
  <2>4. CASE t # c.tex /\ t # c.dst
    BY <1>1, <1>7, <1>8, <2>1, <2>4
  <2> QED BY <2>2, <2>3, <2>4
<1>12. Agree(x, z, d, e, T)
  BY <1>1, <1>7, <1>8, <1>9, <1>10, <1>11 DEF Agree
<1> QED BY <1>4, <1>5, <1>6, <1>12

LEMMA SubmittedAlike ==
  ASSUME NEW x \in Seq(Textures), NEW z \in Seq(Textures), NEW cs \in Seq(Commands),
         NEW T, T \subseteq DOMAIN x, T \subseteq DOMAIN z,
         \A k \in DOMAIN cs : /\ WellFormed(cs[k], Len(x)) /\ WellFormed(cs[k], Len(z))
                              /\ cs[k].tex \in T /\ (cs[k].dst # 0 => cs[k].dst \in T),
         \A t \in T : Alike(x[t], z[t]),
         Submitted(State(x, "none"), cs).fault = "none"
  PROVE  \E a, b : /\ Submitted(State(x, "none"), cs) = State(a, "none")
                   /\ Submitted(State(z, "none"), cs) = State(b, "none")
                   /\ Agree(x, z, a, b, T)
<1>1. PICK n \in Nat : n = Len(cs)
  OBVIOUS
<1>2. PICK g : DoneFrom(g, State(x, "none"), cs, n) /\ Submitted(State(x, "none"), cs) = g[n]
  BY <1>1, SubmittedIs
<1>3. PICK h : DoneFrom(h, State(z, "none"), cs, n) /\ Submitted(State(z, "none"), cs) = h[n]
  BY <1>1, SubmittedIs
<1>4. g[0] = State(x, "none") /\ \A k \in 1 .. n : g[k] = Execute(g[k - 1], cs[k])
  <2>1. \A k \in 0 .. n : g[k] = IF k = 0 THEN State(x, "none") ELSE Execute(g[k - 1], cs[k])
    BY <1>2 DEF DoneFrom
  <2> QED BY <2>1
<1>5. h[0] = State(z, "none") /\ \A k \in 1 .. n : h[k] = Execute(h[k - 1], cs[k])
  <2>1. \A k \in 0 .. n : h[k] = IF k = 0 THEN State(z, "none") ELSE Execute(h[k - 1], cs[k])
    BY <1>3 DEF DoneFrom
  <2> QED BY <2>1
<1>6. Agree(x, z, x, z, T)
  BY DEF Agree, Same
<1> DEFINE Done(k) == \E a, b : g[k] = State(a, "none") /\ h[k] = State(b, "none") /\ Agree(x, z, a, b, T)
           D == {k \in 0 .. n : g[k].fault = "none" /\ ~Done(k)}
<1>7. D = {}
  <2> SUFFICES ASSUME D # {} PROVE FALSE
    OBVIOUS
  <2>1. PICK m \in D : \A j \in D : m <= j
    <3>1. D \in SUBSET Nat
      OBVIOUS
    <3> QED BY <3>1, LeastOf
  <2>2. CASE m = 0
    <3>1. Done(0)
      BY <1>4, <1>5, <1>6
    <3> QED BY <2>1, <2>2, <3>1
  <2>3. CASE m > 0
    <3>1. m - 1 \in 0 .. n /\ m - 1 \notin D /\ m \in 1 .. n
      BY <2>1, <2>3
    <3>2. g[m] = Execute(g[m - 1], cs[m]) /\ h[m] = Execute(h[m - 1], cs[m])
      BY <1>4, <1>5, <3>1
    <3>3. g[m].fault = "none" /\ ~Done(m)
      BY <2>1
    <3>4. g[m - 1].fault = "none"
      <4> SUFFICES ASSUME g[m - 1].fault # "none" PROVE FALSE
        OBVIOUS
      <4>1. Execute(g[m - 1], cs[m]) = g[m - 1]
        BY DEF Execute
      <4> QED BY <3>2, <3>3, <4>1
    <3>5. Done(m - 1)
      BY <3>1, <3>4
    <3>6. PICK a, b : g[m - 1] = State(a, "none") /\ h[m - 1] = State(b, "none") /\ Agree(x, z, a, b, T)
      BY <3>5
    <3>7. PICK c : c = cs[m]
      OBVIOUS
    <3>8. /\ WellFormed(c, Len(x)) /\ WellFormed(c, Len(z)) /\ c.tex \in T
          /\ c.dst # 0 => c.dst \in T
      BY <1>1, <3>1, <3>7
    <3>9. a \in Seq(Textures) /\ Len(a) = Len(x) /\ b \in Seq(Textures) /\ Len(b) = Len(z)
      BY <3>6 DEF Agree
    <3>10. WellFormed(c, Len(a)) /\ WellFormed(c, Len(b))
      BY <3>8, <3>9
    <3>11. g[m] = Execute(State(a, "none"), c) /\ h[m] = Execute(State(b, "none"), c)
      BY <3>2, <3>6, <3>7
    <3>12. Permitted(a, c)
      BY <3>3, <3>9, <3>10, <3>11, ExecuteIs
    <3>13. Permitted(b, c) /\ Agree(x, z, After(a, c), After(b, c), T)
      BY <3>6, <3>8, <3>12, AgreeAfter
    <3>14. g[m] = State(After(a, c), "none") /\ h[m] = State(After(b, c), "none")
      BY <3>9, <3>10, <3>11, <3>12, <3>13, ExecuteIs
    <3>15. Done(m)
      BY <3>13, <3>14
    <3> QED BY <3>3, <3>15
  <2> QED BY <2>1, <2>2, <2>3
<1>8. Done(n)
  <2>1. n \in 0 .. n /\ g[n].fault = "none"
    BY <1>2
  <2> QED BY <1>7, <2>1
<1> QED BY <1>2, <1>3, <1>8

-----------------------------------------------------------------------------
(* Image::transition, copy and revertLayout. *)

Triple(im, x, f) == [image |-> im, texture |-> x, fault |-> f]

LEMMA RunIs ==
  ASSUME NEW im, NEW x \in Seq(Textures), NEW c, WellFormed(c, Len(x)), Permitted(x, c)
  PROVE  Run(Triple(im, x, "none"), c) = Triple(im, After(x, c), "none")
<1>1. PICK s : s = Triple(im, x, "none")
  OBVIOUS
<1>2. PICK y : y = After(x, c)
  OBVIOUS
<1>3. [texture |-> s.texture, fault |-> s.fault] = State(x, "none")
  BY <1>1 DEF Triple, State
<1>4. Submitted(State(x, "none"), <<c>>) = State(y, "none")
  <2>1. c \in Commands
    BY DEF WellFormed
  <2>2. Submitted(State(x, "none"), <<c>>) = Execute(State(x, "none"), c)
    BY <2>1, SubmittedOne
  <2> QED BY <1>2, <2>2, ExecuteIs
<1>5. State(y, "none").texture = y /\ State(y, "none").fault = "none"
  BY DEF State
<1>6. Run(s, c) = [s EXCEPT !.texture = y, !.fault = "none"]
  BY <1>3, <1>4, <1>5, Zenon DEF Run
<1>7. [s EXCEPT !.texture = y, !.fault = "none"] = Triple(im, y, "none")
  <2>1. PICK r : r = Triple(im, y, "none")
    OBVIOUS
  <2>2. [s EXCEPT !.texture = y] = r
    BY <1>1, <2>1 DEF Triple
  <2>3. [r EXCEPT !.fault = "none"] = r
    BY <2>1 DEF Triple
  <2>4. [s EXCEPT !.texture = y, !.fault = "none"] = [[s EXCEPT !.texture = y] EXCEPT !.fault = "none"]
    OBVIOUS
  <2> QED BY <2>1, <2>2, <2>3, <2>4, Zenon
<1> QED BY <1>1, <1>2, <1>6, <1>7

(* An object that tracks another layout. *)
Tracks(i, layout) == [i EXCEPT !.layout = layout, !.old = i.layout]

Keeps(i, j) ==
  /\ j.tex = i.tex /\ j.mem = i.mem /\ j.view = i.view /\ j.depth = i.depth
  /\ j.preallocated = i.preallocated /\ j.moved = i.moved

LEMMA TracksIs ==
  ASSUME NEW i \in Data, NEW layout \in AllLayouts
  PROVE  LET j == Tracks(i, layout) IN
         j \in Data /\ Keeps(i, j) /\ j.layout = layout /\ j.old = i.layout
BY DEF Data, Tracks, Keeps

(* An object whose image is there, and in the layout that it tracks.       *)
Ready(im, x, o) ==
  LET t == im[o].tex
  IN  /\ t \in DOMAIN x /\ x[t].live /\ ~x[t].depth /\ x[t].bound
      /\ x[t].layout = im[o].layout
      /\ x[t].layout = "Undefined" => x[t].shows = 0

LEMMA TransitionedIs ==
  ASSUME NEW im \in [Objects -> Data], NEW x \in Seq(Textures), NEW o \in Objects, Ready(im, x, o),
         NEW layout \in AllLayouts, layout # "Undefined", NEW t, t = im[o].tex
  PROVE  Transitioned(Triple(im, x, "none"), o, layout)
           = Triple(With(im, o, Tracks(im[o], layout)), With(x, t, Laid(x[t], layout, x[t].shows)), "none")
<1>1. PICK i \in Data : i = im[o]
  OBVIOUS
<1>2. /\ i.tex = t /\ t \in DOMAIN x /\ x[t].live /\ ~x[t].depth /\ x[t].bound /\ x[t].layout = i.layout
      /\ x[t].layout = "Undefined" => x[t].shows = 0
  BY <1>1 DEF Ready
<1>3. PICK c : c = BarrierOf(i, i.layout, layout)
  OBVIOUS
<1>4. /\ c.op = "barrier" /\ c.tex = t /\ c.from = i.layout /\ c.to = layout /\ c.dst = 0
      /\ c \in Commands
  <2>1. i.layout \in AllLayouts /\ i.tex \in Nat
    BY DEF Data
  <2> QED BY <1>2, <1>3, <2>1 DEF BarrierOf, Command, Commands
<1>5. WellFormed(c, Len(x))
  BY <1>2, <1>4 DEF WellFormed
<1>6. Permitted(x, c)
  BY <1>2, <1>4 DEF Permitted
<1>7. After(x, c) = With(x, t, Laid(x[t], layout, x[t].shows))
  <2>1. Left(x, c) = x[t].shows
    BY <1>2, <1>4 DEF Left
  <2> QED BY <1>4, <2>1 DEF After, TexAfter
<1>8. PICK y : y = With(x, t, Laid(x[t], layout, x[t].shows))
  OBVIOUS
<1>9. PICK s : s = Triple(im, x, "none")
  OBVIOUS
<1>10. s.image[o] = i
  BY <1>1, <1>9 DEF Triple
<1>11. PICK r : r = Triple(im, y, "none")
  OBVIOUS
<1>12. Run(s, c) = r
  BY <1>5, <1>6, <1>7, <1>8, <1>9, <1>11, RunIs
<1>13. Transitioned(s, o, layout) = [r EXCEPT !.image[o].layout = layout, !.image[o].old = i.layout]
  BY <1>3, <1>10, <1>12, Zenon DEF Transitioned
<1>14. PICK j : j = [i EXCEPT !.layout = layout]
  OBVIOUS
<1>15. PICK k : k = Tracks(i, layout)
  OBVIOUS
<1>16. j \in Data /\ [j EXCEPT !.old = i.layout] = k
  BY <1>14, <1>15 DEF Data, Tracks
<1>17. PICK r1 : r1 = Triple(With(im, o, j), y, "none")
  OBVIOUS
<1>18. [r EXCEPT !.image[o].layout = layout] = r1
  <2>1. r.image = im /\ r.image[o] = i
    BY <1>1, <1>11 DEF Triple
  <2>2. [r EXCEPT !.image[o].layout = layout] = [r EXCEPT !.image = With(im, o, j)]
    BY <1>14, <2>1, Zenon DEF With
  <2> PICK im1 : im1 = With(im, o, j)
    OBVIOUS
  <2>3. [r EXCEPT !.image = im1] = Triple(im1, y, "none")
    BY <1>11 DEF Triple
  <2> QED BY <1>17, <2>2, <2>3
<1>19. [r1 EXCEPT !.image[o].old = i.layout] = Triple(With(im, o, k), y, "none")
  <2>1. r1.image = With(im, o, j)
    BY <1>17 DEF Triple
  <2>2. With(im, o, j)[o] = j /\ With(With(im, o, j), o, k) = With(im, o, k)
    <3>1. [im EXCEPT ![o] = j][o] = j
      OBVIOUS
    <3>2. [[im EXCEPT ![o] = j] EXCEPT ![o] = k] = [im EXCEPT ![o] = k]
      OBVIOUS
    <3> QED BY <3>1, <3>2, Zenon DEF With
  <2>3. [r1 EXCEPT !.image[o].old = i.layout] = [r1 EXCEPT !.image = With(With(im, o, j), o, k)]
    BY <1>16, <2>1, <2>2, Zenon DEF With
  <2> PICK im2 : im2 = With(im, o, k)
    OBVIOUS
  <2> PICK im1 : im1 = With(im, o, j)
    OBVIOUS
  <2>4. [r1 EXCEPT !.image = im2] = Triple(im2, y, "none")
    <3>1. r1 = Triple(im1, y, "none")
      BY <1>17
    <3> QED BY <3>1 DEF Triple
  <2> QED BY <2>2, <2>3, <2>4
<1>20. Transitioned(s, o, layout) = [r1 EXCEPT !.image[o].old = i.layout]
  BY <1>13, <1>18, Zenon
<1> QED BY <1>1, <1>8, <1>9, <1>15, <1>19, <1>20

(* What the steps of an operation on the objects of O leave as it was.     *)
Steps(im, x, im2, x2, O) ==
  /\ im2 \in [Objects -> Data] /\ x2 \in Seq(Textures) /\ Len(x2) = Len(x)
  /\ \A q \in Objects : Keeps(im[q], im2[q]) /\ (q \notin O => im2[q] = im[q])
  /\ \A t \in DOMAIN x : Same(x[t], x2[t]) /\ ((\A q \in O : t # im[q].tex) => x2[t] = x[t])
  /\ \A q \in O : Ready(im2, x2, q)

(* Objects with images of their own. *)
Apart(im, x, O) ==
  /\ O \subseteq Objects
  /\ \A q \in O : Ready(im, x, q)
  /\ \A o, q \in O : im[o].tex = im[q].tex => o = q

LEMMA StepsApart ==
  ASSUME NEW im, NEW x, NEW im2, NEW x2, NEW O, Apart(im, x, O), Steps(im, x, im2, x2, O)
  PROVE  Apart(im2, x2, O)
BY DEF Apart, Steps, Keeps

LEMMA StepsMore ==
  ASSUME NEW im \in [Objects -> Data], NEW x \in Seq(Textures), NEW O \in SUBSET Objects,
         NEW im2, NEW x2, NEW im3, NEW x3,
         Steps(im, x, im2, x2, O), Steps(im2, x2, im3, x3, O)
  PROVE  Steps(im, x, im3, x3, O)
<1>1. im3 \in [Objects -> Data] /\ x3 \in Seq(Textures) /\ Len(x3) = Len(x)
      /\ x2 \in Seq(Textures) /\ Len(x2) = Len(x)
  BY DEF Steps
<1>2. ASSUME NEW q \in Objects
      PROVE  Keeps(im[q], im3[q]) /\ (q \notin O => im3[q] = im[q])
  <2>1. Keeps(im[q], im2[q]) /\ (q \notin O => im2[q] = im[q])
    BY DEF Steps
  <2>2. Keeps(im2[q], im3[q]) /\ (q \notin O => im3[q] = im2[q])
    BY DEF Steps
  <2> QED BY <2>1, <2>2 DEF Keeps
<1>3. ASSUME NEW t \in DOMAIN x
      PROVE  Same(x[t], x3[t]) /\ ((\A q \in O : t # im[q].tex) => x3[t] = x[t])
  <2>1. Same(x[t], x2[t]) /\ ((\A q \in O : t # im[q].tex) => x2[t] = x[t])
    BY DEF Steps
  <2>2. t \in DOMAIN x2
    BY <1>1
  <2>3. Same(x2[t], x3[t]) /\ ((\A q \in O : t # im2[q].tex) => x3[t] = x2[t])
    BY <2>2 DEF Steps
  <2>4. Same(x[t], x3[t])
    BY <2>1, <2>3 DEF Same
  <2>5. \A q \in O : im2[q].tex = im[q].tex
    BY DEF Steps, Keeps
  <2> QED BY <2>1, <2>3, <2>4, <2>5
<1>4. \A q \in O : Ready(im3, x3, q)
  BY DEF Steps
<1> QED BY <1>1, <1>2, <1>3, <1>4 DEF Steps

(* One object of O tracks another layout, and its image is in that one, or *)
(* stays in the one it is in, and shows a picture.                         *)
LEMMA StepOf ==
  ASSUME NEW im \in [Objects -> Data], NEW x \in Seq(Textures), NEW O \in SUBSET Objects,
         Apart(im, x, O), NEW o \in O, NEW t, t = im[o].tex,
         NEW j \in Data, Keeps(im[o], j), NEW v \in Textures, Same(x[t], v),
         v.layout = j.layout, v.layout = "Undefined" => v.shows = 0
  PROVE  /\ Steps(im, x, With(im, o, j), With(x, t, v), O)
         /\ With(x, t, v)[t] = v
         /\ \A q \in O : q # o => With(x, t, v)[im[q].tex] = x[im[q].tex]
<1>1. PICK im2 : im2 = With(im, o, j)
  OBVIOUS
<1>2. PICK x2 : x2 = With(x, t, v)
  OBVIOUS
<1>3. Ready(im, x, o) /\ o \in Objects /\ t \in DOMAIN x /\ x[t].live /\ ~x[t].depth /\ x[t].bound
  BY DEF Apart, Ready
<1>4. /\ x2 \in Seq(Textures) /\ Len(x2) = Len(x) /\ DOMAIN x2 = DOMAIN x /\ x2[t] = v
      /\ \A u \in DOMAIN x : u # t => x2[u] = x[u]
  <2>1. t \in DOMAIN x
    BY <1>3
  <2>2. /\ With(x, t, v) \in Seq(Textures) /\ Len(With(x, t, v)) = Len(x)
        /\ DOMAIN With(x, t, v) = DOMAIN x /\ With(x, t, v)[t] = v
        /\ \A u \in DOMAIN x : u # t => With(x, t, v)[u] = x[u]
    BY <2>1, WithIs
  <2> QED BY <1>2, <2>2, Zenon
<1>5. im2 \in [Objects -> Data] /\ im2[o] = j /\ \A q \in Objects : q # o => im2[q] = im[q]
  BY <1>1, <1>3 DEF With
<1>6. \A q \in Objects : Keeps(im[q], im2[q]) /\ (q \notin O => im2[q] = im[q])
  <2>1. \A q \in Objects : Keeps(im[q], im[q])
    BY DEF Keeps
  <2> QED BY <1>5, <2>1
<1>7. \A u \in DOMAIN x : Same(x[u], x2[u]) /\ ((\A q \in O : u # im[q].tex) => x2[u] = x[u])
  <2>1. \A u \in DOMAIN x : Same(x[u], x[u])
    BY DEF Same
  <2> QED BY <1>4, <2>1
<1>8. \A q \in O : q # o => im[q].tex # t /\ im[q].tex \in DOMAIN x
  BY DEF Apart, Ready
<1>9. ASSUME NEW q \in O
      PROVE  Ready(im2, x2, q)
  <2>1. CASE q = o
    <3>1. im2[q] = j /\ j.tex = t
      BY <1>5, <2>1 DEF Keeps
    <3>2. v.live /\ ~v.depth /\ v.bound
      BY <1>3 DEF Same
    <3> QED BY <1>3, <1>4, <3>1, <3>2 DEF Ready
  <2>2. CASE q # o
    <3>1. im2[q] = im[q] /\ x2[im[q].tex] = x[im[q].tex] /\ Ready(im, x, q)
      BY <1>4, <1>5, <1>8, <2>2 DEF Apart
    <3> QED BY <1>4, <3>1 DEF Ready
  <2> QED BY <2>1, <2>2
<1>10. Steps(im, x, im2, x2, O)
  BY <1>4, <1>5, <1>6, <1>7, <1>9 DEF Steps
<1> QED BY <1>1, <1>2, <1>4, <1>8, <1>10

(* The same when the object tracks what it did. *)
LEMMA StayOf ==
  ASSUME NEW im \in [Objects -> Data], NEW x \in Seq(Textures), NEW O \in SUBSET Objects,
         Apart(im, x, O), NEW o \in O, NEW v \in Textures, Same(x[im[o].tex], v),
         v.layout = im[o].layout, v.layout # "Undefined"
  PROVE  /\ Steps(im, x, im, With(x, im[o].tex, v), O)
         /\ With(x, im[o].tex, v)[im[o].tex] = v
         /\ \A q \in O : q # o => With(x, im[o].tex, v)[im[q].tex] = x[im[q].tex]
<1>1. PICK j \in Data : j = im[o]
  OBVIOUS
<1>2. PICK t : t = im[o].tex
  OBVIOUS
<1>3. Keeps(im[o], j) /\ Same(x[t], v) /\ v.layout = j.layout
  BY <1>1, <1>2 DEF Keeps
<1>4. /\ Steps(im, x, With(im, o, j), With(x, t, v), O)
      /\ With(x, t, v)[t] = v
      /\ \A q \in O : q # o => With(x, t, v)[im[q].tex] = x[im[q].tex]
  BY <1>2, <1>3, StepOf
<1>5. With(im, o, j) = im
  BY <1>1 DEF With
<1> QED BY <1>2, <1>4, <1>5

LEMMA TransitionSteps ==
  ASSUME NEW im \in [Objects -> Data], NEW x \in Seq(Textures), NEW O \in SUBSET Objects,
         Apart(im, x, O), NEW o \in O, NEW layout \in AllLayouts, layout # "Undefined"
  PROVE  \E im2, x2 :
           /\ Transitioned(Triple(im, x, "none"), o, layout) = Triple(im2, x2, "none")
           /\ Steps(im, x, im2, x2, O)
           /\ im2[o].layout = layout /\ im2[o].old = im[o].layout
           /\ x2[im[o].tex].layout = layout /\ x2[im[o].tex].shows = x[im[o].tex].shows
           /\ \A q \in O : q # o => x2[im[q].tex] = x[im[q].tex]
<1>1. PICK t : t = im[o].tex
  OBVIOUS
<1>2. Ready(im, x, o) /\ o \in Objects /\ t \in DOMAIN x /\ im[o] \in Data /\ x[t] \in Textures
  BY <1>1 DEF Apart, Ready
<1>3. PICK j : j = Tracks(im[o], layout)
  OBVIOUS
<1>4. j \in Data /\ Keeps(im[o], j) /\ j.layout = layout /\ j.old = im[o].layout
  BY <1>2, <1>3, TracksIs
<1>5. PICK v : v = Laid(x[t], layout, x[t].shows)
  OBVIOUS
<1>6. v \in Textures /\ Same(x[t], v) /\ v.layout = layout /\ v.shows = x[t].shows
  <2>1. x[t].shows \in Prints \union {0}
    BY <1>2 DEF Textures
  <2> QED BY <1>2, <1>5, <2>1, LaidIs, LaidSame
<1>7. Transitioned(Triple(im, x, "none"), o, layout) = Triple(With(im, o, j), With(x, t, v), "none")
  BY <1>1, <1>2, <1>3, <1>5, TransitionedIs
<1>8. /\ Steps(im, x, With(im, o, j), With(x, t, v), O)
      /\ With(x, t, v)[t] = v
      /\ \A q \in O : q # o => With(x, t, v)[im[q].tex] = x[im[q].tex]
  BY <1>1, <1>4, <1>6, StepOf
<1>9. With(im, o, j)[o] = j
  BY <1>2 DEF With
<1> QED BY <1>1, <1>4, <1>6, <1>7, <1>8, <1>9

Disciplined == ImageLiberties = {} /\ "DepthStencil" \notin Layouts

LEMMA ConvertIs ==
  ASSUME Disciplined, NEW layout \in AllLayouts
  PROVE  Convert(layout) = layout
BY DEF Disciplined, Convert, AllLayouts

LEMMA RevertSteps ==
  ASSUME Disciplined,
         NEW im \in [Objects -> Data], NEW x \in Seq(Textures), NEW O \in SUBSET Objects,
         Apart(im, x, O), NEW o \in O
  PROVE  \E im2, x2 :
           /\ Reverted(Triple(im, x, "none"), o) = Triple(im2, x2, "none")
           /\ Steps(im, x, im2, x2, O)
           /\ x2[im[o].tex].shows = x[im[o].tex].shows
           /\ \A q \in O : q # o => x2[im[q].tex] = x[im[q].tex]
<1>1. Triple(im, x, "none").image = im
  BY DEF Triple
<1>2. o \in Objects /\ im[o] \in Data
  OBVIOUS
<1>3. im[o].old \in AllLayouts
  BY <1>2 DEF Data
<1>4. CASE im[o].old = "Undefined"
  <2>1. Reverted(Triple(im, x, "none"), o) = Triple(im, x, "none")
    BY <1>1, <1>4 DEF Reverted
  <2>2. Steps(im, x, im, x, O)
    BY DEF Steps, Keeps, Same, Apart
  <2> QED BY <2>1, <2>2
<1>5. CASE im[o].old # "Undefined"
  <2>1. Convert(im[o].old) = im[o].old
    BY <1>3, ConvertIs
  <2>2. Reverted(Triple(im, x, "none"), o) = Transitioned(Triple(im, x, "none"), o, im[o].old)
    BY <1>1, <1>5, <2>1, Zenon DEF Reverted
  <2> QED BY <1>3, <1>5, <2>2, TransitionSteps
<1> QED BY <1>4, <1>5

-----------------------------------------------------------------------------
(* The invariant, and what the images will be. *)

Inv == ImageTypeOK /\ NoFault /\ ImageInv

(* Images of which commands are recorded. *)
Touched == {t \in DOMAIN texture : IsRecorded(t)}

(* A command for images that are there. *)
Fit(c) ==
  /\ Live(c.tex) /\ c.tex <= Len(texture) /\ (c.op = "barrier" => c.to # "")
  /\ c.dst # 0 => Live(c.dst) /\ c.dst <= Len(texture) /\ c.dst # c.tex /\ c.op = "out"

LEMMA FitIs ==
  ASSUME ImageTypeOK, NEW c \in Commands, Fit(c)
  PROVE  /\ WellFormed(c, Len(texture)) /\ c.tex \in DOMAIN texture
         /\ c.dst # 0 => c.dst \in DOMAIN texture
<1>1. c.tex \in Nat /\ c.dst \in Nat
  BY FieldsOf
<1>2. c.tex # 0 /\ c.tex <= Len(texture) /\ (c.dst # 0 => c.dst <= Len(texture))
  BY DEF Fit, Live
<1>3. texture \in Seq(Textures) /\ Len(texture) \in Nat
  BY DEF ImageTypeOK
<1>4. c.op = "barrier" => c.to \in AllLayouts
  BY DEF Fit, Commands
<1>5. c.tex \in 1 .. Len(texture) /\ c.dst \in 0 .. Len(texture)
  BY <1>1, <1>2, <1>3
<1>6. c.dst # 0 => c.dst # c.tex /\ c.op = "out"
  BY DEF Fit
<1>7. WellFormed(c, Len(texture))
  BY <1>4, <1>5, <1>6 DEF WellFormed
<1> QED BY <1>3, <1>5, <1>7

LEMMA RecordedFit ==
  ASSUME Inv, NEW k \in DOMAIN recorded
  PROVE  /\ recorded[k] \in Commands /\ Fit(recorded[k]) /\ WellFormed(recorded[k], Len(texture))
         /\ recorded[k].tex \in Touched /\ (recorded[k].dst # 0 => recorded[k].dst \in Touched)
<1>1. PICK c : c = recorded[k]
  OBVIOUS
<1>2. c \in Commands
  BY <1>1 DEF Inv, ImageTypeOK
<1>3. Fit(c)
  BY <1>1 DEF Inv, ImageInv, WellRecorded, Fit
<1>4. /\ WellFormed(c, Len(texture)) /\ c.tex \in DOMAIN texture
      /\ c.dst # 0 => c.dst \in DOMAIN texture
  BY <1>2, <1>3, FitIs DEF Inv
<1>5. IsRecorded(c.tex) /\ IsRecorded(c.dst)
  BY <1>1 DEF IsRecorded
<1> QED BY <1>1, <1>2, <1>3, <1>4, <1>5 DEF Touched

(* What is recorded, executed on images that differ only where nothing is  *)
(* recorded for them.                                                      *)
LEMMA AheadOn ==
  ASSUME Inv, NEW z \in Seq(Textures), Len(texture) <= Len(z),
         \A t \in Touched : Alike(texture[t], z[t])
  PROVE  \E a, b : /\ Ahead = State(a, "none")
                   /\ Submitted(State(z, "none"), recorded) = State(b, "none")
                   /\ Agree(texture, z, a, b, Touched)
<1>1. texture \in Seq(Textures) /\ recorded \in Seq(Commands)
  BY DEF Inv, ImageTypeOK
<1>2. Touched \subseteq DOMAIN texture /\ Touched \subseteq DOMAIN z
  BY <1>1 DEF Touched
<1>3. ASSUME NEW k \in DOMAIN recorded
      PROVE  /\ WellFormed(recorded[k], Len(texture)) /\ WellFormed(recorded[k], Len(z))
             /\ recorded[k].tex \in Touched /\ (recorded[k].dst # 0 => recorded[k].dst \in Touched)
  <2>1. PICK c : c = recorded[k]
    OBVIOUS
  <2>2. WellFormed(c, Len(texture))
    BY <2>1, RecordedFit
  <2>3. c.tex \in 1 .. Len(z) /\ c.dst \in 0 .. Len(z)
    BY <1>1, <2>2 DEF WellFormed
  <2>4. WellFormed(c, Len(z))
    BY <2>2, <2>3 DEF WellFormed
  <2> QED BY <2>1, <2>2, <2>4, RecordedFit
<1>4. Ahead = Submitted(State(texture, "none"), recorded)
  BY DEF Inv, NoFault, Ahead, Now, State
<1>5. Submitted(State(texture, "none"), recorded).fault = "none"
  BY <1>4 DEF Inv, ImageInv
<1> QED BY <1>1, <1>2, <1>3, <1>4, <1>5, SubmittedAlike

LEMMA AheadIs ==
  ASSUME Inv
  PROVE  \E a : /\ Ahead = State(a, "none") /\ Ahead.texture = a
                /\ a \in Seq(Textures) /\ Len(a) = Len(texture)
                /\ \A t \in DOMAIN texture : /\ Same(texture[t], a[t])
                                             /\ t \notin Touched => a[t] = texture[t]
<1>1. texture \in Seq(Textures)
  BY DEF Inv, ImageTypeOK
<1>2. \A t \in Touched : Alike(texture[t], texture[t])
  BY DEF Alike, Same
<1>3. \E a, b : Ahead = State(a, "none") /\ Submitted(State(texture, "none"), recorded) = State(b, "none")
                /\ Agree(texture, texture, a, b, Touched)
  BY <1>1, <1>2, AheadOn
<1>4. PICK a, b : Ahead = State(a, "none") /\ Agree(texture, texture, a, b, Touched)
  BY <1>3
<1>5. Ahead.texture = a
  BY <1>4 DEF State
<1> QED BY <1>4, <1>5 DEF Agree

(* The same after a step that records nothing and changes no image for     *)
(* which something is recorded.                                            *)
LEMMA AheadThen ==
  ASSUME Inv, fault' = "none", recorded' = recorded,
         texture' \in Seq(Textures), Len(texture) <= Len(texture'),
         \A t \in Touched : Alike(texture[t], texture'[t])
  PROVE  \E a, b : /\ Ahead = State(a, "none") /\ Ahead' = State(b, "none")
                   /\ Agree(texture, texture', a, b, Touched)
<1>1. PICK z : z = texture'
  OBVIOUS
<1>2. Ahead' = Submitted(State(z, "none"), recorded)
  BY <1>1 DEF Ahead, Now, State
<1>3. \E a, b : /\ Ahead = State(a, "none")
                /\ Submitted(State(z, "none"), recorded) = State(b, "none")
                /\ Agree(texture, z, a, b, Touched)
  BY <1>1, AheadOn
<1> QED BY <1>1, <1>2, <1>3

(* The same after a step that records one command more. *)
LEMMA AheadMore ==
  ASSUME NEW x, NEW cs \in Seq(Commands), NEW a \in Seq(Textures), NEW c,
         Submitted(State(x, "none"), cs) = State(a, "none"),
         WellFormed(c, Len(a)), Permitted(a, c)
  PROVE  Submitted(State(x, "none"), Append(cs, c)) = State(After(a, c), "none")
<1>1. c \in Commands
  BY DEF WellFormed
<1>2. Submitted(State(x, "none"), Append(cs, c)) = Execute(State(a, "none"), c)
  BY <1>1, SubmittedMore
<1> QED BY <1>2, ExecuteIs

-----------------------------------------------------------------------------
(* Steps that make no image and give none back. *)

Kept ==
  /\ image' \in [Objects -> Data] /\ \A q \in Objects : Keeps(image[q], image'[q])
  /\ texture' \in Seq(Textures) /\ Len(texture') = Len(texture)
  /\ \A t \in DOMAIN texture : Same(texture[t], texture'[t])
  /\ memory' = memory /\ views' = views

LEMMA KeptUse ==
  ASSUME ImageTypeOK, Kept
  PROVE  /\ \A t \in Nat : t <= Len(texture) => (Live(t)' <=> Live(t))
         /\ \A q \in Objects : /\ image[q].tex \in Nat /\ image[q].tex <= Len(texture)
                               /\ image'[q].tex = image[q].tex
                               /\ Live(image[q].tex)' <=> Live(image[q].tex)
                               /\ InUse(q)' <=> InUse(q)
<1>1. texture \in Seq(Textures) /\ Len(texture) \in Nat
  BY DEF ImageTypeOK
<1>2. \A t \in Nat : t <= Len(texture) => (t # 0 => t \in DOMAIN texture)
  BY <1>1
<1>3. ASSUME NEW t \in Nat, t <= Len(texture)
      PROVE  (t # 0 /\ texture'[t].live) <=> (t # 0 /\ texture[t].live)
  BY <1>2, <1>3 DEF Kept, Same
<1>4. ASSUME NEW q \in Objects
      PROVE  /\ image[q].tex \in Nat /\ image[q].tex <= Len(texture)
             /\ image'[q].tex = image[q].tex /\ image'[q].moved = image[q].moved
  <2>1. image[q] \in Data /\ image[q].tex <= Len(texture)
    BY DEF ImageTypeOK
  <2>2. image[q].tex \in Nat
    BY <2>1 DEF Data
  <2> QED BY <2>1, <2>2 DEF Kept, Keeps
<1>5. \A q \in Objects : /\ (image[q].tex # 0 /\ texture'[image[q].tex].live)
                              <=> (image[q].tex # 0 /\ texture[image[q].tex].live)
                         /\ (~image'[q].moved /\ image'[q].tex # 0 /\ texture'[image'[q].tex].live)
                              <=> (~image[q].moved /\ image[q].tex # 0 /\ texture[image[q].tex].live)
  BY <1>3, <1>4
<1> QED BY <1>3, <1>4, <1>5 DEF Live, InUse

LEMMA KeptHeld ==
  ASSUME ImageTypeOK, Kept, HeldOnce
  PROVE  HeldOnce'
<1>1. \A q \in Objects : image'[q].tex = image[q].tex /\ image'[q].moved = image[q].moved
                         /\ (InUse(q)' <=> InUse(q))
  BY KeptUse DEF Kept, Keeps
<1>2. ASSUME NEW o \in Objects, NEW q \in Objects, InUse(o)', ~image'[q].moved, image'[o].tex = image'[q].tex
      PROVE  o = q
  BY <1>1, <1>2 DEF HeldOnce
<1>3. ASSUME NEW t \in DOMAIN texture', texture'[t].live
      PROVE  \E o \in Objects : InUse(o)' /\ image'[o].tex = t
  <2>1. t \in DOMAIN texture
    BY DEF Kept, ImageTypeOK
  <2>2. texture[t].live
    BY <1>3, <2>1 DEF Kept, Same
  <2> QED BY <1>1, <2>1, <2>2 DEF HeldOnce
<1> QED BY <1>2, <1>3 DEF HeldOnce

LEMMA KeptMemory ==
  ASSUME ImageTypeOK, Kept, MemoryOnce
  PROVE  MemoryOnce'
<1>1. \A q \in Objects : image'[q].mem = image[q].mem /\ (OwnsMemory(q)' <=> OwnsMemory(q))
  <2>1. ASSUME NEW q \in Objects
        PROVE  image'[q].mem = image[q].mem /\ image'[q].preallocated = image[q].preallocated
    BY DEF Kept, Keeps
  <2> QED BY <2>1, KeptUse DEF OwnsMemory
<1>2. memory' = memory
  BY DEF Kept
<1>3. \A o \in Objects : OwnsMemory(o)' => image'[o].mem # 0 /\ memory'[image'[o].mem]
  BY <1>1, <1>2 DEF MemoryOnce
<1>4. \A o, q \in Objects : OwnsMemory(o)' /\ OwnsMemory(q)' /\ image'[o].mem = image'[q].mem => o = q
  BY <1>1 DEF MemoryOnce
<1>5. \A m \in DOMAIN memory' : memory'[m] => \E o \in Objects : OwnsMemory(o)' /\ image'[o].mem = m
  BY <1>1, <1>2 DEF MemoryOnce
<1> QED BY <1>3, <1>4, <1>5 DEF MemoryOnce

LEMMA KeptViews ==
  ASSUME ImageTypeOK, Kept, ViewsOnce
  PROVE  ViewsOnce'
<1>1. DOMAIN texture' = DOMAIN texture /\ 0 \notin DOMAIN texture
  BY DEF Kept, ImageTypeOK
<1>2. \A t \in DOMAIN texture : texture'[t].live = texture[t].live /\ texture'[t].bound = texture[t].bound
  BY DEF Kept, Same
<1>3. ASSUME NEW q \in Objects, InUse(q)'
      PROVE  image'[q].view = IF texture'[image'[q].tex].bound THEN image'[q].tex ELSE 0
  <2>1. InUse(q) /\ image'[q].tex = image[q].tex /\ image'[q].view = image[q].view
    BY <1>3, KeptUse DEF Kept, Keeps
  <2>2. image[q].tex \in DOMAIN texture
    <3>1. image[q].tex \in Nat /\ image[q].tex <= Len(texture) /\ image[q].tex # 0
      BY <2>1, KeptUse DEF InUse, Live
    <3> QED BY <3>1 DEF ImageTypeOK
  <2> QED BY <1>2, <2>1, <2>2 DEF ViewsOnce
<1>4. views' = {t \in DOMAIN texture' : texture'[t].live /\ texture'[t].bound}
  <2>1. {t \in DOMAIN texture' : texture'[t].live /\ texture'[t].bound}
          = {t \in DOMAIN texture : texture[t].live /\ texture[t].bound}
    BY <1>1, <1>2
  <2> QED BY <2>1 DEF Kept, ViewsOnce
<1> QED BY <1>3, <1>4 DEF ViewsOnce

LEMMA FitThen ==
  ASSUME ImageTypeOK, Kept, NEW c \in Commands, Fit(c)
  PROVE  /\ Live(c.tex)' /\ c.tex <= Len(texture') /\ (c.op = "barrier" => c.to # "")
         /\ c.dst # 0 => Live(c.dst)' /\ c.dst <= Len(texture') /\ c.dst # c.tex /\ c.op = "out"
<1>1. c.tex \in Nat /\ c.dst \in Nat
  BY FieldsOf
<1>2. Len(texture') = Len(texture)
  BY DEF Kept
<1>3. Live(c.tex)'
  BY <1>1, KeptUse DEF Fit
<1>4. c.dst # 0 => Live(c.dst)'
  BY <1>1, KeptUse DEF Fit
<1> QED BY <1>2, <1>3, <1>4 DEF Fit

(* The objects of O are in the layouts they track, and of the others       *)
(* nothing is changed.                                                     *)
Settled(O, a, b) ==
  /\ \A q \in Objects \ O : image'[q].layout = image[q].layout
  /\ \A o \in O : InUse(o) /\ ~texture[image[o].tex].swapchain
  /\ \A t \in DOMAIN texture : (\A o \in O : t # image[o].tex)
       => b[t].layout = a[t].layout /\ b[t].shows = a[t].shows
  /\ \A o \in O : LET t == image[o].tex IN
       b[t].layout = image'[o].layout /\ (b[t].layout = "Undefined" => b[t].shows = 0)

LEMMA KeptInv ==
  ASSUME Inv, Kept, fault' = "none",
         recorded' \in Seq(Commands), Len(recorded') <= MaxRecorded,
         \A k \in DOMAIN recorded' : Fit(recorded'[k]),
         NEW O \in SUBSET Objects, NEW a, NEW b, Ahead = State(a, "none"), Ahead' = State(b, "none"),
         Settled(O, a, b)
  PROVE  Inv'
<1>1. ImageTypeOK /\ ImageInv
  BY DEF Inv
<1>2. Ahead.texture = a /\ (Ahead.texture)' = b /\ (Ahead.fault)' = "none"
  BY DEF State
<1>3. ImageTypeOK'
  <2>1. \A o \in Objects : image'[o].tex <= Len(texture') /\ image'[o].mem <= Len(memory')
    BY <1>1 DEF Kept, Keeps, ImageTypeOK
  <2>2. memory' \in Seq(BOOLEAN) /\ views' \subseteq Nat
    BY <1>1 DEF Kept, ImageTypeOK
  <2> QED BY <2>1, <2>2 DEF Kept, ImageTypeOK
<1>4. NoFault'
  BY DEF NoFault
<1>5. HeldOnce' /\ MemoryOnce' /\ ViewsOnce'
  BY <1>1, KeptHeld, KeptMemory, KeptViews DEF ImageInv
<1>6. WellRecorded'
  <2>1. ASSUME NEW k \in DOMAIN recorded'
        PROVE  (LET c == recorded[k] IN
                /\ Live(c.tex) /\ c.tex <= Len(texture) /\ (c.op = "barrier" => c.to # "")
                /\ c.dst # 0 => Live(c.dst) /\ c.dst <= Len(texture) /\ c.dst # c.tex /\ c.op = "out")'
    <3>1. PICK c : c = recorded'[k]
      OBVIOUS
    <3>2. c \in Commands /\ Fit(c)
      BY <3>1
    <3>3. /\ Live(c.tex)' /\ c.tex <= Len(texture') /\ (c.op = "barrier" => c.to # "")
          /\ c.dst # 0 => Live(c.dst)' /\ c.dst <= Len(texture') /\ c.dst # c.tex /\ c.op = "out"
      BY <1>1, <3>2, FitThen
    <3> QED BY <3>1, <3>3 DEF Live
  <2> QED BY <2>1 DEF WellRecorded
<1>7. ASSUME NEW o \in Objects
      PROVE  InLayout(o)'
  <2>1. /\ image'[o].tex = image[o].tex /\ image'[o].depth = image[o].depth
        /\ image'[o].moved = image[o].moved /\ image[o].tex \in Nat /\ image[o].tex <= Len(texture)
        /\ (InUse(o)' <=> InUse(o)) /\ (Live(image[o].tex)' <=> Live(image[o].tex))
    BY <1>1, KeptUse DEF Kept, Keeps
  <2>2. InLayout(o)
    BY <1>1 DEF ImageInv
  <2>3. Live(image[o].tex) => image[o].tex \in DOMAIN texture
    BY <1>1, <2>1 DEF Live, ImageTypeOK
  <2>4. Live(image[o].tex) => Same(texture[image[o].tex], texture'[image[o].tex])
    BY <2>3 DEF Kept
  <2>5. InUse(o) => Live(image[o].tex)
    BY DEF InUse
  <2>6. InUse(o) => (texture'[image[o].tex].depth => image'[o].depth)
    BY <2>1, <2>2, <2>4, <2>5 DEF InLayout, Same
  <2>7. InUse(o) /\ ~texture'[image[o].tex].swapchain => b[image[o].tex].layout = image'[o].layout
    <3> SUFFICES ASSUME InUse(o), ~texture'[image[o].tex].swapchain
                 PROVE  b[image[o].tex].layout = image'[o].layout
      OBVIOUS
    <3>1. CASE o \in O
      BY <3>1 DEF Settled
    <3>2. CASE o \notin O
      <4>1. a[image[o].tex].layout = image[o].layout
        BY <1>2, <2>2, <2>4, <2>5 DEF InLayout, Same
      <4>2. \A q \in O : image[o].tex # image[q].tex
        <5>1. \A q \in O : InUse(q) /\ q # o
          BY <3>2 DEF Settled
        <5>2. \A q \in O : InUse(q) /\ ~image[q].moved
          BY <5>1 DEF InUse
        <5> QED BY <1>1, <5>1, <5>2 DEF ImageInv, HeldOnce
      <4>3. b[image[o].tex].layout = a[image[o].tex].layout
        BY <2>3, <2>5, <4>2 DEF Settled
      <4>4. image'[o].layout = image[o].layout
        BY <3>2 DEF Settled
      <4> QED BY <4>1, <4>3, <4>4
    <3> QED BY <3>1, <3>2
  <2>8. ~image[o].moved /\ ~Live(image[o].tex) => image'[o].layout = "Undefined"
    <3> SUFFICES ASSUME ~image[o].moved, ~Live(image[o].tex) PROVE image'[o].layout = "Undefined"
      OBVIOUS
    <3>1. o \notin O
      BY DEF Settled, InUse
    <3> QED BY <2>2, <3>1 DEF Settled, InLayout
  <2>9. /\ InUse(o)' => (texture'[image'[o].tex].depth => image'[o].depth)
        /\ InUse(o)' /\ ~texture'[image'[o].tex].swapchain
             => (Ahead.texture)'[image'[o].tex].layout = image'[o].layout
        /\ ~image'[o].moved /\ ~Live(image[o].tex)' => image'[o].layout = "Undefined"
    BY <1>2, <2>1, <2>6, <2>7, <2>8
  <2> QED BY <2>9 DEF InLayout
<1>8. Blank'
  <2>1. ASSUME NEW t \in DOMAIN texture', b[t].layout = "Undefined"
        PROVE  b[t].shows = 0
    <3>1. t \in DOMAIN texture
      BY <1>1 DEF Kept, ImageTypeOK
    <3>2. CASE \A o \in O : t # image[o].tex
      <4>1. b[t].layout = a[t].layout /\ b[t].shows = a[t].shows
        BY <3>1, <3>2 DEF Settled
      <4> QED BY <1>1, <1>2, <2>1, <3>1, <4>1 DEF ImageInv, Blank
    <3>3. CASE ~\A o \in O : t # image[o].tex
      BY <2>1, <3>3 DEF Settled
    <3> QED BY <3>2, <3>3
  <2> QED BY <1>2, <2>1 DEF Blank
<1> QED BY <1>2, <1>3, <1>4, <1>5, <1>6, <1>7, <1>8 DEF Inv, ImageInv

(* What the objects show. *)
LEMMA ShownIs ==
  ASSUME NEW a, Ahead = State(a, "none")
  PROVE  Shown = [o \in Objects |-> IF InUse(o) THEN a[image[o].tex].shows ELSE 0]
<1>1. Ahead.texture = a
  BY DEF State
<1> QED BY <1>1, Zenon DEF Shown

LEMMA ShownThen ==
  ASSUME NEW b, Ahead' = State(b, "none")
  PROVE  Shown' = [o \in Objects |-> IF InUse(o)' THEN b[image'[o].tex].shows ELSE 0]
<1>1. (Ahead.texture)' = b
  BY DEF State
<1> QED BY <1>1, Zenon DEF Shown

LEMMA KeptShown ==
  ASSUME Inv, Kept, NEW O \in SUBSET Objects, NEW a, NEW b,
         Ahead = State(a, "none"), Ahead' = State(b, "none"), Settled(O, a, b)
  PROVE  Shown' = [q \in Objects |-> IF q \in O THEN b[image[q].tex].shows ELSE Shown[q]]
<1>1. ImageTypeOK /\ HeldOnce
  BY DEF Inv, ImageInv
<1>2. ASSUME NEW q \in Objects
      PROVE  (IF InUse(q)' THEN b[image'[q].tex].shows ELSE 0)
               = (IF q \in O THEN b[image[q].tex].shows ELSE IF InUse(q) THEN a[image[q].tex].shows ELSE 0)
  <2>1. /\ image'[q].tex = image[q].tex /\ (InUse(q)' <=> InUse(q))
        /\ image[q].tex \in Nat /\ image[q].tex <= Len(texture)
    BY <1>1, KeptUse
  <2>2. CASE q \in O
    <3>1. InUse(q)
      BY <2>2 DEF Settled
    <3> QED BY <2>1, <2>2, <3>1
  <2>3. CASE q \notin O /\ InUse(q)
    <3>1. image[q].tex \in DOMAIN texture
      BY <1>1, <2>1, <2>3 DEF InUse, Live, ImageTypeOK
    <3>2. \A o \in O : image[q].tex # image[o].tex
      <4>1. \A o \in O : InUse(o) /\ ~image[o].moved /\ o # q
        BY <2>3 DEF Settled, InUse
      <4> QED BY <1>1, <2>3, <4>1 DEF HeldOnce
    <3>3. b[image[q].tex].shows = a[image[q].tex].shows
      BY <3>1, <3>2 DEF Settled
    <3> QED BY <2>1, <2>3, <3>3
  <2>4. CASE q \notin O /\ ~InUse(q)
    BY <2>1, <2>4
  <2> QED BY <2>2, <2>3, <2>4
<1>3. Shown = [q \in Objects |-> IF InUse(q) THEN a[image[q].tex].shows ELSE 0]
  BY ShownIs
<1>4. Shown' = [q \in Objects |-> IF InUse(q)' THEN b[image'[q].tex].shows ELSE 0]
  BY ShownThen
<1>5. \A q \in Objects : Shown[q] = IF InUse(q) THEN a[image[q].tex].shows ELSE 0
  BY <1>3
<1>6. \A q \in Objects : (IF InUse(q)' THEN b[image'[q].tex].shows ELSE 0)
                           = (IF q \in O THEN b[image[q].tex].shows ELSE Shown[q])
  BY <1>2, <1>5
<1> QED BY <1>4, <1>6

LEMMA KeptHolds ==
  ASSUME Inv, Kept
  PROVE  Holds' = Holds
<1>1. \A q \in Objects : (IF InUse(q)' THEN image'[q].tex ELSE 0) = (IF InUse(q) THEN image[q].tex ELSE 0)
  BY KeptUse DEF Inv
<1> QED BY <1>1 DEF Holds

(* Objects that may be used at once. *)
AtOnce(O) ==
  \A o \in O : InUse(o) /\ ~texture[image[o].tex].swapchain /\ image[o].tex \notin Touched

LEMMA MayUse ==
  ASSUME Disciplined, Inv, NEW o \in Objects, Usable(o), MayTransition(o)
  PROVE  /\ InUse(o) /\ image[o].tex \in DOMAIN texture /\ texture[image[o].tex].live
         /\ ~texture[image[o].tex].swapchain /\ ~texture[image[o].tex].depth /\ texture[image[o].tex].bound
         /\ Ahead.texture[image[o].tex].layout = image[o].layout
         /\ Ahead.texture[image[o].tex].layout = "Undefined" => Ahead.texture[image[o].tex].shows = 0
<1>1. InUse(o) /\ ~texture[image[o].tex].swapchain /\ ~image[o].depth /\ texture[image[o].tex].bound
  BY DEF Disciplined, Usable, MayTransition, May, InUse
<1>2. texture \in Seq(Textures) /\ image[o] \in Data /\ image[o].tex <= Len(texture)
  BY DEF Inv, ImageTypeOK
<1>3. image[o].tex \in Nat /\ image[o].tex # 0 /\ texture[image[o].tex].live
  BY <1>1, <1>2 DEF Data, InUse, Live
<1>4. image[o].tex \in DOMAIN texture
  BY <1>2, <1>3
<1>5. InLayout(o) /\ Blank
  BY DEF Inv, ImageInv
<1>6. ~texture[image[o].tex].depth /\ Ahead.texture[image[o].tex].layout = image[o].layout
  BY <1>1, <1>5 DEF InLayout
<1> QED BY <1>1, <1>3, <1>4, <1>5, <1>6 DEF Blank

LEMMA ReadyAtOnce ==
  ASSUME Disciplined, Inv, NEW o \in Objects, UsableAtOnce(o), MayTransition(o)
  PROVE  /\ Ready(image, texture, o)
         /\ InUse(o) /\ ~texture[image[o].tex].swapchain /\ image[o].tex \notin Touched
<1>1. Usable(o) /\ image[o].tex \notin Touched
  BY DEF UsableAtOnce, Disciplined, May, Touched
<1>2. /\ InUse(o) /\ image[o].tex \in DOMAIN texture /\ texture[image[o].tex].live
      /\ ~texture[image[o].tex].swapchain /\ ~texture[image[o].tex].depth /\ texture[image[o].tex].bound
      /\ Ahead.texture[image[o].tex].layout = image[o].layout
      /\ Ahead.texture[image[o].tex].layout = "Undefined" => Ahead.texture[image[o].tex].shows = 0
  BY <1>1, MayUse
<1>3. Ahead.texture[image[o].tex] = texture[image[o].tex]
  BY <1>1, <1>2, AheadIs
<1> QED BY <1>1, <1>2, <1>3 DEF Ready

LEMMA AtOnceInv ==
  ASSUME Disciplined, Inv, NEW O \in SUBSET Objects, AtOnce(O),
         Steps(image, texture, image', texture', O), fault' = "none",
         memory' = memory, views' = views, recorded' = recorded
  PROVE  /\ Inv' /\ Holds' = Holds
         /\ Shown' = [q \in Objects |-> IF q \in O THEN texture'[image[q].tex].shows ELSE Shown[q]]
         /\ \A o \in O : Shown[o] = texture[image[o].tex].shows
<1>1. Kept
  BY DEF Steps, Kept
<1>2. /\ texture \in Seq(Textures) /\ recorded \in Seq(Commands) /\ Len(recorded) <= MaxRecorded
      /\ \A q \in Objects : image[q] \in Data
  BY DEF Inv, ImageTypeOK
<1>3. \A o \in O : /\ image[o].tex \in DOMAIN texture /\ image[o].tex \notin Touched
                   /\ InUse(o) /\ ~texture[image[o].tex].swapchain
  <2>1. ASSUME NEW o \in O
        PROVE  image[o].tex \in Nat /\ image[o].tex # 0 /\ image[o].tex <= Len(texture)
    <3>1. InUse(o) /\ image[o] \in Data /\ image[o].tex <= Len(texture)
      BY <1>2 DEF AtOnce, Inv, ImageTypeOK
    <3> QED BY <3>1 DEF Data, InUse, Live
  <2> QED BY <1>2, <2>1 DEF AtOnce
<1>4. \A t \in Touched : t \in DOMAIN texture /\ texture'[t] = texture[t]
  <2>1. ASSUME NEW t \in Touched
        PROVE  t \in DOMAIN texture /\ texture'[t] = texture[t]
    <3>1. t \in DOMAIN texture /\ \A o \in O : t # image[o].tex
      BY <1>3 DEF Touched
    <3> QED BY <3>1 DEF Steps
  <2> QED BY <2>1
<1>5. PICK a, b : Ahead = State(a, "none") /\ Ahead' = State(b, "none") /\ Agree(texture, texture', a, b, Touched)
  <2>1. \A t \in Touched : Alike(texture[t], texture'[t])
    BY <1>4 DEF Alike, Same
  <2>2. texture' \in Seq(Textures) /\ Len(texture) <= Len(texture')
    BY <1>2 DEF Steps
  <2> QED BY <2>1, <2>2, AheadThen
<1>6. DOMAIN texture' = DOMAIN texture
  BY <1>2 DEF Steps
<1>7. /\ \A t \in DOMAIN texture : t \notin Touched => a[t] = texture[t] /\ b[t] = texture'[t]
      /\ \A t \in Touched : Alike(a[t], b[t])
  BY <1>5, <1>6 DEF Agree
<1>8. Settled(O, a, b)
  <2>1. \A q \in Objects \ O : image'[q].layout = image[q].layout
    BY DEF Steps
  <2>2. ASSUME NEW t \in DOMAIN texture, \A o \in O : t # image[o].tex
        PROVE  b[t].layout = a[t].layout /\ b[t].shows = a[t].shows
    <3>1. CASE t \in Touched
      BY <1>7, <3>1 DEF Alike
    <3>2. CASE t \notin Touched
      <4>1. texture'[t] = texture[t]
        BY <2>2 DEF Steps
      <4> QED BY <1>7, <3>2, <4>1
    <3> QED BY <3>1, <3>2
  <2>3. ASSUME NEW o \in O
        PROVE  b[image[o].tex].layout = image'[o].layout
               /\ (b[image[o].tex].layout = "Undefined" => b[image[o].tex].shows = 0)
    <3>1. Ready(image', texture', o) /\ image'[o].tex = image[o].tex
      BY DEF Steps, Keeps
    <3>2. b[image[o].tex] = texture'[image[o].tex]
      BY <1>3, <1>7
    <3> QED BY <3>1, <3>2 DEF Ready
  <2> QED BY <1>3, <2>1, <2>2, <2>3 DEF Settled
<1>9. \A k \in DOMAIN recorded' : Fit(recorded'[k])
  BY RecordedFit
<1>10. Inv' /\ Holds' = Holds
  BY <1>1, <1>2, <1>5, <1>8, <1>9, KeptInv, KeptHolds
<1>11. Shown' = [q \in Objects |-> IF q \in O THEN b[image[q].tex].shows ELSE Shown[q]]
  BY <1>1, <1>5, <1>8, KeptShown
<1>12. \A o \in O : b[image[o].tex] = texture'[image[o].tex]
  BY <1>3, <1>7
<1>13. ASSUME NEW o \in O
       PROVE  Shown[o] = texture[image[o].tex].shows
  <2>1. Shown[o] = IF InUse(o) THEN a[image[o].tex].shows ELSE 0
    BY <1>5, ShownIs
  <2> QED BY <1>3, <1>7, <2>1
<1> QED BY <1>10, <1>11, <1>12, <1>13

LEMMA HereIs ==
  ASSUME Inv
  PROVE  Here = Triple(image, texture, "none")
BY DEF Inv, NoFault, Here, Triple

LEMMA BecomesIs ==
  ASSUME NEW im, NEW x, NEW f, Becomes(Triple(im, x, f))
  PROVE  image' = im /\ texture' = x /\ fault' = f
BY DEF Becomes, Triple

LEMMA OneApart ==
  ASSUME Disciplined, Inv, NEW o \in Objects, UsableAtOnce(o), MayTransition(o)
  PROVE  Apart(image, texture, {o}) /\ AtOnce({o})
BY ReadyAtOnce DEF Apart, AtOnce

LEMMA ByTransition ==
  ASSUME Disciplined, Inv, NEW o \in Objects, NEW layout \in Layouts, Transition(o, layout)
  PROVE  Inv' /\ Holds' = Holds /\ Shown' = Shown
<1>1. /\ UsableAtOnce(o) /\ MayTransition(o) /\ memory' = memory /\ views' = views /\ recorded' = recorded
      /\ Becomes(Transitioned(Here, o, layout))
  BY DEF Transition
<1>2. Apart(image, texture, {o}) /\ AtOnce({o})
  BY <1>1, OneApart
<1>3. image \in [Objects -> Data] /\ texture \in Seq(Textures)
  BY DEF Inv, ImageTypeOK
<1>4. layout \in AllLayouts /\ layout # "Undefined"
  BY ImageAssumption DEF AllLayouts
<1>5. PICK im2, x2 :
        /\ Transitioned(Triple(image, texture, "none"), o, layout) = Triple(im2, x2, "none")
        /\ Steps(image, texture, im2, x2, {o})
        /\ x2[image[o].tex].shows = texture[image[o].tex].shows
  <2>1. {o} \in SUBSET Objects /\ o \in {o}
    OBVIOUS
  <2> QED BY <1>2, <1>3, <1>4, <2>1, TransitionSteps
<1>6. image' = im2 /\ texture' = x2 /\ fault' = "none"
  BY <1>1, <1>5, HereIs, BecomesIs
<1>7. /\ Inv' /\ Holds' = Holds
      /\ Shown' = [q \in Objects |-> IF q \in {o} THEN texture'[image[q].tex].shows ELSE Shown[q]]
      /\ Shown[o] = texture[image[o].tex].shows
  BY <1>1, <1>2, <1>5, <1>6, AtOnceInv
<1>8. \A q \in Objects : (IF q \in {o} THEN texture'[image[q].tex].shows ELSE Shown[q]) = Shown[q]
  BY <1>5, <1>6, <1>7
<1>9. Shown = [q \in Objects |-> Shown[q]]
  BY DEF Shown
<1> QED BY <1>7, <1>8, <1>9

LEMMA ByRevertLayout ==
  ASSUME Disciplined, Inv, NEW o \in Objects, RevertLayout(o)
  PROVE  Inv' /\ Holds' = Holds /\ Shown' = Shown
<1>1. /\ UsableAtOnce(o) /\ MayTransition(o) /\ memory' = memory /\ views' = views /\ recorded' = recorded
      /\ Becomes(Reverted(Here, o))
  BY DEF RevertLayout
<1>2. Apart(image, texture, {o}) /\ AtOnce({o})
  BY <1>1, OneApart
<1>3. image \in [Objects -> Data] /\ texture \in Seq(Textures)
  BY DEF Inv, ImageTypeOK
<1>5. PICK im2, x2 :
        /\ Reverted(Triple(image, texture, "none"), o) = Triple(im2, x2, "none")
        /\ Steps(image, texture, im2, x2, {o})
        /\ x2[image[o].tex].shows = texture[image[o].tex].shows
  <2>1. {o} \in SUBSET Objects /\ o \in {o}
    OBVIOUS
  <2> QED BY <1>2, <1>3, <2>1, RevertSteps
<1>6. image' = im2 /\ texture' = x2 /\ fault' = "none"
  BY <1>1, <1>5, HereIs, BecomesIs
<1>7. /\ Inv' /\ Holds' = Holds
      /\ Shown' = [q \in Objects |-> IF q \in {o} THEN texture'[image[q].tex].shows ELSE Shown[q]]
      /\ Shown[o] = texture[image[o].tex].shows
  BY <1>1, <1>2, <1>5, <1>6, AtOnceInv
<1>8. \A q \in Objects : (IF q \in {o} THEN texture'[image[q].tex].shows ELSE Shown[q]) = Shown[q]
  BY <1>5, <1>6, <1>7
<1>9. Shown = [q \in Objects |-> Shown[q]]
  BY DEF Shown
<1> QED BY <1>7, <1>8, <1>9

(* A picture copied into an image, in the layout for that.                 *)
LEMMA InSteps ==
  ASSUME NEW im \in [Objects -> Data], NEW x \in Seq(Textures), NEW O \in SUBSET Objects,
         Apart(im, x, O), NEW o \in O, x[im[o].tex].layout = "TransferDst", NEW print \in Prints
  PROVE  \E im2, x2 :
           /\ Run(Triple(im, x, "none"), InOf(im[o], print)) = Triple(im2, x2, "none")
           /\ Steps(im, x, im2, x2, O)
           /\ x2[im[o].tex].shows = print
<1>1. PICK t : t = im[o].tex
  OBVIOUS
<1>2. /\ Ready(im, x, o) /\ o \in Objects /\ t \in DOMAIN x /\ im[o] \in Data /\ x[t] \in Textures
      /\ x[t].live /\ x[t].layout = im[o].layout
  BY <1>1 DEF Apart, Ready
<1>3. PICK c : c = InOf(im[o], print)
  OBVIOUS
<1>4. c.op = "in" /\ c.tex = t /\ c.print = print /\ c.dst = 0 /\ c \in Commands
  <2>1. im[o].tex \in Nat
    BY <1>2 DEF Data
  <2>2. c = [op |-> "in", tex |-> im[o].tex, from |-> "", to |-> "", print |-> print, dst |-> 0]
    BY <1>3 DEF InOf, Command
  <2> QED BY <1>1, <2>1, <2>2 DEF Commands
<1>5. WellFormed(c, Len(x))
  BY <1>2, <1>4 DEF WellFormed
<1>6. Permitted(x, c)
  BY <1>1, <1>2, <1>4 DEF Permitted, CanHold
<1>7. PICK v : v = Laid(x[t], x[t].layout, print)
  OBVIOUS
<1>8. v \in Textures /\ Same(x[t], v) /\ v.layout = im[o].layout /\ v.shows = print
  <2>1. x[t].layout \in AllLayouts
    BY <1>2 DEF Textures
  <2> QED BY <1>2, <1>7, <2>1, LaidIs, LaidSame
<1>9. After(x, c) = With(x, t, v)
  BY <1>4, <1>7 DEF After, TexAfter
<1>10. Run(Triple(im, x, "none"), c) = Triple(im, With(x, t, v), "none")
  BY <1>5, <1>6, <1>9, RunIs
<1>11. With(im, o, im[o]) = im
  BY <1>2 DEF With
<1>12. Keeps(im[o], im[o]) /\ v.layout # "Undefined"
  BY <1>1, <1>2, <1>8 DEF Keeps
<1>13. Steps(im, x, With(im, o, im[o]), With(x, t, v), O) /\ With(x, t, v)[t] = v
  BY <1>1, <1>2, <1>8, <1>12, StepOf
<1> QED BY <1>1, <1>3, <1>8, <1>10, <1>11, <1>13

LEMMA ByCopyBuffer ==
  ASSUME Disciplined, Inv, NEW o \in Objects, NEW print \in Prints, CopyBuffer(o, print)
  PROVE  Inv' /\ Holds' = Holds /\ Shown' = [Shown EXCEPT ![o] = print]
<1>1. /\ UsableAtOnce(o) /\ MayTransition(o) /\ memory' = memory /\ views' = views /\ recorded' = recorded
      /\ LET ready == Transitioned(Here, o, "TransferDst")
         IN  Becomes(Reverted(Run(ready, InOf(ready.image[o], print)), o))
  BY DEF CopyBuffer
<1>2. Apart(image, texture, {o}) /\ AtOnce({o})
  BY <1>1, OneApart
<1>3. image \in [Objects -> Data] /\ texture \in Seq(Textures) /\ {o} \in SUBSET Objects /\ o \in {o}
  BY DEF Inv, ImageTypeOK
<1>4. "TransferDst" \in AllLayouts
  BY DEF AllLayouts
<1>5. PICK im2, x2 :
        /\ Transitioned(Triple(image, texture, "none"), o, "TransferDst") = Triple(im2, x2, "none")
        /\ Steps(image, texture, im2, x2, {o})
        /\ x2[image[o].tex].layout = "TransferDst"
  BY <1>2, <1>3, <1>4, TransitionSteps
<1>6. /\ im2 \in [Objects -> Data] /\ x2 \in Seq(Textures) /\ Apart(im2, x2, {o})
      /\ im2[o].tex = image[o].tex
  <2>1. Apart(im2, x2, {o})
    BY <1>2, <1>5, StepsApart
  <2> QED BY <1>5, <2>1 DEF Steps, Keeps
<1>7. PICK im3, x3 :
        /\ Run(Triple(im2, x2, "none"), InOf(im2[o], print)) = Triple(im3, x3, "none")
        /\ Steps(im2, x2, im3, x3, {o})
        /\ x3[im2[o].tex].shows = print
  BY <1>3, <1>5, <1>6, InSteps, SMTT(30)
<1>8. /\ im3 \in [Objects -> Data] /\ x3 \in Seq(Textures) /\ Apart(im3, x3, {o})
      /\ im3[o].tex = image[o].tex
  <2>1. Apart(im3, x3, {o})
    BY <1>6, <1>7, StepsApart
  <2>2. im3[o].tex = im2[o].tex
    BY <1>7 DEF Steps, Keeps
  <2> QED BY <1>6, <1>7, <2>1, <2>2 DEF Steps
<1>9. PICK im4, x4 :
        /\ Reverted(Triple(im3, x3, "none"), o) = Triple(im4, x4, "none")
        /\ Steps(im3, x3, im4, x4, {o})
        /\ x4[im3[o].tex].shows = x3[im3[o].tex].shows
  BY <1>3, <1>8, RevertSteps
<1>10. image' = im4 /\ texture' = x4 /\ fault' = "none"
  <2>1. Here = Triple(image, texture, "none") /\ Triple(im2, x2, "none").image = im2
    BY HereIs DEF Triple
  <2>2. Becomes(Reverted(Run(Triple(im2, x2, "none"), InOf(im2[o], print)), o))
    BY <1>1, <1>5, <2>1
  <2> QED BY <1>7, <1>9, <2>2, BecomesIs
<1>11. Steps(image, texture, im4, x4, {o})
  <2>1. Steps(image, texture, im3, x3, {o})
    BY <1>3, <1>5, <1>7, StepsMore
  <2> QED BY <1>3, <1>9, <2>1, StepsMore
<1>12. /\ Inv' /\ Holds' = Holds
       /\ Shown' = [q \in Objects |-> IF q \in {o} THEN texture'[image[q].tex].shows ELSE Shown[q]]
  BY <1>1, <1>2, <1>3, <1>10, <1>11, AtOnceInv
<1>13. texture'[image[o].tex].shows = print
  BY <1>6, <1>7, <1>8, <1>9, <1>10
<1>14. \A q \in Objects : (IF q \in {o} THEN texture'[image[q].tex].shows ELSE Shown[q])
                            = (IF q = o THEN print ELSE Shown[q])
  BY <1>13
<1>15. [Shown EXCEPT ![o] = print] = [q \in Objects |-> IF q = o THEN print ELSE Shown[q]]
  BY DEF Shown
<1> QED BY <1>12, <1>14, <1>15

(* A picture copied from one image into another, in the layouts for that.  *)
LEMMA AcrossSteps ==
  ASSUME NEW im \in [Objects -> Data], NEW x \in Seq(Textures), NEW O \in SUBSET Objects,
         Apart(im, x, O), NEW o \in O, NEW src \in O, o # src,
         x[im[o].tex].layout = "TransferDst", x[im[src].tex].layout = "TransferSrc"
  PROVE  \E im2, x2 :
           /\ Run(Triple(im, x, "none"), AcrossOf(im[src], im[o])) = Triple(im2, x2, "none")
           /\ Steps(im, x, im2, x2, O)
           /\ x2[im[o].tex].shows = x[im[src].tex].shows
           /\ x2[im[src].tex].shows = x[im[src].tex].shows
<1>1. PICK t : t = im[src].tex
  OBVIOUS
<1>2. PICK d : d = im[o].tex
  OBVIOUS
<1>3. /\ t \in DOMAIN x /\ im[src] \in Data /\ x[t] \in Textures /\ x[t].live /\ x[t].layout = im[src].layout
      /\ d \in DOMAIN x /\ im[o] \in Data /\ x[d] \in Textures /\ x[d].layout = im[o].layout
      /\ t # d /\ t # 0 /\ d # 0 /\ x[t].layout \in AllLayouts /\ x[t].shows \in Prints \union {0}
      /\ x[d].layout \in AllLayouts
  <2>1. Ready(im, x, src) /\ Ready(im, x, o) /\ im[src].tex # im[o].tex
    BY DEF Apart
  <2>2. t \in DOMAIN x /\ d \in DOMAIN x /\ x[t] \in Textures /\ x[d] \in Textures
    BY <1>1, <1>2, <2>1 DEF Ready
  <2> QED BY <1>1, <1>2, <2>1, <2>2 DEF Ready, Textures
<1>4. PICK c : c = AcrossOf(im[src], im[o])
  OBVIOUS
<1>5. c.op = "out" /\ c.tex = t /\ c.dst = d /\ c \in Commands
  <2>1. im[src].tex \in Nat /\ im[o].tex \in Nat
    BY <1>3 DEF Data
  <2>2. c = [op |-> "out", tex |-> im[src].tex, from |-> "", to |-> "", print |-> 0, dst |-> im[o].tex]
    BY <1>4 DEF AcrossOf, Command
  <2> QED BY <1>1, <1>2, <2>1, <2>2 DEF Commands
<1>6. WellFormed(c, Len(x))
  BY <1>3, <1>5 DEF WellFormed
<1>7. Permitted(x, c)
  BY <1>1, <1>2, <1>3, <1>5 DEF Permitted, CanHold
<1>8. PICK v : v = Laid(x[t], x[t].layout, x[t].shows)
  OBVIOUS
<1>9. PICK w : w = Laid(x[d], x[d].layout, x[t].shows)
  OBVIOUS
<1>10. v \in Textures /\ Same(x[t], v) /\ v.layout = im[src].layout /\ v.shows = x[t].shows
  BY <1>3, <1>8, LaidIs, LaidSame
<1>11. w \in Textures /\ Same(x[d], w) /\ w.layout = im[o].layout /\ w.shows = x[t].shows
  BY <1>3, <1>9, LaidIs, LaidSame
<1>12. PICK y : y = With(x, t, v)
  OBVIOUS
<1>13. After(x, c) = With(y, d, w)
  BY <1>3, <1>5, <1>8, <1>9, <1>12 DEF After, TexAfter, DstAfter
<1>15. v.layout # "Undefined" /\ w.layout # "Undefined"
  BY <1>1, <1>2, <1>3, <1>10, <1>11
<1>16. Steps(im, x, im, y, O) /\ y[t] = v /\ y[d] = x[d]
  <2>1. /\ Steps(im, x, im, With(x, im[src].tex, v), O) /\ With(x, im[src].tex, v)[im[src].tex] = v
        /\ \A q \in O : q # src => With(x, im[src].tex, v)[im[q].tex] = x[im[q].tex]
    BY <1>1, <1>10, <1>15, StayOf
  <2> QED BY <1>1, <1>2, <1>12, <2>1
<1>17. y \in Seq(Textures) /\ Apart(im, y, O)
  <2>1. Apart(im, y, O)
    BY <1>16, StepsApart
  <2> QED BY <1>16, <2>1 DEF Steps
<1>18. PICK z : z = With(y, d, w)
  OBVIOUS
<1>19. Steps(im, y, im, z, O) /\ z[d] = w /\ z[t] = v
  <2>1. Same(y[d], w)
    BY <1>11, <1>16
  <2>2. /\ Steps(im, y, im, With(y, im[o].tex, w), O) /\ With(y, im[o].tex, w)[im[o].tex] = w
        /\ \A q \in O : q # o => With(y, im[o].tex, w)[im[q].tex] = y[im[q].tex]
    BY <1>2, <1>11, <1>15, <1>17, <2>1, StayOf
  <2> QED BY <1>1, <1>2, <1>16, <1>18, <2>2
<1>20. Steps(im, x, im, z, O)
  BY <1>16, <1>19, StepsMore
<1>21. Run(Triple(im, x, "none"), c) = Triple(im, z, "none")
  BY <1>6, <1>7, <1>13, <1>18, RunIs
<1> QED BY <1>1, <1>2, <1>4, <1>10, <1>11, <1>19, <1>20, <1>21

LEMMA ByCopyImage ==
  ASSUME Disciplined, Inv, NEW o \in Objects, NEW src \in Objects, CopyImage(o, src)
  PROVE  Inv' /\ Holds' = Holds /\ Shown' = [Shown EXCEPT ![o] = Shown[src]]
<1>1. /\ UsableAtOnce(o) /\ MayTransition(o) /\ UsableAtOnce(src) /\ MayTransition(src) /\ o # src
      /\ memory' = memory /\ views' = views /\ recorded' = recorded /\ Becomes(Copied(o, src))
  BY DEF CopyImage, Disciplined, May
<1>2. PICK O : O = {o, src}
  OBVIOUS
<1>3. /\ image \in [Objects -> Data] /\ texture \in Seq(Textures)
      /\ O \in SUBSET Objects /\ o \in O /\ src \in O
  BY <1>2 DEF Inv, ImageTypeOK
<1>4. Apart(image, texture, O) /\ AtOnce(O)
  <2>1. \A q \in O : /\ Ready(image, texture, q) /\ InUse(q)
                     /\ ~texture[image[q].tex].swapchain /\ image[q].tex \notin Touched
    BY <1>1, <1>2, ReadyAtOnce
  <2>2. \A p, q \in O : image[p].tex = image[q].tex => p = q
    BY <1>3, <2>1 DEF Inv, ImageInv, HeldOnce, InUse
  <2> QED BY <1>3, <2>1, <2>2 DEF Apart, AtOnce
<1>5. "TransferDst" \in AllLayouts /\ "TransferSrc" \in AllLayouts
  BY DEF AllLayouts
<1>6. PICK im1, x1 :
        /\ Transitioned(Triple(image, texture, "none"), o, "TransferDst") = Triple(im1, x1, "none")
        /\ Steps(image, texture, im1, x1, O)
        /\ x1[image[o].tex].layout = "TransferDst"
        /\ \A q \in O : q # o => x1[image[q].tex] = texture[image[q].tex]
  BY <1>3, <1>4, <1>5, TransitionSteps
<1>7. /\ im1 \in [Objects -> Data] /\ x1 \in Seq(Textures) /\ Apart(im1, x1, O)
      /\ im1[o].tex = image[o].tex /\ im1[src].tex = image[src].tex
  <2>1. Apart(im1, x1, O)
    BY <1>4, <1>6, StepsApart
  <2> QED BY <1>6, <2>1 DEF Steps, Keeps
<1>8. PICK im2, x2 :
        /\ Transitioned(Triple(im1, x1, "none"), src, "TransferSrc") = Triple(im2, x2, "none")
        /\ Steps(im1, x1, im2, x2, O)
        /\ x2[im1[src].tex].layout = "TransferSrc" /\ x2[im1[src].tex].shows = x1[im1[src].tex].shows
        /\ \A q \in O : q # src => x2[im1[q].tex] = x1[im1[q].tex]
  BY <1>3, <1>5, <1>7, TransitionSteps
<1>9. /\ im2 \in [Objects -> Data] /\ x2 \in Seq(Textures) /\ Apart(im2, x2, O)
      /\ im2[o].tex = image[o].tex /\ im2[src].tex = image[src].tex
  <2>1. Apart(im2, x2, O)
    BY <1>7, <1>8, StepsApart
  <2>2. im2[o].tex = im1[o].tex /\ im2[src].tex = im1[src].tex
    BY <1>8 DEF Steps, Keeps
  <2> QED BY <1>7, <1>8, <2>1, <2>2 DEF Steps
<1>10. /\ x2[im2[o].tex].layout = "TransferDst" /\ x2[im2[src].tex].layout = "TransferSrc"
       /\ x2[im2[src].tex].shows = texture[image[src].tex].shows
  BY <1>1, <1>3, <1>6, <1>7, <1>8, <1>9
<1>11. PICK im3, x3 :
        /\ Run(Triple(im2, x2, "none"), AcrossOf(im2[src], im2[o])) = Triple(im3, x3, "none")
        /\ Steps(im2, x2, im3, x3, O)
        /\ x3[im2[o].tex].shows = x2[im2[src].tex].shows
        /\ x3[im2[src].tex].shows = x2[im2[src].tex].shows
  BY <1>1, <1>3, <1>9, <1>10, AcrossSteps
<1>12. /\ im3 \in [Objects -> Data] /\ x3 \in Seq(Textures) /\ Apart(im3, x3, O)
       /\ im3[o].tex = image[o].tex /\ im3[src].tex = image[src].tex
  <2>1. Apart(im3, x3, O)
    BY <1>9, <1>11, StepsApart
  <2>2. im3[o].tex = im2[o].tex /\ im3[src].tex = im2[src].tex
    BY <1>11 DEF Steps, Keeps
  <2> QED BY <1>9, <1>11, <2>1, <2>2 DEF Steps
<1>13. PICK im4, x4 :
        /\ Reverted(Triple(im3, x3, "none"), src) = Triple(im4, x4, "none")
        /\ Steps(im3, x3, im4, x4, O)
        /\ x4[im3[src].tex].shows = x3[im3[src].tex].shows
        /\ \A q \in O : q # src => x4[im3[q].tex] = x3[im3[q].tex]
  BY <1>3, <1>12, RevertSteps
<1>14. /\ im4 \in [Objects -> Data] /\ x4 \in Seq(Textures) /\ Apart(im4, x4, O)
       /\ im4[o].tex = image[o].tex /\ im4[src].tex = image[src].tex
  <2>1. Apart(im4, x4, O)
    BY <1>12, <1>13, StepsApart
  <2>2. im4[o].tex = im3[o].tex /\ im4[src].tex = im3[src].tex
    BY <1>13 DEF Steps, Keeps
  <2> QED BY <1>12, <1>13, <2>1, <2>2 DEF Steps
<1>15. PICK im5, x5 :
        /\ Reverted(Triple(im4, x4, "none"), o) = Triple(im5, x5, "none")
        /\ Steps(im4, x4, im5, x5, O)
        /\ x5[im4[o].tex].shows = x4[im4[o].tex].shows
        /\ \A q \in O : q # o => x5[im4[q].tex] = x4[im4[q].tex]
  BY <1>3, <1>14, RevertSteps
<1>16. image' = im5 /\ texture' = x5 /\ fault' = "none"
  <2>1. Here = Triple(image, texture, "none") /\ Triple(im2, x2, "none").image = im2
    BY HereIs DEF Triple
  <2>2. Copied(o, src) = Reverted(Reverted(Run(Triple(im2, x2, "none"), AcrossOf(im2[src], im2[o])), src), o)
    BY <1>6, <1>8, <2>1, Zenon DEF Copied
  <2>3. Copied(o, src) = Triple(im5, x5, "none")
    BY <1>11, <1>13, <1>15, <2>2, Zenon
  <2> QED BY <1>1, <2>3, BecomesIs
<1>17. Steps(image, texture, im5, x5, O)
  <2>1. Steps(image, texture, im2, x2, O)
    BY <1>3, <1>6, <1>8, StepsMore
  <2>2. Steps(image, texture, im3, x3, O)
    BY <1>3, <1>11, <2>1, StepsMore
  <2>3. Steps(image, texture, im4, x4, O)
    BY <1>3, <1>13, <2>2, StepsMore
  <2> QED BY <1>3, <1>15, <2>3, StepsMore
<1>18. /\ Inv' /\ Holds' = Holds
       /\ Shown' = [q \in Objects |-> IF q \in O THEN texture'[image[q].tex].shows ELSE Shown[q]]
       /\ Shown[src] = texture[image[src].tex].shows
  BY <1>1, <1>3, <1>4, <1>16, <1>17, AtOnceInv
<1>19. texture'[image[o].tex].shows = Shown[src] /\ texture'[image[src].tex].shows = Shown[src]
  <2>1. x3[image[o].tex].shows = Shown[src] /\ x3[image[src].tex].shows = Shown[src]
    BY <1>9, <1>10, <1>11, <1>18
  <2>2. x4[image[o].tex].shows = Shown[src] /\ x4[image[src].tex].shows = Shown[src]
    BY <1>1, <1>3, <1>12, <1>13, <2>1
  <2>3. x5[image[o].tex].shows = Shown[src] /\ x5[image[src].tex].shows = Shown[src]
    BY <1>1, <1>3, <1>14, <1>15, <2>2
  <2> QED BY <1>16, <2>3
<1>20. \A q \in Objects : (IF q \in O THEN texture'[image[q].tex].shows ELSE Shown[q])
                            = (IF q = o THEN Shown[src] ELSE Shown[q])
  BY <1>2, <1>19
<1>21. [Shown EXCEPT ![o] = Shown[src]] = [q \in Objects |-> IF q = o THEN Shown[src] ELSE Shown[q]]
  BY DEF Shown
<1> QED BY <1>18, <1>20, <1>21

-----------------------------------------------------------------------------
(* Chain. *)

(* One image is in another layout, or shows another picture.               *)
Turned(a, b, t, layout, print) ==
  /\ b \in Seq(Textures) /\ Len(b) = Len(a)
  /\ \A u \in DOMAIN a : u # t => b[u] = a[u]
  /\ Same(a[t], b[t]) /\ b[t].layout = layout /\ b[t].shows = print

LEMMA WithTurned ==
  ASSUME NEW a \in Seq(Textures), NEW t \in DOMAIN a, NEW layout \in AllLayouts, NEW print \in Prints \union {0}
  PROVE  Turned(a, With(a, t, Laid(a[t], layout, print)), t, layout, print)
<1>1. PICK v : v = Laid(a[t], layout, print)
  OBVIOUS
<1>2. a[t] \in Textures
  OBVIOUS
<1>3. v \in Textures /\ Same(a[t], v) /\ v.layout = layout /\ v.shows = print
  BY <1>1, <1>2, LaidIs, LaidSame
<1>4. PICK b : b = With(a, t, v)
  OBVIOUS
<1>5. /\ b \in Seq(Textures) /\ Len(b) = Len(a) /\ b[t] = v
      /\ \A u \in DOMAIN a : u # t => b[u] = a[u]
  BY <1>3, <1>4, WithIs
<1>6. Turned(a, b, t, layout, print)
  BY <1>3, <1>5 DEF Turned
<1> QED BY <1>1, <1>4, <1>6

LEMMA TurnedTwice ==
  ASSUME NEW a \in Seq(Textures), NEW b, NEW c, NEW t \in DOMAIN a, NEW l, NEW p, NEW m, NEW q,
         Turned(a, b, t, l, p), Turned(b, c, t, m, q)
  PROVE  Turned(a, c, t, m, q)
BY DEF Turned, Same

(* A command that may be recorded for an image, and what comes of it.      *)
Records(c, a, b) ==
  /\ c \in Commands /\ Fit(c) /\ WellFormed(c, Len(a)) /\ Permitted(a, c) /\ b = After(a, c)

(* An object, the state its image will be in, and the image as it is.      *)
Held1(i, a) ==
  LET t == i.tex
  IN  /\ i \in Data /\ a \in Seq(Textures) /\ Len(a) = Len(texture)
      /\ Live(t) /\ t \in DOMAIN a /\ a[t].live /\ ~a[t].depth /\ a[t].bound
      /\ a[t].layout = "Undefined" => a[t].shows = 0

LEMMA RecordBarrier ==
  ASSUME ImageTypeOK, NEW i, NEW a, Held1(i, a), NEW layout \in AllLayouts, layout # "Undefined"
  PROVE  \E b : Records(BarrierOf(i, a[i.tex].layout, layout), a, b)
                /\ Turned(a, b, i.tex, layout, a[i.tex].shows)
<1>1. PICK t : t = i.tex
  OBVIOUS
<1>2. PICK c : c = BarrierOf(i, a[t].layout, layout)
  OBVIOUS
<1>3. /\ a \in Seq(Textures) /\ Len(a) = Len(texture) /\ t \in DOMAIN a /\ a[t].live /\ ~a[t].depth /\ a[t].bound
      /\ a[t].layout = "Undefined" => a[t].shows = 0
  BY <1>1 DEF Held1
<1>4. a[t] \in Textures
  BY <1>3
<1>5. a[t].layout \in AllLayouts /\ a[t].shows \in Prints \union {0}
  BY <1>4 DEF Textures
<1>6. t \in Nat /\ t \in 1 .. Len(a) /\ t <= Len(texture)
  BY <1>3
<1>7. /\ c.op = "barrier" /\ c.tex = t /\ c.from = a[t].layout /\ c.to = layout /\ c.dst = 0
      /\ c \in Commands
  <2>1. c = [op |-> "barrier", tex |-> t, from |-> a[t].layout, to |-> layout, print |-> 0, dst |-> 0]
    BY <1>1, <1>2 DEF BarrierOf, Command
  <2> QED BY <1>5, <1>6, <2>1 DEF Commands
<1>8. WellFormed(c, Len(a)) /\ Permitted(a, c)
  BY <1>3, <1>6, <1>7 DEF WellFormed, Permitted
<1>9. Fit(c)
  <2>1. layout # ""
    BY ImageAssumption DEF AllLayouts
  <2>2. Live(t)
    BY <1>1 DEF Held1
  <2> QED BY <1>6, <1>7, <2>1, <2>2 DEF Fit
<1>10. After(a, c) = With(a, t, Laid(a[t], layout, a[t].shows))
  <2>1. Left(a, c) = a[t].shows
    BY <1>3, <1>7 DEF Left
  <2> QED BY <1>7, <2>1 DEF After, TexAfter
<1>11. Turned(a, After(a, c), t, layout, a[t].shows)
  BY <1>3, <1>5, <1>10, WithTurned
<1>12. Records(c, a, After(a, c))
  BY <1>7, <1>8, <1>9 DEF Records
<1> QED BY <1>1, <1>2, <1>11, <1>12

LEMMA RecordIn ==
  ASSUME ImageTypeOK, NEW i, NEW a, Held1(i, a), NEW print \in Prints, a[i.tex].layout = "TransferDst"
  PROVE  \E b : Records(InOf(i, print), a, b) /\ Turned(a, b, i.tex, "TransferDst", print)
<1>1. PICK t : t = i.tex
  OBVIOUS
<1>2. PICK c : c = InOf(i, print)
  OBVIOUS
<1>3. /\ a \in Seq(Textures) /\ Len(a) = Len(texture) /\ t \in DOMAIN a /\ a[t].live
      /\ a[t].layout = "TransferDst"
  BY <1>1 DEF Held1
<1>6. t \in Nat /\ t \in 1 .. Len(a) /\ t <= Len(texture)
  BY <1>3
<1>7. c.op = "in" /\ c.tex = t /\ c.print = print /\ c.dst = 0 /\ c \in Commands
  <2>1. c = [op |-> "in", tex |-> t, from |-> "", to |-> "", print |-> print, dst |-> 0]
    BY <1>1, <1>2 DEF InOf, Command
  <2> QED BY <1>6, <2>1 DEF Commands
<1>8. WellFormed(c, Len(a)) /\ Permitted(a, c)
  BY <1>3, <1>6, <1>7 DEF WellFormed, Permitted, CanHold
<1>9. Fit(c)
  <2>2. Live(t)
    BY <1>1 DEF Held1
  <2> QED BY <1>6, <1>7, <2>2 DEF Fit
<1>10. After(a, c) = With(a, t, Laid(a[t], "TransferDst", print))
  BY <1>3, <1>7 DEF After, TexAfter
<1>11. Turned(a, After(a, c), t, "TransferDst", print)
  <2>1. "TransferDst" \in AllLayouts
    BY DEF AllLayouts
  <2> QED BY <1>3, <1>10, <2>1, WithTurned
<1>12. Records(c, a, After(a, c))
  BY <1>7, <1>8, <1>9 DEF Records
<1> QED BY <1>1, <1>2, <1>11, <1>12

LEMMA RecordOut ==
  ASSUME ImageTypeOK, NEW i, NEW a, Held1(i, a), a[i.tex].layout = "TransferSrc"
  PROVE  \E b : Records(OutOf(i), a, b) /\ Turned(a, b, i.tex, "TransferSrc", a[i.tex].shows)
<1>1. PICK t : t = i.tex
  OBVIOUS
<1>2. PICK c : c = OutOf(i)
  OBVIOUS
<1>3. /\ a \in Seq(Textures) /\ Len(a) = Len(texture) /\ t \in DOMAIN a /\ a[t].live
      /\ a[t].layout = "TransferSrc"
  BY <1>1 DEF Held1
<1>4. a[t] \in Textures
  BY <1>3
<1>5. a[t].layout \in AllLayouts /\ a[t].shows \in Prints \union {0}
  BY <1>4 DEF Textures
<1>6. t \in Nat /\ t \in 1 .. Len(a) /\ t <= Len(texture)
  BY <1>3
<1>7. c.op = "out" /\ c.tex = t /\ c.dst = 0 /\ c \in Commands
  <2>1. c = [op |-> "out", tex |-> t, from |-> "", to |-> "", print |-> 0, dst |-> 0]
    BY <1>1, <1>2 DEF OutOf, Command
  <2> QED BY <1>6, <2>1 DEF Commands
<1>8. WellFormed(c, Len(a)) /\ Permitted(a, c)
  BY <1>3, <1>6, <1>7 DEF WellFormed, Permitted, CanHold
<1>9. Fit(c)
  <2>2. Live(t)
    BY <1>1 DEF Held1
  <2> QED BY <1>6, <1>7, <2>2 DEF Fit
<1>10. After(a, c) = With(a, t, Laid(a[t], a[t].layout, a[t].shows))
  BY <1>7 DEF After, TexAfter
<1>11. Turned(a, After(a, c), t, a[t].layout, a[t].shows)
  BY <1>3, <1>5, <1>10, WithTurned
<1>12. Records(c, a, After(a, c))
  BY <1>7, <1>8, <1>9 DEF Records
<1> QED BY <1>1, <1>2, <1>3, <1>11, <1>12

(* What is recorded, and what the images will be.                          *)
Leads(cs, a) ==
  /\ cs \in Seq(Commands) /\ \A k \in DOMAIN cs : Fit(cs[k])
  /\ Submitted(State(texture, "none"), cs) = State(a, "none")

LEMMA LeadsMore ==
  ASSUME NEW cs, NEW a \in Seq(Textures), NEW c, NEW b, Leads(cs, a), Records(c, a, b)
  PROVE  Leads(Append(cs, c), b) /\ Len(Append(cs, c)) = Len(cs) + 1
<1>1. cs \in Seq(Commands) /\ c \in Commands /\ Fit(c) /\ \A k \in DOMAIN cs : Fit(cs[k])
  BY DEF Leads, Records
<1>2. Submitted(State(texture, "none"), Append(cs, c)) = State(b, "none")
  BY <1>1, AheadMore DEF Leads, Records
<1>3. /\ Append(cs, c) \in Seq(Commands) /\ Len(Append(cs, c)) = Len(cs) + 1
      /\ \A k \in DOMAIN Append(cs, c) : k \in DOMAIN cs \/ k = Len(cs) + 1
      /\ \A k \in DOMAIN cs : Append(cs, c)[k] = cs[k]
      /\ Append(cs, c)[Len(cs) + 1] = c
  BY <1>1, AppendProperties
<1>4. \A k \in DOMAIN Append(cs, c) : Fit(Append(cs, c)[k])
  BY <1>1, <1>3
<1> QED BY <1>2, <1>3, <1>4 DEF Leads

LEMMA LeadsNow ==
  ASSUME Inv
  PROVE  \E a : /\ Leads(recorded, a) /\ Ahead = State(a, "none") /\ Ahead.texture = a
                /\ a \in Seq(Textures) /\ Len(a) = Len(texture)
                /\ \A t \in DOMAIN texture : Same(texture[t], a[t])
<1>1. PICK a : /\ Ahead = State(a, "none") /\ Ahead.texture = a
               /\ a \in Seq(Textures) /\ Len(a) = Len(texture)
               /\ \A t \in DOMAIN texture : Same(texture[t], a[t])
  BY AheadIs
<1>2. Ahead = Submitted(State(texture, "none"), recorded)
  BY DEF Inv, NoFault, Ahead, Now, State
<1>3. recorded \in Seq(Commands) /\ \A k \in DOMAIN recorded : Fit(recorded[k])
  BY RecordedFit DEF Inv, ImageTypeOK
<1> QED BY <1>1, <1>2, <1>3 DEF Leads

LEMMA ChainInv ==
  ASSUME Inv, image' \in [Objects -> Data], \A q \in Objects : Keeps(image[q], image'[q]),
         texture' = texture, memory' = memory, views' = views, fault' = fault, Len(recorded') <= MaxRecorded,
         NEW O \in SUBSET Objects, NEW a, NEW b, Ahead = State(a, "none"), Leads(recorded', b), Settled(O, a, b)
  PROVE  /\ Inv' /\ Holds' = Holds
         /\ Shown' = [q \in Objects |-> IF q \in O THEN b[image[q].tex].shows ELSE Shown[q]]
<1>1. fault' = "none" /\ texture \in Seq(Textures)
  BY DEF Inv, NoFault, ImageTypeOK
<1>2. Kept
  BY <1>1 DEF Kept, Same
<1>3. Ahead' = State(b, "none")
  <2>1. Submitted(State(texture, "none"), recorded') = State(b, "none")
    BY DEF Leads
  <2>2. Now' = State(texture, "none")
    BY <1>1 DEF Now, State
  <2>3. Ahead' = Submitted(Now', recorded')
    BY DEF Ahead
  <2> QED BY <2>1, <2>2, <2>3
<1>4. recorded' \in Seq(Commands) /\ \A k \in DOMAIN recorded' : Fit(recorded'[k])
  BY DEF Leads
<1>5. Inv' /\ Holds' = Holds
  BY <1>1, <1>2, <1>3, <1>4, KeptInv, KeptHolds
<1>6. Shown' = [q \in Objects |-> IF q \in O THEN b[image[q].tex].shows ELSE Shown[q]]
  BY <1>2, <1>3, KeptShown
<1> QED BY <1>5, <1>6

LEMMA TurnedSettled ==
  ASSUME NEW o \in Objects, InUse(o), ~texture[image[o].tex].swapchain,
         \A q \in Objects \ {o} : image'[q].layout = image[q].layout,
         NEW a, NEW b, NEW layout, NEW print, image'[o].layout = layout, DOMAIN a = DOMAIN texture,
         Turned(a, b, image[o].tex, layout, print), layout = "Undefined" => print = 0
  PROVE  Settled({o}, a, b)
BY DEF Turned, Settled

(* An object that a chain may use. *)
LEMMA MayRecord ==
  ASSUME Disciplined, Inv, NEW o \in Objects, Usable(o), MayTransition(o),
         NEW a, Ahead.texture = a, a \in Seq(Textures), Len(a) = Len(texture),
         \A t \in DOMAIN texture : Same(texture[t], a[t])
  PROVE  /\ Held1(image[o], a) /\ a[image[o].tex].layout = image[o].layout
         /\ InUse(o) /\ ~texture[image[o].tex].swapchain /\ image[o].tex \in DOMAIN texture
<1>1. /\ InUse(o) /\ image[o].tex \in DOMAIN texture /\ texture[image[o].tex].live
      /\ ~texture[image[o].tex].swapchain /\ ~texture[image[o].tex].depth /\ texture[image[o].tex].bound
      /\ a[image[o].tex].layout = image[o].layout
      /\ a[image[o].tex].layout = "Undefined" => a[image[o].tex].shows = 0
  BY MayUse
<1>2. a[image[o].tex].live /\ ~a[image[o].tex].depth /\ a[image[o].tex].bound
  BY <1>1 DEF Same
<1>3. image[o] \in Data /\ Live(image[o].tex) /\ DOMAIN a = DOMAIN texture
  BY <1>1 DEF Inv, ImageTypeOK, InUse
<1> QED BY <1>1, <1>2, <1>3 DEF Held1

LEMMA TrackedIs ==
  ASSUME NEW i \in Data, NEW layout \in AllLayouts
  PROVE  /\ Tracked(i, layout) \in Data /\ Keeps(i, Tracked(i, layout))
         /\ Tracked(i, layout).layout = IF layout = "Undefined" THEN i.layout ELSE layout
BY DEF Data, Keeps, Tracked

LEMMA SetImage ==
  ASSUME image \in [Objects -> Data], NEW o \in Objects, NEW j \in Data, Keeps(image[o], j),
         image' = [image EXCEPT ![o] = j]
  PROVE  /\ image' \in [Objects -> Data] /\ image'[o] = j
         /\ \A q \in Objects : Keeps(image[q], image'[q])
         /\ \A q \in Objects \ {o} : image'[q].layout = image[q].layout
<1>1. \A q \in Objects : Keeps(image[q], image[q])
  BY DEF Keeps
<1> QED BY <1>1

LEMMA ByChainTransition ==
  ASSUME Disciplined, Inv, NEW o \in Objects, NEW layout \in Layouts, ChainTransition(o, layout)
  PROVE  Inv' /\ Holds' = Holds /\ Shown' = Shown
<1>1. /\ Usable(o) /\ MayTransition(o) /\ Len(recorded) + 1 <= MaxRecorded
      /\ recorded' = recorded \o Barriers(image[o], layout)
      /\ image' = [image EXCEPT ![o] = Tracked(image[o], layout)]
      /\ texture' = texture /\ memory' = memory /\ views' = views /\ fault' = fault
  BY DEF ChainTransition, Room
<1>2. layout \in AllLayouts /\ layout # "Undefined"
  BY ImageAssumption DEF AllLayouts
<1>3. PICK a : /\ Leads(recorded, a) /\ Ahead = State(a, "none") /\ Ahead.texture = a
               /\ a \in Seq(Textures) /\ Len(a) = Len(texture)
               /\ \A t \in DOMAIN texture : Same(texture[t], a[t])
  BY LeadsNow
<1>4. /\ Held1(image[o], a) /\ a[image[o].tex].layout = image[o].layout
      /\ InUse(o) /\ ~texture[image[o].tex].swapchain /\ image[o].tex \in DOMAIN texture
  BY <1>1, <1>3, MayRecord
<1>5. ImageTypeOK /\ image \in [Objects -> Data] /\ image[o] \in Data /\ recorded \in Seq(Commands)
  BY DEF Inv, ImageTypeOK
<1>6. PICK b : /\ Records(BarrierOf(image[o], a[image[o].tex].layout, layout), a, b)
               /\ Turned(a, b, image[o].tex, layout, a[image[o].tex].shows)
  BY <1>2, <1>4, <1>5, RecordBarrier
<1>7. PICK c : c = BarrierOf(image[o], image[o].layout, layout)
  OBVIOUS
<1>8. Records(c, a, b)
  BY <1>4, <1>6, <1>7
<1>9. recorded' = Append(recorded, c)
  <2>1. image[o].layout \in AllLayouts
    BY <1>5 DEF Data
  <2>2. Barriers(image[o], layout) = <<c>>
    BY <1>2, <1>7, <2>1, ConvertIs DEF Barriers
  <2>3. c \in Commands
    BY <1>8 DEF Records
  <2> QED BY <1>1, <1>5, <2>2, <2>3
<1>10. Leads(recorded', b) /\ Len(recorded') = Len(recorded) + 1
  BY <1>3, <1>8, <1>9, LeadsMore
<1>11. PICK j \in Data : j = Tracked(image[o], layout) /\ Keeps(image[o], j) /\ j.layout = layout
  BY <1>2, <1>5, TrackedIs
<1>12. /\ image' \in [Objects -> Data] /\ image'[o].layout = layout
       /\ \A q \in Objects : Keeps(image[q], image'[q])
       /\ \A q \in Objects \ {o} : image'[q].layout = image[q].layout
  BY <1>1, <1>5, <1>11, SetImage
<1>13. Settled({o}, a, b)
  <2>1. DOMAIN a = DOMAIN texture
    BY <1>3, <1>5 DEF ImageTypeOK
  <2> QED BY <1>2, <1>4, <1>6, <1>12, <2>1, TurnedSettled
<1>14. /\ Inv' /\ Holds' = Holds
       /\ Shown' = [q \in Objects |-> IF q \in {o} THEN b[image[q].tex].shows ELSE Shown[q]]
  <2>1. Len(recorded') <= MaxRecorded
    BY <1>1, <1>10
  <2>2. PICK O : O = {o}
    OBVIOUS
  <2>3. O \in SUBSET Objects /\ Settled(O, a, b)
    BY <1>13, <2>2
  <2>4. Inv' /\ Holds' = Holds /\ Shown' = [q \in Objects |-> IF q \in O THEN b[image[q].tex].shows ELSE Shown[q]]
    BY <1>1, <1>3, <1>10, <1>12, <2>1, <2>3, ChainInv
  <2> QED BY <2>2, <2>4
<1>15. b[image[o].tex].shows = Shown[o]
  BY <1>3, <1>4, <1>6, ShownIs DEF Turned
<1>16. \A q \in Objects : (IF q \in {o} THEN b[image[q].tex].shows ELSE Shown[q]) = Shown[q]
  BY <1>15
<1>17. Shown = [q \in Objects |-> Shown[q]]
  BY DEF Shown
<1> QED BY <1>14, <1>16, <1>17

LEMMA HeldTurned ==
  ASSUME NEW i, NEW a, Held1(i, a), NEW j \in Data, j.tex = i.tex, NEW b, NEW layout, NEW print,
         Turned(a, b, i.tex, layout, print), layout # "Undefined"
  PROVE  Held1(j, b)
BY DEF Held1, Turned, Same

LEMMA ByChainCopyIn ==
  ASSUME Disciplined, Inv, NEW o \in Objects, NEW print \in Prints, ChainCopyIn(o, print)
  PROVE  Inv' /\ Holds' = Holds /\ Shown' = [Shown EXCEPT ![o] = print]
<1>1. PICK i : i = image[o]
  OBVIOUS
<1>2. PICK to : to = Tracked(i, "TransferDst")
  OBVIOUS
<1>3. /\ Usable(o) /\ MayTransition(o) /\ Len(recorded) + 3 <= MaxRecorded
      /\ recorded' = recorded \o Barriers(i, "TransferDst") \o <<InOf(i, print)>>
                              \o Barriers(to, Convert(i.layout))
      /\ image' = [image EXCEPT ![o] = Tracked(to, Convert(i.layout))]
      /\ texture' = texture /\ memory' = memory /\ views' = views /\ fault' = fault
  BY <1>1, <1>2 DEF ChainCopyIn, Room
<1>4. PICK a : /\ Leads(recorded, a) /\ Ahead = State(a, "none") /\ Ahead.texture = a
               /\ a \in Seq(Textures) /\ Len(a) = Len(texture)
               /\ \A t \in DOMAIN texture : Same(texture[t], a[t])
  BY LeadsNow
<1>5. /\ Held1(i, a) /\ a[i.tex].layout = i.layout
      /\ InUse(o) /\ ~texture[i.tex].swapchain /\ i.tex \in DOMAIN texture
  BY <1>1, <1>3, <1>4, MayRecord
<1>6. /\ ImageTypeOK /\ image \in [Objects -> Data] /\ i \in Data /\ recorded \in Seq(Commands)
      /\ Len(recorded) \in Nat /\ MaxRecorded \in Nat
  BY <1>1, ImageAssumption DEF Inv, ImageTypeOK
<1>7. "TransferDst" \in AllLayouts /\ i.layout \in AllLayouts /\ Convert(i.layout) = i.layout
  <2>1. i.layout \in AllLayouts
    BY <1>6 DEF Data
  <2> QED BY <2>1, ConvertIs DEF AllLayouts
<1>8. to \in Data /\ Keeps(i, to) /\ to.layout = "TransferDst" /\ to.tex = i.tex
  BY <1>2, <1>6, <1>7, TrackedIs DEF Keeps
<1>9. PICK c1 : c1 = BarrierOf(i, i.layout, "TransferDst")
  OBVIOUS
<1>10. PICK a1 : Records(c1, a, a1) /\ Turned(a, a1, i.tex, "TransferDst", a[i.tex].shows)
  <2>1. \E b : /\ Records(BarrierOf(i, a[i.tex].layout, "TransferDst"), a, b)
               /\ Turned(a, b, i.tex, "TransferDst", a[i.tex].shows)
    BY <1>5, <1>6, <1>7, RecordBarrier
  <2> QED BY <1>5, <1>9, <2>1
<1>11. PICK cs1 : cs1 = Append(recorded, c1)
  OBVIOUS
<1>12. Leads(cs1, a1) /\ Len(cs1) = Len(recorded) + 1
  BY <1>4, <1>10, <1>11, LeadsMore
<1>13. a1 \in Seq(Textures) /\ Held1(i, a1) /\ a1[i.tex].layout = "TransferDst" /\ DOMAIN a1 = DOMAIN a
  <2>1. Held1(i, a1)
    BY <1>5, <1>6, <1>10, HeldTurned
  <2> QED BY <1>4, <1>10, <2>1 DEF Turned
<1>14. PICK c2 : c2 = InOf(i, print)
  OBVIOUS
<1>15. PICK a2 : Records(c2, a1, a2) /\ Turned(a1, a2, i.tex, "TransferDst", print)
  BY <1>6, <1>13, <1>14, RecordIn
<1>16. PICK cs2 : cs2 = Append(cs1, c2)
  OBVIOUS
<1>17. Leads(cs2, a2) /\ Len(cs2) = Len(recorded) + 2
  <2>1. Leads(cs2, a2) /\ Len(cs2) = Len(cs1) + 1
    BY <1>12, <1>13, <1>15, <1>16, LeadsMore
  <2> QED BY <1>6, <1>12, <2>1
<1>18. Turned(a, a2, i.tex, "TransferDst", print)
  <2>1. i.tex \in DOMAIN a
    BY <1>5 DEF Held1
  <2> QED BY <1>4, <1>10, <1>15, <2>1, TurnedTwice
<1>19. a2 \in Seq(Textures) /\ Held1(to, a2) /\ a2[i.tex].layout = "TransferDst" /\ a2[i.tex].shows = print
  <2>1. Held1(to, a2)
    BY <1>5, <1>8, <1>18, HeldTurned
  <2> QED BY <1>18, <2>1 DEF Turned
<1>20. PICK cs3 : cs3 = Barriers(to, i.layout)
  OBVIOUS
<1>21. recorded' = cs2 \o cs3
  <2>1. Barriers(i, "TransferDst") = <<c1>>
    BY <1>7, <1>9 DEF Barriers
  <2>2. c1 \in Commands /\ c2 \in Commands
    BY <1>10, <1>15 DEF Records
  <2>3. recorded \o <<c1>> = cs1
    BY <1>6, <1>11, <2>2
  <2>4. cs1 \in Seq(Commands)
    BY <1>12 DEF Leads
  <2>5. cs1 \o <<c2>> = cs2
    BY <1>16, <2>2, <2>4
  <2> QED BY <1>3, <1>7, <1>14, <1>20, <2>1, <2>3, <2>5
<1>22. PICK j : j = Tracked(to, i.layout)
  OBVIOUS
<1>23. /\ j \in Data /\ Keeps(image[o], j)
       /\ j.layout = IF i.layout = "Undefined" THEN "TransferDst" ELSE i.layout
  <2>1. j \in Data /\ Keeps(to, j) /\ j.layout = IF i.layout = "Undefined" THEN "TransferDst" ELSE i.layout
    BY <1>7, <1>8, <1>22, TrackedIs
  <2> QED BY <1>1, <1>8, <2>1 DEF Keeps
<1>24. /\ image' \in [Objects -> Data] /\ image'[o] = j
       /\ \A q \in Objects : Keeps(image[q], image'[q])
       /\ \A q \in Objects \ {o} : image'[q].layout = image[q].layout
  BY <1>3, <1>6, <1>7, <1>22, <1>23, SetImage
<1>25. \E b : Leads(recorded', b) /\ Len(recorded') <= MaxRecorded /\ Turned(a, b, i.tex, j.layout, print)
  <2>1. CASE i.layout = "Undefined"
    <3>1. cs3 = <<>>
      BY <1>20, <2>1 DEF Barriers
    <3>2. recorded' = cs2
      BY <1>17, <1>21, <3>1 DEF Leads
    <3>3. Len(recorded') <= MaxRecorded
      BY <1>3, <1>6, <1>17, <3>2
    <3>4. j.layout = "TransferDst"
      BY <1>23, <2>1
    <3> QED BY <1>17, <1>18, <3>2, <3>3, <3>4
  <2>2. CASE i.layout # "Undefined"
    <3>1. PICK c3 : c3 = BarrierOf(to, "TransferDst", i.layout)
      OBVIOUS
    <3>2. cs3 = <<c3>>
      BY <1>7, <1>8, <1>20, <2>2, <3>1, ConvertIs DEF Barriers
    <3>3. PICK b : Records(c3, a2, b) /\ Turned(a2, b, i.tex, i.layout, print)
      <4>1. \E b : /\ Records(BarrierOf(to, a2[to.tex].layout, i.layout), a2, b)
                   /\ Turned(a2, b, to.tex, i.layout, a2[to.tex].shows)
        BY <1>6, <1>7, <1>19, <2>2, RecordBarrier
      <4> QED BY <1>8, <1>19, <3>1, <4>1
    <3>4. recorded' = Append(cs2, c3)
      <4>1. c3 \in Commands /\ cs2 \in Seq(Commands)
        BY <1>17, <3>3 DEF Records, Leads
      <4> QED BY <1>21, <3>2, <4>1
    <3>5. Leads(recorded', b) /\ Len(recorded') = Len(cs2) + 1
      BY <1>17, <1>19, <3>3, <3>4, LeadsMore
    <3>6. Turned(a, b, i.tex, i.layout, print)
      <4>1. i.tex \in DOMAIN a
        BY <1>5 DEF Held1
      <4> QED BY <1>4, <1>18, <3>3, <4>1, TurnedTwice
    <3> QED BY <1>3, <1>6, <1>17, <1>23, <2>2, <3>5, <3>6
  <2> QED BY <2>1, <2>2
<1>26. PICK b : Leads(recorded', b) /\ Len(recorded') <= MaxRecorded /\ Turned(a, b, i.tex, j.layout, print)
  BY <1>25
<1>27. Settled({o}, a, b)
  <2>1. DOMAIN a = DOMAIN texture
    BY <1>4, <1>6 DEF ImageTypeOK
  <2>2. j.layout # "Undefined"
    BY <1>23
  <2> QED BY <1>1, <1>5, <1>24, <1>26, <2>1, <2>2, TurnedSettled
<1>28. PICK O : O = {o}
  OBVIOUS
<1>29. O \in SUBSET Objects /\ Settled(O, a, b)
  BY <1>27, <1>28
<1>30. Inv' /\ Holds' = Holds /\ Shown' = [q \in Objects |-> IF q \in O THEN b[image[q].tex].shows ELSE Shown[q]]
  BY <1>3, <1>4, <1>24, <1>26, <1>29, ChainInv, SMTT(30)
<1>31. b[image[o].tex].shows = print
  BY <1>1, <1>26 DEF Turned
<1>32. \A q \in Objects : (IF q \in O THEN b[image[q].tex].shows ELSE Shown[q]) = (IF q = o THEN print ELSE Shown[q])
  BY <1>28, <1>31
<1>33. [Shown EXCEPT ![o] = print] = [q \in Objects |-> IF q = o THEN print ELSE Shown[q]]
  BY DEF Shown
<1> QED BY <1>30, <1>32, <1>33

(* Nothing but the device's own doing. *)
LEMMA NothingSettled ==
  ASSUME image' = image, NEW a, NEW b,
         \A t \in DOMAIN texture : b[t].layout = a[t].layout /\ b[t].shows = a[t].shows
  PROVE  Settled({}, a, b)
BY DEF Settled

LEMMA ByChainCopyOut ==
  ASSUME Disciplined, Inv, NEW o \in Objects, ChainCopyOut(o)
  PROVE  Inv' /\ Holds' = Holds /\ Shown' = Shown
<1>1. PICK i : i = image[o]
  OBVIOUS
<1>2. /\ Usable(o) /\ MayTransition(o) /\ Len(recorded) + 1 <= MaxRecorded /\ i.layout = "TransferSrc"
      /\ recorded' = Append(recorded, OutOf(i))
      /\ image' = image /\ texture' = texture /\ memory' = memory /\ views' = views /\ fault' = fault
  BY <1>1 DEF ChainCopyOut, Room, Disciplined, May
<1>3. PICK a : /\ Leads(recorded, a) /\ Ahead = State(a, "none") /\ Ahead.texture = a
               /\ a \in Seq(Textures) /\ Len(a) = Len(texture)
               /\ \A t \in DOMAIN texture : Same(texture[t], a[t])
  BY LeadsNow
<1>4. /\ Held1(i, a) /\ a[i.tex].layout = i.layout
      /\ InUse(o) /\ ~texture[i.tex].swapchain /\ i.tex \in DOMAIN texture
  BY <1>1, <1>2, <1>3, MayRecord
<1>5. ImageTypeOK /\ image \in [Objects -> Data]
  BY DEF Inv, ImageTypeOK
<1>6. PICK b : Records(OutOf(i), a, b) /\ Turned(a, b, i.tex, "TransferSrc", a[i.tex].shows)
  BY <1>2, <1>4, <1>5, RecordOut
<1>7. Leads(recorded', b) /\ Len(recorded') = Len(recorded) + 1
  BY <1>2, <1>3, <1>6, LeadsMore
<1>8. PICK O : O = {}
  OBVIOUS
<1>9. O \in SUBSET Objects /\ Settled(O, a, b)
  <2>1. DOMAIN a = DOMAIN texture
    BY <1>3, <1>5 DEF ImageTypeOK
  <2>2. \A t \in DOMAIN texture : b[t].layout = a[t].layout /\ b[t].shows = a[t].shows
    BY <1>2, <1>4, <1>6, <2>1 DEF Turned
  <2> QED BY <1>2, <1>8, <2>2, NothingSettled
<1>10. Len(recorded') <= MaxRecorded /\ \A q \in Objects : Keeps(image[q], image'[q])
  BY <1>2, <1>7 DEF Keeps
<1>11. Inv' /\ Holds' = Holds /\ Shown' = [q \in Objects |-> IF q \in O THEN b[image[q].tex].shows ELSE Shown[q]]
  BY <1>2, <1>3, <1>5, <1>7, <1>9, <1>10, ChainInv
<1>12. Shown = [q \in Objects |-> Shown[q]]
  BY DEF Shown
<1> QED BY <1>8, <1>11, <1>12

LEMMA BySubmit ==
  ASSUME Inv, ChainSubmit
  PROVE  Inv' /\ Holds' = Holds /\ Shown' = Shown
<1>1. /\ texture' = Ahead.texture /\ fault' = Ahead.fault /\ recorded' = <<>>
      /\ image' = image /\ memory' = memory /\ views' = views
  BY DEF ChainSubmit
<1>2. PICK a : /\ Ahead = State(a, "none") /\ Ahead.texture = a
               /\ a \in Seq(Textures) /\ Len(a) = Len(texture)
               /\ \A t \in DOMAIN texture : Same(texture[t], a[t])
  BY AheadIs
<1>3. texture' = a /\ fault' = "none"
  BY <1>1, <1>2 DEF State
<1>4. Ahead' = State(a, "none")
  <2>1. Now' = State(a, "none")
    BY <1>3 DEF Now, State
  <2>2. Ahead' = Submitted(Now', <<>>)
    BY <1>1 DEF Ahead
  <2> QED BY <2>1, <2>2, SubmittedNone
<1>5. Kept
  BY <1>1, <1>2, <1>3 DEF Kept, Keeps, Inv, ImageTypeOK
<1>6. /\ recorded' \in Seq(Commands) /\ Len(recorded') <= MaxRecorded
      /\ \A k \in DOMAIN recorded' : Fit(recorded'[k])
  BY <1>1, ImageAssumption
<1>7. PICK O : O = {}
  OBVIOUS
<1>8. O \in SUBSET Objects /\ Settled(O, a, a)
  BY <1>1, <1>7, NothingSettled
<1>9. Inv' /\ Holds' = Holds
  BY <1>2, <1>3, <1>4, <1>5, <1>6, <1>8, KeptInv, KeptHolds
<1>10. Shown' = [q \in Objects |-> IF q \in O THEN a[image[q].tex].shows ELSE Shown[q]]
  BY <1>2, <1>4, <1>5, <1>8, KeptShown
<1>11. Shown = [q \in Objects |-> Shown[q]]
  BY DEF Shown
<1> QED BY <1>7, <1>9, <1>10, <1>11

LEMMA BySynchronize ==
  ASSUME Inv, Synchronize
  PROVE  Inv' /\ Holds' = Holds /\ Shown' = Shown
<1>1. /\ texture' = [k \in DOMAIN texture |-> [texture[k] EXCEPT !.pending = FALSE]]
      /\ image' = image /\ memory' = memory /\ views' = views /\ recorded' = recorded /\ fault' = "none"
  BY DEF Synchronize, Inv, NoFault
<1>2. texture \in Seq(Textures) /\ image \in [Objects -> Data] /\ recorded \in Seq(Commands) /\ Len(recorded) <= MaxRecorded
  BY DEF Inv, ImageTypeOK
<1>3. \A t \in DOMAIN texture : texture'[t] \in Textures /\ Alike(texture[t], texture'[t])
  <2>1. ASSUME NEW u \in Textures
        PROVE  [u EXCEPT !.pending = FALSE] \in Textures /\ Alike(u, [u EXCEPT !.pending = FALSE])
    BY DEF Textures, Alike, Same
  <2>2. \A t \in DOMAIN texture : texture[t] \in Textures /\ texture'[t] = [texture[t] EXCEPT !.pending = FALSE]
    BY <1>1, <1>2
  <2> QED BY <2>1, <2>2
<1>4. texture' \in Seq(Textures) /\ Len(texture') = Len(texture) /\ DOMAIN texture' = DOMAIN texture
  <2>1. DOMAIN texture' = 1 .. Len(texture) /\ Len(texture) \in Nat
    BY <1>1, <1>2
  <2>2. texture' = [t \in 1 .. Len(texture) |-> texture'[t]]
    BY <1>1, <2>1
  <2>3. \A t \in 1 .. Len(texture) : texture'[t] \in Textures
    BY <1>1, <1>3, <2>1
  <2> QED BY <2>1, <2>2, <2>3
<1>5. PICK a, b : Ahead = State(a, "none") /\ Ahead' = State(b, "none") /\ Agree(texture, texture', a, b, Touched)
  <2>1. \A t \in Touched : Alike(texture[t], texture'[t])
    BY <1>3 DEF Touched
  <2>2. Len(texture) <= Len(texture')
    BY <1>2, <1>4
  <2> QED BY <1>1, <1>4, <2>1, <2>2, AheadThen
<1>6. \A t \in DOMAIN texture : b[t].layout = a[t].layout /\ b[t].shows = a[t].shows
  <2>1. ASSUME NEW t \in DOMAIN texture
        PROVE  Alike(a[t], b[t])
    <3>1. CASE t \in Touched
      BY <1>5, <3>1 DEF Agree
    <3>2. CASE t \notin Touched
      <4>1. a[t] = texture[t] /\ b[t] = texture'[t]
        BY <1>4, <1>5, <3>2 DEF Agree
      <4> QED BY <1>3, <4>1
    <3> QED BY <3>1, <3>2
  <2> QED BY <2>1 DEF Alike
<1>7. Kept
  BY <1>1, <1>2, <1>3, <1>4 DEF Kept, Keeps, Alike
<1>8. \A k \in DOMAIN recorded' : Fit(recorded'[k])
  BY <1>1, RecordedFit
<1>9. PICK O : O = {}
  OBVIOUS
<1>10. O \in SUBSET Objects /\ Settled(O, a, b)
  BY <1>1, <1>6, <1>9, NothingSettled
<1>11. Inv' /\ Holds' = Holds
  BY <1>1, <1>2, <1>5, <1>7, <1>8, <1>10, KeptInv, KeptHolds
<1>12. Shown' = [q \in Objects |-> IF q \in O THEN b[image[q].tex].shows ELSE Shown[q]]
  BY <1>5, <1>7, <1>10, KeptShown
<1>13. Shown = [q \in Objects |-> Shown[q]]
  BY DEF Shown
<1> QED BY <1>9, <1>11, <1>12, <1>13

LEMMA ByChainCopyAcross ==
  ASSUME Disciplined, Inv, NEW o \in Objects, NEW src \in Objects, ChainCopyAcross(src, o)
  PROVE  Inv' /\ Holds' = Holds /\ Shown' = [Shown EXCEPT ![o] = Shown[src]]
<1>1. PICK t : t = image[src].tex
  OBVIOUS
<1>2. PICK d : d = image[o].tex
  OBVIOUS
<1>3. PICK c : c = AcrossOf(image[src], image[o])
  OBVIOUS
<1>4. /\ o # src /\ Usable(o) /\ MayTransition(o) /\ Usable(src) /\ MayTransition(src)
      /\ Len(recorded) + 1 <= MaxRecorded
      /\ image[src].layout = "TransferSrc" /\ image[o].layout = "TransferDst"
      /\ recorded' = Append(recorded, c)
      /\ image' = image /\ texture' = texture /\ memory' = memory /\ views' = views /\ fault' = fault
  BY <1>3 DEF ChainCopyAcross, Room, Disciplined, May
<1>5. PICK a : /\ Leads(recorded, a) /\ Ahead = State(a, "none") /\ Ahead.texture = a
               /\ a \in Seq(Textures) /\ Len(a) = Len(texture)
               /\ \A u \in DOMAIN texture : Same(texture[u], a[u])
  BY LeadsNow
<1>6. /\ Held1(image[src], a) /\ a[t].layout = "TransferSrc" /\ InUse(src) /\ t \in DOMAIN texture
      /\ Held1(image[o], a) /\ a[d].layout = "TransferDst" /\ InUse(o) /\ d \in DOMAIN texture
      /\ ~texture[d].swapchain
  BY <1>1, <1>2, <1>4, <1>5, MayRecord
<1>7. /\ ImageTypeOK /\ HeldOnce /\ image \in [Objects -> Data] /\ texture \in Seq(Textures)
      /\ Len(texture) \in Nat /\ DOMAIN a = DOMAIN texture
  BY <1>5 DEF Inv, ImageInv, ImageTypeOK
<1>8. t # d /\ t \in Nat /\ d \in Nat /\ t \in 1 .. Len(a) /\ d \in 1 .. Len(a)
      /\ t <= Len(texture) /\ d <= Len(texture)
  <2>1. t # d
    BY <1>1, <1>2, <1>4, <1>6, <1>7 DEF HeldOnce, InUse
  <2> QED BY <1>5, <1>6, <1>7, <2>1
<1>9. Live(t) /\ Live(d) /\ a[t].live /\ a[d].live
  BY <1>1, <1>2, <1>6 DEF Held1
<1>10. c.op = "out" /\ c.tex = t /\ c.dst = d /\ c \in Commands
  <2>1. c = [op |-> "out", tex |-> t, from |-> "", to |-> "", print |-> 0, dst |-> d]
    BY <1>1, <1>2, <1>3 DEF AcrossOf, Command
  <2> QED BY <1>8, <2>1 DEF Commands
<1>11. WellFormed(c, Len(a)) /\ Permitted(a, c) /\ Fit(c)
  <2>1. WellFormed(c, Len(a))
    BY <1>8, <1>10 DEF WellFormed
  <2>2. Permitted(a, c)
    BY <1>6, <1>9, <1>10 DEF Permitted, CanHold
  <2>3. Fit(c)
    BY <1>8, <1>9, <1>10 DEF Fit
  <2> QED BY <2>1, <2>2, <2>3
<1>12. PICK b : b = After(a, c)
  OBVIOUS
<1>13. Leads(recorded', b) /\ Len(recorded') = Len(recorded) + 1
  <2>1. Records(c, a, b)
    BY <1>10, <1>11, <1>12 DEF Records
  <2> QED BY <1>4, <1>5, <2>1, LeadsMore
<1>14. /\ b[t].layout = a[t].layout /\ b[t].shows = a[t].shows
       /\ b[d].layout = a[d].layout /\ b[d].shows = a[t].shows
       /\ \A u \in DOMAIN a : u # t /\ u # d => b[u] = a[u]
  <2>1. /\ b[t] = TexAfter(a, c) /\ b[d] = DstAfter(a, c)
        /\ \A u \in DOMAIN a : u # t /\ u # d => b[u] = a[u]
    <3>1. d # 0
      BY <1>8
    <3> QED BY <1>5, <1>10, <1>11, <1>12, <3>1, AfterIs
  <2>2. TexAfter(a, c) = Laid(a[t], a[t].layout, a[t].shows) /\ DstAfter(a, c) = Laid(a[d], a[d].layout, a[t].shows)
    BY <1>10 DEF TexAfter, DstAfter
  <2>3. a[t] \in Textures /\ a[d] \in Textures
    BY <1>5, <1>8
  <2>4. a[t].layout \in AllLayouts /\ a[t].shows \in Prints \union {0} /\ a[d].layout \in AllLayouts
    BY <2>3 DEF Textures
  <2> QED BY <2>1, <2>2, <2>3, <2>4, LaidIs
<1>15. PICK O : O = {o}
  OBVIOUS
<1>16. O \in SUBSET Objects /\ Settled(O, a, b)
  <2>1. \A u \in DOMAIN texture : u # d => b[u].layout = a[u].layout /\ b[u].shows = a[u].shows
    BY <1>7, <1>14
  <2>2. b[d].layout = image'[o].layout /\ b[d].layout # "Undefined"
    BY <1>4, <1>6, <1>14
  <2> QED BY <1>2, <1>4, <1>6, <1>15, <2>1, <2>2 DEF Settled
<1>17. Len(recorded') <= MaxRecorded /\ \A q \in Objects : Keeps(image[q], image'[q])
  BY <1>4, <1>13 DEF Keeps
<1>18. Inv' /\ Holds' = Holds /\ Shown' = [q \in Objects |-> IF q \in O THEN b[image[q].tex].shows ELSE Shown[q]]
  BY <1>4, <1>5, <1>7, <1>13, <1>16, <1>17, ChainInv
<1>19. b[image[o].tex].shows = Shown[src]
  BY <1>1, <1>2, <1>5, <1>6, <1>14, ShownIs
<1>20. \A q \in Objects : (IF q \in O THEN b[image[q].tex].shows ELSE Shown[q])
                            = (IF q = o THEN Shown[src] ELSE Shown[q])
  BY <1>15, <1>19
<1>21. [Shown EXCEPT ![o] = Shown[src]] = [q \in Objects |-> IF q = o THEN Shown[src] ELSE Shown[q]]
  BY DEF Shown
<1> QED BY <1>18, <1>20, <1>21

-----------------------------------------------------------------------------
(* Making images. *)

(* The image of an object, if there was one, is no more, and a new one is  *)
(* in its place.                                                           *)
NewTexture(o) ==
  LET t == image[o].tex
      N == texture'[Len(texture) + 1]
  IN  /\ texture' \in Seq(Textures) /\ Len(texture') = Len(texture) + 1
      /\ \A u \in DOMAIN texture : u # t => texture'[u] = texture[u]
      /\ t # 0 => /\ t \notin Touched /\ ~texture'[t].live
                  /\ texture'[t] = texture[t] \/ texture'[t].shows = 0
      /\ N.live /\ (N.depth => image'[o].depth) /\ (~N.swapchain => N.layout = image'[o].layout)
      /\ N.shows = 0

(* So is its memory. *)
NewMemory(o) ==
  /\ memory' \in Seq(BOOLEAN) /\ image'[o].mem <= Len(memory')
  /\ \/ image'[o].preallocated /\ memory' = memory /\ ~OwnsMemory(o)
     \/ /\ ~image'[o].preallocated /\ Len(memory') = Len(memory) + 1
        /\ memory'[Len(memory) + 1] /\ image'[o].mem = Len(memory) + 1
        /\ \A m \in DOMAIN memory :
             memory'[m] <=> memory[m] /\ ~(OwnsMemory(o) /\ m = image[o].mem)

(* And its view, when there is memory for the new image. *)
NewViews(o) ==
  LET n == Len(texture) + 1
  IN  /\ image'[o].view = IF texture'[n].bound THEN n ELSE 0
      /\ views' = (views \ {image[o].tex}) \union (IF texture'[n].bound THEN {n} ELSE {})

Remade(o) ==
  /\ ~image[o].moved /\ image' \in [Objects -> Data]
  /\ \A q \in Objects \ {o} : image'[q] = image[q]
  /\ image'[o].tex = Len(texture) + 1 /\ ~image'[o].moved
  /\ NewTexture(o) /\ NewMemory(o) /\ NewViews(o)
  /\ recorded' = recorded /\ fault' = "none"

LEMMA RemadeUse ==
  ASSUME Inv, NEW o \in Objects, Remade(o)
  PROVE  /\ \A q \in Objects : image[q].tex \in Nat /\ image[q].tex <= Len(texture)
                               /\ (image[q].tex # 0 => image[q].tex \in DOMAIN texture)
         /\ \A q \in Objects \ {o} : /\ InUse(q)' <=> InUse(q)
                                     /\ InUse(q) => /\ image[q].tex \in DOMAIN texture
                                                    /\ image[q].tex # image[o].tex
                                                    /\ texture'[image[q].tex] = texture[image[q].tex]
         /\ InUse(o)'
<1>1. ImageTypeOK /\ HeldOnce
  BY DEF Inv, ImageInv
<1>2. texture \in Seq(Textures) /\ Len(texture) \in Nat
  BY <1>1 DEF ImageTypeOK
<1>3. ASSUME NEW q \in Objects
      PROVE  image[q].tex \in Nat /\ image[q].tex <= Len(texture)
             /\ (image[q].tex # 0 => image[q].tex \in DOMAIN texture)
  <2>1. image[q] \in Data /\ image[q].tex <= Len(texture)
    BY <1>1 DEF ImageTypeOK
  <2>2. image[q].tex \in Nat
    BY <2>1 DEF Data
  <2> QED BY <1>2, <2>1, <2>2
<1>4. ASSUME NEW q \in Objects \ {o}
      PROVE  /\ InUse(q)' <=> InUse(q)
             /\ InUse(q) => /\ image[q].tex \in DOMAIN texture
                            /\ image[q].tex # image[o].tex
                            /\ texture'[image[q].tex] = texture[image[q].tex]
  <2>1. image'[q] = image[q] /\ ~image[o].moved
    BY DEF Remade
  <2>2. InUse(q) => image[q].tex # image[o].tex
    BY <1>1, <2>1 DEF HeldOnce
  <2>3. InUse(q) => image[q].tex \in DOMAIN texture
    BY <1>3 DEF InUse, Live
  <2>4. image[q].tex \in DOMAIN texture /\ image[q].tex # image[o].tex
          => texture'[image[q].tex] = texture[image[q].tex]
    BY DEF Remade, NewTexture
  <2>5. InUse(q)' <=> /\ ~image[q].moved /\ image[q].tex # 0 /\ texture'[image[q].tex].live
    BY <2>1 DEF InUse, Live
  <2>6. image[q].tex = image[o].tex /\ image[q].tex # 0 => ~texture'[image[q].tex].live
    BY DEF Remade, NewTexture
  <2>7. InUse(q)' => InUse(q)
    BY <1>3, <2>4, <2>5, <2>6 DEF InUse, Live
  <2>8. InUse(q) => InUse(q)'
    BY <2>2, <2>3, <2>4, <2>5 DEF InUse, Live
  <2> QED BY <2>2, <2>3, <2>4, <2>7, <2>8
<1>5. InUse(o)'
  BY <1>2 DEF Remade, NewTexture, InUse, Live
<1> QED BY <1>3, <1>4, <1>5

LEMMA RemadeHeld ==
  ASSUME Inv, NEW o \in Objects, Remade(o)
  PROVE  HeldOnce'
<1>1. ImageTypeOK /\ HeldOnce /\ texture \in Seq(Textures)
  BY DEF Inv, ImageInv, ImageTypeOK
<1>2. PICK n \in Nat : n = Len(texture)
  BY <1>1
<1>3. /\ \A q \in Objects : image[q].tex \in Nat /\ image[q].tex <= n
      /\ \A q \in Objects \ {o} : /\ InUse(q)' <=> InUse(q)
                                  /\ image'[q] = image[q]
      /\ InUse(o)' /\ image'[o].tex = n + 1 /\ ~image'[o].moved
  BY <1>2, RemadeUse DEF Remade
<1>4. ASSUME NEW p \in Objects, NEW q \in Objects, InUse(p)', ~image'[q].moved, image'[p].tex = image'[q].tex
      PROVE  p = q
  <2>1. CASE p = o
    <3>1. q # o => image'[q].tex # n + 1
      BY <1>3
    <3> QED BY <1>3, <1>4, <2>1, <3>1
  <2>2. CASE q = o
    <3>1. p # o => image'[p].tex # n + 1
      BY <1>3
    <3> QED BY <1>3, <1>4, <2>2, <3>1
  <2>3. CASE p # o /\ q # o
    BY <1>1, <1>3, <1>4, <2>3 DEF HeldOnce
  <2> QED BY <2>1, <2>2, <2>3
<1>5. ASSUME NEW t \in DOMAIN texture', texture'[t].live
      PROVE  \E q \in Objects : InUse(q)' /\ image'[q].tex = t
  <2>1. t = n + 1 \/ t \in DOMAIN texture
    BY <1>1, <1>2 DEF Remade, NewTexture
  <2>2. CASE t = n + 1
    BY <1>3, <2>2
  <2>3. CASE t \in DOMAIN texture
    <3>1. t # 0
      BY <1>1, <2>3
    <3>2. t # image[o].tex /\ texture[t].live
      BY <1>5, <2>3, <3>1 DEF Remade, NewTexture
    <3>3. PICK q \in Objects : InUse(q) /\ image[q].tex = t
      BY <1>1, <2>3, <3>2 DEF HeldOnce
    <3>4. q # o
      BY <3>2, <3>3
    <3> QED BY <1>3, <3>3, <3>4
  <2> QED BY <2>1, <2>2, <2>3
<1> QED BY <1>4, <1>5 DEF HeldOnce

LEMMA RemadeMemory ==
  ASSUME Inv, NEW o \in Objects, Remade(o)
  PROVE  MemoryOnce'
<1>1. ImageTypeOK /\ MemoryOnce /\ memory \in Seq(BOOLEAN)
  BY DEF Inv, ImageInv, ImageTypeOK
<1>2. PICK n \in Nat : n = Len(memory)
  BY <1>1
<1>3. \A q \in Objects \ {o} : (OwnsMemory(q)' <=> OwnsMemory(q)) /\ image'[q].mem = image[q].mem
  BY RemadeUse DEF Remade, OwnsMemory
<1>4. OwnsMemory(o)' <=> ~image'[o].preallocated
  BY RemadeUse DEF OwnsMemory
<1>5. ASSUME NEW q \in Objects, OwnsMemory(q)
      PROVE  image[q].mem \in DOMAIN memory /\ image[q].mem <= n /\ memory[image[q].mem]
  <2>1. image[q] \in Data /\ image[q].mem <= n /\ image[q].mem # 0 /\ memory[image[q].mem]
    BY <1>1, <1>2, <1>5 DEF ImageTypeOK, MemoryOnce
  <2>2. image[q].mem \in Nat
    BY <2>1 DEF Data
  <2> QED BY <1>1, <1>2, <2>1, <2>2
<1>6. CASE image'[o].preallocated /\ memory' = memory /\ ~OwnsMemory(o)
  <2>1. ~OwnsMemory(o)'
    BY <1>4, <1>6
  <2>2. \A q \in Objects : (OwnsMemory(q)' <=> OwnsMemory(q)) /\ (OwnsMemory(q) => image'[q].mem = image[q].mem)
    BY <1>3, <1>6, <2>1
  <2>3. \A q \in Objects : OwnsMemory(q)' => image'[q].mem # 0 /\ memory'[image'[q].mem]
    BY <1>1, <1>6, <2>2 DEF MemoryOnce
  <2>4. \A p, q \in Objects : OwnsMemory(p)' /\ OwnsMemory(q)' /\ image'[p].mem = image'[q].mem => p = q
    BY <1>1, <2>2 DEF MemoryOnce
  <2>5. \A m \in DOMAIN memory' : memory'[m] => \E q \in Objects : OwnsMemory(q)' /\ image'[q].mem = m
    BY <1>1, <1>6, <2>2 DEF MemoryOnce
  <2> QED BY <2>3, <2>4, <2>5 DEF MemoryOnce
<1>7. CASE /\ ~image'[o].preallocated /\ Len(memory') = n + 1
           /\ memory'[n + 1] /\ image'[o].mem = n + 1
           /\ \A m \in DOMAIN memory :
                memory'[m] <=> memory[m] /\ ~(OwnsMemory(o) /\ m = image[o].mem)
  <2>1. OwnsMemory(o)' /\ n + 1 # 0
    BY <1>4, <1>7
  <2>2. ASSUME NEW q \in Objects \ {o}, OwnsMemory(q)'
        PROVE  image'[q].mem # 0 /\ memory'[image'[q].mem] /\ image'[q].mem # n + 1
    <3>1. OwnsMemory(q) /\ image'[q].mem = image[q].mem
      BY <1>3, <2>2
    <3>2. image[q].mem \in DOMAIN memory /\ image[q].mem <= n /\ memory[image[q].mem] /\ image[q].mem # 0
      BY <1>1, <1>5, <3>1
    <3>3. ~(OwnsMemory(o) /\ image[q].mem = image[o].mem)
      BY <1>1, <3>1 DEF MemoryOnce
    <3>4. image[q].mem # n + 1
      BY <1>1, <1>2, <3>2
    <3> QED BY <1>7, <3>1, <3>2, <3>3, <3>4
  <2>3. \A q \in Objects : OwnsMemory(q)' => image'[q].mem # 0 /\ memory'[image'[q].mem]
    BY <1>7, <2>1, <2>2
  <2>4. ASSUME NEW p \in Objects, NEW q \in Objects, OwnsMemory(p)', OwnsMemory(q)', image'[p].mem = image'[q].mem
        PROVE  p = q
    <3>1. CASE p = o \/ q = o
      BY <1>7, <2>2, <2>4, <3>1
    <3>2. CASE p # o /\ q # o
      BY <1>1, <1>3, <2>4, <3>2 DEF MemoryOnce
    <3> QED BY <3>1, <3>2
  <2>5. ASSUME NEW m \in DOMAIN memory', memory'[m]
        PROVE  \E q \in Objects : OwnsMemory(q)' /\ image'[q].mem = m
    <3>1. m = n + 1 \/ m \in DOMAIN memory
      <4>1. memory' \in Seq(BOOLEAN)
        BY DEF Remade, NewMemory
      <4> QED BY <1>1, <1>2, <1>7, <4>1
    <3>2. CASE m = n + 1
      BY <1>7, <2>1, <3>2
    <3>3. CASE m \in DOMAIN memory
      <4>1. memory[m] /\ ~(OwnsMemory(o) /\ m = image[o].mem)
        BY <1>7, <2>5, <3>3
      <4>2. PICK q \in Objects : OwnsMemory(q) /\ image[q].mem = m
        BY <1>1, <3>3, <4>1 DEF MemoryOnce
      <4>3. q # o
        BY <4>1, <4>2
      <4> QED BY <1>3, <4>2, <4>3
    <3> QED BY <3>1, <3>2, <3>3
  <2> QED BY <2>3, <2>4, <2>5 DEF MemoryOnce
<1> QED BY <1>2, <1>6, <1>7 DEF Remade, NewMemory

LEMMA RemadeViews ==
  ASSUME Inv, NEW o \in Objects, Remade(o)
  PROVE  ViewsOnce'
<1>1. ImageTypeOK /\ ViewsOnce /\ texture \in Seq(Textures)
  BY DEF Inv, ImageInv, ImageTypeOK
<1>2. PICK n \in Nat : n = Len(texture)
  BY <1>1
<1>3. /\ \A q \in Objects \ {o} : /\ InUse(q)' <=> InUse(q)
                                  /\ image'[q] = image[q]
                                  /\ InUse(q) => texture'[image[q].tex] = texture[image[q].tex]
      /\ image'[o].tex = n + 1
  BY <1>2, RemadeUse DEF Remade
<1>4. PICK bound : bound = texture'[n + 1].bound
  OBVIOUS
<1>5. /\ texture'[n + 1].live /\ image'[o].view = (IF bound THEN n + 1 ELSE 0)
      /\ views' = (views \ {image[o].tex}) \union (IF bound THEN {n + 1} ELSE {})
      /\ \A u \in DOMAIN texture : u # image[o].tex => texture'[u] = texture[u]
      /\ image[o].tex # 0 => ~texture'[image[o].tex].live
  BY <1>2, <1>4 DEF Remade, NewTexture, NewViews
<1>6. DOMAIN texture' = DOMAIN texture \union {n + 1} /\ n + 1 \notin DOMAIN texture /\ 0 \notin DOMAIN texture
  <2>1. texture' \in Seq(Textures) /\ Len(texture') = n + 1
    BY <1>2 DEF Remade, NewTexture
  <2>2. DOMAIN texture' = 1 .. n + 1 /\ DOMAIN texture = 1 .. n
    BY <1>1, <1>2, <2>1
  <2> QED BY <2>2
<1>7. ASSUME NEW q \in Objects, InUse(q)'
      PROVE  image'[q].view = IF texture'[image'[q].tex].bound THEN image'[q].tex ELSE 0
  <2>1. CASE q = o
    BY <1>3, <1>4, <1>5, <2>1
  <2>2. CASE q # o
    BY <1>1, <1>3, <1>7, <2>2 DEF ViewsOnce
  <2> QED BY <2>1, <2>2
<1>8. \A t : t \in views <=> t \in DOMAIN texture /\ texture[t].live /\ texture[t].bound
  BY <1>1 DEF ViewsOnce
<1>9. ASSUME NEW t
      PROVE  t \in views' <=> t \in DOMAIN texture' /\ texture'[t].live /\ texture'[t].bound
  <2>1. CASE t = n + 1
    <3>1. t \notin views
      BY <1>6, <1>8, <2>1
    <3> QED BY <1>4, <1>5, <1>6, <2>1, <3>1
  <2>2. CASE t # n + 1 /\ t = image[o].tex
    BY <1>5, <1>6, <2>2
  <2>3. CASE t # n + 1 /\ t # image[o].tex
    <3>1. t \in views' <=> t \in views
      BY <1>5, <2>3
    <3> QED BY <1>5, <1>6, <1>8, <2>3, <3>1
  <2> QED BY <2>1, <2>2, <2>3
<1> QED BY <1>7, <1>9 DEF ViewsOnce

(* What the images will be when only some change for which nothing is      *)
(* recorded.                                                               *)
LEMMA AheadRest ==
  ASSUME Inv, fault' = "none", recorded' = recorded,
         texture' \in Seq(Textures), Len(texture) <= Len(texture'),
         \A t \in Touched : texture'[t] = texture[t]
  PROVE  \E a, b : /\ Ahead = State(a, "none") /\ Ahead' = State(b, "none")
                   /\ Ahead.texture = a /\ (Ahead.texture)' = b /\ (Ahead.fault)' = "none"
                   /\ \A t \in DOMAIN texture :
                        texture'[t] = texture[t] => b[t].layout = a[t].layout /\ b[t].shows = a[t].shows
                   /\ \A t \in DOMAIN texture : t \notin Touched => a[t] = texture[t]
                   /\ \A t \in DOMAIN texture' : t \notin Touched => b[t] = texture'[t]
<1>1. PICK a, b : Ahead = State(a, "none") /\ Ahead' = State(b, "none") /\ Agree(texture, texture', a, b, Touched)
  <2>1. \A t \in Touched : Alike(texture[t], texture'[t])
    BY DEF Alike, Same
  <2> QED BY <2>1, AheadThen
<1>2. Ahead.texture = a /\ (Ahead.texture)' = b /\ (Ahead.fault)' = "none"
  BY <1>1 DEF State
<1>3. /\ \A t \in DOMAIN texture : t \notin Touched => a[t] = texture[t]
      /\ \A t \in DOMAIN texture' : t \notin Touched => b[t] = texture'[t]
      /\ \A t \in Touched : b[t].layout = a[t].layout /\ b[t].shows = a[t].shows
  BY <1>1 DEF Agree, Alike
<1>4. DOMAIN texture \subseteq DOMAIN texture'
  <2>1. texture \in Seq(Textures)
    BY DEF Inv, ImageTypeOK
  <2> QED BY <2>1
<1> QED BY <1>1, <1>2, <1>3, <1>4

(* An object has another image, or none, and shows nothing. *)
Renewed(o) ==
  /\ Holds'[o] # Holds[o] /\ Holds' = [Holds EXCEPT ![o] = Holds'[o]]
  /\ Shown' = [Shown EXCEPT ![o] = 0]

LEMMA RemadeInv ==
  ASSUME Inv, NEW o \in Objects, Remade(o)
  PROVE  Inv' /\ Renewed(o)
<1>1. ImageTypeOK /\ ImageInv /\ texture \in Seq(Textures) /\ image \in [Objects -> Data]
  BY DEF Inv, ImageTypeOK
<1>2. PICK n \in Nat : n = Len(texture)
  BY <1>1
<1>3. /\ \A q \in Objects : image[q].tex \in Nat /\ image[q].tex <= n
                            /\ (image[q].tex # 0 => image[q].tex \in DOMAIN texture)
      /\ \A q \in Objects \ {o} : /\ InUse(q)' <=> InUse(q)
                                  /\ InUse(q) => /\ image[q].tex \in DOMAIN texture
                                                 /\ image[q].tex # image[o].tex
                                                 /\ texture'[image[q].tex] = texture[image[q].tex]
      /\ InUse(o)'
  BY <1>2, RemadeUse
<1>4. /\ image' \in [Objects -> Data] /\ \A q \in Objects \ {o} : image'[q] = image[q]
      /\ image'[o].tex = n + 1 /\ ~image'[o].moved /\ recorded' = recorded /\ fault' = "none"
      /\ texture' \in Seq(Textures) /\ Len(texture') = n + 1
      /\ memory' \in Seq(BOOLEAN) /\ image'[o].mem <= Len(memory')
  BY <1>2 DEF Remade, NewTexture, NewMemory
<1>5. /\ \A u \in DOMAIN texture : u # image[o].tex => texture'[u] = texture[u]
      /\ image[o].tex # 0 => /\ image[o].tex \notin Touched /\ ~texture'[image[o].tex].live
                             /\ texture'[image[o].tex] = texture[image[o].tex] \/ texture'[image[o].tex].shows = 0
  BY DEF Remade, NewTexture
<1>6. /\ texture'[n + 1].live /\ (texture'[n + 1].depth => image'[o].depth)
      /\ (~texture'[n + 1].swapchain => texture'[n + 1].layout = image'[o].layout)
      /\ texture'[n + 1].shows = 0
  BY <1>2 DEF Remade, NewTexture
<1>7. ImageTypeOK'
  <2>1. Len(memory) \in Nat /\ Len(memory') \in Nat /\ Len(memory) <= Len(memory')
    <3>1. memory \in Seq(BOOLEAN)
      BY <1>1 DEF ImageTypeOK
    <3> QED BY <1>4, <3>1 DEF Remade, NewMemory
  <2>2. ASSUME NEW q \in Objects
        PROVE  image'[q].tex <= Len(texture') /\ image'[q].mem <= Len(memory')
    <3>1. CASE q = o
      BY <1>4, <3>1
    <3>2. CASE q # o
      <4>1. image'[q] = image[q] /\ image[q] \in Data /\ image[q].mem <= Len(memory)
        BY <1>1, <1>4, <3>2 DEF ImageTypeOK
      <4>2. image[q].mem \in Nat
        BY <4>1 DEF Data
      <4>3. image[q].tex \in Nat /\ image[q].tex <= n
        BY <1>3
      <4>4. image[q].tex <= n + 1
        BY <4>3
      <4>5. image[q].mem <= Len(memory')
        BY <2>1, <4>1, <4>2
      <4> QED BY <1>4, <4>1, <4>4, <4>5
    <3> QED BY <3>1, <3>2
  <2>3. views' \subseteq Nat
    <3>1. n + 1 \in Nat /\ views \subseteq Nat
      BY <1>1 DEF ImageTypeOK
    <3>2. views' = (views \ {image[o].tex}) \union (IF texture'[n + 1].bound THEN {n + 1} ELSE {})
      BY <1>2 DEF Remade, NewViews
    <3> QED BY <3>1, <3>2, Zenon
  <2> QED BY <1>1, <1>4, <2>2, <2>3 DEF ImageTypeOK
<1>8. \A t \in Touched : t \in DOMAIN texture /\ t # image[o].tex /\ texture'[t] = texture[t]
  <2>1. \A t \in Touched : t \in DOMAIN texture /\ t # 0
    BY <1>1 DEF Touched
  <2> QED BY <1>5, <2>1
<1>9. PICK a, b : /\ Ahead = State(a, "none") /\ Ahead' = State(b, "none")
                  /\ Ahead.texture = a /\ (Ahead.texture)' = b /\ (Ahead.fault)' = "none"
                  /\ \A t \in DOMAIN texture :
                       texture'[t] = texture[t] => b[t].layout = a[t].layout /\ b[t].shows = a[t].shows
                  /\ \A t \in DOMAIN texture : t \notin Touched => a[t] = texture[t]
                  /\ \A t \in DOMAIN texture' : t \notin Touched => b[t] = texture'[t]
  <2>1. Len(texture) <= Len(texture')
    BY <1>2, <1>4
  <2> QED BY <1>4, <1>8, <2>1, AheadRest
<1>10. /\ DOMAIN texture = 1 .. n /\ DOMAIN texture' = 1 .. n + 1
       /\ \A t \in DOMAIN texture' : t = n + 1 \/ t \in DOMAIN texture
       /\ n + 1 \notin Touched /\ n + 1 \in DOMAIN texture' /\ DOMAIN texture \subseteq DOMAIN texture'
  <2>1. DOMAIN texture = 1 .. n /\ DOMAIN texture' = 1 .. n + 1
    BY <1>1, <1>2, <1>4
  <2> QED BY <2>1 DEF Touched
<1>11. b[n + 1] = texture'[n + 1]
  BY <1>9, <1>10
<1>12. HeldOnce' /\ MemoryOnce' /\ ViewsOnce'
  BY RemadeHeld, RemadeMemory, RemadeViews
<1>13. WellRecorded'
  <2>1. \A k \in DOMAIN recorded : /\ Fit(recorded[k]) /\ recorded[k].tex \in Touched
                                   /\ (recorded[k].dst # 0 => recorded[k].dst \in Touched)
    BY RecordedFit
  <2>2. \A t \in Touched : Live(t) => t # 0 /\ texture'[t].live /\ t <= Len(texture')
    <3>1. \A t \in Touched : t <= Len(texture')
      BY <1>4, <1>8, <1>10
    <3> QED BY <1>8, <3>1 DEF Live
  <2>3. ASSUME NEW k \in DOMAIN recorded'
        PROVE  (LET c == recorded[k] IN
                /\ Live(c.tex) /\ c.tex <= Len(texture) /\ (c.op = "barrier" => c.to # "")
                /\ c.dst # 0 => Live(c.dst) /\ c.dst <= Len(texture) /\ c.dst # c.tex /\ c.op = "out")'
    <3>1. PICK c : c = recorded[k]
      OBVIOUS
    <3>2. /\ Fit(c) /\ c.tex \in Touched /\ (c.dst # 0 => c.dst \in Touched) /\ recorded'[k] = c
      BY <1>4, <2>1, <3>1
    <3>3. c.tex # 0 /\ texture'[c.tex].live /\ c.tex <= Len(texture')
      BY <2>2, <3>2 DEF Fit
    <3>4. c.dst # 0 => texture'[c.dst].live /\ c.dst <= Len(texture')
      BY <2>2, <3>2 DEF Fit
    <3> QED BY <3>2, <3>3, <3>4 DEF Fit, Live
  <2> QED BY <2>3 DEF WellRecorded
<1>14. ASSUME NEW q \in Objects
       PROVE  InLayout(q)'
  <2>1. CASE q = o
    <3>1. /\ texture'[image'[q].tex].depth => image'[q].depth
          /\ ~texture'[image'[q].tex].swapchain => (Ahead.texture)'[image'[q].tex].layout = image'[q].layout
          /\ texture'[image'[q].tex].live /\ image'[q].tex # 0
      BY <1>4, <1>6, <1>9, <1>11, <2>1
    <3> QED BY <3>1 DEF InLayout, Live
  <2>2. CASE q # o
    <3>1. image'[q] = image[q] /\ InLayout(q)
      BY <1>1, <1>4, <2>2 DEF ImageInv
    <3>2. /\ InUse(q)' <=> InUse(q)
          /\ InUse(q) => /\ image[q].tex \in DOMAIN texture
                         /\ texture'[image[q].tex] = texture[image[q].tex]
      BY <1>3, <2>2
    <3>3. InUse(q) => b[image[q].tex].layout = a[image[q].tex].layout
      BY <1>9, <3>2
    <3>4. InUse(q)' => (texture'[image'[q].tex].depth => image'[q].depth)
      BY <3>1, <3>2 DEF InLayout
    <3>5. InUse(q)' /\ ~texture'[image'[q].tex].swapchain
            => (Ahead.texture)'[image'[q].tex].layout = image'[q].layout
      BY <1>9, <3>1, <3>2, <3>3 DEF InLayout
    <3>6. ~image'[q].moved /\ ~Live(image[q].tex)' => image'[q].layout = "Undefined"
      <4>1. ~image'[q].moved /\ ~Live(image[q].tex)' => ~InUse(q)'
        BY DEF InUse
      <4>2. ~image[q].moved /\ ~InUse(q) => image[q].layout = "Undefined"
        BY <3>1 DEF InLayout, InUse
      <4> QED BY <3>1, <3>2, <4>1, <4>2
    <3> QED BY <3>4, <3>5, <3>6 DEF InLayout
  <2> QED BY <2>1, <2>2
<1>15. Blank'
  <2>1. ASSUME NEW t \in DOMAIN texture', b[t].layout = "Undefined"
        PROVE  b[t].shows = 0
    <3>1. CASE t = n + 1
      BY <1>6, <1>11, <3>1
    <3>2. CASE t \in DOMAIN texture /\ texture'[t] = texture[t]
      <4>1. b[t].layout = a[t].layout /\ b[t].shows = a[t].shows
        BY <1>9, <3>2
      <4> QED BY <1>1, <1>9, <2>1, <3>2, <4>1 DEF ImageInv, Blank
    <3>3. CASE t \in DOMAIN texture /\ texture'[t] # texture[t]
      <4>1. t = image[o].tex /\ t # 0
        BY <1>5, <1>10, <3>3
      <4>2. t \notin Touched /\ texture'[t].shows = 0
        BY <1>5, <3>3, <4>1
      <4> QED BY <1>9, <4>2
    <3> QED BY <1>10, <3>1, <3>2, <3>3
  <2> QED BY <1>9, <2>1 DEF Blank
<1>16. Inv'
  BY <1>4, <1>7, <1>9, <1>12, <1>13, <1>14, <1>15 DEF Inv, ImageInv, NoFault
<1>17. ASSUME NEW q \in Objects
       PROVE  (IF InUse(q)' THEN b[image'[q].tex].shows ELSE 0)
                = (IF q = o THEN 0 ELSE IF InUse(q) THEN a[image[q].tex].shows ELSE 0)
  <2>1. CASE q = o
    BY <1>3, <1>4, <1>6, <1>11, <2>1
  <2>2. CASE q # o
    <3>1. image'[q] = image[q] /\ (InUse(q)' <=> InUse(q))
      BY <1>3, <1>4, <2>2
    <3>2. InUse(q) => b[image[q].tex].shows = a[image[q].tex].shows
      BY <1>3, <1>9, <2>2
    <3> QED BY <2>2, <3>1, <3>2
  <2> QED BY <2>1, <2>2
<1>18. Shown = [q \in Objects |-> IF InUse(q) THEN a[image[q].tex].shows ELSE 0]
  BY <1>9, ShownIs
<1>19. Shown' = [q \in Objects |-> IF InUse(q)' THEN b[image'[q].tex].shows ELSE 0]
  BY <1>9, ShownThen
<1>20. Shown' = [q \in Objects |-> IF q = o THEN 0 ELSE IF InUse(q) THEN a[image[q].tex].shows ELSE 0]
  BY <1>17, <1>19
<1>21. [Shown EXCEPT ![o] = 0] = [q \in Objects |-> IF q = o THEN 0 ELSE IF InUse(q) THEN a[image[q].tex].shows ELSE 0]
  BY <1>18
<1>22. Holds = [q \in Objects |-> IF InUse(q) THEN image[q].tex ELSE 0]
       /\ Holds' = [q \in Objects |-> IF InUse(q)' THEN image'[q].tex ELSE 0]
  BY DEF Holds
<1>23. Holds'[o] = n + 1 /\ Holds[o] # n + 1
  BY <1>3, <1>4, <1>22
<1>24. \A q \in Objects \ {o} : Holds'[q] = Holds[q]
  BY <1>3, <1>4, <1>22
<1>25. Holds' = [Holds EXCEPT ![o] = Holds'[o]]
  BY <1>22, <1>24
<1> QED BY <1>16, <1>20, <1>21, <1>23, <1>25 DEF Renewed

(* Memory that is asked for. *)
LEMMA MoreMemory ==
  ASSUME NEW m \in Seq(BOOLEAN), NEW n, n = Append(m, TRUE)
  PROVE  /\ n \in Seq(BOOLEAN) /\ Len(n) = Len(m) + 1 /\ n[Len(m) + 1] = TRUE
         /\ \A k \in DOMAIN m : n[k] = m[k]
<1>1. PICK S : S = BOOLEAN
  OBVIOUS
<1>2. PICK yes : yes = TRUE
  OBVIOUS
<1>3. yes \in S /\ m \in Seq(S)
  BY <1>1, <1>2
<1>4. /\ Append(m, yes) \in Seq(S) /\ Len(Append(m, yes)) = Len(m) + 1
      /\ Append(m, yes)[Len(m) + 1] = yes
      /\ \A k \in 1 .. Len(m) : Append(m, yes)[k] = m[k]
  BY <1>3, AppendProperties
<1>5. DOMAIN m = 1 .. Len(m)
  OBVIOUS
<1> QED BY <1>1, <1>2, <1>4, <1>5, Zenon

LEMMA MadeAfresh ==
  ASSUME Disciplined, Inv, NEW o \in Objects, MayMake(o),
         NEW N \in Textures, N.live, N.shows = 0,
         NEW j \in Data, j.tex = Len(texture) + 1, ~j.moved, N.depth => j.depth, ~N.swapchain => N.layout = j.layout,
         texture' = Append(texture, N), image' = [image EXCEPT ![o] = j],
         \/ j.preallocated /\ memory' = memory /\ j.mem <= Len(memory)
         \/ ~j.preallocated /\ memory' = Append(memory, TRUE) /\ j.mem = Len(memory) + 1,
         j.view = (IF N.bound THEN Len(texture) + 1 ELSE 0),
         views' = (IF N.bound THEN views \union {Len(texture) + 1} ELSE views),
         recorded' = recorded, fault' = fault
  PROVE  Remade(o)
<1>1. /\ image \in [Objects -> Data] /\ texture \in Seq(Textures) /\ memory \in Seq(BOOLEAN)
      /\ fault' = "none" /\ image[o] \in Data /\ image[o].tex <= Len(texture)
  BY DEF Inv, ImageTypeOK, NoFault
<1>2. ~image[o].moved /\ ~Live(image[o].tex)
  BY DEF MayMake, Disciplined, May
<1>3. /\ texture' \in Seq(Textures) /\ Len(texture') = Len(texture) + 1 /\ texture'[Len(texture) + 1] = N
      /\ \A u \in DOMAIN texture : texture'[u] = texture[u]
  BY <1>1, AppendProperties
<1>4. image' \in [Objects -> Data] /\ image'[o] = j /\ \A q \in Objects \ {o} : image'[q] = image[q]
  BY <1>1
<1>5. ASSUME image[o].tex # 0
      PROVE  /\ image[o].tex \notin Touched /\ ~texture'[image[o].tex].live
             /\ texture'[image[o].tex] = texture[image[o].tex]
  <2>1. image[o].tex \in Nat
    BY <1>1 DEF Data
  <2>2. image[o].tex \in DOMAIN texture
    BY <1>1, <1>5, <2>1
  <2>3. ~texture[image[o].tex].live
    BY <1>2, <1>5 DEF Live
  <2>4. ASSUME image[o].tex \in Touched
        PROVE  FALSE
    <3>1. PICK k \in DOMAIN recorded : image[o].tex \in {recorded[k].tex, recorded[k].dst}
      BY <2>4 DEF Touched, IsRecorded
    <3>2. Fit(recorded[k])
      BY RecordedFit
    <3> QED BY <1>2, <1>5, <3>1, <3>2 DEF Fit
  <2> QED BY <1>3, <2>2, <2>3, <2>4
<1>6. NewTexture(o)
  BY <1>3, <1>4, <1>5 DEF NewTexture
<1>7. ~OwnsMemory(o)
  BY <1>2 DEF OwnsMemory, InUse
<1>8. NewMemory(o)
  <2>1. CASE j.preallocated /\ memory' = memory /\ j.mem <= Len(memory)
    BY <1>1, <1>4, <1>7, <2>1 DEF NewMemory
  <2>2. CASE ~j.preallocated /\ memory' = Append(memory, TRUE) /\ j.mem = Len(memory) + 1
    <3>1. /\ memory' \in Seq(BOOLEAN) /\ Len(memory') = Len(memory) + 1 /\ memory'[Len(memory) + 1] = TRUE
          /\ \A m \in DOMAIN memory : memory'[m] = memory[m]
      <4>1. memory' = Append(memory, TRUE) /\ memory \in Seq(BOOLEAN)
        BY <1>1, <2>2
      <4> QED BY <4>1, MoreMemory, Zenon
    <3>2. \A m \in DOMAIN memory : memory'[m] <=> memory[m] /\ ~(OwnsMemory(o) /\ m = image[o].mem)
      BY <1>7, <3>1
    <3>3. image'[o].mem <= Len(memory')
      BY <1>1, <1>4, <2>2, <3>1
    <3> QED BY <1>4, <2>2, <3>1, <3>2, <3>3 DEF NewMemory
  <2> QED BY <2>1, <2>2
<1>9. NewViews(o)
  <2>1. image[o].tex \notin views
    BY <1>2 DEF Inv, ImageInv, ViewsOnce, Live
  <2> QED BY <1>3, <1>4, <2>1 DEF NewViews
<1> QED BY <1>1, <1>2, <1>4, <1>6, <1>8, <1>9 DEF Remade

LEMMA TextureIs ==
  ASSUME NEW depth \in BOOLEAN, NEW swapchain \in BOOLEAN, NEW bound \in BOOLEAN, NEW N, N = Texture(depth, swapchain, bound)
  PROVE  N \in Textures /\ N.live /\ N.shows = 0 /\ N.depth = depth /\ N.swapchain = swapchain /\ N.layout = "Undefined"
         /\ N.bound = bound
BY DEF Texture, Textures, AllLayouts

(* An object that may be given an image tracks no layout. *)
LEMMA MakesFrom ==
  ASSUME Disciplined, Inv, NEW o \in Objects, MayMake(o)
  PROVE  image[o] \in Data /\ image[o].layout = "Undefined" /\ ~image[o].moved
<1>1. image[o] \in Data /\ InLayout(o)
  BY DEF Inv, ImageInv, ImageTypeOK
<1>2. ~image[o].moved /\ ~Live(image[o].tex)
  BY DEF MayMake, Disciplined, May
<1> QED BY <1>1, <1>2 DEF InLayout

LEMMA MakesIs ==
  ASSUME NEW o, NEW t, NEW m, NEW v, NEW j, NEW made,
         made = [texture |-> t, memory |-> m, views |-> v, image |-> j], Makes(o, made)
  PROVE  texture' = t /\ memory' = m /\ views' = v /\ image' = [image EXCEPT ![o] = j]
<1>1. made.texture = t /\ made.memory = m /\ made.views = v /\ made.image = j
  OBVIOUS
<1>2. /\ texture' = made.texture /\ memory' = made.memory /\ views' = made.views
      /\ image' = [image EXCEPT ![o] = made.image]
  BY Zenon DEF Makes
<1> QED BY <1>1, <1>2, Zenon

(* An object once it has image number t. *)
WithImage(i, t, view, layers, mem, depth) ==
  [i EXCEPT !.tex = t, !.view = view, !.layers = layers, !.mem = mem, !.depth = depth]

LEMMA ByInitialize ==
  ASSUME Disciplined, Inv, NEW o \in Objects, NEW layers \in LayerCounts, NEW depth \in BOOLEAN,
         Initialize(o, layers, depth)
  PROVE  Remade(o)
<1>1. MayMake(o) /\ ~image[o].preallocated /\ recorded' = recorded /\ fault' = fault
  BY DEF Initialize, Makes
<1>2. image[o] \in Data /\ image[o].layout = "Undefined" /\ ~image[o].moved
  BY <1>1, MakesFrom
<1>3. texture \in Seq(Textures) /\ memory \in Seq(BOOLEAN) /\ Len(texture) + 1 \in Nat /\ Len(memory) + 1 \in Nat
  BY DEF Inv, ImageTypeOK
<1>4. PICK N : N = Texture(depth, FALSE, TRUE)
  OBVIOUS
<1>5. N \in Textures /\ N.live /\ N.shows = 0 /\ N.depth = depth /\ N.layout = "Undefined" /\ N.bound = TRUE
  BY <1>4, TextureIs
<1>6. PICK n : n = Len(texture) + 1
  OBVIOUS
<1>7. PICK j : j = WithImage(image[o], n, n, layers, Len(memory) + 1, depth)
  OBVIOUS
<1>8. /\ j \in Data /\ j.tex = n /\ j.view = n /\ j.mem = Len(memory) + 1 /\ j.depth = depth
      /\ j.layout = "Undefined" /\ ~j.moved /\ ~j.preallocated
  <2>1. n \in Nat /\ Len(memory) + 1 \in Nat
    BY <1>3, <1>6
  <2>2. /\ j \in Data /\ j.tex = n /\ j.view = n /\ j.mem = Len(memory) + 1 /\ j.depth = depth
        /\ j.layout = image[o].layout /\ j.moved = image[o].moved /\ j.preallocated = image[o].preallocated
    <3>1. PICK i \in Data, l \in Nat : i = image[o] /\ l = Len(memory) + 1
      BY <1>2, <2>1
    <3>2. j = WithImage(i, n, n, layers, l, depth)
      BY <1>7, <3>1
    <3>3. /\ j \in Data /\ j.tex = n /\ j.view = n /\ j.mem = l /\ j.depth = depth
          /\ j.layout = i.layout /\ j.moved = i.moved /\ j.preallocated = i.preallocated
      BY <2>1, <3>2 DEF WithImage, Data
    <3> QED BY <3>1, <3>3, Zenon
  <2> QED BY <1>1, <1>2, <2>2
<1>9. /\ texture' = Append(texture, N) /\ memory' = Append(memory, TRUE) /\ views' = views \union {n}
      /\ image' = [image EXCEPT ![o] = j]
  <2>1. PICK made : made = Initialized(image[o], layers, depth, TRUE)
    OBVIOUS
  <2>2. Makes(o, made)
    BY <2>1 DEF Initialize
  <2>3. PICK M, V : /\ M = (IF image[o].preallocated THEN memory ELSE Append(memory, TRUE))
                    /\ V = (IF TRUE THEN views \union {n} ELSE views)
    OBVIOUS
  <2>4. M = Append(memory, TRUE) /\ V = views \union {n}
    BY <1>1, <2>3
  <2>5. PICK i \in Data : i = image[o]
    BY <1>2
  <2>6. j = [i EXCEPT !.tex = n, !.view = IF TRUE THEN n ELSE @, !.layers = layers,
                      !.mem = IF i.preallocated THEN 0 ELSE Len(memory) + 1, !.depth = depth]
    <3>1. (IF i.preallocated THEN 0 ELSE Len(memory) + 1) = Len(memory) + 1
      BY <1>1, <2>5
    <3> QED BY <1>7, <2>5, <3>1, Zenon DEF WithImage
  <2>7. made = [texture |-> Append(texture, N), memory |-> M, views |-> V, image |-> j]
    BY <1>4, <1>6, <2>1, <2>3, <2>5, <2>6, Zenon DEF Initialized
  <2> QED BY <2>2, <2>4, <2>7, MakesIs, Zenon
<1> QED BY <1>1, <1>5, <1>6, <1>8, <1>9, MadeAfresh

LEMMA ByInitializeIn ==
  ASSUME Disciplined, Inv, NEW o \in Objects, NEW layers \in LayerCounts, NEW enough \in BOOLEAN,
         InitializeIn(o, layers, enough)
  PROVE  Remade(o)
<1>1. MayMake(o) /\ (enough \/ image[o].view = 0) /\ recorded' = recorded /\ fault' = fault
  BY DEF InitializeIn, Makes, Disciplined, May
<1>2. image[o] \in Data /\ image[o].layout = "Undefined" /\ ~image[o].moved
  BY <1>1, MakesFrom
<1>3. texture \in Seq(Textures) /\ memory \in Seq(BOOLEAN) /\ Len(texture) + 1 \in Nat /\ Len(memory) \in Nat
  BY DEF Inv, ImageTypeOK
<1>4. PICK N : N = Texture(FALSE, FALSE, enough)
  OBVIOUS
<1>5. N \in Textures /\ N.live /\ N.shows = 0 /\ ~N.depth /\ N.layout = "Undefined" /\ N.bound = enough
  BY <1>4, TextureIs
<1>6. PICK n : n = Len(texture) + 1
  OBVIOUS
<1>7. PICK i : i = [image[o] EXCEPT !.preallocated = TRUE]
  OBVIOUS
<1>8. i \in Data /\ i.preallocated /\ i.layout = "Undefined" /\ ~i.moved /\ i.view = image[o].view
  BY <1>2, <1>7 DEF Data
<1>9. PICK view : view = IF enough THEN n ELSE i.view
  OBVIOUS
<1>10. view \in Nat /\ (enough => view = n) /\ (~enough => view = 0)
  BY <1>1, <1>3, <1>6, <1>8, <1>9
<1>11. PICK j : j = WithImage(i, n, view, layers, 0, FALSE)
  OBVIOUS
<1>12. /\ j \in Data /\ j.tex = n /\ j.view = view /\ j.mem = 0
       /\ j.layout = "Undefined" /\ ~j.moved /\ j.preallocated
  <2>1. n \in Nat /\ 0 \in Nat /\ FALSE \in BOOLEAN
    BY <1>3, <1>6
  <2>2. /\ j \in Data /\ j.tex = n /\ j.view = view /\ j.mem = 0 /\ j.depth = FALSE
        /\ j.layout = i.layout /\ j.moved = i.moved /\ j.preallocated = i.preallocated
    <3>1. i \in Data /\ view \in Nat
      BY <1>8, <1>10
    <3> QED BY <1>11, <2>1, <3>1 DEF WithImage, Data
  <2> QED BY <1>8, <2>2
<1>13. /\ texture' = Append(texture, N) /\ memory' = memory
       /\ views' = (IF enough THEN views \union {n} ELSE views) /\ image' = [image EXCEPT ![o] = j]
  <2>1. PICK made : made = Initialized(i, layers, FALSE, enough)
    OBVIOUS
  <2>2. Makes(o, made)
    BY <1>7, <2>1 DEF InitializeIn
  <2>3. PICK M, V : /\ M = (IF i.preallocated THEN memory ELSE Append(memory, TRUE))
                    /\ V = (IF enough THEN views \union {n} ELSE views)
    OBVIOUS
  <2>4. M = memory
    BY <1>8, <2>3
  <2>5. j = [i EXCEPT !.tex = n, !.view = IF enough THEN n ELSE @, !.layers = layers,
                      !.mem = IF i.preallocated THEN 0 ELSE Len(memory) + 1, !.depth = FALSE]
    <3>1. PICK k : k = [i EXCEPT !.tex = n]
      OBVIOUS
    <3>2. k.view = i.view /\ (IF i.preallocated THEN 0 ELSE Len(memory) + 1) = 0
      BY <1>8, <3>1 DEF Data
    <3>3. (IF enough THEN n ELSE k.view) = view
      BY <1>9, <3>2
    <3> QED BY <1>11, <3>1, <3>2, <3>3, Zenon DEF WithImage
  <2>6. made = [texture |-> Append(texture, N), memory |-> M, views |-> V, image |-> j]
    BY <1>4, <1>6, <2>1, <2>3, <2>5, Zenon DEF Initialized
  <2> QED BY <2>2, <2>3, <2>4, <2>6, MakesIs, Zenon
<1>14. j.mem <= Len(memory)
  BY <1>3, <1>12
<1> QED BY <1>1, <1>5, <1>6, <1>10, <1>12, <1>13, <1>14, MadeAfresh

LEMMA ByInitializeOf ==
  ASSUME Disciplined, Inv, NEW o \in Objects, InitializeOf(o)
  PROVE  Remade(o)
<1>1. PICK n : n = Len(texture) + 1
  OBVIOUS
<1>2. MayMake(o) /\ recorded' = recorded /\ fault' = fault /\ memory' = memory
      /\ texture' = Append(texture, Texture(FALSE, TRUE, TRUE)) /\ views' = views \union {n}
      /\ image' = [image EXCEPT ![o] = [image[o] EXCEPT !.tex = n, !.view = n, !.layers = 1,
                                            !.layout = "PresentSrc", !.preallocated = TRUE]]
  BY <1>1 DEF InitializeOf
<1>3. image[o] \in Data /\ ~image[o].moved /\ image[o].mem <= Len(memory)
  BY <1>2, MakesFrom DEF Inv, ImageTypeOK
<1>4. n \in Nat /\ "PresentSrc" \in AllLayouts
  BY <1>1 DEF Inv, ImageTypeOK, AllLayouts
<1>5. PICK N : N = Texture(FALSE, TRUE, TRUE)
  OBVIOUS
<1>6. N \in Textures /\ N.live /\ N.shows = 0 /\ ~N.depth /\ N.swapchain /\ N.bound
  BY <1>5, TextureIs
<1>7. PICK j : j = [image[o] EXCEPT !.tex = n, !.view = n, !.layers = 1,
                                    !.layout = "PresentSrc", !.preallocated = TRUE]
  OBVIOUS
<1>8. /\ j \in Data /\ j.tex = n /\ j.view = n /\ j.mem = image[o].mem /\ ~j.moved /\ j.preallocated
  BY <1>3, <1>4, <1>7 DEF Data
<1>9. texture' = Append(texture, N) /\ image' = [image EXCEPT ![o] = j] /\ j.mem <= Len(memory)
  BY <1>2, <1>3, <1>5, <1>7, <1>8
<1> QED BY <1>1, <1>2, <1>6, <1>8, <1>9, MadeAfresh

(* Giving an image back. *)

Forgotten(i) == [i EXCEPT !.layout = "Undefined"]

GivenBack(i) == IF i.preallocated THEN memory ELSE [memory EXCEPT ![i.mem] = FALSE]

LEMMA GoneIs ==
  ASSUME NEW t \in Textures
  PROVE  Gone(t) \in Textures /\ ~Gone(t).live /\ Gone(t).shows = 0 /\ Gone(t).layout = "Undefined"
BY DEF Gone, Textures, AllLayouts

LEMMA MayGiveBack ==
  ASSUME Disciplined, Inv, NEW o \in Objects, image[o].tex # 0, MayReset(o)
  PROVE  /\ InUse(o) /\ ~texture[image[o].tex].pending /\ ~texture[image[o].tex].swapchain
         /\ ~IsRecorded(image[o].tex)
         /\ image[o] \in Data /\ image[o].tex \in DOMAIN texture /\ image[o].mem \in Nat
         /\ ~image[o].preallocated => image[o].mem \in DOMAIN memory /\ memory[image[o].mem]
<1>1. InUse(o) /\ ~texture[image[o].tex].pending /\ ~texture[image[o].tex].swapchain /\ ~IsRecorded(image[o].tex)
  BY DEF MayReset, InUse, May, Disciplined
<1>2. image[o] \in Data /\ image[o].tex <= Len(texture) /\ image[o].mem <= Len(memory)
  BY DEF Inv, ImageTypeOK
<1>3. image[o].tex \in Nat /\ image[o].mem \in Nat
  BY <1>2 DEF Data
<1>4. image[o].tex \in DOMAIN texture
  BY <1>2, <1>3 DEF Inv, ImageTypeOK
<1>5. ~image[o].preallocated => image[o].mem # 0 /\ memory[image[o].mem]
  BY <1>1 DEF Inv, ImageInv, MemoryOnce, OwnsMemory
<1>6. ~image[o].preallocated => image[o].mem \in DOMAIN memory
  BY <1>2, <1>3, <1>5 DEF Inv, ImageTypeOK
<1> QED BY <1>1, <1>2, <1>3, <1>4, <1>5, <1>6

(* The view an object in use would destroy is there, or it has none. *)
LEMMA ViewIs ==
  ASSUME Inv, NEW o \in Objects, InUse(o)
  PROVE  image[o].view \in views \union {0} /\ views \ {image[o].view} = views \ {image[o].tex}
<1>1. image[o] \in Data /\ image[o].tex <= Len(texture) /\ texture \in Seq(Textures) /\ ViewsOnce
  BY DEF Inv, ImageInv, ImageTypeOK
<1>2. image[o].tex \in DOMAIN texture /\ texture[image[o].tex].live /\ 0 \notin DOMAIN texture
  <2>1. image[o].tex \in Nat
    BY <1>1 DEF Data
  <2> QED BY <1>1, <2>1 DEF InUse, Live
<1>3. CASE texture[image[o].tex].bound
  BY <1>1, <1>2, <1>3 DEF ViewsOnce
<1>4. CASE ~texture[image[o].tex].bound
  <2>1. image[o].view = 0 /\ image[o].tex \notin views /\ 0 \notin views
    BY <1>1, <1>2, <1>4 DEF ViewsOnce
  <2> QED BY <2>1
<1> QED BY <1>3, <1>4

LEMMA DestroyedIs ==
  ASSUME Disciplined, Inv, NEW o \in Objects, image[o].tex # 0, MayReset(o)
  PROVE  LET s == Destroyed(Everything, o)
         IN  /\ s.image = [image EXCEPT ![o] = Forgotten(image[o])]
             /\ s.texture = [texture EXCEPT ![image[o].tex] = Gone(texture[image[o].tex])]
             /\ s.memory = GivenBack(image[o])
             /\ s.views = views \ {image[o].tex}
             /\ s.fault = "none"
<1>1. PICK e : e = Everything
  OBVIOUS
<1>2. e.image = image /\ e.texture = texture /\ e.memory = memory /\ e.views = views /\ e.fault = fault
  BY <1>1 DEF Everything
<1>3. fault = "none"
  BY DEF Inv, NoFault
<1>4. /\ Live(image[o].tex) /\ ~texture[image[o].tex].pending /\ ~texture[image[o].tex].swapchain
      /\ image[o].tex \in DOMAIN texture /\ image[o].mem \in Nat
      /\ ~image[o].preallocated => image[o].mem \in DOMAIN memory /\ memory[image[o].mem]
      /\ image[o].view \in views \union {0} /\ views \ {image[o].view} = views \ {image[o].tex}
  BY MayGiveBack, ViewIs DEF InUse
<1>5. Destroyed(e, o).fault = "none"
  BY <1>2, <1>3, <1>4 DEF Destroyed, Live
<1>6. Destroyed(e, o).image = [image EXCEPT ![o] = Forgotten(image[o])]
  <2>1. Destroyed(e, o).image = [image EXCEPT ![o].layout = "Undefined"]
    BY <1>2 DEF Destroyed
  <2>2. [image EXCEPT ![o].layout = "Undefined"] = [image EXCEPT ![o] = Forgotten(image[o])]
    BY Zenon DEF Forgotten
  <2> QED BY <2>1, <2>2
<1>7. Destroyed(e, o).texture = [texture EXCEPT ![image[o].tex] = Gone(texture[image[o].tex])]
  BY <1>2 DEF Destroyed
<1>8. Destroyed(e, o).memory = GivenBack(image[o])
  <2>1. ~image[o].preallocated => image[o].mem # 0
    BY <1>4 DEF Inv, ImageTypeOK
  <2>2. Destroyed(e, o).memory
          = IF image[o].preallocated \/ image[o].mem = 0 THEN memory ELSE [memory EXCEPT ![image[o].mem] = FALSE]
    BY <1>2 DEF Destroyed
  <2> QED BY <2>1, <2>2 DEF GivenBack
<1>9. Destroyed(e, o).views = views \ {image[o].tex}
  BY <1>2, <1>4 DEF Destroyed
<1> QED BY <1>1, <1>5, <1>6, <1>7, <1>8, <1>9

LEMMA GivenBackIs ==
  ASSUME Disciplined, Inv, NEW o \in Objects, image[o].tex # 0, MayReset(o), NEW M, M = GivenBack(image[o])
  PROVE  /\ M \in Seq(BOOLEAN) /\ Len(M) = Len(memory) /\ DOMAIN M = DOMAIN memory
         /\ \A m \in DOMAIN memory : M[m] <=> memory[m] /\ ~(OwnsMemory(o) /\ m = image[o].mem)
<1>1. memory \in Seq(BOOLEAN)
  BY DEF Inv, ImageTypeOK
<1>2. InUse(o) /\ (~image[o].preallocated => image[o].mem \in DOMAIN memory)
  BY MayGiveBack
<1>3. CASE image[o].preallocated
  BY <1>1, <1>3 DEF GivenBack, OwnsMemory
<1>4. CASE ~image[o].preallocated
  <2>1. M = [memory EXCEPT ![image[o].mem] = FALSE] /\ OwnsMemory(o)
    BY <1>2, <1>4 DEF GivenBack, OwnsMemory
  <2>2. PICK n \in DOMAIN memory : n = image[o].mem
    BY <1>2, <1>4
  <2>3. PICK no \in BOOLEAN : no = FALSE
    OBVIOUS
  <2>4. M = [memory EXCEPT ![n] = no]
    BY <2>1, <2>2, <2>3
  <2>5. M \in Seq(BOOLEAN) /\ Len(M) = Len(memory) /\ DOMAIN M = DOMAIN memory
    BY <1>1, <2>4
  <2>6. \A m \in DOMAIN memory : m # n => M[m] = memory[m]
    BY <1>1, <2>4
  <2>7. M[n] = FALSE
    BY <1>1, <2>3, <2>4
  <2> QED BY <2>1, <2>2, <2>5, <2>6, <2>7
<1> QED BY <1>3, <1>4

(* An object that is given another image and memory. *)
Forgets(i, j) ==
  /\ j.layout = i.layout /\ j.depth = i.depth
  /\ j.preallocated = i.preallocated /\ j.moved = i.moved

LEMMA ByResize ==
  ASSUME Disciplined, Inv, NEW o \in Objects, NEW enough \in BOOLEAN, Resize(o, enough)
  PROVE  Remade(o)
<1>0. Resize(o, TRUE)
  <2>1. enough = TRUE
    BY DEF Resize, May, Disciplined
  <2> QED BY <2>1
<1>1. /\ image[o].tex # 0 /\ MayReset(o) /\ ~image[o].depth /\ image[o].layout # "Undefined"
      /\ recorded' = recorded
  BY <1>0 DEF Resize, Usable, MayTransition, May, Disciplined
<1>2. /\ InUse(o) /\ ~IsRecorded(image[o].tex) /\ image[o] \in Data
      /\ image[o].tex \in DOMAIN texture /\ image[o].mem \in Nat
  BY <1>1, MayGiveBack
<1>3. /\ texture \in Seq(Textures) /\ memory \in Seq(BOOLEAN) /\ image \in [Objects -> Data]
      /\ Len(texture) \in Nat /\ Len(memory) \in Nat
  BY DEF Inv, ImageTypeOK
<1>4. PICK layout : layout = image[o].layout
  OBVIOUS
<1>5. layout \in AllLayouts /\ layout # "Undefined" /\ Convert(image[o].layout) = layout
  BY <1>1, <1>2, <1>4, ConvertIs DEF Data
<1>6. PICK g : g = Gone(texture[image[o].tex])
  OBVIOUS
<1>7. g \in Textures /\ ~g.live /\ g.shows = 0
  BY <1>2, <1>3, <1>6, GoneIs
<1>8. PICK X : X = [texture EXCEPT ![image[o].tex] = g]
  OBVIOUS
<1>9. /\ X \in Seq(Textures) /\ Len(X) = Len(texture) /\ DOMAIN X = DOMAIN texture /\ X[image[o].tex] = g
      /\ \A u \in DOMAIN texture : u # image[o].tex => X[u] = texture[u]
  BY <1>2, <1>3, <1>7, <1>8
<1>10. PICK i : i = Forgotten(image[o])
  OBVIOUS
<1>11. /\ i \in Data /\ i.depth = image[o].depth /\ i.layout = "Undefined" /\ i.mem = image[o].mem
       /\ i.preallocated = image[o].preallocated /\ i.moved = image[o].moved
  BY <1>2, <1>10 DEF Forgotten, Data, AllLayouts
<1>12. PICK mem : mem = IF i.preallocated THEN i.mem ELSE Len(memory) + 1
  OBVIOUS
<1>13. mem \in Nat
  BY <1>2, <1>3, <1>11, <1>12
<1>14. PICK made : made = [[[[i EXCEPT !.tex = Len(texture) + 1] EXCEPT !.view = Len(texture) + 1]
                              EXCEPT !.layers = 1] EXCEPT !.mem = mem]
  OBVIOUS
<1>15. /\ made \in Data /\ made.tex = Len(texture) + 1 /\ made.view = Len(texture) + 1 /\ made.mem = mem /\ made.layout = "Undefined"
       /\ made.depth = image[o].depth /\ made.preallocated = image[o].preallocated
       /\ made.moved = image[o].moved
  <2>1. PICK i1 : i1 = [[i EXCEPT !.tex = Len(texture) + 1] EXCEPT !.view = Len(texture) + 1]
    OBVIOUS
  <2>2. i1 \in Data /\ i1.tex = Len(texture) + 1 /\ i1.view = Len(texture) + 1 /\ Forgets(i, i1)
    <3>1. PICK n \in Nat : n = Len(texture) + 1
      BY <1>3
    <3>2. i \in Data /\ i1 = [[i EXCEPT !.tex = n] EXCEPT !.view = n]
      BY <1>11, <2>1, <3>1
    <3>3. i1 \in Data /\ i1.tex = n /\ i1.view = n /\ Forgets(i, i1)
      BY <3>2 DEF Data, Forgets
    <3> QED BY <3>1, <3>3
  <2>3. PICK i2 : i2 = [i1 EXCEPT !.layers = 1]
    OBVIOUS
  <2>4. i2 \in Data /\ i2.tex = i1.tex /\ i2.view = i1.view /\ Forgets(i1, i2)
    BY <2>2, <2>3 DEF Data, Forgets
  <2>5. made = [i2 EXCEPT !.mem = mem]
    BY <1>14, <2>1, <2>3, Zenon
  <2>6. made \in Data /\ made.tex = i2.tex /\ made.view = i2.view /\ made.mem = mem /\ Forgets(i2, made)
    BY <1>13, <2>4, <2>5 DEF Data, Forgets
  <2> QED BY <1>11, <2>2, <2>4, <2>6 DEF Forgets
<1>16. PICK n : n = Texture(i.depth, FALSE, TRUE)
  OBVIOUS
<1>17. n \in Textures /\ n.live /\ n.shows = 0 /\ n.depth = image[o].depth /\ n.layout = "Undefined"
       /\ n.bound = TRUE
  <2>1. i.depth \in BOOLEAN
    BY <1>11 DEF Data
  <2> QED BY <1>11, <1>16, <2>1, TextureIs, ZenonT(30)
<1>18. PICK y : y = Append(X, n)
  OBVIOUS
<1>19. /\ y \in Seq(Textures) /\ Len(y) = Len(texture) + 1 /\ y[Len(texture) + 1] = n
       /\ \A u \in DOMAIN texture : y[u] = X[u]
  BY <1>9, <1>17, <1>18, AppendProperties
<1>20. PICK im : im = [image EXCEPT ![o] = made]
  OBVIOUS
<1>21. im \in [Objects -> Data] /\ im[o] = made /\ \A q \in Objects \ {o} : im[q] = image[q]
  BY <1>3, <1>15, <1>20
<1>22. PICK t : t = Len(texture) + 1
  OBVIOUS
<1>23. t \in DOMAIN y /\ t \notin DOMAIN texture /\ y[t] = n /\ im[o].tex = t
  BY <1>3, <1>15, <1>19, <1>21, <1>22
<1>24. Ready(im, y, o)
  BY <1>1, <1>15, <1>17, <1>21, <1>23 DEF Ready
<1>25. Transitioned(Triple(im, y, "none"), o, layout)
         = Triple(With(im, o, Tracks(im[o], layout)), With(y, t, Laid(y[t], layout, y[t].shows)), "none")
  BY <1>5, <1>19, <1>21, <1>23, <1>24, TransitionedIs
<1>26. PICK s : s = Destroyed(Everything, o)
  OBVIOUS
<1>27. /\ s.image = [image EXCEPT ![o] = i] /\ s.texture = X
       /\ s.memory = GivenBack(image[o]) /\ s.views = views \ {image[o].tex} /\ s.fault = "none"
  BY <1>1, <1>6, <1>8, <1>10, <1>26, DestroyedIs
<1>28. s.image[o] = i /\ [s.image EXCEPT ![o] = made] = im
  BY <1>3, <1>20, <1>27
<1>29. /\ memory' = (IF i.preallocated THEN s.memory ELSE Append(s.memory, TRUE))
       /\ views' = s.views \union {t}
       /\ Becomes(Transitioned(Triple(im, y, "none"), o, layout))
  <2>1. /\ memory' = (IF s.image[o].preallocated THEN s.memory ELSE Append(s.memory, TRUE))
        /\ views' = (IF TRUE THEN s.views \union {Len(texture) + 1} ELSE s.views)
        /\ Becomes(Transitioned(
             [image |-> [s.image EXCEPT ![o] = [s.image[o] EXCEPT !.tex = Len(texture) + 1,
                  !.view = IF TRUE THEN Len(texture) + 1 ELSE @, !.layers = 1,
                  !.mem = IF s.image[o].preallocated THEN @ ELSE Len(memory) + 1]],
              texture |-> Append(s.texture, Texture(s.image[o].depth, FALSE, TRUE)),
              fault |-> s.fault], o, Convert(image[o].layout)))
    BY <1>0, <1>26, Zenon DEF Resize, ResetFirst
  <2>2. [i EXCEPT !.tex = Len(texture) + 1, !.view = IF TRUE THEN Len(texture) + 1 ELSE @, !.layers = 1,
                  !.mem = IF i.preallocated THEN @ ELSE Len(memory) + 1] = made
    <3>1. PICK i2 : i2 = [[[i EXCEPT !.tex = Len(texture) + 1] EXCEPT !.view = Len(texture) + 1] EXCEPT !.layers = 1]
      OBVIOUS
    <3>2. i2.mem = i.mem
      BY <1>11, <3>1 DEF Data
    <3>3. [i2 EXCEPT !.mem = IF i.preallocated THEN i2.mem ELSE Len(memory) + 1] = made
      BY <1>12, <1>14, <3>1, <3>2
    <3> QED BY <3>1, <3>3, Zenon
  <2>3. [image |-> im, texture |-> y, fault |-> "none"] = Triple(im, y, "none")
    BY DEF Triple
  <2> QED BY <1>5, <1>16, <1>18, <1>22, <1>27, <1>28, <2>1, <2>2, <2>3, Zenon
<1>30. PICK j : j = Tracks(made, layout)
  OBVIOUS
<1>31. /\ j \in Data /\ j.tex = t /\ j.view = t /\ j.mem = mem /\ j.layout = layout /\ ~j.depth
       /\ j.preallocated = image[o].preallocated /\ ~j.moved
  <2>1. ~image[o].moved
    BY <1>2 DEF InUse
  <2> QED BY <1>1, <1>5, <1>15, <1>22, <1>30, <2>1, TracksIs DEF Keeps
<1>32. PICK N : N = Laid(n, layout, n.shows)
  OBVIOUS
<1>33. N \in Textures /\ N.live /\ ~N.depth /\ N.layout = layout /\ N.shows = 0 /\ N.bound = TRUE
  BY <1>1, <1>5, <1>17, <1>32 DEF Laid, Textures
<1>34. image' = With(im, o, j) /\ texture' = With(y, t, N) /\ fault' = "none"
  <2>1. Becomes(Triple(With(im, o, j), With(y, t, N), "none"))
    BY <1>21, <1>23, <1>25, <1>29, <1>30, <1>32
  <2> QED BY <2>1, BecomesIs
<1>35. image' \in [Objects -> Data] /\ image'[o] = j /\ \A q \in Objects \ {o} : image'[q] = image[q]
  BY <1>21, <1>31, <1>34 DEF With
<1>36. /\ texture' \in Seq(Textures) /\ Len(texture') = Len(texture) + 1 /\ texture'[t] = N
       /\ \A u \in DOMAIN texture : texture'[u] = X[u]
  BY <1>19, <1>23, <1>33, <1>34 DEF With
<1>37. NewTexture(o)
  <2>1. image[o].tex \notin Touched /\ ~texture'[image[o].tex].live /\ texture'[image[o].tex].shows = 0
    BY <1>2, <1>7, <1>9, <1>36 DEF Touched
  <2> QED BY <1>9, <1>22, <1>31, <1>33, <1>35, <1>36, <2>1 DEF NewTexture
<1>38. NewMemory(o)
  <2>1. PICK M : M = GivenBack(image[o])
    OBVIOUS
  <2>2. /\ M \in Seq(BOOLEAN) /\ Len(M) = Len(memory) /\ DOMAIN M = DOMAIN memory
        /\ \A m \in DOMAIN memory : M[m] <=> memory[m] /\ ~(OwnsMemory(o) /\ m = image[o].mem)
    BY <1>1, <2>1, GivenBackIs
  <2>3. CASE image[o].preallocated
    <3>1. M = memory /\ memory' = memory
      BY <1>11, <1>27, <1>29, <2>1, <2>3 DEF GivenBack
    <3>2. image'[o].mem <= Len(memory) /\ image'[o].preallocated
      <4>1. image[o].mem <= Len(memory)
        BY DEF Inv, ImageTypeOK
      <4> QED BY <1>11, <1>12, <1>31, <1>35, <2>3, <4>1
    <3>3. ~OwnsMemory(o)
      BY <2>3 DEF OwnsMemory
    <3> QED BY <1>3, <3>1, <3>2, <3>3 DEF NewMemory
  <2>4. CASE ~image[o].preallocated
    <3>1. memory' = Append(M, TRUE) /\ M \in Seq(BOOLEAN) /\ Len(M) = Len(memory) /\ DOMAIN M = DOMAIN memory
      BY <1>11, <1>27, <1>29, <2>1, <2>2, <2>4
    <3>2. /\ memory' \in Seq(BOOLEAN) /\ Len(memory') = Len(M) + 1 /\ memory'[Len(M) + 1] = TRUE
          /\ \A m \in DOMAIN M : memory'[m] = M[m]
      BY <3>1, MoreMemory, Zenon
    <3>3. /\ memory' \in Seq(BOOLEAN) /\ Len(memory') = Len(memory) + 1 /\ memory'[Len(memory) + 1]
          /\ \A m \in DOMAIN memory : memory'[m] = M[m]
      BY <3>1, <3>2, Zenon
    <3>4. image'[o].mem = Len(memory) + 1 /\ ~image'[o].preallocated
      BY <1>11, <1>12, <1>31, <1>35, <2>4
    <3>5. image'[o].mem <= Len(memory')
      BY <1>3, <3>3, <3>4
    <3> QED BY <2>2, <3>3, <3>4, <3>5 DEF NewMemory
  <2> QED BY <2>3, <2>4
<1>39. NewViews(o)
  <2>1. image'[o].view = t /\ texture'[t].bound = TRUE /\ views' = (views \ {image[o].tex}) \union {t}
    BY <1>27, <1>29, <1>31, <1>33, <1>35, <1>36
  <2> QED BY <1>22, <2>1 DEF NewViews
<1> QED BY <1>1, <1>2, <1>22, <1>31, <1>34, <1>35, <1>37, <1>38, <1>39 DEF Remade, InUse

(* An object whose image is given back. *)
Dropped(o) ==
  /\ image' \in [Objects -> Data] /\ Keeps(image[o], image'[o]) /\ image'[o].layout = "Undefined"
  /\ \A q \in Objects \ {o} : image'[q] = image[q]
  /\ InUse(o) /\ image[o].tex \notin Touched
  /\ texture' \in Seq(Textures) /\ Len(texture') = Len(texture)
  /\ \A u \in DOMAIN texture : u # image[o].tex => texture'[u] = texture[u]
  /\ ~texture'[image[o].tex].live /\ texture'[image[o].tex].shows = 0
  /\ memory' \in Seq(BOOLEAN) /\ Len(memory') = Len(memory)
  /\ \A m \in DOMAIN memory : memory'[m] <=> memory[m] /\ ~(OwnsMemory(o) /\ m = image[o].mem)
  /\ views' = views \ {image[o].tex}
  /\ recorded' = recorded /\ fault' = "none"

LEMMA ByReset ==
  ASSUME Disciplined, Inv, NEW o \in Objects, Reset(o)
  PROVE  Dropped(o)
<1>1. image[o].tex # 0 /\ MayReset(o) /\ recorded' = recorded
  BY DEF Reset
<1>2. /\ InUse(o) /\ ~IsRecorded(image[o].tex) /\ image[o] \in Data
      /\ image[o].tex \in DOMAIN texture
  BY <1>1, MayGiveBack
<1>3. texture \in Seq(Textures) /\ image \in [Objects -> Data]
  BY DEF Inv, ImageTypeOK
<1>4. PICK g : g = Gone(texture[image[o].tex])
  OBVIOUS
<1>5. g \in Textures /\ ~g.live /\ g.shows = 0
  BY <1>2, <1>3, <1>4, GoneIs
<1>6. PICK j : j = Forgotten(image[o])
  OBVIOUS
<1>7. j \in Data /\ j.layout = "Undefined" /\ Keeps(image[o], j)
  BY <1>2, <1>6 DEF Forgotten, Data, AllLayouts, Keeps
<1>8. PICK M : M = GivenBack(image[o])
  OBVIOUS
<1>9. image' = [image EXCEPT ![o] = j] /\ texture' = [texture EXCEPT ![image[o].tex] = g] /\ memory' = M
      /\ views' = views \ {image[o].tex} /\ fault' = "none"
  <2>1. PICK s : s = Destroyed(Everything, o)
    OBVIOUS
  <2>2. image' = s.image /\ texture' = s.texture /\ memory' = s.memory /\ views' = s.views /\ fault' = s.fault
    BY <2>1 DEF Reset
  <2> QED BY <1>1, <1>4, <1>6, <1>8, <2>1, <2>2, DestroyedIs
<1>10. /\ M \in Seq(BOOLEAN) /\ Len(M) = Len(memory)
       /\ \A m \in DOMAIN memory : M[m] <=> memory[m] /\ ~(OwnsMemory(o) /\ m = image[o].mem)
  BY <1>1, <1>8, GivenBackIs
<1>11. /\ image' \in [Objects -> Data] /\ image'[o] = j
       /\ \A q \in Objects \ {o} : image'[q] = image[q]
  BY <1>3, <1>7, <1>9
<1>12. /\ texture' \in Seq(Textures) /\ Len(texture') = Len(texture) /\ texture'[image[o].tex] = g
       /\ \A u \in DOMAIN texture : u # image[o].tex => texture'[u] = texture[u]
  BY <1>2, <1>3, <1>5, <1>9
<1> QED BY <1>1, <1>2, <1>5, <1>7, <1>9, <1>10, <1>11, <1>12 DEF Dropped, Touched

LEMMA DroppedUse ==
  ASSUME Inv, NEW o \in Objects, Dropped(o)
  PROVE  /\ \A q \in Objects : /\ image'[q].tex = image[q].tex /\ image'[q].mem = image[q].mem
                               /\ image'[q].moved = image[q].moved
                               /\ image'[q].preallocated = image[q].preallocated
                               /\ InUse(q)' <=> InUse(q) /\ q # o
         /\ \A q \in Objects \ {o} : InUse(q) => /\ image[q].tex \in DOMAIN texture
                                                 /\ image[q].tex # image[o].tex
                                                 /\ texture'[image[q].tex] = texture[image[q].tex]
<1>1. HeldOnce /\ InUse(o)
  BY DEF Inv, ImageInv, Dropped
<1>2. ASSUME NEW q \in Objects
      PROVE  /\ image'[q].tex = image[q].tex /\ image'[q].mem = image[q].mem
             /\ image'[q].moved = image[q].moved
             /\ image'[q].preallocated = image[q].preallocated
  <2>1. CASE q = o
    BY <2>1 DEF Dropped, Keeps
  <2>2. CASE q # o
    BY <2>2 DEF Dropped
  <2> QED BY <2>1, <2>2
<1>3. ASSUME NEW q \in Objects, image[q].tex # 0
      PROVE  image[q].tex \in DOMAIN texture
  <2>1. image[q] \in Data /\ image[q].tex <= Len(texture) /\ texture \in Seq(Textures)
    BY DEF Inv, ImageTypeOK
  <2>2. image[q].tex \in Nat
    BY <2>1 DEF Data
  <2> QED BY <1>3, <2>1, <2>2
<1>4. ASSUME NEW q \in Objects \ {o}, ~image[q].moved
      PROVE  image[q].tex # image[o].tex
  BY <1>1, <1>4 DEF HeldOnce
<1>5. ASSUME NEW q \in Objects \ {o}, ~image[q].moved, image[q].tex # 0
      PROVE  texture'[image[q].tex] = texture[image[q].tex]
  BY <1>3, <1>4, <1>5 DEF Dropped
<1>6. ASSUME NEW q \in Objects
      PROVE  InUse(q)' <=> InUse(q) /\ q # o
  <2>1. InUse(q)' <=> ~image[q].moved /\ image[q].tex # 0 /\ texture'[image[q].tex].live
    BY <1>2 DEF InUse, Live
  <2>2. InUse(q) <=> ~image[q].moved /\ image[q].tex # 0 /\ texture[image[q].tex].live
    BY DEF InUse, Live
  <2>3. CASE q = o
    <3>1. ~texture'[image[q].tex].live
      BY <2>3 DEF Dropped
    <3> QED BY <2>1, <2>3, <3>1
  <2>4. CASE q # o
    BY <1>5, <2>1, <2>2, <2>4
  <2> QED BY <2>3, <2>4
<1>7. ASSUME NEW q \in Objects \ {o}, InUse(q)
      PROVE  /\ image[q].tex \in DOMAIN texture /\ image[q].tex # image[o].tex
             /\ texture'[image[q].tex] = texture[image[q].tex]
  <2>1. ~image[q].moved /\ image[q].tex # 0
    BY <1>7 DEF InUse, Live
  <2> QED BY <1>3, <1>4, <1>5, <2>1
<1> QED BY <1>2, <1>6, <1>7

LEMMA DroppedViews ==
  ASSUME Inv, NEW o \in Objects, Dropped(o)
  PROVE  ViewsOnce'
<1>1. ViewsOnce /\ texture \in Seq(Textures) /\ texture' \in Seq(Textures) /\ Len(texture') = Len(texture)
  BY DEF Inv, ImageInv, ImageTypeOK, Dropped
<1>2. /\ \A u \in DOMAIN texture : u # image[o].tex => texture'[u] = texture[u]
      /\ ~texture'[image[o].tex].live /\ views' = views \ {image[o].tex}
  BY DEF Dropped
<1>3. DOMAIN texture' = DOMAIN texture
  BY <1>1
<1>4. ASSUME NEW q \in Objects, InUse(q)'
      PROVE  image'[q].view = IF texture'[image'[q].tex].bound THEN image'[q].tex ELSE 0
  <2>1. InUse(q) /\ q # o
    BY <1>4, DroppedUse
  <2>2. image'[q] = image[q] /\ texture'[image[q].tex] = texture[image[q].tex]
    BY <2>1, DroppedUse DEF Dropped
  <2> QED BY <1>1, <2>1, <2>2 DEF ViewsOnce
<1>5. \A t : t \in views' <=> t \in DOMAIN texture' /\ texture'[t].live /\ texture'[t].bound
  <2>1. \A t : t \in views <=> t \in DOMAIN texture /\ texture[t].live /\ texture[t].bound
    BY <1>1 DEF ViewsOnce
  <2> QED BY <1>2, <1>3, <2>1
<1> QED BY <1>4, <1>5 DEF ViewsOnce

LEMMA DroppedInv ==
  ASSUME Inv, NEW o \in Objects, Dropped(o)
  PROVE  Inv' /\ Renewed(o)
<1>1. /\ ImageTypeOK /\ ImageInv /\ texture \in Seq(Textures) /\ memory \in Seq(BOOLEAN)
  BY DEF Inv, ImageTypeOK
<1>2. /\ image' \in [Objects -> Data] /\ \A q \in Objects \ {o} : image'[q] = image[q]
      /\ recorded' = recorded /\ fault' = "none" /\ memory' \in Seq(BOOLEAN)
      /\ texture' \in Seq(Textures) /\ Len(texture') = Len(texture) /\ Len(memory') = Len(memory)
      /\ InUse(o) /\ image'[o].layout = "Undefined"
  BY DEF Dropped
<1>3. /\ \A u \in DOMAIN texture : u # image[o].tex => texture'[u] = texture[u]
      /\ image[o].tex \notin Touched /\ ~texture'[image[o].tex].live /\ texture'[image[o].tex].shows = 0
      /\ \A m \in DOMAIN memory : memory'[m] <=> memory[m] /\ ~(OwnsMemory(o) /\ m = image[o].mem)
  BY DEF Dropped
<1>4. /\ \A q \in Objects : /\ image'[q].tex = image[q].tex /\ image'[q].mem = image[q].mem
                            /\ image'[q].moved = image[q].moved
                            /\ image'[q].preallocated = image[q].preallocated
                            /\ InUse(q)' <=> InUse(q) /\ q # o
      /\ \A q \in Objects \ {o} : InUse(q) => /\ image[q].tex \in DOMAIN texture
                                              /\ image[q].tex # image[o].tex
                                              /\ texture'[image[q].tex] = texture[image[q].tex]
  BY DroppedUse
<1>5. DOMAIN texture' = DOMAIN texture /\ DOMAIN memory' = DOMAIN memory /\ 0 \notin DOMAIN texture
  BY <1>1, <1>2
<1>6. ImageTypeOK'
  <2>1. views' \subseteq Nat
    BY <1>1 DEF ImageTypeOK, Dropped
  <2> QED BY <1>1, <1>2, <1>4, <2>1 DEF ImageTypeOK
<1>7. HeldOnce'
  <2>1. ASSUME NEW p \in Objects, NEW q \in Objects, InUse(p)', ~image'[q].moved, image'[p].tex = image'[q].tex
        PROVE  p = q
    BY <1>1, <1>4, <2>1 DEF ImageInv, HeldOnce
  <2>2. ASSUME NEW t \in DOMAIN texture', texture'[t].live
        PROVE  \E q \in Objects : InUse(q)' /\ image'[q].tex = t
    <3>1. t \in DOMAIN texture /\ t # image[o].tex /\ texture[t].live
      BY <1>3, <1>5, <2>2
    <3>2. PICK q \in Objects : InUse(q) /\ image[q].tex = t
      BY <1>1, <3>1 DEF ImageInv, HeldOnce
    <3>3. q # o
      BY <3>1, <3>2
    <3> QED BY <1>4, <3>2, <3>3
  <2> QED BY <2>1, <2>2 DEF HeldOnce
<1>8. MemoryOnce'
  <2>1. ASSUME NEW q \in Objects
        PROVE  OwnsMemory(q)' <=> OwnsMemory(q) /\ q # o
    BY <1>4 DEF OwnsMemory
  <2>2. ASSUME NEW q \in Objects, OwnsMemory(q)
        PROVE  image[q].mem \in DOMAIN memory /\ memory[image[q].mem] /\ image[q].mem # 0
    <3>1. image[q] \in Data /\ image[q].mem <= Len(memory) /\ image[q].mem # 0 /\ memory[image[q].mem]
      BY <1>1, <2>2 DEF ImageTypeOK, ImageInv, MemoryOnce
    <3>2. image[q].mem \in Nat
      BY <3>1 DEF Data
    <3> QED BY <1>1, <3>1, <3>2
  <2>3. ASSUME NEW q \in Objects, OwnsMemory(q)'
        PROVE  image'[q].mem # 0 /\ memory'[image'[q].mem]
    <3>1. OwnsMemory(q) /\ q # o
      BY <2>1, <2>3
    <3>2. ~(OwnsMemory(o) /\ image[q].mem = image[o].mem)
      BY <1>1, <3>1 DEF ImageInv, MemoryOnce
    <3> QED BY <1>3, <1>4, <2>2, <3>1, <3>2
  <2>4. ASSUME NEW p \in Objects, NEW q \in Objects, OwnsMemory(p)', OwnsMemory(q)', image'[p].mem = image'[q].mem
        PROVE  p = q
    BY <1>1, <1>4, <2>1, <2>4 DEF ImageInv, MemoryOnce
  <2>5. ASSUME NEW m \in DOMAIN memory', memory'[m]
        PROVE  \E q \in Objects : OwnsMemory(q)' /\ image'[q].mem = m
    <3>1. m \in DOMAIN memory /\ memory[m] /\ ~(OwnsMemory(o) /\ m = image[o].mem)
      BY <1>3, <1>5, <2>5
    <3>2. PICK q \in Objects : OwnsMemory(q) /\ image[q].mem = m
      BY <1>1, <3>1 DEF ImageInv, MemoryOnce
    <3>3. q # o
      BY <3>1, <3>2
    <3> QED BY <1>4, <2>1, <3>2, <3>3
  <2> QED BY <2>3, <2>4, <2>5 DEF MemoryOnce
<1>9. \A t \in Touched : t \in DOMAIN texture /\ texture'[t] = texture[t]
  BY <1>3 DEF Touched
<1>10. PICK a, b : /\ Ahead = State(a, "none") /\ Ahead' = State(b, "none")
                   /\ Ahead.texture = a /\ (Ahead.texture)' = b /\ (Ahead.fault)' = "none"
                   /\ \A t \in DOMAIN texture :
                        texture'[t] = texture[t] => b[t].layout = a[t].layout /\ b[t].shows = a[t].shows
                   /\ \A t \in DOMAIN texture' : t \notin Touched => b[t] = texture'[t]
  <2>1. Len(texture) <= Len(texture')
    <3>1. Len(texture) \in Nat
      BY <1>1
    <3> QED BY <1>2, <3>1
  <2> QED BY <1>2, <1>9, <2>1, AheadRest
<1>11. WellRecorded'
  <2>1. \A k \in DOMAIN recorded : /\ Fit(recorded[k]) /\ recorded[k].tex \in Touched
                                   /\ (recorded[k].dst # 0 => recorded[k].dst \in Touched)
    BY RecordedFit
  <2>2. ASSUME NEW k \in DOMAIN recorded'
        PROVE  (LET c == recorded[k] IN
                /\ Live(c.tex) /\ c.tex <= Len(texture) /\ (c.op = "barrier" => c.to # "")
                /\ c.dst # 0 => Live(c.dst) /\ c.dst <= Len(texture) /\ c.dst # c.tex /\ c.op = "out")'
    <3>1. PICK c : c = recorded[k]
      OBVIOUS
    <3>2. /\ Fit(c) /\ c.tex \in Touched /\ (c.dst # 0 => c.dst \in Touched) /\ recorded'[k] = c
      BY <1>2, <2>1, <3>1
    <3>3. c.tex # 0 /\ texture'[c.tex].live
      BY <1>9, <3>2 DEF Fit, Live
    <3>4. c.dst # 0 => texture'[c.dst].live
      BY <1>9, <3>2 DEF Fit, Live
    <3> QED BY <1>2, <3>2, <3>3, <3>4 DEF Fit, Live
  <2> QED BY <2>2 DEF WellRecorded
<1>12. ASSUME NEW q \in Objects
       PROVE  InLayout(q)'
  <2>1. CASE q = o
    <3>1. ~InUse(q)'
      BY <1>4, <2>1
    <3> QED BY <1>2, <2>1, <3>1 DEF InLayout
  <2>2. CASE q # o
    <3>1. image'[q] = image[q] /\ InLayout(q) /\ (InUse(q)' <=> InUse(q))
      BY <1>1, <1>2, <1>4, <2>2 DEF ImageInv
    <3>2. InUse(q) => /\ image[q].tex \in DOMAIN texture
                      /\ texture'[image[q].tex] = texture[image[q].tex]
      BY <1>4, <2>2
    <3>3. InUse(q) => b[image[q].tex].layout = a[image[q].tex].layout
      BY <1>10, <3>2
    <3>4. InUse(q)' => (texture'[image'[q].tex].depth => image'[q].depth)
      BY <3>1, <3>2 DEF InLayout
    <3>5. InUse(q)' /\ ~texture'[image'[q].tex].swapchain
            => (Ahead.texture)'[image'[q].tex].layout = image'[q].layout
      BY <1>10, <3>1, <3>2, <3>3 DEF InLayout
    <3>6. ~image'[q].moved /\ ~Live(image[q].tex)' => image'[q].layout = "Undefined"
      <4>1. ~image'[q].moved /\ ~Live(image[q].tex)' => ~InUse(q)'
        BY DEF InUse
      <4>2. ~image[q].moved /\ ~InUse(q) => image[q].layout = "Undefined"
        BY <3>1 DEF InLayout, InUse
      <4> QED BY <3>1, <4>1, <4>2
    <3> QED BY <3>4, <3>5, <3>6 DEF InLayout
  <2> QED BY <2>1, <2>2
<1>13. Blank'
  <2>1. ASSUME NEW t \in DOMAIN texture', b[t].layout = "Undefined"
        PROVE  b[t].shows = 0
    <3>1. CASE t = image[o].tex
      BY <1>3, <1>10, <2>1, <3>1
    <3>2. CASE t # image[o].tex
      <4>1. b[t].layout = a[t].layout /\ b[t].shows = a[t].shows /\ t \in DOMAIN texture
        BY <1>3, <1>5, <1>10, <2>1, <3>2
      <4> QED BY <1>1, <1>10, <2>1, <4>1 DEF ImageInv, Blank
    <3> QED BY <3>1, <3>2
  <2> QED BY <1>10, <2>1 DEF Blank
<1>14. Inv'
  BY <1>2, <1>6, <1>7, <1>8, <1>10, <1>11, <1>12, <1>13, DroppedViews DEF Inv, ImageInv, NoFault
<1>15. ASSUME NEW q \in Objects
       PROVE  (IF InUse(q)' THEN b[image'[q].tex].shows ELSE 0)
                = (IF q = o THEN 0 ELSE IF InUse(q) THEN a[image[q].tex].shows ELSE 0)
  <2>1. CASE q = o
    BY <1>4, <2>1
  <2>2. CASE q # o
    <3>1. image'[q] = image[q] /\ (InUse(q)' <=> InUse(q))
      BY <1>2, <1>4, <2>2
    <3>2. InUse(q) => b[image[q].tex].shows = a[image[q].tex].shows
      BY <1>4, <1>10, <2>2
    <3> QED BY <2>2, <3>1, <3>2
  <2> QED BY <2>1, <2>2
<1>16. Shown = [q \in Objects |-> IF InUse(q) THEN a[image[q].tex].shows ELSE 0]
  BY <1>10, ShownIs
<1>17. Shown' = [q \in Objects |-> IF InUse(q)' THEN b[image'[q].tex].shows ELSE 0]
  BY <1>10, ShownThen
<1>18. Shown' = [q \in Objects |-> IF q = o THEN 0 ELSE IF InUse(q) THEN a[image[q].tex].shows ELSE 0]
  BY <1>15, <1>17
<1>19. [Shown EXCEPT ![o] = 0] = [q \in Objects |-> IF q = o THEN 0 ELSE IF InUse(q) THEN a[image[q].tex].shows ELSE 0]
  BY <1>16
<1>20. Holds = [q \in Objects |-> IF InUse(q) THEN image[q].tex ELSE 0]
       /\ Holds' = [q \in Objects |-> IF InUse(q)' THEN image'[q].tex ELSE 0]
  BY DEF Holds
<1>21. Holds'[o] = 0 /\ Holds[o] # 0
  BY <1>2, <1>4, <1>20 DEF InUse, Live
<1>22. \A q \in Objects \ {o} : Holds'[q] = Holds[q]
  BY <1>4, <1>20
<1>23. Holds' = [Holds EXCEPT ![o] = Holds'[o]]
  BY <1>20, <1>22
<1> QED BY <1>14, <1>18, <1>19, <1>21, <1>23 DEF Renewed

(* An object that is given the image of another. *)
LEMMA ByAssign ==
  ASSUME Disciplined, Inv, NEW o \in Objects, NEW from \in Objects, AssignImage(o, from)
  PROVE  /\ Inv' /\ Shown' = [Shown EXCEPT ![o] = Shown[from], ![from] = 0]
         /\ Holds[from] # 0 /\ Holds' = [Holds EXCEPT ![o] = Holds[from], ![from] = 0]
<1>1. /\ o # from /\ ~Live(image[o].tex) /\ InUse(from)
      /\ texture' = texture /\ memory' = memory /\ views' = views /\ recorded' = recorded /\ fault' = fault
      /\ image' = [image EXCEPT ![o] = image[from], ![from].moved = TRUE]
  BY DEF AssignImage, Usable, May, Disciplined, InUse
<1>2. ImageTypeOK /\ ImageInv /\ image \in [Objects -> Data]
  BY DEF Inv, ImageTypeOK
<1>3. PICK i \in Data : i = image[from]
  BY <1>2
<1>4. PICK j : j = [i EXCEPT !.moved = TRUE]
  OBVIOUS
<1>5. j \in Data /\ j.moved /\ j.tex = i.tex /\ j.mem = i.mem /\ ~i.moved
  BY <1>1, <1>3, <1>4 DEF Data, InUse
<1>6. /\ image' \in [Objects -> Data] /\ image'[o] = i /\ image'[from] = j
      /\ \A q \in Objects \ {o, from} : image'[q] = image[q]
  <2>1. PICK x : x = [image EXCEPT ![o] = i]
    OBVIOUS
  <2>2. x \in [Objects -> Data] /\ x[o] = i /\ x[from] = i /\ \A q \in Objects \ {o} : x[q] = image[q]
    BY <1>1, <1>2, <1>3, <2>1
  <2>3. image' = [x EXCEPT ![from].moved = TRUE]
    BY <1>1, <1>3, <2>1, Zenon
  <2>4. image' = [x EXCEPT ![from] = j]
    BY <1>4, <2>2, <2>3, Zenon
  <2> QED BY <1>1, <1>5, <2>2, <2>4
<1>7. ~InUse(o) /\ InUse(o)' /\ ~InUse(from)' /\ \A q \in Objects \ {o, from} : InUse(q)' <=> InUse(q)
  BY <1>1, <1>3, <1>5, <1>6 DEF InUse, Live
<1>8. Ahead' = Ahead
  BY <1>1, Zenon DEF Ahead, Now
<1>9. ImageTypeOK'
  <2>1. ASSUME NEW q \in Objects
        PROVE  image'[q].tex <= Len(texture) /\ image'[q].mem <= Len(memory)
    <3>1. \A p \in Objects : image[p].tex <= Len(texture) /\ image[p].mem <= Len(memory)
      BY <1>2 DEF ImageTypeOK
    <3>2. CASE q \in {o, from}
      BY <1>3, <1>5, <1>6, <3>1, <3>2
    <3>3. CASE q \notin {o, from}
      BY <1>6, <3>1, <3>3
    <3> QED BY <3>2, <3>3
  <2> QED BY <1>1, <1>2, <1>6, <2>1 DEF ImageTypeOK
<1>10. HeldOnce'
  <2>1. HeldOnce
    BY <1>2 DEF ImageInv
  <2>2. ASSUME NEW p \in Objects, NEW q \in Objects, InUse(p)', ~image'[q].moved, image'[p].tex = image'[q].tex
        PROVE  p = q
    <3>1. p # from /\ q # from
      BY <1>5, <1>6, <1>7, <2>2
    <3>2. CASE p # o /\ q # o
      BY <1>6, <1>7, <2>1, <2>2, <3>1, <3>2 DEF HeldOnce
    <3>3. CASE p = o /\ q # o
      BY <1>1, <1>3, <1>6, <2>1, <2>2, <3>1, <3>3 DEF HeldOnce
    <3>4. CASE p # o /\ q = o
      <4>1. InUse(p) /\ image[p].tex = image[from].tex /\ ~image[from].moved
        BY <1>3, <1>5, <1>6, <1>7, <2>2, <3>1, <3>4
      <4> QED BY <2>1, <3>1, <4>1 DEF HeldOnce
    <3> QED BY <3>2, <3>3, <3>4
  <2>3. ASSUME NEW t \in DOMAIN texture', texture'[t].live
        PROVE  \E q \in Objects : InUse(q)' /\ image'[q].tex = t
    <3>1. PICK q \in Objects : InUse(q) /\ image[q].tex = t
      BY <1>1, <2>1, <2>3 DEF HeldOnce
    <3>2. CASE q = from
      BY <1>3, <1>6, <1>7, <3>1, <3>2
    <3>3. CASE q # from
      BY <1>6, <1>7, <3>1, <3>3
    <3> QED BY <3>2, <3>3
  <2> QED BY <2>2, <2>3 DEF HeldOnce
<1>11. MemoryOnce'
  <2>1. MemoryOnce
    BY <1>2 DEF ImageInv
  <2>2. /\ ~OwnsMemory(from)' /\ (OwnsMemory(o)' <=> OwnsMemory(from)) /\ ~OwnsMemory(o)
        /\ image'[o].mem = image[from].mem
        /\ \A q \in Objects \ {o, from} : (OwnsMemory(q)' <=> OwnsMemory(q)) /\ image'[q].mem = image[q].mem
    BY <1>1, <1>3, <1>6, <1>7 DEF OwnsMemory
  <2>3. ASSUME NEW q \in Objects, OwnsMemory(q)'
        PROVE  image'[q].mem # 0 /\ memory'[image'[q].mem]
    <3>1. CASE q = o
      BY <1>1, <2>1, <2>2, <2>3, <3>1 DEF MemoryOnce
    <3>2. CASE q # o
      BY <1>1, <2>1, <2>2, <2>3, <3>2 DEF MemoryOnce
    <3> QED BY <3>1, <3>2
  <2>4. ASSUME NEW p \in Objects, NEW q \in Objects, OwnsMemory(p)', OwnsMemory(q)', image'[p].mem = image'[q].mem
        PROVE  p = q
    <3>1. p # from /\ q # from
      BY <2>2, <2>4
    <3>2. CASE p # o /\ q # o
      BY <2>1, <2>2, <2>4, <3>1, <3>2 DEF MemoryOnce
    <3>3. CASE p = o /\ q # o
      BY <2>1, <2>2, <2>4, <3>1, <3>3 DEF MemoryOnce
    <3>4. CASE p # o /\ q = o
      BY <2>1, <2>2, <2>4, <3>1, <3>4 DEF MemoryOnce
    <3> QED BY <3>2, <3>3, <3>4
  <2>5. ASSUME NEW m \in DOMAIN memory', memory'[m]
        PROVE  \E q \in Objects : OwnsMemory(q)' /\ image'[q].mem = m
    <3>1. PICK q \in Objects : OwnsMemory(q) /\ image[q].mem = m
      BY <1>1, <2>1, <2>5 DEF MemoryOnce
    <3>2. CASE q = from
      BY <2>2, <3>1, <3>2
    <3>3. CASE q # from
      BY <2>2, <3>1, <3>3
    <3> QED BY <3>2, <3>3
  <2> QED BY <2>3, <2>4, <2>5 DEF MemoryOnce
<1>12. WellRecorded' /\ Blank' /\ ViewsOnce'
  <2>1. WellRecorded /\ Blank /\ ViewsOnce
    BY <1>2 DEF ImageInv
  <2>2. WellRecorded'
    BY <1>1, <2>1 DEF WellRecorded, Live
  <2>3. Blank'
    BY <1>1, <1>8, <2>1, Zenon DEF Blank
  <2>4. ViewsOnce'
    <3>1. ASSUME NEW q \in Objects, InUse(q)'
          PROVE  image'[q].view = IF texture'[image'[q].tex].bound THEN image'[q].tex ELSE 0
      <4>1. image'[q].view = IF texture[image'[q].tex].bound THEN image'[q].tex ELSE 0
        <5>1. CASE q = o
          BY <1>1, <1>3, <1>6, <2>1, <5>1 DEF ViewsOnce
        <5>2. CASE q # o
          BY <1>6, <1>7, <2>1, <3>1, <5>2 DEF ViewsOnce
        <5> QED BY <5>1, <5>2
      <4> QED BY <1>1, <4>1
    <3>2. \A t : t \in views' <=> t \in DOMAIN texture' /\ texture'[t].live /\ texture'[t].bound
      <4>1. \A t : t \in views <=> t \in DOMAIN texture /\ texture[t].live /\ texture[t].bound
        BY <2>1 DEF ViewsOnce
      <4> QED BY <1>1, <4>1, Zenon
    <3> QED BY <3>1, <3>2 DEF ViewsOnce
  <2> QED BY <2>2, <2>3, <2>4
<1>13. ASSUME NEW q \in Objects
       PROVE  InLayout(q)'
  <2>1. PICK A : A = Ahead.texture
    OBVIOUS
  <2>2. (Ahead.texture)' = A
    BY <1>8, <2>1
  <2>3. \A p \in Objects :
          /\ InUse(p) => (texture[image[p].tex].depth => image[p].depth)
          /\ InUse(p) /\ ~texture[image[p].tex].swapchain => A[image[p].tex].layout = image[p].layout
          /\ ~image[p].moved /\ ~Live(image[p].tex) => image[p].layout = "Undefined"
    BY <1>2, <2>1 DEF ImageInv, InLayout
  <2>4. /\ InUse(q)' => (texture[image'[q].tex].depth => image'[q].depth)
        /\ InUse(q)' /\ ~texture[image'[q].tex].swapchain => A[image'[q].tex].layout = image'[q].layout
        /\ ~image'[q].moved /\ ~Live(image[q].tex)' => image'[q].layout = "Undefined"
    <3>1. CASE q = o
      <4>1. Live(image[q].tex)'
        BY <1>7, <3>1 DEF InUse
      <4> QED BY <1>1, <1>3, <1>6, <2>3, <3>1, <4>1
    <3>2. CASE q = from
      BY <1>5, <1>6, <1>7, <3>2
    <3>3. CASE q \notin {o, from}
      <4>1. image'[q] = image[q] /\ (InUse(q)' <=> InUse(q)) /\ (Live(image[q].tex)' <=> Live(image[q].tex))
        BY <1>1, <1>6, <1>7, <3>3 DEF Live
      <4> QED BY <2>3, <4>1
    <3> QED BY <3>1, <3>2, <3>3
  <2> QED BY <1>1, <2>2, <2>4 DEF InLayout
<1>14. Inv'
  BY <1>1, <1>2, <1>8, <1>9, <1>10, <1>11, <1>12, <1>13 DEF Inv, ImageInv, NoFault
<1>15. PICK a : Ahead = State(a, "none")
  BY AheadIs
<1>16. Shown = [q \in Objects |-> IF InUse(q) THEN a[image[q].tex].shows ELSE 0]
  BY <1>15, ShownIs
<1>17. Shown' = [q \in Objects |-> IF InUse(q)' THEN a[image'[q].tex].shows ELSE 0]
  BY <1>8, <1>15, ShownThen
<1>18. PICK shown : shown = Shown
  OBVIOUS
<1>19. shown \in [Objects -> {shown[q] : q \in Objects}] /\ shown[from] = a[i.tex].shows
  BY <1>1, <1>3, <1>16, <1>18
<1>20. \A q \in Objects : (IF InUse(q)' THEN a[image'[q].tex].shows ELSE 0)
                           = (IF q = from THEN 0 ELSE IF q = o THEN shown[from] ELSE shown[q])
  <2>1. \A q \in Objects : shown[q] = IF InUse(q) THEN a[image[q].tex].shows ELSE 0
    BY <1>16, <1>18
  <2> QED BY <1>1, <1>6, <1>7, <1>19, <2>1
<1>21. Shown' = [q \in Objects |-> IF q = from THEN 0 ELSE IF q = o THEN shown[from] ELSE shown[q]]
  BY <1>17, <1>20
<1>22. [shown EXCEPT ![o] = shown[from], ![from] = 0]
         = [q \in Objects |-> IF q = from THEN 0 ELSE IF q = o THEN shown[from] ELSE shown[q]]
  BY <1>1, <1>19
<1>23. Holds = [q \in Objects |-> IF InUse(q) THEN image[q].tex ELSE 0]
       /\ Holds' = [q \in Objects |-> IF InUse(q)' THEN image'[q].tex ELSE 0]
  BY DEF Holds
<1>24. Holds[from] = i.tex /\ i.tex # 0
  BY <1>1, <1>3, <1>23 DEF InUse, Live
<1>25. Holds' = [q \in Objects |-> IF q = from THEN 0 ELSE IF q = o THEN Holds[from] ELSE Holds[q]]
  BY <1>6, <1>7, <1>23, <1>24
<1>26. [Holds EXCEPT ![o] = Holds[from], ![from] = 0]
         = [q \in Objects |-> IF q = from THEN 0 ELSE IF q = o THEN Holds[from] ELSE Holds[q]]
  BY <1>1, <1>23
<1> QED BY <1>14, <1>18, <1>21, <1>22, <1>24, <1>25, <1>26

-----------------------------------------------------------------------------
(* The program. *)

LEMMA InitInv ==
  ASSUME ImageInit
  PROVE  Inv /\ Shown = [o \in Objects |-> 0] /\ Holds = [o \in Objects |-> 0]
<1>1. /\ image = [o \in Objects |-> NewImage] /\ texture = <<>> /\ memory = <<>> /\ views = {}
      /\ recorded = <<>> /\ fault = "none"
  BY DEF ImageInit
<1>2. NewImage \in Data /\ NewImage.tex = 0 /\ NewImage.mem = 0 /\ NewImage.layout = "Undefined"
  BY DEF NewImage, Data, AllLayouts
<1>3. \A o \in Objects : image[o] = NewImage /\ ~Live(image[o].tex)
  BY <1>1, <1>2 DEF Live
<1>4. texture \in Seq(Textures) /\ memory \in Seq(BOOLEAN) /\ recorded \in Seq(Commands)
  BY <1>1
<1>5. DOMAIN texture = {} /\ DOMAIN memory = {} /\ DOMAIN recorded = {}
      /\ Len(texture) = 0 /\ Len(memory) = 0 /\ Len(recorded) = 0
  BY <1>1
<1>6. ImageTypeOK
  <2>1. Len(recorded) <= MaxRecorded
    BY <1>5, ImageAssumption
  <2> QED BY <1>1, <1>2, <1>3, <1>4, <1>5, <2>1 DEF ImageTypeOK
<1>7. Ahead = Now
  BY <1>1, SubmittedNone DEF Ahead
<1>8. Ahead = State(texture, "none")
  BY <1>1, <1>7 DEF Now, State
<1>9. Ahead.fault = "none"
  BY <1>8 DEF State
<1>10. HeldOnce /\ MemoryOnce /\ ViewsOnce /\ WellRecorded /\ Blank
  BY <1>1, <1>3, <1>5 DEF HeldOnce, MemoryOnce, ViewsOnce, WellRecorded, Blank, InUse, OwnsMemory
<1>11. \A o \in Objects : InLayout(o)
  BY <1>2, <1>3 DEF InLayout, InUse
<1>12. Inv
  BY <1>1, <1>6, <1>9, <1>10, <1>11 DEF Inv, ImageInv, NoFault
<1>13. Shown = [o \in Objects |-> IF InUse(o) THEN texture[image[o].tex].shows ELSE 0]
  BY <1>8, ShownIs
<1>14. Holds = [o \in Objects |-> IF InUse(o) THEN image[o].tex ELSE 0]
  BY DEF Holds
<1> QED BY <1>3, <1>12, <1>13, <1>14 DEF InUse

(* Who puts a picture in an image has one. *)
LEMMA HoldsOne ==
  ASSUME Disciplined, NEW o \in Objects, Usable(o)
  PROVE  Holds[o] # 0
BY DEF Disciplined, Usable, May, Holds, InUse, Live

(* Each step keeps the invariant, and is one of Pictures or changes        *)
(* neither what is shown nor who has what.                                 *)
LEMMA NextInv ==
  ASSUME Disciplined, Inv, [ImageNext]_imageVars
  PROVE  Inv' /\ (Picture!Next \/ (Shown' = Shown /\ Holds' = Holds))
<1>1. ASSUME NEW o \in Objects, Renewed(o)
      PROVE  Picture!Next
  BY <1>1 DEF Renewed, Picture!Next, Picture!Renew
<1>2. ASSUME NEW o \in Objects, Usable(o), NEW print \in Prints,
             Shown' = [Shown EXCEPT ![o] = print], Holds' = Holds
      PROVE  Picture!Next
  BY <1>2, HoldsOne DEF Picture!Next, Picture!Put
<1>3. ASSUME NEW o \in Objects, Usable(o), NEW src \in Objects,
             Shown' = [Shown EXCEPT ![o] = Shown[src]], Holds' = Holds
      PROVE  Picture!Next
  BY <1>3, HoldsOne DEF Picture!Next, Picture!Copy, Picture!Put
<1>4. ASSUME NEW o \in Objects, NEW from \in Objects, Holds[from] # 0,
             Shown' = [Shown EXCEPT ![o] = Shown[from], ![from] = 0],
             Holds' = [Holds EXCEPT ![o] = Holds[from], ![from] = 0]
      PROVE  Picture!Next
  BY <1>4 DEF Picture!Next, Picture!Hand
<1>5. ASSUME NEW o \in Objects, Makings(o)
      PROVE  Inv' /\ Picture!Next
  <2>1. Remade(o)
    <3>1. CASE \E layers \in LayerCounts, depth \in BOOLEAN : Initialize(o, layers, depth)
      BY <3>1, ByInitialize
    <3>2. CASE \E layers \in LayerCounts, enough \in BOOLEAN : InitializeIn(o, layers, enough)
      BY <3>2, ByInitializeIn
    <3>3. CASE InitializeOf(o)
      BY <3>3, ByInitializeOf
    <3>4. CASE \E enough \in BOOLEAN : Resize(o, enough)
      BY <3>4, ByResize
    <3> QED BY <1>5, <3>1, <3>2, <3>3, <3>4 DEF Makings
  <2> QED BY <1>1, <2>1, RemadeInv
<1>6. ASSUME NEW o \in Objects, OnImage(o)
      PROVE  Inv' /\ (Picture!Next \/ (Shown' = Shown /\ Holds' = Holds))
  <2>1. CASE Makings(o)
    BY <1>5, <2>1
  <2>2. CASE Reset(o)
    BY <1>1, <2>2, ByReset, DroppedInv
  <2>3. ASSUME NEW from \in Objects, AssignImage(o, from)
        PROVE  Inv' /\ Picture!Next
    BY <1>4, <2>3, ByAssign
  <2>4. ASSUME NEW from \in Objects, CopyImage(o, from)
        PROVE  Inv' /\ Picture!Next
    <3>1. Usable(o)
      BY <2>4 DEF CopyImage, UsableAtOnce
    <3> QED BY <1>3, <2>4, <3>1, ByCopyImage
  <2>5. ASSUME NEW layout \in Layouts, Transition(o, layout)
        PROVE  Inv' /\ Shown' = Shown /\ Holds' = Holds
    BY <2>5, ByTransition
  <2>6. CASE RevertLayout(o)
    BY <2>6, ByRevertLayout
  <2>7. ASSUME NEW print \in Prints, CopyBuffer(o, print)
        PROVE  Inv' /\ Picture!Next
    <3>1. Usable(o)
      BY <2>7 DEF CopyBuffer, UsableAtOnce
    <3> QED BY <1>2, <2>7, <3>1, ByCopyBuffer
  <2> QED BY <1>6, <2>1, <2>2, <2>3, <2>4, <2>5, <2>6, <2>7 DEF OnImage
<1>7. ASSUME OnChain
      PROVE  Inv' /\ (Picture!Next \/ (Shown' = Shown /\ Holds' = Holds))
  <2>1. ASSUME NEW o \in Objects, NEW layout \in Layouts, ChainTransition(o, layout)
        PROVE  Inv' /\ Shown' = Shown /\ Holds' = Holds
    BY <2>1, ByChainTransition
  <2>2. ASSUME NEW o \in Objects, NEW print \in Prints, ChainCopyIn(o, print)
        PROVE  Inv' /\ Picture!Next
    <3>1. Usable(o)
      BY <2>2 DEF ChainCopyIn
    <3> QED BY <1>2, <2>2, <3>1, ByChainCopyIn
  <2>3. ASSUME NEW o \in Objects, ChainCopyOut(o)
        PROVE  Inv' /\ Shown' = Shown /\ Holds' = Holds
    BY <2>3, ByChainCopyOut
  <2>4. ASSUME NEW o \in Objects, NEW src \in Objects, ChainCopyAcross(src, o)
        PROVE  Inv' /\ Picture!Next
    <3>1. Usable(o)
      BY <2>4 DEF ChainCopyAcross
    <3> QED BY <1>3, <2>4, <3>1, ByChainCopyAcross
  <2>5. CASE ChainSubmit
    BY <2>5, BySubmit
  <2> QED BY <1>7, <2>1, <2>2, <2>3, <2>4, <2>5 DEF OnChain
<1>8. CASE Synchronize
  BY <1>8, BySynchronize
<1>9. CASE UNCHANGED imageVars
  <2>1. /\ image' = image /\ texture' = texture /\ memory' = memory /\ views' = views
        /\ recorded' = recorded /\ fault' = fault
    BY <1>9 DEF imageVars
  <2>2. Ahead' = Ahead
    BY <2>1, Zenon DEF Ahead, Now
  <2>3. Shown' = Shown /\ Holds' = Holds
    <3>1. Shown' = Shown
      BY <2>1, <2>2, Zenon DEF Shown, InUse, Live
    <3>2. Holds' = Holds
      BY <2>1, Zenon DEF Holds, InUse, Live
    <3> QED BY <3>1, <3>2
  <2>4. ImageInv'
    <3>1. ImageInv
      BY DEF Inv
    <3>2. HeldOnce' /\ MemoryOnce' /\ WellRecorded'
      BY <2>1, <3>1 DEF ImageInv, HeldOnce, MemoryOnce, WellRecorded, OwnsMemory, InUse, Live
    <3>3. Blank'
      BY <2>1, <2>2, <3>1, Zenon DEF ImageInv, Blank
    <3>4. \A o \in Objects : InLayout(o)'
      BY <2>1, <2>2, <3>1, Zenon DEF ImageInv, InLayout, InUse, Live
    <3>5. (Ahead.fault)' = "none"
      BY <2>2, <3>1 DEF ImageInv
    <3>6. ViewsOnce'
      BY <2>1, <3>1, Zenon DEF ImageInv, ViewsOnce, InUse, Live
    <3> QED BY <3>2, <3>3, <3>4, <3>5, <3>6 DEF ImageInv
  <2>5. ImageTypeOK' /\ NoFault'
    BY <2>1 DEF Inv, ImageTypeOK, NoFault
  <2> QED BY <2>3, <2>4, <2>5 DEF Inv
<1> QED BY <1>6, <1>7, <1>8, <1>9 DEF ImageNext

LEMMA InvAlways ==
  ASSUME Disciplined
  PROVE  ImageSpec => []Inv
<1>1. ImageInit => Inv
  BY InitInv
<1>2. Inv /\ [ImageNext]_imageVars => Inv'
  BY NextInv
<1> QED BY <1>1, <1>2, PTL DEF ImageSpec

(* Whatever a disciplined program does with its images, at once or by a    *)
(* chain, no command is executed on an image that is gone or has no        *)
(* memory, in a layout it is not in or cannot be used in, and no image,    *)
(* view or memory is destroyed twice or while the device uses it           *)
(* (Image::transition, copy, resize, reset; Chain::copy, transition,       *)
(* submit).                                                                *)
THEOREM ImagesAreSafe ==
  ASSUME Disciplined
  PROVE  ImageSpec => []Safe
<1>1. Inv => Safe
  BY DEF Inv, Safe
<1> QED BY <1>1, InvAlways, PTL

(* The layout each of its objects tracks is the one its image will be in   *)
(* once what the chain recorded has been executed, however recording and   *)
(* submitting are interleaved with what is done at once                    *)
(* (Image::transition, revertLayout; Chain::transition).                   *)
THEOREM LayoutsAlwaysAgree ==
  ASSUME Disciplined
  PROVE  ImageSpec => []LayoutsAgree
<1>1. Inv => LayoutsAgree
  <2> SUFFICES ASSUME Inv, NEW o \in Objects, InUse(o), ~texture[image[o].tex].swapchain
               PROVE  Ahead.texture[image[o].tex].layout = image[o].layout
    BY DEF LayoutsAgree
  <2>1. InLayout(o)
    BY DEF Inv, ImageInv
  <2> QED BY <2>1 DEF InLayout
<1> QED BY <1>1, InvAlways, PTL

(* Each image on the device is held by one object that the program uses,   *)
(* which also holds the view made with it and the memory that is its own;  *)
(* no view and no memory is there of none (Image::initialize, resize,      *)
(* reset, operator=).                                                      *)
THEOREM ImagesAreHeld ==
  ASSUME Disciplined
  PROVE  ImageSpec => []Held
<1>1. Inv => Held
  <2> SUFFICES ASSUME Inv PROVE Held
    OBVIOUS
  <2>1. HeldOnce /\ MemoryOnce /\ ViewsOnce
    BY DEF Inv, ImageInv
  <2>2. ASSUME NEW t \in DOMAIN texture, texture[t].live
        PROVE  Cardinality({o \in Objects : image[o].tex = t /\ ~image[o].moved}) = 1
    <3>1. PICK o \in Objects : InUse(o) /\ image[o].tex = t
      BY <2>1, <2>2 DEF HeldOnce
    <3>2. \A q \in Objects : image[q].tex = t /\ ~image[q].moved <=> q = o
      BY <2>1, <3>1 DEF HeldOnce, InUse
    <3>3. {q \in Objects : image[q].tex = t /\ ~image[q].moved} = {o}
      BY <3>2
    <3> QED BY <3>3, FS_Singleton
  <2>3. ASSUME NEW m \in DOMAIN memory, memory[m]
        PROVE  \E o \in Objects : image[o].mem = m /\ InUse(o)
    BY <2>1, <2>3 DEF MemoryOnce, OwnsMemory
  <2>4. ASSUME NEW o \in Objects, InUse(o)
        PROVE  /\ IF texture[image[o].tex].bound THEN image[o].view = image[o].tex /\ image[o].view \in views
                  ELSE image[o].view = 0
               /\ image[o].preallocated \/ memory[image[o].mem]
    <3>1. image[o].tex \in DOMAIN texture /\ texture[image[o].tex].live
      <4>1. image[o] \in Data /\ image[o].tex <= Len(texture) /\ texture \in Seq(Textures)
        BY DEF Inv, ImageTypeOK
      <4>2. image[o].tex \in Nat
        BY <4>1 DEF Data
      <4> QED BY <2>4, <4>1, <4>2 DEF InUse, Live
    <3>2. IF texture[image[o].tex].bound THEN image[o].view = image[o].tex /\ image[o].view \in views
          ELSE image[o].view = 0
      BY <2>1, <2>4, <3>1 DEF ViewsOnce
    <3>3. image[o].preallocated \/ memory[image[o].mem]
      BY <2>1, <2>4 DEF MemoryOnce, OwnsMemory
    <3> QED BY <3>2, <3>3
  <2>5. ASSUME NEW v \in views
        PROVE  \E o \in Objects : image[o].view = v /\ InUse(o)
    <3>1. v \in DOMAIN texture /\ texture[v].live /\ texture[v].bound
      BY <2>1 DEF ViewsOnce
    <3>2. PICK o \in Objects : InUse(o) /\ image[o].tex = v
      BY <2>1, <3>1 DEF HeldOnce
    <3>3. image[o].view = v
      BY <2>1, <3>1, <3>2 DEF ViewsOnce
    <3> QED BY <3>2, <3>3
  <2> QED BY <2>2, <2>3, <2>4, <2>5 DEF Held
<1> QED BY <1>1, InvAlways, PTL

(* As long as an object keeps its image, it shows what was put in that     *)
(* last, by whichever way: what it shows is lost with the image only, and  *)
(* no transition, return to a layout or submission, of this object or of   *)
(* another, changes it (Image::copy, transition, revertLayout, resize,     *)
(* reset, operator=; Chain::copy, transition, submit).                     *)
THEOREM ImagesArePictures ==
  ASSUME Disciplined
  PROVE  ImageSpec => IsPictures
<1>1. ImageInit => Picture!Init
  BY InitInv DEF Picture!Init
<1>2. Inv /\ [ImageNext]_imageVars => [Picture!Next]_<<Shown, Holds>>
  BY NextInv
<1> QED BY <1>1, <1>2, InvAlways, PTL DEF ImageSpec, IsPictures, Picture!Spec
=============================================================================
