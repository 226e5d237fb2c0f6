------------------------- MODULE PresentationProofs -------------------------
(***************************************************************************)
(* Presenting, for every number of images and of framebuffers.  Whatever   *)
(* the client and the driver do, the variables keep their types and no     *)
(* wait for a fence is for ever.  As long as the driver takes the images   *)
(* in turn, nothing is presented that may not be and no image is lost.     *)
(* A client that draws a frame for every present sees a Display.           *)
(***************************************************************************)
EXTENDS Presentation, SequenceTheorems, TLAPS

(* The semaphores and fences of the frames are apart, and a frame's fence  *)
(* is the one made for it: resetting one frame's fence leaves the others.  *)
HandlesApart == \A i, j \in Slots : i # j => handle[i] # handle[j]
FencesOwn    == \A i \in Slots : fences[i] \in {0, handle[i]}

SyncInv == TypeOK /\ HandlesApart /\ FencesOwn /\ FencesAnswer

-----------------------------------------------------------------------------
(* Helpers. *)

LEMMA SlotsMod ==
  ASSUME NEW f \in Nat
  PROVE  f % Count \in Slots
  BY CountAssumption DEF Slots

LEMMA ZeroSlot == 0 \in Slots
  BY CountAssumption DEF Slots

LEMMA WithoutIn ==
  ASSUME NEW S, NEW s \in Seq(S), NEW k \in 1 .. Len(s)
  PROVE  Without(s, k) \in Seq(S)
<1>1. SubSeq(s, 1, k - 1) \in Seq(S)
  OBVIOUS
<1>2. SubSeq(s, k + 1, Len(s)) \in Seq(S)
  OBVIOUS
<1>3. QED
  BY <1>1, <1>2 DEF Without

LEMMA ImagesIn == Images \in Seq(Slots)
<1>1. \A k \in 1 .. Count : k - 1 \in Slots
  BY CountAssumption DEF Slots
<1>2. QED
  BY <1>1, CountAssumption DEF Images

(* More handles leave sets of handles, and what is made of them, valid.    *)
LEMMA Acquired ==
  ASSUME TypeOK, Len(sem') >= Len(sem), sem' \in Seq(States)
  PROVE  /\ Handles \subseteq Handles'
         /\ waits \in [Slots -> Seq(Handles')]
         /\ acquired \in Seq(Acquisitions')
<1>1. Handles \subseteq Handles'
  BY DEF TypeOK, Handles
<1>2. Acquisitions \subseteq Acquisitions'
  BY <1>1 DEF Acquisitions, Slots
<1>3. acquired \in Seq(Acquisitions')
  BY <1>2 DEF TypeOK
<1>4. \A i \in Slots : waits[i] \in Seq(Handles')
  BY <1>1 DEF TypeOK
<1>5. QED
  BY <1>1, <1>3, <1>4 DEF TypeOK

-----------------------------------------------------------------------------
(* A swapchain is made anew. *)

(* Resetting fences keeps the sequence of fences as long as it is.         *)
LEMMA ResetFences ==
  ASSUME TypeOK, NEW reset
  PROVE  /\ AfterReset(reset) = [h \in 1 .. Len(fence) |-> fence[h] /\ h \notin reset]
         /\ AfterReset(reset) \in Seq(BOOLEAN)
         /\ Len(AfterReset(reset)) = Len(sem)
<1>1. fence \in Seq(BOOLEAN) /\ Len(fence) = Len(sem) /\ DOMAIN fence = 1 .. Len(fence)
  BY DEF TypeOK
<1>2. AfterReset(reset) = [h \in 1 .. Len(fence) |-> fence[h] /\ h \notin reset]
  BY <1>1 DEF AfterReset
<1>3. QED
  BY <1>1, <1>2

LEMMA RemakeSync ==
  ASSUME TypeOK, NEW n \in {1, 2}, NEW reset, Remake(n, reset)
  PROVE  /\ sem' \in Seq(States) /\ fence' \in Seq(BOOLEAN)
         /\ Len(fence') = Len(sem') /\ Len(sem') = Len(sem) + n * Count
         /\ handle' \in [Slots -> Handles'] /\ HandlesApart'
         /\ fences' = [i \in Slots |-> 0]
         /\ free' \in Seq(Slots) /\ queue' = <<>> /\ onscreen' = {}
         /\ drawing' = <<>> /\ content' \in [Slots -> Nat]
         /\ made' \in Nat \ {0}
<1> DEFINE m == n * Count
<1>1. m \in Nat /\ m >= Count /\ (n - 1) * Count = m - Count
  BY CountAssumption
<1> HIDE DEF m
<1>2. [h \in 1 .. m |-> "idle"] \in Seq(States) /\ Len([h \in 1 .. m |-> "idle"]) = m
  BY <1>1 DEF States
<1>3. [h \in 1 .. m |-> TRUE] \in Seq(BOOLEAN) /\ Len([h \in 1 .. m |-> TRUE]) = m
  BY <1>1
<1>4. sem' = sem \o [h \in 1 .. m |-> "idle"] /\ fence' = AfterReset(reset) \o [h \in 1 .. m |-> TRUE]
  BY DEF Remake, m
<1>5. sem' \in Seq(States) /\ Len(sem') = Len(sem) + m
  BY <1>2, <1>4, <1>1 DEF TypeOK
<1>6. fence' \in Seq(BOOLEAN) /\ Len(fence') = Len(sem) + m
  <2> DEFINE old == AfterReset(reset)
             more == [h \in 1 .. m |-> TRUE]
  <2>1. old \in Seq(BOOLEAN) /\ Len(old) = Len(sem)
    BY ResetFences
  <2>2. more \in Seq(BOOLEAN) /\ Len(more) = m /\ fence' = old \o more
    BY <1>3, <1>4
  <2> HIDE DEF old, more
  <2>3. old \o more \in Seq(BOOLEAN) /\ Len(old \o more) = Len(old) + Len(more)
    BY <2>1, <2>2, ConcatProperties, Zenon
  <2>4. QED
    BY <2>1, <2>2, <2>3, Zenon
<1>7. Len(sem) \in Nat
  BY DEF TypeOK
<1>8. handle' = [i \in Slots |-> Len(sem) + (m - Count) + i + 1]
  BY <1>1 DEF Remake
<1>9. handle' \in [Slots -> Handles'] /\ HandlesApart'
  BY <1>1, <1>5, <1>7, <1>8, CountAssumption DEF Handles, HandlesApart, Slots
<1>10. /\ fences' = [i \in Slots |-> 0]
       /\ free' \in Seq(Slots) /\ queue' = <<>> /\ onscreen' = {}
       /\ drawing' = <<>> /\ content' \in [Slots -> Nat]
       /\ made' \in Nat \ {0}
  BY ImagesIn DEF Remake, Forgotten, TypeOK
<1>11. QED
  BY <1>5, <1>6, <1>9, <1>10 DEF m

(* After that nothing is to be waited for. *)
LEMMA RemakeInv ==
  ASSUME SyncInv, NEW n \in {1, 2}, NEW reset, Remake(n, reset),
         pc' \in {"idle", "first"}, drawn' \in BOOLEAN, skip_frame' \in BOOLEAN,
         current_framebuffer' \in 0 .. NumBuffers - 1,
         fbMade' \in 1 .. made',
         fault' = fault,
         waits' \in [Slots -> Seq(Handles')],
         acquired' \in Seq(Acquisitions')
  PROVE  SyncInv'
<1>1. TypeOK
  BY DEF SyncInv
<1>2. /\ sem' \in Seq(States) /\ fence' \in Seq(BOOLEAN)
      /\ Len(fence') = Len(sem') /\ Len(sem') = Len(sem) + n * Count
      /\ handle' \in [Slots -> Handles'] /\ HandlesApart'
      /\ fences' = [i \in Slots |-> 0]
      /\ free' \in Seq(Slots) /\ queue' = <<>> /\ onscreen' = {}
      /\ drawing' = <<>> /\ content' \in [Slots -> Nat]
      /\ made' \in Nat \ {0}
  BY <1>1, RemakeSync
<1>3. current_frame' \in Slots /\ frames' \in Nat /\ screen' \in Nat /\ fault' \in Faults
  BY <1>1 DEF Remake, TypeOK
<1>4. fences' \in [Slots -> Handles' \union {0}]
  BY <1>2
<1>5. queue' \in Seq(Presents') /\ drawing' \in Seq(Drawings)
  BY <1>2
<1>6. TypeOK'
  BY <1>2, <1>3, <1>4, <1>5 DEF TypeOK, Slots, Drawings
<1>7. FencesOwn' /\ FencesAnswer'
  BY <1>2 DEF FencesOwn, FencesAnswer, Slots
<1>8. QED
  BY <1>2, <1>6, <1>7 DEF SyncInv

-----------------------------------------------------------------------------
(* An image is acquired. *)

LEMMA AcquireImageInv ==
  ASSUME SyncInv, pc \in {"acquire", "first"}, AcquireImage
  PROVE  SyncInv'
<1> DEFINE f == current_frame
           h == handle[f]
<1>1. TypeOK
  BY DEF SyncInv
<1>2. f \in Slots /\ h \in Handles /\ f \in Nat
  <2>1. current_frame \in Slots /\ handle \in [Slots -> Handles]
    BY <1>1 DEF TypeOK
  <2>2. QED
    BY <2>1 DEF Slots
<1>3. PICK k \in Offered :
        /\ acquired' = Append(acquired, [image |-> free[k], own |-> h])
        /\ free' = Without(free, k)
  BY DEF AcquireImage
<1>4. k \in 1 .. Len(free) /\ free \in Seq(Slots)
  BY <1>1 DEF Offered, TypeOK
<1>5. free' \in Seq(Slots)
  BY <1>3, <1>4, WithoutIn
<1>6. sem' = [sem EXCEPT ![h] = "signalling"]
  BY DEF AcquireImage
<1>7. sem' \in Seq(States) /\ Len(sem') = Len(sem) /\ Handles' = Handles
      /\ \A x \in Handles : sem'[x] = IF x = h THEN "signalling" ELSE sem[x]
  BY <1>1, <1>2, <1>6 DEF TypeOK, States, Handles
<1>8. fence' = [x \in 1 .. Len(fence) |-> fence[x] /\ x \notin {h, fences[f]}]
  BY <1>1, ResetFences DEF AcquireImage, FrameFences
<1>9. fence' \in Seq(BOOLEAN) /\ Len(fence') = Len(sem)
  BY <1>1, <1>8 DEF TypeOK
<1>10. Acquisitions' = Acquisitions /\ Presents' = Presents /\ Drawings' = Drawings
  BY <1>7 DEF Acquisitions, Presents, Drawings, Slots
<1>11. acquired' \in Seq(Acquisitions)
  <2>1. [image |-> free[k], own |-> h] \in Acquisitions
    BY <1>2, <1>4 DEF Acquisitions
  <2>2. QED
    BY <1>1, <1>3, <2>1 DEF TypeOK
<1>12. fences' = [fences EXCEPT ![f] = h] /\ fences' \in [Slots -> Handles \union {0}]
  BY <1>1, <1>2 DEF AcquireImage, TypeOK
<1>13. waits' \in [Slots -> Seq(Handles)]
  <2>1. waits' = [waits EXCEPT ![f] = Append(@, h)]
    BY DEF AcquireImage
  <2>2. waits[f] \in Seq(Handles)
    BY <1>1, <1>2 DEF TypeOK
  <2>3. Append(waits[f], h) \in Seq(Handles)
    BY <1>2, <2>2
  <2>4. QED
    BY <1>1, <2>1, <2>3 DEF TypeOK
<1>14. current_frame' \in Slots
  BY <1>2, SlotsMod DEF AcquireImage, NextFrame
<1>15. fault' \in Faults
  BY <1>1 DEF AcquireImage, TypeOK, Faults
<1>16. TypeOK'
  <2>1. /\ handle' = handle /\ skip_frame' = skip_frame /\ pc' = "idle"
        /\ current_framebuffer' = current_framebuffer /\ fbMade' = fbMade
        /\ drawn' = drawn /\ made' = made /\ queue' = queue
        /\ onscreen' = onscreen /\ screen' = screen /\ drawing' = drawing
        /\ content' = content /\ frames' = frames
    BY DEF AcquireImage, passVars, renderVars
  <2>2. QED
    BY <1>1, <1>5, <1>7, <1>9, <1>10, <1>11, <1>12, <1>13, <1>14, <1>15, <2>1
    DEF TypeOK, Slots
<1>17. handle' = handle
  BY DEF AcquireImage
<1>18. HandlesApart'
  BY <1>17 DEF SyncInv, HandlesApart, Slots
<1>19. FencesOwn'
  BY <1>1, <1>12, <1>17 DEF SyncInv, FencesOwn, TypeOK, Slots
<1>20. FencesAnswer'
  <2> SUFFICES ASSUME NEW i \in Slots, fences'[i] # 0
               PROVE  fence'[fences'[i]] \/ sem'[fences'[i]] \in {"signalling", "claimed"}
    BY DEF FencesAnswer, Slots
  <2>1. CASE i = f
    BY <1>1, <1>2, <1>7, <1>12, <2>1 DEF TypeOK
  <2>2. CASE i # f
    <3>1. fences'[i] = fences[i] /\ fences[i] = handle[i] /\ fences[i] \in Handles
      BY <1>1, <1>12, <2>2 DEF SyncInv, FencesOwn, TypeOK
    <3>2. handle[i] # h
      BY <1>2, <2>2 DEF SyncInv, HandlesApart
    <3>3. fences[f] \in {0, h}
      BY <1>2 DEF SyncInv, FencesOwn
    <3>4. fences[i] # h /\ fences[i] # fences[f]
      BY <3>1, <3>2, <3>3, <2>2
    <3>5. fence[fences[i]] \/ sem[fences[i]] \in {"signalling", "claimed"}
      BY <3>1 DEF SyncInv, FencesAnswer
    <3>6. fences[i] \in 1 .. Len(fence)
      BY <1>1, <3>1 DEF TypeOK, Handles
    <3>7. fence'[fences[i]] = fence[fences[i]]
      <4>1. fence[fences[i]] \in BOOLEAN
        BY <1>1, <3>6 DEF TypeOK
      <4>2. fence'[fences[i]] = (fence[fences[i]] /\ fences[i] \notin {h, fences[f]})
        BY <1>8, <3>6, Zenon
      <4>3. QED
        BY <3>4, <4>1, <4>2, Zenon
    <3>8. QED
      BY <1>7, <3>1, <3>4, <3>5, <3>7
  <2>3. QED
    BY <2>1, <2>2
<1>21. QED
  BY <1>16, <1>18, <1>19, <1>20 DEF SyncInv

-----------------------------------------------------------------------------
(* The swapchain is found out of date. *)

LEMMA RemakeGrows ==
  ASSUME TypeOK, NEW n \in {1, 2}, NEW reset, Remake(n, reset)
  PROVE  /\ waits \in [Slots -> Seq(Handles')]
         /\ acquired \in Seq(Acquisitions')
<1>1. sem' \in Seq(States) /\ Len(sem') = Len(sem) + n * Count
  BY RemakeSync
<1>2. Len(sem') >= Len(sem)
  BY <1>1, CountAssumption DEF TypeOK
<1>3. QED
  BY <1>1, <1>2, Acquired

LEMMA ReinitializeInv ==
  ASSUME SyncInv, NEW reset, Reinitialize(reset), skip_frame' \in BOOLEAN, fault' = fault,
         waits' \in [Slots -> Seq(Handles')], acquired' \in Seq(Acquisitions')
  PROVE  SyncInv'
<1>1. Remake(2, reset) /\ pc' = "first" /\ drawn' = FALSE
  BY DEF Reinitialize
<1>2. current_framebuffer' \in 0 .. NumBuffers - 1
  BY NumBuffersAssumption DEF Reinitialize
<1>3. fbMade' \in 1 .. made'
  BY DEF Reinitialize, Remake, SyncInv, TypeOK
<1>4. QED
  BY <1>1, <1>2, <1>3, RemakeInv

LEMMA AcquireInv ==
  ASSUME SyncInv, Acquire
  PROVE  SyncInv'
<1>1. CASE AcquireImage
  BY <1>1, AcquireImageInv DEF Acquire
<1>2. CASE /\ skip_frame' = TRUE
           /\ Reinitialize(FrameFences)
           /\ UNCHANGED <<waits, acquired, fault>>
  <2>1. waits \in [Slots -> Seq(Handles')] /\ acquired \in Seq(Acquisitions')
    BY <1>2, RemakeGrows DEF SyncInv, Reinitialize
  <2>2. QED
    BY <1>2, <2>1, ReinitializeInv
<1>3. QED
  BY <1>1, <1>2 DEF Acquire

LEMMA FirstAcquireInv ==
  ASSUME SyncInv, FirstAcquire
  PROVE  SyncInv'
<1>1. CASE AcquireImage
  BY <1>1, AcquireImageInv DEF FirstAcquire
<1>2. CASE /\ skip_frame' = TRUE
           /\ Remake(1, FrameFences)
           /\ pc' = "idle"
           /\ UNCHANGED <<waits, acquired, passVars, drawn, fault>>
  <2>1. waits \in [Slots -> Seq(Handles')] /\ acquired \in Seq(Acquisitions')
    BY <1>2, RemakeGrows DEF SyncInv
  <2>2. current_framebuffer' \in 0 .. NumBuffers - 1 /\ drawn' \in BOOLEAN
    BY <1>2 DEF passVars, SyncInv, TypeOK
  <2>3. fbMade' \in 1 .. made'
    BY <1>2 DEF passVars, SyncInv, TypeOK, Remake
  <2>4. QED
    BY <1>2, <2>1, <2>2, <2>3, RemakeInv
<1>3. QED
  BY <1>1, <1>2 DEF FirstAcquire

-----------------------------------------------------------------------------
(* Steps that make no semaphore and leave the fences alone. *)

LEMMA SameHandles ==
  ASSUME TypeOK, Len(sem') = Len(sem)
  PROVE  /\ Handles' = Handles /\ Acquisitions' = Acquisitions
         /\ Presents' = Presents /\ Drawings' = Drawings
  BY DEF Handles, Acquisitions, Presents, Drawings, Slots

LEMMA AnswersKept ==
  ASSUME SyncInv, Len(sem') = Len(sem), handle' = handle, fences' = fences,
         \A h \in Handles : fence[h] => fence'[h],
         \A h \in Handles : sem[h] \in {"signalling", "claimed"} =>
           fence'[h] \/ sem'[h] \in {"signalling", "claimed"}
  PROVE  HandlesApart' /\ FencesOwn' /\ FencesAnswer'
<1>1. HandlesApart' /\ FencesOwn'
  BY DEF SyncInv, HandlesApart, FencesOwn, Slots
<1>2. \A i \in Slots : fences[i] # 0 => fences[i] \in Handles
  BY DEF SyncInv, TypeOK
<1>3. FencesAnswer'
  BY <1>2 DEF SyncInv, FencesAnswer, Slots
<1>4. QED
  BY <1>1, <1>3

LEMMA ClearedType ==
  ASSUME NEW S, waits \in [Slots -> Seq(S)], NEW i \in Slots
  PROVE  Cleared(i) \in [Slots -> Seq(S)]
<1>1. <<>> \in Seq(S)
  OBVIOUS
<1>2. QED
  BY <1>1 DEF Cleared

LEMMA TailIn ==
  ASSUME NEW S, NEW s \in Seq(S), s # <<>>
  PROVE  Tail(s) \in Seq(S) /\ s[1] \in S
  OBVIOUS

LEMMA ClaimedSem ==
  ASSUME TypeOK, NEW list \in Seq(Handles), sem' = Claimed(list)
  PROVE  /\ sem' \in Seq(States) /\ Len(sem') = Len(sem)
         /\ \A h \in Handles : sem[h] \in {"signalling", "claimed"} =>
              sem'[h] \in {"signalling", "claimed"}
<1> DEFINE s(h) == IF \A k \in DOMAIN list : list[k] # h THEN sem[h]
                   ELSE IF sem[h] \in {"signalling", "claimed"} THEN "claimed" ELSE "idle"
<1>1. sem \in Seq(States) /\ Len(sem) \in Nat /\ DOMAIN sem = 1 .. Len(sem)
  BY DEF TypeOK
<1>2. \A h \in Handles : sem[h] \in States
  BY <1>1 DEF Handles
<1>3. \A h \in Handles :
        s(h) \in States /\ (sem[h] \in {"signalling", "claimed"} =>
                              s(h) \in {"signalling", "claimed"})
  BY <1>2 DEF States
<1>4. sem' = [h \in Handles |-> s(h)]
  BY <1>1 DEF Claimed, Handles
<1> HIDE DEF s
<1>5. sem' \in Seq(States) /\ Len(sem') = Len(sem)
  BY <1>1, <1>3, <1>4 DEF Handles
<1>6. QED
  BY <1>3, <1>4, <1>5

-----------------------------------------------------------------------------
(* Presenting. *)

LEMMA QueuedInv ==
  ASSUME SyncInv, acquired # <<>>, acquired' = Tail(acquired),
         Queued(acquired[1].image), waits' = Cleared(acquired[1].image),
         pc' = "acquire", drawn' = FALSE,
         UNCHANGED <<handle, fences, current_frame, skip_frame, passVars, made,
                     fence, free, onscreen, screen, renderVars>>
  PROVE  SyncInv'
<1> DEFINE first == acquired[1]
           image == first.image
           list == waits[image]
           entry == [image |-> image, own |-> first.own,
                     waits |-> {list[k] : k \in DOMAIN list}]
<1>1. TypeOK
  BY DEF SyncInv
<1>2. Tail(acquired) \in Seq(Acquisitions) /\ first \in Acquisitions
  BY <1>1, TailIn DEF TypeOK
<1>3. image \in Slots /\ first.own \in Handles
  BY <1>2 DEF Acquisitions
<1>4. list \in Seq(Handles)
  BY <1>1, <1>3 DEF TypeOK
<1>5. /\ sem' \in Seq(States) /\ Len(sem') = Len(sem)
      /\ \A h \in Handles : sem[h] \in {"signalling", "claimed"} =>
           sem'[h] \in {"signalling", "claimed"}
  BY <1>1, <1>4, ClaimedSem DEF Queued
<1>6. /\ Handles' = Handles /\ Acquisitions' = Acquisitions
      /\ Presents' = Presents /\ Drawings' = Drawings
  BY <1>1, <1>5, SameHandles
<1>7. entry \in Presents
  <2>1. {list[k] : k \in DOMAIN list} \in SUBSET Handles
    BY <1>4
  <2>2. QED
    BY <1>3, <2>1 DEF Presents
<1>8. queue' \in Seq(Presents)
  <2>1. queue' = Append(queue, entry) /\ queue \in Seq(Presents)
    BY <1>1 DEF Queued, TypeOK
  <2> HIDE DEF entry
  <2>2. QED
    BY <1>7, <2>1
<1>9. waits' \in [Slots -> Seq(Handles)]
  BY <1>1, <1>3, ClearedType DEF TypeOK
<1>10. fault' \in Faults
  BY <1>1 DEF Queued, TypeOK, Faults
<1>11. TypeOK'
  <2>1. /\ handle' = handle /\ fences' = fences /\ current_frame' = current_frame
        /\ skip_frame' = skip_frame /\ current_framebuffer' = current_framebuffer
        /\ fbMade' = fbMade /\ made' = made /\ fence' = fence /\ free' = free
        /\ onscreen' = onscreen /\ screen' = screen /\ drawing' = drawing
        /\ content' = content /\ frames' = frames
    BY DEF passVars, renderVars
  <2>2. QED
    BY <1>1, <1>2, <1>5, <1>6, <1>8, <1>9, <1>10, <2>1 DEF TypeOK, Slots
<1>12. HandlesApart' /\ FencesOwn' /\ FencesAnswer'
  BY <1>5, AnswersKept
<1>13. QED
  BY <1>11, <1>12 DEF SyncInv

LEMMA PresentInv ==
  ASSUME SyncInv, Present
  PROVE  SyncInv'
<1> DEFINE image == acquired[1].image
<1>1. TypeOK
  BY DEF SyncInv
<1>2. CASE /\ fault' = "no_image"
           /\ UNCHANGED <<swapVars, passVars, pc, drawn, made, syncVars, imageVars,
                          renderVars>>
  <2>1. UNCHANGED <<handle, waits, fences, acquired, current_frame, skip_frame,
                    current_framebuffer, fbMade, pc, drawn, made, sem, fence,
                    free, queue, onscreen, screen, drawing, content, frames>>
    BY <1>2 DEF swapVars, passVars, syncVars, imageVars, renderVars
  <2>2. /\ Handles' = Handles /\ Acquisitions' = Acquisitions
        /\ Presents' = Presents /\ Drawings' = Drawings
    BY <1>1, <2>1, SameHandles
  <2>3. TypeOK'
    BY <1>1, <1>2, <2>1, <2>2 DEF TypeOK, Slots, Faults
  <2>4. HandlesApart' /\ FencesOwn' /\ FencesAnswer'
    BY <2>1, AnswersKept
  <2>5. QED
    BY <2>3, <2>4 DEF SyncInv
<1>3. CASE /\ acquired # <<>>
           /\ acquired' = Tail(acquired)
           /\ waits' = Cleared(image)
           /\ \/ /\ skip_frame
                 /\ pc' = "acquire" /\ drawn' = FALSE
                 /\ UNCHANGED <<handle, fences, current_frame, skip_frame,
                                passVars, made, syncVars, imageVars,
                                renderVars, fault>>
              \/ /\ ~skip_frame
                 /\ Queued(image)
                 /\ pc' = "acquire" /\ drawn' = FALSE
                 /\ UNCHANGED <<handle, fences, current_frame, skip_frame,
                                passVars, made, fence, free, onscreen,
                                screen, renderVars>>
              \/ /\ ~skip_frame
                 /\ MayBeStale("stale_present")
                 /\ Reinitialize({})
                 /\ skip_frame' = SkipAfterSubmit
                 /\ UNCHANGED fault
  <2>1. /\ Tail(acquired) \in Seq(Acquisitions) /\ acquired[1] \in Acquisitions
        /\ image \in Slots
    <3>1. Tail(acquired) \in Seq(Acquisitions) /\ acquired[1] \in Acquisitions
      BY <1>1, <1>3, TailIn DEF TypeOK
    <3>2. QED
      BY <3>1 DEF Acquisitions
  <2>2. CASE /\ pc' = "acquire" /\ drawn' = FALSE
             /\ UNCHANGED <<handle, fences, current_frame, skip_frame, passVars,
                            made, syncVars, imageVars, renderVars, fault>>
    <3>1. UNCHANGED <<handle, fences, current_frame, skip_frame,
                      current_framebuffer, fbMade, made, sem, fence, free,
                      queue, onscreen, screen, drawing, content, frames, fault>>
      BY <2>2 DEF passVars, syncVars, imageVars, renderVars
    <3>2. /\ Handles' = Handles /\ Acquisitions' = Acquisitions
          /\ Presents' = Presents /\ Drawings' = Drawings
      BY <1>1, <3>1, SameHandles
    <3>3. waits' \in [Slots -> Seq(Handles)]
      BY <1>1, <1>3, <2>1, ClearedType DEF TypeOK
    <3>4. TypeOK'
      BY <1>1, <1>3, <2>1, <2>2, <3>1, <3>2, <3>3 DEF TypeOK, Slots
    <3>5. HandlesApart' /\ FencesOwn' /\ FencesAnswer'
      BY <3>1, AnswersKept
    <3>6. QED
      BY <3>4, <3>5 DEF SyncInv
  <2>3. CASE /\ Queued(image)
             /\ pc' = "acquire" /\ drawn' = FALSE
             /\ UNCHANGED <<handle, fences, current_frame, skip_frame, passVars,
                            made, fence, free, onscreen, screen, renderVars>>
    BY <1>3, <2>3, QueuedInv
  <2>4. CASE Reinitialize({}) /\ skip_frame' = SkipAfterSubmit /\ fault' = fault
    <3>1. waits \in [Slots -> Seq(Handles')] /\ acquired \in Seq(Acquisitions')
      BY <1>1, <2>4, RemakeGrows DEF Reinitialize
    <3>2. waits' \in [Slots -> Seq(Handles')]
      BY <1>3, <2>1, <3>1, ClearedType
    <3>3. acquired' \in Seq(Acquisitions')
      BY <1>3, <3>1, TailIn
    <3>4. skip_frame' \in BOOLEAN
      BY <1>1, <2>4 DEF SkipAfterSubmit, TypeOK
    <3>5. QED
      BY <2>4, <3>2, <3>3, <3>4, ReinitializeInv
  <2>5. QED
    BY <1>3, <2>2, <2>3, <2>4
<1>4. QED
  BY <1>2, <1>3 DEF Present

-----------------------------------------------------------------------------
(* Rendering, the driver, and the theorems. *)

LEMMA RenderInv ==
  ASSUME SyncInv, Render
  PROVE  SyncInv'
<1>1. TypeOK
  BY DEF SyncInv
<1>2. UNCHANGED <<handle, waits, fences, acquired, current_frame, skip_frame, fbMade,
                  pc, made, sem, fence, free, queue, onscreen, screen, content, fault>>
  BY DEF Render, swapVars, syncVars, imageVars
<1>3. /\ Handles' = Handles /\ Acquisitions' = Acquisitions
      /\ Presents' = Presents /\ Drawings' = Drawings
  BY <1>1, <1>2, SameHandles
<1>4. frames' \in Nat /\ drawn' = TRUE
  BY <1>1 DEF Render, TypeOK
<1>5. current_framebuffer' \in 0 .. NumBuffers - 1
  BY <1>1, NumBuffersAssumption DEF Render, NextFramebuffer, TypeOK
<1>6. drawing' \in Seq(Drawings)
  <2> DEFINE d == [frame |-> frames', made |-> fbMade,
                   image |-> ImageOf(current_framebuffer)]
  <2>1. ImageOf(current_framebuffer) \in Slots
    BY <1>1, CountAssumption, NumBuffersAssumption DEF ImageOf, TypeOK, Slots
  <2>2. fbMade \in Nat
    BY <1>1 DEF TypeOK
  <2>3. d \in Drawings
    BY <1>4, <2>1, <2>2 DEF Drawings
  <2>4. drawing' = Append(drawing, d) /\ drawing \in Seq(Drawings)
    BY <1>1 DEF Render, TypeOK
  <2> HIDE DEF d
  <2>5. QED
    BY <2>3, <2>4
<1>7. TypeOK'
  BY <1>1, <1>2, <1>3, <1>4, <1>5, <1>6 DEF TypeOK, Slots
<1>8. HandlesApart' /\ FencesOwn' /\ FencesAnswer'
  BY <1>2, AnswersKept
<1>9. QED
  BY <1>7, <1>8 DEF SyncInv

LEMMA FinishInv ==
  ASSUME SyncInv, Finish
  PROVE  SyncInv'
<1>1. TypeOK
  BY DEF SyncInv
<1>2. UNCHANGED <<handle, waits, fences, acquired, current_frame, skip_frame,
                  current_framebuffer, fbMade, pc, drawn, made, sem, fence, free,
                  queue, onscreen, screen, frames, fault>>
  BY DEF Finish, swapVars, passVars, syncVars, imageVars
<1>3. /\ Handles' = Handles /\ Acquisitions' = Acquisitions
      /\ Presents' = Presents /\ Drawings' = Drawings
  BY <1>1, <1>2, SameHandles
<1>4. drawing' \in Seq(Drawings) /\ Head(drawing) \in Drawings
  BY <1>1, TailIn DEF Finish, TypeOK
<1>5. content' \in [Slots -> Nat]
  <2>1. Head(drawing).frame \in Nat
    BY <1>4 DEF Drawings
  <2>2. QED
    BY <1>1, <2>1 DEF Finish, TypeOK
<1>6. TypeOK'
  BY <1>1, <1>2, <1>3, <1>4, <1>5 DEF TypeOK, Slots
<1>7. HandlesApart' /\ FencesOwn' /\ FencesAnswer'
  BY <1>2, AnswersKept
<1>8. QED
  BY <1>6, <1>7 DEF SyncInv

LEMMA SignalInv ==
  ASSUME SyncInv, Signal
  PROVE  SyncInv'
<1>1. TypeOK
  BY DEF SyncInv
<1>2. UNCHANGED <<handle, waits, fences, acquired, current_frame, skip_frame,
                  current_framebuffer, fbMade, pc, drawn, made, free, queue,
                  onscreen, screen, drawing, content, frames, fault>>
  BY DEF Signal, swapVars, passVars, imageVars, renderVars
<1>3. PICK h \in DOMAIN sem :
        /\ sem' = [sem EXCEPT ![h] = IF @ = "claimed" THEN "idle" ELSE "signalled"]
        /\ fence' = [fence EXCEPT ![h] = TRUE]
  BY DEF Signal
<1>4. h \in Handles
  BY <1>1 DEF TypeOK, Handles
<1>5. sem' \in Seq(States) /\ Len(sem') = Len(sem)
  BY <1>1, <1>3 DEF TypeOK, States
<1>6. fence' \in Seq(BOOLEAN) /\ Len(fence') = Len(fence)
  BY <1>1, <1>3 DEF TypeOK
<1>7. /\ Handles' = Handles /\ Acquisitions' = Acquisitions
      /\ Presents' = Presents /\ Drawings' = Drawings
  BY <1>1, <1>5, SameHandles
<1>8. TypeOK'
  BY <1>1, <1>2, <1>5, <1>6, <1>7 DEF TypeOK, Slots
<1>9. /\ \A x \in Handles : fence[x] => fence'[x]
      /\ \A x \in Handles : sem[x] \in {"signalling", "claimed"} =>
           fence'[x] \/ sem'[x] \in {"signalling", "claimed"}
  <2>1. fence'[h]
    BY <1>1, <1>3, <1>4 DEF TypeOK, Handles
  <2>2. \A x \in Handles : x # h => fence'[x] = fence[x] /\ sem'[x] = sem[x]
    BY <1>1, <1>3 DEF TypeOK, Handles
  <2>3. QED
    BY <2>1, <2>2
<1>10. HandlesApart' /\ FencesOwn' /\ FencesAnswer'
  BY <1>2, <1>5, <1>9, AnswersKept
<1>11. QED
  BY <1>8, <1>10 DEF SyncInv

LEMMA ShowInv ==
  ASSUME SyncInv, Show
  PROVE  SyncInv'
<1>1. TypeOK
  BY DEF SyncInv
<1>2. UNCHANGED <<handle, waits, fences, acquired, current_frame, skip_frame,
                  current_framebuffer, fbMade, pc, drawn, made, sem, fence,
                  drawing, content, frames, fault>>
  BY DEF Show, swapVars, passVars, syncVars, renderVars
<1>3. /\ Handles' = Handles /\ Acquisitions' = Acquisitions
      /\ Presents' = Presents /\ Drawings' = Drawings
  BY <1>1, <1>2, SameHandles
<1>4. queue' \in Seq(Presents) /\ queue[1] \in Presents
  BY <1>1, TailIn DEF Show, TypeOK
<1>5. queue[1].image \in Slots
  BY <1>4 DEF Presents
<1>6. onscreen' \in SUBSET Slots /\ screen' \in Nat
  BY <1>1, <1>5 DEF Show, TypeOK
<1>7. free' \in Seq(Slots)
  <2>1. onscreen \subseteq Slots /\ free \in Seq(Slots)
    BY <1>1 DEF TypeOK
  <2>2. free' = free \/ \E i \in onscreen : free' = Append(free, i)
    BY DEF Show
  <2>3. \A i \in onscreen : Append(free, i) \in Seq(Slots)
    BY <2>1
  <2>4. QED
    BY <2>1, <2>2, <2>3
<1>8. TypeOK'
  BY <1>1, <1>2, <1>3, <1>4, <1>6, <1>7 DEF TypeOK, Slots
<1>9. HandlesApart' /\ FencesOwn' /\ FencesAnswer'
  BY <1>2, AnswersKept
<1>10. QED
  BY <1>8, <1>9 DEF SyncInv

LEMMA InitSync == Init => SyncInv
<1> SUFFICES ASSUME Init PROVE SyncInv
  OBVIOUS
<1>1. sem \in Seq(States) /\ Len(sem) = Count
  BY CountAssumption DEF Init, States
<1>2. fence \in Seq(BOOLEAN) /\ Len(fence) = Count
  BY CountAssumption DEF Init
<1>3. handle \in [Slots -> Handles]
  BY <1>1, CountAssumption DEF Init, Handles, Slots
<1>4. waits \in [Slots -> Seq(Handles)] /\ fences \in [Slots -> Handles \union {0}]
  BY DEF Init
<1>5. acquired \in Seq(Acquisitions) /\ queue \in Seq(Presents) /\ drawing \in Seq(Drawings)
  BY DEF Init
<1>6. current_frame \in Slots /\ content \in [Slots -> Nat] /\ free \in Seq(Slots)
  BY ZeroSlot, ImagesIn DEF Init
<1>7. TypeOK
  <2>1. /\ skip_frame \in BOOLEAN /\ current_framebuffer \in 0 .. NumBuffers - 1
        /\ fbMade \in 1 .. made /\ pc \in {"idle", "acquire", "first"}
        /\ drawn \in BOOLEAN /\ made \in Nat \ {0} /\ onscreen \in SUBSET Slots
        /\ frames \in Nat /\ screen \in Nat /\ fault \in Faults
    <3>1. skip_frame \in BOOLEAN /\ drawn \in BOOLEAN
      BY DEF Init
    <3>2. /\ current_framebuffer = 0 /\ fbMade = 1 /\ made = 1 /\ pc = "first"
          /\ onscreen = {} /\ frames = 0 /\ screen = 0 /\ fault = "none"
      BY DEF Init
    <3>3. QED
      BY <3>1, <3>2, NumBuffersAssumption DEF Faults
  <2>2. QED
    BY <1>1, <1>2, <1>3, <1>4, <1>5, <1>6, <2>1 DEF TypeOK
<1>8. HandlesApart /\ FencesOwn /\ FencesAnswer
  BY DEF Init, HandlesApart, FencesOwn, FencesAnswer, Slots
<1>9. QED
  BY <1>7, <1>8 DEF SyncInv

LEMMA StutterSync ==
  ASSUME SyncInv, UNCHANGED vars
  PROVE  SyncInv'
<1>1. UNCHANGED <<handle, waits, fences, acquired, current_frame, skip_frame,
                  current_framebuffer, fbMade, pc, drawn, made, sem, fence, free,
                  queue, onscreen, screen, drawing, content, frames, fault>>
  BY DEF vars, swapVars, passVars, syncVars, imageVars, renderVars
<1>2. /\ Handles' = Handles /\ Acquisitions' = Acquisitions
      /\ Presents' = Presents /\ Drawings' = Drawings
  BY <1>1, SameHandles DEF SyncInv
<1>3. TypeOK'
  BY <1>1, <1>2 DEF SyncInv, TypeOK, Slots
<1>4. HandlesApart' /\ FencesOwn' /\ FencesAnswer'
  BY <1>1, AnswersKept
<1>5. QED
  BY <1>3, <1>4 DEF SyncInv

LEMMA SyncInvariant == Spec => []SyncInv
<1>1. SyncInv /\ [Next]_vars => SyncInv'
  BY FirstAcquireInv, RenderInv, PresentInv, AcquireInv, FinishInv, SignalInv, ShowInv,
     StutterSync DEF Next
<1>2. QED
  BY <1>1, InitSync, PTL DEF Spec

(* The variables have their types: frame numbers and framebuffer numbers   *)
(* stay inside their tables, whatever the driver answers and whatever      *)
(* clients do (Swapchain::acquire, Swapchain::submit, RenderPass::advance).*)
THEOREM AnyDriverTypes == Spec => []TypeOK
<1>1. SyncInv => TypeOK
  BY DEF SyncInv
<1>2. QED
  BY <1>1, SyncInvariant, PTL

(* Every fence that acquire waits for with no timeout is signalled, or     *)
(* belongs to an acquire the driver has yet to complete, across every      *)
(* swapchain made anew (Swapchain::acquire, Swapchain::initialize).        *)
THEOREM AnyDriverFences == Spec => []FencesAnswer
<1>1. SyncInv => FencesAnswer
  BY DEF SyncInv
<1>2. QED
  BY <1>1, SyncInvariant, PTL

-----------------------------------------------------------------------------
(* Numbers that go round. *)

LEMMA RoundIs ==
  ASSUME NEW p \in Slots
  PROVE  /\ Wrapped(p + 1) \in Slots /\ NextFrame(p) = Wrapped(p + 1)
         /\ Preceding(Wrapped(p + 1), 1) = p /\ Wrapped(p) = p
         /\ \A k \in 1 .. Count : Preceding(p, k) \in Slots
         /\ \A k \in 1 .. Count - 1 : Preceding(Wrapped(p + 1), k + 1) = Preceding(p, k)
         /\ \A k \in 0 .. Count - 1 : Wrapped(Wrapped(p + 1) + k) = Wrapped(p + 1 + k)
<1> DEFINE q == Wrapped(p + 1)
<1>1. q \in Slots /\ q = (IF p + 1 = Count THEN 0 ELSE p + 1) /\ p \in Nat /\ p < Count
  BY CountAssumption DEF Wrapped, Slots
<1>2. NextFrame(p) = q
  <2>1. p + 1 < Count => (p + 1) % Count = p + 1
    BY <1>1, CountAssumption
  <2>2. p + 1 = Count => (p + 1) % Count = 0
    BY <1>1, CountAssumption
  <2>3. q = (IF p + 1 = Count THEN 0 ELSE p + 1) /\ (p + 1 < Count \/ p + 1 = Count)
    BY <1>1, CountAssumption
  <2> HIDE DEF q
  <2>4. (p + 1) % Count = q
    BY <2>1, <2>2, <2>3
  <2> QED BY <2>4 DEF NextFrame
<1> HIDE DEF q
<1>3. Preceding(q, 1) = p
  BY <1>1, CountAssumption DEF Preceding
<1>4. \A k \in 1 .. Count : Preceding(p, k) \in Slots
  BY <1>1, CountAssumption DEF Preceding, Slots
<1>5. \A k \in 1 .. Count - 1 : Preceding(q, k + 1) = Preceding(p, k)
  BY <1>1, CountAssumption DEF Preceding
<1>6. Wrapped(p) = p /\ \A k \in 0 .. Count - 1 : Wrapped(q + k) = Wrapped(p + 1 + k)
  BY <1>1, CountAssumption DEF Wrapped
<1> QED BY <1>1, <1>2, <1>3, <1>4, <1>5, <1>6 DEF q

LEMMA AgeIs ==
  ASSUME NEW p \in Slots, NEW i \in Slots
  PROVE  /\ Age(i, p) \in 0 .. Count - 1 /\ Age(p, p) = Count - 1
         /\ Age(p, Wrapped(p + 1)) = 0
         /\ i # p => Age(i, Wrapped(p + 1)) = Age(i, p) + 1
<1>1. p \in Nat /\ i \in Nat /\ p < Count /\ i < Count
  BY CountAssumption DEF Slots
<1>2. Wrapped(p + 1) = (IF p + 1 = Count THEN 0 ELSE p + 1)
  BY <1>1, CountAssumption DEF Wrapped
<1>3. Age(i, p) \in 0 .. Count - 1 /\ Age(p, p) = Count - 1
  BY <1>1, CountAssumption DEF Age, Preceding
<1> QED BY <1>1, <1>2, <1>3, CountAssumption DEF Age, Preceding

LEMMA WithoutFirst ==
  ASSUME NEW S, NEW s \in Seq(S), Len(s) >= 1
  PROVE  /\ Len(Without(s, 1)) = Len(s) - 1
         /\ \A k \in 1 .. Len(s) - 1 : Without(s, 1)[k] = s[k + 1]
<1>1. SubSeq(s, 1, 0) = <<>>
  OBVIOUS
<1>2. SubSeq(s, 2, Len(s)) \in Seq(S)
  OBVIOUS
<1>3. Without(s, 1) = SubSeq(s, 2, Len(s))
  BY <1>1, <1>2 DEF Without
<1> QED BY <1>3

-----------------------------------------------------------------------------
(* The images, in turn. *)

LEMMA AcquireImages ==
  ASSUME TypeOK, NEW p \in Slots, ImagesInTurn(p), pc # "idle", AcquireImage,
         "order" \notin Liberties
  PROVE  /\ ImagesInTurn(p)'
         /\ acquired' = <<[image |-> p, own |-> handle[current_frame]]>>
<1>1. PICK k \in Offered :
        /\ acquired' = Append(acquired, [image |-> free[k], own |-> handle[current_frame]])
        /\ free' = Without(free, k)
  BY DEF AcquireImage
<1>2. k = 1 /\ Len(free) >= 1 /\ free \in Seq(Slots)
  BY DEF Offered, TypeOK
<1>3. acquired = <<>> /\ Len(acquired) = 0
  BY DEF ImagesInTurn, TypeOK
<1>4. free[1] = p
  <2>1. free[1] = Wrapped(p + 0 + 1 - 1)
    BY <1>2, <1>3 DEF ImagesInTurn
  <2> QED BY <2>1, RoundIs DEF Slots
<1>5. acquired' = <<[image |-> p, own |-> handle[current_frame]]>>
  BY <1>1, <1>2, <1>3, <1>4
<1>6. /\ Len(free') = Len(free) - 1
      /\ \A n \in 1 .. Len(free') : free'[n] = free[n + 1]
  BY <1>1, <1>2, WithoutFirst
<1>7. /\ pc' = "idle" /\ UNCHANGED <<skip_frame, queue, onscreen>>
  BY DEF AcquireImage
<1>8. Len(acquired') = 1 /\ acquired'[1].image = p
  BY <1>5
<1>9. \A n \in 1 .. Len(free') : free'[n] = Wrapped(p + 1 + n - 1)
  <2>1. \A n \in 1 .. Len(free') : n + 1 \in 1 .. Len(free) /\ p + 0 + (n + 1) - 1 = p + 1 + n - 1
    BY <1>2, <1>6 DEF Slots
  <2> QED BY <1>3, <1>6, <2>1 DEF ImagesInTurn
<1>10. Len(queue) + 1 + Len(free') = IF onscreen = {} THEN Count ELSE Count - 1
  <2>1. Len(queue) \in Nat
    BY DEF TypeOK
  <2> QED BY <1>2, <1>3, <1>6, <2>1 DEF ImagesInTurn
<1> QED BY <1>5, <1>7, <1>8, <1>9, <1>10 DEF ImagesInTurn

LEMMA RemakeImages ==
  ASSUME NEW n, NEW reset, Remake(n, reset), pc' # "idle", acquired' = <<>>, ~skip_frame'
  PROVE  ImagesInTurn(0)'
<1>1. free' = Images /\ queue' = <<>> /\ onscreen' = {}
  BY DEF Remake
<1>2. Len(Images) = Count /\ \A k \in 1 .. Count : Images[k] = k - 1 /\ Wrapped(0 + 0 + k - 1) = k - 1
  BY CountAssumption DEF Images, Wrapped
<1>3. Len(acquired') = 0 /\ Len(queue') = 0
  BY <1>1
<1> QED BY <1>1, <1>2, <1>3, CountAssumption DEF ImagesInTurn

(* An image that is presented, if only to find the swapchain out of date.  *)
LEMMA QueuedImages ==
  ASSUME TypeOK, NEW p \in Slots, ImagesInTurn(p), pc = "idle", acquired # <<>>,
         acquired' = Tail(acquired), Queued(acquired[1].image), pc' = "acquire",
         UNCHANGED <<skip_frame, free, onscreen>>
  PROVE  ImagesInTurn(Wrapped(p + 1))'
<1> DEFINE q == Wrapped(p + 1)
           e == [image |-> p, own |-> acquired[1].own,
                 waits |-> {waits[p][k] : k \in DOMAIN waits[p]}]
<1>1. acquired[1].image = p /\ Len(acquired) = 1
  BY DEF ImagesInTurn
<1>2. queue' = Append(queue, e)
  BY <1>1 DEF Queued
<1>3. e.image = p
  OBVIOUS
<1> HIDE DEF e, q
<1>4. queue \in Seq(Presents) /\ Len(queue) \in Nat /\ Len(free) \in Nat
  BY DEF TypeOK
<1>5. /\ Len(queue') = Len(queue) + 1
      /\ \A k \in 1 .. Len(queue) : queue'[k] = queue[k]
      /\ queue'[Len(queue) + 1] = e
  BY <1>2, <1>4
<1>6. Len(acquired') = 0
  BY <1>1 DEF TypeOK
<1>7. Len(queue) + 1 + Len(free) = (IF onscreen = {} THEN Count ELSE Count - 1)
  BY <1>1 DEF ImagesInTurn
<1>8. Len(queue) + 1 <= Count /\ (onscreen # {} => Len(queue) + 1 <= Count - 1)
  BY <1>4, <1>7, CountAssumption
<1>9. /\ Preceding(q, 1) = p
      /\ \A k \in 1 .. Count - 1 : Preceding(q, k + 1) = Preceding(p, k)
      /\ \A k \in 0 .. Count - 1 : Wrapped(q + k) = Wrapped(p + 1 + k)
  BY RoundIs DEF q
<1>10. \A k \in 1 .. Len(queue') : queue'[k].image = Preceding(q, Len(queue') + 1 - k)
  <2> SUFFICES ASSUME NEW k \in 1 .. Len(queue')
               PROVE  queue'[k].image = Preceding(q, Len(queue') + 1 - k)
    OBVIOUS
  <2>1. CASE k = Len(queue) + 1
    BY <1>3, <1>4, <1>5, <1>9, <2>1
  <2>2. CASE k \in 1 .. Len(queue)
    <3>1. Len(queue) + 1 - k \in 1 .. Count - 1
      BY <1>4, <1>8, <2>2, CountAssumption
    <3>2. Preceding(q, (Len(queue) + 1 - k) + 1) = Preceding(p, Len(queue) + 1 - k)
      BY <1>9, <3>1
    <3>3. (Len(queue) + 1 - k) + 1 = Len(queue') + 1 - k
      BY <1>4, <1>5, <2>2
    <3> QED BY <1>5, <2>2, <3>2, <3>3 DEF ImagesInTurn
  <2> QED BY <1>4, <1>5, <2>1, <2>2
<1>11. \A i \in onscreen : i = Preceding(q, Len(queue') + 1)
  <2> SUFFICES ASSUME NEW i \in onscreen
               PROVE  i = Preceding(q, Len(queue') + 1)
    OBVIOUS
  <2>1. Len(queue) + 1 \in 1 .. Count - 1
    BY <1>4, <1>8, CountAssumption
  <2>2. i = Preceding(p, Len(queue) + 1)
    BY DEF ImagesInTurn
  <2> QED BY <1>5, <1>9, <2>1, <2>2
<1>12. \A k \in 1 .. Len(free) : free[k] = Wrapped(q + 0 + k - 1)
  <2> SUFFICES ASSUME NEW k \in 1 .. Len(free)
               PROVE  free[k] = Wrapped(q + 0 + k - 1)
    OBVIOUS
  <2>1. k - 1 \in 0 .. Count - 1
    BY <1>4, <1>7, CountAssumption
  <2>2. Wrapped(q + (k - 1)) = Wrapped(p + 1 + (k - 1))
    BY <1>9, <2>1
  <2>3. free[k] = Wrapped(p + 1 + k - 1)
    BY <1>1 DEF ImagesInTurn
  <2>4. q + 0 + k - 1 = q + (k - 1) /\ p + 1 + k - 1 = p + 1 + (k - 1)
    BY <1>4, RoundIs DEF Slots, q
  <2> QED BY <2>2, <2>3, <2>4
<1>13. Len(queue') + 0 + Len(free) = IF onscreen = {} THEN Count ELSE Count - 1
  BY <1>4, <1>5, <1>7
<1> QED BY <1>6, <1>10, <1>11, <1>12, <1>13 DEF ImagesInTurn, q

LEMMA ShownImages ==
  ASSUME TypeOK, NEW p \in Slots, ImagesInTurn(p), Show
  PROVE  ImagesInTurn(p)'
<1>1. queue \in Seq(Presents) /\ free \in Seq(Slots) /\ Len(queue) \in Nat /\ Len(queue) >= 1
      /\ Len(free) \in Nat /\ Len(acquired) \in {0, 1}
  BY SMTT(30) DEF TypeOK, Show, ImagesInTurn
<1>2. /\ Len(queue') = Len(queue) - 1
      /\ \A k \in 1 .. Len(queue') : queue'[k] = queue[k + 1]
      /\ onscreen' = {queue[1].image}
  BY <1>1 DEF Show
<1>3. queue[1].image = Preceding(p, Len(queue))
  BY <1>1 DEF ImagesInTurn
<1>4. \A k \in 1 .. Len(queue') : queue'[k].image = Preceding(p, Len(queue') + 1 - k)
  <2> SUFFICES ASSUME NEW k \in 1 .. Len(queue')
               PROVE  queue'[k].image = Preceding(p, Len(queue') + 1 - k)
    OBVIOUS
  <2>1. k + 1 \in 1 .. Len(queue) /\ Len(queue) + 1 - (k + 1) = Len(queue') + 1 - k
    BY <1>1, <1>2
  <2> QED BY <1>2, <2>1 DEF ImagesInTurn
<1>5. \A i \in onscreen' : i = Preceding(p, Len(queue') + 1)
  BY <1>1, <1>2, <1>3
<1>6. UNCHANGED <<skip_frame, acquired, pc>>
  BY DEF Show, swapVars
<1>7. CASE onscreen = {} /\ UNCHANGED free
  <2>1. Len(queue') + Len(acquired) + Len(free) = Count - 1
    BY <1>1, <1>2, <1>7 DEF ImagesInTurn
  <2> QED BY <1>2, <1>4, <1>5, <1>6, <1>7, <2>1 DEF ImagesInTurn
<1>8. ASSUME NEW i \in onscreen, free' = Append(free, i)
      PROVE  ImagesInTurn(p)'
  <2>1. /\ Len(free') = Len(free) + 1
        /\ \A k \in 1 .. Len(free) : free'[k] = free[k]
        /\ free'[Len(free) + 1] = i
    BY <1>1, <1>8
  <2>2. Len(queue) + Len(acquired) + Len(free) = Count - 1
    BY <1>8 DEF ImagesInTurn
  <2>3. i = Preceding(p, Len(queue) + 1)
    BY <1>8 DEF ImagesInTurn
  <2>4. i = Wrapped(p + Len(acquired) + (Len(free) + 1) - 1)
    <3> DEFINE l == Len(acquired)
               f == Len(free)
               n == Len(queue)
    <3>1. l \in Nat /\ f \in Nat /\ n \in Nat /\ n + l + f = Count - 1
      BY <1>1, <2>2
    <3>2. i = Preceding(p, n + 1)
      BY <2>3
    <3> HIDE DEF l, f, n
    <3>3. p \in Nat /\ p < Count
      BY CountAssumption DEF Slots
    <3>4. Preceding(p, n + 1) = Wrapped(p + l + (f + 1) - 1)
      BY <3>1, <3>3, CountAssumption DEF Preceding, Wrapped
    <3> QED BY <3>2, <3>4 DEF l, f
  <2>5. \A k \in 1 .. Len(free') : free'[k] = Wrapped(p + Len(acquired) + k - 1)
    BY <1>1, <2>1, <2>4 DEF ImagesInTurn
  <2>6. Len(queue') + Len(acquired) + Len(free') = Count - 1
    BY <1>1, <1>2, <2>1, <2>2
  <2> QED BY <1>2, <1>4, <1>5, <1>6, <2>5, <2>6 DEF ImagesInTurn
<1> QED BY <1>7, <1>8 DEF Show

LEMMA SameImages ==
  ASSUME NEW p, ImagesInTurn(p), UNCHANGED <<skip_frame, acquired, pc, queue, onscreen, free>>
  PROVE  ImagesInTurn(p)'
BY DEF ImagesInTurn

-----------------------------------------------------------------------------
(* The semaphores, in turn. *)

LEMMA WaitsAre ==
  ASSUME TypeOK
  PROVE  /\ DOMAIN sem = Handles /\ DOMAIN fence = Handles
         /\ \A i \in Slots : /\ handle[i] \in Handles /\ waits[i] \in Seq(Handles)
                             /\ \A k \in DOMAIN waits[i] : waits[i][k] \in Handles
<1>1. \A i \in Slots : handle[i] \in Handles /\ waits[i] \in Seq(Handles)
  BY DEF TypeOK
<1>2. \A i \in Slots : \A k \in DOMAIN waits[i] : waits[i][k] \in Handles
  BY <1>1
<1> QED BY <1>1, <1>2 DEF TypeOK, Handles

(* The semaphore an image is acquired with is free to be signalled.        *)
LEMMA FrameFree ==
  ASSUME SyncInv, NEW p \in Slots, SemaphoresInTurn(p), pc # "idle", FenceAnswered
  PROVE  LET h == handle[current_frame]
         IN  /\ sem[h] = "idle"
             /\ \A i \in Slots : \A k \in DOMAIN waits[i] : waits[i][k] # h
<1> DEFINE f == current_frame
           h == handle[f]
<1>1. f \in Slots /\ h \in Handles
  BY WaitsAre DEF SyncInv, TypeOK
<1>2. ASSUME NEW i \in Slots, NEW k \in DOMAIN waits[i], waits[i][k] = h
      PROVE  FALSE
  <2>1. i = f /\ Age(f, f) <= Age(f, p) /\ Age(f, f) # Age(f, p)
    BY <1>1, <1>2 DEF SemaphoresInTurn
  <2>2. Age(f, f) = Count - 1 /\ Age(f, p) \in 0 .. Count - 1
    BY <1>1, AgeIs
  <2> QED BY <2>1, <2>2, CountAssumption
<1>3. sem[h] \in {"idle", "claimed"}
  BY <1>1, <1>2 DEF SemaphoresInTurn
<1>4. CASE fences[f] = 0
  BY <1>1, <1>2, <1>4 DEF SemaphoresInTurn
<1>5. CASE fences[f] # 0
  <2>1. fences[f] = h
    BY <1>1, <1>5 DEF SyncInv, FencesOwn
  <2>2. fence[h]
    BY <1>5, <2>1 DEF FenceAnswered
  <2>3. sem[h] # "claimed"
    BY <1>1, <2>2, WaitsAre DEF SyncInv, SemaphoresInTurn
  <2> QED BY <1>2, <1>3, <2>3
<1> QED BY <1>4, <1>5

LEMMA AcquireSemaphores ==
  ASSUME SyncInv, NEW p \in Slots, SemaphoresInTurn(p), pc # "idle", AcquireImage
  PROVE  SemaphoresInTurn(p)' /\ UNCHANGED fault
<1> DEFINE f == current_frame
           h == handle[f]
           g == Wrapped(f + 1)
<1>1. TypeOK /\ f \in Slots /\ h \in Handles
  BY WaitsAre DEF SyncInv, TypeOK
<1>2. /\ sem[h] = "idle"
      /\ \A i \in Slots : \A k \in DOMAIN waits[i] : waits[i][k] # h
  BY FrameFree DEF AcquireImage
<1>3. /\ UNCHANGED <<handle, fault>> /\ pc' = "idle" /\ current_frame' = g
      /\ fences' = [fences EXCEPT ![f] = h]
  BY <1>1, <1>2, RoundIs DEF AcquireImage
<1>4. \A x \in Handles : sem'[x] = IF x = h THEN "signalling" ELSE sem[x]
  <2>1. sem' = [sem EXCEPT ![h] = "signalling"]
    BY DEF AcquireImage
  <2>2. DOMAIN sem = Handles
    BY <1>1, WaitsAre
  <2> HIDE DEF h
  <2> QED BY <2>1, <2>2
<1>5. \A x \in DOMAIN sem' : x \in Handles /\ (fence'[x] => fence[x] /\ x # h)
  <2>1. fence' = [x \in 1 .. Len(fence) |-> fence[x] /\ x \notin {h, fences[f]}]
    BY <1>1, ResetFences DEF AcquireImage, FrameFences
  <2>2. DOMAIN sem' = Handles /\ 1 .. Len(fence) = Handles
    BY <1>1 DEF AcquireImage, TypeOK, Handles
  <2> QED BY <2>1, <2>2
<1>6. /\ \A j \in Slots : j # f => waits'[j] = waits[j]
      /\ waits'[f] = Append(waits[f], h)
  BY <1>1 DEF AcquireImage, TypeOK
<1>7. /\ DOMAIN waits'[f] = 1 .. Len(waits[f]) + 1
      /\ waits'[f][Len(waits[f]) + 1] = h
      /\ \A k \in DOMAIN waits'[f] : k = Len(waits[f]) + 1 \/ (k \in DOMAIN waits[f] /\ waits'[f][k] = waits[f][k])
  <2>1. waits[f] \in Seq(Handles)
    BY <1>1, WaitsAre
  <2> QED BY <1>6, <2>1
<1>8. \A i \in Slots : \A k \in DOMAIN waits'[i] :
        \/ i = f /\ k = Len(waits[f]) + 1 /\ waits'[i][k] = h
        \/ k \in DOMAIN waits[i] /\ waits'[i][k] = waits[i][k] /\ waits[i][k] # h /\ waits[i][k] \in Handles
  BY <1>1, <1>2, <1>6, <1>7, WaitsAre
<1>9. \A i \in Slots : i # f => handle[i] # h /\ handle[i] \in Handles
  BY <1>1, WaitsAre DEF SyncInv, HandlesApart
<1>10. \A i \in Slots : /\ Age(i, f) \in 0 .. Count - 1 /\ Age(i, p) \in 0 .. Count - 1
                        /\ i # f => Age(i, g) = Age(i, f) + 1
                        /\ i = f => Age(i, g) = 0
  BY <1>1, AgeIs
<1> HIDE DEF f, h, g
<1>11. \A i \in Slots : \A k \in DOMAIN waits'[i] :
         /\ sem'[waits'[i][k]] \in {"signalling", "signalled"}
         /\ \A j \in Slots : \A l \in DOMAIN waits'[j] :
              waits'[i][k] = waits'[j][l] => i = j /\ k = l
  BY <1>1, <1>4, <1>8 DEF SemaphoresInTurn
<1>12. \A i \in Slots : \A k \in DOMAIN waits'[i] : \A j \in Slots :
         waits'[i][k] = handle[j] => i = j /\ Age(i, g) <= Age(i, p)
  <2> SUFFICES ASSUME NEW i \in Slots, NEW k \in DOMAIN waits'[i], NEW j \in Slots,
                      waits'[i][k] = handle[j]
               PROVE  i = j /\ Age(i, g) <= Age(i, p)
    OBVIOUS
  <2>1. CASE i = f /\ waits'[i][k] = h
    BY <1>9, <1>10, <2>1
  <2>2. CASE k \in DOMAIN waits[i] /\ waits'[i][k] = waits[i][k] /\ waits[i][k] # h
    <3>1. i = j /\ Age(i, f) <= Age(i, p) /\ Age(i, f) # Age(i, p)
      <4>1. k \in DOMAIN waits[i] /\ waits[i][k] = handle[j]
        BY <2>2
      <4> QED BY <4>1 DEF SemaphoresInTurn, f
    <3>2. i # f
      BY <2>2, <3>1 DEF h
    <3> QED BY <1>10, <3>1, <3>2
  <2> QED BY <1>8, <2>1, <2>2
<1>13. \A i \in Slots : (\A k \in DOMAIN waits'[i] : waits'[i][k] # handle[i])
                          => sem'[handle[i]] \in {"idle", "claimed"}
  <2> SUFFICES ASSUME NEW i \in Slots, \A k \in DOMAIN waits'[i] : waits'[i][k] # handle[i]
               PROVE  sem'[handle[i]] \in {"idle", "claimed"}
    OBVIOUS
  <2>1. i # f
    <3>1. Len(waits[f]) + 1 \in DOMAIN waits'[f]
      BY <1>1, <1>7, WaitsAre
    <3> QED BY <1>7, <3>1 DEF h
  <2> QED BY <1>4, <1>6, <1>9, <2>1 DEF SemaphoresInTurn
<1>14. \A i \in Slots : fences'[i] = 0 => sem'[handle[i]] = "idle"
  <2>1. h # 0
    BY <1>1 DEF Handles
  <2>2. \A i \in Slots : i # f => fences'[i] = fences[i]
    BY <1>1, <1>3 DEF TypeOK
  <2>3. fences'[f] = h
    BY <1>1, <1>3 DEF TypeOK
  <2> QED BY <1>4, <1>9, <2>1, <2>2, <2>3 DEF SemaphoresInTurn
<1>15. \A x \in DOMAIN sem' : fence'[x] => sem'[x] \notin {"signalling", "claimed"}
  BY <1>1, <1>4, <1>5, WaitsAre DEF SemaphoresInTurn
<1> QED BY <1>3, <1>11, <1>12, <1>13, <1>14, <1>15 DEF SemaphoresInTurn

(* New semaphores are idle, and nothing waits for them. *)
LEMMA RemakeSemaphores ==
  ASSUME SyncInv, NEW p \in Slots, SemaphoresInTurn(p), NEW n \in {1, 2}, NEW reset, Remake(n, reset),
         \A i \in Slots : waits'[i] = waits[i] \/ waits'[i] = <<>>
  PROVE  SemaphoresInTurn(0)'
<1> DEFINE m == n * Count
           new == [x \in 1 .. m |-> "idle"]
           more == [x \in 1 .. m |-> TRUE]
<1>1. TypeOK /\ sem \in Seq(States) /\ Len(sem) \in Nat /\ DOMAIN sem = 1 .. Len(sem)
  BY DEF SyncInv, TypeOK
<1>2. m \in Nat /\ m >= Count /\ (n - 1) * Count = m - Count
  BY CountAssumption
<1>3. /\ sem' = sem \o new /\ fence' = AfterReset(reset) \o more
      /\ handle' = [i \in Slots |-> Len(sem) + (m - Count) + i + 1]
      /\ fences' = [i \in Slots |-> 0]
  BY <1>2 DEF Remake, Forgotten
<1> HIDE DEF m
<1>4. /\ new \in Seq(States) /\ Len(new) = m /\ more \in Seq(BOOLEAN) /\ Len(more) = m
      /\ \A x \in 1 .. m : new[x] = "idle"
  BY <1>2 DEF States
<1> HIDE DEF new, more
<1>5. /\ Len(sem') = Len(sem) + m /\ DOMAIN sem' = 1 .. Len(sem) + m
      /\ \A x \in 1 .. Len(sem) : sem'[x] = sem[x]
      /\ \A x \in 1 .. Len(sem) + m : x > Len(sem) => sem'[x] = "idle"
  <2>1. /\ sem' \in Seq(States) /\ Len(sem') = Len(sem) + m
        /\ \A x \in 1 .. Len(sem) + m :
              sem'[x] = IF x <= Len(sem) THEN sem[x] ELSE new[x - Len(sem)]
    <3>1. /\ sem \o new \in Seq(States) /\ Len(sem \o new) = Len(sem) + Len(new)
          /\ \A x \in 1 .. Len(sem) + Len(new) :
                (sem \o new)[x] = IF x <= Len(sem) THEN sem[x] ELSE new[x - Len(sem)]
      BY <1>1, <1>4, ConcatProperties, Zenon
    <3>2. sem' = sem \o new /\ Len(new) = m
      BY <1>3, <1>4, Zenon
    <3> QED BY <3>1, <3>2
  <2>2. DOMAIN sem' = 1 .. Len(sem) + m
    BY <2>1
  <2>3. \A x \in 1 .. Len(sem) : x \in 1 .. Len(sem) + m /\ x <= Len(sem)
    BY <1>1, <1>2
  <2>4. \A x \in 1 .. Len(sem) + m : x > Len(sem) => ~(x <= Len(sem)) /\ x - Len(sem) \in 1 .. m
    BY <1>1, <1>2
  <2> QED BY <1>4, <2>1, <2>2, <2>3, <2>4, ZenonT(30)
<1>6. \A x \in 1 .. Len(sem) : fence'[x] => fence[x]
  <2>1. /\ AfterReset(reset) \in Seq(BOOLEAN) /\ Len(AfterReset(reset)) = Len(sem)
        /\ AfterReset(reset) = [x \in 1 .. Len(fence) |-> fence[x] /\ x \notin reset]
    BY <1>1, ResetFences
  <2>2. \A x \in 1 .. Len(sem) : fence'[x] = AfterReset(reset)[x]
    BY <1>3, <1>4, <2>1, ConcatProperties
  <2>3. Len(fence) = Len(sem)
    BY <1>1 DEF TypeOK
  <2> QED BY <2>1, <2>2, <2>3
<1>7. \A i \in Slots : handle'[i] \in 1 .. Len(sem) + m /\ handle'[i] > Len(sem)
  BY <1>1, <1>2, <1>3, CountAssumption DEF Slots
<1>8. \A i \in Slots : \A k \in DOMAIN waits'[i] :
        k \in DOMAIN waits[i] /\ waits'[i][k] = waits[i][k] /\ waits[i][k] \in 1 .. Len(sem)
  BY <1>1, WaitsAre DEF Handles
<1>9. \A i \in Slots : \A k \in DOMAIN waits'[i] :
        /\ sem'[waits'[i][k]] \in {"signalling", "signalled"}
        /\ \A j \in Slots : \A l \in DOMAIN waits'[j] :
             waits'[i][k] = waits'[j][l] => i = j /\ k = l
        /\ \A j \in Slots : waits'[i][k] # handle'[j]
  BY <1>1, <1>5, <1>7, <1>8 DEF SemaphoresInTurn
<1>10. \A i \in Slots : sem'[handle'[i]] = "idle"
  BY <1>5, <1>7
<1>11. \A x \in DOMAIN sem' : fence'[x] => sem'[x] \notin {"signalling", "claimed"}
  BY <1>1, <1>2, <1>5, <1>6 DEF SemaphoresInTurn
<1> QED BY <1>9, <1>10, <1>11 DEF SemaphoresInTurn

(* A present takes the semaphores of its image, and there is nothing wrong *)
(* with that.                                                              *)
LEMMA QueuedSemaphores ==
  ASSUME SyncInv, NEW p \in Slots, SemaphoresInTurn(p), pc = "idle", Queued(p), waits' = Cleared(p),
         UNCHANGED <<handle, fences, current_frame, fence>>
  PROVE  SemaphoresInTurn(Wrapped(p + 1))' /\ UNCHANGED fault
<1> DEFINE q == Wrapped(p + 1)
<1>1. TypeOK /\ current_frame \in Slots
  BY DEF SyncInv, TypeOK
<1>2. sem' = Claimed(waits[p]) /\ fault' = IF Awaitable(waits[p]) THEN fault ELSE "semaphore_unsignalled"
  BY DEF Queued
<1>3. Awaitable(waits[p])
  BY DEF Awaitable, SemaphoresInTurn
<1>4. DOMAIN sem' = DOMAIN sem /\ DOMAIN sem = Handles
  BY <1>1, <1>2, WaitsAre DEF Claimed
<1>5. /\ \A i \in Slots : i # p => waits'[i] = waits[i]
      /\ waits'[p] = <<>> /\ \A k \in DOMAIN waits'[p] : FALSE
  BY <1>1 DEF Cleared, TypeOK
<1>6. ASSUME NEW x \in Handles
      PROVE  /\ (\A k \in DOMAIN waits[p] : waits[p][k] # x) => sem'[x] = sem[x]
             /\ \/ sem'[x] = sem[x]
                \/ sem'[x] = "claimed" /\ sem[x] \in {"signalling", "claimed"}
                \/ sem'[x] = "idle"
             /\ (\E k \in DOMAIN waits[p] : waits[p][k] = x) => sem'[x] \in {"idle", "claimed"}
  <2>1. sem' = [y \in Handles |-> IF \A k \in DOMAIN waits[p] : waits[p][k] # y THEN sem[y]
                                  ELSE IF sem[y] \in {"signalling", "claimed"} THEN "claimed" ELSE "idle"]
    BY <1>2, <1>4 DEF Claimed
  <2>2. sem'[x] = IF \A k \in DOMAIN waits[p] : waits[p][k] # x THEN sem[x]
                  ELSE IF sem[x] \in {"signalling", "claimed"} THEN "claimed" ELSE "idle"
    BY <2>1
  <2>3. CASE \A k \in DOMAIN waits[p] : waits[p][k] # x
    <3>1. sem'[x] = sem[x]
      BY <2>2, <2>3, Zenon
    <3> QED BY <2>3, <3>1, Zenon
  <2>4. CASE ~\A k \in DOMAIN waits[p] : waits[p][k] # x
    BY <2>2, <2>4
  <2> QED BY <2>3, <2>4
<1>7. \A i \in Slots : /\ Age(i, q) \in 0 .. Count /\ Age(i, p) \in 0 .. Count - 1
                       /\ Age(i, current_frame) \in 0 .. Count - 1
                       /\ i # p => Age(i, q) = Age(i, p) + 1
  BY <1>1, AgeIs, CountAssumption
<1> HIDE DEF q
<1>8. \A i \in Slots : \A k \in DOMAIN waits'[i] :
        /\ i # p /\ k \in DOMAIN waits[i] /\ waits'[i][k] = waits[i][k] /\ waits[i][k] \in Handles
        /\ sem'[waits[i][k]] = sem[waits[i][k]]
  <2> SUFFICES ASSUME NEW i \in Slots, NEW k \in DOMAIN waits'[i]
               PROVE  /\ i # p /\ k \in DOMAIN waits[i] /\ waits'[i][k] = waits[i][k]
                      /\ waits[i][k] \in Handles /\ sem'[waits[i][k]] = sem[waits[i][k]]
    OBVIOUS
  <2>1. i # p /\ k \in DOMAIN waits[i] /\ waits'[i][k] = waits[i][k]
    BY <1>5
  <2>2. waits[i][k] \in Handles
    BY <1>1, <2>1, WaitsAre
  <2>3. \A l \in DOMAIN waits[p] : waits[p][l] # waits[i][k]
    BY <2>1 DEF SemaphoresInTurn
  <2> QED BY <1>6, <2>1, <2>2, <2>3
<1>9. \A i \in Slots : \A k \in DOMAIN waits'[i] :
        /\ sem'[waits'[i][k]] \in {"signalling", "signalled"}
        /\ \A j \in Slots : \A l \in DOMAIN waits'[j] :
             waits'[i][k] = waits'[j][l] => i = j /\ k = l
  BY <1>8 DEF SemaphoresInTurn
<1>10. \A i \in Slots : \A k \in DOMAIN waits'[i] : \A j \in Slots : waits'[i][k] = handle[j] =>
         /\ i = j
         /\ Age(i, current_frame) <= Age(i, q)
         /\ Age(i, current_frame) # Age(i, q)
  <2> SUFFICES ASSUME NEW i \in Slots, NEW k \in DOMAIN waits'[i], NEW j \in Slots,
                      waits'[i][k] = handle[j]
               PROVE  /\ i = j
                      /\ Age(i, current_frame) <= Age(i, q)
                      /\ Age(i, current_frame) # Age(i, q)
    OBVIOUS
  <2>1. i # p /\ k \in DOMAIN waits[i] /\ waits[i][k] = handle[j]
    BY <1>8
  <2>2. i = j /\ Age(i, current_frame) <= Age(i, p)
    BY <2>1 DEF SemaphoresInTurn
  <2> QED BY <1>7, <2>1, <2>2
<1>11. \A i \in Slots : (\A k \in DOMAIN waits'[i] : waits'[i][k] # handle[i])
                          => sem'[handle[i]] \in {"idle", "claimed"}
  <2> SUFFICES ASSUME NEW i \in Slots, \A k \in DOMAIN waits'[i] : waits'[i][k] # handle[i]
               PROVE  sem'[handle[i]] \in {"idle", "claimed"}
    OBVIOUS
  <2>1. handle[i] \in Handles
    BY <1>1, WaitsAre
  <2>2. CASE i # p \/ \A k \in DOMAIN waits[p] : waits[p][k] # handle[i]
    <3>1. sem[handle[i]] \in {"idle", "claimed"}
      BY <1>5, <2>2 DEF SemaphoresInTurn
    <3> QED BY <1>6, <2>1, <3>1
  <2>3. CASE i = p /\ \E k \in DOMAIN waits[p] : waits[p][k] = handle[i]
    BY <1>6, <2>1, <2>3
  <2> QED BY <2>2, <2>3
<1>12. \A i \in Slots : fences[i] = 0 => sem'[handle[i]] = "idle"
  <2> SUFFICES ASSUME NEW i \in Slots, fences[i] = 0
               PROVE  sem'[handle[i]] = "idle"
    OBVIOUS
  <2>1. handle[i] \in Handles /\ sem[handle[i]] = "idle"
    BY <1>1, WaitsAre DEF SemaphoresInTurn
  <2> QED BY <1>6, <2>1
<1>13. \A x \in DOMAIN sem' : fence[x] => sem'[x] \notin {"signalling", "claimed"}
  BY <1>4, <1>6 DEF SemaphoresInTurn
<1> QED BY <1>2, <1>3, <1>9, <1>10, <1>11, <1>12, <1>13 DEF SemaphoresInTurn, q

LEMMA SignalledSemaphores ==
  ASSUME SyncInv, NEW p \in Slots, SemaphoresInTurn(p), Signal
  PROVE  SemaphoresInTurn(p)'
<1>1. PICK h \in DOMAIN sem :
        /\ sem[h] \in {"signalling", "claimed"}
        /\ sem' = [sem EXCEPT ![h] = IF @ = "claimed" THEN "idle" ELSE "signalled"]
        /\ fence' = [fence EXCEPT ![h] = TRUE]
  BY DEF Signal
<1>2. UNCHANGED <<handle, waits, fences, current_frame, pc>>
  BY DEF Signal, swapVars
<1>3. TypeOK /\ DOMAIN sem = Handles /\ DOMAIN fence = Handles
  BY WaitsAre DEF SyncInv
<1>4. /\ DOMAIN sem' = DOMAIN sem
      /\ \A x \in DOMAIN sem : x # h => sem'[x] = sem[x] /\ fence'[x] = fence[x]
      /\ sem[h] = "claimed" => sem'[h] = "idle"
      /\ sem[h] = "signalling" => sem'[h] = "signalled"
  BY <1>1, <1>3
<1>5. \A i \in Slots : \A k \in DOMAIN waits[i] : waits[i][k] \in DOMAIN sem
  BY <1>3, WaitsAre
<1>6. \A i \in Slots : handle[i] \in DOMAIN sem
  BY <1>3, WaitsAre
<1>7. \A i \in Slots : \A k \in DOMAIN waits[i] : sem'[waits[i][k]] \in {"signalling", "signalled"}
  <2> SUFFICES ASSUME NEW i \in Slots, NEW k \in DOMAIN waits[i]
               PROVE  sem'[waits[i][k]] \in {"signalling", "signalled"}
    OBVIOUS
  <2>1. PICK x : x = waits[i][k] /\ x \in DOMAIN sem /\ sem[x] \in {"signalling", "signalled"}
    BY <1>5 DEF SemaphoresInTurn
  <2> QED BY <1>1, <1>4, <2>1
<1>8. \A i \in Slots : sem[handle[i]] \in {"idle", "claimed"} => sem'[handle[i]] \in {"idle", "claimed"}
  <2> SUFFICES ASSUME NEW i \in Slots, sem[handle[i]] \in {"idle", "claimed"}
               PROVE  sem'[handle[i]] \in {"idle", "claimed"}
    OBVIOUS
  <2>1. PICK x : x = handle[i] /\ x \in DOMAIN sem /\ sem[x] \in {"idle", "claimed"}
    BY <1>6
  <2> QED BY <1>1, <1>4, <2>1
<1>9. \A i \in Slots : fences[i] = 0 => sem'[handle[i]] = "idle"
  BY <1>1, <1>4, <1>6 DEF SemaphoresInTurn
<1>10. \A x \in DOMAIN sem' : fence'[x] => sem'[x] \notin {"signalling", "claimed"}
  BY <1>1, <1>4 DEF SemaphoresInTurn
<1> QED BY <1>2, <1>7, <1>8, <1>9, <1>10 DEF SemaphoresInTurn

LEMMA SameSemaphores ==
  ASSUME NEW p, SemaphoresInTurn(p), UNCHANGED <<handle, waits, fences, current_frame, pc, sem, fence>>
  PROVE  SemaphoresInTurn(p)'
BY DEF SemaphoresInTurn

-----------------------------------------------------------------------------
(* Nothing is presented that was not acquired, and nothing is lost.        *)

LEMMA TurnInit == Init => TurnInv
<1> SUFFICES ASSUME Init
             PROVE  ImagesInTurn(0) /\ SemaphoresInTurn(0) /\ FirstInTurn(0)
  BY ZeroSlot DEF TurnInv
<1>1. ImagesInTurn(0)
  <2>1. Len(Images) = Count /\ \A k \in 1 .. Count : Images[k] = k - 1 /\ Wrapped(0 + 0 + k - 1) = k - 1
    BY CountAssumption DEF Images, Wrapped
  <2>2. /\ ~skip_frame /\ acquired = <<>> /\ pc = "first" /\ free = Images
        /\ queue = <<>> /\ onscreen = {}
    BY DEF Init
  <2>3. Len(acquired) = 0 /\ Len(queue) = 0
    BY <2>2
  <2> QED BY <2>1, <2>2, <2>3, CountAssumption DEF ImagesInTurn
<1>2. SemaphoresInTurn(0)
  <2>1. /\ \A i \in Slots : waits[i] = <<>> /\ handle[i] = i + 1 /\ i + 1 \in 1 .. Count
        /\ \A h \in 1 .. Count : sem[h] = "idle"
        /\ DOMAIN sem = 1 .. Count
    BY CountAssumption DEF Init, Slots
  <2>2. \A i \in Slots : \A k \in DOMAIN waits[i] : FALSE
    BY <2>1
  <2>3. \A i \in Slots : sem[handle[i]] = "idle"
    BY <2>1
  <2> QED BY <2>1, <2>2, <2>3 DEF SemaphoresInTurn
<1>3. FirstInTurn(0)
  <2>1. pc # "idle" /\ current_frame = 0 /\ queue = <<>>
    BY DEF Init
  <2> QED BY <2>1 DEF FirstInTurn, WaitsOwn
<1> QED BY <1>1, <1>2, <1>3

LEMMA AcquireTurn ==
  ASSUME SyncInv, TurnInv, pc # "idle", AcquireImage, "order" \notin Liberties
  PROVE  TurnInv' /\ UNCHANGED fault
<1> PICK p \in Slots : ImagesInTurn(p) /\ SemaphoresInTurn(p) /\ FirstInTurn(p)
  BY DEF TurnInv
<1>1. TypeOK
  BY DEF SyncInv
<1>2. ImagesInTurn(p)' /\ acquired' = <<[image |-> p, own |-> handle[current_frame]]>>
  BY <1>1, AcquireImages
<1>3. SemaphoresInTurn(p)' /\ UNCHANGED fault
  BY AcquireSemaphores
<1>4. FirstInTurn(p)'
  <2> SUFFICES ASSUME made' = 1
               PROVE  /\ current_frame' = Wrapped(p + 1)
                      /\ \E k \in DOMAIN waits'[p] : waits'[p][k] = acquired'[1].own
                      /\ WaitsOwn'
    BY DEF FirstInTurn, AcquireImage
  <2>1. UNCHANGED <<made, queue>>
    BY DEF AcquireImage
  <2>2. current_frame = p /\ WaitsOwn
    BY <2>1 DEF FirstInTurn
  <2>3. current_frame' = Wrapped(p + 1)
    BY <2>2, RoundIs DEF AcquireImage
  <2>4. acquired'[1].own = handle[p]
    BY <1>2, <2>2
  <2>5. waits'[p] = Append(waits[p], handle[p]) /\ waits[p] \in Seq(Handles)
    BY <1>1, <2>2, WaitsAre DEF AcquireImage, TypeOK
  <2>6. \E k \in DOMAIN waits'[p] : waits'[p][k] = handle[p]
    <3>1. Len(waits[p]) + 1 \in DOMAIN waits'[p] /\ waits'[p][Len(waits[p]) + 1] = handle[p]
      BY <2>5
    <3> QED BY <3>1
  <2>7. WaitsOwn'
    BY <2>1, <2>2 DEF WaitsOwn
  <2> QED BY <2>3, <2>4, <2>6, <2>7
<1> QED BY <1>2, <1>3, <1>4 DEF TurnInv

LEMMA RemakeTurn ==
  ASSUME SyncInv, TurnInv, NEW n \in {1, 2}, NEW reset, Remake(n, reset),
         pc' # "idle", acquired' = <<>>, ~skip_frame',
         \A i \in Slots : waits'[i] = waits[i] \/ waits'[i] = <<>>
  PROVE  TurnInv'
<1> PICK p \in Slots : SemaphoresInTurn(p)
  BY DEF TurnInv
<1>1. ImagesInTurn(0)'
  BY RemakeImages
<1>2. SemaphoresInTurn(0)'
  BY RemakeSemaphores
<1>3. made' # 1
  BY DEF Remake, SyncInv, TypeOK
<1>4. FirstInTurn(0)'
  BY <1>3 DEF FirstInTurn
<1> QED BY <1>1, <1>2, <1>4, ZeroSlot DEF TurnInv

LEMMA QueuedTurn ==
  ASSUME SyncInv, TurnInv, pc = "idle", acquired # <<>>, acquired' = Tail(acquired),
         Queued(acquired[1].image), waits' = Cleared(acquired[1].image), pc' = "acquire",
         UNCHANGED <<skip_frame, free, onscreen, handle, fences, current_frame, fence, made>>
  PROVE  TurnInv' /\ UNCHANGED fault
<1> PICK p \in Slots : ImagesInTurn(p) /\ SemaphoresInTurn(p) /\ FirstInTurn(p)
  BY DEF TurnInv
<1> DEFINE q == Wrapped(p + 1)
<1>1. TypeOK
  BY DEF SyncInv
<1>2. acquired[1].image = p
  BY DEF ImagesInTurn
<1>3. ImagesInTurn(q)'
  BY <1>1, QueuedImages
<1>4. SemaphoresInTurn(q)' /\ UNCHANGED fault
  BY <1>2, QueuedSemaphores
<1>5. FirstInTurn(q)'
  <2> SUFFICES ASSUME made = 1
               PROVE  current_frame = q /\ WaitsOwn'
    BY DEF FirstInTurn
  <2>1. /\ current_frame = q /\ WaitsOwn
        /\ \E k \in DOMAIN waits[p] : waits[p][k] = acquired[1].own
    BY DEF FirstInTurn
  <2>2. PICK e : /\ queue' = Append(queue, e)
                 /\ e.own = acquired[1].own
                 /\ e.waits = {waits[p][k] : k \in DOMAIN waits[p]}
    BY <1>2 DEF Queued
  <2>3. e.own \in e.waits
    BY <2>1, <2>2
  <2>4. queue \in Seq(Presents)
    BY <1>1 DEF TypeOK
  <2>5. \A k \in DOMAIN queue' : queue'[k] = e \/ (k \in DOMAIN queue /\ queue'[k] = queue[k])
    BY <2>2, <2>4
  <2>6. WaitsOwn'
    BY <2>1, <2>3, <2>5 DEF WaitsOwn
  <2> QED BY <2>1, <2>6
<1>6. q \in Slots
  BY RoundIs
<1> QED BY <1>3, <1>4, <1>5, <1>6 DEF TurnInv

LEMMA PresentTurn ==
  ASSUME SyncInv, TurnInv, Present
  PROVE  TurnInv' /\ UNCHANGED fault
<1> PICK p \in Slots : ImagesInTurn(p) /\ SemaphoresInTurn(p) /\ FirstInTurn(p)
  BY DEF TurnInv
<1>1. pc = "idle" /\ ~skip_frame /\ Len(acquired) = 1
  BY DEF Present, ImagesInTurn
<1>2. acquired # <<>> /\ Tail(acquired) = <<>>
  <2>1. acquired \in Seq(Acquisitions)
    BY DEF SyncInv, TypeOK
  <2>2. Tail(acquired) \in Seq(Acquisitions) /\ Len(Tail(acquired)) = 0
    BY <1>1, <2>1
  <2>3. Tail(acquired) = <<>>
    BY <2>2, EmptySeq
  <2>4. acquired # <<>>
    BY <1>1
  <2> QED BY <2>3, <2>4
<1>3. acquired' = <<>> /\ acquired' = Tail(acquired) /\ waits' = Cleared(acquired[1].image)
  BY <1>2 DEF Present
<1>4. \/ /\ Queued(acquired[1].image)
         /\ pc' = "acquire"
         /\ UNCHANGED <<skip_frame, free, onscreen, handle, fences, current_frame, fence, made>>
      \/ Reinitialize({}) /\ skip_frame' = SkipAfterSubmit /\ UNCHANGED fault
  BY <1>1, <1>2 DEF Present
<1>5. CASE /\ Queued(acquired[1].image)
           /\ pc' = "acquire"
           /\ UNCHANGED <<skip_frame, free, onscreen, handle, fences, current_frame, fence, made>>
  BY <1>1, <1>2, <1>3, <1>5, QueuedTurn
<1>6. CASE Reinitialize({}) /\ skip_frame' = SkipAfterSubmit /\ UNCHANGED fault
  <2>1. Remake(2, {}) /\ pc' = "first" /\ ~skip_frame' /\ UNCHANGED fault
    BY <1>1, <1>6 DEF Reinitialize, SkipAfterSubmit
  <2>2. \A i \in Slots : waits'[i] = waits[i] \/ waits'[i] = <<>>
    BY <1>3 DEF Cleared, SyncInv, TypeOK
  <2> QED BY <1>3, <2>1, <2>2, RemakeTurn
<1> QED BY <1>4, <1>5, <1>6

LEMMA TurnStep ==
  ASSUME SyncInv, TurnInv, [Next]_vars, {"order", "stale_acquire"} \intersect Liberties = {}
  PROVE  TurnInv' /\ UNCHANGED fault
<1> PICK p \in Slots : ImagesInTurn(p) /\ SemaphoresInTurn(p) /\ FirstInTurn(p)
  BY DEF TurnInv
<1>1. CASE Acquire \/ FirstAcquire
  <2>1. pc # "idle" /\ AcquireImage
    BY <1>1 DEF Acquire, FirstAcquire, MayBeStale
  <2> QED BY <2>1, AcquireTurn
<1>2. CASE Present
  BY <1>2, PresentTurn
<1>3. ASSUME UNCHANGED <<swapVars, pc, syncVars, made, queue, onscreen, free, fault>>
      PROVE  TurnInv' /\ UNCHANGED fault
  <2>1. UNCHANGED <<handle, waits, fences, acquired, current_frame, skip_frame, pc, sem, fence,
                    made, queue, onscreen, free, fault>>
    BY <1>3 DEF swapVars, syncVars
  <2>2. ImagesInTurn(p)' /\ SemaphoresInTurn(p)'
    BY <2>1, SameImages, SameSemaphores
  <2>3. FirstInTurn(p)'
    BY <2>1 DEF FirstInTurn, WaitsOwn
  <2> QED BY <2>1, <2>2, <2>3 DEF TurnInv
<1>4. CASE Render \/ Finish \/ UNCHANGED vars
  BY <1>3, <1>4 DEF Render, Finish, vars, imageVars
<1>5. CASE Signal
  <2>1. UNCHANGED <<handle, waits, fences, acquired, current_frame, skip_frame, pc,
                    made, queue, onscreen, free, fault>>
    BY <1>5 DEF Signal, swapVars, imageVars
  <2>2. ImagesInTurn(p)' /\ SemaphoresInTurn(p)'
    BY <1>5, <2>1, SameImages, SignalledSemaphores
  <2>3. FirstInTurn(p)'
    BY <2>1 DEF FirstInTurn, WaitsOwn
  <2> QED BY <2>1, <2>2, <2>3 DEF TurnInv
<1>6. CASE Show
  <2>1. /\ UNCHANGED <<handle, waits, fences, acquired, current_frame, skip_frame, pc, sem, fence,
                       made, fault>>
        /\ queue # <<>> /\ queue' = Tail(queue)
    BY <1>6 DEF Show, swapVars, syncVars
  <2>2. ImagesInTurn(p)' /\ SemaphoresInTurn(p)'
    BY <1>6, <2>1, ShownImages, SameSemaphores DEF SyncInv
  <2>3. queue \in Seq(Presents)
    BY DEF SyncInv, TypeOK
  <2>4. \A k \in DOMAIN queue' : k + 1 \in DOMAIN queue /\ queue'[k] = queue[k + 1]
    BY <2>1, <2>3
  <2>5. FirstInTurn(p)'
    BY <2>1, <2>4 DEF FirstInTurn, WaitsOwn
  <2> QED BY <2>1, <2>2, <2>5 DEF TurnInv
<1> QED BY <1>1, <1>2, <1>4, <1>5, <1>6 DEF Next

(* An image is somewhere in the round. *)
LEMMA AgePrecedes ==
  ASSUME NEW p \in Slots, NEW i \in Slots
  PROVE  Preceding(p, Age(i, p) + 1) = i /\ (Age(i, p) = Count - 1 => i = p)
<1>1. p \in Nat /\ i \in Nat /\ p < Count /\ i < Count
  BY CountAssumption DEF Slots
<1> QED BY <1>1, CountAssumption DEF Age, Preceding

LEMMA NoneLost ==
  ASSUME TypeOK, NEW p \in Slots, ImagesInTurn(p), pc = "idle"
  PROVE  Slots = {free[k] : k \in DOMAIN free} \union onscreen
                   \union {queue[k].image : k \in DOMAIN queue}
                   \union {acquired[k].image : k \in DOMAIN acquired}
<1>1. /\ free \in Seq(Slots) /\ onscreen \subseteq Slots
      /\ queue \in Seq(Presents) /\ acquired \in Seq(Acquisitions)
      /\ DOMAIN free = 1 .. Len(free) /\ DOMAIN queue = 1 .. Len(queue)
      /\ Len(free) \in Nat /\ Len(queue) \in Nat
  BY DEF TypeOK
<1>2. ASSUME NEW i \in Slots
      PROVE  \/ \E k \in DOMAIN free : free[k] = i
             \/ i \in onscreen
             \/ \E k \in DOMAIN queue : queue[k].image = i
             \/ \E k \in DOMAIN acquired : acquired[k].image = i
  <2> DEFINE d == Age(i, p)
             n == Len(queue)
             f == Len(free)
  <2>1. d \in 0 .. Count - 1 /\ Preceding(p, d + 1) = i /\ (d = Count - 1 => i = p)
    BY AgeIs, AgePrecedes
  <2>2. n + 1 + f = (IF onscreen = {} THEN Count ELSE Count - 1)
    BY DEF ImagesInTurn
  <2> HIDE DEF d, n, f
  <2>3. CASE d < n
    <3>1. n - d \in 1 .. n /\ n + 1 - (n - d) = d + 1
      BY <1>1, <2>1, <2>3 DEF n
    <3>2. queue[n - d].image = Preceding(p, n + 1 - (n - d))
      BY <3>1 DEF ImagesInTurn, n
    <3> QED BY <1>1, <2>1, <3>1, <3>2 DEF n
  <2>4. CASE d = n /\ onscreen # {}
    <3>1. PICK j \in onscreen : TRUE
      BY <2>4
    <3>2. j = Preceding(p, n + 1)
      BY <3>1 DEF ImagesInTurn, n
    <3> QED BY <2>1, <2>4, <3>1, <3>2
  <2>5. CASE i = p
    <3>1. acquired[1].image = p /\ 1 \in DOMAIN acquired
      BY <1>1 DEF ImagesInTurn
    <3> QED BY <2>5, <3>1
  <2>6. CASE d >= n /\ ~(d = n /\ onscreen # {}) /\ i # p
    <3>1. d \in Nat /\ n \in Nat /\ f \in Nat /\ d < Count - 1
      <4>1. n \in Nat /\ f \in Nat
        BY <1>1 DEF n, f
      <4>2. d # Count - 1
        BY <2>1, <2>6
      <4> QED BY <2>1, <4>1, <4>2, CountAssumption
    <3>2. Count - 1 - d \in 1 .. f
      BY <2>2, <2>6, <3>1, CountAssumption
    <3>3. free[Count - 1 - d] = Wrapped(p + 1 + (Count - 1 - d) - 1)
      BY <3>2 DEF ImagesInTurn, f
    <3>4. Wrapped(p + 1 + (Count - 1 - d) - 1) = Preceding(p, d + 1)
      BY <3>1, CountAssumption DEF Wrapped, Preceding, Slots
    <3> QED BY <1>1, <2>1, <3>2, <3>3, <3>4 DEF f
  <2>7. n \in Nat /\ d \in Nat
    BY <1>1, <2>1 DEF n
  <2> QED BY <2>3, <2>4, <2>5, <2>6, <2>7
<1>3. /\ \A k \in DOMAIN free : free[k] \in Slots
      /\ \A k \in DOMAIN queue : queue[k].image \in Slots
      /\ \A k \in DOMAIN acquired : acquired[k].image \in Slots
  <2>1. \A k \in DOMAIN queue : queue[k] \in Presents
    BY <1>1
  <2>2. \A k \in DOMAIN acquired : acquired[k] \in Acquisitions
    BY <1>1
  <2> QED BY <1>1, <2>1, <2>2 DEF Presents, Acquisitions
<1> QED BY <1>1, <1>2, <1>3

LEMMA TurnAlways ==
  ASSUME {"order", "stale_acquire"} \intersect Liberties = {}
  PROVE  Spec => [](TurnInv /\ NoFault)
<1>1. Init => TurnInv /\ NoFault
  BY TurnInit DEF Init, NoFault, Defined
<1>2. SyncInv /\ TurnInv /\ NoFault /\ [Next]_vars => (TurnInv /\ NoFault)'
  BY TurnStep DEF NoFault, Defined
<1> QED BY <1>1, <1>2, SyncInvariant, PTL DEF Spec

(* A client may draw when it likes and wait or not: nothing is presented   *)
(* that was not acquired, no semaphore is signalled again before it was    *)
(* waited for and none is waited for in vain, also when the swapchain is   *)
(* made anew by a present, as long as the driver hands out images in the   *)
(* order they were freed, and acquire does not find the swapchain out of   *)
(* date (Swapchain::acquire, Swapchain::submit, RenderPass::present).      *)
THEOREM PresentingHasNoFault ==
  ASSUME {"order", "stale_acquire"} \intersect Liberties = {}
  PROVE  Spec => []NoFault
BY TurnAlways, PTL

(* Then no image is lost either, and each waits for its own acquire until  *)
(* the swapchain is made anew (Swapchain::acquire, Swapchain::submit).     *)
THEOREM AcquiresAreAccounted ==
  ASSUME {"order", "stale_acquire"} \intersect Liberties = {}
  PROVE  Spec => []AcquiresAccounted
<1>1. SyncInv /\ TurnInv => AcquiresAccounted
  <2> SUFFICES ASSUME SyncInv, TurnInv
               PROVE  AcquiresAccounted
    OBVIOUS
  <2> PICK p \in Slots : ImagesInTurn(p) /\ FirstInTurn(p)
    BY DEF TurnInv
  <2>1. NoImageLost
    BY NoneLost DEF NoImageLost, SyncInv
  <2>2. WaitsOwnAtFirst
    BY DEF WaitsOwnAtFirst, FirstInTurn
  <2> QED BY <2>1, <2>2 DEF AcquiresAccounted
<1> QED BY <1>1, TurnAlways, SyncInvariant, PTL

-----------------------------------------------------------------------------
(* A client that draws one frame for every present and waits for it, and a *)
(* driver that takes the images in turn: the screen is a Display.          *)

Disciplined == Liberties \subseteq {"stale_present"} /\ NumBuffers = Count

Waiting == [k \in DOMAIN queue |-> content[queue[k].image]]

LEMMA FramesOf ==
  ASSUME NEW P, NEW q \in Seq(P), \A e \in P : e.image \in Slots,
         NEW c \in [Slots -> Nat], NEW w, w = [k \in DOMAIN q |-> c[q[k].image]]
  PROVE  /\ DOMAIN q = 1 .. Len(q) /\ Len(q) \in Nat
         /\ w \in Seq(Nat) /\ Len(w) = Len(q)
         /\ \A k \in 1 .. Len(q) : q[k].image \in Slots
         /\ \A k \in 1 .. Len(q) : w[k] = c[q[k].image]
<1>1. DOMAIN q = 1 .. Len(q) /\ Len(q) \in Nat
  OBVIOUS
<1>2. \A k \in 1 .. Len(q) : q[k].image \in Slots
  OBVIOUS
<1>3. w \in [1 .. Len(q) -> Nat]
  BY <1>1, <1>2
<1>4. w \in Seq(Nat) /\ Len(w) = Len(q)
  BY <1>1, <1>3
<1> QED BY <1>1, <1>2, <1>4

LEMMA WaitingIs ==
  ASSUME TypeOK
  PROVE  /\ DOMAIN queue = 1 .. Len(queue) /\ Len(queue) \in Nat
         /\ Waiting \in Seq(Nat) /\ Len(Waiting) = Len(queue)
         /\ \A k \in 1 .. Len(queue) : queue[k].image \in Slots
         /\ \A k \in 1 .. Len(queue) : Waiting[k] = content[queue[k].image]
<1>1. /\ queue \in Seq(Presents) /\ \A e \in Presents : e.image \in Slots
      /\ content \in [Slots -> Nat]
  BY DEF TypeOK, Presents
<1> QED BY <1>1, FramesOf DEF Waiting

LEMMA WaitingNext ==
  ASSUME TypeOK'
  PROVE  /\ Waiting' \in Seq(Nat) /\ Len(Waiting') = Len(queue')
         /\ \A k \in 1 .. Len(queue') : Waiting'[k] = content'[queue'[k].image]
<1>1. /\ queue' \in Seq(Presents') /\ \A e \in Presents' : e.image \in Slots
      /\ content' \in [Slots -> Nat]
  BY DEF TypeOK, Presents, Slots
<1>2. Waiting' = [k \in DOMAIN queue' |-> content'[queue'[k].image]]
  BY DEF Waiting
<1> HIDE DEF Waiting
<1> QED BY <1>1, <1>2, FramesOf

LEMMA TailIs ==
  ASSUME NEW s \in Seq(Nat), NEW t \in Seq(Nat), Len(s) >= 1, Len(t) = Len(s) - 1,
         \A k \in 1 .. Len(s) - 1 : t[k] = s[k + 1]
  PROVE  t = Tail(s)
<1>1. /\ Tail(s) \in Seq(Nat) /\ Len(Tail(s)) = Len(s) - 1
      /\ \A k \in 1 .. Len(s) - 1 : Tail(s)[k] = s[k + 1]
  OBVIOUS
<1> QED BY <1>1, SeqEqual

LEMMA AppendIs ==
  ASSUME NEW s \in Seq(Nat), NEW t \in Seq(Nat), NEW e \in Nat, Len(t) = Len(s) + 1,
         \A k \in 1 .. Len(s) : t[k] = s[k], t[Len(s) + 1] = e
  PROVE  t = Append(s, e)
<1>1. /\ Append(s, e) \in Seq(Nat) /\ Len(Append(s, e)) = Len(s) + 1
      /\ \A k \in 1 .. Len(s) : Append(s, e)[k] = s[k]
      /\ Append(s, e)[Len(s) + 1] = e
  BY AppendProperties
<1> QED BY <1>1, SeqEqual

LEMMA SameWaiting ==
  ASSUME UNCHANGED <<queue, content>>
  PROVE  Waiting' = Waiting
BY DEF Waiting

LEMMA DrawAcquire ==
  ASSUME TypeOK, DrawInv, Disciplined, Acquire \/ FirstAcquire
  PROVE  DrawInv' /\ UNCHANGED Screen!vars
<1>1. pc # "idle" /\ AcquireImage /\ "order" \notin Liberties
  BY DEF Acquire, FirstAcquire, MayBeStale, Disciplined
<1> PICK p \in Slots : ImagesInTurn(p) /\ DrawingInTurn(p)
  BY DEF DrawInv
<1>2. ImagesInTurn(p)'
  BY <1>1, AcquireImages
<1>3. UNCHANGED <<fbMade, made, current_framebuffer, drawn, drawing, content, frames, queue, screen>>
  BY <1>1 DEF AcquireImage, passVars, renderVars
<1>4. DrawingInTurn(p)'
  BY <1>1, <1>3 DEF DrawingInTurn
<1>5. UNCHANGED Screen!vars
  BY <1>3, SameWaiting DEF Screen!vars, Waiting
<1> QED BY <1>2, <1>4, <1>5 DEF DrawInv

LEMMA DrawRender ==
  ASSUME TypeOK, DrawInv, Disciplined, Render
  PROVE  DrawInv' /\ Screen!Render
<1> PICK p \in Slots : ImagesInTurn(p) /\ DrawingInTurn(p)
  BY DEF DrawInv
<1>1. /\ pc = "idle" /\ ~drawn /\ drawing = <<>> /\ current_framebuffer = p /\ fbMade = made
  BY DEF Render, Disciplined, DrawingInTurn
<1>2. /\ frames' = frames + 1 /\ drawn'
      /\ drawing' = Append(drawing, [frame |-> frames', made |-> fbMade,
                                     image |-> ImageOf(current_framebuffer)])
      /\ current_framebuffer' = NextFramebuffer
  BY DEF Render
<1>3. UNCHANGED <<acquired, skip_frame, pc, queue, onscreen, free, made, fbMade, content, screen>>
  BY DEF Render, swapVars, imageVars
<1>4. ImagesInTurn(p)'
  BY <1>3, SameImages
<1>5. ImageOf(current_framebuffer) = p
  <2>1. p < Count
    BY CountAssumption DEF Slots
  <2> QED BY <1>1, <2>1 DEF ImageOf
<1>6. drawing' = <<[frame |-> frames', made |-> made', image |-> p]>>
  BY <1>1, <1>2, <1>3, <1>5
<1>7. current_framebuffer' = Wrapped(p + 1)
  <2>1. NextFramebuffer = NextFrame(p)
    BY <1>1 DEF NextFramebuffer, NextFrame, Disciplined
  <2> QED BY <1>2, <2>1, RoundIs
<1>8. DrawingInTurn(p)'
  BY <1>1, <1>2, <1>3, <1>6, <1>7 DEF DrawingInTurn
<1>9. Screen!Render
  BY <1>2, <1>3, SameWaiting DEF Screen!Render, Waiting
<1> QED BY <1>4, <1>8, <1>9 DEF DrawInv

(* None of the images that were presented is the one that is drawn to.     *)
LEMMA NotQueued ==
  ASSUME TypeOK, NEW p \in Slots, ImagesInTurn(p), pc = "idle"
  PROVE  \A k \in 1 .. Len(queue) : queue[k].image # p
<1>1. Len(queue) \in Nat /\ Len(free) \in Nat
  BY DEF TypeOK
<1>2. Len(queue) + 1 + Len(free) <= Count
  BY <1>1, CountAssumption DEF ImagesInTurn
<1>3. \A k \in 1 .. Len(queue) : Len(queue) + 1 - k \in 1 .. Count - 1
  BY <1>1, <1>2, CountAssumption
<1>4. \A k \in 1 .. Count - 1 : Preceding(p, k) # p
  BY CountAssumption DEF Preceding, Slots
<1> QED BY <1>3, <1>4 DEF ImagesInTurn

LEMMA DrawFinish ==
  ASSUME TypeOK, DrawInv, Disciplined, Finish
  PROVE  DrawInv' /\ UNCHANGED Screen!vars
<1> PICK p \in Slots : ImagesInTurn(p) /\ DrawingInTurn(p)
  BY DEF DrawInv
<1> DEFINE d == [frame |-> frames, made |-> made, image |-> p]
<1>1. drawn /\ pc = "idle" /\ drawing = <<d>>
  BY DEF Finish, DrawingInTurn
<1>2. Head(drawing) = d /\ drawing' = <<>>
  BY <1>1 DEF Finish
<1>3. content' = [content EXCEPT ![p] = frames]
  <2>1. d.made = made /\ d.image = p /\ d.frame = frames
    OBVIOUS
  <2> HIDE DEF d
  <2> QED BY <1>2, <2>1 DEF Finish
<1>4. UNCHANGED <<acquired, skip_frame, pc, queue, onscreen, free, made, fbMade, frames, screen,
                  drawn, current_framebuffer>>
  BY DEF Finish, swapVars, passVars, imageVars
<1>5. ImagesInTurn(p)'
  BY <1>4, SameImages
<1>6. content'[p] = frames
  BY <1>3 DEF TypeOK
<1>7. DrawingInTurn(p)'
  BY <1>1, <1>2, <1>4, <1>6 DEF DrawingInTurn
<1>8. Waiting' = Waiting
  <2>1. \A k \in DOMAIN queue : queue[k].image \in Slots /\ queue[k].image # p
    BY <1>1, NotQueued, WaitingIs
  <2>2. \A k \in DOMAIN queue : content'[queue[k].image] = content[queue[k].image]
    BY <1>3, <2>1 DEF TypeOK
  <2> QED BY <1>4, <2>2 DEF Waiting
<1> QED BY <1>4, <1>5, <1>7, <1>8 DEF DrawInv, Screen!vars, Waiting

LEMMA DrawShow ==
  ASSUME TypeOK, TypeOK', DrawInv, Disciplined, Show
  PROVE  DrawInv' /\ Screen!Show
<1> PICK p \in Slots : ImagesInTurn(p) /\ DrawingInTurn(p)
  BY DEF DrawInv
<1>1. UNCHANGED <<acquired, skip_frame, pc, made, fbMade, frames, drawn, current_framebuffer,
                  drawing, content>>
  BY DEF Show, swapVars, passVars, renderVars
<1>2. ImagesInTurn(p)'
  BY <1>1, ShownImages
<1>3. DrawingInTurn(p)'
  BY <1>1 DEF DrawingInTurn
<1>4. /\ queue # <<>> /\ queue' = Tail(queue) /\ screen' = content[queue[1].image]
  BY DEF Show
<1>5. queue \in Seq(Presents) /\ Len(queue) \in Nat /\ Len(queue) >= 1
  <2>1. queue \in Seq(Presents)
    BY DEF TypeOK
  <2> QED BY <1>4, <2>1, EmptySeq
<1>6. /\ Waiting \in Seq(Nat) /\ Len(Waiting) = Len(queue) /\ Waiting # <<>>
      /\ Head(Waiting) = content[queue[1].image]
  BY <1>5, WaitingIs
<1>7. Waiting' = Tail(Waiting)
  <2>1. /\ Waiting' \in Seq(Nat) /\ Len(Waiting') = Len(queue')
        /\ \A k \in 1 .. Len(queue') : Waiting'[k] = content'[queue'[k].image]
    BY WaitingNext
  <2>2. Len(queue') = Len(queue) - 1 /\ \A k \in 1 .. Len(queue) - 1 : queue'[k] = queue[k + 1]
    BY <1>4, <1>5
  <2>3. \A k \in 1 .. Len(queue) - 1 : k + 1 \in 1 .. Len(queue)
    BY <1>5
  <2>4. \A k \in 1 .. Len(queue) - 1 : Waiting'[k] = Waiting[k + 1]
    <3> SUFFICES ASSUME NEW k \in 1 .. Len(queue) - 1
                 PROVE  Waiting'[k] = Waiting[k + 1]
      OBVIOUS
    <3>1. k \in 1 .. Len(queue')
      BY <2>2
    <3>2. Waiting'[k] = content[queue[k + 1].image]
      BY <1>1, <2>1, <2>2, <3>1
    <3> QED BY <2>3, <3>2, WaitingIs
  <2> QED BY <1>5, <1>6, <2>1, <2>2, <2>4, TailIs
<1>8. Screen!Show
  BY <1>1, <1>4, <1>6, <1>7 DEF Screen!Show, Waiting
<1> QED BY <1>2, <1>3, <1>8 DEF DrawInv

LEMMA DrawPresent ==
  ASSUME TypeOK, TypeOK', DrawInv, Disciplined, Present
  PROVE  DrawInv' /\ (Screen!Present \/ Screen!Lose)
<1> PICK p \in Slots : ImagesInTurn(p) /\ DrawingInTurn(p)
  BY DEF DrawInv
<1>1. pc = "idle" /\ ~skip_frame /\ Len(acquired) = 1 /\ acquired[1].image = p
  BY DEF Present, ImagesInTurn
<1>2. acquired \in Seq(Acquisitions) /\ acquired # <<>>
  <2>1. acquired \in Seq(Acquisitions)
    BY DEF TypeOK
  <2> QED BY <1>1, <2>1, SMTT(30)
<1>3. acquired' = Tail(acquired) /\ Len(acquired') = 0 /\ acquired' = <<>>
  <2>1. acquired' = Tail(acquired) /\ acquired' \in Seq(Acquisitions) /\ Len(acquired') = 0
    BY <1>1, <1>2 DEF Present
  <2> QED BY <2>1, EmptySeq
<1>4. drawn /\ drawing = <<>> /\ content[p] = frames /\ current_framebuffer = Wrapped(p + 1)
      /\ fbMade = made
  <2>1. drawn /\ drawing = <<>>
    BY DEF Present, Permitted, Disciplined
  <2> QED BY <2>1 DEF DrawingInTurn
<1>5. \/ /\ Queued(acquired[1].image)
         /\ pc' = "acquire" /\ ~drawn'
         /\ UNCHANGED <<skip_frame, free, onscreen, screen, made, current_framebuffer, fbMade,
                        drawing, content, frames>>
      \/ Reinitialize({}) /\ skip_frame' = SkipAfterSubmit
  BY <1>1, <1>2 DEF Present, passVars, renderVars
<1>6. CASE /\ Queued(acquired[1].image)
           /\ pc' = "acquire" /\ ~drawn'
           /\ UNCHANGED <<skip_frame, free, onscreen, screen, made, current_framebuffer, fbMade,
                          drawing, content, frames>>
  <2>1. ImagesInTurn(Wrapped(p + 1))' /\ Wrapped(p + 1) \in Slots
    BY <1>1, <1>2, <1>3, <1>6, QueuedImages, RoundIs
  <2>2. DrawingInTurn(Wrapped(p + 1))'
    BY <1>4, <1>6 DEF DrawingInTurn
  <2>3. PICK e : queue' = Append(queue, e) /\ e.image = p
    BY <1>1, <1>6 DEF Queued
  <2>4. queue \in Seq(Presents) /\ Len(queue) \in Nat
    BY DEF TypeOK
  <2>5. /\ Len(queue') = Len(queue) + 1
        /\ \A k \in 1 .. Len(queue) : queue'[k] = queue[k]
        /\ queue'[Len(queue) + 1] = e
    BY <2>3, <2>4
  <2>6. Waiting' = Append(Waiting, frames)
    <3>1. /\ Waiting' \in Seq(Nat) /\ Len(Waiting') = Len(queue) + 1
          /\ \A k \in 1 .. Len(queue) + 1 : Waiting'[k] = content'[queue'[k].image]
      BY <2>5, WaitingNext
    <3>2. /\ Waiting \in Seq(Nat) /\ Len(Waiting) = Len(queue) /\ frames \in Nat
          /\ \A k \in 1 .. Len(queue) : Waiting[k] = content[queue[k].image]
      BY WaitingIs DEF TypeOK
    <3>3. \A k \in 1 .. Len(queue) : Waiting'[k] = Waiting[k]
      <4> SUFFICES ASSUME NEW k \in 1 .. Len(queue)
                   PROVE  Waiting'[k] = Waiting[k]
        OBVIOUS
      <4>1. k \in 1 .. Len(queue) + 1
        BY <2>4
      <4> QED BY <1>6, <2>5, <3>1, <3>2, <4>1
    <3>4. Waiting'[Len(queue) + 1] = frames
      <4>1. Len(queue) + 1 \in 1 .. Len(queue) + 1
        BY <2>4
      <4> QED BY <1>4, <1>6, <2>3, <2>5, <3>1, <4>1
    <3> QED BY <3>1, <3>2, <3>3, <3>4, AppendIs
  <2>7. Screen!Present
    BY <1>6, <2>6 DEF Screen!Present, Waiting
  <2> QED BY <2>1, <2>2, <2>7 DEF DrawInv
<1>7. CASE Reinitialize({}) /\ skip_frame' = SkipAfterSubmit
  <2>1. /\ Remake(2, {}) /\ pc' = "first" /\ ~skip_frame' /\ current_framebuffer' = 0
        /\ fbMade' = made' /\ ~drawn'
    BY <1>1, <1>7 DEF Reinitialize, SkipAfterSubmit
  <2>2. ImagesInTurn(0)'
    BY <1>3, <2>1, RemakeImages
  <2>3. drawing' = <<>> /\ queue' = <<>> /\ UNCHANGED <<frames, screen>>
    BY <2>1 DEF Remake
  <2>4. DrawingInTurn(0)'
    BY <2>1, <2>3 DEF DrawingInTurn
  <2>5. Waiting' = <<>>
    <3>1. Waiting' \in Seq(Nat) /\ Len(Waiting') = 0
      BY <2>3, WaitingNext
    <3> QED BY <3>1, EmptySeq
  <2>6. Screen!Lose
    BY <2>3, <2>5 DEF Screen!Lose, Waiting
  <2> QED BY <2>2, <2>4, <2>6, ZeroSlot DEF DrawInv
<1> QED BY <1>5, <1>6, <1>7

LEMMA DrawSame ==
  ASSUME DrawInv, Signal \/ UNCHANGED vars
  PROVE  DrawInv' /\ UNCHANGED Screen!vars
<1> PICK p \in Slots : ImagesInTurn(p) /\ DrawingInTurn(p)
  BY DEF DrawInv
<1>1. UNCHANGED <<acquired, skip_frame, pc, queue, onscreen, free, made, fbMade, frames, screen,
                  drawn, current_framebuffer, drawing, content>>
  BY DEF Signal, vars, swapVars, passVars, imageVars, renderVars
<1>2. ImagesInTurn(p)' /\ DrawingInTurn(p)'
  BY <1>1, SameImages DEF DrawingInTurn
<1>3. UNCHANGED Screen!vars
  BY <1>1 DEF Screen!vars
<1> QED BY <1>2, <1>3 DEF DrawInv

LEMMA DrawInit == Init => DrawInv /\ Screen!Init
<1> SUFFICES ASSUME Init
             PROVE  DrawInv /\ Screen!Init
  OBVIOUS
<1>1. ImagesInTurn(0)
  <2>1. Len(Images) = Count /\ \A k \in 1 .. Count : Images[k] = k - 1 /\ Wrapped(0 + 0 + k - 1) = k - 1
    BY CountAssumption DEF Images, Wrapped
  <2>2. /\ ~skip_frame /\ acquired = <<>> /\ pc = "first" /\ free = Images
        /\ queue = <<>> /\ onscreen = {}
    BY DEF Init
  <2>3. Len(acquired) = 0 /\ Len(queue) = 0
    BY <2>2
  <2> QED BY <2>1, <2>2, <2>3, CountAssumption DEF ImagesInTurn
<1>2. DrawingInTurn(0)
  BY DEF Init, DrawingInTurn
<1>3. Waiting = <<>>
  BY DEF Init, Waiting
<1>4. Screen!Init
  BY <1>3 DEF Init, Screen!Init, Waiting
<1> QED BY <1>1, <1>2, <1>4, ZeroSlot DEF DrawInv

(* For every number of images, with as many framebuffers: the screen shows *)
(* the frames in the order in which they were rendered, each finished      *)
(* before it is shown; what a present finds out of date is lost with what  *)
(* was waiting (RenderPass::present, RenderPass::advance, Swapchain).      *)
THEOREM PresentingIsDisplay ==
  ASSUME Disciplined
  PROVE  Spec => IsDisplay
<1>1. Init => DrawInv /\ Screen!Init
  BY DrawInit
<1>2. SyncInv /\ SyncInv' /\ DrawInv /\ [Next]_vars => DrawInv' /\ [Screen!Next]_(Screen!vars)
  <2> SUFFICES ASSUME SyncInv, SyncInv', DrawInv, [Next]_vars
               PROVE  DrawInv' /\ (Screen!Next \/ UNCHANGED Screen!vars)
    OBVIOUS
  <2>1. TypeOK /\ TypeOK'
    BY DEF SyncInv
  <2> QED BY <2>1, DrawAcquire, DrawRender, DrawFinish, DrawShow, DrawPresent, DrawSame
          DEF Next, Screen!Next
<1> QED BY <1>1, <1>2, SyncInvariant, PTL DEF Spec, IsDisplay, Screen!Safety

=============================================================================
