---------------------------- MODULE Presentation ----------------------------
(***************************************************************************)
(* A render pass that draws to a window: vkg::RenderPass::present over     *)
(* vkg::Swapchain and its vkg::Synchronization objects.                    *)
(*                                                                         *)
(* A swapchain has Count images.  acquire gets one from the driver, and    *)
(* the driver signals a semaphore and a fence when the image may be used;  *)
(* submit presents it.  The semaphores and fences are one pair per frame,  *)
(* frames being counted round Count.  The program renders to framebuffers  *)
(* that it counts as well.  One thread presents; the driver acts on its    *)
(* own.  A pair made for a frame is named by a number, its handle.         *)
(***************************************************************************)
EXTENDS Naturals, Sequences

CONSTANTS
  Count,       \* images the driver makes for a swapchain
  NumBuffers,  \* NUM_BUFFERS, the framebuffers of a render pass
  Liberties,   \* what the client and the driver may do, see below
  MaxFrames,   \* bound: frames rendered
  MaxMade      \* bound: swapchains made

(* "frames": the client does not draw exactly one frame per present.       *)
(* "unsynced": it presents a frame it has not waited for.                  *)
(* "order": the driver hands out free images in any order.                 *)
(* "stale_present", "stale_acquire": the driver may answer that the        *)
(* swapchain is out of date (the window was resized).                      *)
AllLiberties == {"frames", "unsynced", "order", "stale_present", "stale_acquire"}

ASSUME CountAssumption == Count \in Nat /\ Count >= 2
ASSUME NumBuffersAssumption == NumBuffers \in Nat \ {0}
ASSUME LibertiesAssumption == Liberties \subseteq AllLiberties
ASSUME BoundsAssumption == MaxFrames \in Nat /\ MaxMade \in Nat

VARIABLES
  \* SwapchainData
  handle,         \* syncs[i]: its signal semaphore and fence
  waits,          \* syncs[i]: the semaphores it is to wait for
  fences,         \* the fence to wait for before frame i is used, or 0
  acquired,       \* images acquired and not presented, oldest first
  current_frame,
  skip_frame,
  \* RenderPassData
  current_framebuffer,
  fbMade,         \* the swapchain the framebuffers were made for
  \* the thread that presents
  pc,             \* "idle", "acquire" in present, or "first" in initialize
  drawn,          \* it has drawn a frame since its last present
  \* the driver
  made,           \* swapchains made so far; the latest is the one in use
  sem,            \* state of each semaphore made so far
  fence,          \* is each fence made so far signalled?
  free,           \* images that can be acquired
  queue,          \* images presented and not shown yet
  onscreen,       \* images on the screen: one or none
  drawing,        \* frames being rendered, oldest first
  content,        \* the last frame rendered to each image
  frames,         \* number of frames submitted for rendering
  screen,         \* the frame on the screen
  fault           \* first use the driver or the library forbids, or "none"

swapVars   == <<handle, waits, fences, acquired, current_frame, skip_frame>>
passVars   == <<current_framebuffer, fbMade>>
syncVars   == <<sem, fence>>
imageVars  == <<free, queue, onscreen, screen>>
renderVars == <<drawing, content, frames>>
vars == <<swapVars, passVars, pc, drawn, made, syncVars, imageVars, renderVars, fault>>

Slots  == 0 .. Count - 1   \* both the images and the frames
States == {"idle", "signalling", "claimed", "signalled"}
Faults == {"none", "no_image", "semaphore_busy", "semaphore_unsignalled"}

Defined == fault = "none"

Images == [k \in 1 .. Count |-> k - 1]

Init ==
  /\ handle = [i \in Slots |-> i + 1]
  /\ waits = [i \in Slots |-> <<>>]
  /\ fences = [i \in Slots |-> 0]
  /\ acquired = <<>> /\ current_frame = 0 /\ skip_frame = FALSE
  /\ current_framebuffer = 0 /\ fbMade = 1
  /\ pc = "first" /\ drawn = FALSE
  /\ made = 1
  /\ sem = [h \in 1 .. Count |-> "idle"]
  /\ fence = [h \in 1 .. Count |-> TRUE]
  /\ free = Images /\ queue = <<>> /\ onscreen = {}
  /\ drawing = <<>> /\ content = [i \in Slots |-> 0]
  /\ frames = 0 /\ screen = 0
  /\ fault = "none"

-----------------------------------------------------------------------------
(* Swapchain::initialize, n times over: each makes a swapchain and a       *)
(* semaphore and fence for every frame, and keeps the rest as it is.  An   *)
(* acquire that leads here has reset the fences of its frame.              *)

\* Mutant: the fences of the last swapchain are kept.
KeepsFences == fences

Forgotten == [i \in Slots |-> 0]

(* A fence that is reset is not signalled any more. *)
AfterReset(reset) == [h \in DOMAIN fence |-> fence[h] /\ h \notin reset]

Remake(n, reset) ==
  /\ made + n <= MaxMade
  /\ made' = made + n
  /\ fences' = Forgotten
  /\ handle' = [i \in Slots |-> Len(sem) + (n - 1) * Count + i + 1]
  /\ sem' = sem \o [h \in 1 .. n * Count |-> "idle"]
  /\ fence' = AfterReset(reset) \o [h \in 1 .. n * Count |-> TRUE]
  /\ free' = Images /\ queue' = <<>> /\ onscreen' = {}
  /\ drawing' = <<>> /\ content' = [i \in Slots |-> 0]
  /\ UNCHANGED <<current_frame, frames, screen>>

(* RenderPass::present after its swapchain was made anew: the framebuffers *)
(* are made anew as well, by RenderPass::initialize, which makes one more  *)
(* swapchain and acquires from it.                                         *)
Reinitialize(reset) ==
  /\ Remake(2, reset)
  /\ current_framebuffer' = 0
  /\ fbMade' = made'
  /\ pc' = "first"
  /\ drawn' = FALSE

-----------------------------------------------------------------------------
(* Swapchain::acquire. *)

\* Mutant: the frame counter does not advance.
SameFrame(f) == f

NextFrame(f) == (f + 1) % Count

(* The fence of the frame's last acquire has been signalled. *)
FenceAnswered == fences[current_frame] \in {0} \union {h \in DOMAIN fence : fence[h]}

(* The fences acquire resets before it asks for an image. *)
FrameFences == {handle[current_frame], fences[current_frame]}

(* Which of the free images the driver may hand out. *)
Offered ==
  IF "order" \in Liberties THEN 1 .. Len(free) ELSE {1} \cap 1 .. Len(free)

Without(s, k) == SubSeq(s, 1, k - 1) \o SubSeq(s, k + 1, Len(s))

AcquireImage ==
  LET f == current_frame
      h == handle[f]
  IN  /\ FenceAnswered
      /\ \E k \in Offered :
           /\ acquired' = Append(acquired, [image |-> free[k], own |-> h])
           /\ free' = Without(free, k)
      /\ sem' = [sem EXCEPT ![h] = "signalling"]
      /\ fence' = AfterReset(FrameFences)
      /\ fences' = [fences EXCEPT ![f] = h]
      /\ waits' = [waits EXCEPT ![f] = Append(@, h)]
      /\ current_frame' = NextFrame(f)
      /\ pc' = "idle"
      /\ fault' = IF sem[h] = "idle" THEN fault ELSE "semaphore_busy"
      /\ UNCHANGED <<handle, skip_frame, passVars, drawn, made, queue, onscreen,
                     screen, renderVars>>

MayBeStale(call) == call \in Liberties

(* The acquire at the end of present. *)
Acquire ==
  /\ Defined
  /\ pc = "acquire"
  /\ \/ AcquireImage
     \/ /\ MayBeStale("stale_acquire")
        /\ FenceAnswered
        /\ skip_frame' = TRUE
        /\ Reinitialize(FrameFences)
        /\ UNCHANGED <<waits, acquired, fault>>

(* The acquire at the end of RenderPass::initialize: its result is ignored,*)
(* and the framebuffers are those of the swapchain it was called on.       *)
FirstAcquire ==
  /\ Defined
  /\ pc = "first"
  /\ \/ AcquireImage
     \/ /\ MayBeStale("stale_acquire")
        /\ FenceAnswered
        /\ skip_frame' = TRUE
        /\ Remake(1, FrameFences)
        /\ pc' = "idle"
        /\ UNCHANGED <<waits, acquired, passVars, drawn, fault>>

-----------------------------------------------------------------------------
(* Swapchain::submit, called by RenderPass::present. *)

\* Mutant: an image presented keeps the semaphores it waited for.
KeepsWaits(i) == waits

Cleared(i) == [waits EXCEPT ![i] = <<>>]

(* A semaphore can be waited for once each time it is signalled.           *)
Awaitable(list) ==
  /\ \A k \in DOMAIN list : sem[list[k]] \in {"signalling", "signalled"}
  /\ \A k, l \in DOMAIN list : list[k] = list[l] => k = l

(* A present takes the semaphores it waits for when they are signalled.    *)
Claimed(list) ==
  [h \in DOMAIN sem |->
     IF \A k \in DOMAIN list : list[k] # h THEN sem[h]
     ELSE IF sem[h] \in {"signalling", "claimed"} THEN "claimed" ELSE "idle"]

\* Mutant: a swapchain made anew by a present is never presented from.
SkipsAfterSubmit == TRUE

SkipAfterSubmit == skip_frame

Permitted ==
  /\ drawn \/ "frames" \in Liberties
  /\ drawing = <<>> \/ "unsynced" \in Liberties

(* presentKHR with the semaphores of syncs[ image ]. *)
Queued(image) ==
  LET list == waits[image]
  IN  /\ queue' = Append(queue, [image |-> image, own |-> acquired[1].own,
                                 waits |-> {list[k] : k \in DOMAIN list}])
      /\ sem' = Claimed(list)
      /\ fault' = IF Awaitable(list) THEN fault ELSE "semaphore_unsignalled"

Present ==
  /\ Defined
  /\ pc = "idle"
  /\ Permitted
  /\ \/ /\ acquired = <<>>
        /\ fault' = "no_image"
        /\ UNCHANGED <<swapVars, passVars, pc, drawn, made, syncVars, imageVars,
                       renderVars>>
     \/ /\ acquired # <<>>
        /\ acquired' = Tail(acquired)
        /\ LET image == acquired[1].image
           IN  /\ waits' = Cleared(image)
               /\ \/ /\ skip_frame
                     /\ pc' = "acquire" /\ drawn' = FALSE
                     /\ UNCHANGED <<handle, fences, current_frame, skip_frame,
                                    passVars, made, syncVars, imageVars,
                                    renderVars, fault>>
                  \/ /\ ~skip_frame
                     /\ Queued(image)
                     /\ pc' = "acquire" /\ drawn' = FALSE
                     /\ UNCHANGED <<handle, fences, current_frame, skip_frame,
                                    passVars, made, fence, free, onscreen,
                                    screen, renderVars>>
                  \/ /\ ~skip_frame
                     /\ MayBeStale("stale_present")
                     /\ Reinitialize({})
                     /\ skip_frame' = SkipAfterSubmit
                     /\ UNCHANGED fault

-----------------------------------------------------------------------------
(* The client draws a frame and submits it; RenderPass::advance. *)

\* Mutant: the framebuffers are not advanced when a frame is submitted.
SameFramebuffer == current_framebuffer

NextFramebuffer == (current_framebuffer + 1) % NumBuffers

(* The image behind a framebuffer: Swapchain::image gives the first one    *)
(* for a number that is too large.                                         *)
ImageOf(b) == IF b < Count THEN b ELSE 0

Render ==
  /\ Defined
  /\ pc = "idle"
  /\ frames < MaxFrames
  /\ ~drawn \/ "frames" \in Liberties
  /\ frames' = frames + 1
  /\ drawing' = Append(drawing, [frame |-> frames', made |-> fbMade,
                                 image |-> ImageOf(current_framebuffer)])
  /\ current_framebuffer' = NextFramebuffer
  /\ drawn' = TRUE
  /\ UNCHANGED <<swapVars, fbMade, pc, made, syncVars, imageVars, content, fault>>

-----------------------------------------------------------------------------
(* The driver. *)

(* A frame is rendered. *)
Finish ==
  /\ drawing # <<>>
  /\ drawing' = Tail(drawing)
  /\ LET d == Head(drawing)
     IN  content' = IF d.made = made THEN [content EXCEPT ![d.image] = d.frame]
                    ELSE content
  /\ UNCHANGED <<swapVars, passVars, pc, drawn, made, syncVars, imageVars, frames, fault>>

(* An image acquired may be used: its semaphore and fence are signalled.   *)
Signal ==
  /\ \E h \in DOMAIN sem :
       /\ sem[h] \in {"signalling", "claimed"}
       /\ sem' = [sem EXCEPT ![h] =
                    IF @ = "claimed" THEN "idle" ELSE "signalled"]
       /\ fence' = [fence EXCEPT ![h] = TRUE]
  /\ UNCHANGED <<swapVars, passVars, pc, drawn, made, imageVars, renderVars, fault>>

(* The next image presented is shown; the one on the screen is free again. *)
Show ==
  /\ queue # <<>>
  /\ \A h \in queue[1].waits : sem[h] # "claimed"
  /\ onscreen' = {queue[1].image}
  /\ screen' = content[queue[1].image]
  /\ queue' = Tail(queue)
  /\ \/ onscreen = {} /\ UNCHANGED free
     \/ \E i \in onscreen : free' = Append(free, i)
  /\ UNCHANGED <<swapVars, passVars, pc, drawn, made, syncVars, renderVars, fault>>

Next == FirstAcquire \/ Render \/ Present \/ Acquire \/ Finish \/ Signal \/ Show

(* The driver goes on, and so does a call of present.  A client that draws *)
(* is not obliged to.                                                      *)
Fairness ==
  WF_vars(Acquire \/ FirstAcquire) /\ WF_vars(Finish) /\ WF_vars(Signal) /\ WF_vars(Show)

Spec == Init /\ [][Next]_vars /\ Fairness

-----------------------------------------------------------------------------
(* Properties. *)

Handles == 1 .. Len(sem)   \* of the semaphores and fences made so far

Acquisitions == [image : Slots, own : Handles]
Presents     == [image : Slots, own : Handles, waits : SUBSET Handles]
Drawings     == [frame : Nat, made : Nat, image : Slots]

(* The variables have their types, and frame numbers stay inside the       *)
(* tables of fences and synchronizations, whatever the driver answers.     *)
TypeOK ==
  /\ handle \in [Slots -> Handles]
  /\ waits \in [Slots -> Seq(Handles)]
  /\ fences \in [Slots -> Handles \union {0}]
  /\ acquired \in Seq(Acquisitions)
  /\ current_frame \in Slots /\ skip_frame \in BOOLEAN
  /\ current_framebuffer \in 0 .. NumBuffers - 1 /\ fbMade \in 1 .. made
  /\ pc \in {"idle", "acquire", "first"} /\ drawn \in BOOLEAN
  /\ made \in Nat \ {0}
  /\ sem \in Seq(States) /\ fence \in Seq(BOOLEAN) /\ Len(fence) = Len(sem)
  /\ free \in Seq(Slots)
  /\ queue \in Seq(Presents)
  /\ onscreen \in SUBSET Slots
  /\ drawing \in Seq(Drawings)
  /\ content \in [Slots -> Nat]
  /\ frames \in Nat /\ screen \in Nat
  /\ fault \in Faults

(* Whatever the driver answers, a fence that acquire will wait for is      *)
(* signalled or is going to be (Swapchain::acquire waits with no timeout). *)
FencesAnswer ==
  \A i \in Slots : fences[i] # 0 =>
    fence[fences[i]] \/ sem[fences[i]] \in {"signalling", "claimed"}

(* No image is presented that was not acquired, no semaphore is signalled  *)
(* again before it was waited for, none is waited for that is not signalled*)
NoFault == Defined

(* An image that is presented waits for its own acquire to be done.        *)
WaitsOwn == \A k \in DOMAIN queue : queue[k].own \in queue[k].waits

(* So it does until the swapchain is made anew: an image and the frame it  *)
(* was acquired in have the same number.                                   *)
WaitsOwnAtFirst == made = 1 => WaitsOwn

(* Every image is the driver's or is waiting to be presented: none is lost *)
(* between acquire and submit.                                             *)
NoImageLost ==
  Defined /\ pc = "idle" =>
    Slots = {free[k] : k \in DOMAIN free} \union onscreen
              \union {queue[k].image : k \in DOMAIN queue}
              \union {acquired[k].image : k \in DOMAIN acquired}

(* What acquire brought is kept track of: no image is lost, and none is    *)
(* presented on the strength of another's semaphore (Swapchain::acquire,   *)
(* submit).                                                                *)
AcquiresAccounted == NoImageLost /\ WaitsOwnAtFirst

(* present and initialize return: an image becomes free in the end.        *)
CallsReturn == pc # "idle" ~> pc = "idle" \/ ~Defined

Screen == INSTANCE Display WITH
  waiting <- [k \in DOMAIN queue |-> content[queue[k].image]]

(* The screen shows the frames in the order rendered, and finished.        *)
IsDisplay == Screen!Safety
-----------------------------------------------------------------------------
(* What the properties rest on, unless the driver hands out images in any  *)
(* order or finds the swapchain out of date in acquire: the images go      *)
(* round, and so do the frames, each at its own place.                     *)

Wrapped(n) == IF n < Count THEN n ELSE n - Count

(* The number k places before n, and how many numbers lie between i and n. *)
Preceding(n, k) == IF k <= n THEN n - k ELSE n - k + Count

Age(i, n) == Preceding(n, 1 + i)

(* Image p is the next to be presented: those shown and presented come     *)
(* before it, and the free ones after it.                                  *)
ImagesInTurn(p) ==
  /\ ~skip_frame
  /\ Len(acquired) = IF pc = "idle" THEN 1 ELSE 0
  /\ pc = "idle" => acquired[1].image = p
  /\ \A k \in 1 .. Len(queue) : queue[k].image = Preceding(p, Len(queue) + 1 - k)
  /\ \A i \in onscreen : i = Preceding(p, Len(queue) + 1)
  /\ \A k \in 1 .. Len(free) : free[k] = Wrapped(p + Len(acquired) + k - 1)
  /\ Len(queue) + Len(acquired) + Len(free) = IF onscreen = {} THEN Count ELSE Count - 1

(* No semaphore is waited for twice.  That of a frame is not acquired with *)
(* while an image is to wait for it: frame i was acquired with less long   *)
(* ago than image i was presented.                                         *)
SemaphoresInTurn(p) ==
  /\ \A i \in Slots : \A k \in DOMAIN waits[i] :
       /\ sem[waits[i][k]] \in {"signalling", "signalled"}
       /\ \A j \in Slots : \A l \in DOMAIN waits[j] :
            waits[i][k] = waits[j][l] => i = j /\ k = l
       /\ \A j \in Slots : waits[i][k] = handle[j] =>
            /\ i = j
            /\ Age(i, current_frame) <= Age(i, p)
            /\ pc # "idle" => Age(i, current_frame) # Age(i, p)
  /\ \A i \in Slots : (\A k \in DOMAIN waits[i] : waits[i][k] # handle[i])
                        => sem[handle[i]] \in {"idle", "claimed"}
  /\ \A i \in Slots : fences[i] = 0 => sem[handle[i]] = "idle"
  /\ \A h \in DOMAIN sem : fence[h] => sem[h] \notin {"signalling", "claimed"}

(* Until the swapchain is made anew, images and frames are one.            *)
FirstInTurn(p) ==
  made = 1 =>
    /\ pc # "idle" => current_frame = p
    /\ pc = "idle" => /\ current_frame = Wrapped(p + 1)
                      /\ \E k \in DOMAIN waits[p] : waits[p][k] = acquired[1].own
    /\ WaitsOwn

TurnInv == \E p \in Slots : ImagesInTurn(p) /\ SemaphoresInTurn(p) /\ FirstInTurn(p)

(* A client that draws one frame per present draws it to the image that is *)
(* to be presented, when there are as many framebuffers as images.         *)
DrawingInTurn(p) ==
  /\ fbMade = made
  /\ current_framebuffer = IF drawn THEN Wrapped(p + 1) ELSE p
  /\ drawn => pc = "idle"
  /\ ~drawn => drawing = <<>>
  /\ drawn => \/ drawing = <<>> /\ content[p] = frames
              \/ drawing = <<[frame |-> frames, made |-> made, image |-> p]>>

DrawInv == \E p \in Slots : ImagesInTurn(p) /\ DrawingInTurn(p)

=============================================================================
