------------------------------ MODULE Subpasses ------------------------------
(***************************************************************************)
(* A chain on a render pass whose contents children record: vkg::Chain     *)
(* with a parent, on a secondary vkg::CommandBuffer, each child in a       *)
(* thread of its own; Chain::combine in the main thread; the pools and     *)
(* the mutex of the command buffers of a queue family.                     *)
(***************************************************************************)
EXTENDS RenderPasses

CONSTANTS
  Children,
  Count,          \* command buffers of a chain
  SubLiberties,
  MaxFrames       \* bound: frames the parent begins

(* "ahead": a child goes on to the next frame before the parent does.      *)
(* "race": children are combined that may be recording.                    *)
(* "redraw": a child draws again without begin.                            *)
(* "order": children are combined in another order than their subpasses.   *)
(* "last": the last subpass is combined as well, of more than one.         *)
(* "pool": one thread initialises the children of others.                  *)
(* "init": two threads initialise children at once.                        *)
(* "unbegun": children are combined before the parent's begin.             *)
ASSUME SubpassAssumption ==
  /\ Count \in Nat \ {0} /\ MaxFrames \in Nat
  /\ "main" \notin Children
  /\ SubLiberties \subseteq {"ahead", "race", "redraw", "order", "last", "pool", "init", "unbegun"}

VARIABLES
  primary,    \* the parent's command buffers
  main,       \* the parent, and where the main thread is in it
  child,      \* the children, and where their threads are
  secondary,  \* the children's command buffers
  gpu,        \* buffers of the parent with the device, oldest first
  done,       \* contents of the frames finished
  issued,     \* children combined
  frames,     \* frames begun
  fault

bufferVars == <<primary, secondary, gpu, done>>
subVars == <<primary, main, child, secondary, gpu, done, issued, frames, fault>>
vars == <<passVars, subVars>>

Slots == 0 .. Count - 1

NewPrimary == [state |-> "initial", parts |-> <<>>, at |-> 0, signaled |-> TRUE, fence |-> TRUE, onto |-> 0]
NewChild   == [phase |-> "new", current |-> 0, recording |-> FALSE, subpass |-> 0, pool |-> "own",
               fresh |-> FALSE, late |-> FALSE]

Init ==
  /\ PassInit
  /\ primary = [s \in Slots |-> NewPrimary]
  /\ main = [phase |-> "idle", current |-> 0, recording |-> FALSE, dirty |-> FALSE]
  /\ child = [c \in Children |-> NewChild]
  /\ secondary = [c \in Children |-> [s \in Slots |-> [state |-> "initial", time |-> 0]]]
  /\ gpu = <<>> /\ done = <<>>
  /\ issued = 0 /\ frames = 0
  /\ fault = "none"

Permits(liberty) == liberty \in SubLiberties
Defined == Right /\ fault = "none"

Succ(s) == IF s + 1 >= Count THEN 0 ELSE s + 1

-----------------------------------------------------------------------------
(* Pools.  The table of pools has one for each thread, and whoever         *)
(* initialises a child gives it the pool of his thread.  Recording into a  *)
(* buffer uses its pool, and only record and stop lock the mutex.          *)

(* CommandBuffer::initialize( parent ), in two steps. *)
EnterPools(c, pool) ==
  /\ Defined /\ Made
  /\ child[c].phase = "new"
  /\ pool = "own" \/ Permits("pool")
  /\ fault' = IF \E d \in Children : child[d].phase = "making" THEN "table of pools" ELSE fault
  /\ Permits("init") \/ \A d \in Children : child[d].phase # "making"
  /\ child' = [child EXCEPT ![c].phase = "making", ![c].pool = pool]
  /\ UNCHANGED <<passVars, main, bufferVars, issued, frames>>

(* Chain::initialize( parent, subpass_id ) *)
LeavePools(c, subpass) ==
  /\ Defined
  /\ child[c].phase = "making"
  /\ subpass \in 0 .. (Len(subpasses) - 1)
  /\ child' = [child EXCEPT ![c].phase = "idle", ![c].subpass = subpass]
  /\ UNCHANGED <<passVars, main, bufferVars, issued, frames, fault>>

InPool(c) == IF child[c].pool = "own" THEN c ELSE child[c].pool

(* Another thread records into a buffer of the pool, under no lock.        *)
Disturbed(c) ==
  \E d \in Children \ {c} : child[d].phase = "drawing" /\ InPool(d) = InPool(c)

MainDisturbed == \E d \in Children : child[d].phase = "drawing" /\ InPool(d) = "main"

(* The mutex of the family is taken while the main thread waits. *)
MutexFree == main.phase # "waiting"

-----------------------------------------------------------------------------
(* The parent. *)

(* Chain::begin, as far as the wait for the fence. *)
ParentBegin ==
  /\ Defined /\ Made
  /\ main.phase = "idle" /\ ~main.recording
  /\ frames < MaxFrames
  /\ main' = [main EXCEPT !.phase = "waiting"]
  /\ frames' = frames + 1
  /\ UNCHANGED <<passVars, child, bufferVars, issued, fault>>

\* Mutant: the fence is waited for though nothing was submitted with it.
AlwaysWaits(p) == TRUE

(* CommandBuffer::record waits for the fence of what was submitted.        *)
MustWait(p) == p.signaled

(* The rest of it: the fence is reset, the buffer begun with the pass and  *)
(* the current framebuffer, which only this thread changes.                *)
ParentBegun ==
  LET s == main.current
      p == primary[s]
  IN  /\ Defined
      /\ main.phase = "waiting"
      /\ MustWait(p) => p.fence
      /\ fault' = IF p.state = "pending" THEN "begun while pending"
                  ELSE IF MainDisturbed THEN "pool used by two" ELSE fault
      /\ primary' = [primary EXCEPT ![s] = [state |-> "recording", parts |-> <<>>, at |-> 0,
                                            signaled |-> FALSE,
                                            fence |-> IF p.signaled THEN FALSE ELSE @.fence,
                                            onto |-> current]]
      /\ main' = [main EXCEPT !.phase = "idle", !.recording = TRUE]
      /\ child' = [c \in Children |-> [child[c] EXCEPT !.late = FALSE]]
      /\ UNCHANGED <<passVars, secondary, gpu, done, issued, frames>>

Part(c) == [child |-> c, slot |-> child[c].current,
            time |-> secondary[c][child[c].current].time, number |-> issued + 1]

MayCombine(c) ==
  /\ child[c].phase = "idle" \/ Permits("race")
  /\ child[c].fresh \/ Permits("race")
  /\ child[c].subpass = primary[main.current].at \/ Permits("order")
  /\ Len(subpasses) = 1 \/ primary[main.current].at + 1 < Len(subpasses) \/ Permits("last")

\* Mutant: the next subpass is begun even if there is only one.
AlwaysNext == 1

(* combine counts subpasses in a variable of its own, from zero each time. *)
Steps == IF 1 < Len(subpasses) THEN 1 ELSE 0

\* Mutant: parts are put in front.
InFront(parts, part) == <<part>> \o parts

Executed(parts, part) == Append(parts, part)

(* Chain::combine returns at once when the child is recording.             *)
Combine(c) ==
  LET s == main.current
      p == primary[s]
  IN  /\ Defined
      /\ main.phase = "idle" /\ (main.recording \/ Permits("unbegun"))
      /\ Made /\ child[c].phase # "new" /\ ~child[c].recording
      /\ MayCombine(c)
      /\ primary' = [primary EXCEPT ![s].parts = Executed(@, Part(c)), ![s].at = @ + Steps]
      /\ main' = [main EXCEPT !.dirty = TRUE]
      /\ child' = [child EXCEPT ![c].fresh = FALSE, ![c].late = TRUE]
      /\ issued' = issued + 1
      /\ fault' = IF ~main.recording THEN "combined before begin"
                  ELSE IF secondary[c][child[c].current].state # "executable" THEN "not recorded"
                  ELSE IF child[c].subpass # p.at THEN "part of another subpass"
                  ELSE IF p.at + Steps >= Len(subpasses) THEN "past the last subpass"
                  ELSE IF MainDisturbed THEN "pool used by two" ELSE fault
      /\ UNCHANGED <<passVars, secondary, gpu, done, frames>>

(* What was combined is still what it was. *)
Intact(part) ==
  LET b == secondary[part.child][part.slot]
  IN  b.state = "executable" /\ b.time = part.time

(* Chain::submit: end, then, if anything was combined, Queue::submit.      *)
ParentSubmit ==
  LET s == main.current
      p == primary[s]
  IN  /\ Defined
      /\ main.phase = "idle" /\ main.recording
      /\ \/ /\ main.dirty
            /\ primary' = [primary EXCEPT ![s].state = "pending", ![s].signaled = TRUE]
            /\ gpu' = Append(gpu, s)
            /\ main' = [main EXCEPT !.recording = FALSE, !.dirty = FALSE, !.current = Succ(s)]
            /\ current' = NextBuffer(current)
            /\ fault' = IF \E k \in DOMAIN p.parts : ~Intact(p.parts[k]) THEN "part recorded again"
                        ELSE fault
         \/ /\ ~main.dirty
            /\ primary' = [primary EXCEPT ![s].state = "executable"]
            /\ main' = [main EXCEPT !.recording = FALSE]
            /\ UNCHANGED <<gpu, current, fault>>
      /\ UNCHANGED <<attachments, color, depth, subpasses, swapchain, views, wrong,
                     child, secondary, done, issued, frames>>

(* The device finishes the oldest frame. *)
Complete ==
  LET s == Head(gpu)
      p == primary[s]
  IN  /\ Defined /\ gpu # <<>>
      /\ primary' = [primary EXCEPT ![s].state = "executable", ![s].fence = TRUE]
      /\ gpu' = Tail(gpu)
      /\ done' = Append(done, [k \in DOMAIN p.parts |-> p.parts[k].number])
      /\ fault' = IF \E k \in DOMAIN p.parts : ~Intact(p.parts[k]) THEN "part recorded again"
                  ELSE fault
      /\ UNCHANGED <<passVars, main, child, secondary, issued, frames>>

-----------------------------------------------------------------------------
(* The children. *)

\* Mutant: a child stays on its buffer.
Stays(c) == child[c].current

(* Chain::begin of a child goes to the next buffer first. *)
NextSlot(c) == Succ(child[c].current)

ChildBegin(c) ==
  /\ Defined
  /\ child[c].phase = "idle" /\ ~child[c].recording
  /\ (main.recording /\ ~child[c].fresh /\ ~child[c].late) \/ Permits("ahead")
  /\ child' = [child EXCEPT ![c].phase = "begun", ![c].current = NextSlot(c)]
  /\ UNCHANGED <<passVars, main, bufferVars, issued, frames, fault>>

InUse(c, s) ==
  \E q \in Slots :
    /\ primary[q].state = "pending"
    /\ \E k \in DOMAIN primary[q].parts : primary[q].parts[k].child = c /\ primary[q].parts[k].slot = s

(* CommandBuffer::record of a secondary buffer, which waits for nothing.   *)
(* A draw gets here without begin when the child is not recording.         *)
ChildRecord(c) ==
  LET s == child[c].current
  IN  /\ Defined
      /\ \/ child[c].phase = "begun"
         \/ child[c].phase = "idle" /\ ~child[c].recording /\ Permits("redraw")
      /\ MutexFree
      /\ child' = [child EXCEPT ![c].phase = "idle", ![c].recording = TRUE]
      /\ secondary' = [secondary EXCEPT ![c][s] = [state |-> "recording", time |-> frames]]
      /\ fault' = IF InUse(c, s) THEN "begun while pending"
                  ELSE IF Disturbed(c) THEN "pool used by two" ELSE fault
      /\ UNCHANGED <<passVars, primary, main, gpu, done, issued, frames>>

(* A draw: the mutex it holds is the chain's, not the pool's. *)
Draw(c) ==
  /\ Defined
  /\ child[c].phase = "idle" /\ child[c].recording
  /\ child' = [child EXCEPT ![c].phase = "drawing"]
  /\ fault' = IF Disturbed(c) THEN "pool used by two" ELSE fault
  /\ UNCHANGED <<passVars, main, bufferVars, issued, frames>>

Drawn(c) ==
  /\ Defined
  /\ child[c].phase = "drawing"
  /\ child' = [child EXCEPT ![c].phase = "idle"]
  /\ UNCHANGED <<passVars, main, bufferVars, issued, frames, fault>>

(* Chain::end, and submit of a child, which does no more. *)
ChildEnd(c) ==
  /\ Defined
  /\ child[c].phase = "idle" /\ child[c].recording
  /\ MutexFree
  /\ child' = [child EXCEPT ![c].recording = FALSE, ![c].fresh = TRUE]
  /\ secondary' = [secondary EXCEPT ![c][child[c].current].state = "executable"]
  /\ fault' = IF Disturbed(c) THEN "pool used by two" ELSE fault
  /\ UNCHANGED <<passVars, primary, main, gpu, done, issued, frames>>

-----------------------------------------------------------------------------
(* The pass is built, made again and reset between frames. *)
Quiet ==
  /\ main.phase = "idle" /\ ~main.recording /\ gpu = <<>>
  /\ \A c \in Children : child[c].phase \in {"new", "idle"} /\ ~child[c].recording

BuildPass ==
  /\ fault = "none" /\ frames = 0 /\ Quiet
  /\ PassNext
  /\ UNCHANGED subVars

UsePass ==
  /\ fault = "none" /\ frames > 0 /\ Quiet
  /\ \E count \in ImageCounts : Recreate(count)
  /\ UNCHANGED subVars

OfParent == ParentBegin \/ ParentBegun \/ ParentSubmit \/ \E c \in Children : Combine(c)

OfChild(c) ==
  \/ \E pool \in {"own", "main"} : EnterPools(c, pool)
  \/ \E subpass \in 0 .. MaxAttachments : LeavePools(c, subpass)
  \/ ChildBegin(c) \/ ChildRecord(c) \/ Draw(c) \/ Drawn(c) \/ ChildEnd(c)

Next ==
  \/ BuildPass \/ UsePass
  \/ OfParent \/ Complete
  \/ \E c \in Children : OfChild(c)

(* A thread in a call goes on, and the device finishes what it was given.  *)
Fairness ==
  /\ WF_vars(ParentBegun) /\ WF_vars(Complete)
  /\ \A c \in Children : WF_vars(ChildRecord(c))

Spec == Init /\ [][Next]_vars /\ Fairness

-----------------------------------------------------------------------------
(* Properties. *)

BufferStates == {"initial", "recording", "executable", "pending"}

Parts == [child : Children, slot : Slots, time : Nat, number : Nat]

TypeOK ==
  /\ PassTypeOK
  /\ main \in [phase : {"idle", "waiting"}, current : Slots, recording : BOOLEAN, dirty : BOOLEAN]
  /\ primary \in [Slots -> [state : BufferStates, parts : Seq(Parts), at : Nat,
                           signaled : BOOLEAN, fence : BOOLEAN, onto : 0 .. NumBuffers - 1]]
  /\ child \in [Children -> [phase : {"new", "making", "idle", "begun", "drawing"}, current : Slots,
                            recording : BOOLEAN, subpass : Nat, pool : {"own", "main"},
                            fresh : BOOLEAN, late : BOOLEAN]]
  /\ secondary \in [Children -> [Slots -> [state : BufferStates, time : Nat]]]
  /\ gpu \in Seq(Slots) /\ done \in Seq(Seq(Nat)) /\ issued \in Nat
  /\ frames \in 0 .. MaxFrames

(* No primary buffer is begun or given parts at the wrong time, no part is *)
(* of another subpass than the one it is executed in, no subpass follows   *)
(* the last, and no pool is used by two threads at once                    *)
(* (Chain::combine, CommandBuffer::record).                                *)
NoFault == fault = "none"

(* Types, and no buffer, part or pool is used at the wrong time. *)
Safe == TypeOK /\ NoFault

(* What a frame with the device executes is what the children had recorded *)
(* when they were combined: no buffer of a child is begun again while a    *)
(* frame needs it, though nobody waits for that (CommandBuffer::record of  *)
(* a secondary buffer, Chain::begin).                                      *)
PartsIntact ==
  \A s \in Slots : primary[s].state = "pending" =>
    \A k \in DOMAIN primary[s].parts : Intact(primary[s].parts[k])

(* How long ago buffer s of the parent was submitted, counted in frames    *)
(* submitted.                                                              *)
Behind(s) == IF s < main.current THEN main.current - s ELSE main.current - s + Count

Ago(s) == IF main.recording /\ s = main.current THEN 0 ELSE Behind(s)

Needed(s) == primary[s].state = "pending" \/ (main.recording /\ s = main.current)

(* Any NumBuffers frames in a row, the one being recorded included, are    *)
(* drawn onto framebuffers of their own while the device has them: the     *)
(* framebuffers go round apart from the command buffers, whose fences are  *)
(* all that a frame waits for (RenderPass::advance, Chain::submit,         *)
(* CommandBuffer::record), and are made of images whose indices collide    *)
(* (RenderPassData::makeFramebuffers).                                     *)
FramesApart ==
  \A s, t \in Slots :
    Needed(s) /\ Needed(t) /\ Ago(s) < Ago(t) /\ Ago(t) < Ago(s) + NumBuffers
      => Apart(primary[s].onto + 1, primary[t].onto + 1)

(* Whoever begins a buffer gets to record it, the main thread's wait under *)
(* the mutex of the family included (CommandBuffer::record).               *)
CallsReturn ==
  /\ main.phase = "waiting" ~> main.phase = "idle"
  /\ \A c \in Children : child[c].phase = "begun" ~> child[c].phase = "idle"

Numbers(s) == [k \in DOMAIN primary[s].parts |-> primary[s].parts[k].number]

Frames == INSTANCE FrameQueue WITH
  Capacity <- Count,
  open <- IF main.recording THEN Numbers(main.current) ELSE <<>>,
  inflight <- [k \in DOMAIN gpu |-> Numbers(gpu[k])]

(* A parent and its children are a frame queue: each child combined is     *)
(* executed once, in the order combined, in the frame it was combined for  *)
(* (Chain::combine, Chain::submit).                                        *)
IsFrameQueue == Frames!Safety

-----------------------------------------------------------------------------
(* What these rest on, for a disciplined program. *)

(* How often child c has begun a buffer since its buffer s.                *)
Since(c, s) ==
  IF s <= child[c].current THEN child[c].current - s ELSE child[c].current - s + Count

(* The buffers with the device are the last ones submitted, in order.      *)
QueueInTurn ==
  /\ \A k \in DOMAIN gpu : Behind(gpu[k]) = Len(gpu) + 1 - k
  /\ \A s \in Slots : primary[s].state = "pending" <=> Behind(s) <= Len(gpu)

ParentInStep ==
  LET p == primary[main.current]
  IN  /\ main.recording \/ main.phase = "waiting" => frames > 0
      /\ frames > 0 => Made
      /\ main.recording => /\ main.phase = "idle" /\ p.state = "recording" /\ ~p.signaled
                           /\ p.at < Len(subpasses)
      /\ main.dirty <=> main.recording /\ p.parts # <<>>
      /\ \A s \in Slots :
           /\ primary[s].state = "pending" => primary[s].signaled /\ ~primary[s].fence
           /\ ~primary[s].signaled => ~primary[s].fence

ChildInStep(c) ==
  LET i == child[c]
  IN  /\ i.pool = "own"
      /\ i.phase = "drawing" => i.recording
      /\ i.phase \in {"new", "making"} => ~i.late
      /\ i.phase \in {"new", "making", "begun"} => ~i.recording /\ ~i.fresh
      /\ i.fresh => ~i.recording /\ i.phase = "idle" /\ secondary[c][i.current].state = "executable"
      /\ i.late /\ main.recording => main.dirty

MayBegin(c) ==
  LET i == child[c] IN i.phase = "idle" /\ ~i.recording /\ ~i.fresh /\ ~i.late

(* A part of the parent's buffer s is still what it was: the child goes on *)
(* once for each frame it is combined for, so that it has gone on no more  *)
(* often than frames were submitted since.                                 *)
PartInTurn(s, part) ==
  LET c == part.child
  IN  /\ Intact(part)
      /\ child[c].phase \notin {"new", "making"}
      /\ child[c].phase = "begun" => part.slot # child[c].current
      /\ Since(c, part.slot) <= Ago(s)
      /\ MayBegin(c) \/ (child[c].late /\ ~main.recording) => Since(c, part.slot) < Ago(s)

PartsInTurn ==
  \A s \in Slots : Needed(s) =>
    \A k \in DOMAIN primary[s].parts : PartInTurn(s, primary[s].parts[k])

SubpassInv == QueueInTurn /\ ParentInStep /\ (\A c \in Children : ChildInStep(c)) /\ PartsInTurn

(* Framebuffers follow submissions. *)
FramesInTurn ==
  \A s \in Slots : Needed(s) => Made /\ (primary[s].onto + Ago(s)) % NumBuffers = current

=============================================================================
