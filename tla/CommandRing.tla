---------------------------- MODULE CommandRing ----------------------------
(***************************************************************************)
(* One primary vkg::Chain, driven by one client thread: the ring of Vulkan *)
(* command buffers it records into (vkg::CommandBuffer), the submission to *)
(* the device queue (vkg::Queue) and the fences that decide when a buffer  *)
(* may be recorded again.                                                  *)
(*                                                                         *)
(* A call of the client is a step when it cannot block.  A call that       *)
(* records may wait on a fence for each buffer it begins, so it is several *)
(* steps: Invoke, one BeginNext per buffer, Emit.  The device finishes     *)
(* frames between any two of them.                                         *)
(*                                                                         *)
(* The Vulkan driver and device are external.  They are modelled by the    *)
(* rules the code relies on: the life cycle of a command buffer, a fence   *)
(* signalled when its submission is finished, submissions finished in      *)
(* order.  A call the driver forbids sets fault, after which the behaviour *)
(* is undefined and the model stops.                                       *)
(***************************************************************************)
EXTENDS Naturals, Sequences

CONSTANTS
  Count,      \* COMMAND_BUFFER_COUNT: command buffers of the chain
  NumBuffers, \* NUM_BUFFERS: framebuffers of a render pass
  HasPass,    \* whether the chain was initialized with a render pass
  Liberties,  \* what the client does beyond the record/submit discipline
  MaxOps      \* bound: operations the client issues

AllLiberties == {"advance", "mode", "resume", "mix", "reinit"}

ASSUME CountAssumption == Count \in Nat \ {0}
ASSUME NumBuffersAssumption == NumBuffers \in Nat \ {0}
ASSUME HasPassAssumption == HasPass \in BOOLEAN
ASSUME LibertiesAssumption == Liberties \subseteq AllLiberties
ASSUME MaxOpsAssumption == MaxOps \in Nat

VARIABLES
  (* CommandBufferData *)
  current,             \* buffer the next command goes to
  recording,           \* recording() of the whole ring
  is_signaled,         \* per buffer: its fence must be waited for and reset
  started_render_pass, \* per buffer: beginRenderPass has been recorded
  (* ChainData *)
  active,              \* ChainData::current: buffer of the open frame
  num_cmd,             \* buffers each operation is recorded to
  dirty,               \* an operation was recorded since the last submit
  has_record,
  (* RenderPassData *)
  framebuffer,         \* current_framebuffer of the chain's pass
  (* the client's thread *)
  call,                \* kind of the recording call in progress, or "none"
  left,                \* buffers that call has still to begin
  issued,              \* operations recorded so far
  (* the driver and the device *)
  state,               \* life-cycle state of each command buffer
  contents,            \* operations recorded in each command buffer
  fence,               \* whether each fence is signalled
  gpu,                 \* buffers submitted and not finished, oldest first
  done,                \* history: contents of the frames finished
  fault                \* first forbidden driver call, or "none"

cmdVars    == <<current, recording, is_signaled, started_render_pass>>
chainVars  == <<active, num_cmd, dirty, has_record>>
clientVars == <<call, left, issued>>
driverVars == <<state, contents, fence, gpu, done>>
vars == <<cmdVars, chainVars, framebuffer, clientVars, driverVars, fault>>

Slots  == 0 .. Count - 1
Ops    == {"transfer", "draw", "push", "begin", "touch"}
States == {"initial", "recording", "executable", "pending"}
Faults == {"none", "begin_recording", "begin_pending", "emit_unbegun",
           "end_unbegun", "submit_unready", "draw_outside_pass",
           "transfer_in_pass"}

-----------------------------------------------------------------------------
(* The ring. *)

(* CommandBuffer::advance: the buffer after s. *)
Succ(s) == IF s + 1 >= Count THEN 0 ELSE s + 1

(* How many advances lead from s to t. *)
Ahead(s, t) == IF t >= s THEN t - s ELSE t + Count - s

(* The buffers a loop of n advances that starts at s visits. *)
Visited(s, n) == {t \in Slots : Ahead(s, t) < n}

-----------------------------------------------------------------------------
(* Which record() a call uses. *)

(* ChainData::record begins the render pass: draws ask for it, push and    *)
(* begin ask for it when the chain has one, copies and barriers do not.    *)
BeginsPass(op) == HasPass /\ op \in {"draw", "push", "begin"}

(* Calls that begin the ring and record nothing: begin, and a transition   *)
(* to an undefined layout ("touch").                                       *)
Silent == {"begin", "touch"}

Init ==
  /\ current = 0
  /\ recording = FALSE
  /\ is_signaled = [s \in Slots |-> TRUE]
  /\ started_render_pass = [s \in Slots |-> FALSE]
  /\ active = 0
  /\ num_cmd = 1
  /\ dirty = FALSE
  /\ has_record = FALSE
  /\ framebuffer = 0
  /\ call = "none"
  /\ left = 0
  /\ issued = 0
  /\ state = [s \in Slots |-> "initial"]
  /\ contents = [s \in Slots |-> <<>>]
  /\ fence = [s \in Slots |-> TRUE]
  /\ gpu = <<>>
  /\ done = <<>>
  /\ fault = "none"

-----------------------------------------------------------------------------
(* What the client may call.  The discipline of the repository's tests:    *)
(* record, then submit; draw only on a chain with a pass; do not mix       *)
(* copies with draws in one frame; change the mode or initialize again     *)
(* only between frames.  Each liberty lifts one of these.                  *)

Idle == call = "none"

(* After a forbidden call the behaviour is undefined. *)
Defined == fault = "none"

Permitted(op) ==
  /\ op = "draw" => HasPass
  /\ (dirty /\ ~recording) => "resume" \in Liberties
  /\ (recording /\ HasPass /\ op \in {"draw", "transfer"})
       => \/ started_render_pass[active] = (op = "draw")
          \/ "mix" \in Liberties

-----------------------------------------------------------------------------
(* A recording call: copy, transition, barrier ("transfer"), draw, push or *)
(* a silent one.  It begins num_cmd buffers unless the ring is recording   *)
(* already.                                                                *)

Invoke(op) ==
  /\ Defined
  /\ Idle
  /\ issued < MaxOps
  /\ Permitted(op)
  /\ call' = op
  /\ left' = IF recording THEN 0 ELSE num_cmd
  /\ UNCHANGED <<cmdVars, chainVars, framebuffer, issued, driverVars, fault>>

\* Mutant: the fence is never waited for.
NeverWait(s) == FALSE

(* CommandBuffer::record waits for the fence of a buffer in flight. *)
MustWait(s) == is_signaled[s]

\* Mutant: the flag is not cleared once the fence has been reset.
NotTaken(s) == is_signaled

(* record() resets the fence it waited for and clears its flag. *)
FenceTaken(s) == [is_signaled EXCEPT ![s] = FALSE]

(* CommandBuffer::record on the current buffer, then advance. *)
BeginNext ==
  /\ Defined
  /\ left > 0
  /\ MustWait(current) => fence[current]
  /\ fault' = CASE state[current] = "recording" -> "begin_recording"
                [] state[current] = "pending"   -> "begin_pending"
                [] OTHER                        -> fault
  /\ fence' = [fence EXCEPT ![current] = @ /\ ~MustWait(current)]
  /\ is_signaled' = FenceTaken(current)
  /\ state' = [state EXCEPT ![current] = "recording"]
  /\ contents' = [contents EXCEPT ![current] = <<>>]
  /\ started_render_pass' =
       [started_render_pass EXCEPT ![current] = @ \/ BeginsPass(call)]
  /\ recording' = TRUE
  /\ current' = Succ(current)
  /\ left' = left - 1
  /\ UNCHANGED <<chainVars, framebuffer, call, issued, gpu, done>>

\* Mutant: only the first buffer is written in mode All.
FirstOnly(s, n) == {s}

(* The buffers an operation is recorded to. *)
Written(s, n) == Visited(s, n)

(* The driver's verdict on recording op into every buffer of the set.     *)
EmitFault(op, targets) ==
  IF \E s \in targets : state[s] # "recording"
  THEN "emit_unbegun"
  ELSE IF op = "draw" /\ \E s \in targets : ~started_render_pass[s]
  THEN "draw_outside_pass"
  ELSE IF op = "transfer" /\ \E s \in targets : started_render_pass[s]
  THEN "transfer_in_pass"
  ELSE fault

(* The rest of the call: setActive, the loop that records the operation,   *)
(* setActive again.  A silent call stops after the first setActive.        *)
Emit ==
  /\ Defined
  /\ ~Idle
  /\ left = 0
  /\ call' = "none"
  /\ current' = active
  /\ IF call \in Silent
     THEN UNCHANGED <<contents, issued, dirty, has_record, fault>>
     ELSE LET targets == Written(active, num_cmd)
          IN  /\ fault' = EmitFault(call, targets)
              /\ contents' = [s \in Slots |->
                                IF s \in targets
                                THEN Append(contents[s], issued + 1)
                                ELSE contents[s]]
              /\ issued' = issued + 1
              /\ dirty' = TRUE
              /\ has_record' = (has_record \/ call = "draw")
  /\ UNCHANGED <<recording, is_signaled, started_render_pass, active, num_cmd,
                 framebuffer, left, state, fence, gpu, done>>

-----------------------------------------------------------------------------
(* Chain::end, as a function of the state: stop() on num_cmd buffers from  *)
(* the current one, then setActive.  Nothing when the ring is not          *)
(* recording.                                                              *)

Stopped == IF recording THEN Visited(current, num_cmd) ELSE {}

EndState == [s \in Slots |-> IF s \in Stopped THEN "executable" ELSE state[s]]

\* Mutant: stop() leaves the render pass marked as begun.
StillStarted == started_render_pass

EndPass == [s \in Slots |-> started_render_pass[s] /\ s \notin Stopped]

EndFault == IF \E s \in Stopped : state[s] # "recording"
            THEN "end_unbegun" ELSE fault

EndCurrent == IF recording THEN active ELSE current

EndHasRecord == has_record \/ recording

End ==
  /\ Defined
  /\ Idle
  /\ recording
  /\ state' = EndState
  /\ started_render_pass' = EndPass
  /\ recording' = FALSE
  /\ current' = EndCurrent
  /\ has_record' = EndHasRecord
  /\ fault' = EndFault
  /\ UNCHANGED <<is_signaled, active, num_cmd, dirty, framebuffer, clientVars,
                 contents, fence, gpu, done>>

\* Mutant: submit forgets to clear dirty.
StaysDirty == dirty

(* ChainData::dirty after a submit. *)
DirtyAfterSubmit == FALSE

\* Mutant: the fence of the submitted buffer is not marked for waiting.
NotMarked(s) == is_signaled

(* CommandBuffer::fence marks the buffer it is called for. *)
FenceMarked(s) == [is_signaled EXCEPT ![s] = TRUE]

\* Mutant: the pass advances on every call of submit.
AdvancesAlways(submits) == HasPass

(* Chain::submit advances the pass with each frame it hands over. *)
AdvancesPass(submits) == HasPass /\ submits

(* RenderPass::advance. *)
NextFramebuffer(f) == IF f + 1 >= NumBuffers THEN 0 ELSE f + 1

HasFrame == EndHasRecord /\ dirty

(* Queue::submit of the current buffer; the chain moves to the next one.   *)
HandOver(slot) ==
  /\ state' = [EndState EXCEPT ![slot] = "pending"]
  /\ is_signaled' = FenceMarked(slot)
  /\ gpu' = Append(gpu, slot)
  /\ current' = Succ(slot)
  /\ active' = Succ(slot)
  /\ dirty' = DirtyAfterSubmit
  /\ fault' = IF EndFault # "none" THEN EndFault
              ELSE IF EndState[slot] # "executable" \/ fence[slot]
              THEN "submit_unready" ELSE fault

(* Chain::submit: end(), then the hand-over when the frame holds an        *)
(* operation.                                                              *)
Submit ==
  /\ Defined
  /\ Idle
  /\ recording \/ dirty
  /\ recording' = FALSE
  /\ has_record' = EndHasRecord
  /\ started_render_pass' = EndPass
  /\ framebuffer' = IF AdvancesPass(HasFrame)
                    THEN NextFramebuffer(framebuffer) ELSE framebuffer
  /\ \/ HasFrame /\ HandOver(EndCurrent)
     \/ /\ ~HasFrame
        /\ state' = EndState
        /\ current' = EndCurrent
        /\ fault' = EndFault
        /\ UNCHANGED <<is_signaled, gpu, active, dirty>>
  /\ UNCHANGED <<num_cmd, clientVars, contents, fence, done>>

-----------------------------------------------------------------------------
(* The rest of the chain's interface. *)

(* Chain::setMode. *)
SetMode(n) ==
  /\ Defined
  /\ Idle
  /\ n # num_cmd
  /\ recording => "mode" \in Liberties
  /\ num_cmd' = n
  /\ UNCHANGED <<cmdVars, active, dirty, has_record, framebuffer, clientVars,
                 driverVars, fault>>

(* Chain::advance moves the command buffer's index and not the chain's. *)
Advance ==
  /\ Defined
  /\ Idle
  /\ "advance" \in Liberties
  /\ current' = Succ(current)
  /\ UNCHANGED <<recording, is_signaled, started_render_pass, chainVars,
                 framebuffer, clientVars, driverVars, fault>>

(* Chain::initialize on a chain in use: reset() frees the buffers, then    *)
(* CommandBuffer::initialize allocates new ones with signalled fences.     *)
(* Neither touches the indices, recording, dirty, has_record or num_cmd.   *)
(* The client calls synchronize() first, which returns when gpu is empty.  *)
Reinitialize ==
  /\ Defined
  /\ Idle
  /\ gpu = <<>>
  /\ (recording \/ dirty) => "reinit" \in Liberties
  /\ state' = [s \in Slots |-> "initial"]
  /\ contents' = [s \in Slots |-> <<>>]
  /\ fence' = [s \in Slots |-> TRUE]
  /\ is_signaled' = [s \in Slots |-> TRUE]
  /\ started_render_pass' = [s \in Slots |-> FALSE]
  /\ UNCHANGED <<current, recording, chainVars, framebuffer, clientVars, gpu,
                 done, fault>>

(* The device finishes the oldest submission and signals its fence. *)
Finish ==
  /\ Defined
  /\ gpu # <<>>
  /\ LET s == Head(gpu)
     IN  /\ state' = [state EXCEPT ![s] = "executable"]
         /\ fence' = [fence EXCEPT ![s] = TRUE]
         /\ done' = Append(done, contents[s])
  /\ gpu' = Tail(gpu)
  /\ UNCHANGED <<cmdVars, chainVars, framebuffer, clientVars, contents, fault>>

Next ==
  \/ \E op \in Ops : Invoke(op)
  \/ BeginNext
  \/ Emit
  \/ End
  \/ Submit
  \/ \E n \in {1, Count} : SetMode(n)
  \/ Advance
  \/ Reinitialize
  \/ Finish

(* The device keeps working and a call in progress keeps running; nothing  *)
(* obliges the client to make another call.                                *)
Fairness ==
  /\ WF_vars(Finish)
  /\ WF_vars(BeginNext)
  /\ WF_vars(Emit)

Spec == Init /\ [][Next]_vars /\ Fairness

-----------------------------------------------------------------------------
(* Properties. *)

(* The variables have their types: in particular the ring's indices stay   *)
(* inside the ring, whatever the client does.                              *)
TypeOK ==
  /\ current \in Slots /\ active \in Slots
  /\ recording \in BOOLEAN /\ dirty \in BOOLEAN /\ has_record \in BOOLEAN
  /\ is_signaled \in [Slots -> BOOLEAN]
  /\ started_render_pass \in [Slots -> BOOLEAN]
  /\ num_cmd \in {1, Count}
  /\ framebuffer \in 0 .. NumBuffers - 1
  /\ call \in Ops \union {"none"}
  /\ left \in 0 .. Count
  /\ issued \in Nat
  /\ state \in [Slots -> States]
  /\ contents \in [Slots -> Seq(Nat)]
  /\ fence \in [Slots -> BOOLEAN]
  /\ gpu \in Seq(Slots)
  /\ done \in Seq(Seq(Nat))
  /\ fault \in Faults

(* The chain makes no Vulkan call the specification forbids: it never      *)
(* begins a buffer the device may still be executing, never records into,  *)
(* ends or submits a buffer that was not begun, never frees one in flight. *)
(* (Chain::record, end, submit; CommandBuffer::record, stop.)              *)
NoFault == fault = "none"

(* A wait for a fence ends: a fence the code would wait for is signalled,  *)
(* or belongs to a submission the device has yet to finish.                *)
(* (CommandBuffer::record waits with no timeout, holding the pool's lock.) *)
WaitsEnd ==
  \A s \in Slots : is_signaled[s] => fence[s] \/ state[s] = "pending"

(* Whatever the client does, the chain never begins a buffer the device    *)
(* may be executing: the fence it waits for is that buffer's.              *)
(* (CommandBuffer::record, CommandBuffer::fence.)                          *)
NeverPending == fault # "begin_pending"

(* How far behind the open frame's buffer a submitted one is.              *)
Behind(s) == IF s < active THEN active - s ELSE active + Count - s

(* The buffers in flight are exactly the last ones of the ring before the  *)
(* open frame's, oldest first: the index the chain keeps, the index the    *)
(* command buffer keeps and the device's queue never disagree.             *)
(* (Chain::submit: current = cmd.current() after Queue::submit advanced.)  *)
RingOrder ==
  /\ Len(gpu) <= Count
  /\ \A i \in 1 .. Len(gpu) : Behind(gpu[i]) = Len(gpu) - i + 1
  /\ \A s \in Slots : state[s] = "pending" <=> Behind(s) <= Len(gpu)

(* In mode All "chain operates all commands to all internal command        *)
(* buffers": while it records, every buffer holds the same operations.     *)
AllBuffersAgree ==
  (num_cmd = Count /\ recording /\ left = 0) =>
    \A s \in Slots : contents[s] = contents[active]

(* The render pass has moved to its next framebuffer once per frame        *)
(* submitted, no more and no less (Chain::submit calls pass->advance()).   *)
PassInStep ==
  HasPass => framebuffer = (Len(done) + Len(gpu)) % NumBuffers

-----------------------------------------------------------------------------
(* The inductive invariant: what a disciplined client's calls preserve.    *)

(* Between calls both indices agree; while a call begins buffers, the      *)
(* command buffer's index is as far ahead as buffers have been begun.      *)
Phases ==
  /\ left <= num_cmd
  /\ Idle => left = 0 /\ current = active
  /\ ~Idle /\ left = 0 => recording
  /\ left > 0 => /\ ~dirty
                 /\ Ahead(active, current) = num_cmd - left
                 /\ recording <=> left < num_cmd

(* The buffers being recorded are the first num_cmd from the active one,   *)
(* less those still to be begun.                                           *)
Window ==
  \A s \in Slots : state[s] = "recording" <=>
    recording /\ Ahead(active, s) < num_cmd - left

(* is_signaled tells the state of the fence and of the buffer.             *)
FencesTold ==
  \A s \in Slots :
    /\ state[s] = "pending" => is_signaled[s] /\ ~fence[s]
    /\ state[s] = "recording" => ~is_signaled[s]
    /\ ~is_signaled[s] => ~fence[s]

(* A buffer in flight was submitted once and is pending.                   *)
QueueTold ==
  /\ \A i \in 1 .. Len(gpu) : state[gpu[i]] = "pending"
  /\ \A i, j \in 1 .. Len(gpu) : gpu[i] = gpu[j] => i = j

(* Whatever the client does, is_signaled tells the truth, so that record() *)
(* neither skips a wait it needs nor starts one that cannot end, and no    *)
(* buffer is in flight twice (CommandBuffer::record, Queue::submit).       *)
FencesHold == Defined => FencesTold /\ WaitsEnd /\ QueueTold

(* A frame that was ended and not submitted can be submitted.              *)
EndedReady ==
  dirty /\ ~recording => state[active] = "executable" /\ ~is_signaled[active]

(* The buffers being recorded are alike.                                   *)
Alike ==
  /\ \A s \in Slots : state[s] = "recording" =>
       /\ contents[s] = contents[active]
       /\ started_render_pass[s] = started_render_pass[active]
  /\ \A s \in Slots : started_render_pass[s] =>
       state[s] = "recording" /\ HasPass
  /\ recording /\ left > 0 =>
       started_render_pass[active] = BeginsPass(call)

(* dirty tells whether the frame being recorded holds an operation.        *)
DirtyTold ==
  /\ recording /\ ~dirty => contents[active] = <<>>
  /\ dirty => contents[active] # <<>>

(* The call in progress finds the render pass as it needs it.              *)
PassFits ==
  /\ call = "draw" => HasPass /\ (recording => started_render_pass[active])
  /\ call = "transfer" /\ recording => ~started_render_pass[active]

RingInv ==
  /\ NoFault
  /\ Phases
  /\ Window
  /\ FencesTold
  /\ WaitsEnd
  /\ EndedReady
  /\ Alike
  /\ DirtyTold
  /\ PassFits
  /\ RingOrder

-----------------------------------------------------------------------------

(* Every recording call returns: it is never stuck waiting for a fence.    *)
CallsReturn == (~Idle) ~> Idle

(* The operations of the frame being recorded, and the frames in flight.   *)
OpenFrame == IF recording \/ dirty THEN contents[active] ELSE <<>>
InFlight  == [i \in 1 .. Len(gpu) |-> contents[gpu[i]]]

Frames == INSTANCE FrameQueue WITH
  Capacity <- Count, open <- OpenFrame, inflight <- InFlight

(* The ring is a frame queue: each operation is executed exactly once, in  *)
(* the order issued, in the frame it was recorded for; at most Count       *)
(* frames are in flight (Chain.h: submit "this object's work").            *)
IsFrameQueue == Frames!Safety

(* Every frame submitted is finished.                                      *)
FramesFinish == Frames!Progress

(* Neither a thread that waits for a fence nor a frame handed over waits   *)
(* for ever: fences are reset only where they will be signalled again      *)
(* (CommandBuffer::record, Queue::submit).                                 *)
KeepsGoing == FramesFinish /\ CallsReturn

=============================================================================
