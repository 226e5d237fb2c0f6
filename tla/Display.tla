------------------------------ MODULE Display ------------------------------
(***************************************************************************)
(* What presenting promises (vkg/RenderPass.h: present "this render pass   *)
(* to the screen").  Frames are numbered as they are rendered.  A present  *)
(* hands over the latest frame; the screen shows the frames handed over,   *)
(* in order, and never a frame that is not finished.  What was handed over *)
(* and not shown is lost when the swapchain is made anew.                  *)
(***************************************************************************)
EXTENDS Naturals, Sequences

VARIABLES
  frames,   \* number of frames rendered
  waiting,  \* frames presented and not shown, oldest first
  screen    \* the frame on the screen, 0 before the first

vars == <<frames, waiting, screen>>

Init == frames = 0 /\ waiting = <<>> /\ screen = 0

Render == frames' = frames + 1 /\ UNCHANGED <<waiting, screen>>

Present == waiting' = Append(waiting, frames) /\ UNCHANGED <<frames, screen>>

Show ==
  /\ waiting # <<>>
  /\ screen' = Head(waiting)
  /\ waiting' = Tail(waiting)
  /\ UNCHANGED frames

Lose == waiting' = <<>> /\ UNCHANGED <<frames, screen>>

Next == Render \/ Present \/ Show \/ Lose

Safety == Init /\ [][Next]_vars

=============================================================================
