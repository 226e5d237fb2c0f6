----------------------------- MODULE FrameQueue -----------------------------
(***************************************************************************)
(* What a chain promises its client (library/Chain.h: "record" operations, *)
(* "submit this object's work to the device"), with no command buffer in   *)
(* sight.  Operations are numbered in the order the client issues them.    *)
(* They collect in the open frame; submitting closes the frame and hands   *)
(* it to the device, which executes frames one after another.  At most     *)
(* Capacity frames are with the device at once.                            *)
(***************************************************************************)
EXTENDS Naturals, Sequences

CONSTANT Capacity   \* frames the device may hold

VARIABLES
  issued,    \* how many operations the client has issued
  open,      \* operations of the frame being recorded, in order
  inflight,  \* frames submitted and not finished, oldest first
  done       \* frames the device has finished, oldest first

vars == <<issued, open, inflight, done>>

Init ==
  /\ issued = 0
  /\ open = <<>>
  /\ inflight = <<>>
  /\ done = <<>>

(* The client adds an operation to the open frame. *)
Issue ==
  /\ issued' = issued + 1
  /\ open' = Append(open, issued + 1)
  /\ UNCHANGED <<inflight, done>>

(* The client submits the open frame; an empty one is not submitted. *)
Submit ==
  /\ open # <<>>
  /\ Len(inflight) < Capacity
  /\ inflight' = Append(inflight, open)
  /\ open' = <<>>
  /\ UNCHANGED <<issued, done>>

(* The device finishes the oldest frame. *)
Complete ==
  /\ inflight # <<>>
  /\ done' = Append(done, Head(inflight))
  /\ inflight' = Tail(inflight)
  /\ UNCHANGED <<issued, open>>

Next == Issue \/ Submit \/ Complete

(* What may happen, and what the device owes. *)
Safety   == Init /\ [][Next]_vars
Progress == WF_vars(Complete)

Spec == Safety /\ Progress

=============================================================================
