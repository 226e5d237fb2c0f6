------------------------------ MODULE Pictures ------------------------------
(***************************************************************************)
(* What vkg::Image promises: an object shows what was put in its image     *)
(* last, and whatever is done about layouts does not change that.  The     *)
(* picture goes with the image, when the object gives that back or gets    *)
(* another.                                                                *)
(***************************************************************************)
CONSTANTS Objects, Prints, Nothing, None

VARIABLES
  shown,  \* what each object shows
  holds   \* the image it has

Init ==
  /\ shown = [o \in Objects |-> Nothing]
  /\ holds = [o \in Objects |-> None]

Put(o, p) ==
  /\ holds[o] # None /\ UNCHANGED holds
  /\ shown' = [shown EXCEPT ![o] = p]

Copy(o, q) == Put(o, shown[q])

(* o has the image of q, which has none then. *)
Hand(o, q) ==
  /\ holds[q] # None
  /\ holds' = [holds EXCEPT ![o] = holds[q], ![q] = None]
  /\ shown' = [shown EXCEPT ![o] = shown[q], ![q] = Nothing]

(* An image is made, given back or made anew: nothing is in it.            *)
Renew(o) ==
  /\ holds'[o] # holds[o]
  /\ holds' = [holds EXCEPT ![o] = holds'[o]]
  /\ shown' = [shown EXCEPT ![o] = Nothing]

Next ==
  \E o \in Objects :
    \/ \E p \in Prints : Put(o, p)
    \/ \E q \in Objects : Copy(o, q) \/ Hand(o, q)
    \/ Renew(o)

Spec == Init /\ [][Next]_<<shown, holds>>
=============================================================================
