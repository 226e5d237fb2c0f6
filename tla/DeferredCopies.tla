--------------------------- MODULE DeferredCopies ---------------------------
(***************************************************************************)
(* What the copies of a chain promise (vkg/Chain.h: copy "from a host data *)
(* pointer to a library array", "two library arrays to eachother"), with   *)
(* no staging buffer in sight.  A copy is recorded now and executed later; *)
(* a copy from the host carries the data the host had when it was called.  *)
(* Each chain executes its copies in the order recorded; chains are not    *)
(* ordered with one another.                                               *)
(***************************************************************************)
EXTENDS Naturals, Sequences

CONSTANTS Chains, Arrays, Data   \* Data: contents an array may have

VARIABLES
  array,   \* contents of each device array
  work,    \* copies each chain has recorded and not executed, oldest first
  handed   \* how many of them, from the front, the device has been given

vars == <<array, work, handed>>

(* A put brings host data, a move copies an array, a fetch reads one back. *)
Copies == [kind : {"put", "move", "fetch"}, from : Arrays, to : Arrays,
           val : Data]

Init ==
  /\ array = [a \in Arrays |-> 0]
  /\ work = [c \in Chains |-> <<>>]
  /\ handed = [c \in Chains |-> 0]

Record(c) ==
  /\ \E copy \in Copies : work' = [work EXCEPT ![c] = Append(@, copy)]
  /\ UNCHANGED <<array, handed>>

Submit(c) ==
  /\ handed[c] < Len(work[c])
  /\ handed' = [handed EXCEPT ![c] = Len(work[c])]
  /\ UNCHANGED <<array, work>>

Execute(c) ==
  /\ handed[c] > 0
  /\ LET copy == Head(work[c])
     IN  \/ /\ copy.kind = "put"
            /\ array' = [array EXCEPT ![copy.to] = copy.val]
         \/ /\ copy.kind = "move"
            /\ array' = [array EXCEPT ![copy.to] = array[copy.from]]
         \/ copy.kind = "fetch" /\ UNCHANGED array
  /\ work' = [work EXCEPT ![c] = Tail(@)]
  /\ handed' = [handed EXCEPT ![c] = @ - 1]

Next == \E c \in Chains : Record(c) \/ Submit(c) \/ Execute(c)

Safety == Init /\ [][Next]_vars

=============================================================================
