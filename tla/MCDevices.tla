----------------------------- MODULE MCDevices -----------------------------
(* Two physical devices: one does everything, with a family of two queues  *)
(* and one for transfers; the other has a family for compute alone, and    *)
(* does not know the swapchain.                                            *)
EXTENDS Devices

TwoDevices == 0 .. 1

Known(d) == IF d = 0 THEN {"swapchain", "extra"} ELSE {"extra"}

FamiliesOf(d) ==
  IF d = 0 THEN {[family |-> 0, kinds |-> Kinds, count |-> 2],
                 [family |-> 1, kinds |-> {}, count |-> 2]}
  ELSE {[family |-> 0, kinds |-> {"compute"}, count |-> 1]}

=============================================================================
