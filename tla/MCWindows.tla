----------------------------- MODULE MCWindows -----------------------------
(* Windows for TLC: two names, a key and a type to enroll for, and one     *)
(* event that subscribers push.                                            *)
EXTENDS Windows

PlacesUsed ==
  {<<"callbacks", 1>>, <<"callbacks", 2>>, <<"key_callbacks", 2>>, <<"type_callbacks", 5>>}

EventsPushed == {[key |-> 2, type |-> 5]}

=============================================================================
