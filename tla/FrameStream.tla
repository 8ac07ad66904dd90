---------------------------- MODULE FrameStream ----------------------------
(***************************************************************************)
(* What one observer of a run is promised (docs/events.md): from the frame *)
(* at which it joins it receives every published frame, once and in order; *)
(* if a frame cannot be delivered it gets one error after the last one it  *)
(* received; a clean end means that it has seen everything.                *)
(*                                                                         *)
(* Abstract specification; EventStream implements it for each of its       *)
(* observers.                                                              *)
(***************************************************************************)
EXTENDS Naturals

VARIABLES
  published,  \* sequence of the last published frame
  sealed,     \* no frame will follow
  joined,     \* the observer has been registered
  received,   \* sequence of the last frame it was handed
  told        \* how its stream ended: "nothing", "error" or "end"

vars == <<published, sealed, joined, received, told>>

Init ==
  /\ published = 0 /\ sealed = FALSE
  /\ joined \in BOOLEAN /\ received = 0 /\ told = "nothing"

Publish ==
  /\ ~sealed
  /\ published' = published + 1 /\ sealed' \in BOOLEAN
  /\ UNCHANGED <<joined, received, told>>

Seal ==
  /\ sealed' = TRUE
  /\ UNCHANGED <<published, joined, received, told>>

Join ==
  /\ ~joined /\ ~sealed
  /\ joined' = TRUE /\ received' = published
  /\ UNCHANGED <<published, sealed, told>>

Receive ==
  /\ joined /\ told = "nothing" /\ received < published
  /\ received' = received + 1
  /\ UNCHANGED <<published, sealed, joined, told>>

Break ==
  /\ joined /\ told = "nothing" /\ told' = "error"
  /\ UNCHANGED <<published, sealed, joined, received>>

End ==
  /\ joined /\ told' = "end"
  /\ told = "error" \/ (told = "nothing" /\ sealed /\ received = published)
  /\ UNCHANGED <<published, sealed, joined, received>>

Next == Publish \/ Seal \/ Join \/ Receive \/ Break \/ End
Spec == Init /\ [][Next]_vars
=============================================================================
