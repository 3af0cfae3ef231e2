--------------------------- MODULE ImageRegister ---------------------------
(***************************************************************************)
(* What the image store of a tag promises: a register that holds the       *)
(* version of the newest image the tag can show.  While the tag is paired  *)
(* a newer image replaces it in one step and nothing else changes it; a    *)
(* tag that pairs starts without an image.                                 *)
(***************************************************************************)
EXTENDS Integers

CONSTANT Versions   \* the versions of images, none of which is 0

VARIABLES
  paired,    \* is the tag paired with a station?
  current    \* the newest complete image, 0 when there is none

regVars == <<paired, current>>

Init == ~paired /\ current = 0

Pair      == ~paired /\ paired' = TRUE /\ current' = 0
Unpair    == paired /\ paired' = FALSE /\ current' = 0
Install(v) ==
  /\ paired /\ current < v
  /\ current' = v
  /\ UNCHANGED paired

Next == Pair \/ Unpair \/ \E v \in Versions : Install(v)

Spec == Init /\ [][Next]_regVars
=============================================================================
