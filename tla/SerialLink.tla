----------------------------- MODULE SerialLink -----------------------------
(***************************************************************************)
(* What a serial link promises to the two programs at its ends: messages   *)
(* arrive one at a time, each when its last byte does, and nothing else     *)
(* arrives.  While the link is hurt it promises nothing.                    *)
(***************************************************************************)
CONSTANTS Messages, Heard, Nothing

VARIABLES
  sending,  \* the message on the line
  heard,    \* the message that the last byte completed
  hurt      \* a byte was damaged, and the two ends are not in step again

linkVars == <<sending, heard, hurt>>

Init == sending = Nothing /\ heard = Nothing /\ hurt = FALSE

Begin ==
  /\ sending = Nothing /\ heard' = Nothing
  /\ sending' \in Messages

Carry == sending # Nothing /\ heard' = Nothing /\ UNCHANGED sending

Deliver == sending # Nothing /\ heard' = sending /\ sending' = Nothing

\* Between messages: log text.
Chatter == sending = Nothing /\ heard' = Nothing /\ UNCHANGED sending

Undisturbed == ~hurt /\ ~hurt' /\ (Begin \/ Carry \/ Deliver \/ Chatter)

\* A byte is damaged, or follows on a damaged one.
Disturbed ==
  /\ hurt'
  /\ sending' \in Messages \cup {Nothing} /\ heard' \in Heard

\* Only between two messages do the ends get in step again.
Mend == hurt /\ ~hurt' /\ sending' = Nothing /\ heard' \in Heard

Next == Undisturbed \/ Disturbed \/ Mend

Spec == Init /\ [][Next]_linkVars
=============================================================================
