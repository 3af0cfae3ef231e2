-------------------------- MODULE SettingsRegister --------------------------
(***************************************************************************)
(* What settingsRead and settingsWrite promise: the settings are a single  *)
(* cell.  A wake-up works on a copy; saving replaces the cell by the copy  *)
(* at one stroke, and a wake-up cut short leaves the cell as it was.       *)
(***************************************************************************)
CONSTANTS Values, Default, None

VARIABLES
  saved,   \* the saved settings, None before there are any
  on,      \* is the tag awake?
  copy     \* the copy a wake-up works on, None while it sleeps

regVars == <<saved, on, copy>>

Init == saved \in Values \cup {None} /\ ~on /\ copy = None

Wake ==
  /\ ~on /\ on' = TRUE
  /\ copy' = IF saved = None THEN Default ELSE saved
  /\ UNCHANGED saved

Change == on /\ copy' \in Values /\ UNCHANGED <<on, saved>>

Save == on /\ saved' = copy /\ UNCHANGED <<on, copy>>

SaveAndSleep == on /\ saved' = copy /\ on' = FALSE /\ copy' = None

PowerLoss == on /\ on' = FALSE /\ copy' = None /\ UNCHANGED saved

Next == Wake \/ Change \/ Save \/ SaveAndSleep \/ PowerLoss

Spec == Init /\ [][Next]_regVars
=============================================================================
