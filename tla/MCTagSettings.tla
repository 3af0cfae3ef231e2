--------------------------- MODULE MCTagSettings ---------------------------
(* Small instances of TagSettings for TLC. *)
EXTENDS TagSettings

MCValues == {"a", "b"}
============================================================================
