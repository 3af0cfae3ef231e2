------------------------- MODULE MCStationImgStore -------------------------
(* Small instances of StationImgStore for TLC. *)
EXTENDS StationImgStore

MCBits == {"b"}
MCFatHeads == {{}}
=============================================================================
