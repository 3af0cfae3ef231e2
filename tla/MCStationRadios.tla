--------------------------- MODULE MCStationRadios ---------------------------
(* Small instances of StationRadios for TLC. *)
EXTENDS StationRadios

MCMine   == {"m", "mAck"}
MCOthers == {"o", "oAck"}
MCSeqs   == {"s", "t"}
=============================================================================
