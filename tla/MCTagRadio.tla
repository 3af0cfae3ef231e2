----------------------------- MODULE MCTagRadio -----------------------------
(* Small instances of TagRadio for TLC. *)
EXTENDS TagRadio

MCPackets == {"a", "b"}
MCNoise   == {"n"}
MCLength  == [c \in MCPackets \cup MCNoise \cup {"none"} |-> IF c = "b" THEN 2 ELSE 1]
=============================================================================
