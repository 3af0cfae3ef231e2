---------------------------- MODULE MCTagSession ----------------------------
(* Small instances of TagSession for TLC. *)
EXTENDS TagSession

MCVersions == 1 .. 2

\* Thresholds that differ, that are equal, and that never dissociate or blank.
MCOffers == {<<2, 3>>, <<2, 2>>, <<2, 0>>, <<0, 2>>}
=============================================================================
