-------------------------- MODULE MCTagImageStore --------------------------
(* Small instances of TagImageStore for TLC. *)
EXTENDS TagImageStore

\* two sizes, and more versions than the two slots, so that they are used again
MCVersions == 1 .. 3
MCSize == [v \in MCVersions |-> IF v = 2 THEN 1 ELSE 2]
\* one that fits, one that spills into the next slot, one the bitmap has no room for
MCSpillSize == [v \in MCVersions |-> CASE v = 1 -> 1 [] v = 2 -> 3 [] v = 3 -> 4]
MCSpillSecOf == [p \in 0 .. 0 |-> 1]
\* the first piece shares the header's erase unit, the second has its own
MCSecOf == [p \in 0 .. 1 |-> p]
=============================================================================
