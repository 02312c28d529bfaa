--------------------------- MODULE MCPointInTime ---------------------------
(* A small instance of DataItem versions for TLC. *)
EXTENDS PointInTime

\* A range, its extension, and a tail that reads an observation before it.
MCRanges == {<<1, 2>>, <<1, 3>>, <<2, 3>>}
=============================================================================
