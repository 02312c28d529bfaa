--------------------------- MODULE MCMaintenance ---------------------------
(* Two Items for TLC, one of which reads the other.                        *)
EXTENDS Maintenance, TLC

CONSTANTS a, b   \* model values

MCReads == (a :> {}) @@ (b :> {a})
=============================================================================
