---------------------------- MODULE MCPagination ----------------------------
(* Claims for TLC: a month, and a range with a gap.                        *)
EXTENDS Pagination

MCClaims == {1 .. NumDays, {1, NumDays}}
=============================================================================
