---------------------------- MODULE MCItemUpdate ----------------------------
(* Small instances of DataItem updates for TLC. *)
EXTENDS ItemUpdate, TLC

CONSTANTS p1, raw, base, top   \* model values

\* One Item on one raw dataset.
MCDirect == base :> {raw}

\* An Item that reads an Item that reads raw data.
MCChain == (base :> {raw}) @@ (top :> {base})

MCDays == 1 .. 2

\* A first range and its extension, or the whole range only.
MCGrowing == {<<1, 1>>, <<1, 2>>}
MCWhole == {<<1, 2>>}
=============================================================================
