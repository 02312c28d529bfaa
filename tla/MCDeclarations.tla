--------------------------- MODULE MCDeclarations ---------------------------
(* Batches for TLC: a small catalog, one that hangs more below it, an archived one. *)
EXTENDS Declarations, TLC

CONSTANTS r, a, b, c1, c2, n   \* model values

Live(inputs) == [active |-> TRUE, inputs |-> inputs]
Raw(active) == [active |-> active, enabled |-> TRUE, calendar |-> NoName]

MCBase == [raw |-> r :> Raw(TRUE), items |-> a :> Live({r}),
           nodes |-> c1 :> [name |-> n, parent |-> NoName], assigned |-> a :> c1]
MCBelow == [raw |-> <<>>, items |-> b :> Live({a}),
            nodes |-> c2 :> [name |-> n, parent |-> c1], assigned |-> b :> c2]
MCArchived == [raw |-> r :> Raw(FALSE), items |-> a :> [active |-> FALSE, inputs |-> {r}],
               nodes |-> <<>>, assigned |-> <<>>]
MCPayloads == {MCBase, MCBelow, MCArchived}
=============================================================================
