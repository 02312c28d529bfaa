---------------------------- MODULE MCPublication ----------------------------
(* Small instances of version publication for TLC. *)
EXTENDS Publication, TLC

CONSTANTS w1, w2, k1, k2, a, b, v1, v2, jan, feb   \* model values

\* One row in each of two months.
MCMonth == (k1 :> jan) @@ (k2 :> feb)

\* A response for both months, a revision of one of them, and no rows.
MCFrames == {(k1 :> a) @@ (k2 :> a), k1 :> b, EmptyRows}

\* A new dataset, or one with a version of both months.
MCEarlier == {EmptyRows, (k1 :> a) @@ (k2 :> a)}
=============================================================================
