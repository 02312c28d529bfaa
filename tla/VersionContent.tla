--------------------------- MODULE VersionContent ---------------------------
(* The content of a by_date dataset as its versions make it: rows under      *)
(* natural keys, responses, the changes a version holds, and the resolution  *)
(* of several versions to one content.                                       *)
EXTENDS Naturals, Sequences, FiniteSets

CONSTANTS Keys,     \* natural keys of observations (source_time, asset_id)
          Values,   \* payloads, compared as a whole (_payload_hash)
          Frames    \* the responses a provider may give

\* A set of rows: at most one payload for each key.
Contents == UNION {[K -> Values] : K \in SUBSET Keys}

\* The keys some version of h has a row for.
Written(h) == UNION {DOMAIN h[i] : i \in DOMAIN h}

\* Version resolution: the latest version that has the key.
LastWriter(h, k) ==
    CHOOSE i \in DOMAIN h : /\ k \in DOMAIN h[i]
                            /\ \A j \in DOMAIN h : k \in DOMAIN h[j] => j <= i

Latest(h) == [k \in Written(h) |-> h[LastWriter(h, k)][k]]

\* The rows of a response that the content does not have already.
Changed(old, frame) ==
    {k \in DOMAIN frame : k \in DOMAIN old => old[k] # frame[k]}
Changes(old, frame) == [k \in Changed(old, frame) |-> frame[k]]
=============================================================================
