-------------------------- MODULE AtomicPublication --------------------------
(* What publication promises to the readers of one dataset, whatever writers *)
(* do, fail or die: a version is one whole set of changes against the        *)
(* content it follows, versions are only ever appended, and a response that  *)
(* changes nothing is recorded as a check of the content it agrees with.     *)
(* Publication.tla is the code that keeps this promise.                      *)
EXTENDS VersionContent

VARIABLES history,  \* the visible versions, each the rows it changed
          checked   \* the recorded checks: versions they saw, response

avars == <<history, checked>>

\* A new dataset, or one with a first version.
AInit == /\ history \in {<< >>} \cup {<<frame>> : frame \in Frames}
         /\ checked = << >>

\* A response with news becomes the next version.
AppendVersion(frame) ==
    /\ Changed(Latest(history), frame) # {}
    /\ history' = Append(history, Changes(Latest(history), frame))
    /\ UNCHANGED checked

\* A response without news leaves a check.
AppendCheck(frame) ==
    /\ Changed(Latest(history), frame) = {}
    /\ checked' = Append(checked, [upto |-> Len(history), frame |-> frame])
    /\ UNCHANGED history

ANext == \E frame \in Frames : AppendVersion(frame) \/ AppendCheck(frame)

ASpec == AInit /\ [][ANext]_avars
=============================================================================
