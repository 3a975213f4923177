----------------------------- MODULE MeetingJobsMC -----------------------------
(***************************************************************************)
(* Instances of MeetingJobs for TLC.                                       *)
(***************************************************************************)
EXTENDS MeetingJobs, TLC

CONSTANTS i1, i2, i3, t1, t2, t3, t4, x, y

\* Ids, tokens and scopes are interchangeable: only compared for equality.
Symmetry == Permutations(Ids) \cup Permutations(Tokens) \cup Permutations(Scopes)

\* Two revisions of one utterance, then an unrelated utterance.
MCKeys3 == {"a1", "a2", "b1"}
MCKeys2 == {"a1", "a2"}
MCSessionOf(keys) == [k \in keys |-> "s"]
MCUttOf(keys) == [k \in keys |-> IF k = "b1" THEN "b" ELSE "a"]
MCRevOf(keys) == [k \in keys |-> IF k = "a2" THEN 2 ELSE 1]
MCKeys1 == {"a1"}
MCKeysAB == {"a1", "b1"}
SessionOf1 == MCSessionOf(MCKeys1)
UttOf1 == MCUttOf(MCKeys1)
RevOf1 == MCRevOf(MCKeys1)
SessionOfAB == MCSessionOf(MCKeysAB)
UttOfAB == MCUttOf(MCKeysAB)
RevOfAB == MCRevOf(MCKeysAB)
SessionOf2 == MCSessionOf(MCKeys2)
UttOf2 == MCUttOf(MCKeys2)
RevOf2 == MCRevOf(MCKeys2)
SessionOf3 == MCSessionOf(MCKeys3)
UttOf3 == MCUttOf(MCKeys3)
RevOf3 == MCRevOf(MCKeys3)
=============================================================================
