------------------------------ MODULE ExclusiveUse ------------------------------
(***************************************************************************)
(* What the single transcription slot promises: the models serve one user  *)
(* at a time, who is never interrupted by another one.  A user leaves when *)
(* its work has ended, or everything ends together with the process.       *)
(***************************************************************************)
CONSTANT Users

VARIABLE using

Init == using = {}
Take(u) == using = {} /\ using' = {u}
Leave(u) == using = {u} /\ using' = {}
Stop == using' = {}
Next == Stop \/ \E u \in Users : Take(u) \/ Leave(u)
Spec == Init /\ [][Next]_using
=============================================================================
