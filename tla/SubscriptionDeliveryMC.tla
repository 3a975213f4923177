------------------------- MODULE SubscriptionDeliveryMC -------------------------
(***************************************************************************)
(* Instances of SubscriptionDelivery for TLC.                              *)
(***************************************************************************)
EXTENDS SubscriptionDelivery, TLC

CONSTANTS w1, w2, t1, t2

\* Only compared for equality.
Symmetry == Permutations(Workspaces) \cup Permutations(Texts)
=============================================================================
