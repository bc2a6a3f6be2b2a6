--------------------------- MODULE MCCampaignState ---------------------------
(* Instances of CampaignState for TLC. *)
EXTENDS CampaignState, TLC
CONSTANTS a1, e1, s1, c1, c2, goal, npcs, d1
Symmetric == Permutations(Drafter)
=============================================================================
