-------------------------- MODULE MCCampaignCommit --------------------------
(* CampaignCommit on small instances. *)
EXTENDS CampaignCommit, TLC

Symmetry == Permutations(Handler) \cup Permutations(Hash)
=============================================================================
