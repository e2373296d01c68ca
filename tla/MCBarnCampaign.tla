---------------------------- MODULE MCBarnCampaign ----------------------------
(* Model-checking instance of BarnCampaign: a retried cell and a second cell. *)
EXTENDS BarnCampaign, TLC

CONSTANTS a1, a2, a3, primary, ablation

MCAttempts == {a1, a2, a3}
MCCells    == {primary, ablation}
MCCellOf   == (a1 :> primary) @@ (a2 :> ablation) @@ (a3 :> primary)
=============================================================================
