--------------------------- MODULE MCGateCampaign ---------------------------
(* Model-checking instance of GateCampaign. *)
EXTENDS GateCampaign
=============================================================================
