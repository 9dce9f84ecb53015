------------------------ MODULE MCCampaignSupervisor ------------------------
(* Small instances of CampaignSupervisor for TLC.                           *)
EXTENDS CampaignSupervisor
=============================================================================
