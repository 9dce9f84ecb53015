---------------------------- MODULE MCRewardEnv ----------------------------
(* Small rewards, of the signs the shipped configurations give them.       *)
EXTENDS RewardEnv

Penalty == -1
===========================================================================
