------------------------- MODULE MCExperimentQueue -------------------------
(* Small instances of ExperimentQueue for TLC.                              *)
EXTENDS ExperimentQueueInv

\* the second job's digest is pinned by the plan, the first one's is not
FirstAny == [j \in Jobs |-> IF j = 1 THEN Good ELSE {"v1"}]
Safe1 == {1}
Unsafe == {}
=============================================================================
