----------------------------- MODULE MCRestCache -----------------------------
(* The instances in which every cached action is cleared by a rule, and    *)
(* rows keep their owner or one writer that reloads them moves them: the   *)
(* configurations RestCacheProofs proves about.                            *)
EXTENDS MCRestCacheConfigs

ASSUME InstanceAssumption == WellConfigured
==============================================================================
