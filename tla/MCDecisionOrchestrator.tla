------------------------ MODULE MCDecisionOrchestrator ------------------------
(* Two names, a version and no version, an environment and none: every branch   *)
(* of resolve answers some query.                                            *)
EXTENDS DecisionOrchestrator
===============================================================================
