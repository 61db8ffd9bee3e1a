------------------------ MODULE MCLiveDecisionRuntime ------------------------
(* Two versions of one package: an edit may change the version, the content of   *)
(* a version, or break the file.                                              *)
EXTENDS LiveDecisionRuntime
===============================================================================
