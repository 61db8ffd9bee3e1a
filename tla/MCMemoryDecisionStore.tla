------------------------ MODULE MCMemoryDecisionStore ------------------------
(* One package in two versions and two environments, two contents, three      *)
(* audit saves and one simulation: enough for a key to be replaced, for a      *)
(* later save in another environment to move the name slot, and for a chain    *)
(* with a middle link.                                                        *)
EXTENDS MemoryDecisionStore
===============================================================================
