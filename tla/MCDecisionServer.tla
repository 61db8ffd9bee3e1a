--------------------------- MODULE MCDecisionServer ---------------------------
(* Publishers are interchangeable, and so are contents that compile.            *)
EXTENDS DecisionServer, TLC

Symmetry == Permutations(Publishers) \cup Permutations(Clients)
              \cup Permutations(Digests \ Invalid)
===============================================================================
