------------------------ MODULE MCSQLiteDecisionStore ------------------------
(* An instance of SQLiteDecisionStore: the second instant is printed longer than  *)
(* the first, and its text is below that of the first; the third is of the next    *)
(* second.                                                                    *)
EXTENDS SQLiteDecisionStore, TLC

TwoSeconds == <<110, 112, 200>>

(* Calls and handles are interchangeable in the run without liveness.           *)
Symmetry == Permutations(Handles) \cup Permutations(AuditCalls)
              \cup Permutations(PackageCalls)
===============================================================================
