---------------------------- MODULE DecisionStore ----------------------------
(***************************************************************************)
(* What a DecisionStore promises (the PackageStore and AuditStore interfaces *)
(* of decision_server.go and the calls of StoreConformanceSuite), without    *)
(* saying how: the record last saved under each package key, the key saved    *)
(* last for each name and environment, and the trail of audit records in the *)
(* order in which their saves took effect.  MemoryDecisionStore implements  *)
(* Spec, SQLiteDecisionStore the weaker LateSpec.                            *)
(***************************************************************************)
EXTENDS Naturals, Sequences

CONSTANTS Names,         (* package names                                   *)
          Versions,      (* package versions                                *)
          Environments,  (* package environments                            *)
          Digests,       (* package digests, one per package content        *)
          Records,       (* audit records                                   *)
          Nothing        (* no such entry                                   *)

Keys == [name : Names, version : Versions, environment : Environments]

VARIABLES packages,   (* packages[k]: digest stored under k, or Nothing      *)
          lastSaved,  (* lastSaved[<<n, e>>]: key saved last for n in e      *)
          trail       (* the audit records, oldest first                     *)

storeVars == <<packages, lastSaved, trail>>

Init ==
  /\ packages = [k \in Keys |-> Nothing]
  /\ lastSaved = [s \in Names \X Environments |-> Nothing]
  /\ trail = <<>>

SavePackage(k, d) ==
  /\ packages' = [packages EXCEPT ![k] = d]
  /\ lastSaved' = [lastSaved EXCEPT ![<<k.name, k.environment>>] = k]
  /\ UNCHANGED trail

SaveAuditEnvelope(r) ==
  /\ trail' = Append(trail, r)
  /\ UNCHANGED <<packages, lastSaved>>

Next ==
  \/ \E k \in Keys, d \in Digests : SavePackage(k, d)
  \/ \E r \in Records : SaveAuditEnvelope(r)

Spec == Init /\ [][Next]_storeVars

-------------------------------------------------------------------------------
(* A store whose stamps can say that a save came in late: the package saved       *)
(* becomes the latest of its name, or the latest stays what it was; when it was   *)
(* the latest itself that was saved again, another may be above it now.          *)
SavePackageLate(k, d) ==
  LET slot == <<k.name, k.environment>>
  IN  \E q \in Keys :
        /\ packages' = [packages EXCEPT ![k] = d]
        /\ packages'[q] # Nothing /\ <<q.name, q.environment>> = slot
        /\ lastSaved[slot] # k => q \in {k, lastSaved[slot]}
        /\ lastSaved' = [lastSaved EXCEPT ![slot] = q]
        /\ UNCHANGED trail

LateNext ==
  \/ \E k \in Keys, d \in Digests : SavePackageLate(k, d)
  \/ \E r \in Records : SaveAuditEnvelope(r)

LateSpec == Init /\ [][LateNext]_storeVars
===============================================================================
