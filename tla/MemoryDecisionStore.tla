------------------------- MODULE MemoryDecisionStore -------------------------
(***************************************************************************)
(* MemoryDecisionStore of decision_server.go.  Every method holds the        *)
(* store's mutex for its whole effect, so one method is one action.  A       *)
(* method whose context is already done returns before it takes the lock and  *)
(* changes nothing (DecisionServer models that answer).                      *)
(*                                                                          *)
(* auditPayloadHash cannot fail here: an AuditRecord holds strings only, so   *)
(* the error return between the increment of nextAudit and the stores that    *)
(* follow it is never taken.                                                 *)
(***************************************************************************)
EXTENDS AuditChain

CONSTANTS Names, Versions, Environments, Digests,
          Records,      (* audit records                                    *)
          Simulations,  (* simulation results                               *)
          Timestamps,   (* values of time.Now in RFC3339Nano                *)
          Nothing,      (* no entry in a map                                *)
          MaxAudits,    (* bound: audit envelopes saved                     *)
          MaxSims       (* bound: simulations saved                         *)

ASSUME BoundAssumption == MaxAudits \in Nat /\ MaxSims \in Nat

Keys == [name : Names, version : Versions, environment : Environments]

(* The two spellings of a key of latest: name\0environment, and name alone. *)
EnvironmentSlots == Names \X Environments
NameSlots == {<<n>> : n \in Names}

ASSUME NothingAssumption == Nothing \notin Keys /\ Nothing \notin Digests

VARIABLES packages, latest, audits, envelopes, auditOrder, simulations,
          nextAudit, nextSim, lastAuditHash

packageVars == <<packages, latest>>
auditVars == <<audits, envelopes, auditOrder, nextAudit, lastAuditHash>>
simVars == <<simulations, nextSim>>
vars == <<packageVars, auditVars, simVars>>

Init ==
  /\ packages = [k \in Keys |-> Nothing]
  /\ latest = [s \in EnvironmentSlots \cup NameSlots |-> Nothing]
  /\ audits = <<>>
  /\ envelopes = <<>>
  /\ auditOrder = <<>>
  /\ simulations = <<>>
  /\ nextAudit = 0
  /\ nextSim = 0
  /\ lastAuditHash = NoHash

EnvironmentSlot(k) == <<k.name, k.environment>>

RecordPackage(k, d, slots) ==
  /\ packages' = [packages EXCEPT ![k] = d]
  /\ latest' = [s \in DOMAIN latest |-> IF s \in slots THEN k ELSE latest[s]]
  /\ UNCHANGED <<auditVars, simVars>>

(* Slips: the name slot, or every slot, is written by the first save only.   *)
SavePackage_NameOnce(k, d) ==
  RecordPackage(k, d, {EnvironmentSlot(k)} \cup
                      {s \in {<<k.name>>} : latest[s] = Nothing})
SavePackage_LatestOnce(k, d) ==
  RecordPackage(k, d, {s \in {EnvironmentSlot(k), <<k.name>>} :
                         latest[s] = Nothing})

SavePackage(k, d) == RecordPackage(k, d, {EnvironmentSlot(k), <<k.name>>})

(* GetPackage with a version, and with an empty one: the key that answers.   *)
LatestKey(n, e) ==
  IF latest[<<n, e>>] # Nothing THEN latest[<<n, e>>] ELSE latest[<<n>>]

GetPackage(n, e) ==
  IF LatestKey(n, e) = Nothing THEN Nothing ELSE packages[LatestKey(n, e)]

GetPackageVersion(n, v, e) ==
  packages[[name |-> n, version |-> v, environment |-> e]]

(* The maps audits and envelopes are keyed by "audit_<n>"; they are functions *)
(* of n here, which AuditID makes the same thing.                            *)
StoreEnvelope(id, r, envelope, lastHash) ==
  /\ audits' = [i \in DOMAIN audits \cup {id} |->
                  IF i = id THEN r ELSE audits[i]]
  /\ envelopes' = [i \in DOMAIN envelopes \cup {id} |->
                     IF i = id THEN envelope ELSE envelopes[i]]
  /\ auditOrder' = Append(auditOrder, id)
  /\ lastAuditHash' = lastHash
  /\ UNCHANGED <<packageVars, simVars>>

(* Slips: the head hash is not advanced; the counter is bumped after its use. *)
SaveAuditEnvelope_StaleHead(r, ts) ==
  LET seq == nextAudit + 1
      envelope == NewEnvelope(seq, ts, lastAuditHash, r)
  IN  /\ nextAudit < MaxAudits
      /\ nextAudit' = seq
      /\ StoreEnvelope(seq, r, envelope, lastAuditHash)
SaveAuditEnvelope_OldSequence(r, ts) ==
  LET envelope == NewEnvelope(nextAudit, ts, lastAuditHash, r)
  IN  /\ nextAudit < MaxAudits
      /\ nextAudit' = nextAudit + 1
      /\ StoreEnvelope(nextAudit + 1, r, envelope, envelope.ChainHash)

SaveAuditEnvelope(r, ts) ==
  LET seq == nextAudit + 1
      envelope == NewEnvelope(seq, ts, lastAuditHash, r)
  IN  /\ nextAudit < MaxAudits
      /\ nextAudit' = seq
      /\ StoreEnvelope(seq, r, envelope, envelope.ChainHash)

SaveSimulation(sim) ==
  LET id == nextSim + 1
  IN  /\ nextSim < MaxSims
      /\ nextSim' = id
      /\ simulations' = [i \in DOMAIN simulations \cup {id} |->
                           IF i = id THEN sim ELSE simulations[i]]
      /\ UNCHANGED <<packageVars, auditVars>>

ListAudits == [i \in DOMAIN auditOrder |-> audits[auditOrder[i]]]
ListAuditEnvelopes == [i \in DOMAIN auditOrder |-> envelopes[auditOrder[i]]]

Next ==
  \/ \E k \in Keys, d \in Digests : SavePackage(k, d)
  \/ \E r \in Records, ts \in Timestamps : SaveAuditEnvelope(r, ts)
  \/ \E sim \in Simulations : SaveSimulation(sim)

Spec == Init /\ [][Next]_vars
-------------------------------------------------------------------------------
TypeOK ==
  /\ packages \in [Keys -> Digests \cup {Nothing}]
  /\ latest \in [EnvironmentSlots \cup NameSlots -> Keys \cup {Nothing}]
  /\ nextAudit \in 0..MaxAudits
  /\ nextSim \in 0..MaxSims
  /\ auditOrder \in Seq(Nat)
  /\ audits \in [1..nextAudit -> Records]
  /\ DOMAIN envelopes = 1..nextAudit
  /\ simulations \in [1..nextSim -> Simulations]

(* What ListAuditEnvelopes answers is accepted by VerifyAuditChain at every   *)
(* moment, whatever saves came before (docs/production-checklist.md:43).      *)
ChainVerifies == VerifyAuditChain(ListAuditEnvelopes)

(* The audit index is coherent: the envelope stored under an id carries the   *)
(* record stored under that id and the id itself, every envelope is listed    *)
(* once and in sequence order, and the next one will be chained to the last.  *)
AuditIndexCoherent ==
  /\ auditOrder = [i \in 1..nextAudit |-> i]
  /\ \A i \in 1..nextAudit : /\ envelopes[i].Record = audits[i]
                             /\ envelopes[i].ID = AuditID(i)
                             /\ envelopes[i].Sequence = i
  /\ lastAuditHash = IF nextAudit = 0 THEN NoHash
                     ELSE envelopes[nextAudit].ChainHash

(* Both spellings of latest agree: what the name alone resolves to is the     *)
(* latest package of its own environment, and a latest key always names a     *)
(* stored package of that name, so GetPackage never dereferences a missing    *)
(* record.                                                                   *)
LatestAgrees ==
  /\ \A s \in EnvironmentSlots :
       latest[s] # Nothing => /\ EnvironmentSlot(latest[s]) = s
                              /\ packages[latest[s]] # Nothing
                              /\ latest[<<s[1]>>] # Nothing
  /\ \A n \in Names :
       latest[<<n>>] # Nothing =>
         /\ latest[<<n>>].name = n
         /\ latest[EnvironmentSlot(latest[<<n>>])] = latest[<<n>>]

(* The store implements DecisionStore: the environment slots of latest are    *)
(* the keys saved last, ListAudits is the trail.                             *)
Abstract == INSTANCE DecisionStore WITH
  lastSaved <- [s \in EnvironmentSlots |-> latest[s]],
  trail <- ListAudits

ImplementsDecisionStore == Abstract!Spec
===============================================================================
