---------------------- MODULE MemoryDecisionStoreProofs ----------------------
(***************************************************************************)
(* For every value of the constants: MemoryDecisionStore keeps its types,     *)
(* its audit chain verifies in every reachable state, its two maps of latest  *)
(* agree, and it implements DecisionStore.                                   *)
(***************************************************************************)
EXTENDS MemoryDecisionStore, SequenceTheorems, TLAPS

(* Every stored envelope is the one NewEnvelope builds from its position, the *)
(* record saved there and the envelope before it.  ChainVerifies alone is not  *)
(* inductive: it does not say that lastAuditHash is the last link, nor that    *)
(* the id of an envelope is its position.                                     *)
EnvelopesBuilt ==
  \A i \in 1..nextAudit : \E ts \in Timestamps :
    envelopes[i] = NewEnvelope(i, ts, HashBefore(envelopes, i), audits[i])

HeadHash ==
  lastAuditHash = IF nextAudit = 0 THEN NoHash
                  ELSE envelopes[nextAudit].ChainHash

InOrder == auditOrder = [i \in 1..nextAudit |-> i]

IInv == TypeOK /\ InOrder /\ EnvelopesBuilt /\ HeadHash /\ LatestAgrees

-------------------------------------------------------------------------------
(* The fields of a new envelope.                                             *)
LEMMA NewEnvelopeFields ==
  ASSUME NEW seq, NEW ts, NEW prev, NEW r
  PROVE  LET e == NewEnvelope(seq, ts, prev, r)
         IN  /\ e.ID = AuditID(seq)
             /\ e.Sequence = seq
             /\ e.PreviousHash = prev
             /\ e.PayloadHash = auditPayloadHash(r)
             /\ e.Record = r
             /\ e.ChainHash = auditChainHash(e.Sequence, e.Timestamp, e.ID,
                                             e.PreviousHash, e.PayloadHash)
  BY DEF NewEnvelope

LEMMA InitIInv == Init => IInv
<1> SUFFICES ASSUME Init PROVE IInv
  OBVIOUS
<1> USE BoundAssumption, NothingAssumption DEF Init
<1>1. TypeOK
  BY DEF TypeOK
<1>2. InOrder /\ EnvelopesBuilt /\ HeadHash
  BY DEF InOrder, EnvelopesBuilt, HeadHash
<1>3. LatestAgrees
  BY DEF LatestAgrees, EnvironmentSlots, NameSlots
<1> QED
  BY <1>1, <1>2, <1>3 DEF IInv

(* A save of a package disturbs only the package maps.                       *)
LEMMA SavePackageIInv ==
  ASSUME IInv, NEW k \in Keys, NEW d \in Digests, SavePackage(k, d)
  PROVE  IInv'
<1> USE DEF SavePackage, RecordPackage, auditVars, simVars
<1>1. TypeOK'
  BY DEF IInv, TypeOK
<1>2. InOrder' /\ EnvelopesBuilt' /\ HeadHash'
  BY DEF IInv, InOrder, EnvelopesBuilt, HeadHash, HashBefore
<1>3. /\ k.name \in Names
      /\ EnvironmentSlot(k) \in EnvironmentSlots
      /\ EnvironmentSlot(k)[1] = k.name
  BY DEF Keys, EnvironmentSlot, EnvironmentSlots
<1>4. \A n \in Names : <<n>> \in NameSlots /\ <<n>> \notin EnvironmentSlots
  BY DEF NameSlots, EnvironmentSlots
<1>5. /\ \A s \in EnvironmentSlots :
           latest'[s] = IF s = EnvironmentSlot(k) THEN k ELSE latest[s]
      /\ \A n \in Names :
           latest'[<<n>>] = IF n = k.name THEN k ELSE latest[<<n>>]
  <2>1. DOMAIN latest = EnvironmentSlots \cup NameSlots
    BY DEF IInv, TypeOK
  <2>2. latest' = [s \in DOMAIN latest |->
                     IF s \in {EnvironmentSlot(k), <<k.name>>}
                     THEN k ELSE latest[s]]
    OBVIOUS
  <2> QED
    BY <1>3, <1>4, <2>1, <2>2
<1>6. /\ packages'[k] # Nothing
      /\ \A q \in Keys : q # k => packages'[q] = packages[q]
  BY NothingAssumption DEF IInv, TypeOK
<1>7. \A s \in EnvironmentSlots : s[1] \in Names /\ latest[s] \in Keys \cup {Nothing}
  BY DEF EnvironmentSlots, IInv, TypeOK
<1>8. \A n \in Names : latest[<<n>>] \in Keys \cup {Nothing}
  BY <1>4 DEF IInv, TypeOK
<1>9. LatestAgrees'
  <2>1. ASSUME NEW s \in EnvironmentSlots, latest'[s] # Nothing
        PROVE  /\ EnvironmentSlot(latest'[s]) = s
               /\ packages'[latest'[s]] # Nothing
               /\ latest'[<<s[1]>>] # Nothing
    BY <2>1, <1>3, <1>5, <1>6, <1>7, NothingAssumption DEF IInv, LatestAgrees
  <2>2. ASSUME NEW n \in Names, latest'[<<n>>] # Nothing
        PROVE  /\ latest'[<<n>>].name = n
               /\ latest'[EnvironmentSlot(latest'[<<n>>])] = latest'[<<n>>]
    <3>1. CASE n = k.name
      BY <3>1, <1>3, <1>5
    <3>2. CASE n # k.name
      <4>1. latest'[<<n>>] = latest[<<n>>] /\ latest[<<n>>] \in Keys
        BY <3>2, <2>2, <1>5, <1>8
      <4>2. /\ latest[<<n>>].name = n
            /\ latest[EnvironmentSlot(latest[<<n>>])] = latest[<<n>>]
        BY <4>1, <2>2 DEF IInv, LatestAgrees
      <4>3. EnvironmentSlot(latest[<<n>>]) \in EnvironmentSlots
        BY <4>1 DEF Keys, EnvironmentSlot, EnvironmentSlots
      <4>4. EnvironmentSlot(latest[<<n>>]) # EnvironmentSlot(k)
        BY <4>2, <3>2 DEF EnvironmentSlot
      <4> QED
        BY <4>1, <4>2, <4>3, <4>4, <1>5
    <3> QED
      BY <3>1, <3>2
  <2> QED
    BY <2>1, <2>2 DEF LatestAgrees
<1> QED
  BY <1>1, <1>2, <1>9 DEF IInv

(* A save of an audit envelope extends the chain by one link.                *)
LEMMA SaveAuditIInv ==
  ASSUME IInv, NEW r \in Records, NEW ts \in Timestamps,
         SaveAuditEnvelope(r, ts)
  PROVE  IInv'
<1> DEFINE seq == nextAudit + 1
           envelope == NewEnvelope(seq, ts, lastAuditHash, r)
<1>1. /\ nextAudit \in Nat /\ seq \in 1..MaxAudits
      /\ nextAudit' = seq
      /\ DOMAIN audits = 1..nextAudit /\ DOMAIN envelopes = 1..nextAudit
      /\ 1..seq = 1..nextAudit \cup {seq}
  BY BoundAssumption DEF SaveAuditEnvelope, IInv, TypeOK
<1>2. /\ audits' = [i \in 1..seq |-> IF i = seq THEN r ELSE audits[i]]
      /\ envelopes' = [i \in 1..seq |-> IF i = seq THEN envelope ELSE envelopes[i]]
      /\ auditOrder' = Append(auditOrder, seq)
      /\ lastAuditHash' = envelope.ChainHash
      /\ UNCHANGED <<packageVars, simVars>>
  BY <1>1 DEF SaveAuditEnvelope, StoreEnvelope
<1> HIDE DEF seq, envelope
<1>3. TypeOK'
  <2>1. audits' \in [1..seq -> Records]
    BY <1>1, <1>2 DEF IInv, TypeOK
  <2>2. auditOrder' \in Seq(Nat)
    BY <1>1, <1>2, AppendProperties DEF IInv, TypeOK
  <2> QED
    BY <1>1, <1>2, <2>1, <2>2, BoundAssumption
       DEF IInv, TypeOK, packageVars, simVars
<1>4. InOrder'
  <2>1. auditOrder \in Seq(Nat) /\ Len(auditOrder) = nextAudit
    BY <1>1 DEF IInv, InOrder, TypeOK
  <2>2. /\ auditOrder' \in Seq(Nat) /\ Len(auditOrder') = seq
        /\ \A i \in 1..nextAudit : auditOrder'[i] = auditOrder[i]
        /\ auditOrder'[seq] = seq
    BY <1>1, <1>2, <2>1, AppendProperties DEF seq
  <2>3. \A i \in 1..seq : auditOrder'[i] = i
    BY <1>1, <2>2 DEF IInv, InOrder
  <2> QED
    BY <1>1, <2>2, <2>3 DEF InOrder
<1>5. \A i \in 1..nextAudit : /\ envelopes'[i] = envelopes[i]
                              /\ audits'[i] = audits[i]
                              /\ HashBefore(envelopes', i) = HashBefore(envelopes, i)
  BY <1>1, <1>2 DEF HashBefore, seq
<1>6. envelopes'[seq] = envelope /\ audits'[seq] = r
  BY <1>1, <1>2
<1>7. HashBefore(envelopes', seq) = lastAuditHash
  BY <1>1, <1>5 DEF HashBefore, IInv, HeadHash, seq
<1>8. EnvelopesBuilt'
  <2>1. ASSUME NEW i \in 1..nextAudit'
        PROVE  \E t \in Timestamps :
                 envelopes'[i] = NewEnvelope(i, t, HashBefore(envelopes', i), audits'[i])
    <3>1. CASE i \in 1..nextAudit
      BY <3>1, <1>5 DEF IInv, EnvelopesBuilt
    <3>2. CASE i = seq
      BY <3>2, <1>6, <1>7 DEF envelope
    <3> QED
      BY <1>1, <3>1, <3>2
  <2> QED
    BY <2>1 DEF EnvelopesBuilt
<1>9. HeadHash'
  BY <1>1, <1>2, <1>6 DEF HeadHash
<1>10. LatestAgrees'
  BY <1>2 DEF IInv, LatestAgrees, packageVars
<1> QED
  BY <1>3, <1>4, <1>8, <1>9, <1>10 DEF IInv

LEMMA SaveSimulationIInv ==
  ASSUME IInv, NEW sim \in Simulations, SaveSimulation(sim)
  PROVE  IInv'
<1> USE DEF SaveSimulation, packageVars, auditVars
<1>1. TypeOK'
  BY BoundAssumption DEF IInv, TypeOK
<1>2. InOrder' /\ EnvelopesBuilt' /\ HeadHash' /\ LatestAgrees'
  BY DEF IInv, InOrder, EnvelopesBuilt, HeadHash, HashBefore, LatestAgrees
<1> QED
  BY <1>1, <1>2 DEF IInv

LEMMA StutterIInv == IInv /\ UNCHANGED vars => IInv'
  BY DEF vars, packageVars, auditVars, simVars, IInv, TypeOK, InOrder,
         EnvelopesBuilt, HeadHash, HashBefore, LatestAgrees

(* The strengthened invariant is inductive.                                  *)
THEOREM Invariance == Spec => []IInv
<1>1. Init => IInv
  BY InitIInv
<1>2. IInv /\ [Next]_vars => IInv'
  BY SavePackageIInv, SaveAuditIInv, SaveSimulationIInv, StutterIInv DEF Next
<1> QED
  BY <1>1, <1>2, PTL DEF Spec

-------------------------------------------------------------------------------
LEMMA IInvImplies ==
  IInv => TypeOK /\ ChainVerifies /\ AuditIndexCoherent /\ LatestAgrees
<1> SUFFICES ASSUME IInv
             PROVE  ChainVerifies /\ AuditIndexCoherent
  BY DEF IInv
<1>1. nextAudit \in Nat /\ DOMAIN auditOrder = 1..nextAudit
  BY BoundAssumption DEF IInv, TypeOK, InOrder
<1>2. ListAuditEnvelopes = [i \in 1..nextAudit |-> envelopes[i]]
  BY <1>1 DEF ListAuditEnvelopes, IInv, InOrder
<1>3. ASSUME NEW i \in 1..nextAudit
      PROVE  /\ envelopes[i].ID = AuditID(i)
             /\ envelopes[i].Sequence = i
             /\ envelopes[i].Record = audits[i]
             /\ envelopes[i].PreviousHash = HashBefore(envelopes, i)
             /\ SelfConsistent(envelopes[i])
  <2>1. PICK ts \in Timestamps :
          envelopes[i] = NewEnvelope(i, ts, HashBefore(envelopes, i), audits[i])
    BY DEF IInv, EnvelopesBuilt
  <2> QED
    BY <1>1, <2>1, NewEnvelopeFields DEF SelfConsistent
<1>4. ChainVerifies
  <2>1. ASSUME NEW i \in 1..nextAudit
        PROVE  HashBefore(ListAuditEnvelopes, i) = HashBefore(envelopes, i)
    BY <1>1, <1>2 DEF HashBefore
  <2>2. \A i \in 1..nextAudit :
          i > 1 => envelopes[i].Sequence = envelopes[i - 1].Sequence + 1
    BY <1>1, <1>3
  <2>3. /\ DOMAIN ListAuditEnvelopes = 1..nextAudit
        /\ \A i \in 1..nextAudit : ListAuditEnvelopes[i] = envelopes[i]
        /\ \A i \in 1..nextAudit :
             i > 1 => ListAuditEnvelopes[i - 1] = envelopes[i - 1]
    BY <1>1, <1>2
  <2> QED
    BY <1>3, <2>1, <2>2, <2>3 DEF ChainVerifies, VerifyAuditChain
<1>5. AuditIndexCoherent
  BY <1>3 DEF AuditIndexCoherent, IInv, InOrder, HeadHash
<1> QED
  BY <1>4, <1>5

(* Type correctness in every reachable state, for any bounds and any sets of  *)
(* names, versions, environments, digests and records.                       *)
THEOREM TypeCorrect == Spec => []TypeOK
  BY Invariance, IInvImplies, PTL

(* VerifyAuditChain accepts what the memory store lists, in every state.     *)
THEOREM ChainAlwaysVerifies == Spec => []ChainVerifies
  BY Invariance, IInvImplies, PTL

(* GetAudit, GetAuditEnvelope and the two lists answer from one history.      *)
THEOREM AuditIndexAlwaysCoherent == Spec => []AuditIndexCoherent
  BY Invariance, IInvImplies, PTL

(* The name slot and the environment slots of latest never disagree.          *)
THEOREM LatestAlwaysAgrees == Spec => []LatestAgrees
  BY Invariance, IInvImplies, PTL

-------------------------------------------------------------------------------
LEMMA InitRefines == Init => Abstract!Init
<1> SUFFICES ASSUME Init PROVE Abstract!Init
  OBVIOUS
<1>1. [s \in EnvironmentSlots |-> latest[s]] = [s \in Names \X Environments |-> Nothing]
  BY DEF Init, EnvironmentSlots
<1>2. ListAudits = <<>>
  BY DEF Init, ListAudits
<1> QED
  BY <1>1, <1>2 DEF Init, Abstract!Init, Keys, Abstract!Keys

LEMMA ListAuditsIsAudits ==
  IInv => /\ ListAudits = audits
          /\ audits \in Seq(Records)
          /\ Len(audits) = nextAudit
<1> SUFFICES ASSUME IInv
             PROVE  /\ ListAudits = audits
                    /\ audits \in Seq(Records)
                    /\ Len(audits) = nextAudit
  OBVIOUS
<1>1. nextAudit \in Nat /\ audits \in [1..nextAudit -> Records]
  BY BoundAssumption DEF IInv, TypeOK
<1>2. ListAudits = [i \in 1..nextAudit |-> audits[i]]
  BY <1>1 DEF ListAudits, IInv, InOrder
<1> QED
  BY <1>1, <1>2

LEMMA StepRefines ==
  IInv /\ IInv' /\ [Next]_vars => [Abstract!Next]_(Abstract!storeVars)
<1> SUFFICES ASSUME IInv, IInv', [Next]_vars
             PROVE  Abstract!Next \/ UNCHANGED Abstract!storeVars
  BY DEF Abstract!storeVars
<1>1. /\ ListAudits = audits /\ ListAudits' = audits'
      /\ audits \in Seq(Records) /\ audits' \in Seq(Records)
      /\ Len(audits) = nextAudit /\ Len(audits') = nextAudit'
  <2>1. (IInv => /\ ListAudits = audits
                 /\ audits \in Seq(Records)
                 /\ Len(audits) = nextAudit)'
    BY ListAuditsIsAudits, PTL
  <2> QED
    BY ListAuditsIsAudits, <2>1
<1>2. ASSUME NEW k \in Keys, NEW d \in Digests, SavePackage(k, d)
      PROVE  Abstract!SavePackage(k, d)
  <2>1. packages' = [packages EXCEPT ![k] = d] /\ audits' = audits
    BY <1>2 DEF SavePackage, RecordPackage, auditVars
  <2>2. [s \in EnvironmentSlots |-> latest'[s]] =
          [[s \in EnvironmentSlots |-> latest[s]] EXCEPT ![<<k.name, k.environment>>] = k]
    <3>1. DOMAIN latest = EnvironmentSlots \cup NameSlots
      BY DEF IInv, TypeOK
    <3>2. latest' = [s \in DOMAIN latest |->
                       IF s \in {EnvironmentSlot(k), <<k.name>>}
                       THEN k ELSE latest[s]]
      BY <1>2 DEF SavePackage, RecordPackage
    <3>3. <<k.name>> \notin EnvironmentSlots
      BY DEF EnvironmentSlots
    <3>4. \A s \in EnvironmentSlots :
            latest'[s] = IF s = <<k.name, k.environment>> THEN k ELSE latest[s]
      BY <3>1, <3>2, <3>3 DEF EnvironmentSlot
    <3> QED
      BY <3>4
  <2> QED
    BY <1>1, <2>1, <2>2 DEF Abstract!SavePackage
<1>3. ASSUME NEW r \in Records, NEW ts \in Timestamps, SaveAuditEnvelope(r, ts)
      PROVE  Abstract!SaveAuditEnvelope(r)
  <2>1. /\ nextAudit' = nextAudit + 1
        /\ audits' = [i \in DOMAIN audits \cup {nextAudit + 1} |->
                        IF i = nextAudit + 1 THEN r ELSE audits[i]]
        /\ packages' = packages /\ latest' = latest
    BY <1>3 DEF SaveAuditEnvelope, StoreEnvelope, packageVars
  <2>2. nextAudit \in Nat /\ DOMAIN audits = 1..nextAudit
    BY BoundAssumption DEF IInv, TypeOK
  <2>3. audits' = Append(audits, r)
    <3>1. /\ Append(audits, r) \in Seq(Records)
          /\ Len(Append(audits, r)) = nextAudit + 1
          /\ \A i \in 1..nextAudit : Append(audits, r)[i] = audits[i]
          /\ Append(audits, r)[nextAudit + 1] = r
      BY <1>1, AppendProperties
    <3>2. \A i \in 1..Len(audits') : audits'[i] = Append(audits, r)[i]
      BY <1>1, <2>1, <2>2, <3>1
    <3>3. Len(audits') = Len(Append(audits, r))
      BY <1>1, <2>1, <3>1
    <3> DEFINE longer == Append(audits, r)
    <3>4. longer \in Seq(Records) /\ Len(audits') = Len(longer)
      BY <3>1, <3>3
    <3>5. \A i \in 1..Len(audits') : audits'[i] = longer[i]
      BY <3>2
    <3> HIDE DEF longer
    <3>6. audits' = longer
      BY <1>1, <3>4, <3>5, SeqEqual
    <3> QED
      BY <3>6 DEF longer
  <2> QED
    BY <1>1, <2>1, <2>3 DEF Abstract!SaveAuditEnvelope
<1>4. ASSUME NEW sim \in Simulations, SaveSimulation(sim)
      PROVE  UNCHANGED Abstract!storeVars
  BY <1>1, <1>4 DEF SaveSimulation, packageVars, auditVars, Abstract!storeVars
<1>5. CASE UNCHANGED vars
  BY <1>1, <1>5 DEF vars, packageVars, auditVars, Abstract!storeVars
<1> QED
  BY <1>2, <1>3, <1>4, <1>5 DEF Next, Abstract!Next, Keys, Abstract!Keys

(* The memory store implements the abstract DecisionStore: every save of a    *)
(* package or an audit is the abstract one, everything else is a stutter.     *)
THEOREM Refinement == Spec => ImplementsDecisionStore
<1>1. Init => Abstract!Init
  BY InitRefines
<1>2. IInv /\ IInv' /\ [Next]_vars => [Abstract!Next]_(Abstract!storeVars)
  BY StepRefines
<1> QED
  BY <1>1, <1>2, Invariance, PTL DEF Spec, ImplementsDecisionStore, Abstract!Spec
===============================================================================
