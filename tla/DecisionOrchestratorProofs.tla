---------------------- MODULE DecisionOrchestratorProofs ----------------------
(***************************************************************************)
(* DecisionOrchestrator is correct for any names, versions, environments and  *)
(* contents.  LatestCoherent is what makes its properties inductive: a latest  *)
(* pointer leads to a compiled package of its own slot.                       *)
(***************************************************************************)
EXTENDS DecisionOrchestrator, TLAPS

LatestCoherent ==
  \A s \in Filled : SlotOf(latest[s]) = s /\ packages[latest[s]] # Nothing

IInv == TypeOK /\ LatestCoherent

(* The fields of a key, and the slot they make.                              *)
LEMMA KeyFields ==
  ASSUME NEW k \in Keys
  PROVE  /\ k.name \in Names /\ k.version \in Versions
         /\ k.environment \in Environments /\ SlotOf(k) \in Slots
BY DEF Keys, SlotOf, Slots

(* One slot for each name and environment.                                   *)
LEMMA SlotsApart ==
  ASSUME NEW k, NEW q, SlotOf(k) = SlotOf(q)
  PROVE  k.name = q.name /\ k.environment = q.environment
BY DEF SlotOf

LEMMA LatestIsAKey ==
  ASSUME TypeOK, NEW s \in Filled
  PROVE  s \in Slots /\ latest[s] \in Keys /\ latest[s] # Nothing
BY DEF TypeOK, Filled

LEMMA InitInvariant == Init => IInv
BY DEF Init, IInv, TypeOK, LatestCoherent, Filled

(* AddPackage stores the package under the key it points the slot at.         *)
LEMMA InstallInvariant ==
  ASSUME IInv, NEW k \in Keys, NEW d \in Digests, Install(k, d)
  PROVE  IInv'
<1>1. SlotOf(k) \in Slots
  BY KeyFields
<1>2. k # Nothing /\ d # Nothing
  BY NothingAssumption
<1>3. TypeOK'
  BY <1>1 DEF IInv, TypeOK, Install
<1>4. ASSUME NEW s \in Filled'
      PROVE  SlotOf(latest'[s]) = s /\ packages'[latest'[s]] # Nothing
  <2>1. s \in Slots /\ latest'[s] # Nothing
    BY DEF Filled
  <2>2. CASE s = SlotOf(k)
    <3>1. latest'[s] = k
      BY <1>1, <2>2 DEF IInv, TypeOK, Install
    <3>2. packages'[k] = d
      BY DEF IInv, TypeOK, Install
    <3> QED BY <1>2, <2>2, <3>1, <3>2
  <2>3. CASE s # SlotOf(k)
    <3>1. latest'[s] = latest[s]
      BY <2>1, <2>3 DEF IInv, TypeOK, Install
    <3>2. s \in Filled
      BY <2>1, <3>1 DEF Filled
    <3>3. latest[s] \in Keys /\ SlotOf(latest[s]) = s /\ packages[latest[s]] # Nothing
      BY <3>2, LatestIsAKey DEF IInv, LatestCoherent
    <3>4. packages'[latest[s]] # Nothing
      BY <1>2, <3>3 DEF IInv, TypeOK, Install
    <3> QED BY <3>1, <3>3, <3>4
  <2> QED BY <2>2, <2>3
<1>5. LatestCoherent'
  BY <1>4 DEF LatestCoherent, SlotOf
<1> QED BY <1>3, <1>5 DEF IInv

LEMMA StutterInvariant ==
  ASSUME IInv, UNCHANGED orchestratorVars
  PROVE  IInv'
BY DEF IInv, TypeOK, LatestCoherent, Filled, SlotOf, orchestratorVars

(* The inductive invariant holds of every behaviour of the orchestrator.      *)
THEOREM Invariance == Spec => []IInv
<1>1. IInv /\ [Next]_orchestratorVars => IInv'
  BY InstallInvariant, StutterInvariant DEF Next
<1> QED BY InitInvariant, <1>1, PTL DEF Spec

(* The orchestrator's maps keep their types.                                 *)
THEOREM TypeCorrect == Spec => []TypeOK
<1>1. IInv => TypeOK
  BY DEF IInv
<1> QED BY Invariance, <1>1, PTL

(* What each branch of resolve hands out.                                    *)
LEMMA FromASlot ==
  ASSUME IInv, NEW s \in Filled
  PROVE  /\ latest[s] \in Keys
         /\ packages[latest[s]] # Nothing
         /\ SlotOf(latest[s]) = s
BY LatestIsAKey DEF IInv, LatestCoherent

LEMMA ResolveSources ==
  ASSUME NEW q \in Queries, NEW k \in Resolve(q)
  PROVE  \/ k \in ExactKeys(q)
         \/ \E s \in Filled :
              /\ k = latest[s]
              /\ \/ OnlyOneLatest(q)
                 \/ q.version = Empty /\ s = SlotOf(q)
                 \/ /\ q.version = Empty /\ q.environment = Empty
                    /\ s[1] = q.name
<1>1. CASE OnlyOneLatest(q)
  BY <1>1 DEF Resolve, LatestKeys
<1>2. CASE ~OnlyOneLatest(q) /\ ExactKeys(q) # {}
  BY <1>2 DEF Resolve
<1>3. CASE ~OnlyOneLatest(q) /\ ExactKeys(q) = {}
  <2>1. q.version = Empty /\ k \in Unversioned(q)
    BY <1>3 DEF Resolve
  <2>2. CASE SlotKeys(q) # {} \/ q.environment # Empty
    <3>1. k \in SlotKeys(q)
      BY <2>1, <2>2 DEF Unversioned
    <3> QED BY <2>1, <3>1 DEF SlotKeys
  <2>3. CASE SlotKeys(q) = {} /\ q.environment = Empty
    <3>1. k \in AnyEnvironmentKeys(q)
      BY <2>1, <2>3 DEF Unversioned
    <3> QED BY <2>1, <2>3, <3>1 DEF AnyEnvironmentKeys
  <2> QED BY <2>2, <2>3
<1> QED BY <1>1, <1>2, <1>3

(* resolve never hands out a nil package.                                    *)
LEMMA ResolvesToCompiled ==
  ASSUME IInv, NEW q \in Queries, NEW k \in Resolve(q)
  PROVE  k \in Keys /\ packages[k] # Nothing
<1>1. CASE k \in ExactKeys(q)
  BY <1>1 DEF ExactKeys
<1>2. CASE \E s \in Filled : k = latest[s]
  BY <1>2, FromASlot
<1> QED BY <1>1, <1>2, ResolveSources

(* What is answered is compiled, and a named package is answered in the version  *)
(* and environment asked for.                                                 *)
THEOREM AlwaysResolvesAsAsked == Spec => []ResolvesAsAsked
<1>1. IInv => ResolvesAsAsked
  <2> SUFFICES ASSUME IInv, NEW q \in Queries, q.name # Empty, NEW k \in Resolve(q)
               PROVE  /\ k.name = q.name
                      /\ q.version # Empty => k.version = q.version
                      /\ q.environment # Empty => k.environment = q.environment
    BY ResolvesToCompiled DEF ResolvesAsAsked
  <2>1. CASE k \in ExactKeys(q)
    BY <2>1 DEF ExactKeys
  <2>2. ~OnlyOneLatest(q)
    BY DEF OnlyOneLatest
  <2>3. CASE k \notin ExactKeys(q)
    <3>1. PICK s \in Filled :
            /\ k = latest[s] /\ q.version = Empty
            /\ s = SlotOf(q) \/ (q.environment = Empty /\ s[1] = q.name)
      BY <2>2, <2>3, ResolveSources
    <3>2. SlotOf(k) = s
      BY <3>1, FromASlot
    <3>3. CASE s = SlotOf(q)
      BY <3>1, <3>2, <3>3, SlotsApart
    <3>4. CASE q.environment = Empty /\ s[1] = q.name
      BY <3>1, <3>2, <3>4 DEF SlotOf
    <3> QED BY <3>1, <3>3, <3>4
  <2> QED BY <2>1, <2>3
<1> QED BY Invariance, <1>1, PTL

(* A publish in one environment leaves the answers of the others alone.        *)
THEOREM EnvironmentsAreIsolated == Spec => EnvironmentsIsolated
<1> DEFINE Isolated ==
      \A k \in Keys, d \in Digests : Install(k, d) =>
        \A q \in Queries :
          q.name # Empty /\ q.environment \notin {Empty, k.environment}
            => Resolve(q)' = Resolve(q)
<1>1. ASSUME IInv, NEW k \in Keys, NEW d \in Digests, Install(k, d),
             NEW q \in Queries, q.name # Empty,
             q.environment \notin {Empty, k.environment}
      PROVE  Resolve(q)' = Resolve(q)
  <2>1. SlotOf(k) \in Slots /\ SlotOf(q) # SlotOf(k)
    BY <1>1, KeyFields, SlotsApart
  <2>2. \A j \in Keys : j.environment = q.environment => packages'[j] = packages[j]
    BY <1>1 DEF IInv, TypeOK, Install
  <2>3. \A s \in Slots : s # SlotOf(k) => latest'[s] = latest[s]
    BY <1>1, <2>1 DEF IInv, TypeOK, Install
  <2>4. ExactKeys(q)' = ExactKeys(q)
    BY <2>2 DEF ExactKeys
  <2>5. SlotKeys(q)' = SlotKeys(q)
    BY <2>1, <2>3 DEF SlotKeys, Filled, SlotOf
  <2>6. ~OnlyOneLatest(q) /\ ~OnlyOneLatest(q)'
    BY <1>1 DEF OnlyOneLatest
  <2>7. Unversioned(q) = SlotKeys(q) /\ Unversioned(q)' = SlotKeys(q)'
    BY <1>1 DEF Unversioned
  <2> QED BY <2>4, <2>5, <2>6, <2>7 DEF Resolve
<1>2. IInv /\ [Next]_orchestratorVars => [Isolated]_orchestratorVars
  BY <1>1
<1> QED BY Invariance, <1>2, PTL DEF Spec, EnvironmentsIsolated
===============================================================================
