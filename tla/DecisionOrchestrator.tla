------------------------- MODULE DecisionOrchestrator -------------------------
(***************************************************************************)
(* DecisionOrchestrator of decision_platform.go: the compiled packages an     *)
(* evaluation is resolved against.  AddPackage compiles before it takes the    *)
(* lock and then writes both maps under it, so its effect is the one action    *)
(* Install; resolve reads both maps under the read lock and hands out a        *)
(* pointer to a compiled package that is never written again.                 *)
(*                                                                          *)
(* A compiled package is modelled by the publication it came from: its key     *)
(* (name, version, environment) and its digest.                               *)
(***************************************************************************)
EXTENDS Naturals, FiniteSets

CONSTANTS Names,         (* names of packages; Empty is not one: compiling   *)
                         (* a package without a name fails                   *)
          Versions, Environments,  (* either may contain Empty               *)
          Digests,
          Empty,         (* the empty string                                 *)
          Nothing        (* no entry                                         *)

ASSUME EmptyAssumption == Empty \notin Names

Keys == [name : Names, version : Versions, environment : Environments]
Slots == Names \X Environments

ASSUME NothingAssumption == Nothing \notin Keys /\ Nothing \notin Digests

(* What a DecisionRequest names: each field may be left empty.                *)
Queries == [name : Names \cup {Empty}, version : Versions \cup {Empty},
            environment : Environments \cup {Empty}]

VARIABLES packages,   (* packages[k]: digest compiled under k, or Nothing    *)
          latest      (* latest[<<n, e>>]: key added last for n in e         *)

orchestratorVars == <<packages, latest>>

Init ==
  /\ packages = [k \in Keys |-> Nothing]
  /\ latest = [s \in Slots |-> Nothing]

SlotOf(k) == <<k.name, k.environment>>

(* Slips: the pointer moves only to a slot that has none; all environments share *)
(* one slot.                                                                  *)
Install_KeepsLatest(k, d) ==
  /\ packages' = [packages EXCEPT ![k] = d]
  /\ latest' = [latest EXCEPT ![SlotOf(k)] = IF @ = Nothing THEN k ELSE @]

Install_AllEnvironments(k, d) ==
  /\ packages' = [packages EXCEPT ![k] = d]
  /\ latest' = [s \in Slots |-> IF s[1] = k.name THEN k ELSE latest[s]]

(* AddPackage, once CompileDecisionPackage has accepted the package.           *)
Install(k, d) ==
  /\ packages' = [packages EXCEPT ![k] = d]
  /\ latest' = [latest EXCEPT ![SlotOf(k)] = k]

-------------------------------------------------------------------------------
Filled == {s \in Slots : latest[s] # Nothing}
LatestKeys == {latest[s] : s \in Filled}

(* resolve: the keys of the packages a query may be answered from.  There is   *)
(* more than one only when the query names no version and no environment, none *)
(* is installed without an environment, and the first match of a map iteration *)
(* answers.                                                                  *)
OnlyOneLatest(q) == q.name = Empty /\ Cardinality(Filled) = 1

ExactKeys(q) == {k \in Keys : k = q /\ packages[k] # Nothing}

SlotKeys(q) == {latest[s] : s \in {t \in Filled : t = SlotOf(q)}}

AnyEnvironmentKeys(q) == {latest[s] : s \in {t \in Filled : t[1] = q.name}}

(* A slip: a version that is not installed is answered with the latest one.    *)
Unversioned(q) ==
  IF SlotKeys(q) # {} \/ q.environment # Empty
  THEN SlotKeys(q) ELSE AnyEnvironmentKeys(q)

Resolve_IgnoresVersion(q) ==
  IF OnlyOneLatest(q) THEN LatestKeys
  ELSE IF ExactKeys(q) # {} THEN ExactKeys(q) ELSE Unversioned(q)

Resolve(q) ==
  IF OnlyOneLatest(q) THEN LatestKeys
  ELSE IF ExactKeys(q) # {} THEN ExactKeys(q)
  ELSE IF q.version = Empty THEN Unversioned(q)
  ELSE {}

Compiled(k) == [key |-> k, digest |-> packages[k]]

Next == \E k \in Keys, d \in Digests : Install(k, d)

Spec == Init /\ [][Next]_orchestratorVars

-------------------------------------------------------------------------------
TypeOK ==
  /\ packages \in [Keys -> Digests \cup {Nothing}]
  /\ latest \in [Slots -> Keys \cup {Nothing}]

(* A query that names a package gets that package, in the version and the      *)
(* environment it names, whatever fallback answered it; and what answers any    *)
(* query is compiled, so that an evaluation never runs on a nil package.        *)
ResolvesAsAsked ==
  \A q \in Queries : \A k \in Resolve(q) :
    /\ k \in Keys /\ packages[k] # Nothing
    /\ q.name # Empty =>
         /\ k.name = q.name
         /\ q.version # Empty => k.version = q.version
         /\ q.environment # Empty => k.environment = q.environment

(* Installing in one environment does not change what a query that names        *)
(* another environment is answered from.                                      *)
EnvironmentsIsolated ==
  [][\A k \in Keys, d \in Digests : Install(k, d) =>
       \A q \in Queries :
         q.name # Empty /\ q.environment \notin {Empty, k.environment}
           => Resolve(q)' = Resolve(q)]_orchestratorVars
===============================================================================
