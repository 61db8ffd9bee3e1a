---------------------------- MODULE DecisionServer ----------------------------
(***************************************************************************)
(* DecisionServer of decision_server.go: concurrent HTTP requests over one     *)
(* DecisionOrchestrator and one DecisionStore.  A handler holds no lock        *)
(* between its calls, so each call it makes is a step of its own and requests  *)
(* interleave between them.  A request's context may end at any moment         *)
(* (client gone, RequestTimeout); only the store looks at it on entry.         *)
(*                                                                          *)
(* The store is the abstract DecisionStore, which MemoryDecisionStore and      *)
(* SQLiteDecisionStore implement; durable says whether it survives a restart   *)
(* of the process.  The orchestrator never does, and nothing fills it from     *)
(* the store.                                                                *)
(***************************************************************************)
EXTENDS Naturals, Sequences, FiniteSets

CONSTANTS Publishers,   (* POST /v1/packages                                *)
          Clients,      (* POST on one of the other Routes                  *)
          Names, Versions, Environments,
          Digests,      (* digests of packages that clients publish         *)
          Invalid,      (* those that validation or compilation rejects     *)
          Empty, Nothing,
          MaxFailures,  (* bound: calls of the store that fail by themselves *)
          MaxCrashes    (* bound: restarts of the process                   *)

ASSUME InvalidAssumption == Invalid \subseteq Digests

(* A request is posted to one route: it publishes, or it is one of the others.  *)
ASSUME RequestsAssumption == Publishers \cap Clients = {}

Requests == Publishers \cup Clients

(* The statuses a handler answers with.                                       *)
Statuses == {200, 201, 400, 403, 404, 408, 500}

(* /v1/decision/{package}/{decision}, /v1/packages/{package}/simulate and        *)
(* /v1/packages/{package}/tests.                                             *)
Routes == {"decision", "simulate", "tests"}

VARIABLES
  loaded, loadedLatest,          (* the orchestrator's maps                 *)
  stored, storedLatest, trail,   (* the store                               *)
  simulations,                   (* what SaveSimulation has stored          *)
  pc,         (* per request: next step                                     *)
  call,       (* per request: what it asks for                              *)
  got,        (* per request: the package it works on                       *)
  reply,      (* per request: HTTP status of the answer, or Nothing         *)
  done,       (* requests whose context has ended                           *)
  failures, crashes,
  route,      (* per request: where it is posted                           *)
  durable,    (* the store survives a restart                              *)
  installs,   (* history: packages added to the orchestrator, in order      *)
  place,      (* history, per publisher: its position in installs, or 0     *)
  floor       (* history, per request: positions acked when it was received *)

orchestratorVars == <<loaded, loadedLatest>>
storeVars == <<stored, storedLatest, trail>>
setting == <<route, durable>>    (* which never changes                     *)
historyVars == <<installs, place, floor>>
vars == <<orchestratorVars, storeVars, simulations, pc, call, got, reply, done,
          failures, crashes, setting, historyVars>>

Orchestrator == INSTANCE DecisionOrchestrator WITH
  packages <- loaded, latest <- loadedLatest

Keys == Orchestrator!Keys

ASSUME NothingAssumption ==
  /\ Nothing \notin Keys \cup Digests \cup Statuses
  /\ Nothing \notin [key : Keys, digest : Digests]

AuditRecords == [request : Clients, key : Keys, digest : Digests]

Store == INSTANCE DecisionStore WITH
  Records <- AuditRecords,
  packages <- stored, lastSaved <- storedLatest

Init ==
  /\ Orchestrator!Init /\ Store!Init
  /\ simulations = {}
  /\ pc = [r \in Requests |-> "idle"]
  /\ call = [r \in Requests |-> Nothing]
  /\ got = [r \in Requests |-> Nothing]
  /\ reply = [r \in Requests |-> Nothing]
  /\ done = {}
  /\ failures = 0 /\ crashes = 0
  /\ durable \in BOOLEAN
  /\ \E f \in [Clients -> Routes] :
       route = [r \in Requests |-> IF r \in Publishers THEN "packages" ELSE f[r]]
  /\ installs = <<>>
  /\ place = [r \in Publishers |-> 0]
  /\ floor = [r \in Requests |-> {}]

InFlight == {r \in Requests : pc[r] \notin {"idle", "answered", "lost"}}

Goto(r, step) == pc' = [pc EXCEPT ![r] = step]
Answer(r, status) ==
  /\ Goto(r, "answered")
  /\ reply' = [reply EXCEPT ![r] = status]

-------------------------------------------------------------------------------
(* ServeHTTP: the rate limiter, allow and requireContentType come first and     *)
(* refuse without touching anything; an accepted request is decoded.           *)
Asks(r) ==
  IF r \in Publishers THEN [key : Keys, digest : Digests]
  ELSE Orchestrator!Queries

Receive(r) ==
  /\ pc[r] = "idle"
  /\ \E c \in Asks(r) : call' = [call EXCEPT ![r] = c]
  /\ Goto(r, "received")
  /\ floor' = [floor EXCEPT ![r] =
                 {place[p] : p \in {q \in Publishers : reply[q] = 201}}]
  /\ UNCHANGED <<orchestratorVars, storeVars, simulations, got, reply, done,
                 failures, crashes, setting, installs, place>>

(* 401, 403, 404, 415 or 429.                                                 *)
Refuse(r) ==
  /\ pc[r] = "idle"
  /\ Answer(r, 403)
  /\ UNCHANGED <<orchestratorVars, storeVars, simulations, call, got, done,
                 failures, crashes, setting, historyVars>>

(* Nobody looks at the context after the last call of the store.              *)
ContextDone(r) ==
  /\ r \notin done
  /\ pc[r] \in {"received", "compiled", "installed", "resolved", "evaluated"}
  /\ done' = done \cup {r}
  /\ UNCHANGED <<orchestratorVars, storeVars, simulations, pc, call, got, reply,
                 failures, crashes, setting, historyVars>>

-------------------------------------------------------------------------------
(* PublishPackage: validate and compile, add to the orchestrator, save.        *)
CompilePackage(r) ==
  /\ pc[r] = "received"
  /\ \/ call[r].digest \in Invalid /\ Answer(r, 400)
     \/ call[r].digest \notin Invalid /\ Goto(r, "compiled") /\ UNCHANGED reply
  /\ UNCHANGED <<orchestratorVars, storeVars, simulations, call, got, done,
                 failures, crashes, setting, historyVars>>

AddPackage(r) ==
  /\ pc[r] = "compiled"
  /\ Orchestrator!Install(call[r].key, call[r].digest)
  /\ Goto(r, "installed")
  /\ installs' = Append(installs, call[r])
  /\ place' = [place EXCEPT ![r] = Len(installs) + 1]
  /\ UNCHANGED <<storeVars, simulations, call, got, reply, done, failures,
                 crashes, setting, floor>>

(* A slip: the store keeps what it has.                                      *)
SavePackage_KeepsFirst(r) ==
  /\ pc[r] = "installed" /\ r \notin done
  /\ IF stored[call[r].key] # Nothing THEN UNCHANGED storeVars
     ELSE Store!SavePackage(call[r].key, call[r].digest)
  /\ Goto(r, "saved")
  /\ UNCHANGED <<orchestratorVars, simulations, call, got, reply, done,
                 failures, crashes, setting, historyVars>>

SavePackage(r) ==
  /\ pc[r] = "installed" /\ r \notin done
  /\ Store!SavePackage(call[r].key, call[r].digest)
  /\ Goto(r, "saved")
  /\ UNCHANGED <<orchestratorVars, simulations, call, got, reply, done,
                 failures, crashes, setting, historyVars>>

(* The context ended before the save: 408.  The store failed, before or after   *)
(* its write took effect: 400.  The package stays in the orchestrator.        *)
SaveTimedOut(r) ==
  /\ pc[r] = "installed" /\ r \in done
  /\ Answer(r, 408)
  /\ UNCHANGED <<orchestratorVars, storeVars, simulations, call, got, done,
                 failures, crashes, setting, historyVars>>

SaveFailed(r) ==
  /\ pc[r] = "installed" /\ failures < MaxFailures
  /\ failures' = failures + 1
  /\ Answer(r, 400)
  /\ \/ UNCHANGED storeVars
     \/ Store!SavePackage(call[r].key, call[r].digest)
  /\ UNCHANGED <<orchestratorVars, simulations, call, got, done, crashes, setting,
                 historyVars>>

AnswerPublish(r) ==
  /\ pc[r] = "saved"
  /\ Answer(r, 201)
  /\ UNCHANGED <<orchestratorVars, storeVars, simulations, call, got, done,
                 failures, crashes, setting, historyVars>>

PublishStep(r) ==
  \/ CompilePackage(r) \/ AddPackage(r) \/ SavePackage(r)
  \/ SaveTimedOut(r) \/ SaveFailed(r) \/ AnswerPublish(r)

-------------------------------------------------------------------------------
(* handleEvaluate and handleSimulate resolve a package under the read lock and  *)
(* then work on the compiled package they were handed.                         *)
ResolvePackage(r) ==
  /\ pc[r] = "received"
  /\ \/ /\ Orchestrator!Resolve(call[r]) = {}
        /\ Answer(r, 400) /\ UNCHANGED got
     \/ /\ \E k \in Orchestrator!Resolve(call[r]) :
             got' = [got EXCEPT ![r] = Orchestrator!Compiled(k)]
        /\ Goto(r, "resolved") /\ UNCHANGED reply
  /\ UNCHANGED <<orchestratorVars, storeVars, simulations, call, done, failures,
                 crashes, setting, historyVars>>

(* A simulation may bring the package it runs: it is compiled, not looked up.    *)
BringPackage(r) ==
  /\ pc[r] = "received"
  /\ \/ Goto(r, "resolved") /\ UNCHANGED reply
     \/ Answer(r, 400)
  /\ UNCHANGED <<orchestratorVars, storeVars, simulations, call, got, done,
                 failures, crashes, setting, historyVars>>

(* A request that fails the schema, or an expression that finds the context    *)
(* done, is answered with the error and leaves no audit.                      *)
RunPackage(r) ==
  /\ pc[r] = "resolved"
  /\ \/ Goto(r, "evaluated") /\ UNCHANGED reply
     \/ Answer(r, 400)
  /\ UNCHANGED <<orchestratorVars, storeVars, simulations, call, got, done,
                 failures, crashes, setting, historyVars>>

(* Slips: the audit names what is loaded now, not what was evaluated; the      *)
(* answer goes out although the audit was not saved.                          *)
AuditOf_Reread(r) ==
  [request |-> r, key |-> got[r].key, digest |-> loaded[got[r].key]]

AuditOf(r) == [request |-> r, key |-> got[r].key, digest |-> got[r].digest]

SaveAudit(r) ==
  /\ pc[r] = "evaluated" /\ r \notin done
  /\ Store!SaveAuditEnvelope(AuditOf(r))
  /\ Goto(r, "audited")
  /\ UNCHANGED <<orchestratorVars, simulations, call, got, reply, done,
                 failures, crashes, setting, historyVars>>

SaveAuditFailed_Ignored(r) ==
  /\ pc[r] = "evaluated" /\ r \in done
  /\ Goto(r, "audited")
  /\ UNCHANGED <<orchestratorVars, storeVars, simulations, call, got, reply,
                 done, failures, crashes, setting, historyVars>>

(* audit_persist_failed: 500 and no decision, whether the context ended or the  *)
(* store failed.  A failed SaveAuditEnvelope leaves no envelope (the property   *)
(* AnswersAreTrue of SQLiteDecisionStore).                                    *)
SaveAuditFailed(r) ==
  /\ pc[r] = "evaluated"
  /\ \/ r \in done /\ UNCHANGED failures
     \/ failures < MaxFailures /\ failures' = failures + 1
  /\ Answer(r, 500)
  /\ UNCHANGED <<orchestratorVars, storeVars, simulations, call, got, done,
                 crashes, setting, historyVars>>

AnswerEvaluate(r) ==
  /\ pc[r] = "audited"
  /\ Answer(r, 200)
  /\ UNCHANGED <<orchestratorVars, storeVars, simulations, call, got, done,
                 failures, crashes, setting, historyVars>>

EvaluateStep(r) ==
  \/ ResolvePackage(r) \/ RunPackage(r) \/ SaveAudit(r) \/ SaveAuditFailed(r)
  \/ AnswerEvaluate(r)

(* handleSimulate ignores what SaveSimulation returns.                        *)
SaveSimulation(r) ==
  /\ pc[r] = "evaluated"
  /\ \/ r \notin done /\ simulations' = simulations \cup {r} /\ UNCHANGED failures
     \/ r \in done /\ UNCHANGED <<simulations, failures>>
     \/ failures < MaxFailures /\ failures' = failures + 1 /\ UNCHANGED simulations
  /\ Answer(r, 200)
  /\ UNCHANGED <<orchestratorVars, storeVars, call, got, done, crashes, setting,
                 historyVars>>

SimulateStep(r) ==
  BringPackage(r) \/ ResolvePackage(r) \/ RunPackage(r) \/ SaveSimulation(r)

(* handleTests runs the tests of the package in the store, with an orchestrator *)
(* of its own (RunDecisionPackageTests).  A query without a version is answered *)
(* with the key saved last in the environment; the store in memory falls back   *)
(* on any package of that name.                                              *)
SavedLast(q) ==
  {storedLatest[s] : s \in {t \in Names \X Environments :
     t = <<q.name, q.environment>> /\ storedLatest[t] # Nothing}}

Fallback(q) == {k \in Keys : ~durable /\ k.name = q.name /\ stored[k] # Nothing}

(* A slip: an unknown version is answered with the latest.                    *)
StoredKey_IgnoresVersion(q) ==
  LET exact == {k \in Keys : k = q /\ stored[k] # Nothing} IN
    IF exact # {} THEN exact ELSE SavedLast(q)

StoredKey(q) ==
  IF q.version # Empty THEN {k \in Keys : k = q /\ stored[k] # Nothing}
  ELSE IF SavedLast(q) # {} THEN SavedLast(q) ELSE Fallback(q)

ReadStored(r) ==
  /\ pc[r] = "received"
  /\ \/ /\ r \in done \/ failures < MaxFailures
        /\ failures' = IF r \in done THEN failures ELSE failures + 1
        /\ Answer(r, 500) /\ UNCHANGED got
     \/ /\ r \notin done /\ StoredKey(call[r]) = {}
        /\ Answer(r, 404) /\ UNCHANGED <<got, failures>>
     \/ /\ r \notin done
        /\ \E k \in StoredKey(call[r]) :
             got' = [got EXCEPT ![r] = [key |-> k, digest |-> stored[k]]]
        /\ Goto(r, "resolved") /\ UNCHANGED <<reply, failures>>
  /\ UNCHANGED <<orchestratorVars, storeVars, simulations, call, done, crashes, setting,
                 historyVars>>

RunTests(r) ==
  /\ pc[r] = "resolved"
  /\ \E status \in {200, 400} : Answer(r, status)
  /\ UNCHANGED <<orchestratorVars, storeVars, simulations, call, got, done,
                 failures, crashes, setting, historyVars>>

TestStep(r) == ReadStored(r) \/ RunTests(r)

-------------------------------------------------------------------------------
(* The process dies and is started again: requests in flight get no answer, the *)
(* orchestrator starts empty, and so does a store that is not durable.         *)
Restart ==
  /\ crashes < MaxCrashes
  /\ crashes' = crashes + 1
  /\ pc' = [r \in Requests |-> IF r \in InFlight THEN "lost" ELSE pc[r]]
  /\ loaded' = [k \in Keys |-> Nothing]
  /\ loadedLatest' = [s \in Names \X Environments |-> Nothing]
  /\ IF durable THEN UNCHANGED <<storeVars, simulations>>
     ELSE /\ stored' = [k \in Keys |-> Nothing]
          /\ storedLatest' = [s \in Names \X Environments |-> Nothing]
          /\ trail' = <<>>
          /\ simulations' = {}
  /\ UNCHANGED <<call, got, reply, done, failures, setting, historyVars>>

Step(r) ==
  \/ route[r] = "packages" /\ PublishStep(r)
  \/ route[r] = "decision" /\ EvaluateStep(r)
  \/ route[r] = "simulate" /\ SimulateStep(r)
  \/ route[r] = "tests" /\ TestStep(r)

Next ==
  \/ \E r \in Requests : Receive(r) \/ Refuse(r) \/ ContextDone(r) \/ Step(r)
  \/ Restart

Spec == Init /\ [][Next]_vars

-------------------------------------------------------------------------------
(* A decision that a client was given is in the audit trail, under the package  *)
(* that took it: handleEvaluate answers 200 only after SaveAuditEnvelope did.  *)
AuditNames(i, e) ==
  trail[i] = [request |-> e, key |-> got[e].key, digest |-> got[e].digest]

AnswersAudited ==
  durable \/ crashes = 0 =>
    \A e \in Clients : reply[e] = 200 /\ route[e] = "decision" =>
      \E i \in 1..Len(trail) : AuditNames(i, e)

(* The trail holds one envelope for each request that ran to the end, and each   *)
(* names the package that request ran, however often that package has been      *)
(* replaced since; a request that got 400 or 500 left none.                    *)
AuditsAreOfRuns ==
  \A i \in 1..Len(trail) :
    LET e == trail[i].request IN
      /\ AuditNames(i, e)
      /\ pc[e] \in {"audited", "lost"} \/ reply[e] = 200
      /\ \A j \in 1..Len(trail) : trail[j].request = e => j = i

(* An evaluation never runs a package that had been replaced before the request *)
(* arrived: what it runs was installed no earlier than every publish of that    *)
(* key that had been answered 201 by then and, when it named no version and no  *)
(* package without a version answered it, of that name and environment.        *)
AnsweredFrom(r, i) == installs[i] = got[r]

Supersedes(r, j) ==
  \/ installs[j].key = got[r].key
  \/ /\ call[r].version = Empty /\ got[r].key.version # Empty
     /\ installs[j].key.name = got[r].key.name
     /\ installs[j].key.environment = got[r].key.environment

RunsAreFresh ==
  \A r \in Clients : got[r] # Nothing /\ route[r] # "tests" =>
    \E i \in 1..Len(installs) :
      AnsweredFrom(r, i) /\ \A j \in floor[r] : Supersedes(r, j) => i >= j

(* A request gets the package, version and environment it names, from the       *)
(* orchestrator and from the store alike.                                     *)
RunsAsAsked ==
  \A r \in Requests \ Publishers :
    got[r] # Nothing /\ call[r].name # Empty =>
      /\ got[r].key.name = call[r].name
      /\ call[r].version # Empty =>
           /\ got[r].key.version = call[r].version
           /\ got[r].key.environment = call[r].environment

(* PublishPackage installs and then saves, with no lock over the two.  When no   *)
(* publish is under way, what is evaluated and what is stored under a key       *)
(* differ only if a save of it failed, the process restarted, or two publishes  *)
(* of the key overlapped.                                                    *)
PublishersOf(k) == {p \in Publishers : place[p] # 0 /\ call[p].key = k}

Overlap(p, q) == p # q /\ place[p] \notin floor[q] /\ place[q] \notin floor[p]

StoreAgrees ==
  crashes = 0 /\ InFlight \cap Publishers = {} =>
    \A k \in Keys :
      \/ loaded[k] = stored[k]
      \/ \E p \in PublishersOf(k) : reply[p] # 201
      \/ \E p, q \in PublishersOf(k) : Overlap(p, q)
===============================================================================
