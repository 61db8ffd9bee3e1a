------------------------- MODULE DecisionServerProofs -------------------------
(***************************************************************************)
(* For any publishers, clients, packages, failures and restarts: what a        *)
(* client was answered is audited, the trail is that of the runs, a run is of   *)
(* the package asked for and no older than what had been published before, and  *)
(* the orchestrator and the store agree unless two publishes overlapped, a     *)
(* save failed or the process restarted.                                      *)
(***************************************************************************)
EXTENDS DecisionServer, SequenceTheorems, TLAPS

Publications == [key : Keys, digest : Digests]
Slots == Names \X Environments
PublisherSteps == {"idle", "received", "compiled", "installed", "saved", "answered", "lost"}
ClientSteps == {"idle", "received", "resolved", "evaluated", "audited", "answered", "lost"}

TypeOK ==
  /\ loaded \in [Keys -> Digests \cup {Nothing}]
  /\ stored \in [Keys -> Digests \cup {Nothing}]
  /\ loadedLatest \in [Slots -> Keys \cup {Nothing}]
  /\ storedLatest \in [Slots -> Keys \cup {Nothing}]
  /\ trail \in Seq(AuditRecords)
  /\ simulations \subseteq Requests
  /\ pc \in [Requests -> PublisherSteps \cup ClientSteps]
  /\ call \in [Requests -> Publications \cup Orchestrator!Queries \cup {Nothing}]
  /\ got \in [Requests -> Publications \cup {Nothing}]
  /\ reply \in [Requests -> Statuses \cup {Nothing}]
  /\ done \subseteq Requests
  /\ failures \in Nat /\ crashes \in Nat
  /\ route \in [Requests -> Routes \cup {"packages"}]
  /\ durable \in BOOLEAN
  /\ installs \in Seq(Publications)
  /\ place \in [Publishers -> 0..Len(installs)]
  /\ floor \in [Requests -> SUBSET (1..Len(installs))]

(* How far a publish has come and what it has done by then.                   *)
PublisherFlow ==
  \A p \in Publishers :
    /\ route[p] = "packages" /\ pc[p] \in PublisherSteps
    /\ reply[p] # Nothing <=> pc[p] = "answered"
    /\ pc[p] \in {"received", "compiled", "installed", "saved"} => call[p] \in Publications
    /\ pc[p] \in {"idle", "received", "compiled"} => place[p] = 0
    /\ pc[p] \in {"installed", "saved"} \/ reply[p] = 201 => place[p] # 0
    /\ place[p] # 0 => call[p] \in Publications /\ installs[place[p]] = call[p]

ClientFlow ==
  \A e \in Clients :
    /\ route[e] \in Routes /\ pc[e] \in ClientSteps
    /\ reply[e] # Nothing <=> pc[e] = "answered"
    /\ reply[e] # 201
    /\ pc[e] \in {"idle", "received"} => got[e] = Nothing
    /\ pc[e] \in {"received", "resolved", "evaluated", "audited"} =>
         call[e] \in Orchestrator!Queries
    /\ pc[e] \in {"resolved", "evaluated", "audited"} /\ route[e] = "decision" =>
         got[e] # Nothing

(* The maps of the orchestrator and of the store: the latest of a slot is a     *)
(* package of that slot.                                                      *)
MapsCoherent ==
  \A s \in Slots :
    /\ loadedLatest[s] # Nothing =>
         Orchestrator!SlotOf(loadedLatest[s]) = s /\ loaded[loadedLatest[s]] # Nothing
    /\ storedLatest[s] # Nothing =>
         Orchestrator!SlotOf(storedLatest[s]) = s /\ stored[storedLatest[s]] # Nothing

(* What is loaded under a key, and what is the latest of a slot, is the last     *)
(* that was installed there.                                                  *)
LoadedIsLast ==
  /\ \A k \in Keys : loaded[k] # Nothing =>
       \E i \in 1..Len(installs) :
         /\ installs[i] = [key |-> k, digest |-> loaded[k]]
         /\ \A j \in 1..Len(installs) : installs[j].key = k => j <= i
  /\ \A s \in Slots : loadedLatest[s] # Nothing =>
       \E i \in 1..Len(installs) :
         /\ installs[i].key = loadedLatest[s]
         /\ \A j \in 1..Len(installs) :
              Orchestrator!SlotOf(installs[j].key) = s => j <= i

(* AuditsAreOfRuns, and only evaluations are audited.                          *)
TrailOfRuns ==
  \A i \in 1..Len(trail) :
    LET e == trail[i].request IN
      /\ AuditNames(i, e) /\ route[e] = "decision"
      /\ pc[e] \in {"audited", "lost"} \/ reply[e] = 200
      /\ \A j \in 1..Len(trail) : trail[j].request = e => j = i

(* AnswersAudited, from the moment the audit is saved.                         *)
Delivered(e) == pc[e] = "audited" \/ (reply[e] = 200 /\ route[e] = "decision")

AuditedInTrail ==
  durable \/ crashes = 0 =>
    \A e \in Clients : Delivered(e) => \E i \in 1..Len(trail) : AuditNames(i, e)

(* A position in installs belongs to one publish, and the positions a request    *)
(* has as its floor belong to publishes that were answered 201.                *)
Positions ==
  /\ \A p, q \in Publishers : place[p] # 0 /\ place[p] = place[q] => p = q
  /\ \A r \in Requests : \A i \in floor[r] :
       \E p \in Publishers : reply[p] = 201 /\ place[p] = i

(* No publish of k but r is unanswered, and no two of them overlapped.          *)
Alone(r, k) ==
  /\ \A p \in PublishersOf(k) : p # r => reply[p] = 201
  /\ \A p, q \in PublishersOf(k) : ~Overlap(p, q)

(* What a publish that is alone has installed is what is loaded, and what it has *)
(* saved is what is stored.                                                  *)
PublishAgrees ==
  crashes = 0 =>
    \A r \in Publishers :
      pc[r] \in {"installed", "saved"} /\ Alone(r, call[r].key) =>
        /\ loaded[call[r].key] = call[r].digest
        /\ pc[r] = "saved" => stored[call[r].key] = call[r].digest

(* StoreAgrees, also while publishes are under way.                            *)
AgreesOrNot ==
  crashes = 0 =>
    \A k \in Keys :
      \/ loaded[k] = stored[k]
      \/ \E p \in PublishersOf(k) : reply[p] # 201
      \/ \E p, q \in PublishersOf(k) : Overlap(p, q)

PublisherPart == PublisherFlow /\ Positions /\ PublishAgrees /\ AgreesOrNot
ClientPart == ClientFlow /\ TrailOfRuns /\ AuditedInTrail /\ RunsAsAsked /\ RunsAreFresh
MapPart == MapsCoherent /\ LoadedIsLast

IInv == TypeOK /\ PublisherPart /\ ClientPart /\ MapPart

-------------------------------------------------------------------------------
LEMMA RequestFacts ==
  /\ \A p \in Publishers : p \in Requests /\ p \notin Clients
  /\ \A e \in Clients : e \in Requests /\ e \notin Publishers
  /\ \A r \in Requests : r \in Publishers \/ r \in Clients
  /\ \A status \in Statuses : status # Nothing
  BY RequestsAssumption, NothingAssumption DEF Requests

LEMMA KeyFacts ==
  ASSUME NEW k \in Keys
  PROVE  /\ k.name \in Names /\ k.version \in Versions /\ k.environment \in Environments
         /\ <<k.name, k.environment>> \in Slots
         /\ k # Nothing
  BY NothingAssumption DEF Keys, Orchestrator!Keys, Slots

LEMMA TrailFacts ==
  ASSUME TypeOK, NEW i \in 1..Len(trail)
  PROVE  trail[i].request \in Clients /\ trail[i] \in AuditRecords
<1>1. trail[i] \in AuditRecords
  BY DEF TypeOK
<1> QED
  BY <1>1 DEF AuditRecords

LEMMA InitIInv == Init => IInv
<1> SUFFICES ASSUME Init PROVE IInv
  OBVIOUS
<1>0. /\ \A r \in Requests : /\ pc[r] = "idle" /\ call[r] = Nothing /\ got[r] = Nothing
                             /\ reply[r] = Nothing /\ floor[r] = {}
      /\ \A p \in Publishers : place[p] = 0
      /\ trail = <<>> /\ installs = <<>> /\ crashes = 0
  BY DEF Init, Store!Init
<1>1. PICK f \in [Clients -> Routes] :
        route = [r \in Requests |-> IF r \in Publishers THEN "packages" ELSE f[r]]
  BY DEF Init
<1>2. /\ \A p \in Publishers : route[p] = "packages"
      /\ \A e \in Clients : route[e] \in Routes
  BY <1>1, RequestFacts
<1>3. /\ loaded = [k \in Keys |-> Nothing] /\ stored = [k \in Keys |-> Nothing]
      /\ loadedLatest = [s \in Slots |-> Nothing]
      /\ storedLatest = [s \in Slots |-> Nothing]
  BY DEF Init, Orchestrator!Init, Store!Init, Slots, Orchestrator!Slots, Keys,
         Orchestrator!Keys, Store!Keys
<1>4. TypeOK
  <2>1. route \in [Requests -> Routes \cup {"packages"}]
    BY <1>1 DEF Requests
  <2>2. trail \in Seq(AuditRecords) /\ installs \in Seq(Publications) /\ Len(installs) = 0
    BY <1>0
  <2> QED
    BY <1>3, <2>1, <2>2 DEF Init, TypeOK, PublisherSteps, ClientSteps
<1>5. PublisherPart
  <2>1. PublisherFlow
    BY <1>0, <1>2, RequestFacts DEF PublisherFlow, PublisherSteps, Statuses
  <2>2. Positions
    BY <1>0 DEF Positions
  <2>3. PublishAgrees
    BY <1>0, RequestFacts DEF PublishAgrees
  <2>4. AgreesOrNot
    BY <1>3 DEF AgreesOrNot
  <2> QED
    BY <2>1, <2>2, <2>3, <2>4 DEF PublisherPart
<1>6. ClientPart
  <2>1. ClientFlow
    BY <1>0, <1>2, RequestFacts DEF ClientFlow, ClientSteps, Statuses
  <2>2. TrailOfRuns
    BY <1>0 DEF TrailOfRuns
  <2>3. AuditedInTrail
    BY <1>0, RequestFacts DEF AuditedInTrail, Delivered, Statuses
  <2>4. RunsAsAsked /\ RunsAreFresh
    BY <1>0, RequestFacts DEF RunsAsAsked, RunsAreFresh
  <2> QED
    BY <2>1, <2>2, <2>3, <2>4 DEF ClientPart
<1>7. MapPart
  BY <1>3 DEF MapPart, MapsCoherent, LoadedIsLast
<1> QED
  BY <1>4, <1>5, <1>6, <1>7 DEF IInv

(* What the invariant says of publishes does not look at the clients.          *)
LEMMA PublisherFrame ==
  ASSUME IInv,
         \A p \in Publishers : /\ pc'[p] = pc[p] /\ reply'[p] = reply[p]
                               /\ call'[p] = call[p] /\ floor'[p] = floor[p],
         UNCHANGED <<loaded, stored, crashes, route, installs, place>>,
         \A e \in Clients : \A i \in floor'[e] :
           \E p \in Publishers : reply[p] = 201 /\ place[p] = i
  PROVE  PublisherPart'
<1>1. \A k : PublishersOf(k)' = PublishersOf(k)
  BY DEF PublishersOf
<1>2. \A p, q \in Publishers : Overlap(p, q)' = Overlap(p, q)
  BY DEF Overlap
<1>3. \A k : PublishersOf(k) \subseteq Publishers
  BY DEF PublishersOf
<1>4. PublisherFlow'
  BY DEF IInv, PublisherPart, PublisherFlow
<1>5. Positions'
  BY RequestFacts DEF IInv, PublisherPart, Positions
<1>6. ASSUME NEW r \in Publishers, NEW k, Alone(r, k)'
      PROVE  Alone(r, k)
  BY <1>1, <1>2, <1>3, <1>6 DEF Alone
<1>7. PublishAgrees'
  BY <1>6 DEF IInv, PublisherPart, PublishAgrees
<1>8. AgreesOrNot'
  BY <1>1, <1>2, <1>3 DEF IInv, PublisherPart, AgreesOrNot
<1> QED
  BY <1>4, <1>5, <1>7, <1>8 DEF PublisherPart

(* What it says of clients does not look at the publishes, except that           *)
(* installs grows at its end.                                                 *)
LEMMA ClientFrame ==
  ASSUME IInv,
         \A e \in Clients : /\ pc'[e] = pc[e] /\ reply'[e] = reply[e]
                            /\ call'[e] = call[e] /\ got'[e] = got[e]
                            /\ floor'[e] = floor[e],
         UNCHANGED <<trail, durable, crashes, route>>,
         \A i \in 1..Len(installs) : i \in 1..Len(installs') /\ installs'[i] = installs[i]
  PROVE  ClientPart'
<1>1. ClientFlow'
  BY DEF IInv, ClientPart, ClientFlow
<1>2. \A i \in 1..Len(trail) : \A e \in Clients : AuditNames(i, e)' = AuditNames(i, e)
  BY DEF AuditNames
<1>3. TrailOfRuns'
  BY <1>2, TrailFacts DEF IInv, ClientPart, TrailOfRuns
<1>4. AuditedInTrail'
  BY <1>2 DEF IInv, ClientPart, AuditedInTrail, Delivered
<1>5. RunsAsAsked'
  BY RequestFacts DEF IInv, ClientPart, RunsAsAsked
<1>6. RunsAreFresh'
  <2> SUFFICES ASSUME NEW e \in Clients, got'[e] # Nothing, route'[e] # "tests"
               PROVE  \E i \in 1..Len(installs') : AnsweredFrom(e, i)' /\
                        \A j \in floor'[e] : Supersedes(e, j)' => i >= j
    BY DEF RunsAreFresh
  <2>1. PICK i \in 1..Len(installs) :
          AnsweredFrom(e, i) /\ \A j \in floor[e] : Supersedes(e, j) => i >= j
    BY DEF IInv, ClientPart, RunsAreFresh
  <2>2. floor[e] \subseteq 1..Len(installs)
    BY RequestFacts DEF IInv, TypeOK
  <2>3. \A j \in floor[e] : Supersedes(e, j)' => Supersedes(e, j)
    BY <2>2 DEF Supersedes
  <2>4. AnsweredFrom(e, i)'
    BY <2>1 DEF AnsweredFrom
  <2> QED
    BY <2>1, <2>3, <2>4
<1> QED
  BY <1>1, <1>3, <1>4, <1>5, <1>6 DEF ClientPart

-------------------------------------------------------------------------------
(* Steps that only move one request on: nothing that requests share changes.    *)
Moves(r, step, status) ==
  /\ pc' = [pc EXCEPT ![r] = step]
  /\ reply' \in [Requests -> Statuses \cup {Nothing}]
  /\ reply'[r] = status /\ \A x \in Requests : x # r => reply'[x] = reply[x]
  /\ status # Nothing <=> step = "answered"
  /\ UNCHANGED <<orchestratorVars, storeVars, call, got, crashes, setting, historyVars>>
  /\ done' \subseteq Requests /\ failures' \in Nat /\ simulations' \subseteq Requests

LEMMA MovesType ==
  ASSUME IInv, NEW r \in Requests, NEW step \in PublisherSteps \cup ClientSteps, NEW status,
         Moves(r, step, status)
  PROVE  /\ TypeOK' /\ MapPart'
         /\ pc'[r] = step /\ \A x \in Requests : x # r => pc'[x] = pc[x]
<1> USE DEF Moves, orchestratorVars, storeVars, setting, historyVars
<1>1. TypeOK'
  BY DEF IInv, TypeOK
<1>2. MapPart'
  BY DEF IInv, MapPart, MapsCoherent, LoadedIsLast
<1>3. pc'[r] = step /\ \A x \in Requests : x # r => pc'[x] = pc[x]
  BY DEF IInv, TypeOK
<1> QED
  BY <1>1, <1>2, <1>3

LEMMA ClientMoves ==
  ASSUME IInv, NEW e \in Clients, NEW step \in {"resolved", "evaluated", "answered"},
         NEW status, Moves(e, step, status), status # 201,
         pc[e] \notin {"answered", "lost"},
         pc[e] = "audited" => status = 200,
         status = 200 /\ route[e] = "decision" => pc[e] = "audited",
         step # "answered" => /\ call[e] \in Orchestrator!Queries
                              /\ route[e] = "decision" => got[e] # Nothing
  PROVE  IInv'
<1>1. /\ TypeOK' /\ MapPart'
      /\ pc'[e] = step /\ \A x \in Requests : x # e => pc'[x] = pc[x]
  BY MovesType, RequestFacts DEF PublisherSteps, ClientSteps
<1>2. /\ reply'[e] = status /\ \A x \in Requests : x # e => reply'[x] = reply[x]
      /\ status # Nothing <=> step = "answered"
      /\ UNCHANGED <<orchestratorVars, storeVars, call, got, crashes, setting, historyVars>>
  BY DEF Moves
<1>3. /\ UNCHANGED <<loaded, stored, crashes, route, installs, place, trail, durable, floor>>
      /\ UNCHANGED <<call, got>>
  BY <1>2 DEF orchestratorVars, storeVars, setting, historyVars
<1>4. PublisherPart'
  <2>1. \A x \in Clients : \A i \in floor'[x] :
          \E p \in Publishers : reply[p] = 201 /\ place[p] = i
    BY <1>3, RequestFacts DEF IInv, PublisherPart, Positions
  <2>2. \A p \in Publishers : /\ pc'[p] = pc[p] /\ reply'[p] = reply[p]
                              /\ call'[p] = call[p] /\ floor'[p] = floor[p]
    BY <1>1, <1>2, <1>3, RequestFacts
  <2> QED
    BY <1>3, <2>1, <2>2, PublisherFrame
<1>5. ClientFlow'
  <2>1. ASSUME NEW x \in Clients, x # e
        PROVE  pc'[x] = pc[x] /\ reply'[x] = reply[x] /\ x \in Requests
    BY <1>1, <1>2, <2>1, RequestFacts
  <2> QED
    BY <1>1, <1>2, <1>3, <2>1, RequestFacts DEF IInv, ClientPart, ClientFlow, ClientSteps
<1>6. \A i \in 1..Len(trail) : \A x : AuditNames(i, x)' = AuditNames(i, x)
  BY <1>3 DEF AuditNames
<1>7. TrailOfRuns'
  <2> SUFFICES ASSUME NEW i \in 1..Len(trail)
               PROVE  LET x == trail[i].request IN
                        /\ AuditNames(i, x) /\ route[x] = "decision"
                        /\ pc'[x] \in {"audited", "lost"} \/ reply'[x] = 200
                        /\ \A j \in 1..Len(trail) : trail[j].request = x => j = i
    BY <1>3, <1>6 DEF TrailOfRuns
  <2> DEFINE x == trail[i].request
  <2>1. x \in Clients /\ x \in Requests
    BY TrailFacts, RequestFacts DEF IInv
  <2>2. /\ AuditNames(i, x) /\ route[x] = "decision"
        /\ pc[x] \in {"audited", "lost"} \/ reply[x] = 200
        /\ \A j \in 1..Len(trail) : trail[j].request = x => j = i
    BY DEF IInv, ClientPart, TrailOfRuns
  <2>3. reply[x] = 200 => pc[x] = "answered"
    BY <2>1, RequestFacts DEF IInv, ClientPart, ClientFlow, Statuses
  <2> HIDE DEF x
  <2>4. pc'[x] \in {"audited", "lost"} \/ reply'[x] = 200
    BY <1>1, <1>2, <2>1, <2>2, <2>3
  <2> QED
    BY <2>2, <2>4 DEF x
<1>8. AuditedInTrail'
  <2>1. \A x \in Clients : Delivered(x)' => Delivered(x)
    BY <1>1, <1>2, <1>3, RequestFacts DEF Delivered
  <2> QED
    BY <1>3, <1>6, <2>1 DEF IInv, ClientPart, AuditedInTrail
<1>9. RunsAsAsked' /\ RunsAreFresh'
  BY <1>3 DEF IInv, ClientPart, RunsAsAsked, RunsAreFresh, AnsweredFrom, Supersedes
<1> QED
  BY <1>1, <1>4, <1>5, <1>7, <1>8, <1>9 DEF IInv, ClientPart

LEMMA PublisherMoves ==
  ASSUME IInv, NEW p \in Publishers, NEW step \in {"compiled", "answered"},
         NEW status, Moves(p, step, status), status # 201,
         pc[p] \in {"idle", "received", "installed"},
         step = "compiled" => pc[p] = "received"
  PROVE  IInv'
<1>1. /\ TypeOK' /\ MapPart'
      /\ pc'[p] = step /\ \A x \in Requests : x # p => pc'[x] = pc[x]
  BY MovesType, RequestFacts DEF PublisherSteps, ClientSteps
<1>2. /\ reply'[p] = status /\ \A x \in Requests : x # p => reply'[x] = reply[x]
      /\ status # Nothing <=> step = "answered"
      /\ UNCHANGED <<orchestratorVars, storeVars, call, got, crashes, setting, historyVars>>
  BY DEF Moves
<1>3. /\ UNCHANGED <<loaded, stored, crashes, route, installs, place, trail, durable, floor>>
      /\ UNCHANGED <<call, got>>
  BY <1>2 DEF orchestratorVars, storeVars, setting, historyVars
<1>4. ClientPart'
  <2>1. \A e \in Clients : pc'[e] = pc[e] /\ reply'[e] = reply[e]
    BY <1>1, <1>2, RequestFacts
  <2> QED
    BY <1>3, <2>1, ClientFrame
<1>5. \A q \in Publishers : reply'[q] = 201 <=> reply[q] = 201
  BY <1>2, RequestFacts DEF IInv, PublisherPart, PublisherFlow, Statuses
<1>6. \A k : PublishersOf(k)' = PublishersOf(k) /\ PublishersOf(k) \subseteq Publishers
  BY <1>3 DEF PublishersOf
<1>7. \A q, r : Overlap(q, r)' = Overlap(q, r)
  BY <1>3 DEF Overlap
<1>8. PublisherFlow'
  <2>1. ASSUME NEW x \in Publishers, x # p
        PROVE  pc'[x] = pc[x] /\ reply'[x] = reply[x]
    BY <1>1, <1>2, <2>1, RequestFacts
  <2> QED
    BY <1>1, <1>2, <1>3, <2>1, RequestFacts
       DEF IInv, PublisherPart, PublisherFlow, PublisherSteps
<1>9. Positions'
  BY <1>3, <1>5 DEF IInv, PublisherPart, Positions
<1>10. PublishAgrees'
  <2>1. \A r \in Publishers : \A k : Alone(r, k)' => Alone(r, k)
    BY <1>5, <1>6, <1>7 DEF Alone
  <2>2. \A r \in Publishers : pc'[r] \in {"installed", "saved"} => pc'[r] = pc[r]
    BY <1>1, RequestFacts
  <2> QED
    BY <1>3, <2>1, <2>2 DEF IInv, PublisherPart, PublishAgrees
<1>11. AgreesOrNot'
  BY <1>3, <1>5, <1>6, <1>7 DEF IInv, PublisherPart, AgreesOrNot
<1> QED
  BY <1>1, <1>4, <1>8, <1>9, <1>10, <1>11 DEF IInv, PublisherPart

LEMMA Answers ==
  ASSUME IInv, NEW r \in Requests, NEW status \in Statuses, Answer(r, status),
         UNCHANGED <<orchestratorVars, storeVars, call, got, crashes, setting, historyVars>>,
         done' \subseteq Requests, failures' \in Nat, simulations' \subseteq Requests
  PROVE  Moves(r, "answered", status)
  BY RequestFacts DEF Answer, Goto, Moves, IInv, TypeOK

LEMMA GoesOn ==
  ASSUME IInv, NEW r \in Requests, NEW step, step # "answered", pc[r] # "answered",
         Goto(r, step), UNCHANGED reply,
         UNCHANGED <<orchestratorVars, storeVars, call, got, crashes, setting, historyVars>>,
         done' \subseteq Requests, failures' \in Nat, simulations' \subseteq Requests
  PROVE  Moves(r, step, Nothing)
<1>1. reply[r] = Nothing
  BY RequestFacts DEF IInv, PublisherPart, PublisherFlow, ClientPart, ClientFlow
<1> QED
  BY <1>1 DEF Goto, Moves, IInv, TypeOK

LEMMA RefuseIInv ==
  ASSUME IInv, NEW r \in Requests, Refuse(r)
  PROVE  IInv'
<1>1. Moves(r, "answered", 403) /\ 403 \in Statuses
  BY Answers DEF Refuse, Statuses, IInv, TypeOK
<1>2. CASE r \in Publishers
  BY <1>1, <1>2, PublisherMoves DEF Refuse
<1>3. CASE r \in Clients
  BY <1>1, <1>3, ClientMoves DEF Refuse
<1> QED
  BY <1>2, <1>3, RequestFacts

LEMMA ContextDoneIInv ==
  ASSUME IInv, NEW r \in Requests, ContextDone(r)
  PROVE  IInv'
<1> USE DEF ContextDone, orchestratorVars, storeVars, setting, historyVars
<1>1. TypeOK' /\ MapPart'
  BY DEF IInv, TypeOK, MapPart, MapsCoherent, LoadedIsLast
<1>2. PublisherPart'
  BY PublisherFrame, RequestFacts DEF IInv, PublisherPart, Positions
<1>3. ClientPart'
  BY ClientFrame
<1> QED
  BY <1>1, <1>2, <1>3 DEF IInv

(* A floor is made of positions of publishes answered 201 by then.              *)
LEMMA ReceiveIInv ==
  ASSUME IInv, NEW r \in Requests, Receive(r)
  PROVE  IInv'
<1> DEFINE acked == {place[p] : p \in {q \in Publishers : reply[q] = 201}}
<1>1. PICK c \in Asks(r) : call' = [call EXCEPT ![r] = c]
  BY DEF Receive
<1>2. /\ pc[r] = "idle" /\ pc' = [pc EXCEPT ![r] = "received"]
      /\ floor' = [floor EXCEPT ![r] = acked]
      /\ UNCHANGED <<orchestratorVars, storeVars, simulations, got, reply, done,
                     failures, crashes, setting, installs, place>>
  BY DEF Receive, Goto
<1>3. UNCHANGED <<loaded, loadedLatest, stored, storedLatest, trail, route, durable,
                  crashes, installs, place, reply, got, simulations, done, failures>>
  BY <1>2 DEF orchestratorVars, storeVars, setting
<1>4. acked \subseteq 1..Len(installs)
  BY DEF IInv, PublisherPart, PublisherFlow, TypeOK
<1>5. /\ pc'[r] = "received" /\ call'[r] = c /\ floor'[r] = acked
      /\ \A x \in Requests : x # r =>
           pc'[x] = pc[x] /\ call'[x] = call[x] /\ floor'[x] = floor[x]
  BY <1>1, <1>2 DEF IInv, TypeOK
<1> HIDE DEF acked
<1>6. /\ r \in Publishers => c \in Publications
      /\ r \in Clients => c \in Orchestrator!Queries
  BY RequestFacts DEF Asks, Publications
<1>7. TypeOK'
  BY <1>1, <1>2, <1>3, <1>4, <1>6, RequestFacts
     DEF IInv, TypeOK, PublisherSteps
<1>8. MapPart'
  BY <1>3 DEF IInv, MapPart, MapsCoherent, LoadedIsLast
<1>9. CASE r \in Clients
  <2>1. PublisherPart'
    <3>1. \A p \in Publishers : /\ pc'[p] = pc[p] /\ reply'[p] = reply[p]
                                /\ call'[p] = call[p] /\ floor'[p] = floor[p]
      BY <1>3, <1>5, <1>9, RequestFacts
    <3>2. \A e \in Clients : \A i \in floor'[e] :
            \E p \in Publishers : reply[p] = 201 /\ place[p] = i
      BY <1>5, RequestFacts DEF acked, IInv, PublisherPart, Positions
    <3> QED
      BY <1>3, <3>1, <3>2, PublisherFrame
  <2>2. got[r] = Nothing /\ reply[r] = Nothing
    BY <1>2, <1>9 DEF IInv, ClientPart, ClientFlow
  <2>3. ClientFlow'
    <3>1. ASSUME NEW e \in Clients, e # r
          PROVE  pc'[e] = pc[e] /\ call'[e] = call[e]
      BY <1>5, <3>1, RequestFacts
    <3> QED
      BY <1>2, <1>3, <1>5, <1>6, <2>2, <3>1, RequestFacts
         DEF IInv, ClientPart, ClientFlow, ClientSteps
  <2>4. \A i \in 1..Len(trail) : \A e : AuditNames(i, e)' = AuditNames(i, e)
    BY <1>3 DEF AuditNames
  <2>5. \A i \in 1..Len(trail) : trail[i].request \in Clients /\ trail[i].request # r
    BY <1>2, <2>2, TrailFacts, RequestFacts DEF IInv, ClientPart, TrailOfRuns, Statuses
  <2>6. TrailOfRuns'
    BY <1>3, <1>5, <2>4, <2>5, RequestFacts DEF IInv, ClientPart, TrailOfRuns
  <2>7. AuditedInTrail'
    <3>1. \A e \in Clients : Delivered(e)' => Delivered(e)
      BY <1>3, <1>5, RequestFacts DEF Delivered
    <3> QED
      BY <1>3, <2>4, <3>1 DEF IInv, ClientPart, AuditedInTrail
  <2>8. RunsAsAsked'
    BY <1>3, <1>5, <2>2 DEF IInv, ClientPart, RunsAsAsked
  <2>9. RunsAreFresh'
    <3>1. ASSUME NEW e \in Clients, got'[e] # Nothing
          PROVE  /\ e \in Requests /\ e # r /\ floor'[e] = floor[e] /\ got'[e] = got[e]
                 /\ \A j : Supersedes(e, j)' = Supersedes(e, j)
      BY <1>3, <1>5, <2>2, <3>1, RequestFacts DEF Supersedes
    <3> QED
      BY <1>3, <3>1 DEF IInv, ClientPart, RunsAreFresh, AnsweredFrom
  <2> QED
    BY <1>7, <1>8, <2>1, <2>3, <2>6, <2>7, <2>8, <2>9 DEF IInv, ClientPart
<1>10. CASE r \in Publishers
  <2>1. ClientPart'
    <3>1. \A e \in Clients : pc'[e] = pc[e] /\ call'[e] = call[e] /\ floor'[e] = floor[e]
      BY <1>5, <1>10, RequestFacts
    <3> QED
      BY <1>3, <3>1, ClientFrame
  <2>2. place[r] = 0 /\ reply[r] = Nothing
    BY <1>2, <1>10 DEF IInv, PublisherPart, PublisherFlow
  <2>3. \A p \in Publishers : p # r =>
          pc'[p] = pc[p] /\ call'[p] = call[p] /\ floor'[p] = floor[p]
    BY <1>5, RequestFacts
  <2>4. PublisherFlow'
    BY <1>2, <1>3, <1>5, <1>6, <1>10, <2>2, <2>3, RequestFacts
       DEF IInv, PublisherPart, PublisherFlow, PublisherSteps, Statuses
  <2>5. Positions'
    BY <1>3, <1>5 DEF acked, IInv, PublisherPart, Positions
  <2>6. \A k : PublishersOf(k)' = PublishersOf(k) /\ r \notin PublishersOf(k)
                 /\ PublishersOf(k) \subseteq Publishers
    BY <1>3, <2>2, <2>3 DEF PublishersOf
  <2>7. \A k : \A p, q \in PublishersOf(k) : Overlap(p, q)' = Overlap(p, q)
    BY <1>3, <2>3, <2>6 DEF Overlap
  <2>8. PublishAgrees'
    <3>1. \A p \in Publishers : \A k : Alone(p, k)' => Alone(p, k)
      BY <1>3, <2>6, <2>7 DEF Alone
    <3> QED
      BY <1>3, <1>5, <2>3, <3>1 DEF IInv, PublisherPart, PublishAgrees
  <2>9. AgreesOrNot'
    BY <1>3, <2>6, <2>7 DEF IInv, PublisherPart, AgreesOrNot
  <2> QED
    BY <1>7, <1>8, <2>1, <2>4, <2>5, <2>8, <2>9 DEF IInv, PublisherPart
<1> QED
  BY <1>9, <1>10, RequestFacts

-------------------------------------------------------------------------------
(* A publish.                                                                *)
LEMMA CompilePackageIInv ==
  ASSUME IInv, NEW r \in Publishers, CompilePackage(r)
  PROVE  IInv'
<1>0. pc[r] = "received" /\ r \in Requests
  BY RequestFacts DEF CompilePackage
<1>1. CASE Answer(r, 400)
  <2>1. Moves(r, "answered", 400)
    <3>1. /\ UNCHANGED <<orchestratorVars, storeVars, call, got, crashes, setting,
                         historyVars>>
          /\ done' \subseteq Requests /\ failures' \in Nat /\ simulations' \subseteq Requests
      BY DEF CompilePackage, IInv, TypeOK
    <3> QED
      BY <1>0, <1>1, <3>1, Answers DEF Statuses
  <2>2. IInv'
    BY <1>0, <2>1, PublisherMoves
  <2> QED
    BY <2>2
<1>2. CASE Goto(r, "compiled") /\ UNCHANGED reply
  <2>1. Moves(r, "compiled", Nothing)
    BY <1>2, GoesOn, RequestFacts DEF CompilePackage, IInv, TypeOK
  <2> QED
    BY <2>1, PublisherMoves, RequestFacts DEF CompilePackage, Statuses
<1> QED
  BY <1>1, <1>2 DEF CompilePackage

LEMMA SaveTimedOutIInv ==
  ASSUME IInv, NEW r \in Publishers, SaveTimedOut(r)
  PROVE  IInv'
<1>1. Moves(r, "answered", 408)
  BY Answers, RequestFacts DEF SaveTimedOut, Statuses, IInv, TypeOK
<1> QED
  BY <1>1, PublisherMoves DEF SaveTimedOut

(* What is installed is now the last of its key and of its slot, and its publish *)
(* is unanswered.                                                            *)
LEMMA AddPackageIInv ==
  ASSUME IInv, NEW r \in Publishers, AddPackage(r)
  PROVE  IInv'
<1>0. PICK k \in Keys, d \in Digests : call[r] = [key |-> k, digest |-> d]
  BY DEF AddPackage, IInv, PublisherPart, PublisherFlow, Publications
<1>n. PICK n : n = Len(installs) + 1
  OBVIOUS
<1>1. /\ r \in Requests /\ pc[r] = "compiled" /\ call[r] \in Publications
      /\ call[r].key = k /\ call[r].digest = d /\ call[r] = [key |-> k, digest |-> d]
      /\ place[r] = 0 /\ reply[r] = Nothing
  BY <1>0, RequestFacts DEF AddPackage, IInv, PublisherPart, PublisherFlow, Publications
<1>2. /\ loaded' = [loaded EXCEPT ![k] = d]
      /\ loadedLatest' = [loadedLatest EXCEPT ![<<k.name, k.environment>>] = k]
      /\ pc' = [pc EXCEPT ![r] = "installed"]
      /\ installs' = Append(installs, call[r])
      /\ place' = [place EXCEPT ![r] = n]
      /\ UNCHANGED <<stored, storedLatest, trail, simulations, call, got, reply, done,
                     failures, crashes, route, durable, floor>>
  BY <1>1, <1>n DEF AddPackage, Orchestrator!Install, Orchestrator!SlotOf, Goto, storeVars, setting
<1>3. /\ Len(installs) \in Nat /\ n \in Nat
      /\ installs' \in Seq(Publications) /\ Len(installs') = n
      /\ \A i \in 1..Len(installs) : installs'[i] = installs[i]
      /\ installs'[n] = call[r]
  BY <1>1, <1>2, <1>n, AppendProperties DEF IInv, TypeOK
<1>4. n = Len(installs) + 1 /\ 1..Len(installs') = 1..Len(installs) \cup {n}
  BY <1>3, <1>n
<1>5. /\ k # Nothing /\ d # Nothing /\ <<k.name, k.environment>> \in Slots
      /\ k.name \in Names
  BY <1>1, KeyFacts, NothingAssumption
<1>6. TypeOK'
  <2>1. \A x \in Requests : floor'[x] \subseteq 1..Len(installs')
    BY <1>2, <1>4 DEF IInv, TypeOK
  <2>2. place' \in [Publishers -> 0..Len(installs')]
    BY <1>2, <1>3, <1>4 DEF IInv, TypeOK
  <2> QED
    BY <1>1, <1>2, <1>3, <1>5, <2>1, <2>2 DEF IInv, TypeOK, PublisherSteps
<1>7. /\ loaded'[k] = d /\ \A q \in Keys : q # k => loaded'[q] = loaded[q]
      /\ loadedLatest'[<<k.name, k.environment>>] = k
      /\ \A s \in Slots : s # <<k.name, k.environment>> =>
           loadedLatest'[s] = loadedLatest[s]
  BY <1>1, <1>2, <1>5 DEF IInv, TypeOK
<1>8. /\ pc'[r] = "installed" /\ place'[r] = n
      /\ \A x \in Requests : x # r => pc'[x] = pc[x]
      /\ \A p \in Publishers : p # r => place'[p] = place[p]
  BY <1>1, <1>2 DEF IInv, TypeOK
<1>9. MapsCoherent'
  <2>1. ASSUME NEW s \in Slots, loadedLatest'[s] # Nothing
        PROVE  /\ Orchestrator!SlotOf(loadedLatest'[s]) = s
               /\ loaded'[loadedLatest'[s]] # Nothing
    <3>1. CASE s = <<k.name, k.environment>>
      BY <3>1, <1>5, <1>7 DEF Orchestrator!SlotOf
    <3>2. CASE s # <<k.name, k.environment>>
      BY <2>1, <3>2, <1>5, <1>7 DEF IInv, MapPart, MapsCoherent, TypeOK
    <3> QED
      BY <3>1, <3>2
  <2> QED
    BY <1>2, <2>1 DEF IInv, MapPart, MapsCoherent, Orchestrator!SlotOf
<1>10. LoadedIsLast'
  <2>1. ASSUME NEW q \in Keys, loaded'[q] # Nothing
        PROVE  \E i \in 1..Len(installs') :
                 /\ installs'[i] = [key |-> q, digest |-> loaded'[q]]
                 /\ \A j \in 1..Len(installs') : installs'[j].key = q => j <= i
    <3>1. CASE q = k
      <4>1. installs'[n] = [key |-> q, digest |-> loaded'[q]]
        BY <3>1, <1>1, <1>3, <1>7
      <4> QED
        BY <4>1, <1>3, <1>4
    <3>2. CASE q # k
      <4>1. PICK i \in 1..Len(installs) :
              /\ installs[i] = [key |-> q, digest |-> loaded[q]]
              /\ \A j \in 1..Len(installs) : installs[j].key = q => j <= i
        BY <2>1, <3>2, <1>7 DEF IInv, MapPart, LoadedIsLast
      <4>2. installs'[n].key # q
        BY <3>2, <1>1, <1>3
      <4>3. i \in 1..Len(installs') /\ installs'[i] = [key |-> q, digest |-> loaded'[q]]
        BY <3>2, <4>1, <1>3, <1>4, <1>7
      <4>4. \A j \in 1..Len(installs') : installs'[j].key = q => j <= i
        BY <4>1, <4>2, <1>3, <1>4
      <4> QED
        BY <4>3, <4>4
    <3> QED
      BY <3>1, <3>2
  <2>2. ASSUME NEW s \in Slots, loadedLatest'[s] # Nothing
        PROVE  \E i \in 1..Len(installs') :
                 /\ installs'[i].key = loadedLatest'[s]
                 /\ \A j \in 1..Len(installs') :
                      Orchestrator!SlotOf(installs'[j].key) = s => j <= i
    <3>1. CASE s = <<k.name, k.environment>>
      <4>1. installs'[n].key = loadedLatest'[s]
        BY <3>1, <1>1, <1>3, <1>7
      <4> QED
        BY <4>1, <1>3, <1>4
    <3>2. CASE s # <<k.name, k.environment>>
      <4>1. PICK i \in 1..Len(installs) :
              /\ installs[i].key = loadedLatest[s]
              /\ \A j \in 1..Len(installs) :
                   Orchestrator!SlotOf(installs[j].key) = s => j <= i
        BY <2>2, <3>2, <1>7 DEF IInv, MapPart, LoadedIsLast
      <4>2. Orchestrator!SlotOf(installs'[n].key) # s
        BY <3>2, <1>1, <1>3 DEF Orchestrator!SlotOf
      <4>3. i \in 1..Len(installs') /\ installs'[i].key = loadedLatest'[s]
        BY <3>2, <4>1, <1>3, <1>4, <1>7
      <4>4. \A j \in 1..Len(installs') : Orchestrator!SlotOf(installs'[j].key) = s => j <= i
        BY <4>1, <4>2, <1>3, <1>4
      <4> QED
        BY <4>3, <4>4
    <3> QED
      BY <3>1, <3>2
  <2>3. \A q : Orchestrator!SlotOf(q)' = Orchestrator!SlotOf(q)
    BY DEF Orchestrator!SlotOf
  <2> QED
    BY <2>1, <2>2 DEF LoadedIsLast, Orchestrator!SlotOf
<1>11. ClientPart'
  <2>1. \A e \in Clients : pc'[e] = pc[e]
    BY <1>8, RequestFacts
  <2>2. \A i \in 1..Len(installs) : i \in 1..Len(installs') /\ installs'[i] = installs[i]
    BY <1>3, <1>4
  <2> QED
    BY <1>2, <2>1, <2>2, ClientFrame
<1>12. \A p \in Publishers : place[p] \in 0..Len(installs) /\ place[p] # n
  BY <1>3, <1>n DEF IInv, TypeOK
<1>13. PublisherFlow'
  <2>1. ASSUME NEW p \in Publishers, p # r
        PROVE  /\ pc'[p] = pc[p] /\ place'[p] = place[p]
               /\ place[p] # 0 => installs'[place[p]] = installs[place[p]]
    BY <1>3, <1>8, <1>12, <2>1, RequestFacts
  <2>2. ASSUME NEW p \in Publishers, p # r
        PROVE  /\ route'[p] = "packages" /\ pc'[p] \in PublisherSteps
               /\ reply'[p] # Nothing <=> pc'[p] = "answered"
               /\ pc'[p] \in {"received", "compiled", "installed", "saved"} =>
                    call'[p] \in Publications
               /\ pc'[p] \in {"idle", "received", "compiled"} => place'[p] = 0
               /\ pc'[p] \in {"installed", "saved"} \/ reply'[p] = 201 => place'[p] # 0
               /\ place'[p] # 0 => call'[p] \in Publications /\ installs'[place'[p]] = call'[p]
    <3>1. /\ route[p] = "packages" /\ pc[p] \in PublisherSteps
          /\ reply[p] # Nothing <=> pc[p] = "answered"
          /\ pc[p] \in {"received", "compiled", "installed", "saved"} =>
               call[p] \in Publications
          /\ pc[p] \in {"idle", "received", "compiled"} => place[p] = 0
          /\ pc[p] \in {"installed", "saved"} \/ reply[p] = 201 => place[p] # 0
          /\ place[p] # 0 => call[p] \in Publications /\ installs[place[p]] = call[p]
      BY DEF IInv, PublisherPart, PublisherFlow
    <3>2. route' = route /\ reply' = reply /\ call' = call
      BY <1>2
    <3> QED
      BY <2>1, <2>2, <3>1, <3>2
  <2>3. /\ route'[r] = "packages" /\ pc'[r] \in PublisherSteps
        /\ reply'[r] = Nothing /\ reply'[r] # 201 /\ pc'[r] = "installed"
        /\ call'[r] \in Publications /\ place'[r] # 0 /\ installs'[place'[r]] = call'[r]
    BY <1>1, <1>2, <1>3, <1>4, <1>8, RequestFacts
       DEF IInv, PublisherPart, PublisherFlow, PublisherSteps, Statuses
  <2> QED
    BY <2>2, <2>3 DEF PublisherFlow
<1>14. Positions'
  <2>1. \A p, q \in Publishers : place'[p] # 0 /\ place'[p] = place'[q] => p = q
    BY <1>8, <1>12 DEF IInv, PublisherPart, Positions
  <2>2. reply[r] # 201
    BY <1>1, RequestFacts DEF Statuses
  <2>3. \A p \in Publishers : reply[p] = 201 => place'[p] = place[p]
    BY <1>8, <2>2
  <2> QED
    BY <1>2, <2>1, <2>3 DEF IInv, PublisherPart, Positions
<1>15. /\ PublishersOf(k)' = PublishersOf(k) \cup {r}
       /\ \A q : q # k => PublishersOf(q)' = PublishersOf(q)
       /\ \A q : PublishersOf(q) \subseteq Publishers /\ r \notin PublishersOf(q)
  BY <1>1, <1>2, <1>3, <1>4, <1>8, <1>n DEF PublishersOf, IInv, TypeOK
<1>16. \A q : \A p, x \in PublishersOf(q) : Overlap(p, x)' = Overlap(p, x)
  BY <1>2, <1>8, <1>15 DEF Overlap
<1>17. reply'[r] # 201
  BY <1>1, <1>2, RequestFacts DEF Statuses
<1>18. PublishAgrees'
  <2>1. ASSUME crashes = 0, NEW p \in Publishers, pc'[p] \in {"installed", "saved"},
               NEW q \in Keys, q = call[p].key, Alone(p, q)'
        PROVE  loaded'[q] = call[p].digest /\ (pc'[p] = "saved" => stored'[q] = call[p].digest)
    <3>1. CASE p = r
      BY <2>1, <3>1, <1>1, <1>7, <1>8
    <3>2. CASE p # r
      <4>1. q # k
        BY <2>1, <3>2, <1>15, <1>17 DEF Alone
      <4>2. Alone(p, q)
        BY <2>1, <4>1, <1>2, <1>15, <1>16 DEF Alone
      <4>3. pc[p] = pc'[p]
        BY <3>2, <1>8, RequestFacts
      <4> QED
        BY <1>2, <1>7, <2>1, <4>1, <4>2, <4>3 DEF IInv, PublisherPart, PublishAgrees
    <3> QED
      BY <3>1, <3>2
  <2>2. \A p \in Publishers : pc'[p] \in {"installed", "saved"} => call[p].key \in Keys
    BY <1>2, <1>13 DEF PublisherFlow, Publications
  <2> QED
    BY <1>2, <2>1, <2>2 DEF PublishAgrees
<1>19. AgreesOrNot'
  BY <1>2, <1>7, <1>15, <1>16, <1>17 DEF IInv, PublisherPart, AgreesOrNot
<1> QED
  BY <1>6, <1>9, <1>10, <1>11, <1>13, <1>14, <1>18, <1>19
     DEF IInv, PublisherPart, MapPart

(* A save that takes effect, whether or not the publish learns of it: until it   *)
(* is answered 201 it is a publish of its key that was not.                    *)
Saving(r, step, status) ==
  /\ pc[r] = "installed" /\ Store!SavePackage(call[r].key, call[r].digest)
  /\ pc' = [pc EXCEPT ![r] = step]
  /\ reply' \in [Requests -> Statuses \cup {Nothing}]
  /\ reply'[r] = status /\ \A x \in Requests : x # r => reply'[x] = reply[x]
  /\ status # Nothing <=> step = "answered"
  /\ UNCHANGED <<orchestratorVars, simulations, call, got, done, crashes, setting,
                 historyVars>>
  /\ failures' \in Nat

LEMMA Saves ==
  ASSUME IInv, NEW r \in Publishers,
         NEW step \in {"saved", "answered"}, NEW status \in {Nothing, 400},
         Saving(r, step, status)
  PROVE  IInv'
<1> USE DEF Saving
<1>0. PICK k \in Keys, d \in Digests : call[r] = [key |-> k, digest |-> d]
  BY DEF IInv, PublisherPart, PublisherFlow, Publications
<1>1. /\ r \in Requests /\ call[r].key = k /\ call[r].digest = d
      /\ place[r] # 0 /\ reply[r] = Nothing /\ call[r] \in Publications
      /\ status # 201 /\ Nothing # 201
  BY <1>0, RequestFacts DEF IInv, PublisherPart, PublisherFlow, Publications, Statuses
<1>2. /\ stored' = [stored EXCEPT ![k] = d]
      /\ storedLatest' = [storedLatest EXCEPT ![<<k.name, k.environment>>] = k]
      /\ UNCHANGED <<loaded, loadedLatest, trail, simulations, call, got, done,
                     crashes, route, durable, installs, place, floor>>
  BY <1>1 DEF Store!SavePackage, orchestratorVars, setting, historyVars
<1>3. k # Nothing /\ d # Nothing /\ <<k.name, k.environment>> \in Slots
  BY KeyFacts, NothingAssumption
<1>4. /\ stored'[k] = d /\ \A q \in Keys : q # k => stored'[q] = stored[q]
      /\ storedLatest'[<<k.name, k.environment>>] = k
      /\ \A s \in Slots : s # <<k.name, k.environment>> =>
           storedLatest'[s] = storedLatest[s]
      /\ pc'[r] = step /\ \A x \in Requests : x # r => pc'[x] = pc[x]
  BY <1>1, <1>2, <1>3 DEF IInv, TypeOK
<1>5. TypeOK'
  <2>1. /\ stored' \in [Keys -> Digests \cup {Nothing}]
        /\ storedLatest' \in [Slots -> Keys \cup {Nothing}]
        /\ pc' \in [Requests -> PublisherSteps \cup ClientSteps]
    BY <1>2, <1>3 DEF IInv, TypeOK, PublisherSteps
  <2> QED
    BY <1>2, <2>1 DEF IInv, TypeOK
<1>6. MapPart'
  <2>1. ASSUME NEW s \in Slots, storedLatest'[s] # Nothing
        PROVE  /\ Orchestrator!SlotOf(storedLatest'[s]) = s
               /\ stored'[storedLatest'[s]] # Nothing
    <3>1. CASE s = <<k.name, k.environment>>
      BY <3>1, <1>3, <1>4 DEF Orchestrator!SlotOf
    <3>2. CASE s # <<k.name, k.environment>>
      BY <2>1, <3>2, <1>3, <1>4 DEF IInv, MapPart, MapsCoherent, TypeOK
    <3> QED
      BY <3>1, <3>2
  <2>2. MapsCoherent'
    BY <1>2, <2>1 DEF IInv, MapPart, MapsCoherent, Orchestrator!SlotOf
  <2>3. LoadedIsLast'
    BY <1>2 DEF IInv, MapPart, LoadedIsLast, Orchestrator!SlotOf
  <2> QED
    BY <2>2, <2>3 DEF MapPart
<1>7. ClientPart'
  <2>1. \A e \in Clients : pc'[e] = pc[e] /\ reply'[e] = reply[e]
    BY <1>4, RequestFacts
  <2> QED
    BY <1>2, <2>1, ClientFrame
<1>8. \A x \in Publishers : reply'[x] = 201 <=> reply[x] = 201
  BY <1>1, RequestFacts
<1>9. PublisherFlow'
  <2>1. ASSUME NEW x \in Publishers, x # r
        PROVE  pc'[x] = pc[x] /\ reply'[x] = reply[x]
    BY <1>4, <2>1, RequestFacts
  <2> QED
    BY <1>1, <1>2, <1>4, <2>1, RequestFacts
       DEF IInv, PublisherPart, PublisherFlow, PublisherSteps
<1>10. Positions'
  BY <1>2, <1>8 DEF IInv, PublisherPart, Positions
<1>11. \A q : PublishersOf(q)' = PublishersOf(q) /\ PublishersOf(q) \subseteq Publishers
  BY <1>2 DEF PublishersOf
<1>12. \A x, y : Overlap(x, y)' = Overlap(x, y)
  BY <1>2 DEF Overlap
<1>13. r \in PublishersOf(k) /\ reply'[r] # 201
  BY <1>1 DEF PublishersOf
<1>14. PublishAgrees'
  <2>1. ASSUME crashes = 0, NEW p \in Publishers, pc'[p] \in {"installed", "saved"},
               NEW q \in Keys, q = call[p].key, Alone(p, q)'
        PROVE  loaded'[q] = call[p].digest /\ (pc'[p] = "saved" => stored'[q] = call[p].digest)
    <3>1. Alone(p, q)
      BY <2>1, <1>8, <1>11, <1>12 DEF Alone
    <3>2. CASE p = r
      BY <2>1, <3>1, <3>2, <1>1, <1>2, <1>4 DEF IInv, PublisherPart, PublishAgrees
    <3>3. CASE p # r
      <4>1. q # k
        BY <2>1, <3>3, <1>11, <1>13 DEF Alone
      <4>2. pc[p] = pc'[p]
        BY <3>3, <1>4, RequestFacts
      <4> QED
        BY <1>2, <1>4, <2>1, <3>1, <4>1, <4>2 DEF IInv, PublisherPart, PublishAgrees
    <3> QED
      BY <3>2, <3>3
  <2>2. \A p \in Publishers : pc'[p] \in {"installed", "saved"} => call[p].key \in Keys
    BY <1>2, <1>9 DEF PublisherFlow, Publications
  <2> QED
    BY <1>2, <2>1, <2>2 DEF PublishAgrees
<1>15. AgreesOrNot'
  BY <1>2, <1>4, <1>8, <1>11, <1>12, <1>13 DEF IInv, PublisherPart, AgreesOrNot
<1> QED
  BY <1>5, <1>6, <1>7, <1>9, <1>10, <1>14, <1>15 DEF IInv, PublisherPart

LEMMA SavePackageIInv ==
  ASSUME IInv, NEW r \in Publishers, SavePackage(r)
  PROVE  IInv'
<1>1. /\ pc[r] = "installed" /\ Store!SavePackage(call[r].key, call[r].digest)
      /\ pc' = [pc EXCEPT ![r] = "saved"]
      /\ UNCHANGED <<orchestratorVars, simulations, call, got, reply, done, failures,
                     crashes, setting, historyVars>>
  BY DEF SavePackage, Goto
<1>2. /\ reply' = reply /\ reply \in [Requests -> Statuses \cup {Nothing}]
      /\ reply[r] = Nothing /\ failures' \in Nat
  BY <1>1 DEF IInv, TypeOK, PublisherPart, PublisherFlow
<1>3. Saving(r, "saved", Nothing)
  <2>1. reply'[r] = Nothing /\ \A x \in Requests : x # r => reply'[x] = reply[x]
    BY <1>2
  <2> QED
    BY <1>1, <1>2, <2>1 DEF Saving
<1> QED
  BY <1>3, Saves

LEMMA SaveFailedIInv ==
  ASSUME IInv, NEW r \in Publishers, SaveFailed(r)
  PROVE  IInv'
<1>1. /\ pc[r] = "installed" /\ Answer(r, 400) /\ failures' \in Nat
      /\ UNCHANGED <<orchestratorVars, simulations, call, got, done, crashes, setting,
                     historyVars>>
      /\ r \in Requests /\ 400 \in Statuses /\ 400 # Nothing
  BY RequestFacts DEF SaveFailed, IInv, TypeOK, Statuses
<1>2. CASE UNCHANGED storeVars
  <2>1. done' \subseteq Requests /\ simulations' \subseteq Requests
    BY <1>1 DEF IInv, TypeOK
  <2>2. Moves(r, "answered", 400)
    BY <1>1, <1>2, <2>1, Answers
  <2> QED
    BY <1>1, <2>2, PublisherMoves
<1>3. CASE Store!SavePackage(call[r].key, call[r].digest)
  <2>1. /\ pc' = [pc EXCEPT ![r] = "answered"] /\ reply' = [reply EXCEPT ![r] = 400]
        /\ reply \in [Requests -> Statuses \cup {Nothing}]
    BY <1>1 DEF Answer, Goto, IInv, TypeOK
  <2>2. /\ reply' \in [Requests -> Statuses \cup {Nothing}] /\ reply'[r] = 400
        /\ \A x \in Requests : x # r => reply'[x] = reply[x]
    BY <1>1, <2>1
  <2>3. Saving(r, "answered", 400)
    BY <1>1, <1>3, <2>1, <2>2 DEF Saving
  <2> QED
    BY <2>3, Saves
<1> QED
  BY <1>2, <1>3 DEF SaveFailed

(* When the last of the publishes of a key that did not overlap is answered, it  *)
(* is the one whose package is loaded and stored.                             *)
LEMMA AnswerPublishIInv ==
  ASSUME IInv, NEW r \in Publishers, AnswerPublish(r)
  PROVE  IInv'
<1>1. /\ pc[r] = "saved" /\ pc' = [pc EXCEPT ![r] = "answered"]
      /\ reply' = [reply EXCEPT ![r] = 201]
      /\ UNCHANGED <<loaded, loadedLatest, stored, storedLatest, trail, simulations,
                     call, got, done, failures, crashes, route, durable, installs,
                     place, floor>>
  BY DEF AnswerPublish, Answer, Goto, orchestratorVars, storeVars, setting, historyVars
<1>2. PICK k \in Keys, d \in Digests : call[r] = [key |-> k, digest |-> d]
  BY <1>1 DEF IInv, PublisherPart, PublisherFlow, Publications
<1>3. /\ r \in Requests /\ call[r].key = k /\ call[r].digest = d
      /\ place[r] # 0 /\ reply[r] = Nothing /\ call[r] \in Publications
      /\ Nothing # 201 /\ 201 \in Statuses
  BY <1>1, <1>2, RequestFacts DEF IInv, PublisherPart, PublisherFlow, Publications, Statuses
<1>4. /\ pc'[r] = "answered" /\ reply'[r] = 201
      /\ \A x \in Requests : x # r => pc'[x] = pc[x] /\ reply'[x] = reply[x]
  BY <1>1, <1>3 DEF IInv, TypeOK
<1>5. TypeOK'
  BY <1>1, <1>3 DEF IInv, TypeOK, PublisherSteps
<1>6. MapPart'
  BY <1>1 DEF IInv, MapPart, MapsCoherent, LoadedIsLast, Orchestrator!SlotOf
<1>7. ClientPart'
  <2>1. \A e \in Clients : pc'[e] = pc[e] /\ reply'[e] = reply[e]
    BY <1>4, RequestFacts
  <2> QED
    BY <1>1, <2>1, ClientFrame
<1>8. PublisherFlow'
  <2>1. ASSUME NEW x \in Publishers, x # r
        PROVE  pc'[x] = pc[x] /\ reply'[x] = reply[x]
    BY <1>4, <2>1, RequestFacts
  <2> QED
    BY <1>1, <1>3, <1>4, <2>1 DEF IInv, PublisherPart, PublisherFlow, PublisherSteps
<1>9. Positions'
  <2>1. \A p \in Publishers : reply[p] = 201 => reply'[p] = 201
    BY <1>4, RequestFacts
  <2> QED
    BY <1>1, <2>1 DEF IInv, PublisherPart, Positions
<1>10. /\ \A q : PublishersOf(q)' = PublishersOf(q) /\ PublishersOf(q) \subseteq Publishers
       /\ \A q : r \in PublishersOf(q) <=> q = k
  BY <1>1, <1>3 DEF PublishersOf
<1>11. \A x, y : Overlap(x, y)' = Overlap(x, y)
  BY <1>1 DEF Overlap
<1>12. ASSUME NEW p \in Publishers, p # r, pc[p] \in {"installed", "saved"}
       PROVE  Overlap(p, r)
  <2>1. reply[p] # 201 /\ place[p] # 0
    BY <1>12, <1>3 DEF IInv, PublisherPart, PublisherFlow
  <2>2. \A x \in Requests, y \in Publishers :
          place[y] \in floor[x] => place[y] = 0 \/ reply[y] = 201
    BY DEF IInv, PublisherPart, Positions
  <2> QED
    BY <1>3, <1>12, <2>1, <2>2, RequestFacts DEF Overlap
<1>13. PublishAgrees'
  <2>1. ASSUME crashes = 0, NEW p \in Publishers, pc'[p] \in {"installed", "saved"},
               NEW q \in Keys, q = call[p].key, Alone(p, q)'
        PROVE  loaded'[q] = call[p].digest /\ (pc'[p] = "saved" => stored'[q] = call[p].digest)
    <3>1. p # r /\ pc[p] = pc'[p]
      BY <2>1, <1>4, RequestFacts
    <3>2. p \in PublishersOf(q)
      BY <2>1, <3>1 DEF PublishersOf, IInv, PublisherPart, PublisherFlow
    <3>3. q # k
      BY <2>1, <3>1, <3>2, <1>10, <1>11, <1>12 DEF Alone
    <3>4. Alone(p, q)
      BY <2>1, <3>3, <1>4, <1>10, <1>11, RequestFacts DEF Alone
    <3> QED
      BY <1>1, <2>1, <3>1, <3>4 DEF IInv, PublisherPart, PublishAgrees
  <2>2. \A p \in Publishers : pc'[p] \in {"installed", "saved"} => call[p].key \in Keys
    BY <1>1, <1>8 DEF PublisherFlow, Publications
  <2> QED
    BY <1>1, <2>1, <2>2 DEF PublishAgrees
<1>14. AgreesOrNot'
  <2>1. ASSUME crashes = 0, NEW q \in Keys,
               \A p \in PublishersOf(q) : reply'[p] = 201,
               \A x, y \in PublishersOf(q) : ~Overlap(x, y)
        PROVE  loaded[q] = stored[q]
    <3>1. CASE q = k
      <4>1. Alone(r, q)
        BY <2>1, <1>4, <1>10, RequestFacts DEF Alone
      <4> QED
        BY <2>1, <3>1, <4>1, <1>1, <1>3 DEF IInv, PublisherPart, PublishAgrees
    <3>2. CASE q # k
      <4>1. \A p \in PublishersOf(q) : reply[p] = 201
        BY <2>1, <3>2, <1>4, <1>10, RequestFacts
      <4> QED
        BY <2>1, <4>1 DEF IInv, PublisherPart, AgreesOrNot
    <3> QED
      BY <3>1, <3>2
  <2> QED
    BY <1>1, <1>10, <1>11, <2>1 DEF AgreesOrNot
<1> QED
  BY <1>5, <1>6, <1>7, <1>8, <1>9, <1>13, <1>14 DEF IInv, PublisherPart

-------------------------------------------------------------------------------
(* A request of a client.                                                    *)
LEMMA SettledClients ==
  ASSUME IInv, NEW e \in Clients
  PROVE  /\ e \in Requests
         /\ pc[e] \in {"received", "resolved", "evaluated", "audited"} =>
              reply[e] = Nothing /\ call[e] \in Orchestrator!Queries
         /\ pc[e] \in {"resolved", "evaluated", "audited"} /\ route[e] = "decision" =>
              got[e] # Nothing /\ got[e] \in Publications
  BY RequestFacts DEF IInv, TypeOK, ClientPart, ClientFlow

LEMMA BringPackageIInv ==
  ASSUME IInv, NEW r \in Clients, BringPackage(r), route[r] = "simulate"
  PROVE  IInv'
<1>1. /\ r \in Requests /\ pc[r] = "received" /\ call[r] \in Orchestrator!Queries
      /\ UNCHANGED <<orchestratorVars, storeVars, simulations, call, got, done,
                     failures, crashes, setting, historyVars>>
      /\ done' \subseteq Requests /\ failures' \in Nat /\ simulations' \subseteq Requests
  BY SettledClients DEF BringPackage, IInv, TypeOK
<1>2. CASE Goto(r, "resolved") /\ UNCHANGED reply
  <2>1. Moves(r, "resolved", Nothing)
    BY <1>1, <1>2, GoesOn
  <2> QED
    BY <1>1, <2>1, ClientMoves, RequestFacts DEF Statuses
<1>3. CASE Answer(r, 400)
  <2>1. Moves(r, "answered", 400)
    BY <1>1, <1>3, Answers DEF Statuses
  <2> QED
    BY <1>1, <2>1, ClientMoves
<1> QED
  BY <1>2, <1>3 DEF BringPackage

LEMMA RunPackageIInv ==
  ASSUME IInv, NEW r \in Clients, RunPackage(r)
  PROVE  IInv'
<1>1. /\ r \in Requests /\ pc[r] = "resolved" /\ call[r] \in Orchestrator!Queries
      /\ route[r] = "decision" => got[r] # Nothing
      /\ UNCHANGED <<orchestratorVars, storeVars, simulations, call, got, done,
                     failures, crashes, setting, historyVars>>
      /\ done' \subseteq Requests /\ failures' \in Nat /\ simulations' \subseteq Requests
  BY SettledClients DEF RunPackage, IInv, TypeOK
<1>2. CASE Goto(r, "evaluated") /\ UNCHANGED reply
  <2>1. Moves(r, "evaluated", Nothing)
    BY <1>1, <1>2, GoesOn
  <2> QED
    BY <1>1, <2>1, ClientMoves, RequestFacts DEF Statuses
<1>3. CASE Answer(r, 400)
  <2>1. Moves(r, "answered", 400)
    BY <1>1, <1>3, Answers DEF Statuses
  <2> QED
    BY <1>1, <2>1, ClientMoves
<1> QED
  BY <1>2, <1>3 DEF RunPackage

LEMMA SaveAuditFailedIInv ==
  ASSUME IInv, NEW r \in Clients, SaveAuditFailed(r)
  PROVE  IInv'
<1>1. /\ r \in Requests /\ pc[r] = "evaluated" /\ Answer(r, 500) /\ failures' \in Nat
      /\ UNCHANGED <<orchestratorVars, storeVars, simulations, call, got, done,
                     crashes, setting, historyVars>>
      /\ done' \subseteq Requests /\ simulations' \subseteq Requests
  BY SettledClients DEF SaveAuditFailed, IInv, TypeOK
<1>2. Moves(r, "answered", 500)
  BY <1>1, Answers DEF Statuses
<1> QED
  BY <1>1, <1>2, ClientMoves

LEMMA AnswerEvaluateIInv ==
  ASSUME IInv, NEW r \in Clients, AnswerEvaluate(r)
  PROVE  IInv'
<1>1. /\ r \in Requests /\ pc[r] = "audited" /\ Answer(r, 200)
      /\ UNCHANGED <<orchestratorVars, storeVars, simulations, call, got, done,
                     failures, crashes, setting, historyVars>>
      /\ done' \subseteq Requests /\ failures' \in Nat /\ simulations' \subseteq Requests
  BY SettledClients DEF AnswerEvaluate, IInv, TypeOK
<1>2. Moves(r, "answered", 200)
  BY <1>1, Answers DEF Statuses
<1> QED
  BY <1>1, <1>2, ClientMoves

LEMMA SaveSimulationIInv ==
  ASSUME IInv, NEW r \in Clients, SaveSimulation(r), route[r] = "simulate"
  PROVE  IInv'
<1>1. /\ r \in Requests /\ pc[r] = "evaluated" /\ Answer(r, 200)
      /\ UNCHANGED <<orchestratorVars, storeVars, call, got, done, crashes, setting,
                     historyVars>>
      /\ done' \subseteq Requests
  BY SettledClients DEF SaveSimulation, IInv, TypeOK
<1>2. failures' \in Nat /\ simulations' \subseteq Requests
  BY <1>1 DEF SaveSimulation, IInv, TypeOK
<1>3. Moves(r, "answered", 200)
  BY <1>1, <1>2, Answers DEF Statuses
<1> QED
  BY <1>1, <1>3, ClientMoves

LEMMA RunTestsIInv ==
  ASSUME IInv, NEW r \in Clients, RunTests(r), route[r] = "tests"
  PROVE  IInv'
<1>1. /\ r \in Requests /\ pc[r] = "resolved"
      /\ UNCHANGED <<orchestratorVars, storeVars, simulations, call, got, done,
                     failures, crashes, setting, historyVars>>
      /\ done' \subseteq Requests /\ failures' \in Nat /\ simulations' \subseteq Requests
  BY SettledClients DEF RunTests, IInv, TypeOK
<1>2. PICK status \in {200, 400} : Answer(r, status)
  BY DEF RunTests
<1>3. Moves(r, "answered", status)
  BY <1>1, <1>2, Answers DEF Statuses
<1> QED
  BY <1>1, <1>2, <1>3, ClientMoves

(* A request that is handed a package: the one it asks for, and one that has not *)
(* been replaced since before the request arrived.                            *)
AsAsked(q, k) ==
  q.name # Empty =>
    /\ k.name = q.name
    /\ q.version # Empty => k.version = q.version /\ k.environment = q.environment

ReplacedBy(q, k, j) ==
  \/ installs[j].key = k
  \/ /\ q.version = Empty /\ k.version # Empty
     /\ installs[j].key.name = k.name /\ installs[j].key.environment = k.environment

Fresh(q, g, positions) ==
  \E i \in 1..Len(installs) :
    installs[i] = g /\ \A j \in positions : ReplacedBy(q, g.key, j) => i >= j

LEMMA Gets ==
  ASSUME IInv, NEW r \in Clients, pc[r] = "received", NEW g \in Publications,
         got' = [got EXCEPT ![r] = g], pc' = [pc EXCEPT ![r] = "resolved"],
         UNCHANGED <<orchestratorVars, storeVars, simulations, call, reply, done,
                     failures, crashes, setting, historyVars>>,
         AsAsked(call[r], g.key),
         route[r] # "tests" => Fresh(call[r], g, floor[r])
  PROVE  IInv'
<1>1. UNCHANGED <<loaded, loadedLatest, stored, storedLatest, trail, simulations, call,
                  reply, done, failures, crashes, route, durable, installs, place, floor>>
  BY DEF orchestratorVars, storeVars, setting, historyVars
<1>2. /\ r \in Requests /\ reply[r] = Nothing /\ call[r] \in Orchestrator!Queries
      /\ g # Nothing /\ Nothing # 200
  BY SettledClients, RequestFacts, NothingAssumption DEF Publications, Statuses
<1>3. /\ pc'[r] = "resolved" /\ got'[r] = g
      /\ \A x \in Requests : x # r => pc'[x] = pc[x] /\ got'[x] = got[x]
  BY <1>2 DEF IInv, TypeOK
<1>4. TypeOK'
  BY <1>1, <1>2 DEF IInv, TypeOK, ClientSteps
<1>5. MapPart'
  BY <1>1 DEF IInv, MapPart, MapsCoherent, LoadedIsLast, Orchestrator!SlotOf
<1>6. PublisherPart'
  <2>1. \A p \in Publishers : pc'[p] = pc[p]
    BY <1>3, RequestFacts
  <2>2. \A e \in Clients : \A i \in floor'[e] :
          \E p \in Publishers : reply[p] = 201 /\ place[p] = i
    BY <1>1, RequestFacts DEF IInv, PublisherPart, Positions
  <2> QED
    BY <1>1, <2>1, <2>2, PublisherFrame
<1>7. ClientFlow'
  <2>1. ASSUME NEW x \in Clients, x # r
        PROVE  pc'[x] = pc[x] /\ got'[x] = got[x]
    BY <1>3, <2>1, RequestFacts
  <2> QED
    BY <1>1, <1>2, <1>3, <2>1 DEF IInv, ClientPart, ClientFlow, ClientSteps
<1>8. \A i \in 1..Len(trail) : trail[i].request \in Requests /\ trail[i].request # r
  BY <1>2, TrailFacts, RequestFacts DEF IInv, ClientPart, TrailOfRuns
<1>9. \A i \in 1..Len(trail) : \A x \in Requests :
        x # r => AuditNames(i, x)' = AuditNames(i, x)
  BY <1>1, <1>3 DEF AuditNames
<1>10. TrailOfRuns'
  BY <1>1, <1>3, <1>8, <1>9 DEF IInv, ClientPart, TrailOfRuns
<1>11. AuditedInTrail'
  <2>1. \A x \in Clients : Delivered(x)' => Delivered(x) /\ x # r /\ x \in Requests
    BY <1>1, <1>2, <1>3, RequestFacts DEF Delivered
  <2> QED
    BY <1>1, <1>9, <2>1 DEF IInv, ClientPart, AuditedInTrail
<1>12. RunsAsAsked'
  <2>1. ASSUME NEW x \in Requests \ Publishers, got'[x] # Nothing, call'[x].name # Empty
        PROVE  /\ got'[x].key.name = call'[x].name
               /\ call'[x].version # Empty =>
                    /\ got'[x].key.version = call'[x].version
                    /\ got'[x].key.environment = call'[x].environment
    <3>1. CASE x = r
      BY <2>1, <3>1, <1>1, <1>3 DEF AsAsked
    <3>2. CASE x # r
      BY <2>1, <3>2, <1>1, <1>3 DEF IInv, ClientPart, RunsAsAsked
    <3> QED
      BY <3>1, <3>2
  <2> QED
    BY <2>1 DEF RunsAsAsked
<1>13. RunsAreFresh'
  <2>1. ASSUME NEW x \in Clients, got'[x] # Nothing, route'[x] # "tests"
        PROVE  \E i \in 1..Len(installs') :
                 AnsweredFrom(x, i)' /\ \A j \in floor'[x] : Supersedes(x, j)' => i >= j
    <3>1. CASE x = r
      BY <2>1, <3>1, <1>1, <1>3
         DEF Fresh, ReplacedBy, AnsweredFrom, Supersedes
    <3>2. CASE x # r
      <4>1. got'[x] = got[x]
        BY <3>2, <1>3, RequestFacts
      <4>2. \E i \in 1..Len(installs) :
              AnsweredFrom(x, i) /\ \A j \in floor[x] : Supersedes(x, j) => i >= j
        BY <2>1, <4>1, <1>1 DEF IInv, ClientPart, RunsAreFresh
      <4> QED
        BY <4>1, <4>2, <1>1 DEF AnsweredFrom, Supersedes
    <3> QED
      BY <3>1, <3>2
  <2> QED
    BY <2>1 DEF RunsAreFresh
<1> QED
  BY <1>4, <1>5, <1>6, <1>7, <1>10, <1>11, <1>12, <1>13 DEF IInv, ClientPart

(* What a query resolves to: the package it names exactly, or the latest of a    *)
(* slot.                                                                     *)
LEMMA ResolveSources ==
  ASSUME IInv, NEW q \in Orchestrator!Queries, NEW k \in Orchestrator!Resolve(q)
  PROVE  /\ k \in Keys /\ loaded[k] \in Digests
         /\ AsAsked(q, k)
         /\ k = q \/ loadedLatest[Orchestrator!SlotOf(k)] = k
<1>1. ASSUME NEW s \in Slots, loadedLatest[s] # Nothing
      PROVE  /\ loadedLatest[s] \in Keys /\ loaded[loadedLatest[s]] \in Digests
             /\ Orchestrator!SlotOf(loadedLatest[s]) = s
  BY <1>1 DEF IInv, MapPart, MapsCoherent, TypeOK
<1>2. CASE k \in Orchestrator!ExactKeys(q)
  <2>1. k \in Keys /\ k = q /\ loaded[k] # Nothing
    BY <1>2 DEF Orchestrator!ExactKeys, Keys
  <2> QED
    BY <2>1 DEF AsAsked, IInv, TypeOK
<1>3. CASE \E s \in Orchestrator!Filled :
             k = loadedLatest[s] /\ (q.name = Empty \/ (q.version = Empty /\ s[1] = q.name))
  <2>1. PICK s \in Orchestrator!Filled :
          k = loadedLatest[s] /\ (q.name = Empty \/ (q.version = Empty /\ s[1] = q.name))
    BY <1>3
  <2>2. s \in Slots /\ loadedLatest[s] # Nothing
    BY DEF Orchestrator!Filled, Orchestrator!Slots, Slots
  <2>3. k \in Keys /\ loaded[k] \in Digests /\ Orchestrator!SlotOf(k) = s
    BY <1>1, <2>1, <2>2
  <2>4. s[1] = k.name
    BY <2>3 DEF Orchestrator!SlotOf
  <2> QED
    BY <2>1, <2>3, <2>4 DEF AsAsked
<1>4. CASE Orchestrator!OnlyOneLatest(q) /\ k \in Orchestrator!LatestKeys
  BY <1>3, <1>4 DEF Orchestrator!OnlyOneLatest, Orchestrator!LatestKeys
<1>5. CASE q.version = Empty /\ k \in Orchestrator!Unversioned(q)
  <2>1. k \in Orchestrator!SlotKeys(q) \cup Orchestrator!AnyEnvironmentKeys(q)
    BY <1>5 DEF Orchestrator!Unversioned
  <2>2. PICK s \in Orchestrator!Filled : k = loadedLatest[s] /\ s[1] = q.name
    BY <2>1 DEF Orchestrator!SlotKeys, Orchestrator!AnyEnvironmentKeys, Orchestrator!SlotOf
  <2> QED
    BY <1>3, <1>5, <2>2
<1> QED
  BY <1>2, <1>4, <1>5 DEF Orchestrator!Resolve

LEMMA ResolvedIsFresh ==
  ASSUME IInv, NEW q \in Orchestrator!Queries, NEW k \in Keys, loaded[k] \in Digests,
         k = q \/ loadedLatest[Orchestrator!SlotOf(k)] = k,
         NEW positions \in SUBSET (1..Len(installs))
  PROVE  Fresh(q, [key |-> k, digest |-> loaded[k]], positions)
<1>1. PICK i \in 1..Len(installs) :
        /\ installs[i] = [key |-> k, digest |-> loaded[k]]
        /\ \A j \in 1..Len(installs) : installs[j].key = k => j <= i
  BY NothingAssumption DEF IInv, MapPart, LoadedIsLast
<1>2. ASSUME NEW j \in positions, ReplacedBy(q, k, j)
      PROVE  i >= j
  <2>1. j \in 1..Len(installs)
    OBVIOUS
  <2>2. CASE installs[j].key = k
    BY <1>1, <2>1, <2>2
  <2>3. CASE /\ q.version = Empty /\ k.version # Empty
             /\ installs[j].key.name = k.name
             /\ installs[j].key.environment = k.environment
    <3>1. /\ loadedLatest[Orchestrator!SlotOf(k)] = k
          /\ Orchestrator!SlotOf(k) \in Slots /\ k # Nothing
      BY <2>3, KeyFacts DEF Orchestrator!SlotOf
    <3>2. PICK h \in 1..Len(installs) :
            /\ installs[h].key = k
            /\ \A l \in 1..Len(installs) :
                 Orchestrator!SlotOf(installs[l].key) = Orchestrator!SlotOf(k) => l <= h
      BY <3>1 DEF IInv, MapPart, LoadedIsLast
    <3>3. Orchestrator!SlotOf(installs[j].key) = Orchestrator!SlotOf(k)
      BY <2>3 DEF Orchestrator!SlotOf
    <3>4. j <= h /\ h <= i
      BY <1>1, <2>1, <3>2, <3>3
    <3> QED
      BY <2>1, <3>4
  <2> QED
    BY <1>2, <2>2, <2>3 DEF ReplacedBy
<1> QED
  BY <1>1, <1>2 DEF Fresh

LEMMA ResolvePackageIInv ==
  ASSUME IInv, NEW r \in Clients, ResolvePackage(r)
  PROVE  IInv'
<1>1. /\ r \in Requests /\ pc[r] = "received" /\ call[r] \in Orchestrator!Queries
      /\ UNCHANGED <<orchestratorVars, storeVars, simulations, call, done, failures,
                     crashes, setting, historyVars>>
      /\ done' \subseteq Requests /\ failures' \in Nat /\ simulations' \subseteq Requests
  BY SettledClients DEF ResolvePackage, IInv, TypeOK
<1>2. CASE Answer(r, 400) /\ UNCHANGED got
  <2>1. Moves(r, "answered", 400)
    BY <1>1, <1>2, Answers DEF Statuses
  <2> QED
    BY <1>1, <2>1, ClientMoves
<1>3. CASE /\ \E k \in Orchestrator!Resolve(call[r]) :
                got' = [got EXCEPT ![r] = Orchestrator!Compiled(k)]
           /\ Goto(r, "resolved") /\ UNCHANGED reply
  <2>1. PICK k \in Orchestrator!Resolve(call[r]) :
          got' = [got EXCEPT ![r] = Orchestrator!Compiled(k)]
    BY <1>3
  <2>2. PICK g : g = [key |-> k, digest |-> loaded[k]]
    OBVIOUS
  <2>3. /\ k \in Keys /\ loaded[k] \in Digests /\ AsAsked(call[r], k)
        /\ k = call[r] \/ loadedLatest[Orchestrator!SlotOf(k)] = k
    BY <1>1, ResolveSources
  <2>4. Fresh(call[r], g, floor[r])
    <3>1. floor[r] \in SUBSET (1..Len(installs))
      BY <1>1 DEF IInv, TypeOK
    <3> QED
      BY <1>1, <2>2, <2>3, <3>1, ResolvedIsFresh
  <2>5. /\ g \in Publications /\ g.key = k /\ got' = [got EXCEPT ![r] = g]
        /\ pc' = [pc EXCEPT ![r] = "resolved"]
    BY <1>3, <2>1, <2>2, <2>3 DEF Publications, Orchestrator!Compiled, Goto
  <2> QED
    BY <1>1, <1>3, <2>3, <2>4, <2>5, Gets
<1> QED
  BY <1>2, <1>3 DEF ResolvePackage

LEMMA ReadStoredIInv ==
  ASSUME IInv, NEW r \in Clients, ReadStored(r), route[r] = "tests"
  PROVE  IInv'
<1>1. /\ r \in Requests /\ pc[r] = "received" /\ call[r] \in Orchestrator!Queries
      /\ UNCHANGED <<orchestratorVars, storeVars, simulations, call, done, crashes,
                     setting, historyVars>>
      /\ done' \subseteq Requests /\ failures' \in Nat /\ simulations' \subseteq Requests
  BY SettledClients DEF ReadStored, IInv, TypeOK
<1>2. CASE (Answer(r, 500) \/ Answer(r, 404)) /\ UNCHANGED got
  <2>1. PICK status \in {500, 404} : Answer(r, status)
    BY <1>2
  <2>2. Moves(r, "answered", status)
    BY <1>1, <1>2, <2>1, Answers DEF Statuses
  <2> QED
    BY <1>1, <2>2, ClientMoves
<1>3. CASE /\ \E k \in StoredKey(call[r]) :
                got' = [got EXCEPT ![r] = [key |-> k, digest |-> stored[k]]]
           /\ Goto(r, "resolved") /\ UNCHANGED <<reply, failures>>
  <2>1. PICK k \in StoredKey(call[r]) :
          got' = [got EXCEPT ![r] = [key |-> k, digest |-> stored[k]]]
    BY <1>3
  <2>2. PICK g : g = [key |-> k, digest |-> stored[k]]
    OBVIOUS
  <2>3. k \in Keys /\ stored[k] # Nothing /\ AsAsked(call[r], k)
    <3>1. CASE k \in SavedLast(call[r]) /\ call[r].version = Empty
      <4>1. PICK s \in Slots :
              /\ s = <<call[r].name, call[r].environment>>
              /\ storedLatest[s] # Nothing /\ k = storedLatest[s]
        BY <3>1 DEF SavedLast, Slots
      <4>2. k \in Keys /\ stored[k] # Nothing /\ Orchestrator!SlotOf(k) = s
        BY <4>1 DEF IInv, TypeOK, MapPart, MapsCoherent
      <4> QED
        BY <3>1, <4>1, <4>2 DEF AsAsked, Orchestrator!SlotOf
    <3>2. CASE k \in Fallback(call[r]) /\ call[r].version = Empty
      BY <3>2 DEF Fallback, AsAsked
    <3>3. CASE k \in Keys /\ k = call[r] /\ stored[k] # Nothing
      BY <3>3 DEF AsAsked
    <3> QED
      BY <3>1, <3>2, <3>3 DEF StoredKey
  <2>4. /\ g \in Publications /\ g.key = k /\ got' = [got EXCEPT ![r] = g]
        /\ pc' = [pc EXCEPT ![r] = "resolved"]
    BY <1>3, <2>1, <2>2, <2>3 DEF Publications, Goto, IInv, TypeOK
  <2> QED
    BY <1>1, <1>3, <2>3, <2>4, Gets
<1> QED
  BY <1>2, <1>3 DEF ReadStored

(* The audit of a request that has not been audited: the trail has one more      *)
(* envelope, and it is the only one of that request.                          *)
LEMMA SaveAuditIInv ==
  ASSUME IInv, NEW r \in Clients, SaveAudit(r), route[r] = "decision"
  PROVE  IInv'
<1>0. PICK n : n = Len(trail) + 1
  OBVIOUS
<1>1. /\ pc[r] = "evaluated" /\ trail' = Append(trail, AuditOf(r))
      /\ pc' = [pc EXCEPT ![r] = "audited"]
      /\ UNCHANGED <<loaded, loadedLatest, stored, storedLatest, simulations, call, got,
                     reply, done, failures, crashes, route, durable, installs, place,
                     floor>>
  BY DEF SaveAudit, Store!SaveAuditEnvelope, Goto, orchestratorVars, setting, historyVars
<1>2. /\ r \in Requests /\ reply[r] = Nothing /\ call[r] \in Orchestrator!Queries
      /\ got[r] # Nothing /\ got[r] \in Publications /\ Nothing # 200
  BY <1>1, SettledClients, RequestFacts DEF Statuses
<1>3. AuditOf(r) \in AuditRecords /\ AuditOf(r).request = r
  BY <1>2 DEF AuditOf, AuditRecords, Publications
<1>4. /\ Len(trail) \in Nat /\ n \in Nat
      /\ trail' \in Seq(AuditRecords) /\ Len(trail') = n
      /\ \A i \in 1..Len(trail) : trail'[i] = trail[i]
      /\ trail'[n] = AuditOf(r)
  BY <1>0, <1>1, <1>3, AppendProperties DEF IInv, TypeOK
<1>5. 1..Len(trail') = 1..Len(trail) \cup {n} /\ n \notin 1..Len(trail)
  BY <1>0, <1>4
<1>6. /\ pc'[r] = "audited" /\ \A x \in Requests : x # r => pc'[x] = pc[x]
  BY <1>1, <1>2 DEF IInv, TypeOK
<1>7. TypeOK'
  BY <1>1, <1>4 DEF IInv, TypeOK, ClientSteps
<1>8. MapPart'
  BY <1>1 DEF IInv, MapPart, MapsCoherent, LoadedIsLast, Orchestrator!SlotOf
<1>9. PublisherPart'
  <2>1. \A p \in Publishers : pc'[p] = pc[p]
    BY <1>6, RequestFacts
  <2>2. \A e \in Clients : \A i \in floor'[e] :
          \E p \in Publishers : reply[p] = 201 /\ place[p] = i
    BY <1>1, RequestFacts DEF IInv, PublisherPart, Positions
  <2> QED
    BY <1>1, <2>1, <2>2, PublisherFrame
<1>10. ClientFlow'
  <2>1. ASSUME NEW x \in Clients, x # r
        PROVE  pc'[x] = pc[x]
    BY <1>6, <2>1, RequestFacts
  <2> QED
    BY <1>1, <1>2, <1>6, <2>1 DEF IInv, ClientPart, ClientFlow, ClientSteps
<1>11. \A i \in 1..Len(trail) : trail[i].request \in Requests /\ trail[i].request # r
  BY <1>1, <1>2, TrailFacts, RequestFacts DEF IInv, ClientPart, TrailOfRuns
<1>12. \A i \in 1..Len(trail) : \A x : AuditNames(i, x)' = AuditNames(i, x)
  BY <1>1, <1>4 DEF AuditNames
<1>13. AuditNames(n, r)'
  BY <1>1, <1>4 DEF AuditNames, AuditOf
<1>14. TrailOfRuns'
  <2>1. ASSUME NEW i \in 1..Len(trail), NEW e, e = trail[i].request
        PROVE  /\ AuditNames(i, e)' /\ route'[e] = "decision"
               /\ pc'[e] \in {"audited", "lost"} \/ reply'[e] = 200
               /\ \A j \in 1..Len(trail') : trail'[j].request = e => j = i
    <3>1. /\ AuditNames(i, e) /\ route[e] = "decision"
          /\ pc[e] \in {"audited", "lost"} \/ reply[e] = 200
          /\ \A j \in 1..Len(trail) : trail[j].request = e => j = i
      BY <2>1 DEF IInv, ClientPart, TrailOfRuns
    <3>2. e \in Requests /\ e # r
      BY <1>11, <2>1
    <3> QED
      BY <1>1, <1>3, <1>4, <1>5, <1>6, <1>12, <3>1, <3>2
  <2>2. \A j \in 1..Len(trail') : trail'[j].request = r => j = n
    BY <1>4, <1>5, <1>11
  <2>3. ASSUME NEW i \in 1..Len(trail'), NEW e, e = trail'[i].request
        PROVE  /\ AuditNames(i, e)' /\ route'[e] = "decision"
               /\ pc'[e] \in {"audited", "lost"} \/ reply'[e] = 200
               /\ \A j \in 1..Len(trail') : trail'[j].request = e => j = i
    <3>1. CASE i = n
      <4>1. e = r
        BY <2>3, <3>1, <1>3, <1>4
      <4> QED
        BY <3>1, <4>1, <1>1, <1>6, <1>13, <2>2
    <3>2. CASE i \in 1..Len(trail)
      <4>1. e = trail[i].request
        BY <2>3, <3>2, <1>4
      <4> QED
        BY <3>2, <4>1, <2>1
    <3> QED
      BY <1>5, <3>1, <3>2
  <2> QED
    BY <2>3 DEF TrailOfRuns, AuditNames
<1>15. AuditedInTrail'
  <2>1. ASSUME durable \/ crashes = 0, NEW e \in Clients, Delivered(e)'
        PROVE  \E i \in 1..Len(trail') : AuditNames(i, e)'
    <3>1. CASE e = r
      BY <3>1, <1>5, <1>13
    <3>2. CASE e # r
      <4>1. Delivered(e)
        BY <2>1, <3>2, <1>1, <1>6, RequestFacts DEF Delivered
      <4> QED
        BY <2>1, <4>1, <1>5, <1>12 DEF IInv, ClientPart, AuditedInTrail
    <3> QED
      BY <3>1, <3>2
  <2> QED
    BY <1>1, <2>1 DEF AuditedInTrail
<1>16. RunsAsAsked' /\ RunsAreFresh'
  BY <1>1 DEF IInv, ClientPart, RunsAsAsked, RunsAreFresh, AnsweredFrom, Supersedes
<1> QED
  BY <1>7, <1>8, <1>9, <1>10, <1>14, <1>15, <1>16 DEF IInv, ClientPart

-------------------------------------------------------------------------------
(* A restart loses the requests under way and, when the store is not durable,    *)
(* the trail with every envelope that had been answered.                       *)
LEMMA RestartIInv ==
  ASSUME IInv, Restart
  PROVE  IInv'
<1>1. /\ crashes' = crashes + 1 /\ crashes \in Nat /\ crashes' # 0 /\ crashes' \in Nat
      /\ pc' = [r \in Requests |-> IF r \in InFlight THEN "lost" ELSE pc[r]]
      /\ loaded' = [k \in Keys |-> Nothing]
      /\ loadedLatest' = [s \in Slots |-> Nothing]
      /\ UNCHANGED <<call, got, reply, done, failures, route, durable, installs, place,
                     floor>>
  BY DEF Restart, IInv, TypeOK, setting, historyVars, Slots
<1>2. \A r \in Requests : /\ pc[r] \in {"idle", "answered", "lost"} => pc'[r] = pc[r]
                          /\ pc[r] \notin {"idle", "answered", "lost"} => pc'[r] = "lost"
  BY <1>1 DEF InFlight
<1>3. \/ /\ UNCHANGED <<stored, storedLatest, trail, simulations>>
         /\ durable
      \/ /\ stored' = [k \in Keys |-> Nothing] /\ storedLatest' = [s \in Slots |-> Nothing]
         /\ trail' = <<>> /\ simulations' = {}
         /\ ~durable
  BY DEF Restart, storeVars, Slots
<1>4. TypeOK'
  <2>1. /\ loaded' \in [Keys -> Digests \cup {Nothing}]
        /\ loadedLatest' \in [Slots -> Keys \cup {Nothing}]
        /\ stored' \in [Keys -> Digests \cup {Nothing}]
        /\ storedLatest' \in [Slots -> Keys \cup {Nothing}]
        /\ trail' \in Seq(AuditRecords) /\ simulations' \subseteq Requests
    <3>1. CASE UNCHANGED <<stored, storedLatest, trail, simulations>>
      BY <1>1, <3>1 DEF IInv, TypeOK
    <3>2. CASE /\ stored' = [k \in Keys |-> Nothing]
               /\ storedLatest' = [s \in Slots |-> Nothing]
               /\ trail' = <<>> /\ simulations' = {}
      BY <1>1, <3>2
    <3> QED
      BY <1>3, <3>1, <3>2
  <2>2. pc' \in [Requests -> PublisherSteps \cup ClientSteps]
    BY <1>1 DEF IInv, TypeOK, PublisherSteps
  <2> QED
    BY <1>1, <2>1, <2>2 DEF IInv, TypeOK
<1>5. MapPart'
  <2>1. \A s \in Slots : storedLatest'[s] # Nothing =>
          Orchestrator!SlotOf(storedLatest'[s]) = s /\ stored'[storedLatest'[s]] # Nothing
    BY <1>3 DEF IInv, MapPart, MapsCoherent
  <2>2. MapsCoherent'
    BY <1>1, <2>1 DEF MapsCoherent, Orchestrator!SlotOf
  <2>3. LoadedIsLast'
    BY <1>1 DEF LoadedIsLast
  <2> QED
    BY <2>2, <2>3 DEF MapPart
<1>6. PublisherPart'
  <2>1. ASSUME NEW p \in Publishers
        PROVE  /\ route'[p] = "packages" /\ pc'[p] \in PublisherSteps
               /\ reply'[p] # Nothing <=> pc'[p] = "answered"
               /\ pc'[p] \in {"received", "compiled", "installed", "saved"} =>
                    call'[p] \in Publications
               /\ pc'[p] \in {"idle", "received", "compiled"} => place'[p] = 0
               /\ pc'[p] \in {"installed", "saved"} \/ reply'[p] = 201 => place'[p] # 0
               /\ place'[p] # 0 => call'[p] \in Publications /\ installs'[place'[p]] = call'[p]
    BY <1>1, <1>2, RequestFacts DEF IInv, PublisherPart, PublisherFlow, PublisherSteps
  <2>2. PublisherFlow'
    BY <2>1 DEF PublisherFlow
  <2>3. Positions'
    BY <1>1 DEF IInv, PublisherPart, Positions
  <2>4. PublishAgrees' /\ AgreesOrNot'
    BY <1>1 DEF PublishAgrees, AgreesOrNot
  <2> QED
    BY <2>2, <2>3, <2>4 DEF PublisherPart
<1>7. ClientFlow'
  <2>1. ASSUME NEW e \in Clients
        PROVE  /\ e \in Requests
               /\ pc'[e] \in {"idle", "answered"} => pc[e] = pc'[e]
               /\ pc[e] = "answered" => pc'[e] = "answered"
               /\ pc'[e] \in {"idle", "answered", "lost"}
    BY <1>2, RequestFacts
  <2> QED
    BY <1>1, <2>1 DEF IInv, ClientPart, ClientFlow, ClientSteps
<1>8. TrailOfRuns'
  <2>1. CASE trail' = <<>>
    BY <2>1 DEF TrailOfRuns
  <2>2. CASE trail' = trail
    <3>1. \A i \in 1..Len(trail) : \A x : AuditNames(i, x)' = AuditNames(i, x)
      BY <2>2, <1>1 DEF AuditNames
    <3>2. \A i \in 1..Len(trail) : trail[i].request \in Requests
      BY TrailFacts, RequestFacts DEF IInv
    <3>3. \A x \in Requests : pc[x] \in {"audited", "lost"} => pc'[x] = "lost"
      BY <1>2
    <3> QED
      BY <2>2, <1>1, <3>1, <3>2, <3>3 DEF IInv, ClientPart, TrailOfRuns
  <2> QED
    BY <1>3, <2>1, <2>2
<1>9. AuditedInTrail'
  <2>1. \A e \in Clients : Delivered(e)' => Delivered(e)
    BY <1>1, <1>2, RequestFacts DEF Delivered
  <2>2. trail' = trail => \A i \in 1..Len(trail) : \A x : AuditNames(i, x)' = AuditNames(i, x)
    BY <1>1 DEF AuditNames
  <2> QED
    BY <1>1, <1>3, <2>1, <2>2 DEF IInv, ClientPart, AuditedInTrail
<1>10. RunsAsAsked' /\ RunsAreFresh'
  BY <1>1 DEF IInv, ClientPart, RunsAsAsked, RunsAreFresh, AnsweredFrom, Supersedes
<1> QED
  BY <1>4, <1>5, <1>6, <1>7, <1>8, <1>9, <1>10 DEF IInv, ClientPart

LEMMA StutterIInv ==
  ASSUME IInv, UNCHANGED vars
  PROVE  IInv'
<1>1. UNCHANGED <<loaded, loadedLatest, stored, storedLatest, trail, simulations, pc, call,
                  got, reply, done, failures, crashes, route, durable, installs, place,
                  floor>>
  BY DEF vars, orchestratorVars, storeVars, setting, historyVars
<1>2. TypeOK' /\ MapPart'
  BY <1>1 DEF IInv, TypeOK, MapPart, MapsCoherent, LoadedIsLast, Orchestrator!SlotOf
<1>3. PublisherPart'
  BY <1>1, PublisherFrame, RequestFacts DEF IInv, PublisherPart, Positions
<1>4. ClientPart'
  BY <1>1, ClientFrame
<1> QED
  BY <1>2, <1>3, <1>4 DEF IInv

LEMMA StepIInv == IInv /\ [Next]_vars => IInv'
<1> SUFFICES ASSUME IInv, [Next]_vars PROVE IInv'
  OBVIOUS
<1>1. ASSUME NEW r \in Requests, Step(r)
      PROVE  IInv'
  <2>1. CASE route[r] = "packages" /\ PublishStep(r)
    <3>1. r \in Publishers
      BY <2>1, RequestFacts DEF IInv, ClientPart, ClientFlow, Routes
    <3> QED
      BY <2>1, <3>1, CompilePackageIInv, AddPackageIInv, SavePackageIInv,
         SaveTimedOutIInv, SaveFailedIInv, AnswerPublishIInv DEF PublishStep
  <2>2. CASE route[r] # "packages"
    <3>1. r \in Clients
      BY <2>2, RequestFacts DEF IInv, PublisherPart, PublisherFlow
    <3>2. CASE route[r] = "decision" /\ EvaluateStep(r)
      BY <3>1, <3>2, ResolvePackageIInv, RunPackageIInv, SaveAuditIInv,
         SaveAuditFailedIInv, AnswerEvaluateIInv DEF EvaluateStep
    <3>3. CASE route[r] = "simulate" /\ SimulateStep(r)
      BY <3>1, <3>3, ResolvePackageIInv, RunPackageIInv, BringPackageIInv,
         SaveSimulationIInv DEF SimulateStep
    <3>4. CASE route[r] = "tests" /\ TestStep(r)
      BY <3>1, <3>4, ReadStoredIInv, RunTestsIInv DEF TestStep
    <3> QED
      BY <1>1, <2>2, <3>2, <3>3, <3>4 DEF Step
  <2> QED
    BY <1>1, <2>1, <2>2 DEF Step
<1>2. ASSUME NEW r \in Requests, Receive(r) \/ Refuse(r) \/ ContextDone(r)
      PROVE  IInv'
  BY <1>2, ReceiveIInv, RefuseIInv, ContextDoneIInv
<1> QED
  BY <1>1, <1>2, RestartIInv, StutterIInv DEF Next

(* The invariant holds in every reachable state.                              *)
THEOREM Invariance == Spec => []IInv
  BY InitIInv, StepIInv, PTL DEF Spec

-------------------------------------------------------------------------------
(* A decision that handleEvaluate answered 200 is in the audit trail under the   *)
(* package that took it, whatever the other requests, failures and, with a       *)
(* durable store, restarts did since.                                         *)
THEOREM AnswersAlwaysAudited == Spec => []AnswersAudited
<1>1. IInv => AnswersAudited
  BY DEF IInv, ClientPart, AuditedInTrail, AnswersAudited, Delivered
<1> QED
  BY <1>1, Invariance, PTL

(* The trail names, for each request that ran to the end and once, the package   *)
(* that handleEvaluate ran for it.                                            *)
THEOREM AuditsAlwaysOfRuns == Spec => []AuditsAreOfRuns
<1>1. IInv => AuditsAreOfRuns
  BY DEF IInv, ClientPart, TrailOfRuns, AuditsAreOfRuns
<1> QED
  BY <1>1, Invariance, PTL

(* What resolve and the store's GetPackage hand to a request is of the package,  *)
(* version and environment it names.                                          *)
THEOREM RunsAlwaysAsAsked == Spec => []RunsAsAsked
<1>1. IInv => RunsAsAsked
  BY DEF IInv, ClientPart
<1> QED
  BY <1>1, Invariance, PTL

(* No evaluation or simulation runs a package whose replacement PublishPackage    *)
(* had answered 201 before the request arrived.                               *)
THEOREM RunsAlwaysFresh == Spec => []RunsAreFresh
<1>1. IInv => RunsAreFresh
  BY DEF IInv, ClientPart
<1> QED
  BY <1>1, Invariance, PTL

(* PublishPackage writes the orchestrator and then the store under no lock over   *)
(* the two, and still they agree on every key whose publishes were all answered  *)
(* 201 and did not overlap.                                                   *)
THEOREM StoreAlwaysAgrees == Spec => []StoreAgrees
<1>1. IInv => StoreAgrees
  BY DEF IInv, PublisherPart, AgreesOrNot, StoreAgrees
<1> QED
  BY <1>1, Invariance, PTL
===============================================================================
