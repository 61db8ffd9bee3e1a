----------------------- MODULE LiveDecisionRuntimeProofs -----------------------
(***************************************************************************)
(* The last known-good package remains active, for any number of callers of    *)
(* Reload beside the watcher, any edits of the file at any moment, and any      *)
(* package contents.  A content that was accepted is carried by its reloader    *)
(* from the load to the install (CarriesAccepted), and every latest pointer     *)
(* leads to an accepted package (LatestAccepted).                              *)
(***************************************************************************)
EXTENDS LiveDecisionRuntime, SequenceTheorems, TLAPS

Slots == Orchestrator!Slots
Keys == Orchestrator!Keys

CarriesAccepted ==
  \A w \in Reloaders :
    pc[w] \in {"stat", "hash", "install"} => pkg[w] \in Accepted

LatestAccepted ==
  \A s \in Slots : latest[s] # Nothing =>
    latest[s] \in Keys /\ packages[latest[s]] \in Digests \ Invalid

SomeLatest == \E s \in Slots : latest[s] # Nothing

Installed ==
  /\ packages \in [Keys -> Digests \cup {Nothing}]
  /\ latest \in [Slots -> Keys \cup {Nothing}]
  /\ LatestAccepted /\ SomeLatest

Steps == {"idle", "poll", "compare", "load", "stat", "hash", "install", "record",
          "report", "ended"}

Carried ==
  /\ pc \in [Reloaders -> Steps]
  /\ pkg \in [Reloaders -> Contents \cup {Nothing}]
  /\ CarriesAccepted

IInv == Installed /\ Carried

(* The slot of a package's key is one of the slots.                           *)
LEMMA SlotType ==
  ASSUME NEW k \in Keys
  PROVE  Orchestrator!SlotOf(k) \in Slots
BY DEF Keys, Slots, Orchestrator!Keys, Orchestrator!SlotOf, Orchestrator!Slots

(* The orchestrator keeps what it has when its maps do not change.             *)
LEMMA InstalledStays ==
  ASSUME Installed, UNCHANGED orchestratorVars
  PROVE  Installed'
BY DEF Installed, LatestAccepted, SomeLatest, orchestratorVars, Slots, Keys,
       Orchestrator!Slots, Orchestrator!Keys

LEMMA AcceptedType ==
  ASSUME NEW c \in Accepted
  PROVE  c \in Contents /\ c.key \in Keys /\ c.digest \in Digests \ Invalid
BY DEF Accepted, Contents, Keys

LEMMA InitInvariant == Init => IInv
<1> SUFFICES ASSUME Init PROVE IInv
  OBVIOUS
<1>1. PICK c \in Accepted :
        /\ packages = [k \in Keys |-> IF k = c.key THEN c.digest ELSE Nothing]
        /\ latest = [s \in Slots |->
                       IF s = Orchestrator!SlotOf(c.key) THEN c.key ELSE Nothing]
        /\ pc = [w \in Reloaders |-> "idle"]
        /\ pkg = [w \in Reloaders |-> Nothing]
  BY DEF Init, Keys, Slots
<1>2. c.key \in Keys /\ c.digest \in Digests \ Invalid
  BY AcceptedType
<1>3. Orchestrator!SlotOf(c.key) \in Slots /\ c.key # Nothing
  BY <1>2, SlotType, NothingAssumption DEF Keys
<1>4. LatestAccepted /\ SomeLatest
  BY <1>1, <1>2, <1>3 DEF LatestAccepted, SomeLatest
<1>5. Carried
  <2>1. pc \in [Reloaders -> Steps]
    BY <1>1 DEF Steps
  <2>2. pkg \in [Reloaders -> Contents \cup {Nothing}]
    BY <1>1
  <2>3. \A w \in Reloaders : pc[w] = "idle"
    BY <1>1
  <2> QED BY <2>1, <2>2, <2>3 DEF Carried, CarriesAccepted
<1>6. packages \in [Keys -> Digests \cup {Nothing}] /\ latest \in [Slots -> Keys \cup {Nothing}]
  BY <1>1, <1>2
<1> QED BY <1>4, <1>5, <1>6 DEF IInv, Installed

(* What the reloaders carry after one of them moves to a step: nothing new, a    *)
(* content that was accepted, or nothing at all.                              *)
LEMMA CarriedStays ==
  ASSUME Carried, NEW w \in Reloaders, NEW t \in Steps,
         pc' = [pc EXCEPT ![w] = t], UNCHANGED pkg,
         t \in {"stat", "hash", "install"} => pc[w] \in {"stat", "hash", "install"}
  PROVE  Carried'
<1>1. CarriesAccepted'
  BY DEF Carried, CarriesAccepted, Accepted, Contents, Orchestrator!Keys, Reloaders
<1>2. pc' \in [Reloaders -> Steps]
  BY DEF Carried
<1> QED BY <1>1, <1>2 DEF Carried, Contents, Orchestrator!Keys, Reloaders, Steps

LEMMA CarriedTaken ==
  ASSUME Carried, NEW w \in Reloaders, NEW c \in Accepted,
         pc' = [pc EXCEPT ![w] = "stat"], pkg' = [pkg EXCEPT ![w] = c]
  PROVE  Carried'
<1>1. CarriesAccepted'
  BY DEF Carried, CarriesAccepted, Accepted, Contents, Orchestrator!Keys, Reloaders
<1>2. pc' \in [Reloaders -> Steps]
  BY DEF Carried, Steps
<1>3. pkg' \in [Reloaders -> Contents \cup {Nothing}]
  BY AcceptedType DEF Carried
<1> QED BY <1>1, <1>2, <1>3 DEF Carried, Contents, Orchestrator!Keys, Reloaders, Steps

LEMMA CarriedRejected ==
  ASSUME Carried, NEW w \in Reloaders, Reject(w)
  PROVE  Carried'
<1>1. pc' = [pc EXCEPT ![w] = "report"] /\ pkg' = [pkg EXCEPT ![w] = Nothing]
  BY DEF Reject, Goto
<1>2. CarriesAccepted'
  BY <1>1 DEF Carried, CarriesAccepted, Accepted, Contents, Orchestrator!Keys, Reloaders
<1>3. pc' \in [Reloaders -> Steps]
  BY <1>1 DEF Carried, Steps
<1>4. pkg' \in [Reloaders -> Contents \cup {Nothing}]
  BY <1>1 DEF Carried
<1> QED BY <1>2, <1>3, <1>4 DEF Carried, Contents, Orchestrator!Keys, Reloaders, Steps

LEMMA CarriedUnchanged ==
  ASSUME Carried, UNCHANGED <<pc, pkg>>
  PROVE  Carried'
BY DEF Carried, CarriesAccepted, Accepted, Contents, Orchestrator!Keys, Reloaders, Steps

(* AddPackage of a content that was accepted.                                 *)
LEMMA InstallInvariant ==
  ASSUME IInv, NEW w \in Reloaders, Install(w)
  PROVE  IInv'
<1> DEFINE k == pkg[w].key
           d == pkg[w].digest
<1>1. k \in Keys /\ d \in Digests \ Invalid
  BY AcceptedType DEF IInv, Carried, CarriesAccepted, Install
<1>2. Orchestrator!SlotOf(k) \in Slots /\ k # Nothing
  BY <1>1, SlotType, NothingAssumption DEF Keys
<1>3. /\ packages' = [packages EXCEPT ![k] = d]
      /\ latest' = [latest EXCEPT ![Orchestrator!SlotOf(k)] = k]
      /\ pc' = [pc EXCEPT ![w] = "record"] /\ UNCHANGED pkg
  BY DEF Install, Goto, Orchestrator!Install
<1>4. /\ packages \in [Keys -> Digests \cup {Nothing}]
      /\ latest \in [Slots -> Keys \cup {Nothing}]
      /\ LatestAccepted
  BY DEF IInv, Installed
<1>5. Carried'
  <2>1. "record" \in Steps /\ "record" \notin {"stat", "hash", "install"}
    BY DEF Steps
  <2> QED BY <1>3, <2>1, CarriedStays DEF IInv
<1> HIDE DEF k, d
<1>6. ASSUME NEW s \in Slots, latest'[s] # Nothing
      PROVE  latest'[s] \in Keys /\ packages'[latest'[s]] \in Digests \ Invalid
  <2>1. CASE s = Orchestrator!SlotOf(k)
    BY <1>1, <1>2, <1>3, <1>4, <2>1
  <2>2. CASE s # Orchestrator!SlotOf(k)
    <3>1. latest'[s] = latest[s]
      BY <1>2, <1>3, <1>4, <2>2
    <3>2. latest[s] \in Keys /\ packages[latest[s]] \in Digests \ Invalid
      BY <1>4, <1>6, <3>1 DEF LatestAccepted
    <3> QED BY <1>1, <1>3, <1>4, <3>1, <3>2
  <2> QED BY <2>1, <2>2
<1>7. \E s \in Slots : latest'[s] # Nothing
  BY <1>2, <1>3, <1>4
<1>8. /\ packages' \in [Keys -> Digests \cup {Nothing}]
      /\ latest' \in [Slots -> Keys \cup {Nothing}]
  BY <1>1, <1>2, <1>3, <1>4
<1>9. Slots' = Slots /\ Keys' = Keys
  BY DEF Slots, Keys, Orchestrator!Slots, Orchestrator!Keys
<1>10. Installed'
  BY <1>6, <1>7, <1>8, <1>9 DEF Installed, LatestAccepted, SomeLatest
<1> QED BY <1>5, <1>10 DEF IInv

(* One step of reloadFile, by whoever runs it: the content it read is rejected,  *)
(* or carried on to the install.                                              *)
LEMMA ReloadFileInvariant ==
  ASSUME IInv, NEW w \in Reloaders, ReloadFile(w)
  PROVE  IInv'
<1>1. CASE Install(w)
  BY <1>1, InstallInvariant
<1>2. CASE ~Install(w)
  <2>1. Installed'
    BY <1>2, InstalledStays
       DEF IInv, ReloadFile, Load, ReloadStat, Stat, ReloadHash, ReloadMissing, Record
  <2>2. CASE Load(w)
    <3>1. Reject(w) \/ /\ disk.content \in Accepted
                       /\ pc' = [pc EXCEPT ![w] = "stat"]
                       /\ pkg' = [pkg EXCEPT ![w] = disk.content]
      BY <2>2 DEF Load, Goto
    <3> QED BY <2>1, <3>1, CarriedTaken, CarriedRejected DEF IInv
  <2>3. CASE ReloadMissing(w)
    BY <2>1, <2>3, CarriedRejected DEF IInv, ReloadMissing
  <2>4. CASE ReloadStat(w) \/ ReloadHash(w) \/ Record(w)
    <3>1. /\ UNCHANGED pkg
          /\ \E t \in {"hash", "install", "report"} :
               /\ pc' = [pc EXCEPT ![w] = t]
               /\ t # "report" => pc[w] \in {"stat", "hash"}
      BY <2>4 DEF ReloadStat, Stat, ReloadHash, Record, Goto
    <3>2. PICK t \in Steps :
            /\ pc' = [pc EXCEPT ![w] = t]
            /\ t \in {"stat", "hash", "install"} => pc[w] \in {"stat", "hash", "install"}
      BY <3>1 DEF Steps
    <3>3. Carried'
      BY <3>1, <3>2, CarriedStays DEF IInv
    <3> QED BY <2>1, <3>3 DEF IInv
  <2> QED BY <1>2, <2>2, <2>3, <2>4 DEF ReloadFile
<1> QED BY <1>1, <1>2

(* The other steps of the watcher.                                            *)
LEMMA WatchInvariant ==
  ASSUME IInv,
         Tick \/ WatchEnds \/ PollStat \/ PollMissing \/ PollCompare \/ Report
  PROVE  IInv'
<1>1. Watcher \in Reloaders
  BY DEF Reloaders
<1>2. UNCHANGED orchestratorVars /\ UNCHANGED pkg
  BY DEF Tick, WatchEnds, PollStat, Stat, PollMissing, PollCompare, Report
<1>3. PICK t \in {"poll", "ended", "compare", "idle", "load"} :
        pc' = [pc EXCEPT ![Watcher] = t]
  BY DEF Tick, WatchEnds, PollStat, Stat, PollMissing, PollCompare, Report, Sent,
     Unsent, Goto
<1>4. t \in Steps /\ t \notin {"stat", "hash", "install"}
  BY DEF Steps
<1>5. Installed'
  BY <1>2, InstalledStays DEF IInv
<1>6. Carried'
  BY <1>1, <1>2, <1>3, <1>4, CarriedStays DEF IInv
<1> QED BY <1>5, <1>6 DEF IInv

LEMMA NextInvariant == IInv /\ [Next]_vars => IInv'
<1> SUFFICES ASSUME IInv, [Next]_vars PROVE IInv'
  OBVIOUS
<1>1. CASE Write \/ Cancel \/ Receive \/ UNCHANGED vars
  <2>1. UNCHANGED orchestratorVars /\ UNCHANGED <<pc, pkg>>
    BY <1>1 DEF Write, Cancel, Receive, vars
  <2> QED BY <2>1, InstalledStays, CarriedUnchanged DEF IInv
<1>2. CASE Watch
  <2>1. Watcher \in Reloaders
    BY DEF Reloaders
  <2> QED BY <1>2, <2>1, ReloadFileInvariant, WatchInvariant DEF Watch
<1>3. ASSUME NEW w \in Callers, Reload(w) PROVE IInv'
  <2>1. w \in Reloaders
    BY DEF Reloaders
  <2>2. CASE Call(w) \/ Return(w)
    <3>1. UNCHANGED orchestratorVars /\ UNCHANGED pkg
      BY <2>2 DEF Call, Return
    <3>2. PICK t \in {"load", "idle"} : pc' = [pc EXCEPT ![w] = t]
      BY <2>2 DEF Call, Return, Goto
    <3>3. t \in Steps /\ t \notin {"stat", "hash", "install"}
      BY DEF Steps
    <3>4. Installed'
      BY <3>1, InstalledStays DEF IInv
    <3>5. Carried'
      BY <2>1, <3>1, <3>2, <3>3, CarriedStays DEF IInv
    <3> QED BY <3>4, <3>5 DEF IInv
  <2> QED BY <1>3, <2>1, <2>2, ReloadFileInvariant DEF Reload
<1> QED BY <1>1, <1>2, <1>3 DEF Next

(* The inductive invariant holds of every behaviour of the runtime.            *)
THEOREM Invariance == Spec => []IInv
BY InitInvariant, NextInvariant, PTL DEF Spec

(* Whatever is written to the file and whoever reloads it, some package is       *)
(* active and every active package was accepted.                               *)
THEOREM LastGoodAlwaysRemains == Spec => []LastGoodRemains
<1>1. IInv => LastGoodRemains
  <2> SUFFICES ASSUME IInv PROVE LastGoodRemains
    OBVIOUS
  <2>1. ASSUME NEW s \in Slots, latest[s] # Nothing
        PROVE  Orchestrator!Compiled(latest[s]) \in Accepted
    BY <2>1 DEF IInv, Installed, LatestAccepted, Orchestrator!Compiled, Accepted, Contents, Keys
  <2> QED BY <2>1 DEF IInv, Installed, SomeLatest, LastGoodRemains, Serving, Slots
<1> QED BY Invariance, <1>1, PTL

-------------------------------------------------------------------------------
(* The consumer is told of every reload of the watcher, once and in order.       *)
Told ==
  /\ events \in Seq(Contents \cup {Nothing})
  /\ pc[Watcher] # "ended" => owed \in Seq(Contents) /\ EventsTellReloads

LEMMA NewsType ==
  ASSUME IInv, Told
  PROVE  /\ News \in Seq(Contents \cup {Nothing})
         /\ pkg[Watcher] \in Contents \cup {Nothing}
         /\ Len(News) \in Nat /\ Len(events) \in Nat
         /\ Nothing \notin Contents
<1>1. pkg[Watcher] \in Contents \cup {Nothing}
  BY DEF IInv, Carried, Reloaders
<1>2. News \in Seq(Contents \cup {Nothing})
  BY <1>1, AppendProperties DEF News, Told
<1> QED
  BY <1>1, <1>2, NothingAssumption DEF Told, Contents

LEMMA InitTold == Init => Told
<1> SUFFICES ASSUME Init PROVE Told
  OBVIOUS
<1>1. events = <<>> /\ owed = <<>> /\ pc[Watcher] = "idle"
  BY DEF Init, Reloaders
<1>2. News = <<>>
  BY <1>1 DEF News
<1>3. PICK at : at = [j \in 1..Len(owed) |-> j]
  OBVIOUS
<1>4. at \in [1..Len(owed) -> 1..Len(News)] /\ Tells(at)
  BY <1>1, <1>2, <1>3 DEF Tells
<1>5. EventsTellReloads
  BY <1>4 DEF EventsTellReloads
<1> QED
  BY <1>1, <1>5 DEF Told

(* A step that neither tells nor installs.                                    *)
LEMMA ToldStays ==
  ASSUME Told, UNCHANGED <<events, owed>>, News' = News,
         pc[Watcher] = "ended" => pc'[Watcher] = "ended"
  PROVE  Told'
<1>1. ASSUME pc'[Watcher] # "ended"
      PROVE  \E at \in [1..Len(owed') -> 1..Len(News')] : Tells(at)'
  <2>1. PICK at \in [1..Len(owed) -> 1..Len(News)] : Tells(at)
    BY <1>1 DEF Told, EventsTellReloads
  <2>2. Tells(at)'
    BY <2>1 DEF Tells
  <2> QED
    BY <2>1, <2>2
<1>2. EventsTellReloads'
  BY <1>1 DEF EventsTellReloads
<1> QED
  BY <1>2 DEF Told, Contents, Orchestrator!Keys

(* The watcher installs a package: it is the last it owes and the last to tell.  *)
LEMMA InstallTold ==
  ASSUME IInv, Told, Install(Watcher)
  PROVE  Told'
<1>1. PICK c : c = pkg[Watcher]
  OBVIOUS
<1>2. /\ c \in Contents /\ c # Nothing /\ pc[Watcher] = "install" /\ Watcher \in Reloaders
  BY <1>1, NothingAssumption DEF Install, IInv, Carried, CarriesAccepted, Accepted, Contents,
     Reloaders
<1>3. /\ owed' = Append(owed, c) /\ UNCHANGED <<events, pkg>>
      /\ pc'[Watcher] = "record"
  BY <1>1, <1>2 DEF Install, Goto, IInv, Carried
<1>4. News = events /\ News' = Append(events, c)
  BY <1>1, <1>2, <1>3 DEF News
<1>5. /\ Len(owed) \in Nat /\ Len(News) \in Nat
      /\ Len(owed') = Len(owed) + 1 /\ Len(News') = Len(News) + 1
      /\ \A j \in 1..Len(owed) : owed'[j] = owed[j]
      /\ \A q \in 1..Len(News) : News'[q] = News[q]
      /\ owed'[Len(owed) + 1] = c /\ News'[Len(News) + 1] = c
      /\ owed' \in Seq(Contents)
  BY <1>2, <1>3, <1>4, AppendProperties DEF Told
<1>6. PICK at \in [1..Len(owed) -> 1..Len(News)] : Tells(at)
  BY <1>2 DEF Told, EventsTellReloads
<1>7. PICK m, n : m = Len(owed) /\ n = Len(News)
  OBVIOUS
<1>8. /\ m \in Nat /\ n \in Nat /\ Len(owed') = m + 1 /\ Len(News') = n + 1
      /\ at \in [1..m -> 1..n] /\ 1..(m + 1) = 1..m \cup {m + 1}
      /\ 1..(n + 1) = 1..n \cup {n + 1} /\ m + 1 \notin 1..m /\ n + 1 \notin 1..n
  BY <1>5, <1>6, <1>7
<1>9. PICK to : to = [j \in 1..(m + 1) |-> IF j = m + 1 THEN n + 1 ELSE at[j]]
  OBVIOUS
<1>10. /\ to[m + 1] = n + 1
       /\ \A j \in 1..m : to[j] = at[j] /\ at[j] \in 1..n
       /\ to \in [1..(m + 1) -> 1..(n + 1)]
  BY <1>8, <1>9
<1>11. Tells(to)'
  <2>1. ASSUME NEW i \in 1..(m + 1), NEW j \in 1..(m + 1), i < j
        PROVE  to[i] < to[j]
    <3>1. i \in 1..m
      BY <1>8, <2>1
    <3>2. CASE j \in 1..m
      BY <1>6, <1>7, <1>10, <2>1, <3>1, <3>2 DEF Tells
    <3>3. CASE j = m + 1
      BY <1>8, <1>10, <3>1, <3>3
    <3> QED
      BY <1>8, <3>2, <3>3
  <2>2. ASSUME NEW j \in 1..(m + 1)
        PROVE  News'[to[j]] = owed'[j]
    <3>1. CASE j \in 1..m
      BY <1>5, <1>6, <1>7, <1>10, <3>1 DEF Tells
    <3>2. CASE j = m + 1
      BY <1>5, <1>7, <1>10, <3>2
    <3> QED
      BY <1>8, <3>1, <3>2
  <2>3. ASSUME NEW q \in 1..(n + 1)
        PROVE  News'[q] # Nothing <=> \E j \in 1..(m + 1) : to[j] = q
    <3>1. CASE q = n + 1
      BY <3>1, <1>2, <1>5, <1>7, <1>8, <1>10
    <3>2. CASE q \in 1..n
      <4>1. News'[q] # Nothing <=> \E j \in 1..m : at[j] = q
        BY <3>2, <1>5, <1>6, <1>7 DEF Tells
      <4>2. (\E j \in 1..(m + 1) : to[j] = q) <=> \E j \in 1..m : at[j] = q
        BY <3>2, <1>8, <1>10
      <4> QED
        BY <4>1, <4>2
    <3> QED
      BY <3>1, <3>2, <1>8
  <2> QED
    BY <1>8, <2>1, <2>2, <2>3 DEF Tells
<1>12. EventsTellReloads'
  <2>1. Len(owed') = m + 1 /\ Len(News') = n + 1
    BY <1>8
  <2>2. to \in [1..Len(owed') -> 1..Len(News')]
    BY <2>1, <1>10, Zenon
  <2> QED
    BY <2>2, <1>11 DEF EventsTellReloads
<1> QED
  BY <1>3, <1>5, <1>12 DEF Told, Contents, Orchestrator!Keys

(* The watcher sends its event: what it was about to tell is in the channel, or   *)
(* the channel has one more event of a failure.                               *)
LEMMA ReportTold ==
  ASSUME IInv, Told, Report
  PROVE  Told'
<1>0. Watcher \in Reloaders
  BY DEF Reloaders
<1>1. CASE Unsent
  <2>1. pc'[Watcher] = "ended" /\ UNCHANGED <<events, owed>>
    BY <1>0, <1>1 DEF Report, Unsent, Goto, IInv, Carried
  <2> QED
    BY <2>1 DEF Told, EventsTellReloads, Contents, Orchestrator!Keys
<1>2. CASE Sent
  <2>1. PICK c : c = pkg[Watcher]
    OBVIOUS
  <2>2. /\ pc[Watcher] = "report" /\ pc'[Watcher] = "idle"
        /\ events' = Append(events, c) /\ UNCHANGED <<owed, pkg>>
        /\ c \in Contents \cup {Nothing}
    BY <1>0, <1>2, <2>1, NewsType DEF Report, Sent, Goto, IInv, Carried
  <2>3. News' = Append(events, c) /\ events' \in Seq(Contents \cup {Nothing})
    BY <2>2, AppendProperties DEF News, Told
  <2>4. CASE c # Nothing
    <3>1. News' = News
      BY <2>1, <2>2, <2>3, <2>4 DEF News
    <3>2. \A at : Tells(at)' <=> Tells(at)
      BY <2>2, <3>1 DEF Tells
    <3> QED
      BY <2>2, <2>3, <3>1, <3>2 DEF Told, EventsTellReloads, Contents, Orchestrator!Keys
  <2>5. CASE c = Nothing
    <3>1. News = events
      BY <2>1, <2>5 DEF News
    <3>2. /\ Len(News) \in Nat /\ Len(News') = Len(News) + 1
          /\ \A q \in 1..Len(News) : News'[q] = News[q]
          /\ News'[Len(News) + 1] = Nothing
      BY <2>2, <2>3, <2>5, <3>1, AppendProperties DEF Told
    <3>3. PICK at \in [1..Len(owed) -> 1..Len(News)] : Tells(at)
      BY <2>2 DEF Told, EventsTellReloads
    <3>4. at \in [1..Len(owed') -> 1..Len(News')] /\ \A j \in 1..Len(owed) : at[j] \in 1..Len(News)
      BY <2>2, <3>2
    <3>5. Tells(at)'
      <4>1. ASSUME NEW q \in 1..Len(News')
            PROVE  News'[q] # Nothing <=> \E j \in 1..Len(owed) : at[j] = q
        <5>1. CASE q = Len(News) + 1
          BY <5>1, <3>2, <3>4
        <5>2. CASE q \in 1..Len(News)
          BY <5>2, <3>2, <3>3 DEF Tells
        <5> QED
          BY <5>1, <5>2, <3>2
      <4>2. \A j \in 1..Len(owed) : News'[at[j]] = owed[j]
        BY <3>2, <3>3, <3>4 DEF Tells
      <4>3. \A i, j \in 1..Len(owed) : i < j => at[i] < at[j]
        BY <3>3 DEF Tells
      <4> QED
        BY <2>2, <4>1, <4>2, <4>3 DEF Tells
    <3> QED
      BY <2>2, <2>3, <3>4, <3>5 DEF Told, EventsTellReloads, Contents, Orchestrator!Keys
  <2> QED
    BY <2>4, <2>5
<1> QED
  BY <1>1, <1>2 DEF Report

(* A package is taken from the channel: if it was a success, it is the first that *)
(* was owed.                                                                 *)
LEMMA ReceiveTold ==
  ASSUME IInv, Told, Receive
  PROVE  Told'
<1>1. PICK m, n : m = Len(owed) /\ n = Len(News)
  OBVIOUS
<1>2. /\ events # <<>> /\ events' = Tail(events) /\ UNCHANGED <<pc, pkg>>
      /\ owed' = IF Head(events) = Nothing THEN owed ELSE Tail(owed)
      /\ events \in Seq(Contents \cup {Nothing})
      /\ News \in Seq(Contents \cup {Nothing})
  BY NewsType DEF Receive, Told
<1>3. /\ n \in Nat \ {0} /\ Len(News') = n - 1
      /\ \A q \in 1..(n - 1) : News'[q] = News[q + 1]
      /\ News[1] = Head(events)
      /\ events' \in Seq(Contents \cup {Nothing})
  <2>1. CASE News = events
    <3>1. News' = events'
      BY <1>2, <2>1, NewsType, AppendProperties DEF News
    <3> QED
      BY <1>1, <1>2, <2>1, <3>1
  <2>2. CASE News = Append(events, pkg[Watcher]) /\ News' = Append(events', pkg[Watcher])
    BY <1>1, <1>2, <2>2, NewsType, AppendProperties
  <2> QED
    BY <1>2, <2>1, <2>2 DEF News
<1>4. ASSUME pc'[Watcher] # "ended"
      PROVE  /\ owed' \in Seq(Contents)
             /\ \E to \in [1..Len(owed') -> 1..Len(News')] : Tells(to)'
  <2>0. owed \in Seq(Contents) /\ m \in Nat
    BY <1>1, <1>2, <1>4 DEF Told
  <2>1. PICK at \in [1..m -> 1..n] : Tells(at)
    BY <1>1, <1>2, <1>4 DEF Told, EventsTellReloads
  <2>2. /\ \A i, j \in 1..m : i < j => at[i] < at[j]
        /\ \A j \in 1..m : News[at[j]] = owed[j] /\ at[j] \in 1..n
        /\ \A q \in 1..n : News[q] # Nothing <=> \E j \in 1..m : at[j] = q
    BY <1>1, <2>1 DEF Tells
  <2>3. CASE Head(events) = Nothing
    <3>1. PICK to : to = [j \in 1..m |-> at[j] - 1]
      OBVIOUS
    <3>2. \A j \in 1..m : at[j] # 1
      BY <1>3, <2>2, <2>3
    <3>3. owed' = owed /\ to \in [1..m -> 1..(n - 1)] /\ \A j \in 1..m : to[j] = at[j] - 1
      BY <1>2, <1>3, <2>2, <2>3, <3>1, <3>2
    <3>4. Tells(to)'
      <4>1. \A i, j \in 1..m : i < j => to[i] < to[j]
        BY <2>2, <3>3
      <4>2. ASSUME NEW j \in 1..m
            PROVE  News'[to[j]] = owed'[j]
        <5>1. PICK a : a = at[j]
          OBVIOUS
        <5>2. a \in 1..n /\ a # 1 /\ to[j] = a - 1 /\ News[a] = owed'[j]
          BY <2>2, <3>2, <3>3, <5>1
        <5>3. a - 1 \in 1..(n - 1) /\ (a - 1) + 1 = a
          BY <1>3, <5>2
        <5>4. News'[a - 1] = News[a]
          BY <1>3, <5>3
        <5> QED
          BY <5>2, <5>4
      <4>3. ASSUME NEW q \in 1..(n - 1)
            PROVE  News'[q] # Nothing <=> \E j \in 1..m : to[j] = q
        <5>1. q + 1 \in 1..n /\ News'[q] = News[q + 1]
          BY <1>3
        <5>2. \A j \in 1..m : at[j] = q + 1 <=> to[j] = q
          BY <2>2, <3>3
        <5>3. News[q + 1] # Nothing <=> \E j \in 1..m : at[j] = q + 1
          BY <2>2, <5>1
        <5> QED
          BY <5>1, <5>2, <5>3
      <4> QED
        BY <1>1, <1>3, <3>3, <4>1, <4>2, <4>3 DEF Tells
    <3> QED
      BY <1>1, <1>3, <2>0, <3>3, <3>4
  <2>4. CASE Head(events) # Nothing
    <3>1. PICK f \in 1..m : at[f] = 1
      BY <1>3, <2>2, <2>4
    <3>2. f = 1
      BY <2>0, <2>2, <3>1
    <3>3. /\ m \in Nat \ {0} /\ Len(owed') = m - 1 /\ owed' \in Seq(Contents)
          /\ \A j \in 1..(m - 1) : owed'[j] = owed[j + 1]
      <4>1. m # 0 /\ owed # <<>> /\ owed' = Tail(owed)
        BY <1>1, <1>2, <2>0, <2>4, <3>1
      <4> QED
        BY <1>1, <2>0, <4>1
    <3>4. PICK to : to = [j \in 1..(m - 1) |-> at[j + 1] - 1]
      OBVIOUS
    <3>5. \A j \in 1..(m - 1) : to[j] = at[j + 1] - 1 /\ at[j + 1] > 1 /\ at[j + 1] \in 1..n
      BY <2>2, <3>1, <3>2, <3>3, <3>4
    <3>6. to \in [1..(m - 1) -> 1..(n - 1)]
      BY <1>3, <3>4, <3>5
    <3>7. Tells(to)'
      <4>1. ASSUME NEW i \in 1..(m - 1), NEW j \in 1..(m - 1), i < j
            PROVE  to[i] < to[j]
        <5>1. i + 1 \in 1..m /\ j + 1 \in 1..m /\ i + 1 < j + 1
          BY <3>3, <4>1
        <5>2. at[i + 1] < at[j + 1]
          BY <2>2, <5>1
        <5>3. at[i + 1] \in Int /\ at[j + 1] \in Int
          BY <2>2, <5>1
        <5> QED
          BY <3>5, <5>2, <5>3
      <4>2. ASSUME NEW j \in 1..(m - 1)
            PROVE  News'[to[j]] = owed'[j]
        <5>1. PICK i, a : i = j + 1 /\ a = at[i]
          OBVIOUS
        <5>2. i \in 1..m /\ a \in 1..n /\ a > 1 /\ to[j] = a - 1
          BY <3>3, <3>5, <5>1
        <5>3. a - 1 \in 1..(n - 1) /\ (a - 1) + 1 = a
          BY <1>3, <5>2
        <5>4. News'[a - 1] = News[a] /\ News[a] = owed[i] /\ owed'[j] = owed[i]
          BY <1>3, <2>2, <3>3, <5>1, <5>2, <5>3
        <5> QED
          BY <5>2, <5>4
      <4>3. ASSUME NEW q \in 1..(n - 1)
            PROVE  News'[q] # Nothing <=> \E j \in 1..(m - 1) : to[j] = q
        <5>1. q + 1 \in 1..n /\ News'[q] = News[q + 1] /\ q + 1 # 1
          BY <1>3
        <5>2. (\E j \in 1..m : at[j] = q + 1) <=> \E j \in 1..(m - 1) : to[j] = q
          <6>1. ASSUME NEW j \in 1..m, at[j] = q + 1
                PROVE  \E i \in 1..(m - 1) : to[i] = q
            <7>1. j # 1 /\ j - 1 \in 1..(m - 1) /\ (j - 1) + 1 = j
              BY <3>1, <3>2, <3>3, <5>1, <6>1
            <7> QED
              BY <3>5, <6>1, <7>1
          <6>2. ASSUME NEW i \in 1..(m - 1), to[i] = q
                PROVE  \E j \in 1..m : at[j] = q + 1
            <7>1. i + 1 \in 1..m
              BY <3>3, <6>2
            <7>2. at[i + 1] \in Int /\ q = at[i + 1] - 1
              BY <2>2, <3>5, <6>2, <7>1
            <7> QED
              BY <7>1, <7>2
          <6> QED
            BY <6>1, <6>2
        <5> QED
          BY <2>2, <5>1, <5>2
      <4> QED
        BY <1>3, <3>3, <4>1, <4>2, <4>3 DEF Tells
    <3> QED
      BY <1>3, <3>3, <3>6, <3>7
  <2> QED
    BY <2>3, <2>4
<1> QED
  BY <1>3, <1>4 DEF Told, EventsTellReloads, Contents, Orchestrator!Keys

(* A reloader takes a step of reloadFile: only an install of the watcher's is to  *)
(* be told.                                                                  *)
LEMMA ReloadFileTold ==
  ASSUME IInv, Told, NEW w \in Reloaders, ReloadFile(w)
  PROVE  Told'
<1>0. /\ Watcher \in Reloaders /\ pc \in [Reloaders -> Steps]
      /\ pkg \in [Reloaders -> Contents \cup {Nothing}]
  BY DEF Reloaders, IInv, Carried
<1>1. CASE w = Watcher /\ Install(w)
  BY <1>1, InstallTold
<1>2. CASE w = Watcher /\ ~Install(w)
  <2>1. UNCHANGED <<events, owed>> /\ pc[Watcher] # "ended" /\ pc'[Watcher] # "ended"
    BY <1>0, <1>2 DEF ReloadFile, Load, Reject, ReloadStat, Stat, ReloadHash, ReloadMissing,
       Record, Goto, watchVars
  <2>2. CASE Record(w)
    <3>1. /\ pc[Watcher] = "record" /\ pc'[Watcher] = "report" /\ pkg' = pkg
      BY <1>0, <1>2, <2>2 DEF Record, Goto
    <3> QED
      BY <2>1, <3>1, ToldStays DEF News
  <2>3. CASE Load(w) \/ ReloadStat(w) \/ ReloadHash(w) \/ ReloadMissing(w)
    <3>1. /\ pc[Watcher] \in {"load", "stat", "hash"}
          /\ \/ pc'[Watcher] \in {"stat", "hash", "install"}
             \/ pc'[Watcher] = "report" /\ pkg'[Watcher] = Nothing
      BY <1>0, <1>2, <2>3 DEF Load, Reject, ReloadStat, Stat, ReloadHash, ReloadMissing, Goto
    <3> QED
      BY <2>1, <3>1, ToldStays DEF News
  <2> QED
    BY <1>2, <2>2, <2>3 DEF ReloadFile
<1>3. CASE w # Watcher
  <2>1. UNCHANGED <<events, owed>>
    BY <1>3 DEF ReloadFile, Load, ReloadStat, Stat, ReloadHash, ReloadMissing, Install, Record,
       watchVars
  <2>2. pc'[Watcher] = pc[Watcher] /\ pkg'[Watcher] = pkg[Watcher]
    BY <1>0, <1>3 DEF ReloadFile, Load, Reject, ReloadStat, Stat, ReloadHash, ReloadMissing,
       Install, Record, Goto
  <2> QED
    BY <2>1, <2>2, ToldStays DEF News
<1> QED
  BY <1>1, <1>2, <1>3

LEMMA NextTold == IInv /\ Told /\ [Next]_vars => Told'
<1> SUFFICES ASSUME IInv, Told, [Next]_vars PROVE Told'
  OBVIOUS
<1>0. /\ Watcher \in Reloaders /\ pc \in [Reloaders -> Steps]
      /\ pkg \in [Reloaders -> Contents \cup {Nothing}]
  BY DEF Reloaders, IInv, Carried
<1>1. CASE Write \/ Cancel \/ UNCHANGED vars
  <2>1. UNCHANGED <<events, owed, pc, pkg>>
    BY <1>1 DEF Write, Cancel, vars, watchVars
  <2> QED
    BY <2>1, ToldStays DEF News
<1>2. CASE Tick \/ WatchEnds \/ PollStat \/ PollMissing \/ PollCompare
  <2>1. UNCHANGED <<events, owed, pkg>>
    BY <1>2 DEF Tick, WatchEnds, PollStat, Stat, PollMissing, PollCompare, watchVars
  <2>2. /\ pc[Watcher] \in {"idle", "poll", "compare"}
        /\ pc'[Watcher] \in {"idle", "poll", "compare", "load", "ended"}
    BY <1>0, <1>2 DEF Tick, WatchEnds, PollStat, Stat, PollMissing, PollCompare, Goto
  <2> QED
    BY <2>1, <2>2, ToldStays DEF News
<1>3. ASSUME NEW w \in Callers, Call(w) \/ Return(w)
      PROVE  Told'
  <2>1. w # Watcher /\ w \in Reloaders
    BY WatcherAssumption DEF Reloaders
  <2>2. UNCHANGED <<events, owed, pkg>> /\ pc'[Watcher] = pc[Watcher]
    BY <1>0, <1>3, <2>1 DEF Call, Return, Goto, watchVars
  <2> QED
    BY <2>2, ToldStays DEF News
<1>4. ASSUME NEW w \in Callers, ReloadFile(w)
      PROVE  Told'
  BY <1>4, ReloadFileTold DEF Reloaders
<1> QED
  BY <1>0, <1>1, <1>2, <1>3, <1>4, ReloadFileTold, ReportTold, ReceiveTold
     DEF Next, Watch, Reload

(* Whatever fails to load between, and however slow the consumer is to read, it   *)
(* is told of every package that Watch installs, once and in that order.        *)
THEOREM EventsAlwaysTellReloads == Spec => []EventsTellReloads
<1>1. Told => EventsTellReloads
  BY DEF Told, EventsTellReloads
<1>2. Spec => []Told
  BY InitTold, Invariance, NextTold, PTL DEF Spec
<1> QED
  BY <1>1, <1>2, PTL
===============================================================================
