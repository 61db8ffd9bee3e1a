-------------------------- MODULE LiveDecisionRuntime --------------------------
(***************************************************************************)
(* LiveDecisionRuntime of live_runtime.go for one package file: an editor      *)
(* writes the file, the goroutine that Watch starts polls it, callers of       *)
(* Reload load it at once, and a consumer may read the channel of events.      *)
(* Reloads take no lock over their steps.  A reload reads the file, checks     *)
(* what it read, stats the file, adds the package to the DecisionOrchestrator  *)
(* and then records the stat as that of the package that is active.           *)
(*                                                                          *)
(* A stat is the modification time and the content (the code compares a hash   *)
(* of it and the size); it is taken in two reads.  Time is the ticks of the    *)
(* watcher: how many polls a StableInterval spans is not fixed.               *)
(***************************************************************************)
EXTENDS Naturals, Sequences, FiniteSets

CONSTANTS Watcher, Callers,      (* the goroutine of Watch; callers of Reload *)
          Names, Versions, Environments, Digests,
          Invalid,       (* digests that decoding, validation, embedded tests *)
                         (* or compilation reject                           *)
          Empty, Nothing,
          Missing,       (* the content of a file that is not there          *)
          Capacity,      (* of the channel of events                         *)
          EditsDuringReload, (* the file may change between the read and the  *)
                             (* stat of one reload                          *)
          Spans,         (* bound: polls a StableInterval may span            *)
          MaxWrites,     (* bound: writes of the file                        *)
          MaxReloads     (* bound: calls of Reload                           *)

ASSUME CapacityAssumption == Capacity \in Nat \ {0}
ASSUME OptionAssumption == EditsDuringReload \in BOOLEAN
ASSUME WatcherAssumption == Watcher \notin Callers

Reloaders == {Watcher} \cup Callers

VARIABLES
  packages, latest,   (* the orchestrator's maps                            *)
  disk,       (* the file: when it was modified and what it holds            *)
  active,     (* files[path].stat and digest: the stat recorded last          *)
  pending,    (* the watcher's entry for the path: a stat, and polls since    *)
  pc,         (* per reloader: next step                                     *)
  seen,       (* per reloader: the stat it is taking                         *)
  pkg,        (* per reloader: the content it loaded, or Nothing              *)
  events,     (* the channel of events                                      *)
  cancelled,  (* the context of Watch is done                                *)
  writes, reloads,
  owed        (* history: packages the watcher installed and the consumer     *)
              (* has not been told of, in order                             *)

orchestratorVars == <<packages, latest>>
watchVars == <<pending, events, owed>>
vars == <<orchestratorVars, disk, active, watchVars, pc, seen, pkg, cancelled,
          writes, reloads>>

Orchestrator == INSTANCE DecisionOrchestrator

ASSUME NothingAssumption ==
  /\ Nothing \notin Orchestrator!Keys /\ Nothing \notin Digests
  /\ Nothing \notin [key : Orchestrator!Keys, digest : Digests]

Contents == [key : Orchestrator!Keys, digest : Digests]
Accepted == {c \in Contents : c.digest \notin Invalid}
Stats == [modTime : 0..MaxWrites, content : Contents \cup {Missing}]

(* NewLiveDecisionRuntime has loaded the file.                                *)
Init ==
  \E c \in Accepted :
    LET stat == [modTime |-> 0, content |-> c] IN
      /\ packages = [k \in Orchestrator!Keys |->
                       IF k = c.key THEN c.digest ELSE Nothing]
      /\ latest = [s \in Orchestrator!Slots |->
                     IF s = Orchestrator!SlotOf(c.key) THEN c.key ELSE Nothing]
      /\ disk = stat /\ active = stat
      /\ pending = Nothing
      /\ pc = [w \in Reloaders |-> "idle"]
      /\ seen = [w \in Reloaders |-> stat]
      /\ pkg = [w \in Reloaders |-> Nothing]
      /\ events = <<>> /\ owed = <<>>
      /\ cancelled = FALSE
      /\ writes = 0 /\ reloads = 0

Goto(w, step) == pc' = [pc EXCEPT ![w] = step]

-------------------------------------------------------------------------------
(* The editor: any content may follow any other, so a write in pieces is        *)
(* several writes.  Two of them may get one modification time.                *)
MidReload == \E w \in Reloaders : pc[w] \in {"stat", "hash"}

Write ==
  /\ writes < MaxWrites
  /\ EditsDuringReload \/ ~MidReload
  /\ writes' = writes + 1
  /\ \E c \in Contents \cup {Missing}, later \in {0, 1} :
       /\ c # disk.content
       /\ disk' = [modTime |-> disk.modTime + later, content |-> c]
  /\ UNCHANGED <<orchestratorVars, active, watchVars, pc, seen, pkg, cancelled,
                 reloads>>

Cancel ==
  /\ ~cancelled
  /\ cancelled' = TRUE
  /\ UNCHANGED <<orchestratorVars, disk, active, watchVars, pc, seen, pkg,
                 writes, reloads>>

-------------------------------------------------------------------------------
(* Watch: a tick finds the watcher in its select; the loop stats the file.     *)
Tick ==
  /\ pc[Watcher] = "idle"
  /\ Goto(Watcher, "poll")
  /\ UNCHANGED <<orchestratorVars, disk, active, watchVars, seen, pkg, cancelled,
                 writes, reloads>>

WatchEnds ==
  /\ pc[Watcher] = "idle" /\ cancelled
  /\ Goto(Watcher, "ended")
  /\ UNCHANGED <<orchestratorVars, disk, active, watchVars, seen, pkg, cancelled,
                 writes, reloads>>

(* statDecisionFile: os.Stat, then os.ReadFile.  A file that is not there is an  *)
(* error, sent to errs or dropped; a write may fall between the two.           *)
Stat(w, here, there) ==
  /\ pc[w] = here /\ disk.content # Missing
  /\ seen' = [seen EXCEPT ![w].modTime = disk.modTime]
  /\ Goto(w, there)
  /\ UNCHANGED <<orchestratorVars, disk, active, watchVars, pkg, cancelled,
                 writes, reloads>>

PollStat == Stat(Watcher, "poll", "compare")

PollMissing ==
  /\ pc[Watcher] \in {"poll", "compare"} /\ disk.content = Missing
  /\ Goto(Watcher, "idle")
  /\ UNCHANGED <<orchestratorVars, disk, active, watchVars, seen, pkg, cancelled,
                 writes, reloads>>

(* liveFileStatEqual; and a slip, trusting the modification time.              *)
SameFile_ByTime(a, b) == a.modTime = b.modTime

SameFile(a, b) == a = b

(* The stat is compared with the recorded one, then with the pending one; only  *)
(* one that has been pending for a StableInterval is reloaded.                 *)
PollCompare ==
  /\ pc[Watcher] = "compare" /\ disk.content # Missing
  /\ LET stat == [modTime |-> seen[Watcher].modTime, content |-> disk.content]
         known == pending # Nothing /\ SameFile(pending.stat, stat)
     IN
       \/ /\ SameFile(stat, active)
          /\ pending' = Nothing /\ Goto(Watcher, "idle")
       \/ /\ ~SameFile(stat, active) /\ ~known
          /\ pending' = [stat |-> stat, polls |-> 0] /\ Goto(Watcher, "idle")
       \/ /\ ~SameFile(stat, active) /\ known /\ pending.polls < Spans
          /\ pending' = [pending EXCEPT !.polls = @ + 1] /\ Goto(Watcher, "idle")
       \/ /\ ~SameFile(stat, active) /\ known
          /\ UNCHANGED pending /\ Goto(Watcher, "load")
  /\ UNCHANGED <<orchestratorVars, disk, active, events, owed, seen, pkg,
                 cancelled, writes, reloads>>

-------------------------------------------------------------------------------
(* reloadFile, by the watcher or by a caller of Reload: the file is read, and   *)
(* decoded, validated, tested and compiled; embedded tests fail when the        *)
(* context is done.                                                          *)
Reject(w) == Goto(w, "report") /\ pkg' = [pkg EXCEPT ![w] = Nothing]

(* A slip: what was read is not checked.                                      *)
Load_Unchecked(w) ==
  /\ pc[w] = "load"
  /\ \/ disk.content = Missing /\ Reject(w)
     \/ /\ disk.content # Missing
        /\ pkg' = [pkg EXCEPT ![w] = disk.content] /\ Goto(w, "stat")
  /\ UNCHANGED <<orchestratorVars, disk, active, watchVars, seen, cancelled,
                 writes, reloads>>

Load(w) ==
  /\ pc[w] = "load"
  /\ \/ disk.content \notin Accepted /\ Reject(w)
     \/ w = Watcher /\ cancelled /\ Reject(w)
     \/ /\ disk.content \in Accepted
        /\ pkg' = [pkg EXCEPT ![w] = disk.content] /\ Goto(w, "stat")
  /\ UNCHANGED <<orchestratorVars, disk, active, watchVars, seen, cancelled,
                 writes, reloads>>

ReloadStat(w) == Stat(w, "stat", "hash")

ReloadHash(w) ==
  /\ pc[w] = "hash" /\ disk.content # Missing
  /\ seen' = [seen EXCEPT ![w].content = disk.content]
  /\ Goto(w, "install")
  /\ UNCHANGED <<orchestratorVars, disk, active, watchVars, pkg, cancelled,
                 writes, reloads>>

ReloadMissing(w) ==
  /\ pc[w] \in {"stat", "hash"} /\ disk.content = Missing
  /\ Reject(w)
  /\ UNCHANGED <<orchestratorVars, disk, active, watchVars, seen, cancelled,
                 writes, reloads>>

Install(w) ==
  /\ pc[w] = "install"
  /\ Orchestrator!Install(pkg[w].key, pkg[w].digest)
  /\ owed' = IF w = Watcher THEN Append(owed, pkg[w]) ELSE owed
  /\ Goto(w, "record")
  /\ UNCHANGED <<disk, active, pending, events, seen, pkg, cancelled, writes,
                 reloads>>

Record(w) ==
  /\ pc[w] = "record"
  /\ active' = seen[w]
  /\ Goto(w, "report")
  /\ UNCHANGED <<orchestratorVars, disk, watchVars, seen, pkg, cancelled, writes,
                 reloads>>

-------------------------------------------------------------------------------
(* The watcher drops the pending entry, offers an error to errs, and sends the  *)
(* event: it waits for room in the channel or for the end of the context, and   *)
(* when it finds both it may take either.                                     *)
Unsent == UNCHANGED events /\ Goto(Watcher, "ended")
Sent == events' = Append(events, pkg[Watcher]) /\ Goto(Watcher, "idle")

(* Slips: events that find no room are dropped; the wait ignores the context;   *)
(* the channel has no limit.                                                  *)
Report_Drops ==
  /\ pc[Watcher] = "report"
  /\ pending' = Nothing
  /\ IF Len(events) < Capacity THEN Sent
     ELSE UNCHANGED events /\ Goto(Watcher, "idle")
  /\ UNCHANGED <<orchestratorVars, disk, active, owed, seen, pkg, cancelled,
                 writes, reloads>>

Report_Waits ==
  /\ pc[Watcher] = "report" /\ Len(events) < Capacity
  /\ pending' = Nothing
  /\ Sent
  /\ UNCHANGED <<orchestratorVars, disk, active, owed, seen, pkg, cancelled,
                 writes, reloads>>

Report ==
  /\ pc[Watcher] = "report"
  /\ pending' = Nothing
  /\ \/ Len(events) < Capacity /\ Sent
     \/ cancelled /\ Unsent
  /\ UNCHANGED <<orchestratorVars, disk, active, owed, seen, pkg, cancelled,
                 writes, reloads>>

Receive ==
  /\ events # <<>>
  /\ events' = Tail(events)
  /\ owed' = IF Head(events) = Nothing THEN owed ELSE Tail(owed)
  /\ UNCHANGED <<orchestratorVars, disk, active, pending, pc, seen, pkg,
                 cancelled, writes, reloads>>

(* Reload hands its event to its caller.                                      *)
Call(w) ==
  /\ pc[w] = "idle" /\ reloads < MaxReloads
  /\ reloads' = reloads + 1
  /\ Goto(w, "load")
  /\ UNCHANGED <<orchestratorVars, disk, active, watchVars, seen, pkg, cancelled,
                 writes>>

Return(w) ==
  /\ pc[w] = "report"
  /\ Goto(w, "idle")
  /\ UNCHANGED <<orchestratorVars, disk, active, watchVars, seen, pkg, cancelled,
                 writes, reloads>>

ReloadFile(w) ==
  \/ Load(w) \/ ReloadStat(w) \/ ReloadHash(w) \/ ReloadMissing(w)
  \/ Install(w) \/ Record(w)

Watch ==
  \/ Tick \/ WatchEnds \/ PollStat \/ PollMissing \/ PollCompare
  \/ ReloadFile(Watcher) \/ Report

Reload(w) == Call(w) \/ ReloadFile(w) \/ Return(w)

Next ==
  \/ Write \/ Cancel \/ Watch \/ Receive
  \/ \E w \in Callers : Reload(w)

Spec == Init /\ [][Next]_vars

(* The ticker keeps ticking, goroutines are scheduled, and a select with a       *)
(* context that is done does not take the tick for ever.  Nobody has to read     *)
(* the events.                                                               *)
Fairness ==
  /\ WF_vars(Watch) /\ SF_vars(WatchEnds)
  /\ \A w \in Callers : WF_vars(ReloadFile(w) \/ Return(w))

FairSpec == Spec /\ Fairness

-------------------------------------------------------------------------------
(* What an evaluation that names no version runs: the content of the package     *)
(* installed last.                                                           *)
Serving ==
  {Orchestrator!Compiled(latest[s]) : s \in {t \in Orchestrator!Slots : latest[t] # Nothing}}

(* "Syntax errors, broken tests, and invalid packages are rejected while the     *)
(* last known-good package remains active": whatever the editor does and         *)
(* whenever, there is an active package and every one of them was accepted.     *)
LastGoodRemains == Serving # {} /\ Serving \subseteq Accepted

(* The consumer is told of every package the watcher installs, once and in       *)
(* order: the successes among News, the events in the channel and the one the    *)
(* watcher is about to send, are the packages it has not been told of.          *)
News ==
  IF pc[Watcher] \in {"record", "report"} /\ pkg[Watcher] # Nothing
  THEN Append(events, pkg[Watcher]) ELSE events

(* at is where in News the consumer is told of each package it is owed.         *)
Tells(at) ==
  /\ \A i, j \in 1..Len(owed) : i < j => at[i] < at[j]
  /\ \A j \in 1..Len(owed) : News[at[j]] = owed[j]
  /\ \A q \in 1..Len(News) : News[q] # Nothing <=> \E j \in 1..Len(owed) : at[j] = q

EventsTellReloads ==
  pc[Watcher] # "ended" =>
    \E at \in [1..Len(owed) -> 1..Len(News)] : Tells(at)

(* "Safe realtime refresh": when the file keeps its last content, and that is     *)
(* accepted, the watcher comes to serve it and goes on serving it, unless the    *)
(* context of Watch ends.  Somebody has to keep reading the events: the watcher   *)
(* waits for ever on a channel that is full.                                   *)
EventsAreRead == []<>(events = <<>>)

ServesTheFile ==
  EventsAreRead =>
    <>[](disk.content \in Accepted /\ ~cancelled => disk.content \in Serving)

(* The goroutine ends when its context does, whatever the consumer does.         *)
WatchStops == cancelled ~> pc[Watcher] = "ended"
===============================================================================
