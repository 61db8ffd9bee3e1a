------------------------- MODULE SQLiteDecisionStore -------------------------
(***************************************************************************)
(* SQLiteDecisionStore of sqlite_store.go: one database file and the handles *)
(* (values of NewSQLiteDecisionStore) opened on it.  A handle has a mutex     *)
(* that only SaveAuditEnvelope takes and one connection (SetMaxOpenConns(1)); *)
(* handles share nothing but the file.  A call can be cut off by its context  *)
(* between any two statements, and the process of a handle can crash between  *)
(* any two steps.                                                            *)
(*                                                                          *)
(* SQLite itself is external and modelled from the statements issued: in WAL   *)
(* mode a deferred transaction reads the snapshot of its first SELECT; its     *)
(* first INSERT takes the file's write lock and fails at once with SQLITE_BUSY *)
(* when another connection holds it or has committed since that snapshot; a    *)
(* statement of its own waits for the lock up to the busy_timeout and then     *)
(* fails with SQLITE_BUSY; what is committed survives a crash, what is not is   *)
(* rolled back.                                                              *)
(***************************************************************************)
EXTENDS AuditChain, FiniteSets

CONSTANTS Handles,      (* stores opened on the file                        *)
          AuditCalls,   (* calls of SaveAuditEnvelope; the record of a call *)
                        (* is the call itself, so records are distinct      *)
          PackageCalls, (* calls of SavePackage                             *)
          Names, Versions, Environments, Digests,
          Nothing,      (* no row, no owner                                 *)
          Clock,        (* the instants time.Now gives, oldest first        *)
          MaxSaving,    (* bound: SavePackage calls running at once         *)
          MaxCrashes    (* bound: crashes of a handle's process             *)

ASSUME ClockAssumption ==
  /\ Clock \in Seq(Nat)
  /\ \A i, j \in DOMAIN Clock : i < j => Clock[i] < Clock[j]

Keys == [name : Names, version : Versions, environment : Environments]
Slots == Names \X Environments
Calls == AuditCalls \cup PackageCalls

(* A call saves an envelope or a package, not both, and Nothing is no value that *)
(* it stands for the lack of.                                                 *)
ASSUME CallsAssumption == AuditCalls \cap PackageCalls = {}
ASSUME NothingAssumption ==
  /\ Nothing \notin Calls \cup Handles \cup Keys \cup Digests
  /\ Nothing \notin [digest : Digests, publishedAt : Nat]

VARIABLES
  rows,       (* decision_packages: [digest, published_at] under each key   *)
  auditRows,  (* audit_envelopes: the envelope of each sequence present     *)
  commits,    (* number of committed transactions, the file's data version  *)
  writer,     (* call that holds the file's write lock                      *)
  open,       (* handles whose process is up                                *)
  mu, conn,   (* per handle: holder of the mutex, of the connection         *)
  pc, at,     (* per call: step, handle                                     *)
  tx,         (* per audit call: snapshot and envelope of its transaction   *)
  job,        (* per package call: key, digest and publishedAt              *)
  ticks,      (* instants of Clock that have passed                         *)
  crashes,
  endedBefore (* history, per call: the calls that had ended when it began   *)

fileVars == <<rows, auditRows, commits, writer>>
lockVars == <<mu, conn>>
vars == <<fileVars, lockVars, open, pc, at, tx, job, ticks, crashes, endedBefore>>

-------------------------------------------------------------------------------
(* published_at: RFC3339Nano drops the trailing zeros of the fraction, and the *)
(* fraction itself when it is zero.  An instant is a number of hundredths;     *)
(* the codes are those of '.', the digits and 'Z'.                            *)
Second(t) == t \div 100

RFC3339Nano(t) ==
  LET second == 48 + Second(t)
      tenths == 48 + ((t % 100) \div 10)
      hundredths == 48 + (t % 10)
  IN  IF t % 100 = 0 THEN <<second, 90>>
      ELSE IF t % 10 = 0 THEN <<second, 46, tenths, 90>>
      ELSE <<second, 46, tenths, hundredths, 90>>

(* SQLite compares TEXT byte by byte.                                        *)
TextLess(a, b) ==
  \E i \in DOMAIN b :
    /\ \A j \in 1..(i - 1) : j \in DOMAIN a /\ a[j] = b[j]
    /\ i \in DOMAIN a => a[i] < b[i]

SlotOf(k) == <<k.name, k.environment>>

(* The rows of a name in an environment.  A slip: of the name in any.          *)
RowKeys_AnyEnvironment(s) == {k \in Keys : k.name = s[1] /\ rows[k] # Nothing}

RowKeys(s) == {k \in Keys : SlotOf(k) = s /\ rows[k] # Nothing}

(* GetPackage with an empty version: ORDER BY published_at DESC LIMIT 1.       *)
LatestKey(s) ==
  IF RowKeys(s) = {} THEN Nothing
  ELSE CHOOSE k \in RowKeys(s) : \A q \in RowKeys(s) :
         ~TextLess(RFC3339Nano(rows[k].publishedAt),
                   RFC3339Nano(rows[q].publishedAt))

(* ListAuditEnvelopes: the rows ORDER BY sequence.                           *)
ListAuditEnvelopes ==
  LET sequences == DOMAIN auditRows
      nth(i) == CHOOSE s \in sequences :
                  Cardinality({q \in sequences : q <= s}) = i
  IN  [i \in 1..Cardinality(sequences) |-> auditRows[nth(i)]]

LastSequence ==
  IF DOMAIN auditRows = {} THEN 0
  ELSE CHOOSE s \in DOMAIN auditRows : \A q \in DOMAIN auditRows : q <= s
LastHash == IF LastSequence = 0 THEN NoHash ELSE auditRows[LastSequence].ChainHash

-------------------------------------------------------------------------------
NoTx == [snapshot |-> Nothing, envelope |-> Nothing]
NoJob == [key |-> Nothing, digest |-> Nothing, publishedAt |-> Nothing]

Init ==
  /\ rows = [k \in Keys |-> Nothing]
  /\ auditRows = <<>>
  /\ commits = 0
  /\ writer = Nothing
  /\ open = Handles
  /\ mu = [h \in Handles |-> Nothing]
  /\ conn = [h \in Handles |-> Nothing]
  /\ pc = [c \in Calls |-> "idle"]
  /\ at = [c \in Calls |-> Nothing]
  /\ tx = [c \in AuditCalls |-> NoTx]
  /\ job = [c \in PackageCalls |-> NoJob]
  /\ ticks = 0
  /\ crashes = 0
  /\ endedBefore = [c \in Calls |-> {}]

Answers == {"acked", "failed", "busy"}
Ended == {c \in Calls : pc[c] \in Answers \cup {"lost"}}
RecordCall(c) == endedBefore' = [endedBefore EXCEPT ![c] = Ended]

Goto(c, step) == pc' = [pc EXCEPT ![c] = step]
Release(c, owners) == [h \in Handles |-> IF owners[h] = c THEN Nothing ELSE owners[h]]

(* SaveAuditEnvelope: the context is checked, then the call waits for mu.     *)
CallAudit(c, h) ==
  /\ pc[c] = "idle" /\ h \in open
  /\ Goto(c, "called")
  /\ at' = [at EXCEPT ![c] = h]
  /\ RecordCall(c)
  /\ UNCHANGED <<fileVars, lockVars, open, tx, job, ticks, crashes>>

Lock(c) ==
  /\ pc[c] = "called" /\ mu[at[c]] = Nothing
  /\ mu' = [mu EXCEPT ![at[c]] = c]
  /\ Goto(c, "locked")
  /\ UNCHANGED <<fileVars, conn, open, at, tx, job, ticks, crashes, endedBefore>>

BeginTx(c) ==
  /\ pc[c] = "locked" /\ conn[at[c]] = Nothing
  /\ conn' = [conn EXCEPT ![at[c]] = c]
  /\ Goto(c, "begun")
  /\ UNCHANGED <<fileVars, mu, open, at, tx, job, ticks, crashes, endedBefore>>

(* SELECT sequence, chain_hash ... ORDER BY sequence DESC LIMIT 1, then the    *)
(* envelope is built in memory.  Slips: it is not chained to what was read; the  *)
(* query goes to the pool, which waits for the connection the transaction has.  *)
ReadLast_OnPool(c) ==
  /\ pc[c] = "begun" /\ conn[at[c]] = Nothing
  /\ tx' = [tx EXCEPT ![c] =
              [snapshot |-> commits,
               envelope |-> NewEnvelope(LastSequence + 1, ticks, LastHash, c)]]
  /\ Goto(c, "read")
  /\ UNCHANGED <<fileVars, lockVars, open, at, job, ticks, crashes, endedBefore>>

ReadLast_Unlinked(c) ==
  /\ pc[c] = "begun"
  /\ tx' = [tx EXCEPT ![c] =
              [snapshot |-> commits,
               envelope |-> NewEnvelope(LastSequence + 1, ticks, NoHash, c)]]
  /\ Goto(c, "read")
  /\ UNCHANGED <<fileVars, lockVars, open, at, job, ticks, crashes, endedBefore>>

ReadLast(c) ==
  /\ pc[c] = "begun"
  /\ tx' = [tx EXCEPT ![c] =
              [snapshot |-> commits,
               envelope |-> NewEnvelope(LastSequence + 1, ticks, LastHash, c)]]
  /\ Goto(c, "read")
  /\ UNCHANGED <<fileVars, lockVars, open, at, job, ticks, crashes, endedBefore>>

(* The write lock is free and what was read is still current (otherwise         *)
(* SQLITE_BUSY), and the sequence is new.  A slip: the transaction is not        *)
(* checked against what was committed since it read.                          *)
InsertOK_NoSnapshot(c) == writer = Nothing

InsertOK(c) ==
  /\ writer = Nothing
  /\ tx[c].snapshot = commits
  /\ tx[c].envelope.Sequence \notin DOMAIN auditRows

Insert(c) ==
  /\ pc[c] = "read" /\ InsertOK(c)
  /\ writer' = c
  /\ Goto(c, "inserted")
  /\ UNCHANGED <<rows, auditRows, commits, lockVars, open, at, tx, job, ticks,
                 crashes, endedBefore>>

PutRow(e) == [s \in DOMAIN auditRows \cup {e.Sequence} |->
                IF s = e.Sequence THEN e ELSE auditRows[s]]

Commit(c) ==
  /\ pc[c] = "inserted"
  /\ auditRows' = PutRow(tx[c].envelope)
  /\ commits' = commits + 1
  /\ writer' = Nothing
  /\ Goto(c, "committed")
  /\ UNCHANGED <<rows, lockVars, open, at, tx, job, ticks, crashes, endedBefore>>

(* The answers: the deferred rollback and unlock run on every return.            *)
Finish(c, answer) ==
  /\ mu' = Release(c, mu)
  /\ conn' = Release(c, conn)
  /\ writer' = IF writer = c THEN Nothing ELSE writer
  /\ Goto(c, answer)
  /\ UNCHANGED <<rows, auditRows, commits, open, at, tx, job, ticks, crashes,
                 endedBefore>>

(* A slip: the envelope is returned before the commit.                        *)
ReturnEnvelope_Uncommitted(c) ==
  pc[c] \in {"inserted", "committed"} /\ Finish(c, "acked")

ReturnEnvelope(c) == pc[c] = "committed" /\ Finish(c, "acked")

(* The INSERT is refused with SQLITE_BUSY: another connection has the write      *)
(* lock or has committed since the last row was read.                         *)
RefuseInsert(c) ==
  /\ pc[c] = "read" /\ ~InsertOK(c)
  /\ Finish(c, "busy")

(* The context is done or the connection fails: the transaction is rolled back  *)
(* and the error returned.  The wait for mu does not look at the context.       *)
Cancel(c) ==
  /\ pc[c] \in {"locked", "begun", "read", "inserted"}
  /\ Finish(c, "failed")

-------------------------------------------------------------------------------
(* SavePackage: publishedAt is taken before the statement gets the connection. *)
Saving == {c \in PackageCalls : pc[c] \in {"stamped", "connected"}}

CallSave(c, h, k, d) ==
  /\ pc[c] = "idle" /\ h \in open
  /\ Cardinality(Saving) < MaxSaving
  /\ ticks < Len(Clock)
  /\ ticks' = ticks + 1
  /\ job' = [job EXCEPT ![c] = [key |-> k, digest |-> d,
                                publishedAt |-> Clock[ticks + 1]]]
  /\ at' = [at EXCEPT ![c] = h]
  /\ Goto(c, "stamped")
  /\ RecordCall(c)
  /\ UNCHANGED <<fileVars, lockVars, open, tx, crashes>>

(* ExecContext gets the connection of the pool.  A slip: the pool opens as many  *)
(* as it is asked for.                                                        *)
TakeConn_Unlimited(c) ==
  /\ pc[c] = "stamped"
  /\ conn' = [conn EXCEPT ![at[c]] = c]
  /\ Goto(c, "connected")
  /\ UNCHANGED <<fileVars, mu, open, at, tx, job, ticks, crashes, endedBefore>>

TakeConn(c) ==
  /\ pc[c] = "stamped" /\ conn[at[c]] = Nothing
  /\ conn' = [conn EXCEPT ![at[c]] = c]
  /\ Goto(c, "connected")
  /\ UNCHANGED <<fileVars, mu, open, at, tx, job, ticks, crashes, endedBefore>>

(* INSERT OR REPLACE.  A slip: an upsert that updates the digest and leaves the   *)
(* published_at of a row that is there.                                        *)
WriteRow_KeepsStamp(c) ==
  LET old == rows[job[c].key]
  IN  rows' = [rows EXCEPT ![job[c].key] =
                 [digest |-> job[c].digest,
                  publishedAt |-> IF old = Nothing THEN job[c].publishedAt
                                  ELSE old.publishedAt]]

WriteRow(c) ==
  rows' = [rows EXCEPT ![job[c].key] =
             [digest |-> job[c].digest, publishedAt |-> job[c].publishedAt]]

(* The statement is a transaction of its own.  A context that ends while it     *)
(* runs gives an error although the row was written.                          *)
ExecSave(c, answer) ==
  /\ pc[c] = "connected" /\ writer = Nothing
  /\ WriteRow(c)
  /\ commits' = commits + 1
  /\ conn' = Release(c, conn)
  /\ Goto(c, answer)
  /\ UNCHANGED <<auditRows, writer, mu, open, at, tx, job, ticks, crashes,
                 endedBefore>>

(* busy_timeout is over and another connection still has the write lock.        *)
RefuseSave(c) ==
  /\ pc[c] = "connected" /\ writer # Nothing
  /\ Finish(c, "busy")

(* The context ends before the row is written.                                *)
FailSave(c) ==
  /\ pc[c] \in {"stamped", "connected"}
  /\ Finish(c, "failed")

-------------------------------------------------------------------------------
InFlight == {"called", "locked", "begun", "read", "inserted", "committed",
             "stamped", "connected"}

(* The process of a handle dies: its calls get no answer, its transaction and  *)
(* its locks are gone, the file keeps what was committed.                     *)
Crash(h) ==
  /\ h \in open /\ crashes < MaxCrashes
  /\ crashes' = crashes + 1
  /\ open' = open \ {h}
  /\ mu' = [mu EXCEPT ![h] = Nothing]
  /\ conn' = [conn EXCEPT ![h] = Nothing]
  /\ writer' = IF writer # Nothing /\ at[writer] = h THEN Nothing ELSE writer
  /\ pc' = [c \in Calls |-> IF at[c] = h /\ pc[c] \in InFlight THEN "lost" ELSE pc[c]]
  /\ UNCHANGED <<rows, auditRows, commits, at, tx, job, ticks, endedBefore>>

(* NewSQLiteDecisionStore on the same path: migrate creates nothing that is    *)
(* already there.                                                            *)
Reopen(h) ==
  /\ h \notin open
  /\ open' = open \cup {h}
  /\ UNCHANGED <<fileVars, lockVars, pc, at, tx, job, ticks, crashes, endedBefore>>

AuditStep(c) ==
  \/ Lock(c) \/ BeginTx(c) \/ ReadLast(c) \/ Insert(c) \/ Commit(c)
  \/ ReturnEnvelope(c) \/ RefuseInsert(c) \/ Cancel(c)

SaveStep(c) ==
  \/ TakeConn(c) \/ ExecSave(c, "acked") \/ ExecSave(c, "failed")
  \/ RefuseSave(c) \/ FailSave(c)

Next ==
  \/ \E c \in AuditCalls, h \in Handles : CallAudit(c, h)
  \/ \E c \in AuditCalls : AuditStep(c)
  \/ \E c \in PackageCalls, h \in Handles, k \in Keys, d \in Digests :
       CallSave(c, h, k, d)
  \/ \E c \in PackageCalls : SaveStep(c)
  \/ \E h \in Handles : Crash(h) \/ Reopen(h)

Spec == Init /\ [][Next]_vars

(* A goroutine that can take its next step does; nobody is obliged to call, no   *)
(* context is obliged to end (Cancel, FailSave) and no process to crash or to    *)
(* reopen.  Weak fairness is enough for the waits on the mutex and on the pool,   *)
(* which both serve waiters in turn: each call is made once.                    *)
Fairness ==
  /\ \A c \in AuditCalls :
       /\ WF_vars(Lock(c)) /\ WF_vars(BeginTx(c)) /\ WF_vars(ReadLast(c))
       /\ WF_vars(Insert(c) \/ RefuseInsert(c))
       /\ WF_vars(Commit(c)) /\ WF_vars(ReturnEnvelope(c))
  /\ \A c \in PackageCalls :
       /\ WF_vars(TakeConn(c))
       /\ WF_vars(ExecSave(c, "acked") \/ ExecSave(c, "failed") \/ RefuseSave(c))

FairSpec == Spec /\ Fairness
-------------------------------------------------------------------------------
(* Whatever handles write, fail, crash and are reopened, the stored envelopes  *)
(* verify (sqlite_store_test.go:58, docs/production-checklist.md:43).          *)
ChainVerifies == VerifyAuditChain(ListAuditEnvelopes)

SavedRecords == {auditRows[s].Record : s \in DOMAIN auditRows}

(* An envelope that was returned is in the file, under its own sequence, and    *)
(* stays there through crashes; a call that returned an error left no row.     *)
AnswersAreTrue ==
  \A c \in AuditCalls :
    /\ pc[c] = "acked" =>
         /\ tx[c].envelope.Sequence \in DOMAIN auditRows
         /\ auditRows[tx[c].envelope.Sequence] = tx[c].envelope
    /\ pc[c] \in {"failed", "busy"} => c \notin SavedRecords

(* A save that starts after another was answered comes later in the chain,     *)
(* also when the two went through different handles.                          *)
ChainFollowsRealTime ==
  \A c \in AuditCalls : \A d \in endedBefore[c] \cap AuditCalls :
    pc[c] = "acked" /\ pc[d] = "acked"
      => tx[d].envelope.Sequence < tx[c].envelope.Sequence

(* A call is refused with SQLITE_BUSY only on account of a call of another       *)
(* handle that had not ended when it began: a store that has the file to itself  *)
(* is never refused, because its one connection (sqlite_store.go:53) puts its    *)
(* statements in a row.                                                       *)
OnlyOthersRefuse ==
  [][\A c \in Calls : pc'[c] = "busy" /\ pc[c] # "busy" =>
       \E d \in Calls \ endedBefore[c] : at[d] \notin {Nothing, at[c]}]_vars

Overlap(c, d) == c \notin endedBefore[d] /\ d \notin endedBefore[c]

(* The row under k is that of a call which overlapped c: of two saves of a key    *)
(* under way at once, the one written last is the one that stays.               *)
OverlapTookRow(k, c) ==
  \E w \in PackageCalls :
    /\ pc[w] # "idle" /\ Overlap(w, c)
    /\ job[w].key = k /\ job[w].publishedAt = rows[k].publishedAt

(* Then the text of the earlier instant may be the greater one: ".1Z" and ".12Z".  *)
PrintsShorter(earlier, later) ==
  /\ Second(earlier) = Second(later)
  /\ Len(RFC3339Nano(earlier)) < Len(RFC3339Nano(later))

(* GetPackage without a version answers no package that was published before one  *)
(* whose save was acknowledged (as docs/security-threat-model.md:26 has it), unless *)
(* a save that overlapped this one took its row, or the earlier stamp is of the    *)
(* same second and lost its trailing zeros: published_at is taken before the row   *)
(* is written, and compared as text.                                          *)
LatestFollowsSaves ==
  \A c \in PackageCalls : pc[c] = "acked" =>
    LET k == job[c].key
        latest == rows[LatestKey(SlotOf(k))].publishedAt
    IN  \/ latest >= job[c].publishedAt
        \/ PrintsShorter(latest, job[c].publishedAt)
        \/ OverlapTookRow(k, c)

(* No call waits for ever: the mutex and the connection are given back by every   *)
(* call that ends, and a wait for the write lock of another handle ends in        *)
(* SQLITE_BUSY, also when no context ever ends.                                *)
CallsEnd ==
  \A c \in Calls : pc[c] \in InFlight ~> pc[c] \notin InFlight

(* What DecisionStore calls its state is in the file.                          *)
Abstract == INSTANCE DecisionStore WITH
  Records <- AuditCalls,
  packages <- [k \in Keys |-> IF rows[k] = Nothing THEN Nothing ELSE rows[k].digest],
  lastSaved <- [s \in Slots |-> LatestKey(s)],
  trail <- [i \in DOMAIN ListAuditEnvelopes |-> ListAuditEnvelopes[i].Record]

(* Whatever the clock and however saves overlap, it implements the store in       *)
(* which a save may come in late: every save takes effect at once or not at all,  *)
(* and the latest package of a name becomes the one saved or stays what it was.   *)
ImplementsLateStore == Abstract!LateSpec
===============================================================================
