---------------------- MODULE SQLiteDecisionStoreProofs ----------------------
(***************************************************************************)
(* For any number of handles, calls, crashes and packages, and for every clock: *)
(* the file's audit chain verifies, what was answered is true, the chain        *)
(* follows real time, the package without a version is of no earlier second    *)
(* than a save acknowledged, only other handles cause SQLITE_BUSY, and the file *)
(* implements the store in which a save may come in late.                      *)
(***************************************************************************)
EXTENDS SQLiteDecisionStore, FiniteSetTheorems, SequenceTheorems,
        WellFoundedInduction, TLAPS

Steps == {"idle", "acked", "failed", "busy", "lost"} \cup InFlight

TypeOK ==
  /\ rows \in [Keys -> [digest : Digests, publishedAt : Nat] \cup {Nothing}]
  /\ commits \in Nat
  /\ writer \in AuditCalls \cup {Nothing}
  /\ open \subseteq Handles
  /\ mu \in [Handles -> AuditCalls \cup {Nothing}]
  /\ conn \in [Handles -> Calls \cup {Nothing}]
  /\ pc \in [Calls -> Steps]
  /\ at \in [Calls -> Handles \cup {Nothing}]
  /\ DOMAIN tx = AuditCalls
  /\ DOMAIN job = PackageCalls
  /\ ticks \in 0..Len(Clock)
  /\ endedBefore \in [Calls -> SUBSET Calls]

(* The rows are the links 1..n of one chain: each is built by NewEnvelope from *)
(* its position, the row before it and the record of a call.                  *)
ChainTo(n) ==
  /\ DOMAIN auditRows = 1..n
  /\ \A i \in 1..n : \E ts \in Nat, r \in AuditCalls :
       auditRows[i] = NewEnvelope(i, ts, HashBefore(auditRows, i), r)

ChainBuilt == \E n \in Nat : ChainTo(n)

(* What keeps the chain: a transaction whose snapshot is still the file's data *)
(* version has built the envelope that comes next, and one that has inserted   *)
(* holds the write lock, so nobody commits before it does.                    *)
TxCurrent ==
  \A c \in AuditCalls : pc[c] \in {"read", "inserted"} =>
    /\ tx[c].snapshot \in Nat /\ tx[c].snapshot <= commits
    /\ tx[c].snapshot = commits =>
         \E ts \in Nat : tx[c].envelope =
                           NewEnvelope(LastSequence + 1, ts, LastHash, c)
    /\ pc[c] = "inserted" => writer = c /\ tx[c].snapshot = commits

AnswersKept ==
  \A c \in AuditCalls :
    /\ pc[c] \in {"committed", "acked"} =>
         /\ tx[c].envelope.Sequence \in DOMAIN auditRows
         /\ auditRows[tx[c].envelope.Sequence] = tx[c].envelope
    /\ c \in SavedRecords => pc[c] \in {"committed", "acked", "lost"}

(* What had ended when a call began has still ended, so a call that has read the *)
(* last row is ahead of every acked one that ended before it.                  *)
HistoryKept == \A c \in Calls : endedBefore[c] \subseteq Ended

OrderKept ==
  \A c, d \in AuditCalls :
    /\ d \in endedBefore[c] /\ pc[d] = "acked"
    /\ pc[c] \in {"read", "inserted", "committed", "acked"}
    => tx[d].envelope.Sequence < tx[c].envelope.Sequence

(* Stamps are instants that have passed, one to a call, in the order in which    *)
(* calls end and begin; a row has the key and the stamp of one of them.         *)
Past == {Clock[i] : i \in 1..ticks}
Called == {c \in PackageCalls : pc[c] # "idle"}
Present == {k \in Keys : rows[k] # Nothing}
WroteRow(k, w) == job[w].key = k /\ job[w].publishedAt = rows[k].publishedAt

StampsKept ==
  /\ \A c \in Called : job[c] \in [key : Keys, digest : Digests, publishedAt : Past]
  /\ \A c, d \in Called : job[c].publishedAt = job[d].publishedAt => c = d
  /\ \A c \in Called, d \in PackageCalls :
       d \in endedBefore[c] => job[d].publishedAt < job[c].publishedAt
  /\ \A k \in Present : \E w \in Called : WroteRow(k, w)

(* The row under the key of an acked save is not older than it, or was written   *)
(* by a save that overlapped it.                                              *)
RowFollows(c) ==
  LET k == job[c].key
  IN  /\ k \in Present
      /\ rows[k].publishedAt >= job[c].publishedAt \/ OverlapTookRow(k, c)

RowsFollow == \A c \in PackageCalls : pc[c] = "acked" => RowFollows(c)

IInv ==
  /\ TypeOK /\ ChainBuilt /\ TxCurrent /\ AnswersKept
  /\ HistoryKept /\ OrderKept /\ StampsKept /\ RowsFollow

-------------------------------------------------------------------------------
(* The file as a sequence: with rows 1..n, the last sequence is n, and what     *)
(* ListAuditEnvelopes answers is the rows themselves.                         *)
LEMMA LastOfChain ==
  ASSUME NEW n \in Nat, DOMAIN auditRows = 1..n
  PROVE  /\ LastSequence = n
         /\ LastHash = IF n = 0 THEN NoHash ELSE auditRows[n].ChainHash
<1>1. CASE n = 0
  BY <1>1 DEF LastSequence, LastHash
<1>2. CASE n # 0
  <2>1. n \in DOMAIN auditRows /\ \A q \in DOMAIN auditRows : q <= n
    BY <1>2
  <2>2. \A s \in DOMAIN auditRows :
          (\A q \in DOMAIN auditRows : q <= s) => s = n
    BY <2>1
  <2>3. LastSequence = n
    BY <1>2, <2>1, <2>2 DEF LastSequence
  <2> QED
    BY <1>2, <2>3 DEF LastHash
<1> QED
  BY <1>1, <1>2

LEMMA ListIsRows ==
  ASSUME NEW n \in Nat, DOMAIN auditRows = 1..n
  PROVE  ListAuditEnvelopes = [i \in 1..n |-> auditRows[i]]
<1> DEFINE upTo(s) == {q \in 1..n : q <= s}
<1>1. Cardinality(1..n) = n
  BY FS_Interval
<1>2. \A s \in 1..n : upTo(s) = 1..s /\ Cardinality(upTo(s)) = s
  <2> TAKE s \in 1..n
  <2>1. upTo(s) = 1..s
    OBVIOUS
  <2>2. Cardinality(1..s) = s
    BY FS_Interval
  <2> QED
    BY <2>1, <2>2
<1> HIDE DEF upTo
<1>3. ASSUME NEW i \in 1..n
      PROVE  (CHOOSE s \in 1..n : Cardinality(upTo(s)) = i) = i
  BY <1>2
<1>4. ListAuditEnvelopes =
        [i \in 1..Cardinality(1..n) |->
           auditRows[CHOOSE s \in 1..n : Cardinality(upTo(s)) = i]]
  BY DEF ListAuditEnvelopes, upTo
<1> QED
  BY <1>1, <1>3, <1>4

(* What the proofs need of an envelope: its fields.                           *)
LEMMA EnvelopeFields ==
  ASSUME NEW seq, NEW ts, NEW prev, NEW r
  PROVE  LET e == NewEnvelope(seq, ts, prev, r)
         IN  /\ e.Sequence = seq
             /\ e.Timestamp = ts
             /\ e.PreviousHash = prev
             /\ e.Record = r
             /\ e.PayloadHash = auditPayloadHash(e.Record)
             /\ e.ChainHash = auditChainHash(e.Sequence, e.Timestamp, e.ID,
                                             e.PreviousHash, e.PayloadHash)
  BY DEF NewEnvelope

LEMMA InitIInv == Init => IInv
<1> SUFFICES ASSUME Init PROVE IInv
  OBVIOUS
<1> USE DEF Init
<1>1. TypeOK
  BY ClockAssumption DEF TypeOK, Steps
<1>2. ChainBuilt
  <2>1. ChainTo(0)
    BY DEF ChainTo
  <2> QED
    BY <2>1 DEF ChainBuilt
<1>3. TxCurrent
  BY DEF TxCurrent, Calls
<1>4. AnswersKept
  BY DEF AnswersKept, Calls, SavedRecords
<1>5. HistoryKept /\ OrderKept
  BY DEF HistoryKept, OrderKept, Calls
<1>6. StampsKept /\ RowsFollow
  BY DEF StampsKept, RowsFollow, Called, Present, Past, Calls
<1> QED
  BY <1>1, <1>2, <1>3, <1>4, <1>5, <1>6 DEF IInv

(* Steps of audit calls and of the processes leave the saves of packages alone.  *)
PackagesQuiet ==
  /\ UNCHANGED <<rows, job, ticks>>
  /\ \A c \in PackageCalls :
       /\ endedBefore'[c] = endedBefore[c]
       /\ pc'[c] = "idle" <=> pc[c] = "idle"
       /\ pc'[c] = "acked" => pc[c] = "acked"

LEMMA PackagesKept ==
  ASSUME IInv, PackagesQuiet
  PROVE  StampsKept' /\ RowsFollow'
<1> USE DEF PackagesQuiet, IInv
<1>1. Called' = Called /\ Present' = Present /\ Past' = Past
  BY DEF Called, Present, Past
<1>2. StampsKept'
  BY <1>1 DEF StampsKept, WroteRow, Called
<1>3. ASSUME NEW c \in PackageCalls, pc'[c] = "acked"
      PROVE  RowFollows(c)'
  <2>1. RowFollows(c)
    BY <1>3 DEF RowsFollow
  <2>2. OverlapTookRow(job[c].key, c) => OverlapTookRow(job[c].key, c)'
    BY DEF OverlapTookRow, Overlap
  <2> QED
    BY <1>1, <2>1, <2>2 DEF RowFollows
<1> QED
  BY <1>2, <1>3 DEF RowsFollow

(* A call that begins takes down what has ended; the others keep what they have. *)
HistoryMoves ==
  /\ \A c \in Calls : \/ endedBefore'[c] = endedBefore[c]
                      \/ endedBefore'[c] = Ended /\ pc'[c] \in {"called", "stamped"}
  /\ Ended \subseteq Ended'

LEMMA HistoryMoved ==
  ASSUME IInv, HistoryMoves
  PROVE  HistoryKept'
BY DEF HistoryMoves, HistoryKept, IInv

(* Steps that leave the file and what has been read from it alone: they move   *)
(* calls without bringing one to a step at which it relies on the file.        *)
Quiet ==
  /\ UNCHANGED <<rows, auditRows, commits, tx, job, ticks>>
  /\ \A c \in AuditCalls :
       /\ pc'[c] = "read" => pc[c] = "read"
       /\ pc'[c] = "inserted" => pc[c] = "inserted" /\ writer' = writer
       /\ pc'[c] = "committed" => pc[c] = "committed"
       /\ pc'[c] = "acked" => pc[c] \in {"committed", "acked"}
       /\ pc[c] \in {"committed", "acked", "lost"} =>
            pc'[c] \in {"committed", "acked", "lost"}
  /\ HistoryMoves
  /\ PackagesQuiet

LEMMA QuietKeeps ==
  ASSUME IInv, Quiet
  PROVE  /\ ChainBuilt' /\ TxCurrent' /\ AnswersKept'
         /\ HistoryKept' /\ OrderKept' /\ StampsKept' /\ RowsFollow'
<1> USE DEF Quiet, IInv
<1>1. ChainBuilt'
  BY DEF ChainBuilt, ChainTo, HashBefore
<1>2. LastSequence' = LastSequence /\ LastHash' = LastHash
  BY DEF LastSequence, LastHash
<1>3. TxCurrent'
  BY <1>2 DEF TxCurrent
<1>4. AnswersKept'
  BY DEF AnswersKept, SavedRecords
<1>5. OrderKept'
  <2> SUFFICES ASSUME NEW c \in AuditCalls, NEW d \in AuditCalls,
                      d \in endedBefore'[c], pc'[d] = "acked",
                      pc'[c] \in {"read", "inserted", "committed", "acked"}
               PROVE  tx[d].envelope.Sequence < tx[c].envelope.Sequence
    BY DEF OrderKept
  <2>1. d \in endedBefore[c]
    BY DEF HistoryMoves, Calls
  <2>2. pc[d] = "acked"
    BY <2>1 DEF HistoryKept, Ended, Answers, Calls
  <2> QED
    BY <2>1, <2>2 DEF OrderKept
<1> QED
  BY <1>1, <1>3, <1>4, <1>5, PackagesKept, HistoryMoved

(* A step of one audit call that moves nobody else.                           *)
OnlyMoves(c) ==
  /\ \A d \in Calls : d # c => pc'[d] = pc[d] /\ endedBefore'[d] = endedBefore[d]
  /\ UNCHANGED <<rows, job, ticks>>

LEMMA AuditStepIsQuiet ==
  ASSUME NEW c \in AuditCalls, OnlyMoves(c)
  PROVE  PackagesQuiet
BY CallsAssumption DEF OnlyMoves, PackagesQuiet, Calls

LEMMA CallAuditIInv ==
  ASSUME IInv, NEW c \in AuditCalls, NEW h \in Handles, CallAudit(c, h)
  PROVE  IInv'
<1> USE DEF CallAudit, Goto, RecordCall, fileVars, lockVars
<1>1. TypeOK'
  BY DEF IInv, TypeOK, Steps, InFlight, Calls, Ended
<1>2. Quiet
  <2>1. OnlyMoves(c)
    BY DEF OnlyMoves, IInv, TypeOK
  <2>2. /\ pc[c] = "idle" /\ pc'[c] = "called" /\ c \in Calls
        /\ endedBefore'[c] = Ended
    BY DEF IInv, TypeOK, Calls
  <2>3. HistoryMoves
    BY <2>1, <2>2 DEF OnlyMoves, HistoryMoves, Ended, Answers
  <2> QED
    BY <2>1, <2>2, <2>3, AuditStepIsQuiet DEF Quiet, OnlyMoves, Calls
<1> QED
  BY <1>1, <1>2, QuietKeeps DEF IInv

LEMMA LockIInv ==
  ASSUME IInv, NEW c \in AuditCalls, Lock(c) \/ BeginTx(c)
  PROVE  IInv'
<1> USE DEF Lock, BeginTx, Goto, fileVars, lockVars
<1>1. TypeOK'
  BY DEF IInv, TypeOK, Steps, InFlight, Calls
<1>2. Quiet
  <2>1. OnlyMoves(c)
    BY DEF OnlyMoves, IInv, TypeOK
  <2>2. /\ pc[c] \in {"called", "locked"} /\ pc'[c] \in {"locked", "begun"}
        /\ c \in Calls /\ endedBefore' = endedBefore
    BY DEF IInv, TypeOK, Calls
  <2>3. HistoryMoves
    BY <2>1, <2>2 DEF OnlyMoves, HistoryMoves, Ended, Answers
  <2> QED
    BY <2>1, <2>2, <2>3, AuditStepIsQuiet DEF Quiet, OnlyMoves, Calls
<1> QED
  BY <1>1, <1>2, QuietKeeps DEF IInv

(* What is left to show when an audit call takes a step on its own transaction.   *)
LEMMA AuditStepKeeps ==
  ASSUME IInv, NEW c \in AuditCalls, OnlyMoves(c), endedBefore' = endedBefore,
         pc[c] \notin Answers \cup {"lost"}
  PROVE  HistoryKept' /\ StampsKept' /\ RowsFollow'
<1>1. HistoryMoves
  BY DEF OnlyMoves, HistoryMoves, Ended
<1> QED
  BY <1>1, HistoryMoved, AuditStepIsQuiet, PackagesKept

LEMMA ReadLastIInv ==
  ASSUME IInv, NEW c \in AuditCalls, ReadLast(c)
  PROVE  IInv'
<1> USE DEF ReadLast, Goto, fileVars, lockVars
<1>1. PICK n \in Nat : ChainTo(n)
  BY DEF IInv, ChainBuilt
<1>2. LastSequence = n
  BY <1>1, LastOfChain DEF ChainTo
<1>3. ticks \in Nat
  BY ClockAssumption DEF IInv, TypeOK
<1>4. /\ tx'[c] = [snapshot |-> commits,
                   envelope |-> NewEnvelope(n + 1, ticks, LastHash, c)]
      /\ \A d \in AuditCalls : d # c => tx'[d] = tx[d]
  BY <1>2 DEF IInv, TypeOK
<1>5. /\ pc[c] = "begun" /\ pc'[c] = "read"
      /\ \A d \in Calls : d # c => pc'[d] = pc[d]
      /\ c \in Calls /\ c \notin PackageCalls
  BY CallsAssumption DEF IInv, TypeOK, Calls
<1>6. TypeOK'
  BY DEF IInv, TypeOK, Steps, InFlight, Calls
<1>7. ChainBuilt'
  BY DEF IInv, ChainBuilt, ChainTo, HashBefore
<1>8. LastSequence' = LastSequence /\ LastHash' = LastHash
  BY DEF LastSequence, LastHash
<1>9. TxCurrent'
  <2>1. ASSUME NEW d \in AuditCalls, pc'[d] \in {"read", "inserted"}
        PROVE  /\ tx'[d].snapshot \in Nat /\ tx'[d].snapshot <= commits'
               /\ tx'[d].snapshot = commits' =>
                    \E ts \in Nat : tx'[d].envelope =
                      NewEnvelope(LastSequence' + 1, ts, LastHash', d)
               /\ pc'[d] = "inserted" => writer' = d /\ tx'[d].snapshot = commits'
    <3>1. CASE d = c
      BY <3>1, <1>2, <1>3, <1>4, <1>5, <1>8 DEF IInv, TypeOK
    <3>2. CASE d # c
      BY <2>1, <3>2, <1>4, <1>5, <1>8 DEF IInv, TxCurrent, Calls
    <3> QED
      BY <3>1, <3>2
  <2> QED
    BY <2>1 DEF TxCurrent
<1>10. AnswersKept'
  BY <1>4, <1>5 DEF IInv, AnswersKept, SavedRecords, Calls
<1>11. OrderKept'
  <2>1. tx'[c].envelope.Sequence = n + 1
    BY <1>4, EnvelopeFields
  <2>2. \A d \in AuditCalls : pc[d] = "acked" => tx[d].envelope.Sequence < n + 1
    BY <1>1 DEF IInv, AnswersKept, ChainTo
  <2> QED
    BY <2>1, <2>2, <1>4, <1>5 DEF IInv, OrderKept, Calls
<1>12. HistoryKept' /\ StampsKept' /\ RowsFollow'
  <2>1. OnlyMoves(c)
    BY <1>5 DEF OnlyMoves
  <2> QED
    BY <2>1, <1>5, AuditStepKeeps DEF Answers
<1> QED
  BY <1>6, <1>7, <1>9, <1>10, <1>11, <1>12 DEF IInv

(* SQLITE_BUSY at work: the INSERT goes ahead only on a current snapshot.       *)
LEMMA InsertIInv ==
  ASSUME IInv, NEW c \in AuditCalls, Insert(c)
  PROVE  IInv'
<1> USE DEF Insert, InsertOK, Goto, lockVars
<1>1. /\ pc[c] = "read" /\ pc'[c] = "inserted"
      /\ \A d \in Calls : d # c => pc'[d] = pc[d]
      /\ c \in Calls /\ c \notin PackageCalls
  BY CallsAssumption DEF IInv, TypeOK, Calls
<1>2. TypeOK'
  BY DEF IInv, TypeOK, Steps, InFlight, Calls
<1>3. ChainBuilt'
  BY DEF IInv, ChainBuilt, ChainTo, HashBefore
<1>4. LastSequence' = LastSequence /\ LastHash' = LastHash
  BY DEF LastSequence, LastHash
<1>5. \A d \in AuditCalls : pc[d] # "inserted"
  BY NothingAssumption DEF IInv, TxCurrent, Calls
<1>6. TxCurrent'
  BY <1>1, <1>4, <1>5 DEF IInv, TxCurrent, Calls
<1>7. AnswersKept'
  BY <1>1 DEF IInv, AnswersKept, SavedRecords, Calls
<1>8. OrderKept'
  BY <1>1 DEF IInv, OrderKept, Calls
<1>9. HistoryKept' /\ StampsKept' /\ RowsFollow'
  <2>1. OnlyMoves(c)
    BY <1>1 DEF OnlyMoves
  <2> QED
    BY <2>1, <1>1, AuditStepKeeps DEF Answers
<1> QED
  BY <1>2, <1>3, <1>6, <1>7, <1>8, <1>9 DEF IInv

LEMMA CommitIInv ==
  ASSUME IInv, NEW c \in AuditCalls, Commit(c)
  PROVE  IInv'
<1> DEFINE e == tx[c].envelope
<1>1. PICK n \in Nat : ChainTo(n)
  BY DEF IInv, ChainBuilt
<1>2. LastSequence = n
  BY <1>1, LastOfChain DEF ChainTo
<1>3. /\ pc[c] = "inserted" /\ pc'[c] = "committed"
      /\ \A d \in Calls : d # c => pc'[d] = pc[d]
      /\ c \in Calls /\ c \notin PackageCalls
  BY CallsAssumption DEF Commit, Goto, IInv, TypeOK, Calls
<1>4. /\ writer = c /\ tx[c].snapshot = commits
      /\ \A d \in AuditCalls : pc[d] = "inserted" => d = c
  BY <1>3 DEF IInv, TxCurrent
<1>5. PICK ts \in Nat : e = NewEnvelope(n + 1, ts, LastHash, c)
  BY <1>2, <1>3, <1>4 DEF IInv, TxCurrent
<1>6. e.Sequence = n + 1 /\ e.Record = c
  BY <1>5, EnvelopeFields
<1>7. /\ DOMAIN auditRows = 1..n /\ DOMAIN auditRows' = 1..(n + 1)
      /\ auditRows'[n + 1] = e
      /\ \A i \in 1..n : auditRows'[i] = auditRows[i]
  BY <1>1, <1>6 DEF Commit, PutRow, ChainTo
<1>8. /\ commits' = commits + 1 /\ writer' = Nothing
      /\ UNCHANGED <<rows, lockVars, open, at, tx, job, ticks, crashes, endedBefore>>
  BY DEF Commit
<1> HIDE DEF e
<1>9. TypeOK'
  BY <1>8 DEF IInv, TypeOK, Commit, Goto, lockVars, Steps, InFlight, Calls
<1>10. ChainBuilt'
  <2>1. /\ \A i \in 1..n : HashBefore(auditRows', i) = HashBefore(auditRows, i)
        /\ HashBefore(auditRows', n + 1) = LastHash
    <3>1. LastHash = IF n = 0 THEN NoHash ELSE auditRows[n].ChainHash
      BY <1>7, LastOfChain
    <3> QED
      BY <3>1, <1>7 DEF HashBefore
  <2>2. ASSUME NEW i \in 1..(n + 1)
        PROVE  \E t \in Nat, r \in AuditCalls :
                 auditRows'[i] = NewEnvelope(i, t, HashBefore(auditRows', i), r)
    <3>1. CASE i \in 1..n
      <4>1. auditRows'[i] = auditRows[i] /\ HashBefore(auditRows', i) = HashBefore(auditRows, i)
        BY <3>1, <1>7, <2>1
      <4>2. \E t \in Nat, r \in AuditCalls :
              auditRows[i] = NewEnvelope(i, t, HashBefore(auditRows, i), r)
        BY <3>1, <1>1 DEF ChainTo
      <4> QED
        BY <4>1, <4>2
    <3>2. CASE i = n + 1
      BY <3>2, <1>5, <1>7, <2>1
    <3> QED
      BY <3>1, <3>2
  <2> QED
    BY <2>2, <1>7 DEF ChainBuilt, ChainTo
<1>11. TxCurrent'
  <2>1. ASSUME NEW d \in AuditCalls, pc'[d] \in {"read", "inserted"}
        PROVE  /\ pc'[d] = "read"
               /\ tx'[d].snapshot \in Nat /\ tx'[d].snapshot < commits'
    BY <2>1, <1>3, <1>4, <1>8 DEF IInv, TxCurrent, TypeOK, Calls
  <2> QED
    BY <2>1, <1>8 DEF TxCurrent, IInv, TypeOK
<1>12. SavedRecords' = SavedRecords \cup {c}
  BY <1>6, <1>7 DEF SavedRecords
<1>13. AnswersKept'
  <2>1. ASSUME NEW d \in AuditCalls, pc'[d] \in {"committed", "acked"}
        PROVE  /\ tx'[d].envelope.Sequence \in DOMAIN auditRows'
               /\ auditRows'[tx'[d].envelope.Sequence] = tx'[d].envelope
    <3>1. CASE d = c
      BY <3>1, <1>6, <1>7, <1>8 DEF e
    <3>2. CASE d # c
      BY <2>1, <3>2, <1>3, <1>7, <1>8 DEF IInv, AnswersKept, Calls
    <3> QED
      BY <3>1, <3>2
  <2>2. ASSUME NEW d \in AuditCalls, d \in SavedRecords'
        PROVE  pc'[d] \in {"committed", "acked", "lost"}
    BY <2>2, <1>3, <1>12 DEF IInv, AnswersKept, Calls
  <2> QED
    BY <2>1, <2>2 DEF AnswersKept
<1>14. OrderKept'
  BY <1>3, <1>8 DEF IInv, OrderKept, Calls
<1>15. HistoryKept' /\ StampsKept' /\ RowsFollow'
  <2>1. OnlyMoves(c)
    BY <1>3, <1>8 DEF OnlyMoves
  <2> QED
    BY <2>1, <1>3, <1>8, AuditStepKeeps DEF Answers
<1> QED
  BY <1>9, <1>10, <1>11, <1>13, <1>14, <1>15 DEF IInv

(* An answer moves the call and gives back what it held: another call's lock is *)
(* not touched.                                                              *)
LEMMA FinishQuiet ==
  ASSUME IInv, NEW c \in AuditCalls,
         ReturnEnvelope(c) \/ RefuseInsert(c) \/ Cancel(c)
  PROVE  Quiet /\ TypeOK'
<1>1. PICK answer \in Answers :
        /\ Finish(c, answer)
        /\ answer = "acked" => pc[c] = "committed"
        /\ answer # "acked" => pc[c] \in {"locked", "begun", "read", "inserted"}
  BY DEF ReturnEnvelope, RefuseInsert, Cancel, Answers
<1> USE <1>1 DEF Finish, Goto, Answers
<1>2. /\ OnlyMoves(c) /\ c \in Calls /\ pc'[c] = answer /\ endedBefore' = endedBefore
  BY DEF OnlyMoves, IInv, TypeOK, Calls
<1>3. TypeOK'
  BY DEF IInv, TypeOK, Release, Steps, InFlight, Calls
<1>4. \A d \in AuditCalls : d # c /\ pc[d] = "inserted" => writer' = writer
  BY DEF IInv, TxCurrent
<1>5. HistoryMoves
  BY <1>2 DEF OnlyMoves, HistoryMoves, Ended
<1> QED
  BY <1>2, <1>3, <1>4, <1>5, AuditStepIsQuiet DEF Quiet, OnlyMoves, Calls

LEMMA CallSaveIInv ==
  ASSUME IInv, NEW c \in PackageCalls, NEW h \in Handles, NEW k \in Keys,
         NEW d \in Digests, CallSave(c, h, k, d)
  PROVE  IInv'
<1> DEFINE now == Clock[ticks + 1]
<1>1. /\ ticks \in Nat /\ ticks + 1 \in DOMAIN Clock /\ now \in Nat
      /\ ticks' = ticks + 1 /\ ticks' \in 0..Len(Clock)
  BY ClockAssumption DEF CallSave, IInv, TypeOK
<1>2. /\ Past' = Past \cup {now}
      /\ \A t \in Past : t \in Nat /\ t < now
  <2>1. \A i \in 1..ticks : i \in DOMAIN Clock /\ i < ticks + 1 /\ Clock[i] \in Nat
    BY <1>1, ClockAssumption
  <2>2. \A i \in 1..ticks : Clock[i] < now
    BY <2>1, <1>1, ClockAssumption
  <2>3. 1..ticks' = 1..ticks \cup {ticks + 1}
    BY <1>1
  <2> QED
    BY <2>1, <2>2, <2>3 DEF Past
<1>3. /\ pc[c] = "idle" /\ pc'[c] = "stamped" /\ c \in Calls /\ c \notin AuditCalls
      /\ \A b \in Calls : b # c => pc'[b] = pc[b]
      /\ job'[c] = [key |-> k, digest |-> d, publishedAt |-> now]
      /\ \A b \in PackageCalls : b # c => job'[b] = job[b]
  BY CallsAssumption DEF CallSave, Goto, IInv, TypeOK, Calls
<1>4. /\ UNCHANGED <<fileVars, lockVars, open, tx, crashes>>
      /\ endedBefore'[c] = Ended
      /\ \A b \in Calls : b # c => endedBefore'[b] = endedBefore[b]
      /\ endedBefore' \in [Calls -> SUBSET Calls]
  BY <1>3 DEF CallSave, RecordCall, IInv, TypeOK, Ended
<1>5. TypeOK'
  BY <1>1, <1>4 DEF CallSave, Goto, fileVars, lockVars, IInv, TypeOK, Steps, InFlight, Calls
<1>6. ChainBuilt'
  BY <1>4 DEF fileVars, IInv, ChainBuilt, ChainTo, HashBefore
<1>7. LastSequence' = LastSequence /\ LastHash' = LastHash
  BY <1>4 DEF fileVars, LastSequence, LastHash
<1>8. \A b \in AuditCalls : pc'[b] = pc[b]
  BY <1>3 DEF Calls
<1>9. TxCurrent' /\ AnswersKept' /\ OrderKept'
  <2>1. TxCurrent'
    BY <1>4, <1>7, <1>8 DEF fileVars, IInv, TxCurrent
  <2>2. AnswersKept'
    BY <1>4, <1>8 DEF fileVars, IInv, AnswersKept, SavedRecords
  <2>3. \A b \in AuditCalls : endedBefore'[b] = endedBefore[b]
    BY <1>3, <1>4 DEF Calls
  <2>4. OrderKept'
    BY <1>4, <1>8, <2>3 DEF fileVars, IInv, OrderKept
  <2> QED
    BY <2>1, <2>2, <2>4
<1>10. HistoryKept'
  BY <1>3, <1>4, HistoryMoved DEF HistoryMoves, Ended, Answers
<1> HIDE DEF now
<1>11. /\ Called' = Called \cup {c} /\ c \notin Called
       /\ \A b \in Called : job'[b] = job[b] /\ endedBefore'[b] = endedBefore[b]
       /\ \A b \in Called : pc'[b] = pc[b] /\ c \notin endedBefore[b]
       /\ Present' = Present /\ rows' = rows
       /\ \A b \in PackageCalls : b \in Ended => b \in Called
  BY <1>3, <1>4 DEF Called, Present, fileVars, Calls, IInv, HistoryKept, Ended, Answers
<1>12. StampsKept'
  <2>1. \A b \in Called' : job'[b] \in [key : Keys, digest : Digests, publishedAt : Past']
    BY <1>2, <1>3, <1>11 DEF IInv, StampsKept
  <2>2. \A b \in Called : job[b].publishedAt \in Past
    BY DEF IInv, StampsKept
  <2>3. job'[c].publishedAt = now /\ \A b \in Called : job[b].publishedAt < now
    BY <1>2, <1>3, <2>2
  <2>4. \A b, e \in Called' : job'[b].publishedAt = job'[e].publishedAt => b = e
    BY <1>1, <1>2, <1>11, <2>2, <2>3 DEF IInv, StampsKept
  <2>5. ASSUME NEW b \in Called', NEW e \in PackageCalls, e \in endedBefore'[b]
        PROVE  job'[e].publishedAt < job'[b].publishedAt
    <3>1. CASE b = c
      BY <2>3, <2>5, <3>1, <1>4, <1>11
    <3>2. CASE b # c
      BY <2>5, <3>2, <1>3, <1>11 DEF IInv, StampsKept
    <3> QED
      BY <3>1, <3>2
  <2>6. ASSUME NEW q \in Present
        PROVE  \E w \in Called' : WroteRow(q, w)'
    <3>1. PICK w \in Called : WroteRow(q, w)
      BY DEF IInv, StampsKept
    <3> QED
      BY <3>1, <1>11 DEF WroteRow
  <2> QED
    BY <1>11, <2>1, <2>4, <2>5, <2>6 DEF StampsKept
<1>13. ASSUME NEW b \in PackageCalls, pc'[b] = "acked"
       PROVE  RowFollows(b)'
  <2>1. b \in Called /\ RowFollows(b) /\ job'[b] = job[b]
    BY <1>3, <1>11, <1>13 DEF IInv, RowsFollow, Called, Calls
  <2>2. ASSUME OverlapTookRow(job[b].key, b) PROVE OverlapTookRow(job[b].key, b)'
    <3>1. PICK w \in PackageCalls :
            /\ pc[w] # "idle" /\ Overlap(w, b)
            /\ job[w].key = job[b].key
            /\ job[w].publishedAt = rows[job[b].key].publishedAt
      BY <2>2 DEF OverlapTookRow
    <3>2. w \in Called
      BY <3>1 DEF Called
    <3> QED
      BY <2>1, <3>1, <3>2, <1>11 DEF OverlapTookRow, Overlap
  <2> QED
    BY <1>11, <2>1, <2>2 DEF RowFollows
<1> QED
  BY <1>5, <1>6, <1>9, <1>10, <1>12, <1>13 DEF IInv, RowsFollow

(* A row that is written has a later stamp than the one it replaces, or its save  *)
(* overlapped those the row stood for.                                        *)
LEMMA ExecSaveIInv ==
  ASSUME IInv, NEW c \in PackageCalls,
         NEW answer \in {"acked", "failed"}, ExecSave(c, answer)
  PROVE  IInv'
<1> DEFINE k == job[c].key
           row == [digest |-> job[c].digest, publishedAt |-> job[c].publishedAt]
<1>1. /\ c \in Called /\ c \in Calls /\ c \notin AuditCalls
      /\ pc[c] = "connected" /\ c \notin Ended
      /\ pc'[c] = answer /\ \A b \in Calls : b # c => pc'[b] = pc[b]
  BY CallsAssumption DEF ExecSave, Goto, IInv, TypeOK, Calls, Called, Ended, Answers
<1>2. \A t \in Past : t \in Nat
  <2>1. \A i \in 1..ticks : i \in DOMAIN Clock /\ Clock[i] \in Nat
    BY ClockAssumption DEF IInv, TypeOK
  <2> QED
    BY <2>1 DEF Past
<1>3. /\ k \in Keys /\ row \in [digest : Digests, publishedAt : Nat]
      /\ row.publishedAt = job[c].publishedAt /\ row.publishedAt \in Past
      /\ row # Nothing
  BY <1>1, <1>2, NothingAssumption DEF IInv, StampsKept
<1> HIDE DEF row, k
<1>4. /\ rows' = [rows EXCEPT ![k] = row]
      /\ writer = Nothing /\ commits' = commits + 1
      /\ UNCHANGED <<auditRows, writer, mu, open, at, tx, job, ticks, crashes,
                     endedBefore>>
  BY DEF ExecSave, WriteRow, row, k
<1>5. TypeOK'
  BY <1>3, <1>4 DEF ExecSave, Goto, Release, lockVars, IInv, TypeOK, Steps, InFlight, Calls
<1>6. ChainBuilt'
  BY <1>4 DEF IInv, ChainBuilt, ChainTo, HashBefore
<1>7. \A b \in AuditCalls : pc'[b] = pc[b]
  BY <1>1 DEF Calls
<1>8. TxCurrent'
  <2>1. ASSUME NEW d \in AuditCalls, pc'[d] \in {"read", "inserted"}
        PROVE  /\ pc'[d] = "read"
               /\ tx'[d].snapshot \in Nat /\ tx'[d].snapshot < commits'
    <3>1. pc[d] = pc'[d] /\ d # Nothing
      BY <1>7, NothingAssumption DEF Calls
    <3> QED
      BY <2>1, <3>1, <1>4 DEF IInv, TxCurrent, TypeOK
  <2> QED
    BY <2>1, <1>4 DEF TxCurrent, IInv, TypeOK
<1>9. AnswersKept' /\ OrderKept'
  BY <1>4, <1>7 DEF IInv, AnswersKept, SavedRecords, OrderKept
<1>10. HistoryKept'
  BY <1>1, <1>4, HistoryMoved DEF HistoryMoves, Ended, Answers
<1>11. /\ Called' = Called /\ Past' = Past /\ job' = job
       /\ Present' = Present \cup {k}
       /\ rows'[k] = row
       /\ \A q \in Present : q # k => rows'[q] = rows[q]
  BY <1>1, <1>3, <1>4 DEF Called, Past, Present, IInv, TypeOK, Calls
<1>12. StampsKept'
  <2>1. ASSUME NEW q \in Present', q = k
        PROVE  \E w \in Called : WroteRow(q, w)'
    BY <1>1, <1>3, <1>11, <2>1 DEF WroteRow, k
  <2>2. ASSUME NEW q \in Present', q # k
        PROVE  \E w \in Called : WroteRow(q, w)'
    <3>1. PICK w \in Called : WroteRow(q, w)
      BY <2>2, <1>11 DEF IInv, StampsKept
    <3> QED
      BY <2>2, <3>1, <1>11 DEF WroteRow
  <2> QED
    BY <1>1, <1>4, <1>11, <2>1, <2>2 DEF IInv, StampsKept
<1>13. ASSUME NEW b \in PackageCalls, pc'[b] = "acked"
       PROVE  RowFollows(b)'
  <2>1. CASE b = c
    BY <2>1, <1>2, <1>3, <1>11 DEF RowFollows, k
  <2>2. CASE b # c
    <3>1. pc[b] = "acked" /\ b \in Called /\ RowFollows(b)
      BY <1>1, <1>13, <2>2 DEF IInv, RowsFollow, Called, Calls
    <3>2. CASE job[b].key # k
      <4>1. OverlapTookRow(job[b].key, b) => OverlapTookRow(job[b].key, b)'
        BY <1>4, <1>11, <3>1, <3>2 DEF OverlapTookRow, Overlap, RowFollows, Called
      <4> QED
        BY <1>11, <3>1, <3>2, <4>1 DEF RowFollows
    <3>3. CASE job[b].key = k /\ job[c].publishedAt >= job[b].publishedAt
      BY <1>3, <1>11, <3>3 DEF RowFollows
    <3>4. CASE job[b].key = k /\ ~(job[c].publishedAt >= job[b].publishedAt)
      <4>1. c \notin endedBefore[b]
        BY <1>1, <3>1 DEF IInv, HistoryKept, Called, Calls
      <4>2. job[b].publishedAt \in Nat /\ job[c].publishedAt \in Nat
        BY <1>1, <1>2, <3>1 DEF IInv, StampsKept
      <4>3. b \notin endedBefore[c]
        BY <1>1, <3>4, <4>2 DEF IInv, StampsKept
      <4>4. OverlapTookRow(job[b].key, b)'
        BY <1>1, <1>3, <1>4, <1>11, <3>4, <4>1, <4>3 DEF OverlapTookRow, Overlap, Called, k
      <4> QED
        BY <1>11, <3>4, <4>4 DEF RowFollows
    <3> QED
      BY <3>2, <3>3, <3>4
  <2> QED
    BY <2>1, <2>2
<1> QED
  BY <1>5, <1>6, <1>8, <1>9, <1>10, <1>12, <1>13 DEF IInv, RowsFollow

LEMMA SaveMovesIInv ==
  ASSUME IInv, NEW c \in PackageCalls, TakeConn(c) \/ RefuseSave(c) \/ FailSave(c)
  PROVE  IInv'
<1>1. PICK step \in {"connected", "busy", "failed"} :
        /\ pc[c] \in {"stamped", "connected"}
        /\ pc' = [pc EXCEPT ![c] = step]
        /\ UNCHANGED <<rows, auditRows, commits, open, at, tx, job, ticks, crashes,
                       endedBefore>>
        /\ writer' = writer \/ (writer = c /\ writer' = Nothing)
        /\ mu' = mu \/ mu' = Release(c, mu)
        /\ conn' = [conn EXCEPT ![at[c]] = c] \/ conn' = Release(c, conn)
  BY DEF TakeConn, RefuseSave, FailSave, Finish, Goto, fileVars
<1>2. c \in Calls /\ c \notin AuditCalls
  BY CallsAssumption DEF Calls
<1>3. writer' = writer
  BY <1>1, <1>2, NothingAssumption DEF IInv, TypeOK, Calls
<1>4. TypeOK'
  BY <1>1, <1>2, <1>3 DEF Release, IInv, TypeOK, Steps, InFlight
<1>5. pc'[c] = step /\ \A b \in Calls : b # c => pc'[b] = pc[b]
  BY <1>1, <1>2 DEF IInv, TypeOK
<1>6. HistoryMoves /\ PackagesQuiet
  BY <1>1, <1>2, <1>5 DEF HistoryMoves, PackagesQuiet, Ended, Answers, Calls
<1>7. Quiet
  BY <1>1, <1>2, <1>3, <1>5, <1>6 DEF Quiet, Calls
<1> QED
  BY <1>4, <1>7, QuietKeeps DEF IInv

(* A crash takes the handle's transaction and its locks with it, and only those. *)
LEMMA CrashIInv ==
  ASSUME IInv, NEW h \in Handles, Crash(h)
  PROVE  IInv'
<1>1. /\ \A c \in Calls : pc'[c] = IF at[c] = h /\ pc[c] \in InFlight THEN "lost" ELSE pc[c]
      /\ pc' \in [Calls -> Steps]
      /\ writer' = IF writer # Nothing /\ at[writer] = h THEN Nothing ELSE writer
      /\ UNCHANGED <<rows, auditRows, commits, at, tx, job, ticks, endedBefore>>
  BY DEF Crash, IInv, TypeOK, Steps
<1>2. TypeOK'
  BY <1>1 DEF Crash, IInv, TypeOK
<1>3. Quiet
  <2>1. ASSUME NEW c \in AuditCalls, pc'[c] = "inserted"
        PROVE  pc[c] = "inserted" /\ writer' = writer
    <3>1. /\ pc[c] = "inserted" /\ at[c] # h
      BY <1>1, <2>1 DEF InFlight, Calls
    <3>2. writer = c
      BY <3>1 DEF IInv, TxCurrent
    <3> QED
      BY <1>1, <3>1, <3>2
  <2>2. \A c \in Calls : pc'[c] # "lost" => pc'[c] = pc[c]
    BY <1>1
  <2>3. \A c \in Calls : pc[c] \in {"committed", "acked", "lost"} =>
          pc'[c] \in {"committed", "acked", "lost"}
    BY <1>1
  <2>4. HistoryMoves
    BY <1>1 DEF HistoryMoves, Ended, Answers, InFlight
  <2>5. PackagesQuiet
    BY <1>1 DEF PackagesQuiet, Calls, InFlight
  <2> QED
    BY <1>1, <2>1, <2>2, <2>3, <2>4, <2>5 DEF Quiet, Calls
<1> QED
  BY <1>1, <1>2, <1>3, QuietKeeps DEF IInv

LEMMA ReopenIInv ==
  ASSUME IInv, NEW h \in Handles, Reopen(h)
  PROVE  IInv'
<1> USE DEF Reopen, fileVars, lockVars
<1>1. TypeOK' /\ Quiet
  BY DEF IInv, TypeOK, Quiet, HistoryMoves, PackagesQuiet, Ended
<1> QED
  BY <1>1, QuietKeeps DEF IInv

LEMMA StutterIInv == IInv /\ UNCHANGED vars => IInv'
<1> SUFFICES ASSUME IInv, UNCHANGED vars PROVE IInv'
  OBVIOUS
<1> USE DEF vars, fileVars, lockVars
<1>1. TypeOK' /\ Quiet
  BY DEF IInv, TypeOK, Quiet, HistoryMoves, PackagesQuiet, Ended
<1> QED
  BY <1>1, QuietKeeps DEF IInv

LEMMA StepIInv == IInv /\ [Next]_vars => IInv'
<1> SUFFICES ASSUME IInv, [Next]_vars PROVE IInv'
  OBVIOUS
<1>1. ASSUME NEW c \in AuditCalls, AuditStep(c) PROVE IInv'
  <2>1. CASE ReturnEnvelope(c) \/ RefuseInsert(c) \/ Cancel(c)
    BY <2>1, FinishQuiet, QuietKeeps DEF IInv
  <2> QED
    BY <1>1, <2>1, LockIInv, ReadLastIInv, InsertIInv, CommitIInv DEF AuditStep
<1>2. ASSUME NEW c \in PackageCalls, SaveStep(c) PROVE IInv'
  BY <1>2, ExecSaveIInv, SaveMovesIInv DEF SaveStep
<1> QED
  BY <1>1, <1>2, CallAuditIInv, CallSaveIInv, CrashIInv, ReopenIInv, StutterIInv
     DEF Next

(* The strengthened invariant is inductive.                                  *)
THEOREM Invariance == Spec => []IInv
  BY InitIInv, StepIInv, PTL DEF Spec

-------------------------------------------------------------------------------
LEMMA IInvImplies == IInv => ChainVerifies /\ AnswersAreTrue /\ ChainFollowsRealTime
<1> SUFFICES ASSUME IInv
             PROVE  ChainVerifies /\ AnswersAreTrue /\ ChainFollowsRealTime
  OBVIOUS
<1>1. PICK n \in Nat : ChainTo(n)
  BY DEF IInv, ChainBuilt
<1>2. ListAuditEnvelopes = [i \in 1..n |-> auditRows[i]]
  BY <1>1, ListIsRows DEF ChainTo
<1>3. ASSUME NEW i \in 1..n
      PROVE  /\ auditRows[i].Sequence = i
             /\ auditRows[i].PreviousHash = HashBefore(auditRows, i)
             /\ SelfConsistent(auditRows[i])
  <2>1. PICK ts \in Nat, r \in AuditCalls :
          auditRows[i] = NewEnvelope(i, ts, HashBefore(auditRows, i), r)
    BY <1>1 DEF ChainTo
  <2> QED
    BY <2>1, EnvelopeFields DEF SelfConsistent
<1>4. ChainVerifies
  <2>1. \A i \in 1..n : i > 1 => i - 1 \in 1..n
    OBVIOUS
  <2>2. \A i \in 1..n : HashBefore(ListAuditEnvelopes, i) = HashBefore(auditRows, i)
    BY <1>2, <2>1 DEF HashBefore
  <2>3. \A i \in 1..n : i > 1 => auditRows[i].Sequence = auditRows[i - 1].Sequence + 1
    BY <1>3, <2>1
  <2> QED
    BY <1>2, <1>3, <2>1, <2>2, <2>3 DEF ChainVerifies, VerifyAuditChain
<1>5. AnswersAreTrue
  BY DEF AnswersAreTrue, IInv, AnswersKept
<1>6. ChainFollowsRealTime
  BY DEF ChainFollowsRealTime, IInv, OrderKept
<1> QED
  BY <1>4, <1>5, <1>6

(* Through any number of handles, failures, crashes and reopenings, the chain   *)
(* in the file is one VerifyAuditChain accepts: the mutexes of the handles do    *)
(* not exclude each other, SQLite's check of the snapshot does.                *)
THEOREM ChainAlwaysVerifies == Spec => []ChainVerifies
  BY Invariance, IInvImplies, PTL

(* What SaveAuditEnvelope returned is in the file for good, and what it failed   *)
(* to save is not.                                                           *)
THEOREM AnswersAlwaysTrue == Spec => []AnswersAreTrue
  BY Invariance, IInvImplies, PTL

(* The order of the chain is an order in which the saves could have run one     *)
(* after the other.                                                          *)
THEOREM ChainAlwaysFollowsRealTime == Spec => []ChainFollowsRealTime
  BY Invariance, IInvImplies, PTL

-------------------------------------------------------------------------------
(* The order of the printed stamps is that of these numbers: the seconds first,  *)
(* then the fraction, in which 'Z' is above every digit and above the dot.       *)
FractionRank(x, y) ==
  IF x = 0 /\ y = 0 THEN 200 ELSE IF y = 0 THEN 20 * x + 15 ELSE 20 * x + y

TextRank(t) == 1000 * Second(t) + FractionRank((t % 100) \div 10, t % 10)

(* An instant, its second and digits, and its text.                           *)
Prints(t, s, x, y) ==
  /\ s \in Nat /\ x \in 0..9 /\ y \in 0..9
  /\ t = 100 * s + 10 * x + y
  /\ Second(t) = s
  /\ TextRank(t) = 1000 * s + FractionRank(x, y)
  /\ RFC3339Nano(t) = IF x = 0 /\ y = 0 THEN <<48 + s, 90>>
                      ELSE IF y = 0 THEN <<48 + s, 46, 48 + x, 90>>
                      ELSE <<48 + s, 46, 48 + x, 48 + y, 90>>

LEMMA InstantPrints ==
  ASSUME NEW t \in Nat
  PROVE  \E s, x, y \in Nat : Prints(t, s, x, y)
<1> DEFINE s == t \div 100
           x == (t % 100) \div 10
           y == t % 10
<1>1. /\ s \in Nat /\ x \in 0..9 /\ y \in 0..9
      /\ t = 100 * s + 10 * x + y
      /\ t % 100 = 10 * x + y
  OBVIOUS
<1>2. (t % 100 = 0) <=> (x = 0 /\ y = 0)
  BY <1>1
<1>3. RFC3339Nano(t) = IF x = 0 /\ y = 0 THEN <<48 + s, 90>>
                       ELSE IF y = 0 THEN <<48 + s, 46, 48 + x, 90>>
                       ELSE <<48 + s, 46, 48 + x, 48 + y, 90>>
  BY <1>2 DEF RFC3339Nano, Second
<1>4. Second(t) = s /\ TextRank(t) = 1000 * s + FractionRank(x, y)
  BY DEF Second, TextRank
<1> HIDE DEF s, x, y
<1>5. Prints(t, s, x, y)
  BY <1>1, <1>3, <1>4 DEF Prints
<1> QED
  BY <1>1, <1>5

LEMMA TextRankIsNat ==
  ASSUME NEW t \in Nat
  PROVE  TextRank(t) \in Nat /\ TextRank(t) <= 1000 * t + 999 /\ Second(t) \in Nat
<1>1. PICK s, x, y \in Nat : Prints(t, s, x, y)
  BY InstantPrints
<1>2. FractionRank(x, y) \in 0..999
  BY <1>1 DEF Prints, FractionRank
<1>3. s <= t
  BY <1>1 DEF Prints
<1> QED
  BY <1>1, <1>2, <1>3 DEF Prints

LEMMA RankBySecond ==
  ASSUME NEW t \in Nat, NEW u \in Nat,
         NEW s, NEW x, NEW y, Prints(t, s, x, y),
         NEW p, NEW q, NEW r, Prints(u, p, q, r)
  PROVE  /\ TextRank(t) < TextRank(u)
             <=> s < p \/ (s = p /\ FractionRank(x, y) < FractionRank(q, r))
         /\ TextRank(t) = TextRank(u)
             <=> s = p /\ FractionRank(x, y) = FractionRank(q, r)
<1> DEFINE f == FractionRank(x, y)
           g == FractionRank(q, r)
<1>1. s \in Nat /\ p \in Nat /\ x \in 0..9 /\ y \in 0..9 /\ q \in 0..9 /\ r \in 0..9
  BY DEF Prints
<1>2. f \in 0..999 /\ g \in 0..999
  <2>1. FractionRank(x, y) \in 0..999
    BY <1>1 DEF FractionRank
  <2>2. FractionRank(q, r) \in 0..999
    BY <1>1 DEF FractionRank
  <2> QED
    BY <2>1, <2>2
<1>3. TextRank(t) = 1000 * s + f /\ TextRank(u) = 1000 * p + g
  BY DEF Prints
<1> HIDE DEF f, g
<1>4. /\ TextRank(t) < TextRank(u) <=> s < p \/ (s = p /\ f < g)
      /\ TextRank(t) = TextRank(u) <=> s = p /\ f = g
  BY <1>1, <1>2, <1>3
<1> QED
  BY <1>4 DEF f, g

(* A text is not below that of a later instant, nor any instant between the two:  *)
(* it is printed shorter than they are.                                        *)
LEMMA OnlyShorterMisleads ==
  ASSUME NEW t \in Nat, NEW u \in Nat, NEW v \in Nat,
         ~(TextRank(t) < TextRank(u)), t < v, v <= u
  PROVE  PrintsShorter(t, v)
<1>1. PICK s, x, y \in Nat : Prints(t, s, x, y)
  BY InstantPrints
<1>2. PICK p, q, r \in Nat : Prints(u, p, q, r)
  BY InstantPrints
<1>3. PICK a, m, n \in Nat : Prints(v, a, m, n)
  BY InstantPrints
<1>4. ~(s < p \/ (s = p /\ FractionRank(x, y) < FractionRank(q, r)))
  BY <1>1, <1>2, RankBySecond
<1>5. /\ x \in 0..9 /\ y \in 0..9 /\ q \in 0..9 /\ r \in 0..9 /\ m \in 0..9 /\ n \in 0..9
      /\ t = 100 * s + 10 * x + y /\ u = 100 * p + 10 * q + r /\ v = 100 * a + 10 * m + n
  BY <1>1, <1>2, <1>3 DEF Prints
<1>6. s = p /\ a = s
  BY <1>4, <1>5
<1>7. 10 * x + y < 10 * m + n /\ 10 * m + n <= 10 * q + r
  BY <1>5, <1>6
<1>8. ~(FractionRank(x, y) < FractionRank(q, r))
  BY <1>4, <1>6
<1>9. \/ x = 0 /\ y = 0 /\ ~(m = 0 /\ n = 0)
      \/ y = 0 /\ x # 0 /\ n # 0
  <2>1. ~(q = 0 /\ r = 0) /\ ~(m = 0 /\ n = 0)
    BY <1>5, <1>7
  <2>2. CASE x = 0 /\ y = 0
    BY <2>1, <2>2
  <2>3. CASE y = 0 /\ x # 0
    <3>1. FractionRank(x, y) = 20 * x + 15
      BY <2>3 DEF FractionRank
    <3>2. q <= x
      <4>1. CASE r = 0
        BY <1>5, <1>8, <2>1, <3>1, <4>1 DEF FractionRank
      <4>2. CASE r # 0
        BY <1>5, <1>8, <3>1, <4>2 DEF FractionRank
      <4> QED
        BY <4>1, <4>2
    <3> QED
      BY <1>5, <1>7, <2>3, <3>2
  <2>4. CASE y # 0
    <3>1. FractionRank(x, y) = 20 * x + y
      BY <2>4 DEF FractionRank
    <3>2. CASE r = 0
      <4>1. FractionRank(q, r) = 20 * q + 15
        BY <2>1, <3>2 DEF FractionRank
      <4> QED
        BY <1>5, <1>7, <1>8, <3>1, <3>2, <4>1
    <3>3. CASE r # 0
      <4>1. FractionRank(q, r) = 20 * q + r
        BY <3>3 DEF FractionRank
      <4> QED
        BY <1>5, <1>7, <1>8, <3>1, <4>1
    <3> QED
      BY <3>2, <3>3
  <2> QED
    BY <2>2, <2>3, <2>4
<1>10. Len(RFC3339Nano(t)) < Len(RFC3339Nano(v))
  <2>2. CASE x = 0 /\ y = 0 /\ ~(m = 0 /\ n = 0)
    <3>1. RFC3339Nano(t) = <<48 + s, 90>>
      BY <1>1, <2>2 DEF Prints
    <3>2. CASE RFC3339Nano(v) = <<48 + a, 46, 48 + m, 90>>
      BY <3>1, <3>2
    <3>3. CASE RFC3339Nano(v) = <<48 + a, 46, 48 + m, 48 + n, 90>>
      BY <3>1, <3>3
    <3> QED
      BY <1>3, <2>2, <3>2, <3>3 DEF Prints
  <2>3. CASE y = 0 /\ x # 0 /\ n # 0
    <3>1. RFC3339Nano(t) = <<48 + s, 46, 48 + x, 90>>
      BY <1>1, <2>3 DEF Prints
    <3>2. RFC3339Nano(v) = <<48 + a, 46, 48 + m, 48 + n, 90>>
      BY <1>3, <2>3 DEF Prints
    <3> QED
      BY <3>1, <3>2
  <2> QED
    BY <1>9, <2>2, <2>3
<1>11. Second(t) = Second(v)
  BY <1>1, <1>3, <1>6 DEF Prints
<1> QED
  BY <1>10, <1>11 DEF PrintsShorter

LEMMA RankIsInjective ==
  ASSUME NEW t \in Nat, NEW u \in Nat, TextRank(t) = TextRank(u)
  PROVE  t = u
<1>1. PICK s, x, y \in Nat : Prints(t, s, x, y)
  BY InstantPrints
<1>2. PICK p, q, r \in Nat : Prints(u, p, q, r)
  BY InstantPrints
<1>3. s = p /\ FractionRank(x, y) = FractionRank(q, r)
  BY <1>1, <1>2, RankBySecond
<1>4. x \in 0..9 /\ y \in 0..9 /\ q \in 0..9 /\ r \in 0..9
  BY <1>1, <1>2 DEF Prints
<1>5. x = q /\ y = r
  BY <1>3, <1>4 DEF FractionRank
<1>6. t = 100 * s + 10 * x + y /\ u = 100 * p + 10 * q + r
  BY <1>1, <1>2 DEF Prints
<1> QED
  BY <1>3, <1>5, <1>6

(* Where two texts part, which is before either ends.                        *)
LEMMA TextOrder ==
  ASSUME NEW t \in Nat, NEW u \in Nat
  PROVE  TextLess(RFC3339Nano(t), RFC3339Nano(u)) <=> TextRank(t) < TextRank(u)
<1> DEFINE a == RFC3339Nano(t)
           b == RFC3339Nano(u)
<1>1. PICK s, x, y \in Nat : Prints(t, s, x, y)
  BY InstantPrints
<1>2. PICK p, q, r \in Nat : Prints(u, p, q, r)
  BY InstantPrints
<1>3. /\ s \in Nat /\ x \in 0..9 /\ y \in 0..9
      /\ p \in Nat /\ q \in 0..9 /\ r \in 0..9
  BY <1>1, <1>2 DEF Prints
<1>4. TextRank(t) < TextRank(u) <=>
        s < p \/ (s = p /\ FractionRank(x, y) < FractionRank(q, r))
  BY <1>1, <1>2, RankBySecond
<1>5. a = IF x = 0 /\ y = 0 THEN <<48 + s, 90>>
          ELSE IF y = 0 THEN <<48 + s, 46, 48 + x, 90>>
          ELSE <<48 + s, 46, 48 + x, 48 + y, 90>>
  BY <1>1 DEF Prints
<1>6. b = IF q = 0 /\ r = 0 THEN <<48 + p, 90>>
          ELSE IF r = 0 THEN <<48 + p, 46, 48 + q, 90>>
          ELSE <<48 + p, 46, 48 + q, 48 + r, 90>>
  BY <1>2 DEF Prints
<1> HIDE DEF a, b
<1>7. /\ DOMAIN a \in {1..2, 1..4, 1..5} /\ DOMAIN b \in {1..2, 1..4, 1..5}
      /\ a[1] = 48 + s /\ b[1] = 48 + p
  BY <1>5, <1>6
<1>8. CASE s # p
  <2>1. TextLess(a, b) => s < p
    <3> SUFFICES ASSUME NEW i \in DOMAIN b,
                        \A j \in 1..(i - 1) : j \in DOMAIN a /\ a[j] = b[j],
                        i \in DOMAIN a => a[i] < b[i]
                 PROVE  s < p
      BY DEF TextLess
    <3>1. i \in Nat /\ i >= 1 /\ 1 \in DOMAIN a
      BY <1>7
    <3>2. i = 1
      BY <3>1, <1>3, <1>7, <1>8
    <3> QED
      BY <3>1, <3>2, <1>3, <1>7
  <2>2. s < p => TextLess(a, b)
    <3>1. 1 \in DOMAIN b /\ 1..(1 - 1) = {}
      BY <1>7
    <3> QED
      BY <3>1, <1>3, <1>7 DEF TextLess
  <2> QED
    BY <1>3, <1>4, <1>8, <2>1, <2>2 DEF a, b
<1>9. CASE s = p
  <2>1. TextLess(a, b) <=> FractionRank(x, y) < FractionRank(q, r)
    <3>1. CASE x = 0 /\ y = 0
      <4>1. a = <<48 + s, 90>> /\ DOMAIN a = 1..2 /\ a[2] = 90
        BY <1>5, <3>1
      <4>2. ~TextLess(a, b)
        <5> SUFFICES ASSUME NEW i \in DOMAIN b,
                            \A j \in 1..(i - 1) : j \in DOMAIN a /\ a[j] = b[j],
                            i \in DOMAIN a => a[i] < b[i]
                     PROVE  FALSE
          BY DEF TextLess
        <5>1. b[2] \in {46, 90} /\ i \in 1..5 /\ (b[2] = 90 => i \in 1..2)
          BY <1>6, <1>3
        <5>2. i # 1 /\ i # 2
          BY <1>3, <1>7, <1>9, <4>1, <5>1
        <5>3. 2 \in 1..(i - 1)
          BY <5>1, <5>2
        <5>4. b[2] = 90
          BY <5>3, <4>1
        <5> QED
          BY <5>1, <5>2, <5>4
      <4>3. ~(FractionRank(x, y) < FractionRank(q, r))
        BY <3>1, <1>3 DEF FractionRank
      <4> QED
        BY <4>2, <4>3
    <3>2. CASE ~(x = 0 /\ y = 0) /\ q = 0 /\ r = 0
      <4>1. b = <<48 + p, 90>> /\ DOMAIN b = 1..2 /\ b[2] = 90
        BY <1>6, <3>2
      <4>2. 2 \in DOMAIN a /\ a[2] = 46 /\ a[1] = b[1] /\ 1 \in DOMAIN a
        BY <1>5, <1>3, <3>2, <1>7, <1>9
      <4>3. TextLess(a, b)
        <5>1. \A j \in 1..(2 - 1) : j = 1
          OBVIOUS
        <5> QED
          BY <4>1, <4>2, <5>1 DEF TextLess
      <4>4. FractionRank(x, y) < FractionRank(q, r)
        BY <3>2, <1>3 DEF FractionRank
      <4> QED
        BY <4>3, <4>4
    <3>3. CASE ~(x = 0 /\ y = 0) /\ ~(q = 0 /\ r = 0)
      <4> DEFINE m == IF y = 0 THEN 90 ELSE 48 + y
                 n == IF r = 0 THEN 90 ELSE 48 + r
      <4>1. /\ DOMAIN a = IF y = 0 THEN 1..4 ELSE 1..5
            /\ a[2] = 46 /\ a[3] = 48 + x /\ a[4] = m
            /\ y # 0 => a[5] = 90
        BY <1>5, <3>3
      <4>2. /\ DOMAIN b = IF r = 0 THEN 1..4 ELSE 1..5
            /\ b[2] = 46 /\ b[3] = 48 + q /\ b[4] = n
            /\ r # 0 => b[5] = 90
        BY <1>6, <3>3
      <4>3. /\ m \in 49..90 /\ n \in 49..90
            /\ m = 90 <=> y = 0
            /\ n = 90 <=> r = 0
        BY <1>3
      <4>4. FractionRank(x, y) < FractionRank(q, r) <=> x < q \/ (x = q /\ m < n)
        BY <1>3, <3>3 DEF FractionRank
      <4> HIDE DEF m, n
      <4>5. /\ 1 \in DOMAIN a /\ 2 \in DOMAIN a /\ 3 \in DOMAIN a /\ 4 \in DOMAIN a
            /\ 1 \in DOMAIN b /\ 2 \in DOMAIN b /\ 3 \in DOMAIN b /\ 4 \in DOMAIN b
            /\ a[1] = b[1] /\ a[2] = b[2]
        BY <4>1, <4>2, <1>7, <1>9
      <4>6. ASSUME NEW i \in DOMAIN b,
                   \A j \in 1..(i - 1) : j \in DOMAIN a /\ a[j] = b[j],
                   i \in DOMAIN a => a[i] < b[i]
            PROVE  x < q \/ (x = q /\ m < n)
        <5>1. i \in 1..5
          BY <4>2
        <5>2. i # 1 /\ i # 2
          <6>1. a[1] \in Nat /\ a[2] \in Nat
            BY <1>3, <1>7, <4>1
          <6>2. ~(a[1] < b[1]) /\ ~(a[2] < b[2])
            BY <6>1, <4>5
          <6> QED
            BY <6>2, <4>5, <4>6
        <5>3. CASE i = 3
          <6>1. a[3] < b[3]
            BY <4>5, <4>6, <5>3
          <6> QED
            BY <6>1, <4>1, <4>2, <1>3
        <5>4. CASE i = 4
          <6>1. 3 \in 1..(i - 1)
            BY <5>4
          <6>2. a[3] = b[3] /\ a[4] < b[4]
            BY <6>1, <5>4, <4>5, <4>6
          <6>3. x = q
            <7>1. a[3] = 48 + x /\ b[3] = 48 + q
              BY <4>1, <4>2
            <7>2. 48 + x = 48 + q
              BY <6>2, <7>1
            <7> QED
              BY <1>3, <7>2
          <6>4. m < n
            BY <6>2, <4>1, <4>2
          <6> QED
            BY <6>3, <6>4
        <5>5. CASE i = 5
          <6>1. 4 \in 1..(i - 1) /\ r # 0
            BY <5>5, <4>2
          <6>2. a[4] = b[4]
            BY <6>1, <4>6
          <6>3. y # 0
            BY <6>1, <6>2, <4>1, <4>2, <4>3
          <6>4. 5 \in DOMAIN a /\ a[5] = 90 /\ b[5] = 90
            BY <6>1, <6>3, <4>1, <4>2
          <6>5. a[5] < b[5]
            BY <6>4, <5>5, <4>6
          <6> QED
            BY <6>4, <6>5
        <5> QED
          BY <5>1, <5>2, <5>3, <5>4, <5>5
      <4>7. ASSUME x < q PROVE TextLess(a, b)
        <5>1. \A j \in 1..(3 - 1) : j = 1 \/ j = 2
          OBVIOUS
        <5>2. a[3] < b[3]
          BY <4>1, <4>2, <4>7, <1>3
        <5> QED
          BY <5>1, <5>2, <4>5 DEF TextLess
      <4>8. ASSUME x = q, m < n PROVE TextLess(a, b)
        <5>1. \A j \in 1..(4 - 1) : j = 1 \/ j = 2 \/ j = 3
          OBVIOUS
        <5>2. a[3] = b[3] /\ a[4] < b[4]
          BY <4>1, <4>2, <4>8, <1>3
        <5> QED
          BY <5>1, <5>2, <4>5 DEF TextLess
      <4> QED
        BY <4>4, <4>6, <4>7, <4>8 DEF TextLess
    <3> QED
      BY <3>1, <3>2, <3>3
  <2> QED
    BY <1>3, <1>4, <1>9, <2>1 DEF a, b
<1> QED
  BY <1>8, <1>9

LEMMA HasGreatest ==
  ASSUME NEW S \in SUBSET Nat, S # {}, NEW n \in Nat, \A i \in S : i <= n
  PROVE  \E m \in S : \A i \in S : i <= m
<1> DEFINE T == {n - i : i \in S}
<1>1. T \subseteq Nat /\ T # {}
  <2>1. \A i \in S : n - i \in Nat
    OBVIOUS
  <2>2. PICK i \in S : TRUE
    OBVIOUS
  <2>3. n - i \in T
    OBVIOUS
  <2> QED
    BY <2>1, <2>3
<1>2. PICK d \in T : \A e \in T : ~(<<e, d>> \in OpToRel(<, Nat))
  BY <1>1, NatLessThanWellFounded, WFMin, Zenon
<1>3. \A e \in T : ~(e < d)
  BY <1>1, <1>2 DEF OpToRel
<1>4. PICK m \in S : d = n - m
  OBVIOUS
<1>5. \A i \in S : ~(n - i < n - m)
  BY <1>3, <1>4
<1> QED
  BY <1>5

(* What ORDER BY published_at DESC LIMIT 1 answers: a row of the slot whose       *)
(* stamp no other is above.                                                  *)
RankOf(k) == TextRank(rows[k].publishedAt)

IsLatest(k, s) == k \in RowKeys(s) /\ \A q \in RowKeys(s) : ~(RankOf(k) < RankOf(q))

LEMMA StampsOfRows ==
  ASSUME IInv
  PROVE  /\ \A k \in Present : rows[k].publishedAt \in Nat
         /\ \A k, q \in Present : rows[k].publishedAt = rows[q].publishedAt => k = q
         /\ \E n \in Nat : \A k \in Present : rows[k].publishedAt <= n
<1>1. \A k \in Present : rows[k].publishedAt \in Nat
  BY DEF Present, IInv, TypeOK
<1>2. ASSUME NEW k \in Present, NEW q \in Present,
             rows[k].publishedAt = rows[q].publishedAt
      PROVE  k = q
  <2>1. PICK v \in Called : WroteRow(k, v)
    BY DEF IInv, StampsKept
  <2>2. PICK w \in Called : WroteRow(q, w)
    BY DEF IInv, StampsKept
  <2>3. v = w
    BY <1>2, <2>1, <2>2 DEF IInv, StampsKept, WroteRow
  <2> QED
    BY <2>1, <2>2, <2>3 DEF WroteRow
<1>3. \E n \in Nat : \A k \in Present : rows[k].publishedAt <= n
  <2>1. /\ ticks \in Nat /\ \A i \in 1..ticks : i \in DOMAIN Clock
        /\ \A i \in DOMAIN Clock : Clock[i] \in Nat
    BY ClockAssumption DEF IInv, TypeOK
  <2>2. \A k \in Present : \E i \in 1..ticks : rows[k].publishedAt = Clock[i]
    <3> TAKE k \in Present
    <3>1. PICK w \in Called : WroteRow(k, w)
      BY DEF IInv, StampsKept
    <3>2. job[w].publishedAt \in Past
      BY DEF IInv, StampsKept
    <3> QED
      BY <3>1, <3>2 DEF WroteRow, Past
  <2>3. CASE ticks = 0
    BY <2>2, <2>3
  <2>4. CASE ticks # 0
    <3>1. ticks \in DOMAIN Clock /\ Clock[ticks] \in Nat
      BY <2>1, <2>4
    <3>2. \A i \in 1..ticks : Clock[i] <= Clock[ticks]
      <4> TAKE i \in 1..ticks
      <4>1. i = ticks \/ i < ticks
        BY <2>1
      <4>2. i < ticks => Clock[i] < Clock[ticks]
        BY <2>1, <3>1, ClockAssumption
      <4> QED
        BY <2>1, <3>1, <4>1, <4>2
    <3> QED
      BY <2>2, <3>1, <3>2
  <2> QED
    BY <2>3, <2>4
<1> QED
  BY <1>1, <1>2, <1>3

LEMMA RanksOfRows ==
  ASSUME IInv
  PROVE  /\ \A k \in Present : RankOf(k) \in Nat
         /\ \A k, q \in Present : RankOf(k) = RankOf(q) => k = q
         /\ \E n \in Nat : \A k \in Present : RankOf(k) <= n
<1>1. ASSUME NEW k \in Present
      PROVE  /\ rows[k].publishedAt \in Nat /\ RankOf(k) \in Nat
             /\ RankOf(k) <= 1000 * rows[k].publishedAt + 999
  BY StampsOfRows, TextRankIsNat DEF RankOf
<1>2. ASSUME NEW k \in Present, NEW q \in Present, RankOf(k) = RankOf(q)
      PROVE  k = q
  <2>1. rows[k].publishedAt = rows[q].publishedAt
    BY <1>1, <1>2, RankIsInjective DEF RankOf
  <2> QED
    BY <2>1, StampsOfRows
<1>3. PICK n \in Nat : \A k \in Present : rows[k].publishedAt <= n
  BY StampsOfRows
<1>4. ASSUME NEW k \in Present PROVE RankOf(k) <= 1000 * n + 999
  BY <1>1, <1>3
<1> QED
  BY <1>1, <1>2, <1>4

LEMMA LatestExists ==
  ASSUME IInv, NEW s, RowKeys(s) # {}
  PROVE  IsLatest(LatestKey(s), s)
<1>1. RowKeys(s) \subseteq Present
  BY DEF RowKeys, Present
<1> DEFINE ranks == {RankOf(k) : k \in RowKeys(s)}
<1>2. PICK n \in Nat : \A k \in Present : RankOf(k) <= n
  BY RanksOfRows
<1>3. \A k \in RowKeys(s) : RankOf(k) \in Nat
  BY <1>1, RanksOfRows
<1>4. ranks \in SUBSET Nat /\ ranks # {} /\ \A i \in ranks : i <= n
  BY <1>1, <1>2, <1>3
<1>5. PICK m \in ranks : \A i \in ranks : i <= m
  <2> HIDE DEF ranks
  <2> QED
    BY <1>4, HasGreatest
<1>6. PICK k0 \in RowKeys(s) : RankOf(k0) = m
  OBVIOUS
<1>7. \A q \in RowKeys(s) : ~(RankOf(k0) < RankOf(q))
  BY <1>3, <1>5, <1>6
<1>8. ASSUME NEW k \in RowKeys(s), NEW q \in RowKeys(s)
      PROVE  TextLess(RFC3339Nano(rows[k].publishedAt), RFC3339Nano(rows[q].publishedAt))
               <=> RankOf(k) < RankOf(q)
  <2>1. rows[k].publishedAt \in Nat /\ rows[q].publishedAt \in Nat
    BY <1>1, StampsOfRows
  <2> QED
    BY <2>1, TextOrder DEF RankOf
<1>9. \A q \in RowKeys(s) : ~TextLess(RFC3339Nano(rows[k0].publishedAt),
                                      RFC3339Nano(rows[q].publishedAt))
  BY <1>7, <1>8
<1>10. /\ LatestKey(s) \in RowKeys(s)
       /\ \A q \in RowKeys(s) : ~TextLess(RFC3339Nano(rows[LatestKey(s)].publishedAt),
                                          RFC3339Nano(rows[q].publishedAt))
  BY <1>9 DEF LatestKey
<1> QED
  BY <1>8, <1>10 DEF IsLatest

LEMMA LatestUnique ==
  ASSUME IInv, NEW s, NEW k, IsLatest(k, s)
  PROVE  LatestKey(s) = k
<1>1. IsLatest(LatestKey(s), s)
  BY LatestExists DEF IsLatest
<1>2. k \in Present /\ LatestKey(s) \in Present
  BY <1>1 DEF IsLatest, RowKeys, Present
<1>3. RankOf(k) \in Nat /\ RankOf(LatestKey(s)) \in Nat
  BY <1>2, RanksOfRows
<1>4. ~(RankOf(k) < RankOf(LatestKey(s))) /\ ~(RankOf(LatestKey(s)) < RankOf(k))
  BY <1>1 DEF IsLatest
<1>5. RankOf(k) = RankOf(LatestKey(s))
  BY <1>3, <1>4
<1> QED
  BY <1>2, <1>5, RanksOfRows

LEMMA IInvLatest == IInv => LatestFollowsSaves
<1> SUFFICES ASSUME IInv, NEW c \in PackageCalls, pc[c] = "acked",
                    ~OverlapTookRow(job[c].key, c)
             PROVE  LET latest == rows[LatestKey(SlotOf(job[c].key))].publishedAt
                    IN  \/ latest >= job[c].publishedAt
                        \/ PrintsShorter(latest, job[c].publishedAt)
  BY DEF LatestFollowsSaves
<1> DEFINE k == job[c].key
           latest == LatestKey(SlotOf(k))
<1>1. k \in Present /\ rows[k].publishedAt >= job[c].publishedAt
  BY DEF IInv, RowsFollow, RowFollows
<1>2. k \in RowKeys(SlotOf(k))
  BY <1>1 DEF Present, RowKeys
<1>3. latest \in RowKeys(SlotOf(k)) /\ ~(RankOf(latest) < RankOf(k))
  BY <1>2, LatestExists DEF IsLatest
<1>4. latest \in Present
  BY <1>3 DEF RowKeys, Present
<1>5. /\ rows[k].publishedAt \in Nat /\ rows[latest].publishedAt \in Nat
      /\ job[c].publishedAt \in Nat
  <2>1. job[c].publishedAt \in Past
    BY DEF IInv, StampsKept, Called
  <2>2. \A i \in 1..ticks : Clock[i] \in Nat
    BY ClockAssumption DEF IInv, TypeOK
  <2> QED
    BY <1>1, <1>4, <2>1, <2>2, StampsOfRows DEF Past
<1>6. ASSUME rows[latest].publishedAt < job[c].publishedAt
      PROVE  PrintsShorter(rows[latest].publishedAt, job[c].publishedAt)
  <2>1. ~(TextRank(rows[latest].publishedAt) < TextRank(rows[k].publishedAt))
    BY <1>3 DEF RankOf
  <2>2. job[c].publishedAt <= rows[k].publishedAt
    BY <1>1, <1>5
  <2> HIDE DEF latest, k
  <2> QED
    BY <1>5, <1>6, <2>1, <2>2, OnlyShorterMisleads
<1> QED
  BY <1>5, <1>6

(* For every clock, and however saves overlap, fail and crash: the latest package  *)
(* was published before no acknowledged save whose row no overlapping save took,   *)
(* except by a stamp of the same second that lost its trailing zeros.            *)
THEOREM LatestAlwaysFollowsSaves == Spec => []LatestFollowsSaves
  BY Invariance, IInvLatest, PTL

-------------------------------------------------------------------------------
(* The refinement, whatever the clock and however saves overlap.              *)
(* What the refinement mapping shows of the file.                            *)
Saved == [k \in Keys |-> IF rows[k] = Nothing THEN Nothing ELSE rows[k].digest]
LastSaved == [s \in Slots |-> LatestKey(s)]
Trail == [i \in DOMAIN ListAuditEnvelopes |-> ListAuditEnvelopes[i].Record]

TrailIsRecords ==
  \A n \in Nat : DOMAIN auditRows = 1..n =>
    Trail = [i \in 1..n |-> auditRows[i].Record]

LEMMA TrailOfChain == TrailIsRecords
<1> SUFFICES ASSUME NEW n \in Nat, DOMAIN auditRows = 1..n
             PROVE  Trail = [i \in 1..n |-> auditRows[i].Record]
  BY DEF TrailIsRecords
<1>1. ListAuditEnvelopes = [i \in 1..n |-> auditRows[i]]
  BY ListIsRows
<1> QED
  BY <1>1 DEF Trail

LEMMA InitRefines == Init => Abstract!Init
<1> SUFFICES ASSUME Init PROVE Abstract!Init
  OBVIOUS
<1>1. Saved = [k \in Keys |-> Nothing]
  BY DEF Init, Saved
<1>2. LastSaved = [s \in Slots |-> Nothing]
  BY DEF Init, LastSaved, LatestKey, RowKeys
<1>3. Trail = <<>>
  <2>1. DOMAIN auditRows = 1..0 /\ 0 \in Nat
    BY DEF Init
  <2>2. Trail = [i \in 1..0 |-> auditRows[i].Record]
    BY <2>1, TrailOfChain DEF TrailIsRecords
  <2> QED
    BY <2>2
<1> QED
  BY <1>1, <1>2, <1>3
     DEF Abstract!Init, Abstract!Keys, Keys, Slots, Saved, LastSaved, Trail

(* A commit appends the call to the trail.                                    *)
LEMMA CommitRefines ==
  ASSUME IInv, NEW c \in AuditCalls, Commit(c)
  PROVE  Abstract!SaveAuditEnvelope(c)
<1> DEFINE e == tx[c].envelope
<1>1. PICK n \in Nat : ChainTo(n)
  BY DEF IInv, ChainBuilt
<1>2. LastSequence = n
  BY <1>1, LastOfChain DEF ChainTo
<1>3. \E ts \in Nat : e = NewEnvelope(n + 1, ts, LastHash, c)
  BY <1>2 DEF Commit, IInv, TxCurrent
<1>4. e.Sequence = n + 1 /\ e.Record = c
  BY <1>3, EnvelopeFields
<1>5. /\ DOMAIN auditRows = 1..n /\ DOMAIN auditRows' = 1..(n + 1)
      /\ auditRows'[n + 1] = e
      /\ \A i \in 1..n : auditRows'[i] = auditRows[i]
  BY <1>1, <1>4 DEF Commit, PutRow, ChainTo
<1> HIDE DEF e
<1>6. Trail = [i \in 1..n |-> auditRows[i].Record]
  BY <1>5, TrailOfChain DEF TrailIsRecords
<1>7. Trail' = [i \in 1..(n + 1) |-> auditRows'[i].Record]
  <2>1. TrailIsRecords'
    BY TrailOfChain, PTL
  <2> QED
    BY <2>1, <1>5 DEF TrailIsRecords
<1>8. Trail \in Seq(AuditCalls) /\ Len(Trail) = n
  <2>1. \A i \in 1..n : auditRows[i].Record \in AuditCalls
    BY <1>1, EnvelopeFields DEF ChainTo
  <2> QED
    BY <2>1, <1>6
<1>9. Trail' = Append(Trail, c)
  <2> DEFINE longer == Append(Trail, c)
  <2>1. /\ longer \in Seq(AuditCalls) /\ Len(longer) = n + 1
        /\ \A i \in 1..n : longer[i] = Trail[i]
        /\ longer[n + 1] = c
    BY <1>8, AppendProperties
  <2> HIDE DEF longer
  <2>2. \A i \in 1..(n + 1) : Trail'[i] = longer[i]
    BY <1>4, <1>5, <1>6, <1>7, <2>1
  <2>3. Trail' \in Seq(AuditCalls) /\ Len(Trail') = n + 1
    <3>1. \A i \in 1..(n + 1) : Trail'[i] \in AuditCalls
      <4>1. \A i \in 1..(n + 1) : longer[i] \in AuditCalls
        BY <2>1
      <4> QED
        BY <4>1, <2>2
    <3> QED
      BY <3>1, <1>7
  <2>4. Trail' = longer
    BY <2>1, <2>2, <2>3, SeqEqual
  <2> QED
    BY <2>4 DEF longer
<1>10. rows' = rows
  BY DEF Commit
<1>11. Saved' = Saved /\ LastSaved' = LastSaved
  BY <1>10 DEF Saved, LastSaved, LatestKey, RowKeys
<1> QED
  BY <1>9, <1>11 DEF Abstract!SaveAuditEnvelope, Saved, LastSaved, Trail

LatestIsRight ==
  \A s \in Slots : RowKeys(s) # {} => LatestKey(s) \in Keys /\ IsLatest(LatestKey(s), s)

LatestIsOne == \A s \in Slots, k \in Keys : IsLatest(k, s) => LatestKey(s) = k

LEMMA LatestSettled == IInv => LatestIsRight /\ LatestIsOne
<1> SUFFICES ASSUME IInv PROVE LatestIsRight /\ LatestIsOne
  OBVIOUS
<1>1. ASSUME NEW s \in Slots, RowKeys(s) # {}
      PROVE  LatestKey(s) \in Keys /\ IsLatest(LatestKey(s), s)
  BY <1>1, LatestExists DEF IsLatest, RowKeys
<1> QED
  BY <1>1, LatestUnique DEF LatestIsRight, LatestIsOne

(* Rows that keep their stamps keep their order, and their ranks.                *)
LEMMA RanksStay ==
  ASSUME NEW q, rows'[q] = rows[q]
  PROVE  RankOf(q)' = RankOf(q)
  BY DEF RankOf, TextRank, Second

(* Writing a row moves the latest of its slot to it or leaves it where it was,     *)
(* unless it was the latest itself that was written; no other slot sees it.       *)
LEMMA ExecSaveRefines ==
  ASSUME IInv, IInv', NEW c \in PackageCalls,
         NEW answer \in {"acked", "failed"}, ExecSave(c, answer),
         NEW k \in Keys, k = job[c].key, NEW d \in Digests, d = job[c].digest
  PROVE  Abstract!SavePackageLate(k, d)
<1> DEFINE row == [digest |-> d, publishedAt |-> job[c].publishedAt]
           slot == <<k.name, k.environment>>
<1>1. c \in Called
  BY DEF ExecSave, Called
<1>2. row \in [digest : Digests, publishedAt : Past]
  BY <1>1 DEF IInv, StampsKept
<1>3. row # Nothing /\ row.digest = d
  <2>1. \A t \in Past : t \in Nat
    BY ClockAssumption DEF Past, IInv, TypeOK
  <2> QED
    BY <1>2, <2>1, NothingAssumption
<1>5. rows' = [rows EXCEPT ![k] = row] /\ auditRows' = auditRows
  BY DEF ExecSave, WriteRow
<1> HIDE DEF row
<1>6. /\ rows'[k] = row /\ \A q \in Keys : q # k => rows'[q] = rows[q]
      /\ DOMAIN rows' = Keys /\ DOMAIN rows = Keys
  BY <1>2, <1>5 DEF IInv, TypeOK
<1>7. Saved' = [Saved EXCEPT ![k] = d]
  BY <1>2, <1>3, <1>6 DEF Saved
<1>8. Trail' = Trail
  BY <1>5 DEF Trail, ListAuditEnvelopes
<1>9. slot \in Slots /\ k \in RowKeys(slot)'
  BY <1>2, <1>3, <1>6 DEF Slots, Keys, RowKeys, SlotOf
<1>10. /\ LatestIsRight /\ LatestIsOne
       /\ LatestIsRight' /\ LatestIsOne'
  <2>1. (IInv => LatestIsRight /\ LatestIsOne)'
    BY LatestSettled, PTL
  <2> QED
    BY <2>1, LatestSettled
<1>11. \A q \in Keys : q # k => RankOf(q)' = RankOf(q)
  BY <1>6, RanksStay
<1>12. ASSUME NEW s \in Slots, s # slot PROVE LatestKey(s)' = LatestKey(s)
  <2>1. RowKeys(s)' = RowKeys(s) /\ k \notin RowKeys(s)
    BY <1>6, <1>12 DEF RowKeys, SlotOf
  <2>2. CASE RowKeys(s) = {}
    BY <2>1, <2>2 DEF LatestKey
  <2>3. CASE RowKeys(s) # {}
    <3>1. PICK q \in Keys : q = LatestKey(s) /\ IsLatest(q, s)
      BY <2>3, <1>10 DEF LatestIsRight
    <3>2. IsLatest(q, s)'
      BY <2>1, <3>1, <1>11 DEF IsLatest, RowKeys
    <3> QED
      BY <3>1, <3>2, <1>10 DEF LatestIsOne
  <2> QED
    BY <2>2, <2>3
<1>13. PICK q \in Keys : q = LatestKey(slot)' /\ IsLatest(q, slot)'
  BY <1>9, <1>10 DEF LatestIsRight
<1>14. rows'[q] # Nothing /\ <<q.name, q.environment>> = slot /\ q \in RowKeys(slot)'
  BY <1>13 DEF IsLatest, RowKeys, SlotOf
<1>15. ASSUME LatestKey(slot) # k, q # k PROVE q = LatestKey(slot)
  <2>1. q \in RowKeys(slot)
    BY <1>6, <1>14, <1>15 DEF RowKeys, SlotOf
  <2>2. PICK b \in Keys : b = LatestKey(slot) /\ IsLatest(b, slot)
    BY <2>1, <1>9, <1>10 DEF LatestIsRight
  <2>3. b # k /\ b \in RowKeys(slot) /\ b \in RowKeys(slot)'
    BY <2>2, <1>6, <1>15 DEF IsLatest, RowKeys
  <2>4. ~(RankOf(b) < RankOf(q)) /\ ~(RankOf(q) < RankOf(b))
    BY <2>1, <2>2, <2>3, <1>11, <1>13, <1>15 DEF IsLatest
  <2>5. b \in Present /\ q \in Present
    BY <2>1, <2>3 DEF RowKeys, Present
  <2>6. RankOf(b) \in Nat /\ RankOf(q) \in Nat
    BY <2>5, RanksOfRows
  <2> QED
    BY <2>2, <2>4, <2>5, <2>6, RanksOfRows
<1>16. LastSaved' = [LastSaved EXCEPT ![slot] = q]
  BY <1>9, <1>12, <1>13 DEF LastSaved
<1>17. Saved'[q] # Nothing
  <2>1. rows' \in [Keys -> [digest : Digests, publishedAt : Nat] \cup {Nothing}]
    BY DEF IInv, TypeOK
  <2> QED
    BY <2>1, <1>14, NothingAssumption DEF Saved
<1>18. LastSaved[slot] # k => q \in {k, LastSaved[slot]}
  BY <1>9, <1>15 DEF LastSaved
<1> HIDE DEF slot
<1>19. /\ Saved'[q] # Nothing /\ <<q.name, q.environment>> = slot
       /\ LastSaved[slot] # k => q \in {k, LastSaved[slot]}
       /\ LastSaved' = [LastSaved EXCEPT ![slot] = q]
  BY <1>14, <1>16, <1>17, <1>18
<1> QED
  BY <1>7, <1>8, <1>19
     DEF Abstract!SavePackageLate, Abstract!Keys, Keys, Saved, LastSaved, Trail, slot

(* Every other step leaves the three abstract variables alone.                *)
LEMMA FileUnchanged ==
  ASSUME UNCHANGED <<rows, auditRows>>
  PROVE  UNCHANGED Abstract!storeVars
<1>1. Saved' = Saved /\ LastSaved' = LastSaved /\ Trail' = Trail
  BY DEF Saved, LastSaved, Trail, LatestKey, RowKeys, ListAuditEnvelopes
<1> QED
  BY <1>1 DEF Abstract!storeVars, Saved, LastSaved, Trail

LEMMA StepRefines ==
  ASSUME IInv, IInv', [Next]_vars
  PROVE  [Abstract!LateNext]_(Abstract!storeVars)
<1>1. ASSUME UNCHANGED <<rows, auditRows>> PROVE UNCHANGED Abstract!storeVars
  BY <1>1, FileUnchanged
<1>2. ASSUME NEW c \in AuditCalls, AuditStep(c)
      PROVE  Commit(c) \/ UNCHANGED <<rows, auditRows>>
  BY <1>2 DEF AuditStep, Lock, BeginTx, ReadLast, Insert, ReturnEnvelope, RefuseInsert,
              Cancel, Finish, fileVars
<1>3. ASSUME NEW c \in AuditCalls, Commit(c) PROVE Abstract!LateNext
  BY <1>3, CommitRefines DEF Abstract!LateNext
<1>4. ASSUME NEW c \in PackageCalls, NEW answer \in {"acked", "failed"}, ExecSave(c, answer)
      PROVE  Abstract!LateNext
  <2>1. job[c].key \in Keys /\ job[c].digest \in Digests
    BY <1>4 DEF ExecSave, IInv, StampsKept, Called
  <2>2. PICK k \in Keys, d \in Digests : k = job[c].key /\ d = job[c].digest
    BY <2>1
  <2>3. Abstract!SavePackageLate(k, d)
    BY <1>4, <2>2, ExecSaveRefines
  <2> QED
    BY <2>3 DEF Abstract!LateNext, Abstract!Keys, Keys
<1>5. ASSUME NEW c \in PackageCalls, SaveStep(c)
      PROVE  \/ UNCHANGED <<rows, auditRows>>
             \/ \E answer \in {"acked", "failed"} : ExecSave(c, answer)
  BY <1>5 DEF SaveStep, TakeConn, RefuseSave, FailSave, Finish, fileVars
<1>6. ASSUME \/ \E c \in AuditCalls, h \in Handles : CallAudit(c, h)
             \/ \E c \in PackageCalls, h \in Handles, k \in Keys, d \in Digests :
                  CallSave(c, h, k, d)
             \/ \E h \in Handles : Crash(h) \/ Reopen(h)
             \/ UNCHANGED vars
      PROVE  UNCHANGED <<rows, auditRows>>
  BY <1>6 DEF CallAudit, CallSave, Crash, Reopen, vars, fileVars
<1> QED
  BY <1>1, <1>2, <1>3, <1>4, <1>5, <1>6 DEF Next

(* The file implements the store in which a save may come in late, for every      *)
(* clock and any number of saves under way: what is committed is one envelope     *)
(* appended or one package saved, whatever else goes on is a stutter, and nothing *)
(* committed is undone by a crash.                                            *)
THEOREM Refinement == Spec => ImplementsLateStore
<1>1. Init => Abstract!Init
  BY InitRefines
<1>2. IInv /\ IInv' /\ [Next]_vars => [Abstract!LateNext]_(Abstract!storeVars)
  BY StepRefines
<1> QED
  BY <1>1, <1>2, Invariance, PTL DEF Spec, ImplementsLateStore, Abstract!LateSpec

-------------------------------------------------------------------------------
(* SQLITE_BUSY.  A call at work on the file has its handle's one connection, so    *)
(* two such calls are on two handles; only a call whose row is inserted has the    *)
(* write lock; and what was committed since a call read the last row was           *)
(* committed by a call of another handle that had not ended when it began.        *)
AtWork == {"begun", "read", "inserted", "committed", "connected"}

OthersOverlap(c) == \E d \in Calls \ endedBefore[c] : at[d] \notin {Nothing, at[c]}

AtKept ==
  \A c \in Calls : IF pc[c] = "idle" THEN at[c] = Nothing ELSE at[c] \in Handles
ConnKept == \A c \in Calls : pc[c] \in AtWork => conn[at[c]] = c
WriterKept == writer # Nothing => pc[writer] = "inserted"
OthersCommitted ==
  \A c \in AuditCalls :
    pc[c] = "read" /\ tx[c].snapshot # commits => OthersOverlap(c)

BusyInv == AtKept /\ ConnKept /\ WriterKept /\ OthersCommitted

LEMMA InitBusyInv == Init => BusyInv
  BY DEF Init, BusyInv, AtKept, ConnKept, WriterKept, OthersCommitted, AtWork, Calls

(* Two calls at work are on two handles and overlap.                          *)
LEMMA TwoAtWork ==
  ASSUME IInv, BusyInv, NEW c \in Calls, NEW d \in Calls, c # d,
         pc[c] \in AtWork, pc[d] \in AtWork
  PROVE  OthersOverlap(c)
<1>1. conn[at[c]] = c /\ conn[at[d]] = d
  BY DEF BusyInv, ConnKept
<1>2. at[d] \in Handles /\ at[d] # at[c]
  BY <1>1 DEF BusyInv, AtKept, AtWork
<1>3. d \notin endedBefore[c]
  BY DEF IInv, HistoryKept, Ended, Answers, AtWork
<1> QED
  BY <1>2, <1>3, NothingAssumption DEF OthersOverlap

(* A call begins: nobody else is touched.                                     *)
LEMMA CallBusyInv ==
  ASSUME IInv, BusyInv, NEW c \in Calls, NEW h \in Handles,
         NEW step \in {"called", "stamped"},
         pc[c] = "idle", pc' = [pc EXCEPT ![c] = step], at' = [at EXCEPT ![c] = h],
         endedBefore' = [endedBefore EXCEPT ![c] = Ended],
         UNCHANGED <<conn, writer, commits, tx>>
  PROVE  BusyInv'
<1>1. /\ pc'[c] = step /\ at'[c] = h
      /\ \A d \in Calls : d # c => /\ pc'[d] = pc[d] /\ at'[d] = at[d]
                                   /\ endedBefore'[d] = endedBefore[d]
  BY DEF IInv, TypeOK
<1>2. AtKept'
  BY <1>1 DEF BusyInv, AtKept
<1>3. ConnKept'
  BY <1>1 DEF BusyInv, ConnKept, AtWork
<1>4. WriterKept'
  BY <1>1 DEF BusyInv, WriterKept, IInv, TypeOK, Calls
<1>5. ASSUME NEW b \in AuditCalls, pc'[b] = "read", tx'[b].snapshot # commits'
      PROVE  OthersOverlap(b)'
  <2>1. b \in Calls /\ b # c
    BY <1>1, <1>5 DEF Calls
  <2>2. PICK d \in Calls \ endedBefore[b] : at[d] \notin {Nothing, at[b]}
    BY <1>1, <1>5, <2>1 DEF BusyInv, OthersCommitted, OthersOverlap
  <2>3. d # c
    BY <2>2 DEF BusyInv, AtKept
  <2> QED
    BY <1>1, <2>1, <2>2, <2>3 DEF OthersOverlap
<1> QED
  BY <1>2, <1>3, <1>4, <1>5 DEF BusyInv, OthersCommitted

(* What is left to show when calls move that have begun.                        *)
LEMMA MoveBusyInv ==
  ASSUME IInv, BusyInv, UNCHANGED <<at, endedBefore>>,
         \A c \in Calls : pc'[c] = "idle" <=> pc[c] = "idle",
         ConnKept', WriterKept',
         \A c \in AuditCalls : pc'[c] = "read" /\ tx'[c].snapshot # commits' =>
           OthersOverlap(c) \/ (pc[c] = "read" /\ tx[c].snapshot # commits)
  PROVE  BusyInv'
<1>1. AtKept'
  BY DEF BusyInv, AtKept
<1>2. \A c \in AuditCalls : OthersOverlap(c) => OthersOverlap(c)'
  BY DEF OthersOverlap
<1>3. OthersCommitted'
  BY <1>2 DEF BusyInv, OthersCommitted
<1> QED
  BY <1>1, <1>3 DEF BusyInv

(* A call gets its handle's connection.                                       *)
LEMMA TakeBusyInv ==
  ASSUME IInv, BusyInv, NEW c \in Calls, NEW step \in {"begun", "connected"},
         pc[c] \in {"locked", "stamped"}, conn[at[c]] = Nothing,
         pc' = [pc EXCEPT ![c] = step], conn' = [conn EXCEPT ![at[c]] = c],
         UNCHANGED <<at, endedBefore, writer, commits, tx>>
  PROVE  BusyInv'
<1>1. pc'[c] = step /\ \A d \in Calls : d # c => pc'[d] = pc[d]
  BY DEF IInv, TypeOK
<1>2. at[c] \in Handles
  BY DEF BusyInv, AtKept
<1>3. ASSUME NEW d \in Calls, pc'[d] \in AtWork PROVE conn'[at'[d]] = d
  <2>1. CASE d = c
    BY <1>2, <2>1 DEF IInv, TypeOK
  <2>2. CASE d # c
    <3>1. pc[d] \in AtWork /\ at[d] \in Handles /\ conn[at[d]] = d /\ d # Nothing
      BY <1>1, <1>3, <2>2, NothingAssumption DEF BusyInv, ConnKept, AtKept, AtWork
    <3> QED
      BY <3>1 DEF IInv, TypeOK
  <2> QED
    BY <2>1, <2>2
<1>4. WriterKept'
  BY <1>1 DEF BusyInv, WriterKept, IInv, TypeOK, Calls
<1> QED
  BY <1>1, <1>3, <1>4, MoveBusyInv DEF ConnKept, Calls

(* A call at work takes a step that leaves it at work.                          *)
LEMMA WorkBusyInv ==
  ASSUME IInv, BusyInv, NEW c \in AuditCalls, Lock(c) \/ ReadLast(c) \/ Insert(c) \/ Commit(c)
  PROVE  BusyInv'
<1>1. /\ c \in Calls /\ c # Nothing
      /\ \A d \in Calls : d # c => pc'[d] = pc[d]
      /\ UNCHANGED <<at, endedBefore, conn>>
  BY NothingAssumption
     DEF Lock, ReadLast, Insert, Commit, Goto, lockVars, IInv, TypeOK, Calls
<1>2. /\ pc'[c] \in {"locked", "read", "inserted", "committed"}
      /\ pc[c] \in {"called", "begun", "read", "inserted"}
      /\ pc'[c] \in AtWork => pc[c] \in AtWork
  BY DEF Lock, ReadLast, Insert, Commit, Goto, IInv, TypeOK, Calls, AtWork
<1>3. ConnKept'
  BY <1>1, <1>2 DEF BusyInv, ConnKept
<1>4. WriterKept'
  <2>1. CASE Insert(c)
    BY <2>1 DEF Insert, Goto, WriterKept, IInv, TypeOK, Calls
  <2>2. CASE Commit(c)
    BY <2>2 DEF Commit, WriterKept
  <2>3. CASE Lock(c) \/ ReadLast(c)
    <3>1. writer' = writer /\ pc[c] # "inserted"
      BY <2>3 DEF Lock, ReadLast, fileVars
    <3> QED
      BY <1>1, <3>1 DEF BusyInv, WriterKept, IInv, TypeOK, Calls
  <2> QED
    BY <2>1, <2>2, <2>3
<1>5. ASSUME NEW b \in AuditCalls, pc'[b] = "read", tx'[b].snapshot # commits'
      PROVE  OthersOverlap(b) \/ (pc[b] = "read" /\ tx[b].snapshot # commits)
  <2>1. CASE Commit(c)
    <3>1. b # c /\ pc[b] = "read" /\ pc[c] = "inserted" /\ b \in Calls
      BY <1>1, <1>5, <2>1 DEF Commit, Goto, IInv, TypeOK, Calls
    <3> QED
      BY <1>1, <3>1, TwoAtWork DEF AtWork
  <2>2. CASE ReadLast(c)
    BY <1>1, <1>5, <2>2 DEF ReadLast, fileVars, IInv, TypeOK, Calls
  <2>3. CASE Lock(c) \/ Insert(c)
    BY <1>1, <1>2, <1>5, <2>3 DEF Lock, Insert, Goto, fileVars, IInv, TypeOK, Calls
  <2> QED
    BY <2>1, <2>2, <2>3
<1> QED
  BY <1>1, <1>2, <1>3, <1>4, <1>5, MoveBusyInv

(* A call that is answered gives back what it held.                            *)
LEMMA FinishBusyInv ==
  ASSUME IInv, BusyInv, NEW c \in Calls, NEW answer \in Answers, pc[c] # "idle",
         pc' = [pc EXCEPT ![c] = answer], conn' = Release(c, conn),
         writer' = IF writer = c THEN Nothing ELSE writer,
         UNCHANGED <<at, endedBefore, tx>>,
         commits' = commits \/ pc[c] \in AtWork
  PROVE  BusyInv'
<1>1. pc'[c] = answer /\ \A d \in Calls : d # c => pc'[d] = pc[d]
  BY DEF IInv, TypeOK
<1>2. ASSUME NEW d \in Calls, pc'[d] \in AtWork PROVE conn'[at'[d]] = d
  <2>1. d # c /\ pc[d] \in AtWork
    BY <1>1, <1>2 DEF Answers, AtWork
  <2>2. at[d] \in Handles /\ conn[at[d]] = d
    BY <2>1 DEF BusyInv, ConnKept, AtKept, AtWork
  <2> QED
    BY <2>1, <2>2 DEF Release
<1>3. WriterKept'
  BY <1>1 DEF BusyInv, WriterKept, IInv, TypeOK, Calls
<1>4. ASSUME NEW b \in AuditCalls, pc'[b] = "read", tx'[b].snapshot # commits'
      PROVE  OthersOverlap(b) \/ (pc[b] = "read" /\ tx[b].snapshot # commits)
  <2>1. b \in Calls /\ b # c /\ pc[b] = "read"
    BY <1>1, <1>4 DEF Calls, Answers
  <2>2. CASE commits' = commits
    BY <1>4, <2>1, <2>2
  <2>3. CASE pc[c] \in AtWork
    BY <2>1, <2>3, TwoAtWork DEF AtWork
  <2> QED
    BY <2>2, <2>3
<1>5. \A d \in Calls : pc'[d] = "idle" <=> pc[d] = "idle"
  BY <1>1 DEF Answers
<1> QED
  BY <1>2, <1>3, <1>4, <1>5, MoveBusyInv DEF ConnKept

LEMMA CrashBusyInv ==
  ASSUME IInv, BusyInv, NEW h \in Handles, Crash(h)
  PROVE  BusyInv'
<1>1. /\ \A c \in Calls : pc'[c] = IF at[c] = h /\ pc[c] \in InFlight THEN "lost" ELSE pc[c]
      /\ writer' = IF writer # Nothing /\ at[writer] = h THEN Nothing ELSE writer
      /\ conn' = [conn EXCEPT ![h] = Nothing]
      /\ UNCHANGED <<at, endedBefore, commits, tx>>
  BY DEF Crash
<1>2. ASSUME NEW d \in Calls, pc'[d] \in AtWork PROVE conn'[at'[d]] = d
  <2>1. pc[d] \in AtWork /\ at[d] # h
    BY <1>1, <1>2 DEF AtWork, InFlight
  <2>2. at[d] \in Handles /\ conn[at[d]] = d
    BY <2>1 DEF BusyInv, ConnKept, AtKept, AtWork
  <2> QED
    BY <1>1, <2>1, <2>2 DEF IInv, TypeOK
<1>3. WriterKept'
  BY <1>1 DEF BusyInv, WriterKept, IInv, TypeOK, Calls
<1>4. /\ \A c \in Calls : pc'[c] = "idle" <=> pc[c] = "idle"
      /\ \A c \in AuditCalls : pc'[c] = "read" => pc[c] = "read"
  BY <1>1 DEF InFlight, Calls
<1> QED
  BY <1>1, <1>2, <1>3, <1>4, MoveBusyInv DEF ConnKept

LEMMA StepBusyInv == IInv /\ BusyInv /\ [Next]_vars => BusyInv'
<1> SUFFICES ASSUME IInv, BusyInv, [Next]_vars PROVE BusyInv'
  OBVIOUS
<1>1. ASSUME NEW c \in AuditCalls, NEW h \in Handles, CallAudit(c, h) PROVE BusyInv'
  BY <1>1, CallBusyInv DEF CallAudit, Goto, RecordCall, fileVars, lockVars, Calls
<1>2. ASSUME NEW c \in PackageCalls, NEW h \in Handles, NEW k \in Keys,
             NEW d \in Digests, CallSave(c, h, k, d)
      PROVE  BusyInv'
  BY <1>2, CallBusyInv DEF CallSave, Goto, RecordCall, fileVars, lockVars, Calls
<1>3. ASSUME NEW c \in Calls, NEW answer \in Answers, Finish(c, answer), pc[c] # "idle"
      PROVE  BusyInv'
  BY <1>3, FinishBusyInv DEF Finish, Goto
<1>4. ASSUME NEW c \in AuditCalls, AuditStep(c) PROVE BusyInv'
  <2>1. c \in Calls
    BY DEF Calls
  <2>2. CASE BeginTx(c)
    BY <2>1, <2>2, TakeBusyInv DEF BeginTx, Goto, fileVars
  <2>3. CASE ReturnEnvelope(c) \/ RefuseInsert(c) \/ Cancel(c)
    BY <2>1, <2>3, <1>3 DEF ReturnEnvelope, RefuseInsert, Cancel, Answers
  <2> QED
    BY <1>4, <2>2, <2>3, WorkBusyInv DEF AuditStep
<1>5. ASSUME NEW c \in PackageCalls, SaveStep(c) PROVE BusyInv'
  <2>1. c \in Calls /\ writer # c
    BY CallsAssumption, NothingAssumption DEF Calls, IInv, TypeOK
  <2>2. CASE TakeConn(c)
    BY <2>1, <2>2, TakeBusyInv DEF TakeConn, Goto, fileVars
  <2>3. CASE RefuseSave(c) \/ FailSave(c)
    BY <2>1, <2>3, <1>3 DEF RefuseSave, FailSave, Answers
  <2>4. ASSUME NEW answer \in {"acked", "failed"}, ExecSave(c, answer) PROVE BusyInv'
    BY <2>1, <2>4, FinishBusyInv DEF ExecSave, Goto, Answers, AtWork
  <2> QED
    BY <1>5, <2>2, <2>3, <2>4 DEF SaveStep
<1>6. ASSUME NEW h \in Handles, Reopen(h) PROVE BusyInv'
  BY <1>6, MoveBusyInv DEF Reopen, fileVars, lockVars, BusyInv, ConnKept, WriterKept
<1>7. ASSUME UNCHANGED vars PROVE BusyInv'
  BY <1>7, MoveBusyInv DEF vars, fileVars, lockVars, BusyInv, ConnKept, WriterKept
<1> QED
  BY <1>1, <1>2, <1>4, <1>5, <1>6, <1>7, CrashBusyInv DEF Next

OthersRefuse ==
  \A c \in Calls : pc'[c] = "busy" /\ pc[c] # "busy" =>
    \E d \in Calls \ endedBefore[c] : at[d] \notin {Nothing, at[c]}

LEMMA RefusedByOthers ==
  ASSUME IInv, BusyInv, [Next]_vars, NEW c \in Calls, pc'[c] = "busy", pc[c] # "busy"
  PROVE  OthersOverlap(c)
<1>1. ASSUME writer # Nothing, writer # c, pc[c] \in AtWork
      PROVE  OthersOverlap(c)
  <2>1. writer \in Calls /\ pc[writer] \in AtWork
    BY <1>1 DEF BusyInv, WriterKept, IInv, TypeOK, Calls, AtWork
  <2> QED
    BY <1>1, <2>1, TwoAtWork
<1>2. ASSUME c \in AuditCalls, RefuseInsert(c) PROVE OthersOverlap(c)
  <2>1. pc[c] = "read" /\ ~InsertOK(c)
    BY <1>2 DEF RefuseInsert
  <2>2. CASE writer # Nothing
    <3>1. writer # c
      BY <2>1, <2>2 DEF BusyInv, WriterKept
    <3> QED
      BY <2>1, <2>2, <3>1, <1>1 DEF AtWork
  <2>3. CASE tx[c].snapshot # commits
    BY <1>2, <2>1, <2>3 DEF BusyInv, OthersCommitted
  <2>4. CASE tx[c].snapshot = commits
    <3>1. PICK n \in Nat : ChainTo(n)
      BY DEF IInv, ChainBuilt
    <3>2. LastSequence = n /\ DOMAIN auditRows = 1..n
      BY <3>1, LastOfChain DEF ChainTo
    <3>3. PICK ts \in Nat : tx[c].envelope = NewEnvelope(n + 1, ts, LastHash, c)
      BY <1>2, <2>1, <2>4, <3>2 DEF IInv, TxCurrent
    <3>4. tx[c].envelope.Sequence = n + 1
      BY <3>3, EnvelopeFields
    <3>5. tx[c].envelope.Sequence \notin DOMAIN auditRows
      BY <3>2, <3>4
    <3> QED
      BY <2>1, <2>2, <2>4, <3>5 DEF InsertOK
  <2> QED
    BY <2>3, <2>4
<1>3. ASSUME c \in PackageCalls, RefuseSave(c) PROVE OthersOverlap(c)
  <2>1. writer # c
    BY <1>3, CallsAssumption DEF IInv, TypeOK, RefuseSave
  <2> QED
    BY <1>1, <1>3, <2>1 DEF RefuseSave, AtWork
<1>4. (c \in AuditCalls /\ RefuseInsert(c)) \/ (c \in PackageCalls /\ RefuseSave(c))
  <2>1. ASSUME NEW d \in Calls, NEW step, step # "busy", pc' = [pc EXCEPT ![d] = step]
        PROVE  FALSE
    BY <2>1 DEF IInv, TypeOK
  <2>2. ASSUME NEW d \in AuditCalls, AuditStep(d) PROVE d = c /\ RefuseInsert(d)
    <3>1. d \in Calls
      BY DEF Calls
    <3>2. CASE RefuseInsert(d)
      BY <3>1, <3>2 DEF RefuseInsert, Finish, Goto, IInv, TypeOK
    <3> QED
      BY <2>1, <2>2, <3>1, <3>2
         DEF AuditStep, Lock, BeginTx, ReadLast, Insert, Commit, ReturnEnvelope, Cancel,
             Finish, Goto
  <2>3. ASSUME NEW d \in PackageCalls, SaveStep(d) PROVE d = c /\ RefuseSave(d)
    <3>1. d \in Calls
      BY DEF Calls
    <3>2. CASE RefuseSave(d)
      BY <3>1, <3>2 DEF RefuseSave, Finish, Goto, IInv, TypeOK
    <3> QED
      BY <2>1, <2>3, <3>1, <3>2 DEF SaveStep, TakeConn, ExecSave, FailSave, Finish, Goto
  <2>4. ~(\E d \in AuditCalls, h \in Handles : CallAudit(d, h))
    BY <2>1 DEF CallAudit, Goto, Calls
  <2>5. ~(\E d \in PackageCalls, h \in Handles, k \in Keys, g \in Digests :
            CallSave(d, h, k, g))
    BY <2>1 DEF CallSave, Goto, Calls
  <2>6. ~(\E h \in Handles : Crash(h) \/ Reopen(h)) /\ ~UNCHANGED vars
    BY DEF Crash, Reopen, vars
  <2> QED
    BY <2>2, <2>3, <2>4, <2>5, <2>6 DEF Next
<1> QED
  BY <1>2, <1>3, <1>4

(* However many handles and calls there are, a call is refused with SQLITE_BUSY    *)
(* only on account of a call of another handle that overlaps it: one connection    *)
(* per handle is enough to keep a process out of its own way.                     *)
THEOREM OnlyOthersAlwaysRefuse == Spec => OnlyOthersRefuse
<1>1. IInv /\ BusyInv /\ [Next]_vars => [OthersRefuse]_vars
  BY RefusedByOthers DEF OthersRefuse, OthersOverlap
<1> QED
  BY <1>1, InitBusyInv, StepBusyInv, Invariance, PTL DEF Spec, OnlyOthersRefuse, OthersRefuse
===============================================================================
