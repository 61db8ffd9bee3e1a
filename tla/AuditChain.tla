------------------------------ MODULE AuditChain ------------------------------
(***************************************************************************)
(* The tamper-evident audit chain of decision_server.go: what an envelope   *)
(* is, how its two hashes are formed, and what VerifyAuditChain accepts.     *)
(* Both stores (MemoryDecisionStore, SQLiteDecisionStore) build their        *)
(* envelopes with NewEnvelope.                                               *)
(*                                                                          *)
(* SHA-256 is modelled as an injective function: a hash is the tuple of the  *)
(* values that are hashed.  The empty string of a first envelope's           *)
(* PreviousHash is the empty tuple NoHash.                                   *)
(***************************************************************************)
EXTENDS Naturals, Sequences

NoHash == <<>>

auditPayloadHash(record) == <<"payload", record>>

auditChainHash(sequence, timestamp, id, previousHash, payloadHash) ==
  <<sequence, timestamp, id, previousHash, payloadHash>>

(* "audit_" followed by the decimal sequence: injective in the sequence.    *)
AuditID(sequence) == <<"audit", sequence>>

NewEnvelope(sequence, timestamp, previousHash, record) ==
  LET payloadHash == auditPayloadHash(record)
  IN  [ID           |-> AuditID(sequence),
       Sequence     |-> sequence,
       Timestamp    |-> timestamp,
       PreviousHash |-> previousHash,
       PayloadHash  |-> payloadHash,
       ChainHash    |-> auditChainHash(sequence, timestamp, AuditID(sequence),
                                       previousHash, payloadHash),
       Record       |-> record]

(* The hash an envelope at position i has to name as its predecessor's.     *)
HashBefore(envelopes, i) ==
  IF i = 1 THEN NoHash ELSE envelopes[i - 1].ChainHash

(* The two hashes of one envelope are those of its own contents.            *)
SelfConsistent(e) ==
  /\ e.Sequence # 0
  /\ e.PayloadHash = auditPayloadHash(e.Record)
  /\ e.ChainHash = auditChainHash(e.Sequence, e.Timestamp, e.ID,
                                  e.PreviousHash, e.PayloadHash)

(* VerifyAuditChain returns nil: the loop's early returns, for every index. *)
VerifyAuditChain(envelopes) ==
  \A i \in DOMAIN envelopes :
    /\ SelfConsistent(envelopes[i])
    /\ i > 1 => envelopes[i].Sequence = envelopes[i - 1].Sequence + 1
    /\ envelopes[i].PreviousHash = HashBefore(envelopes, i)
===============================================================================
