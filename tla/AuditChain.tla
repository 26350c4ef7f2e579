----------------------------- MODULE AuditChain -----------------------------
(***************************************************************************)
(* core/audit/audit.service.ts: the tamper-evident audit trail.            *)
(*                                                                         *)
(* A call of AuditService.log() takes its timestamp, opens a transaction,  *)
(* takes a Postgres advisory lock keyed by the tenant, reads the tenant's  *)
(* chain state (lastHash, sequence), inserts a row whose hash covers the   *)
(* previous hash and the next sequence, updates the chain state, and       *)
(* commits.  Two event consumers (core/events/event-consumers.service.ts)  *)
(* insert rows without the lock and without the chain.  verifyChain()      *)
(* reads the rows back in timestamp order and recomputes the hashes, from  *)
(* what the columns give back.                                             *)
(*                                                                         *)
(* A step of this module is what the code does between two awaits.  Writes *)
(* of an open transaction are private (READ COMMITTED): they are kept in   *)
(* draft[c] until Commit.  SHA-256 is taken to be injective, so a hash is  *)
(* the tuple of what it covers; an entry's columns other than `changes`    *)
(* stand in its id.                                                        *)
(***************************************************************************)
EXTENDS Integers, FiniteSets

CONSTANTS
  Calls,        \* the calls of log(), and the consumers' inserts: numbers,
                \*   which are also the row ids (they break timestamp ties)
  DirectCalls,  \* those of Calls that are consumers' direct inserts
  Lossy,        \* those whose `changes` hold an optional left undefined,
                \*   which the Json column drops
  Tenants,
  TenantDigest, \* TenantDigest[t]: first 8 bytes of sha256(t), as a number
  SignBit,      \* 2^63 in the code; any power of two here
  Ranges,       \* the pairs <<from, to>> that verifyChain() is asked for
  MaxTime       \* bound on the clock, for TLC

ASSUME CallsAssumption ==
  Calls \subseteq Nat /\ DirectCalls \subseteq Calls /\ Lossy \subseteq Calls
ASSUME DigestAssumption ==
  /\ SignBit \in Nat /\ TenantDigest \in [Tenants -> 0..(2 * SignBit - 1)]
ASSUME TimeAssumption == MaxTime \in Nat

NoDate == -1        \* `from` or `to` left undefined

ASSUME RangesAssumption ==
  Ranges \subseteq ({NoDate} \union Nat) \X ({NoDate} \union Nat)

VARIABLES
  now,       \* wall clock, in milliseconds
  pc,        \* pc[c]: how far call c has got
  tenant,    \* tenant[c], stamp[c]: the call's tenant and `timestamp`
  stamp,
  draft,     \* draft[c]: the row computed in the open transaction of c
  lock,      \* lock[k]: the call whose transaction holds advisory lock k
  rows,      \* table audit_logs
  chain,     \* table audit_chain_state: chain[t] = [lastHash, sequence]
  cache,     \* lastHashByTenant of the API process
  verify     \* the verifyChain() call, if one is running or has returned

vars == <<now, pc, tenant, stamp, draft, lock, rows, chain, cache, verify>>

NoCall == -1
Genesis == <<>>     \* the previousHash '0' of the first entry
NoTenant == "none"

ChainedCalls == Calls \ DirectCalls

(* canonicalize(changes): log() hashes the object it was given, where a   *)
(* key with no value reads "null"; verifyChain() hashes what the column    *)
(* gives back, where that key is gone.                                     *)
Given(id) == IF id \in Lossy THEN "with nulls" ELSE "plain"
Kept(id) == "plain"

Hash(prev, id, t, ts, changes, seq) == <<prev, id, t, ts, changes, seq>>

(* integrityHash of a row, computed by log().  A consumer's row has        *)
(* sequence 0 and covers no previous hash.                                 *)
StoredHash(r) == Hash(r.prev, r.id, r.tenant, r.ts, Given(r.id), r.seq)

(* What verifyChain() expects a row's hash to be.                          *)
ExpectedHash(r, prev, seq) == Hash(prev, r.id, r.tenant, r.ts, Kept(r.id), seq)

(* tenantLockKey: (high << 32) ^ low ^ 0x7fffffffffffffff flips every bit  *)
(* of the digest except the sign bit.                                      *)
LockKey(t) ==
  LET d == TenantDigest[t]
  IN  IF d < SignBit THEN SignBit - 1 - d ELSE 3 * SignBit - 1 - d

FitsInt8(k) == k < SignBit

Keys == {LockKey(t) : t \in Tenants}
RowsOf(t) == {r \in rows : r.tenant = t}
ChainedRows(t) == {r \in RowsOf(t) : r.seq > 0}

InTransaction(c) == pc[c] \in {"begun", "locked", "read", "written"}

Init ==
  /\ now = 0
  /\ pc = [c \in Calls |-> "idle"]
  /\ tenant = [c \in Calls |-> NoTenant]
  /\ stamp = [c \in Calls |-> 0]
  /\ draft = [c \in Calls |-> Genesis]
  /\ lock = [k \in Keys |-> NoCall]
  /\ rows = {}
  /\ chain = [t \in Tenants |-> [lastHash |-> Genesis, sequence |-> 0]]
  /\ cache = [t \in Tenants |-> Genesis]
  /\ verify = [phase |-> "idle"]

Tick ==
  /\ now < MaxTime
  /\ now' = now + 1
  /\ UNCHANGED <<pc, tenant, stamp, draft, lock, rows, chain, cache, verify>>

-----------------------------------------------------------------------------
(* log()                                                                   *)

(* Mutant: the timestamp is not the current time.                          *)
Begin_FutureTimestamp(c, t) ==
  /\ c \in ChainedCalls /\ pc[c] = "idle"
  /\ pc' = [pc EXCEPT ![c] = "begun"]
  /\ tenant' = [tenant EXCEPT ![c] = t]
  /\ stamp' = [stamp EXCEPT ![c] = now + 1]
  /\ UNCHANGED <<now, draft, lock, rows, chain, cache, verify>>

(* The timestamp is taken on entry, before the transaction opens.          *)
Begin(c, t) ==
  /\ c \in ChainedCalls /\ pc[c] = "idle"
  /\ pc' = [pc EXCEPT ![c] = "begun"]
  /\ tenant' = [tenant EXCEPT ![c] = t]
  /\ stamp' = [stamp EXCEPT ![c] = now]
  /\ UNCHANGED <<now, draft, lock, rows, chain, cache, verify>>

(* Mutant: no lock is taken.                                               *)
AcquireLock_NoLock(c) ==
  /\ pc[c] = "begun"
  /\ FitsInt8(LockKey(tenant[c]))
  /\ pc' = [pc EXCEPT ![c] = "locked"]
  /\ UNCHANGED <<now, tenant, stamp, draft, lock, rows, chain, cache, verify>>

(* SELECT pg_advisory_xact_lock($1): waits for the lock, and is refused    *)
(* (see Rollback) when the key does not fit in an int8.                    *)
AcquireLock(c) ==
  LET k == LockKey(tenant[c])
  IN  /\ pc[c] = "begun"
      /\ FitsInt8(k)
      /\ lock[k] = NoCall
      /\ lock' = [lock EXCEPT ![k] = c]
      /\ pc' = [pc EXCEPT ![c] = "locked"]
      /\ UNCHANGED <<now, tenant, stamp, draft, rows, chain, cache, verify>>

(* auditChainState.findUnique inside the transaction, then computeHash     *)
ReadChainState(c) ==
  /\ pc[c] = "locked"
  /\ draft' = [draft EXCEPT ![c] =
       [id |-> c, tenant |-> tenant[c], ts |-> stamp[c],
        prev |-> chain[tenant[c]].lastHash,
        seq |-> chain[tenant[c]].sequence + 1]]
  /\ pc' = [pc EXCEPT ![c] = "read"]
  /\ UNCHANGED <<now, tenant, stamp, lock, rows, chain, cache, verify>>

(* A call that returns or throws leaves its locals behind.                 *)
Forget(c) ==
  /\ tenant' = [tenant EXCEPT ![c] = NoTenant]
  /\ stamp' = [stamp EXCEPT ![c] = 0]
  /\ draft' = [draft EXCEPT ![c] = Genesis]

FreeLock(c) == [k \in Keys |-> IF lock[k] = c THEN NoCall ELSE lock[k]]

(* Mutant: the lock is released before the commit.                         *)
WriteRowAndState_EarlyUnlock(c) ==
  /\ pc[c] = "read"
  /\ cache' = [cache EXCEPT ![tenant[c]] = StoredHash(draft[c])]
  /\ lock' = FreeLock(c)
  /\ pc' = [pc EXCEPT ![c] = "written"]
  /\ UNCHANGED <<now, tenant, stamp, draft, rows, chain, verify>>

(* auditLog.create and auditChainState.upsert, still uncommitted, and the  *)
(* write of the in-memory cache from inside the transaction callback       *)
WriteRowAndState(c) ==
  /\ pc[c] = "read"
  /\ cache' = [cache EXCEPT ![tenant[c]] = StoredHash(draft[c])]
  /\ pc' = [pc EXCEPT ![c] = "written"]
  /\ UNCHANGED <<now, tenant, stamp, draft, lock, rows, chain, verify>>

Commit(c) ==
  /\ pc[c] = "written"
  /\ rows' = rows \union {draft[c]}
  /\ chain' = [chain EXCEPT ![tenant[c]] =
                 [lastHash |-> StoredHash(draft[c]), sequence |-> draft[c].seq]]
  /\ lock' = FreeLock(c)
  /\ pc' = [pc EXCEPT ![c] = "done"]
  /\ Forget(c)
  /\ UNCHANGED <<now, cache, verify>>

(* Any statement of the transaction can fail, and Prisma rolls back an     *)
(* interactive transaction that outlives its timeout.                      *)
Rollback(c) ==
  /\ InTransaction(c)
  /\ pc' = [pc EXCEPT ![c] = "failed"]
  /\ lock' = FreeLock(c)
  /\ Forget(c)
  /\ UNCHANGED <<now, rows, chain, cache, verify>>

(* The API process dies: its connections close, which rolls back every     *)
(* open transaction, and the map is empty when it is back.                 *)
Restart ==
  /\ \E c \in Calls : InTransaction(c)
  /\ pc' = [c \in Calls |-> IF InTransaction(c) THEN "failed" ELSE pc[c]]
  /\ lock' = [k \in Keys |-> NoCall]
  /\ cache' = [t \in Tenants |-> Genesis]
  /\ verify' = [phase |-> "idle"]
  /\ tenant' = [c \in Calls |-> NoTenant]
  /\ stamp' = [c \in Calls |-> 0]
  /\ draft' = [c \in Calls |-> Genesis]
  /\ UNCHANGED <<now, rows, chain>>

-----------------------------------------------------------------------------
(* The consumers of compliance.score.changed and consent.revoked           *)

DirectInsert(c, t) ==
  /\ c \in DirectCalls /\ pc[c] = "idle"
  /\ rows' = rows \union
       {[id |-> c, tenant |-> t, ts |-> now, prev |-> Genesis, seq |-> 0]}
  /\ pc' = [pc EXCEPT ![c] = "done"]
  /\ UNCHANGED <<now, tenant, stamp, draft, lock, chain, cache, verify>>

-----------------------------------------------------------------------------
(* verifyChain(tenantId, from, to)                                         *)

Before(q, r) == q.ts < r.ts \/ (q.ts = r.ts /\ q.id < r.id)
Position(r, S) == Cardinality({q \in S : Before(q, r)}) + 1
PreviousRow(r, S) == CHOOSE q \in S : Position(q, S) = Position(r, S) - 1

(* The hash that the loop has when it comes to r.                          *)
HashBefore(r, S, start) ==
  IF Position(r, S) = 1 THEN start ELSE StoredHash(PreviousRow(r, S))

(* Mutant: the first row of a range is taken as it is.                     *)
HashesMatch_FirstTrusted(S, start) ==
  \A r \in S :
    Position(r, S) # 1 =>
      StoredHash(r) = ExpectedHash(r, HashBefore(r, S, start), Position(r, S))

(* The loop over the rows of S in (timestamp, id) order: previousHash      *)
(* starts at start and then is the stored hash of the row before, and      *)
(* expectedSequence counts from 1.                                         *)
HashesMatch(S, start) ==
  \A r \in S : StoredHash(r) = ExpectedHash(r, HashBefore(r, S, start), Position(r, S))

(* Mutant: the number of rows is not compared.                             *)
CountMatches_Skipped(S, t) == TRUE

(* The comparison with audit_chain_state, skipped when there is no state.  *)
CountMatches(S, t) ==
  chain[t].sequence = 0 \/ chain[t].sequence + 1 = Cardinality(S) + 1

Verifies(S, t) == CountMatches(S, t) /\ HashesMatch(S, Genesis)

InRange(r, from, to) == r.ts >= from /\ (to = NoDate \/ r.ts <= to)

(* With `from`: the hash of a latest row before it, read first.            *)
VerifyStart(t, from, to) ==
  LET prior == {r \in RowsOf(t) : r.ts < from}
      latest == {r \in prior : \A q \in prior : q.ts <= r.ts}
  IN  /\ verify.phase = "idle"
      /\ \E h \in IF latest = {} THEN {Genesis} ELSE {StoredHash(r) : r \in latest} :
           verify' = [phase |-> "start", tenant |-> t, from |-> from, to |-> to, start |-> h]
      /\ UNCHANGED <<now, pc, tenant, stamp, draft, lock, rows, chain, cache>>

VerifyScan ==
  /\ verify.phase = "start"
  /\ LET S == {r \in RowsOf(verify.tenant) : InRange(r, verify.from, verify.to)}
     IN  verify' = IF HashesMatch(S, verify.start)
                   THEN [phase |-> "scanned", tenant |-> verify.tenant,
                         from |-> verify.from, to |-> verify.to, scanned |-> S]
                   ELSE [phase |-> "broken"]
  /\ UNCHANGED <<now, pc, tenant, stamp, draft, lock, rows, chain, cache>>

(* No range was asked for.                                                 *)
Whole == verify.from = NoDate /\ verify.to = NoDate

(* Mutant: the chain state is compared only when it counts fewer rows.     *)
VerifyCompare_OnlyFewer ==
  /\ verify.phase = "scanned"
  /\ verify' = [phase |-> IF Whole => chain[verify.tenant].sequence >= Cardinality(verify.scanned)
                          THEN "valid" ELSE "broken"]
  /\ UNCHANGED <<now, pc, tenant, stamp, draft, lock, rows, chain, cache>>

VerifyCompare ==
  /\ verify.phase = "scanned"
  /\ verify' = [phase |-> IF Whole => CountMatches(verify.scanned, verify.tenant)
                          THEN "valid" ELSE "broken"]
  /\ UNCHANGED <<now, pc, tenant, stamp, draft, lock, rows, chain, cache>>

-----------------------------------------------------------------------------
LogStep(c) ==
  \/ \E t \in Tenants : Begin(c, t)
  \/ AcquireLock(c)
  \/ ReadChainState(c)
  \/ WriteRowAndState(c)
  \/ Commit(c)
  \/ Rollback(c)
  \/ \E t \in Tenants : DirectInsert(c, t)

VerifyStep ==
  \/ \E t \in Tenants, range \in Ranges : VerifyStart(t, range[1], range[2])
  \/ VerifyScan
  \/ VerifyCompare

Next == Tick \/ Restart \/ VerifyStep \/ \E c \in Calls : LogStep(c)

Spec == Init /\ [][Next]_vars

-----------------------------------------------------------------------------
(* Properties                                                              *)

PcValues == {"idle", "begun", "locked", "read", "written", "done", "failed"}

RowType(r) ==
  /\ r.id \in Calls /\ r.tenant \in Tenants
  /\ r.ts \in 0..now /\ r.seq \in Nat

(* Type invariant; timestamps are never ahead of the clock.                *)
TypeOK ==
  /\ now \in 0..MaxTime
  /\ pc \in [Calls -> PcValues]
  /\ tenant \in [Calls -> Tenants \union {NoTenant}]
  /\ stamp \in [Calls -> 0..now]
  /\ lock \in [Keys -> Calls \union {NoCall}]
  /\ \A r \in rows : RowType(r)
  /\ DOMAIN draft = Calls
  /\ \A c \in Calls : pc[c] \in {"read", "written"} => RowType(draft[c])
  /\ DOMAIN chain = Tenants /\ DOMAIN cache = Tenants
  /\ \A t \in Tenants : chain[t].sequence \in Nat

(* R is a chain of n rows that ends with hash h: numbered 1..n without gap *)
(* or duplicate, each row covering the hash of the one before.             *)
Linked(R, n, h) ==
  /\ \A r \in R : r.seq \in 1..n
  /\ \A i \in 1..n : \E r \in R : r.seq = i
  /\ \A r, q \in R : r.seq = q.seq => r = q
  /\ \A r \in R : r.seq = 1 => r.prev = Genesis
  /\ \A r, q \in R : r.seq = q.seq + 1 => r.prev = StoredHash(q)
  /\ \A r \in R : r.seq = n => h = StoredHash(r)
  /\ n = 0 => h = Genesis

(* What the advisory lock is for (the comment at audit.service.ts:266):    *)
(* each tenant's chained rows form one chain, and the chain state holds    *)
(* its length and its last hash.                                           *)
ChainLinked ==
  \A t \in Tenants : Linked(ChainedRows(t), chain[t].sequence, chain[t].lastHash)

(* Why ChainLinked is preserved: a call past the lock holds the lock of    *)
(* its tenant, so what it read of the chain state is still current.        *)
LockHeld ==
  \A c \in Calls :
    /\ InTransaction(c) => tenant[c] \in Tenants
    /\ pc[c] \in {"locked", "read", "written"} => lock[LockKey(tenant[c])] = c

DraftCurrent ==
  \A c \in Calls : pc[c] \in {"read", "written"} =>
    /\ draft[c].tenant = tenant[c]
    /\ draft[c].prev = chain[tenant[c]].lastHash
    /\ draft[c].seq = chain[tenant[c]].sequence + 1

IInv == TypeOK /\ LockHeld /\ DraftCurrent /\ ChainLinked

(* Timestamp order, the order verifyChain reads in, is the chain's order.  *)
InChainOrder(S) == \A r, q \in S : r.seq < q.seq => Before(r, q)

(* No row of S changed on the way into the Json column and back.           *)
Unaltered(S) == \A r \in S : Given(r.id) = Kept(r.id)

(* What verifyChain(tenantId) can be trusted for, whatever rows are left   *)
(* in the table: it accepts nothing but the whole chain, so a lost row     *)
(* (the last ones included) or an unchained one is always found; and it    *)
(* does accept a whole chain whose timestamps are in order and whose       *)
(* payloads all came through the Json column unaltered.                    *)
VerifyExact ==
  \A t \in Tenants : \A S \in SUBSET RowsOf(t) :
    /\ Verifies(S, t) => S = ChainedRows(t)
    /\ S = ChainedRows(t) /\ InChainOrder(S) /\ Unaltered(S) => Verifies(S, t)

(* numbers is an interval of positive numbers.                             *)
Consecutive(numbers) ==
  \A i, j \in numbers : i > 0 /\ \A k \in i..j : k \in numbers

(* What it can be trusted for with a range, where no number of rows is     *)
(* compared: whatever rows are left, and with whatever hash the loop       *)
(* starts, the rows it accepts are chained ones, with none missing in      *)
(* between.                                                                *)
RangeHasNoGap ==
  \A t \in Tenants : \A S \in SUBSET RowsOf(t) :
    \A h \in {Genesis} \union {StoredHash(r) : r \in RowsOf(t)} :
      HashesMatch(S, h) => Consecutive({r.seq : r \in S})

(* A verifyChain call reads the rows and, later, the chain state; entries  *)
(* committed in between never make it answer "valid" for a scan that       *)
(* missed them.                                                            *)
VerdictCoversChain ==
  [][ /\ verify.phase = "scanned" /\ verify'.phase = "valid" /\ Whole
      => verify.scanned = ChainedRows(verify.tenant) ]_vars

(* Whatever the interleaving, rollbacks and restarts, each tenant's        *)
(* chained entries form a log that only grows at its end.                  *)
RowAt(t, i) == CHOOSE r \in ChainedRows(t) : r.seq = i
ChainLog == [t \in Tenants |-> [i \in 1..chain[t].sequence |-> RowAt(t, i).id]]

Log == INSTANCE AppendOnlyLog WITH Entries <- ChainedCalls, log <- ChainLog

LogRefinement == Log!Spec

(* What audit-logging-policy.md:231 and the field brokenAtId promise: a    *)
(* mismatch means tampering.  Nobody tampers here, log() is the only       *)
(* writer, and no two entries of the tenant have the same timestamp; yet   *)
(* the property fails: a call that took its timestamp first may take the   *)
(* lock second.                                                            *)
UntamperedVerifies ==
  \A t \in Tenants :
    /\ RowsOf(t) = ChainedRows(t)
    /\ \A r, q \in RowsOf(t) : r.ts = q.ts => r = q
    => Verifies(RowsOf(t), t)
=============================================================================
