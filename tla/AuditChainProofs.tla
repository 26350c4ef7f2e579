-------------------------- MODULE AuditChainProofs --------------------------
(***************************************************************************)
(* Proofs about AuditChain, for any calls, tenants, lock keys (colliding   *)
(* or not) and clock: the chain that the advisory lock keeps, what         *)
(* verifyChain finds out about it, which tenants get no chain at all, and  *)
(* that the trail implements AppendOnlyLog. IInv is inductive: ChainLinked *)
(* alone is not, because it says nothing of the chain state an open        *)
(* transaction has already read.                                           *)
(***************************************************************************)
EXTENDS AuditChain, FiniteSetTheorems, SequenceTheorems, TLAPS

USE CallsAssumption, TimeAssumption

LEMMA NoCallIsNoCall == NoCall \notin Calls
  BY DEF NoCall

LEMMA KeyOfTenant == ASSUME NEW t \in Tenants PROVE LockKey(t) \in Keys
  BY DEF Keys

LEMMA InitIInv == Init => IInv
<1> SUFFICES ASSUME Init PROVE IInv
  OBVIOUS
<1>1. TypeOK
  BY DEF Init, TypeOK, PcValues, RowType
<1>2. LockHeld
  BY <1>1 DEF Init, LockHeld, InTransaction
<1>3. DraftCurrent
  BY DEF Init, DraftCurrent
<1>4. ChainLinked
  BY DEF Init, ChainLinked, Linked, ChainedRows, RowsOf
<1> QED
  BY <1>1, <1>2, <1>3, <1>4 DEF IInv

(* ChainLinked speaks of rows and chain only.                              *)
LEMMA ChainLinkedUnchanged ==
  ChainLinked /\ UNCHANGED <<rows, chain>> => ChainLinked'
  BY DEF ChainLinked, Linked, ChainedRows, RowsOf, StoredHash

(* The step the lock is there for: the committed draft extends the chain   *)
(* of its tenant by one and leaves the others alone.                       *)
LEMMA CommitKeepsChainLinked ==
  ASSUME IInv, NEW c \in Calls, Commit(c)
  PROVE  ChainLinked'
<1> SUFFICES ASSUME NEW d, d = draft[c], NEW u, u = tenant[c]
             PROVE  ChainLinked'
  OBVIOUS
<1>1. /\ u \in Tenants /\ RowType(d)
      /\ d.tenant = u
      /\ d.prev = chain[u].lastHash
      /\ d.seq = chain[u].sequence + 1
  BY DEF IInv, TypeOK, LockHeld, DraftCurrent, Commit, InTransaction
<1>2. /\ rows' = rows \union {d}
      /\ chain' = [chain EXCEPT ![u] =
                     [lastHash |-> StoredHash(d), sequence |-> d.seq]]
      /\ DOMAIN chain = Tenants
  BY DEF Commit, IInv, TypeOK
<1>3. \A t \in Tenants : chain[t].sequence \in Nat
  BY DEF IInv, TypeOK
<1>4. /\ chain'[u].sequence = d.seq /\ chain'[u].lastHash = StoredHash(d)
      /\ \A t \in Tenants \ {u} : chain'[t] = chain[t]
  BY <1>1, <1>2
<1>5. /\ ChainedRows(u)' = ChainedRows(u) \union {d}
      /\ \A t \in Tenants \ {u} : ChainedRows(t)' = ChainedRows(t)
  BY <1>1, <1>2, <1>3 DEF ChainedRows, RowsOf
<1>6. \A t : \A r \in ChainedRows(t) : r.seq \in Nat
  BY DEF ChainedRows, RowsOf, IInv, TypeOK, RowType
<1>7. \A t \in Tenants : Linked(ChainedRows(t), chain[t].sequence, chain[t].lastHash)
  BY DEF IInv, ChainLinked
<1>8. Linked(ChainedRows(u)', chain'[u].sequence, chain'[u].lastHash)
  <2> DEFINE R == ChainedRows(u)
             n == chain[u].sequence
             h == chain[u].lastHash
  <2>1. /\ Linked(R, n, h) /\ n \in Nat
        /\ \A r \in R : r.seq \in Nat
        /\ d.seq = n + 1 /\ d.prev = h
    BY <1>1, <1>3, <1>6, <1>7
  <2> HIDE DEF R, n, h
  <2>2. Linked(R \union {d}, n + 1, StoredHash(d))
    <3>1. \A r \in R : r.seq \in 1..n /\ r.seq # n + 1
      BY <2>1 DEF Linked
    <3>2. \A i \in 1..(n + 1) : \E r \in R \union {d} : r.seq = i
      BY <2>1 DEF Linked
    <3>3. \A r, q \in R \union {d} : r.seq = q.seq => r = q
      BY <2>1, <3>1 DEF Linked
    <3>4. \A r \in R \union {d} : r.seq = 1 => r.prev = Genesis
      BY <2>1, <3>1 DEF Linked
    <3>5. \A r, q \in R \union {d} : r.seq = q.seq + 1 => r.prev = StoredHash(q)
      <4> SUFFICES ASSUME NEW r \in R \union {d}, NEW q \in R \union {d},
                          r.seq = q.seq + 1
                   PROVE  r.prev = StoredHash(q)
        OBVIOUS
      <4>1. q \in R
        BY <2>1, <3>1 DEF Linked
      <4>2. CASE r \in R
        BY <2>1, <4>1, <4>2 DEF Linked
      <4>3. CASE r = d
        BY <2>1, <4>1, <4>3 DEF Linked
      <4> QED
        BY <4>2, <4>3
    <3>6. \A r \in R \union {d} : r.seq = n + 1 => StoredHash(d) = StoredHash(r)
      BY <3>1
    <3>7. \A r \in R \union {d} : r.seq \in 1..(n + 1)
      BY <2>1, <3>1 DEF Linked
    <3> QED
      BY <2>1, <3>2, <3>3, <3>4, <3>5, <3>6, <3>7 DEF Linked
  <2> QED
    BY <1>4, <1>5, <2>1, <2>2 DEF R, n, h
<1>9. ASSUME NEW t \in Tenants \ {u}
      PROVE  Linked(ChainedRows(t)', chain'[t].sequence, chain'[t].lastHash)
  BY <1>4, <1>5, <1>7
<1>10. \A t \in Tenants : Linked(ChainedRows(t)', chain'[t].sequence, chain'[t].lastHash)
  BY <1>8, <1>9
<1> QED
  BY <1>10 DEF ChainLinked, Linked, StoredHash

(* One step per action; Commit is the only one that changes the chain.     *)
LEMMA StepIInv == IInv /\ [Next]_vars => IInv'
<1> SUFFICES ASSUME IInv, [Next]_vars PROVE IInv'
  OBVIOUS
<1> USE DEF InTransaction
<1>1. CASE UNCHANGED vars
  BY <1>1, ChainLinkedUnchanged
     DEF vars, IInv, TypeOK, RowType, LockHeld, DraftCurrent
<1>2. CASE Tick
  <2>1. TypeOK'
    BY <1>2 DEF Tick, IInv, TypeOK, RowType
  <2>2. LockHeld' /\ DraftCurrent'
    BY <1>2 DEF Tick, IInv, LockHeld, DraftCurrent, LockKey
  <2> QED
    BY <1>2, <2>1, <2>2, ChainLinkedUnchanged DEF Tick, IInv
<1>3. CASE Restart
  BY <1>3, ChainLinkedUnchanged
     DEF Restart, IInv, TypeOK, RowType, PcValues, LockHeld, DraftCurrent, Keys
<1>4. CASE VerifyStep
  BY <1>4, ChainLinkedUnchanged
     DEF VerifyStep, VerifyStart, VerifyScan, VerifyCompare,
         IInv, TypeOK, RowType, LockHeld, DraftCurrent
<1>5. ASSUME NEW c \in Calls, NEW t \in Tenants, Begin(c, t) PROVE IInv'
  BY <1>5, ChainLinkedUnchanged
     DEF Begin, IInv, TypeOK, RowType, PcValues, LockHeld, DraftCurrent
<1>6. ASSUME NEW c \in Calls, AcquireLock(c) PROVE IInv'
  <2>1. TypeOK'
    BY <1>6 DEF AcquireLock, IInv, TypeOK, RowType, PcValues
  <2>2. LockHeld'
    BY <1>6, KeyOfTenant, NoCallIsNoCall
       DEF AcquireLock, IInv, TypeOK, LockHeld, LockKey
  <2>3. DraftCurrent'
    BY <1>6 DEF AcquireLock, IInv, TypeOK, DraftCurrent
  <2> QED
    BY <2>1, <2>2, <2>3, <1>6, ChainLinkedUnchanged DEF AcquireLock, IInv
<1>7. ASSUME NEW c \in Calls, ReadChainState(c) PROVE IInv'
  <2>1. TypeOK'
    BY <1>7 DEF ReadChainState, IInv, TypeOK, RowType, PcValues, LockHeld
  <2>2. LockHeld'
    BY <1>7 DEF ReadChainState, IInv, TypeOK, LockHeld, LockKey
  <2>3. DraftCurrent'
    BY <1>7 DEF ReadChainState, IInv, TypeOK, DraftCurrent
  <2> QED
    BY <2>1, <2>2, <2>3, <1>7, ChainLinkedUnchanged DEF ReadChainState, IInv
<1>8. ASSUME NEW c \in Calls, WriteRowAndState(c) PROVE IInv'
  <2>1. TypeOK'
    BY <1>8 DEF WriteRowAndState, IInv, TypeOK, RowType, PcValues
  <2>2. LockHeld'
    BY <1>8 DEF WriteRowAndState, IInv, TypeOK, LockHeld, LockKey
  <2>3. DraftCurrent'
    BY <1>8 DEF WriteRowAndState, IInv, TypeOK, DraftCurrent
  <2> QED
    BY <2>1, <2>2, <2>3, <1>8, ChainLinkedUnchanged DEF WriteRowAndState, IInv
<1>9. ASSUME NEW c \in Calls, Commit(c) PROVE IInv'
  <2>1. TypeOK'
    BY <1>9 DEF Commit, Forget, FreeLock, IInv, TypeOK, RowType, PcValues
  <2>2. LockHeld'
    BY <1>9, KeyOfTenant, NoCallIsNoCall
       DEF Commit, Forget, FreeLock, IInv, TypeOK, LockHeld, LockKey
  <2>3. DraftCurrent'
    <3> SUFFICES ASSUME NEW e \in Calls, pc'[e] \in {"read", "written"}
                 PROVE  /\ draft'[e].tenant = tenant'[e]
                        /\ draft'[e].prev = chain'[tenant'[e]].lastHash
                        /\ draft'[e].seq = chain'[tenant'[e]].sequence + 1
      BY DEF DraftCurrent
    <3>1. e # c /\ pc[e] \in {"read", "written"} /\ pc[c] = "written"
      BY <1>9 DEF Commit, IInv, TypeOK
    <3>2. draft'[e] = draft[e] /\ tenant'[e] = tenant[e]
      BY <1>9, <3>1 DEF Commit, Forget, IInv, TypeOK
    <3>3. tenant[e] # tenant[c]
      BY <3>1 DEF IInv, LockHeld
    <3>4. chain'[tenant[e]] = chain[tenant[e]]
      BY <1>9, <3>1, <3>3 DEF Commit, IInv, TypeOK, LockHeld
    <3> QED
      BY <3>1, <3>2, <3>4 DEF IInv, DraftCurrent
  <2> QED
    BY <2>1, <2>2, <2>3, <1>9, CommitKeepsChainLinked DEF IInv
<1>10. ASSUME NEW c \in Calls, Rollback(c) PROVE IInv'
  <2>1. TypeOK'
    BY <1>10 DEF Rollback, Forget, FreeLock, IInv, TypeOK, RowType, PcValues
  <2>2. LockHeld'
    BY <1>10, KeyOfTenant, NoCallIsNoCall
       DEF Rollback, Forget, FreeLock, IInv, TypeOK, LockHeld, LockKey
  <2>3. DraftCurrent'
    BY <1>10 DEF Rollback, Forget, IInv, TypeOK, DraftCurrent
  <2> QED
    BY <2>1, <2>2, <2>3, <1>10, ChainLinkedUnchanged DEF Rollback, IInv
<1>11. ASSUME NEW c \in Calls, NEW t \in Tenants, DirectInsert(c, t) PROVE IInv'
  <2>1. TypeOK'
    BY <1>11 DEF DirectInsert, IInv, TypeOK, RowType, PcValues
  <2>2. LockHeld' /\ DraftCurrent'
    BY <1>11 DEF DirectInsert, IInv, TypeOK, LockHeld, DraftCurrent, LockKey
  <2>3. \A u \in Tenants : ChainedRows(u)' = ChainedRows(u)
    BY <1>11 DEF DirectInsert, ChainedRows, RowsOf
  <2>4. ChainLinked'
    BY <1>11, <2>3 DEF DirectInsert, IInv, ChainLinked, Linked, StoredHash
  <2> QED
    BY <2>1, <2>2, <2>4 DEF IInv
<1> QED
  BY <1>1, <1>2, <1>3, <1>4, <1>5, <1>6, <1>7, <1>8, <1>9, <1>10, <1>11
     DEF Next, LogStep

LEMMA IInvAlways == Spec => []IInv
  BY InitIInv, StepIInv, PTL DEF Spec

(* Every reachable state is well typed, for all values of the constants.   *)
THEOREM TypeCorrect == Spec => []TypeOK
  BY IInvAlways, PTL DEF IInv

(* No interleaving of log() calls, rollbacks, restarts and direct inserts  *)
(* forks, gaps or mis-links a tenant's chain, whatever keys collide.       *)
THEOREM ChainIntegrity == Spec => []ChainLinked
  BY IInvAlways, PTL DEF IInv

-----------------------------------------------------------------------------
(* Counting rows                                                           *)

(* Rows with distinct numbers, and these 1 to n, are n rows.               *)
LEMMA NumberedRows ==
  ASSUME NEW R, NEW n \in Nat,
         \A r \in R : r.seq \in 1..n,
         \A i \in 1..n : \E r \in R : r.seq = i,
         \A r, q \in R : r.seq = q.seq => r = q
  PROVE  IsFiniteSet(R) /\ Cardinality(R) = n
<1> DEFINE f == [i \in 1..n |-> CHOOSE r \in R : r.seq = i]
<1>1. \A i \in 1..n : f[i] \in R /\ f[i].seq = i
  OBVIOUS
<1>2. f \in [1..n -> R]
  BY <1>1
<1> HIDE DEF f
<1>3. \A i, j \in 1..n : f[i] = f[j] => i = j
  BY <1>1
<1>4. \A r \in R : \E i \in 1..n : f[i] = r
  BY <1>1
<1>5. ExistsBijection(1..n, R)
  BY <1>2, <1>3, <1>4 DEF ExistsBijection, Bijection, Injection, IsInjective, Surjection
<1> QED
  BY <1>5, FS_CountingElements, FS_NatBijection

(* A linked chain has as many rows as its last number.                     *)
LEMMA ChainLength ==
  ASSUME IInv, NEW t \in Tenants
  PROVE  /\ chain[t].sequence \in Nat
         /\ IsFiniteSet(ChainedRows(t)) /\ Cardinality(ChainedRows(t)) = chain[t].sequence
<1>1. Linked(ChainedRows(t), chain[t].sequence, chain[t].lastHash) /\ chain[t].sequence \in Nat
  BY DEF IInv, TypeOK, ChainLinked
<1> QED
  BY <1>1, NumberedRows DEF Linked

-----------------------------------------------------------------------------
(* The table: its rows are finite in number, come from calls that are      *)
(* done, one from each, and the chained ones from calls of log().          *)

RowsInv ==
  /\ IsFiniteSet(rows)
  /\ \A r \in rows : pc[r.id] = "done" /\ (r.seq > 0 => r.id \in ChainedCalls)
  /\ \A r, q \in rows : r.id = q.id => r = q
  /\ \A c \in Calls : InTransaction(c) => c \in ChainedCalls
  /\ \A c \in Calls : pc[c] \in {"read", "written"} => draft[c].id = c

LEMMA InitRowsInv == Init => RowsInv
  BY FS_EmptySet DEF Init, RowsInv, InTransaction

LEMMA StepRowsInv == ASSUME IInv, RowsInv, [Next]_vars PROVE RowsInv'
<1> USE DEF InTransaction
<1>0. TypeOK
  BY DEF IInv
<1>1. CASE UNCHANGED vars \/ Tick \/ VerifyStep
  BY <1>1 DEF vars, Tick, VerifyStep, VerifyStart, VerifyScan, VerifyCompare, RowsInv
<1>2. CASE Restart
  <2>1. /\ \A c \in Calls : pc'[c] = IF InTransaction(c) THEN "failed" ELSE pc[c]
        /\ rows' = rows
    BY <1>2 DEF Restart
  <2>2. \A c \in Calls : ~InTransaction(c)' /\ (pc[c] = "done" => pc'[c] = "done")
    BY <2>1
  <2>3. \A r \in rows : r.id \in Calls
    BY <1>0 DEF TypeOK, RowType
  <2> QED
    BY <2>1, <2>2, <2>3 DEF RowsInv
<1>3. ASSUME NEW c \in Calls, NEW t \in Tenants, Begin(c, t) PROVE RowsInv'
  BY <1>0, <1>3 DEF Begin, RowsInv, TypeOK
<1>4. ASSUME NEW c \in Calls, AcquireLock(c) \/ WriteRowAndState(c) PROVE RowsInv'
  <2>1. /\ \/ pc[c] = "begun" /\ pc' = [pc EXCEPT ![c] = "locked"]
           \/ pc[c] = "read" /\ pc' = [pc EXCEPT ![c] = "written"]
        /\ rows' = rows /\ draft' = draft
    BY <1>4, Zenon DEF AcquireLock, WriteRowAndState
  <2>2. \A r \in rows : r.id # c /\ r.id \in Calls
    BY <1>0, <2>1 DEF RowsInv, TypeOK, RowType
  <2>3. /\ \A e \in Calls \ {c} : pc'[e] = pc[e]
        /\ pc'[c] \in {"read", "written"} => pc[c] = "read"
    BY <1>0, <2>1 DEF TypeOK
  <2>4. \A r \in rows : pc'[r.id] = "done" /\ (r.seq > 0 => r.id \in ChainedCalls)
    BY <2>2, <2>3 DEF RowsInv
  <2>5. \A e \in Calls : InTransaction(e)' => e \in ChainedCalls
    BY <2>1, <2>3 DEF RowsInv
  <2>6. \A e \in Calls : pc'[e] \in {"read", "written"} => draft'[e].id = e
    BY <2>1, <2>3 DEF RowsInv
  <2>7. rows' = rows /\ IsFiniteSet(rows) /\ \A r, q \in rows : r.id = q.id => r = q
    BY <2>1 DEF RowsInv
  <2> QED
    BY <2>4, <2>5, <2>6, <2>7, Zenon DEF RowsInv
<1>5. ASSUME NEW c \in Calls, ReadChainState(c) PROVE RowsInv'
  <2>1. /\ pc[c] = "locked" /\ pc' = [pc EXCEPT ![c] = "read"] /\ rows' = rows
        /\ draft'[c].id = c /\ \A e \in Calls \ {c} : draft'[e] = draft[e]
    BY <1>0, <1>5 DEF ReadChainState, TypeOK
  <2>2. \A r \in rows : r.id # c /\ r.id \in Calls
    BY <1>0, <2>1 DEF RowsInv, TypeOK, RowType
  <2>3. /\ pc'[c] = "read" /\ c \in ChainedCalls
        /\ \A e \in Calls \ {c} : pc'[e] = pc[e]
    BY <1>0, <2>1 DEF TypeOK, RowsInv
  <2>4. \A r \in rows : pc'[r.id] = "done" /\ (r.seq > 0 => r.id \in ChainedCalls)
    BY <2>2, <2>3 DEF RowsInv
  <2>5. \A e \in Calls : InTransaction(e)' => e \in ChainedCalls
    BY <2>3 DEF RowsInv
  <2>6. \A e \in Calls : pc'[e] \in {"read", "written"} => draft'[e].id = e
    BY <2>1, <2>3 DEF RowsInv
  <2>7. rows' = rows /\ IsFiniteSet(rows) /\ \A r, q \in rows : r.id = q.id => r = q
    BY <2>1 DEF RowsInv
  <2> QED
    BY <2>4, <2>5, <2>6, <2>7, Zenon DEF RowsInv
<1>6. ASSUME NEW c \in Calls, Commit(c) PROVE RowsInv'
  <2>1. /\ draft[c].id = c /\ pc[c] = "written" /\ c \in ChainedCalls
        /\ rows' = rows \union {draft[c]} /\ pc' = [pc EXCEPT ![c] = "done"]
        /\ draft' = [draft EXCEPT ![c] = Genesis]
    BY <1>6 DEF Commit, Forget, RowsInv
  <2>2. IsFiniteSet(rows')
    BY <2>1, FS_AddElement DEF RowsInv
  <2>3. \A r \in rows : r.id # c
    BY <2>1 DEF RowsInv
  <2>4. /\ \A r \in rows' : pc'[r.id] = "done" /\ (r.seq > 0 => r.id \in ChainedCalls)
        /\ \A r, q \in rows' : r.id = q.id => r = q
    BY <1>0, <2>1, <2>3 DEF RowsInv, TypeOK, RowType
  <2>5. /\ \A e \in Calls : InTransaction(e)' => e \in ChainedCalls
        /\ \A e \in Calls : pc'[e] \in {"read", "written"} => draft'[e].id = e
    BY <1>0, <2>1 DEF RowsInv, TypeOK
  <2> QED
    BY <2>2, <2>4, <2>5 DEF RowsInv
<1>7. ASSUME NEW c \in Calls, Rollback(c) PROVE RowsInv'
  <2>1. \A r \in rows : r.id # c
    BY <1>7 DEF Rollback, RowsInv
  <2> QED
    BY <1>0, <1>7, <2>1 DEF Rollback, Forget, RowsInv, TypeOK
<1>8. ASSUME NEW c \in Calls, NEW t \in Tenants, DirectInsert(c, t) PROVE RowsInv'
  <2> DEFINE d == [id |-> c, tenant |-> t, ts |-> now, prev |-> Genesis, seq |-> 0]
  <2>1. /\ d.id = c /\ d.seq = 0 /\ pc[c] = "idle"
        /\ rows' = rows \union {d} /\ pc' = [pc EXCEPT ![c] = "done"] /\ draft' = draft
    BY <1>8 DEF DirectInsert
  <2> HIDE DEF d
  <2>2. IsFiniteSet(rows')
    BY <2>1, FS_AddElement DEF RowsInv
  <2>3. \A r \in rows : r.id # c
    BY <2>1 DEF RowsInv
  <2> QED
    BY <1>0, <2>1, <2>2, <2>3 DEF RowsInv, TypeOK
<1> QED
  BY <1>1, <1>2, <1>3, <1>4, <1>5, <1>6, <1>7, <1>8 DEF Next, LogStep

LEMMA RowsInvAlways == Spec => []RowsInv
  BY InitRowsInv, StepRowsInv, IInvAlways, PTL DEF Spec

-----------------------------------------------------------------------------
(* verifyChain                                                             *)

LEMMA RowsNumeric ==
  ASSUME IInv
  PROVE  \A r \in rows : r.ts \in Nat /\ r.id \in Nat
<1> SUFFICES ASSUME NEW r \in rows PROVE r.ts \in Nat /\ r.id \in Nat
  OBVIOUS
<1>1. now \in Nat /\ r.id \in Calls /\ r.ts \in 0..now
  BY DEF IInv, TypeOK, RowType
<1>2. r.id \in Nat
  BY <1>1
<1> QED
  BY <1>1, <1>2

LEMMA PositionType ==
  ASSUME NEW S, IsFiniteSet(S), NEW r
  PROVE  Position(r, S) \in Nat \ {0}
<1>1. IsFiniteSet({q \in S : Before(q, r)})
  BY FS_Subset
<1>2. Cardinality({q \in S : Before(q, r)}) \in Nat
  BY <1>1, FS_CardinalityType
<1> QED
  BY <1>2 DEF Position

(* What the loop accepts has the numbers it counted.                       *)
LEMMA AcceptedNumbers ==
  ASSUME NEW S, NEW h, HashesMatch(S, h), NEW r \in S
  PROVE  r.seq = Position(r, S)
  BY DEF HashesMatch, StoredHash, ExpectedHash, Hash

LEMMA AcceptedIsChained ==
  ASSUME NEW S, NEW h, NEW t, IsFiniteSet(S), S \subseteq RowsOf(t), HashesMatch(S, h)
  PROVE  S \subseteq ChainedRows(t)
  BY AcceptedNumbers, PositionType DEF ChainedRows

(* They are 1 to the number of rows: nobody is behind them all, and no two *)
(* chained rows have the same.                                             *)
LEMMA AcceptedIsPrefix ==
  ASSUME IInv, NEW t \in Tenants, NEW S, NEW h, IsFiniteSet(S), S \subseteq RowsOf(t),
         HashesMatch(S, h)
  PROVE  {r.seq : r \in S} = 1..Cardinality(S)
<1> DEFINE n == Cardinality(S)
           f == [r \in S |-> r.seq]
<1>1. n \in Nat
  BY FS_CardinalityType
<1>2. \A r \in S : r.ts \in Nat /\ r.id \in Nat
  BY RowsNumeric DEF RowsOf
<1>3. ASSUME NEW r \in S PROVE r.seq \in 1..n
  <2> DEFINE P == {q \in S : Before(q, r)}
  <2>1. P \in SUBSET (S \ {r})
    BY <1>2 DEF Before
  <2>2. IsFiniteSet(S \ {r}) /\ Cardinality(S \ {r}) = n - 1
    BY FS_RemoveElement
  <2> HIDE DEF P
  <2>3. Cardinality(P) <= n - 1 /\ Cardinality(P) \in Nat
    BY <2>1, <2>2, FS_Subset, FS_CardinalityType
  <2>4. r.seq = Cardinality(P) + 1
    BY AcceptedNumbers DEF Position, P
  <2> QED
    BY <1>1, <2>3, <2>4
<1>4. \A r, q \in S : r.seq = q.seq => r = q
  BY AcceptedIsChained DEF IInv, ChainLinked, Linked
<1>5. f \in Injection(S, 1..n)
  BY <1>3, <1>4 DEF Injection, IsInjective
<1>6. IsFiniteSet(1..n) /\ Cardinality(1..n) = n
  BY <1>1, FS_Interval
<1>7. f \in Surjection(S, 1..n)
  BY <1>5, <1>6, FS_Injection
<1>8. \A i \in 1..n : \E r \in S : r.seq = i
  BY <1>7 DEF Surjection
<1> QED
  BY <1>3, <1>8

(* What verifies is numbered, hence chained, and complete by its count.    *)
LEMMA VerifiedIsWhole ==
  ASSUME IInv, RowsInv, NEW t \in Tenants, NEW S \in SUBSET RowsOf(t), Verifies(S, t)
  PROVE  S = ChainedRows(t)
<1>1. IsFiniteSet(S)
  BY FS_Subset DEF RowsInv, RowsOf
<1>2. S \subseteq ChainedRows(t)
  BY <1>1, AcceptedIsChained DEF Verifies
<1>3. Cardinality(S) \in Nat
  BY <1>1, FS_CardinalityType
<1>4. chain[t].sequence = 0 \/ chain[t].sequence = Cardinality(S)
  BY <1>3, ChainLength DEF Verifies, CountMatches
<1>5. CASE chain[t].sequence = 0
  BY <1>2, <1>5, ChainLength, FS_EmptySet
<1>6. CASE chain[t].sequence = Cardinality(S)
  BY <1>2, <1>6, ChainLength, FS_Subset
<1> QED
  BY <1>2, <1>4, <1>5, <1>6

(* In a chain whose order is that of the timestamps, the position of a row *)
(* is its number.                                                          *)
LEMMA PositionIsNumber ==
  ASSUME IInv, NEW t \in Tenants, InChainOrder(ChainedRows(t)), NEW r \in ChainedRows(t)
  PROVE  Position(r, ChainedRows(t)) = r.seq
<1> DEFINE R == ChainedRows(t)
           n == chain[t].sequence
           P == {q \in R : Before(q, r)}
<1>1. n \in Nat /\ Linked(R, n, chain[t].lastHash)
  BY DEF IInv, TypeOK, ChainLinked
<1>2. \A q \in R : q.seq \in 1..n /\ q.ts \in Nat /\ q.id \in Nat
  BY <1>1, RowsNumeric DEF Linked, ChainedRows, RowsOf
<1>3. InChainOrder(R)
  OBVIOUS
<1>4. r \in R
  OBVIOUS
<1> HIDE DEF R, n
<1>5. \A q, p \in R : q.seq = p.seq => q = p
  BY <1>1 DEF Linked
<1>6. \A q \in R : Before(q, r) <=> q.seq < r.seq
  <2> SUFFICES ASSUME NEW q \in R PROVE Before(q, r) <=> q.seq < r.seq
    OBVIOUS
  <2>1. CASE q.seq < r.seq
    BY <1>3, <1>4, <2>1 DEF InChainOrder
  <2>2. CASE r.seq < q.seq
    BY <1>2, <1>3, <1>4, <2>2 DEF InChainOrder, Before
  <2>3. CASE q = r
    BY <1>2, <1>4, <2>3 DEF Before
  <2> QED
    BY <1>2, <1>4, <1>5, <2>1, <2>2, <2>3
<1>7. r.seq - 1 \in Nat /\ r.seq - 1 < n
  BY <1>1, <1>2, <1>4
<1>8. /\ \A q \in P : q.seq \in 1..(r.seq - 1)
      /\ \A q, p \in P : q.seq = p.seq => q = p
  BY <1>2, <1>4, <1>5, <1>6
<1>9. \A i \in 1..(r.seq - 1) : \E q \in P : q.seq = i
  <2> SUFFICES ASSUME NEW i \in 1..(r.seq - 1) PROVE \E q \in P : q.seq = i
    OBVIOUS
  <2>1. PICK q \in R : q.seq = i
    BY <1>1, <1>7 DEF Linked
  <2> QED
    BY <1>2, <1>4, <1>6, <2>1
<1> HIDE DEF P
<1>10. Cardinality(P) = r.seq - 1
  BY <1>7, <1>8, <1>9, NumberedRows
<1>11. r.seq \in Nat
  BY <1>2, <1>4
<1> QED
  BY <1>10, <1>11 DEF Position, P, R

LEMMA WholeVerifies ==
  ASSUME IInv, NEW t \in Tenants, InChainOrder(ChainedRows(t)), Unaltered(ChainedRows(t))
  PROVE  Verifies(ChainedRows(t), t)
<1> DEFINE R == ChainedRows(t)
           n == chain[t].sequence
<1>1. n \in Nat /\ Linked(R, n, chain[t].lastHash)
  BY DEF IInv, TypeOK, ChainLinked
<1>2. \A r \in R : Position(r, R) = r.seq
  BY PositionIsNumber
<1>3. Cardinality(R) = n
  BY ChainLength
<1>3a. \A r \in R : Given(r.id) = Kept(r.id)
  BY DEF Unaltered
<1> HIDE DEF R, n
<1>4. ASSUME NEW r \in R, r.seq # 1
      PROVE  r.prev = StoredHash(PreviousRow(r, R))
  <2>1. r.seq \in 1..n /\ r.seq - 1 \in 1..n
    BY <1>1, <1>4 DEF Linked
  <2>2. PICK p \in R : p.seq = r.seq - 1
    BY <1>1, <2>1 DEF Linked
  <2>3. \E q \in R : Position(q, R) = Position(r, R) - 1
    BY <1>2, <2>2
  <2>4. PreviousRow(r, R) \in R /\ Position(PreviousRow(r, R), R) = Position(r, R) - 1
    BY <2>3 DEF PreviousRow
  <2>5. r.seq = PreviousRow(r, R).seq + 1
    BY <1>1, <1>2, <2>1, <2>4 DEF Linked
  <2> QED
    BY <1>1, <2>4, <2>5 DEF Linked
<1>5. HashesMatch(R, Genesis)
  <2> SUFFICES ASSUME NEW r \in R
               PROVE  r.prev = IF r.seq = 1 THEN Genesis ELSE StoredHash(PreviousRow(r, R))
    BY <1>2, <1>3a DEF HashesMatch, HashBefore, StoredHash, ExpectedHash, Hash
  <2> QED
    BY <1>1, <1>4 DEF Linked
<1>6. CountMatches(R, t)
  BY <1>3 DEF CountMatches, n
<1> QED
  BY <1>5, <1>6 DEF Verifies, R

(* verifyChain accepts nothing but the whole chain: a lost row or an       *)
(* unchained one is found whatever else is missing. It accepts the whole   *)
(* chain if its timestamps are in order and its payloads are what the      *)
(* Json column gives back.                                                 *)
THEOREM VerifyIsExact == Spec => []VerifyExact
<1>1. IInv /\ RowsInv => VerifyExact
  BY VerifiedIsWhole, WholeVerifies DEF VerifyExact
<1> QED
  BY <1>1, IInvAlways, RowsInvAlways, PTL

(* The rows that verifyChain accepts for a range, where it compares no     *)
(* number of rows, are chained and consecutive, whatever rows are left in  *)
(* the table and with whatever hash the loop began.                        *)
THEOREM RangesHaveNoGap == Spec => []RangeHasNoGap
<1>1. ASSUME IInv, RowsInv PROVE RangeHasNoGap
  <2> SUFFICES ASSUME NEW t \in Tenants, NEW S \in SUBSET RowsOf(t), NEW h, HashesMatch(S, h)
               PROVE  Consecutive({r.seq : r \in S})
    BY DEF RangeHasNoGap
  <2>1. IsFiniteSet(S)
    BY <1>1, FS_Subset DEF RowsInv, RowsOf
  <2>2. {r.seq : r \in S} = 1..Cardinality(S) /\ Cardinality(S) \in Nat
    BY <1>1, <2>1, AcceptedIsPrefix, FS_CardinalityType
  <2> DEFINE n == Cardinality(S)
  <2>3. n \in Nat => Consecutive(1..n)
    BY DEF Consecutive
  <2> QED
    BY <2>2, <2>3
<1> QED
  BY <1>1, IInvAlways, RowsInvAlways, PTL

(* A verifyChain call between its queries.  A scan without `from` starts   *)
(* at the genesis hash, since no row is older than that; what it accepts   *)
(* stays in the table.                                                     *)
ScanInv ==
  /\ verify.phase = "start" =>
       verify.tenant \in Tenants /\ (verify.from = NoDate => verify.start = Genesis)
  /\ verify.phase = "scanned" =>
       /\ verify.tenant \in Tenants /\ verify.scanned \subseteq RowsOf(verify.tenant)
       /\ verify.from = NoDate => HashesMatch(verify.scanned, Genesis)

(* log() and the consumers leave verifyChain alone, and remove no row.     *)
LEMMA LogStepsOnlyAddRows ==
  ASSUME NEW c \in Calls, LogStep(c)
  PROVE  verify' = verify /\ rows \subseteq rows'
  BY DEF LogStep, Begin, AcquireLock, ReadChainState, WriteRowAndState, Commit, Rollback,
         DirectInsert

LEMMA StepScanInv == ASSUME IInv, ScanInv, [Next]_vars PROVE ScanInv'
<1>1. CASE UNCHANGED <<rows, verify>>
  BY <1>1 DEF ScanInv, RowsOf
<1>2. CASE verify' = [phase |-> "idle"]
  BY <1>2 DEF ScanInv
<1>3. ASSUME verify' = verify, rows \subseteq rows' PROVE ScanInv'
  BY <1>3 DEF ScanInv, RowsOf
<1>4. ASSUME NEW t \in Tenants, NEW from, NEW to, VerifyStart(t, from, to)
      PROVE  ScanInv'
  <2> DEFINE prior == {r \in RowsOf(t) : r.ts < from}
             latest == {r \in prior : \A q \in prior : q.ts <= r.ts}
  <2>1. PICK h \in IF latest = {} THEN {Genesis} ELSE {StoredHash(r) : r \in latest} :
          verify' = [phase |-> "start", tenant |-> t, from |-> from, to |-> to, start |-> h]
    BY <1>4 DEF VerifyStart
  <2>2. from = NoDate => latest = {}
    BY DEF NoDate, RowsOf, IInv, TypeOK, RowType
  <2> HIDE DEF latest
  <2>3. from = NoDate => h = Genesis
    BY <2>1, <2>2
  <2> QED
    BY <2>1, <2>3 DEF ScanInv
<1>5. CASE VerifyScan
  <2> DEFINE S == {r \in RowsOf(verify.tenant) : InRange(r, verify.from, verify.to)}
             w == [phase |-> "scanned", tenant |-> verify.tenant,
                   from |-> verify.from, to |-> verify.to, scanned |-> S]
  <2>1. /\ verify.phase = "start" /\ rows' = rows
        /\ \/ verify' = [phase |-> "broken"]
           \/ HashesMatch(S, verify.start) /\ verify' = w
    BY <1>5 DEF VerifyScan
  <2>2. CASE verify' = [phase |-> "broken"]
    BY <2>2 DEF ScanInv
  <2>3. CASE HashesMatch(S, verify.start) /\ verify' = w
    <3>1. /\ w.phase = "scanned" /\ w.tenant = verify.tenant /\ w.from = verify.from
          /\ w.scanned = S /\ S \subseteq RowsOf(verify.tenant)
      OBVIOUS
    <3>2. verify.from = NoDate => HashesMatch(S, Genesis)
      BY <2>1, <2>3 DEF ScanInv
    <3> HIDE DEF S, w
    <3> QED
      BY <2>1, <2>3, <3>1, <3>2
         DEF ScanInv, RowsOf, HashesMatch, HashBefore
  <2> QED
    BY <2>1, <2>2, <2>3
<1>6. CASE VerifyCompare
  BY <1>6 DEF VerifyCompare, ScanInv
<1> QED
  BY <1>1, <1>2, <1>3, <1>4, <1>5, <1>6, LogStepsOnlyAddRows
     DEF Next, vars, Tick, Restart, VerifyStep

LEMMA ScanInvAlways == Spec => []ScanInv
<1>1. Init => ScanInv
  BY DEF Init, ScanInv
<1> QED
  BY <1>1, StepScanInv, IInvAlways, PTL DEF Spec

(* verifyChain answers "valid" to a whole scan only if that is the chain   *)
(* at the time of the answer, though it read the rows before and the       *)
(* chain state after any number of commits.                                *)
THEOREM VerdictsCoverChain == Spec => VerdictCoversChain
<1>1. ASSUME IInv, RowsInv, ScanInv, Next,
             verify.phase = "scanned", verify'.phase = "valid", Whole
      PROVE  verify.scanned = ChainedRows(verify.tenant)
  <2>1. VerifyCompare
    BY <1>1, LogStepsOnlyAddRows DEF Next, Tick, Restart, VerifyStep, VerifyStart, VerifyScan
  <2>2. CountMatches(verify.scanned, verify.tenant)
    BY <1>1, <2>1 DEF VerifyCompare
  <2>3. /\ verify.tenant \in Tenants /\ verify.scanned \subseteq RowsOf(verify.tenant)
        /\ HashesMatch(verify.scanned, Genesis)
    BY <1>1 DEF ScanInv, Whole
  <2> QED
    BY <1>1, <2>2, <2>3, VerifiedIsWhole DEF Verifies
<1>2. IInv /\ RowsInv /\ ScanInv /\ [Next]_vars
        => [ /\ verify.phase = "scanned" /\ verify'.phase = "valid" /\ Whole
             => verify.scanned = ChainedRows(verify.tenant) ]_vars
  BY <1>1
<1> QED
  BY <1>2, IInvAlways, RowsInvAlways, ScanInvAlways, PTL DEF Spec, VerdictCoversChain

-----------------------------------------------------------------------------
(* The lock keys                                                           *)

(* A key fits in the int8 of pg_advisory_xact_lock only if the digest has  *)
(* its top bit clear, and no two digests share a key: what tenants share   *)
(* is at most a digest.                                                    *)
LEMMA LockKeys ==
  ASSUME NEW t \in Tenants, NEW u \in Tenants
  PROVE  /\ LockKey(t) \in 0..(2 * SignBit - 1)
         /\ FitsInt8(LockKey(t)) <=> TenantDigest[t] < SignBit
         /\ LockKey(t) = LockKey(u) <=> TenantDigest[t] = TenantDigest[u]
<1>1. /\ SignBit \in Nat
      /\ TenantDigest[t] \in 0..(2 * SignBit - 1) /\ TenantDigest[u] \in 0..(2 * SignBit - 1)
  BY DigestAssumption
<1> QED
  BY <1>1 DEF LockKey, FitsInt8

(* Who is past the lock, and whatever chain has begun, has a key that fits.*)
KeyInv ==
  /\ \A c \in Calls : pc[c] \in {"locked", "read", "written"} => FitsInt8(LockKey(tenant[c]))
  /\ \A t \in Tenants : chain[t].sequence > 0 => FitsInt8(LockKey(t))

LEMMA StepKeyInv == ASSUME IInv, KeyInv, [Next]_vars PROVE KeyInv'
<1> USE DEF InTransaction
<1>0. TypeOK
  BY DEF IInv
<1>1. CASE UNCHANGED vars \/ Tick \/ VerifyStep
  BY <1>1 DEF vars, Tick, VerifyStep, VerifyStart, VerifyScan, VerifyCompare, KeyInv,
              FitsInt8, LockKey
<1>2. CASE Restart
  BY <1>2 DEF Restart, KeyInv, FitsInt8, LockKey
<1>3. ASSUME NEW c \in Calls,
             \/ \E t \in Tenants : Begin(c, t) \/ DirectInsert(c, t)
             \/ AcquireLock(c) \/ ReadChainState(c) \/ WriteRowAndState(c) \/ Rollback(c)
      PROVE  KeyInv'
  BY <1>0, <1>3
     DEF Begin, DirectInsert, AcquireLock, ReadChainState, WriteRowAndState, Rollback, Forget,
         TypeOK, KeyInv, FitsInt8, LockKey
<1>4. ASSUME NEW c \in Calls, Commit(c) PROVE KeyInv'
  BY <1>0, <1>4 DEF Commit, Forget, TypeOK, KeyInv, FitsInt8, LockKey
<1> QED
  BY <1>1, <1>2, <1>3, <1>4 DEF Next, LogStep

(* Against the comment at audit.service.ts:367 ("Clamp to bigint range     *)
(* acceptable"): a tenant whose digest has the top bit set, one in two,    *)
(* never gets an audit entry by log().                                     *)
THEOREM HalfTheTenantsUnlogged ==
  Spec => [](\A t \in Tenants : TenantDigest[t] >= SignBit => ChainedRows(t) = {})
<1>1. Init => KeyInv
  BY DEF Init, KeyInv
<1>2. IInv /\ KeyInv => \A t \in Tenants : TenantDigest[t] >= SignBit => ChainedRows(t) = {}
  <2> SUFFICES ASSUME IInv, KeyInv, NEW t \in Tenants, TenantDigest[t] >= SignBit
               PROVE  ChainedRows(t) = {}
    OBVIOUS
  <2>1. ~FitsInt8(LockKey(t))
    <3>1. SignBit \in Nat /\ TenantDigest[t] \in Nat
      BY DigestAssumption
    <3> QED
      BY <3>1, LockKeys
  <2>2. chain[t].sequence = 0
    BY <2>1 DEF IInv, TypeOK, KeyInv
  <2> QED
    BY <2>2 DEF IInv, ChainLinked, Linked
<1> QED
  BY <1>1, <1>2, StepKeyInv, IInvAlways, PTL DEF Spec

-----------------------------------------------------------------------------
(* AuditChain implements AppendOnlyLog                                     *)

LEMMA AppendedIs ==
  ASSUME NEW S, NEW n \in Nat, NEW s \in [1..n -> S], NEW w \in [1..(n + 1) -> S], NEW e \in S,
         \A i \in 1..n : w[i] = s[i], w[n + 1] = e
  PROVE  w = Append(s, e)
<1>1. s \in Seq(S) /\ Len(s) = n /\ w \in Seq(S) /\ Len(w) = n + 1
  OBVIOUS
<1>2. /\ Append(s, e) \in Seq(S) /\ Len(Append(s, e)) = n + 1
      /\ \A i \in 1..n : Append(s, e)[i] = s[i]
      /\ Append(s, e)[n + 1] = e
  BY <1>1, AppendProperties
<1>3. \A i \in 1..(n + 1) : w[i] = Append(s, e)[i]
  BY <1>2
<1> QED
  BY <1>1, <1>2, <1>3, SeqEqual

LEMMA RowOfNumber ==
  ASSUME IInv, NEW t \in Tenants, NEW i \in 1..chain[t].sequence
  PROVE  RowAt(t, i) \in ChainedRows(t) /\ RowAt(t, i).seq = i
<1>1. \E r \in ChainedRows(t) : r.seq = i
  BY DEF IInv, ChainLinked, Linked
<1> QED
  BY <1>1 DEF RowAt

(* A commit appends the entry of its call, which is logged nowhere yet.    *)
LEMMA CommitAppends ==
  ASSUME IInv, RowsInv, NEW c \in Calls, Commit(c)
  PROVE  Log!Next
<1> SUFFICES ASSUME NEW d, d = draft[c], NEW u, u = tenant[c], NEW n, n = chain[u].sequence
             PROVE  Log!Next
  OBVIOUS
<1>1. /\ c \in ChainedCalls /\ u \in Tenants /\ d.id = c /\ d.tenant = u /\ d.seq = n + 1
      /\ n \in Nat /\ RowType(d)
  BY DEF Commit, InTransaction, RowsInv, IInv, TypeOK, LockHeld, DraftCurrent
<1>2. /\ rows' = rows \union {d}
      /\ chain'[u].sequence = n + 1
      /\ \A t \in Tenants \ {u} : chain'[t] = chain[t]
  BY <1>1 DEF Commit, IInv, TypeOK
<1>3. /\ ChainedRows(u)' = ChainedRows(u) \union {d}
      /\ \A t \in Tenants \ {u} : ChainedRows(t)' = ChainedRows(t)
  BY <1>1, <1>2 DEF ChainedRows, RowsOf
<1>4. \A t \in Tenants : ChainLog[t] = [i \in 1..chain[t].sequence |-> RowAt(t, i).id]
  BY DEF ChainLog
<1>5. \A t \in Tenants : ChainLog'[t] = [i \in 1..chain'[t].sequence |-> RowAt(t, i)'.id]
  BY DEF ChainLog
<1>6. ASSUME NEW t \in Tenants \ {u} PROVE ChainLog'[t] = ChainLog[t]
  <2>1. \A i : RowAt(t, i)' = RowAt(t, i)
    BY <1>3 DEF RowAt
  <2>2. /\ ChainLog[t] = [i \in 1..chain[t].sequence |-> RowAt(t, i).id]
        /\ ChainLog'[t] = [i \in 1..chain[t].sequence |-> RowAt(t, i)'.id]
    BY <1>2, <1>4, <1>5
  <2> QED
    BY <2>1, <2>2, Zenon
<1>7. ChainLog'[u] = Append(ChainLog[u], c)
  <2>1. ASSUME NEW i \in 1..n PROVE RowAt(u, i)' = RowAt(u, i)
    <3>1. \A r \in ChainedRows(u) \union {d} : r.seq = i <=> r \in ChainedRows(u) /\ r.seq = i
      BY <1>1
    <3> QED
      BY <1>3, <3>1 DEF RowAt
  <2>2. RowAt(u, n + 1)' = d
    <3>1. \A r \in ChainedRows(u) : r.seq # n + 1
      BY <1>1 DEF IInv, ChainLinked, Linked
    <3> QED
      BY <1>1, <1>3, <3>1 DEF RowAt
  <2>3. /\ ChainLog[u] = [i \in 1..n |-> RowAt(u, i).id]
        /\ ChainLog'[u] = [i \in 1..(n + 1) |-> RowAt(u, i)'.id]
    BY <1>1, <1>2, <1>4, <1>5
  <2>4. \A i \in 1..n : ChainLog'[u][i] = ChainLog[u][i]
    BY <1>1, <2>1, <2>3
  <2>5. ChainLog'[u][n + 1] = c
    BY <1>1, <2>2, <2>3
  <2>6. ChainLog[u] \in [1..n -> Calls]
    <3>1. \A i \in 1..n : RowAt(u, i) \in rows
      BY <1>1, RowOfNumber DEF ChainedRows, RowsOf
    <3>2. \A i \in 1..n : RowAt(u, i).id \in Calls
      BY <3>1 DEF IInv, TypeOK, RowType
    <3> QED
      BY <2>3, <3>2
  <2>7. ChainLog'[u] \in [1..(n + 1) -> Calls]
    <3>1. \A i \in 1..n : ChainLog'[u][i] \in Calls
      BY <2>4, <2>6
    <3>2. \A i \in 1..(n + 1) : ChainLog'[u][i] \in Calls
      BY <1>1, <2>5, <3>1
    <3> QED
      BY <2>3, <3>2
  <2> DEFINE s == ChainLog[u]
             w == ChainLog'[u]
  <2>8. /\ n \in Nat /\ s \in [1..n -> Calls] /\ w \in [1..(n + 1) -> Calls] /\ w[n + 1] = c
        /\ \A i \in 1..n : w[i] = s[i]
    BY <1>1, <2>4, <2>5, <2>6, <2>7
  <2> HIDE DEF s, w
  <2>9. w = Append(s, c)
    BY <2>8, AppendedIs
  <2> QED
    BY <2>9 DEF s, w
<1>8. c \notin Log!Logged
  <2>1. \A t \in Tenants : \A i \in 1..chain[t].sequence : RowAt(t, i).id # c
    <3>1. \A r \in rows : r.id # c
      BY DEF RowsInv, Commit
    <3> QED
      BY <3>1, RowOfNumber DEF ChainedRows, RowsOf
  <2>2. ASSUME NEW t \in Tenants PROVE c \notin Log!Range(ChainLog[t])
    <3>1. ChainLog[t] = [i \in 1..chain[t].sequence |-> RowAt(t, i).id]
      BY <1>4
    <3>2. \A i \in DOMAIN ChainLog[t] : ChainLog[t][i] # c
      BY <2>1, <3>1
    <3> QED
      BY <3>2 DEF Log!Range
  <2> QED
    BY <2>2 DEF Log!Logged
<1>9. Log!AppendEntry(u, c)
  BY <1>1, <1>6, <1>7 DEF Log!AppendEntry, ChainLog
<1> QED
  BY <1>1, <1>8, <1>9 DEF Log!Next

(* Every step appends one new entry to the log of one tenant, or leaves    *)
(* all logs as they are.                                                   *)
THEOREM Refinement == Spec => LogRefinement
<1>1. Init => Log!Init
  BY DEF Init, Log!Init, ChainLog
<1>2. ASSUME IInv, RowsInv, [Next]_vars PROVE [Log!Next]_ChainLog
  <2>1. CASE UNCHANGED <<rows, chain>>
    BY <2>1 DEF ChainLog, RowAt, ChainedRows, RowsOf
  <2>2. ASSUME NEW c \in Calls, NEW t \in Tenants, DirectInsert(c, t)
        PROVE  UNCHANGED ChainLog
    <3>1. \A u \in Tenants : ChainedRows(u)' = ChainedRows(u)
      BY <2>2 DEF DirectInsert, ChainedRows, RowsOf
    <3>2. \A u \in Tenants : \A i : RowAt(u, i)' = RowAt(u, i)
      BY <3>1 DEF RowAt
    <3> QED
      BY <2>2, <3>2 DEF DirectInsert, ChainLog
  <2> QED
    BY <1>2, <2>1, <2>2, CommitAppends
       DEF Next, vars, Tick, Restart, VerifyStep, VerifyStart, VerifyScan, VerifyCompare, LogStep,
           Begin, AcquireLock, ReadChainState, WriteRowAndState, Rollback
<1> QED
  BY <1>1, <1>2, IInvAlways, RowsInvAlways, PTL DEF Spec, LogRefinement, Log!Spec
=============================================================================
