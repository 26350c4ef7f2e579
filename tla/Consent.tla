------------------------------- MODULE Consent -------------------------------
(***************************************************************************)
(* modules/consent/consent.service.ts for one tenant and one notice: calls *)
(* that record a decision, withdraw consent and edit the notice, at any    *)
(* number of API processes.  No call has a transaction: each await is one  *)
(* statement, and between two of them every other call can run.            *)
(*                                                                         *)
(* A row is identified by the call that inserted it: a data subject by the *)
(* call that did not find one, a consent record by its call and purpose.   *)
(* PostgreSQL (external) executes each statement atomically and has no     *)
(* unique index on (tenantId, emailHash).  A notice's purposes stand for   *)
(* its purposes and its content, which share the version; its status is    *)
(* left out: no call of this module reads it.                              *)
(***************************************************************************)
EXTENDS Naturals

CONSTANTS
  Recorders,    \* calls of recordConsent
  Revokers,     \* calls of revokeConsent
  Requesters,   \* DSAR requests, whose findOrCreateDataSubject
                \*   (dsar.service.ts) does the same with the same rows
  Updaters,     \* calls of updateNotice that change content or purposes
  Purposes,     \* processing purposes
  Identifiers,  \* the identifiers people use, as they write them
  People,       \* who they are
  PersonOf,     \* PersonOf[i]: the person, i in lower case without blanks
  None          \* no person, no hash, no data subject

Askers == Recorders \union Revokers \union Requesters
Calls == Askers \union Updaters

ASSUME PersonAssumption == PersonOf \in [Identifiers -> People] /\ None \notin People
ASSUME CallAssumption ==
  /\ Recorders \intersect Revokers = {} /\ Askers \intersect Updaters = {}
  /\ Requesters \intersect (Recorders \union Revokers) = {}
  /\ None \notin Askers

VARIABLES
  subjects,  \* subjects[c]: what emailHash is the hash of, in the
             \*   DataSubject row c inserted
  notice,    \* the ConsentNotice row
  ledger,    \* ledger[row]: the ConsentRecord of a call for a purpose
  call,      \* call[c]: how far call c is and what it holds
  raced,     \* history: people whose first contacts overlapped
  lost       \* history: was a notice written that was not the one read?

vars == <<subjects, notice, ledger, call, raced, lost>>

Rows == Recorders \X Purposes
NoRow == [subject |-> None, version |-> 0, status |-> "none"]

(* seen: the notice as it was read; left: the inserts under way; listed:   *)
(* the records found granted.  person and before are history: whose call   *)
(* it is, and which records of that person were granted when it came.      *)
Unread == [version |-> 0, purposes |-> {}]
New == [stage |-> "new", person |-> None, hash |-> None, subject |-> None,
        seen |-> Unread, status |-> "none", left |-> {}, listed |-> {}, before |-> {}]

Init ==
  /\ subjects = [c \in Askers |-> None]
  /\ \E purposes \in SUBSET Purposes : notice = [version |-> 1, purposes |-> purposes]
  /\ ledger = [row \in Rows |-> NoRow]
  /\ call = [c \in Calls |-> New]
  /\ raced = {}
  /\ lost = FALSE

-----------------------------------------------------------------------------
(* findOrCreateDataSubject                                                 *)

(* Mutant: the identifier is hashed as it was written.                     *)
Hashed_AsWritten(i) == i

(* What is hashed: the identifier in lower case and without outer blanks.  *)
Hashed(i) == PersonOf[i]

Granted(row) == ledger[row].status = "granted"

(* findFirst has no order: any row with the hash.  A call that comes while *)
(* another has found none for the same person makes the two race.          *)
FindSubject(c, i) ==
  LET found == {s \in Askers : subjects[s] = Hashed(i)}
      before == {row \in Rows : Granted(row) /\ call[row[1]].person = PersonOf[i]}
      came == [New EXCEPT !.person = PersonOf[i],
                          !.before = IF c \in Revokers THEN before ELSE {}]
      creating == {d \in Askers : call[d].stage = "missing" /\ call[d].person = PersonOf[i]}
  IN /\ call[c] = New
     /\ \/ /\ \E s \in found :
               call' = [call EXCEPT ![c] = [came EXCEPT !.stage = "known", !.subject = s]]
           /\ UNCHANGED raced
        \/ /\ found = {}
           /\ call' = [call EXCEPT ![c] = [came EXCEPT !.stage = "missing", !.hash = Hashed(i)]]
           /\ raced' = IF creating = {} THEN raced ELSE raced \union {PersonOf[i]}
     /\ UNCHANGED <<subjects, notice, ledger, lost>>

(* No row was found, so one is inserted; a DSAR request has then no more   *)
(* to do here.                                                             *)
CreateSubject(c) ==
  /\ call[c].stage = "missing"
  /\ subjects' = [subjects EXCEPT ![c] = call[c].hash]
  /\ call' = [call EXCEPT ![c].stage = "known", ![c].hash = None, ![c].subject = c]
  /\ UNCHANGED <<notice, ledger, raced, lost>>

(* The insert fails, or the process dies.  A call that fails later, or has *)
(* its process die, is one that takes no further step: nothing makes it,   *)
(* nothing is undone, and inserts already sent may still be executed, for  *)
(* Promise.all does not recall them.                                       *)
FailToCreate(c) ==
  /\ call[c].stage = "missing"
  /\ call' = [call EXCEPT ![c].stage = "failed", ![c].hash = None]
  /\ UNCHANGED <<subjects, notice, ledger, raced, lost>>

-----------------------------------------------------------------------------
(* recordConsent                                                           *)

(* A notice without purposes is refused.                                   *)
ReadNotice(r, status) ==
  /\ call[r].stage = "known"
  /\ IF notice.purposes = {}
     THEN call' = [call EXCEPT ![r].stage = "failed", ![r].subject = None]
     ELSE call' = [call EXCEPT ![r].stage = "storing", ![r].status = status,
                               ![r].seen = notice, ![r].left = notice.purposes]
  /\ UNCHANGED <<subjects, notice, ledger, raced, lost>>

(* One of the parallel inserts.                                            *)
InsertRecord(r, q) ==
  /\ q \in call[r].left
  /\ ledger' = [ledger EXCEPT ![<<r, q>>] =
       [subject |-> call[r].subject, version |-> call[r].seen.version,
        status |-> call[r].status]]
  /\ call' = [call EXCEPT ![r].left = @ \ {q}]
  /\ UNCHANGED <<subjects, notice, raced, lost>>

(* Everything is stored, the audit entry too, and consent.granted is sent. *)
(* (A call of the public endpoint never gets here: its actorId,            *)
(* 'system-public', is no uuid, and the audit entry cannot be written.)    *)
FinishRecord(r) ==
  /\ call[r].stage = "storing" /\ call[r].left = {}
  /\ call' = [call EXCEPT ![r].stage = "done"]
  /\ UNCHANGED <<subjects, notice, ledger, raced, lost>>

-----------------------------------------------------------------------------
(* revokeConsent                                                           *)

Active(v) == {row \in Rows : Granted(row) /\ ledger[row].subject = call[v].subject}

FindActive(v) ==
  /\ call[v].stage = "known"
  /\ call' = [call EXCEPT ![v].stage = IF Active(v) = {} THEN "not_found" ELSE "active",
                          ![v].listed = Active(v)]
  /\ UNCHANGED <<subjects, notice, ledger, raced, lost>>

(* Mutants: only the records of the notice's current version; every record *)
(* of the data subject, whatever its status.                               *)
Revoked_CurrentVersion(v) ==
  {row \in Rows : /\ Granted(row) /\ ledger[row].subject = call[v].subject
                  /\ ledger[row].version = notice.version}
Revoked_AnyStatus(v) ==
  {row \in Rows : ledger[row] # NoRow /\ ledger[row].subject = call[v].subject}

(* The where of updateMany: what is granted now, not what was read.        *)
Revoked(v) == Active(v)

RevokeAll(v) ==
  /\ call[v].stage = "active"
  /\ ledger' = [row \in Rows |->
       IF row \in Revoked(v) THEN [ledger[row] EXCEPT !.status = "revoked"] ELSE ledger[row]]
  /\ call' = [call EXCEPT ![v].stage = "revoked"]
  /\ UNCHANGED <<subjects, notice, raced, lost>>

(* The audit entry is written and consent.revoked sent, with what FindActive *)
(* listed.                                                                 *)
FinishRevoke(v) ==
  /\ call[v].stage = "revoked"
  /\ call' = [call EXCEPT ![v].stage = "done"]
  /\ UNCHANGED <<subjects, notice, ledger, raced, lost>>

-----------------------------------------------------------------------------
(* updateNotice                                                            *)

ReadForUpdate(u) ==
  /\ call[u].stage = "new"
  /\ call' = [call EXCEPT ![u].stage = "editing", ![u].seen = notice]
  /\ UNCHANGED <<subjects, notice, ledger, raced, lost>>

(* Mutant: only a change of content bumps the version.                     *)
NextVersion_ContentOnly(u, purposes) ==
  call[u].seen.version + (IF purposes = call[u].seen.purposes THEN 1 ELSE 0)

NextVersion(u, purposes) == call[u].seen.version + 1

(* The version written follows the one read, whatever is there by now.  An *)
(* update of the content or the purposes alone leaves the other as it is   *)
(* by now; what results is one of the choices.                             *)
WriteNotice(u, purposes) ==
  /\ call[u].stage = "editing"
  /\ notice' = [version |-> NextVersion(u, purposes), purposes |-> purposes]
  /\ lost' = (lost \/ notice # call[u].seen)
  /\ call' = [call EXCEPT ![u].stage = "done", ![u].seen = Unread]
  /\ UNCHANGED <<subjects, ledger, raced>>

-----------------------------------------------------------------------------
Record(r) ==
  \/ \E status \in {"granted", "denied"} : ReadNotice(r, status)
  \/ \E q \in Purposes : InsertRecord(r, q)
  \/ FinishRecord(r)

Revoke(v) == FindActive(v) \/ RevokeAll(v) \/ FinishRevoke(v)

Update(u) == ReadForUpdate(u) \/ \E purposes \in SUBSET Purposes : WriteNotice(u, purposes)

Next ==
  \/ \E c \in Askers, i \in Identifiers : FindSubject(c, i)
  \/ \E c \in Askers : CreateSubject(c) \/ FailToCreate(c)
  \/ \E r \in Recorders : Record(r)
  \/ \E v \in Revokers : Revoke(v)
  \/ \E u \in Updaters : Update(u)

Spec == Init /\ [][Next]_vars

-----------------------------------------------------------------------------
Notices == [version : Nat, purposes : SUBSET Purposes]

TypeOK ==
  /\ subjects \in [Askers -> People \union {None}]
  /\ notice \in Notices
  /\ ledger \in [Rows ->
       [subject : Askers \union {None}, version : Nat,
        status : {"none", "granted", "denied", "revoked"}]]
  /\ call \in [Calls ->
       [stage : {"new", "missing", "known", "storing", "active", "revoked",
                 "editing", "done", "not_found", "failed"},
        person : People \union {None}, hash : People \union {None},
        subject : Askers \union {None}, seen : Notices, status : {"none", "granted", "denied"},
        left : SUBSET Purposes, listed : SUBSET Rows, before : SUBSET Rows]]
  /\ raced \subseteq People
  /\ lost \in BOOLEAN

(* A withdrawal that was answered, "done" or "nothing to revoke", leaves   *)
(* nothing granted that was granted when it came, for ever, whatever was   *)
(* recorded, edited or withdrawn meanwhile: if the person has one data     *)
(* subject row.  Of two rows (see DuplicatesOnlyByRace) it reaches one.    *)
Answered(v) == call[v].stage \in {"done", "not_found"}
WithdrawalTakesEffect ==
  \A v \in Revokers :
    Answered(v) /\ call[v].person \notin raced =>
      \A row \in call[v].before : ~Granted(row)

(* A person gets a second data subject row only if two calls were between  *)
(* their lookup and their insert at once, however the identifier is        *)
(* written and whichever calls fail.                                       *)
DuplicatesOnlyByRace ==
  \A c, d \in Askers :
    c # d /\ None \notin {subjects[c], subjects[d]} /\ call[c].person = call[d].person =>
      call[c].person \in raced

(* A version number names one text: two calls that recorded consent to the *)
(* same version read the same purposes, unless an update overwrote another *)
(* one it had not seen.                                                    *)
VersionNamesPurposes ==
  ~lost =>
    \A r1, r2 \in Recorders :
      call[r1].seen.version = call[r2].seen.version => call[r1].seen = call[r2].seen

(* What the events say is so and stays so: all that consent.revoked lists  *)
(* is revoked, and all the purposes of consent.granted have their record.  *)
EventsTrue ==
  /\ \A v \in Revokers :
       call[v].stage = "done" => \A row \in call[v].listed : ledger[row].status = "revoked"
  /\ \A r \in Recorders :
       call[r].stage = "done" => \A q \in call[r].seen.purposes : ledger[<<r, q>>] # NoRow

(* No record disappears, and a status changes from granted to revoked      *)
(* only: a refusal is never turned into a withdrawn consent.               *)
LedgerKept ==
  [][\A row \in Rows :
       ledger[row] # NoRow /\ ledger'[row] # ledger[row] =>
         Granted(row) /\ ledger'[row] = [ledger[row] EXCEPT !.status = "revoked"]]_vars
=============================================================================
