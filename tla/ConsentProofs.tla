---------------------------- MODULE ConsentProofs ----------------------------
(***************************************************************************)
(* Consent for any number of calls, purposes, people and ways they write   *)
(* their identifiers.  SubjectInv and RaceInv say what the data subject    *)
(* rows are and when there can be two of a person; RecordInv what the      *)
(* ledger's rows are; WithdrawInv, relative to these, what a revocation    *)
(* has reached.                                                            *)
(***************************************************************************)
EXTENDS Consent, TLAPS

(* A row has the hash of the person whose call inserted it, and a call     *)
(* that goes on works with a row of its person.                            *)
SubjectInv ==
  \A c \in Askers :
    /\ call[c].stage = "new" => call[c].person = None /\ subjects[c] = None
    /\ call[c].stage = "missing" =>
         subjects[c] = None /\ call[c].hash = call[c].person /\ call[c].person # None
    /\ call[c].stage \in {"known", "storing", "active", "revoked"} => call[c].subject # None
    /\ subjects[c] # None => subjects[c] = call[c].person
    /\ call[c].subject # None =>
         subjects[call[c].subject] = call[c].person /\ call[c].person # None

(* Two calls of one person that inserted a row, or will, raced.            *)
Inserting(c) == subjects[c] # None \/ call[c].stage = "missing"
RaceInv ==
  \A c, d \in Askers :
    c # d /\ Inserting(c) /\ Inserting(d) /\ call[c].person = call[d].person =>
      call[c].person \in raced

(* A record was inserted once, by a call that has reached its inserts, for *)
(* the data subject of that call; what is not inserted is still left to.   *)
RecordInv ==
  /\ \A row \in Rows : ledger[row] # NoRow =>
       /\ call[row[1]].stage \in {"storing", "done"} /\ row[2] \notin call[row[1]].left
       /\ call[row[1]].subject # None /\ ledger[row].subject = call[row[1]].subject
  /\ \A r \in Recorders : call[r].left # {} => call[r].stage = "storing"
  /\ \A r \in Recorders, q \in Purposes :
       call[r].stage \in {"storing", "done"} /\ q \in call[r].seen.purposes =>
         q \in call[r].left \/ ledger[<<r, q>>] # NoRow

(* What was granted when a revocation came is a record of its person; past *)
(* the update, nothing of it is granted, and what was listed is revoked.   *)
WithdrawInv ==
  \A v \in Revokers :
    /\ \A row \in call[v].before :
         ledger[row] # NoRow /\ call[row[1]].person = call[v].person
    /\ call[v].stage \in {"revoked", "done", "not_found"} /\ call[v].person \notin raced =>
         \A row \in call[v].before : ~Granted(row)
    /\ call[v].stage = "active" => \A row \in call[v].listed :
         ledger[row].subject = call[v].subject /\ ledger[row].status \in {"granted", "revoked"}
    /\ call[v].stage \in {"revoked", "done"} =>
         \A row \in call[v].listed : ledger[row].status = "revoked"

(* As long as no update was lost, what was read under the notice's version *)
(* is the notice, and what was read before has a lower version.            *)
VersionInv ==
  /\ notice.version > 0
  /\ ~lost =>
       /\ \A r \in Recorders :
            /\ call[r].seen.version <= notice.version
            /\ call[r].seen.version = notice.version => call[r].seen = notice
       /\ VersionNamesPurposes

-----------------------------------------------------------------------------
(* Every variable keeps its type.                                          *)
Stages == {"new", "missing", "known", "storing", "active", "revoked",
           "editing", "done", "not_found", "failed"}
Records == [subject : Askers \union {None}, version : Nat,
            status : {"none", "granted", "denied", "revoked"}]
States ==
  [stage : Stages, person : People \union {None}, hash : People \union {None},
   subject : Askers \union {None}, seen : Notices, status : {"none", "granted", "denied"},
   left : SUBSET Purposes, listed : SUBSET Rows, before : SUBSET Rows]

LEMMA TypeParts ==
  /\ TypeOK <=>
       /\ subjects \in [Askers -> People \union {None}] /\ notice \in Notices
       /\ ledger \in [Rows -> Records] /\ call \in [Calls -> States]
       /\ raced \subseteq People /\ lost \in BOOLEAN
  /\ TypeOK' <=>
       /\ subjects' \in [Askers -> People \union {None}] /\ notice' \in Notices
       /\ ledger' \in [Rows -> Records] /\ call' \in [Calls -> States]
       /\ raced' \subseteq People /\ lost' \in BOOLEAN
BY DEF TypeOK, Stages, Records, States

LEMMA TypeInitially == Init => TypeOK
<1> SUFFICES ASSUME Init PROVE TypeOK OBVIOUS
<1>1. notice \in Notices BY DEF Init, Notices
<1>2. New \in States BY DEF New, Unread, States, Stages, Notices
<1>3. NoRow \in Records BY DEF NoRow, Records
<1> QED BY <1>1, <1>2, <1>3, TypeParts DEF Init

LEMMA TypeInductive == TypeOK /\ [Next]_vars => TypeOK'
<1> SUFFICES ASSUME TypeOK, [Next]_vars PROVE TypeOK' OBVIOUS
<1>0. /\ subjects \in [Askers -> People \union {None}] /\ notice \in Notices
      /\ ledger \in [Rows -> Records] /\ call \in [Calls -> States]
      /\ raced \subseteq People /\ lost \in BOOLEAN
  BY TypeParts
<1>1. ASSUME NEW c \in Askers, NEW i \in Identifiers, FindSubject(c, i) PROVE TypeOK'
  <2> DEFINE before == {row \in Rows : Granted(row) /\ call[row[1]].person = PersonOf[i]}
  <2> DEFINE came == [New EXCEPT !.person = PersonOf[i],
                                 !.before = IF c \in Revokers THEN before ELSE {}]
  <2>1. PersonOf[i] \in People BY PersonAssumption
  <2>2. came \in States
    BY <2>1 DEF New, Unread, States, Stages, Notices
  <2> HIDE DEF came
  <2>3. \A s \in Askers : [came EXCEPT !.stage = "known", !.subject = s] \in States
    BY <2>2 DEF States, Stages
  <2>4. [came EXCEPT !.stage = "missing", !.hash = Hashed(i)] \in States
    BY <2>1, <2>2 DEF States, Stages, Hashed
  <2>5. \/ \E s \in Askers :
              call' = [call EXCEPT ![c] = [came EXCEPT !.stage = "known", !.subject = s]]
        \/ call' = [call EXCEPT ![c] = [came EXCEPT !.stage = "missing", !.hash = Hashed(i)]]
    BY <1>1 DEF FindSubject, came
  <2>6. call' \in [Calls -> States] BY <1>0, <2>3, <2>4, <2>5 DEF Calls
  <2>7. raced' \subseteq People BY <1>1, <1>0, <2>1 DEF FindSubject
  <2> QED BY <1>1, <1>0, <2>6, <2>7, TypeParts DEF FindSubject
<1>2. ASSUME NEW c \in Askers, CreateSubject(c) PROVE TypeOK'
  <2>1. call[c] \in States BY <1>0 DEF Calls
  <2>2. [call[c] EXCEPT !.stage = "known", !.hash = None, !.subject = c] \in States
    BY <2>1 DEF States, Stages
  <2>3. call' \in [Calls -> States] BY <1>2, <1>0, <2>2 DEF CreateSubject, Calls
  <2>4. call[c].hash \in People \union {None} BY <2>1 DEF States
  <2> QED BY <1>2, <1>0, <2>3, <2>4, TypeParts DEF CreateSubject
<1>3. ASSUME NEW c \in Askers, FailToCreate(c) PROVE TypeOK'
  <2>1. call[c] \in States BY <1>0 DEF Calls
  <2>2. [call[c] EXCEPT !.stage = "failed", !.hash = None] \in States
    BY <2>1 DEF States, Stages
  <2>3. call' \in [Calls -> States] BY <1>3, <1>0, <2>2 DEF FailToCreate, Calls
  <2> QED BY <1>3, <1>0, <2>3, TypeParts DEF FailToCreate
<1>4. ASSUME NEW r \in Recorders, NEW status \in {"granted", "denied"}, ReadNotice(r, status)
      PROVE  TypeOK'
  <2>1. call[r] \in States /\ notice \in Notices /\ notice.purposes \in SUBSET Purposes
    BY <1>0 DEF Calls, Askers, Notices
  <2>2. [call[r] EXCEPT !.stage = "failed", !.subject = None] \in States
    BY <2>1 DEF States, Stages
  <2>3. [call[r] EXCEPT !.stage = "storing", !.status = status] \in States
    BY <2>1 DEF States, Stages
  <2>4. \A state \in States :
          [state EXCEPT !.seen = notice, !.left = notice.purposes] \in States
    BY <2>1 DEF States
  <2>5. call' \in [Calls -> States]
    BY <1>4, <1>0, <2>2, <2>3, <2>4 DEF ReadNotice, Calls, Askers
  <2> QED BY <1>4, <1>0, <2>5, TypeParts DEF ReadNotice
<1>5. ASSUME NEW r \in Recorders, NEW q \in Purposes, InsertRecord(r, q) PROVE TypeOK'
  <2>1. call[r] \in States BY <1>0 DEF Calls, Askers
  <2>2. [call[r] EXCEPT !.left = @ \ {q}] \in States BY <2>1 DEF States
  <2>3. call' \in [Calls -> States] BY <1>5, <1>0, <2>2 DEF InsertRecord, Calls, Askers
  <2>4. [subject |-> call[r].subject, version |-> call[r].seen.version,
         status |-> call[r].status] \in Records
    BY <2>1 DEF States, Notices, Records
  <2>5. ledger' \in [Rows -> Records] BY <1>5, <1>0, <2>4 DEF InsertRecord
  <2> QED BY <1>5, <1>0, <2>3, <2>5, TypeParts DEF InsertRecord
<1>6. ASSUME NEW r \in Recorders, FinishRecord(r) PROVE TypeOK'
  <2>1. [call[r] EXCEPT !.stage = "done"] \in States BY <1>0 DEF States, Stages, Calls, Askers
  <2> QED BY <1>6, <1>0, <2>1, TypeParts DEF FinishRecord, Calls, Askers
<1>7. ASSUME NEW v \in Revokers, FindActive(v) PROVE TypeOK'
  <2>1. Active(v) \in SUBSET Rows BY DEF Active
  <2>2. \A stage \in {"not_found", "active"} :
          [call[v] EXCEPT !.stage = stage, !.listed = Active(v)] \in States
    <3>1. call[v] \in States BY <1>0 DEF Calls, Askers
    <3> QED BY <2>1, <3>1 DEF States, Stages
  <2>3. call' \in [Calls -> States] BY <1>7, <1>0, <2>2 DEF FindActive, Calls, Askers
  <2> QED BY <1>7, <1>0, <2>3, TypeParts DEF FindActive
<1>8. ASSUME NEW v \in Revokers, RevokeAll(v) PROVE TypeOK'
  <2>1. [call[v] EXCEPT !.stage = "revoked"] \in States BY <1>0 DEF States, Stages, Calls, Askers
  <2>2. \A row \in Rows : [ledger[row] EXCEPT !.status = "revoked"] \in Records
    BY <1>0 DEF Records
  <2>3. ledger' \in [Rows -> Records] BY <1>8, <1>0, <2>2 DEF RevokeAll
  <2> QED BY <1>8, <1>0, <2>1, <2>3, TypeParts DEF RevokeAll, Calls, Askers
<1>9. ASSUME NEW v \in Revokers, FinishRevoke(v) PROVE TypeOK'
  <2>1. [call[v] EXCEPT !.stage = "done"] \in States BY <1>0 DEF States, Stages, Calls, Askers
  <2> QED BY <1>9, <1>0, <2>1, TypeParts DEF FinishRevoke, Calls, Askers
<1>10. ASSUME NEW u \in Updaters, ReadForUpdate(u) PROVE TypeOK'
  <2>1. call[u] \in States BY <1>0 DEF Calls
  <2>2. [call[u] EXCEPT !.stage = "editing", !.seen = notice] \in States
    BY <1>0, <2>1 DEF States, Stages
  <2>3. call' \in [Calls -> States] BY <1>10, <1>0, <2>2 DEF ReadForUpdate, Calls
  <2> QED BY <1>10, <1>0, <2>3, TypeParts DEF ReadForUpdate
<1>11. ASSUME NEW u \in Updaters, NEW purposes \in SUBSET Purposes, WriteNotice(u, purposes)
       PROVE  TypeOK'
  <2>1. call[u] \in States BY <1>0 DEF Calls
  <2>2. NextVersion(u, purposes) \in Nat BY <2>1 DEF NextVersion, States, Notices
  <2>3. Unread \in Notices BY DEF Unread, Notices
  <2>4. [call[u] EXCEPT !.stage = "done", !.seen = Unread] \in States
    BY <2>1, <2>3 DEF States, Stages
  <2>5. call' \in [Calls -> States] BY <1>11, <1>0, <2>4 DEF WriteNotice, Calls
  <2>6. notice' \in Notices BY <1>11, <2>2 DEF WriteNotice, Notices
  <2>7. lost' \in BOOLEAN BY <1>11 DEF WriteNotice
  <2> QED BY <1>11, <1>0, <2>5, <2>6, <2>7, TypeParts DEF WriteNotice
<1>12. CASE UNCHANGED vars BY <1>12, <1>0, TypeParts DEF vars
<1> QED
  BY <1>1, <1>2, <1>3, <1>4, <1>5, <1>6, <1>7, <1>8, <1>9, <1>10, <1>11, <1>12
  DEF Next, Record, Revoke, Update

(* All the values the model's variables take are of the expected kind.     *)
THEOREM TypeCorrect == Spec => []TypeOK
BY TypeInitially, TypeInductive, PTL DEF Spec

-----------------------------------------------------------------------------
(* The data subject rows.                                                  *)
LEMMA SubjectInitially == Init => SubjectInv /\ RaceInv
BY DEF Init, SubjectInv, RaceInv, Inserting, New, Calls

LEMMA SubjectInductive == TypeOK /\ SubjectInv /\ RaceInv /\ [Next]_vars => (SubjectInv /\ RaceInv)'
<1> SUFFICES ASSUME TypeOK, SubjectInv, RaceInv, [Next]_vars PROVE (SubjectInv /\ RaceInv)' OBVIOUS
<1>0. /\ subjects \in [Askers -> People \union {None}] /\ call \in [Calls -> States]
      /\ Askers \subseteq Calls /\ Recorders \subseteq Askers /\ Revokers \subseteq Askers
      /\ Askers \intersect Updaters = {} /\ None \notin Askers
  BY TypeParts, CallAssumption DEF Calls, Askers
(* Past the creation of its data subject a call disturbs neither.          *)
<1>1. ASSUME UNCHANGED <<subjects, raced>>,
             \A c \in Askers :
               call'[c] = call[c]
               \/ /\ call[c].stage \notin {"new", "missing"} /\ call'[c].stage \notin {"new", "missing"}
                  /\ call'[c].person = call[c].person
                  /\ \/ call'[c].subject = call[c].subject /\ call[c].subject # None
                     \/ call'[c].subject = call[c].subject
                        /\ call'[c].stage \notin {"known", "storing", "active", "revoked"}
                     \/ call'[c].subject = None /\ call'[c].stage = "failed"
      PROVE  (SubjectInv /\ RaceInv)'
  BY <1>1 DEF SubjectInv, RaceInv, Inserting
<1>2. ASSUME NEW c \in Askers, NEW i \in Identifiers, FindSubject(c, i)
      PROVE  (SubjectInv /\ RaceInv)'
  <2> DEFINE before == {row \in Rows : Granted(row) /\ call[row[1]].person = PersonOf[i]}
  <2> DEFINE came == [New EXCEPT !.person = PersonOf[i],
                                 !.before = IF c \in Revokers THEN before ELSE {}]
  <2>1. /\ call[c].stage = "new" /\ call[c].person = None /\ subjects[c] = None
        /\ PersonOf[i] \in People /\ PersonOf[i] # None
    <3>1. call[c] = New BY <1>2 DEF FindSubject
    <3>2. call[c].stage = "new" /\ call[c].person = None BY <3>1 DEF New
    <3> QED BY <3>2, PersonAssumption DEF SubjectInv
  <2>2. came.person = PersonOf[i] /\ came.subject = None BY DEF New
  <2>3. ASSUME NEW s \in Askers, subjects[s] = Hashed(i), UNCHANGED raced,
               call' = [call EXCEPT ![c] = [came EXCEPT !.stage = "known", !.subject = s]]
        PROVE  (SubjectInv /\ RaceInv)'
    <3>1. /\ call'[c].stage = "known" /\ call'[c].person = PersonOf[i] /\ call'[c].subject = s
          /\ \A d \in Askers : d # c => call'[d] = call[d]
      BY <2>3, <1>0 DEF New
    <3>2. subjects' = subjects BY <1>2 DEF FindSubject
    <3>3. SubjectInv' BY <3>1, <3>2, <2>1, <2>3, <1>0 DEF SubjectInv, Hashed
    <3>4. RaceInv' BY <3>1, <3>2, <2>1, <2>3 DEF RaceInv, Inserting
    <3> QED BY <3>3, <3>4
  <2>4. ASSUME \A s \in Askers : subjects[s] # Hashed(i),
               call' = [call EXCEPT ![c] = [came EXCEPT !.stage = "missing", !.hash = Hashed(i)]],
               raced' = IF {d \in Askers : call[d].stage = "missing" /\ call[d].person = PersonOf[i]} = {}
                        THEN raced ELSE raced \union {PersonOf[i]}
        PROVE  (SubjectInv /\ RaceInv)'
    <3>1. /\ call'[c].stage = "missing" /\ call'[c].person = PersonOf[i]
          /\ call'[c].hash = PersonOf[i] /\ call'[c].subject = None
          /\ \A d \in Askers : d # c => call'[d] = call[d]
      BY <2>4, <1>0 DEF New, Hashed
    <3>2. subjects' = subjects BY <1>2 DEF FindSubject
    <3>3. SubjectInv' BY <3>1, <3>2, <2>1, <1>0 DEF SubjectInv
    <3>4. ASSUME NEW d \in Askers, d # c, Inserting(d), call[d].person = PersonOf[i]
          PROVE  PersonOf[i] \in raced'
      <4>1. subjects[d] = None BY <3>4, <2>4 DEF SubjectInv, Hashed
      <4>2. call[d].stage = "missing" BY <4>1, <3>4 DEF Inserting
      <4> QED BY <4>2, <3>4, <2>4
    <3>5. raced \subseteq raced' BY <2>4
    <3>6. RaceInv' BY <3>1, <3>2, <3>4, <3>5 DEF RaceInv, Inserting
    <3> QED BY <3>3, <3>6
  <2> QED BY <1>2, <2>3, <2>4 DEF FindSubject
<1>3. ASSUME NEW c \in Askers, CreateSubject(c) PROVE (SubjectInv /\ RaceInv)'
  <2>1. /\ call'[c].stage = "known" /\ call'[c].person = call[c].person /\ call'[c].subject = c
        /\ \A d \in Askers : d # c => call'[d] = call[d]
    BY <1>3, <1>0 DEF CreateSubject, States
  <2>2. /\ subjects' = [subjects EXCEPT ![c] = call[c].person] /\ subjects[c] = None
        /\ call[c].person # None /\ call[c].stage = "missing" /\ raced' = raced
    BY <1>3 DEF CreateSubject, SubjectInv
  <2>3. SubjectInv' BY <2>1, <2>2, <1>0 DEF SubjectInv, States
  <2>4. RaceInv' BY <2>1, <2>2, <1>0 DEF RaceInv, Inserting
  <2> QED BY <2>3, <2>4
<1>4. ASSUME NEW c \in Askers, FailToCreate(c) PROVE (SubjectInv /\ RaceInv)'
  <2>1. /\ call[c].stage = "missing" /\ call'[c].stage = "failed"
        /\ call'[c].person = call[c].person /\ call'[c].subject = call[c].subject
        /\ \A d \in Askers : d # c => call'[d] = call[d]
    BY <1>4, <1>0 DEF FailToCreate, States
  <2>2. UNCHANGED <<subjects, raced>> BY <1>4 DEF FailToCreate
  <2> QED BY <2>1, <2>2 DEF SubjectInv, RaceInv, Inserting
<1>5. ASSUME NEW r \in Recorders, NEW status \in {"granted", "denied"}, ReadNotice(r, status)
      PROVE  (SubjectInv /\ RaceInv)'
  <2>1. /\ call[r].stage = "known" /\ call'[r].person = call[r].person
        /\ \/ call'[r].stage = "failed" /\ call'[r].subject = None
           \/ call'[r].stage = "storing" /\ call'[r].subject = call[r].subject
        /\ \A d \in Calls : d # r => call'[d] = call[d]
    BY <1>5, <1>0 DEF ReadNotice, States
  <2>2. call[r].subject # None BY <2>1, <1>0 DEF SubjectInv
  <2> QED BY <1>5, <2>1, <2>2, <1>1, <1>0 DEF ReadNotice
<1>6. ASSUME NEW r \in Recorders, NEW q \in Purposes, InsertRecord(r, q)
      PROVE  (SubjectInv /\ RaceInv)'
  <2>1. /\ call'[r].stage = call[r].stage /\ call'[r].person = call[r].person
        /\ call'[r].subject = call[r].subject /\ call'[r].hash = call[r].hash
        /\ \A d \in Calls : d # r => call'[d] = call[d]
    BY <1>6, <1>0 DEF InsertRecord, States
  <2>2. UNCHANGED <<subjects, raced>> BY <1>6 DEF InsertRecord
  <2> QED BY <2>1, <2>2, <1>0 DEF SubjectInv, RaceInv, Inserting
<1>7. ASSUME NEW c \in Askers, call[c].stage \in {"storing", "known", "active", "revoked"},
             call'[c].stage \notin {"new", "missing"},
             call'[c].person = call[c].person, call'[c].subject = call[c].subject,
             \A d \in Calls : d # c => call'[d] = call[d], UNCHANGED <<subjects, raced>>
      PROVE  (SubjectInv /\ RaceInv)'
  <2>1. call[c].subject # None BY <1>7 DEF SubjectInv
  <2> QED BY <1>7, <2>1, <1>1, <1>0
<1>8. ASSUME NEW r \in Recorders, FinishRecord(r) PROVE (SubjectInv /\ RaceInv)'
  BY <1>8, <1>7, <1>0 DEF FinishRecord, States
<1>9. ASSUME NEW v \in Revokers, Revoke(v) PROVE (SubjectInv /\ RaceInv)'
  BY <1>9, <1>7, <1>0 DEF Revoke, FindActive, RevokeAll, FinishRevoke, States
<1>10. ASSUME NEW u \in Updaters, Update(u) PROVE (SubjectInv /\ RaceInv)'
  <2>1. (\A d \in Calls : d # u => call'[d] = call[d]) /\ UNCHANGED <<subjects, raced>>
    BY <1>10, <1>0 DEF Update, ReadForUpdate, WriteNotice
  <2> QED BY <2>1, <1>1, <1>0
<1>11. CASE UNCHANGED vars BY <1>11, <1>1 DEF vars
<1> QED
  BY <1>2, <1>3, <1>4, <1>5, <1>6, <1>8, <1>9, <1>10, <1>11 DEF Next, Record

(* A second data subject row of a person needs two first contacts at once. *)
THEOREM Duplicates == Spec => []DuplicatesOnlyByRace
<1>1. RaceInv => DuplicatesOnlyByRace BY DEF RaceInv, Inserting, DuplicatesOnlyByRace
<1> QED BY SubjectInitially, SubjectInductive, TypeCorrect, <1>1, PTL DEF Spec

-----------------------------------------------------------------------------
(* The ledger's rows.                                                      *)
LEMMA RecordInitially == Init => RecordInv
BY CallAssumption DEF Init, RecordInv, New, Calls, Askers

LEMMA RecordInductive == TypeOK /\ SubjectInv /\ RecordInv /\ [Next]_vars => RecordInv'
<1> SUFFICES ASSUME TypeOK, SubjectInv, RecordInv, [Next]_vars PROVE RecordInv' OBVIOUS
<1>0. /\ ledger \in [Rows -> Records] /\ call \in [Calls -> States]
      /\ Recorders \subseteq Askers /\ Askers \subseteq Calls /\ Revokers \subseteq Askers
      /\ Recorders \intersect Revokers = {} /\ Recorders \intersect Updaters = {}
      /\ \A row \in Rows : row[1] \in Recorders /\ row[2] \in Purposes /\ row = <<row[1], row[2]>>
  BY TypeParts, CallAssumption DEF Calls, Askers, Rows
<1>1. ASSUME UNCHANGED ledger,
             \A r \in Recorders : \/ call'[r] = call[r]
                                  \/ /\ call[r].stage \notin {"storing", "done"}
                                     /\ call'[r].stage \notin {"storing", "done"}
                                     /\ call'[r].left \in {{}, call[r].left}
      PROVE  RecordInv'
  BY <1>0, <1>1 DEF RecordInv
<1>2. ASSUME NEW c \in Askers, NEW i \in Identifiers, FindSubject(c, i) PROVE RecordInv'
  <2>1. call[c] = New /\ UNCHANGED ledger BY <1>2 DEF FindSubject
  <2> DEFINE before == {row \in Rows : Granted(row) /\ call[row[1]].person = PersonOf[i]}
  <2> DEFINE came == [New EXCEPT !.person = PersonOf[i],
                                 !.before = IF c \in Revokers THEN before ELSE {}]
  <2>2. /\ call'[c].stage \in {"known", "missing"} /\ call'[c].left = {}
        /\ \A d \in Calls : d # c => call'[d] = call[d]
    <3>1. \/ \E s \in Askers : call' = [call EXCEPT ![c] = [came EXCEPT !.stage = "known", !.subject = s]]
          \/ call' = [call EXCEPT ![c] = [came EXCEPT !.stage = "missing", !.hash = Hashed(i)]]
      BY <1>2 DEF FindSubject
    <3>2. /\ \A s \in Askers : /\ [came EXCEPT !.stage = "known", !.subject = s].stage = "known"
                              /\ [came EXCEPT !.stage = "known", !.subject = s].left = {}
          /\ [came EXCEPT !.stage = "missing", !.hash = Hashed(i)].stage = "missing"
          /\ [came EXCEPT !.stage = "missing", !.hash = Hashed(i)].left = {}
      BY DEF New
    <3> HIDE DEF came
    <3> QED BY <3>1, <3>2, <1>0
  <2> QED BY <2>1, <2>2, <1>0, <1>1 DEF New
<1>3. ASSUME NEW c \in Askers, CreateSubject(c) \/ FailToCreate(c) PROVE RecordInv'
  <2>1. /\ call[c].stage = "missing" /\ call'[c].stage \in {"known", "failed"}
        /\ call'[c].left = call[c].left
        /\ \A d \in Calls : d # c => call'[d] = call[d]
    BY <1>3, <1>0 DEF CreateSubject, FailToCreate, States
  <2>2. UNCHANGED ledger BY <1>3 DEF CreateSubject, FailToCreate
  <2> QED BY <2>1, <2>2, <1>0, <1>1
<1>4. ASSUME NEW r \in Recorders, NEW status \in {"granted", "denied"}, ReadNotice(r, status)
      PROVE  RecordInv'
  <2>1. /\ call[r].stage = "known" /\ UNCHANGED ledger
        /\ \A d \in Calls : d # r => call'[d] = call[d]
    BY <1>4, <1>0 DEF ReadNotice
  <2>2. \/ call'[r].stage = "failed" /\ call'[r].left = call[r].left
        \/ call'[r].stage = "storing" /\ call'[r].left = notice.purposes /\ call'[r].seen = notice
    BY <1>4, <1>0 DEF ReadNotice, States
  <2>3. CASE call'[r].stage = "failed" BY <2>1, <2>2, <2>3, <1>0, <1>1
  <2>4. CASE call'[r].stage = "storing"
    <3>1. \A row \in Rows : row[1] = r => ledger[row] = NoRow BY <2>1 DEF RecordInv
    <3> QED BY <3>1, <2>1, <2>2, <2>4, <1>0 DEF RecordInv
  <2> QED BY <2>2, <2>3, <2>4
<1>5. ASSUME NEW r \in Recorders, NEW q \in Purposes, InsertRecord(r, q) PROVE RecordInv'
  <2>1. /\ q \in call[r].left /\ call[r].stage = "storing" /\ call[r].subject # None
    BY <1>5, <1>0 DEF InsertRecord, RecordInv, SubjectInv
  <2>2. /\ call'[r].stage = call[r].stage /\ call'[r].subject = call[r].subject
        /\ call'[r].seen = call[r].seen /\ call'[r].left = call[r].left \ {q}
        /\ \A d \in Calls : d # r => call'[d] = call[d]
    BY <1>5, <1>0 DEF InsertRecord, States
  <2>3. /\ ledger'[<<r, q>>].subject = call[r].subject /\ ledger'[<<r, q>>] # NoRow
        /\ \A row \in Rows : row # <<r, q>> => ledger'[row] = ledger[row]
    <3> DEFINE record == [subject |-> call[r].subject, version |-> call[r].seen.version,
                          status |-> call[r].status]
    <3>1. ledger' = [ledger EXCEPT ![<<r, q>>] = record] BY <1>5 DEF InsertRecord
    <3>2. record.subject = call[r].subject /\ record # NoRow BY <2>1 DEF NoRow
    <3>3. <<r, q>> \in Rows BY DEF Rows
    <3> HIDE DEF record
    <3> QED BY <3>1, <3>2, <3>3, <1>0
  <2>4. ASSUME NEW row \in Rows, ledger'[row] # NoRow
        PROVE  /\ call'[row[1]].stage \in {"storing", "done"} /\ row[2] \notin call'[row[1]].left
               /\ call'[row[1]].subject # None /\ ledger'[row].subject = call'[row[1]].subject
    <3>1. CASE row = <<r, q>> BY <3>1, <2>1, <2>2, <2>3
    <3>2. CASE row # <<r, q>> BY <3>2, <2>2, <2>3, <2>4, <1>0 DEF RecordInv
    <3> QED BY <3>1, <3>2
  <2>5. ASSUME NEW s \in Recorders, NEW k \in Purposes,
               call'[s].stage \in {"storing", "done"}, k \in call'[s].seen.purposes
        PROVE  k \in call'[s].left \/ ledger'[<<s, k>>] # NoRow
    <3>1. <<s, k>> \in Rows BY DEF Rows
    <3>2. CASE <<s, k>> = <<r, q>> BY <3>2, <2>3
    <3>3. CASE <<s, k>> # <<r, q>> BY <3>1, <3>3, <2>2, <2>3, <2>5, <1>0 DEF RecordInv
    <3> QED BY <3>2, <3>3
  <2>6. \A s \in Recorders : call'[s].left # {} => call'[s].stage = "storing"
    BY <2>1, <2>2, <1>0 DEF RecordInv
  <2> QED BY <2>4, <2>5, <2>6 DEF RecordInv
<1>6. ASSUME NEW r \in Recorders, FinishRecord(r) PROVE RecordInv'
  <2>1. /\ call[r].stage = "storing" /\ call[r].left = {} /\ UNCHANGED ledger
        /\ call'[r].stage = "done" /\ call'[r].subject = call[r].subject
        /\ call'[r].seen = call[r].seen /\ call'[r].left = call[r].left
        /\ \A d \in Calls : d # r => call'[d] = call[d]
    BY <1>6, <1>0 DEF FinishRecord, States
  <2> QED BY <2>1, <1>0 DEF RecordInv
<1>7. ASSUME NEW v \in Revokers, FindActive(v) \/ FinishRevoke(v) PROVE RecordInv'
  <2>1. UNCHANGED ledger /\ \A d \in Calls : d # v => call'[d] = call[d]
    BY <1>7, <1>0 DEF FindActive, FinishRevoke
  <2> QED BY <2>1, <1>0, <1>1
<1>8. ASSUME NEW v \in Revokers, RevokeAll(v) PROVE RecordInv'
  <2>1. \A d \in Calls : d # v => call'[d] = call[d] BY <1>8, <1>0 DEF RevokeAll
  <2>2. \A row \in Rows : /\ ledger'[row].subject = ledger[row].subject
                          /\ ledger'[row] = NoRow <=> ledger[row] = NoRow
    BY <1>8, <1>0 DEF RevokeAll, Revoked, Active, Granted, NoRow, Records
  <2>3. \A r \in Recorders : call'[r] = call[r] BY <2>1, <1>0
  <2>4. \A r \in Recorders, q \in Purposes : <<r, q>> \in Rows BY DEF Rows
  <2> QED BY <2>2, <2>3, <2>4, <1>0 DEF RecordInv
<1>9. ASSUME NEW u \in Updaters, Update(u) PROVE RecordInv'
  <2>1. UNCHANGED ledger /\ \A d \in Calls : d # u => call'[d] = call[d]
    BY <1>9, <1>0 DEF Update, ReadForUpdate, WriteNotice
  <2> QED BY <2>1, <1>0, <1>1
<1>10. CASE UNCHANGED vars BY <1>10, <1>1 DEF vars
<1> QED
  BY <1>2, <1>3, <1>4, <1>5, <1>6, <1>7, <1>8, <1>9, <1>10 DEF Next, Record, Revoke

(* No record disappears, and a status changes from granted to revoked only. *)
THEOREM Ledger == Spec => LedgerKept
<1>1. TypeOK /\ RecordInv /\ [Next]_vars =>
        [\A row \in Rows :
           ledger[row] # NoRow /\ ledger'[row] # ledger[row] =>
             Granted(row) /\ ledger'[row] = [ledger[row] EXCEPT !.status = "revoked"]]_vars
  <2> SUFFICES ASSUME TypeOK, RecordInv, Next, NEW row \in Rows,
                      ledger[row] # NoRow, ledger'[row] # ledger[row]
               PROVE  Granted(row) /\ ledger'[row] = [ledger[row] EXCEPT !.status = "revoked"]
    OBVIOUS
  <2>0. ledger \in [Rows -> Records] BY TypeParts
  <2>1. ASSUME NEW r \in Recorders, NEW q \in Purposes, InsertRecord(r, q) PROVE FALSE
    <3>1. <<r, q>> = row
      <4>1. CASE <<r, q>> # row BY <4>1, <2>0, <2>1 DEF InsertRecord
      <4> QED BY <4>1
    <3>2. q \in call[r].left BY <2>1 DEF InsertRecord
    <3> QED BY <3>1, <3>2 DEF RecordInv
  <2>2. ASSUME NEW v \in Revokers, RevokeAll(v)
        PROVE  Granted(row) /\ ledger'[row] = [ledger[row] EXCEPT !.status = "revoked"]
    BY <2>2 DEF RevokeAll, Revoked, Active
  <2>3. CASE UNCHANGED ledger BY <2>3
  <2> QED
    BY <2>1, <2>2, <2>3
    DEF Next, Record, Revoke, Update, FindSubject, CreateSubject, FailToCreate, ReadNotice,
        FinishRecord, FindActive, FinishRevoke, ReadForUpdate, WriteNotice
<1> QED
  BY RecordInitially, RecordInductive, SubjectInitially, SubjectInductive, TypeCorrect, <1>1, PTL
  DEF Spec, LedgerKept

-----------------------------------------------------------------------------
(* Withdrawals.                                                            *)

(* A call reaches what is granted of its person, unless first contacts     *)
(* raced: both work with the one data subject row of that person.          *)
LEMMA SameSubject ==
  ASSUME TypeOK, SubjectInv, RaceInv, RecordInv, WithdrawInv,
         NEW v \in Revokers, call[v].subject # None, call[v].person \notin raced,
         NEW row \in Rows, row \in call[v].before, Granted(row)
  PROVE  row \in Active(v)
<1> DEFINE r == row[1]
<1> DEFINE s == call[r].subject
<1> DEFINE t == call[v].subject
<1>0. v \in Askers /\ r \in Askers /\ call \in [Calls -> States] /\ Askers \subseteq Calls
  BY TypeParts DEF Calls, Askers, Rows
<1>1. ledger[row] # NoRow BY DEF Granted, NoRow
<1>2. s # None /\ ledger[row].subject = s BY <1>1 DEF RecordInv
<1>3. call[r].person = call[v].person BY DEF WithdrawInv
<1>4. s \in Askers /\ t \in Askers BY <1>0, <1>2 DEF States
<1>5. subjects[s] = call[v].person /\ subjects[t] = call[v].person /\ call[v].person # None
  BY <1>0, <1>2, <1>3 DEF SubjectInv
<1>6. call[s].person = call[v].person /\ call[t].person = call[v].person
  BY <1>4, <1>5 DEF SubjectInv
<1>7. s = t BY <1>4, <1>5, <1>6 DEF RaceInv, Inserting
<1> QED BY <1>2, <1>7 DEF Active

LEMMA WithdrawInitially == Init => WithdrawInv
BY DEF Init, WithdrawInv, New, Calls, Askers

LEMMA WithdrawInductive ==
  TypeOK /\ SubjectInv /\ RaceInv /\ RecordInv /\ WithdrawInv /\ [Next]_vars => WithdrawInv'
<1> SUFFICES ASSUME TypeOK, SubjectInv, RaceInv, RecordInv, WithdrawInv, [Next]_vars
             PROVE  WithdrawInv'
  OBVIOUS
<1>0. /\ ledger \in [Rows -> Records] /\ call \in [Calls -> States]
      /\ Recorders \subseteq Askers /\ Askers \subseteq Calls /\ Revokers \subseteq Askers
      /\ Recorders \intersect Revokers = {} /\ Revokers \intersect Updaters = {}
      /\ Recorders \intersect Updaters = {}
      /\ Requesters \intersect Revokers = {}
      /\ \A row \in Rows : row[1] \in Recorders
      /\ \A v \in Revokers : call[v].before \subseteq Rows /\ call[v].listed \subseteq Rows
  BY TypeParts, CallAssumption DEF Calls, Askers, Rows, States
<1>a. NoRow.status = "none" BY DEF NoRow
(* Whoever else steps leaves the records that are there and their calls.   *)
<1>1. ASSUME \A row \in Rows : ledger[row] # NoRow =>
               ledger'[row] = ledger[row] /\ call'[row[1]].person = call[row[1]].person,
             raced \subseteq raced', NEW v \in Revokers, call'[v] = call[v]
      PROVE  /\ \A row \in call'[v].before :
                  ledger'[row] # NoRow /\ call'[row[1]].person = call'[v].person
             /\ call'[v].stage \in {"revoked", "done", "not_found"} /\ call'[v].person \notin raced' =>
                  \A row \in call'[v].before : ~(ledger'[row].status = "granted")
             /\ call'[v].stage = "active" => \A row \in call'[v].listed :
                  ledger'[row].subject = call'[v].subject /\ ledger'[row].status \in {"granted", "revoked"}
             /\ call'[v].stage \in {"revoked", "done"} =>
                  \A row \in call'[v].listed : ledger'[row].status = "revoked"
  BY <1>1, <1>0, <1>a DEF WithdrawInv, Granted
<1>2. ASSUME \A row \in Rows : ledger[row] # NoRow =>
               ledger'[row] = ledger[row] /\ call'[row[1]].person = call[row[1]].person,
             raced \subseteq raced', \A v \in Revokers : call'[v] = call[v]
      PROVE  WithdrawInv'
  BY <1>1, <1>2 DEF WithdrawInv, Granted
<1>3. ASSUME NEW c \in Askers, NEW i \in Identifiers, FindSubject(c, i) PROVE WithdrawInv'
  <2> DEFINE before == {row \in Rows : Granted(row) /\ call[row[1]].person = PersonOf[i]}
  <2> DEFINE came == [New EXCEPT !.person = PersonOf[i],
                                 !.before = IF c \in Revokers THEN before ELSE {}]
  <2>1. call[c].stage = "new"
    <3>1. call[c] = New BY <1>3 DEF FindSubject
    <3> QED BY <3>1 DEF New
  <2>2. \A row \in Rows : ledger[row] # NoRow => row[1] # c BY <2>1, <1>0 DEF RecordInv
  <2>3. ledger' = ledger /\ raced \subseteq raced' BY <1>3 DEF FindSubject
  <2>4. /\ call'[c].stage \in {"known", "missing"} /\ call'[c].person = PersonOf[i]
        /\ call'[c].before = IF c \in Revokers THEN before ELSE {}
        /\ \A d \in Calls : d # c => call'[d] = call[d]
    <3>1. \/ \E s \in Askers : call' = [call EXCEPT ![c] = [came EXCEPT !.stage = "known", !.subject = s]]
          \/ call' = [call EXCEPT ![c] = [came EXCEPT !.stage = "missing", !.hash = Hashed(i)]]
      BY <1>3 DEF FindSubject
    <3> HIDE DEF before
    <3>2. /\ \A s \in Askers :
                /\ [came EXCEPT !.stage = "known", !.subject = s].stage = "known"
                /\ [came EXCEPT !.stage = "known", !.subject = s].person = PersonOf[i]
                /\ [came EXCEPT !.stage = "known", !.subject = s].before = IF c \in Revokers THEN before ELSE {}
          /\ [came EXCEPT !.stage = "missing", !.hash = Hashed(i)].stage = "missing"
          /\ [came EXCEPT !.stage = "missing", !.hash = Hashed(i)].person = PersonOf[i]
          /\ [came EXCEPT !.stage = "missing", !.hash = Hashed(i)].before = IF c \in Revokers THEN before ELSE {}
      BY DEF New
    <3> HIDE DEF came
    <3> QED BY <3>1, <3>2, <1>0
  <2>5. \A row \in Rows : ledger[row] # NoRow => call'[row[1]] = call[row[1]]
    BY <2>2, <2>4, <1>0
  <2>6. CASE c \in Recorders
    <3>1. \A v \in Revokers : call'[v] = call[v] BY <2>4, <2>6, <1>0
    <3> QED BY <3>1, <2>3, <2>5, <1>2
  <2>7. CASE c \in Revokers
    <3>1. \A row \in before : ledger[row] # NoRow /\ call'[row[1]].person = PersonOf[i]
      BY <2>5, <1>a DEF Granted
    <3>2. \A v \in Revokers : v # c => call'[v] = call[v] BY <2>4, <1>0
    <3>3. /\ \A row \in call'[c].before :
               ledger'[row] # NoRow /\ call'[row[1]].person = call'[c].person
          /\ call'[c].stage \notin {"revoked", "done", "not_found", "active"}
      BY <3>1, <2>3, <2>4, <2>7
    <3> QED BY <3>2, <3>3, <2>3, <2>5, <1>1 DEF WithdrawInv, Granted
  <2>8. CASE c \in Requesters
    <3>1. \A v \in Revokers : call'[v] = call[v] BY <2>4, <2>8, <1>0
    <3> QED BY <3>1, <2>3, <2>5, <1>2
  <2> QED BY <2>6, <2>7, <2>8 DEF Askers
(* A revocation that changes neither the ledger nor what came with it.     *)
<1>4. ASSUME NEW v \in Revokers, ledger' = ledger, raced' = raced,
             \A d \in Calls : d # v => call'[d] = call[d],
             call'[v].person = call[v].person, call'[v].before = call[v].before,
             call'[v].stage \in {"revoked", "done", "not_found"} /\ call[v].person \notin raced =>
               \A row \in call[v].before : ~Granted(row),
             call'[v].stage = "active" => \A row \in call'[v].listed :
               ledger[row].subject = call'[v].subject /\ ledger[row].status \in {"granted", "revoked"},
             call'[v].stage \in {"revoked", "done"} =>
               \A row \in call'[v].listed : ledger[row].status = "revoked"
      PROVE  WithdrawInv'
  <2>1. \A row \in Rows : ledger[row] # NoRow =>
          ledger'[row] = ledger[row] /\ call'[row[1]].person = call[row[1]].person
    BY <1>4, <1>0
  <2>2. \A w \in Revokers : w # v => call'[w] = call[w] BY <1>4, <1>0
  <2>3. \A row \in call'[v].before : ledger'[row] # NoRow /\ call'[row[1]].person = call'[v].person
    BY <1>4, <2>1, <1>0 DEF WithdrawInv
  <2> QED BY <1>4, <2>1, <2>2, <2>3, <1>1 DEF WithdrawInv, Granted
<1>5. ASSUME NEW c \in Askers, CreateSubject(c) \/ FailToCreate(c) PROVE WithdrawInv'
  <2>1. /\ call'[c].stage \in {"known", "failed"} /\ call'[c].person = call[c].person
        /\ call'[c].before = call[c].before
        /\ \A d \in Calls : d # c => call'[d] = call[d]
    BY <1>5, <1>0 DEF CreateSubject, FailToCreate, States
  <2>2. ledger' = ledger /\ raced' = raced BY <1>5 DEF CreateSubject, FailToCreate
  <2>3. CASE c \in Revokers BY <2>1, <2>2, <2>3, <1>4
  <2>4. CASE c \in Recorders \union Requesters
    <3>1. \A v \in Revokers : call'[v] = call[v] BY <2>1, <2>4, <1>0
    <3>2. \A row \in Rows : call'[row[1]].person = call[row[1]].person BY <2>1, <2>4, <1>0
    <3> QED BY <3>1, <3>2, <2>2, <1>2
  <2> QED BY <2>3, <2>4 DEF Askers
<1>6. ASSUME NEW r \in Recorders, Record(r) PROVE WithdrawInv'
  <2>1. /\ call'[r].person = call[r].person /\ raced' = raced
        /\ \A d \in Calls : d # r => call'[d] = call[d]
    <3>1. ASSUME NEW status \in {"granted", "denied"}, ReadNotice(r, status)
          PROVE  call'[r].person = call[r].person /\ \A d \in Calls : d # r => call'[d] = call[d]
      BY <3>1, <1>0 DEF ReadNotice, States
    <3>2. ASSUME NEW q \in Purposes, InsertRecord(r, q)
          PROVE  call'[r].person = call[r].person /\ \A d \in Calls : d # r => call'[d] = call[d]
      BY <3>2, <1>0 DEF InsertRecord, States
    <3>3. ASSUME FinishRecord(r)
          PROVE  call'[r].person = call[r].person /\ \A d \in Calls : d # r => call'[d] = call[d]
      BY <3>3, <1>0 DEF FinishRecord, States
    <3>4. raced' = raced BY <1>6 DEF Record, ReadNotice, InsertRecord, FinishRecord
    <3> QED BY <1>6, <3>1, <3>2, <3>3, <3>4 DEF Record
  <2>2. \A row \in Rows : ledger[row] # NoRow => ledger'[row] = ledger[row]
    <3>1. ASSUME NEW q \in Purposes, InsertRecord(r, q), NEW row \in Rows, ledger[row] # NoRow
          PROVE  ledger'[row] = ledger[row]
      <4>1. q \in call[r].left BY <3>1 DEF InsertRecord
      <4>2. row # <<r, q>> BY <3>1, <4>1 DEF RecordInv
      <4> QED BY <3>1, <4>2, <1>0 DEF InsertRecord
    <3>2. CASE UNCHANGED ledger BY <3>2
    <3> QED BY <1>6, <3>1, <3>2 DEF Record, ReadNotice, FinishRecord
  <2>3. \A v \in Revokers : call'[v] = call[v] BY <2>1, <1>0
  <2>4. \A row \in Rows : call'[row[1]].person = call[row[1]].person BY <2>1, <1>0
  <2> QED BY <2>1, <2>2, <2>3, <2>4, <1>2
<1>7. ASSUME NEW v \in Revokers, FindActive(v) PROVE WithdrawInv'
  <2>1. /\ call[v].stage = "known" /\ call'[v].stage = IF Active(v) = {} THEN "not_found" ELSE "active"
        /\ call'[v].listed = Active(v) /\ call'[v].person = call[v].person
        /\ call'[v].before = call[v].before /\ call'[v].subject = call[v].subject
        /\ \A d \in Calls : d # v => call'[d] = call[d]
    BY <1>7, <1>0 DEF FindActive, States
  <2>2. ledger' = ledger /\ raced' = raced BY <1>7 DEF FindActive
  <2>3. call[v].subject # None BY <2>1, <1>0 DEF SubjectInv
  <2>4. ASSUME Active(v) = {}, call[v].person \notin raced, NEW row \in call[v].before
        PROVE  ~Granted(row)
    BY <2>3, <2>4, <1>0, SameSubject
  <2>5. \A row \in Active(v) : ledger[row].subject = call[v].subject /\ ledger[row].status = "granted"
    BY DEF Active, Granted
  <2> QED BY <2>1, <2>2, <2>4, <2>5, <1>4
<1>8. ASSUME NEW v \in Revokers, RevokeAll(v) PROVE WithdrawInv'
  <2>1. /\ call[v].stage = "active" /\ call'[v].stage = "revoked"
        /\ call'[v].listed = call[v].listed /\ call'[v].person = call[v].person
        /\ call'[v].before = call[v].before /\ raced' = raced
        /\ \A d \in Calls : d # v => call'[d] = call[d]
    BY <1>8, <1>0 DEF RevokeAll, States
  <2>2. \A row \in Rows :
          /\ ledger'[row].subject = ledger[row].subject
          /\ ledger[row] # NoRow => ledger'[row] # NoRow
          /\ row \in Active(v) => ledger'[row].status = "revoked"
          /\ row \notin Active(v) => ledger'[row] = ledger[row]
    BY <1>8, <1>0, <1>a DEF RevokeAll, Revoked, Records
  <2>3. \A row \in Active(v) : ledger[row].status = "granted" BY DEF Active, Granted
  <2>4. \A row \in Rows : row \in Active(v) <=>
          ledger[row].status = "granted" /\ ledger[row].subject = call[v].subject
    BY DEF Active, Granted
  <2>5. call[v].subject # None BY <2>1, <1>0 DEF SubjectInv
  <2>6. \A row \in Rows : call'[row[1]].person = call[row[1]].person BY <2>1, <1>0
  <2>7. ASSUME call[v].person \notin raced, NEW row \in call[v].before
        PROVE  ledger'[row].status # "granted"
    <3>1. ledger[row].status = "granted" => row \in Active(v)
      BY <2>5, <2>7, <1>0, SameSubject DEF Granted
    <3> QED BY <3>1, <2>2, <1>0
  <2>8. \A row \in call[v].listed : ledger'[row].status = "revoked"
    <3>1. ASSUME NEW row \in call[v].listed
          PROVE  row \in Rows /\ ledger[row].subject = call[v].subject
                 /\ ledger[row].status \in {"granted", "revoked"}
      BY <2>1, <1>0 DEF WithdrawInv
    <3> QED BY <3>1, <2>2, <2>4
  <2>9. ASSUME NEW w \in Revokers, w # v
        PROVE  /\ \A row \in call'[w].before :
                    ledger'[row] # NoRow /\ call'[row[1]].person = call'[w].person
               /\ call'[w].stage \in {"revoked", "done", "not_found"} /\ call'[w].person \notin raced' =>
                    \A row \in call'[w].before : ~(ledger'[row].status = "granted")
               /\ call'[w].stage = "active" => \A row \in call'[w].listed :
                    ledger'[row].subject = call'[w].subject /\ ledger'[row].status \in {"granted", "revoked"}
               /\ call'[w].stage \in {"revoked", "done"} =>
                    \A row \in call'[w].listed : ledger'[row].status = "revoked"
    <3>1. call'[w] = call[w] BY <2>1, <2>9, <1>0
    <3>2. \A row \in Rows : ledger'[row].status \in {ledger[row].status, "revoked"} BY <2>2
    <3> QED BY <3>1, <3>2, <2>1, <2>2, <2>6, <1>0 DEF WithdrawInv, Granted
  <2>10. \A row \in call[v].before : ledger'[row] # NoRow /\ call'[row[1]].person = call[v].person
    BY <2>2, <2>6, <1>0 DEF WithdrawInv
  <2> QED BY <2>1, <2>7, <2>8, <2>9, <2>10 DEF WithdrawInv, Granted
<1>9. ASSUME NEW v \in Revokers, FinishRevoke(v) PROVE WithdrawInv'
  <2>1. /\ call[v].stage = "revoked" /\ call'[v].stage = "done"
        /\ call'[v].listed = call[v].listed /\ call'[v].person = call[v].person
        /\ call'[v].before = call[v].before
        /\ \A d \in Calls : d # v => call'[d] = call[d]
    BY <1>9, <1>0 DEF FinishRevoke, States
  <2>2. ledger' = ledger /\ raced' = raced BY <1>9 DEF FinishRevoke
  <2> QED BY <2>1, <2>2, <1>4 DEF WithdrawInv
<1>10. ASSUME NEW u \in Updaters, Update(u) PROVE WithdrawInv'
  <2>1. /\ \A d \in Calls : d # u => call'[d] = call[d]
        /\ ledger' = ledger /\ raced' = raced
    BY <1>10, <1>0 DEF Update, ReadForUpdate, WriteNotice
  <2>2. \A v \in Revokers : call'[v] = call[v] BY <2>1, <1>0
  <2>3. \A row \in Rows : call'[row[1]].person = call[row[1]].person BY <2>1, <1>0
  <2> QED BY <2>1, <2>2, <2>3, <1>2
<1>11. CASE UNCHANGED vars BY <1>11, <1>2 DEF vars
<1> QED
  BY <1>3, <1>5, <1>6, <1>7, <1>8, <1>9, <1>10, <1>11 DEF Next, Revoke

(* An answered withdrawal leaves nothing granted of what was when it came, *)
(* if the person's first contacts did not race.                            *)
THEOREM Withdrawal == Spec => []WithdrawalTakesEffect
<1>1. WithdrawInv => WithdrawalTakesEffect BY DEF WithdrawInv, WithdrawalTakesEffect, Answered
<1> QED
  BY WithdrawInitially, WithdrawInductive, RecordInitially, RecordInductive, SubjectInitially,
     SubjectInductive, TypeCorrect, <1>1, PTL DEF Spec

(* What consent.granted and consent.revoked list is recorded and revoked.  *)
THEOREM Events == Spec => []EventsTrue
<1>1. TypeOK /\ RecordInv /\ WithdrawInv => EventsTrue
  <2> SUFFICES ASSUME TypeOK, RecordInv, WithdrawInv PROVE EventsTrue OBVIOUS
  <2>1. \A r \in Recorders : call[r].seen.purposes \subseteq Purposes
    BY TypeParts DEF States, Notices, Calls, Askers
  <2> QED BY <2>1 DEF RecordInv, WithdrawInv, EventsTrue
<1> QED
  BY WithdrawInitially, WithdrawInductive, RecordInitially, RecordInductive, SubjectInitially,
     SubjectInductive, TypeCorrect, <1>1, PTL DEF Spec

-----------------------------------------------------------------------------
(* Versions.                                                               *)
LEMMA VersionInitially == Init => VersionInv
BY DEF Init, VersionInv, VersionNamesPurposes, New, Unread, Calls, Askers

LEMMA VersionInductive == TypeOK /\ VersionInv /\ [Next]_vars => VersionInv'
<1> SUFFICES ASSUME TypeOK, VersionInv, [Next]_vars PROVE VersionInv' OBVIOUS
<1>0. /\ notice \in Notices /\ notice.version \in Nat /\ call \in [Calls -> States]
      /\ Askers \subseteq Calls /\ Recorders \subseteq Calls
      /\ Recorders \intersect Revokers = {} /\ Recorders \intersect Updaters = {}
      /\ Revokers \subseteq Calls
      /\ \A r \in Recorders : call[r].seen.version \in Nat
  BY TypeParts, CallAssumption DEF Calls, Askers, Notices, States
<1>1. ASSUME \A r \in Recorders : call'[r].seen = call[r].seen, UNCHANGED <<notice, lost>>
      PROVE  VersionInv'
  BY <1>1 DEF VersionInv, VersionNamesPurposes
<1>2. ASSUME NEW c \in Askers, NEW i \in Identifiers, FindSubject(c, i) PROVE VersionInv'
  <2> DEFINE before == {row \in Rows : Granted(row) /\ call[row[1]].person = PersonOf[i]}
  <2> DEFINE came == [New EXCEPT !.person = PersonOf[i],
                                 !.before = IF c \in Revokers THEN before ELSE {}]
  <2>1. call[c].seen = Unread
    <3>1. call[c] = New BY <1>2 DEF FindSubject
    <3> QED BY <3>1 DEF New
  <2>2. \/ \E s \in Askers : call' = [call EXCEPT ![c] = [came EXCEPT !.stage = "known", !.subject = s]]
        \/ call' = [call EXCEPT ![c] = [came EXCEPT !.stage = "missing", !.hash = Hashed(i)]]
    BY <1>2 DEF FindSubject
  <2> HIDE DEF before
  <2>3. /\ \A s \in Askers : [came EXCEPT !.stage = "known", !.subject = s].seen = Unread
        /\ [came EXCEPT !.stage = "missing", !.hash = Hashed(i)].seen = Unread
    BY DEF New
  <2> HIDE DEF came
  <2>4. call'[c].seen = Unread /\ \A d \in Calls : d # c => call'[d] = call[d]
    BY <2>2, <2>3, <1>0
  <2>5. UNCHANGED <<notice, lost>> BY <1>2 DEF FindSubject
  <2>6. \A r \in Recorders : call'[r].seen = call[r].seen BY <2>1, <2>4, <1>0
  <2> QED BY <2>5, <2>6, <1>1
<1>3. ASSUME NEW c \in Calls, \A d \in Calls : d # c => call'[d] = call[d],
             c \notin Recorders \/ call'[c].seen = call[c].seen, UNCHANGED <<notice, lost>>
      PROVE  VersionInv'
  BY <1>0, <1>1, <1>3
<1>4. ASSUME NEW c \in Askers, CreateSubject(c) \/ FailToCreate(c) PROVE VersionInv'
  <2>1. call'[c].seen = call[c].seen /\ \A d \in Calls : d # c => call'[d] = call[d]
    BY <1>4, <1>0 DEF CreateSubject, FailToCreate, States
  <2>2. UNCHANGED <<notice, lost>> BY <1>4 DEF CreateSubject, FailToCreate
  <2> QED BY <2>1, <2>2, <1>0, <1>3
<1>5. ASSUME NEW r \in Recorders, NEW status \in {"granted", "denied"}, ReadNotice(r, status)
      PROVE  VersionInv'
  <2>1. UNCHANGED <<notice, lost>> /\ \A d \in Calls : d # r => call'[d] = call[d]
    BY <1>5, <1>0 DEF ReadNotice
  <2>2. call'[r].seen \in {call[r].seen, notice} BY <1>5, <1>0 DEF ReadNotice, States
  <2>3. \A s \in Recorders : s # r => call'[s] = call[s] BY <2>1, <1>0
  <2> QED BY <2>1, <2>2, <2>3, <1>0 DEF VersionInv, VersionNamesPurposes
<1>6. ASSUME NEW r \in Recorders, (\E q \in Purposes : InsertRecord(r, q)) \/ FinishRecord(r)
      PROVE  VersionInv'
  <2>1. call'[r].seen = call[r].seen /\ \A d \in Calls : d # r => call'[d] = call[d]
    <3>1. ASSUME NEW q \in Purposes, InsertRecord(r, q)
          PROVE  call'[r].seen = call[r].seen /\ \A d \in Calls : d # r => call'[d] = call[d]
      BY <3>1, <1>0 DEF InsertRecord, States
    <3>2. ASSUME FinishRecord(r)
          PROVE  call'[r].seen = call[r].seen /\ \A d \in Calls : d # r => call'[d] = call[d]
      BY <3>2, <1>0 DEF FinishRecord, States
    <3> QED BY <1>6, <3>1, <3>2
  <2>2. UNCHANGED <<notice, lost>> BY <1>6 DEF InsertRecord, FinishRecord
  <2> QED BY <2>1, <2>2, <1>0, <1>3
<1>7. ASSUME NEW v \in Revokers, Revoke(v) PROVE VersionInv'
  <2>1. UNCHANGED <<notice, lost>> /\ \A d \in Calls : d # v => call'[d] = call[d]
    BY <1>7, <1>0 DEF Revoke, FindActive, RevokeAll, FinishRevoke
  <2> QED BY <2>1, <1>0, <1>3
<1>8. ASSUME NEW u \in Updaters, ReadForUpdate(u) PROVE VersionInv'
  <2>1. UNCHANGED <<notice, lost>> /\ \A d \in Calls : d # u => call'[d] = call[d]
    BY <1>8, <1>0 DEF ReadForUpdate
  <2> QED BY <2>1, <1>0, <1>3 DEF Calls
<1>9. ASSUME NEW u \in Updaters, NEW purposes \in SUBSET Purposes, WriteNotice(u, purposes)
      PROVE  VersionInv'
  <2>1. \A r \in Recorders : call'[r] = call[r] BY <1>9, <1>0 DEF WriteNotice
  <2>2. call[u].seen.version \in Nat BY <1>0 DEF Calls, States, Notices
  <2>3. notice'.version = call[u].seen.version + 1 BY <1>9 DEF WriteNotice, NextVersion
  <2>4. ~lost' => ~lost /\ notice = call[u].seen BY <1>9 DEF WriteNotice
  <2>5. ~lost' => ~lost /\ notice'.version = notice.version + 1 BY <2>3, <2>4
  <2>6. notice'.version > 0 BY <2>2, <2>3
  <2> QED BY <2>1, <2>5, <2>6, <1>0 DEF VersionInv, VersionNamesPurposes
<1>10. CASE UNCHANGED vars BY <1>10, <1>1 DEF vars
<1> QED
  BY <1>2, <1>4, <1>5, <1>6, <1>7, <1>8, <1>9, <1>10 DEF Next, Record, Update

(* A version names one text, unless an update overwrote an unseen one.     *)
THEOREM Versions == Spec => []VersionNamesPurposes
<1>1. VersionInv => VersionNamesPurposes BY DEF VersionInv, VersionNamesPurposes
<1> QED BY VersionInitially, VersionInductive, TypeCorrect, <1>1, PTL DEF Spec

=============================================================================
