------------------------- MODULE Moderation_proofs -------------------------
(***************************************************************************)
(* Proofs about Moderation, for any number of people, requests and targets *)
(* and any limit: no report twice, no key too many, nobody in who was shut *)
(* out, and an audit that accounts for every deed.                         *)
(*                                                                         *)
(* The invariant says what a handler still knows at its store call of what *)
(* it checked before it: other requests may have stored rows meanwhile,    *)
(* but only such as began too late to be known, and what was closed or     *)
(* revoked stays so.  Starts, Stands and Checks sum up what a step does;   *)
(* the parts of the invariant are proved from them.                        *)
(***************************************************************************)
EXTENDS Moderation, FiniteSetTheorems, TLAPS

(* The invariant ----------------------------------------------------------*)

Handlers ==
  {NoOne}
  \cup [op : {"report"}, at : {"gate", "check", "store", "done"}, user : Users, target : Targets]
  \cup [op : {"issue"}, at : {"gate", "check", "store", "done"}, user : Users]
  \cup [op : {"adminIssue"}, at : {"store", "audit", "done"}, user : Users]
  \cup [op : {"revoke"}, at : {"revoke", "done"}, user : Users, about : Requests]
  \cup [op : {"adminRevoke"}, at : {"revoke", "audit", "done"}, user : Users, about : Requests]
  \cup [op : {"open"}, at : {"key", "gate", "store", "done"}, user : Users, about : Requests]
  \cup [op : {"decide"}, at : {"update", "audit", "done"}, user : Users, about : Requests,
        verdict : {"resolved", "dismissed"}]
  \cup [op : {"ban"}, at : {"ban", "audit", "done"}, user : Users, about : Users,
        verdict : {"banned", "unbanned"}]

Report == [id : Requests, reporter : Users, target : Targets,
           status : {"open", "resolved", "dismissed"}, resolver : Requests]
Key    == [id : Requests, owner : Users, active : BOOLEAN]

(* What the tables hold, and what their rows say of the requests that      *)
(* made them.                                                              *)
Tables ==
  /\ req \in [Requests -> Handlers]
  /\ reports \subseteq Report /\ keys \subseteq Key /\ stored \subseteq Requests
  /\ \A c \in reports : /\ req[c.id].op = "report" /\ req[c.id].at = "done"
                        /\ req[c.id].user = c.reporter /\ req[c.id].target = c.target
  /\ \A c, d \in reports : c.id = d.id => c = d
  /\ \A k \in keys : /\ req[k.id].op \in {"issue", "adminIssue"} /\ req[k.id].at \in {"audit", "done"}
                     /\ req[k.id].user = k.owner
  /\ \A k, l \in keys : k.id = l.id => k = l
  /\ IsFiniteSet(keys)
  /\ \A r \in stored : req[r].op = "open" /\ req[r].at = "done"
  /\ \A r \in Requests : req[r].op \in {"revoke", "adminRevoke", "open"} => req[r].about \in Ids(keys)

(* A request knows reports or keys that were there when it began.          *)
Knowledge ==
  /\ known \in [Requests -> SUBSET Requests]
  /\ \A r \in Requests :
       /\ req[r].op = "report" => known[r] \subseteq Ids(reports)
       /\ req[r].op = "issue" => known[r] \subseteq Ids(keys)

(* Past its check, a request knows no report that is open, and it never    *)
(* will: what it knows of can only be closed.                              *)
ReportsKnown ==
  \A r \in Requests :
    req[r].op = "report" /\ (req[r].at = "store" \/ r \in Ids(reports)) =>
      \A c \in reports :
        c.id \in known[r] /\ c.reporter = req[r].user /\ c.target = req[r].target => c.status # "open"

(* Past its check, a request knows fewer active keys than the limit.       *)
KeysKnown ==
  \A r \in Requests :
    req[r].op = "issue" /\ (req[r].at = "store" \/ r \in Ids(keys)) =>
      Cardinality(known[r] \cap Ids(Active(req[r].user))) < KeyLimit

(* A barred request has not passed the gate that is closed to it.          *)
BarredWait ==
  /\ barred \subseteq Requests \X {"ban", "key"}
  /\ \A r \in Requests :
       /\ <<r, "key">> \in barred =>
            /\ req[r].op = "open" /\ req[r].at \in {"key", "done"} /\ r \notin stored
            /\ \A k \in keys : k.id = req[r].about => ~k.active
       /\ <<r, "ban">> \in barred =>
            /\ req[r].user \in Banned /\ req[r].op \in {"report", "issue", "open"}
            /\ req[r].at \in {"key", "gate", "done"}
            /\ r \notin Ids(reports) \cup Ids(keys) \cup stored

ModerationInv == Tables /\ Knowledge /\ ReportsKnown /\ KeysKnown /\ BarredWait

LEMMA InitModeration == Init => ModerationInv
<1> SUFFICES ASSUME Init PROVE ModerationInv
  OBVIOUS
<1>1. Tables
  BY FS_EmptySet DEF Init, Tables, Handlers, NoOne
<1>2. Knowledge /\ ReportsKnown /\ KeysKnown /\ BarredWait
  BY DEF Init, Knowledge, ReportsKnown, KeysKnown, BarredWait, NoOne, Ids
<1> QED BY <1>1, <1>2 DEF ModerationInv

(* Steps ------------------------------------------------------------------*)

(* A handler's next call; what it is about stays what it is. *)
Follows(op, at, next) ==
  \/ next = "done" /\ at # "idle"
  \/ op \in {"report", "issue"} /\ next \in {"check", "store"}
  \/ op = "open" /\ next \in {"gate", "store"}
  \/ op \in {"adminIssue", "adminRevoke", "decide", "ban"} /\ next = "audit"

Same(x, y) ==
  /\ x.op = y.op /\ x.user = y.user
  /\ x.op = "report" => x.target = y.target
  /\ x.op \in {"revoke", "adminRevoke", "open", "decide", "ban"} => x.about = y.about
  /\ x.op \in {"decide", "ban"} => x.verdict = y.verdict

LEMMA HandlerFollows ==
  ASSUME NEW x \in Handlers, NEW a, Follows(x.op, x.at, a), x.at # "idle"
  PROVE  LET y == [x EXCEPT !.at = a] IN y \in Handlers /\ y.at = a /\ Same(y, x)
<1>1. CASE x = NoOne
  BY <1>1 DEF NoOne
<1>2. CASE x.op = "report"
  BY <1>2 DEF Handlers, NoOne, Follows, Same
<1>3. CASE x.op = "issue"
  BY <1>3 DEF Handlers, NoOne, Follows, Same
<1>4. CASE x.op = "adminIssue"
  BY <1>4 DEF Handlers, NoOne, Follows, Same
<1>5. CASE x.op \in {"revoke", "adminRevoke", "open"}
  BY <1>5 DEF Handlers, NoOne, Follows, Same
<1>6. CASE x.op \in {"decide", "ban"}
  BY <1>6 DEF Handlers, NoOne, Follows, Same
<1> QED BY <1>1, <1>2, <1>3, <1>4, <1>5, <1>6 DEF Handlers

LEMMA GoesOn ==
  ASSUME req \in [Requests -> Handlers], NEW r \in Requests, NEW a, Goes(r, a),
         req[r].at # "idle", Follows(req[r].op, req[r].at, a)
  PROVE  /\ req' \in [Requests -> Handlers]
         /\ req'[r].at = a
         /\ \A q \in Requests : Same(req'[q], req[q]) /\ (q # r => req'[q] = req[q])
<1>1. req[r] \in Handlers
  OBVIOUS
<1>2. [req[r] EXCEPT !.at = a] \in Handlers /\ [req[r] EXCEPT !.at = a].at = a
      /\ Same([req[r] EXCEPT !.at = a], req[r])
  BY <1>1, HandlerFollows
<1>3. req' = [req EXCEPT ![r] = [req[r] EXCEPT !.at = a]]
  BY DEF Goes
<1>4. \A q \in Requests : Same(req[q], req[q])
  BY DEF Same
<1> QED BY <1>2, <1>3, <1>4

(* What a step of r leaves: requests stay what they are, rows stay those   *)
(* of their requests, new ones are those of r, and nothing that was closed *)
(* or revoked is open or active again.                                     *)
Stands(r) ==
  /\ req' \in [Requests -> Handlers]
  /\ \A q \in Requests :
       /\ Same(req'[q], req[q]) /\ (q # r => req'[q] = req[q])
       /\ req[q].at = "done" => req'[q].at = "done"
       /\ req[q].at = "audit" => req'[q].at \in {"audit", "done"}
  /\ reports' \subseteq Report /\ \A c, d \in reports' : c.id = d.id => c = d
  /\ Ids(reports) \subseteq Ids(reports)'
  /\ \A c \in reports' :
       \/ \E d \in reports : /\ d.id = c.id /\ d.reporter = c.reporter /\ d.target = c.target
                             /\ c.status = "open" => d.status = "open"
       \/ /\ c.id = r /\ req[r].op = "report" /\ req[r].at = "store" /\ req'[r].at = "done"
          /\ c.reporter = req[r].user /\ c.target = req[r].target
  /\ keys' \subseteq Key /\ IsFiniteSet(keys') /\ \A k, l \in keys' : k.id = l.id => k = l
  /\ Ids(keys) \subseteq Ids(keys)'
  /\ \A k \in keys' :
       \/ \E l \in keys : l.id = k.id /\ l.owner = k.owner /\ (k.active => l.active)
       \/ /\ k.id = r /\ req[r].op \in {"issue", "adminIssue"} /\ req[r].at = "store"
          /\ req'[r].at \in {"audit", "done"} /\ k.owner = req[r].user
  /\ stored' \subseteq stored \cup {r}
  /\ r \in stored' =>
       \/ r \in stored
       \/ req[r].op = "open" /\ req[r].at = "store" /\ req'[r].at = "done"

LEMMA RowIds ==
  ASSUME Tables
  PROVE  /\ \A c \in reports : c.id \in Requests
         /\ \A k \in keys : k.id \in Requests
         /\ \A c, d \in reports : c.id = d.id => c = d
         /\ \A k, l \in keys : k.id = l.id => k = l
         /\ reports \subseteq Report /\ keys \subseteq Key /\ IsFiniteSet(keys)
         /\ req \in [Requests -> Handlers]
BY DEF Tables, Report, Key

LEMMA TablesStand ==
  ASSUME Tables, NEW r \in Requests, Stands(r)
  PROVE  Tables'
<1> USE DEF Stands
<1>1. \A c \in reports' : /\ req'[c.id].op = "report" /\ req'[c.id].at = "done"
                          /\ req'[c.id].user = c.reporter /\ req'[c.id].target = c.target
  BY RowIds DEF Tables, Same
<1>2. \A k \in keys' : /\ req'[k.id].op \in {"issue", "adminIssue"} /\ req'[k.id].at \in {"audit", "done"}
                       /\ req'[k.id].user = k.owner
  BY RowIds DEF Tables, Same
<1>3. stored' \subseteq Requests /\ \A q \in stored' : req'[q].op = "open" /\ req'[q].at = "done"
  BY DEF Tables, Same
<1>4. \A q \in Requests : req'[q].op \in {"revoke", "adminRevoke", "open"} => req'[q].about \in Ids(keys)'
  BY DEF Tables, Same
<1> QED BY <1>1, <1>2, <1>3, <1>4 DEF Tables

(* What r alone does to the requests. *)
Advances(r, a) ==
  /\ req' \in [Requests -> Handlers] /\ req'[r].at = a
  /\ \A q \in Requests : Same(req'[q], req[q]) /\ (q # r => req'[q] = req[q])

LEMMA GoesAdvances ==
  ASSUME Tables, NEW r \in Requests, NEW a, Goes(r, a),
         req[r].at # "idle", Follows(req[r].op, req[r].at, a)
  PROVE  Advances(r, a)
BY GoesOn DEF Tables, Advances

LEMMA PassStands ==
  ASSUME Tables, NEW r \in Requests, UNCHANGED <<reports, keys, stored>>, NEW a, Advances(r, a),
         req[r].at \in {"audit", "done"} => a = "done"
  PROVE  Stands(r)
<1>1. Ids(reports) = Ids(reports)' /\ Ids(keys) = Ids(keys)'
  BY DEF Ids
<1> QED BY <1>1, RowIds DEF Stands, Advances

(* A key k after the key i was revoked. *)
Off(k, i) == IF k.id = i THEN [k EXCEPT !.active = FALSE] ELSE k
RevokedBy(i) == keys' = {Off(k, i) : k \in keys}

LEMMA RevokedKeys ==
  ASSUME Tables, NEW i, RevokedBy(i)
  PROVE  /\ keys' \subseteq Key /\ IsFiniteSet(keys') /\ Ids(keys)' = Ids(keys)
         /\ \A k, l \in keys' : k.id = l.id => k = l
         /\ \A k \in keys' : /\ \E l \in keys : l.id = k.id /\ l.owner = k.owner /\ (k.active => l.active)
                             /\ k.id = i => ~k.active
<1>1. \A k \in keys : /\ Off(k, i) \in Key /\ Off(k, i).id = k.id /\ Off(k, i).owner = k.owner
                      /\ Off(k, i).active => k.active
                      /\ k.id = i => ~Off(k, i).active
  BY RowIds DEF Key, Off
<1>2. IsFiniteSet(keys')
  <2>1. [k \in keys |-> Off(k, i)] \in Surjection(keys, keys')
    BY DEF Surjection, Range, RevokedBy
  <2> QED BY <2>1, RowIds, FS_Surjection
<1>3. Ids(keys)' = Ids(keys)
  BY <1>1 DEF Ids, RevokedBy
<1> QED BY <1>1, <1>2, <1>3, RowIds DEF RevokedBy

(* A report c after request r has ruled v on the report i. *)
Ruled(c, r, i, v) == IF c.id = i THEN [c EXCEPT !.status = v, !.resolver = r] ELSE c
RulesOn(r, i, v) == reports' = {Ruled(c, r, i, v) : c \in reports}

LEMMA RuledReports ==
  ASSUME Tables, NEW r \in Requests, NEW i, NEW v \in {"resolved", "dismissed"},
         RulesOn(r, i, v)
  PROVE  /\ reports' \subseteq Report /\ Ids(reports)' = Ids(reports)
         /\ \A c, d \in reports' : c.id = d.id => c = d
         /\ \A c \in reports' :
              /\ \E d \in reports : d.id = c.id /\ d.reporter = c.reporter /\ d.target = c.target
              /\ c.id = i => c.status = v /\ c.resolver = r
              /\ c.id # i => c \in reports
<1>1. \A c \in reports : /\ Ruled(c, r, i, v) \in Report /\ Ruled(c, r, i, v).id = c.id
                         /\ Ruled(c, r, i, v).reporter = c.reporter
                         /\ Ruled(c, r, i, v).target = c.target
  BY DEF Tables, Report, Ruled
<1>2. \A c \in reports : /\ c.id = i => Ruled(c, r, i, v).status = v /\ Ruled(c, r, i, v).resolver = r
                         /\ c.id # i => Ruled(c, r, i, v) = c
  BY DEF Tables, Report, Ruled
<1>3. \A c, d \in reports : c.id = d.id => c = d
  BY DEF Tables
<1>4. Ids(reports)' = Ids(reports)
  BY <1>1 DEF Ids, RulesOn
<1> QED BY <1>1, <1>2, <1>3, <1>4 DEF RulesOn

LEMMA StepStands ==
  ASSUME Tables, NEW r \in Requests, Step(r)
  PROVE  Stands(r)
<1> USE DEF Ends, Refused
<1>0. req[r] \in Handlers
  BY DEF Tables
<1>1. CASE FindActiveByHash(r)
  <2>1. req[r].at = "key" /\ req[r].op = "open"
    BY <1>0, <1>1 DEF FindActiveByHash, Handlers, NoOne
  <2> QED BY <1>1, <2>1, GoesAdvances, PassStands DEF FindActiveByHash, Follows, tables
<1>2. CASE EnsureNotBanned(r)
  <2>1. req[r].at = "gate" /\ req[r].op \in {"report", "issue", "open"}
    BY <1>0, <1>2 DEF EnsureNotBanned, Handlers, NoOne
  <2> QED BY <1>2, <2>1, GoesAdvances, PassStands DEF EnsureNotBanned, Follows, AfterGate, tables
<1>3. CASE HasOpenReport(r) \/ CountActive(r)
  BY <1>3, GoesAdvances, PassStands DEF HasOpenReport, CountActive, Follows, tables
<1>4. CASE RecordAudit(r)
  BY <1>4, GoesAdvances, PassStands DEF RecordAudit, Follows
<1>5. CASE CreateReport(r)
  <2> DEFINE new == [id |-> r, reporter |-> req[r].user, target |-> req[r].target,
                     status |-> "open", resolver |-> r]
  <2>1. req[r].at = "store" /\ req[r].op = "report" /\ reports' = reports \cup {new}
        /\ UNCHANGED <<keys, stored>>
    BY <1>5 DEF CreateReport
  <2>2. /\ new \in Report /\ new.id = r
        /\ new.reporter = req[r].user /\ new.target = req[r].target
    BY <1>0, <2>1 DEF Handlers, NoOne, Report
  <2>3. Advances(r, "done")
    BY <1>5, GoesAdvances DEF CreateReport, Follows
  <2>4. \A c \in reports : c.id # r
    BY <2>1 DEF Tables
  <2>5. Ids(reports) \subseteq Ids(reports)' /\ Ids(keys)' = Ids(keys)
    BY <2>1 DEF Ids
  <2> HIDE DEF new
  <2> QED BY <2>1, <2>2, <2>3, <2>4, <2>5, RowIds DEF Stands, Advances
<1>6. CASE CreateKey(r)
  <2> DEFINE new == [id |-> r, owner |-> req[r].user, active |-> TRUE]
             a   == IF req[r].op = "adminIssue" THEN "audit" ELSE "done"
  <2>1. req[r].at = "store" /\ req[r].op \in {"issue", "adminIssue"} /\ keys' = keys \cup {new}
        /\ UNCHANGED <<reports, stored>> /\ Goes(r, a)
    BY <1>6 DEF CreateKey
  <2>2. new \in Key /\ new.id = r /\ new.owner = req[r].user
    BY <1>0, <2>1 DEF Handlers, NoOne, Key
  <2>3. Follows(req[r].op, req[r].at, a) /\ a \in {"audit", "done"}
    BY <2>1 DEF Follows
  <2> HIDE DEF new, a
  <2>4. PICK b \in {"audit", "done"} : Advances(r, b)
    BY <2>1, <2>3, GoesOn DEF Advances, Tables
  <2>5. \A k \in keys : k.id # r
    BY <2>1 DEF Tables
  <2>6. Ids(keys) \subseteq Ids(keys)' /\ Ids(reports)' = Ids(reports)
    BY <2>1 DEF Ids
  <2>7. IsFiniteSet(keys')
    BY <2>1, FS_AddElement, RowIds
  <2> QED BY <2>1, <2>2, <2>4, <2>5, <2>6, <2>7, RowIds DEF Stands, Advances
<1>7. CASE OpenWrite(r)
  <2>1. req[r].at = "store" /\ req[r].op = "open" /\ stored' = stored \cup {r}
        /\ UNCHANGED <<reports, keys>>
    BY <1>7 DEF OpenWrite
  <2>2. Advances(r, "done")
    BY <1>7, GoesAdvances DEF OpenWrite, Follows
  <2>3. Ids(keys)' = Ids(keys) /\ Ids(reports)' = Ids(reports)
    BY <2>1 DEF Ids
  <2> QED BY <2>1, <2>2, <2>3, RowIds DEF Stands, Advances
<1>8. CASE Revoke(r)
  <2> DEFINE mine == \E k \in keys : k.id = req[r].about /\ k.owner = req[r].user /\ k.active
             a    == IF req[r].op = "adminRevoke" THEN "audit" ELSE "done"
  <2>1. req[r].at = "revoke" /\ req[r].op \in {"revoke", "adminRevoke"}
    BY <1>0, <1>8 DEF Revoke, Handlers, NoOne
  <2>2. PICK i \in Requests : i = req[r].about
    BY <1>0, <2>1 DEF Handlers, NoOne
  <2>3. CASE mine
    <3>1. RevokedBy(i) /\ UNCHANGED <<reports, stored>> /\ Goes(r, a)
      BY <1>8, <2>2, <2>3 DEF Revoke, RevokedBy, Off
    <3>2. Follows(req[r].op, req[r].at, a) /\ a \in {"audit", "done"}
      BY <2>1 DEF Follows
    <3> HIDE DEF a
    <3>3. PICK b \in {"audit", "done"} : Advances(r, b)
      BY <2>1, <3>1, <3>2, GoesOn DEF Advances, Tables
    <3>4. Ids(reports)' = Ids(reports)
      BY <3>1 DEF Ids
    <3> QED BY <2>1, <3>1, <3>3, <3>4, RevokedKeys, RowIds DEF Stands, Advances
  <2>4. CASE ~mine
    BY <1>8, <2>1, <2>4, GoesAdvances, PassStands DEF Revoke, Follows, tables
  <2> QED BY <2>3, <2>4
<1>9. CASE UpdateStatus(r)
  <2>0. req[r].at = "update"
    BY <1>9 DEF UpdateStatus
  <2>1. req[r].op = "decide"
    BY <1>0, <2>0 DEF Handlers, NoOne
  <2>2. PICK v \in {"resolved", "dismissed"}, i \in {req[r].about} : v = req[r].verdict
    BY <1>0, <2>1 DEF Handlers, NoOne
  <2>3. CASE req[r].about \in Ids(reports)
    <3>1. RulesOn(r, i, v) /\ UNCHANGED <<keys, stored>> /\ Goes(r, "audit")
      BY <1>9, <2>2, <2>3 DEF UpdateStatus, RulesOn, Ruled
    <3>2. Advances(r, "audit")
      BY <2>0, <2>1, <3>1, GoesAdvances DEF Follows
    <3>3. Ids(keys)' = Ids(keys)
      BY <3>1 DEF Ids
    <3>4. /\ reports' \subseteq Report /\ Ids(reports)' = Ids(reports)
          /\ \A c, d \in reports' : c.id = d.id => c = d
          /\ \A c \in reports' :
               \E d \in reports : /\ d.id = c.id /\ d.reporter = c.reporter /\ d.target = c.target
                                  /\ c.status = "open" => d.status = "open"
      BY <3>1, RuledReports
    <3> QED BY <2>0, <3>1, <3>2, <3>3, <3>4, RowIds DEF Stands, Advances
  <2>4. CASE req[r].about \notin Ids(reports)
    BY <1>9, <2>0, <2>1, <2>4, GoesAdvances, PassStands DEF UpdateStatus, Follows, tables
  <2> QED BY <2>3, <2>4
<1>10. CASE Ban(r) \/ Unban(r)
  <2>1. req[r].op = "ban" /\ req[r].at = "ban"
    BY <1>0, <1>10 DEF Ban, Unban, Handlers, NoOne
  <2> QED BY <1>10, <2>1, GoesAdvances, PassStands DEF Ban, Unban, Follows, tables
<1>11. CASE Fail(r)
  BY <1>11, GoesAdvances, PassStands DEF Fail, Follows, tables
<1> QED BY <1>1, <1>2, <1>3, <1>4, <1>5, <1>6, <1>7, <1>8, <1>9, <1>10, <1>11 DEF Step

(* What a request that begins finds, and what is known of it. *)
Starts(r) ==
  /\ UNCHANGED tables /\ req[r].at = "idle"
  /\ req' \in [Requests -> Handlers] /\ \A q \in Requests \ {r} : req'[q] = req[q]
  /\ req'[r].op \in {"revoke", "adminRevoke", "open"} => req'[r].about \in Ids(keys)
  /\ req'[r].at \notin {"idle", "check", "audit", "done"}
  /\ req'[r].at = "store" => req'[r].op = "adminIssue"
  /\ known' \in [Requests -> SUBSET Requests] /\ \A q \in Requests \ {r} : known'[q] = known[q]
  /\ req'[r].op = "report" => known'[r] \subseteq Ids(reports)
  /\ req'[r].op = "issue" => known'[r] \subseteq Ids(keys)
  /\ barred' \subseteq barred \cup ({r} \X {"ban", "key"})
  /\ <<r, "ban">> \in barred' \ barred =>
       /\ req'[r].user \in Banned /\ req'[r].op \in {"report", "issue", "open"}
       /\ req'[r].at \in {"key", "gate"}
  /\ <<r, "key">> \in barred' \ barred =>
       /\ req'[r].op = "open" /\ req'[r].at = "key"
       /\ \A k \in keys : k.id = req'[r].about => ~k.active

LEMMA BeginStarts ==
  ASSUME Tables, Knowledge, NEW r \in Requests, Begin(r)
  PROVE  Starts(r)
<1> USE DEF Arrives
<1>0. known \in [Requests -> SUBSET Requests] /\ req \in [Requests -> Handlers]
  BY DEF Knowledge, Tables
<1>1. ASSUME NEW u \in Users, NEW t \in Targets, BeginReport(r, u, t)
      PROVE  Starts(r)
  <2>1. Ids(Open(u, t)) \subseteq Ids(reports) /\ Ids(reports) \subseteq Requests
    BY RowIds DEF Ids, Open
  <2> DEFINE x == [op |-> "report", at |-> "gate", user |-> u, target |-> t]
  <2>2. x \in Handlers /\ x.op = "report" /\ x.at = "gate" /\ x.user = u
    BY DEF Handlers
  <2>3. /\ req' = [req EXCEPT ![r] = x] /\ req[r].at = "idle" /\ UNCHANGED tables
        /\ known' = [known EXCEPT ![r] = Ids(Open(u, t))]
        /\ barred' = barred \cup ({r} \X IfBanned(u))
    BY <1>1 DEF BeginReport
  <2> HIDE DEF x
  <2> QED BY <1>0, <2>1, <2>2, <2>3 DEF Starts, IfBanned
<1>2. ASSUME NEW u \in Users, BeginIssue(r, u)
      PROVE  Starts(r)
  <2>1. Ids(Active(u)) \subseteq Ids(keys) /\ Ids(keys) \subseteq Requests
    BY RowIds DEF Ids, Active
  <2> DEFINE x == [op |-> "issue", at |-> "gate", user |-> u]
  <2>2. x \in Handlers /\ x.op = "issue" /\ x.at = "gate" /\ x.user = u
    BY DEF Handlers
  <2>3. /\ req' = [req EXCEPT ![r] = x] /\ req[r].at = "idle" /\ UNCHANGED tables
        /\ known' = [known EXCEPT ![r] = Ids(Active(u))]
        /\ barred' = barred \cup ({r} \X IfBanned(u))
    BY <1>2 DEF BeginIssue
  <2> HIDE DEF x
  <2> QED BY <1>0, <2>1, <2>2, <2>3 DEF Starts, IfBanned
<1>3. ASSUME NEW k \in keys, BeginOpen(r, k)
      PROVE  Starts(r)
  <2> DEFINE x == [op |-> "open", at |-> "key", user |-> k.owner, about |-> k.id]
  <2>1. k.id \in Requests /\ k.owner \in Users /\ k.id \in Ids(keys)
    BY RowIds DEF Key, Ids
  <2>2. x \in Handlers /\ x.op = "open" /\ x.at = "key" /\ x.user = k.owner /\ x.about = k.id
    BY <2>1 DEF Handlers
  <2>3. /\ req' = [req EXCEPT ![r] = x] /\ req[r].at = "idle" /\ UNCHANGED tables
        /\ known' = [known EXCEPT ![r] = Ids({})]
        /\ barred' = barred \cup ({r} \X (IfBanned(k.owner) \cup IfRevoked(k)))
    BY <1>3 DEF BeginOpen
  <2>4. Ids({}) = {}
    BY DEF Ids
  <2>5. \A l \in keys : l.id = k.id => l = k
    BY RowIds
  <2> HIDE DEF x
  <2> QED BY <1>0, <2>1, <2>2, <2>3, <2>4, <2>5 DEF Starts, IfBanned, IfRevoked
<1>4. ASSUME NEW x \in Handlers, Arrives(r, x, {}, {}),
             x.op \in {"adminIssue", "revoke", "adminRevoke", "decide", "ban"},
             x.at \in {"store", "revoke", "update", "ban"},
             x.op = "adminIssue" <=> x.at = "store",
             x.op \in {"revoke", "adminRevoke"} => x.about \in Ids(keys)
      PROVE  Starts(r)
  <2>1. Ids({}) = {} /\ {r} \X {} = {}
    BY DEF Ids
  <2> QED BY <1>0, <1>4, <2>1 DEF Starts
<1>5. ASSUME NEW a \in Users, BeginAdminIssue(r, a)
      PROVE  Starts(r)
  <2> DEFINE x == [op |-> "adminIssue", at |-> "store", user |-> a]
  <2>1. x \in Handlers /\ x.op = "adminIssue" /\ x.at = "store" /\ Arrives(r, x, {}, {})
    BY <1>5 DEF BeginAdminIssue, Handlers
  <2> HIDE DEF x
  <2> QED BY <1>4, <2>1
<1>6. ASSUME NEW u \in Users, NEW k \in keys, BeginRevoke(r, u, k.id) \/ BeginAdminRevoke(r, u, k.id)
      PROVE  Starts(r)
  <2>1. k.id \in Requests /\ k.id \in Ids(keys)
    BY RowIds DEF Ids
  <2>2. CASE BeginRevoke(r, u, k.id)
    <3> DEFINE x == [op |-> "revoke", at |-> "revoke", user |-> u, about |-> k.id]
    <3>1. x \in Handlers /\ x.op = "revoke" /\ x.at = "revoke" /\ x.about \in Ids(keys)
          /\ Arrives(r, x, {}, {})
      BY <2>1, <2>2 DEF BeginRevoke, Handlers
    <3> HIDE DEF x
    <3> QED BY <1>4, <3>1
  <2>3. CASE BeginAdminRevoke(r, u, k.id)
    <3> DEFINE x == [op |-> "adminRevoke", at |-> "revoke", user |-> u, about |-> k.id]
    <3>1. x \in Handlers /\ x.op = "adminRevoke" /\ x.at = "revoke" /\ x.about \in Ids(keys)
          /\ Arrives(r, x, {}, {})
      BY <2>1, <2>3 DEF BeginAdminRevoke, Handlers
    <3> HIDE DEF x
    <3> QED BY <1>4, <3>1
  <2> QED BY <1>6, <2>2, <2>3
<1>7. ASSUME NEW a \in Users, NEW c \in reports, NEW v \in {"resolved", "dismissed"},
             BeginAction(r, a, c.id, v)
      PROVE  Starts(r)
  <2> DEFINE x == [op |-> "decide", at |-> "update", user |-> a, about |-> c.id, verdict |-> v]
  <2>1. x \in Handlers /\ x.op = "decide" /\ x.at = "update" /\ Arrives(r, x, {}, {})
    BY <1>7, RowIds DEF BeginAction, Handlers
  <2> HIDE DEF x
  <2> QED BY <1>4, <2>1
<1>8. ASSUME NEW a \in Users, NEW u \in Users, NEW v \in {"banned", "unbanned"}, BeginBan(r, a, u, v)
      PROVE  Starts(r)
  <2> DEFINE x == [op |-> "ban", at |-> "ban", user |-> a, about |-> u, verdict |-> v]
  <2>1. x \in Handlers /\ x.op = "ban" /\ x.at = "ban" /\ Arrives(r, x, {}, {})
    BY <1>8 DEF BeginBan, Handlers
  <2> HIDE DEF x
  <2> QED BY <1>4, <2>1
<1>9. Admins \subseteq Users
  BY DEF Users
<1> QED BY <1>1, <1>2, <1>3, <1>5, <1>6, <1>7, <1>8, <1>9 DEF Begin

LEMMA GoesAt ==
  ASSUME Tables, NEW r \in Requests, NEW a, Goes(r, a)
  PROVE  req'[r].at = a
<1>1. \A x \in Handlers : [x EXCEPT !.at = a].at = a
  <2> TAKE x \in Handlers
  <2>1. "at" \in DOMAIN x
    BY DEF Handlers, NoOne
  <2> QED BY <2>1
<1> QED BY <1>1 DEF Goes, Tables

(* What a step has checked. *)
Checks(r) ==
  /\ known' = known /\ barred' \subseteq barred
  /\ req[r].at = "key" /\ req'[r].at # "done" =>
       req'[r].at = "gate" /\ \E k \in keys : k.id = req[r].about /\ k.active
  /\ req[r].at = "gate" /\ req'[r].at # "done" =>
       req[r].user \notin Banned \/ <<r, "ban">> \notin barred'
  /\ req'[r].at = "store" =>
       /\ UNCHANGED <<reports, keys>>
       /\ req[r].op = "report" => Open(req[r].user, req[r].target) = {}
       /\ req[r].op = "issue" => ~(Cardinality(Active(req[r].user)) >= KeyLimit)
  /\ \A q \in Requests : <<q, "ban">> \in barred' /\ req[q].user \in Banned => req[q].user \in Banned'

LEMMA ChecksNothing ==
  ASSUME NEW r \in Requests, UNCHANGED <<known, barred, banned>>,
         req'[r].at = "done" \/ (req'[r].at # "store" /\ req[r].at \notin {"key", "gate"})
  PROVE  Checks(r)
BY DEF Checks, Banned

LEMMA StepChecks ==
  ASSUME Tables, BarredWait, NEW r \in Requests, Step(r)
  PROVE  Checks(r)
<1> USE DEF Ends, Refused, tables
<1>0. req \in [Requests -> Handlers] /\ req[r] \in Handlers
  BY DEF Tables
<1>1. CASE FindActiveByHash(r)
  BY <1>1, GoesAt DEF FindActiveByHash, Checks, Banned
<1>2. CASE EnsureNotBanned(r)
  <2>1. req[r].at = "gate" /\ req[r].op \in {"report", "issue", "open"}
    BY <1>0, <1>2 DEF EnsureNotBanned, Handlers, NoOne
  <2>2. req'[r].at = "store" => req[r].op = "open"
    BY <1>2, <2>1, GoesAt DEF EnsureNotBanned, AfterGate
  <2>3. UNCHANGED <<known, banned, reports, keys>>
    BY <1>2 DEF EnsureNotBanned
  <2>4. barred' \subseteq barred /\ (req'[r].at = "done" \/ req[r].user \notin Banned \/ <<r, "ban">> \notin barred')
    BY <1>2, GoesAt DEF EnsureNotBanned
  <2> QED BY <2>1, <2>2, <2>3, <2>4 DEF Checks, Banned
<1>3. CASE HasOpenReport(r)
  BY <1>3, GoesAt DEF HasOpenReport, Checks, Banned
<1>4. CASE CountActive(r)
  BY <1>4, GoesAt DEF CountActive, Checks, Banned
<1>5. CASE CreateReport(r) \/ CreateKey(r) \/ OpenWrite(r)
  BY <1>5, GoesAt, ChecksNothing DEF CreateReport, CreateKey, OpenWrite
<1>6. CASE Revoke(r) \/ UpdateStatus(r) \/ RecordAudit(r)
  <2>1. UNCHANGED <<known, barred, banned>> /\ req[r].at \in {"revoke", "update", "audit"}
    BY <1>6 DEF Revoke, UpdateStatus, RecordAudit
  <2>2. PICK a \in {"done", "audit"} : Goes(r, a)
    BY <1>6 DEF Revoke, UpdateStatus, RecordAudit
  <2>3. req'[r].at = "done" \/ req'[r].at = "audit"
    BY <2>2, GoesAt
  <2>4. req'[r].at # "store" /\ req[r].at \notin {"key", "gate"}
    BY <2>1, <2>3
  <2> QED BY <2>1, <2>4 DEF Checks, Banned
<1>7. CASE Ban(r)
  <2>1. req[r].at = "ban" /\ Goes(r, "audit") /\ UNCHANGED <<known, barred>>
    BY <1>7 DEF Ban
  <2>2. Banned \subseteq Banned'
    <3> DEFINE new == [user |-> req[r].about, by |-> r]
    <3>1. /\ banned' = {b \in banned : b.user # req[r].about} \cup {new}
          /\ new.user = req[r].about
      BY <1>7 DEF Ban
    <3> HIDE DEF new
    <3> QED BY <3>1 DEF Banned
  <2> QED BY <2>1, <2>2, GoesAt DEF Checks
<1>8. CASE Unban(r)
  <2>1. CASE req[r].about \in Banned
    <3>1. /\ banned' = {b \in banned : b.user # req[r].about}
          /\ barred' = {x \in barred : x[2] = "ban" => req[x[1]].user # req[r].about}
          /\ req[r].at = "ban" /\ Goes(r, "audit") /\ UNCHANGED <<reports, keys, known>>
      BY <1>8, <2>1 DEF Unban
    <3>2. \A q \in Requests : <<q, "ban">> \in barred' => req[q].user # req[r].about
      BY <3>1
    <3>3. \A u \in Banned : u # req[r].about => u \in Banned'
      BY <3>1 DEF Banned
    <3> QED BY <3>1, <3>2, <3>3, GoesAt DEF Checks
  <2>2. CASE req[r].about \notin Banned
    BY <1>8, <2>2, GoesAt, ChecksNothing DEF Unban
  <2> QED BY <2>1, <2>2
<1>9. CASE Fail(r)
  BY <1>9, GoesAt, ChecksNothing DEF Fail
<1> QED BY <1>1, <1>2, <1>3, <1>4, <1>5, <1>6, <1>7, <1>8, <1>9 DEF Step

(* Invariance -------------------------------------------------------------*)

LEMMA StepKnowledge ==
  ASSUME Tables, Knowledge, NEW r \in Requests, Stands(r), known' = known
  PROVE  Knowledge'
BY DEF Knowledge, Stands, Same

LEMMA StepReportsKnown ==
  ASSUME Tables, Knowledge, ReportsKnown, NEW r \in Requests, Stands(r), Checks(r)
  PROVE  ReportsKnown'
<1> SUFFICES ASSUME NEW q \in Requests, req'[q].op = "report",
                    req'[q].at = "store" \/ q \in Ids(reports)',
                    NEW c \in reports', c.id \in known'[q],
                    c.reporter = req'[q].user, c.target = req'[q].target
             PROVE  c.status # "open"
  BY DEF ReportsKnown
<1>1. /\ req[q].op = "report" /\ req[q].user = req'[q].user /\ req[q].target = req'[q].target
      /\ known'[q] = known[q]
  BY DEF Stands, Same, Checks
<1>2. c.id \in Ids(reports)
  BY <1>1 DEF Knowledge
<1>3. PICK d \in reports : /\ d.id = c.id /\ d.reporter = c.reporter /\ d.target = c.target
                           /\ c.status = "open" => d.status = "open"
  <2>1. \A e \in reports : req[e.id].at = "done"
    BY DEF Tables
  <2>2. req[c.id].at = "done"
    BY <1>2, <2>1 DEF Ids
  <2> QED BY <2>2 DEF Stands
<1>4. CASE req[q].at = "store" \/ q \in Ids(reports)
  BY <1>1, <1>3, <1>4 DEF ReportsKnown
<1>5. CASE req[q].at # "store" /\ q \notin Ids(reports) /\ req'[q].at = "store"
  <2>1. q = r /\ Open(req[q].user, req[q].target) = {} /\ reports' = reports
    BY <1>1, <1>5 DEF Stands, Checks
  <2> QED BY <1>1, <2>1 DEF Open
<1>6. CASE req[q].at # "store" /\ q \notin Ids(reports) /\ q \in Ids(reports)'
  BY <1>6 DEF Stands, Ids
<1> QED BY <1>4, <1>5, <1>6

LEMMA ActiveIds ==
  ASSUME Tables, NEW u
  PROVE  /\ IsFiniteSet(Ids(Active(u))) /\ IsFiniteSet(Active(u))
         /\ Cardinality(Ids(Active(u))) <= Cardinality(Active(u))
<1>1. IsFiniteSet(Active(u))
  BY RowIds, FS_Subset DEF Active
<1>2. [k \in Active(u) |-> k.id] \in Surjection(Active(u), Ids(Active(u)))
  BY DEF Surjection, Range, Ids
<1> QED BY <1>1, <1>2, FS_Surjection

LEMMA StepKeysKnown ==
  ASSUME Tables, Knowledge, KeysKnown, NEW r \in Requests, Stands(r), Checks(r)
  PROVE  KeysKnown'
<1> SUFFICES ASSUME NEW q \in Requests, req'[q].op = "issue",
                    req'[q].at = "store" \/ q \in Ids(keys)'
             PROVE  (Cardinality(known[q] \cap Ids(Active(req[q].user))) < KeyLimit)'
  BY DEF KeysKnown
<1>1. PICK u : u = req[q].user
  OBVIOUS
<1>2. req[q].op = "issue" /\ u = req'[q].user /\ known'[q] = known[q]
  BY <1>1 DEF Stands, Same, Checks
<1>3. (known[q] \cap Ids(Active(u)))' \subseteq known[q] \cap Ids(Active(u))
  <2> SUFFICES ASSUME NEW k \in keys', k.id \in known[q], k.owner = u, k.active
               PROVE  k.id \in Ids(Active(u))
    BY <1>2 DEF Ids, Active
  <2>1. k.id \in Ids(keys) /\ \A l \in keys : req[l.id].at \in {"audit", "done"}
    BY <1>2 DEF Knowledge, Tables
  <2>2. \E l \in keys : l.id = k.id /\ l.owner = k.owner /\ (k.active => l.active)
    BY <2>1 DEF Stands, Ids
  <2> QED BY <2>2 DEF Ids, Active
<1>4. IsFiniteSet(known[q] \cap Ids(Active(u))) /\ Cardinality(known[q] \cap Ids(Active(u))) \in Nat
      /\ Cardinality((known[q] \cap Ids(Active(u)))') <= Cardinality(known[q] \cap Ids(Active(u)))
      /\ Cardinality((known[q] \cap Ids(Active(u)))') \in Nat
  BY <1>3, ActiveIds, FS_Subset, FS_CardinalityType
<1>5. Cardinality(known[q] \cap Ids(Active(u))) < KeyLimit
  <2>1. CASE req[q].at = "store" \/ q \in Ids(keys)
    BY <1>1, <1>2, <2>1 DEF KeysKnown
  <2>2. CASE req[q].at # "store" /\ q \notin Ids(keys) /\ req'[q].at = "store"
    <3>1. q = r
      BY <2>2 DEF Stands
    <3>2. ~(Cardinality(Active(u)) >= KeyLimit)
      BY <1>1, <1>2, <2>2, <3>1 DEF Checks
    <3>3. /\ Cardinality(known[q] \cap Ids(Active(u))) <= Cardinality(Ids(Active(u)))
          /\ Cardinality(Ids(Active(u))) \in Nat /\ Cardinality(Active(u)) \in Nat
          /\ Cardinality(Ids(Active(u))) <= Cardinality(Active(u))
      BY ActiveIds, FS_Subset, FS_CardinalityType
    <3> QED BY <1>4, <3>2, <3>3, KeyLimitAssumption
  <2>3. CASE req[q].at # "store" /\ q \notin Ids(keys) /\ q \in Ids(keys)'
    BY <2>3 DEF Stands, Ids
  <2> QED BY <2>1, <2>2, <2>3
<1>6. Cardinality((known[q] \cap Ids(Active(u)))') < KeyLimit
  BY <1>4, <1>5, KeyLimitAssumption
<1> QED BY <1>2, <1>6

LEMMA StepBarredWait ==
  ASSUME Tables, BarredWait, NEW r \in Requests, Stands(r), Checks(r)
  PROVE  BarredWait'
<1>1. barred' \subseteq Requests \X {"ban", "key"}
  BY DEF BarredWait, Checks
<1>2. ASSUME NEW q \in Requests, <<q, "key">> \in barred'
      PROVE  /\ req'[q].op = "open" /\ req'[q].at \in {"key", "done"} /\ q \notin stored'
             /\ \A k \in keys' : k.id = req'[q].about => ~k.active
  <2>1. /\ req[q].op = "open" /\ req[q].at \in {"key", "done"} /\ q \notin stored
        /\ \A k \in keys : k.id = req[q].about => ~k.active
    BY <1>2 DEF BarredWait, Checks
  <2>2. req'[q].op = "open" /\ req'[q].about = req[q].about /\ q \notin stored'
    BY <2>1 DEF Stands, Same
  <2>3. req'[q].at \in {"key", "done"}
    BY <2>1 DEF Stands, Checks
  <2>4. \A k \in keys' : k.id = req[q].about => ~k.active
    <3>1. req[q].about \in Ids(keys) /\ \A l \in keys : req[l.id].at # "store"
      BY <2>1 DEF Tables
    <3> QED BY <2>1, <3>1 DEF Stands, Ids
  <2> QED BY <2>2, <2>3, <2>4
<1>3. ASSUME NEW q \in Requests, <<q, "ban">> \in barred'
      PROVE  /\ req'[q].user \in Banned' /\ req'[q].op \in {"report", "issue", "open"}
             /\ req'[q].at \in {"key", "gate", "done"}
             /\ q \notin Ids(reports)' \cup Ids(keys)' \cup stored'
  <2>1. /\ req[q].user \in Banned /\ req[q].op \in {"report", "issue", "open"}
        /\ req[q].at \in {"key", "gate", "done"}
        /\ q \notin Ids(reports) \cup Ids(keys) \cup stored
    BY <1>3 DEF BarredWait, Checks
  <2>2. req'[q].op = req[q].op /\ req'[q].user = req[q].user /\ req[q].user \in Banned'
    BY <1>3, <2>1 DEF Stands, Same, Checks
  <2>3. req'[q].at \in {"key", "gate", "done"}
    BY <1>3, <2>1 DEF Stands, Checks
  <2>4. q \notin Ids(reports)' /\ q \notin Ids(keys)' /\ q \notin stored'
    BY <2>1 DEF Stands, Ids
  <2> QED BY <2>1, <2>2, <2>3, <2>4
<1> QED BY <1>1, <1>2, <1>3 DEF BarredWait

LEMMA BeginInv ==
  ASSUME ModerationInv, NEW r \in Requests, Starts(r)
  PROVE  ModerationInv'
<1> USE DEF ModerationInv
<1>1. UNCHANGED <<reports, keys, stored>> /\ Ids(reports)' = Ids(reports) /\ Ids(keys)' = Ids(keys)
      /\ Banned' = Banned /\ \A u : Active(u)' = Active(u)
  BY DEF Starts, tables, Ids, Banned, Active
<1>2. r \notin Ids(reports) \cup Ids(keys) \cup stored
  BY DEF Starts, Tables, Ids
<1>3. Tables'
  <2>1. /\ \A c \in reports : c.id \in Requests \ {r}
        /\ \A k \in keys : k.id \in Requests \ {r}
    BY <1>2, RowIds DEF Ids
  <2> QED BY <1>1, <1>2, <2>1 DEF Starts, Tables
<1>4. Knowledge'
  BY <1>1 DEF Starts, Knowledge
<1>5. ReportsKnown'
  BY <1>1, <1>2 DEF Starts, ReportsKnown
<1>6. KeysKnown'
  BY <1>1, <1>2 DEF Starts, KeysKnown
<1>7. BarredWait'
  BY <1>1, <1>2 DEF Starts, BarredWait
<1> QED BY <1>3, <1>4, <1>5, <1>6, <1>7

LEMMA StepModeration == ModerationInv /\ [Next]_vars => ModerationInv'
<1> SUFFICES ASSUME ModerationInv, [Next]_vars PROVE ModerationInv'
  OBVIOUS
<1> USE DEF ModerationInv
<1>1. ASSUME NEW r \in Requests, Begin(r) PROVE ModerationInv'
  BY <1>1, BeginStarts, BeginInv
<1>2. ASSUME NEW r \in Requests, Step(r) PROVE ModerationInv'
  <2>1. Stands(r) /\ Checks(r) /\ known' = known
    BY <1>2, StepStands, StepChecks DEF Checks
  <2> QED BY <2>1, TablesStand, StepKnowledge, StepReportsKnown, StepKeysKnown, StepBarredWait
<1>3. CASE UNCHANGED vars
  BY <1>3 DEF vars, tables, Tables, Knowledge, ReportsKnown, KeysKnown, BarredWait, Ids, Active, Banned
<1> QED BY <1>1, <1>2, <1>3 DEF Next

(* The audit --------------------------------------------------------------*)

(* r has ruled, and has an entry, is about to write it, or has lost it. *)
Ruler(r, op, about, verdict) ==
  /\ r \in Requests
  /\ req[r].op = op /\ req[r].about = about /\ req[r].verdict = verdict
  /\ \/ req[r].at = "audit"
     \/ req[r].at = "done" /\ r \in unaudited
     \/ req[r].at = "done" /\ [by |-> r, op |-> op, about |-> about, verdict |-> verdict] \in audit

Revoker(r) == req[r].op = "adminRevoke" /\ (req[r].at = "audit" \/ \E e \in audit : e.by = r)

Entries ==
  /\ \A e \in audit : /\ e.by \in Requests /\ req[e.by].at = "done" /\ req[e.by].op = e.op
                      /\ e.op = "adminRevoke" => e.about = req[e.by].about
  /\ \A e, f \in audit : e.by = f.by => e = f

Rulings ==
  /\ \A c \in reports : c.status # "open" => Ruler(c.resolver, "decide", c.id, c.status)
  /\ \A b \in banned : Ruler(b.by, "ban", b.user, "banned")

(* A key has one revoker, after whom it is inactive. *)
Revokers ==
  /\ \A r \in Requests : Revoker(r) => \A k \in keys : k.id = req[r].about => ~k.active
  /\ \A r, q \in Requests : Revoker(r) /\ Revoker(q) /\ req[r].about = req[q].about => r = q

AuditInv == Entries /\ Rulings /\ Revokers

LEMMA RulerStays ==
  ASSUME NEW r \in Requests, NEW q, NEW op \in {"decide", "ban"}, NEW about, NEW verdict,
         Ruler(q, op, about, verdict),
         \A p \in Requests \ {r} : req'[p] = req[p],
         req[r].at \notin {"audit", "done"}, audit \subseteq audit', unaudited \subseteq unaudited'
  PROVE  Ruler(q, op, about, verdict)'
BY DEF Ruler

LEMMA InitAudit == Init => AuditInv
BY DEF Init, AuditInv, Entries, Rulings, Revokers, Revoker, NoOne

(* What a step that writes no entry has to leave: r is another ruler only  *)
(* of what it rules on, and a revoker only of a key that was active.       *)
LEMMA EntriesStand ==
  ASSUME Tables, Entries, NEW r \in Requests, Stands(r), audit' = audit
  PROVE  Entries'
BY DEF Entries, Stands, Same

LEMMA RevokersStand ==
  ASSUME Tables, Entries, Revokers, NEW r \in Requests, Stands(r), audit' = audit,
         req[r].op # "adminRevoke" \/ req'[r].at # "audit"
  PROVE  Revokers'
<1>1. \A q \in Requests : Revoker(q)' => Revoker(q) /\ req'[q].about = req[q].about
  BY DEF Revoker, Stands, Same
<1>2. ASSUME NEW q \in Requests, Revoker(q), NEW k \in keys', k.id = req[q].about
      PROVE  ~k.active
  <2>1. /\ \A l \in keys : l.id = k.id => ~l.active
        /\ k.id \in Ids(keys) /\ \A l \in keys : req[l.id].at # "store"
    BY <1>2 DEF Revokers, Revoker, Tables
  <2> QED BY <1>2, <2>1 DEF Stands, Ids
<1> QED BY <1>1, <1>2 DEF Revokers

LEMMA StepAudit ==
  ASSUME Tables, AuditInv, NEW r \in Requests, Step(r), Stands(r)
  PROVE  AuditInv'
<1> USE DEF AuditInv, Ends, Refused, tables
<1>0. req[r] \in Handlers
  BY DEF Tables
<1>a. \A q \in Requests \ {r} : req'[q] = req[q]
  BY DEF Stands
<1>1. ASSUME UNCHANGED <<reports, banned, audit, unaudited>>,
             req[r].at \notin {"audit", "done"}, req[r].op # "adminRevoke" \/ req'[r].at # "audit"
      PROVE  AuditInv'
  <2>1. Rulings'
    BY <1>1, <1>a, RulerStays DEF Rulings
  <2> QED BY <1>1, <2>1, EntriesStand, RevokersStand
<1>2. CASE FindActiveByHash(r) \/ EnsureNotBanned(r) \/ HasOpenReport(r) \/ CountActive(r) \/ Fail(r)
  <2>1. UNCHANGED <<reports, banned, audit, unaudited>> /\ req[r].at \notin {"audit", "done"}
    BY <1>2 DEF FindActiveByHash, EnsureNotBanned, HasOpenReport, CountActive, Fail
  <2>2. req'[r].at # "audit"
    <3>1. CASE EnsureNotBanned(r)
      <4>1. req[r].at = "gate" /\ req[r].op \in {"report", "issue", "open"}
        BY <1>0, <3>1 DEF EnsureNotBanned, Handlers, NoOne
      <4>2. AfterGate[req[r].op] # "audit"
        BY <4>1 DEF AfterGate
      <4> QED BY <3>1, <4>2, GoesAt DEF EnsureNotBanned
    <3>2. CASE ~EnsureNotBanned(r)
      BY <1>2, <3>2, GoesAt DEF FindActiveByHash, HasOpenReport, CountActive, Fail
    <3> QED BY <3>1, <3>2
  <2> QED BY <1>1, <2>1, <2>2
<1>3. CASE CreateKey(r) \/ OpenWrite(r)
  BY <1>1, <1>3 DEF CreateKey, OpenWrite
<1>4. CASE CreateReport(r)
  <2>1. /\ UNCHANGED <<banned, audit, unaudited>> /\ req[r].at = "store" /\ req'[r].at = "done"
        /\ \A c \in reports' : c \in reports \/ c.status = "open"
    BY <1>4, GoesAt DEF CreateReport
  <2>2. Rulings'
    BY <1>a, <2>1, RulerStays DEF Rulings
  <2> QED BY <2>1, <2>2, EntriesStand, RevokersStand
<1>5. CASE Revoke(r)
  <2> DEFINE mine == \E k \in keys : k.id = req[r].about /\ k.owner = req[r].user /\ k.active
  <2>1. req[r].at = "revoke" /\ UNCHANGED <<reports, banned, audit, unaudited>>
    BY <1>5 DEF Revoke
  <2>2. CASE ~mine
    BY <1>1, <1>5, <2>1, <2>2, GoesAt DEF Revoke
  <2>3. CASE mine
    <3>1. req[r].about \in Requests
      BY <1>0, <2>1 DEF Handlers, NoOne
    <3>2. PICK i \in Requests : i = req[r].about
      BY <3>1
    <3>3. RevokedBy(i)
      BY <1>5, <2>3, <3>2 DEF Revoke, RevokedBy, Off
    <3>4. Rulings'
      BY <1>a, <2>1, RulerStays DEF Rulings
    <3>5. \A k \in keys' : k.id = i => ~k.active
      BY <3>3, RevokedKeys
    <3>6. \A q \in Requests \ {r} : Revoker(q) => req[q].about # i
      BY <2>3, <3>2 DEF Revokers
    <3>7. \A q \in Requests \ {r} : Revoker(q)' <=> Revoker(q)
      BY <1>a, <2>1 DEF Revoker
    <3>8. \A k \in keys' : \E l \in keys : l.id = k.id /\ (k.active => l.active)
      BY <3>3, RevokedKeys
    <3>9. \A q \in Requests : req'[q].about = req[q].about \/ req[q].op \notin {"revoke", "adminRevoke"}
      BY DEF Stands, Same
    <3>10. Revokers'
      <4>1. \A q \in Requests : Revoker(q)' => req'[q].about = req[q].about
        BY <3>9 DEF Revoker, Stands, Same
      <4>2. ASSUME NEW q \in Requests, Revoker(q)', NEW k \in keys', k.id = req'[q].about
            PROVE  ~k.active
        <5>1. CASE q = r
          BY <3>2, <3>5, <4>1, <4>2, <5>1
        <5>2. CASE q # r
          BY <3>7, <3>8, <4>1, <4>2, <5>2 DEF Revokers
        <5> QED BY <5>1, <5>2
      <4>3. ASSUME NEW p \in Requests, NEW q \in Requests, Revoker(p)', Revoker(q)',
                   req'[p].about = req'[q].about
            PROVE  p = q
        BY <3>2, <3>6, <3>7, <4>1, <4>3 DEF Revokers
      <4> QED BY <4>2, <4>3 DEF Revokers
    <3> QED BY <2>1, <3>4, <3>10, EntriesStand
  <2> QED BY <2>2, <2>3
<1>6. CASE UpdateStatus(r)
  <2>0. req[r].at = "update" /\ UNCHANGED <<banned, audit, unaudited>>
    BY <1>6 DEF UpdateStatus
  <2>1. req[r].op = "decide"
    BY <1>0, <2>0 DEF Handlers, NoOne
  <2>2. PICK v \in {"resolved", "dismissed"}, i \in {req[r].about} : v = req[r].verdict
    BY <1>0, <2>1 DEF Handlers, NoOne
  <2>3. CASE req[r].about \in Ids(reports)
    <3>1. RulesOn(r, i, v) /\ Goes(r, "audit")
      BY <1>6, <2>2, <2>3 DEF UpdateStatus, RulesOn, Ruled
    <3>2. Ruler(r, "decide", i, v)'
      BY <2>1, <2>2, <3>1, GoesAt DEF Ruler, Stands, Same
    <3>3. \A c \in reports' : (c.id = i /\ c.status = v /\ c.resolver = r) \/ c \in reports
      BY <3>1, RuledReports
    <3>4. \A c \in reports' : c.status # "open" => Ruler(c.resolver, "decide", c.id, c.status)'
      BY <1>a, <2>0, <3>2, <3>3, RulerStays DEF Rulings
    <3>5. \A b \in banned' : Ruler(b.by, "ban", b.user, "banned")'
      BY <1>a, <2>0, RulerStays DEF Rulings
    <3> QED BY <2>0, <2>1, <3>4, <3>5, EntriesStand, RevokersStand DEF Rulings
  <2>4. CASE req[r].about \notin Ids(reports)
    BY <1>1, <1>6, <2>0, <2>1, <2>4 DEF UpdateStatus
  <2> QED BY <2>3, <2>4
<1>7. CASE Ban(r)
  <2>1. /\ req[r].at = "ban" /\ UNCHANGED <<reports, audit, unaudited>> /\ req[r].verdict = "banned"
        /\ \A b \in banned' : b \in banned \/ (b.user = req[r].about /\ b.by = r)
        /\ Goes(r, "audit")
    BY <1>7 DEF Ban
  <2>2. req[r].op = "ban"
    BY <1>0, <2>1 DEF Handlers, NoOne
  <2>3. \A a : a = req[r].about => Ruler(r, "ban", a, "banned")'
    BY <2>1, <2>2, GoesAt DEF Ruler, Stands, Same
  <2>4. \A b \in banned' : Ruler(b.by, "ban", b.user, "banned")'
    BY <1>a, <2>1, <2>3, RulerStays DEF Rulings
  <2>5. \A c \in reports' : c.status # "open" => Ruler(c.resolver, "decide", c.id, c.status)'
    BY <1>a, <2>1, RulerStays DEF Rulings
  <2> QED BY <2>1, <2>2, <2>4, <2>5, EntriesStand, RevokersStand DEF Rulings
<1>8. CASE Unban(r)
  <2>1. /\ req[r].at = "ban" /\ UNCHANGED <<reports, audit, unaudited>> /\ banned' \subseteq banned
    BY <1>8 DEF Unban
  <2>2. req[r].op = "ban"
    BY <1>0, <2>1 DEF Handlers, NoOne
  <2>3. Rulings'
    BY <1>a, <2>1, RulerStays DEF Rulings
  <2> QED BY <2>1, <2>2, <2>3, EntriesStand, RevokersStand
<1>9. CASE RecordAudit(r)
  <2>1. /\ req[r].at = "audit" /\ Goes(r, "done") /\ UNCHANGED <<reports, keys, banned>>
        /\ \/ audit' = audit \cup {Entry(r)} /\ unaudited' = unaudited
           \/ unaudited' = unaudited \cup {r} /\ audit' = audit
    BY <1>9 DEF RecordAudit
  <2>2. req'[r].at = "done" /\ Same(req'[r], req[r])
    BY <2>1, GoesAt DEF Stands
  <2>3. /\ Entry(r).by = r /\ Entry(r).op = req[r].op
        /\ req[r].op = "adminRevoke" => Entry(r).about = req[r].about
        /\ req[r].op \in {"decide", "ban"} =>
             Entry(r) = [by |-> r, op |-> req[r].op, about |-> req[r].about, verdict |-> req[r].verdict]
    BY DEF Entry
  <2>4. Entries'
    <3>1. \A e \in audit' : e \in audit \/ e = Entry(r)
      BY <2>1
    <3>2. \A e \in audit : e.by # r
      BY <2>1 DEF Entries
    <3> QED BY <1>a, <2>2, <2>3, <3>1, <3>2 DEF Entries, Same
  <2>5. ASSUME NEW q, NEW op \in {"decide", "ban"}, NEW a, NEW v, Ruler(q, op, a, v)
        PROVE  Ruler(q, op, a, v)'
    <3>1. CASE q = r
      BY <2>1, <2>2, <2>3, <2>5, <3>1 DEF Ruler, Same
    <3>2. CASE q # r
      BY <1>a, <2>1, <2>5, <3>2 DEF Ruler
    <3> QED BY <3>1, <3>2
  <2>6. Rulings'
    BY <2>1, <2>5 DEF Rulings
  <2>7. \A q \in Requests : Revoker(q)' => Revoker(q) /\ req'[q].about = req[q].about
    BY <1>a, <2>1, <2>2, <2>3 DEF Revoker, Same
  <2>8. Revokers'
    BY <2>1, <2>7 DEF Revokers
  <2> QED BY <2>4, <2>6, <2>8
<1> QED BY <1>2, <1>3, <1>4, <1>5, <1>6, <1>7, <1>8, <1>9 DEF Step

LEMMA BeginAudit ==
  ASSUME Tables, AuditInv, NEW r \in Requests, Starts(r)
  PROVE  AuditInv'
<1> USE DEF AuditInv
<1>1. /\ UNCHANGED <<reports, keys, banned, audit, unaudited>> /\ req[r].at = "idle"
      /\ \A q \in Requests \ {r} : req'[q] = req[q]
      /\ req'[r].at # "audit"
  BY DEF Starts, tables
<1>2. Entries'
  BY <1>1 DEF Entries
<1>3. Rulings'
  BY <1>1, RulerStays DEF Rulings
<1>4. \A q \in Requests : Revoker(q)' => q # r /\ Revoker(q)
  BY <1>1 DEF Revoker, Entries
<1>5. Revokers'
  BY <1>1, <1>4 DEF Revokers
<1> QED BY <1>2, <1>3, <1>5

LEMMA AllInvariant == Spec => [](ModerationInv /\ AuditInv)
<1>1. ModerationInv /\ AuditInv /\ [Next]_vars => AuditInv'
  <2> SUFFICES ASSUME ModerationInv, AuditInv, [Next]_vars PROVE AuditInv'
    OBVIOUS
  <2>1. ASSUME NEW r \in Requests, Begin(r) PROVE AuditInv'
    BY <2>1, BeginStarts, BeginAudit DEF ModerationInv
  <2>2. ASSUME NEW r \in Requests, Step(r) PROVE AuditInv'
    BY <2>2, StepStands, StepAudit DEF ModerationInv
  <2>3. CASE UNCHANGED vars
    BY <2>3 DEF vars, tables, AuditInv, Entries, Rulings, Revokers, Ruler, Revoker
  <2> QED BY <2>1, <2>2, <2>3 DEF Next
<1> QED BY <1>1, InitModeration, InitAudit, StepModeration, PTL DEF Spec

-----------------------------------------------------------------------------
(* Nobody who knew of his open report when he began stores a second one    *)
(* (HasOpenReport), whatever the number of requests and admins.            *)
THEOREM ReportsOnce == Spec => []ReportedOnce
<1>1. ModerationInv => ReportedOnce
  <2> SUFFICES ASSUME ModerationInv, NEW c \in reports, NEW d \in reports,
                      c.status = "open", d.status = "open", c.reporter = d.reporter,
                      c.target = d.target, c.id \in known[d.id]
               PROVE  FALSE
    BY DEF ReportedOnce
  <2>1. /\ d.id \in Requests /\ d.id \in Ids(reports) /\ req[d.id].op = "report"
        /\ req[d.id].user = d.reporter /\ req[d.id].target = d.target
    BY RowIds DEF ModerationInv, Tables, Ids
  <2> QED BY <2>1 DEF ModerationInv, ReportsKnown
<1> QED BY <1>1, AllInvariant, PTL

(* For every limit, a key issued by its owner is not one too many among    *)
(* those there were when he asked (CountActive).                           *)
THEOREM KeysStayLimited == Spec => []KeysLimited
<1>1. ModerationInv => KeysLimited
  <2> SUFFICES ASSUME ModerationInv, NEW k \in keys, req[k.id].op = "issue"
               PROVE  Cardinality(known[k.id] \cap Ids(Active(k.owner))) < KeyLimit
    BY DEF KeysLimited
  <2>1. k.id \in Requests /\ k.id \in Ids(keys) /\ req[k.id].user = k.owner
    BY RowIds DEF ModerationInv, Tables, Ids
  <2> QED BY <2>1 DEF ModerationInv, KeysKnown
<1> QED BY <1>1, AllInvariant, PTL

(* A revoked key and a banned user get nothing stored (requireAPIKey,      *)
(* ensureNotBanned).                                                       *)
THEOREM BarredShutOut == Spec => []ShutOut
<1>1. ModerationInv => ShutOut
  <2> SUFFICES ASSUME ModerationInv, NEW x \in barred
               PROVE  x[1] \notin Ids(reports) \cup Ids(keys) \cup stored
    BY DEF ShutOut
  <2>1. PICK r \in Requests, y \in {"ban", "key"} : x = <<r, y>>
    BY DEF ModerationInv, BarredWait
  <2>2. CASE y = "ban"
    BY <2>1, <2>2 DEF ModerationInv, BarredWait
  <2>3. CASE y = "key"
    BY <2>1, <2>3 DEF ModerationInv, BarredWait, Tables, Ids
  <2> QED BY <2>1, <2>2, <2>3
<1> QED BY <1>1, AllInvariant, PTL

(* Every verdict and every ban has its entry in the audit, about to be     *)
(* written or lost, and no key two revocations (recordAdminAudit).         *)
THEOREM AuditComplete == Spec => []AuditAccounts
<1>1. ModerationInv /\ AuditInv => AuditAccounts
  <2> SUFFICES ASSUME ModerationInv, AuditInv PROVE AuditAccounts
    OBVIOUS
  <2>1. \A r, op, about, verdict : Ruler(r, op, about, verdict) => Told(r, op, about, verdict)
    BY DEF Ruler, Told
  <2>2. ASSUME NEW e \in audit, NEW f \in audit, e.op = "adminRevoke", f.op = "adminRevoke",
               e.about = f.about
        PROVE  e = f
    <3>1. /\ e.by \in Requests /\ f.by \in Requests /\ Revoker(e.by) /\ Revoker(f.by)
          /\ req[e.by].about = req[f.by].about
      BY <2>2 DEF AuditInv, Entries, Revoker
    <3> QED BY <3>1 DEF AuditInv, Revokers, Entries
  <2> QED BY <2>1, <2>2 DEF AuditAccounts, AuditInv, Rulings
<1> QED BY <1>1, AllInvariant, PTL
=============================================================================
