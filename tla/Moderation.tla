----------------------------- MODULE Moderation -----------------------------
(***************************************************************************)
(* Reports and what admins do about them (content_reports.go), bans        *)
(* (user_bans.go, admin_console.go), API keys and what agents do with them *)
(* (api_keys.go, open_api.go), and the audit of the admins' deeds          *)
(* (admin_audit.go).  Every repository call is one statement; a handler is *)
(* a request that makes them one after the other.  A report, a key and a   *)
(* stored text are named by the request that made them.                    *)
(*                                                                         *)
(* Left out: names, reasons and prefixes, the listing endpoints, and what  *)
(* the open API stores, which is that of an author (ProjectLifecycle,      *)
(* DocumentTree).  A target is the string that is stored: a project's ID,  *)
(* a slug that led to no published project, or a comment's ID.             *)
(***************************************************************************)
EXTENDS Integers, FiniteSets

CONSTANTS
  Members, Admins,
  Requests,   \* each is served once
  Targets,    \* what can be reported
  KeyLimit    \* maxUserAPIKeys

Users == Members \cup Admins

ASSUME PeopleAssumption == Members \cap Admins = {}
ASSUME KeyLimitAssumption == KeyLimit \in Nat

VARIABLES
  reports,  \* content_reports
  keys,     \* api_keys; active: revoked_at IS NULL
  banned,   \* user_bans, each with the request that stored it
  stored,   \* requests of agents that stored something
  audit,    \* admin_audit
  unaudited,\* history: admin requests whose audit entry failed
  req,      \* each request's handler: its next call and its locals
  known,    \* history: the open reports on its target, or the active keys, its
            \* user had when the request began
  barred    \* history: requests that began with a revoked key, or while their
            \* user was banned; unless he was unbanned since, or the lookup of
            \* the ban failed

tables == <<reports, keys, banned, stored, audit, unaudited>>
vars == <<tables, req, known, barred>>

NoOne == [op |-> "none", at |-> "idle"]

Init ==
  /\ reports = {} /\ keys = {} /\ banned = {} /\ stored = {}
  /\ audit = {} /\ unaudited = {}
  /\ req = [r \in Requests |-> NoOne]
  /\ known = [r \in Requests |-> {}]
  /\ barred = {}

Open(u, t) == {c \in reports : c.reporter = u /\ c.target = t /\ c.status = "open"}
Active(u) == {k \in keys : k.owner = u /\ k.active}
Ids(S) == {x.id : x \in S}
Banned == {b.user : b \in banned}

Goes(r, at) == req' = [req EXCEPT ![r].at = at]
Ends(r) == Goes(r, "done") /\ UNCHANGED <<known, barred>>
Refused(r) == Ends(r) /\ UNCHANGED tables

(* A request arrives; it has passed requireCurrentUser, or requireAdminUser.*)
Arrives(r, x, old, reasons) ==
  /\ req[r].at = "idle" /\ req' = [req EXCEPT ![r] = x]
  /\ known' = [known EXCEPT ![r] = Ids(old)]
  /\ barred' = barred \cup ({r} \X reasons)
  /\ UNCHANGED tables

IfBanned(u) == IF u \in Banned THEN {"ban"} ELSE {}
IfRevoked(k) == IF k.active THEN {} ELSE {"key"}

BeginReport(r, u, t) ==
  Arrives(r, [op |-> "report", at |-> "gate", user |-> u, target |-> t],
          Open(u, t), IfBanned(u))

BeginIssue(r, u) ==
  Arrives(r, [op |-> "issue", at |-> "gate", user |-> u], Active(u), IfBanned(u))

(* adminAPIKeysHandler asks neither for the ban nor for the limit.         *)
BeginAdminIssue(r, a) ==
  Arrives(r, [op |-> "adminIssue", at |-> "store", user |-> a], {}, {})

BeginRevoke(r, u, k) ==
  Arrives(r, [op |-> "revoke", at |-> "revoke", user |-> u, about |-> k], {}, {})

BeginAdminRevoke(r, a, k) ==
  Arrives(r, [op |-> "adminRevoke", at |-> "revoke", user |-> a, about |-> k], {}, {})

(* An agent presents a key: to create or submit a project, to store a      *)
(* document, or to have an upload signed.                                  *)
BeginOpen(r, k) ==
  Arrives(r, [op |-> "open", at |-> "key", user |-> k.owner, about |-> k.id], {},
          IfBanned(k.owner) \cup IfRevoked(k))

BeginAction(r, a, c, verdict) ==
  Arrives(r,
          [op |-> "decide", at |-> "update", user |-> a, about |-> c, verdict |-> verdict], {}, {})

(* Nobody bans himself. *)
BeginBan(r, a, u, verdict) ==
  /\ verdict = "banned" => a # u
  /\ Arrives(r, [op |-> "ban", at |-> "ban", user |-> a, about |-> u, verdict |-> verdict], {}, {})

(* Faulty: a key is looked up by its hash alone. *)
FindByHash(r) ==
  /\ req[r].at = "key"
  /\ Goes(r, "gate") /\ UNCHANGED <<tables, known, barred>>

(* requireAPIKey *)
FindActiveByHash(r) ==
  /\ req[r].at = "key"
  /\ IF \E k \in keys : k.id = req[r].about /\ k.active
     THEN Goes(r, "gate") /\ UNCHANGED <<tables, known, barred>>
     ELSE Refused(r)

AfterGate == [report |-> "check", issue |-> "check", open |-> "store"]

(* ensureNotBanned: a lookup that fails lets the request pass.             *)
EnsureNotBanned(r) ==
  /\ req[r].at = "gate"
  /\ \/ req[r].user \in Banned /\ Refused(r)
     \/ /\ req[r].user \notin Banned
        /\ Goes(r, AfterGate[req[r].op]) /\ UNCHANGED <<tables, known, barred>>
     \/ /\ Goes(r, AfterGate[req[r].op]) /\ barred' = barred \ {<<r, "ban">>}
        /\ UNCHANGED <<tables, known>>

(* Faulty: it is the reports already handled that count. *)
HasHandledReport(r) ==
  /\ req[r].at = "check" /\ req[r].op = "report"
  /\ IF \E c \in reports : /\ c.reporter = req[r].user /\ c.target = req[r].target
                            /\ c.status # "open"
     THEN Refused(r)
     ELSE Goes(r, "store") /\ UNCHANGED <<tables, known, barred>>

(* HasOpenReport: a second report is answered as if it had been stored.    *)
HasOpenReport(r) ==
  /\ req[r].at = "check" /\ req[r].op = "report"
  /\ IF Open(req[r].user, req[r].target) # {} THEN Refused(r)
     ELSE Goes(r, "store") /\ UNCHANGED <<tables, known, barred>>

(* Faulty: one too many. *)
CountActivePast(r) ==
  /\ req[r].at = "check" /\ req[r].op = "issue"
  /\ IF Cardinality(Active(req[r].user)) > KeyLimit THEN Refused(r)
     ELSE Goes(r, "store") /\ UNCHANGED <<tables, known, barred>>

(* ListByOwner, and the count of the active keys. *)
CountActive(r) ==
  /\ req[r].at = "check" /\ req[r].op = "issue"
  /\ IF Cardinality(Active(req[r].user)) >= KeyLimit THEN Refused(r)
     ELSE Goes(r, "store") /\ UNCHANGED <<tables, known, barred>>

CreateReport(r) ==
  /\ req[r].at = "store" /\ req[r].op = "report"
  /\ reports' = reports \cup {[id |-> r, reporter |-> req[r].user, target |-> req[r].target,
                               status |-> "open", resolver |-> r]}
  /\ Ends(r)
  /\ UNCHANGED <<keys, banned, stored, audit, unaudited>>

CreateKey(r) ==
  /\ req[r].at = "store" /\ req[r].op \in {"issue", "adminIssue"}
  /\ keys' = keys \cup {[id |-> r, owner |-> req[r].user, active |-> TRUE]}
  /\ Goes(r, IF req[r].op = "adminIssue" THEN "audit" ELSE "done")
  /\ UNCHANGED <<reports, banned, stored, audit, unaudited, known, barred>>

(* The store call of an agent's request, as the owner of the key.          *)
OpenWrite(r) ==
  /\ req[r].at = "store" /\ req[r].op = "open"
  /\ stored' = stored \cup {r}
  /\ Ends(r)
  /\ UNCHANGED <<reports, keys, banned, audit, unaudited>>

(* Faulty: without revoked_at IS NULL. *)
RevokeAgain(r) ==
  /\ req[r].at = "revoke"
  /\ IF \E k \in keys : k.id = req[r].about /\ k.owner = req[r].user
     THEN /\ keys' = {IF k.id = req[r].about THEN [k EXCEPT !.active = FALSE] ELSE k : k \in keys}
          /\ Goes(r, IF req[r].op = "adminRevoke" THEN "audit" ELSE "done")
          /\ UNCHANGED <<reports, banned, stored, audit, unaudited, known, barred>>
     ELSE Refused(r)

(* Revoke: by the owner, and once; an admin's own keys with an entry.      *)
Revoke(r) ==
  /\ req[r].at = "revoke"
  /\ IF \E k \in keys : k.id = req[r].about /\ k.owner = req[r].user /\ k.active
     THEN /\ keys' = {IF k.id = req[r].about THEN [k EXCEPT !.active = FALSE] ELSE k : k \in keys}
          /\ Goes(r, IF req[r].op = "adminRevoke" THEN "audit" ELSE "done")
          /\ UNCHANGED <<reports, banned, stored, audit, unaudited, known, barred>>
     ELSE Refused(r)

(* UpdateStatus: whatever the report's status is. *)
UpdateStatus(r) ==
  /\ req[r].at = "update"
  /\ IF req[r].about \in Ids(reports)
     THEN /\ reports' = {IF c.id = req[r].about
                         THEN [c EXCEPT !.status = req[r].verdict, !.resolver = r] ELSE c : c \in reports}
          /\ Goes(r, "audit")
          /\ UNCHANGED <<keys, banned, stored, audit, unaudited, known, barred>>
     ELSE Refused(r)

(* Ban (an upsert), and Unban, which is refused if there is none.          *)
Ban(r) ==
  /\ req[r].at = "ban" /\ req[r].verdict = "banned"
  /\ banned' = {b \in banned : b.user # req[r].about} \cup {[user |-> req[r].about, by |-> r]}
  /\ Goes(r, "audit")
  /\ UNCHANGED <<reports, keys, stored, audit, unaudited, known, barred>>

Unban(r) ==
  /\ req[r].at = "ban" /\ req[r].verdict = "unbanned"
  /\ IF req[r].about \in Banned
     THEN /\ banned' = {b \in banned : b.user # req[r].about}
          /\ barred' = {x \in barred : x[2] = "ban" => req[x[1]].user # req[r].about}
          /\ Goes(r, "audit")
          /\ UNCHANGED <<reports, keys, stored, audit, unaudited, known>>
     ELSE Refused(r)

Entry(r) ==
  [by |-> r, op |-> req[r].op, about |-> IF req[r].op = "adminIssue" THEN r ELSE req[r].about,
   verdict |-> IF req[r].op \in {"decide", "ban"} THEN req[r].verdict ELSE "none"]

(* recordAdminAudit, after the deed and best effort.                       *)
RecordAudit(r) ==
  /\ req[r].at = "audit"
  /\ \/ audit' = audit \cup {Entry(r)} /\ UNCHANGED unaudited
     \/ unaudited' = unaudited \cup {r} /\ UNCHANGED audit
  /\ Ends(r)
  /\ UNCHANGED <<reports, keys, banned, stored>>

(* A call fails and the request is answered with an error.                 *)
Fail(r) == req[r].at \notin {"idle", "done", "audit"} /\ Refused(r)

Begin(r) ==
  \/ \E u \in Users :
       \/ \E t \in Targets : BeginReport(r, u, t)
       \/ BeginIssue(r, u)
       \/ \E k \in keys : BeginRevoke(r, u, k.id)
  \/ \E k \in keys : BeginOpen(r, k)
  \/ \E a \in Admins :
       \/ BeginAdminIssue(r, a)
       \/ \E k \in keys : BeginAdminRevoke(r, a, k.id)
       \/ \E c \in reports, verdict \in {"resolved", "dismissed"} : BeginAction(r, a, c.id, verdict)
       \/ \E u \in Users, verdict \in {"banned", "unbanned"} : BeginBan(r, a, u, verdict)

Step(r) ==
  \/ FindActiveByHash(r) \/ EnsureNotBanned(r) \/ HasOpenReport(r) \/ CountActive(r)
  \/ CreateReport(r) \/ CreateKey(r) \/ OpenWrite(r) \/ Revoke(r) \/ UpdateStatus(r)
  \/ Ban(r) \/ Unban(r) \/ RecordAudit(r) \/ Fail(r)

Next == \E r \in Requests : Begin(r) \/ Step(r)

Spec == Init /\ [][Next]_vars

-----------------------------------------------------------------------------
(* Who reports something again, while his report was open already before   *)
(* he began and still is, stores no second one, whatever admins and his    *)
(* other requests do meanwhile (HasOpenReport; there is no unique key).    *)
ReportedOnce ==
  \A c, d \in reports :
    /\ c.status = "open" /\ d.status = "open"
    /\ c.reporter = d.reporter /\ c.target = d.target
    => c.id \notin known[d.id]

(* A key a user issued himself is not one too many: of the keys he had     *)
(* when that request began, fewer than maxUserAPIKeys are still active.    *)
(* Only requests that overlap exceed the limit.                            *)
KeysLimited ==
  \A k \in keys :
    req[k.id].op = "issue" => Cardinality(known[k.id] \cap Ids(Active(k.owner))) < KeyLimit

(* Nobody who was shut out when his request began gets anything stored:    *)
(* neither with a revoked key, nor while banned, by a form or by a key,    *)
(* unless the ban was lifted or could not be looked up.                    *)
ShutOut == \A x \in barred : x[1] \notin Ids(reports) \cup Ids(keys) \cup stored

Told(r, op, about, verdict) ==
  \/ [by |-> r, op |-> op, about |-> about, verdict |-> verdict] \in audit
  \/ req[r].at = "audit" \/ r \in unaudited

(* The audit accounts for what admins did: the verdict on every report and *)
(* every ban in force is that of an entry, about to be written or lost;    *)
(* and no key is ever said to be revoked twice.                            *)
AuditAccounts ==
  /\ \A c \in reports : c.status # "open" => Told(c.resolver, "decide", c.id, c.status)
  /\ \A b \in banned : Told(b.by, "ban", b.user, "banned")
  /\ \A e, f \in audit : e.op = "adminRevoke" /\ f.op = "adminRevoke" /\ e.about = f.about => e = f
=============================================================================
