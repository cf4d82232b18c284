------------------------------ MODULE Accounts ------------------------------
(***************************************************************************)
(* Registration, login, sessions, password change and password reset       *)
(* (auth.go, oauth.go) over mysqlAuthRepository.  A request is a goroutine *)
(* that executes its statements one at a time; a transaction takes its row *)
(* locks as it goes, keeps them to its end, and what it has written is     *)
(* seen by the others when it commits.  A statement that needs a row       *)
(* another transaction holds waits, and InnoDB rolls back a transaction of *)
(* a cycle of waits.                                                       *)
(*                                                                         *)
(* Left out: names, avatars and experience; validation and the attempt     *)
(* limiter, which refuse a request before its first statement.             *)
(***************************************************************************)
EXTENDS FiniteSets

CONSTANTS
  Users,      \* accounts with a mailbox and a password
  Visitors,   \* accounts of an OAuth provider; no mail reaches their addresses
  Requests,   \* HTTP requests; each names the token and the hash it makes
  NoHash,     \* of an address without an account
  Disabled    \* the hash of an OAuth account, which no password matches

Accts == Users \cup Visitors
Tokens == Accts \cup Requests     \* an account names the tokens it had at startup
Hashes == Tokens \cup {Disabled}

ASSUME NamesAssumption ==
  /\ Users \cap Visitors = {} /\ Accts \cap Requests = {}
  /\ NoHash \notin Hashes /\ Disabled \notin Tokens

VARIABLES
  hash,      \* users.password_hash
  sessions,  \* auth_sessions; under: the hash its holder proved to know
  resets,    \* password_reset_tokens
  mailed,    \* reset tokens whose owner has the link
  locks,     \* row locks of each request's transaction
  req,       \* each request's handler: its next statement and its locals
  redeemed   \* history: which request changed a password with which link

vars == <<hash, sessions, resets, mailed, locks, req, redeemed>>

Row == {"user", "session", "reset"} \X Tokens

Idle == [op |-> "none", at |-> "idle", user |-> NoHash, token |-> NoHash,
         about |-> NoHash, read |-> NoHash, drops |-> {}, spends |-> {}]

TokensOf(u) == {s.token : s \in {x \in sessions : x.user = u}}
ResetsOf(u) == {x.token : x \in {y \in resets : y.user = u}}
UnusedOf(u) == {x.token : x \in {y \in resets : y.user = u /\ ~y.used}}

(* The server starts with accounts that may be signed in and may have      *)
(* been mailed a reset link.                                               *)
Init ==
  \E known \in SUBSET Accts : \E asked \in SUBSET (known \cap Users) :
    /\ hash = [u \in Accts |-> IF u \notin known THEN NoHash
                               ELSE IF u \in Users THEN u ELSE Disabled]
    /\ sessions = {[token |-> u, user |-> u, under |-> hash[u], raced |-> FALSE] : u \in known}
    /\ resets = {[token |-> u, user |-> u, used |-> FALSE] : u \in asked}
    /\ mailed = asked
    /\ locks = [r \in Requests |-> {}]
    /\ req = [r \in Requests |-> Idle]
    /\ redeemed = {}

(* The statements of each handler, in order: what follows each ------------*)

Register == [begin |-> "create", create |-> "open", open |-> "record", record |-> "done"]
Login == [begin |-> "find", find |-> "open", open |-> "record", record |-> "done"]
OAuth == [begin |-> "find", find |-> "open", create |-> "open", again |-> "open",
              open |-> "record", record |-> "done"]
Logout == [begin |-> "forget", forget |-> "done"]
LogoutAll == [begin |-> "auth", auth |-> "forgetAll", forgetAll |-> "done"]
Revoke == [begin |-> "auth", auth |-> "pick", pick |-> "commit", commit |-> "done"]
(* Faulty: the sessions are swept before the user row is locked. *)
PasswordSweepFirst == [begin |-> "auth", auth |-> "sweep", sweep |-> "update",
                       update |-> "commit", commit |-> "done"]
Password == [begin |-> "auth", auth |-> "update", update |-> "sweep", sweep |-> "commit",
              commit |-> "done"]
Forgot == [begin |-> "lockUser", lockUser |-> "clear", clear |-> "commit",
              commit |-> "mail", mail |-> "done"]
Confirm == [begin |-> "redeem", redeem |-> "update", update |-> "mark", mark |-> "sweep",
              sweep |-> "commit", commit |-> "done"]

Steps == [register |-> Register, login |-> Login, oauth |-> OAuth, logout |-> Logout,
          logoutAll |-> LogoutAll, revoke |-> Revoke, password |-> Password,
          forgot |-> Forgot, confirm |-> Confirm]

After(r) == Steps[req[r].op][req[r].at]

(* Row locks --------------------------------------------------------------*)

(* The rows the next statement of r locks.  The foreign key makes the      *)
(* insert of a session lock its user; the index on user_id makes DELETE    *)
(* and UPDATE lock every session or token of the user.                     *)
Wants(r) ==
  LET x == req[r] IN
  CASE x.at \in {"create", "open", "record", "update", "lockUser"} -> {<<"user", x.user>>}
    [] x.at \in {"sweep", "forgetAll"} -> {"session"} \X TokensOf(x.user)
    [] x.at = "pick"                   -> {<<"session", x.about>>}
    [] x.at = "forget"                 -> {<<"session", x.token>>}
    [] x.at \in {"clear", "mark"}      -> {"reset"} \X ResetsOf(x.user)
    [] x.at = "redeem"                 -> {<<"reset", x.token>>}
    [] OTHER                           -> {}

Blockers(r) == {q \in Requests \ {r} : locks[q] \cap Wants(r) # {}}

Runs(r, at) == req[r].at = at /\ Blockers(r) = {}

(* r goes on, with these locals; in a transaction it keeps the rows. *)
Goes(r, x) == req' = [req EXCEPT ![r] = x]
Holds(r) == locks' = [locks EXCEPT ![r] = @ \cup Wants(r)]
Ends(r) == Goes(r, [Idle EXCEPT !.at = "done"]) /\ locks' = [locks EXCEPT ![r] = {}]
(* Faulty: no Rollback on the early returns. *)
RefusedHolding(r) == Goes(r, [Idle EXCEPT !.at = "done"])
                     /\ UNCHANGED <<hash, sessions, resets, mailed, locks, redeemed>>
Refused(r) == Ends(r) /\ UNCHANGED <<hash, sessions, resets, mailed, redeemed>>

(* A request arrives ------------------------------------------------------*)

Begins(r, op, u, t, about) ==
  /\ req[r].at = "idle"
  /\ Goes(r, [Idle EXCEPT !.op = op, !.at = Steps[op].begin, !.user = u,
                          !.token = t, !.about = about])
  /\ UNCHANGED <<hash, sessions, resets, mailed, locks, redeemed>>

BeginNamed(r, u) ==
  \/ u \in Users /\ \E op \in {"register", "login", "forgot"} : Begins(r, op, u, NoHash, NoHash)
  \/ u \in Visitors /\ Begins(r, "oauth", u, NoHash, NoHash)

(* With the cookie of a session, that of another to end, or a link.        *)
BeginSignedIn(r) ==
  \E s \in sessions :
    \/ \E op \in {"logout", "logoutAll", "password"} : Begins(r, op, s.user, s.token, NoHash)
    \/ \E other \in TokensOf(s.user) : Begins(r, "revoke", s.user, s.token, other)

BeginWithLink(r) ==
  \E x \in resets : x.token \in mailed /\ Begins(r, "confirm", x.user, x.token, NoHash)

(* Statements outside transactions ----------------------------------------*)

(* FindUserByEmail: login needs a hash the password matches, the OAuth     *)
(* callback creates the account it does not find.                          *)
Find(r) ==
  LET u == req[r].user IN
  /\ Runs(r, "find")
  /\ \/ Refused(r)
     \/ /\ hash[u] # NoHash /\ (req[r].op = "login" => hash[u] # Disabled)
        /\ Goes(r, [req[r] EXCEPT !.at = After(r), !.read = hash[u]])
        /\ UNCHANGED <<hash, sessions, resets, mailed, locks, redeemed>>
     \/ /\ hash[u] = NoHash /\ req[r].op = "oauth"
        /\ Goes(r, [req[r] EXCEPT !.at = "create"])
        /\ UNCHANGED <<hash, sessions, resets, mailed, locks, redeemed>>

(* CreateUser: the unique key on the address refuses a second account.     *)
CreateUser(r) ==
  LET u == req[r].user
      h == IF req[r].op = "oauth" THEN Disabled ELSE r IN
  /\ Runs(r, "create") /\ hash[u] = NoHash
  /\ hash' = [hash EXCEPT ![u] = h]
  /\ Goes(r, [req[r] EXCEPT !.at = After(r), !.read = h])
  /\ UNCHANGED <<sessions, resets, mailed, locks, redeemed>>

EmailExists(r) ==
  /\ Runs(r, "create") /\ hash[req[r].user] # NoHash
  /\ \/ req[r].op = "register" /\ Refused(r)
     \/ /\ req[r].op = "oauth" /\ Goes(r, [req[r] EXCEPT !.at = "again"])
        /\ UNCHANGED <<hash, sessions, resets, mailed, locks, redeemed>>

FindAgain(r) ==
  /\ Runs(r, "again")
  /\ Goes(r, [req[r] EXCEPT !.at = After(r), !.read = hash[req[r].user]])
  /\ UNCHANGED <<hash, sessions, resets, mailed, locks, redeemed>>

CreateSession(r) ==
  LET u == req[r].user IN
  /\ Runs(r, "open")
  /\ sessions' = sessions \cup {[token |-> r, user |-> u, under |-> req[r].read,
                                 raced |-> req[r].read # hash[u]]}
  /\ Goes(r, [req[r] EXCEPT !.at = After(r), !.read = NoHash])
  /\ UNCHANGED <<hash, resets, mailed, locks, redeemed>>

(* The region and the time of the login: no property tells them apart.     *)
RecordLogin(r) == Runs(r, "record") /\ Refused(r)

(* currentUser, which takes the user and the hash from the session; an     *)
(* expired session is not found, and a wrong password ends the request.    *)
Authenticate(r) ==
  /\ Runs(r, "auth")
  /\ \/ Refused(r)
     \/ \E s \in sessions :
          /\ s.token = req[r].token
          /\ req[r].op = "password" => hash[s.user] # Disabled
          /\ Goes(r, [req[r] EXCEPT !.at = After(r), !.user = s.user])
          /\ UNCHANGED <<hash, sessions, resets, mailed, locks, redeemed>>

DeleteSession(r) ==
  /\ Runs(r, "forget")
  /\ sessions' = {s \in sessions : s.token # req[r].token}
  /\ Ends(r)
  /\ UNCHANGED <<hash, resets, mailed, redeemed>>

DeleteUserSessions(r) ==
  /\ Runs(r, "forgetAll")
  /\ sessions' = {s \in sessions : s.user # req[r].user}
  /\ Ends(r)
  /\ UNCHANGED <<hash, resets, mailed, redeemed>>

SendPasswordReset(r) ==
  /\ Runs(r, "mail")
  /\ mailed' \in {mailed, mailed \cup {r}}
  /\ Ends(r)
  /\ UNCHANGED <<hash, sessions, resets, redeemed>>

(* Statements of transactions ---------------------------------------------*)

(* SELECT ... FOR UPDATE of the session to revoke, and its DELETE. *)
Pick(r) ==
  /\ Runs(r, "pick")
  /\ IF req[r].about \in TokensOf(req[r].user)
     THEN /\ Goes(r, [req[r] EXCEPT !.at = After(r), !.drops = {req[r].about}])
          /\ Holds(r)
          /\ UNCHANGED <<hash, sessions, resets, mailed, redeemed>>
     ELSE Refused(r)

(* UPDATE users SET password_hash, seen when the transaction commits. *)
UpdateHash(r) ==
  /\ Runs(r, "update")
  /\ Goes(r, [req[r] EXCEPT !.at = After(r)]) /\ Holds(r)
  /\ UNCHANGED <<hash, sessions, resets, mailed, redeemed>>

(* DELETE FROM auth_sessions: all of the user, or all but the caller's. *)
Sweep(r) ==
  LET kept == IF req[r].op = "password" THEN {req[r].token} ELSE {} IN
  /\ Runs(r, "sweep")
  /\ Goes(r, [req[r] EXCEPT !.at = After(r), !.drops = TokensOf(req[r].user) \ kept])
  /\ Holds(r)
  /\ UNCHANGED <<hash, sessions, resets, mailed, redeemed>>

(* Faulty: a token for an address nobody has registered. *)
LockUserAnyone(r) ==
  /\ Runs(r, "lockUser")
  /\ Goes(r, [req[r] EXCEPT !.at = After(r)]) /\ Holds(r)
  /\ UNCHANGED <<hash, sessions, resets, mailed, redeemed>>

LockUser(r) ==
  /\ Runs(r, "lockUser")
  /\ IF hash[req[r].user] # NoHash
     THEN /\ Goes(r, [req[r] EXCEPT !.at = After(r)]) /\ Holds(r)
          /\ UNCHANGED <<hash, sessions, resets, mailed, redeemed>>
     ELSE Refused(r)

(* The unused tokens of the user: deleted before a new one is inserted, or *)
(* all marked used when one is redeemed.                                   *)
Spend(r) ==
  /\ Runs(r, "clear") \/ Runs(r, "mark")
  /\ Goes(r, [req[r] EXCEPT !.at = After(r), !.spends = UnusedOf(req[r].user)])
  /\ Holds(r)
  /\ UNCHANGED <<hash, sessions, resets, mailed, redeemed>>

(* Faulty: without FOR UPDATE. *)
RedeemUnlocked(r) ==
  /\ Runs(r, "redeem")
  /\ \/ Refused(r)
     \/ \E x \in resets :
          /\ x.token = req[r].token /\ ~x.used
          /\ Goes(r, [req[r] EXCEPT !.at = After(r), !.user = x.user])
          /\ UNCHANGED <<hash, sessions, resets, mailed, locks, redeemed>>

(* SELECT ... FOR UPDATE of an unused token that has not expired. *)
Redeem(r) ==
  /\ Runs(r, "redeem")
  /\ \/ Refused(r)
     \/ \E x \in resets :
          /\ x.token = req[r].token /\ ~x.used
          /\ Goes(r, [req[r] EXCEPT !.at = After(r), !.user = x.user]) /\ Holds(r)
          /\ UNCHANGED <<hash, sessions, resets, mailed, redeemed>>

(* COMMIT: what the transaction has written is seen, its rows are free.    *)
Remaining(r) == {s \in sessions : s.token \notin req[r].drops}

CommitRevoke(r) ==
  /\ Runs(r, "commit") /\ req[r].op = "revoke"
  /\ sessions' = Remaining(r)
  /\ Ends(r)
  /\ UNCHANGED <<hash, resets, mailed, redeemed>>

CommitPassword(r) ==
  /\ Runs(r, "commit") /\ req[r].op = "password"
  /\ hash' = [hash EXCEPT ![req[r].user] = r]
  /\ sessions' = {IF s.token = req[r].token /\ s.user = req[r].user
                  THEN [s EXCEPT !.under = r] ELSE s : s \in Remaining(r)}
  /\ Ends(r)
  /\ UNCHANGED <<resets, mailed, redeemed>>

CommitConfirm(r) ==
  /\ Runs(r, "commit") /\ req[r].op = "confirm"
  /\ hash' = [hash EXCEPT ![req[r].user] = r]
  /\ resets' = {IF x.token \in req[r].spends THEN [x EXCEPT !.used = TRUE] ELSE x : x \in resets}
  /\ sessions' = Remaining(r)
  /\ redeemed' = redeemed \cup {[by |-> r, link |-> req[r].token]}
  /\ Ends(r)
  /\ UNCHANGED mailed

CommitForgot(r) ==
  /\ Runs(r, "commit") /\ req[r].op = "forgot"
  /\ resets' = {x \in resets : x.token \notin req[r].spends}
                 \cup {[token |-> r, user |-> req[r].user, used |-> FALSE]}
  /\ Goes(r, [req[r] EXCEPT !.at = After(r), !.spends = {}]) /\ locks' = [locks EXCEPT ![r] = {}]
  /\ UNCHANGED <<hash, sessions, mailed, redeemed>>

(* A statement fails: the deferred Rollback frees the rows.                *)
Fail(r) == req[r].at \notin {"idle", "done"} /\ Refused(r)

(* InnoDB rolls back one transaction of a cycle of waits.                  *)
Waiting(S) == S # {} /\ \A r \in S : Blockers(r) \cap S # {}

Victim(r) ==
  /\ Blockers(r) # {}
  /\ \E S \in SUBSET Requests :
       r \in S /\ Waiting(S) /\ \A T \in SUBSET S : Waiting(T) => T = S
  /\ Refused(r)

Step(r) ==
  \/ Find(r) \/ CreateUser(r) \/ EmailExists(r) \/ FindAgain(r) \/ CreateSession(r)
  \/ RecordLogin(r) \/ Authenticate(r) \/ DeleteSession(r) \/ DeleteUserSessions(r)
  \/ SendPasswordReset(r) \/ Pick(r) \/ UpdateHash(r) \/ Sweep(r) \/ LockUser(r)
  \/ Spend(r) \/ Redeem(r) \/ CommitRevoke(r) \/ CommitPassword(r) \/ CommitConfirm(r)
  \/ CommitForgot(r) \/ Victim(r)

Begin(r) == (\E u \in Accts : BeginNamed(r, u)) \/ BeginSignedIn(r) \/ BeginWithLink(r)

Next == \E r \in Requests : Begin(r) \/ Step(r) \/ Fail(r)

(* A handler that has begun runs on; the database answers.                 *)
Fairness == \A r \in Requests : WF_vars(Step(r))

Spec == Init /\ [][Next]_vars /\ Fairness

(* Properties -------------------------------------------------------------*)

TypeOK ==
  /\ hash \in [Accts -> Hashes \cup {NoHash}]
  /\ sessions \subseteq [token : Tokens, user : Accts, under : Hashes \cup {NoHash}, raced : BOOLEAN]
  /\ resets \subseteq [token : Tokens, user : Accts, used : BOOLEAN]
  /\ mailed \subseteq Tokens
  /\ locks \in [Requests -> SUBSET Row]

(* A session is backed by the password in force: changing or resetting the *)
(* password ends every other session of the user, those opened while the   *)
(* transaction ran included.  A login that had read the old hash before    *)
(* the change committed, and stored its session after, is set apart.       *)
SessionsBacked == \A s \in sessions : s.raced \/ s.under = hash[s.user]

(* A reset link changes a password at most once, and a user never has two  *)
(* that could: asking for a new one or using one ends the others.          *)
ResetsSpentOnce ==
  /\ \A x, y \in resets : x.user = y.user /\ ~x.used /\ ~y.used => x = y
  /\ \A x, y \in redeemed : x.link = y.link => x = y

(* Every request ends (again and again none is under way), although        *)
(* creating a reset token locks the user and then the tokens, and          *)
(* redeeming one the token and then the user.                              *)
RequestsEnd == []<>(\A r \in Requests : req[r].at \in {"idle", "done"})

(* The transactions do what the in-memory repository does in one step.     *)
Store == INSTANCE AccountStore WITH
  Users <- Accts,
  sessions <- {[token |-> s.token, user |-> s.user] : s \in sessions}

StoreKept == Store!StoreSpec
=============================================================================
