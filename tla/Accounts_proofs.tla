-------------------------- MODULE Accounts_proofs --------------------------
(***************************************************************************)
(* Proofs about Accounts, for any accounts and requests: what the row      *)
(* locks of the transactions are for, and that with them the statements    *)
(* implement AccountStore.                                                 *)
(***************************************************************************)
EXTENDS Accounts, TLAPS

(* Which statements a handler may be at, for an account. *)
Phase(x) ==
  /\ x.user \in Accts
  /\ \/ x.op = "register"  /\ x.at \in {"create", "open", "record"}
     \/ x.op = "login"     /\ x.at \in {"find", "open", "record"}
     \/ x.op = "oauth"     /\ x.at \in {"find", "create", "again", "open", "record"}
     \/ x.op = "logout"    /\ x.at = "forget"
     \/ x.op = "logoutAll" /\ x.at \in {"auth", "forgetAll"}
     \/ x.op = "revoke"    /\ x.at \in {"auth", "pick", "commit"}
     \/ x.op = "password"  /\ x.at \in {"auth", "update", "sweep", "commit"}
     \/ x.op = "forgot"    /\ x.at \in {"lockUser", "clear", "commit", "mail"}
     \/ x.op = "confirm"   /\ x.at \in {"redeem", "update", "mark", "sweep", "commit"}

Ops == {"register", "login", "oauth", "logout", "logoutAll", "revoke", "password", "forgot",
        "confirm"}
Ats == {"idle", "done", "create", "open", "record", "find", "again", "forget", "auth", "forgetAll",
        "pick", "commit", "update", "sweep", "lockUser", "clear", "mail", "redeem", "mark"}

Local ==
  [op : Ops \cup {"none"}, at : Ats,
   user : Accts \cup {NoHash}, token : Tokens \cup {NoHash}, about : Tokens \cup {NoHash},
   read : Hashes \cup {NoHash}, drops : SUBSET Tokens, spends : SUBSET Tokens]

Done == [Idle EXCEPT !.at = "done"]

TypeInv ==
  /\ TypeOK
  /\ req \in [Requests -> Local]
  /\ \A r \in Requests : req[r] \in {Idle, Done} \/ Phase(req[r])
  /\ \A s \in sessions : hash[s.user] # NoHash
  /\ redeemed \subseteq [by : Requests, link : Tokens]

LEMMA IdleLocal ==
  /\ Idle \in Local /\ Idle.at = "idle" /\ Idle.op = "none" /\ Idle.spends = {}
  /\ Done \in Local /\ Done.at = "done" /\ Done.op = "none" /\ Done.spends = {}
BY DEF Idle, Done, Local, Ops, Ats

(* What follows each statement. *)
LEMMA AfterIs ==
  ASSUME NEW r \in Requests, Phase(req[r])
  PROVE  /\ req[r].at = "find"     => After(r) = "open"
         /\ req[r].at = "create"   => After(r) = "open"
         /\ req[r].at = "again"    => After(r) = "open"
         /\ req[r].at = "open"     => After(r) = "record"
         /\ req[r].at = "auth" /\ req[r].op = "logoutAll" => After(r) = "forgetAll"
         /\ req[r].at = "auth" /\ req[r].op = "revoke" => After(r) = "pick"
         /\ req[r].at = "auth" /\ req[r].op = "password" => After(r) = "update"
         /\ req[r].at = "pick"     => After(r) = "commit"
         /\ req[r].at = "update" /\ req[r].op = "password" => After(r) = "sweep"
         /\ req[r].at = "update" /\ req[r].op = "confirm" => After(r) = "mark"
         /\ req[r].at = "mark"     => After(r) = "sweep"
         /\ req[r].at = "sweep"    => After(r) = "commit"
         /\ req[r].at = "lockUser" => After(r) = "clear"
         /\ req[r].at = "clear"    => After(r) = "commit"
         /\ req[r].at = "commit" /\ req[r].op = "forgot" => After(r) = "mail"
         /\ req[r].at = "redeem"   => After(r) = "update"
<1> USE DEF Phase, After, Steps
<1>1. CASE req[r].op = "register"
  BY <1>1 DEF Register
<1>2. CASE req[r].op = "login"
  BY <1>2 DEF Login
<1>3. CASE req[r].op = "oauth"
  BY <1>3 DEF OAuth
<1>4. CASE req[r].op = "logout"
  BY <1>4 DEF Logout
<1>5. CASE req[r].op = "logoutAll"
  BY <1>5 DEF LogoutAll
<1>6. CASE req[r].op = "revoke"
  BY <1>6 DEF Revoke
<1>7. CASE req[r].op = "password"
  BY <1>7 DEF Password
<1>8. CASE req[r].op = "forgot"
  BY <1>8 DEF Forgot
<1>9. CASE req[r].op = "confirm"
  BY <1>9 DEF Confirm
<1> QED BY <1>1, <1>2, <1>3, <1>4, <1>5, <1>6, <1>7, <1>8, <1>9

LEMMA BeginIs ==
  /\ Steps["register"].begin = "create" /\ Steps["login"].begin = "find"
  /\ Steps["oauth"].begin = "find" /\ Steps["logout"].begin = "forget"
  /\ Steps["logoutAll"].begin = "auth" /\ Steps["revoke"].begin = "auth"
  /\ Steps["password"].begin = "auth" /\ Steps["forgot"].begin = "lockUser"
  /\ Steps["confirm"].begin = "redeem"
BY DEF Steps, Register, Login, OAuth, Logout, LogoutAll, Revoke, Password, Forgot, Confirm

LEMMA BusyPhase ==
  ASSUME TypeInv, NEW r \in Requests, req[r].at \notin {"idle", "done"}
  PROVE  Phase(req[r]) /\ req[r] \in Local
BY IdleLocal DEF TypeInv

LEMMA WantsIs ==
  ASSUME NEW r \in Requests
  PROVE  /\ req[r].at \in {"create", "open", "record", "update", "lockUser"} =>
              Wants(r) = {<<"user", req[r].user>>}
         /\ req[r].at \in {"sweep", "forgetAll"} => Wants(r) = {"session"} \X TokensOf(req[r].user)
         /\ req[r].at = "pick" => Wants(r) = {<<"session", req[r].about>>}
         /\ req[r].at \in {"clear", "mark"} => Wants(r) = {"reset"} \X ResetsOf(req[r].user)
         /\ req[r].at = "redeem" => Wants(r) = {<<"reset", req[r].token>>}
BY DEF Wants

LEMMA TokensTyped ==
  ASSUME TypeInv, NEW u
  PROVE  TokensOf(u) \subseteq Tokens /\ ResetsOf(u) \subseteq Tokens /\ UnusedOf(u) \subseteq ResetsOf(u)
BY DEF TypeInv, TypeOK, TokensOf, ResetsOf, UnusedOf

-----------------------------------------------------------------------------
(* What a handler relies on between its statements.                        *)

(* A token that was handed out: its request has committed. *)
Known(t) == t \in Requests => req[t].at \in {"mail", "done"}

(* The transaction has locked the row of its user. *)
LocksUser(x) ==
  \/ x.op \in {"password", "confirm"} /\ x.at \in {"mark", "sweep", "commit"}
  \/ x.op = "forgot" /\ x.at \in {"clear", "commit"}

LocalOk(x, L) ==
  /\ LocksUser(x) => <<"user", x.user>> \in L
  \* the link that is being redeemed stays as it was found
  /\ x.op = "confirm" /\ x.at \in {"update", "mark", "sweep", "commit"} =>
       /\ <<"reset", x.token>> \in L
       /\ \E y \in resets : y.token = x.token /\ y.user = x.user /\ ~y.used
  /\ x.op = "confirm" /\ x.at \in {"sweep", "commit"} => x.token \in x.spends
  /\ \A t \in x.spends : <<"reset", t>> \in L
  \* no session and no link of the user came after the sweep
  /\ x.op \in {"password", "confirm"} /\ x.at = "commit" =>
       \A s \in sessions : s.user = x.user =>
         s.token \in x.drops \/ (x.op = "password" /\ s.token = x.token)
  /\ x.op = "forgot" /\ x.at = "commit" =>
       \A y \in resets : y.user = x.user /\ ~y.used => y.token \in x.spends
  /\ x.op = "confirm" => Known(x.token)
  /\ x.at \in {"open", "again"} => hash[x.user] # NoHash

Exclusive == \A q, r \in Requests : q # r => locks[q] \cap locks[r] = {}

LinksInv ==
  /\ \A y \in resets : Known(y.token)
  /\ \A z \in redeemed : Known(z.link) /\ \A y \in resets : y.token = z.link => y.used

AccountsInv ==
  /\ TypeInv /\ Exclusive /\ LinksInv /\ SessionsBacked /\ ResetsSpentOnce
  /\ \A r \in Requests : LocalOk(req[r], locks[r])

(* A handler goes on: it is at x and holds L. *)
Becomes(r, x, L) ==
  /\ req' = [req EXCEPT ![r] = x] /\ locks' = [locks EXCEPT ![r] = L]
  /\ x \in Local /\ L \subseteq Row /\ (x \in {Idle, Done} \/ Phase(x))
  /\ L \subseteq locks[r] \/ (L \subseteq locks[r] \cup Wants(r) /\ Blockers(r) = {})
  /\ req[r].at \in {"mail", "done"} => x.at \in {"mail", "done"}

LEMMA BecomesTyped ==
  ASSUME AccountsInv, NEW r \in Requests, NEW x, NEW L, Becomes(r, x, L)
  PROVE  /\ req' \in [Requests -> Local] /\ locks' \in [Requests -> SUBSET Row]
         /\ \A q \in Requests : req'[q] \in {Idle, Done} \/ Phase(req'[q])
         /\ req'[r] = x /\ locks'[r] = L
         /\ \A q \in Requests \ {r} : req'[q] = req[q] /\ locks'[q] = locks[q]
         /\ \A t : Known(t) => Known(t)'
         /\ Exclusive'
<1>1. /\ req' \in [Requests -> Local] /\ req'[r] = x
      /\ \A q \in Requests \ {r} : req'[q] = req[q]
  BY DEF AccountsInv, TypeInv, Becomes
<1>2. /\ locks' \in [Requests -> SUBSET Row] /\ locks'[r] = L
      /\ \A q \in Requests \ {r} : locks'[q] = locks[q]
  BY DEF AccountsInv, TypeInv, TypeOK, Becomes
<1>3. \A q \in Requests : req'[q] \in {Idle, Done} \/ Phase(req'[q])
  BY <1>1 DEF AccountsInv, TypeInv, Becomes
<1>4. ASSUME NEW t, Known(t) PROVE Known(t)'
  BY <1>1, <1>4 DEF Known, Becomes
<1>5. \A q \in Requests \ {r} : locks[q] \cap L = {}
  BY DEF AccountsInv, Exclusive, Becomes, Blockers
<1>6. Exclusive'
  BY <1>2, <1>5 DEF AccountsInv, Exclusive
<1> QED BY <1>1, <1>2, <1>3, <1>4, <1>6

(* What the others rely on survives the statement of r.                    *)
Respects(r) ==
  /\ \A u \in Accts : hash[u] # NoHash => hash'[u] # NoHash
  /\ \A q \in Requests \ {r}, s \in sessions' :
       LocksUser(req[q]) /\ s.user = req[q].user =>
         \E old \in sessions : old.token = s.token /\ old.user = s.user
  /\ \A y \in resets : ~y.used /\ y.token \notin req[r].spends => y \in resets'
  /\ \A y \in resets' : ~y.used => y \in resets \/ (LocksUser(req[r]) /\ y.user = req[r].user)

LEMMA OthersOk ==
  ASSUME AccountsInv, NEW r \in Requests, NEW x, NEW L, Becomes(r, x, L), Respects(r),
         NEW q \in Requests \ {r}
  PROVE  LocalOk(req[q], locks[q])'
<1>1. PICK y : y = req[q]
  OBVIOUS
<1>2. PICK M : M = locks[q]
  OBVIOUS
<1>3. req'[q] = y /\ locks'[q] = M /\ LocalOk(y, M) /\ (Known(y.token) => Known(y.token)')
  BY <1>1, <1>2, BecomesTyped DEF AccountsInv
<1>4. /\ y.op = "confirm" /\ y.at \in {"update", "mark", "sweep", "commit"} =>
           \E z \in resets' : z.token = y.token /\ z.user = y.user /\ ~z.used
  <2>1. \A t \in req[r].spends : <<"reset", t>> \in locks[r]
    BY DEF AccountsInv, LocalOk
  <2>2. locks[r] \cap M = {}
    BY <1>2 DEF AccountsInv, Exclusive
  <2> QED BY <1>3, <2>1, <2>2 DEF LocalOk, Respects
<1>5. y.op \in {"password", "confirm"} /\ y.at = "commit" =>
        \A s \in sessions' : s.user = y.user =>
          s.token \in y.drops \/ (y.op = "password" /\ s.token = y.token)
  <2> SUFFICES ASSUME y.op \in {"password", "confirm"}, y.at = "commit",
                      NEW s \in sessions', s.user = y.user
               PROVE  s.token \in y.drops \/ (y.op = "password" /\ s.token = y.token)
    OBVIOUS
  <2>1. PICK old \in sessions : old.token = s.token /\ old.user = s.user
    BY <1>1 DEF Respects, LocksUser
  <2> QED BY <1>3, <2>1 DEF LocalOk
<1>6. y.op = "forgot" /\ y.at = "commit" =>
        \A z \in resets' : z.user = y.user /\ ~z.used => z.token \in y.spends
  <2> SUFFICES ASSUME y.op = "forgot", y.at = "commit", NEW z \in resets', z.user = y.user, ~z.used
               PROVE  z.token \in y.spends
    OBVIOUS
  <2>1. z \in resets
    <3>1. <<"user", y.user>> \in M
      BY <1>3 DEF LocalOk, LocksUser
    <3>2. LocksUser(req[r]) => <<"user", req[r].user>> \in locks[r]
      BY DEF AccountsInv, LocalOk
    <3>3. locks[r] \cap M = {}
      BY <1>2 DEF AccountsInv, Exclusive
    <3> QED BY <3>1, <3>2, <3>3 DEF Respects
  <2> QED BY <1>3, <2>1 DEF LocalOk
<1>7. y.at \in {"open", "again"} => hash'[y.user] # NoHash
  <2>1. y.at \in {"open", "again"} => y.user \in Accts
    BY <1>1, IdleLocal DEF AccountsInv, TypeInv, Phase
  <2> QED BY <1>3, <2>1 DEF LocalOk, Respects
<1>8. LocalOk(y, M)'
  BY <1>3, <1>4, <1>5, <1>6, <1>7 DEF LocalOk
<1> QED BY <1>3, <1>8 DEF LocalOk, LocksUser, Known

-----------------------------------------------------------------------------
(* Statements whose effect nobody else sees.                               *)

LEMMA QuietInv ==
  ASSUME AccountsInv, NEW r \in Requests, NEW x, NEW L, Becomes(r, x, L), LocalOk(x, L),
         UNCHANGED <<hash, sessions, resets, redeemed>>, mailed' \subseteq Tokens
  PROVE  AccountsInv'
<1>1. TypeInv' /\ Exclusive'
  BY BecomesTyped DEF AccountsInv, TypeInv, TypeOK
<1>2. LinksInv'
  BY BecomesTyped DEF AccountsInv, LinksInv
<1>3. SessionsBacked' /\ ResetsSpentOnce'
  BY DEF AccountsInv, SessionsBacked, ResetsSpentOnce
<1>4. LocalOk(x, L)'
  BY BecomesTyped DEF LocalOk
<1>5. LocalOk(req[r], locks[r])'
  BY <1>4, BecomesTyped DEF LocalOk, LocksUser, Known
<1>6. Respects(r)
  BY DEF Respects
<1>7. \A q \in Requests : LocalOk(req[q], locks[q])'
  BY <1>5, <1>6, OthersOk
<1> QED BY <1>1, <1>2, <1>3, <1>7 DEF AccountsInv

LEMMA EndsBecomes ==
  ASSUME AccountsInv, NEW r \in Requests, Ends(r)
  PROVE  Becomes(r, Done, {}) /\ LocalOk(Done, {}) /\ mailed \subseteq Tokens
BY IdleLocal DEF AccountsInv, TypeInv, TypeOK, Ends, Goes, Done, Becomes, LocalOk, LocksUser

LEMMA RefusedInv ==
  ASSUME AccountsInv, NEW r \in Requests, Refused(r)
  PROVE  AccountsInv'
BY EndsBecomes, QuietInv DEF Refused

LEMMA BeginInv ==
  ASSUME AccountsInv, NEW r \in Requests, Begin(r)
  PROVE  AccountsInv'
<1>1. ASSUME NEW op \in Ops,
             NEW u \in Accts, NEW t \in Tokens \cup {NoHash}, NEW about \in Tokens \cup {NoHash},
             Begins(r, op, u, t, about), op = "confirm" => Known(t)
      PROVE  AccountsInv'
  <2>1. PICK at \in {"create", "find", "forget", "auth", "lockUser", "redeem"} : at = Steps[op].begin
    BY BeginIs DEF Ops
  <2>0. PICK x : x = [Idle EXCEPT !.op = op, !.at = at, !.user = u, !.token = t, !.about = about]
    OBVIOUS
  <2> DEFINE L == locks[r]
  <2>2. /\ x.op = op /\ x.at = at /\ x.user = u /\ x.token = t /\ x.spends = {}
        /\ x \in Local
    <3>1. at \in Ats
      BY DEF Ats
    <3> QED BY <2>0, <3>1, IdleLocal DEF Local
  <2>3. req' = [req EXCEPT ![r] = x] /\ locks' = locks /\ req[r].at = "idle"
        /\ UNCHANGED <<hash, sessions, resets, mailed, redeemed>>
    BY <1>1, <2>0, <2>1 DEF Begins, Goes
  <2>4. Phase(x)
    BY <2>1, <2>2, BeginIs DEF Phase, Ops
  <2>5. locks \in [Requests -> SUBSET Row] /\ mailed \subseteq Tokens
    BY DEF AccountsInv, TypeInv, TypeOK
  <2>6. Becomes(r, x, L)
    BY <2>2, <2>3, <2>4, <2>5 DEF Becomes
  <2>7. LocalOk(x, L)
    BY <1>1, <2>1, <2>2 DEF LocalOk, LocksUser
  <2> QED BY <2>3, <2>5, <2>6, <2>7, QuietInv
<1>2. ASSUME NEW u \in Accts, BeginNamed(r, u) PROVE AccountsInv'
  BY <1>1, <1>2 DEF BeginNamed, Ops
<1>3. CASE BeginSignedIn(r)
  <2>1. \A s \in sessions : s.user \in Accts /\ s.token \in Tokens /\ TokensOf(s.user) \subseteq Tokens
    BY TokensTyped DEF AccountsInv, TypeInv, TypeOK
  <2> QED BY <1>1, <1>3, <2>1 DEF BeginSignedIn, Ops
<1>4. CASE BeginWithLink(r)
  <2>1. \A y \in resets : y.user \in Accts /\ y.token \in Tokens /\ Known(y.token)
    BY DEF AccountsInv, TypeInv, TypeOK, LinksInv
  <2> QED BY <1>1, <1>4, <2>1 DEF BeginWithLink, Ops
<1> QED BY <1>2, <1>3, <1>4 DEF Begin

LEMMA FindInv ==
  ASSUME AccountsInv, NEW r \in Requests, Find(r)
  PROVE  AccountsInv'
<1>1. CASE Refused(r)
  BY <1>1, RefusedInv
<1>2. ASSUME NEW at \in {"open", "create"}, NEW read \in Hashes \cup {NoHash},
             Goes(r, [req[r] EXCEPT !.at = at, !.read = read]), req[r].at = "find",
             at = "open" => hash[req[r].user] # NoHash, at = "create" => req[r].op = "oauth",
             UNCHANGED <<hash, sessions, resets, mailed, locks, redeemed>>
      PROVE  AccountsInv'
  <2> DEFINE x == [req[r] EXCEPT !.at = at, !.read = read]
             L == locks[r]
  <2>1. Phase(req[r]) /\ req[r] \in Local
    BY <1>2, BusyPhase DEF AccountsInv
  <2>2. /\ x \in Local /\ x.op = req[r].op /\ x.at = at /\ x.user = req[r].user
        /\ x.spends = req[r].spends
    BY <2>1 DEF Local, Ats
  <2>3. req' = [req EXCEPT ![r] = x]
    BY <1>2 DEF Goes
  <2> HIDE DEF x
  <2>4. Phase(x)
    BY <1>2, <2>1, <2>2 DEF Phase
  <2>5. locks \in [Requests -> SUBSET Row] /\ mailed \subseteq Tokens
    BY DEF AccountsInv, TypeInv, TypeOK
  <2>6. Becomes(r, x, L)
    BY <1>2, <2>2, <2>3, <2>4, <2>5 DEF Becomes
  <2>7. LocalOk(x, L)
    BY <1>2, <2>1, <2>2 DEF AccountsInv, LocalOk, LocksUser, Phase
  <2> QED BY <1>2, <2>5, <2>6, <2>7, QuietInv
<1>3. req[r].at = "find" /\ Phase(req[r]) /\ req[r] \in Local /\ hash[req[r].user] \in Hashes \cup {NoHash}
  BY BusyPhase DEF Find, Runs, AccountsInv, TypeInv, TypeOK, Phase
<1>4. CASE /\ hash[req[r].user] # NoHash
           /\ Goes(r, [req[r] EXCEPT !.at = After(r), !.read = hash[req[r].user]])
           /\ UNCHANGED <<hash, sessions, resets, mailed, locks, redeemed>>
  BY <1>2, <1>3, <1>4, AfterIs
<1>5. CASE /\ req[r].op = "oauth" /\ Goes(r, [req[r] EXCEPT !.at = "create"])
           /\ UNCHANGED <<hash, sessions, resets, mailed, locks, redeemed>>
  <2>1. [req[r] EXCEPT !.at = "create"] = [req[r] EXCEPT !.at = "create", !.read = req[r].read]
        /\ req[r].read \in Hashes \cup {NoHash}
    BY <1>3 DEF Local
  <2> QED BY <1>2, <1>3, <1>5, <2>1
<1> QED BY <1>1, <1>4, <1>5 DEF Find

(* r goes on at a later statement of its handler, and may hold more rows.  *)
LEMMA OnwardInv ==
  ASSUME AccountsInv, NEW r \in Requests, req[r].at \notin {"idle", "done", "mail"},
         NEW x, NEW L, req' = [req EXCEPT ![r] = x], locks' = [locks EXCEPT ![r] = L],
         x \in Local, Phase(x), L \subseteq Row,
         L = locks[r] \/ (L = locks[r] \cup Wants(r) /\ Blockers(r) = {}), LocalOk(x, L),
         UNCHANGED <<hash, sessions, resets, mailed, redeemed>>
  PROVE  AccountsInv'
<1>1. Becomes(r, x, L)
  BY DEF Becomes
<1>2. mailed' \subseteq Tokens
  BY DEF AccountsInv, TypeInv, TypeOK
<1> QED BY <1>1, <1>2, QuietInv

LEMMA LocksTyped ==
  ASSUME AccountsInv, NEW r \in Requests
  PROVE  locks[r] \subseteq Row /\ (UNCHANGED locks => locks' = [locks EXCEPT ![r] = locks[r]])
BY DEF AccountsInv, TypeInv, TypeOK

LEMMA EmailExistsInv ==
  ASSUME AccountsInv, NEW r \in Requests, EmailExists(r)
  PROVE  AccountsInv'
<1>1. CASE Refused(r)
  BY <1>1, RefusedInv
<1>2. CASE ~Refused(r)
  <2>1. PICK x : x = [req[r] EXCEPT !.at = "again"]
    OBVIOUS
  <2>2. /\ req[r].at = "create" /\ req[r].op = "oauth" /\ hash[req[r].user] # NoHash
        /\ req' = [req EXCEPT ![r] = x]
        /\ UNCHANGED <<hash, sessions, resets, mailed, locks, redeemed>>
    BY <1>2, <2>1 DEF EmailExists, Runs, Goes
  <2>3. Phase(req[r]) /\ req[r] \in Local
    BY <2>2, BusyPhase DEF AccountsInv
  <2>4. /\ x \in Local /\ x.op = req[r].op /\ x.at = "again" /\ x.user = req[r].user
        /\ x.spends = req[r].spends
    BY <2>1, <2>3 DEF Local, Ats
  <2>5. Phase(x)
    BY <2>2, <2>3, <2>4 DEF Phase
  <2>6. LocalOk(x, locks[r])
    BY <2>2, <2>4 DEF AccountsInv, LocalOk, LocksUser
  <2> QED BY <2>2, <2>4, <2>5, <2>6, LocksTyped, OnwardInv
<1> QED BY <1>1, <1>2

LEMMA FindAgainInv ==
  ASSUME AccountsInv, NEW r \in Requests, FindAgain(r)
  PROVE  AccountsInv'
<1>1. req[r].at = "again"
  BY DEF FindAgain, Runs
<1>2. Phase(req[r]) /\ req[r] \in Local
  BY <1>1, BusyPhase DEF AccountsInv
<1>3. After(r) = "open"
  BY <1>1, <1>2, AfterIs
<1>4. PICK x : x = [req[r] EXCEPT !.at = "open", !.read = hash[req[r].user]]
  OBVIOUS
<1>5. req' = [req EXCEPT ![r] = x] /\ UNCHANGED <<hash, sessions, resets, mailed, locks, redeemed>>
  BY <1>3, <1>4 DEF FindAgain, Goes
<1>6. hash[req[r].user] \in Hashes \cup {NoHash}
  BY <1>2 DEF AccountsInv, TypeInv, TypeOK, Phase
<1>7. /\ x \in Local /\ x.op = req[r].op /\ x.at = "open" /\ x.user = req[r].user
      /\ x.spends = req[r].spends
  BY <1>2, <1>4, <1>6 DEF Local, Ats
<1>8. Phase(x)
  BY <1>1, <1>2, <1>7 DEF Phase
<1>9. LocalOk(x, locks[r])
  BY <1>1, <1>2, <1>7 DEF AccountsInv, LocalOk, LocksUser, Phase
<1> QED BY <1>1, <1>5, <1>7, <1>8, <1>9, LocksTyped, OnwardInv

LEMMA AuthenticateInv ==
  ASSUME AccountsInv, NEW r \in Requests, Authenticate(r)
  PROVE  AccountsInv'
<1>1. CASE Refused(r)
  BY <1>1, RefusedInv
<1>2. CASE ~Refused(r)
  <2>1. req[r].at = "auth"
    BY DEF Authenticate, Runs
  <2>2. Phase(req[r]) /\ req[r] \in Local
    BY <2>1, BusyPhase DEF AccountsInv
  <2>3. PICK s \in sessions :
          /\ Goes(r, [req[r] EXCEPT !.at = After(r), !.user = s.user])
          /\ UNCHANGED <<hash, sessions, resets, mailed, locks, redeemed>>
    BY <1>2 DEF Authenticate
  <2>4. PICK x : x = [req[r] EXCEPT !.at = After(r), !.user = s.user]
    OBVIOUS
  <2>5. After(r) \in {"forgetAll", "pick", "update"}
    BY <2>1, <2>2, AfterIs DEF Phase
  <2>6. s.user \in Accts
    BY DEF AccountsInv, TypeInv, TypeOK
  <2>7. /\ x \in Local /\ x.op = req[r].op /\ x.at = After(r) /\ x.user = s.user
        /\ x.spends = req[r].spends
    BY <2>2, <2>4, <2>5, <2>6 DEF Local, Ats
  <2>8. Phase(x) /\ x.op # "confirm"
    BY <2>1, <2>2, <2>6, <2>7, AfterIs DEF Phase
  <2>9. LocalOk(x, locks[r])
    BY <2>5, <2>7, <2>8 DEF AccountsInv, LocalOk, LocksUser
  <2> QED BY <2>1, <2>3, <2>4, <2>7, <2>8, <2>9, LocksTyped, OnwardInv DEF Goes
<1> QED BY <1>1, <1>2

LEMMA PickInv ==
  ASSUME AccountsInv, NEW r \in Requests, Pick(r)
  PROVE  AccountsInv'
<1>1. CASE Refused(r)
  BY <1>1, RefusedInv
<1>2. CASE ~Refused(r)
  <2>1. req[r].at = "pick" /\ Blockers(r) = {} /\ req[r].about \in TokensOf(req[r].user)
    BY <1>2 DEF Pick, Runs
  <2>2. Phase(req[r]) /\ req[r] \in Local
    BY <2>1, BusyPhase DEF AccountsInv
  <2>3. After(r) = "commit" /\ req[r].about \in Tokens
    BY <2>1, <2>2, AfterIs, TokensTyped DEF AccountsInv
  <2>4. PICK x : x = [req[r] EXCEPT !.at = "commit", !.drops = {req[r].about}]
    OBVIOUS
  <2>5. PICK L : L = locks[r] \cup Wants(r)
    OBVIOUS
  <2>6. /\ req' = [req EXCEPT ![r] = x] /\ locks' = [locks EXCEPT ![r] = L]
        /\ UNCHANGED <<hash, sessions, resets, mailed, redeemed>>
    BY <1>2, <2>3, <2>4, <2>5 DEF Pick, Goes, Holds
  <2>7. /\ x \in Local /\ x.op = req[r].op /\ x.at = "commit" /\ x.user = req[r].user
        /\ x.spends = req[r].spends
    BY <2>2, <2>3, <2>4 DEF Local, Ats
  <2>8. L \subseteq Row
    BY <2>1, <2>3, <2>5, LocksTyped, WantsIs DEF Row
  <2>9. Phase(x) /\ x.op = "revoke"
    BY <2>1, <2>2, <2>7 DEF Phase
  <2>10. LocalOk(x, L)
    BY <2>5, <2>7, <2>9 DEF AccountsInv, LocalOk, LocksUser
  <2> QED BY <2>1, <2>5, <2>6, <2>7, <2>8, <2>9, <2>10, OnwardInv
<1> QED BY <1>1, <1>2

LEMMA UpdateHashInv ==
  ASSUME AccountsInv, NEW r \in Requests, UpdateHash(r)
  PROVE  AccountsInv'
<1>1. req[r].at = "update" /\ Blockers(r) = {}
  BY DEF UpdateHash, Runs
<1>2. Phase(req[r]) /\ req[r] \in Local
  BY <1>1, BusyPhase DEF AccountsInv
<1>3. /\ req[r].op \in {"password", "confirm"} /\ req[r].user \in Tokens
      /\ After(r) = IF req[r].op = "password" THEN "sweep" ELSE "mark"
  BY <1>1, <1>2, AfterIs DEF Phase, Tokens
<1>4. PICK x : x = [req[r] EXCEPT !.at = After(r)]
  OBVIOUS
<1>5. PICK L : L = locks[r] \cup Wants(r)
  OBVIOUS
<1>6. /\ req' = [req EXCEPT ![r] = x] /\ locks' = [locks EXCEPT ![r] = L]
      /\ UNCHANGED <<hash, sessions, resets, mailed, redeemed>>
  BY <1>4, <1>5 DEF UpdateHash, Goes, Holds
<1>7. /\ x \in Local /\ x.op = req[r].op /\ x.at = After(r) /\ x.user = req[r].user
      /\ x.spends = req[r].spends /\ x.token = req[r].token
  BY <1>2, <1>3, <1>4 DEF Local, Ats
<1>8. L \subseteq Row /\ <<"user", x.user>> \in L
  BY <1>1, <1>3, <1>5, <1>7, LocksTyped, WantsIs DEF Row
<1>9. Phase(x)
  BY <1>2, <1>3, <1>7 DEF Phase
<1>10. LocalOk(x, L)
  BY <1>1, <1>3, <1>5, <1>7, <1>8 DEF AccountsInv, LocalOk, LocksUser
<1> QED BY <1>1, <1>5, <1>6, <1>7, <1>8, <1>9, <1>10, OnwardInv

LEMMA SweepInv ==
  ASSUME AccountsInv, NEW r \in Requests, Sweep(r)
  PROVE  AccountsInv'
<1> DEFINE kept == IF req[r].op = "password" THEN {req[r].token} ELSE {}
<1>1. req[r].at = "sweep" /\ Blockers(r) = {}
  BY DEF Sweep, Runs
<1>2. Phase(req[r]) /\ req[r] \in Local
  BY <1>1, BusyPhase DEF AccountsInv
<1>3. After(r) = "commit" /\ req[r].op \in {"password", "confirm"}
  BY <1>1, <1>2, AfterIs DEF Phase
<1>4. PICK x : x = [req[r] EXCEPT !.at = "commit", !.drops = TokensOf(req[r].user) \ kept]
  OBVIOUS
<1>5. PICK L : L = locks[r] \cup Wants(r)
  OBVIOUS
<1>6. /\ req' = [req EXCEPT ![r] = x] /\ locks' = [locks EXCEPT ![r] = L]
      /\ UNCHANGED <<hash, sessions, resets, mailed, redeemed>>
  BY <1>3, <1>4, <1>5 DEF Sweep, Goes, Holds
<1>7. TokensOf(req[r].user) \subseteq Tokens
  BY TokensTyped DEF AccountsInv
<1>8. /\ x \in Local /\ x.op = req[r].op /\ x.at = "commit" /\ x.user = req[r].user
      /\ x.spends = req[r].spends /\ x.token = req[r].token
      /\ x.drops = TokensOf(req[r].user) \ kept
  BY <1>2, <1>4, <1>7 DEF Local, Ats
<1>9. L \subseteq Row
  BY <1>1, <1>5, <1>7, LocksTyped, WantsIs DEF Row
<1>10. Phase(x)
  BY <1>2, <1>3, <1>8 DEF Phase
<1>11. \A s \in sessions : s.user = x.user =>
         s.token \in x.drops \/ (x.op = "password" /\ s.token = x.token)
  BY <1>8 DEF TokensOf
<1>12. LocalOk(x, L)
  BY <1>1, <1>3, <1>5, <1>8, <1>11 DEF AccountsInv, LocalOk, LocksUser
<1> QED BY <1>1, <1>5, <1>6, <1>8, <1>9, <1>10, <1>12, OnwardInv

LEMMA LockUserInv ==
  ASSUME AccountsInv, NEW r \in Requests, LockUser(r)
  PROVE  AccountsInv'
<1>1. CASE Refused(r)
  BY <1>1, RefusedInv
<1>2. CASE ~Refused(r)
  <2>1. req[r].at = "lockUser" /\ Blockers(r) = {}
    BY DEF LockUser, Runs
  <2>2. Phase(req[r]) /\ req[r] \in Local
    BY <2>1, BusyPhase DEF AccountsInv
  <2>3. After(r) = "clear" /\ req[r].op = "forgot" /\ req[r].user \in Tokens
    BY <2>1, <2>2, AfterIs DEF Phase, Tokens
  <2>4. PICK x : x = [req[r] EXCEPT !.at = "clear"]
    OBVIOUS
  <2>5. PICK L : L = locks[r] \cup Wants(r)
    OBVIOUS
  <2>6. /\ req' = [req EXCEPT ![r] = x] /\ locks' = [locks EXCEPT ![r] = L]
        /\ UNCHANGED <<hash, sessions, resets, mailed, redeemed>>
    BY <1>2, <2>3, <2>4, <2>5 DEF LockUser, Goes, Holds
  <2>7. /\ x \in Local /\ x.op = "forgot" /\ x.at = "clear" /\ x.user = req[r].user
        /\ x.spends = req[r].spends
    BY <2>2, <2>3, <2>4 DEF Local, Ats
  <2>8. L \subseteq Row /\ <<"user", x.user>> \in L
    BY <2>1, <2>3, <2>5, <2>7, LocksTyped, WantsIs DEF Row
  <2>9. Phase(x)
    BY <2>2, <2>7 DEF Phase
  <2>10. LocalOk(x, L)
    BY <2>5, <2>7, <2>8 DEF AccountsInv, LocalOk, LocksUser
  <2> QED BY <2>1, <2>5, <2>6, <2>7, <2>8, <2>9, <2>10, OnwardInv
<1> QED BY <1>1, <1>2

LEMMA SpendInv ==
  ASSUME AccountsInv, NEW r \in Requests, Spend(r)
  PROVE  AccountsInv'
<1>1. req[r].at \in {"clear", "mark"} /\ Blockers(r) = {}
  BY DEF Spend, Runs
<1>2. Phase(req[r]) /\ req[r] \in Local
  BY <1>1, BusyPhase DEF AccountsInv
<1>3. /\ req[r].at = "clear" => After(r) = "commit" /\ req[r].op = "forgot"
      /\ req[r].at = "mark" => After(r) = "sweep" /\ req[r].op = "confirm"
  BY <1>2, AfterIs DEF Phase
<1>4. PICK spent : spent = UnusedOf(req[r].user)
  OBVIOUS
<1>5. PICK x : x = [req[r] EXCEPT !.at = After(r), !.spends = spent]
  OBVIOUS
<1>6. PICK L : L = locks[r] \cup Wants(r)
  OBVIOUS
<1>7. /\ req' = [req EXCEPT ![r] = x] /\ locks' = [locks EXCEPT ![r] = L]
      /\ UNCHANGED <<hash, sessions, resets, mailed, redeemed>>
  BY <1>4, <1>5, <1>6 DEF Spend, Goes, Holds
<1>8. /\ ResetsOf(req[r].user) \subseteq Tokens /\ spent \subseteq ResetsOf(req[r].user)
      /\ Wants(r) = {"reset"} \X ResetsOf(req[r].user)
  BY <1>1, <1>4, TokensTyped, WantsIs DEF AccountsInv
<1>9. /\ x \in Local /\ x.op = req[r].op /\ x.at = After(r) /\ x.user = req[r].user
      /\ x.spends = spent /\ x.token = req[r].token
  BY <1>1, <1>2, <1>3, <1>5, <1>8 DEF Local, Ats
<1>10. L \subseteq Row /\ \A t \in spent : <<"reset", t>> \in L
  BY <1>6, <1>8, LocksTyped DEF Row
<1>11. Phase(x)
  BY <1>1, <1>2, <1>3, <1>9 DEF Phase
<1>12. \A y \in resets : y.user = x.user /\ ~y.used => y.token \in x.spends
  BY <1>4, <1>9 DEF UnusedOf
<1>13. LocalOk(x, L)
  BY <1>1, <1>3, <1>6, <1>9, <1>10, <1>12 DEF AccountsInv, LocalOk, LocksUser
<1> QED BY <1>1, <1>6, <1>7, <1>9, <1>10, <1>11, <1>13, OnwardInv

LEMMA RedeemInv ==
  ASSUME AccountsInv, NEW r \in Requests, Redeem(r)
  PROVE  AccountsInv'
<1>1. CASE Refused(r)
  BY <1>1, RefusedInv
<1>2. CASE ~Refused(r)
  <2>1. req[r].at = "redeem" /\ Blockers(r) = {}
    BY DEF Redeem, Runs
  <2>2. Phase(req[r]) /\ req[r] \in Local
    BY <2>1, BusyPhase DEF AccountsInv
  <2>3. PICK y \in resets :
          /\ y.token = req[r].token /\ ~y.used
          /\ Goes(r, [req[r] EXCEPT !.at = After(r), !.user = y.user]) /\ Holds(r)
          /\ UNCHANGED <<hash, sessions, resets, mailed, redeemed>>
    BY <1>2 DEF Redeem
  <2>4. /\ After(r) = "update" /\ req[r].op = "confirm" /\ y.user \in Accts /\ req[r].token \in Tokens
    BY <2>1, <2>2, <2>3, AfterIs DEF Phase, AccountsInv, TypeInv, TypeOK
  <2>5. PICK x : x = [req[r] EXCEPT !.at = "update", !.user = y.user]
    OBVIOUS
  <2>6. PICK L : L = locks[r] \cup Wants(r)
    OBVIOUS
  <2>7. req' = [req EXCEPT ![r] = x] /\ locks' = [locks EXCEPT ![r] = L]
    BY <2>3, <2>4, <2>5, <2>6 DEF Goes, Holds
  <2>8. /\ x \in Local /\ x.op = "confirm" /\ x.at = "update" /\ x.user = y.user
        /\ x.spends = req[r].spends /\ x.token = req[r].token
    BY <2>2, <2>4, <2>5 DEF Local, Ats
  <2>9. L \subseteq Row /\ <<"reset", x.token>> \in L
    BY <2>1, <2>4, <2>6, <2>8, LocksTyped, WantsIs DEF Row
  <2>10. Phase(x)
    BY <2>4, <2>8 DEF Phase
  <2>11. LocalOk(x, L)
    BY <2>3, <2>4, <2>6, <2>8, <2>9 DEF AccountsInv, LocalOk, LocksUser
  <2> QED BY <2>1, <2>3, <2>6, <2>7, <2>8, <2>9, <2>10, <2>11, OnwardInv
<1> QED BY <1>1, <1>2

LEMMA SendInv ==
  ASSUME AccountsInv, NEW r \in Requests, SendPasswordReset(r)
  PROVE  AccountsInv'
<1>1. r \in Tokens
  BY DEF Tokens
<1> QED BY <1>1, EndsBecomes, QuietInv DEF SendPasswordReset

-----------------------------------------------------------------------------
(* Statements and commits that the others see.                             *)

LEMMA LoudInv ==
  ASSUME AccountsInv, NEW r \in Requests, NEW x, NEW L, Becomes(r, x, L), Respects(r),
         hash' \in [Accts -> Hashes \cup {NoHash}],
         sessions' \subseteq [token : Tokens, user : Accts, under : Hashes \cup {NoHash}, raced : BOOLEAN],
         \A s \in sessions' : hash'[s.user] # NoHash,
         resets' \subseteq [token : Tokens, user : Accts, used : BOOLEAN],
         redeemed' \subseteq [by : Requests, link : Tokens], UNCHANGED mailed,
         ~LocksUser(x), x.op # "confirm",
         x.at \in {"open", "again"} => hash'[x.user] # NoHash,
         \A t \in x.spends : <<"reset", t>> \in L,
         LinksInv', SessionsBacked', ResetsSpentOnce'
  PROVE  AccountsInv'
<1>1. TypeInv' /\ Exclusive'
  BY BecomesTyped DEF AccountsInv, TypeInv, TypeOK
<1>2. LocalOk(req[r], locks[r])'
  BY BecomesTyped DEF LocalOk, LocksUser
<1>3. \A q \in Requests : LocalOk(req[q], locks[q])'
  BY <1>2, OthersOk
<1> QED BY <1>1, <1>3 DEF AccountsInv

LEMMA SessionsTyped ==
  ASSUME AccountsInv
  PROVE  /\ hash \in [Accts -> Hashes \cup {NoHash}]
         /\ sessions \subseteq [token : Tokens, user : Accts, under : Hashes \cup {NoHash}, raced : BOOLEAN]
         /\ \A s \in sessions : hash[s.user] # NoHash /\ s.user \in Accts
         /\ resets \subseteq [token : Tokens, user : Accts, used : BOOLEAN]
         /\ redeemed \subseteq [by : Requests, link : Tokens]
BY DEF AccountsInv, TypeInv, TypeOK

(* Sessions are deleted, nothing else. *)
LEMMA DeletedInv ==
  ASSUME AccountsInv, NEW r \in Requests, Ends(r), sessions' \subseteq sessions,
         UNCHANGED <<hash, resets, mailed, redeemed>>
  PROVE  AccountsInv'
<1>1. Becomes(r, Done, {}) /\ Done.spends = {} /\ Done.op = "none" /\ Done.at = "done" /\ ~LocksUser(Done)
  BY EndsBecomes, IdleLocal DEF LocksUser
<1>2. Respects(r)
  BY DEF Respects
<1>3. LinksInv'
  BY <1>1, BecomesTyped DEF AccountsInv, LinksInv
<1>4. SessionsBacked' /\ ResetsSpentOnce'
  BY DEF AccountsInv, SessionsBacked, ResetsSpentOnce
<1> QED BY <1>1, <1>2, <1>3, <1>4, SessionsTyped, LoudInv

LEMMA DeletesInv ==
  ASSUME AccountsInv, NEW r \in Requests,
         DeleteSession(r) \/ DeleteUserSessions(r) \/ CommitRevoke(r)
  PROVE  AccountsInv'
<1>1. /\ Ends(r) /\ sessions' \subseteq sessions
      /\ UNCHANGED <<hash, resets, mailed, redeemed>>
  BY DEF DeleteSession, DeleteUserSessions, CommitRevoke, Remaining
<1> QED BY <1>1, DeletedInv

LEMMA CreateUserInv ==
  ASSUME AccountsInv, NEW r \in Requests, CreateUser(r)
  PROVE  AccountsInv'
<1>1. PICK u : u = req[r].user
  OBVIOUS
<1>2. PICK h : h = IF req[r].op = "oauth" THEN Disabled ELSE r
  OBVIOUS
<1>3. req[r].at = "create"
  BY DEF CreateUser, Runs
<1>4. Phase(req[r]) /\ req[r] \in Local
  BY <1>3, BusyPhase DEF AccountsInv
<1>5. After(r) = "open" /\ req[r].op \in {"register", "oauth"} /\ u \in Accts
  BY <1>1, <1>3, <1>4, AfterIs DEF Phase
<1>6. h \in Hashes /\ h # NoHash
  BY <1>2, NamesAssumption DEF Hashes, Tokens
<1>7. PICK x : x = [req[r] EXCEPT !.at = "open", !.read = h]
  OBVIOUS
<1>8. /\ hash[u] = NoHash /\ hash' = [hash EXCEPT ![u] = h] /\ req' = [req EXCEPT ![r] = x]
      /\ UNCHANGED <<sessions, resets, mailed, locks, redeemed>>
  BY <1>1, <1>2, <1>5, <1>7 DEF CreateUser, Goes
<1>9. /\ x \in Local /\ x.op = req[r].op /\ x.at = "open" /\ x.user = u /\ x.spends = req[r].spends
  BY <1>1, <1>4, <1>6, <1>7 DEF Local, Ats
<1>10. Phase(x) /\ ~LocksUser(x) /\ x.op # "confirm"
  BY <1>5, <1>9 DEF Phase, LocksUser
<1>11. Becomes(r, x, locks[r])
  BY <1>3, <1>8, <1>9, <1>10, LocksTyped DEF Becomes
<1>12. hash' \in [Accts -> Hashes \cup {NoHash}] /\ hash'[u] = h
       /\ \A v \in Accts \ {u} : hash'[v] = hash[v]
  BY <1>5, <1>6, <1>8, SessionsTyped
<1>13. \A s \in sessions : s.user # u /\ hash'[s.user] = hash[s.user]
  BY <1>8, <1>12, SessionsTyped
<1>14. Respects(r)
  BY <1>6, <1>8, <1>12 DEF Respects
<1>15. LinksInv'
  BY <1>8, <1>11, BecomesTyped DEF AccountsInv, LinksInv
<1>16. SessionsBacked' /\ ResetsSpentOnce'
  BY <1>8, <1>13 DEF AccountsInv, SessionsBacked, ResetsSpentOnce
<1>17. \A t \in x.spends : <<"reset", t>> \in locks[r]
  BY <1>9 DEF AccountsInv, LocalOk
<1>18. x.op \in {"oauth", "register"} /\ hash'[x.user] # NoHash
  BY <1>5, <1>6, <1>9, <1>12
<1> QED BY <1>8, <1>9, <1>10, <1>11, <1>12, <1>13, <1>14, <1>15, <1>16, <1>17, <1>18,
       SessionsTyped, LoudInv

(* No transaction that changes the password of the user is between its     *)
(* sweep and its commit: it holds the row of the user.                     *)
LEMMA CreateSessionInv ==
  ASSUME AccountsInv, NEW r \in Requests, CreateSession(r)
  PROVE  AccountsInv'
<1>1. PICK u : u = req[r].user
  OBVIOUS
<1>2. req[r].at = "open" /\ Blockers(r) = {}
  BY DEF CreateSession, Runs
<1>3. Phase(req[r]) /\ req[r] \in Local
  BY <1>2, BusyPhase DEF AccountsInv
<1>4. After(r) = "record" /\ req[r].op \in {"register", "login", "oauth"} /\ u \in Accts /\ hash[u] # NoHash
  BY <1>1, <1>2, <1>3, AfterIs DEF Phase, AccountsInv, LocalOk
<1>5. PICK x : x = [req[r] EXCEPT !.at = "record", !.read = NoHash]
  OBVIOUS
<1>6. PICK new : new = [token |-> r, user |-> u, under |-> req[r].read, raced |-> req[r].read # hash[u]]
  OBVIOUS
<1>7. /\ req' = [req EXCEPT ![r] = x] /\ sessions' = sessions \cup {new}
      /\ UNCHANGED <<hash, resets, mailed, locks, redeemed>>
  BY <1>1, <1>4, <1>5, <1>6 DEF CreateSession, Goes
<1>8. /\ x \in Local /\ x.op = req[r].op /\ x.at = "record" /\ x.user = u /\ x.spends = req[r].spends
  BY <1>1, <1>3, <1>5 DEF Local, Ats
<1>9. Phase(x) /\ ~LocksUser(x) /\ x.op # "confirm"
  BY <1>4, <1>8 DEF Phase, LocksUser
<1>10. Becomes(r, x, locks[r])
  BY <1>2, <1>7, <1>8, <1>9, LocksTyped DEF Becomes
<1>11. /\ new \in [token : Tokens, user : Accts, under : Hashes \cup {NoHash}, raced : BOOLEAN]
       /\ new.user = u /\ (new.raced \/ new.under = hash[u])
  <2>1. r \in Tokens /\ req[r].read \in Hashes \cup {NoHash}
    BY <1>3 DEF Tokens, Local
  <2> QED BY <1>4, <1>6, <2>1
<1>12. \A q \in Requests \ {r} : LocksUser(req[q]) => req[q].user # u
  <2>1. \A q \in Requests \ {r} : <<"user", u>> \notin locks[q]
    BY <1>1, <1>2, WantsIs DEF Blockers
  <2> QED BY <2>1 DEF AccountsInv, LocalOk
<1>13. Respects(r)
  BY <1>7, <1>11, <1>12 DEF Respects
<1>14. LinksInv'
  BY <1>7, <1>10, BecomesTyped DEF AccountsInv, LinksInv
<1>15. SessionsBacked' /\ ResetsSpentOnce'
  BY <1>7, <1>11 DEF AccountsInv, SessionsBacked, ResetsSpentOnce
<1>16. \A t \in x.spends : <<"reset", t>> \in locks[r]
  BY <1>8 DEF AccountsInv, LocalOk
<1>17. /\ sessions' \subseteq [token : Tokens, user : Accts, under : Hashes \cup {NoHash}, raced : BOOLEAN]
       /\ \A s \in sessions' : hash'[s.user] # NoHash
  BY <1>4, <1>7, <1>11, SessionsTyped
<1> QED BY <1>7, <1>8, <1>9, <1>10, <1>13, <1>14, <1>15, <1>16, <1>17, SessionsTyped, LoudInv

LEMMA CommitPasswordInv ==
  ASSUME AccountsInv, NEW r \in Requests, CommitPassword(r)
  PROVE  AccountsInv'
<1>1. PICK u : u = req[r].user
  OBVIOUS
<1>2. PICK t : t = req[r].token
  OBVIOUS
<1>3. req[r].at = "commit" /\ req[r].op = "password"
  BY DEF CommitPassword, Runs
<1>4. u \in Accts /\ r \in Hashes /\ r # NoHash
  BY <1>1, <1>3, BusyPhase, NamesAssumption DEF AccountsInv, Phase, Hashes, Tokens
<1>5. /\ hash' = [hash EXCEPT ![u] = r] /\ Ends(r) /\ UNCHANGED <<resets, mailed, redeemed>>
      /\ sessions' = {IF s.token = t /\ s.user = u THEN [s EXCEPT !.under = r] ELSE s : s \in Remaining(r)}
  BY <1>1, <1>2 DEF CommitPassword
<1>6. Becomes(r, Done, {}) /\ Done.spends = {} /\ Done.op = "none" /\ Done.at = "done" /\ ~LocksUser(Done)
  BY <1>5, EndsBecomes, IdleLocal DEF LocksUser
<1>7. \A s \in Remaining(r) : s \in sessions /\ (s.user = u => s.token = t)
  BY <1>1, <1>2, <1>3 DEF Remaining, AccountsInv, LocalOk
<1>8. hash' \in [Accts -> Hashes \cup {NoHash}] /\ hash'[u] = r
      /\ \A v \in Accts \ {u} : hash'[v] = hash[v]
  BY <1>4, <1>5, SessionsTyped
<1>9. ASSUME NEW s \in sessions'
      PROVE  /\ s \in [token : Tokens, user : Accts, under : Hashes \cup {NoHash}, raced : BOOLEAN]
             /\ \E old \in sessions : old.token = s.token /\ old.user = s.user
             /\ hash'[s.user] # NoHash /\ (s.raced \/ s.under = hash'[s.user])
  <2>1. PICK old \in Remaining(r) :
          s = IF old.token = t /\ old.user = u THEN [old EXCEPT !.under = r] ELSE old
    BY <1>5
  <2>2. /\ old \in sessions /\ hash[old.user] # NoHash /\ (old.raced \/ old.under = hash[old.user])
        /\ old \in [token : Tokens, user : Accts, under : Hashes \cup {NoHash}, raced : BOOLEAN]
    BY <1>7, SessionsTyped DEF AccountsInv, SessionsBacked
  <2>3. CASE old.user = u
    <3>1. s = [old EXCEPT !.under = r]
      BY <1>7, <2>1, <2>3
    <3>2. /\ s.token = old.token /\ s.user = u /\ s.under = r
          /\ s \in [token : Tokens, user : Accts, under : Hashes \cup {NoHash}, raced : BOOLEAN]
      BY <1>4, <2>2, <2>3, <3>1
    <3> QED BY <1>4, <1>8, <2>2, <2>3, <3>2
  <2>4. CASE old.user # u
    <3>1. s = old /\ hash'[old.user] = hash[old.user]
      BY <1>8, <2>1, <2>2, <2>4
    <3> QED BY <2>2, <3>1
  <2> QED BY <2>3, <2>4
<1>10. Respects(r)
  BY <1>4, <1>5, <1>8, <1>9 DEF Respects
<1>11. LinksInv'
  BY <1>5, <1>6, BecomesTyped DEF AccountsInv, LinksInv
<1>12. SessionsBacked'
  BY <1>9 DEF SessionsBacked
<1>13. ResetsSpentOnce'
  BY <1>5 DEF AccountsInv, ResetsSpentOnce
<1>14. sessions' \subseteq [token : Tokens, user : Accts, under : Hashes \cup {NoHash}, raced : BOOLEAN]
  BY <1>9
<1> QED BY <1>5, <1>6, <1>8, <1>9, <1>10, <1>11, <1>12, <1>13, <1>14, SessionsTyped, LoudInv

LEMMA CommitConfirmInv ==
  ASSUME AccountsInv, NEW r \in Requests, CommitConfirm(r)
  PROVE  AccountsInv'
<1>1. PICK u : u = req[r].user
  OBVIOUS
<1>2. PICK t : t = req[r].token
  OBVIOUS
<1>3. PICK spent : spent = req[r].spends
  OBVIOUS
<1>4. req[r].at = "commit" /\ req[r].op = "confirm"
  BY DEF CommitConfirm, Runs
<1>5. u \in Accts /\ r \in Hashes /\ r # NoHash
  BY <1>1, <1>4, BusyPhase, NamesAssumption DEF AccountsInv, Phase, Hashes, Tokens
<1>6. /\ hash' = [hash EXCEPT ![u] = r] /\ Ends(r) /\ UNCHANGED mailed
      /\ resets' = {IF y.token \in spent THEN [y EXCEPT !.used = TRUE] ELSE y : y \in resets}
      /\ sessions' = Remaining(r)
      /\ redeemed' = redeemed \cup {[by |-> r, link |-> t]}
  BY <1>1, <1>2, <1>3 DEF CommitConfirm
<1>7. Becomes(r, Done, {}) /\ Done.spends = {} /\ Done.op = "none" /\ Done.at = "done" /\ ~LocksUser(Done)
  BY <1>6, EndsBecomes, IdleLocal DEF LocksUser
<1>8. /\ \A s \in sessions' : s \in sessions /\ s.user # u
      /\ t \in spent /\ Known(t) /\ \E y \in resets : y.token = t /\ ~y.used
  BY <1>1, <1>2, <1>3, <1>4, <1>6 DEF Remaining, AccountsInv, LocalOk
<1>9. hash' \in [Accts -> Hashes \cup {NoHash}] /\ hash'[u] = r
      /\ \A v \in Accts \ {u} : hash'[v] = hash[v]
  BY <1>5, <1>6, SessionsTyped
<1>10. ASSUME NEW y \in resets'
       PROVE  /\ y \in [token : Tokens, user : Accts, used : BOOLEAN]
              /\ y.token \in spent => y.used
              /\ ~y.used => y \in resets
              /\ \E old \in resets : old.token = y.token /\ (old.used => y.used)
  <2>1. PICK old \in resets : y = IF old.token \in spent THEN [old EXCEPT !.used = TRUE] ELSE old
    BY <1>6
  <2>2. old \in [token : Tokens, user : Accts, used : BOOLEAN]
    BY SessionsTyped
  <2>3. CASE old.token \in spent
    <3>1. y = [old EXCEPT !.used = TRUE]
      BY <2>1, <2>3
    <3>2. y.token = old.token /\ y.used = TRUE /\ y \in [token : Tokens, user : Accts, used : BOOLEAN]
      BY <2>2, <3>1
    <3> QED BY <3>2
  <2>4. CASE old.token \notin spent
    BY <2>1, <2>2, <2>4
  <2> QED BY <2>3, <2>4
<1>11. \A y \in resets : ~y.used /\ y.token \notin spent => y \in resets'
  BY <1>6
<1>12. Respects(r)
  BY <1>3, <1>5, <1>8, <1>9, <1>10, <1>11 DEF Respects
<1>13. r \in Requests /\ t \in Tokens /\ redeemed' \subseteq [by : Requests, link : Tokens]
  <2>1. t \in Tokens
    BY <1>8, SessionsTyped
  <2> QED BY <1>6, <2>1, SessionsTyped
<1>14. \A z \in redeemed' : z \in redeemed \/ z.link = t
  BY <1>6
<1>15. LinksInv'
  <2>1. \A y \in resets' : Known(y.token)'
    BY <1>7, <1>10, BecomesTyped DEF AccountsInv, LinksInv
  <2>2. \A z \in redeemed' : Known(z.link)'
    BY <1>7, <1>8, <1>14, BecomesTyped DEF AccountsInv, LinksInv
  <2>3. ASSUME NEW z \in redeemed', NEW y \in resets', y.token = z.link PROVE y.used
    BY <1>8, <1>10, <1>14, <2>3 DEF AccountsInv, LinksInv
  <2> QED BY <2>1, <2>2, <2>3 DEF LinksInv
<1>16. ResetsSpentOnce'
  <2>1. \A z \in redeemed : z.link # t
    BY <1>8 DEF AccountsInv, LinksInv
  <2>2. \A y, z \in redeemed' : y.link = z.link => y = z
    BY <1>6, <2>1 DEF AccountsInv, ResetsSpentOnce
  <2>3. \A y, z \in resets' : y.user = z.user /\ ~y.used /\ ~z.used => y = z
    BY <1>10 DEF AccountsInv, ResetsSpentOnce
  <2> QED BY <2>2, <2>3 DEF ResetsSpentOnce
<1>17. SessionsBacked'
  BY <1>8, <1>9, SessionsTyped DEF AccountsInv, SessionsBacked
<1>18. \A s \in sessions' : hash'[s.user] # NoHash
  BY <1>8, <1>9, SessionsTyped
<1>19. /\ sessions' \subseteq [token : Tokens, user : Accts, under : Hashes \cup {NoHash}, raced : BOOLEAN]
       /\ resets' \subseteq [token : Tokens, user : Accts, used : BOOLEAN]
  BY <1>8, <1>10, SessionsTyped
<1> QED BY <1>6, <1>7, <1>9, <1>12, <1>13, <1>15, <1>16, <1>17, <1>18, <1>19, LoudInv

LEMMA CommitForgotInv ==
  ASSUME AccountsInv, NEW r \in Requests, CommitForgot(r)
  PROVE  AccountsInv'
<1>1. PICK u : u = req[r].user
  OBVIOUS
<1>2. req[r].at = "commit" /\ req[r].op = "forgot"
  BY DEF CommitForgot, Runs
<1>3. Phase(req[r]) /\ req[r] \in Local
  BY <1>2, BusyPhase DEF AccountsInv
<1>4. After(r) = "mail" /\ u \in Accts /\ r \in Tokens
  BY <1>1, <1>2, <1>3, AfterIs DEF Phase, Tokens
<1>5. PICK x : x = [req[r] EXCEPT !.at = "mail", !.spends = {}]
  OBVIOUS
<1>6. PICK new : new = [token |-> r, user |-> u, used |-> FALSE]
  OBVIOUS
<1>7. /\ req' = [req EXCEPT ![r] = x] /\ locks' = [locks EXCEPT ![r] = {}]
      /\ resets' = {y \in resets : y.token \notin req[r].spends} \cup {new}
      /\ UNCHANGED <<hash, sessions, mailed, redeemed>>
  BY <1>1, <1>4, <1>5, <1>6 DEF CommitForgot, Goes
<1>8. /\ x \in Local /\ x.op = "forgot" /\ x.at = "mail" /\ x.user = u /\ x.spends = {}
  BY <1>1, <1>2, <1>3, <1>5 DEF Local, Ats
<1>9. Phase(x) /\ ~LocksUser(x)
  BY <1>4, <1>8 DEF Phase, LocksUser
<1>10. Becomes(r, x, {})
  BY <1>2, <1>7, <1>8, <1>9 DEF Becomes
<1>11. /\ new \in [token : Tokens, user : Accts, used : BOOLEAN]
       /\ new.token = r /\ new.user = u /\ ~new.used
  BY <1>4, <1>6
<1>12. ~Known(r) /\ Known(r)'
  <2>1. req'[r] = x
    BY <1>10, BecomesTyped
  <2> QED BY <1>2, <1>8, <2>1 DEF Known
<1>13. Respects(r)
  BY <1>1, <1>2, <1>7, <1>11 DEF Respects, LocksUser
<1>14. LinksInv'
  <2>1. \A y \in resets' : Known(y.token)'
    BY <1>7, <1>10, <1>11, <1>12, BecomesTyped DEF AccountsInv, LinksInv
  <2>2. \A z \in redeemed : z.link # r /\ Known(z.link)'
    BY <1>10, <1>12, BecomesTyped DEF AccountsInv, LinksInv
  <2>3. \A z \in redeemed' : \A y \in resets' : y.token = z.link => y.used
    BY <1>7, <1>11, <2>2 DEF AccountsInv, LinksInv
  <2> QED BY <1>7, <2>1, <2>2, <2>3 DEF LinksInv
<1>15. ResetsSpentOnce'
  <2>1. \A y \in resets : y.user = u /\ ~y.used => y.token \in req[r].spends
    BY <1>1, <1>2 DEF AccountsInv, LocalOk
  <2> QED BY <1>7, <1>11, <2>1 DEF AccountsInv, ResetsSpentOnce
<1>16. SessionsBacked'
  BY <1>7 DEF AccountsInv, SessionsBacked
<1>17. resets' \subseteq [token : Tokens, user : Accts, used : BOOLEAN]
  BY <1>7, <1>11, SessionsTyped
<1> QED BY <1>7, <1>8, <1>9, <1>10, <1>13, <1>14, <1>15, <1>16, <1>17, SessionsTyped, LoudInv

-----------------------------------------------------------------------------
(* The invariant holds from the start and every step keeps it.             *)

LEMMA InitAccounts == Init => AccountsInv
<1> SUFFICES ASSUME Init PROVE AccountsInv
  OBVIOUS
<1>1. PICK known \in SUBSET Accts : \E asked \in SUBSET (known \cap Users) :
    /\ hash = [u \in Accts |-> IF u \notin known THEN NoHash
                               ELSE IF u \in Users THEN u ELSE Disabled]
    /\ sessions = {[token |-> u, user |-> u, under |-> hash[u], raced |-> FALSE] : u \in known}
    /\ resets = {[token |-> u, user |-> u, used |-> FALSE] : u \in asked}
    /\ mailed = asked
    /\ locks = [r \in Requests |-> {}]
    /\ req = [r \in Requests |-> Idle]
    /\ redeemed = {}
  BY DEF Init
<1>2. PICK asked \in SUBSET (known \cap Users) :
    /\ hash = [u \in Accts |-> IF u \notin known THEN NoHash
                               ELSE IF u \in Users THEN u ELSE Disabled]
    /\ sessions = {[token |-> u, user |-> u, under |-> hash[u], raced |-> FALSE] : u \in known}
    /\ resets = {[token |-> u, user |-> u, used |-> FALSE] : u \in asked}
    /\ mailed = asked
    /\ locks = [r \in Requests |-> {}]
    /\ req = [r \in Requests |-> Idle]
    /\ redeemed = {}
  BY <1>1
<1>3. /\ hash \in [Accts -> Hashes \cup {NoHash}]
      /\ \A u \in known : hash[u] # NoHash
  BY <1>2, NamesAssumption DEF Accts, Tokens, Hashes
<1>4. ASSUME NEW s \in sessions
      PROVE  /\ s \in [token : Tokens, user : Accts, under : Hashes \cup {NoHash}, raced : BOOLEAN]
             /\ s.under = hash[s.user] /\ hash[s.user] # NoHash
  <2>1. PICK u \in known : s = [token |-> u, user |-> u, under |-> hash[u], raced |-> FALSE]
    BY <1>2
  <2>2. u \in Accts /\ u \in Tokens /\ hash[u] \in Hashes \cup {NoHash}
    BY <1>3 DEF Tokens
  <2> QED BY <1>3, <2>1, <2>2
<1>5. ASSUME NEW y \in resets
      PROVE  /\ y \in [token : Tokens, user : Accts, used : BOOLEAN]
             /\ y.token \in Accts /\ y.token = y.user /\ y = [token |-> y.user, user |-> y.user, used |-> FALSE]
  <2>1. PICK u \in asked : y = [token |-> u, user |-> u, used |-> FALSE]
    BY <1>2
  <2>2. u \in Accts /\ u \in Tokens
    BY DEF Tokens
  <2> QED BY <2>1, <2>2
<1>6. TypeInv
  <2>1. sessions \subseteq [token : Tokens, user : Accts, under : Hashes \cup {NoHash}, raced : BOOLEAN]
    BY <1>4
  <2>2. resets \subseteq [token : Tokens, user : Accts, used : BOOLEAN]
    BY <1>5
  <2>3. mailed \subseteq Tokens
    BY <1>2 DEF Tokens
  <2> QED BY <1>2, <1>3, <1>4, <2>1, <2>2, <2>3, IdleLocal DEF TypeInv, TypeOK
<1>7. Exclusive
  BY <1>2 DEF Exclusive
<1>8. LinksInv
  BY <1>2, <1>5, NamesAssumption DEF LinksInv, Known
<1>9. SessionsBacked
  BY <1>4 DEF SessionsBacked
<1>10. ResetsSpentOnce
  BY <1>2, <1>5 DEF ResetsSpentOnce
<1>11. \A r \in Requests : LocalOk(req[r], locks[r])
  BY <1>2, IdleLocal DEF LocalOk, LocksUser
<1> QED BY <1>6, <1>7, <1>8, <1>9, <1>10, <1>11 DEF AccountsInv

LEMMA StepAccounts == AccountsInv /\ [Next]_vars => AccountsInv'
<1> SUFFICES ASSUME AccountsInv, [Next]_vars PROVE AccountsInv'
  OBVIOUS
<1>1. CASE UNCHANGED vars
  BY <1>1 DEF vars, AccountsInv, TypeInv, TypeOK, Exclusive, LinksInv, SessionsBacked,
              ResetsSpentOnce, LocalOk, LocksUser, Known
<1>2. CASE Next
  <2>1. PICK r \in Requests : Begin(r) \/ Step(r) \/ Fail(r)
    BY <1>2 DEF Next
  <2>2. CASE Begin(r)
    BY <2>2, BeginInv
  <2>3. CASE Fail(r)
    BY <2>3, RefusedInv DEF Fail
  <2>4. CASE Find(r) \/ EmailExists(r) \/ FindAgain(r) \/ Authenticate(r)
    BY <2>4, FindInv, EmailExistsInv, FindAgainInv, AuthenticateInv
  <2>5. CASE CreateUser(r) \/ CreateSession(r) \/ SendPasswordReset(r)
    BY <2>5, CreateUserInv, CreateSessionInv, SendInv
  <2>6. CASE RecordLogin(r) \/ Victim(r)
    BY <2>6, RefusedInv DEF RecordLogin, Victim
  <2>7. CASE DeleteSession(r) \/ DeleteUserSessions(r) \/ CommitRevoke(r)
    BY <2>7, DeletesInv
  <2>8. CASE Pick(r) \/ UpdateHash(r) \/ Sweep(r) \/ LockUser(r) \/ Spend(r) \/ Redeem(r)
    BY <2>8, PickInv, UpdateHashInv, SweepInv, LockUserInv, SpendInv, RedeemInv
  <2>9. CASE CommitPassword(r) \/ CommitConfirm(r) \/ CommitForgot(r)
    BY <2>9, CommitPasswordInv, CommitConfirmInv, CommitForgotInv
  <2> QED BY <2>1, <2>2, <2>3, <2>4, <2>5, <2>6, <2>7, <2>8, <2>9 DEF Step
<1> QED BY <1>1, <1>2

LEMMA AccountsAlways == Spec => []AccountsInv
<1> QED BY InitAccounts, StepAccounts, PTL DEF Spec

(* Accounts, sessions, reset tokens and row locks are what the tables and  *)
(* InnoDB say they are (auth.go, CREATE TABLE and the transactions).       *)
THEOREM AccountsTyped == Spec => []TypeOK
<1>1. AccountsInv => TypeOK
  BY DEF AccountsInv, TypeInv
<1> QED BY <1>1, AccountsAlways, PTL

(* A session is backed by the password in force: a password change or a    *)
(* reset leaves no other session of the user, whatever logins run beside   *)
(* it, because inserting a session waits for the row of its user.  Only a  *)
(* login that had already verified the old password slips through.         *)
THEOREM PasswordsBackSessions == Spec => []SessionsBacked
<1>1. AccountsInv => SessionsBacked
  BY DEF AccountsInv
<1> QED BY <1>1, AccountsAlways, PTL

(* A reset link changes a password at most once and no user ever has two   *)
(* usable links, however requests to create and to redeem them interleave, *)
(* fail or are rolled back.                                                *)
THEOREM LinksSpentOnce == Spec => []ResetsSpentOnce
<1>1. AccountsInv => ResetsSpentOnce
  BY DEF AccountsInv
<1> QED BY <1>1, AccountsAlways, PTL
-----------------------------------------------------------------------------
(* The transactions implement AccountStore: what a transaction has taken   *)
(* note of to delete is at its commit just what the one step of the        *)
(* in-memory repository deletes.                                           *)

(* A token a session was opened with: its request is past the insert. *)
Opened(t) == t \in Requests => req[t].at \in {"record", "done"}

TokensApart ==
  /\ \A s \in sessions : Opened(s.token)
  /\ \A s, z \in sessions : s.token = z.token => s.user = z.user
  /\ \A y, z \in resets : y.token = z.token => y = z

KeptOk(x) ==
  /\ x.at # "commit" \/ x.op = "forgot" => x.drops = {}
  /\ x.at \notin {"sweep", "commit"} => x.spends = {}
  \* sessions and links to end are the user's, and the links are unused yet
  /\ \A t \in x.drops : Opened(t) /\ \A s \in sessions : s.token = t => s.user = x.user
  /\ \A t \in x.spends : Known(t) /\ \A y \in resets : y.token = t => y.user = x.user /\ ~y.used
  /\ x.op = "password" => x.token \in Tokens \ x.drops
  /\ x.op = "revoke" /\ x.at = "commit" => x.about \in Tokens /\ x.drops = {x.about}
  /\ x.op = "password" /\ x.at \in {"update", "sweep", "commit"} => hash[x.user] # NoHash
  /\ x.op = "forgot" /\ x.at \in {"clear", "commit"} => hash[x.user] # NoHash

StoreInv == TokensApart /\ \A r \in Requests : KeptOk(req[r])

Moves(r, x) ==
  /\ req' = [req EXCEPT ![r] = x]
  /\ req[r].at \in {"mail", "done"} => x.at \in {"mail", "done"}
  /\ req[r].at \in {"record", "done"} => x.at \in {"record", "done"}

LEMMA MovesIs ==
  ASSUME AccountsInv, NEW r \in Requests, NEW x, Moves(r, x)
  PROVE  /\ req'[r] = x /\ \A q \in Requests \ {r} : req'[q] = req[q]
         /\ \A t : (Known(t) => Known(t)') /\ (Opened(t) => Opened(t)')
<1>1. req'[r] = x /\ \A q \in Requests \ {r} : req'[q] = req[q]
  BY DEF AccountsInv, TypeInv, Moves
<1>2. ASSUME NEW t PROVE (Known(t) => Known(t)') /\ (Opened(t) => Opened(t)')
  BY <1>1 DEF Known, Opened, Moves
<1> QED BY <1>1, <1>2

(* What the notes of the other transactions rest on survives the step of r.*)
SparesNotes(r) ==
  /\ \A u \in Accts : hash[u] # NoHash => hash'[u] # NoHash
  /\ \A s \in sessions' :
       \/ \E old \in sessions : old.token = s.token /\ old.user = s.user
       \/ s.token = r /\ ~Opened(r)
  /\ \A y \in resets' : y \in resets \/ (y.token = r /\ ~Known(r)) \/ y.token \in req[r].spends

LEMMA OthersKept ==
  ASSUME AccountsInv, StoreInv, NEW r \in Requests, NEW x, Moves(r, x), SparesNotes(r),
         NEW q \in Requests \ {r}
  PROVE  KeptOk(req[q])'
<1>1. PICK y : y = req[q]
  OBVIOUS
<1>2. req'[q] = y /\ KeptOk(y) /\ LocalOk(y, locks[q])
  BY <1>1, MovesIs DEF StoreInv, AccountsInv
<1>3. ASSUME NEW t \in y.drops
      PROVE  Opened(t)' /\ \A s \in sessions' : s.token = t => s.user = y.user
  <2>1. Opened(t) /\ \A s \in sessions : s.token = t => s.user = y.user
    BY <1>2 DEF KeptOk
  <2> QED BY <2>1, MovesIs DEF SparesNotes
<1>4. ASSUME NEW t \in y.spends
      PROVE  Known(t)' /\ \A z \in resets' : z.token = t => z.user = y.user /\ ~z.used
  <2>1. Known(t) /\ \A z \in resets : z.token = t => z.user = y.user /\ ~z.used
    BY <1>2 DEF KeptOk
  <2>2. t \notin req[r].spends
    BY <1>2 DEF AccountsInv, Exclusive, LocalOk
  <2> QED BY <2>1, <2>2, MovesIs DEF SparesNotes
<1>5. /\ y.op = "password" /\ y.at \in {"update", "sweep", "commit"} => hash'[y.user] # NoHash
      /\ y.op = "forgot" /\ y.at \in {"clear", "commit"} => hash'[y.user] # NoHash
  <2>1. y.at \in {"update", "sweep", "commit", "clear"} => y.user \in Accts
    BY <1>1, BusyPhase DEF AccountsInv, Phase
  <2> QED BY <1>2, <2>1 DEF KeptOk, SparesNotes
<1>6. KeptOk(y)'
  BY <1>2, <1>3, <1>4, <1>5 DEF KeptOk
<1> QED BY <1>2, <1>6 DEF KeptOk, Known, Opened

LEMMA KeptQuiet ==
  ASSUME AccountsInv, StoreInv, NEW r \in Requests, NEW x, Moves(r, x), KeptOk(x),
         UNCHANGED <<hash, sessions, resets>>
  PROVE  StoreInv'
<1>1. SparesNotes(r)
  BY DEF SparesNotes
<1>2. KeptOk(x)'
  BY MovesIs DEF KeptOk
<1>3. KeptOk(req[r])'
  BY <1>2, MovesIs DEF KeptOk, Known, Opened
<1>4. TokensApart'
  BY MovesIs DEF StoreInv, TokensApart
<1> QED BY <1>1, <1>3, <1>4, OthersKept DEF StoreInv

(* Nothing is noted yet. *)
LEMMA KeptFresh ==
  ASSUME AccountsInv, StoreInv, NEW r \in Requests, NEW x, Moves(r, x),
         x.drops = {}, x.spends = {}, x.at # "commit",
         x.op = "password" => x.token \in Tokens,
         x.op = "password" /\ x.at \in {"update", "sweep"} => hash[x.user] # NoHash,
         x.op = "forgot" /\ x.at = "clear" => hash[x.user] # NoHash,
         UNCHANGED <<hash, sessions, resets>>
  PROVE  StoreInv'
<1>1. KeptOk(x)
  BY DEF KeptOk
<1> QED BY <1>1, KeptQuiet

(* A step that the others see. *)
LEMMA KeptLoud ==
  ASSUME AccountsInv, StoreInv, NEW r \in Requests, NEW x, Moves(r, x), SparesNotes(r),
         x.drops = {}, x.spends = {}, x.op \notin {"password", "revoke"},
         x.at \in {"open", "record", "mail", "done"}, TokensApart'
  PROVE  StoreInv'
<1>1. KeptOk(x)'
  BY DEF KeptOk
<1>2. KeptOk(req[r])'
  BY <1>1, MovesIs DEF KeptOk, Known, Opened
<1> QED BY <1>2, OthersKept DEF StoreInv

LEMMA DoneMoves ==
  ASSUME NEW r \in Requests, Ends(r)
  PROVE  /\ Moves(r, Done) /\ Done.drops = {} /\ Done.spends = {} /\ Done.op = "none"
         /\ Done.at = "done"
BY DEF Ends, Goes, Done, Idle, Moves

LEMMA EndsKept ==
  ASSUME AccountsInv, StoreInv, NEW r \in Requests, Ends(r), UNCHANGED <<hash, sessions, resets>>
  PROVE  StoreInv'
BY DoneMoves, KeptFresh

LEMMA BeginKept ==
  ASSUME AccountsInv, StoreInv, NEW r \in Requests, Begin(r)
  PROVE  StoreInv' /\ UNCHANGED <<hash, sessions, resets>>
<1>1. ASSUME NEW op \in Ops, NEW u, NEW t, NEW about, Begins(r, op, u, t, about),
             op = "password" => t \in Tokens
      PROVE  StoreInv' /\ UNCHANGED <<hash, sessions, resets>>
  <2>1. PICK at \in {"create", "find", "forget", "auth", "lockUser", "redeem"} : at = Steps[op].begin
    BY BeginIs DEF Ops
  <2>2. PICK x : x = [Idle EXCEPT !.op = op, !.at = at, !.user = u, !.token = t, !.about = about]
    OBVIOUS
  <2>3. x.op = op /\ x.at = at /\ x.token = t /\ x.spends = {} /\ x.drops = {}
    BY <2>2 DEF Idle
  <2>4. Moves(r, x) /\ UNCHANGED <<hash, sessions, resets>>
    BY <1>1, <2>1, <2>2 DEF Begins, Goes, Moves
  <2> QED BY <1>1, <2>1, <2>3, <2>4, KeptFresh
<1>2. ASSUME NEW u \in Accts, BeginNamed(r, u) PROVE StoreInv' /\ UNCHANGED <<hash, sessions, resets>>
  BY <1>1, <1>2 DEF BeginNamed, Ops
<1>3. CASE BeginSignedIn(r)
  <2>1. \A s \in sessions : s.token \in Tokens
    BY DEF AccountsInv, TypeInv, TypeOK
  <2> QED BY <1>1, <1>3, <2>1 DEF BeginSignedIn, Ops
<1>4. CASE BeginWithLink(r)
  BY <1>1, <1>4 DEF BeginWithLink, Ops
<1> QED BY <1>2, <1>3, <1>4 DEF Begin

(* A read, an update of nothing the notes are about, or a row lock. *)
LEMMA ReadsKept ==
  ASSUME AccountsInv, StoreInv, NEW r \in Requests,
         Find(r) \/ EmailExists(r) \/ FindAgain(r) \/ Authenticate(r) \/ UpdateHash(r)
           \/ LockUser(r) \/ Redeem(r)
  PROVE  StoreInv' /\ UNCHANGED <<hash, sessions, resets>>
<1>1. UNCHANGED <<hash, sessions, resets>>
  BY DEF Find, EmailExists, FindAgain, Authenticate, UpdateHash, LockUser, Redeem, Refused
<1>2. CASE Refused(r)
  BY <1>1, <1>2, EndsKept DEF Refused
<1>3. CASE ~Refused(r)
  <2>1. /\ req[r].at \in {"find", "create", "again", "auth", "update", "lockUser", "redeem"}
        /\ req[r].at = "update" <=> UpdateHash(r)
    BY <1>3 DEF Find, EmailExists, FindAgain, Authenticate, UpdateHash, LockUser, Redeem, Runs
  <2>2. Phase(req[r]) /\ req[r] \in Local /\ KeptOk(req[r])
    BY <2>1, BusyPhase DEF AccountsInv, StoreInv
  <2>3. req[r].drops = {} /\ req[r].spends = {}
    BY <2>1, <2>2 DEF KeptOk
  <2>4. req[r].op = "password" => req[r].token \in Tokens
    BY <2>2 DEF KeptOk
  <2>5. CASE Find(r) \/ EmailExists(r) \/ FindAgain(r)
    <3>1. PICK x : /\ req' = [req EXCEPT ![r] = x]
                   /\ \/ x = [req[r] EXCEPT !.at = After(r), !.read = hash[req[r].user]]
                      \/ x = [req[r] EXCEPT !.at = "create"]
                      \/ x = [req[r] EXCEPT !.at = "again"]
      BY <1>3, <2>5 DEF Find, EmailExists, FindAgain, Goes
    <3>2. req[r].at \in {"find", "create", "again"} /\ req[r].op \in {"login", "oauth", "register"}
      BY <2>2, <2>5 DEF Find, EmailExists, FindAgain, Runs, Phase
    <3>3. After(r) = "open"
      BY <2>2, <3>2, AfterIs
    <3>4. /\ x.at \in {"open", "create", "again"} /\ x.op = req[r].op /\ x.token = req[r].token
          /\ x.drops = {} /\ x.spends = {}
      BY <2>2, <2>3, <3>1, <3>3 DEF Local
    <3>5. Moves(r, x)
      BY <3>1, <3>2, <3>4 DEF Moves
    <3> QED BY <1>1, <3>2, <3>4, <3>5, KeptFresh
  <2>6. CASE Authenticate(r)
    <3>1. PICK s \in sessions : s.token = req[r].token
             /\ req' = [req EXCEPT ![r] = [req[r] EXCEPT !.at = After(r), !.user = s.user]]
      BY <1>3, <2>6 DEF Authenticate, Goes
    <3>2. PICK x : x = [req[r] EXCEPT !.at = After(r), !.user = s.user]
      OBVIOUS
    <3>3. req[r].at = "auth" /\ req[r].op \in {"logoutAll", "revoke", "password"}
      BY <2>2, <2>6 DEF Authenticate, Runs, Phase
    <3>4. After(r) \in {"forgetAll", "pick", "update"} /\ (req[r].op = "password" => After(r) = "update")
      BY <2>2, <3>3, AfterIs
    <3>5. /\ x.at = After(r) /\ x.op = req[r].op /\ x.token = req[r].token /\ x.user = s.user
          /\ x.drops = {} /\ x.spends = {}
      BY <2>2, <2>3, <3>2 DEF Local
    <3>6. hash[s.user] # NoHash
      BY DEF AccountsInv, TypeInv
    <3>7. Moves(r, x)
      BY <3>1, <3>2, <3>3 DEF Moves
    <3> QED BY <1>1, <2>4, <3>4, <3>5, <3>6, <3>7, KeptFresh
  <2>7. CASE UpdateHash(r)
    <3>1. PICK x : x = [req[r] EXCEPT !.at = After(r)] /\ req' = [req EXCEPT ![r] = x]
      BY <2>7 DEF UpdateHash, Goes
    <3>2. req[r].at = "update" /\ req[r].op \in {"password", "confirm"}
      BY <2>1, <2>2, <2>7 DEF Phase
    <3>3. After(r) \in {"sweep", "mark"} /\ (req[r].op = "password" => After(r) = "sweep")
      BY <2>2, <3>2, AfterIs
    <3>4. /\ x.at = After(r) /\ x.op = req[r].op /\ x.token = req[r].token /\ x.user = req[r].user
          /\ x.drops = {} /\ x.spends = {}
      BY <2>2, <2>3, <3>1 DEF Local
    <3>5. req[r].op = "password" => hash[req[r].user] # NoHash
      BY <2>2, <3>2 DEF KeptOk
    <3>6. Moves(r, x)
      BY <3>1, <3>2 DEF Moves
    <3> QED BY <1>1, <2>4, <3>3, <3>4, <3>5, <3>6, KeptFresh
  <2>8. CASE LockUser(r)
    <3>1. PICK x : x = [req[r] EXCEPT !.at = After(r)] /\ req' = [req EXCEPT ![r] = x]
      BY <1>3, <2>8 DEF LockUser, Goes
    <3>2. req[r].at = "lockUser" /\ req[r].op = "forgot" /\ hash[req[r].user] # NoHash
      BY <1>3, <2>2, <2>8 DEF LockUser, Runs, Phase
    <3>3. After(r) = "clear"
      BY <2>2, <3>2, AfterIs
    <3>4. /\ x.at = "clear" /\ x.op = req[r].op /\ x.token = req[r].token /\ x.user = req[r].user
          /\ x.drops = {} /\ x.spends = {}
      BY <2>2, <2>3, <3>1, <3>3 DEF Local
    <3>5. Moves(r, x)
      BY <3>1, <3>2 DEF Moves
    <3> QED BY <1>1, <3>2, <3>4, <3>5, KeptFresh
  <2>9. CASE Redeem(r)
    <3>1. PICK y \in resets :
            req' = [req EXCEPT ![r] = [req[r] EXCEPT !.at = After(r), !.user = y.user]]
      BY <1>3, <2>9 DEF Redeem, Goes
    <3>2. PICK x : x = [req[r] EXCEPT !.at = After(r), !.user = y.user]
      OBVIOUS
    <3>3. req[r].at = "redeem" /\ req[r].op = "confirm"
      BY <2>2, <2>9 DEF Redeem, Runs, Phase
    <3>4. After(r) = "update"
      BY <2>2, <3>3, AfterIs
    <3>5. /\ x.at = "update" /\ x.op = req[r].op /\ x.token = req[r].token
          /\ x.drops = {} /\ x.spends = {}
      BY <2>2, <2>3, <3>2, <3>4 DEF Local
    <3>6. Moves(r, x)
      BY <3>1, <3>2, <3>3 DEF Moves
    <3> QED BY <1>1, <3>3, <3>5, <3>6, KeptFresh
  <2> QED BY <1>1, <2>5, <2>6, <2>7, <2>8, <2>9
<1> QED BY <1>1, <1>2, <1>3

LEMMA PickKept ==
  ASSUME AccountsInv, StoreInv, NEW r \in Requests, Pick(r)
  PROVE  StoreInv' /\ UNCHANGED <<hash, sessions, resets>>
<1>1. UNCHANGED <<hash, sessions, resets>>
  BY DEF Pick, Refused
<1>2. CASE Refused(r)
  BY <1>1, <1>2, EndsKept DEF Refused
<1>3. CASE ~Refused(r)
  <2>1. req[r].at = "pick" /\ req[r].about \in TokensOf(req[r].user)
    BY <1>3 DEF Pick, Runs
  <2>2. Phase(req[r]) /\ req[r] \in Local /\ KeptOk(req[r])
    BY <2>1, BusyPhase DEF AccountsInv, StoreInv
  <2>3. After(r) = "commit" /\ req[r].op = "revoke" /\ req[r].about \in Tokens
    BY <2>1, <2>2, AfterIs, TokensTyped DEF AccountsInv, Phase
  <2>4. PICK x : x = [req[r] EXCEPT !.at = "commit", !.drops = {req[r].about}]
    OBVIOUS
  <2>5. req' = [req EXCEPT ![r] = x]
    BY <1>3, <2>3, <2>4 DEF Pick, Goes
  <2>6. /\ x.op = "revoke" /\ x.at = "commit" /\ x.user = req[r].user /\ x.about = req[r].about
        /\ x.drops = {req[r].about} /\ x.spends = {}
    BY <2>1, <2>2, <2>3, <2>4 DEF Local, KeptOk
  <2>7. Opened(req[r].about) /\ \A s \in sessions : s.token = req[r].about => s.user = req[r].user
    BY <2>1 DEF StoreInv, TokensApart, TokensOf
  <2>8. KeptOk(x)
    BY <2>3, <2>6, <2>7 DEF KeptOk
  <2> QED BY <1>1, <2>1, <2>5, <2>8, KeptQuiet DEF Moves
<1> QED BY <1>1, <1>2, <1>3

LEMMA SweepKept ==
  ASSUME AccountsInv, StoreInv, NEW r \in Requests, Sweep(r)
  PROVE  StoreInv' /\ UNCHANGED <<hash, sessions, resets>>
<1> DEFINE kept == IF req[r].op = "password" THEN {req[r].token} ELSE {}
<1>1. UNCHANGED <<hash, sessions, resets>>
  BY DEF Sweep
<1>2. req[r].at = "sweep"
  BY DEF Sweep, Runs
<1>3. Phase(req[r]) /\ req[r] \in Local /\ KeptOk(req[r])
  BY <1>2, BusyPhase DEF AccountsInv, StoreInv
<1>4. After(r) = "commit" /\ req[r].op \in {"password", "confirm"}
  BY <1>2, <1>3, AfterIs DEF Phase
<1>5. PICK swept : swept = TokensOf(req[r].user) \ kept
  OBVIOUS
<1>6. PICK x : x = [req[r] EXCEPT !.at = "commit", !.drops = swept]
  OBVIOUS
<1>7. req' = [req EXCEPT ![r] = x]
  BY <1>4, <1>5, <1>6 DEF Sweep, Goes
<1>8. /\ x.op = req[r].op /\ x.at = "commit" /\ x.user = req[r].user /\ x.spends = req[r].spends
      /\ x.token = req[r].token /\ x.drops = swept
  BY <1>3, <1>6 DEF Local
<1>9. \A t \in swept : Opened(t) /\ \A s \in sessions : s.token = t => s.user = req[r].user
  BY <1>5 DEF StoreInv, TokensApart, TokensOf
<1>10. req[r].op = "password" => req[r].token \notin swept
  BY <1>5
<1>11. KeptOk(x)
  BY <1>2, <1>3, <1>4, <1>8, <1>9, <1>10 DEF KeptOk
<1> QED BY <1>1, <1>2, <1>7, <1>11, KeptQuiet DEF Moves

LEMMA SpendKept ==
  ASSUME AccountsInv, StoreInv, NEW r \in Requests, Spend(r)
  PROVE  StoreInv' /\ UNCHANGED <<hash, sessions, resets>>
<1>1. UNCHANGED <<hash, sessions, resets>>
  BY DEF Spend
<1>2. req[r].at \in {"clear", "mark"}
  BY DEF Spend, Runs
<1>3. Phase(req[r]) /\ req[r] \in Local /\ KeptOk(req[r])
  BY <1>2, BusyPhase DEF AccountsInv, StoreInv
<1>4. /\ req[r].op \in {"forgot", "confirm"}
      /\ req[r].at = "clear" => After(r) = "commit" /\ req[r].op = "forgot"
      /\ req[r].at = "mark" => After(r) = "sweep"
  BY <1>2, <1>3, AfterIs DEF Phase
<1>5. PICK spent : spent = UnusedOf(req[r].user)
  OBVIOUS
<1>6. PICK x : x = [req[r] EXCEPT !.at = After(r), !.spends = spent]
  OBVIOUS
<1>7. req' = [req EXCEPT ![r] = x]
  BY <1>5, <1>6 DEF Spend, Goes
<1>8. /\ x.op = req[r].op /\ x.at = After(r) /\ x.user = req[r].user /\ x.spends = spent
      /\ x.drops = {}
  BY <1>2, <1>3, <1>6 DEF Local, KeptOk
<1>9. \A t \in spent : Known(t) /\ \A y \in resets : y.token = t => y.user = req[r].user /\ ~y.used
  BY <1>5 DEF StoreInv, TokensApart, UnusedOf, AccountsInv, LinksInv
<1>10. KeptOk(x)
  BY <1>2, <1>3, <1>4, <1>8, <1>9 DEF KeptOk
<1> QED BY <1>1, <1>2, <1>7, <1>10, KeptQuiet DEF Moves

(* The sessions as the abstract repository has them. *)
Signed == {[token |-> s.token, user |-> s.user] : s \in sessions}

StoreStep == [Store!StoreNext]_(Store!storeVars)

LEMMA StoreStutters ==
  ASSUME UNCHANGED <<hash, sessions, resets>>
  PROVE  StoreStep
BY DEF StoreStep, Store!storeVars

LEMMA StoreSteps ==
  /\ \A t \in Tokens : Store!DeleteSession(t) => StoreStep
  /\ \A u \in Accts : Store!DeleteUserSessions(u) => StoreStep
  /\ \A u \in Accts, h \in Hashes : Store!CreateUser(u, h) => StoreStep
  /\ \A u \in Accts, t \in Tokens :
       Store!CreateSession(u, t) \/ Store!DeleteUserSession(u, t)
         \/ Store!CreatePasswordResetToken(u, t) => StoreStep
  /\ \A u \in Accts, t \in Tokens, h \in Hashes :
       Store!UpdatePasswordAndDeleteOtherSessions(u, h, t) => StoreStep
  /\ \A t \in Tokens, h \in Hashes : Store!ConsumePasswordResetToken(t, h) => StoreStep
BY DEF StoreStep, Store!StoreNext

LEMMA CreateUserKept ==
  ASSUME AccountsInv, StoreInv, NEW r \in Requests, CreateUser(r)
  PROVE  StoreInv' /\ StoreStep
<1>1. PICK h : h = IF req[r].op = "oauth" THEN Disabled ELSE r
  OBVIOUS
<1>2. req[r].at = "create" /\ hash[req[r].user] = NoHash
  BY DEF CreateUser, Runs
<1>3. Phase(req[r]) /\ req[r] \in Local /\ KeptOk(req[r])
  BY <1>2, BusyPhase DEF AccountsInv, StoreInv
<1>4. /\ req[r].op \in {"register", "oauth"} /\ req[r].user \in Accts /\ After(r) = "open"
      /\ h \in Hashes /\ h # NoHash
  BY <1>1, <1>2, <1>3, AfterIs, NamesAssumption DEF Phase, Hashes, Tokens
<1>5. PICK x : x = [req[r] EXCEPT !.at = "open", !.read = h]
  OBVIOUS
<1>6. /\ req' = [req EXCEPT ![r] = x] /\ hash' = [hash EXCEPT ![req[r].user] = h]
      /\ UNCHANGED <<sessions, resets>>
  BY <1>1, <1>4, <1>5 DEF CreateUser, Goes
<1>7. /\ x.op \in {"register", "oauth"} /\ x.at = "open" /\ x.drops = {} /\ x.spends = {}
  BY <1>2, <1>3, <1>4, <1>5 DEF Local, KeptOk
<1>8. Moves(r, x)
  BY <1>2, <1>6 DEF Moves
<1>9. SparesNotes(r)
  BY <1>4, <1>6, SessionsTyped DEF SparesNotes
<1>10. TokensApart'
  BY <1>6, <1>8, MovesIs DEF StoreInv, TokensApart
<1>11. Store!CreateUser(req[r].user, h)
  BY <1>2, <1>6 DEF Store!CreateUser
<1>12. StoreStep
  BY <1>4, <1>11, StoreSteps
<1> QED BY <1>7, <1>8, <1>9, <1>10, <1>12, KeptLoud

LEMMA CreateSessionKept ==
  ASSUME AccountsInv, StoreInv, NEW r \in Requests, CreateSession(r)
  PROVE  StoreInv' /\ StoreStep
<1>1. req[r].at = "open"
  BY DEF CreateSession, Runs
<1>2. Phase(req[r]) /\ req[r] \in Local /\ KeptOk(req[r])
  BY <1>1, BusyPhase DEF AccountsInv, StoreInv
<1>3. /\ req[r].op \in {"register", "login", "oauth"} /\ req[r].user \in Accts
      /\ After(r) = "record" /\ r \in Tokens
  BY <1>1, <1>2, AfterIs DEF Phase, Tokens
<1>4. PICK x : x = [req[r] EXCEPT !.at = "record", !.read = NoHash]
  OBVIOUS
<1>5. PICK new : new = [token |-> r, user |-> req[r].user, under |-> req[r].read,
                        raced |-> req[r].read # hash[req[r].user]]
  OBVIOUS
<1>6. /\ req' = [req EXCEPT ![r] = x] /\ sessions' = sessions \cup {new}
      /\ UNCHANGED <<hash, resets>>
  BY <1>3, <1>4, <1>5 DEF CreateSession, Goes
<1>7. x.op = req[r].op /\ x.at = "record" /\ x.drops = {} /\ x.spends = {}
  BY <1>1, <1>2, <1>4 DEF Local, KeptOk
<1>8. Moves(r, x)
  BY <1>1, <1>6, <1>7 DEF Moves
<1>9. new.token = r /\ new.user = req[r].user
  BY <1>5
<1>10. ~Opened(r) /\ Opened(r)'
  BY <1>1, <1>7, <1>8, MovesIs DEF Opened
<1>11. SparesNotes(r)
  BY <1>6, <1>9, <1>10 DEF SparesNotes
<1>12. TokensApart'
  <2>1. \A s \in sessions : s.token # r
    BY <1>10 DEF StoreInv, TokensApart
  <2> QED BY <1>6, <1>8, <1>9, <1>10, <2>1, MovesIs DEF StoreInv, TokensApart
<1>13. Signed' = Signed \cup {[token |-> r, user |-> req[r].user]}
  BY <1>6, <1>9 DEF Signed
<1>14. Store!CreateSession(req[r].user, r)
  BY <1>6, <1>13 DEF Store!CreateSession, Signed
<1>15. StoreStep
  BY <1>3, <1>14, StoreSteps
<1> QED BY <1>3, <1>7, <1>8, <1>11, <1>12, <1>15, KeptLoud

(* A step that ends the handler and only takes sessions away. *)
LEMMA TakesAwayKept ==
  ASSUME AccountsInv, StoreInv, NEW r \in Requests, Ends(r), sessions' \subseteq sessions,
         UNCHANGED <<hash, resets>>
  PROVE  StoreInv'
<1>1. SparesNotes(r)
  BY DEF SparesNotes
<1>2. TokensApart'
  BY DoneMoves, MovesIs DEF StoreInv, TokensApart
<1> QED BY <1>1, <1>2, DoneMoves, KeptLoud

LEMMA DeletesKept ==
  ASSUME AccountsInv, StoreInv, NEW r \in Requests,
         DeleteSession(r) \/ DeleteUserSessions(r) \/ CommitRevoke(r)
  PROVE  StoreInv' /\ StoreStep
<1>1. Ends(r) /\ sessions' \subseteq sessions /\ UNCHANGED <<hash, resets>>
  BY DEF DeleteSession, DeleteUserSessions, CommitRevoke, Remaining
<1>2. StoreInv'
  BY <1>1, TakesAwayKept
<1>3. PICK u : u = req[r].user
  OBVIOUS
<1>4. ASSUME DeleteSession(r) PROVE StoreStep
  <2>1. PICK t : t = req[r].token
    OBVIOUS
  <2>2. Signed' = {s \in Signed : s.token # t}
    BY <1>4, <2>1 DEF DeleteSession, Signed
  <2>3. CASE t \in Tokens
    <3>1. Store!DeleteSession(t)
      BY <1>1, <2>2 DEF Store!DeleteSession, Signed
    <3> QED BY <2>3, <3>1, StoreSteps
  <2>4. CASE t \notin Tokens
    <3>1. \A s \in sessions : s.token \in Tokens
      BY DEF AccountsInv, TypeInv, TypeOK
    <3>2. sessions' = sessions
      BY <1>4, <2>1, <2>4, <3>1 DEF DeleteSession
    <3> QED BY <1>1, <3>2, StoreStutters
  <2> QED BY <2>3, <2>4
<1>5. ASSUME DeleteUserSessions(r) PROVE StoreStep
  <2>1. u \in Accts
    BY <1>3, <1>5, BusyPhase DEF AccountsInv, DeleteUserSessions, Runs, Phase
  <2>2. Signed' = {s \in Signed : s.user # u}
    BY <1>3, <1>5 DEF DeleteUserSessions, Signed
  <2>3. Store!DeleteUserSessions(u)
    BY <1>1, <2>2 DEF Store!DeleteUserSessions, Signed
  <2> QED BY <2>1, <2>3, StoreSteps
<1>6. ASSUME CommitRevoke(r) PROVE StoreStep
  <2>1. PICK t : t = req[r].about
    OBVIOUS
  <2>2. req[r].op = "revoke" /\ req[r].at = "commit"
    BY <1>6 DEF CommitRevoke, Runs
  <2>3. Phase(req[r]) /\ KeptOk(req[r])
    BY <2>2, BusyPhase DEF AccountsInv, StoreInv
  <2>4. u \in Accts /\ t \in Tokens /\ req[r].drops = {t}
    BY <1>3, <2>1, <2>2, <2>3 DEF Phase, KeptOk
  <2>5. \A s \in sessions : s.token \in req[r].drops <=> s.user = u /\ s.token = t
    BY <1>3, <2>3, <2>4 DEF KeptOk
  <2>6. Signed' = {s \in Signed : s.user # u \/ s.token # t}
    BY <1>6, <2>5 DEF CommitRevoke, Remaining, Signed
  <2>7. Store!DeleteUserSession(u, t)
    BY <1>1, <2>6 DEF Store!DeleteUserSession, Signed
  <2> QED BY <2>4, <2>7, StoreSteps
<1> QED BY <1>2, <1>4, <1>5, <1>6

LEMMA CommitPasswordKept ==
  ASSUME AccountsInv, StoreInv, NEW r \in Requests, CommitPassword(r)
  PROVE  StoreInv' /\ StoreStep
<1>1. PICK u : u = req[r].user
  OBVIOUS
<1>2. PICK t : t = req[r].token
  OBVIOUS
<1>3. req[r].at = "commit" /\ req[r].op = "password"
  BY DEF CommitPassword, Runs
<1>4. Phase(req[r]) /\ KeptOk(req[r]) /\ LocalOk(req[r], locks[r])
  BY <1>3, BusyPhase DEF AccountsInv, StoreInv
<1>5. /\ u \in Accts /\ t \in Tokens /\ t \notin req[r].drops /\ r \in Hashes /\ r # NoHash
      /\ hash[u] # NoHash
  BY <1>1, <1>2, <1>3, <1>4, NamesAssumption DEF Phase, KeptOk, Hashes, Tokens
<1>6. /\ hash' = [hash EXCEPT ![u] = r] /\ Ends(r) /\ UNCHANGED resets
      /\ sessions' = {IF s.token = t /\ s.user = u THEN [s EXCEPT !.under = r] ELSE s : s \in Remaining(r)}
  BY <1>1, <1>2 DEF CommitPassword
<1>7. Remaining(r) = {s \in sessions : s.user # u \/ s.token = t}
  BY <1>1, <1>2, <1>3, <1>4, <1>5 DEF Remaining, LocalOk, KeptOk
<1>8. ASSUME NEW old \in sessions
      PROVE  /\ [old EXCEPT !.under = r].token = old.token
             /\ [old EXCEPT !.under = r].user = old.user
  BY SessionsTyped
<1>9. \A s \in sessions' : \E old \in sessions : old.token = s.token /\ old.user = s.user
  BY <1>6, <1>7, <1>8
<1>10. SparesNotes(r)
  BY <1>5, <1>6, <1>9, SessionsTyped DEF SparesNotes
<1>11. TokensApart'
  BY <1>6, <1>9, DoneMoves, MovesIs DEF StoreInv, TokensApart
<1>12. StoreInv'
  BY <1>6, <1>10, <1>11, DoneMoves, KeptLoud
<1>13. Signed' = {s \in Signed : s.user # u \/ s.token = t}
  <2> DEFINE after(s) == IF s.token = t /\ s.user = u THEN [s EXCEPT !.under = r] ELSE s
             known(s) == [token |-> s.token, user |-> s.user]
  <2>1. \A s \in sessions : known(after(s)) = known(s)
    BY <1>8
  <2>2. sessions' = {after(s) : s \in Remaining(r)}
    BY <1>6
  <2>3. Signed = {known(s) : s \in sessions} /\ Signed' = {known(s) : s \in sessions'}
    BY DEF Signed
  <2>4. \A s \in Remaining(r) : s \in sessions
    BY <1>7
  <2>5. {known(s) : s \in Remaining(r)} = {s \in Signed : s.user # u \/ s.token = t}
    BY <1>7, <2>3
  <2> HIDE DEF after, known
  <2>6. {known(s) : s \in sessions'} = {known(after(s)) : s \in Remaining(r)}
    BY <2>2
  <2>7. {known(after(s)) : s \in Remaining(r)} = {known(s) : s \in Remaining(r)}
    BY <2>1, <2>4
  <2> QED BY <2>3, <2>5, <2>6, <2>7
<1>14. Store!UpdatePasswordAndDeleteOtherSessions(u, r, t)
  BY <1>5, <1>6, <1>13 DEF Store!UpdatePasswordAndDeleteOtherSessions, Signed
<1>15. StoreStep
  BY <1>5, <1>14, StoreSteps
<1> QED BY <1>12, <1>15

LEMMA CommitConfirmKept ==
  ASSUME AccountsInv, StoreInv, NEW r \in Requests, CommitConfirm(r)
  PROVE  StoreInv' /\ StoreStep
<1>1. PICK u : u = req[r].user
  OBVIOUS
<1>2. PICK t : t = req[r].token
  OBVIOUS
<1>3. PICK spent : spent = req[r].spends
  OBVIOUS
<1>4. req[r].at = "commit" /\ req[r].op = "confirm"
  BY DEF CommitConfirm, Runs
<1>5. Phase(req[r]) /\ KeptOk(req[r]) /\ LocalOk(req[r], locks[r])
  BY <1>4, BusyPhase DEF AccountsInv, StoreInv
<1>6. u \in Accts /\ r \in Hashes /\ r # NoHash
  BY <1>1, <1>5, NamesAssumption DEF Phase, Hashes, Tokens
<1>7. PICK x \in resets : x.token = t /\ x.user = u /\ ~x.used
  BY <1>1, <1>2, <1>4, <1>5 DEF LocalOk
<1>8. t \in Tokens /\ t \in spent
  BY <1>2, <1>3, <1>4, <1>5, <1>7, SessionsTyped DEF LocalOk
<1>9. /\ hash' = [hash EXCEPT ![u] = r] /\ Ends(r) /\ sessions' = Remaining(r)
      /\ resets' = {IF y.token \in spent THEN [y EXCEPT !.used = TRUE] ELSE y : y \in resets}
  BY <1>1, <1>3 DEF CommitConfirm
<1>10. Remaining(r) = {s \in sessions : s.user # u}
  BY <1>1, <1>4, <1>5 DEF Remaining, LocalOk, KeptOk
<1>11. Store!Unused(u) = {y \in resets : y.token \in spent}
  <2>1. \A y \in resets : y.token \in spent => y.user = u /\ ~y.used
    BY <1>1, <1>3, <1>5 DEF KeptOk
  <2>2. \A y \in resets : y.user = u /\ ~y.used => y = x
    BY <1>7 DEF AccountsInv, ResetsSpentOnce
  <2> QED BY <1>7, <1>8, <2>1, <2>2 DEF Store!Unused
<1>12. ASSUME NEW y \in resets
       PROVE  [y EXCEPT !.used = TRUE].token = y.token /\ [y EXCEPT !.used = TRUE].user = y.user
  BY SessionsTyped
<1>13. resets' = (resets \ Store!Unused(u)) \cup {[y EXCEPT !.used = TRUE] : y \in Store!Unused(u)}
  BY <1>9, <1>11
<1>14. \A y \in resets' : y \in resets \/ y.token \in spent
  BY <1>9, <1>12
<1>15. SparesNotes(r)
  BY <1>3, <1>6, <1>9, <1>10, <1>14, SessionsTyped DEF SparesNotes
<1>16. \A y, z \in resets' : y.token = z.token => y = z
  <2> DEFINE after(y) == IF y.token \in spent THEN [y EXCEPT !.used = TRUE] ELSE y
  <2>1. \A y \in resets : after(y).token = y.token
    BY <1>12
  <2>2. resets' = {after(y) : y \in resets}
    BY <1>9
  <2> HIDE DEF after
  <2> QED BY <2>1, <2>2 DEF StoreInv, TokensApart
<1>17. TokensApart'
  BY <1>9, <1>10, <1>16, DoneMoves, MovesIs DEF StoreInv, TokensApart
<1>18. StoreInv'
  BY <1>9, <1>15, <1>17, DoneMoves, KeptLoud
<1>19. Signed' = {s \in Signed : s.user # u}
  BY <1>9, <1>10 DEF Signed
<1>20. Store!ConsumePasswordResetToken(t, r)
  BY <1>7, <1>9, <1>13, <1>19 DEF Store!ConsumePasswordResetToken, Signed
<1>21. StoreStep
  BY <1>6, <1>8, <1>20, StoreSteps
<1> QED BY <1>18, <1>21

LEMMA CommitForgotKept ==
  ASSUME AccountsInv, StoreInv, NEW r \in Requests, CommitForgot(r)
  PROVE  StoreInv' /\ StoreStep
<1>1. PICK u : u = req[r].user
  OBVIOUS
<1>2. req[r].at = "commit" /\ req[r].op = "forgot"
  BY DEF CommitForgot, Runs
<1>3. Phase(req[r]) /\ req[r] \in Local /\ KeptOk(req[r]) /\ LocalOk(req[r], locks[r])
  BY <1>2, BusyPhase DEF AccountsInv, StoreInv
<1>4. After(r) = "mail" /\ u \in Accts /\ r \in Tokens /\ hash[u] # NoHash
  BY <1>1, <1>2, <1>3, AfterIs DEF Phase, Tokens, KeptOk
<1>5. PICK x : x = [req[r] EXCEPT !.at = "mail", !.spends = {}]
  OBVIOUS
<1>6. PICK new : new = [token |-> r, user |-> u, used |-> FALSE]
  OBVIOUS
<1>7. /\ req' = [req EXCEPT ![r] = x]
      /\ resets' = {y \in resets : y.token \notin req[r].spends} \cup {new}
      /\ UNCHANGED <<hash, sessions>>
  BY <1>1, <1>4, <1>5, <1>6 DEF CommitForgot, Goes
<1>8. x.op = "forgot" /\ x.at = "mail" /\ x.spends = {} /\ x.drops = {}
  BY <1>2, <1>3, <1>5 DEF Local, KeptOk
<1>9. Moves(r, x)
  BY <1>2, <1>7 DEF Moves
<1>10. new.token = r /\ ~Known(r) /\ \A y \in resets : y.token # r
  BY <1>2, <1>6 DEF Known, AccountsInv, LinksInv
<1>11. SparesNotes(r)
  BY <1>7, <1>10 DEF SparesNotes
<1>12. TokensApart'
  BY <1>7, <1>9, <1>10, MovesIs DEF StoreInv, TokensApart
<1>13. \A y \in resets : y.token \in req[r].spends <=> y.user = u /\ ~y.used
  BY <1>1, <1>2, <1>3 DEF KeptOk, LocalOk
<1>14. resets' = (resets \ Store!Unused(u)) \cup {new}
  BY <1>7, <1>13 DEF Store!Unused
<1>15. Store!CreatePasswordResetToken(u, r)
  BY <1>4, <1>6, <1>7, <1>10, <1>14 DEF Store!CreatePasswordResetToken, Signed
<1>16. StoreStep
  BY <1>4, <1>15, StoreSteps
<1> QED BY <1>8, <1>9, <1>11, <1>12, <1>16, KeptLoud

-----------------------------------------------------------------------------
(* The initial states map to initial states, every step to a step of       *)
(* AccountStore or to a stutter.                                           *)

LEMMA InitStore == Init => StoreInv /\ Store!StoreInit
<1> SUFFICES ASSUME Init PROVE StoreInv /\ Store!StoreInit
  OBVIOUS
<1>1. /\ \E known \in SUBSET Accts :
           sessions = {[token |-> u, user |-> u, under |-> hash[u], raced |-> FALSE] : u \in known}
      /\ \E asked \in SUBSET Accts : resets = {[token |-> u, user |-> u, used |-> FALSE] : u \in asked}
      /\ req = [r \in Requests |-> Idle]
  BY DEF Init, Accts
<1>2. /\ \A s \in sessions : s.token = s.user /\ s.token \in Accts
      /\ \A y \in resets : y.token \in Accts /\ y = [token |-> y.token, user |-> y.token, used |-> FALSE]
  BY <1>1
<1>3. TokensApart
  BY <1>2, NamesAssumption DEF TokensApart, Opened
<1>4. StoreInv
  <2>1. KeptOk(Idle)
    BY DEF KeptOk, Idle
  <2> QED BY <1>1, <1>3, <2>1 DEF StoreInv
<1>5. AccountsInv
  BY InitAccounts
<1>6. Store!StoreInit
  <2>1. Signed \subseteq Store!Session
    BY <1>5, SessionsTyped DEF Signed, Store!Session
  <2>2. hash \in [Accts -> Hashes \cup {NoHash}] /\ resets \subseteq Store!Reset
    BY <1>5, SessionsTyped DEF Store!Reset
  <2>3. \A u \in Accts : \A x, y \in Store!Unused(u) : x = y
    BY <1>5 DEF Store!Unused, AccountsInv, ResetsSpentOnce
  <2> QED BY <1>3, <2>1, <2>2, <2>3 DEF Store!StoreInit, Signed, TokensApart
<1> QED BY <1>4, <1>6

LEMMA NextKept ==
  ASSUME AccountsInv, StoreInv, Next
  PROVE  StoreInv' /\ StoreStep
<1>1. PICK r \in Requests : Begin(r) \/ Step(r) \/ Fail(r)
  BY DEF Next
<1>2. CASE Begin(r)
  BY <1>2, BeginKept, StoreStutters
<1>3. CASE Refused(r) \/ SendPasswordReset(r)
  BY <1>3, EndsKept, StoreStutters DEF Refused, SendPasswordReset
<1>4. CASE \/ Find(r) \/ EmailExists(r) \/ FindAgain(r) \/ Authenticate(r) \/ UpdateHash(r)
           \/ LockUser(r) \/ Redeem(r)
  BY <1>4, ReadsKept, StoreStutters
<1>5. CASE Pick(r) \/ Sweep(r) \/ Spend(r)
  BY <1>5, PickKept, SweepKept, SpendKept, StoreStutters
<1>6. CASE CreateUser(r) \/ CreateSession(r)
  BY <1>6, CreateUserKept, CreateSessionKept
<1>7. CASE DeleteSession(r) \/ DeleteUserSessions(r) \/ CommitRevoke(r)
  BY <1>7, DeletesKept
<1>8. CASE CommitPassword(r) \/ CommitConfirm(r) \/ CommitForgot(r)
  BY <1>8, CommitPasswordKept, CommitConfirmKept, CommitForgotKept
<1>9. RecordLogin(r) \/ Victim(r) \/ Fail(r) => Refused(r)
  BY DEF RecordLogin, Victim, Fail
<1> QED BY <1>1, <1>2, <1>3, <1>4, <1>5, <1>6, <1>7, <1>8, <1>9 DEF Step

LEMMA StepStore == AccountsInv /\ StoreInv /\ [Next]_vars => StoreInv' /\ StoreStep
<1> SUFFICES ASSUME AccountsInv, StoreInv, [Next]_vars PROVE StoreInv' /\ StoreStep
  OBVIOUS
<1>1. CASE UNCHANGED vars
  <2>1. UNCHANGED <<hash, sessions, resets, req>>
    BY <1>1 DEF vars
  <2>2. StoreInv'
    BY <2>1 DEF StoreInv, TokensApart, KeptOk, Known, Opened
  <2> QED BY <2>1, <2>2, StoreStutters
<1>2. CASE Next
  BY <1>2, NextKept
<1> QED BY <1>1, <1>2

(* mysqlAuthRepository keeps the promise of memoryAuthRepository: however  *)
(* requests interleave statement by statement, wait, fail or are rolled    *)
(* back, what the tables show changes only as the calls of the in-memory   *)
(* repository change it, each in one step.                                 *)
THEOREM StorePromiseKept == Spec => StoreKept
<1>1. AccountsInv /\ StoreInv /\ [Next]_vars => [Store!StoreNext]_(Store!storeVars)
  BY StepStore DEF StoreStep
<1>2. Spec => [](AccountsInv /\ StoreInv)
  BY InitAccounts, StepAccounts, InitStore, StepStore, PTL DEF Spec
<1> QED BY <1>1, <1>2, InitStore, PTL DEF Spec, StoreKept, Store!StoreSpec
=============================================================================
