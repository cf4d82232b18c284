---------------------------- MODULE AccountStore ----------------------------
(***************************************************************************)
(* What an authRepository promises about passwords, sessions and reset     *)
(* tokens: memoryAuthRepository (auth.go), which makes every call one step *)
(* under its lock.  Accounts shows that the MySQL repository keeps the     *)
(* promise with row locks.  Names, avatars and experience are left out;    *)
(* that a session or a token has expired shows in what a caller finds.     *)
(***************************************************************************)

CONSTANTS
    Users,      \* accounts, each by its address
    Tokens,     \* session and reset tokens, drawn at random
    Hashes,     \* password hashes, salted: no two alike
    NoHash      \* of an address nobody has registered

VARIABLES
    hash,       \* users.password_hash
    sessions,   \* auth_sessions
    resets      \* password_reset_tokens

storeVars == <<hash, sessions, resets>>

Session == [token : Tokens, user : Users]
Reset == [token : Tokens, user : Users, used : BOOLEAN]

Unused(u) == {x \in resets : x.user = u /\ ~x.used}

StoreInit ==
    /\ hash \in [Users -> Hashes \cup {NoHash}]
    /\ sessions \subseteq Session
    /\ resets \subseteq Reset
    /\ \A u \in Users : \A x, y \in Unused(u) : x = y
    /\ \A x, y \in resets : x.token = y.token => x = y

CreateUser(u, h) ==
    /\ hash[u] = NoHash
    /\ hash' = [hash EXCEPT ![u] = h]
    /\ UNCHANGED <<sessions, resets>>

CreateSession(u, t) ==
    /\ sessions' = sessions \cup {[token |-> t, user |-> u]}
    /\ UNCHANGED <<hash, resets>>

DeleteSession(t) ==
    /\ sessions' = {s \in sessions : s.token # t}
    /\ UNCHANGED <<hash, resets>>

DeleteUserSessions(u) ==
    /\ sessions' = {s \in sessions : s.user # u}
    /\ UNCHANGED <<hash, resets>>

DeleteUserSession(u, t) ==
    /\ sessions' = {s \in sessions : s.user # u \/ s.token # t}
    /\ UNCHANGED <<hash, resets>>

UpdatePasswordAndDeleteOtherSessions(u, h, t) ==
    /\ hash[u] # NoHash
    /\ hash' = [hash EXCEPT ![u] = h]
    /\ sessions' = {s \in sessions : s.user # u \/ s.token = t}
    /\ UNCHANGED resets

CreatePasswordResetToken(u, t) ==
    /\ hash[u] # NoHash
    /\ t \notin {x.token : x \in resets}
    /\ resets' = (resets \ Unused(u)) \cup {[token |-> t, user |-> u, used |-> FALSE]}
    /\ UNCHANGED <<hash, sessions>>

ConsumePasswordResetToken(t, h) ==
    \E x \in resets :
        /\ x.token = t
        /\ ~x.used
        /\ hash' = [hash EXCEPT ![x.user] = h]
        /\ resets' = (resets \ Unused(x.user))
                         \cup {[y EXCEPT !.used = TRUE] : y \in Unused(x.user)}
        /\ sessions' = {s \in sessions : s.user # x.user}

StoreNext ==
  \/ \E t \in Tokens : DeleteSession(t)
  \/ \E u \in Users :
       \/ DeleteUserSessions(u)
       \/ \E h \in Hashes : CreateUser(u, h)
       \/ \E t \in Tokens :
            \/ CreateSession(u, t)
            \/ DeleteUserSession(u, t)
            \/ CreatePasswordResetToken(u, t)
            \/ \E h \in Hashes : UpdatePasswordAndDeleteOtherSessions(u, h, t)
  \/ \E t \in Tokens, h \in Hashes : ConsumePasswordResetToken(t, h)

StoreSpec == StoreInit /\ [][StoreNext]_storeVars
=============================================================================
