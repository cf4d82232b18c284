----------------------------- MODULE Discussion -----------------------------
(***************************************************************************)
(* The comments of one document in the MySQL store (comments.go,           *)
(* comments_mysql.go), with what a comment, a reply or a like sets off:    *)
(* experience for who made it (experience.go) and a notification for who   *)
(* is replied to (notifyCommentReply), and with the admins who hide and    *)
(* restore comments and ban users (admin_comments.go, user_bans.go).       *)
(*                                                                         *)
(* A request is one run of a handler; the comment it creates is named      *)
(* after it.  Words are told apart by who wrote them.                      *)
(***************************************************************************)
EXTENDS Integers, FiniteSets

CONSTANTS
  Requests, Users,
  First,           \* a comment that is there from the start
  NoRoot, NoOne,
  MaxUpsets        \* bound of the model: acts of admins, failing calls, crashes

ASSUME NamesAssumption ==
  /\ First \notin Requests /\ NoRoot \notin Requests \cup {First} /\ NoOne \notin Users
ASSUME UpsetsAssumption == MaxUpsets \in Nat

Ids == Requests \cup {First}

VARIABLES
  comment,     \* document_comments, by ID; a row is never removed
  likes,       \* comment_likes
  ledger,      \* experience_events: user, action, source_key
  experience,  \* users.experience
  notified,    \* the replies their root's author was notified of
  banned,      \* user_bans
  request,     \* where each request is, what it does, for whom, on which
               \* comment; history: whether a ban overtook it past the gate
  due,         \* awards still in their goroutines, and the requests they are of
  upsets,      \* acts of admins, failing calls and crashes so far
  restored,    \* history: comments an admin has restored
  failed       \* history: an award, a notification or a request was lost

stored  == <<comment, likes, banned>>
effects == <<ledger, experience, notified>>
history == <<upsets, restored, failed>>
vars    == <<stored, effects, request, due, history>>

Gated == {"comment", "reply", "like"}     \* the handlers that call ensureNotBanned
Kinds == Gated \cup {"delete", "unlike"}  \* those of more than one statement

Comment == [root : Ids \cup {NoRoot}, author : Users, words : Users,
            gone : {"no", "author", "admin"}, resolved : BOOLEAN]
Request == [at : {"begun", "locked", "found", "notify"}, kind : Kinds, user : Users,
            on : Ids, overtaken : BOOLEAN]
Award   == [request : Requests, user : Users, action : Gated, source : Ids]

Row(root, u) == [root |-> root, author |-> u, words |-> u, gone |-> "no", resolved |-> FALSE]
Idle == [at |-> "new", kind |-> "comment", user |-> NoOne, on |-> First,
         overtaken |-> FALSE]
Over == [Idle EXCEPT !.at = "done"]

Init ==
  /\ \E u \in Users : comment = [c \in {First} |-> Row(NoRoot, u)]
  /\ likes = {} /\ banned = {}
  /\ ledger = {} /\ experience = [u \in Users |-> 0] /\ notified = {}
  /\ request = [r \in Requests |-> Idle]
  /\ due = {} /\ upsets = 0 /\ restored = {} /\ failed = FALSE

Rows     == DOMAIN comment
Live(c)  == c \in Rows /\ comment[c].gone = "no"
IsRoot(c) == comment[c].root = NoRoot
InFlight  == {r \in Requests : request[r] \notin {Idle, Over}}

(* nestDocumentComments: a reply shows below its root or not at all. *)
Visible(c) == Live(c) /\ (IsRoot(c) \/ Live(comment[c].root))

(* Faulty: only a deletion locks the root it selects. *)
LockedByDelete(c) ==
  \E r \in Requests : request[r].at = "locked" /\ request[r].on = c /\ request[r].kind = "delete"

(* SELECT ... FOR UPDATE, until the transaction commits. *)
Locked(c) == \E r \in Requests : request[r].at = "locked" /\ request[r].on = c

Upset == upsets < MaxUpsets /\ upsets' = upsets + 1

GoTo(r, step) == request' = [request EXCEPT ![r].at = step]
Finish(r) == request' = [request EXCEPT ![r] = Over]
Change(c, row) == comment' = [comment EXCEPT ![c] = row]

(* Requests ---------------------------------------------------------------*)

(* Faulty: nobody asks whether the user is banned. *)
AdmitAnyone(u) == TRUE

(* ensureNotBanned *)
Admit(u) == u \notin banned

Started(step, k, u, c) == [at |-> step, kind |-> k, user |-> u, on |-> c, overtaken |-> FALSE]
Start(r, step, k, u, c) == request' = [request EXCEPT ![r] = Started(step, k, u, c)]

(* A logged-in user's request is past the gate ...                         *)
Begin(r, k, u, c) ==
  /\ request[r] = Idle /\ k \in Gated /\ c \in Rows /\ Admit(u)
  /\ Start(r, "begun", k, u, c)
  /\ UNCHANGED <<stored, effects, due, history>>

(* ... which a banned user's is too if the question fails.                 *)
BeginUnasked(r, k, u, c) ==
  /\ request[r] = Idle /\ k \in Gated /\ c \in Rows
  /\ u \in banned /\ Upset
  /\ request' = [request EXCEPT ![r] = [Started("begun", k, u, c) EXCEPT !.overtaken = TRUE]]
  /\ UNCHANGED <<stored, effects, due, restored, failed>>

At(r, step, k) == request[r].at = step /\ request[r].kind = k

Due(r, k, c) == [request |-> r, user |-> request[r].user, action |-> k, source |-> c]

(* Create, and the award in a goroutine. *)
Create(r) ==
  /\ At(r, "begun", "comment")
  /\ comment' = [c \in Rows \cup {r} |-> IF c = r THEN Row(NoRoot, request[r].user) ELSE comment[c]]
  /\ due' = due \cup {Due(r, "comment", r)} /\ Finish(r)
  /\ UNCHANGED <<likes, banned, effects, history>>

(* CreateReply selects its root for update; 404 if it is gone ...          *)
SelectRoot(r) ==
  LET root == request[r].on
  IN  /\ At(r, "begun", "reply") /\ ~Locked(root)
      /\ IF Live(root) /\ IsRoot(root) THEN GoTo(r, "locked") ELSE Finish(r)
      /\ UNCHANGED <<stored, effects, due, history>>

(* ... inserts and commits.                                                *)
InsertReply(r) ==
  /\ At(r, "locked", "reply")
  /\ comment' = [c \in Rows \cup {r} |->
        IF c = r THEN Row(request[r].on, request[r].user) ELSE comment[c]]
  /\ due' = due \cup {Due(r, "reply", r)} /\ GoTo(r, "notify")
  /\ UNCHANGED <<likes, banned, effects, history>>

(* An author's own comment, which no transaction holds: who asks for       *)
(* another's, or for one that is gone, is told that there is none.         *)
Own(u, c) == Live(c) /\ comment[c].author = u /\ ~Locked(c)

(* DeleteComment selects the root for update ...                           *)
SelectThread(r, u, c) ==
  /\ request[r] = Idle /\ Own(u, c) /\ IsRoot(c)
  /\ Start(r, "locked", "delete", u, c)
  /\ UNCHANGED <<stored, effects, due, history>>

(* ... marks the replies that are left, then the root, and commits.        *)
DeleteThread(r) ==
  /\ At(r, "locked", "delete")
  /\ comment' = [c \in Rows |->
        IF Live(c) /\ (c = request[r].on \/ comment[c].root = request[r].on)
        THEN [comment[c] EXCEPT !.gone = "author"] ELSE comment[c]]
  /\ Finish(r)
  /\ UNCHANGED <<likes, banned, effects, due, history>>

(* Requests of one statement. *)
Statement(r, c, row) ==
  /\ request[r] = Idle /\ Finish(r) /\ Change(c, row)
  /\ UNCHANGED <<likes, banned, effects, due, history>>

DeleteReply(r, u, c) ==
  Own(u, c) /\ ~IsRoot(c) /\ Statement(r, c, [comment[c] EXCEPT !.gone = "author"])

(* updateBody, of a comment or a reply. *)
Edit(r, u, c) == Own(u, c) /\ Statement(r, c, [comment[c] EXCEPT !.words = u])

Resolve(r, u, c) ==
  Own(u, c) /\ IsRoot(c) /\ Statement(r, c, [comment[c] EXCEPT !.resolved = TRUE])

(* documentCommentLikeHandler looks for the comment in the list ...        *)
FindLiked(r) ==
  /\ At(r, "begun", "like")
  /\ IF Visible(request[r].on) THEN GoTo(r, "found") ELSE Finish(r)
  /\ UNCHANGED <<stored, effects, due, history>>

FindUnliked(r, u, c) ==
  /\ request[r] = Idle /\ Visible(c)
  /\ Start(r, "found", "unlike", u, c)
  /\ UNCHANGED <<stored, effects, due, history>>

(* ... and sets or clears the like, whatever became of the comment.        *)
SetLike(r) ==
  LET mine == <<request[r].on, request[r].user>>
  IN  /\ request[r].at = "found" /\ Finish(r)
      /\ IF request[r].kind = "like"
         THEN /\ likes' = likes \cup {mine}
              /\ due' = IF mine \in likes THEN due ELSE due \cup {Due(r, "like", request[r].on)}
         ELSE likes' = likes \ {mine} /\ UNCHANGED due
      /\ UNCHANGED <<comment, banned, effects, history>>

(* What they set off ------------------------------------------------------*)

(* Faulty: who replies to their own comment is notified. *)
DispatchToAnyone(r, recipient) == notified' = notified \cup {r}

(* dispatchNotification: nobody is told of what they did themselves. *)
Dispatch(r, recipient) ==
  notified' = IF recipient = request[r].user THEN notified ELSE notified \cup {r}

(* notifyCommentReply looks the root up in the list again. *)
Notify(r) ==
  LET root == request[r].on
  IN  /\ request[r].at = "notify" /\ Finish(r)
      /\ IF Live(root) THEN Dispatch(r, comment[root].author) ELSE UNCHANGED notified
      /\ UNCHANGED <<stored, ledger, experience, due, history>>

Points(action) == CASE action = "comment" -> 10 [] action = "reply" -> 5 [] action = "like" -> 1

Entry(d) == [user |-> d.user, action |-> d.action, source |-> d.source]

(* Faulty: experience is added whether or not the ledger took the entry. *)
AddExperienceAgain(d) ==
  /\ d \in due /\ due' = due \ {d}
  /\ ledger' = ledger \cup {Entry(d)}
  /\ experience' = [experience EXCEPT ![d.user] = @ + Points(d.action)]
  /\ UNCHANGED <<stored, notified, request, history>>

(* AddExperience: once per entry of the ledger. *)
AddExperience(d) ==
  /\ d \in due /\ due' = due \ {d}
  /\ ledger' = ledger \cup {Entry(d)}
  /\ experience' = IF Entry(d) \in ledger THEN experience
                   ELSE [experience EXCEPT ![d.user] = @ + Points(d.action)]
  /\ UNCHANGED <<stored, notified, request, history>>

(* An award or a notification fails and is logged. *)
Fail ==
  /\ Upset /\ failed' = TRUE
  /\ \/ \E d \in due : due' = due \ {d} /\ UNCHANGED request
     \/ \E r \in Requests : request[r].at = "notify" /\ Finish(r) /\ UNCHANGED due
  /\ UNCHANGED <<stored, effects, restored>>

(* The gateway is killed: transactions roll back, goroutines are gone. *)
Crash ==
  /\ Upset /\ failed' = TRUE
  /\ request' = [r \in Requests |-> IF r \in InFlight THEN Over ELSE request[r]]
  /\ due' = {}
  /\ UNCHANGED <<stored, effects, restored>>

(* Admins -----------------------------------------------------------------*)

(* SetAdminHidden: deleted_at is set or cleared, whoever set it before.    *)
(* To hide, restore or ban once more changes nothing.                      *)
Hide(c) ==
  /\ Upset /\ comment[c].gone # "admin" /\ ~Locked(c)
  /\ Change(c, [comment[c] EXCEPT !.gone = "admin"])
  /\ UNCHANGED <<likes, banned, effects, request, due, restored, failed>>

Restore(c) ==
  /\ Upset /\ comment[c].gone # "no" /\ ~Locked(c)
  /\ Change(c, [comment[c] EXCEPT !.gone = "no"])
  /\ restored' = restored \cup {c}
  /\ UNCHANGED <<likes, banned, effects, request, due, failed>>

Ban(u) ==
  /\ Upset /\ u \notin banned /\ banned' = banned \cup {u}
  /\ request' = [r \in Requests |->
        IF request[r].user = u THEN [request[r] EXCEPT !.overtaken = TRUE] ELSE request[r]]
  /\ UNCHANGED <<comment, likes, effects, due, restored, failed>>

Unban(u) ==
  /\ Upset /\ u \in banned /\ banned' = banned \ {u}
  /\ UNCHANGED <<comment, likes, effects, request, due, restored, failed>>

HandlerStep(r) ==
  \/ \E u \in Users, c \in Rows :
       \/ \E k \in Gated : Begin(r, k, u, c) \/ BeginUnasked(r, k, u, c)
       \/ SelectThread(r, u, c) \/ DeleteReply(r, u, c)
       \/ Edit(r, u, c) \/ Resolve(r, u, c) \/ FindUnliked(r, u, c)
  \/ Create(r) \/ SelectRoot(r) \/ InsertReply(r) \/ DeleteThread(r)
  \/ FindLiked(r) \/ SetLike(r) \/ Notify(r)

AdminStep ==
  \/ \E c \in Rows : Hide(c) \/ Restore(c)
  \/ \E u \in Users : Ban(u) \/ Unban(u)

Next ==
  \/ \E r \in Requests : HandlerStep(r)
  \/ \E d \in due : AddExperience(d)
  \/ Fail \/ Crash \/ AdminStep

Spec == Init /\ [][Next]_vars

-----------------------------------------------------------------------------
TypeOK ==
  /\ Rows \subseteq Ids /\ comment \in [Rows -> Comment]
  /\ \A c \in Rows : ~IsRoot(c) => comment[c].root \in Rows /\ IsRoot(comment[c].root)
  /\ likes \subseteq Rows \X Users
  /\ \A e \in ledger : e.user \in Users /\ e.source \in Rows
  /\ experience \in [Users -> Nat]
  /\ notified \subseteq Rows
  /\ banned \subseteq Users
  /\ request \in [Requests -> Request \cup {Idle, Over}]
  /\ \A r \in Requests : request[r].on \in Rows
  /\ due \subseteq Award /\ restored \subseteq Rows
  /\ upsets \in 0..MaxUpsets /\ failed \in BOOLEAN

(* Threads are two levels deep, and an author who deletes one deletes all  *)
(* of it: a reply on its way in while the root is deleted is refused or    *)
(* deleted with it, and no reply is left below the root but one an admin   *)
(* restored (DeleteComment, CreateReply).                                  *)
ThreadsDeletedWhole ==
  \A c \in Rows : ~IsRoot(c) =>
    /\ IsRoot(comment[c].root)
    /\ Live(c) /\ comment[comment[c].root].gone = "author" => c \in restored

(* A comment's words are those of its author, edited or not.               *)
WordsAreTheAuthors ==
  \A c \in Rows : comment[c].words = comment[c].author

(* A user who is banned adds nothing more, but for what was past the gate  *)
(* before the ban or while the ban could not be looked up (user_bans.go).  *)
BannedStaySilent ==
  [][\A r \in Requests :
       ~request[r].overtaken /\ request'[r] # request[r] /\ request[r].user \in banned /\ request[r].kind \in Gated =>
         comment' = comment /\ likes' = likes]_vars

Quiet == InFlight = {} /\ due = {}
By(u) == {c \in Rows \ {First} : comment[c].author = u}
Count(u, action) == Cardinality({e \in ledger : e.user = u /\ e.action = action})

(* A user's experience is what they did: every comment, every reply and    *)
(* every comment they liked counts once, however often it was liked and    *)
(* unliked, in whichever order the goroutines ran, and whether or not the  *)
(* comment is still there; and whatever fails, the ledger accounts for all *)
(* of it (awardExperienceBestEffort, AddExperience).                       *)
ExperienceEarned ==
  \A u \in Users :
    /\ experience[u] = Points("comment") * Count(u, "comment")
         + Points("reply") * Count(u, "reply") + Points("like") * Count(u, "like")
    /\ Quiet /\ ~failed =>
         /\ Count(u, "comment") = Cardinality({c \in By(u) : IsRoot(c)})
         /\ Count(u, "reply") = Cardinality({c \in By(u) : ~IsRoot(c)})
         /\ \A c \in Rows : <<c, u>> \in likes =>
              [user |-> u, action |-> "like", source |-> c] \in ledger

(* A reply is announced to the author of its root, to nobody for one's own *)
(* reply; only a failure, or a root that went away in between, keeps the   *)
(* announcement back (notifyCommentReply, dispatchNotification).           *)
RepliesAnnounced ==
  \A r \in Rows \ {First} :
    LET root == comment[r].root
    IN  IF root = NoRoot \/ comment[root].author = comment[r].author THEN r \notin notified
        ELSE \/ r \in notified \/ failed \/ request[r].at = "notify"
             \/ ~Live(root) \/ root \in restored
=============================================================================
