------------------------- MODULE Discussion_proofs -------------------------
(***************************************************************************)
(* Proofs about Discussion, for any requests and users: threads and words  *)
(* stay whole, replies are announced and banned users stay silent; and     *)
(* about LiveComments, for any pages, clients and channels: pages catch up.*)
(***************************************************************************)
EXTENDS Discussion, LiveComments, FiniteSetTheorems, TLAPS

RowsInv == First \in Rows /\ Rows \subseteq Ids /\ comment \in [Rows -> Comment]

(* A request acts on a comment there is, and makes its own only once. *)
RequestsInv ==
  /\ request \in [Requests -> Request \cup {Idle, Over}]
  /\ \A r \in Requests : request[r].on \in Rows
  /\ \A r \in Requests \cap Rows : request[r].at \in {"notify", "done"}

(* Below a root, live replies; below a root its author deleted, none. *)
ThreadsInv ==
  \A c \in Rows : ~IsRoot(c) =>
    /\ comment[c].root \in Rows /\ IsRoot(comment[c].root)
    /\ Live(c) /\ comment[comment[c].root].gone = "author" => c \in restored

(* A root that a transaction has selected for update is live, and its.     *)
LocksInv ==
  /\ \A r \in Requests : request[r].at = "locked" => Live(request[r].on) /\ IsRoot(request[r].on)
  /\ \A q, r \in Requests :
       request[q].at = "locked" /\ request[r].at = "locked" /\ request[q].on = request[r].on => q = r

AnnouncedInv ==
  /\ notified \subseteq Rows /\ RepliesAnnounced
  /\ \A r \in Requests : request[r].at = "notify" =>
       r \in Rows /\ request[r].on = comment[r].root /\ request[r].user = comment[r].author

GateInv ==
  /\ banned \subseteq Users
  /\ \A r \in Requests : request[r].kind \in Gated /\ request[r].user \in banned => request[r].overtaken

ThreadInv ==
  /\ RowsInv /\ RequestsInv /\ ThreadsInv /\ LocksInv
  /\ WordsAreTheAuthors /\ AnnouncedInv /\ GateInv

LEMMA IdleFields ==
  /\ Idle.at = "new" /\ Idle.kind = "comment" /\ Idle.user = NoOne /\ Idle.on = First
  /\ Over.at = "done" /\ Over.kind = "comment" /\ Over.user = NoOne /\ Over.on = First
  /\ Idle # Over
BY DEF Idle, Over

LEMMA RequestFields ==
  ASSUME NEW x \in Request
  PROVE  /\ x.at \in {"begun", "locked", "found", "notify"} /\ x.kind \in Kinds
         /\ x.user \in Users /\ x.on \in Ids /\ x.overtaken \in BOOLEAN
         /\ x \notin {Idle, Over}
BY DEF Request, Idle, Over

LEMMA RowFields ==
  ASSUME NEW u \in Users, NEW root \in Ids \cup {NoRoot}
  PROVE  /\ Row(root, u) \in Comment /\ Row(root, u).root = root /\ Row(root, u).author = u
         /\ Row(root, u).words = u /\ Row(root, u).gone = "no"
BY DEF Row, Comment

LEMMA InitThread == Init => ThreadInv
<1> SUFFICES ASSUME Init PROVE ThreadInv
  OBVIOUS
<1>1. PICK u \in Users : comment = [c \in {First} |-> Row(NoRoot, u)]
  BY DEF Init
<1>2. Rows = {First} /\ comment[First] = Row(NoRoot, u)
  BY <1>1 DEF Rows
<1>3. RowsInv /\ ThreadsInv /\ WordsAreTheAuthors
  BY <1>1, <1>2, RowFields DEF RowsInv, ThreadsInv, WordsAreTheAuthors, IsRoot, Ids
<1>4. RequestsInv /\ LocksInv /\ GateInv
  BY <1>2, IdleFields, NamesAssumption DEF Init, RequestsInv, LocksInv, GateInv
<1>5. AnnouncedInv
  BY <1>2, IdleFields DEF Init, AnnouncedInv, RepliesAnnounced
<1> QED BY <1>3, <1>4, <1>5 DEF ThreadInv

(* The rows stay as they are; request r goes on, with no lock. *)
Goes(r, x) ==
  /\ request' = [request EXCEPT ![r] = x]
  /\ x \in Request \cup {Idle, Over} /\ x.at # "locked" /\ x.on \in Rows
  /\ r \in Rows => x.at = "done"
  /\ x.at # "notify"
  /\ x.kind \in Gated /\ x.user \in banned => x.overtaken

LEMMA GoesInv ==
  ASSUME ThreadInv, NEW r \in Requests, NEW x, Goes(r, x), UNCHANGED <<comment, banned, restored>>,
         AnnouncedInv'
  PROVE  ThreadInv'
<1> USE DEF ThreadInv, Goes
<1>1. Rows' = Rows /\ RowsInv' /\ ThreadsInv' /\ WordsAreTheAuthors'
  BY DEF Rows, RowsInv, ThreadsInv, WordsAreTheAuthors, Live, IsRoot
<1>2. RequestsInv'
  BY <1>1 DEF RequestsInv
<1>3. LocksInv'
  BY <1>1 DEF RequestsInv, LocksInv, Live, IsRoot
<1>4. GateInv'
  BY DEF RequestsInv, GateInv
<1> QED BY <1>1, <1>2, <1>3, <1>4

(* Nothing is announced by that, and nothing has to be. *)
LEMMA SilentInv ==
  ASSUME ThreadInv, NEW r \in Requests, NEW x, Goes(r, x),
         UNCHANGED <<comment, notified, banned, restored>>,
         failed' = failed \/ failed', request[r].at = "notify" => failed'
  PROVE  ThreadInv'
<1>1. AnnouncedInv'
  BY DEF ThreadInv, Goes, RequestsInv, AnnouncedInv, RepliesAnnounced, Rows, Live
<1> QED BY <1>1, GoesInv

LEMMA StartedFields ==
  ASSUME NEW step \in {"begun", "locked", "found"}, NEW k \in Kinds, NEW u \in Users, NEW c \in Ids
  PROVE  /\ Started(step, k, u, c) \in Request
         /\ Started(step, k, u, c).at = step /\ Started(step, k, u, c).kind = k
         /\ Started(step, k, u, c).user = u /\ Started(step, k, u, c).on = c
BY DEF Started, Request

LEMMA StartedOvertaken ==
  ASSUME NEW k \in Kinds, NEW u \in Users, NEW c \in Ids,
         NEW x, x = [Started("begun", k, u, c) EXCEPT !.overtaken = TRUE]
  PROVE  x \in Request /\ x.at = "begun" /\ x.on = c /\ x.overtaken
BY DEF Started, Request

LEMMA NewRequest ==
  ASSUME ThreadInv, NEW r \in Requests, request[r] = Idle
  PROVE  r \notin Rows /\ request[r].at = "new"
BY IdleFields DEF ThreadInv, RequestsInv

LEMMA BeginInv ==
  ASSUME ThreadInv, NEW r \in Requests, NEW k \in Gated, NEW u \in Users, NEW c \in Rows,
         Begin(r, k, u, c) \/ BeginUnasked(r, k, u, c)
  PROVE  ThreadInv'
<1>1. c \in Ids /\ k \in Kinds /\ r \notin Rows /\ request[r].at = "new"
  BY NewRequest DEF ThreadInv, RowsInv, Kinds, Begin, BeginUnasked
<1>2. CASE Begin(r, k, u, c)
  <2> DEFINE x == Started("begun", k, u, c)
  <2>1. x \in Request /\ x.at = "begun" /\ x.user = u /\ x.on = c
    BY <1>1, StartedFields
  <2>2. Goes(r, x)
    BY <1>1, <1>2, <2>1 DEF Begin, Start, Goes, Admit
  <2> HIDE DEF x
  <2> QED BY <1>1, <1>2, <2>2, SilentInv DEF Begin, stored, effects, history
<1>3. CASE BeginUnasked(r, k, u, c)
  <2> DEFINE x == [Started("begun", k, u, c) EXCEPT !.overtaken = TRUE]
  <2>1. x \in Request /\ x.at = "begun" /\ x.on = c /\ x.overtaken
    BY <1>1, StartedOvertaken
  <2>2. Goes(r, x)
    BY <1>1, <1>3, <2>1 DEF BeginUnasked, Goes
  <2> HIDE DEF x
  <2> QED BY <1>1, <1>3, <2>2, SilentInv DEF BeginUnasked, stored, effects
<1> QED BY <1>2, <1>3

LEMMA FindUnlikedInv ==
  ASSUME ThreadInv, NEW r \in Requests, NEW u \in Users, NEW c \in Rows, FindUnliked(r, u, c)
  PROVE  ThreadInv'
<1> DEFINE x == Started("found", "unlike", u, c)
<1>1. c \in Ids /\ r \notin Rows /\ request[r].at = "new" /\ "unlike" \in Kinds /\ "unlike" \notin Gated
  BY NewRequest DEF ThreadInv, RowsInv, Kinds, Gated, FindUnliked
<1>2. x \in Request /\ x.at = "found" /\ x.kind = "unlike" /\ x.on = c
  BY <1>1, StartedFields
<1>3. Goes(r, x)
  BY <1>1, <1>2 DEF FindUnliked, Start, Goes
<1> HIDE DEF x
<1> QED BY <1>1, <1>3, SilentInv DEF FindUnliked, stored, effects, history

(* A request that has begun goes on, or ends. *)
LEMMA Onward ==
  ASSUME ThreadInv, NEW r \in Requests, request[r].at \in {"begun", "found", "locked"},
         NEW step \in {"found", "locked", "notify"}, GoTo(r, step),
         NEW x, x = [request[r] EXCEPT !.at = step]
  PROVE  /\ x \in Request /\ x.at = step /\ x.on = request[r].on /\ x.user = request[r].user
         /\ x.kind = request[r].kind /\ x.overtaken = request[r].overtaken
         /\ request[r].on \in Rows /\ r \notin Rows /\ request[r].user \in Users
         /\ request' = [request EXCEPT ![r] = x]
BY IdleFields DEF ThreadInv, RequestsInv, Request, GoTo

LEMMA Ended ==
  ASSUME ThreadInv, NEW r \in Requests, Finish(r)
  PROVE  Goes(r, Over)
BY IdleFields, NamesAssumption DEF ThreadInv, RowsInv, GateInv, Finish, Goes

LEMMA LikeInv ==
  ASSUME ThreadInv, NEW r \in Requests, FindLiked(r) \/ SetLike(r)
  PROVE  ThreadInv'
<1>1. request[r].at \in {"begun", "found"} /\ UNCHANGED <<comment, notified, banned, restored, failed>>
  BY DEF FindLiked, SetLike, At, stored, effects, history
<1>2. CASE Finish(r)
  BY <1>1, <1>2, Ended, SilentInv
<1>3. CASE GoTo(r, "found")
  <2> DEFINE x == [request[r] EXCEPT !.at = "found"]
  <2>1. Goes(r, x)
    BY <1>1, <1>3, Onward DEF Goes, ThreadInv, GateInv
  <2> HIDE DEF x
  <2> QED BY <1>1, <2>1, SilentInv
<1> QED BY <1>2, <1>3 DEF FindLiked, SetLike

(* A transaction has selected a root for update. *)
LEMMA SelectInv ==
  ASSUME ThreadInv, NEW r \in Requests, r \notin Rows, request[r].at # "notify",
         NEW x \in Request, request' = [request EXCEPT ![r] = x],
         x.at = "locked", x.on \in Rows, Live(x.on), IsRoot(x.on), ~Locked(x.on),
         x.kind \in Gated /\ x.user \in banned => x.overtaken,
         UNCHANGED <<comment, notified, banned, restored, failed>>
  PROVE  ThreadInv'
<1> USE DEF ThreadInv
<1>1. Rows' = Rows /\ RowsInv' /\ ThreadsInv' /\ WordsAreTheAuthors'
  BY DEF Rows, RowsInv, ThreadsInv, WordsAreTheAuthors, Live, IsRoot
<1>2. RequestsInv'
  BY <1>1 DEF RequestsInv
<1>3. LocksInv'
  BY <1>1 DEF RequestsInv, LocksInv, Live, IsRoot, Locked
<1>4. GateInv'
  BY DEF RequestsInv, GateInv
<1>5. AnnouncedInv'
  BY <1>1 DEF RequestsInv, AnnouncedInv, RepliesAnnounced, Live
<1> QED BY <1>1, <1>2, <1>3, <1>4, <1>5

LEMMA SelectRootInv ==
  ASSUME ThreadInv, NEW r \in Requests, SelectRoot(r)
  PROVE  ThreadInv'
<1>1. /\ request[r].at = "begun" /\ ~Locked(request[r].on)
      /\ UNCHANGED <<comment, notified, banned, restored, failed>>
  BY DEF SelectRoot, At, stored, effects, history
<1>2. CASE Finish(r)
  BY <1>1, <1>2, Ended, SilentInv
<1>3. CASE Live(request[r].on) /\ IsRoot(request[r].on) /\ GoTo(r, "locked")
  <2> DEFINE x == [request[r] EXCEPT !.at = "locked"]
  <2>1. /\ x \in Request /\ x.at = "locked" /\ x.on = request[r].on /\ x.on \in Rows /\ r \notin Rows
        /\ x.kind = request[r].kind /\ x.user = request[r].user /\ x.overtaken = request[r].overtaken
        /\ request' = [request EXCEPT ![r] = x]
    BY <1>1, <1>3, Onward
  <2> HIDE DEF x
  <2>2. x.kind \in Gated /\ x.user \in banned => x.overtaken
    BY <2>1 DEF ThreadInv, GateInv
  <2> QED BY <1>1, <1>3, <2>1, <2>2, SelectInv
<1> QED BY <1>2, <1>3 DEF SelectRoot

LEMMA SelectThreadInv ==
  ASSUME ThreadInv, NEW r \in Requests, NEW u \in Users, NEW c \in Rows, SelectThread(r, u, c)
  PROVE  ThreadInv'
<1> DEFINE x == Started("locked", "delete", u, c)
<1>1. c \in Ids /\ r \notin Rows /\ request[r].at = "new" /\ "delete" \in Kinds /\ "delete" \notin Gated
  BY NewRequest DEF ThreadInv, RowsInv, Kinds, Gated, SelectThread
<1>2. x \in Request /\ x.at = "locked" /\ x.kind = "delete" /\ x.on = c
  BY <1>1, StartedFields
<1>3. /\ request' = [request EXCEPT ![r] = x] /\ Live(c) /\ IsRoot(c) /\ ~Locked(c)
      /\ UNCHANGED <<comment, notified, banned, restored, failed>>
  BY DEF SelectThread, Own, Start, stored, effects, history
<1> HIDE DEF x
<1> QED BY <1>1, <1>2, <1>3, SelectInv

(* One row is changed; the request that did it, if any, ends. *)
RowMayBecome(c, row) ==
  /\ row \in Comment /\ row.root = comment[c].root /\ row.author = comment[c].author
  /\ row.words = row.author
  /\ row.gone = "author" => comment[c].gone = "author" \/ ~IsRoot(c)
  /\ row.gone = "no" => comment[c].gone = "no" \/ c \in restored'

LEMMA ChangeInv ==
  ASSUME ThreadInv, NEW c \in Rows, NEW row, Change(c, row), RowMayBecome(c, row), ~Locked(c),
         restored \subseteq restored', UNCHANGED <<notified, banned, failed>>,
         \/ UNCHANGED request
         \/ \E r \in Requests : request[r] = Idle /\ request' = [request EXCEPT ![r] = Over]
  PROVE  ThreadInv'
<1> USE DEF ThreadInv
<1>1. /\ comment \in [Rows -> Comment] /\ comment' = [comment EXCEPT ![c] = row]
      /\ row.gone \in {"no", "author", "admin"}
  BY DEF RowsInv, Change, Rows, RowMayBecome, Comment
<1>2. /\ Rows' = Rows /\ comment'[c] = row
      /\ \A e \in Rows \ {c} : comment'[e] = comment[e]
      /\ \A e \in Rows : comment'[e].root = comment[e].root /\ comment'[e].author = comment[e].author
  BY <1>1 DEF Rows, RowMayBecome
<1>3. RowsInv'
  BY <1>1, <1>2 DEF RowsInv, RowMayBecome
<1>4. WordsAreTheAuthors'
  BY <1>2 DEF WordsAreTheAuthors, RowMayBecome
<1>5. \A e \in Rows : IsRoot(e)' <=> IsRoot(e)
  BY <1>2 DEF IsRoot
<1>6. \A e \in Rows : Live(e)' => Live(e) \/ e \in restored'
  BY <1>2 DEF Live, RowMayBecome
<1>7. \A e \in Rows : comment'[e].gone = "author" => comment[e].gone = "author" \/ ~IsRoot(e)
  BY <1>2 DEF RowMayBecome
<1>8. ThreadsInv'
  BY <1>2, <1>5, <1>6, <1>7 DEF ThreadsInv
<1>9. \A r \in Requests : \/ request'[r] = request[r]
                          \/ request[r] = Idle /\ request'[r] = Over
  BY DEF RequestsInv
<1>10. \A r \in Requests :
         /\ request'[r].on = request[r].on
         /\ request'[r].at \in {"locked", "notify"} => request'[r] = request[r]
         /\ request[r].at = "notify" => request'[r] = request[r]
  BY <1>9, IdleFields
<1>11. RequestsInv'
  <2>1. request' \in [Requests -> Request \cup {Idle, Over}]
    BY DEF RequestsInv
  <2> QED BY <1>2, <1>9, <1>10, <2>1, IdleFields DEF RequestsInv
<1>12. LocksInv'
  BY <1>2, <1>5, <1>10 DEF LocksInv, Locked, Live
<1>13. GateInv'
  BY <1>9, IdleFields, NamesAssumption DEF GateInv
<1>14. RepliesAnnounced'
  <2> SUFFICES ASSUME NEW r \in Rows \ {First}
               PROVE  LET root == comment[r].root
                      IN  IF root = NoRoot \/ comment'[root].author = comment[r].author
                          THEN r \notin notified
                          ELSE \/ r \in notified \/ failed \/ request'[r].at = "notify"
                               \/ ~Live(root)' \/ root \in restored'
    BY <1>2 DEF RepliesAnnounced
  <2>1. r \in Requests
    BY DEF RowsInv, Ids
  <2>2. comment[r].root # NoRoot => comment[r].root \in Rows
    BY DEF ThreadsInv, IsRoot
  <2> QED BY <1>2, <1>6, <1>10, <2>1, <2>2 DEF AnnouncedInv, RepliesAnnounced
<1>15. AnnouncedInv'
  BY <1>2, <1>10, <1>14 DEF AnnouncedInv
<1> QED BY <1>3, <1>4, <1>8, <1>11, <1>12, <1>13, <1>15

LEMMA StatementInv ==
  ASSUME ThreadInv, NEW r \in Requests, NEW u \in Users, NEW c \in Rows,
         DeleteReply(r, u, c) \/ Edit(r, u, c) \/ Resolve(r, u, c)
  PROVE  ThreadInv'
<1>1. /\ comment[c] \in Comment /\ comment[c].gone = "no" /\ ~Locked(c)
      /\ comment[c].author = u /\ comment[c].words = u
  BY DEF DeleteReply, Edit, Resolve, Own, Live, ThreadInv, RowsInv, WordsAreTheAuthors
<1>2. PICK row : Statement(r, c, row) /\ RowMayBecome(c, row)
  <2>1. CASE DeleteReply(r, u, c)
    <3>1. RowMayBecome(c, [comment[c] EXCEPT !.gone = "author"])
      BY <1>1, <2>1 DEF DeleteReply, RowMayBecome, Comment
    <3> QED BY <2>1, <3>1 DEF DeleteReply
  <2>2. CASE Edit(r, u, c)
    <3>1. RowMayBecome(c, [comment[c] EXCEPT !.words = u])
      BY <1>1 DEF RowMayBecome, Comment
    <3> QED BY <2>2, <3>1 DEF Edit
  <2>3. CASE Resolve(r, u, c)
    <3>1. RowMayBecome(c, [comment[c] EXCEPT !.resolved = TRUE])
      BY <1>1 DEF RowMayBecome, Comment
    <3> QED BY <2>3, <3>1 DEF Resolve
  <2> QED BY <2>1, <2>2, <2>3
<1>3. /\ Change(c, row) /\ request[r] = Idle /\ request' = [request EXCEPT ![r] = Over]
      /\ UNCHANGED <<notified, banned, failed, restored>>
  BY <1>2 DEF Statement, Finish, effects, history
<1> QED BY <1>1, <1>2, <1>3, ChangeInv

LEMMA ModerateInv ==
  ASSUME ThreadInv, NEW c \in Rows, Hide(c) \/ Restore(c)
  PROVE  ThreadInv'
<1>1. comment[c] \in Comment /\ comment[c].words = comment[c].author /\ ~Locked(c)
  BY DEF Hide, Restore, ThreadInv, RowsInv, WordsAreTheAuthors
<1>2. CASE Hide(c)
  <2> DEFINE row == [comment[c] EXCEPT !.gone = "admin"]
  <2>1. RowMayBecome(c, row)
    BY <1>1 DEF RowMayBecome, Comment
  <2> HIDE DEF row
  <2> QED BY <1>1, <1>2, <2>1, ChangeInv DEF Hide, effects, row
<1>3. CASE Restore(c)
  <2> DEFINE row == [comment[c] EXCEPT !.gone = "no"]
  <2>1. RowMayBecome(c, row)
    BY <1>1, <1>3 DEF RowMayBecome, Comment, Restore
  <2> HIDE DEF row
  <2> QED BY <1>1, <1>3, <2>1, ChangeInv DEF Restore, effects, row
<1> QED BY <1>2, <1>3

(* A comment or a reply is added, by a request that was not done. *)
LEMMA AddedInv ==
  ASSUME ThreadInv, NEW r \in Requests, r \notin Rows, request[r] \in Request,
         NEW root \in Rows \cup {NoRoot},
         root # NoRoot => IsRoot(root) /\ Live(root) /\ request[r].on = root,
         comment' = [c \in Rows \cup {r} |->
           IF c = r THEN Row(root, request[r].user) ELSE comment[c]],
         NEW x \in Request \cup {Over}, request' = [request EXCEPT ![r] = x],
         x = Over \/ (/\ x.at = "notify" /\ x.on = request[r].on /\ x.user = request[r].user
                      /\ x.kind = request[r].kind /\ x.overtaken = request[r].overtaken),
         root # NoRoot => x.at = "notify", root = NoRoot => x = Over,
         UNCHANGED <<notified, banned, restored, failed>>
  PROVE  ThreadInv'
<1> USE DEF ThreadInv
<1> DEFINE new == Row(root, request[r].user)
<1>1. /\ new \in Comment /\ new.root = root /\ new.author = request[r].user
      /\ new.words = request[r].user /\ new.gone = "no"
  BY RowFields, RequestFields DEF RowsInv
<1> HIDE DEF new
<1>2. /\ Rows' = Rows \cup {r} /\ comment'[r] = new /\ r # First /\ r # NoRoot
      /\ \A c \in Rows : c # r /\ comment'[c] = comment[c]
  BY NamesAssumption DEF Rows, new
<1>3. RowsInv'
  <2>1. comment' \in [Rows \cup {r} -> Comment]
    BY <1>1 DEF new, RowsInv
  <2> QED BY <1>2, <2>1 DEF RowsInv, Ids
<1>4. NoRoot \notin Rows
  BY NamesAssumption DEF RowsInv, Ids
<1>5. \A c \in Rows : (IsRoot(c)' <=> IsRoot(c)) /\ (Live(c)' <=> Live(c))
  BY <1>2 DEF IsRoot, Live
<1>6. ThreadsInv'
  <2>1. ASSUME NEW c \in Rows, ~IsRoot(c)'
        PROVE  /\ comment'[c].root \in Rows' /\ IsRoot(comment[c].root)'
               /\ Live(c)' /\ comment'[comment'[c].root].gone = "author" => c \in restored'
    BY <1>2, <1>5, <2>1 DEF ThreadsInv, IsRoot
  <2>2. ASSUME ~IsRoot(r)'
        PROVE  /\ comment'[r].root \in Rows' /\ IsRoot(comment[r].root)'
               /\ comment'[comment'[r].root].gone # "author"
    BY <1>1, <1>2, <1>5, <2>2 DEF IsRoot, Live
  <2> QED BY <1>2, <2>1, <2>2 DEF ThreadsInv, IsRoot
<1>7. WordsAreTheAuthors'
  BY <1>1, <1>2 DEF WordsAreTheAuthors
<1>8. request'[r] = x /\ \A q \in Requests \ {r} : request'[q] = request[q]
  BY DEF RequestsInv
<1>9. x.at \in {"notify", "done"} /\ x.on \in Rows
  BY IdleFields DEF RequestsInv, RowsInv
<1>10. RequestsInv'
  <2>1. request' \in [Requests -> Request \cup {Idle, Over}]
    BY DEF RequestsInv
  <2> QED BY <1>2, <1>8, <1>9, <2>1 DEF RequestsInv
<1>11. LocksInv'
  <2>1. \A q \in Requests : request'[q].at = "locked" => q # r /\ request'[q] = request[q]
    BY <1>8, <1>9
  <2>2. \A q \in Requests : request[q].on \in Rows
    BY DEF RequestsInv
  <2> QED BY <1>5, <2>1, <2>2 DEF LocksInv
<1>12. GateInv'
  <2>1. x.kind \in Gated /\ x.user \in banned => x.overtaken
    BY IdleFields, NamesAssumption DEF GateInv
  <2> QED BY <1>8, <2>1 DEF GateInv
<1>13. r \notin notified
  BY DEF AnnouncedInv
<1>14. RepliesAnnounced'
  <2>1. ASSUME NEW c \in Rows \ {First}
        PROVE  (LET up == comment[c].root
                IN  IF up = NoRoot \/ comment[up].author = comment[c].author THEN c \notin notified
                    ELSE \/ c \in notified \/ failed \/ request[c].at = "notify"
                         \/ ~Live(up) \/ up \in restored)'
    <3>1. c \in Requests \ {r} /\ comment'[c] = comment[c]
      BY <1>2 DEF RowsInv, Ids
    <3>2. comment[c].root # NoRoot => comment[c].root \in Rows
      BY DEF ThreadsInv, IsRoot
    <3> QED BY <1>2, <1>5, <1>8, <3>1, <3>2 DEF AnnouncedInv, RepliesAnnounced
  <2>2. LET up == comment'[r].root
        IN  IF up = NoRoot \/ comment'[up].author = comment'[r].author THEN r \notin notified'
            ELSE request'[r].at = "notify"
    BY <1>1, <1>2, <1>8, <1>13
  <2> QED BY <1>2, <2>1, <2>2 DEF RepliesAnnounced
<1>15. \A q \in Requests : request'[q].at = "notify" =>
         q \in Rows' /\ request'[q].on = comment'[q].root /\ request'[q].user = comment'[q].author
  <2>1. x.at = "notify" => x.on = new.root /\ x.user = new.author
    BY <1>1, IdleFields
  <2> QED BY <1>2, <1>8, <2>1 DEF AnnouncedInv
<1>16. AnnouncedInv'
  BY <1>2, <1>14, <1>15 DEF AnnouncedInv
<1> QED BY <1>3, <1>6, <1>7, <1>10, <1>11, <1>12, <1>16

LEMMA BegunRequest ==
  ASSUME ThreadInv, NEW r \in Requests, request[r].at \in {"begun", "locked", "found"}
  PROVE  r \notin Rows /\ request[r] \in Request
BY IdleFields DEF ThreadInv, RequestsInv

LEMMA CreateInv ==
  ASSUME ThreadInv, NEW r \in Requests, Create(r)
  PROVE  ThreadInv'
<1>1. /\ request[r].at = "begun" /\ request' = [request EXCEPT ![r] = Over]
      /\ comment' = [c \in Rows \cup {r} |->
           IF c = r THEN Row(NoRoot, request[r].user) ELSE comment[c]]
      /\ UNCHANGED <<notified, banned, restored, failed>>
  BY DEF Create, At, Finish, effects, history
<1> QED BY <1>1, BegunRequest, AddedInv

LEMMA InsertReplyInv ==
  ASSUME ThreadInv, NEW r \in Requests, InsertReply(r)
  PROVE  ThreadInv'
<1>1. /\ request[r].at = "locked" /\ GoTo(r, "notify")
      /\ comment' = [c \in Rows \cup {r} |->
           IF c = r THEN Row(request[r].on, request[r].user) ELSE comment[c]]
      /\ UNCHANGED <<notified, banned, restored, failed>>
  BY DEF InsertReply, At, effects, history
<1>2. PICK x : x = [request[r] EXCEPT !.at = "notify"]
  OBVIOUS
<1>3. PICK root : root = request[r].on
  OBVIOUS
<1>4. /\ x \in Request /\ x.at = "notify" /\ x.on = root /\ x.user = request[r].user
      /\ x.kind = request[r].kind /\ x.overtaken = request[r].overtaken
      /\ root \in Rows /\ request' = [request EXCEPT ![r] = x]
  BY <1>1, <1>2, <1>3, Onward
<1>5. IsRoot(root) /\ Live(root) /\ root # NoRoot
  BY <1>1, <1>3, <1>4, NamesAssumption DEF ThreadInv, LocksInv, RowsInv, Ids
<1> QED BY <1>1, <1>3, <1>4, <1>5, BegunRequest, AddedInv

(* The root goes, and with it every reply that was left below it.          *)
LEMMA DeleteThreadInv ==
  ASSUME ThreadInv, NEW r \in Requests, DeleteThread(r)
  PROVE  ThreadInv'
<1> USE DEF ThreadInv
<1>1. /\ request[r].at = "locked" /\ Finish(r) /\ UNCHANGED <<notified, banned, restored, failed>>
      /\ comment' = [c \in Rows |->
           IF Live(c) /\ (c = request[r].on \/ comment[c].root = request[r].on)
           THEN [comment[c] EXCEPT !.gone = "author"] ELSE comment[c]]
  BY DEF DeleteThread, At, effects, history
<1>2. PICK top : top = request[r].on
  OBVIOUS
<1>3. top \in Rows /\ IsRoot(top) /\ Live(top)
  BY <1>1, <1>2 DEF RequestsInv, LocksInv
<1>4. \A c \in Rows : comment[c] \in Comment
  BY DEF RowsInv
<1>5. ASSUME NEW c \in Rows
      PROVE  /\ comment'[c] \in Comment /\ comment'[c].root = comment[c].root
             /\ comment'[c].author = comment[c].author /\ comment'[c].words = comment[c].words
             /\ comment'[c].gone = IF Live(c) /\ (c = top \/ comment[c].root = top)
                                   THEN "author" ELSE comment[c].gone
  <2>1. comment'[c] = IF Live(c) /\ (c = top \/ comment[c].root = top)
                      THEN [comment[c] EXCEPT !.gone = "author"] ELSE comment[c]
    BY <1>1, <1>2
  <2>2. comment[c] \in Comment
    BY <1>4
  <2> QED BY <2>1, <2>2 DEF Comment
<1>6. Rows' = Rows
  BY <1>1 DEF Rows
<1>7. RowsInv'
  BY <1>1, <1>5, <1>6 DEF RowsInv
<1>8. WordsAreTheAuthors'
  BY <1>5, <1>6 DEF WordsAreTheAuthors
<1>9. \A c \in Rows : /\ IsRoot(c)' <=> IsRoot(c)
                      /\ Live(c)' <=> Live(c) /\ c # top /\ comment[c].root # top
  BY <1>5, <1>6 DEF IsRoot, Live
<1>10. ThreadsInv'
  <2> SUFFICES ASSUME NEW c \in Rows, ~IsRoot(c)
               PROVE  /\ comment[c].root \in Rows /\ IsRoot(comment[c].root)'
                      /\ Live(c)' /\ comment'[comment[c].root].gone = "author" => c \in restored
    BY <1>1, <1>5, <1>6, <1>9 DEF ThreadsInv
  <2>1. PICK up : up = comment[c].root
    OBVIOUS
  <2>2. /\ up \in Rows /\ IsRoot(up) /\ IsRoot(up)'
        /\ Live(c) /\ comment[up].gone = "author" => c \in restored
    BY <1>9, <2>1 DEF ThreadsInv
  <2>3. comment[up].root # top
    BY <1>3, <2>2, NamesAssumption DEF IsRoot, RowsInv, Ids
  <2>4. Live(c)' => Live(c) /\ up # top
    BY <1>9, <2>1
  <2>5. comment'[up].gone = "author" => comment[up].gone = "author" \/ up = top
    BY <1>5, <2>2, <2>3
  <2>6. IsRoot(comment[c].root)'
    BY <1>5, <2>1, <2>2 DEF IsRoot
  <2> QED BY <2>1, <2>2, <2>4, <2>5, <2>6
<1>11. /\ request'[r] = Over /\ request' \in [Requests -> Request \cup {Idle, Over}]
       /\ \A q \in Requests \ {r} : request'[q] = request[q]
  BY <1>1 DEF RequestsInv, Finish
<1>12. RequestsInv'
  BY <1>6, <1>11, IdleFields DEF RequestsInv, RowsInv
<1>13. LocksInv'
  <2> SUFFICES ASSUME NEW q \in Requests, request'[q].at = "locked"
               PROVE  Live(request[q].on)' /\ IsRoot(request[q].on)'
    BY <1>11, IdleFields DEF LocksInv
  <2>1. q # r /\ request'[q] = request[q] /\ request[q].at = "locked"
    BY <1>11, IdleFields
  <2>2. PICK c : c = request[q].on
    OBVIOUS
  <2>3. c \in Rows /\ Live(c) /\ IsRoot(c) /\ c # top
    BY <1>1, <1>2, <2>1, <2>2 DEF RequestsInv, LocksInv
  <2>4. comment[c].root # top
    BY <1>3, <2>3, NamesAssumption DEF IsRoot, RowsInv, Ids
  <2> QED BY <1>9, <2>1, <2>2, <2>3, <2>4 DEF Live, IsRoot
<1>14. GateInv'
  BY <1>1, <1>11, IdleFields, NamesAssumption DEF GateInv
<1>15. RepliesAnnounced'
  <2> SUFFICES ASSUME NEW c \in Rows \ {First}
               PROVE  (LET up == comment[c].root
                       IN  IF up = NoRoot \/ comment[up].author = comment[c].author THEN c \notin notified
                           ELSE \/ c \in notified \/ failed \/ request[c].at = "notify"
                                \/ ~Live(up) \/ up \in restored)'
    BY <1>6 DEF RepliesAnnounced
  <2>1. c \in Requests
    BY DEF RowsInv, Ids
  <2>2. comment[c].root # NoRoot => comment[c].root \in Rows
    BY DEF ThreadsInv, IsRoot
  <2>3. request[c].at = "notify" => c # r
    BY <1>1
  <2> QED BY <1>1, <1>5, <1>9, <1>11, <2>1, <2>2, <2>3 DEF AnnouncedInv, RepliesAnnounced
<1>16. AnnouncedInv'
  BY <1>1, <1>5, <1>6, <1>11, <1>15, IdleFields DEF AnnouncedInv
<1> QED BY <1>7, <1>8, <1>10, <1>12, <1>13, <1>14, <1>16

LEMMA NotifyInv ==
  ASSUME ThreadInv, NEW r \in Requests, Notify(r)
  PROVE  ThreadInv'
<1>1. /\ request[r].at = "notify" /\ Finish(r) /\ UNCHANGED <<comment, banned, restored, failed>>
      /\ IF Live(request[r].on) THEN Dispatch(r, comment[request[r].on].author) ELSE UNCHANGED notified
  BY DEF Notify, stored, history
<1>2. Goes(r, Over)
  BY <1>1, Ended
<1>3. PICK root : root = request[r].on
  OBVIOUS
<1>4. /\ r \in Rows \ {First} /\ root = comment[r].root /\ request[r].user = comment[r].author
      /\ root \in Rows /\ root # NoRoot /\ r \in Requests
  BY <1>1, <1>3, NamesAssumption DEF ThreadInv, AnnouncedInv, RequestsInv, RowsInv, Ids
<1>5. \A q \in Requests \ {r} : request'[q] = request[q]
  BY <1>1 DEF Finish
<1>6. /\ notified \subseteq notified' /\ notified' \subseteq notified \cup {r}
      /\ Live(root) /\ comment[root].author # comment[r].author => r \in notified'
      /\ comment[root].author = comment[r].author => notified' = notified
  BY <1>1, <1>3, <1>4 DEF Dispatch
<1>7. RepliesAnnounced'
  <2> SUFFICES ASSUME NEW c \in Rows \ {First}
               PROVE  (LET up == comment[c].root
                       IN  IF up = NoRoot \/ comment[up].author = comment[c].author THEN c \notin notified
                           ELSE \/ c \in notified \/ failed \/ request[c].at = "notify"
                                \/ ~Live(up) \/ up \in restored)'
    BY <1>1 DEF RepliesAnnounced, Rows
  <2>1. c \in Requests
    BY DEF ThreadInv, RowsInv, Ids
  <2>2. CASE c = r
    BY <1>1, <1>4, <1>6, <2>2 DEF ThreadInv, AnnouncedInv, RepliesAnnounced, Rows, Live
  <2>3. CASE c # r
    BY <1>1, <1>5, <1>6, <2>1, <2>3 DEF ThreadInv, AnnouncedInv, RepliesAnnounced, Rows, Live
  <2> QED BY <2>2, <2>3
<1>8. request'[r].at = "done"
  BY <1>1, IdleFields DEF Finish, ThreadInv, RequestsInv
<1>9. AnnouncedInv'
  BY <1>1, <1>4, <1>5, <1>6, <1>7, <1>8 DEF ThreadInv, AnnouncedInv, Rows
<1> QED BY <1>1, <1>2, <1>9, GoesInv

LEMMA CrashInv ==
  ASSUME ThreadInv, Crash
  PROVE  ThreadInv'
<1> USE DEF ThreadInv
<1>1. /\ failed' = TRUE /\ UNCHANGED <<comment, notified, banned, restored>>
      /\ request' = [r \in Requests |-> IF r \in InFlight THEN Over ELSE request[r]]
  BY DEF Crash, stored, effects
<1>2. Rows' = Rows /\ RowsInv' /\ ThreadsInv' /\ WordsAreTheAuthors'
  BY <1>1 DEF Rows, RowsInv, ThreadsInv, WordsAreTheAuthors, Live, IsRoot
<1>3. \A r \in Requests : request'[r] = Over \/ (request'[r] = Idle /\ request[r] = Idle)
  BY <1>1 DEF InFlight
<1>4. request' \in [Requests -> Request \cup {Idle, Over}]
  BY <1>1, <1>3
<1>5. RequestsInv'
  BY <1>2, <1>3, <1>4, IdleFields DEF RequestsInv, RowsInv
<1>6. LocksInv' /\ GateInv'
  BY <1>1, <1>3, IdleFields, NamesAssumption DEF LocksInv, GateInv
<1>7. AnnouncedInv'
  BY <1>1, <1>2, <1>3, IdleFields DEF AnnouncedInv, RepliesAnnounced
<1> QED BY <1>2, <1>5, <1>6, <1>7

(* Nothing this invariant speaks of has changed, or only who is banned. *)
LEMMA BansInv ==
  ASSUME ThreadInv, UNCHANGED <<comment, notified, restored, failed>>,
         \/ UNCHANGED <<banned, request>>
         \/ \E u \in Users : Ban(u) \/ Unban(u)
  PROVE  ThreadInv'
<1> USE DEF ThreadInv
<1>1. Rows' = Rows /\ RowsInv' /\ ThreadsInv' /\ WordsAreTheAuthors'
  BY DEF Rows, RowsInv, ThreadsInv, WordsAreTheAuthors, Live, IsRoot
<1>2. CASE UNCHANGED request
  <2>1. RequestsInv' /\ LocksInv' /\ AnnouncedInv'
    BY <1>1, <1>2 DEF RequestsInv, LocksInv, AnnouncedInv, RepliesAnnounced, Live, IsRoot
  <2>2. banned' \subseteq banned \/ \E u \in Users : Ban(u)
    BY DEF Unban
  <2>3. ASSUME NEW u \in Users, Ban(u) PROVE GateInv'
    <3>1. \A r \in Requests : request[r].user = u => request'[r].overtaken
      BY <2>3, IdleFields, NamesAssumption, RequestFields DEF Ban, RequestsInv, Request
    <3> QED BY <1>2, <2>3, <3>1 DEF GateInv, Ban
  <2>4. GateInv'
    BY <1>2, <2>2, <2>3 DEF GateInv
  <2> QED BY <1>1, <2>1, <2>4
<1>3. ASSUME NEW u \in Users, Ban(u) PROVE ThreadInv'
  <2>1. ASSUME NEW r \in Requests
        PROVE  /\ request'[r] \in Request \cup {Idle, Over}
               /\ request'[r].at = request[r].at /\ request'[r].on = request[r].on
               /\ request'[r].user = request[r].user /\ request'[r].kind = request[r].kind
               /\ request[r].overtaken => request'[r].overtaken
               /\ request[r].user = u => request'[r].overtaken
    <3>1. request'[r] = IF request[r].user = u THEN [request[r] EXCEPT !.overtaken = TRUE]
                        ELSE request[r]
      BY <1>3 DEF Ban
    <3>2. request[r].user = u => request[r] \in Request
      BY IdleFields, NamesAssumption DEF RequestsInv
    <3> QED BY <3>1, <3>2 DEF Request, RequestsInv
  <2>2. request' \in [Requests -> Request \cup {Idle, Over}]
    BY <1>3, <2>1 DEF Ban
  <2>3. RequestsInv'
    BY <1>1, <2>1, <2>2 DEF RequestsInv
  <2>4. LocksInv'
    BY <2>1 DEF LocksInv, Live, IsRoot, Rows
  <2>5. GateInv'
    BY <1>3, <2>1 DEF GateInv, Ban
  <2>6. RepliesAnnounced'
    <3>1. \A c \in Rows \ {First} : c \in Requests
      BY DEF RowsInv, Ids
    <3> QED BY <1>1, <2>1, <3>1 DEF AnnouncedInv, RepliesAnnounced, Live
  <2>7. AnnouncedInv'
    BY <1>1, <2>1, <2>6 DEF AnnouncedInv
  <2> QED BY <1>1, <2>3, <2>4, <2>5, <2>7
<1> QED BY <1>2, <1>3 DEF Unban

LEMMA FailInv ==
  ASSUME ThreadInv, Fail
  PROVE  ThreadInv'
<1>1. failed' = TRUE /\ UNCHANGED <<comment, notified, banned, restored>>
  BY DEF Fail, stored, effects
<1>2. CASE UNCHANGED request
  <2>1. UNCHANGED <<comment, banned, restored, notified, request>>
    BY <1>1, <1>2
  <2> QED BY <1>1, <2>1 DEF ThreadInv, RowsInv, RequestsInv, ThreadsInv, LocksInv,
        WordsAreTheAuthors, AnnouncedInv, RepliesAnnounced, GateInv, Rows, Live, IsRoot
<1>3. ASSUME NEW r \in Requests, Finish(r) PROVE ThreadInv'
  BY <1>1, <1>3, Ended, SilentInv
<1> QED BY <1>2, <1>3 DEF Fail

LEMMA StepThread == ThreadInv /\ [Next]_vars => ThreadInv'
<1> SUFFICES ASSUME ThreadInv, [Next]_vars PROVE ThreadInv'
  OBVIOUS
<1>1. CASE UNCHANGED vars
  BY <1>1, BansInv DEF vars, stored, effects, history
<1>2. ASSUME NEW r \in Requests, HandlerStep(r) PROVE ThreadInv'
  BY <1>2, BeginInv, SelectThreadInv, StatementInv, FindUnlikedInv, CreateInv, SelectRootInv,
     InsertReplyInv, DeleteThreadInv, LikeInv, NotifyInv DEF HandlerStep
<1>3. ASSUME NEW d \in due, AddExperience(d) PROVE ThreadInv'
  BY <1>3, BansInv DEF AddExperience, stored, history
<1>4. CASE AdminStep
  <2>1. ASSUME NEW u \in Users, Ban(u) \/ Unban(u) PROVE ThreadInv'
    BY <2>1, BansInv DEF Ban, Unban, effects
  <2> QED BY <1>4, <2>1, ModerateInv DEF AdminStep
<1> QED BY <1>1, <1>2, <1>3, <1>4, FailInv, CrashInv DEF Next

LEMMA ThreadInvariant == Spec => []ThreadInv
BY InitThread, StepThread, PTL DEF Spec

-----------------------------------------------------------------------------
(* An author who deletes a thread deletes all of it, whatever replies were *)
(* on their way in (DeleteComment, CreateReply).                           *)
THEOREM WholeThreads == Spec => []ThreadsDeletedWhole
<1>1. ThreadInv => ThreadsDeletedWhole
  BY DEF ThreadInv, ThreadsInv, ThreadsDeletedWhole
<1> QED BY <1>1, ThreadInvariant, PTL

(* Whoever edits, hides or restores a comment, its words stay those of its *)
(* author (updateBody, SetAdminHidden).                                    *)
THEOREM NobodysWords == Spec => []WordsAreTheAuthors
BY ThreadInvariant, PTL DEF ThreadInv

(* A reply is announced to the author of its root, and one's own to nobody *)
(* (notifyCommentReply).                                                   *)
THEOREM RepliesHeard == Spec => []RepliesAnnounced
BY ThreadInvariant, PTL DEF ThreadInv, AnnouncedInv

(* Who is banned adds nothing more (ensureNotBanned). *)
THEOREM BannedSilent == Spec => BannedStaySilent
<1>1. ThreadInv /\ [Next]_vars =>
        [\A r \in Requests :
           ~request[r].overtaken /\ request'[r] # request[r] /\ request[r].user \in banned
             /\ request[r].kind \in Gated => comment' = comment /\ likes' = likes]_vars
  BY DEF ThreadInv, GateInv
<1> QED BY <1>1, ThreadInvariant, PTL DEF Spec, BannedStaySilent

-----------------------------------------------------------------------------
(* What the ledger is told of a comment or a reply, and of a like. *)
Earned(c) ==
  [user |-> comment[c].author, action |-> IF IsRoot(c) THEN "comment" ELSE "reply", source |-> c]
Liking(l) == [user |-> l[2], action |-> "like", source |-> l[1]]

(* Entries in the ledger and on their way to it. *)
Owed == ledger \cup {Entry(d) : d \in due}

LedgerInv ==
  /\ ledger \subseteq [user : Users, action : Gated, source : Ids] /\ IsFiniteSet(ledger)
  /\ due \subseteq Award
  /\ experience \in [Users -> Nat]
  /\ \A u \in Users :
       experience[u] = Points("comment") * Count(u, "comment")
         + Points("reply") * Count(u, "reply") + Points("like") * Count(u, "like")

(* Comments and replies are owed what they earn and nothing else is; what  *)
(* is not failed is owed.                                                  *)
OwedInv ==
  /\ \A e \in Owed : e.action # "like" => e.source \in Rows \ {First} /\ e = Earned(e.source)
  /\ ~failed => \A c \in Rows \ {First} : Earned(c) \in Owed
  /\ likes \subseteq Rows \X Users
  /\ ~failed => \A l \in likes : Liking(l) \in Owed

ExperienceInv == LedgerInv /\ OwedInv

LEMMA CountNatural ==
  ASSUME IsFiniteSet(ledger), NEW u, NEW action
  PROVE  Count(u, action) \in Nat
<1> DEFINE counted == {e \in ledger : e.user = u /\ e.action = action}
<1>1. IsFiniteSet(counted)
  BY FS_Subset
<1> QED BY <1>1, FS_CardinalityType DEF Count

(* A new entry counts once, for its user and its action. *)
LEMMA CountAdded ==
  ASSUME IsFiniteSet(ledger), NEW e, e \notin ledger, ledger' = ledger \cup {e}, NEW u, NEW action
  PROVE  Count(u, action)' = Count(u, action) + (IF e.user = u /\ e.action = action THEN 1 ELSE 0)
<1> DEFINE counted == {x \in ledger : x.user = u /\ x.action = action}
<1>1. IsFiniteSet(counted) /\ Cardinality(counted) \in Nat /\ e \notin counted
  BY FS_Subset, FS_CardinalityType
<1>2. CASE e.user = u /\ e.action = action
  <2>1. counted' = counted \cup {e}
    BY <1>2
  <2> HIDE DEF counted
  <2>2. Cardinality(counted \cup {e}) = Cardinality(counted) + 1
    BY <1>1, FS_AddElement
  <2> QED BY <1>2, <2>1, <2>2 DEF Count, counted
<1>3. CASE ~(e.user = u /\ e.action = action)
  <2>1. counted' = counted
    BY <1>3
  <2> HIDE DEF counted
  <2>2. Cardinality(counted)' = Cardinality(counted)
    BY <2>1
  <2>3. Count(u, action)' = Cardinality(counted)' /\ Count(u, action) = Cardinality(counted)
    BY DEF Count, counted
  <2> QED BY <1>1, <1>3, <2>2, <2>3
<1> QED BY <1>2, <1>3

LEMMA AwardFields ==
  ASSUME NEW d \in Award
  PROVE  /\ d.request \in Requests /\ d.user \in Users /\ d.action \in Gated /\ d.source \in Ids
         /\ Entry(d) \in [user : Users, action : Gated, source : Ids]
         /\ Entry(d).user = d.user /\ Entry(d).action = d.action /\ Entry(d).source = d.source
BY DEF Award, Entry

LEMMA PointsOf ==
  Points("comment") = 10 /\ Points("reply") = 5 /\ Points("like") = 1
BY DEF Points

LEMMA InitExperience == Init => ExperienceInv
<1> SUFFICES ASSUME Init PROVE ExperienceInv
  OBVIOUS
<1>1. PICK u \in Users : comment = [c \in {First} |-> Row(NoRoot, u)]
  BY DEF Init
<1>2. Rows = {First}
  BY <1>1 DEF Rows
<1>3. ASSUME NEW v, NEW action PROVE Count(v, action) = 0
  <2>1. {e \in ledger : e.user = v /\ e.action = action} = {}
    BY DEF Init
  <2> QED BY <2>1, FS_EmptySet DEF Count
<1>4. LedgerInv
  BY <1>3, FS_EmptySet, PointsOf DEF Init, LedgerInv
<1>5. OwedInv
  BY <1>2 DEF Init, OwedInv, Owed
<1> QED BY <1>4, <1>5 DEF ExperienceInv

(* A comment stays whose it is, and where. *)
Stays(c) == comment'[c].root = comment[c].root /\ comment'[c].author = comment[c].author

(* Nothing is earned; what a failure takes away, it answers for. *)
LEMMA NothingEarned ==
  ASSUME ExperienceInv, Rows' = Rows, \A c \in Rows : Stays(c), UNCHANGED <<ledger, experience>>,
         likes' \subseteq likes, \/ due' = due /\ failed' = failed
                                 \/ due' \subseteq due /\ failed'
  PROVE  ExperienceInv'
<1> USE DEF ExperienceInv
<1>1. LedgerInv'
  BY DEF LedgerInv, Count
<1>2. Owed' \subseteq Owed /\ (due' = due => Owed' = Owed)
  BY DEF Owed, Entry
<1>3. \A c \in Rows : Earned(c)' = Earned(c)
  BY DEF Earned, IsRoot, Stays
<1>4. OwedInv'
  BY <1>2, <1>3 DEF OwedInv, Liking
<1> QED BY <1>1, <1>4

(* A comment or reply is added and what it earns is on its way. *)
LEMMA CommentEarns ==
  ASSUME ExperienceInv, NEW r \in Requests, r # First, r \notin Rows, Rows' = Rows \cup {r},
         \A c \in Rows : Stays(c), UNCHANGED <<ledger, experience, likes, failed>>,
         NEW d \in Award, due' = due \cup {d}, Entry(d) = Earned(r)'
  PROVE  ExperienceInv'
<1> USE DEF ExperienceInv
<1>1. LedgerInv'
  BY DEF LedgerInv, Count
<1>2. Owed' = Owed \cup {Earned(r)'}
  BY DEF Owed, Entry
<1>3. \A c \in Rows : Earned(c)' = Earned(c) /\ c # r
  BY DEF Earned, IsRoot, Stays
<1>4. Earned(r)'.source = r
  BY DEF Earned
<1>5. OwedInv'
  BY <1>2, <1>3, <1>4 DEF OwedInv, Liking
<1> QED BY <1>1, <1>5

LEMMA LikeEarns ==
  ASSUME ThreadInv, ExperienceInv, NEW r \in Requests, SetLike(r)
  PROVE  ExperienceInv'
<1> DEFINE mine == <<request[r].on, request[r].user>>
<1>1. /\ request[r].at = "found" /\ UNCHANGED <<comment, ledger, experience, failed>>
      /\ request[r] \in Request /\ request[r].user \in Users /\ request[r].on \in Rows
  BY BegunRequest, RequestFields DEF SetLike, effects, history, ThreadInv, RequestsInv
<1>2. Rows' = Rows /\ \A c \in Rows : Stays(c)
  BY <1>1 DEF Rows, Stays
<1>3. CASE likes' \subseteq likes /\ UNCHANGED due
  BY <1>1, <1>2, <1>3, NothingEarned
<1>4. CASE likes' = likes \cup {mine} /\ due' = due \cup {Due(r, "like", request[r].on)}
  <2> DEFINE d == Due(r, "like", request[r].on)
  <2>1. d \in Award /\ Entry(d) = Liking(mine) /\ Entry(d).action = "like"
    BY <1>1 DEF Due, Award, Entry, Liking, ThreadInv, RowsInv, Gated
  <2>2. mine \in Rows \X Users
    BY <1>1
  <2> HIDE DEF d, mine
  <2>3. due' = due \cup {d} /\ Owed' = Owed \cup {Entry(d)}
    BY <1>1, <1>4 DEF d, Owed
  <2>4. LedgerInv'
    BY <1>1, <2>1, <2>3 DEF ExperienceInv, LedgerInv, Count
  <2>5. \A c \in Rows : Earned(c)' = Earned(c)
    BY <1>1 DEF Earned, IsRoot
  <2>6. OwedInv'
    BY <1>1, <1>2, <1>4, <2>1, <2>2, <2>3, <2>5 DEF ExperienceInv, OwedInv, Liking
  <2> QED BY <2>4, <2>6 DEF ExperienceInv
<1> QED BY <1>3, <1>4 DEF SetLike

(* The ledger takes an entry once, and experience counts it then. *)
LEMMA AwardGiven ==
  ASSUME ExperienceInv, NEW d \in due, AddExperience(d)
  PROVE  ExperienceInv'
<1> USE DEF ExperienceInv
<1>1. /\ due' = due \ {d} /\ ledger' = ledger \cup {Entry(d)}
      /\ UNCHANGED <<comment, likes, failed>>
      /\ experience' = IF Entry(d) \in ledger THEN experience
                       ELSE [experience EXCEPT ![d.user] = @ + Points(d.action)]
  BY DEF AddExperience, stored, history
<1>2. /\ d \in Award /\ d.user \in Users /\ d.action \in Gated
      /\ Entry(d) \in [user : Users, action : Gated, source : Ids]
      /\ Entry(d).user = d.user /\ Entry(d).action = d.action
  BY AwardFields DEF LedgerInv
<1>3. Owed' = Owed
  BY <1>1 DEF Owed, Entry
<1>4. OwedInv'
  BY <1>1, <1>3 DEF OwedInv, Earned, Liking, IsRoot, Rows
<1>5. IsFiniteSet(ledger')
  BY <1>1, FS_AddElement DEF LedgerInv
<1>6. CASE Entry(d) \in ledger
  <2>1. due' \subseteq due /\ ledger' = ledger /\ experience' = experience
    BY <1>1, <1>6
  <2>2. \A u, action : Count(u, action)' = Count(u, action)
    BY <2>1 DEF Count
  <2> QED BY <1>4, <2>1, <2>2 DEF LedgerInv
<1>7. CASE Entry(d) \notin ledger
  <2>1. ASSUME NEW u \in Users
        PROVE  /\ experience'[u] \in Nat
               /\ experience'[u] = Points("comment") * Count(u, "comment")'
                    + Points("reply") * Count(u, "reply")' + Points("like") * Count(u, "like")'
    <3>1. /\ experience[u] \in Nat /\ Count(u, "comment") \in Nat /\ Count(u, "reply") \in Nat
          /\ Count(u, "like") \in Nat
          /\ experience[u] = 10 * Count(u, "comment") + 5 * Count(u, "reply") + Count(u, "like")
      BY CountNatural, PointsOf DEF LedgerInv
    <3>2. \A action : Count(u, action)' =
            Count(u, action) + (IF d.user = u /\ d.action = action THEN 1 ELSE 0)
      BY <1>1, <1>2, <1>7, CountAdded DEF LedgerInv
    <3>3. experience'[u] = IF u = d.user THEN experience[u] + Points(d.action) ELSE experience[u]
      BY <1>1, <1>2, <1>7 DEF LedgerInv
    <3>4. d.action \in {"comment", "reply", "like"}
      BY <1>2 DEF Gated
    <3>5. CASE u # d.user
      BY <3>1, <3>2, <3>3, <3>5, PointsOf
    <3>6. CASE u = d.user
      BY <3>1, <3>2, <3>3, <3>4, <3>6, PointsOf
    <3> QED BY <3>5, <3>6
  <2>2. experience' \in [Users -> Nat]
    BY <1>1, <1>2, <1>7, <2>1 DEF LedgerInv
  <2> QED BY <1>1, <1>2, <1>4, <1>5, <2>1, <2>2 DEF LedgerInv
<1> QED BY <1>4, <1>6, <1>7

(* Steps that change one comment, and add none. *)
LEMMA RowsStay ==
  ASSUME ThreadInv, NEW c \in Rows,
         \/ \E r \in Requests, u \in Users : DeleteReply(r, u, c) \/ Edit(r, u, c) \/ Resolve(r, u, c)
         \/ Hide(c) \/ Restore(c)
  PROVE  Rows' = Rows /\ \A e \in Rows : Stays(e)
<1>1. PICK row : Change(c, row) /\ row.root = comment[c].root /\ row.author = comment[c].author
  <2>1. comment[c] \in Comment
    BY DEF ThreadInv, RowsInv
  <2>2. ASSUME NEW gone, Change(c, [comment[c] EXCEPT !.gone = gone])
        PROVE  \E row : Change(c, row) /\ row.root = comment[c].root /\ row.author = comment[c].author
    BY <2>1, <2>2 DEF Comment
  <2>3. ASSUME NEW u, Change(c, [comment[c] EXCEPT !.words = u])
        PROVE  \E row : Change(c, row) /\ row.root = comment[c].root /\ row.author = comment[c].author
    BY <2>1, <2>3 DEF Comment
  <2>4. ASSUME Change(c, [comment[c] EXCEPT !.resolved = TRUE])
        PROVE  \E row : Change(c, row) /\ row.root = comment[c].root /\ row.author = comment[c].author
    BY <2>1, <2>4 DEF Comment
  <2> QED BY <2>2, <2>3, <2>4 DEF DeleteReply, Edit, Resolve, Hide, Restore, Statement
<1> QED BY <1>1 DEF Change, Rows, Stays, ThreadInv, RowsInv

LEMMA ThreadStays ==
  ASSUME ThreadInv, NEW r \in Requests, DeleteThread(r)
  PROVE  Rows' = Rows /\ \A e \in Rows : Stays(e)
<1>1. Rows' = Rows
  BY DEF DeleteThread, Rows
<1>2. ASSUME NEW e \in Rows PROVE Stays(e)
  <2>1. comment[e] \in Comment
    BY DEF ThreadInv, RowsInv
  <2>2. comment'[e] = comment[e] \/ comment'[e] = [comment[e] EXCEPT !.gone = "author"]
    BY DEF DeleteThread
  <2> QED BY <2>1, <2>2 DEF Comment, Stays
<1> QED BY <1>1, <1>2

LEMMA NewRowEarns ==
  ASSUME ThreadInv, ExperienceInv, NEW r \in Requests, Create(r) \/ InsertReply(r)
  PROVE  ExperienceInv'
<1>1. /\ request[r].at \in {"begun", "locked"} /\ r \notin Rows /\ r # First
      /\ request[r] \in Request /\ request[r].user \in Users /\ request[r].on \in Rows
      /\ request[r].on # NoRoot /\ UNCHANGED <<ledger, experience, likes, failed>>
  BY BegunRequest, RequestFields, NamesAssumption
     DEF Create, InsertReply, At, effects, history, ThreadInv, RequestsInv, RowsInv, Ids
<1>2. PICK root \in Ids \cup {NoRoot}, k \in {"comment", "reply"} :
        /\ comment' = [c \in Rows \cup {r} |->
             IF c = r THEN Row(root, request[r].user) ELSE comment[c]]
        /\ due' = due \cup {Due(r, k, r)}
        /\ k = IF root = NoRoot THEN "comment" ELSE "reply"
  BY <1>1 DEF Create, InsertReply, ThreadInv, RowsInv
<1> DEFINE d == Due(r, k, r)
<1>3. Rows' = Rows \cup {r} /\ \A c \in Rows : Stays(c)
  BY <1>1, <1>2 DEF Rows, Stays
<1>4. d \in Award /\ Entry(d) = [user |-> request[r].user, action |-> k, source |-> r]
  BY <1>1, <1>2 DEF Due, Award, Entry, Ids, Gated
<1>5. comment'[r].author = request[r].user /\ comment'[r].root = root
  BY <1>1, <1>2, RowFields
<1>6. Entry(d) = Earned(r)'
  BY <1>2, <1>4, <1>5 DEF Earned, IsRoot
<1> HIDE DEF d
<1>7. due' = due \cup {d}
  BY <1>2 DEF d
<1> QED BY <1>1, <1>3, <1>4, <1>6, <1>7, CommentEarns

LEMMA StepExperience == ThreadInv /\ ExperienceInv /\ [Next]_vars => ExperienceInv'
<1> SUFFICES ASSUME ThreadInv, ExperienceInv, [Next]_vars PROVE ExperienceInv'
  OBVIOUS
<1>1. ASSUME UNCHANGED <<comment, ledger, experience, likes>>,
             \/ due' = due /\ failed' = failed
             \/ due' \subseteq due /\ failed'
      PROVE  ExperienceInv'
  BY <1>1, NothingEarned DEF Rows, Stays
<1>2. CASE UNCHANGED vars
  BY <1>1, <1>2 DEF vars, stored, effects, history
<1>3. ASSUME NEW r \in Requests, HandlerStep(r) PROVE ExperienceInv'
  <2>1. ASSUME NEW u \in Users, NEW c \in Rows,
               DeleteReply(r, u, c) \/ Edit(r, u, c) \/ Resolve(r, u, c)
        PROVE  ExperienceInv'
    <3>1. UNCHANGED <<ledger, experience, likes, due, failed>>
      BY <2>1 DEF DeleteReply, Edit, Resolve, Statement, effects, history
    <3> QED BY <2>1, <3>1, RowsStay, NothingEarned
  <2>2. ASSUME DeleteThread(r) PROVE ExperienceInv'
    <3>1. UNCHANGED <<ledger, experience, likes, due, failed>>
      BY <2>2 DEF DeleteThread, effects, history
    <3> QED BY <2>2, <3>1, ThreadStays, NothingEarned
  <2>3. ASSUME NEW u \in Users, NEW c \in Rows,
               \/ \E k \in Gated : Begin(r, k, u, c) \/ BeginUnasked(r, k, u, c)
               \/ SelectThread(r, u, c) \/ FindUnliked(r, u, c)
        PROVE  ExperienceInv'
    BY <1>1, <2>3 DEF Begin, BeginUnasked, SelectThread, FindUnliked, stored, effects, history
  <2>4. CASE SelectRoot(r) \/ FindLiked(r) \/ Notify(r)
    BY <1>1, <2>4 DEF SelectRoot, FindLiked, Notify, stored, effects, history
  <2> QED BY <1>3, <2>1, <2>2, <2>3, <2>4, NewRowEarns, LikeEarns DEF HandlerStep
<1>4. CASE Fail \/ Crash
  BY <1>1, <1>4 DEF Fail, Crash, stored, effects
<1>5. CASE AdminStep
  <2>1. ASSUME NEW c \in Rows, Hide(c) \/ Restore(c) PROVE ExperienceInv'
    <3>1. UNCHANGED <<ledger, experience, likes, due, failed>>
      BY <2>1 DEF Hide, Restore, effects
    <3> QED BY <2>1, <3>1, RowsStay, NothingEarned
  <2>2. ASSUME NEW u \in Users, Ban(u) \/ Unban(u) PROVE ExperienceInv'
    BY <1>1, <2>2 DEF Ban, Unban, effects
  <2> QED BY <1>5, <2>1, <2>2 DEF AdminStep
<1> QED BY <1>2, <1>3, <1>4, <1>5, AwardGiven DEF Next

(* What each user is owed for, once nothing is on its way. *)
LEMMA CountedOnce ==
  ASSUME ThreadInv, ExperienceInv, due = {}, ~failed, NEW u \in Users,
         NEW action \in {"comment", "reply"},
         NEW earning, earning = {c \in By(u) : IsRoot(c) <=> action = "comment"}
  PROVE  Count(u, action) = Cardinality(earning)
<1> DEFINE counted == {e \in ledger : e.user = u /\ e.action = action}
           source == [e \in counted |-> e.source]
<1>1. Owed = ledger
  BY DEF Owed
<1>2. \A e \in counted : e.source \in earning /\ e = Earned(e.source)
  BY <1>1 DEF ExperienceInv, OwedInv, Earned, By
<1>3. \A c \in earning : Earned(c) \in counted /\ Earned(c).source = c
  BY <1>1 DEF ExperienceInv, OwedInv, Earned, By
<1>4. IsFiniteSet(counted)
  BY FS_Subset DEF ExperienceInv, LedgerInv
<1> HIDE DEF counted
<1>5. source \in [counted -> earning] /\ \A e \in counted : source[e] = e.source
  BY <1>2
<1> HIDE DEF source
<1>6. \A e, f \in counted : source[e] = source[f] => e = f
  BY <1>2, <1>5
<1>7. \A c \in earning : \E e \in counted : source[e] = c
  BY <1>3, <1>5
<1>8. ExistsBijection(counted, earning)
  BY <1>5, <1>6, <1>7 DEF ExistsBijection, Bijection, Injection, Surjection, IsInjective
<1> QED BY <1>4, <1>8, FS_Bijection DEF Count, counted

(* A user's experience is what they did, counted once whatever order the   *)
(* awards are given in; whatever fails, the ledger accounts for all of it  *)
(* (AddExperience).                                                        *)
THEOREM ExperienceIsEarned == Spec => []ExperienceEarned
<1>1. ThreadInv /\ ExperienceInv => ExperienceEarned
  <2> SUFFICES ASSUME ThreadInv, ExperienceInv, NEW u \in Users
               PROVE  /\ experience[u] = Points("comment") * Count(u, "comment")
                           + Points("reply") * Count(u, "reply") + Points("like") * Count(u, "like")
                      /\ Quiet /\ ~failed =>
                           /\ Count(u, "comment") = Cardinality({c \in By(u) : IsRoot(c)})
                           /\ Count(u, "reply") = Cardinality({c \in By(u) : ~IsRoot(c)})
                           /\ \A c \in Rows : <<c, u>> \in likes =>
                                [user |-> u, action |-> "like", source |-> c] \in ledger
    BY DEF ExperienceEarned
  <2>1. ASSUME Quiet, ~failed
        PROVE  /\ Count(u, "comment") = Cardinality({c \in By(u) : IsRoot(c)})
               /\ Count(u, "reply") = Cardinality({c \in By(u) : ~IsRoot(c)})
    <3>1. {c \in By(u) : IsRoot(c)} = {c \in By(u) : IsRoot(c) <=> "comment" = "comment"}
      OBVIOUS
    <3>2. {c \in By(u) : ~IsRoot(c)} = {c \in By(u) : IsRoot(c) <=> "reply" = "comment"}
      OBVIOUS
    <3> QED BY <2>1, <3>1, <3>2, CountedOnce DEF Quiet
  <2>2. ASSUME Quiet, ~failed, NEW c \in Rows, <<c, u>> \in likes
        PROVE  [user |-> u, action |-> "like", source |-> c] \in ledger
    <3>1. Liking(<<c, u>>) \in ledger
      BY <2>2 DEF Quiet, ExperienceInv, OwedInv, Owed
    <3> QED BY <3>1 DEF Liking
  <2> QED BY <2>1, <2>2 DEF ExperienceInv, LedgerInv
<1> QED BY <1>1, InitExperience, StepExperience, ThreadInvariant, PTL DEF Spec

-----------------------------------------------------------------------------
(* Live comments.  A page that is not doubtful is told of every change to  *)
(* the list after the read it shows, or is about to show what the list is. *)

Write == [at : {"idle", "stored", "published"}, op : {"create", "delete"}, comment : Comments]

Channel ==
  [page : Pages \cup {Unused.page}, used : BOOLEAN, listed : BOOLEAN, closed : BOOLEAN, events : Nat]

Shapes ==
  /\ listed \subseteq created /\ created \subseteq Comments
  /\ write \in [Clients -> Write] /\ channel \in [Connections -> Channel]
  /\ stream \in [Pages -> Connections \cup {NoConnection}]
  /\ read \in [Pages -> [Reads -> {NoRead, Sent} \cup SUBSET Comments]]
  /\ shown \in [Pages -> [Comments -> Nat]]

(* Who listens does so on a channel of his own that the hub lists. *)
StreamsInv ==
  \A p \in Pages : Listening(p) =>
    channel[stream[p]].used /\ channel[stream[p]].listed /\ channel[stream[p]].page = p

(* A change p is yet to be told of. *)
Behind(p) == Waiting(p) \/ \E u \in Clients : write[u].at = "stored"

(* With first and refresh read and n shown, what comes last is the list L. *)
Leads(first, refresh, n, again, L) ==
  \/ refresh \in {Sent, L}
  \/ /\ refresh = NoRead
     /\ \/ first \in {Sent, L}
        \/ first # NoRead /\ again
        \/ first = NoRead /\ n = Once(L)

Follows(p) ==
  p \notin doubtful =>
    Behind(p) \/ Leads(read[p]["first"], read[p]["refresh"], shown[p], p \in refreshed, listed)

FollowInv == Shapes /\ StreamsInv /\ \A p \in Pages : Follows(p)

LEMMA InitFollow == LiveInit => FollowInv
<1> SUFFICES ASSUME LiveInit PROVE FollowInv
  OBVIOUS
<1>1. 1 \in Comments
  BY BoundsAssumption DEF Comments
<1>2. Unused \in Channel
  BY DEF Unused, Channel
<1>3. Shapes
  BY <1>1, <1>2 DEF LiveInit, Shapes, Write, NoWrite, Opening, Reads
<1>4. StreamsInv
  BY DEF LiveInit, StreamsInv, Listening
<1>5. \A p \in Pages : Follows(p)
  <2>1. Opening["first"] = Sent /\ Opening["refresh"] = NoRead
    BY DEF Opening
  <2>2. \A p \in Pages : read[p]["first"] = Sent /\ read[p]["refresh"] = NoRead
    BY <2>1 DEF LiveInit
  <2> QED BY <2>2 DEF Follows, Leads
<1> QED BY <1>3, <1>4, <1>5 DEF FollowInv

LEMMA SubscribeFollow ==
  ASSUME FollowInv, NEW p \in Pages, NEW c \in Connections, Subscribe(p, c)
  PROVE  FollowInv'
<1> USE DEF FollowInv
<1>1. PICK x : x = [Unused EXCEPT !.page = p, !.used = TRUE, !.listed = TRUE]
  OBVIOUS
<1>2. x \in Channel /\ x.page = p /\ x.used /\ x.listed /\ x.events = 0
  BY <1>1 DEF Unused, Channel
<1>3. /\ channel' = [channel EXCEPT ![c] = x] /\ stream' = [stream EXCEPT ![p] = c]
      /\ UNCHANGED <<listed, created, write, read, shown, doubtful, refreshed>>
      /\ ~Listening(p) /\ ~channel[c].used
  BY <1>1 DEF Subscribe, store, Connections
<1>4. Shapes'
  BY <1>2, <1>3 DEF Shapes
<1>5. /\ stream'[p] = c /\ channel'[c] = x
      /\ \A q \in Pages \ {p} : stream'[q] = stream[q]
           /\ (Listening(q) => stream[q] # c /\ stream[q] \in Connections /\ channel'[stream[q]] = channel[stream[q]])
  BY <1>3 DEF Shapes, StreamsInv, Listening
<1>6. StreamsInv'
  BY <1>2, <1>5 DEF StreamsInv, Listening
<1>7. ASSUME NEW q \in Pages PROVE Waiting(q) => Waiting(q)'
  BY <1>3, <1>5 DEF Waiting, Listening
<1>8. \A q \in Pages : Follows(q)'
  BY <1>3, <1>7 DEF Follows, Behind
<1> QED BY <1>4, <1>6, <1>8

LEMMA LoseFollow ==
  ASSUME FollowInv, NEW p \in Pages, Lose(p)
  PROVE  FollowInv'
<1> USE DEF FollowInv
<1>1. /\ stream' = [stream EXCEPT ![p] = NoConnection]
      /\ doubtful' = IF Waiting(p) THEN doubtful \cup {p} ELSE doubtful
      /\ UNCHANGED <<listed, created, write, channel, read, shown, refreshed>>
  BY DEF Lose, store
<1>2. stream'[p] = NoConnection /\ \A q \in Pages \ {p} : stream'[q] = stream[q]
  BY <1>1 DEF Shapes
<1>3. Shapes' /\ StreamsInv'
  BY <1>1, <1>2 DEF Shapes, StreamsInv, Listening
<1>4. ASSUME NEW q \in Pages, q \notin doubtful' PROVE Behind(q) => Behind(q)'
  BY <1>1, <1>2, <1>4 DEF Behind, Waiting, Listening
<1>5. \A q \in Pages : Follows(q)'
  BY <1>1, <1>4 DEF Follows
<1> QED BY <1>3, <1>5

LEMMA ForgetFollow ==
  ASSUME FollowInv, NEW c \in Connections, Unsubscribe(c) \/ CloseChannel(c)
  PROVE  FollowInv'
<1> USE DEF FollowInv
<1>1. /\ UNCHANGED <<listed, created, write, stream, read, shown, doubtful, refreshed>>
      /\ \/ channel' = [channel EXCEPT ![c].listed = FALSE]
         \/ channel' = [channel EXCEPT ![c].closed = TRUE]
      /\ channel[c].used /\ stream[channel[c].page] # c
  BY DEF Unsubscribe, CloseChannel, Abandoned, store
<1>2. Shapes'
  <2>1. channel[c] \in Channel
    BY DEF Shapes
  <2>2. PICK y : y \in {[channel[c] EXCEPT !.listed = FALSE], [channel[c] EXCEPT !.closed = TRUE]}
                 /\ channel' = [channel EXCEPT ![c] = y]
    BY <1>1
  <2>3. y \in Channel
    BY <2>1, <2>2 DEF Channel
  <2> QED BY <1>1, <2>2, <2>3 DEF Shapes
<1>3. /\ \A d \in Connections \ {c} : channel'[d] = channel[d]
      /\ channel'[c].events = channel[c].events
  BY <1>1 DEF Shapes, Channel
<1>4. \A q \in Pages : Listening(q) => stream[q] # c /\ stream[q] \in Connections
  BY <1>1 DEF StreamsInv, Listening, Shapes
<1>5. StreamsInv'
  BY <1>1, <1>3, <1>4 DEF StreamsInv, Listening
<1>6. \A q \in Pages : Behind(q)' <=> Behind(q)
  BY <1>1, <1>3, <1>4 DEF Behind, Waiting, Listening
<1>7. \A q \in Pages : Follows(q)'
  BY <1>1, <1>6 DEF Follows
<1> QED BY <1>2, <1>5, <1>7

LEMMA StoreFollow ==
  ASSUME FollowInv, NEW u \in Clients, NEW x \in Comments, CreateComment(u, x) \/ Delete(u, x)
  PROVE  FollowInv'
<1> USE DEF FollowInv
<1>1. /\ UNCHANGED <<channel, stream, read, shown, doubtful, refreshed>>
      /\ write[u].at = "idle"
  BY DEF CreateComment, Delete, Store, hub
<1>2. PICK w \in Write : write' = [write EXCEPT ![u] = w] /\ w.at = "stored"
  <2>1. ASSUME NEW op \in {"create", "delete"}, Store(u, op, x)
        PROVE  \E w \in Write : write' = [write EXCEPT ![u] = w] /\ w.at = "stored"
    <3>1. PICK w : w = [at |-> "stored", op |-> op, comment |-> x]
      OBVIOUS
    <3>2. w \in Write /\ w.at = "stored"
      BY <3>1 DEF Write
    <3> QED BY <2>1, <3>1, <3>2 DEF Store
  <2>2. CASE CreateComment(u, x)
    BY <2>1, <2>2 DEF CreateComment
  <2>3. CASE Delete(u, x)
    BY <2>1, <2>3 DEF Delete
  <2> QED BY <2>2, <2>3
<1>3. listed' \subseteq created' /\ created' \subseteq Comments
  <2>1. CASE CreateComment(u, x)
    BY <2>1 DEF CreateComment, Shapes, Comments
  <2>2. CASE Delete(u, x)
    BY <2>2 DEF Delete, Shapes
  <2> QED BY <2>1, <2>2
<1>4. Shapes'
  BY <1>1, <1>2, <1>3 DEF Shapes
<1>5. write'[u] = w /\ \A v \in Clients \ {u} : write'[v] = write[v]
  BY <1>2 DEF Shapes
<1>6. StreamsInv'
  BY <1>1 DEF StreamsInv, Listening
<1>7. \A p \in Pages : Follows(p)'
  BY <1>2, <1>5 DEF Follows, Behind
<1> QED BY <1>4, <1>6, <1>7

(* A change without an event: who is about to read will see it, and all    *)
(* others are doubtful.                                                    *)
LEMMA UnheardFollow ==
  ASSUME FollowInv, UNCHANGED <<created, channel, stream, read, shown, refreshed>>,
         listed' \subseteq created, write' \in [Clients -> Write],
         doubtful' = doubtful \cup {p \in Pages : ~ReadsLater(p)}
  PROVE  FollowInv'
<1> USE DEF FollowInv
<1>1. Shapes' /\ StreamsInv'
  BY DEF Shapes, StreamsInv, Listening
<1>2. Opening["first"] = Sent /\ Opening["refresh"] = NoRead
  BY DEF Opening
<1>3. ASSUME NEW p \in Pages, p \notin doubtful'
      PROVE  Behind(p)' \/ Leads(read[p]["first"], read[p]["refresh"], shown[p], p \in refreshed, listed')
  <2>1. Waiting(p) \/ read[p].refresh = Sent \/ read[p] = Opening
    BY <1>3 DEF ReadsLater
  <2>2. CASE Waiting(p)
    BY <2>2 DEF Behind, Waiting, Listening
  <2>3. CASE read[p].refresh = Sent
    BY <2>3 DEF Leads
  <2>4. CASE read[p] = Opening
    BY <1>2, <2>4 DEF Leads
  <2> QED BY <2>1, <2>2, <2>3, <2>4
<1>4. \A p \in Pages : Follows(p)'
  BY <1>3 DEF Follows
<1> QED BY <1>1, <1>4

LEMMA StoredUnheardFollow ==
  ASSUME FollowInv, NEW u \in Clients, StoredUnheard(u)
  PROVE  FollowInv'
<1>1. /\ write' = [write EXCEPT ![u] = NoWrite]
      /\ doubtful' = doubtful \cup {p \in Pages : ~ReadsLater(p)}
      /\ UNCHANGED <<listed, created, channel, stream, read, shown, refreshed>>
  BY DEF StoredUnheard, store, hub
<1>2. NoWrite \in Write
  BY BoundsAssumption DEF NoWrite, Write, Comments
<1>3. listed' \subseteq created /\ write' \in [Clients -> Write]
  BY <1>1, <1>2 DEF FollowInv, Shapes
<1> QED BY <1>1, <1>3, UnheardFollow

LEMMA ModerateFollow ==
  ASSUME FollowInv, NEW x \in Comments, Moderate(x)
  PROVE  FollowInv'
<1>1. /\ x \in created /\ listed' = IF x \in listed THEN listed \ {x} ELSE listed \cup {x}
      /\ doubtful' = doubtful \cup {p \in Pages : ~ReadsLater(p)}
      /\ UNCHANGED <<created, write, channel, stream, read, shown, refreshed>>
  BY DEF Moderate, hub
<1>2. listed' \subseteq created /\ write' \in [Clients -> Write]
  BY <1>1 DEF FollowInv, Shapes
<1> QED BY <1>1, <1>2, UnheardFollow

LEMMA PublishFollow ==
  ASSUME FollowInv, NEW u \in Clients, Publish(u)
  PROVE  FollowInv'
<1> USE DEF FollowInv
<1>1. PICK taking \in SUBSET Connections :
        /\ taking = {c \in Connections : ~Full(c)}
        /\ channel' = [c \in Connections |->
              IF channel[c].listed /\ c \in taking THEN [channel[c] EXCEPT !.events = @ + 1] ELSE channel[c]]
  BY DEF Publish, Sending
<1>2. /\ write[u].at = "stored" /\ write' = [write EXCEPT ![u].at = "published"]
      /\ doubtful' = doubtful \cup {q \in Pages : ~Listening(q) /\ read[q] # Opening}
      /\ UNCHANGED <<listed, created, stream, read, shown, refreshed>>
  BY DEF Publish, Sending, store
<1>3. \A c \in Connections :
        /\ channel'[c] \in Channel
        /\ channel'[c].used = channel[c].used /\ channel'[c].listed = channel[c].listed
        /\ channel'[c].page = channel[c].page
        /\ channel[c].events > 0 \/ channel[c].listed => channel'[c].events > 0
  <2> SUFFICES ASSUME NEW c \in Connections
               PROVE  /\ channel'[c] \in Channel
                      /\ channel'[c].used = channel[c].used /\ channel'[c].listed = channel[c].listed
                      /\ channel'[c].page = channel[c].page
                      /\ channel[c].events > 0 \/ channel[c].listed => channel'[c].events > 0
    OBVIOUS
  <2>1. channel[c] \in Channel
    BY DEF Shapes
  <2>2. CASE channel[c].listed /\ c \in taking
    <3>1. channel'[c] = [channel[c] EXCEPT !.events = @ + 1]
      BY <1>1, <2>2
    <3> QED BY <2>1, <3>1 DEF Channel
  <2>3. CASE ~(channel[c].listed /\ c \in taking)
    <3>1. channel'[c] = channel[c]
      BY <1>1, <2>3
    <3>2. channel[c].listed => channel[c].events = Buffer
      BY <1>1, <2>3 DEF Full
    <3> QED BY <2>1, <3>1, <3>2, BufferAssumption
  <2> QED BY <2>2, <2>3
<1>5. Shapes'
  <2>1. channel' \in [Connections -> Channel]
    BY <1>1, <1>3
  <2>2. write' \in [Clients -> Write]
    BY <1>2 DEF Shapes, Write
  <2> QED BY <1>2, <2>1, <2>2 DEF Shapes
<1>6. StreamsInv'
  BY <1>2, <1>3 DEF StreamsInv, Listening, Shapes
<1>8. \A p \in Pages : Follows(p)'
  <2> SUFFICES ASSUME NEW p \in Pages, p \notin doubtful'
               PROVE  Behind(p)' \/ Leads(read[p]["first"], read[p]["refresh"], shown[p], p \in refreshed, listed)
    BY <1>2 DEF Follows
  <2>1. CASE Listening(p)
    <3>1. stream'[p] = stream[p] /\ stream[p] \in Connections /\ channel[stream[p]].listed
      BY <1>2, <2>1 DEF StreamsInv, Listening, Shapes
    <3>2. channel'[stream'[p]].events > 0
      BY <1>3, <3>1
    <3> QED BY <2>1, <3>1, <3>2 DEF Behind, Waiting, Listening
  <2>2. CASE ~Listening(p)
    <3>1. read[p] = Opening
      BY <1>2, <2>2
    <3>2. read[p]["first"] = Sent /\ read[p]["refresh"] = NoRead
      BY <3>1 DEF Opening
    <3> QED BY <3>2 DEF Leads
  <2> QED BY <2>1, <2>2
<1> QED BY <1>5, <1>6, <1>8

LEMMA LostFollow ==
  ASSUME FollowInv, NEW u \in Clients, AnswerLost(u)
  PROVE  FollowInv'
<1> USE DEF FollowInv
<1>1. /\ write[u].at = "published" /\ write' = [write EXCEPT ![u] = NoWrite]
      /\ UNCHANGED <<listed, created, channel, stream, read, shown, doubtful, refreshed>>
  BY DEF AnswerLost, store, hub
<1>2. NoWrite \in Write /\ NoWrite.at = "idle"
  BY BoundsAssumption DEF NoWrite, Write, Comments
<1>3. write'[u] = NoWrite /\ \A v \in Clients \ {u} : write'[v] = write[v]
  BY <1>1 DEF Shapes
<1>4. Shapes' /\ StreamsInv'
  BY <1>1, <1>2 DEF Shapes, StreamsInv, Listening
<1>5. \A p \in Pages : Behind(p) => Behind(p)'
  BY <1>1, <1>3 DEF Behind, Waiting, Listening
<1>6. \A p \in Pages : Follows(p)'
  BY <1>1, <1>5 DEF Follows
<1> QED BY <1>4, <1>6

LEMMA AnsweredFollow ==
  ASSUME FollowInv, NEW u \in Clients, Answered(u)
  PROVE  FollowInv'
<1> USE DEF FollowInv
<1>1. /\ write[u].at = "published" /\ write' = [write EXCEPT ![u] = NoWrite]
      /\ UNCHANGED <<listed, created, channel, stream, read, refreshed>>
      /\ IF u \in Pages THEN ShowAnswer(u) ELSE UNCHANGED <<shown, doubtful>>
  BY DEF Answered, store, hub
<1>2. NoWrite \in Write /\ NoWrite.at = "idle"
  BY BoundsAssumption DEF NoWrite, Write, Comments
<1>3. write'[u] = NoWrite /\ \A v \in Clients \ {u} : write'[v] = write[v]
  BY <1>1 DEF Shapes
<1>4. PICK w \in Write : w = write[u]
  BY DEF Shapes
<1>5. u \in Pages =>
        /\ shown' = [shown EXCEPT ![u][w.comment] = IF w.op = "create" THEN @ + 1 ELSE 0]
        /\ doubtful' = IF /\ w.op = "create" \/ w.comment \in listed
                          /\ ~Waiting(u) /\ read[u].refresh = NoRead
                       THEN doubtful \cup {u} ELSE doubtful
  BY <1>1, <1>4 DEF ShowAnswer
<1>6. shown' \in [Pages -> [Comments -> Nat]]
  <2>1. CASE u \in Pages
    <3>1. PICK x \in Comments, n \in Nat : shown' = [shown EXCEPT ![u][x] = n]
      <4>1. w.comment \in Comments /\ shown[u][w.comment] \in Nat
        BY <2>1 DEF Shapes, Write
      <4>2. PICK n : n = IF w.op = "create" THEN shown[u][w.comment] + 1 ELSE 0
        OBVIOUS
      <4>3. n \in Nat
        BY <4>1, <4>2
      <4> QED BY <1>5, <2>1, <4>1, <4>2, <4>3
    <3> QED BY <2>1, <3>1 DEF Shapes
  <2>2. CASE u \notin Pages
    BY <1>1, <2>2 DEF Shapes
  <2> QED BY <2>1, <2>2
<1>7. Shapes' /\ StreamsInv'
  BY <1>1, <1>2, <1>6 DEF Shapes, StreamsInv, Listening
<1>9. \A p \in Pages : Behind(p)' <=> Behind(p)
  BY <1>1, <1>2, <1>3 DEF Behind, Waiting, Listening
<1>10. ASSUME NEW p \in Pages PROVE Follows(p)'
  <2>1. CASE p # u \/ u \notin Pages
    <3>1. shown'[p] = shown[p] /\ (p \in doubtful <=> p \in doubtful')
      BY <1>1, <1>5, <2>1 DEF Shapes
    <3> QED BY <1>1, <1>9, <3>1 DEF Follows
  <2>2. CASE p = u /\ w.op = "create"
    <3>1. p \notin doubtful' => Waiting(p) \/ read[p]["refresh"] # NoRead
      BY <1>5, <2>2
    <3> QED BY <1>1, <1>5, <1>9, <2>2, <3>1 DEF Follows, Leads, Behind
  <2>3. CASE p = u /\ w.op = "delete"
    <3>1. CASE w.comment \in listed
      <4>1. p \notin doubtful' => Waiting(p) \/ read[p]["refresh"] # NoRead
        BY <1>5, <2>3, <3>1
      <4> QED BY <1>1, <1>5, <1>9, <2>3, <4>1 DEF Follows, Leads, Behind
    <3>2. CASE w.comment \notin listed
      <4>1. w.comment \in Comments
        BY DEF Write
      <4>2. shown[p] = Once(listed) => shown'[p] = Once(listed)
        BY <1>5, <2>3, <3>2, <4>1 DEF Once, Shapes
      <4> QED BY <1>1, <1>5, <1>9, <2>3, <3>2, <4>2 DEF Follows, Leads
    <3> QED BY <3>1, <3>2
  <2> QED BY <1>4, <2>1, <2>2, <2>3 DEF Write
<1> QED BY <1>7, <1>10

LEMMA ReceiveFollow ==
  ASSUME FollowInv, NEW p \in Pages, Receive(p)
  PROVE  FollowInv'
<1> USE DEF FollowInv
<1>1. /\ UNCHANGED <<listed, created, write, stream, shown, doubtful, refreshed>>
      /\ Waiting(p) /\ channel' = [channel EXCEPT ![stream[p]].events = @ - 1]
      /\ read' = [read EXCEPT ![p].refresh = Sent]
  BY DEF Receive, store
<1>2. PICK c \in Connections : c = stream[p]
  BY <1>1 DEF Waiting, Listening, Shapes
<1>3. channel[c].events > 0 /\ channel[c] \in Channel /\ channel' = [channel EXCEPT ![c].events = @ - 1]
  BY <1>1, <1>2 DEF Waiting, Shapes
<1>4. /\ channel' \in [Connections -> Channel]
      /\ \A d \in Connections : channel'[d].used = channel[d].used /\ channel'[d].listed = channel[d].listed
                                /\ channel'[d].page = channel[d].page
                                /\ (d # c => channel'[d] = channel[d])
  <2>1. PICK y : y = [channel[c] EXCEPT !.events = @ - 1]
    OBVIOUS
  <2>2. y \in Channel /\ y.used = channel[c].used /\ y.listed = channel[c].listed /\ y.page = channel[c].page
    BY <1>3, <2>1 DEF Channel
  <2>3. channel' = [channel EXCEPT ![c] = y]
    BY <1>3, <2>1
  <2> QED BY <2>2, <2>3 DEF Shapes
<1>5. /\ read' \in [Pages -> [Reads -> {NoRead, Sent} \cup SUBSET Comments]]
      /\ read'[p]["refresh"] = Sent /\ \A q \in Pages \ {p} : read'[q] = read[q]
  BY <1>1 DEF Shapes, Reads
<1>6. Shapes' /\ StreamsInv'
  <2>1. Shapes'
    BY <1>1, <1>4, <1>5 DEF Shapes
  <2>2. StreamsInv'
    BY <1>1, <1>4 DEF Shapes, StreamsInv, Listening
  <2> QED BY <2>1, <2>2
<1>7. \A q \in Pages \ {p} : Behind(q) => Behind(q)'
  <2>1. ASSUME NEW q \in Pages \ {p}, Waiting(q) PROVE Waiting(q)'
    <3>1. stream[q] \in Connections /\ stream[q] # c
      BY <1>2, <1>1, <2>1 DEF StreamsInv, Waiting, Listening, Shapes
    <3> QED BY <1>1, <1>4, <2>1, <3>1 DEF Waiting, Listening
  <2> QED BY <1>1, <2>1 DEF Behind
<1>8. \A q \in Pages : Follows(q)'
  BY <1>1, <1>5, <1>7 DEF Follows, Leads
<1> QED BY <1>6, <1>8

(* A read of the list, shown or failed, moves one page. *)
LEMMA ReadFollow ==
  ASSUME FollowInv, NEW p \in Pages, NEW kind \in Reads, NEW x \in {NoRead, Sent} \cup SUBSET Comments,
         UNCHANGED <<listed, created, write, channel, stream>>,
         read' = [read EXCEPT ![p][kind] = x],
         shown' \in [Pages -> [Comments -> Nat]],
         \A q \in Pages \ {p} : /\ shown'[q] = shown[q] /\ (q \in doubtful' <=> q \in doubtful)
                                /\ (q \in refreshed' <=> q \in refreshed),
         p \notin doubtful' =>
           \/ Behind(p)
           \/ Leads(IF kind = "first" THEN x ELSE read[p]["first"],
                    IF kind = "refresh" THEN x ELSE read[p]["refresh"], shown'[p], p \in refreshed', listed)
  PROVE  FollowInv'
<1> USE DEF FollowInv
<1>1. /\ read' \in [Pages -> [Reads -> {NoRead, Sent} \cup SUBSET Comments]]
      /\ read'[p]["first"] = IF kind = "first" THEN x ELSE read[p]["first"]
      /\ read'[p]["refresh"] = IF kind = "refresh" THEN x ELSE read[p]["refresh"]
      /\ \A q \in Pages \ {p} : read'[q] = read[q]
  BY DEF Shapes, Reads
<1>2. Shapes' /\ StreamsInv'
  BY <1>1 DEF Shapes, StreamsInv, Listening
<1>3. \A q \in Pages : Behind(q)' <=> Behind(q)
  BY DEF Behind, Waiting, Listening
<1>4. Follows(p)'
  BY <1>1, <1>3 DEF Follows
<1>5. \A q \in Pages \ {p} : Follows(q)'
  BY <1>1, <1>3 DEF Follows
<1> QED BY <1>2, <1>4, <1>5

LEMMA ListFollow ==
  ASSUME FollowInv, NEW p \in Pages, NEW kind \in Reads, List(p, kind)
  PROVE  FollowInv'
<1>1. /\ UNCHANGED <<listed, created, write, channel, stream, shown, refreshed>>
      /\ read[p][kind] = Sent /\ read' = [read EXCEPT ![p][kind] = listed]
      /\ doubtful' = IF kind = "refresh" THEN doubtful \ {p} ELSE doubtful
  BY DEF List, store, hub
<1>2. listed \in SUBSET Comments /\ shown' \in [Pages -> [Comments -> Nat]] /\ Follows(p)
  BY <1>1 DEF FollowInv, Shapes
<1>3. p \notin doubtful' =>
        \/ Behind(p)
        \/ Leads(IF kind = "first" THEN listed ELSE read[p]["first"],
                 IF kind = "refresh" THEN listed ELSE read[p]["refresh"], shown'[p], p \in refreshed', listed)
  <2>1. CASE kind = "refresh"
    BY <2>1 DEF Leads
  <2>2. CASE kind = "first"
    BY <1>1, <1>2, <2>2 DEF Follows, Leads
  <2> QED BY <2>1, <2>2 DEF Reads
<1> QED BY <1>1, <1>2, <1>3, ReadFollow

LEMMA ShowFollow ==
  ASSUME FollowInv, NEW p \in Pages, NEW kind \in Reads, Show(p, kind)
  PROVE  FollowInv'
<1>1. /\ UNCHANGED <<listed, created, write, channel, stream>>
      /\ read[p][kind] \notin {Sent, NoRead} /\ read' = [read EXCEPT ![p][kind] = NoRead]
      /\ shown' = [shown EXCEPT ![p] = Once(read[p][kind])]
      /\ refreshed' = IF kind = "refresh" THEN refreshed \cup {p} ELSE refreshed
      /\ doubtful' = IF kind = "first" /\ p \in refreshed THEN doubtful \cup {p} ELSE doubtful
  BY DEF Show, store, hub
<1>2. Follows(p) /\ Once(read[p][kind]) \in [Comments -> Nat]
  BY DEF FollowInv, Once
<1>3. shown' \in [Pages -> [Comments -> Nat]] /\ shown'[p] = Once(read[p][kind])
  BY <1>1, <1>2 DEF FollowInv, Shapes
<1>4. p \notin doubtful' =>
        \/ Behind(p)
        \/ Leads(IF kind = "first" THEN NoRead ELSE read[p]["first"],
                 IF kind = "refresh" THEN NoRead ELSE read[p]["refresh"], shown'[p], p \in refreshed', listed)
  <2>1. CASE kind = "refresh"
    BY <1>1, <1>2, <1>3, <2>1 DEF Follows, Leads
  <2>2. CASE kind = "first"
    BY <1>1, <1>2, <1>3, <2>2 DEF Follows, Leads
  <2> QED BY <2>1, <2>2 DEF Reads
<1>5. \A q \in Pages \ {p} : shown'[q] = shown[q]
  BY <1>1 DEF FollowInv, Shapes
<1> QED BY <1>1, <1>3, <1>4, <1>5, ReadFollow

LEMMA FailsFollow ==
  ASSUME FollowInv, NEW p \in Pages, NEW kind \in Reads, ReadFails(p, kind)
  PROVE  FollowInv'
<1>1. /\ UNCHANGED <<listed, created, write, channel, stream, refreshed>>
      /\ read' = [read EXCEPT ![p][kind] = NoRead] /\ doubtful' = doubtful \cup {p}
      /\ shown' = IF kind = "first" THEN [shown EXCEPT ![p] = Once({})] ELSE shown
  BY DEF ReadFails, store, hub
<1>2. Once({}) \in [Comments -> Nat]
  BY DEF Once
<1>3. /\ shown' \in [Pages -> [Comments -> Nat]]
      /\ \A q \in Pages \ {p} : shown'[q] = shown[q]
  BY <1>1, <1>2 DEF FollowInv, Shapes
<1> QED BY <1>1, <1>3, ReadFollow

LEMMA StepFollow == FollowInv /\ [LiveNext]_liveVars => FollowInv'
<1> SUFFICES ASSUME FollowInv, [LiveNext]_liveVars PROVE FollowInv'
  OBVIOUS
<1>1. CASE UNCHANGED liveVars
  BY <1>1 DEF liveVars, store, hub, FollowInv, Shapes, StreamsInv, Follows, Behind, Waiting, Listening
<1>2. CASE LiveNext
  BY <1>2, StoreFollow, StoredUnheardFollow, ModerateFollow, PublishFollow, AnsweredFollow, LostFollow,
     SubscribeFollow, LoseFollow, ReceiveFollow, ListFollow, ShowFollow, FailsFollow, ForgetFollow DEF LiveNext, Gateway
<1> QED BY <1>1, <1>2

LEMMA FollowCatchesUp == FollowInv => PagesCatchUp
<1> SUFFICES ASSUME FollowInv, NEW p \in Pages, AtRest(p), p \notin doubtful
             PROVE  shown[p] = Once(listed)
  BY DEF PagesCatchUp
<1>1. read[p]["first"] = NoRead /\ read[p]["refresh"] = NoRead
  BY DEF AtRest
<1>2. ~Behind(p)
  BY DEF AtRest, Behind
<1>3. NoRead # Sent /\ NoRead # listed
  BY MarksAssumption DEF FollowInv, Shapes
<1> QED BY <1>1, <1>2, <1>3 DEF FollowInv, Follows, Leads

(* A page that comes to rest shows the comments there are, each once,      *)
(* unless it is doubtful - for one of the reasons PagesCatchUp lists, acts *)
(* of admins and changes without an event among them - however small the   *)
(* channels, for any number of pages and connections (commentEventHub,     *)
(* refreshComments, SetAdminHidden).                                       *)
THEOREM PagesDoCatchUp == LiveSpec => []PagesCatchUp
<1>1. LiveSpec => []FollowInv
  BY InitFollow, StepFollow, PTL DEF LiveSpec
<1> QED BY <1>1, FollowCatchesUp, PTL
=============================================================================
