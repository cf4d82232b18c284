------------------------ MODULE CollaborationAccess ------------------------
(***************************************************************************)
(* Who is in the collaboration rooms of one project (collaboration.go).    *)
(* A WebSocket handler looks up the role of its user, upgrades, and joins  *)
(* the hub; a management handler changes a role and, once the database has *)
(* answered, closes the connections the hub lists for that user.  Nothing  *)
(* holds a lock over both, so every database or hub call is a step of its  *)
(* own.                                                                    *)
(* The owner and admins need no role and are never disconnected: they are  *)
(* left out.  A room stands for the project body or for one document.      *)
(***************************************************************************)
EXTENDS FiniteSets

CONSTANTS Users, Rooms, Sessions, Managers

VARIABLES
  role,       \* project_collaborators: the role of each user, or "none"
  session,    \* each WebSocket handler: how far it is, for whom, in which room
  rooms,      \* hub.rooms
  manager,    \* what each management handler still has to do
  missed      \* history: connections of former editors that no handler will close

vars == <<role, session, rooms, manager, missed>>

Roles == {"none", "viewer", "editor"}
NotYet == [at |-> "new"]
Idle == [at |-> "idle"]

Init ==
  /\ role = [u \in Users |-> "none"]
  /\ session = [s \in Sessions |-> NotYet]
  /\ rooms = [r \in Rooms |-> {}]
  /\ manager = [m \in Managers |-> Idle]
  /\ missed = {}

(* The handlers of user u, and those of them at one step. *)
Of(u) == {s \in Sessions : session[s].at # "new" /\ session[s].user = u}
At(step, u) == {s \in Sessions : session[s].at = step /\ session[s].user = u}
Connected(u) == {s \in UNION {rooms[r] : r \in Rooms} : session[s].user = u}

(* WebSocket handlers -----------------------------------------------------*)

Move(s, step) == session' = [session EXCEPT ![s].at = step]

(* resolveCollaborationAccess: only an editor passes. *)
Admit(s, u, r) ==
  /\ session[s] = NotYet /\ role[u] = "editor"
  /\ session' = [session EXCEPT ![s] = [at |-> "admitted", user |-> u, room |-> r]]
  /\ UNCHANGED <<role, rooms, manager, missed>>

(* The document is unknown or the upgrade fails. *)
Refuse(s) ==
  /\ session[s].at = "admitted" /\ Move(s, "over")
  /\ UNCHANGED <<role, rooms, manager, missed>>

(* hub.join *)
Join(s) ==
  /\ session[s].at = "admitted" /\ Move(s, "joined")
  /\ rooms' = [rooms EXCEPT ![session[s].room] = @ \cup {s}]
  /\ UNCHANGED <<role, manager, missed>>

(* The read loop ends, by itself or because the connection was closed, and *)
(* the deferred function leaves the hub.                                   *)
Leave(s) ==
  /\ session[s].at \in {"joined", "closing"} /\ Move(s, "over")
  /\ rooms' = [rooms EXCEPT ![session[s].room] = @ \ {s}]
  /\ UNCHANGED <<role, manager, missed>>

(* Management handlers ----------------------------------------------------*)

(* Faulty: only a removal disconnects. *)
UpsertKeepsConnections(m, u, newRole) ==
  /\ manager[m] = Idle
  /\ role' = [role EXCEPT ![u] = newRole]
  /\ UNCHANGED <<session, rooms, manager, missed>>

(* POST collaborators, UpsertCollaborator's INSERT: the role is committed  *)
(* here.  The answer of an editor's grant changes nothing any more.        *)
Upsert(m, u, newRole) ==
  /\ manager[m] = Idle
  /\ role' = [role EXCEPT ![u] = newRole]
  /\ IF newRole = "editor"
     THEN missed' = missed \ Of(u) /\ UNCHANGED manager
     ELSE manager' = [manager EXCEPT ![m] = [at |-> "awaiting", user |-> u]] /\ UNCHANGED missed
  /\ UNCHANGED <<session, rooms>>

(* DELETE collaborator, the statement of DeleteCollaborator. *)
Remove(m, u) ==
  /\ manager[m] = Idle /\ role[u] # "none"
  /\ role' = [role EXCEPT ![u] = "none"]
  /\ manager' = [manager EXCEPT ![m] = [at |-> "awaiting", user |-> u]]
  /\ UNCHANGED <<session, rooms, missed>>

(* The answer arrives, to an upsert that of the SELECT that reads the row  *)
(* back: on to disconnectProjectUser.                                      *)
Answered(m) ==
  /\ manager[m].at = "awaiting"
  /\ manager' = [manager EXCEPT ![m].at = "listing"]
  /\ UNCHANGED <<role, session, rooms, missed>>

(* The read-back fails, or the request is cancelled before the database    *)
(* answers: a 500 for a role that is committed, and nobody is disconnected.*)
Unanswered(m) ==
  /\ manager[m].at = "awaiting"
  /\ manager' = [manager EXCEPT ![m] = Idle]
  /\ LET u == manager[m].user IN
       missed' = missed \cup (IF role[u] = "editor" THEN {} ELSE At("admitted", u) \cup At("joined", u))
  /\ UNCHANGED <<role, session, rooms>>

Doom(m, doomed) ==
  manager' = [manager EXCEPT ![m] =
    IF doomed = {} THEN Idle ELSE [at |-> "closing", user |-> manager[m].user, doomed |-> doomed]]

(* Who is still in a handshake when the hub is listed is passed over. *)
PassOver(u) == missed' = (missed \ Connected(u)) \cup At("admitted", u)

(* Faulty: the connections of one room only. *)
ListOneRoom(m) ==
  /\ manager[m].at = "listing"
  /\ \E r \in Rooms : Doom(m, Connected(manager[m].user) \cap rooms[r])
  /\ PassOver(manager[m].user)
  /\ UNCHANGED <<role, session, rooms>>

(* disconnectProjectUser, under the read lock: the user's connections in   *)
(* every room of the project.                                              *)
List(m) ==
  /\ manager[m].at = "listing"
  /\ Doom(m, Connected(manager[m].user))
  /\ PassOver(manager[m].user)
  /\ UNCHANGED <<role, session, rooms>>

(* connection.Close, one connection after the other. *)
Close(m) ==
  /\ manager[m].at = "closing"
  /\ \E s \in manager[m].doomed :
       /\ Doom(m, manager[m].doomed \ {s})
       /\ IF session[s].at = "joined" THEN Move(s, "closing") ELSE UNCHANGED session
  /\ UNCHANGED <<role, rooms, missed>>

Next ==
  \/ \E s \in Sessions :
       \/ \E u \in Users, r \in Rooms : Admit(s, u, r)
       \/ Refuse(s) \/ Join(s) \/ Leave(s)
  \/ \E m \in Managers :
       \/ \E u \in Users, newRole \in {"viewer", "editor"} : Upsert(m, u, newRole)
       \/ \E u \in Users : Remove(m, u)
       \/ Answered(m) \/ Unanswered(m) \/ List(m) \/ Close(m)

(* A handler's goroutine goes on, whether the database answers it or not,  *)
(* and Close gives up its wait for the peer's close frame after five       *)
(* seconds, which ends the read loop.  No request is bound to come, and no *)
(* connection to end by itself.                                            *)
Fairness ==
  /\ \A m \in Managers : WF_vars(Answered(m) \/ Unanswered(m) \/ List(m) \/ Close(m))
  /\ \A s \in Sessions : WF_vars(session[s].at = "closing" /\ Leave(s))

Spec == Init /\ [][Next]_vars /\ Fairness

-----------------------------------------------------------------------------
(* Types; the hub lists exactly the handlers between join and leave, each  *)
(* in the room of its document.                                            *)
TypeOK ==
  /\ role \in [Users -> Roles]
  /\ \A s \in Sessions :
       \/ session[s] = NotYet
       \/ session[s] \in [at : {"admitted", "joined", "closing", "over"}, user : Users, room : Rooms]
  /\ rooms = [r \in Rooms |->
       {s \in Sessions : session[s].at \in {"joined", "closing"} /\ session[s].room = r}]
  /\ \A m \in Managers :
       \/ manager[m] = Idle
       \/ manager[m] \in [at : {"awaiting", "listing"}, user : Users]
       \/ manager[m] \in [at : {"closing"}, user : Users, doomed : (SUBSET Sessions) \ {{}}]
  /\ missed \subseteq Sessions

(* The user of s is about to be disconnected, s included, unless the       *)
(* answer of the database fails to come.                                   *)
Doomed(s) ==
  \E m \in Managers :
    \/ manager[m].at \in {"awaiting", "listing"} /\ manager[m].user = session[s].user
    \/ manager[m].at = "closing" /\ s \in manager[m].doomed

(* However role changes, handshakes, disconnects and failures interleave,  *)
(* a user without the editor role keeps no open connection in any room,    *)
(* unless a handler is about to close it, or it was missed: the hub was    *)
(* listed in the middle of its handshake, or the handler of a committed    *)
(* change failed before it disconnected anybody - and since then no other  *)
(* handler listed it (collaborator handlers and disconnectProjectUser).    *)
EditorsOnly ==
  \A s \in Sessions :
    (session[s].at = "joined" /\ role[session[s].user] # "editor") => Doomed(s) \/ s \in missed

(* Whoever loses the editor role is out of every room before long, unless  *)
(* the role is given back, but for the connections that were missed (see   *)
(* above): a handler that was answered closes all the others.              *)
RevokedLeave ==
  \A u \in Users :
    role[u] # "editor" ~> (role[u] = "editor" \/ Connected(u) \subseteq missed)

=============================================================================
