------------------------ MODULE Collaboration_proofs ------------------------
(***************************************************************************)
(* Proofs about CollaborationAccess and CollaborationRoom, for any users,  *)
(* rooms, connections and management handlers, and any editors and edits:  *)
(* who is no editor stays in no room for long, and editors who are left    *)
(* alone come to agree.                                                    *)
(***************************************************************************)
EXTENDS CollaborationAccess, CollaborationRoom, SequenceTheorems, TLAPS

Session == {NotYet} \cup [at : {"admitted", "joined", "closing", "over"}, user : Users, room : Rooms]
Manager ==
  {Idle} \cup [at : {"awaiting", "listing"}, user : Users]
  \cup [at : {"closing"}, user : Users, doomed : (SUBSET Sessions) \ {{}}]

(* TypeOK does not say that session and manager are functions. *)
Functional == session \in [Sessions -> Session] /\ manager \in [Managers -> Manager]

(* A handler that has looked its user up and is not in the hub yet passed  *)
(* the check as an editor; when the user is no editor any more, a handler  *)
(* is about to list the hub, or the connection was missed.                 *)
AdmittedCounted ==
  \A s \in Sessions :
    session[s].at = "admitted" /\ role[session[s].user] # "editor" =>
      \/ \E m \in Managers : manager[m].at \in {"awaiting", "listing"} /\ manager[m].user = session[s].user
      \/ s \in missed

AccessInv == TypeOK /\ Functional /\ AdmittedCounted /\ EditorsOnly

LEMMA InitAccess == Init => AccessInv
<1> SUFFICES ASSUME Init PROVE AccessInv
  OBVIOUS
<1>1. TypeOK /\ Functional
  BY DEF Init, TypeOK, Functional, Roles, NotYet, Idle, Session, Manager
<1>2. AdmittedCounted /\ EditorsOnly
  BY DEF Init, AdmittedCounted, EditorsOnly, NotYet
<1> QED BY <1>1, <1>2 DEF AccessInv

(* A handler s goes on to step; nobody else does. *)
LEMMA MoveSession ==
  ASSUME Functional, NEW s \in Sessions, NEW step \in {"joined", "closing", "over"},
         session[s] # NotYet, Move(s, step)
  PROVE  /\ session' \in [Sessions -> Session]
         /\ session'[s].at = step /\ session'[s].user = session[s].user
         /\ session'[s].room = session[s].room /\ session'[s] # NotYet
         /\ \A t \in Sessions \ {s} : session'[t] = session[t]
BY DEF Functional, Session, Move, NotYet

LEMMA AdmitInv ==
  ASSUME AccessInv, NEW s \in Sessions, NEW u \in Users, NEW r \in Rooms, Admit(s, u, r)
  PROVE  AccessInv'
<1> USE DEF AccessInv
<1> DEFINE new == [at |-> "admitted", user |-> u, room |-> r]
<1>1. /\ new \in Session /\ new.at = "admitted" /\ new.user = u /\ new # NotYet
      /\ new \in [at : {"admitted", "joined", "closing", "over"}, user : Users, room : Rooms]
  BY DEF Session, NotYet
<1>2. /\ session' = [session EXCEPT ![s] = new] /\ session[s] = NotYet /\ role[u] = "editor"
      /\ UNCHANGED <<role, rooms, manager, missed>>
  BY DEF Admit
<1>3. session[s].at = "new"
  BY <1>2 DEF NotYet
<1> HIDE DEF new
<1>4. Functional'
  BY <1>1, <1>2 DEF Functional
<1>5. TypeOK'
  BY <1>1, <1>2, <1>3 DEF TypeOK, Functional
<1>6. AdmittedCounted' /\ EditorsOnly'
  BY <1>1, <1>2 DEF AdmittedCounted, EditorsOnly, Doomed, Functional
<1> QED BY <1>4, <1>5, <1>6

LEMMA RefuseInv ==
  ASSUME AccessInv, NEW s \in Sessions, Refuse(s)
  PROVE  AccessInv'
<1> USE DEF AccessInv
<1>1. session[s] # NotYet /\ session[s].at = "admitted" /\ Move(s, "over")
      /\ UNCHANGED <<role, rooms, manager, missed>>
  BY DEF Refuse, NotYet
<1>2. Functional'
  BY <1>1, MoveSession DEF Functional
<1>3. TypeOK'
  BY <1>1, MoveSession DEF TypeOK, Session
<1>4. AdmittedCounted' /\ EditorsOnly'
  BY <1>1, MoveSession DEF AdmittedCounted, EditorsOnly, Doomed
<1> QED BY <1>2, <1>3, <1>4

LEMMA JoinInv ==
  ASSUME AccessInv, NEW s \in Sessions, Join(s)
  PROVE  AccessInv'
<1> USE DEF AccessInv
<1>1. session[s] # NotYet /\ session[s].at = "admitted" /\ Move(s, "joined")
      /\ rooms' = [rooms EXCEPT ![session[s].room] = @ \cup {s}]
      /\ UNCHANGED <<role, manager, missed>>
  BY DEF Join, NotYet
<1>2. Functional'
  BY <1>1, MoveSession DEF Functional
<1>3. TypeOK'
  <2>1. /\ role' \in [Users -> Roles]
        /\ missed' \subseteq Sessions
        /\ rooms \in [Rooms -> SUBSET Sessions]
    BY <1>1 DEF TypeOK
  <2>2. session[s].room \in Rooms
    BY <1>1 DEF Functional, Session
  <2>3. \A t \in Sessions :
          \/ session'[t] = NotYet
          \/ session'[t] \in [at : {"admitted", "joined", "closing", "over"}, user : Users, room : Rooms]
    BY <1>2 DEF Functional, Session
  <2>4. ASSUME NEW r \in Rooms
        PROVE  rooms'[r] =
          {t \in Sessions : session'[t].at \in {"joined", "closing"} /\ session'[t].room = r}
    <3>1. rooms[r] = {t \in Sessions : session[t].at \in {"joined", "closing"} /\ session[t].room = r}
      BY DEF TypeOK
    <3>2. rooms'[r] = IF r = session[s].room THEN rooms[r] \cup {s} ELSE rooms[r]
      BY <1>1, <2>1, <2>2
    <3> QED BY <1>1, <3>1, <3>2, MoveSession
  <2>5. rooms' \in [Rooms -> SUBSET Sessions]
    BY <1>1, <2>1, <2>2
  <2>6. rooms' = [r \in Rooms |->
          {t \in Sessions : session'[t].at \in {"joined", "closing"} /\ session'[t].room = r}]
    BY <2>4, <2>5
  <2>7. \A m \in Managers :
          \/ manager'[m] = Idle
          \/ manager'[m] \in [at : {"awaiting", "listing"}, user : Users]
          \/ manager'[m] \in [at : {"closing"}, user : Users, doomed : (SUBSET Sessions) \ {{}}]
    BY <1>1 DEF TypeOK
  <2> QED BY <2>1, <2>3, <2>6, <2>7 DEF TypeOK
<1>4. AdmittedCounted' /\ EditorsOnly'
  BY <1>1, MoveSession DEF AdmittedCounted, EditorsOnly, Doomed
<1> QED BY <1>2, <1>3, <1>4

LEMMA LeaveInv ==
  ASSUME AccessInv, NEW s \in Sessions, Leave(s)
  PROVE  AccessInv'
<1> USE DEF AccessInv
<1>1. session[s] # NotYet /\ session[s].at \in {"joined", "closing"} /\ Move(s, "over")
      /\ rooms' = [rooms EXCEPT ![session[s].room] = @ \ {s}]
      /\ UNCHANGED <<role, manager, missed>>
  BY DEF Leave, NotYet
<1>2. Functional'
  BY <1>1, MoveSession DEF Functional
<1>3. TypeOK'
  <2>1. /\ role' \in [Users -> Roles]
        /\ missed' \subseteq Sessions
        /\ rooms \in [Rooms -> SUBSET Sessions]
    BY <1>1 DEF TypeOK
  <2>2. session[s].room \in Rooms
    BY <1>1 DEF Functional, Session
  <2>3. \A t \in Sessions :
          \/ session'[t] = NotYet
          \/ session'[t] \in [at : {"admitted", "joined", "closing", "over"}, user : Users, room : Rooms]
    BY <1>2 DEF Functional, Session
  <2>4. ASSUME NEW r \in Rooms
        PROVE  rooms'[r] =
          {t \in Sessions : session'[t].at \in {"joined", "closing"} /\ session'[t].room = r}
    <3>1. rooms[r] = {t \in Sessions : session[t].at \in {"joined", "closing"} /\ session[t].room = r}
      BY DEF TypeOK
    <3>2. rooms'[r] = IF r = session[s].room THEN rooms[r] \ {s} ELSE rooms[r]
      BY <1>1, <2>1, <2>2
    <3> QED BY <1>1, <3>1, <3>2, MoveSession
  <2>5. rooms' \in [Rooms -> SUBSET Sessions]
    BY <1>1, <2>1, <2>2
  <2>6. rooms' = [r \in Rooms |->
          {t \in Sessions : session'[t].at \in {"joined", "closing"} /\ session'[t].room = r}]
    BY <2>4, <2>5
  <2>7. \A m \in Managers :
          \/ manager'[m] = Idle
          \/ manager'[m] \in [at : {"awaiting", "listing"}, user : Users]
          \/ manager'[m] \in [at : {"closing"}, user : Users, doomed : (SUBSET Sessions) \ {{}}]
    BY <1>1 DEF TypeOK
  <2> QED BY <2>1, <2>3, <2>6, <2>7 DEF TypeOK
<1>4. AdmittedCounted' /\ EditorsOnly'
  BY <1>1, MoveSession DEF AdmittedCounted, EditorsOnly, Doomed
<1> QED BY <1>2, <1>3, <1>4

(* A role is changed, and whoever took it away waits for the answer. *)
LEMMA RoleInv ==
  ASSUME AccessInv, NEW m \in Managers, NEW u \in Users,
         Remove(m, u) \/ \E newRole \in {"viewer", "editor"} : Upsert(m, u, newRole)
  PROVE  AccessInv'
<1> USE DEF AccessInv
<1> DEFINE task == [at |-> "awaiting", user |-> u]
<1>0. PICK newRole \in Roles :
        /\ manager[m] = Idle /\ role' = [role EXCEPT ![u] = newRole]
        /\ manager' = IF newRole = "editor" THEN manager ELSE [manager EXCEPT ![m] = task]
        /\ missed' = IF newRole = "editor" THEN missed \ Of(u) ELSE missed
        /\ UNCHANGED <<session, rooms>>
  BY DEF Remove, Upsert, Roles
<1>1. /\ task \in Manager /\ task \in [at : {"awaiting", "listing"}, user : Users]
      /\ task.at = "awaiting" /\ task.user = u
  BY DEF Manager
<1>2. manager[m].at = "idle"
  BY <1>0 DEF Idle
<1> HIDE DEF task
<1>3. Functional'
  BY <1>0, <1>1 DEF Functional
<1>4. TypeOK'
  BY <1>0, <1>1 DEF TypeOK, Functional
<1>5. \A p \in Managers \ {m} : manager'[p] = manager[p]
  BY <1>0 DEF Functional
<1>6. newRole # "editor" => manager'[m] = task
  BY <1>0 DEF Functional
<1>7. \A v \in Users : role'[v] # "editor" => role[v] # "editor" \/ (v = u /\ newRole # "editor")
  BY <1>0 DEF TypeOK
<1>8. \A s \in Sessions : session[s].at \in {"admitted", "joined"} => session[s].user \in Users
  BY DEF TypeOK, NotYet
<1>9. \A s \in missed : role'[session[s].user] # "editor" => s \in missed'
  BY <1>0 DEF TypeOK, Of
<1>10. AdmittedCounted'
  BY <1>0, <1>1, <1>2, <1>5, <1>6, <1>7, <1>8, <1>9 DEF AdmittedCounted
<1>11. EditorsOnly'
  BY <1>0, <1>1, <1>2, <1>5, <1>6, <1>7, <1>8, <1>9 DEF EditorsOnly, Doomed
<1> QED BY <1>3, <1>4, <1>10, <1>11

(* The answer arrives. *)
LEMMA AnsweredInv ==
  ASSUME AccessInv, NEW m \in Managers, Answered(m)
  PROVE  AccessInv'
<1> USE DEF AccessInv
<1>1. /\ manager[m].at = "awaiting" /\ manager' = [manager EXCEPT ![m].at = "listing"]
      /\ UNCHANGED <<role, session, rooms, missed>>
  BY DEF Answered
<1>2. /\ manager' \in [Managers -> Manager]
      /\ manager'[m] \in [at : {"awaiting", "listing"}, user : Users]
      /\ manager'[m].at = "listing" /\ manager'[m].user = manager[m].user
      /\ \A p \in Managers \ {m} : manager'[p] = manager[p]
  BY <1>1 DEF Functional, Manager, Idle
<1>3. Functional'
  BY <1>1, <1>2 DEF Functional
<1>4. TypeOK'
  BY <1>1, <1>2 DEF TypeOK
<1>5. AdmittedCounted'
  BY <1>1, <1>2 DEF AdmittedCounted
<1>6. EditorsOnly'
  BY <1>1, <1>2 DEF EditorsOnly, Doomed
<1> QED BY <1>3, <1>4, <1>5, <1>6

(* The answer does not arrive: the connections of the user are missed. *)
LEMMA UnansweredInv ==
  ASSUME AccessInv, NEW m \in Managers, Unanswered(m)
  PROVE  AccessInv'
<1> USE DEF AccessInv
<1>1. PICK u : u = manager[m].user
  OBVIOUS
<1>2. /\ manager[m].at = "awaiting" /\ manager' = [manager EXCEPT ![m] = Idle]
      /\ missed' = missed \cup (IF role[u] = "editor" THEN {} ELSE At("admitted", u) \cup At("joined", u))
      /\ UNCHANGED <<role, session, rooms>>
  BY <1>1 DEF Unanswered
<1>3. /\ manager' \in [Managers -> Manager] /\ manager'[m] = Idle
      /\ \A p \in Managers \ {m} : manager'[p] = manager[p]
  BY <1>2 DEF Functional, Manager
<1>4. /\ missed \subseteq missed' /\ missed' \subseteq Sessions
      /\ \A s \in Sessions :
           session[s].at \in {"admitted", "joined"} /\ session[s].user = u /\ role[session[s].user] # "editor"
             => s \in missed'
  BY <1>2 DEF TypeOK, At
<1>5. Functional'
  BY <1>2, <1>3 DEF Functional
<1>6. TypeOK'
  BY <1>2, <1>3, <1>4 DEF TypeOK
<1>7. AdmittedCounted'
  BY <1>1, <1>2, <1>3, <1>4 DEF AdmittedCounted
<1>8. EditorsOnly'
  BY <1>1, <1>2, <1>3, <1>4 DEF EditorsOnly, Doomed
<1> QED BY <1>5, <1>6, <1>7, <1>8

LEMMA DoomManager ==
  ASSUME Functional, NEW m \in Managers, manager[m].at \in {"listing", "closing"},
         NEW doomed \in SUBSET Sessions, Doom(m, doomed)
  PROVE  /\ manager' \in [Managers -> Manager]
         /\ \A p \in Managers \ {m} : manager'[p] = manager[p]
         /\ IF doomed = {} THEN manager'[m] = Idle
            ELSE /\ manager'[m].at = "closing" /\ manager'[m].doomed = doomed
                 /\ manager'[m].user = manager[m].user
                 /\ manager'[m] \in [at : {"closing"}, user : Users, doomed : (SUBSET Sessions) \ {{}}]
<1>1. manager[m].user \in Users
  BY DEF Functional, Manager, Idle
<1>2. CASE doomed = {}
  BY <1>2 DEF Functional, Doom, Manager
<1>3. CASE doomed # {}
  <2> DEFINE task == [at |-> "closing", user |-> manager[m].user, doomed |-> doomed]
  <2>1. manager' = [manager EXCEPT ![m] = task]
    BY <1>3 DEF Doom
  <2>2. /\ task \in [at : {"closing"}, user : Users, doomed : (SUBSET Sessions) \ {{}}]
        /\ task.at = "closing" /\ task.user = manager[m].user /\ task.doomed = doomed
    BY <1>1, <1>3
  <2> HIDE DEF task
  <2>3. task \in Manager
    BY <2>2 DEF Manager
  <2> QED BY <1>3, <2>1, <2>2, <2>3 DEF Functional
<1> QED BY <1>2, <1>3

LEMMA ListInv ==
  ASSUME AccessInv, NEW m \in Managers, List(m)
  PROVE  AccessInv'
<1> USE DEF AccessInv
<1>1. PICK u : u = manager[m].user
  OBVIOUS
<1>2. PICK doomed : doomed = Connected(u)
  OBVIOUS
<1>3. doomed \subseteq Sessions
  BY <1>2 DEF Connected, TypeOK
<1>4. /\ manager[m].at = "listing" /\ Doom(m, doomed)
      /\ missed' = (missed \ doomed) \cup At("admitted", u) /\ UNCHANGED <<role, session, rooms>>
  BY <1>1, <1>2 DEF List, PassOver
<1>5. Functional'
  BY <1>3, <1>4, DoomManager DEF Functional
<1>6. TypeOK'
  BY <1>3, <1>4, DoomManager DEF TypeOK, At
<1>7. AdmittedCounted'
  <2>1. \A s \in Sessions : session[s].at = "admitted" => s \notin doomed
    BY <1>2 DEF Connected, TypeOK
  <2> QED BY <1>1, <1>3, <1>4, <2>1, DoomManager DEF AdmittedCounted, At
<1>8. \A s \in Sessions : session[s].at = "joined" /\ session[s].user = u => s \in doomed
  BY <1>2 DEF Connected, TypeOK, NotYet
<1>9. EditorsOnly'
  BY <1>1, <1>3, <1>4, <1>8, DoomManager DEF EditorsOnly, Doomed
<1> QED BY <1>5, <1>6, <1>7, <1>9

LEMMA CloseInv ==
  ASSUME AccessInv, NEW m \in Managers, Close(m)
  PROVE  AccessInv'
<1> USE DEF AccessInv
<1>1. manager[m].at = "closing" /\ manager[m].doomed \subseteq Sessions
  BY DEF Close, TypeOK, Idle
<1>2. PICK s \in manager[m].doomed :
        /\ Doom(m, manager[m].doomed \ {s})
        /\ IF session[s].at = "joined" THEN Move(s, "closing") ELSE UNCHANGED session
        /\ UNCHANGED <<role, rooms, missed>>
  BY DEF Close
<1>3. PICK rest \in SUBSET Sessions : rest = manager[m].doomed \ {s}
  BY <1>1
<1>4. Doom(m, rest) /\ s \in Sessions
  BY <1>1, <1>2, <1>3
<1>5. /\ session' \in [Sessions -> Session]
      /\ \A t \in Sessions \ {s} : session'[t] = session[t]
      /\ session[s].at = "joined" =>
           /\ session'[s].at = "closing" /\ session'[s].user = session[s].user
           /\ session'[s].room = session[s].room /\ session'[s] # NotYet
      /\ session[s].at # "joined" => session'[s] = session[s]
  BY <1>2, <1>4, MoveSession DEF Functional, NotYet
<1>6. Functional'
  BY <1>1, <1>4, <1>5, DoomManager DEF Functional
<1>7. TypeOK'
  BY <1>1, <1>2, <1>4, <1>5, DoomManager DEF TypeOK, Session
<1>8. AdmittedCounted'
  BY <1>1, <1>2, <1>4, <1>5, DoomManager DEF AdmittedCounted
<1>9. EditorsOnly'
  <2> SUFFICES ASSUME NEW t \in Sessions, session'[t].at = "joined",
                      role'[session'[t].user] # "editor", t \notin missed'
               PROVE  Doomed(t)'
    BY DEF EditorsOnly
  <2>1. t # s /\ session'[t] = session[t]
    BY <1>5
  <2>2. Doomed(t)
    BY <1>2, <2>1 DEF EditorsOnly
  <2>3. PICK p \in Managers :
          \/ manager[p].at \in {"awaiting", "listing"} /\ manager[p].user = session[t].user
          \/ manager[p].at = "closing" /\ t \in manager[p].doomed
    BY <2>2 DEF Doomed
  <2>4. CASE p = m
    <3>1. t \in rest
      BY <1>1, <1>3, <2>1, <2>3, <2>4
    <3>2. manager'[m].at = "closing" /\ manager'[m].doomed = rest
      BY <1>1, <1>4, <3>1, DoomManager
    <3> QED BY <3>1, <3>2 DEF Doomed
  <2>5. CASE p # m
    BY <1>1, <1>4, <2>1, <2>3, <2>5, DoomManager DEF Doomed
  <2> QED BY <2>4, <2>5
<1> QED BY <1>6, <1>7, <1>8, <1>9

LEMMA StepAccess == AccessInv /\ [Next]_vars => AccessInv'
<1> SUFFICES ASSUME AccessInv, [Next]_vars PROVE AccessInv'
  OBVIOUS
<1>1. CASE UNCHANGED vars
  BY <1>1 DEF vars, AccessInv, TypeOK, Functional, AdmittedCounted, EditorsOnly, Doomed
<1> QED BY <1>1, AdmitInv, RefuseInv, JoinInv, LeaveInv, RoleInv,
         AnsweredInv, UnansweredInv, ListInv, CloseInv DEF Next

LEMMA AccessInvariant == Spec => []AccessInv
BY InitAccess, StepAccess, PTL DEF Spec

-----------------------------------------------------------------------------
(* The hub lists exactly the handlers between join and leave. *)
THEOREM HubCorrect == Spec => []TypeOK
BY AccessInvariant, PTL DEF AccessInv

(* Whoever lost the editor role is out of every room, about to be          *)
(* disconnected, or was missed: by a list of the hub made in the middle of *)
(* the handshake, or by a handler that failed after the change was         *)
(* committed (UpsertCollaborator, disconnectProjectUser).                  *)
THEOREM OnlyEditorsStay == Spec => []EditorsOnly
BY AccessInvariant, PTL DEF AccessInv

-----------------------------------------------------------------------------
(* The room: what holds of one session, with its document R, its timer d,  *)
(* the messages q on their way to its handler, and the save V half done.   *)

Way == {"new", "joined", "loading"}

SavesIn(q) == {k \in 1..Len(q) : q[k].type = "snapshot"}

Own(a, R, d, q, V) ==
  /\ a \in {"new", "joined", "loading", "bound", "gone", "over"}
  /\ R \subseteq Inserts /\ d \in BOOLEAN /\ q \in Seq(Message) /\ V \subseteq R
  /\ \A k \in SavesIn(q) :
       /\ V \subseteq q[k].text /\ q[k].text \subseteq R /\ q[k].text # {}
       /\ \A j \in SavesIn(q) : j < k => q[j].text \subseteq q[k].text
  /\ \A k \in 1..Len(q) : q[k].type = "update" => q[k].insert \in R
  /\ a \in Way => ~d /\ q = <<>> /\ V = {}
  /\ d => R # {}

(* No save is to come: the last one that was sent is of the whole document.*)
UpToDate(R, d, q, V) ==
  ~d =>
    /\ \A k \in SavesIn(q) : (\A j \in SavesIn(q) : j <= k) => q[k].text = R
    /\ SavesIn(q) = {} /\ V # {} => V = R

LEMMA MessagesIs ==
  /\ \A i \in Inserts : Update(i) \in Message /\ Update(i).type = "update" /\ Update(i).insert = i
  /\ \A R \in SUBSET Inserts :
       Snapshot(R) \in Message /\ Snapshot(R).type = "snapshot" /\ Snapshot(R).text = R
  /\ \A m \in Message :
       \/ m.type = "update" /\ m.insert \in Inserts
       \/ m.type = "snapshot" /\ m.text \subseteq Inserts
BY DEF Message, Update, Snapshot

LEMMA AppendIs ==
  ASSUME NEW q \in Seq(Message), NEW m \in Message
  PROVE  /\ Append(q, m) \in Seq(Message) /\ Len(Append(q, m)) = Len(q) + 1
         /\ Append(q, m)[Len(q) + 1] = m
         /\ \A k \in 1..Len(q) : Append(q, m)[k] = q[k]
         /\ Len(q) \in Nat
         /\ SavesIn(Append(q, m)) =
              SavesIn(q) \cup (IF m.type = "snapshot" THEN {Len(q) + 1} ELSE {})
<1>1. /\ Append(q, m) \in Seq(Message) /\ Len(Append(q, m)) = Len(q) + 1
      /\ Append(q, m)[Len(q) + 1] = m /\ \A k \in 1..Len(q) : Append(q, m)[k] = q[k]
      /\ Len(q) \in Nat
  OBVIOUS
<1>2. PICK p \in Seq(Message) : p = Append(q, m)
  BY <1>1
<1>3. SavesIn(p) = SavesIn(q) \cup (IF m.type = "snapshot" THEN {Len(q) + 1} ELSE {})
  BY <1>1, <1>2 DEF SavesIn
<1> QED BY <1>1, <1>2, <1>3

LEMMA TailIs ==
  ASSUME NEW q \in Seq(Message), q # <<>>
  PROVE  /\ Tail(q) \in Seq(Message) /\ Len(Tail(q)) = Len(q) - 1 /\ Len(q) \in Nat \ {0}
         /\ \A k \in 1..Len(q) - 1 : Tail(q)[k] = q[k + 1]
         /\ Head(q) = q[1] /\ Head(q) \in Message
         /\ \A k : k \in SavesIn(Tail(q)) <=> k \in 1..Len(q) - 1 /\ k + 1 \in SavesIn(q)
         /\ 1 \in SavesIn(q) <=> Head(q).type = "snapshot"
<1>1. /\ Tail(q) \in Seq(Message) /\ Len(Tail(q)) = Len(q) - 1 /\ Len(q) \in Nat \ {0}
      /\ \A k \in 1..Len(q) - 1 : Tail(q)[k] = q[k + 1]
      /\ Head(q) = q[1] /\ Head(q) \in Message
  OBVIOUS
<1>2. PICK p \in Seq(Message) : p = Tail(q)
  BY <1>1
<1>3. \A k : k \in SavesIn(p) <=> k \in 1..Len(q) - 1 /\ k + 1 \in SavesIn(q)
  BY <1>1, <1>2 DEF SavesIn
<1> QED BY <1>1, <1>2, <1>3 DEF SavesIn

LEMMA CutIs ==
  ASSUME NEW q \in Seq(Message), NEW n \in 0..Len(q)
  PROVE  /\ SubSeq(q, 1, n) \in Seq(Message) /\ Len(SubSeq(q, 1, n)) = n
         /\ \A k \in 1..n : SubSeq(q, 1, n)[k] = q[k] /\ k \in 1..Len(q)
         /\ SavesIn(SubSeq(q, 1, n)) \subseteq SavesIn(q)
         /\ SavesIn(SubSeq(q, 1, n)) \subseteq 1..n
<1>1. /\ SubSeq(q, 1, n) \in Seq(Message) /\ Len(SubSeq(q, 1, n)) = n
      /\ \A k \in 1..n : SubSeq(q, 1, n)[k] = q[k] /\ k \in 1..Len(q)
  BY SubSeqProperties
<1> QED BY <1>1 DEF SavesIn

-----------------------------------------------------------------------------
(* What a step does to its session.                                        *)

LEMMA OwnEdits ==
  ASSUME NEW R, NEW d, NEW q, NEW V, NEW a \in {"loading", "bound"}, Own(a, R, d, q, V),
         NEW i \in Inserts
  PROVE  /\ Own("bound", R \cup {i}, TRUE, Append(q, Update(i)), V)
         /\ UpToDate(R \cup {i}, TRUE, Append(q, Update(i)), V)
         /\ SavesIn(Append(q, Update(i))) = SavesIn(q)
<1>1. q \in Seq(Message) /\ Update(i) \in Message /\ Update(i).type = "update" /\ Update(i).insert = i
  BY MessagesIs DEF Own
<1>2. PICK p : p = Append(q, Update(i))
  OBVIOUS
<1>3. /\ p \in Seq(Message) /\ Len(p) = Len(q) + 1 /\ Len(q) \in Nat
      /\ p[Len(q) + 1] = Update(i) /\ \A k \in 1..Len(q) : p[k] = q[k]
  BY <1>1, <1>2, AppendIs
<1>4. SavesIn(q) \subseteq 1..Len(q)
  BY DEF SavesIn
<1>6. SavesIn(p) = SavesIn(q)
  BY <1>1, <1>3 DEF SavesIn
<1>5. Own("bound", R \cup {i}, TRUE, p, V)
  BY <1>1, <1>3, <1>4, <1>6 DEF Own, Way
<1> QED BY <1>2, <1>5, <1>6 DEF UpToDate

LEMMA OwnReceives ==
  ASSUME NEW R, NEW d, NEW q, NEW V, Own("bound", R, d, q, V), NEW i \in Inserts
  PROVE  /\ Own("bound", R \cup {i}, d \/ i \notin R, q, V)
         /\ UpToDate(R, d, q, V) => UpToDate(R \cup {i}, d \/ i \notin R, q, V)
<1>1. Own("bound", R \cup {i}, d \/ i \notin R, q, V)
  BY DEF Own, Way
<1>2. CASE i \in R
  <2>1. R \cup {i} = R
    BY <1>2
  <2> QED BY <1>1, <1>2, <2>1 DEF UpToDate
<1>3. CASE i \notin R
  BY <1>1, <1>3 DEF UpToDate
<1> QED BY <1>2, <1>3

LEMMA OwnSaves ==
  ASSUME NEW R, NEW q, NEW V, Own("bound", R, TRUE, q, V)
  PROVE  /\ Own("bound", R, FALSE, Append(q, Snapshot(R)), V)
         /\ UpToDate(R, FALSE, Append(q, Snapshot(R)), V)
         /\ SavesIn(Append(q, Snapshot(R))) # {}
<1>1. /\ q \in Seq(Message) /\ R \subseteq Inserts /\ R # {}
      /\ Snapshot(R) \in Message /\ Snapshot(R).type = "snapshot" /\ Snapshot(R).text = R
  BY MessagesIs DEF Own
<1>2. PICK p : p = Append(q, Snapshot(R))
  OBVIOUS
<1>3. /\ p \in Seq(Message) /\ Len(p) = Len(q) + 1 /\ Len(q) \in Nat
      /\ p[Len(q) + 1] = Snapshot(R) /\ \A k \in 1..Len(q) : p[k] = q[k]
      /\ SavesIn(p) = SavesIn(q) \cup {Len(q) + 1}
  BY <1>1, <1>2, AppendIs
<1>4. SavesIn(q) \subseteq 1..Len(q)
  BY DEF SavesIn
<1>5. Own("bound", R, FALSE, p, V)
  BY <1>1, <1>3, <1>4 DEF Own, Way
<1>6. UpToDate(R, FALSE, p, V)
  BY <1>1, <1>3, <1>4 DEF UpToDate
<1> QED BY <1>2, <1>3, <1>5, <1>6

(* A message is read: of an update nothing is kept, a save becomes V, or   *)
(* is lost.                                                                *)
LEMMA OwnReads ==
  ASSUME NEW a, NEW R, NEW d, NEW q, Own(a, R, d, q, {}), q # <<>>
  PROVE  /\ Own(a, R, d, Tail(q), {})
         /\ Head(q).type = "update" =>
              /\ UpToDate(R, d, q, {}) => UpToDate(R, d, Tail(q), {})
              /\ SavesIn(q) # {} => SavesIn(Tail(q)) # {}
         /\ Head(q).type = "snapshot" =>
              /\ Own(a, R, d, Tail(q), Head(q).text) /\ Head(q).text # {}
              /\ UpToDate(R, d, q, {}) => UpToDate(R, d, Tail(q), Head(q).text)
<1>1. q \in Seq(Message)
  BY DEF Own
<1>2. PICK p : p = Tail(q)
  OBVIOUS
<1>3. /\ p \in Seq(Message) /\ Len(p) = Len(q) - 1 /\ Len(q) \in Nat \ {0}
      /\ \A k \in 1..Len(q) - 1 : p[k] = q[k + 1]
      /\ Head(q) = q[1] /\ Head(q) \in Message
      /\ \A k : k \in SavesIn(p) <=> k \in 1..Len(q) - 1 /\ k + 1 \in SavesIn(q)
      /\ 1 \in SavesIn(q) <=> Head(q).type = "snapshot"
  BY <1>1, <1>2, TailIs
<1>4. a \notin Way
  BY DEF Own
<1>5. SavesIn(q) \subseteq 1..Len(q)
  BY DEF SavesIn
<1>6. \A k \in 1..Len(p) : k + 1 \in 1..Len(q) /\ p[k] = q[k + 1]
  BY <1>3
<1>7. \A k \in SavesIn(p) : k \in 1..Len(p) /\ k + 1 \in SavesIn(q) /\ p[k] = q[k + 1]
  BY <1>3
<1>8. Own(a, R, d, p, {})
  <2>1. \A k \in SavesIn(p) :
          /\ p[k].text \subseteq R /\ p[k].text # {}
          /\ \A j \in SavesIn(p) : j < k => p[j].text \subseteq p[k].text
    <3> SUFFICES ASSUME NEW k \in SavesIn(p)
                 PROVE  /\ p[k].text \subseteq R /\ p[k].text # {}
                        /\ \A j \in SavesIn(p) : j < k => p[j].text \subseteq p[k].text
      OBVIOUS
    <3>1. k + 1 \in SavesIn(q) /\ p[k] = q[k + 1]
      BY <1>7
    <3>2. /\ q[k + 1].text \subseteq R /\ q[k + 1].text # {}
          /\ \A j \in SavesIn(q) : j < k + 1 => q[j].text \subseteq q[k + 1].text
      BY <3>1 DEF Own
    <3>3. ASSUME NEW j \in SavesIn(p), j < k PROVE p[j].text \subseteq p[k].text
      <4>1. j + 1 \in SavesIn(q) /\ p[j] = q[j + 1] /\ j + 1 < k + 1
        BY <1>3, <1>7, <3>3
      <4> QED BY <3>1, <3>2, <4>1
    <3> QED BY <3>1, <3>2, <3>3
  <2>2. \A k \in 1..Len(p) : p[k].type = "update" => p[k].insert \in R
    BY <1>6 DEF Own
  <2> QED BY <1>3, <1>4, <2>1, <2>2 DEF Own
<1>9. \A j \in SavesIn(q) : j # 1 => j - 1 \in SavesIn(p) /\ (j - 1) + 1 = j
  BY <1>3, <1>5
<1>10. ASSUME UpToDate(R, d, q, {}), NEW V, SavesIn(p) = {} /\ V # {} => V = R
       PROVE  UpToDate(R, d, p, V)
  <2> SUFFICES ASSUME ~d, NEW k \in SavesIn(p), \A j \in SavesIn(p) : j <= k PROVE p[k].text = R
    BY <1>10 DEF UpToDate
  <2>1. \A j \in SavesIn(q) : j <= k + 1
    BY <1>5, <1>7, <1>9
  <2> QED BY <1>7, <1>10, <2>1 DEF UpToDate
<1>11. ASSUME Head(q).type = "update"
       PROVE  /\ UpToDate(R, d, q, {}) => UpToDate(R, d, p, {})
              /\ SavesIn(q) # {} => SavesIn(p) # {}
  <2>1. 1 \notin SavesIn(q)
    BY <1>3, <1>11
  <2> QED BY <1>9, <1>10, <2>1
<1>12. ASSUME Head(q).type = "snapshot"
       PROVE  /\ Own(a, R, d, p, Head(q).text) /\ Head(q).text # {}
              /\ UpToDate(R, d, q, {}) => UpToDate(R, d, p, Head(q).text)
  <2>1. PICK V : V = Head(q).text
    OBVIOUS
  <2>2. 1 \in SavesIn(q) /\ V = q[1].text
    BY <1>3, <1>12, <2>1
  <2>3. V \subseteq R /\ V # {} /\ \A k \in SavesIn(q) : 1 < k => V \subseteq q[k].text
    BY <2>2 DEF Own
  <2>4. \A k \in SavesIn(p) : V \subseteq p[k].text
    BY <1>7, <2>3
  <2>5. Own(a, R, d, p, V)
    BY <1>4, <1>8, <2>3, <2>4 DEF Own
  <2>6. ASSUME UpToDate(R, d, q, {}), SavesIn(p) = {}, ~d PROVE V = R
    <3>1. \A j \in SavesIn(q) : j <= 1
      BY <1>9, <2>6
    <3> QED BY <2>2, <2>6, <3>1 DEF UpToDate
  <2>7. UpToDate(R, d, q, {}) => UpToDate(R, d, p, V)
    <3>1. CASE d
      BY <3>1 DEF UpToDate
    <3>2. CASE ~d
      BY <1>10, <2>6, <3>2
    <3> QED BY <3>1, <3>2
  <2> QED BY <2>1, <2>3, <2>5, <2>7
<1> QED BY <1>2, <1>8, <1>11, <1>12

(* The second write of a save is done, or fails. *)
LEMMA OwnStores ==
  ASSUME NEW a, NEW R, NEW d, NEW q, NEW V, Own(a, R, d, q, V)
  PROVE  /\ Own(a, R, d, q, {})
         /\ UpToDate(R, d, q, V) => UpToDate(R, d, q, {})
BY DEF Own, UpToDate

LEMMA OwnLeaves ==
  ASSUME NEW a, NEW R, NEW d, NEW q, NEW V, Own(a, R, d, q, V), NEW n \in 0..Len(q)
  PROVE  Own("gone", R, FALSE, SubSeq(q, 1, n), V)
<1>1. PICK p : p = SubSeq(q, 1, n)
  OBVIOUS
<1>2. /\ p \in Seq(Message) /\ Len(p) = n /\ \A k \in 1..n : p[k] = q[k] /\ k \in 1..Len(q)
      /\ SavesIn(p) \subseteq SavesIn(q) /\ SavesIn(p) \subseteq 1..n
  BY <1>1, CutIs DEF Own
<1>3. Own("gone", R, FALSE, p, V)
  BY <1>2 DEF Own, Way
<1> QED BY <1>1, <1>3

-----------------------------------------------------------------------------
(* What holds of every session, whatever happens.                          *)

Functions ==
  /\ at = [s \in Editors |-> at[s]] /\ replica = [s \in Editors |-> replica[s]]
  /\ dirty = [s \in Editors |-> dirty[s]] /\ outbox = [s \in Editors |-> outbox[s]]
  /\ saving = [s \in Editors |-> saving[s]]

Rest ==
  /\ inbox \in [Editors -> SUBSET Inserts] /\ {snapshot, body} \subseteq SUBSET Inserts
  /\ upsets \subseteq {"late", "left", "failed"}

Has(s, a, R, d, q, V) ==
  at[s] = a /\ replica[s] = R /\ dirty[s] = d /\ outbox[s] = q /\ saving[s] = V

OwnOf(s) == Own(at[s], replica[s], dirty[s], outbox[s], saving[s])

RoomOwn == Functions /\ Rest /\ \A s \in Editors : OwnOf(s)

(* s is the one session that moves, to a, R, d, q and V. *)
Turn(s, a, R, d, q, V) ==
  /\ Functions' /\ Rest' /\ Has(s, a, R, d, q, V)'
  /\ \A t \in Editors \ {s} :
       /\ at'[t] = at[t] /\ replica'[t] = replica[t] /\ dirty'[t] = dirty[t]
       /\ outbox'[t] = outbox[t] /\ saving'[t] = saving[t]

LEMMA RoomOwnTypes == RoomOwn => RoomTypeOK
<1> SUFFICES ASSUME RoomOwn PROVE RoomTypeOK
  OBVIOUS
<1>1. \A s \in Editors : Saves(s) = SavesIn(outbox[s])
  BY DEF Saves, SavesIn
<1>2. /\ at \in [Editors -> {"new", "joined", "loading", "bound", "gone", "over"}]
      /\ replica \in [Editors -> SUBSET Inserts] /\ dirty \in [Editors -> BOOLEAN]
      /\ outbox \in [Editors -> Seq(Message)] /\ saving \in [Editors -> SUBSET Inserts]
  BY DEF RoomOwn, Functions, OwnOf, Own
<1>3. \A s \in Editors :
        /\ saving[s] \subseteq replica[s]
        /\ \A k \in SavesIn(outbox[s]) :
             /\ saving[s] \subseteq outbox[s][k].text
             /\ outbox[s][k].text \subseteq replica[s]
             /\ \A j \in SavesIn(outbox[s]) : j < k => outbox[s][j].text \subseteq outbox[s][k].text
  BY DEF RoomOwn, OwnOf, Own
<1> QED BY <1>1, <1>2, <1>3 DEF RoomTypeOK, RoomOwn, Rest

LEMMA TurnOwn ==
  ASSUME RoomOwn, NEW s \in Editors, NEW a, NEW R, NEW d, NEW q, NEW V,
         Own(a, R, d, q, V), Turn(s, a, R, d, q, V)
  PROVE  RoomOwn'
<1>1. OwnOf(s)'
  BY DEF Turn, Has, OwnOf
<1>2. ASSUME NEW t \in Editors \ {s} PROVE OwnOf(t)'
  BY DEF Turn, OwnOf, RoomOwn
<1> QED BY <1>1, <1>2 DEF RoomOwn, Turn

(* Each step is the turn of a session. *)

LEMMA JoinTurn ==
  ASSUME RoomOwn, NEW s \in Editors, JoinRoom(s) \/ LeaveRoom(s), NEW a, NEW R, NEW d, NEW q, NEW V,
         Has(s, a, R, d, q, V)
  PROVE  /\ Own(IF a = "new" THEN "joined" ELSE "over", R, d, q, V)
         /\ Turn(s, IF a = "new" THEN "joined" ELSE "over", R, d, q, V)
<1>1. Own(a, R, d, q, V)
  BY DEF RoomOwn, OwnOf, Has
<1>2. a \in {"new", "gone"} /\ (a = "gone" => q = <<>> /\ V = {})
  BY DEF Has, JoinRoom, LeaveRoom
<1>3. Own(IF a = "new" THEN "joined" ELSE "over", R, d, q, V)
  BY <1>1, <1>2 DEF Own, Way
<1>4. Turn(s, IF a = "new" THEN "joined" ELSE "over", R, d, q, V)
  BY DEF RoomOwn, Functions, Rest, Turn, Has, JoinRoom, LeaveRoom, store, texts
<1> QED BY <1>3, <1>4

LEMMA InitTurn ==
  ASSUME RoomOwn, NEW s \in Editors, SendInit(s), NEW a, NEW R, NEW d, NEW q, NEW V,
         Has(s, a, R, d, q, V), NEW T, T = snapshot
  PROVE  a = "joined" /\ Own("loading", T, d, q, V) /\ Turn(s, "loading", T, d, q, V)
<1>1. Own(a, R, d, q, V) /\ a = "joined" /\ T \subseteq Inserts
  BY DEF RoomOwn, OwnOf, Has, SendInit, Rest
<1>2. Own("loading", T, d, q, V)
  BY <1>1 DEF Own, Way, SavesIn
<1>3. Turn(s, "loading", T, d, q, V)
  BY DEF RoomOwn, Functions, Rest, Turn, Has, SendInit, store, texts
<1> QED BY <1>1, <1>2, <1>3

LEMMA UpsetIs == ASSUME NEW kind, Upset(kind) PROVE upsets' = upsets \cup {kind} /\ upsets' # {}
BY DEF Upset

LEMMA EnteredIs ==
  ASSUME Entered
  PROVE  /\ upsets' \subseteq upsets \cup {"late"}
         /\ upsets' = {} => upsets = {} /\ \A s \in Editors : at[s] \in {"bound", "over"}
<1>1. CASE \A s \in Editors : at[s] \in {"bound", "over"}
  BY <1>1 DEF Entered
<1>2. CASE ~ \A s \in Editors : at[s] \in {"bound", "over"}
  BY <1>2 DEF Entered, Upset
<1> QED BY <1>1, <1>2

LEMMA BindTurn ==
  ASSUME RoomOwn, NEW s \in Editors, Bind(s), NEW a, NEW R, NEW d, NEW q, NEW V,
         Has(s, a, R, d, q, V)
  PROVE  /\ a = "loading"
         /\ R # {} => Own("bound", R, d, q, V) /\ Turn(s, "bound", R, d, q, V) /\ upsets' = upsets
         /\ R = {} => Own("bound", {s}, TRUE, Append(q, Update(s)), V)
                      /\ Turn(s, "bound", {s}, TRUE, Append(q, Update(s)), V) /\ upsets' # {}
         /\ texts' = texts /\ inbox' = inbox
<1>1. Own(a, R, d, q, V) /\ a = "loading" /\ texts' = texts /\ inbox' = inbox
  BY DEF RoomOwn, OwnOf, Has, Bind, texts
<1>2. CASE R # {}
  <2>1. Own("bound", R, d, q, V)
    BY <1>1 DEF Own, Way
  <2>2. Turn(s, "bound", R, d, q, V) /\ upsets' = upsets
    BY <1>2 DEF RoomOwn, Functions, Rest, Turn, Has, Bind, texts
  <2> QED BY <1>1, <1>2, <2>1, <2>2
<1>3. CASE R = {}
  <2>1. R \cup {s} = {s} /\ s \in Inserts
    BY <1>3 DEF Inserts
  <2>2. PICK p : p = Append(q, Update(s))
    OBVIOUS
  <2>9. Own("bound", R \cup {s}, TRUE, p, V)
    BY <1>1, <2>1, <2>2, OwnEdits
  <2>3. Own("bound", {s}, TRUE, p, V)
    BY <2>1, <2>9
  <2>4. /\ replica' = [replica EXCEPT ![s] = {s}] /\ dirty' = [dirty EXCEPT ![s] = TRUE]
        /\ outbox' = [outbox EXCEPT ![s] = p] /\ at' = [at EXCEPT ![s] = "bound"]
        /\ UNCHANGED saving
    BY <1>3, <2>2 DEF Bind, Has, Send, RoomOwn, Functions
  <2>5. Entered
    BY <1>3 DEF Bind, Has
  <2>6. Rest'
    BY <1>1, <2>5, EnteredIs DEF RoomOwn, Rest, texts
  <2>7. Turn(s, "bound", {s}, TRUE, p, V)
    BY <2>4, <2>6 DEF RoomOwn, Functions, Turn, Has
  <2>8. upsets' # {}
    BY <1>1, <2>5, EnteredIs DEF Has
  <2> QED BY <1>1, <1>3, <2>2, <2>3, <2>7, <2>8
<1> QED BY <1>2, <1>3

LEMMA EditTurn ==
  ASSUME RoomOwn, NEW s \in Editors, NEW e \in Edits, Edit(s, e),
         NEW a, NEW R, NEW d, NEW q, NEW V, Has(s, a, R, d, q, V)
  PROVE  /\ Own("bound", R \cup {e}, TRUE, Append(q, Update(e)), V)
         /\ UpToDate(R \cup {e}, TRUE, Append(q, Update(e)), V)
         /\ Turn(s, "bound", R \cup {e}, TRUE, Append(q, Update(e)), V)
         /\ upsets' = {} => upsets = {} /\ \A t \in Editors : at[t] \in {"bound", "over"}
         /\ texts' = texts /\ inbox' = inbox
<1>1. /\ Own(a, R, d, q, V) /\ a = "bound" /\ texts' = texts /\ inbox' = inbox /\ Entered
      /\ e \in Inserts
  BY DEF RoomOwn, OwnOf, Has, Edit, texts, Inserts
<1>2. PICK p : p = Append(q, Update(e))
  OBVIOUS
<1>3. Own("bound", R \cup {e}, TRUE, p, V) /\ UpToDate(R \cup {e}, TRUE, p, V)
  BY <1>1, <1>2, OwnEdits
<1>4. /\ replica' = [replica EXCEPT ![s] = @ \cup {e}] /\ dirty' = [dirty EXCEPT ![s] = TRUE]
      /\ outbox' = [outbox EXCEPT ![s] = p] /\ UNCHANGED <<at, saving>>
  BY <1>2 DEF Edit, Has, Send, RoomOwn, Functions
<1>5. Rest'
  BY <1>1, EnteredIs DEF RoomOwn, Rest, texts
<1>6. Turn(s, "bound", R \cup {e}, TRUE, p, V)
  BY <1>1, <1>4, <1>5 DEF RoomOwn, Functions, Turn, Has
<1> QED BY <1>1, <1>2, <1>3, <1>6, EnteredIs

LEMMA ReceiveTurn ==
  ASSUME RoomOwn, NEW s \in Editors, NEW i \in Inserts, Receive(s, i),
         NEW a, NEW R, NEW d, NEW q, NEW V, Has(s, a, R, d, q, V)
  PROVE  /\ a = "bound" => Own(a, R \cup {i}, d \/ i \notin R, q, V)
                           /\ Turn(s, a, R \cup {i}, d \/ i \notin R, q, V)
         /\ a # "bound" => Own(a, R, d, q, V) /\ Turn(s, a, R, d, q, V)
         /\ i \in inbox[s] /\ inbox' = [inbox EXCEPT ![s] = @ \ {i}]
         /\ texts' = texts /\ upsets' = upsets
<1>1. /\ Own(a, R, d, q, V) /\ texts' = texts /\ upsets' = upsets
      /\ i \in inbox[s] /\ inbox' = [inbox EXCEPT ![s] = @ \ {i}] /\ Rest'
  BY DEF RoomOwn, OwnOf, Has, Receive, texts, store, Rest
<1>2. CASE a = "bound"
  <2>1. Own(a, R \cup {i}, d \/ i \notin R, q, V)
    BY <1>1, <1>2, OwnReceives
  <2>2. /\ replica' = [replica EXCEPT ![s] = @ \cup {i}]
        /\ dirty' = [dirty EXCEPT ![s] = @ \/ i \notin replica[s]]
        /\ UNCHANGED <<at, outbox, saving>>
    BY <1>2 DEF Has, Receive
  <2>3. /\ dirty'[s] = (d \/ i \notin R) /\ dirty' = [t \in Editors |-> dirty'[t]]
        /\ \A t \in Editors \ {s} : dirty'[t] = dirty[t]
    BY <2>2, Zenon DEF Has, RoomOwn, Functions
  <2>4. Turn(s, a, R \cup {i}, d \/ i \notin R, q, V)
    BY <1>1, <2>2, <2>3 DEF RoomOwn, Functions, Turn, Has
  <2> QED BY <1>1, <1>2, <2>1, <2>4
<1>3. CASE a # "bound"
  <2>1. Turn(s, a, R, d, q, V)
    BY <1>1, <1>3 DEF RoomOwn, Functions, Turn, Has, Receive
  <2> QED BY <1>1, <1>3, <2>1
<1> QED BY <1>2, <1>3

LEMMA SaveTurn ==
  ASSUME RoomOwn, NEW s \in Editors, Save(s), NEW a, NEW R, NEW d, NEW q, NEW V,
         Has(s, a, R, d, q, V)
  PROVE  /\ Own("bound", R, FALSE, Append(q, Snapshot(R)), V)
         /\ UpToDate(R, FALSE, Append(q, Snapshot(R)), V)
         /\ SavesIn(Append(q, Snapshot(R))) # {}
         /\ Turn(s, "bound", R, FALSE, Append(q, Snapshot(R)), V)
         /\ texts' = texts /\ inbox' = inbox /\ upsets' = upsets
<1>1. /\ Own("bound", R, TRUE, q, V) /\ texts' = texts /\ upsets' = upsets /\ inbox' = inbox /\ Rest'
      /\ a = "bound"
  BY DEF RoomOwn, OwnOf, Has, Save, texts, store, Rest, Own
<1>2. PICK p : p = Append(q, Snapshot(R))
  OBVIOUS
<1>3. /\ dirty' = [dirty EXCEPT ![s] = FALSE] /\ outbox' = [outbox EXCEPT ![s] = p]
      /\ UNCHANGED <<at, replica, saving>>
  BY <1>2 DEF Save, Has, Send, RoomOwn, Functions
<1>4. Turn(s, "bound", R, FALSE, p, V)
  BY <1>1, <1>3 DEF RoomOwn, Functions, Turn, Has
<1> QED BY <1>1, <1>2, <1>4, OwnSaves

LEMMA DisconnectTurn ==
  ASSUME RoomOwn, NEW s \in Editors, Disconnect(s), NEW a, NEW R, NEW d, NEW q, NEW V,
         Has(s, a, R, d, q, V)
  PROVE  /\ \E p : Own("gone", R, FALSE, p, V) /\ Turn(s, "gone", R, FALSE, p, V)
         /\ upsets' # {}
<1>1. Own(a, R, d, q, V) /\ texts' = texts /\ upsets' = upsets \cup {"left"}
  BY UpsetIs DEF RoomOwn, OwnOf, Has, Disconnect, texts
<1>2. PICK n \in 0..Len(q) : outbox' = [outbox EXCEPT ![s] = SubSeq(q, 1, n)]
  BY DEF Disconnect, Has, RoomOwn, Functions
<1>3. PICK p : p = SubSeq(q, 1, n)
  OBVIOUS
<1>4. /\ at' = [at EXCEPT ![s] = "gone"] /\ dirty' = [dirty EXCEPT ![s] = FALSE]
      /\ outbox' = [outbox EXCEPT ![s] = p] /\ UNCHANGED <<replica, saving>>
  BY <1>2, <1>3 DEF Disconnect
<1>5. Rest'
  BY <1>1 DEF RoomOwn, Rest, texts, Disconnect
<1>6. Turn(s, "gone", R, FALSE, p, V)
  BY <1>4, <1>5 DEF RoomOwn, Functions, Turn, Has
<1>7. Own("gone", R, FALSE, p, V)
  BY <1>1, <1>3, OwnLeaves
<1> QED BY <1>1, <1>6, <1>7

LEMMA BroadcastTurn ==
  ASSUME RoomOwn, NEW s \in Editors, Broadcast(s), NEW a, NEW R, NEW d, NEW q, NEW V,
         Has(s, a, R, d, q, V)
  PROVE  /\ V = {} /\ q # <<>> /\ Head(q).type = "update" /\ Head(q).insert \in R
         /\ Own(a, R, d, Tail(q), V)
         /\ UpToDate(R, d, q, V) => UpToDate(R, d, Tail(q), V)
         /\ SavesIn(q) # {} => SavesIn(Tail(q)) # {}
         /\ Turn(s, a, R, d, Tail(q), V)
         /\ inbox' = [t \in Editors |->
              IF t \in InRoom \ {s} /\ at[t] # "gone"
              THEN inbox[t] \cup {Head(q).insert} ELSE inbox[t]]
         /\ texts' = texts /\ upsets' = upsets
<1>1. /\ Own(a, R, d, q, V) /\ texts' = texts /\ upsets' = upsets
      /\ V = {} /\ q # <<>> /\ Head(q).type = "update"
  BY DEF RoomOwn, OwnOf, Has, Broadcast, Read, texts, store
<1>2. Head(q) = q[1] /\ 1 \in 1..Len(q)
  BY <1>1, TailIs DEF Own
<1>3. Head(q).insert \in R /\ R \subseteq Inserts
  BY <1>1, <1>2 DEF Own
<1>4. inbox' = [t \in Editors |->
              IF t \in InRoom \ {s} /\ at[t] # "gone"
              THEN inbox[t] \cup {Head(q).insert} ELSE inbox[t]]
  BY DEF Broadcast, Has
<1>5. Rest'
  BY <1>1, <1>3, <1>4 DEF RoomOwn, Rest, texts
<1>6. PICK p : p = Tail(q)
  OBVIOUS
<1>7. outbox' = [outbox EXCEPT ![s] = p] /\ UNCHANGED <<at, replica, dirty, saving>>
  BY <1>6 DEF Broadcast, Read, Has, RoomOwn, Functions, client
<1>8. Turn(s, a, R, d, p, V)
  BY <1>5, <1>7 DEF RoomOwn, Functions, Turn, Has
<1> QED BY <1>1, <1>3, <1>4, <1>6, <1>8, OwnReads

LEMMA SnapshotTurn ==
  ASSUME RoomOwn, NEW s \in Editors, StoreSnapshot(s), NEW a, NEW R, NEW d, NEW q, NEW V,
         Has(s, a, R, d, q, V)
  PROVE  \E T : /\ V = {} /\ q # <<>> /\ T # {} /\ Head(q).type = "snapshot"
                /\ Own(a, R, d, Tail(q), T)
                /\ UpToDate(R, d, q, V) => UpToDate(R, d, Tail(q), T)
                /\ Turn(s, a, R, d, Tail(q), T)
                /\ snapshot' = T /\ body' = body /\ inbox' = inbox /\ upsets' = upsets
<1>1. /\ Own(a, R, d, q, V) /\ upsets' = upsets /\ inbox' = inbox /\ body' = body
      /\ V = {} /\ q # <<>> /\ Head(q).type = "snapshot"
  BY DEF RoomOwn, OwnOf, Has, StoreSnapshot, Read
<1>2. PICK T : T = Head(q).text
  OBVIOUS
<1>3. PICK p : p = Tail(q)
  OBVIOUS
<1>4. /\ T # {} /\ Own(a, R, d, p, T)
      /\ UpToDate(R, d, q, V) => UpToDate(R, d, p, T)
  BY <1>1, <1>2, <1>3, OwnReads
<1>5. T \subseteq Inserts
  BY <1>4 DEF Own
<1>6. /\ outbox' = [outbox EXCEPT ![s] = p] /\ saving' = [saving EXCEPT ![s] = T] /\ snapshot' = T
      /\ UNCHANGED <<at, replica, dirty>>
  BY <1>2, <1>3 DEF StoreSnapshot, Read, Has, RoomOwn, Functions, client
<1>7. Rest'
  BY <1>1, <1>5, <1>6 DEF RoomOwn, Rest
<1>8. Turn(s, a, R, d, p, T)
  BY <1>6, <1>7 DEF RoomOwn, Functions, Turn, Has
<1> QED BY <1>1, <1>3, <1>4, <1>6, <1>8

LEMMA BodyTurn ==
  ASSUME RoomOwn, NEW s \in Editors, StoreBody(s), NEW a, NEW R, NEW d, NEW q, NEW V,
         Has(s, a, R, d, q, V)
  PROVE  /\ Own(a, R, d, q, {})
         /\ UpToDate(R, d, q, V) => UpToDate(R, d, q, {})
         /\ Turn(s, a, R, d, q, {}) /\ V # {}
         /\ body' = V /\ snapshot' = snapshot /\ inbox' = inbox /\ upsets' = upsets
<1>1. Own(a, R, d, q, V)
  BY DEF RoomOwn, OwnOf, Has
<1>2. /\ saving' = [saving EXCEPT ![s] = {}] /\ body' = V /\ V # {} /\ snapshot' = snapshot
      /\ UNCHANGED <<at, replica, dirty, outbox, inbox, upsets>>
  BY DEF StoreBody, Has, client
<1>3. Rest'
  BY <1>1, <1>2 DEF RoomOwn, Rest, Own
<1>4. Turn(s, a, R, d, q, {})
  BY <1>2, <1>3 DEF RoomOwn, Functions, Turn, Has
<1> QED BY <1>1, <1>2, <1>4, OwnStores

LEMMA FailsTurn ==
  ASSUME RoomOwn, NEW s \in Editors, StoreFails(s), NEW a, NEW R, NEW d, NEW q, NEW V,
         Has(s, a, R, d, q, V)
  PROVE  /\ \E p : Own(a, R, d, p, {}) /\ Turn(s, a, R, d, p, {})
         /\ upsets' # {}
<1>1. Own(a, R, d, q, V) /\ upsets' = upsets \cup {"failed"} /\ UNCHANGED <<at, replica, dirty>>
  BY UpsetIs DEF RoomOwn, OwnOf, Has, StoreFails, client
<1>2. Rest'
  BY <1>1 DEF RoomOwn, Rest, texts, StoreFails
<1>3. CASE Read(s, "snapshot") /\ UNCHANGED saving
  <2>1. PICK p : p = Tail(q)
    OBVIOUS
  <2>2. V = {} /\ q # <<>> /\ outbox' = [outbox EXCEPT ![s] = p] /\ saving' = saving
    BY <1>3, <2>1 DEF Read, Has, RoomOwn, Functions
  <2>3. Turn(s, a, R, d, p, {})
    BY <1>1, <1>2, <2>2 DEF RoomOwn, Functions, Turn, Has
  <2>4. Own(a, R, d, p, {})
    BY <1>1, <2>1, <2>2, OwnReads
  <2> QED BY <1>1, <2>3, <2>4
<1>4. CASE saving[s] # {} /\ saving' = [saving EXCEPT ![s] = {}] /\ UNCHANGED outbox
  <2>1. Turn(s, a, R, d, q, {})
    BY <1>1, <1>2, <1>4 DEF RoomOwn, Functions, Turn, Has
  <2> QED BY <1>1, <2>1, OwnStores
<1> QED BY <1>3, <1>4 DEF StoreFails

LEMMA InitOwn == RoomInit => RoomOwn
BY DEF RoomInit, RoomOwn, Functions, Rest, OwnOf, Own, Way, SavesIn, Inserts

LEMMA StepOwn == RoomOwn /\ [RoomNext]_roomVars => RoomOwn'
<1> SUFFICES ASSUME RoomOwn, [RoomNext]_roomVars PROVE RoomOwn'
  OBVIOUS
<1>1. CASE UNCHANGED roomVars
  BY <1>1 DEF roomVars, RoomOwn, Functions, Rest, OwnOf
<1>2. CASE RoomNext
  <2>1. PICK s \in Editors :
          \/ JoinRoom(s) \/ SendInit(s) \/ Bind(s)
          \/ \E e \in Edits : Edit(s, e)
          \/ Progress(s)
          \/ Disconnect(s) \/ StoreFails(s) \/ LeaveRoom(s)
    BY <1>2 DEF RoomNext
  <2>2. PICK a, R, d, q, V : Has(s, a, R, d, q, V)
    BY DEF Has
  <2>3. CASE JoinRoom(s) \/ LeaveRoom(s)
    BY <2>2, <2>3, JoinTurn, TurnOwn
  <2>4. CASE SendInit(s)
    <3>1. PICK T : T = snapshot
      OBVIOUS
    <3> QED BY <2>2, <2>4, <3>1, InitTurn, TurnOwn
  <2>5. CASE Bind(s)
    <3>1. PICK S, D, p : Own("bound", S, D, p, V) /\ Turn(s, "bound", S, D, p, V)
      BY <2>2, <2>5, BindTurn
    <3> QED BY <3>1, TurnOwn
  <2>6. ASSUME NEW e \in Edits, Edit(s, e) PROVE RoomOwn'
    <3>1. PICK S, D, p : Own("bound", S, D, p, V) /\ Turn(s, "bound", S, D, p, V)
      BY <2>2, <2>6, EditTurn
    <3> QED BY <3>1, TurnOwn
  <2>7. ASSUME NEW i \in Inserts, Receive(s, i) PROVE RoomOwn'
    <3>1. PICK S, D : S = R \cup {i} /\ D = (d \/ i \notin R)
      OBVIOUS
    <3>2. \/ Own(a, S, D, q, V) /\ Turn(s, a, S, D, q, V)
          \/ Own(a, R, d, q, V) /\ Turn(s, a, R, d, q, V)
      BY <2>2, <2>7, <3>1, ReceiveTurn
    <3> QED BY <3>2, TurnOwn
  <2>8. CASE Save(s)
    <3>1. PICK p : Own("bound", R, FALSE, p, V) /\ Turn(s, "bound", R, FALSE, p, V)
      BY <2>2, <2>8, SaveTurn
    <3> QED BY <3>1, TurnOwn
  <2>9. CASE Disconnect(s)
    <3>1. PICK p : Own("gone", R, FALSE, p, V) /\ Turn(s, "gone", R, FALSE, p, V)
      BY <2>2, <2>9, DisconnectTurn
    <3> QED BY <3>1, TurnOwn
  <2>10. CASE Broadcast(s)
    <3>1. PICK p : Own(a, R, d, p, V) /\ Turn(s, a, R, d, p, V)
      BY <2>2, <2>10, BroadcastTurn
    <3> QED BY <3>1, TurnOwn
  <2>11. CASE StoreSnapshot(s)
    <3>1. PICK p, T : Own(a, R, d, p, T) /\ Turn(s, a, R, d, p, T)
      BY <2>2, <2>11, SnapshotTurn
    <3> QED BY <3>1, TurnOwn
  <2>12. CASE StoreBody(s)
    BY <2>2, <2>12, BodyTurn, TurnOwn
  <2>13. CASE StoreFails(s)
    <3>1. PICK p : Own(a, R, d, p, {}) /\ Turn(s, a, R, d, p, {})
      BY <2>2, <2>13, FailsTurn
    <3> QED BY <3>1, TurnOwn
  <2> QED BY <2>1, <2>3, <2>4, <2>5, <2>6, <2>7, <2>8, <2>9, <2>10, <2>11, <2>12, <2>13 DEF Progress
<1> QED BY <1>1, <1>2

LEMMA OwnInvariant == RoomSpec => []RoomOwn
BY InitOwn, StepOwn, PTL DEF RoomSpec

(* The hazard of two writes per save: what a handler stores never goes     *)
(* back behind what the same session sent before, and never beyond its     *)
(* document (CollaborativeMarkdownEditor's saves and the handler).         *)
THEOREM RoomTyped == RoomSpec => []RoomTypeOK
BY OwnInvariant, RoomOwnTypes, PTL

-----------------------------------------------------------------------------
(* Nothing upset the room: as long as some editor is on its way in nobody  *)
(* has typed; from then on every update is known everywhere or on its way  *)
(* there, and each stored form of the text is that of some editor, or the  *)
(* save that replaces it is under way.                                     *)

Fresh ==
  /\ body = snapshot
  /\ \A s \in Editors :
       /\ dirty[s] = FALSE /\ outbox[s] = <<>> /\ inbox[s] = {} /\ saving[s] = {}
       /\ replica[s] = IF at[s] \in {"new", "joined"} THEN {} ELSE snapshot

Sends(q, i) == \E k \in 1..Len(q) : q[k] = Update(i)

Covered(K, Q) ==
  \A s, t \in Editors : \A i \in K[s] :
    i \in K[t] \/ \E u \in Editors \ {t} : Sends(Q[u], i)

Known == [s \in Editors |-> replica[s] \cup inbox[s]]

Spread == Covered(Known, outbox)

Latest(s) == UpToDate(replica[s], dirty[s], outbox[s], saving[s])

Ahead(s) == dirty[s] \/ SavesIn(outbox[s]) # {}

Stored ==
  Editors # {} =>
    /\ \E s \in Editors : Ahead(s) \/ snapshot = replica[s]
    /\ \E s \in Editors : Ahead(s) \/ saving[s] # {} \/ body = replica[s]

Together == Spread /\ Stored /\ \A s \in Editors : Latest(s)

AllBound == \A s \in Editors : at[s] = "bound"

Calm ==
  upsets = {} =>
    /\ \A s \in Editors : at[s] \in Way \cup {"bound"}
    /\ ~AllBound => Fresh
    /\ AllBound => Together

RoomInv == RoomOwn /\ Calm

LEMMA InitCalm == RoomInit => Calm
<1> SUFFICES ASSUME RoomInit PROVE Calm
  OBVIOUS
<1>1. \A s \in Editors : at[s] = "new"
  BY DEF RoomInit
<1>2. Fresh
  BY <1>1 DEF RoomInit, Fresh
<1>3. CASE Editors = {}
  BY <1>3 DEF Calm, Together, Spread, Covered, Stored, Fresh, AllBound
<1>4. CASE Editors # {}
  BY <1>1, <1>2, <1>4 DEF Calm, Way, AllBound
<1> QED BY <1>3, <1>4

(* On the way in. *)

LEMMA FreshTogether == Fresh /\ AllBound => Together
<1> SUFFICES ASSUME Fresh, AllBound PROVE Together
  OBVIOUS
<1>1. \A s \in Editors : Known[s] = snapshot /\ replica[s] = snapshot /\ outbox[s] = <<>>
                         /\ dirty[s] = FALSE /\ saving[s] = {}
  BY DEF Fresh, Known, AllBound
<1>2. SavesIn(<<>>) = {}
  BY DEF SavesIn
<1>3. \A s \in Editors : Latest(s)
  BY <1>1, <1>2 DEF Latest, UpToDate
<1> QED BY <1>1, <1>3 DEF Together, Spread, Covered, Stored, Fresh

LEMMA JoinCalm ==
  ASSUME RoomOwn, Calm, NEW s \in Editors, JoinRoom(s)
  PROVE  Calm'
<1>1. /\ at[s] = "new" /\ at' = [at EXCEPT ![s] = "joined"]
      /\ UNCHANGED <<replica, dirty, outbox, inbox, saving, snapshot, body, upsets>>
  BY DEF JoinRoom, store, texts
<1>2. at'[s] = "joined" /\ \A t \in Editors \ {s} : at'[t] = at[t]
  BY <1>1 DEF RoomOwn, Functions
<1>3. Fresh => Fresh'
  BY <1>1, <1>2 DEF Fresh
<1> QED BY <1>1, <1>2, <1>3 DEF Calm, Way, AllBound

LEMMA SendInitCalm ==
  ASSUME RoomOwn, Calm, NEW s \in Editors, SendInit(s)
  PROVE  Calm'
<1>1. /\ at[s] = "joined" /\ at' = [at EXCEPT ![s] = "loading"]
      /\ replica' = [replica EXCEPT ![s] = snapshot]
      /\ UNCHANGED <<dirty, outbox, inbox, saving, snapshot, body, upsets>>
  BY DEF SendInit, store, texts
<1>2. /\ at'[s] = "loading" /\ \A t \in Editors \ {s} : at'[t] = at[t]
      /\ replica'[s] = snapshot /\ \A t \in Editors \ {s} : replica'[t] = replica[t]
  BY <1>1 DEF RoomOwn, Functions
<1>3. Fresh => Fresh'
  BY <1>1, <1>2 DEF Fresh
<1> QED BY <1>1, <1>2, <1>3 DEF Calm, Way, AllBound

LEMMA BindCalm ==
  ASSUME RoomOwn, Calm, NEW s \in Editors, Bind(s)
  PROVE  Calm'
<1> SUFFICES ASSUME upsets' = {} PROVE Calm'
  BY DEF Calm
<1>1. PICK a, R, d, q, V : Has(s, a, R, d, q, V)
  BY DEF Has
<1>2. /\ a = "loading" /\ R # {} /\ Turn(s, "bound", R, d, q, V) /\ upsets' = upsets
      /\ texts' = texts /\ inbox' = inbox
  BY <1>1, BindTurn
<1>3. Fresh /\ \A t \in Editors : at[t] \in Way \cup {"bound"}
  BY <1>1, <1>2 DEF Calm, Has, AllBound
<1>4. \A t \in Editors : /\ at'[t] = IF t = s THEN "bound" ELSE at[t]
                         /\ replica'[t] = replica[t] /\ dirty'[t] = dirty[t]
                         /\ outbox'[t] = outbox[t] /\ saving'[t] = saving[t] /\ inbox'[t] = inbox[t]
  BY <1>1, <1>2 DEF Turn, Has
<1>5. Fresh'
  BY <1>1, <1>2, <1>3, <1>4 DEF Fresh, texts, Has
<1>6. Fresh' /\ AllBound' => Together'
  BY FreshTogether, PTL
<1> QED BY <1>3, <1>4, <1>5, <1>6 DEF Calm, AllBound

(* Everyone bound. *)

LEMMA SendsAppend ==
  ASSUME NEW q \in Seq(Message), NEW m \in Message
  PROVE  /\ \A i : Sends(q, i) => Sends(Append(q, m), i)
         /\ \A i : m = Update(i) => Sends(Append(q, m), i)
<1>1. PICK p : p = Append(q, m)
  OBVIOUS
<1>2. /\ Len(p) = Len(q) + 1 /\ p[Len(q) + 1] = m /\ Len(q) \in Nat
      /\ \A k \in 1..Len(q) : p[k] = q[k] /\ k \in 1..Len(p)
  BY <1>1, AppendIs
<1>3. Len(q) + 1 \in 1..Len(p)
  BY <1>2
<1> QED BY <1>1, <1>2, <1>3 DEF Sends

LEMMA SendsTail ==
  ASSUME NEW q \in Seq(Message), q # <<>>, NEW i, Head(q) # Update(i), Sends(q, i)
  PROVE  Sends(Tail(q), i)
<1>1. PICK p : p = Tail(q)
  OBVIOUS
<1>2. /\ Len(p) = Len(q) - 1 /\ \A k \in 1..Len(q) - 1 : p[k] = q[k + 1]
      /\ Head(q) = q[1] /\ Len(q) \in Nat
  BY <1>1, TailIs
<1>3. PICK k \in 1..Len(q) : q[k] = Update(i)
  BY DEF Sends
<1>4. k # 1
  BY <1>2, <1>3
<1>5. PICK j \in 1..Len(q) - 1 : j + 1 = k
  BY <1>2, <1>4
<1>6. j \in 1..Len(p) /\ p[j] = Update(i)
  BY <1>2, <1>3, <1>5
<1> QED BY <1>1, <1>6 DEF Sends

(* From K and Q to L and P nobody forgets an insert, none is lost in       *)
(* transit, and the new ones, E, are covered.                              *)
Spreads(K, Q, L, P, E) ==
  /\ \A t \in Editors : K[t] \subseteq L[t] /\ L[t] \subseteq K[t] \cup E
  /\ \A u \in Editors : \A i : Sends(Q[u], i) => Sends(P[u], i) \/ \A t \in Editors : i \in L[t]
  /\ \A i \in E, t \in Editors : i \in L[t] \/ \E u \in Editors \ {t} : Sends(P[u], i)

LEMMA CoveredNext ==
  ASSUME NEW K, NEW Q, NEW L, NEW P, NEW E, Covered(K, Q), Spreads(K, Q, L, P, E)
  PROVE  Covered(L, P)
<1> USE DEF Spreads
<1> SUFFICES ASSUME NEW s \in Editors, NEW t \in Editors, NEW i \in L[s]
             PROVE  i \in L[t] \/ \E u \in Editors \ {t} : Sends(P[u], i)
  BY DEF Covered
<1>1. CASE i \in E
  BY <1>1
<1>2. CASE i \notin E
  <2>1. i \in K[t] \/ \E u \in Editors \ {t} : Sends(Q[u], i)
    BY <1>2 DEF Covered
  <2> QED BY <2>1
<1> QED BY <1>1, <1>2

LEMMA SpreadIs ==
  /\ \A K, Q : K = Known /\ Q = outbox => (Spread <=> Covered(K, Q))
  /\ \A K, Q : K = Known' /\ Q = outbox' => (Spread' <=> Covered(K, Q))
BY DEF Spread

(* A turn of s keeps the stored forms of the text up to date if it does so *)
(* for s.                                                                  *)
LEMMA StoredNext ==
  ASSUME RoomOwn, NEW s \in Editors, NEW a, NEW R, NEW d, NEW q, NEW V, Has(s, a, R, d, q, V),
         NEW b, NEW S, NEW c, NEW p, NEW W, Turn(s, b, S, c, p, W),
         Together, UpToDate(R, d, q, V) => UpToDate(S, c, p, W),
         \/ (c \/ SavesIn(p) # {} \/ snapshot' = S)
         \/ /\ snapshot' = snapshot
            /\ d \/ SavesIn(q) # {} \/ snapshot = R => c \/ SavesIn(p) # {} \/ snapshot' = S,
         \/ (c \/ SavesIn(p) # {} \/ W # {} \/ body' = S)
         \/ /\ body' = body
            /\ d \/ SavesIn(q) # {} \/ V # {} \/ body = R => c \/ SavesIn(p) # {} \/ W # {} \/ body' = S
  PROVE  Stored' /\ \A t \in Editors : Latest(t)'
<1>1. \A t \in Editors \ {s} :
        /\ replica'[t] = replica[t] /\ dirty'[t] = dirty[t]
        /\ outbox'[t] = outbox[t] /\ saving'[t] = saving[t]
  BY DEF Turn
<1>2. Latest(s)'
  BY DEF Together, Latest, Turn, Has
<1>3. ASSUME NEW t \in Editors \ {s} PROVE Latest(t)'
  BY <1>1 DEF Together, Latest
<1>4. \E t \in Editors : Ahead(t)' \/ snapshot' = replica'[t]
  <2>1. CASE c \/ SavesIn(p) # {} \/ snapshot' = S
    BY <2>1 DEF Ahead, Turn, Has
  <2>2. CASE /\ snapshot' = snapshot
             /\ d \/ SavesIn(q) # {} \/ snapshot = R => c \/ SavesIn(p) # {} \/ snapshot' = S
    <3>1. PICK t \in Editors : Ahead(t) \/ snapshot = replica[t]
      BY DEF Together, Stored
    <3>2. CASE t = s
      BY <2>1, <2>2, <3>1, <3>2 DEF Ahead, Has
    <3>3. CASE t # s
      BY <1>1, <2>2, <3>1, <3>3 DEF Ahead
    <3> QED BY <3>2, <3>3
  <2> QED BY <2>1, <2>2
<1>5. \E t \in Editors : Ahead(t)' \/ saving'[t] # {} \/ body' = replica'[t]
  <2>1. CASE c \/ SavesIn(p) # {} \/ W # {} \/ body' = S
    BY <2>1 DEF Ahead, Turn, Has
  <2>2. CASE /\ body' = body
             /\ d \/ SavesIn(q) # {} \/ V # {} \/ body = R => c \/ SavesIn(p) # {} \/ W # {} \/ body' = S
    <3>1. PICK t \in Editors : Ahead(t) \/ saving[t] # {} \/ body = replica[t]
      BY DEF Together, Stored
    <3>2. CASE t = s
      BY <2>1, <2>2, <3>1, <3>2 DEF Ahead, Has
    <3>3. CASE t # s
      BY <1>1, <2>2, <3>1, <3>3 DEF Ahead
    <3> QED BY <3>2, <3>3
  <2> QED BY <2>1, <2>2
<1> QED BY <1>2, <1>3, <1>4, <1>5 DEF Stored

LEMMA EditTogether ==
  ASSUME RoomOwn, Together, NEW s \in Editors, NEW e \in Edits, Edit(s, e)
  PROVE  Together'
<1>1. PICK a, R, d, q, V : Has(s, a, R, d, q, V)
  BY DEF Has
<1>0. PICK K, Q, L, P : K = Known /\ Q = outbox /\ L = Known' /\ P = outbox'
  OBVIOUS
<1>2. PICK S, p : S = R \cup {e} /\ p = Append(q, Update(e))
  OBVIOUS
<1>3. UpToDate(S, TRUE, p, V) /\ Turn(s, "bound", S, TRUE, p, V) /\ inbox' = inbox
  BY <1>1, <1>2, EditTurn
<1>4. Stored' /\ \A t \in Editors : Latest(t)'
  BY <1>1, <1>3, StoredNext
<1>5. q \in Seq(Message) /\ Update(e) \in Message
  BY <1>1, MessagesIs DEF RoomOwn, OwnOf, Own, Has, Inserts
<1>6. Sends(p, e) /\ \A i : Sends(q, i) => Sends(p, i)
  BY <1>2, <1>5, SendsAppend
<1>7. /\ L[s] = K[s] \cup {e} /\ \A t \in Editors \ {s} : L[t] = K[t]
      /\ Q[s] = q /\ P[s] = p /\ \A t \in Editors \ {s} : P[t] = Q[t]
  BY <1>0, <1>1, <1>2, <1>3 DEF Known, Turn, Has
<1>8. Covered(L, P)
  <2>1. PICK E : E = {e}
    OBVIOUS
  <2>2. \A t \in Editors : K[t] \subseteq L[t] /\ L[t] \subseteq K[t] \cup E
    BY <1>7, <2>1
  <2>3. \A u \in Editors : \A i : Sends(Q[u], i) => Sends(P[u], i)
    BY <1>6, <1>7
  <2>4. \A i \in E, t \in Editors : i \in L[t] \/ \E u \in Editors \ {t} : Sends(P[u], i)
    BY <1>6, <1>7, <2>1
  <2>5. Covered(K, Q)
    BY <1>0, SpreadIs DEF Together
  <2>6. Spreads(K, Q, L, P, E)
    BY <2>2, <2>3, <2>4 DEF Spreads
  <2> QED BY <2>5, <2>6, CoveredNext
<1> QED BY <1>0, <1>4, <1>8, SpreadIs DEF Together

LEMMA ReceiveTogether ==
  ASSUME RoomOwn, Together, NEW s \in Editors, at[s] = "bound", NEW i \in Inserts, Receive(s, i)
  PROVE  Together'
<1>1. PICK a, R, d, q, V : Has(s, a, R, d, q, V)
  BY DEF Has
<1>0. PICK K, Q, L, P : K = Known /\ Q = outbox /\ L = Known' /\ P = outbox'
  OBVIOUS
<1>2. PICK S, c : S = R \cup {i} /\ c = (d \/ i \notin R)
  OBVIOUS
<1>3. /\ a = "bound" /\ Own(a, R, d, q, V) /\ Turn(s, a, S, c, q, V)
      /\ i \in inbox[s] /\ inbox' = [inbox EXCEPT ![s] = @ \ {i}] /\ texts' = texts
  BY <1>1, <1>2, ReceiveTurn DEF Has, RoomOwn, OwnOf
<1>4. UpToDate(R, d, q, V) => UpToDate(S, c, q, V)
  BY <1>2, <1>3, OwnReceives
<1>5. (c \/ S = R) /\ (d => c)
  BY <1>2
<1>6. Stored' /\ \A t \in Editors : Latest(t)'
  <2>1. /\ snapshot' = snapshot /\ body' = body
        /\ d \/ SavesIn(q) # {} \/ snapshot = R => c \/ SavesIn(q) # {} \/ snapshot' = S
        /\ d \/ SavesIn(q) # {} \/ V # {} \/ body = R => c \/ SavesIn(q) # {} \/ V # {} \/ body' = S
    BY <1>3, <1>5 DEF texts
  <2> QED BY <1>1, <1>3, <1>4, <2>1, StoredNext
<1>7. \A t \in Editors : L[t] = K[t] /\ P[t] = Q[t]
  <2>1. L[s] = K[s] /\ P[s] = Q[s]
    BY <1>0, <1>1, <1>2, <1>3 DEF Known, Turn, Has, RoomOwn, Rest
  <2>2. \A t \in Editors \ {s} : L[t] = K[t] /\ P[t] = Q[t]
    BY <1>0, <1>3 DEF Known, Turn, RoomOwn, Rest
  <2> QED BY <2>1, <2>2
<1>8. Covered(L, P)
  <2>1. Covered(K, Q)
    BY <1>0, SpreadIs DEF Together
  <2> QED BY <1>7, <2>1 DEF Covered
<1> QED BY <1>0, <1>6, <1>8, SpreadIs DEF Together

LEMMA SaveTogether ==
  ASSUME RoomOwn, Together, NEW s \in Editors, Save(s)
  PROVE  Together'
<1>1. PICK a, R, d, q, V : Has(s, a, R, d, q, V)
  BY DEF Has
<1>0. PICK K, Q, L, P : K = Known /\ Q = outbox /\ L = Known' /\ P = outbox'
  OBVIOUS
<1>2. PICK p : p = Append(q, Snapshot(R))
  OBVIOUS
<1>3. /\ UpToDate(R, FALSE, p, V) /\ SavesIn(p) # {} /\ Turn(s, "bound", R, FALSE, p, V)
      /\ inbox' = inbox
  BY <1>1, <1>2, SaveTurn
<1>4. Stored' /\ \A t \in Editors : Latest(t)'
  BY <1>1, <1>3, StoredNext
<1>5. q \in Seq(Message) /\ Snapshot(R) \in Message
  BY <1>1, MessagesIs DEF RoomOwn, OwnOf, Own, Has
<1>6. \A i : Sends(q, i) => Sends(p, i)
  BY <1>2, <1>5, SendsAppend
<1>7. /\ \A t \in Editors : L[t] = K[t]
      /\ \A u \in Editors : \A i : Sends(Q[u], i) => Sends(P[u], i)
  BY <1>0, <1>1, <1>3, <1>6 DEF Known, Turn, Has
<1>8. Covered(L, P)
  <2>1. Covered(K, Q)
    BY <1>0, SpreadIs DEF Together
  <2> QED BY <1>7, <2>1 DEF Covered
<1> QED BY <1>0, <1>4, <1>8, SpreadIs DEF Together

LEMMA BroadcastTogether ==
  ASSUME RoomOwn, Together, AllBound, NEW s \in Editors, Broadcast(s)
  PROVE  Together'
<1>1. PICK a, R, d, q, V : Has(s, a, R, d, q, V)
  BY DEF Has
<1>0. PICK K, Q, L, P : K = Known /\ Q = outbox /\ L = Known' /\ P = outbox'
  OBVIOUS
<1>2. PICK p, i : p = Tail(q) /\ i = Head(q).insert
  OBVIOUS
<1>3. /\ q # <<>> /\ Head(q).type = "update" /\ i \in R
      /\ UpToDate(R, d, q, V) => UpToDate(R, d, p, V)
      /\ SavesIn(q) # {} => SavesIn(p) # {}
      /\ Turn(s, a, R, d, p, V)
      /\ inbox' = [t \in Editors |->
           IF t \in InRoom \ {s} /\ at[t] # "gone" THEN inbox[t] \cup {i} ELSE inbox[t]]
      /\ texts' = texts /\ upsets' = upsets
  BY <1>1, <1>2, BroadcastTurn
<1>4. Stored' /\ \A t \in Editors : Latest(t)'
  <2>1. /\ snapshot' = snapshot /\ body' = body
        /\ d \/ SavesIn(q) # {} \/ snapshot = R => d \/ SavesIn(p) # {} \/ snapshot' = R
        /\ d \/ SavesIn(q) # {} \/ V # {} \/ body = R => d \/ SavesIn(p) # {} \/ V # {} \/ body' = R
    BY <1>3 DEF texts
  <2> QED BY <1>1, <1>3, <2>1, StoredNext
<1>5. q \in Seq(Message) /\ Head(q) \in Message
  <2>1. q \in Seq(Message)
    BY <1>1 DEF RoomOwn, OwnOf, Own, Has
  <2> QED BY <1>3, <2>1, TailIs
<1>6. \A j : Sends(q, j) => Sends(p, j) \/ j = i
  <2> SUFFICES ASSUME NEW j, Sends(q, j), j # i PROVE Sends(p, j)
    OBVIOUS
  <2>1. Head(q) # Update(j)
    BY <1>2 DEF Update
  <2> QED BY <1>2, <1>3, <1>5, <2>1, SendsTail
<1>7. /\ \A t \in Editors : L[t] = K[t] \cup {i}
      /\ Q[s] = q /\ P[s] = p /\ \A t \in Editors \ {s} : P[t] = Q[t]
  <2>1. L[s] = K[s] \cup {i}
    BY <1>0, <1>1, <1>3 DEF Known, Turn, Has
  <2>2. ASSUME NEW t \in Editors \ {s} PROVE L[t] = K[t] \cup {i}
    BY <1>0, <1>3 DEF Known, Turn, InRoom, AllBound
  <2> QED BY <1>0, <1>1, <1>3, <2>1, <2>2 DEF Turn, Has
<1>8. Covered(L, P)
  <2>1. PICK E : E = {i}
    OBVIOUS
  <2>2. \A t \in Editors : K[t] \subseteq L[t] /\ L[t] \subseteq K[t] \cup E
    BY <1>7, <2>1
  <2>3. \A u \in Editors : \A j : Sends(Q[u], j) => Sends(P[u], j) \/ \A t \in Editors : j \in L[t]
    BY <1>6, <1>7
  <2>4. \A j \in E, t \in Editors : j \in L[t] \/ \E u \in Editors \ {t} : Sends(P[u], j)
    BY <1>7, <2>1
  <2>5. Covered(K, Q)
    BY <1>0, SpreadIs DEF Together
  <2>6. Spreads(K, Q, L, P, E)
    BY <2>2, <2>3, <2>4 DEF Spreads
  <2> QED BY <2>5, <2>6, CoveredNext
<1> QED BY <1>0, <1>4, <1>8, SpreadIs DEF Together

LEMMA SnapshotTogether ==
  ASSUME RoomOwn, Together, NEW s \in Editors, StoreSnapshot(s)
  PROVE  Together'
<1>1. PICK a, R, d, q, V : Has(s, a, R, d, q, V)
  BY DEF Has
<1>0. PICK K, Q, L, P : K = Known /\ Q = outbox /\ L = Known' /\ P = outbox'
  OBVIOUS
<1>2. PICK p : p = Tail(q)
  OBVIOUS
<1>3. PICK T : /\ V = {} /\ q # <<>> /\ T # {} /\ Head(q).type = "snapshot"
               /\ UpToDate(R, d, q, V) => UpToDate(R, d, p, T)
               /\ Turn(s, a, R, d, p, T)
               /\ snapshot' = T /\ body' = body /\ inbox' = inbox /\ upsets' = upsets
  BY <1>1, <1>2, SnapshotTurn
<1>4. UpToDate(R, d, p, T)
  BY <1>1, <1>3 DEF Together, Latest, Has
<1>5. d \/ SavesIn(p) # {} \/ T = R
  BY <1>3, <1>4 DEF UpToDate
<1>6. Stored' /\ \A t \in Editors : Latest(t)'
  BY <1>1, <1>3, <1>5, StoredNext
<1>7. q \in Seq(Message)
  BY <1>1 DEF RoomOwn, OwnOf, Own, Has
<1>8. \A i : Sends(q, i) => Sends(p, i)
  <2> SUFFICES ASSUME NEW i, Sends(q, i) PROVE Sends(p, i)
    OBVIOUS
  <2>1. Head(q) # Update(i)
    BY <1>3 DEF Update
  <2> QED BY <1>2, <1>3, <1>7, <2>1, SendsTail
<1>9. /\ \A t \in Editors : L[t] = K[t]
      /\ \A u \in Editors : \A i : Sends(Q[u], i) => Sends(P[u], i)
  BY <1>0, <1>1, <1>3, <1>8 DEF Known, Turn, Has
<1>10. Covered(L, P)
  <2>1. Covered(K, Q)
    BY <1>0, SpreadIs DEF Together
  <2> QED BY <1>9, <2>1 DEF Covered
<1> QED BY <1>0, <1>6, <1>10, SpreadIs DEF Together

LEMMA BodyTogether ==
  ASSUME RoomOwn, Together, NEW s \in Editors, StoreBody(s)
  PROVE  Together'
<1>1. PICK a, R, d, q, V : Has(s, a, R, d, q, V)
  BY DEF Has
<1>0. PICK K, Q, L, P : K = Known /\ Q = outbox /\ L = Known' /\ P = outbox'
  OBVIOUS
<1>2. /\ UpToDate(R, d, q, V) => UpToDate(R, d, q, {})
      /\ Turn(s, a, R, d, q, {}) /\ V # {}
      /\ body' = V /\ snapshot' = snapshot /\ inbox' = inbox /\ upsets' = upsets
  BY <1>1, BodyTurn
<1>3. d \/ SavesIn(q) # {} \/ V = R
  BY <1>1, <1>2 DEF Together, Latest, Has, UpToDate
<1>4. Stored' /\ \A t \in Editors : Latest(t)'
  BY <1>1, <1>2, <1>3, StoredNext
<1>5. \A t \in Editors : L[t] = K[t] /\ P[t] = Q[t]
  BY <1>0, <1>1, <1>2 DEF Known, Turn, Has
<1>6. Covered(L, P)
  <2>1. Covered(K, Q)
    BY <1>0, SpreadIs DEF Together
  <2> QED BY <1>5, <2>1 DEF Covered
<1> QED BY <1>0, <1>4, <1>6, SpreadIs DEF Together

LEMMA StepCalm == RoomInv /\ [RoomNext]_roomVars => Calm'
<1> SUFFICES ASSUME RoomOwn, Calm, [RoomNext]_roomVars PROVE Calm'
  BY DEF RoomInv
<1>1. CASE UNCHANGED roomVars
  BY <1>1 DEF roomVars, Calm, AllBound, Fresh, Together, Spread, Known, Covered, Stored, Ahead, Latest
<1>2. CASE RoomNext
  <2>1. PICK s \in Editors :
          \/ JoinRoom(s) \/ SendInit(s) \/ Bind(s)
          \/ \E e \in Edits : Edit(s, e)
          \/ Progress(s)
          \/ Disconnect(s) \/ StoreFails(s) \/ LeaveRoom(s)
    BY <1>2 DEF RoomNext
  <2>2. PICK a, R, d, q, V : Has(s, a, R, d, q, V)
    BY DEF Has
  <2>4. at[s] \notin Way \cup {"bound"} => upsets # {}
    BY DEF Calm
  <2>5. upsets = {} /\ ~AllBound => outbox[s] = <<>> /\ inbox[s] = {} /\ saving[s] = {} /\ dirty[s] = FALSE
    BY DEF Calm, Fresh
  <2>6. upsets = {} /\ AllBound => Together /\ at[s] = "bound"
    BY DEF Calm, AllBound
  <2>7. CASE JoinRoom(s) \/ SendInit(s) \/ Bind(s)
    BY <2>7, JoinCalm, SendInitCalm, BindCalm
  <2>8. ASSUME NEW e \in Edits, Edit(s, e) PROVE Calm'
    <3>1. /\ upsets' = {} => upsets = {} /\ \A t \in Editors : at[t] \in {"bound", "over"}
          /\ at' = at
      BY <2>2, <2>8, EditTurn DEF Edit
    <3>2. upsets' = {} => AllBound /\ upsets = {}
      BY <3>1 DEF Calm, AllBound, Way
    <3>3. upsets' = {} => Together'
      BY <2>6, <2>8, <3>2, EditTogether
    <3> QED BY <3>1, <3>2, <3>3 DEF Calm, AllBound
  <2>9. ASSUME upsets' # {} PROVE Calm'
    BY <2>9 DEF Calm
  <2>10. CASE Disconnect(s) \/ StoreFails(s)
    BY <2>2, <2>9, <2>10, DisconnectTurn, FailsTurn
  <2>11. CASE LeaveRoom(s)
    BY <2>4, <2>9, <2>11 DEF LeaveRoom, store, Way
  <2>12. ASSUME upsets = {}, Progress(s)
         PROVE  AllBound /\ at[s] = "bound" /\ Together
    BY <2>5, <2>6, <2>12 DEF Progress, Receive, Save, Broadcast, StoreSnapshot, Read, StoreBody
  <2>13. ASSUME Progress(s) PROVE upsets' = upsets /\ at' = at
    BY <2>13 DEF Progress, Receive, Save, Broadcast, StoreSnapshot, StoreBody, store, client
  <2>14. ASSUME upsets = {}, Progress(s) PROVE Together'
    BY <2>12, <2>14, ReceiveTogether, SaveTogether, BroadcastTogether, SnapshotTogether,
       BodyTogether DEF Progress
  <2>15. CASE Progress(s)
    BY <2>9, <2>12, <2>13, <2>14, <2>15 DEF Calm, AllBound
  <2> QED BY <2>1, <2>7, <2>8, <2>10, <2>11, <2>15
<1> QED BY <1>1, <1>2

LEMMA RoomInvariant == RoomSpec => []RoomInv
<1>1. RoomInit => RoomInv
  BY InitOwn, InitCalm DEF RoomInv
<1>2. RoomInv /\ [RoomNext]_roomVars => RoomInv'
  BY StepOwn, StepCalm DEF RoomInv
<1> QED BY <1>1, <1>2, PTL DEF RoomSpec

LEMMA CalmAgrees == RoomInv => Agreement
<1> SUFFICES ASSUME RoomOwn, Calm, Settled, upsets = {}, NEW s \in InRoom
             PROVE  replica[s] = snapshot /\ body = snapshot
  BY DEF RoomInv, Agreement
<1>1. s \in Editors /\ at[s] = "bound" /\ \A t \in InRoom : at[t] = "bound"
  BY DEF Settled, InRoom
<1>2. CASE ~AllBound
  BY <1>1, <1>2 DEF Calm, Fresh
<1>3. CASE AllBound
  <2>1. \A t \in Editors :
          /\ Known[t] = replica[t] /\ ~Ahead(t) /\ saving[t] = {} /\ \A i : ~Sends(outbox[t], i)
    BY DEF Settled, Known, Ahead, SavesIn, Sends
  <2>2. \A t, u \in Editors : replica[t] \subseteq replica[u]
    BY <1>3, <2>1 DEF Calm, Together, Spread, Covered
  <2>3. \A t, u \in Editors : replica[t] = replica[u]
    BY <2>2
  <2>4. /\ \E t \in Editors : snapshot = replica[t]
        /\ \E t \in Editors : body = replica[t]
    BY <1>1, <1>3, <2>1 DEF Calm, Together, Stored
  <2> QED BY <1>1, <2>3, <2>4
<1> QED BY <1>2, <1>3

(* Editors who were all there before anyone typed, and stay, agree with    *)
(* each other and with both stored forms of the text, once nothing is in   *)
(* transit, in whatever order their updates and saves were handled (the    *)
(* editor and projectCollaborationWebSocketHandler).                       *)
THEOREM EditorsAgree == RoomSpec => []Agreement
BY RoomInvariant, CalmAgrees, PTL
=============================================================================
