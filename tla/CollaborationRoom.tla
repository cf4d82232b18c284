------------------------- MODULE CollaborationRoom -------------------------
(***************************************************************************)
(* One document edited together: the editor in each browser                *)
(* (CollaborativeMarkdownEditor.tsx), the WebSocket handler that serves it *)
(* (projectCollaborationWebSocketHandler) and the two stored forms of the  *)
(* text, the Yjs snapshot and the published Markdown.                      *)
(*                                                                         *)
(* A Yjs document is the set of inserts it holds; applying an update is a  *)
(* union.  An insert is one edit, or the template an editor that was sent  *)
(* no snapshot fills its document with (named after its session).          *)
(* Presence and awareness messages change no text and are left out.        *)
(***************************************************************************)
EXTENDS Integers, Sequences, FiniteSets

CONSTANTS
  Editors,     \* sessions: the editor in a browser and the handler that serves it
  Edits,
  Seed,        \* the snapshot stored when the room opens, if there is one
  MaxUpsets    \* bound of the model: kinds of upsets in one behaviour

ASSUME InsertsAssumption == Edits \cap Editors = {} /\ Seed \cap (Edits \cup Editors) = {}

Inserts == Edits \cup Editors \cup Seed

VARIABLES
  at,        \* how far each session is
  replica,   \* its Yjs document
  dirty,     \* its save timer is set
  outbox,    \* its messages the handler has not read yet
  inbox,     \* updates broadcast to it that have not arrived
  saving,    \* the snapshot its handler stored last, if the Markdown is not written yet
  snapshot,  \* project_collaboration_snapshots.yjs_snapshot
  body,      \* the published Markdown
  upsets     \* history: text entered while a session was on its way in
             \* ("late"), sessions "left", writes "failed"

roomVars == <<at, replica, dirty, outbox, inbox, saving, snapshot, body, upsets>>
client == <<at, replica, dirty>>
texts  == <<snapshot, body>>
store  == <<texts, upsets>>

Update(i) == [type |-> "update", insert |-> i]
Snapshot(text) == [type |-> "snapshot", text |-> text]

RoomInit ==
  /\ at = [s \in Editors |-> "new"]
  /\ replica = [s \in Editors |-> {}]
  /\ dirty = [s \in Editors |-> FALSE]
  /\ outbox = [s \in Editors |-> <<>>]
  /\ inbox = [s \in Editors |-> {}]
  /\ saving = [s \in Editors |-> {}]
  /\ snapshot \in {{}, Seed} /\ body = snapshot
  /\ upsets = {}

InRoom == {s \in Editors : at[s] \notin {"new", "over"}}
Typed  == Edits \cap UNION {replica[s] : s \in Editors}

Upset(kind) ==
  /\ upsets' = upsets \cup {kind}
  /\ Cardinality(upsets') <= MaxUpsets

(* Text is entered: who is on the way in may miss the update. *)
Entered ==
  IF \A s \in Editors : at[s] \in {"bound", "over"} THEN UNCHANGED upsets ELSE Upset("late")

Send(s, message) == outbox' = [outbox EXCEPT ![s] = Append(@, message)]

(* Joining ----------------------------------------------------------------*)

JoinRoom(s) ==
  /\ at[s] = "new" /\ at' = [at EXCEPT ![s] = "joined"]
  /\ UNCHANGED <<replica, dirty, outbox, inbox, saving, store>>

(* LoadSnapshot and the init message: the browser starts to load the       *)
(* editor, with no message handler set.                                    *)
SendInit(s) ==
  /\ at[s] = "joined" /\ at' = [at EXCEPT ![s] = "loading"]
  /\ replica' = [replica EXCEPT ![s] = snapshot]
  /\ UNCHANGED <<dirty, outbox, inbox, saving, store>>

(* The editor is created and bound; without a snapshot it applies the      *)
(* Markdown as a template, which is an update like any other.              *)
Bind(s) ==
  /\ at[s] = "loading" /\ at' = [at EXCEPT ![s] = "bound"]
  /\ IF replica[s] # {} THEN UNCHANGED <<replica, dirty, outbox, upsets>>
     ELSE /\ replica' = [replica EXCEPT ![s] = {s}]
          /\ dirty' = [dirty EXCEPT ![s] = TRUE]
          /\ Send(s, Update(s)) /\ Entered
  /\ UNCHANGED <<inbox, saving, texts>>

(* The bound editor ------------------------------------------------------ *)

Edit(s, e) ==
  /\ at[s] = "bound" /\ e \notin Typed
  /\ replica' = [replica EXCEPT ![s] = @ \cup {e}]
  /\ dirty' = [dirty EXCEPT ![s] = TRUE]
  /\ Send(s, Update(e)) /\ Entered
  /\ UNCHANGED <<at, inbox, saving, texts>>

(* Faulty: only local changes set the save timer. *)
ReceiveWithoutSave(s, i) ==
  /\ i \in inbox[s] /\ inbox' = [inbox EXCEPT ![s] = @ \ {i}]
  /\ IF at[s] = "bound" THEN replica' = [replica EXCEPT ![s] = @ \cup {i}]
     ELSE UNCHANGED replica
  /\ UNCHANGED <<at, dirty, outbox, saving, store>>

(* Faulty: an update starts the document afresh. *)
ReceiveAfresh(s, i) ==
  /\ i \in inbox[s] /\ inbox' = [inbox EXCEPT ![s] = @ \ {i}]
  /\ IF at[s] = "bound"
     THEN replica' = [replica EXCEPT ![s] = {i}] /\ dirty' = [dirty EXCEPT ![s] = TRUE]
     ELSE UNCHANGED <<replica, dirty>>
  /\ UNCHANGED <<at, outbox, saving, store>>

(* An update arrives: applied, and the save timer set if it brought        *)
(* anything new; or dropped, for nobody listens before Bind.               *)
Receive(s, i) ==
  /\ i \in inbox[s] /\ inbox' = [inbox EXCEPT ![s] = @ \ {i}]
  /\ IF at[s] = "bound"
     THEN /\ replica' = [replica EXCEPT ![s] = @ \cup {i}]
          /\ dirty' = [dirty EXCEPT ![s] = @ \/ i \notin replica[s]]
     ELSE UNCHANGED <<replica, dirty>>
  /\ UNCHANGED <<at, outbox, saving, store>>

(* Faulty: the timer is an interval. *)
SaveEverySecond(s) ==
  /\ at[s] = "bound" /\ dirty[s] /\ outbox[s] = <<>>
  /\ Send(s, Snapshot(replica[s]))
  /\ UNCHANGED <<at, replica, dirty, inbox, saving, store>>

(* scheduleSave's timer fires: the whole document is sent. *)
Save(s) ==
  /\ at[s] = "bound" /\ dirty[s]
  /\ dirty' = [dirty EXCEPT ![s] = FALSE]
  /\ Send(s, Snapshot(replica[s]))
  /\ UNCHANGED <<at, replica, inbox, saving, store>>

(* The connection ends: what the handler has not read may be lost from     *)
(* some point on, and the save timer with the page.                        *)
Disconnect(s) ==
  /\ at[s] \in {"joined", "loading", "bound"}
  /\ at' = [at EXCEPT ![s] = "gone"]
  /\ dirty' = [dirty EXCEPT ![s] = FALSE]
  /\ inbox' = [inbox EXCEPT ![s] = {}]
  /\ \E n \in 0..Len(outbox[s]) : outbox' = [outbox EXCEPT ![s] = SubSeq(@, 1, n)]
  /\ Upset("left")
  /\ UNCHANGED <<replica, saving, texts>>

(* The handler ------------------------------------------------------------*)

(* The handler of s reads its next message, of the given type. *)
Read(s, type) ==
  /\ saving[s] = {} /\ outbox[s] # <<>> /\ Head(outbox[s]).type = type
  /\ outbox' = [outbox EXCEPT ![s] = Tail(@)]

(* hub.broadcast to everyone else in the room. *)
Broadcast(s) ==
  /\ Read(s, "update")
  /\ inbox' = [t \in Editors |->
       IF t \in InRoom \ {s} /\ at[t] # "gone"
       THEN inbox[t] \cup {Head(outbox[s]).insert} ELSE inbox[t]]
  /\ UNCHANGED <<client, saving, store>>

(* SaveSnapshot *)
StoreSnapshot(s) ==
  /\ Read(s, "snapshot")
  /\ snapshot' = Head(outbox[s]).text
  /\ saving' = [saving EXCEPT ![s] = Head(outbox[s]).text]
  /\ UNCHANGED <<client, inbox, body, upsets>>

(* UpdateMarkdown or UpdatePublishedDescription, and the saved message. *)
StoreBody(s) ==
  /\ saving[s] # {}
  /\ body' = saving[s]
  /\ saving' = [saving EXCEPT ![s] = {}]
  /\ UNCHANGED <<client, outbox, inbox, snapshot, upsets>>

(* Either write fails; the editor is told and saves at its next change.    *)
StoreFails(s) ==
  /\ \/ Read(s, "snapshot") /\ UNCHANGED saving
     \/ saving[s] # {} /\ saving' = [saving EXCEPT ![s] = {}] /\ UNCHANGED outbox
  /\ Upset("failed")
  /\ UNCHANGED <<client, inbox, texts>>

(* hub.leave *)
LeaveRoom(s) ==
  /\ at[s] = "gone" /\ outbox[s] = <<>> /\ saving[s] = {}
  /\ at' = [at EXCEPT ![s] = "over"]
  /\ UNCHANGED <<replica, dirty, outbox, inbox, saving, store>>

Progress(s) ==
  \/ \E i \in Inserts : Receive(s, i)
  \/ Save(s) \/ Broadcast(s) \/ StoreSnapshot(s) \/ StoreBody(s)

RoomNext ==
  \E s \in Editors :
    \/ JoinRoom(s) \/ SendInit(s) \/ Bind(s)
    \/ \E e \in Edits : Edit(s, e)
    \/ Progress(s)
    \/ Disconnect(s) \/ StoreFails(s) \/ LeaveRoom(s)

(* Messages in transit arrive, a set timer fires, a handler goes on.       *)
(* Nobody need join or type.                                               *)
RoomSpec == RoomInit /\ [][RoomNext]_roomVars /\ \A s \in Editors : WF_roomVars(Progress(s))

-----------------------------------------------------------------------------
Settled ==
  /\ \A s \in InRoom : at[s] = "bound"
  /\ \A s \in Editors : ~dirty[s] /\ outbox[s] = <<>> /\ inbox[s] = {} /\ saving[s] = {}

Message == [type : {"update"}, insert : Inserts] \cup [type : {"snapshot"}, text : SUBSET Inserts]

(* The snapshots on their way to the handler of s. *)
Saves(s) == {k \in 1..Len(outbox[s]) : outbox[s][k].type = "snapshot"}

(* Types; and what a session saves only grows, from one save to the next   *)
(* and up to the document in front of its user.                            *)
RoomTypeOK ==
  /\ at \in [Editors -> {"new", "joined", "loading", "bound", "gone", "over"}]
  /\ replica \in [Editors -> SUBSET Inserts]
  /\ dirty \in [Editors -> BOOLEAN]
  /\ outbox \in [Editors -> Seq(Message)]
  /\ inbox \in [Editors -> SUBSET Inserts] /\ saving \in [Editors -> SUBSET Inserts]
  /\ {snapshot, body} \subseteq SUBSET Inserts
  /\ upsets \subseteq {"late", "left", "failed"}
  /\ \A s \in Editors :
       /\ saving[s] \subseteq replica[s]
       /\ \A k \in Saves(s) :
            /\ saving[s] \subseteq outbox[s][k].text
            /\ outbox[s][k].text \subseteq replica[s]
            /\ \A j \in Saves(s) : j < k => outbox[s][j].text \subseteq outbox[s][k].text

(* Editors who were all there before anyone typed, and stay: whatever order*)
(* updates, saves and their two writes are handled in, once nothing is in  *)
(* transit every editor shows the same text, and it is the snapshot and    *)
(* the published Markdown (the editor and the handler).                    *)
Agreement ==
  Settled /\ upsets = {} => \A s \in InRoom : replica[s] = snapshot /\ body = snapshot

(* Editing together comes to rest: saves do not set off further saves.     *)
Settles == <>[](\A s \in Editors : at[s] = "bound") => <>[]Settled
=============================================================================
