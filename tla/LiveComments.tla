---------------------------- MODULE LiveComments ----------------------------
(***************************************************************************)
(* Readers of one document and its comments as they change: the hub of the *)
(* gateway (commentEventHub), the event stream of each reader              *)
(* (documentCommentEventsHandler) and the page that reads the list afresh  *)
(* whenever an event arrives, while it also applies the answers to its own *)
(* requests (App.tsx).                                                     *)
(*                                                                         *)
(* A comment is in the list or not; replies, edits and resolutions change  *)
(* an entry in place and are left out, and so is what the entry says.  All *)
(* events look alike to a page, so a channel is the number of events in it.*)
(***************************************************************************)
EXTENDS Integers

CONSTANTS
  Pages,           \* readers, who may change comments too
  Others,          \* clients that change comments and whose pages are left out
  MaxComments,     \* bound of the model: comments created in a behaviour
  MaxConnections,  \* bound of the model: event streams opened in a behaviour
  Buffer,          \* capacity of a channel
  NoConnection, NoRead, Sent,
  MaxLosses        \* bound of the model: connections and answers lost, and
                   \* changes of the list without an event

ASSUME BufferAssumption == Buffer \in Nat \ {0}
ASSUME BoundsAssumption == MaxComments \in Nat \ {0} /\ MaxConnections \in Nat /\ MaxLosses \in Nat

VARIABLES
  listed,      \* the comments List returns
  created,     \* the comments there ever were
  write,       \* the request of each client that changes a comment
  channel,     \* each connection: its page, whether the hub lists its channel,
               \* whether the channel is closed, and the events in it
  stream,      \* the connection each page listens on
  read,        \* the page's first read and its refresh
  shown,       \* how often each page shows each comment
  doubtful,    \* history: pages a change was kept from, until they read again
  refreshed,   \* history: pages that have shown a refresh
  losses

store == <<listed, created>>
hub   == <<channel, stream>>
liveVars == <<store, write, hub, read, shown, doubtful, refreshed, losses>>

(* Comments and connections are numbered as they come. *)
Comments    == 1..MaxComments
Connections == 1..MaxConnections

ASSUME MarksAssumption ==
  /\ NoRead # Sent /\ \A comments \in SUBSET Comments : comments # NoRead /\ comments # Sent
  /\ NoConnection \notin Connections

Clients == Pages \cup Others
Reads == {"first", "refresh"}
NoWrite == [at |-> "idle", op |-> "create", comment |-> 1]
Opening == [first |-> Sent, refresh |-> NoRead]
Unused == [page |-> CHOOSE p \in Pages : TRUE, used |-> FALSE,
           listed |-> FALSE, closed |-> FALSE, events |-> 0]

LiveInit ==
  /\ listed = {} /\ created = {}
  /\ write = [u \in Clients |-> NoWrite]
  /\ channel = [c \in Connections |-> Unused]
  /\ stream = [p \in Pages |-> NoConnection]
  /\ read = [p \in Pages |-> Opening]
  /\ shown = [p \in Pages |-> [x \in Comments |-> 0]]
  /\ doubtful = {} /\ refreshed = {} /\ losses = 0

Listening(p) == stream[p] # NoConnection
Waiting(p)   == Listening(p) /\ channel[stream[p]].events > 0
Loss == losses < MaxLosses /\ losses' = losses + 1

(* A read of p that begins later than now will tell it of any change. *)
ReadsLater(p) == Waiting(p) \/ read[p].refresh = Sent \/ read[p] = Opening

Once(comments) == [x \in Comments |-> IF x \in comments THEN 1 ELSE 0]

(* Event streams ----------------------------------------------------------*)

(* Subscribe: the page is connected, or connected again. *)
Subscribe(p, c) ==
  /\ ~Listening(p) /\ \A d \in Connections : channel[d].used <=> d < c
  /\ channel' = [channel EXCEPT ![c] = [Unused EXCEPT !.page = p, !.used = TRUE, !.listed = TRUE]]
  /\ stream' = [stream EXCEPT ![p] = c]
  /\ UNCHANGED <<store, write, read, shown, doubtful, refreshed, losses>>

(* The connection is lost, with the events that are on their way. *)
Lose(p) ==
  /\ Listening(p) /\ Loss
  /\ stream' = [stream EXCEPT ![p] = NoConnection]
  /\ doubtful' = IF Waiting(p) THEN doubtful \cup {p} ELSE doubtful
  /\ UNCHANGED <<store, write, channel, read, shown, refreshed>>

Abandoned(c) == channel[c].used /\ stream[channel[c].page] # c

(* The handler sees its request gone and unsubscribes: the hub forgets the *)
(* channel ...                                                             *)
Unsubscribe(c) ==
  /\ Abandoned(c) /\ channel[c].listed
  /\ channel' = [channel EXCEPT ![c].listed = FALSE]
  /\ UNCHANGED <<store, write, stream, read, shown, doubtful, refreshed, losses>>

(* ... which is then closed. *)
CloseChannel(c) ==
  /\ Abandoned(c) /\ ~channel[c].listed /\ ~channel[c].closed
  /\ channel' = [channel EXCEPT ![c].closed = TRUE]
  /\ UNCHANGED <<store, write, stream, read, shown, doubtful, refreshed, losses>>

(* Requests that change comments ------------------------------------------*)

Store(u, op, x) ==
  /\ write[u].at = "idle"
  /\ write' = [write EXCEPT ![u] = [at |-> "stored", op |-> op, comment |-> x]]
  /\ UNCHANGED <<hub, read, shown, doubtful, refreshed, losses>>

CreateComment(u, x) ==
  /\ created = 1..(x - 1) /\ created' = 1..x /\ listed' = listed \cup {x}
  /\ Store(u, "create", x)

(* Refused if the comment is gone. *)
Delete(u, x) ==
  /\ x \in listed /\ (u \in Pages => shown[u][x] > 0)
  /\ listed' = listed \ {x} /\ UNCHANGED created
  /\ Store(u, "delete", x)

(* Publish reaches who is subscribed; a full channel takes no more. *)
Sending(u, taking) ==
  /\ write[u].at = "stored" /\ write' = [write EXCEPT ![u].at = "published"]
  /\ channel' = [c \in Connections |->
        IF channel[c].listed /\ c \in taking THEN [channel[c] EXCEPT !.events = @ + 1] ELSE channel[c]]
  /\ doubtful' = doubtful \cup {q \in Pages : ~Listening(q) /\ read[q] # Opening}
  /\ UNCHANGED <<store, stream, read, shown, refreshed, losses>>

Full(c) == channel[c].events = Buffer

(* Faulty: a publisher waits for room in every channel. *)
PublishBlocking(u) ==
  /\ \A c \in Connections : channel[c].listed => ~Full(c)
  /\ Sending(u, Connections)

Publish(u) == Sending(u, {c \in Connections : ~Full(c)})

(* The database commits the change and the call fails all the same, the    *)
(* client having gone: an error for an answer, and no event.               *)
StoredUnheard(u) ==
  /\ write[u].at = "stored" /\ Loss
  /\ write' = [write EXCEPT ![u] = NoWrite]
  /\ doubtful' = doubtful \cup {p \in Pages : ~ReadsLater(p)}
  /\ UNCHANGED <<store, hub, read, shown, refreshed>>

(* SetAdminHidden: an admin hides a comment or restores one, also one that *)
(* its author deleted, and publishes nothing.                              *)
Moderate(x) ==
  /\ x \in created /\ Loss
  /\ listed' = IF x \in listed THEN listed \ {x} ELSE listed \cup {x}
  /\ doubtful' = doubtful \cup {p \in Pages : ~ReadsLater(p)}
  /\ UNCHANGED <<created, write, hub, read, shown, refreshed>>

(* The answer arrives: a page puts a new comment on top of its list, which *)
(* has it already if it was read again meanwhile, and takes a deleted one  *)
(* out, which may have been restored.                                      *)
ShowAnswer(p) ==
  LET x == write[p].comment
      late == (write[p].op = "create" \/ x \in listed) /\ ~Waiting(p) /\ read[p].refresh = NoRead
  IN  /\ shown' = [shown EXCEPT ![p][x] = IF write[p].op = "create" THEN @ + 1 ELSE 0]
      /\ doubtful' = IF late THEN doubtful \cup {p} ELSE doubtful

Answered(u) ==
  /\ write[u].at = "published" /\ write' = [write EXCEPT ![u] = NoWrite]
  /\ IF u \in Pages THEN ShowAnswer(u) ELSE UNCHANGED <<shown, doubtful>>
  /\ UNCHANGED <<store, hub, read, refreshed, losses>>

AnswerLost(u) ==
  /\ write[u].at = "published" /\ Loss
  /\ write' = [write EXCEPT ![u] = NoWrite]
  /\ UNCHANGED <<store, hub, read, shown, doubtful, refreshed>>

(* Pages that read --------------------------------------------------------*)

(* Faulty: an event during a refresh is taken to be covered by it. *)
ReceiveOnce(p) ==
  /\ Waiting(p) /\ channel' = [channel EXCEPT ![stream[p]].events = @ - 1]
  /\ read' = IF read[p].refresh = NoRead THEN [read EXCEPT ![p].refresh = Sent] ELSE read
  /\ UNCHANGED <<store, write, stream, shown, doubtful, refreshed, losses>>

(* An event arrives: a refresh that is under way is given up for a new one.*)
Receive(p) ==
  /\ Waiting(p) /\ channel' = [channel EXCEPT ![stream[p]].events = @ - 1]
  /\ read' = [read EXCEPT ![p].refresh = Sent]
  /\ UNCHANGED <<store, write, stream, shown, doubtful, refreshed, losses>>

(* List is read for p ... *)
List(p, kind) ==
  /\ read[p][kind] = Sent /\ read' = [read EXCEPT ![p][kind] = listed]
  /\ doubtful' = IF kind = "refresh" THEN doubtful \ {p} ELSE doubtful
  /\ UNCHANGED <<store, write, hub, shown, refreshed, losses>>

(* ... and shown.  The first read is not given up when a refresh starts,   *)
(* and may be the older of the two.                                        *)
Show(p, kind) ==
  /\ read[p][kind] \notin {Sent, NoRead}
  /\ shown' = [shown EXCEPT ![p] = Once(read[p][kind])]
  /\ read' = [read EXCEPT ![p][kind] = NoRead]
  /\ refreshed' = IF kind = "refresh" THEN refreshed \cup {p} ELSE refreshed
  /\ doubtful' = IF kind = "first" /\ p \in refreshed THEN doubtful \cup {p} ELSE doubtful
  /\ UNCHANGED <<store, write, hub, losses>>

(* A read fails: the first leaves an empty list. *)
ReadFails(p, kind) ==
  /\ read[p][kind] # NoRead /\ Loss
  /\ read' = [read EXCEPT ![p][kind] = NoRead]
  /\ shown' = IF kind = "first" THEN [shown EXCEPT ![p] = Once({})] ELSE shown
  /\ doubtful' = doubtful \cup {p}
  /\ UNCHANGED <<store, write, hub, refreshed>>

Gateway(u) == Publish(u) \/ Answered(u)

LiveNext ==
  \/ \E u \in Clients :
       \/ \E x \in Comments : CreateComment(u, x) \/ Delete(u, x)
       \/ Gateway(u) \/ StoredUnheard(u) \/ AnswerLost(u)
  \/ \E x \in Comments : Moderate(x)
  \/ \E p \in Pages :
       \/ \E c \in Connections : Subscribe(p, c)
       \/ Lose(p) \/ Receive(p)
       \/ \E kind \in Reads : List(p, kind) \/ Show(p, kind) \/ ReadFails(p, kind)
  \/ \E c \in Connections : Unsubscribe(c) \/ CloseChannel(c)

(* A handler that was told its change is stored publishes and answers.     *)
(* Nothing is asked of the pages, which may be as slow as they like, nor   *)
(* of admins.                                                              *)
LiveSpec == LiveInit /\ [][LiveNext]_liveVars /\ \A u \in Clients : WF_liveVars(Gateway(u))

-----------------------------------------------------------------------------
LiveTypeOK ==
  /\ listed \subseteq created /\ created \subseteq Comments
  /\ write \in [Clients -> [at : {"idle", "stored", "published"}, op : {"create", "delete"}, comment : Comments]]
  /\ channel \in [Connections -> [page : Pages, used : BOOLEAN, listed : BOOLEAN,
                                 closed : BOOLEAN, events : 0..Buffer]]
  /\ stream \in [Pages -> Connections \cup {NoConnection}]
  /\ \A p \in Pages : Listening(p) => channel[stream[p]].page = p /\ channel[stream[p]].listed
  /\ read \in [Pages -> [Reads -> {NoRead, Sent} \cup SUBSET created]]
  /\ shown \in [Pages -> [Comments -> 0..2]]
  /\ doubtful \subseteq Pages /\ refreshed \subseteq Pages /\ losses \in 0..MaxLosses

(* No reader, however slow, keeps a writer from its answer (Publish).      *)
WritersAnswered == \A u \in Clients : write[u].at = "stored" ~> write[u].at = "idle"

AtRest(p) ==
  /\ Listening(p) /\ ~Waiting(p) /\ read[p] = [first |-> NoRead, refresh |-> NoRead]
  /\ write[p].at = "idle" /\ \A u \in Clients : write[u].at # "stored"

(* A page that comes to rest shows the comments there are, each once:      *)
(* events may be dropped by a full channel, refreshes given up halfway and *)
(* answers come in any order.  The exceptions are doubtful pages, until    *)
(* their next refresh: an admin hid or restored a comment, or the store    *)
(* committed a change and reported an error, which no event tells of, at a *)
(* moment when the page was not about to read; a change was published      *)
(* while they were not connected; a read failed; the first read was shown  *)
(* over a refresh; or the answer to a request of their own came late, to a *)
(* list that had the new comment or a deleted one that was restored.       *)
PagesCatchUp == \A p \in Pages : AtRest(p) /\ p \notin doubtful => shown[p] = Once(listed)
=============================================================================
