------------------------ MODULE RevisionHistory ------------------------
(***************************************************************************)
(* What the version history of one document promises, without the          *)
(* handlers, the round trips and the races that produce it.                *)
(*                                                                         *)
(* A history maps a version number to the revision stored under it.  Three *)
(* things may happen to it: a revision is published under a number nobody  *)
(* holds, an "edit" revision is rewritten in place (the coalescing window),*)
(* and the oldest revisions are dropped while the Keep newest stay.        *)
(* Nothing renumbers a revision, rewrites a checkpoint ("create" and       *)
(* "restore"), or drops the newest one.                                    *)
(***************************************************************************)
EXTENDS Integers, FiniteSets, Functions

CONSTANTS Keep,      \* revisions a prune leaves in place
          Texts,     \* the bodies a document may have
          Authors,
          RevisionIds

VARIABLE history

Sources == {"create", "edit", "restore"}

Revision == [id : RevisionIds, text : Texts, author : Authors, source : Sources]

IsHistory(h) == /\ IsFiniteSet(DOMAIN h)
                /\ DOMAIN h \subseteq Nat \ {0}
                /\ h \in [DOMAIN h -> Revision]

Init == IsHistory(history) /\ DOMAIN history \subseteq {1}

Publish ==
  \E v \in DOMAIN history' \ DOMAIN history :
    /\ v \in Nat \ {0}
    /\ history'[v] \in Revision
    /\ history' = [u \in DOMAIN history \cup {v} |->
                    IF u = v THEN history'[v] ELSE history[u]]

Rewrite(v, text) ==
  /\ v \in DOMAIN history
  /\ history[v].source = "edit"
  /\ history' = [history EXCEPT ![v].text = text]

DropOldest ==
  /\ DOMAIN history' \subseteq DOMAIN history
  /\ history' = Restrict(history, DOMAIN history')
  /\ Cardinality(DOMAIN history') >= Keep
  /\ \A gone \in DOMAIN history \ DOMAIN history', kept \in DOMAIN history' : gone < kept

Next ==
  \/ Publish
  \/ \E v \in DOMAIN history, text \in Texts : Rewrite(v, text)
  \/ DropOldest

Spec == Init /\ [][Next]_history
=============================================================================
