------------------------ MODULE MCDocumentRevisions ------------------------
(* DocumentRevisions on a handful of requests.  Requests and authors are   *)
(* interchangeable: nothing in the code orders or distinguishes them.      *)
EXTENDS DocumentRevisions, TLC

Symmetry == Permutations(Requests) \cup Permutations(Authors)

(* The locals of a handler that has ended are gone: no step reads them.    *)
Seen ==
  <<docVars, history, fresh, pc, noted,
    [r \in {q \in Requests : pc[q] # "done"} |->
       <<author[r], source[r], text[r], version[r], target[r], limit[r]>>]>>

AllRoutes   == {"patch", "snapshot", "restore"}
AllFaults   == {"record", "prune", "meta"}
=============================================================================
