------------------------ MODULE MCCollaborationRoom ------------------------
(* CollaborationRoom on two editors who type two edits. *)
EXTENDS CollaborationRoom
=============================================================================
