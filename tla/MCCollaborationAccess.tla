----------------------- MODULE MCCollaborationAccess -----------------------
(* CollaborationAccess on two users, two rooms, two connections. *)
EXTENDS CollaborationAccess
=============================================================================
