--------------------------- MODULE MCLiveComments ---------------------------
(* LiveComments on one page, two comments and channels of one event. *)
EXTENDS LiveComments
=============================================================================
