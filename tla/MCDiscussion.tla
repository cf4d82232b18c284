---------------------------- MODULE MCDiscussion ----------------------------
(* Discussion on a handful of requests; requests and users are interchangeable. *)
EXTENDS Discussion, TLC

Symmetry == Permutations(Requests) \cup Permutations(Users)
=============================================================================
