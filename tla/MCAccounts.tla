---------------------------- MODULE MCAccounts ----------------------------
(* Accounts on one mailbox, one OAuth account and three requests.  Requests*)
(* are not taken as interchangeable: a liveness property is checked.       *)
EXTENDS Accounts
=============================================================================
