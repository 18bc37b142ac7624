---------------------------- MODULE MCEmailQueue ----------------------------
(***************************************************************************)
(* A flagged request, two overlapping processes and an administrator who   *)
(* can enable, disable and enable the mails, with two accounts.            *)
(***************************************************************************)
EXTENDS EmailQueue
=============================================================================
