----------------------------- MODULE MCAccounts -----------------------------
(***************************************************************************)
(* Instances of Accounts for TLC.  Identifiers are numbers, so that CHOOSE *)
(* takes them in turn.                                                     *)
(***************************************************************************)
EXTENDS Accounts, TLC
=============================================================================
