----------------------------- MODULE MCDashboard -----------------------------
(***************************************************************************)
(* Instances of Dashboard for TLC.                                         *)
(***************************************************************************)
EXTENDS Dashboard, TLC

Interchangeable == UNION {Permutations(S) : S \in {User, Password, Jti, Slot}}

\* The accounts have one password, so that a second one is a wrong one.
OnePassword == \A u, v \in User : password[u] = password[v]
=============================================================================
