----------------------------- MODULE MCSessions -----------------------------
(***************************************************************************)
(* Instances of Sessions for TLC.  Its runs search for the safety          *)
(* violations under permutations of the interchangeable values.            *)
(***************************************************************************)
EXTENDS Sessions, TLC

Interchangeable ==
    UNION {Permutations(S) : S \in {User, Password, Jti, Slot}}
=============================================================================
