------------------------------- MODULE MCGoals -------------------------------
(***************************************************************************)
(* Instances of Goals for TLC: percentages that fit together twice (40+60) *)
(* or not (60+60).                                                         *)
(***************************************************************************)
EXTENDS Goals, TLC

Interchangeable == UNION {Permutations(S) : S \in {Goal, Slot}}

Plain == [limit |-> 1, income |-> FALSE, dated |-> TRUE]

\* Two goals meet only while the configuration is plain and no request remembers
\* another; with one, only the income changes.
FewGoalsWhileConfiguring ==
    \/ created = {}
    \/ /\ Cardinality(created) = 1
       /\ \A u \in Configured : config[u].limit = 1
    \/ /\ \A u \in Configured : config[u] = Plain
       /\ \A s \in Slot :
            /\ req[s].op \notin {"limit", "income"}
            /\ req[s].loaded \in {Unset} \cup {Known(u) : u \in User}
=============================================================================
