----------------------- MODULE MCCoordinatorHistory ------------------------
(* Instances of CoordinatorHistory for TLC. *)
EXTENDS CoordinatorHistory, TLC

Symmetry == Permutations(Events) \union Permutations(Tasks)
            \union Permutations(Recordings)
=============================================================================
