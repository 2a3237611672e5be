------------------------------ MODULE MCJoining ------------------------------
(* Small instances of Joining for TLC. *)
EXTENDS Joining, TLC

CONSTANTS p1, p2

(* Groups are even, as MatchMaking makes them. *)
EvenGroups == {G \in SUBSET Users : Cardinality(G) % 2 = 0}

(* p1 asks twice for a category and once for something else, p2 once. *)
FewAsks ==
  [p \in Users |-> [n \in Names |->
     IF p = p1 THEN IF n \in Categories THEN 2 ELSE 1
               ELSE IF n \in Categories THEN 1 ELSE 0]]

(* p1 asks twice for a category, p2 once. *)
TwoAsks ==
  [p \in Users |-> [n \in Names |->
     IF n \in UnknownNames THEN 0 ELSE IF p = p1 THEN 2 ELSE 1]]

Symmetry == Permutations(Runs)
=============================================================================
