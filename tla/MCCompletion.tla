---------------------------- MODULE MCCompletion ----------------------------
(* Small instances of Completion for TLC. *)
EXTENDS Completion, TLC

CONSTANTS u1, u2

Ranked == u1 :> 1 @@ u2 :> 0

OneOfEach == [kind \in FaultKinds |-> 1]

(* Connections are alike, and so are the tasks. *)
Symmetry == Permutations(Conns) \cup Permutations(Tasks)
=============================================================================
