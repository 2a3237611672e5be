------------------------------ MODULE MCAnswers ------------------------------
(* Small instances of Answers for TLC. *)
EXTENDS Answers, TLC

CONSTANTS p1, l1, l2, s1, s2

OneLoop == l1 :> p1
Reconnected == l1 :> p1 @@ l2 :> p1

NoFaults == [k \in FaultKinds |-> 0]
Completing == [NoFaults EXCEPT !["board"] = 1, !["crash"] = 1, !["stamp"] = 1]
Answering == [NoFaults EXCEPT !["get"] = 1, !["find"] = 1, !["insert"] = 1]

(* The connections of the one player are alike, and so are the handlers of READY. *)
Symmetry == Permutations(Loops) \cup Permutations(Starters)
=============================================================================
