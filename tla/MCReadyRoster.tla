---------------------------- MODULE MCReadyRoster ----------------------------
(* Small instances of ReadyRoster for TLC. *)
EXTENDS ReadyRoster, TLC

CONSTANTS p1, p2, p3, p4, s1, l1, l2

(* Two or four players, of whom two send READY, or one and somebody else. *)
TwoPlayers == {p1, p2}
FourPlayers == {p1, p2, p3, p4}
TwoLoops == {l1, l2}
Outsider == {s1}
OwnerOfTwo == l1 :> p1 @@ l2 :> p2
OwnerAndOutsider == l1 :> p1 @@ l2 :> s1

NoFaults == [k \in FaultKinds |-> 0]
OneOfEach == [k \in FaultKinds |-> 1]
=============================================================================
