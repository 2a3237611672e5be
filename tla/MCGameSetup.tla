----------------------------- MODULE MCGameSetup -----------------------------
(* Small instances of GameSetup and the Question Service for TLC. *)
EXTENDS QuestionService, TLC

CONSTANTS m1, m2

EachFaultOnce == [k \in FaultKinds |-> 1]

(* More questions than are asked for, and just as many. *)
RichAndPoor == m1 :> 2 @@ m2 :> 1
=============================================================================
