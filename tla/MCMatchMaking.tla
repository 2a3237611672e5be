---------------------------- MODULE MCMatchMaking ----------------------------
(* Small instances of MatchMaking for TLC. *)
EXTENDS MatchMakingPool, TLC

OneCategory == <<"SPORT">>

Faults(reads, publishes, removes, crashes) ==
  [read |-> reads, publish |-> publishes, remove |-> removes, crash |-> crashes]

ReadRemoveCrash == Faults(1, 0, 1, 1)
PublishRemoveCrash == Faults(0, 1, 1, 1)

Symmetry == Permutations(Users) \cup Permutations(Runs)
=============================================================================
