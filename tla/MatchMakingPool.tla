--------------------------- MODULE MatchMakingPool ---------------------------
(* MatchMaking seen as an implementation of MatchPool. *)
EXTENDS MatchMaking

(* At most one scheduler run at a time, and a producer that never fails.   *)
SingleRun == \A r, q \in Runs : r = q
PublishWorks == MaxFaults["publish"] = 0

(***************************************************************************)
(* Refinement: a player is in the pool from joining until the producer has *)
(* answered for the message that names them; the removals that follow      *)
(* change nothing.  A join of a player who is published but not yet removed*)
(* is absorbed; a removal that fails and a crash put players back who have *)
(* left the pool before.                                                   *)
(***************************************************************************)
Pool == INSTANCE MatchPool WITH
  AllowedGroups <- {G \in SUBSET Users : Cardinality(G) % 2 = 0},
  Overlapping   <- ~SingleRun,
  Lossy         <- ~PublishWorks,
  pool          <- [c \in Categories |-> Waiting(waiting[c]) \ BeingRemoved(c)],
  former        <- gone,
  matched       <- topic

(***************************************************************************)
(* MatchMaking implements MatchPool: every group leaves the pool atomically*)
(* although the code reads, publishes and removes in separate steps.  Where*)
(* runs can overlap, as gocron allows, a group may hold players who left   *)
(* the pool before, but never one who was not in it; a group is lost only  *)
(* where the producer can fail.                                            *)
(***************************************************************************)
ImplementsMatchPool == Pool!PoolSpec
=============================================================================
