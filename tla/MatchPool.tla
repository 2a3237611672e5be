------------------------------ MODULE MatchPool ------------------------------
(***************************************************************************)
(* What matchmaking promises, without lists, scores, runs or windows: a    *)
(* pool of players per category.  Players enter it, alone or several at a  *)
(* time, and an allowed group of each category leaves it, atomically, as   *)
(* the match of that category.                                             *)
(*                                                                         *)
(* Two weaker pools are described as well: one that may match, again,      *)
(* players who left the pool before (Overlapping), and one whose groups    *)
(* may leave without becoming a match (Lossy).                             *)
(***************************************************************************)
CONSTANTS
  Users,
  Categories,
  AllowedGroups, \* the sets of players that may be matched together
  Overlapping,   \* may a player who has left the pool be matched again?
  Lossy          \* may a group be lost?

VARIABLES
  pool,     \* pool[c]: the players of category c not yet matched
  former,   \* former[c]: the players who have ever left pool[c]
  matched   \* the groups matched last

poolVars == <<pool, former, matched>>

PoolTypeOK ==
  /\ pool \in [Categories -> SUBSET Users]
  /\ former \in [Categories -> SUBSET Users]
  /\ matched \in [Categories -> SUBSET Users]

PoolInit ==
  /\ pool = [c \in Categories |-> {}]
  /\ former = [c \in Categories |-> {}]
  /\ matched = [c \in Categories |-> {}]

EnterPool(players) ==
  /\ pool' = [c \in Categories |-> pool[c] \cup players[c]]
  /\ UNCHANGED <<former, matched>>

LeavePool(groups) ==
  /\ \E c \in Categories : groups[c] # {}
  /\ \A c \in Categories :
       /\ groups[c] \in AllowedGroups
       /\ groups[c] \ pool[c] \subseteq (IF Overlapping THEN former[c] ELSE {})
  /\ pool' = [c \in Categories |-> pool[c] \ groups[c]]
  /\ former' = [c \in Categories |-> former[c] \cup groups[c]]

MatchGroups(groups) ==
  /\ LeavePool(groups)
  /\ matched' = groups

LoseGroups(groups) ==
  /\ Lossy
  /\ LeavePool(groups)
  /\ UNCHANGED matched

PoolNext ==
  \/ \E players \in [Categories -> SUBSET Users] : EnterPool(players)
  \/ \E groups \in [Categories -> SUBSET Users] :
        MatchGroups(groups) \/ LoseGroups(groups)

PoolSpec == PoolInit /\ [][PoolNext]_poolVars
=============================================================================
