------------------------------ MODULE Directory -------------------------------
(***************************************************************************)
(* What the User and the Auth Service promise together, without requests,  *)
(* tokens, time or failures: a directory in which an account is registered *)
(* at one moment, never changes and is never removed, and only its owner   *)
(* is logged in to it.                                                     *)
(***************************************************************************)
VARIABLES
  accounts,   \* the accounts, each with an id, a username and a password
  confirmed,  \* those whose owner was told that the sign-up succeeded
  loggedIn    \* those somebody holds a valid token of

directoryVars == <<accounts, confirmed, loggedIn>>

DirectoryInit ==
  /\ accounts = {}
  /\ confirmed = {}
  /\ loggedIn = {}

(* The owner may never learn that it worked. *)
Register(a) ==
  /\ \A b \in accounts : b.id # a.id /\ b.username # a.username
  /\ accounts' = accounts \cup {a}
  /\ confirmed' \in {confirmed, confirmed \cup {a}}
  /\ UNCHANGED loggedIn

LogIn(a) ==
  /\ a \in accounts
  /\ loggedIn' = loggedIn \cup {a}
  /\ UNCHANGED <<accounts, confirmed>>

DirectoryNext ==
  \/ \E a \in accounts' \ accounts : Register(a)
  \/ \E a \in accounts : LogIn(a)

DirectorySpec == DirectoryInit /\ [][DirectoryNext]_directoryVars
=============================================================================
