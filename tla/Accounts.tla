------------------------------ MODULE Accounts -------------------------------
(***************************************************************************)
(* Accounts and tokens: the User Service, the Auth Service it calls over   *)
(* gRPC, and the gateway that has every other request's token validated.   *)
(*                                                                         *)
(* SignUp hashes the password and inserts a row; the table's unique        *)
(* constraint decides between sign-ups of one name.  Login reads the row,  *)
(* compares the password, and asks the Auth Service for an access token    *)
(* and then for a refresh token.  The Auth Service keeps nothing: a token  *)
(* is its claims, and is valid as long as its expiry is in the future.     *)
(*                                                                         *)
(* Abstracted: hashing and signing (a hash is known by its password, a     *)
(* token by its claims), requests refused for their form, the role (every  *)
(* account has the same), the display name.                                *)
(***************************************************************************)
EXTENDS Integers, FiniteSets

CONSTANTS
  Emails,
  Passwords,
  Handlers,          \* requests that can be in hand at the same time
  AccessExpireTime,  \* config: access_token_expire_time, in seconds
  RefreshExpireTime, \* config: refresh_token_expire_time, in seconds
  Second,            \* a second, as a time.Duration
  Epoch,             \* the wall clock at the start, in seconds since 1970
  MaxTime,           \* bound: how many seconds pass
  MaxInserts,        \* bound: no sign-up begins when more ids were drawn
  MaxFaults          \* bound: how many kinds of fault may strike, once each

(***************************************************************************)
(* "insert", "select": PostgreSQL fails;  "token": a gRPC call fails;      *)
(* "crash": the User Service is restarted.                                 *)
(***************************************************************************)
FaultKinds == {"insert", "select", "token", "crash"}

ASSUME AccountsAssumption ==
  /\ AccessExpireTime \in Nat \ {0}
  /\ RefreshExpireTime \in Nat \ {0}
  /\ Second \in Nat \ {0}
  /\ Epoch \in Nat /\ MaxTime \in Nat
  /\ MaxInserts \in Nat /\ MaxFaults \in Nat

VARIABLES
  now,       \* wall clock
  users,     \* PostgreSQL: the rows of the table
  nextId,    \* PostgreSQL: the sequence ids are drawn from
  handler,   \* the request in hand of each handler
  signedUp,  \* history: the sign-ups that were told to have succeeded
  sessions,  \* history: the logins that succeeded, with their tokens
  faults     \* history: the kinds of fault that struck

vars == <<now, users, nextId, handler, signedUp, sessions, faults>>

User == [id : Nat, username : Emails, password : Passwords]
Token == [id : Nat, exp : Nat]
Credentials == [email : Emails, password : Passwords]
Session == [email : Emails, password : Passwords, access : Token, refresh : Token]

NoToken == [id |-> 0, exp |-> 0]

BusyHandler ==
  [pc      : {"insert", "select", "access", "refresh"},
   request : Credentials,
   id      : Nat,
   access  : Token]

Idle == [pc |-> "idle"]

TypeOK ==
  /\ now \in Nat
  /\ users \subseteq User
  /\ nextId \in Nat \ {0}
  /\ handler \in [Handlers -> BusyHandler \cup {Idle}]
  /\ signedUp \subseteq Credentials
  /\ sessions \subseteq Session
  /\ faults \subseteq FaultKinds

Init ==
  /\ now = Epoch
  /\ users = {}
  /\ nextId = 1
  /\ handler = [h \in Handlers |-> Idle]
  /\ signedUp = {}
  /\ sessions = {}
  /\ faults = {}

Strike(kind) ==
  /\ kind \notin faults /\ Cardinality(faults) < MaxFaults
  /\ faults' = faults \cup {kind}

Request(email, password) == [email |-> email, password |-> password]

Return(h) == handler' = [handler EXCEPT ![h] = Idle]

-----------------------------------------------------------------------------
(* Sign-up *)

SignUp(h, email, password) ==
  /\ handler[h].pc = "idle"
  /\ nextId <= MaxInserts
  /\ handler' = [handler EXCEPT ![h] =
                   [pc |-> "insert", request |-> Request(email, password),
                    id |-> 0, access |-> NoToken]]
  /\ UNCHANGED <<now, users, nextId, signedUp, sessions, faults>>

(* The constraint UNIQUE of the column username. *)
Duplicate_Never(email) == FALSE
Duplicate(email) == \E u \in users : u.username = email

(***************************************************************************)
(* An id is drawn even for a row that is then refused.  A row may be stored*)
(* although its sign-up is told that something went wrong.                 *)
(***************************************************************************)
InsertUser(h) ==
  LET request == handler[h].request
      new == [id |-> nextId, username |-> request.email, password |-> request.password]
  IN
  /\ handler[h].pc = "insert"
  /\ \/ /\ ~Duplicate(request.email)
        /\ users' = users \cup {new}
        /\ nextId' = nextId + 1
        /\ \/ signedUp' = signedUp \cup {request} /\ UNCHANGED faults
           \/ Strike("insert") /\ UNCHANGED signedUp
     \/ /\ Duplicate(request.email)
        /\ nextId' = nextId + 1
        /\ UNCHANGED <<users, signedUp, faults>>
     \/ /\ Strike("insert")
        /\ UNCHANGED <<users, nextId, signedUp>>
  /\ Return(h)
  /\ UNCHANGED <<now, sessions>>

-----------------------------------------------------------------------------
(* Tokens: the Auth Service *)

(* The claim "exp", a time in seconds, is the duration itself, in nanoseconds. *)
Expiry(duration) == duration * Second

CreateToken(id, duration) == [id |-> id, exp |-> Expiry(duration)]

ValidateToken(token, time) == time < token.exp

(* Profile: the rows found for the id the gateway takes from a valid token. *)
Profile(token) == {u \in users : ValidateToken(token, now) /\ u.id = token.id}

-----------------------------------------------------------------------------
(* Login *)

Login(h, email, password) ==
  /\ handler[h].pc = "idle"
  /\ handler' = [handler EXCEPT ![h] =
                   [pc |-> "select", request |-> Request(email, password),
                    id |-> 0, access |-> NoToken]]
  /\ UNCHANGED <<now, users, nextId, signedUp, sessions, faults>>

CheckPasswordHash_Always(password, user) == TRUE
CheckPasswordHash(password, user) == user.password = password

(* The row of the name, if there is one and its password is the one given. *)
GetUser(h) ==
  LET request == handler[h].request
      rows == {u \in users : u.username = request.email}
  IN
  /\ handler[h].pc = "select"
  /\ \/ /\ \E u \in rows :
             handler' = IF CheckPasswordHash(request.password, u)
                        THEN [handler EXCEPT ![h].pc = "access", ![h].id = u.id]
                        ELSE [handler EXCEPT ![h] = Idle]
        /\ UNCHANGED faults
     \/ rows = {} /\ Return(h) /\ UNCHANGED faults
     \/ Strike("select") /\ Return(h)
  /\ UNCHANGED <<now, users, nextId, signedUp, sessions>>

GetAccessToken(h) ==
  /\ handler[h].pc = "access"
  /\ \/ /\ handler' = [handler EXCEPT
                         ![h].pc = "refresh",
                         ![h].access = CreateToken(handler[h].id, AccessExpireTime)]
        /\ UNCHANGED faults
     \/ Strike("token") /\ Return(h)
  /\ UNCHANGED <<now, users, nextId, signedUp, sessions>>

(* A login that gets no refresh token keeps its access token to itself. *)
GetRefreshToken(h) ==
  LET request == handler[h].request IN
  /\ handler[h].pc = "refresh"
  /\ \/ /\ sessions' = sessions \cup
             {[email |-> request.email, password |-> request.password,
               access |-> handler[h].access,
               refresh |-> CreateToken(handler[h].id, RefreshExpireTime)]}
        /\ UNCHANGED faults
     \/ Strike("token") /\ UNCHANGED sessions
  /\ Return(h)
  /\ UNCHANGED <<now, users, nextId, signedUp>>

-----------------------------------------------------------------------------
(* Environment *)

Crash ==
  /\ Strike("crash")
  /\ handler' = [h \in Handlers |-> Idle]
  /\ UNCHANGED <<now, users, nextId, signedUp, sessions>>

Tick ==
  /\ now < Epoch + MaxTime
  /\ now' = now + 1
  /\ UNCHANGED <<users, nextId, handler, signedUp, sessions, faults>>

Handle(h) == InsertUser(h) \/ GetUser(h) \/ GetAccessToken(h) \/ GetRefreshToken(h)

Next ==
  \/ \E h \in Handlers, e \in Emails, p \in Passwords : SignUp(h, e, p) \/ Login(h, e, p)
  \/ \E h \in Handlers : Handle(h)
  \/ Crash
  \/ Tick

Spec == Init /\ [][Next]_vars

-----------------------------------------------------------------------------
(* Properties *)

(***************************************************************************)
(* As long as they are accepted, both tokens of a login lead to one and the*)
(* same profile, that of the account with the name and the password of the *)
(* login, however sign-ups of that name raced, were refused or were stored *)
(* in spite of an error.                                                   *)
(***************************************************************************)
SessionsAreOwn ==
  \A s \in sessions : \A token \in {s.access, s.refresh} :
    ValidateToken(token, now) => \E u \in users :
      /\ Profile(token) = {u}
      /\ u.username = s.email /\ u.password = s.password

(***************************************************************************)
(* A sign-up that succeeded stays good for a login: the name is in the     *)
(* table once, with the password that was given, and no other sign-up of it*)
(* was told to have succeeded.                                             *)
(***************************************************************************)
SignedUpCanLogin ==
  \A request \in signedUp :
    /\ \A u \in users : u.username = request.email => u.password = request.password
    /\ Cardinality({u \in users : u.username = request.email}) = 1
    /\ \A other \in signedUp : other.email = request.email => other = request

Claimed(s) ==
  {[id |-> token.id, username |-> s.email, password |-> s.password] :
     token \in {s.access, s.refresh}}

Dir == INSTANCE Directory WITH
  accounts  <- users,
  confirmed <- {u \in users : Request(u.username, u.password) \in signedUp},
  loggedIn  <- UNION {Claimed(s) : s \in sessions}

(***************************************************************************)
(* Sign-ups that race, fail half way or are told of an error, and logins   *)
(* that take three calls, behave like a directory in which registering and *)
(* logging in are single steps: a name has one account, for ever, whoever  *)
(* is told of success has it, and both tokens of a login are those of the  *)
(* account with its name and its password.                                 *)
(***************************************************************************)
ImplementsDirectory == Dir!DirectorySpec
=============================================================================
