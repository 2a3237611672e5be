--------------------------- MODULE AccountsProofs ----------------------------
(***************************************************************************)
(* Theorems about Accounts, for any names, passwords, number of requests in*)
(* hand, life of tokens and faults.                                        *)
(***************************************************************************)
EXTENDS Accounts, FiniteSetTheorems, TLAPS

LEMMA ExpiryType ==
  ASSUME NEW duration \in Nat
  PROVE  Expiry(duration) \in Nat
BY AccountsAssumption DEF Expiry

LEMMA CreateTokenType ==
  ASSUME TypeOK, NEW id \in Nat, NEW duration \in Nat
  PROVE  CreateToken(id, duration) \in Token
BY ExpiryType DEF CreateToken, Token, TypeOK

-----------------------------------------------------------------------------
(***************************************************************************)
(* Type correctness.                                                       *)
(***************************************************************************)
LEMMA TypeInit == Init => TypeOK
BY AccountsAssumption DEF Init, TypeOK

LEMMA TypeNext == TypeOK /\ [Next]_vars => TypeOK'
<1> SUFFICES ASSUME TypeOK, [Next]_vars PROVE TypeOK'
  OBVIOUS
<1>t. /\ now \in Nat /\ users \subseteq User /\ nextId \in Nat \ {0}
      /\ handler \in [Handlers -> BusyHandler \cup {Idle}]
      /\ signedUp \subseteq Credentials /\ sessions \subseteq Session
      /\ faults \subseteq FaultKinds
  BY DEF TypeOK
<1>b. \A h \in Handlers : handler[h].pc # "idle" => handler[h] \in BusyHandler
  BY <1>t DEF Idle
<1>f. ASSUME NEW k \in FaultKinds, Strike(k) PROVE faults' \subseteq FaultKinds
  BY <1>t, <1>f DEF Strike
<1>1. ASSUME NEW h \in Handlers, NEW e \in Emails, NEW p \in Passwords,
             SignUp(h, e, p) \/ Login(h, e, p)
      PROVE  TypeOK'
  <2>1. Request(e, p) \in Credentials /\ NoToken \in Token
    BY DEF Request, Credentials, NoToken, Token
  <2> QED BY <1>1, <1>t, <2>1 DEF SignUp, Login, TypeOK, BusyHandler
<1>2. ASSUME NEW h \in Handlers, InsertUser(h) PROVE TypeOK'
  <2> DEFINE request == handler[h].request
             new == [id |-> nextId, username |-> request.email, password |-> request.password]
  <2>1. request \in Credentials /\ new \in User
    BY <1>2, <1>b, <1>t DEF InsertUser, BusyHandler, Credentials, User
  <2>2. users' \subseteq User
    BY <1>2, <1>t, <2>1 DEF InsertUser
  <2>3. nextId' \in Nat \ {0}
    BY <1>2, <1>t DEF InsertUser
  <2>4. signedUp' \subseteq Credentials
    BY <1>2, <1>t, <2>1 DEF InsertUser
  <2>5. faults' \subseteq FaultKinds
    BY <1>2, <1>t, <1>f DEF InsertUser, FaultKinds
  <2> QED BY <1>2, <1>t, <2>2, <2>3, <2>4, <2>5 DEF InsertUser, Return, TypeOK
<1>3. ASSUME NEW h \in Handlers, GetUser(h) PROVE TypeOK'
  <2>1. handler[h] \in BusyHandler
    BY <1>3, <1>b DEF GetUser
  <2>2. handler' \in [Handlers -> BusyHandler \cup {Idle}]
    <3>1. CASE handler' = [handler EXCEPT ![h] = Idle]
      BY <1>t, <3>1
    <3>2. ASSUME NEW u \in users,
                 handler' = [handler EXCEPT ![h].pc = "access", ![h].id = u.id]
          PROVE  handler' \in [Handlers -> BusyHandler \cup {Idle}]
      BY <1>t, <2>1, <3>2 DEF BusyHandler, User
    <3> QED BY <1>3, <3>1, <3>2 DEF GetUser, Return
  <2>3. faults' \subseteq FaultKinds
    BY <1>3, <1>t, <1>f DEF GetUser, FaultKinds
  <2> QED BY <1>3, <1>t, <2>2, <2>3 DEF GetUser, TypeOK
<1>4. ASSUME NEW h \in Handlers, GetAccessToken(h) PROVE TypeOK'
  <2> DEFINE token == CreateToken(handler[h].id, AccessExpireTime)
  <2>1. handler[h] \in BusyHandler
    BY <1>4, <1>b DEF GetAccessToken
  <2>2. token \in Token
    BY <2>1, CreateTokenType, AccountsAssumption DEF BusyHandler
  <2>3. handler' \in [Handlers -> BusyHandler \cup {Idle}]
    <3>1. CASE handler' = [handler EXCEPT ![h] = Idle]
      BY <1>t, <3>1
    <3>2. CASE handler' = [handler EXCEPT ![h].pc = "refresh", ![h].access = token]
      <4> HIDE DEF token
      <4> QED BY <1>t, <2>1, <2>2, <3>2 DEF BusyHandler
    <3> QED BY <1>4, <3>1, <3>2 DEF GetAccessToken, Return
  <2>4. faults' \subseteq FaultKinds
    BY <1>4, <1>t, <1>f DEF GetAccessToken, FaultKinds
  <2> QED BY <1>4, <1>t, <2>3, <2>4 DEF GetAccessToken, TypeOK
<1>5. ASSUME NEW h \in Handlers, GetRefreshToken(h) PROVE TypeOK'
  <2> DEFINE token == CreateToken(handler[h].id, RefreshExpireTime)
  <2>1. handler[h] \in BusyHandler
    BY <1>5, <1>b DEF GetRefreshToken
  <2>2. token \in Token /\ handler[h].access \in Token /\ handler[h].request \in Credentials
    BY <2>1, CreateTokenType, AccountsAssumption DEF BusyHandler
  <2> HIDE DEF token
  <2>3. sessions' \subseteq Session
    BY <1>5, <1>t, <2>2 DEF GetRefreshToken, token, Session, Credentials
  <2>4. faults' \subseteq FaultKinds
    BY <1>5, <1>t, <1>f DEF GetRefreshToken, FaultKinds
  <2> QED BY <1>5, <1>t, <2>3, <2>4 DEF GetRefreshToken, Return, TypeOK
<1>6. CASE Crash
  BY <1>6, <1>t, <1>f DEF Crash, TypeOK, FaultKinds
<1>7. CASE Tick
  BY <1>7, <1>t DEF Tick, TypeOK
<1>8. CASE UNCHANGED vars
  BY <1>8, <1>t DEF vars, TypeOK
<1> QED BY <1>1, <1>2, <1>3, <1>4, <1>5, <1>6, <1>7, <1>8 DEF Next, Handle

(* Every reachable state of accounts and tokens is of the declared types. *)
THEOREM TypeCorrect == Spec => []TypeOK
BY TypeInit, TypeNext, PTL DEF Spec

-----------------------------------------------------------------------------
(***************************************************************************)
(* The rows differ in their ids and in their names and never change, so    *)
(* that what a login found is still there when its tokens are used.        *)
(***************************************************************************)
RowsInv ==
  /\ \A u \in users : u.id < nextId
  /\ \A u, v \in users : u.id = v.id \/ u.username = v.username => u = v

RowIn(rows, email, password, id) ==
  \E u \in rows : u.id = id /\ u.username = email /\ u.password = password

Row(email, password, id) == RowIn(users, email, password, id)

AccountsInv ==
  /\ TypeOK
  /\ RowsInv
  /\ \A h \in Handlers : handler[h].pc \in {"access", "refresh"} =>
       Row(handler[h].request.email, handler[h].request.password, handler[h].id)
  /\ \A h \in Handlers : handler[h].pc = "refresh" => handler[h].access.id = handler[h].id
  /\ \A s \in sessions :
       /\ Row(s.email, s.password, s.access.id)
       /\ s.refresh.id = s.access.id
  /\ \A request \in signedUp : \E id \in Nat : Row(request.email, request.password, id)

LEMMA AccountsInvInit == Init => AccountsInv
BY TypeInit DEF Init, AccountsInv, RowsInv, Idle

LEMMA AccountsInvNext == AccountsInv /\ [Next]_vars => AccountsInv'
<1> SUFFICES ASSUME AccountsInv, [Next]_vars PROVE AccountsInv'
  OBVIOUS
<1>t. TypeOK /\ TypeOK'
  BY TypeNext DEF AccountsInv
<1>l. /\ users \subseteq User /\ nextId \in Nat
      /\ handler \in [Handlers -> BusyHandler \cup {Idle}]
  BY <1>t DEF TypeOK
<1>b. \A h \in Handlers : handler[h].pc # "idle" => handler[h] \in BusyHandler
  BY <1>l DEF Idle
<1>i. \A h \in Handlers, k \in Handlers :
        handler' = [handler EXCEPT ![h] = Idle] => handler'[k] \in {handler[k], Idle}
  BY <1>l
<1>q. ASSUME UNCHANGED <<users, nextId, sessions, signedUp>>,
             \A k \in Handlers : handler'[k] = handler[k] \/ handler'[k].pc \notin {"access", "refresh"}
      PROVE  AccountsInv'
  BY <1>q, <1>t DEF AccountsInv, RowsInv, Row, RowIn
<1>1. ASSUME NEW h \in Handlers, NEW e \in Emails, NEW p \in Passwords,
             SignUp(h, e, p) \/ Login(h, e, p)
      PROVE  AccountsInv'
  <2>1. /\ \A k \in Handlers \ {h} : handler'[k] = handler[k]
        /\ handler'[h].pc \in {"insert", "select"}
    BY <1>1, <1>l DEF SignUp, Login
  <2> QED BY <1>1, <1>q, <2>1 DEF SignUp, Login
<1>2. ASSUME NEW h \in Handlers, InsertUser(h) PROVE AccountsInv'
  <2> DEFINE request == handler[h].request
             new == [id |-> nextId, username |-> request.email, password |-> request.password]
  <2>1. \A k \in Handlers : handler'[k] = handler[k] \/ handler'[k].pc = "idle"
    BY <1>2, <1>i DEF InsertUser, Return, Idle
  <2>2. /\ users \subseteq users' /\ nextId <= nextId'
        /\ UNCHANGED sessions
    BY <1>2, <1>l DEF InsertUser
  <2>3. \A e, p, id : Row(e, p, id) => RowIn(users', e, p, id)
    BY <2>2 DEF Row, RowIn
  <2>4. RowsInv'
    <3>1. CASE UNCHANGED users
      BY <1>l, <1>2, <2>2, <3>1 DEF AccountsInv, RowsInv, User, InsertUser
    <3>2. CASE ~Duplicate(request.email) /\ users' = users \cup {new} /\ nextId' = nextId + 1
      <4>1. \A u \in users : u.id < nextId /\ u.id \in Nat /\ u.username # new.username
        BY <1>l, <3>2 DEF AccountsInv, RowsInv, User, Duplicate
      <4>2. new.id = nextId
        OBVIOUS
      <4> HIDE DEF new
      <4>3. \A u \in users' : u.id < nextId'
        BY <1>l, <3>2, <4>1, <4>2
      <4>4. ASSUME NEW u \in users', NEW v \in users',
                   u.id = v.id \/ u.username = v.username
            PROVE  u = v
        BY <1>l, <3>2, <4>1, <4>2, <4>4 DEF AccountsInv, RowsInv
      <4> QED BY <4>3, <4>4 DEF RowsInv
    <3> QED BY <1>2, <3>1, <3>2 DEF InsertUser
  <2>5. \A r \in signedUp' : \E id \in Nat : RowIn(users', r.email, r.password, id)
    <3>1. \A r \in signedUp : \E id \in Nat : RowIn(users', r.email, r.password, id)
      BY <2>3 DEF AccountsInv
    <3>2. CASE signedUp' = signedUp \cup {request} /\ users' = users \cup {new}
      <4>1. RowIn(users', request.email, request.password, nextId)
        <5>1. new \in users'
          BY <3>2
        <5>2. new.id = nextId /\ new.username = request.email /\ new.password = request.password
          OBVIOUS
        <5> HIDE DEF new
        <5> QED BY <5>1, <5>2 DEF RowIn
      <4> QED BY <1>l, <3>1, <3>2, <4>1
    <3> QED BY <1>2, <3>1, <3>2 DEF InsertUser
  <2>6. /\ \A k \in Handlers : handler'[k].pc \in {"access", "refresh"} =>
             RowIn(users', handler'[k].request.email, handler'[k].request.password, handler'[k].id)
        /\ \A k \in Handlers : handler'[k].pc = "refresh" =>
             handler'[k].access.id = handler'[k].id
    BY <2>1, <2>3 DEF AccountsInv
  <2>7. \A s \in sessions' : RowIn(users', s.email, s.password, s.access.id) /\ s.refresh.id = s.access.id
    BY <2>2, <2>3 DEF AccountsInv
  <2> QED BY <1>t, <2>4, <2>5, <2>6, <2>7 DEF AccountsInv, Row
<1>3. ASSUME NEW h \in Handlers, GetUser(h) PROVE AccountsInv'
  <2>0. UNCHANGED <<users, nextId, sessions, signedUp>>
    BY <1>3 DEF GetUser
  <2>1. CASE Return(h)
    BY <2>0, <2>1, <1>i, <1>q DEF Return, Idle
  <2>2. ASSUME NEW u \in users, u.username = handler[h].request.email,
               handler' = [handler EXCEPT ![h].pc = "access", ![h].id = u.id],
               u.password = handler[h].request.password
        PROVE  AccountsInv'
    <3>1. /\ handler'[h].pc = "access" /\ handler'[h].id = u.id
          /\ handler'[h].request = handler[h].request
          /\ \A k \in Handlers \ {h} : handler'[k] = handler[k]
      BY <1>3, <1>b, <1>l, <2>2 DEF GetUser, BusyHandler
    <3>2. RowIn(users', handler'[h].request.email, handler'[h].request.password, handler'[h].id)
      BY <2>0, <2>2, <3>1 DEF Row, RowIn
    <3> QED BY <1>t, <2>0, <3>1, <3>2 DEF AccountsInv, RowsInv, Row, RowIn
  <2> QED BY <1>3, <2>1, <2>2 DEF GetUser, CheckPasswordHash, Return
<1>4. ASSUME NEW h \in Handlers, GetAccessToken(h) PROVE AccountsInv'
  <2> DEFINE token == CreateToken(handler[h].id, AccessExpireTime)
  <2>0. UNCHANGED <<users, nextId, sessions, signedUp>>
    BY <1>4 DEF GetAccessToken
  <2>1. CASE Return(h)
    BY <2>0, <2>1, <1>i, <1>q DEF Return, Idle
  <2>2. CASE handler' = [handler EXCEPT ![h].pc = "refresh", ![h].access = token]
    <3>1. token.id = handler[h].id
      BY DEF CreateToken
    <3> HIDE DEF token
    <3>2. /\ handler'[h].pc = "refresh" /\ handler'[h].id = handler[h].id
          /\ handler'[h].request = handler[h].request /\ handler'[h].access = token
          /\ \A k \in Handlers \ {h} : handler'[k] = handler[k]
      BY <1>4, <1>b, <1>l, <2>2 DEF GetAccessToken, BusyHandler
    <3>3. RowIn(users', handler'[h].request.email, handler'[h].request.password, handler'[h].id)
      BY <1>4, <2>0, <3>2 DEF GetAccessToken, AccountsInv, Row, RowIn
    <3> QED BY <1>t, <2>0, <3>1, <3>2, <3>3 DEF AccountsInv, RowsInv, Row, RowIn
  <2> QED BY <1>4, <2>1, <2>2 DEF GetAccessToken
<1>5. ASSUME NEW h \in Handlers, GetRefreshToken(h) PROVE AccountsInv'
  <2> DEFINE request == handler[h].request
             token == CreateToken(handler[h].id, RefreshExpireTime)
             session == [email |-> request.email, password |-> request.password,
                         access |-> handler[h].access, refresh |-> token]
  <2>0. UNCHANGED <<users, nextId, signedUp>>
        /\ \A k \in Handlers : handler'[k] = handler[k] \/ handler'[k].pc = "idle"
    BY <1>5, <1>i DEF GetRefreshToken, Return, Idle
  <2>1. /\ Row(session.email, session.password, session.access.id)
        /\ session.refresh.id = session.access.id
    BY <1>5 DEF GetRefreshToken, AccountsInv, CreateToken
  <2>2. sessions' \subseteq sessions \cup {session}
    BY <1>5 DEF GetRefreshToken
  <2> HIDE DEF session
  <2>3. \A s \in sessions' : RowIn(users', s.email, s.password, s.access.id) /\ s.refresh.id = s.access.id
    BY <2>0, <2>1, <2>2 DEF AccountsInv, Row, RowIn
  <2> QED BY <1>t, <2>0, <2>3 DEF AccountsInv, RowsInv, Row, RowIn
<1>6. CASE Crash
  BY <1>6, <1>q DEF Crash, Idle
<1>7. CASE Tick \/ UNCHANGED vars
  BY <1>7, <1>q DEF Tick, vars
<1> QED BY <1>1, <1>2, <1>3, <1>4, <1>5, <1>6, <1>7 DEF Next, Handle

(***************************************************************************)
(* Both tokens of a login lead to the account that logged in, for any      *)
(* number of racing requests and any faults.                               *)
(***************************************************************************)
THEOREM SessionsAreOwnCorrect == Spec => []SessionsAreOwn
<1>1. AccountsInv => SessionsAreOwn
  <2> SUFFICES ASSUME AccountsInv, NEW s \in sessions, NEW token \in {s.access, s.refresh},
                      ValidateToken(token, now)
               PROVE  \E u \in users : /\ Profile(token) = {u}
                                       /\ u.username = s.email /\ u.password = s.password
    BY DEF SessionsAreOwn
  <2>1. Row(s.email, s.password, token.id)
    BY DEF AccountsInv
  <2>2. PICK u \in users : u.id = token.id /\ u.username = s.email /\ u.password = s.password
    BY <2>1 DEF Row, RowIn
  <2>3. Profile(token) = {u}
    BY <2>2 DEF AccountsInv, RowsInv, Profile
  <2> QED BY <2>2, <2>3
<1> QED BY <1>1, AccountsInvInit, AccountsInvNext, PTL DEF Spec

(***************************************************************************)
(* A sign-up that succeeded stays good for a login, and is the only one of *)
(* its name, for any number of racing requests and any faults.             *)
(***************************************************************************)
THEOREM SignedUpCanLoginCorrect == Spec => []SignedUpCanLogin
<1>1. AccountsInv => SignedUpCanLogin
  <2> SUFFICES ASSUME AccountsInv, NEW request \in signedUp
               PROVE  /\ \A u \in users : u.username = request.email =>
                            u.password = request.password
                      /\ Cardinality({u \in users : u.username = request.email}) = 1
                      /\ \A other \in signedUp : other.email = request.email => other = request
    BY DEF SignedUpCanLogin
  <2>1. PICK u \in users : u.username = request.email /\ u.password = request.password
    BY DEF AccountsInv, Row, RowIn
  <2>2. \A v \in users : v.username = request.email => v = u
    BY <2>1 DEF AccountsInv, RowsInv
  <2>3. {v \in users : v.username = request.email} = {u}
    BY <2>1, <2>2
  <2>4. Cardinality({v \in users : v.username = request.email}) = 1
    BY <2>3, FS_Singleton
  <2>5. ASSUME NEW other \in signedUp, other.email = request.email
        PROVE  other = request
    <3>1. PICK v \in users : v.username = other.email /\ v.password = other.password
      BY DEF AccountsInv, Row, RowIn
    <3>2. other.password = request.password
      BY <2>1, <2>2, <2>5, <3>1
    <3>3. other \in Credentials /\ request \in Credentials
      BY DEF AccountsInv, TypeOK
    <3> QED BY <2>5, <3>2, <3>3 DEF Credentials
  <2> QED BY <2>1, <2>2, <2>4, <2>5
<1> QED BY <1>1, AccountsInvInit, AccountsInvNext, PTL DEF Spec

-----------------------------------------------------------------------------
(***************************************************************************)
(* The directory.  Inserting a row registers its account, confirmed if the *)
(* sign-up is told of success; the refresh token logs in; everything else  *)
(* stutters, because rows and tokens stay what they are.                   *)
(***************************************************************************)
Confirmed == {u \in users : Request(u.username, u.password) \in signedUp}
LoggedIn == UNION {Claimed(s) : s \in sessions}

LEMMA DirectoryInit == Init => Dir!DirectoryInit
BY DEF Init, Dir!DirectoryInit

LEMMA DirectoryStutter ==
  UNCHANGED <<users, signedUp, sessions>> => UNCHANGED <<users, Confirmed, LoggedIn>>
BY DEF Confirmed, LoggedIn

(* The new row is the only one of its name, so it alone is confirmed. *)
LEMMA InsertRegisters ==
  ASSUME AccountsInv, NEW h \in Handlers, InsertUser(h)
  PROVE  \/ UNCHANGED <<users, Confirmed, LoggedIn>>
         \/ \E a \in users' \ users :
              /\ \A b \in users : b.id # a.id /\ b.username # a.username
              /\ users' = users \cup {a}
              /\ Confirmed' \in {Confirmed, Confirmed \cup {a}}
              /\ UNCHANGED LoggedIn
<1> DEFINE request == handler[h].request
           new == [id |-> nextId, username |-> request.email, password |-> request.password]
<1>t. /\ users \subseteq User /\ signedUp \subseteq Credentials
      /\ handler \in [Handlers -> BusyHandler \cup {Idle}]
      /\ \A u \in users : u.id < nextId
      /\ nextId \in Nat
  BY DEF AccountsInv, TypeOK, RowsInv
<1>r. request \in Credentials
  BY <1>t DEF InsertUser, BusyHandler, Idle
<1>s. UNCHANGED sessions
  BY DEF InsertUser
<1>1. CASE users' = users /\ signedUp' = signedUp
  BY <1>s, <1>1 DEF Confirmed, LoggedIn
<1>2. CASE /\ ~Duplicate(request.email)
           /\ users' = users \cup {new}
           /\ signedUp' \in {signedUp, signedUp \cup {request}}
  <2>1. /\ new.id = nextId /\ new.username = request.email /\ new.password = request.password
        /\ Request(new.username, new.password) = request
    BY <1>r DEF Request, Credentials
  <2> HIDE DEF new
  <2>2. \A b \in users : b.id # new.id /\ b.username # new.username
    BY <1>t, <1>2, <2>1 DEF Duplicate, User
  <2>3. new \in users' \ users
    BY <1>2, <2>2
  <2>4. \A b \in users : Request(b.username, b.password) \in signedUp'
                           <=> Request(b.username, b.password) \in signedUp
    <3>1. \A b \in users : Request(b.username, b.password) # request
      BY <2>1, <2>2 DEF Request
    <3> QED BY <1>2, <3>1
  <2>5. Confirmed' \in {Confirmed, Confirmed \cup {new}}
    BY <1>2, <2>4 DEF Confirmed
  <2> QED BY <1>2, <1>s, <2>2, <2>3, <2>5 DEF LoggedIn
<1> QED BY <1>1, <1>2 DEF InsertUser

LEMMA RefreshLogsIn ==
  ASSUME AccountsInv, NEW h \in Handlers, GetRefreshToken(h)
  PROVE  \/ UNCHANGED <<users, Confirmed, LoggedIn>>
         \/ \E a \in users :
              /\ LoggedIn' = LoggedIn \cup {a}
              /\ UNCHANGED <<users, Confirmed>>
<1> DEFINE request == handler[h].request
           token == CreateToken(handler[h].id, RefreshExpireTime)
           session == [email |-> request.email, password |-> request.password,
                       access |-> handler[h].access, refresh |-> token]
<1>0. UNCHANGED <<users, signedUp>>
  BY DEF GetRefreshToken
<1>1. CASE UNCHANGED sessions
  BY <1>0, <1>1 DEF Confirmed, LoggedIn
<1>2. CASE sessions' = sessions \cup {session}
  <2>1. PICK a \in users : /\ a.id = handler[h].id
                           /\ a.username = request.email /\ a.password = request.password
    BY DEF GetRefreshToken, AccountsInv, Row, RowIn
  <2>2. /\ session.email = a.username /\ session.password = a.password
        /\ session.access.id = a.id /\ session.refresh.id = a.id
    BY <2>1 DEF GetRefreshToken, AccountsInv, CreateToken
  <2> HIDE DEF session
  <2>3. a = [id |-> a.id, username |-> a.username, password |-> a.password]
    BY DEF AccountsInv, TypeOK, User
  <2>4. Claimed(session) = {a}
    BY <2>2, <2>3 DEF Claimed
  <2>5. LoggedIn' = LoggedIn \cup Claimed(session)
    BY <1>2 DEF LoggedIn, Claimed
  <2> QED BY <1>0, <2>4, <2>5 DEF Confirmed
<1> QED BY <1>1, <1>2 DEF GetRefreshToken

LEMMA DirectoryNext ==
  AccountsInv /\ [Next]_vars => [Dir!DirectoryNext]_(Dir!directoryVars)
<1> SUFFICES ASSUME AccountsInv, [Next]_vars
             PROVE  [Dir!DirectoryNext]_(Dir!directoryVars)
  OBVIOUS
<1>0. ASSUME UNCHANGED <<users, Confirmed, LoggedIn>>
      PROVE  UNCHANGED Dir!directoryVars
  BY <1>0 DEF Dir!directoryVars, Confirmed, LoggedIn
<1>1. ASSUME NEW h \in Handlers, InsertUser(h) PROVE [Dir!DirectoryNext]_(Dir!directoryVars)
  BY <1>0, <1>1, InsertRegisters
  DEF Dir!DirectoryNext, Dir!Register, Confirmed, LoggedIn
<1>2. ASSUME NEW h \in Handlers, GetRefreshToken(h)
      PROVE  [Dir!DirectoryNext]_(Dir!directoryVars)
  BY <1>0, <1>2, RefreshLogsIn
  DEF Dir!DirectoryNext, Dir!LogIn, Confirmed, LoggedIn
<1>3. CASE UNCHANGED <<users, signedUp, sessions>>
  BY <1>0, <1>3, DirectoryStutter
<1> QED
  BY <1>1, <1>2, <1>3
  DEF Next, Handle, SignUp, Login, GetUser, GetAccessToken, Crash, Tick, vars

(***************************************************************************)
(* Accounts and tokens implement the directory, for any number of racing   *)
(* requests, any faults and any life of the tokens.                        *)
(***************************************************************************)
THEOREM Refinement == Spec => ImplementsDirectory
BY DirectoryInit, DirectoryNext, AccountsInvInit, AccountsInvNext, PTL
DEF Spec, ImplementsDirectory, Dir!DirectorySpec
=============================================================================
