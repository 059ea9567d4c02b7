---------------------------- MODULE AccessProofs ----------------------------
(***************************************************************************)
(* Proofs about Access, for any accounts, requests, times and crashes.     *)
(*                                                                         *)
(* OldPasswordNeverAdmits: unless a request acts on a password that was    *)
(* replaced since it verified it, a start synchronises passwords, or a     *)
(* client leaves between a commit and the invalidation, every session      *)
(* stems from the current password, and the WebDAV cache holds no other    *)
(* one except while its invalidation is due (Current).  That the first     *)
(* start replaces no password rests on FirstStart.                         *)
(*                                                                         *)
(* UseKeepsSession: the stamp of a session is never further behind its     *)
(* last visit than the refresh interval (Stamped).                         *)
(***************************************************************************)
EXTENDS Access, TLAPS

Account == [pw : Nat \ {0}, must : BOOLEAN]
Session == [user : Users, pw : Nat, expires : Nat, active : Nat, used : Nat]
Stages  == {"login", "verify", "change", "invalidate", "session", "reset", "drop", "dav"}
Request == [stage : Stages, user : Users, pw : Nat, id : Nat]

Accounts ==
  /\ users = [u \in DOMAIN users |-> users[u]]
  /\ DOMAIN users \subseteq Users
  /\ \A u \in DOMAIN users : users[u] \in Account

Counters == now \in Nat /\ ops \in Nat

\* The password is one that the account has or had.
Known(user, pw) == user \in DOMAIN users /\ pw \in 1..users[user].pw

GoodSession(s) == s \in Session /\ Known(s.user, s.pw) /\ s.active <= s.used /\ s.used <= now
GoodRequest(r) == r \in Request /\ Known(r.user, r.pw) /\ r.id \in 1..ops

Sessions ==
  /\ sessions = [t \in DOMAIN sessions |-> sessions[t]]
  /\ DOMAIN sessions \subseteq 1..ops
  /\ \A t \in DOMAIN sessions : GoodSession(sessions[t])

Cached == \A u \in DOMAIN cache : Known(u, cache[u].pw) /\ cache[u].at \in 0..now

Requests ==
  /\ req = [p \in Slots |-> req[p]]
  /\ \A p \in Slots : req[p] # None => Running /\ GoodRequest(req[p])

\* A first start finds no account but the one it has created.
FirstStart ==
  /\ boot = [stage |-> boot.stage, first |-> boot.first, env |-> boot.env, sync |-> boot.sync]
  /\ boot.stage \in {"admin", "guest", "file", "up"}
  /\ boot.first /\ boot.stage = "admin" => DOMAIN users = {}
  /\ boot.first /\ boot.stage = "guest" => DOMAIN users \subseteq {Admin}
  /\ boot.sync => "sync" \in faults

TypeInv ==
  Counters /\ Accounts /\ Sessions /\ Cached /\ Requests /\ FirstStart /\ file \in BOOLEAN

\* The invalidation of the cache is due.
Due(u) == \E p \in Slots : /\ req[p] # None /\ req[p].user = u
                           /\ req[p].stage \in {"invalidate", "drop"}

Current ==
  /\ \A t \in DOMAIN sessions : sessions[t].pw = users[sessions[t].user].pw
  /\ \A u \in DOMAIN cache : Due(u) \/ cache[u].pw = users[u].pw

AccessInv == TypeInv /\ (Within({"dberror"}) => Current)

------------------------------------------------------------------------------
(* The actions, in groups                                                  *)

StartUp == BootAdmin \/ BootGuest \/ BootFile \/ Crash

Direct ==
  \/ Tidy \/ Tick
  \/ \E user \in Users : Register(user)
  \/ \E t \in DOMAIN sessions : Logout(t) \/ Visit(t)

Opens(p) ==
  \/ \E user \in Users : Login(p, user) \/ DavVerify(p, user)
  \/ \E t \in DOMAIN sessions : ChangeOpen(p, t)
  \/ \E t \in DOMAIN sessions, user \in Users : ResetOpen(p, t, user)

Proceeds(p) ==
  \/ LoginSession(p) \/ DavRemember(p)
  \/ ChangeVerify(p) \/ ChangeCommit(p) \/ ChangeInvalidate(p) \/ ChangeSession(p)
  \/ ResetCommit(p) \/ ResetInvalidate(p) \/ Abort(p)

LEMMA EmptyFacts == DOMAIN Empty = {}
  BY DEF Empty

LEMMA NextCases ==
  ASSUME Next
  PROVE  StartUp \/ Direct \/ \E p \in Slots : Opens(p) \/ Proceeds(p)
  BY DEF Next, StartUp, Direct, Opens, Proceeds

------------------------------------------------------------------------------
(* Accounts and the clock                                                  *)

\* What every step keeps: accounts stay, and their passwords are only replaced by later ones.
Forward ==
  /\ Counters' /\ Accounts'
  /\ now <= now' /\ ops <= ops'
  /\ DOMAIN users \subseteq DOMAIN users'
  /\ \A u \in DOMAIN users : users[u].pw <= users'[u].pw

LEMMA SameAccounts ==
  ASSUME Counters, Accounts, UNCHANGED users, now' \in Nat, ops' \in Nat, now <= now', ops <= ops'
  PROVE  Forward
<1>1. \A u \in DOMAIN users : users[u].pw \in Nat
  BY DEF Accounts, Account
<1> QED BY <1>1 DEF Forward, Counters, Accounts

LEMMA NewPassword ==
  ASSUME Counters, Accounts, UNCHANGED <<now, ops>>, NEW user \in Users, NEW account \in Account,
         user \in DOMAIN users => users[user].pw <= account.pw,
         users' = Put(users, user, account)
  PROVE  Forward
<1>1. /\ DOMAIN users' = DOMAIN users \cup {user}
      /\ users'[user] = account
      /\ \A u \in DOMAIN users \ {user} : users'[u] = users[u]
      /\ users' = [u \in DOMAIN users' |-> users'[u]]
  BY DEF Put
<1>2. \A u \in DOMAIN users : users[u].pw \in Nat /\ users[u] \in Account
  BY DEF Accounts, Account
<1>3. \A u \in DOMAIN users : users[u].pw <= users'[u].pw
  BY <1>1, <1>2
<1>4. Accounts'
  BY <1>1, <1>2 DEF Accounts
<1> QED BY <1>1, <1>3, <1>4 DEF Forward, Counters

LEMMA KnownStays ==
  ASSUME TypeInv, Forward
  PROVE  /\ \A u, pw : Known(u, pw) => Known(u, pw)'
         /\ \A s : GoodSession(s) => GoodSession(s)'
         /\ \A r : GoodRequest(r) => GoodRequest(r)'
<1>1. \A u \in DOMAIN users : users[u].pw \in Nat /\ users'[u].pw \in Nat
  BY DEF Forward, TypeInv, Accounts, Account
<1>2. \A u, pw : Known(u, pw) => Known(u, pw)'
  BY <1>1 DEF Known, Forward
<1>3. now \in Nat /\ now' \in Nat /\ ops \in Nat /\ ops' \in Nat
  BY DEF Forward, TypeInv, Counters
<1>4. \A s : GoodSession(s) => GoodSession(s)'
  BY <1>2, <1>3 DEF GoodSession, Forward, Session
<1>5. \A r : GoodRequest(r) => GoodRequest(r)'
  BY <1>2, <1>3 DEF GoodRequest, Forward
<1> QED BY <1>2, <1>4, <1>5

LEMMA SyncForward ==
  ASSUME TypeInv, NEW user \in Users, NEW next, SyncUserPassword(user, next),
         boot.first => user \notin DOMAIN users
  PROVE  Forward
<1>1. Counters /\ Accounts /\ UNCHANGED <<now, ops>>
  BY DEF TypeInv, SyncUserPassword
<1>2. ASSUME user \in DOMAIN users
      PROVE  users[user].pw \in Nat \ {0}
  BY <1>1, <1>2 DEF Accounts, Account
<1>3. CASE users' = users
  BY <1>1, <1>3, SameAccounts DEF Counters
<1>4. CASE users' = Put(users, user, [pw |-> 1, must |-> FALSE]) /\ user \notin DOMAIN users
  <2>1. [pw |-> 1, must |-> FALSE] \in Account
    BY DEF Account
  <2> QED BY <1>1, <1>4, <2>1, NewPassword
<1>5. CASE /\ user \in DOMAIN users
           /\ users' = Put(users, user, [pw |-> users[user].pw + 1, must |-> FALSE])
  <2>1. PICK account : account = [pw |-> users[user].pw + 1, must |-> FALSE]
    OBVIOUS
  <2>2. account \in Account /\ users[user].pw <= account.pw
    BY <1>2, <1>5, <2>1 DEF Account
  <2> QED BY <1>1, <1>5, <2>1, <2>2, NewPassword
<1>6. CASE users' = Put(users, user, [pw |-> 1, must |-> TRUE]) /\ boot.first
  <2>1. [pw |-> 1, must |-> TRUE] \in Account
    BY DEF Account
  <2> QED BY <1>1, <1>6, <2>1, NewPassword
<1> QED BY <1>3, <1>4, <1>5, <1>6 DEF SyncUserPassword

LEMMA StartUpForward ==
  ASSUME TypeInv, StartUp
  PROVE  Forward
<1>1. Counters /\ Accounts
  BY DEF TypeInv
<1>2. CASE BootAdmin
  BY <1>2, SyncForward DEF BootAdmin, TypeInv, FirstStart, Users
<1>3. CASE BootGuest
  BY <1>3, AccessAssumption, SyncForward DEF BootGuest, TypeInv, FirstStart, Users
<1>4. CASE BootFile \/ Crash
  <2>1. UNCHANGED <<users, now, ops>>
    BY <1>4 DEF BootFile, Crash, tables
  <2> QED BY <1>1, <2>1, SameAccounts DEF Counters
<1> QED BY <1>2, <1>3, <1>4 DEF StartUp

LEMMA DirectForward ==
  ASSUME TypeInv, Direct
  PROVE  Forward
<1>1. Counters /\ Accounts
  BY DEF TypeInv
<1>2. CASE Tidy \/ Tick
  BY <1>1, <1>2, SameAccounts DEF Tidy, Tick, tables, Counters
<1>3. CASE \E t \in DOMAIN sessions : Logout(t) \/ Visit(t)
  BY <1>1, <1>3, SameAccounts DEF Logout, Visit, LetIn, Counters
<1>4. ASSUME NEW user \in Users, Register(user) PROVE Forward
  <2>1. PICK account : account = [pw |-> 1, must |-> FALSE]
    OBVIOUS
  <2>2. account \in Account
    BY <2>1 DEF Account
  <2>3. user \notin DOMAIN users /\ users' = Put(users, user, account) /\ now' = now /\ ops' = ops + 1
    BY <1>4, <2>1 DEF Register
  <2>4. /\ DOMAIN users' = DOMAIN users \cup {user}
        /\ users'[user] = account
        /\ \A u \in DOMAIN users : users'[u] = users[u]
        /\ users' = [u \in DOMAIN users' |-> users'[u]]
    BY <2>3 DEF Put
  <2>5. \A u \in DOMAIN users : users[u].pw \in Nat
    BY <1>1 DEF Accounts, Account
  <2>6. Accounts'
    BY <1>1, <2>2, <2>4 DEF Accounts
  <2> QED BY <1>1, <2>3, <2>4, <2>5, <2>6 DEF Forward, Counters
<1> QED BY <1>2, <1>3, <1>4 DEF Direct

LEMMA OpensForward ==
  ASSUME TypeInv, NEW p \in Slots, Opens(p)
  PROVE  Forward
<1>1. Counters /\ Accounts
  BY DEF TypeInv
<1>2. UNCHANGED <<users, now>> /\ ops' = ops + 1
  BY DEF Opens, Login, DavVerify, ChangeOpen, ResetOpen, Start, tables
<1> QED BY <1>1, <1>2, SameAccounts DEF Counters

\* A password that is replaced, with or without the flag.
LEMMA ReplaceForward ==
  ASSUME TypeInv, NEW user \in DOMAIN users, NEW must \in BOOLEAN, UNCHANGED <<now, ops>>,
         users' = [users EXCEPT ![user] = [pw |-> users[user].pw + 1, must |-> must]]
  PROVE  /\ Forward
         /\ users'[user].pw = users[user].pw + 1
         /\ \A u \in DOMAIN users \ {user} : users'[u] = users[u]
         /\ DOMAIN users' = DOMAIN users
<1>1. Counters /\ Accounts
  BY DEF TypeInv
<1>2. PICK account : account = [pw |-> users[user].pw + 1, must |-> must]
  OBVIOUS
<1>3. users[user].pw \in Nat \ {0}
  BY <1>1 DEF Accounts, Account
<1>4. account \in Account /\ account.pw = users[user].pw + 1 /\ users[user].pw <= account.pw
  BY <1>2, <1>3 DEF Account
<1>5. users' = [u \in DOMAIN users |-> IF u = user THEN account ELSE users[u]]
  BY <1>2
<1>6. users' = Put(users, user, account)
  <2>1. DOMAIN users = DOMAIN users \cup {user}
    OBVIOUS
  <2> QED BY <1>5, <2>1 DEF Put
<1>7. user \in Users
  BY <1>1 DEF Accounts
<1>8. Forward
  BY <1>1, <1>4, <1>6, <1>7, NewPassword
<1>9. users'[user] = account /\ \A u \in DOMAIN users \ {user} : users'[u] = users[u]
  BY <1>5
<1>10. DOMAIN users' = DOMAIN users
  BY <1>5
<1> QED BY <1>4, <1>8, <1>9, <1>10

\* ChangeCommit and ResetCommit.
LEMMA CommitForward ==
  ASSUME TypeInv, NEW p \in Slots, ChangeCommit(p) \/ ResetCommit(p)
  PROVE  /\ Forward
         /\ req[p].user \in DOMAIN users
         /\ users'[req[p].user].pw = users[req[p].user].pw + 1
         /\ \A u \in DOMAIN users \ {req[p].user} : users'[u] = users[u]
         /\ DOMAIN users' = DOMAIN users
<1>1. PICK user : user = req[p].user
  OBVIOUS
<1>2. user \in DOMAIN users
  BY <1>1 DEF ChangeCommit, ResetCommit, At, TypeInv, Requests, GoodRequest, Known
<1>3. users[user] \in Account
  BY <1>2 DEF TypeInv, Accounts
<1>4. UNCHANGED <<now, ops>>
  BY DEF ChangeCommit, ResetCommit
<1>5. CASE ChangeCommit(p)
  <2>1. users' = [users EXCEPT ![user] = [pw |-> users[user].pw + 1, must |-> FALSE]]
    BY <1>1, <1>5 DEF ChangeCommit
  <2> QED BY <1>1, <1>2, <1>4, <2>1, ReplaceForward
<1>6. CASE ResetCommit(p)
  <2>1. users' = [users EXCEPT ![user] = [users[user] EXCEPT !.pw = users[user].pw + 1]]
    BY <1>1, <1>6 DEF ResetCommit
  <2>2. [users[user] EXCEPT !.pw = users[user].pw + 1]
          = [pw |-> users[user].pw + 1, must |-> users[user].must]
    BY <1>3 DEF Account
  <2>3. users[user].must \in BOOLEAN
    BY <1>3 DEF Account
  <2> QED BY <1>1, <1>2, <1>4, <2>1, <2>2, <2>3, ReplaceForward
<1> QED BY <1>5, <1>6

LEMMA ProceedsForward ==
  ASSUME TypeInv, NEW p \in Slots, Proceeds(p)
  PROVE  Forward
<1>1. Counters /\ Accounts
  BY DEF TypeInv
<1>2. CASE ChangeCommit(p) \/ ResetCommit(p)
  BY <1>2, CommitForward
<1>3. CASE ~(ChangeCommit(p) \/ ResetCommit(p))
  <2>1. UNCHANGED <<users, now, ops>>
    BY <1>3 DEF Proceeds, LoginSession, DavRemember, ChangeVerify, ChangeInvalidate, ChangeSession,
                ResetInvalidate, Abort, tables
  <2> QED BY <1>1, <2>1, SameAccounts DEF Counters
<1> QED BY <1>2, <1>3

LEMMA NextForward ==
  ASSUME TypeInv, Next
  PROVE  Forward
  BY NextCases, StartUpForward, DirectForward, OpensForward, ProceedsForward

------------------------------------------------------------------------------
(* Sessions                                                                *)

\* Sessions are those there were, or good ones.
LEMMA GoodSessions ==
  ASSUME TypeInv, Forward, sessions' = [t \in DOMAIN sessions' |-> sessions'[t]],
         \A t \in DOMAIN sessions' :
           \/ t \in DOMAIN sessions /\ sessions'[t] = sessions[t]
           \/ t \in 1..ops' /\ \E s : sessions'[t] = s /\ GoodSession(s)'
  PROVE  Sessions'
<1>1. ops \in Nat /\ ops' \in Nat /\ ops <= ops'
  BY DEF TypeInv, Forward, Counters
<1>2. \A t \in DOMAIN sessions : t \in 1..ops /\ GoodSession(sessions[t])
  BY DEF TypeInv, Sessions
<1>3. \A t \in DOMAIN sessions' : \E s : sessions'[t] = s /\ GoodSession(s)'
  BY <1>2, KnownStays
<1>4. DOMAIN sessions' \subseteq 1..ops'
  BY <1>1, <1>2
<1>5. \A t \in DOMAIN sessions' : GoodSession(sessions[t])'
  BY <1>3 DEF GoodSession, Known
<1> QED BY <1>4, <1>5 DEF Sessions

LEMMA FewerSessions ==
  ASSUME TypeInv, Forward, NEW T \in SUBSET DOMAIN sessions, sessions' = Keep(sessions, T)
  PROVE  /\ Sessions'
         /\ DOMAIN sessions' = T
         /\ \A t \in T : sessions'[t] = sessions[t]
<1>1. /\ sessions' = [t \in DOMAIN sessions' |-> sessions'[t]]
      /\ DOMAIN sessions' = T
      /\ \A t \in T : sessions'[t] = sessions[t]
  BY DEF Keep, Restrict
<1> QED BY <1>1, GoodSessions

LEMMA SameSessions ==
  ASSUME TypeInv, Forward, UNCHANGED sessions
  PROVE  Sessions'
  BY GoodSessions DEF TypeInv, Sessions

\* create_session, with the password that the request knows.
LEMMA OpenedSession ==
  ASSUME TypeInv, Forward, NEW p \in Slots, req[p] # None, OpenSession(req[p]),
         now' = now, ops' = ops, users' = users
  PROVE  /\ Sessions'
         /\ DOMAIN sessions' = DOMAIN sessions \cup {req[p].id}
         /\ sessions'[req[p].id].user = req[p].user /\ sessions'[req[p].id].pw = req[p].pw
         /\ \A t \in DOMAIN sessions \ {req[p].id} : sessions'[t] = sessions[t]
<1>1. PICK id, s : /\ id = req[p].id
                   /\ s = [user |-> req[p].user, pw |-> req[p].pw, expires |-> now + Lifetime,
                           active |-> now, used |-> now]
  OBVIOUS
<1>2. sessions' = Put(sessions, id, s)
  BY <1>1 DEF OpenSession
<1>3. /\ DOMAIN sessions' = DOMAIN sessions \cup {id}
      /\ sessions'[id] = s
      /\ \A t \in DOMAIN sessions \ {id} : sessions'[t] = sessions[t]
      /\ sessions' = [t \in DOMAIN sessions' |-> sessions'[t]]
  BY <1>2 DEF Put
<1>4. now \in Nat /\ Lifetime \in Nat /\ GoodRequest(req[p])
  BY AccessAssumption DEF TypeInv, Counters, Requests
<1>5. s \in Session /\ Known(s.user, s.pw) /\ s.active <= s.used /\ s.used <= now /\ id \in 1..ops
  BY <1>1, <1>4 DEF Session, GoodRequest, Request
<1>6. GoodSession(s)'
  BY <1>5 DEF GoodSession, Known
<1>7. Sessions'
  <2>1. \A t \in DOMAIN sessions' :
          \/ t \in DOMAIN sessions /\ sessions'[t] = sessions[t]
          \/ t \in 1..ops' /\ \E new : sessions'[t] = new /\ GoodSession(new)'
    BY <1>3, <1>5, <1>6
  <2> QED BY <1>3, <2>1, GoodSessions
<1> QED BY <1>1, <1>3, <1>7

\* A session that is let in, with its stamp refreshed or not.
LEMMA VisitedSession ==
  ASSUME TypeInv, Forward, NEW t \in DOMAIN sessions, now' = now, users' = users,
         \/ sessions' = [sessions EXCEPT ![t].used = now, ![t].active = Refreshed(sessions[t])]
         \/ sessions' = [sessions EXCEPT ![t].used = now]
  PROVE  /\ Sessions'
         /\ DOMAIN sessions' = DOMAIN sessions
         /\ \A u \in DOMAIN sessions : /\ sessions'[u].user = sessions[u].user
                                       /\ sessions'[u].pw = sessions[u].pw
<1>1. GoodSession(sessions[t]) /\ now \in Nat /\ t \in 1..ops /\ ops \in Nat /\ ops' \in Nat
      /\ ops <= ops'
  BY DEF TypeInv, Sessions, Counters, Forward
<1>2. PICK s : \/ s = [sessions[t] EXCEPT !.used = now, !.active = Refreshed(sessions[t])]
                  /\ sessions' = [sessions EXCEPT ![t].used = now, ![t].active = Refreshed(sessions[t])]
               \/ s = [sessions[t] EXCEPT !.used = now]
                  /\ sessions' = [sessions EXCEPT ![t].used = now]
  OBVIOUS
<1>3. sessions = [u \in DOMAIN sessions |-> sessions[u]] /\ sessions[t] \in Session
  BY <1>1 DEF TypeInv, Sessions, GoodSession
<1>4. sessions' = [u \in DOMAIN sessions |-> IF u = t THEN s ELSE sessions[u]]
  BY <1>2, <1>3
<1>5. Refreshed(sessions[t]) \in {sessions[t].active, now}
  BY DEF Refreshed
<1>6. /\ s \in Session /\ s.user = sessions[t].user /\ s.pw = sessions[t].pw
      /\ s.used = now /\ s.active \in {sessions[t].active, now}
  BY <1>1, <1>2, <1>3, <1>5 DEF Session
<1>7. s.active <= s.used
  BY <1>1, <1>3, <1>6 DEF GoodSession, Session
<1>8. GoodSession(s)'
  BY <1>1, <1>6, <1>7 DEF GoodSession, Known
<1>9. /\ DOMAIN sessions' = DOMAIN sessions
      /\ sessions'[t] = s
      /\ \A u \in DOMAIN sessions \ {t} : sessions'[u] = sessions[u]
      /\ sessions' = [u \in DOMAIN sessions' |-> sessions'[u]]
  BY <1>4
<1>10. Sessions'
  <2>1. t \in 1..ops'
    BY <1>1
  <2>2. \A u \in DOMAIN sessions' :
          \/ u \in DOMAIN sessions /\ sessions'[u] = sessions[u]
          \/ u \in 1..ops' /\ \E new : sessions'[u] = new /\ GoodSession(new)'
    BY <1>8, <1>9, <2>1
  <2> QED BY <1>9, <2>2, GoodSessions
<1> QED BY <1>6, <1>9, <1>10

LEMMA SessionsStay ==
  ASSUME TypeInv, Next
  PROVE  Sessions'
<1>1. Forward
  BY NextForward
<1>2. ASSUME CleanSessions PROVE Sessions'
  BY <1>1, <1>2, FewerSessions DEF CleanSessions
<1>3. ASSUME NEW user, CloseSessions(user) PROVE Sessions'
  BY <1>1, <1>3, FewerSessions DEF CloseSessions
<1>4. CASE StartUp
  <2>1. UNCHANGED sessions \/ CleanSessions
    BY <1>4 DEF StartUp, BootAdmin, BootGuest, BootFile, Crash, SyncUserPassword, tables
  <2> QED BY <1>1, <1>2, <2>1, SameSessions
<1>5. CASE Direct
  <2>1. CASE Tidy \/ Tick \/ \E user \in Users : Register(user)
    <3>1. UNCHANGED sessions \/ CleanSessions
      BY <2>1 DEF Tidy, Tick, Register, tables
    <3> QED BY <1>1, <1>2, <3>1, SameSessions
  <2>2. ASSUME NEW t \in DOMAIN sessions, Logout(t) PROVE Sessions'
    BY <1>1, <2>2, FewerSessions DEF Logout
  <2>3. ASSUME NEW t \in DOMAIN sessions, Visit(t) PROVE Sessions'
    BY <1>1, <2>3, VisitedSession DEF Visit, LetIn
  <2> QED BY <1>5, <2>1, <2>2, <2>3 DEF Direct
<1>6. ASSUME NEW p \in Slots, Opens(p) PROVE Sessions'
  <2>1. CASE UNCHANGED sessions
    BY <1>1, <2>1, SameSessions
  <2>2. ASSUME NEW t \in DOMAIN sessions, NEW user, ResetOpen(p, t, user) PROVE Sessions'
    BY <1>1, <2>2, VisitedSession DEF ResetOpen, LetIn
  <2> QED BY <1>6, <2>1, <2>2 DEF Opens, Login, DavVerify, ChangeOpen, tables
<1>7. ASSUME NEW p \in Slots, Proceeds(p) PROVE Sessions'
  <2>1. ASSUME OpenSession(req[p]), req[p] # None, UNCHANGED <<users, now, ops>> PROVE Sessions'
    BY <1>1, <2>1, OpenedSession
  <2>2. CASE LoginSession(p) \/ ChangeSession(p)
    <3>1. /\ req[p] # None /\ UNCHANGED <<users, now, ops>>
          /\ OpenSession(req[p]) \/ UNCHANGED sessions
      BY <2>2 DEF LoginSession, ChangeSession, At
    <3> QED BY <1>1, <2>1, <3>1, SameSessions
  <2>3. CASE ChangeCommit(p) \/ ResetCommit(p)
    BY <1>3, <2>3 DEF ChangeCommit, ResetCommit
  <2>4. CASE DavRemember(p) \/ ChangeVerify(p) \/ ChangeInvalidate(p) \/ ResetInvalidate(p) \/ Abort(p)
    <3>1. UNCHANGED sessions
      BY <2>4 DEF DavRemember, ChangeVerify, ChangeInvalidate, ResetInvalidate, Abort, tables
    <3> QED BY <1>1, <3>1, SameSessions
  <2> QED BY <1>7, <2>2, <2>3, <2>4 DEF Proceeds
<1> QED BY <1>4, <1>5, <1>6, <1>7, NextCases

------------------------------------------------------------------------------
(* The cache                                                               *)

\* The credentials that DavRemember puts in are those of the request.
LEMMA RememberedCredentials ==
  ASSUME TypeInv, NEW p \in Slots, DavRemember(p)
  PROVE  /\ DOMAIN cache' = DOMAIN cache \cup {req[p].user}
         /\ cache'[req[p].user] = [pw |-> req[p].pw, at |-> now]
         /\ \A u \in DOMAIN cache \ {req[p].user} : cache'[u] = cache[u]
         /\ UNCHANGED <<users, sessions, now>>
         /\ Known(req[p].user, req[p].pw)
<1>1. cache' = Put(cache, req[p].user, [pw |-> req[p].pw, at |-> now])
      /\ UNCHANGED <<users, sessions, now>> /\ req[p] # None
  BY DEF DavRemember, At, tables
<1>2. Known(req[p].user, req[p].pw)
  BY <1>1 DEF TypeInv, Requests, GoodRequest
<1> QED BY <1>1, <1>2 DEF Put

LEMMA InvalidatedCache ==
  ASSUME NEW user, Invalidate(user)
  PROVE  DOMAIN cache' = DOMAIN cache \ {user} /\ \A u \in DOMAIN cache' : cache'[u] = cache[u]
  BY DEF Invalidate, Keep, Restrict

\* Every other step empties the cache, or leaves it.
LEMMA CacheCases ==
  ASSUME Next
  PROVE  \/ DOMAIN cache' = {}
         \/ cache' = cache
         \/ \E p \in Slots : DavRemember(p) \/ ChangeInvalidate(p) \/ ResetInvalidate(p)
<1>1. CASE StartUp
  <2>1. CASE Crash
    BY <2>1, EmptyFacts DEF Crash
  <2>2. CASE BootAdmin \/ BootGuest \/ BootFile
    BY <2>2 DEF BootAdmin, BootGuest, BootFile, SyncUserPassword
  <2> QED BY <1>1, <2>1, <2>2 DEF StartUp
<1>2. CASE Direct
  BY <1>2 DEF Direct, Tidy, Tick, Register, Logout, Visit
<1>3. ASSUME NEW p \in Slots, Opens(p) PROVE cache' = cache
  BY <1>3 DEF Opens, Login, DavVerify, ChangeOpen, ResetOpen
<1>4. ASSUME NEW p \in Slots, Proceeds(p),
             ~(DavRemember(p) \/ ChangeInvalidate(p) \/ ResetInvalidate(p))
      PROVE  cache' = cache
  BY <1>4 DEF Proceeds, LoginSession, ChangeVerify, ChangeCommit, ChangeSession, ResetCommit, Abort
<1> QED BY <1>1, <1>2, <1>3, <1>4, NextCases

LEMMA CachedStays ==
  ASSUME TypeInv, Next
  PROVE  Cached'
<1>1. Forward
  BY NextForward
<1>2. now \in Nat /\ now' \in Nat /\ now <= now'
  BY <1>1 DEF TypeInv, Forward, Counters
<1>3. \A u \in DOMAIN cache : Known(u, cache[u].pw) /\ cache[u].at \in 0..now
  BY DEF TypeInv, Cached
<1>4. \A u \in DOMAIN cache : \A pw : Known(u, pw) => Known(u, pw)'
  BY <1>1, KnownStays
<1>5. ASSUME DOMAIN cache' \subseteq DOMAIN cache, \A u \in DOMAIN cache' : cache'[u] = cache[u]
      PROVE  Cached'
  <2>1. \A u \in DOMAIN cache' : \E pw : pw = cache'[u].pw /\ Known(u, pw)'
    BY <1>3, <1>4, <1>5
  <2>2. \A u \in DOMAIN cache' : Known(u, cache[u].pw)'
    BY <2>1 DEF Known
  <2>3. \A u \in DOMAIN cache' : cache'[u].at \in 0..now'
    BY <1>2, <1>3, <1>5
  <2> QED BY <2>2, <2>3 DEF Cached
<1>6. ASSUME NEW p \in Slots, DavRemember(p) PROVE Cached'
  <2>1. PICK user, pw : user = req[p].user /\ pw = req[p].pw
    OBVIOUS
  <2>2. /\ DOMAIN cache' = DOMAIN cache \cup {user}
        /\ cache'[user] = [pw |-> pw, at |-> now]
        /\ \A u \in DOMAIN cache \ {user} : cache'[u] = cache[u]
        /\ UNCHANGED <<users, now>> /\ Known(user, pw)
    BY <1>6, <2>1, RememberedCredentials
  <2>3. \A u \in DOMAIN cache' : Known(u, cache'[u].pw) /\ cache'[u].at \in 0..now'
    BY <1>2, <1>3, <2>2
  <2> QED BY <2>2, <2>3 DEF Cached, Known
<1>7. ASSUME NEW p \in Slots, ChangeInvalidate(p) \/ ResetInvalidate(p) PROVE Cached'
  <2>1. \E user : Invalidate(user)
    BY <1>7 DEF ChangeInvalidate, ResetInvalidate
  <2> QED BY <1>5, <2>1, InvalidatedCache
<1> QED BY <1>5, <1>6, <1>7, CacheCases

------------------------------------------------------------------------------
(* Requests                                                                *)

\* One slot changes: to a free one, or to a request that is good.
LEMMA OneSlotChanges ==
  ASSUME TypeInv, Forward, boot' = boot, NEW p \in Slots, NEW new,
         req' = [q \in Slots |-> IF q = p THEN new ELSE req[q]],
         new # None => Running /\ GoodRequest(new)'
  PROVE  Requests'
<1>1. req' = [q \in Slots |-> req'[q]]
  OBVIOUS
<1>2. ASSUME NEW q \in Slots, req'[q] # None
      PROVE  Running /\ \E r : req'[q] = r /\ GoodRequest(r)'
  <2>1. CASE q = p
    BY <1>2, <2>1
  <2>2. CASE q # p
    <3>1. req'[q] = req[q] /\ Running /\ GoodRequest(req[q])
      BY <1>2, <2>2 DEF TypeInv, Requests
    <3>2. PICK r : r = req[q]
      OBVIOUS
    <3> QED BY <3>1, <3>2, KnownStays
  <2> QED BY <2>1, <2>2
<1>3. \A q \in Slots : req'[q] # None => GoodRequest(req[q])'
  BY <1>2 DEF GoodRequest, Known
<1>4. Running' <=> Running
  BY DEF Running
<1> QED BY <1>1, <1>2, <1>3, <1>4 DEF Requests

LEMMA SlotFacts ==
  ASSUME TypeInv, NEW p \in Slots
  PROVE  /\ Done(p) => req' = [q \in Slots |-> IF q = p THEN None ELSE req[q]]
         /\ \A new : req' = [req EXCEPT ![p] = new] =>
                       req' = [q \in Slots |-> IF q = p THEN new ELSE req[q]]
<1>1. req = [q \in Slots |-> req[q]]
  BY DEF TypeInv, Requests
<1> QED BY <1>1 DEF Done

LEMMA OpensRequests ==
  ASSUME TypeInv, NEW p \in Slots, Opens(p)
  PROVE  Requests'
<1>1. Forward
  BY OpensForward
<1>2. PICK stage \in Stages, user \in DOMAIN users : Start(p, stage, user)
  BY DEF Opens, Login, DavVerify, ChangeOpen, ResetOpen, Start, Stages
<1>3. PICK new : new = [stage |-> stage, user |-> user, pw |-> users[user].pw, id |-> ops + 1]
  OBVIOUS
<1>4. req' = [req EXCEPT ![p] = new] /\ ops' = ops + 1 /\ Running /\ user \in DOMAIN users
  BY <1>2, <1>3 DEF Start
<1>5. UNCHANGED <<users, boot>>
  BY DEF Opens, Login, DavVerify, ChangeOpen, ResetOpen, tables
<1>6. user \in Users /\ users[user].pw \in Nat \ {0} /\ ops \in Nat
  BY <1>4 DEF TypeInv, Accounts, Account, Counters
<1>7. new \in Request /\ new.user = user /\ new.pw = users[user].pw /\ new.id = ops + 1
  BY <1>3, <1>6 DEF Request
<1>8. GoodRequest(new)'
  BY <1>4, <1>5, <1>6, <1>7 DEF GoodRequest, Known
<1> QED BY <1>1, <1>4, <1>5, <1>8, SlotFacts, OneSlotChanges

\* After its commit a request has the invalidation before it.
LEMMA CommitRequest ==
  ASSUME TypeInv, NEW p \in Slots, ChangeCommit(p) \/ ResetCommit(p)
  PROVE  \E new \in Request :
           /\ req' = [q \in Slots |-> IF q = p THEN new ELSE req[q]]
           /\ new.user = req[p].user /\ new.id = req[p].id
           /\ new.pw \in {req[p].pw, users'[new.user].pw}
           /\ new.stage \in {"invalidate", "drop"}
<1>1. GoodRequest(req[p]) /\ req[p] \in Request
  BY DEF ChangeCommit, ResetCommit, At, TypeInv, Requests, GoodRequest
<1>2. req[p].user \in DOMAIN users /\ users[req[p].user].pw \in Nat
  BY <1>1 DEF GoodRequest, Known, TypeInv, Accounts, Account
<1>3. CASE ChangeCommit(p)
  <2>1. PICK pw \in Nat : pw = users[req[p].user].pw + 1
    BY <1>2
  <2>2. PICK new : new = [req[p] EXCEPT !.stage = "invalidate", !.pw = pw]
    OBVIOUS
  <2>3. req' = [req EXCEPT ![p] = new]
    BY <1>3, <2>1, <2>2 DEF ChangeCommit, TypeInv, Requests
  <2>4. /\ new \in Request /\ new.user = req[p].user /\ new.id = req[p].id
        /\ new.pw = pw /\ new.stage = "invalidate"
    BY <1>1, <2>2 DEF Request, Stages
  <2>5. users'[req[p].user].pw = pw
    BY <1>3, <2>1, CommitForward
  <2> QED BY <2>3, <2>4, <2>5, SlotFacts
<1>4. CASE ResetCommit(p)
  <2>1. PICK new : new = [req[p] EXCEPT !.stage = "drop"]
    OBVIOUS
  <2>2. req' = [req EXCEPT ![p] = new]
    BY <1>4, <2>1 DEF ResetCommit, Step, TypeInv, Requests
  <2>3. /\ new \in Request /\ new.user = req[p].user /\ new.id = req[p].id
        /\ new.pw = req[p].pw /\ new.stage = "drop"
    BY <1>1, <2>1 DEF Request, Stages
  <2> QED BY <2>2, <2>3, SlotFacts
<1> QED BY <1>3, <1>4

\* What a request is after it went on: it is done, or has the same account and number.
LEMMA ProceedsFacts ==
  ASSUME TypeInv, NEW p \in Slots, Proceeds(p)
  PROVE  \E new :
           /\ req' = [q \in Slots |-> IF q = p THEN new ELSE req[q]]
           /\ new # None => /\ new \in Request /\ new.user = req[p].user /\ new.id = req[p].id
                            /\ new.pw \in {req[p].pw, users[new.user].pw, users'[new.user].pw}
<1>1. req[p] # None /\ GoodRequest(req[p]) /\ req[p] \in Request
  BY DEF Proceeds, LoginSession, DavRemember, ChangeVerify, ChangeCommit, ChangeInvalidate,
         ChangeSession, ResetCommit, ResetInvalidate, Abort, At, TypeInv, Requests, GoodRequest
<1>2. req[p].user \in DOMAIN users /\ users[req[p].user].pw \in Nat
  BY <1>1 DEF GoodRequest, Known, TypeInv, Accounts, Account
<1>3. CASE LoginSession(p) \/ DavRemember(p) \/ ChangeSession(p) \/ ResetInvalidate(p) \/ Abort(p)
  <2>1. Done(p)
    BY <1>3 DEF LoginSession, DavRemember, ChangeSession, ResetInvalidate, Abort
  <2>2. PICK new : new = None
    OBVIOUS
  <2> QED BY <2>1, <2>2, SlotFacts
<1>4. CASE ChangeVerify(p)
  <2>1. PICK new : new = [req[p] EXCEPT !.stage = "change", !.pw = users[req[p].user].pw]
    OBVIOUS
  <2>2. req' = [req EXCEPT ![p] = new]
    BY <1>4, <2>1 DEF ChangeVerify, TypeInv, Requests
  <2>3. /\ new \in Request /\ new.user = req[p].user /\ new.id = req[p].id
        /\ new.pw = users[req[p].user].pw
    BY <1>1, <1>2, <2>1 DEF Request, Stages
  <2> QED BY <2>2, <2>3, SlotFacts
<1>5. CASE ChangeCommit(p) \/ ResetCommit(p)
  BY <1>5, CommitRequest
<1>6. CASE ChangeInvalidate(p)
  <2>1. PICK new : new = [req[p] EXCEPT !.stage = "session"]
    OBVIOUS
  <2>2. req' = [req EXCEPT ![p] = new]
    BY <1>6, <2>1 DEF ChangeInvalidate, Step, TypeInv, Requests
  <2>3. /\ new \in Request /\ new.user = req[p].user /\ new.id = req[p].id /\ new.pw = req[p].pw
    BY <1>1, <2>1 DEF Request, Stages
  <2> QED BY <2>2, <2>3, SlotFacts
<1> QED BY <1>3, <1>4, <1>5, <1>6 DEF Proceeds

LEMMA ProceedsRequests ==
  ASSUME TypeInv, NEW p \in Slots, Proceeds(p)
  PROVE  Requests'
<1>1. Forward
  BY ProceedsForward
<1>2. PICK new :
        /\ req' = [q \in Slots |-> IF q = p THEN new ELSE req[q]]
        /\ new # None => /\ new \in Request /\ new.user = req[p].user /\ new.id = req[p].id
                         /\ new.pw \in {req[p].pw, users[new.user].pw, users'[new.user].pw}
  BY ProceedsFacts
<1>3. boot' = boot /\ req[p] # None
  BY DEF Proceeds, LoginSession, DavRemember, ChangeVerify, ChangeCommit, ChangeInvalidate,
         ChangeSession, ResetCommit, ResetInvalidate, Abort, At
<1>4. GoodRequest(req[p]) /\ Running
  BY <1>3 DEF TypeInv, Requests
<1>5. ASSUME new # None PROVE GoodRequest(new)'
  <2>1. req[p].user \in DOMAIN users /\ req[p].pw \in 1..users[req[p].user].pw /\ req[p].id \in 1..ops
    BY <1>4 DEF GoodRequest, Known
  <2>2. /\ users[req[p].user].pw \in Nat \ {0} /\ users'[req[p].user].pw \in Nat \ {0}
        /\ users[req[p].user].pw <= users'[req[p].user].pw
        /\ ops \in Nat /\ ops' \in Nat /\ ops <= ops'
    BY <1>1, <2>1 DEF Forward, TypeInv, Accounts, Account, Counters
  <2>3. new.user \in DOMAIN users' /\ new.pw \in 1..users'[new.user].pw /\ new.id \in 1..ops'
    BY <1>1, <1>2, <1>5, <2>1, <2>2 DEF Forward
  <2> QED BY <1>2, <1>5, <2>3 DEF GoodRequest, Known
<1> QED BY <1>1, <1>2, <1>3, <1>4, <1>5, OneSlotChanges

LEMMA RequestsStay ==
  ASSUME TypeInv, Next
  PROVE  Requests'
<1>1. Forward
  BY NextForward
<1>2. ASSUME NEW p \in Slots, Opens(p) PROVE Requests'
  BY <1>2, OpensRequests
<1>3. ASSUME NEW p \in Slots, Proceeds(p) PROVE Requests'
  BY <1>3, ProceedsRequests
<1>4. ASSUME req' = req, Running => Running' PROVE Requests'
  <2>1. \A p \in Slots : req[p] # None => Running' /\ \E r : req[p] = r /\ GoodRequest(r)'
    BY <1>1, <1>4, KnownStays DEF TypeInv, Requests
  <2>2. \A p \in Slots : req'[p] # None => GoodRequest(req[p])'
    BY <1>4, <2>1 DEF GoodRequest, Known
  <2> QED BY <1>4, <2>1, <2>2 DEF TypeInv, Requests
<1>5. CASE Direct
  <2>1. UNCHANGED <<req, boot>>
    BY <1>5 DEF Direct, Tidy, Tick, Register, Logout, Visit
  <2> QED BY <1>4, <2>1 DEF Running
<1>6. CASE Crash
  BY <1>6 DEF Crash, Requests
<1>7. CASE BootAdmin \/ BootGuest
  <2>1. UNCHANGED req /\ ~Running
    BY <1>7 DEF BootAdmin, BootGuest, SyncUserPassword, Running
  <2> QED BY <1>4, <2>1
<1>8. CASE BootFile
  <2>1. UNCHANGED req /\ ~Running
    BY <1>8 DEF BootFile, Running
  <2> QED BY <1>4, <2>1
<1> QED BY <1>2, <1>3, <1>5, <1>6, <1>7, <1>8, NextCases DEF StartUp

------------------------------------------------------------------------------
(* The start                                                               *)

\* A start goes on, with the accounts that it may have created.
LEMMA BootGoesOn ==
  ASSUME TypeInv, NEW user \in {Admin, Guest}, NEW next \in {"guest", "file"},
         SyncUserPassword(user, next), next = "guest" => user = Admin /\ boot.stage = "admin"
  PROVE  FirstStart'
<1>1. /\ boot = [stage |-> boot.stage, first |-> boot.first, env |-> boot.env, sync |-> boot.sync]
      /\ boot.first /\ boot.stage = "admin" => DOMAIN users = {}
      /\ boot.sync => "sync" \in faults
  BY DEF TypeInv, FirstStart
<1>2. boot' = [boot EXCEPT !.stage = next] /\ faults' = faults
  BY DEF SyncUserPassword, limits
<1>3. /\ boot'.stage = next /\ boot'.first = boot.first /\ boot'.env = boot.env
      /\ boot'.sync = boot.sync
      /\ boot' = [stage |-> next, first |-> boot.first, env |-> boot.env, sync |-> boot.sync]
  BY <1>1, <1>2
<1>4. DOMAIN users' \subseteq DOMAIN users \cup {user}
  BY DEF SyncUserPassword, Put
<1>5. boot.first /\ next = "guest" => DOMAIN users' \subseteq {Admin}
  BY <1>1, <1>4
<1> QED BY <1>1, <1>2, <1>3, <1>5 DEF FirstStart

LEMMA FirstStartStays ==
  ASSUME TypeInv, Next
  PROVE  FirstStart' /\ faults' = faults
<1>1. FirstStart
  BY DEF TypeInv
<1>2. ASSUME UNCHANGED <<boot, faults>>, Running PROVE FirstStart' /\ faults' = faults
  BY <1>1, <1>2 DEF FirstStart, Running
<1>3. CASE BootAdmin
  BY <1>3, BootGoesOn DEF BootAdmin, SyncUserPassword, limits
<1>4. CASE BootGuest
  BY <1>4, BootGoesOn DEF BootGuest, SyncUserPassword, limits
<1>5. CASE BootFile
  BY <1>5 DEF BootFile, Up, FirstStart, limits
<1>6. CASE Crash
  <2>1. PICK env \in SUBSET {Admin, Guest}, sync \in {FALSE, "sync" \in faults} : boot' = Starting(env, sync)
    BY <1>6 DEF Crash
  <2>2. users' = users /\ faults' = faults
    BY <1>6 DEF Crash, tables
  <2>3. /\ boot' = [stage |-> "admin", first |-> users = Empty, env |-> env, sync |-> sync]
        /\ boot'.stage = "admin" /\ (boot'.first <=> users = Empty) /\ (boot'.sync <=> sync)
    BY <2>1 DEF Starting
  <2> QED BY <2>1, <2>2, <2>3, EmptyFacts DEF FirstStart
<1>7. CASE Direct
  BY <1>2, <1>7 DEF Direct, Tidy, Tick, Register, Logout, Visit, LetIn, limits
<1>8. ASSUME NEW p \in Slots, Opens(p) PROVE FirstStart' /\ faults' = faults
  BY <1>2, <1>8 DEF Opens, Login, DavVerify, ChangeOpen, ResetOpen, Start, limits
<1>9. ASSUME NEW p \in Slots, Proceeds(p) PROVE FirstStart' /\ faults' = faults
  <2>1. UNCHANGED <<boot, faults>> /\ req[p] # None
    BY <1>9 DEF Proceeds, LoginSession, DavRemember, ChangeVerify, ChangeCommit, ChangeInvalidate,
                ChangeSession, ResetCommit, ResetInvalidate, Abort, At, limits
  <2>2. Running
    BY <2>1 DEF TypeInv, Requests
  <2> QED BY <1>2, <2>1, <2>2
<1> QED BY <1>3, <1>4, <1>5, <1>6, <1>7, <1>8, <1>9, NextCases DEF StartUp

LEMMA TypeStart == Init => TypeInv
<1> SUFFICES ASSUME Init PROVE TypeInv
  OBVIOUS
<1>1. /\ users = Empty /\ sessions = Empty /\ cache = Empty
      /\ DOMAIN users = {} /\ DOMAIN sessions = {} /\ DOMAIN cache = {}
  BY EmptyFacts DEF Init
<1>2. Empty = [i \in DOMAIN Empty |-> Empty[i]]
  BY DEF Empty
<1>3. Counters /\ Accounts /\ Sessions /\ Cached /\ Requests /\ file \in BOOLEAN
  BY <1>1, <1>2 DEF Init, Counters, Accounts, Sessions, Cached, Requests
<1>4. PICK env : boot = Starting(env, FALSE)
  BY DEF Init
<1>5. FirstStart
  BY <1>1, <1>4 DEF FirstStart, Starting
<1> QED BY <1>3, <1>5 DEF TypeInv

LEMMA TypeStep == TypeInv /\ [Next]_vars => TypeInv'
<1> SUFFICES ASSUME TypeInv, [Next]_vars PROVE TypeInv'
  OBVIOUS
<1>1. CASE UNCHANGED vars
  BY <1>1 DEF vars, TypeInv, Counters, Accounts, Sessions, Cached, Requests, FirstStart, Known,
              GoodSession, GoodRequest, Running
<1>2. CASE Next
  <2>1. Counters' /\ Accounts'
    BY <1>2, NextForward DEF Forward
  <2>2. file' \in BOOLEAN
    <3>1. file \in BOOLEAN
      BY DEF TypeInv
    <3>2. CASE StartUp
      BY <3>1, <3>2 DEF StartUp, BootAdmin, BootGuest, BootFile, Crash, SyncUserPassword
    <3>3. CASE Direct
      BY <3>1, <3>3 DEF Direct, Tidy, Tick, Register, Logout, Visit
    <3>4. ASSUME NEW p \in Slots, Opens(p) PROVE file' \in BOOLEAN
      BY <3>1, <3>4 DEF Opens, Login, DavVerify, ChangeOpen, ResetOpen
    <3>5. ASSUME NEW p \in Slots, Proceeds(p) PROVE file' \in BOOLEAN
      BY <3>1, <3>5 DEF Proceeds, LoginSession, DavRemember, ChangeVerify, ChangeCommit,
                        ChangeInvalidate, ChangeSession, ResetCommit, ResetInvalidate, Abort
    <3> QED BY <1>2, <3>2, <3>3, <3>4, <3>5, NextCases
  <2> QED BY <1>2, <2>1, <2>2, SessionsStay, CachedStays, RequestsStay, FirstStartStays DEF TypeInv
<1> QED BY <1>1, <1>2

\* TypeOK for any accounts and requests: every session, cached credential and request is of
\* an account, and stems from a password that the account has or had.  (handlers/auth.rs)
THEOREM TypeCorrect == Spec => []TypeOK
<1>1. TypeInv => TypeOK
  <2> SUFFICES ASSUME TypeInv PROVE TypeOK
    OBVIOUS
  <2>1. DOMAIN users \subseteq Users
        /\ \A u \in DOMAIN users : users[u].pw \in Nat \ {0} /\ users[u].must \in BOOLEAN
    BY DEF TypeInv, Accounts, Account
  <2>2. \A t \in DOMAIN sessions :
          /\ sessions[t].user \in DOMAIN users /\ sessions[t].pw \in 1..users[sessions[t].user].pw
          /\ sessions[t].active \in 0..sessions[t].used /\ sessions[t].used \in 0..now
    BY DEF TypeInv, Sessions, GoodSession, Session, Known, Counters
  <2>3. DOMAIN cache \subseteq DOMAIN users
        /\ \A u \in DOMAIN cache : cache[u].pw \in 1..users[u].pw /\ cache[u].at \in 0..now
    BY DEF TypeInv, Cached, Known
  <2>4. \A p \in Slots : req[p] # None =>
          /\ Running /\ req[p].user \in DOMAIN users
          /\ req[p].pw \in 1..users[req[p].user].pw
    BY DEF TypeInv, Requests, GoodRequest, Known
  <2> QED BY <2>1, <2>2, <2>3, <2>4 DEF TypeOK, TypeInv, Sessions
<1> QED BY <1>1, TypeStart, TypeStep, PTL DEF Spec

------------------------------------------------------------------------------
(* Current passwords                                                       *)

LEMMA SamePasswords ==
  ASSUME TypeInv, Current,
         \A u \in DOMAIN users : users'[u].pw = users[u].pw,
         \A t \in DOMAIN sessions' :
           \/ /\ t \in DOMAIN sessions
              /\ sessions'[t].user = sessions[t].user /\ sessions'[t].pw = sessions[t].pw
           \/ sessions'[t].pw = users'[sessions'[t].user].pw,
         \A u \in DOMAIN cache' :
           \/ u \in DOMAIN cache /\ cache'[u] = cache[u] /\ (Due(u) => Due(u)')
           \/ cache'[u].pw = users'[u].pw
  PROVE  Current'
<1>1. \A t \in DOMAIN sessions : sessions[t].user \in DOMAIN users
  BY DEF TypeInv, Sessions, GoodSession, Known
<1>2. \A u \in DOMAIN cache : u \in DOMAIN users
  BY DEF TypeInv, Cached, Known
<1>3. \A t \in DOMAIN sessions' : sessions'[t].pw = users'[sessions'[t].user].pw
  BY <1>1 DEF Current
<1>4. \A u \in DOMAIN cache' : Due(u)' \/ cache'[u].pw = users'[u].pw
  BY <1>2 DEF Current
<1> QED BY <1>3, <1>4 DEF Current

\* An invalidation stays due as long as its own request does not go on.
LEMMA DueStays ==
  ASSUME NEW p \in Slots, \A q \in Slots \ {p} : req'[q] = req[q], NEW u, Due(u),
         ~(req[p] # None /\ req[p].user = u /\ req[p].stage \in {"invalidate", "drop"})
  PROVE  Due(u)'
  BY DEF Due

\* Without synchronisation a start replaces no password.
LEMMA SyncKeepsPasswords ==
  ASSUME TypeInv, Within({"dberror"}), NEW user \in Users, NEW next, SyncUserPassword(user, next),
         boot.first => user \notin DOMAIN users
  PROVE  \A u \in DOMAIN users : users'[u].pw = users[u].pw
<1>1. ~boot.sync
  BY DEF TypeInv, FirstStart, Within
<1>2. \/ users' = users
      \/ user \notin DOMAIN users /\ \E account : users' = Put(users, user, account)
  BY <1>1 DEF SyncUserPassword
<1> QED BY <1>2 DEF Put

LEMMA CurrentStartUp ==
  ASSUME TypeInv, Current, Within({"dberror"}), StartUp
  PROVE  Current'
<1>1. ASSUME NEW user \in Users, NEW next, SyncUserPassword(user, next),
             boot.first => user \notin DOMAIN users
      PROVE  Current'
  <2>1. UNCHANGED <<sessions, cache, req>>
    BY <1>1 DEF SyncUserPassword
  <2>2. \A u : Due(u) => Due(u)'
    BY <2>1 DEF Due
  <2> QED BY <1>1, <2>1, <2>2, SyncKeepsPasswords, SamePasswords
<1>2. CASE BootAdmin
  BY <1>1, <1>2 DEF BootAdmin, TypeInv, FirstStart, Users
<1>3. CASE BootGuest
  BY <1>1, <1>3, AccessAssumption DEF BootGuest, TypeInv, FirstStart, Users
<1>4. CASE BootFile
  <2>1. UNCHANGED <<users, cache, req>> /\ CleanSessions
    BY <1>4 DEF BootFile
  <2>2. \A u : Due(u) => Due(u)'
    BY <2>1 DEF Due
  <2>3. \A t \in DOMAIN sessions' : t \in DOMAIN sessions /\ sessions'[t] = sessions[t]
    BY <2>1 DEF CleanSessions, Keep, Restrict
  <2> QED BY <2>1, <2>2, <2>3, SamePasswords
<1>5. CASE Crash
  <2>1. UNCHANGED <<users, sessions>> /\ DOMAIN cache' = {}
    BY <1>5, EmptyFacts DEF Crash, tables
  <2> QED BY <2>1, SamePasswords
<1> QED BY <1>2, <1>3, <1>4, <1>5 DEF StartUp

LEMMA CurrentDirect ==
  ASSUME TypeInv, Current, Direct
  PROVE  Current'
<1>1. UNCHANGED <<cache, req>>
  BY DEF Direct, Tidy, Tick, Register, Logout, Visit
<1>2. \A u : Due(u) => Due(u)'
  BY <1>1 DEF Due
<1>3. \A u \in DOMAIN users : users'[u].pw = users[u].pw
  BY DEF Direct, Tidy, Tick, Register, Logout, Visit, LetIn, tables, Put
<1>4. \A t \in DOMAIN sessions' :
        /\ t \in DOMAIN sessions
        /\ sessions'[t].user = sessions[t].user /\ sessions'[t].pw = sessions[t].pw
  <2>1. CASE Tidy \/ Tick \/ (\E user \in Users : Register(user))
             \/ (\E t \in DOMAIN sessions : Logout(t))
    BY <2>1 DEF Tidy, Tick, Register, Logout, tables, CleanSessions, Keep, Restrict
  <2>2. ASSUME NEW t \in DOMAIN sessions, Visit(t)
        PROVE  /\ DOMAIN sessions' = DOMAIN sessions
               /\ \A u \in DOMAIN sessions : /\ sessions'[u].user = sessions[u].user
                                             /\ sessions'[u].pw = sessions[u].pw
    BY <2>2, DirectForward, VisitedSession DEF Visit, LetIn
  <2> QED BY <2>1, <2>2 DEF Direct
<1> QED BY <1>1, <1>2, <1>3, <1>4, SamePasswords

LEMMA CurrentOpens ==
  ASSUME TypeInv, Current, NEW p \in Slots, Opens(p)
  PROVE  Current'
<1>1. UNCHANGED <<users, cache>>
  BY DEF Opens, Login, DavVerify, ChangeOpen, ResetOpen, tables
<1>2. PICK stage, user : Start(p, stage, user)
  BY DEF Opens, Login, DavVerify, ChangeOpen, ResetOpen
<1>3. req[p] = None /\ \A q \in Slots \ {p} : req'[q] = req[q]
  BY <1>2 DEF Start, TypeInv, Requests
<1>4. \A u : Due(u) => Due(u)'
  BY <1>3, DueStays
<1>5. \A t \in DOMAIN sessions' :
        /\ t \in DOMAIN sessions
        /\ sessions'[t].user = sessions[t].user /\ sessions'[t].pw = sessions[t].pw
  <2>1. CASE UNCHANGED sessions
    BY <2>1
  <2>2. ASSUME NEW t \in DOMAIN sessions, NEW u, ResetOpen(p, t, u)
        PROVE  /\ DOMAIN sessions' = DOMAIN sessions
               /\ \A v \in DOMAIN sessions : /\ sessions'[v].user = sessions[v].user
                                             /\ sessions'[v].pw = sessions[v].pw
    BY <2>2, OpensForward, VisitedSession DEF ResetOpen, LetIn
  <2> QED BY <2>1, <2>2 DEF Opens, Login, DavVerify, ChangeOpen, tables
<1> QED BY <1>1, <1>4, <1>5, SamePasswords

\* The transaction removes every session of the account, and its invalidation is due.
LEMMA CurrentCommit ==
  ASSUME TypeInv, Current, NEW p \in Slots, ChangeCommit(p) \/ ResetCommit(p)
  PROVE  Current'
<1>1. PICK user : user = req[p].user
  OBVIOUS
<1>2. /\ \A u \in DOMAIN users \ {user} : users'[u] = users[u]
      /\ DOMAIN users' = DOMAIN users
  BY <1>1, CommitForward
<1>3. /\ \A t \in DOMAIN sessions' :
           t \in DOMAIN sessions /\ sessions'[t] = sessions[t] /\ sessions[t].user # user
      /\ cache' = cache
  BY <1>1 DEF ChangeCommit, ResetCommit, CloseSessions, Keep, Restrict
<1>4. PICK new \in Request :
        /\ req' = [q \in Slots |-> IF q = p THEN new ELSE req[q]]
        /\ new.user = user /\ new.stage \in {"invalidate", "drop"}
  BY <1>1, CommitRequest
<1>5. new # None
  BY <1>4, AccessAssumption DEF Request
<1>6. Due(user)'
  BY <1>4, <1>5 DEF Due
<1>7. ASSUME NEW u, u # user, Due(u) PROVE Due(u)'
  BY <1>1, <1>4, <1>7 DEF Due
<1>8. \A t \in DOMAIN sessions' : sessions'[t].pw = users'[sessions'[t].user].pw
  <2>1. \A t \in DOMAIN sessions : sessions[t].user \in DOMAIN users
    BY DEF TypeInv, Sessions, GoodSession, Known
  <2> QED BY <1>2, <1>3, <2>1 DEF Current
<1>9. \A u \in DOMAIN cache' : Due(u)' \/ cache'[u].pw = users'[u].pw
  <2>1. \A u \in DOMAIN cache : u \in DOMAIN users
    BY DEF TypeInv, Cached, Known
  <2> QED BY <1>2, <1>3, <1>6, <1>7, <2>1 DEF Current
<1> QED BY <1>8, <1>9 DEF Current

LEMMA CurrentProceeds ==
  ASSUME TypeInv, Current, Within({"dberror"}), NEW p \in Slots, Proceeds(p)
  PROVE  Current'
<1>1. CASE ChangeCommit(p) \/ ResetCommit(p)
  BY <1>1, CurrentCommit
<1>2. CASE LoginSession(p) \/ DavRemember(p) \/ ChangeVerify(p) \/ ChangeInvalidate(p)
           \/ ChangeSession(p) \/ ResetInvalidate(p) \/ Abort(p)
  <2>1. \A q \in Slots \ {p} : req'[q] = req[q]
    BY ProceedsFacts
  <2>2. UNCHANGED <<users, now, ops>>
    BY <1>2 DEF LoginSession, DavRemember, ChangeVerify, ChangeInvalidate, ChangeSession,
                ResetInvalidate, Abort, tables
  <2>3. CASE LoginSession(p) \/ ChangeSession(p)
    <3>1. /\ cache' = cache /\ req[p] # None /\ ~Late(p)
          /\ req[p].stage \notin {"invalidate", "drop"}
          /\ OpenSession(req[p]) \/ UNCHANGED sessions
      BY <2>3 DEF LoginSession, ChangeSession, At, Within
    <3>2. \A u : Due(u) => Due(u)'
      BY <2>1, <3>1, DueStays
    <3>3. CASE UNCHANGED sessions
      BY <2>2, <3>1, <3>2, <3>3, SamePasswords
    <3>4. CASE OpenSession(req[p])
      <4>1. /\ DOMAIN sessions' = DOMAIN sessions \cup {req[p].id}
            /\ sessions'[req[p].id].user = req[p].user /\ sessions'[req[p].id].pw = req[p].pw
            /\ \A t \in DOMAIN sessions \ {req[p].id} : sessions'[t] = sessions[t]
        BY <2>2, <3>1, <3>4, ProceedsForward, OpenedSession
      <4>2. req[p].pw = users'[req[p].user].pw
        BY <2>2, <3>1 DEF Late
      <4> QED BY <2>2, <3>1, <3>2, <4>1, <4>2, SamePasswords
    <3> QED BY <3>1, <3>3, <3>4
  <2>4. CASE DavRemember(p)
    <3>1. /\ UNCHANGED sessions /\ req[p] # None /\ ~Late(p)
          /\ req[p].stage \notin {"invalidate", "drop"}
      BY <2>4 DEF DavRemember, At, Within, tables
    <3>2. \A u : Due(u) => Due(u)'
      BY <2>1, <3>1, DueStays
    <3>3. /\ DOMAIN cache' = DOMAIN cache \cup {req[p].user}
          /\ cache'[req[p].user] = [pw |-> req[p].pw, at |-> now]
          /\ \A u \in DOMAIN cache \ {req[p].user} : cache'[u] = cache[u]
      BY <2>4, RememberedCredentials
    <3>4. cache'[req[p].user].pw = users'[req[p].user].pw
      BY <2>2, <3>1, <3>3 DEF Late
    <3> QED BY <2>2, <3>1, <3>2, <3>3, <3>4, SamePasswords
  <2>5. CASE ChangeInvalidate(p) \/ ResetInvalidate(p)
    <3>1. UNCHANGED sessions /\ Invalidate(req[p].user)
      BY <2>5 DEF ChangeInvalidate, ResetInvalidate, tables
    <3>2. DOMAIN cache' = DOMAIN cache \ {req[p].user} /\ \A u \in DOMAIN cache' : cache'[u] = cache[u]
      BY <3>1, InvalidatedCache
    <3>3. \A u \in DOMAIN cache' : Due(u) => Due(u)'
      BY <2>1, <3>2, DueStays
    <3> QED BY <2>2, <3>1, <3>2, <3>3, SamePasswords
  <2>6. CASE ChangeVerify(p) \/ Abort(p)
    <3>1. UNCHANGED <<sessions, cache>> /\ req[p].stage \notin {"invalidate", "drop"}
      BY <2>6 DEF ChangeVerify, Abort, At, Within, tables
    <3>2. \A u : Due(u) => Due(u)'
      BY <2>1, <3>1, DueStays
    <3> QED BY <2>2, <3>1, <3>2, SamePasswords
  <2> QED BY <1>2, <2>3, <2>4, <2>5, <2>6
<1> QED BY <1>1, <1>2 DEF Proceeds

LEMMA AccessStart == Init => AccessInv
<1>1. Init => TypeInv
  BY TypeStart
<1>2. Init => Current
  BY EmptyFacts DEF Init, Current
<1> QED BY <1>1, <1>2 DEF AccessInv

LEMMA AccessStep == AccessInv /\ [Next]_vars => AccessInv'
<1> SUFFICES ASSUME AccessInv, [Next]_vars PROVE AccessInv'
  OBVIOUS
<1>1. TypeInv /\ TypeInv'
  BY TypeStep DEF AccessInv
<1>2. CASE UNCHANGED vars
  BY <1>1, <1>2 DEF AccessInv, Within, Current, Due, vars
<1>3. CASE Next
  <2>1. faults' = faults
    BY <1>1, <1>3, FirstStartStays
  <2>2. ASSUME Within({"dberror"}) PROVE Current'
    <3>1. Current
      BY <2>2 DEF AccessInv
    <3> QED BY <1>1, <1>3, <2>2, <3>1, NextCases, CurrentStartUp, CurrentDirect, CurrentOpens,
               CurrentProceeds
  <2> QED BY <1>1, <2>1, <2>2 DEF AccessInv, Within
<1> QED BY <1>2, <1>3

\* OldPasswordIsOut for any accounts, requests, times and crashes: who came with a password
\* that was replaced has no session left and is not in the WebDAV cache, once the
\* invalidation is done.  (handlers/auth.rs:536, 571, admin.rs:216, dav/auth.rs:32)
THEOREM OldPasswordNeverAdmits == Spec => []OldPasswordIsOut
<1>1. AccessInv => OldPasswordIsOut
  <2> SUFFICES ASSUME AccessInv, Within({"dberror"}), NEW u \in DOMAIN users,
                      \A p \in Slots : ~(req[p] # None /\ req[p].user = u
                                         /\ req[p].stage \in {"invalidate", "drop"})
               PROVE  /\ \A t \in DOMAIN sessions :
                           sessions[t].user = u => sessions[t].pw = users[u].pw
                      /\ \A old \in 1..users[u].pw - 1 : ~DavCached(u, old)
    BY DEF OldPasswordIsOut
  <2>1. Current /\ ~Due(u)
    BY DEF AccessInv, Due
  <2>2. users[u].pw \in Nat
    BY DEF AccessInv, TypeInv, Accounts, Account
  <2>3. \A old \in 1..users[u].pw - 1 : old # users[u].pw
    BY <2>2
  <2> QED BY <2>1, <2>3 DEF Current, DavCached
<1> QED BY <1>1, AccessStart, AccessStep, PTL DEF Spec

------------------------------------------------------------------------------
(* Sessions in use                                                         *)

\* The stamp is never further behind the last visit than the refresh interval.
Stamped == \A t \in DOMAIN sessions : sessions[t].used - sessions[t].active <= RefreshTime

StampInv == TypeInv /\ ("dberror" \notin faults => Stamped)

\* What may happen to the sessions in a step.
LEMMA SessionCases ==
  ASSUME TypeInv, Next
  PROVE  \/ UNCHANGED sessions
         \/ CleanSessions
         \/ \E t \in DOMAIN sessions : Logout(t)
         \/ \E t \in DOMAIN sessions : LetIn(t)
         \/ "dberror" \in faults
         \/ \E p \in Slots : req[p] # None /\ OpenSession(req[p]) /\ UNCHANGED <<users, now, ops>>
         \/ \E p \in Slots : (ChangeCommit(p) \/ ResetCommit(p)) /\ CloseSessions(req[p].user)
<1>1. CASE StartUp
  BY <1>1 DEF StartUp, BootAdmin, BootGuest, BootFile, Crash, SyncUserPassword, tables
<1>2. CASE Direct
  BY <1>2 DEF Direct, Tidy, Tick, Register, Visit, tables
<1>3. ASSUME NEW p \in Slots, Opens(p)
      PROVE  UNCHANGED sessions \/ \E t \in DOMAIN sessions : LetIn(t)
  BY <1>3 DEF Opens, Login, DavVerify, ChangeOpen, ResetOpen, tables
<1>4. ASSUME NEW p \in Slots, Proceeds(p)
      PROVE  \/ UNCHANGED sessions
             \/ req[p] # None /\ OpenSession(req[p]) /\ UNCHANGED <<users, now, ops>>
             \/ (ChangeCommit(p) \/ ResetCommit(p)) /\ CloseSessions(req[p].user)
  BY <1>4 DEF Proceeds, LoginSession, DavRemember, ChangeVerify, ChangeCommit, ChangeInvalidate,
              ChangeSession, ResetCommit, ResetInvalidate, Abort, At, tables
<1> QED BY <1>1, <1>2, <1>3, <1>4, NextCases

LEMMA StampStart == Init => StampInv
<1>1. Init => TypeInv
  BY TypeStart
<1>2. Init => Stamped
  BY EmptyFacts DEF Init, Stamped
<1> QED BY <1>1, <1>2 DEF StampInv

LEMMA StampStep == StampInv /\ [Next]_vars => StampInv'
<1> SUFFICES ASSUME StampInv, [Next]_vars PROVE StampInv'
  OBVIOUS
<1>1. TypeInv /\ TypeInv'
  BY TypeStep DEF StampInv
<1>2. CASE UNCHANGED vars
  BY <1>1, <1>2 DEF StampInv, Stamped, vars
<1>3. CASE Next
  <2>1. faults' = faults
    BY <1>1, <1>3, FirstStartStays
  <2>2. ASSUME "dberror" \notin faults PROVE Stamped'
    <3>1. Stamped
      BY <2>2 DEF StampInv
    <3>2. ASSUME \A t \in DOMAIN sessions' : t \in DOMAIN sessions /\ sessions'[t] = sessions[t]
          PROVE  Stamped'
      BY <3>1, <3>2 DEF Stamped
    <3>3. CASE UNCHANGED sessions
      BY <3>2, <3>3
    <3>4. CASE CleanSessions \/ \E t \in DOMAIN sessions : Logout(t)
      BY <3>2, <3>4 DEF CleanSessions, Logout, Keep, Restrict
    <3>5. ASSUME NEW p \in Slots, CloseSessions(req[p].user) PROVE Stamped'
      BY <3>2, <3>5 DEF CloseSessions, Keep, Restrict
    <3>6. ASSUME NEW p \in Slots, OpenSession(req[p]) PROVE Stamped'
      <4>1. PICK id, s : /\ id = req[p].id
                         /\ s = [user |-> req[p].user, pw |-> req[p].pw, expires |-> now + Lifetime,
                                 active |-> now, used |-> now]
        OBVIOUS
      <4>2. sessions' = Put(sessions, id, s)
        BY <3>6, <4>1 DEF OpenSession
      <4>3. s.used = now /\ s.active = now /\ now \in Nat /\ RefreshTime \in Nat
        BY <1>1, <4>1, AccessAssumption DEF TypeInv, Counters
      <4> QED BY <3>1, <4>2, <4>3 DEF Stamped, Put
    <3>7. ASSUME NEW t \in DOMAIN sessions, LetIn(t) PROVE Stamped'
      <4>1. sessions[t] \in Session /\ now \in Nat /\ RefreshTime \in Nat
            /\ sessions = [u \in DOMAIN sessions |-> sessions[u]]
        BY <1>1, AccessAssumption DEF TypeInv, Counters, Sessions, GoodSession
      <4>2. PICK s : s = [sessions[t] EXCEPT !.used = now, !.active = Refreshed(sessions[t])]
        OBVIOUS
      <4>3. sessions' = [sessions EXCEPT ![t].used = now, ![t].active = Refreshed(sessions[t])]
        BY <3>7 DEF LetIn
      <4>4. sessions' = [u \in DOMAIN sessions |-> IF u = t THEN s ELSE sessions[u]]
        BY <4>1, <4>2, <4>3
      <4>5. s.used = now /\ s.active = Refreshed(sessions[t]) /\ sessions[t].active \in Nat
        BY <4>1, <4>2 DEF Session
      <4>6. s.used - s.active <= RefreshTime
        BY <4>1, <4>5 DEF Refreshed
      <4> QED BY <3>1, <4>4, <4>6 DEF Stamped
    <3> QED BY <1>1, <1>3, <2>2, <3>3, <3>4, <3>5, <3>6, <3>7, SessionCases
  <2> QED BY <1>1, <2>1, <2>2 DEF StampInv
<1> QED BY <1>2, <1>3

\* What SessionInUseIsKept says of one step.
LEMMA KeptInUse ==
  ASSUME StampInv, [Next]_vars, "dberror" \notin faults, NEW t \in DOMAIN sessions, InUse(t)
  PROVE  /\ Alive(sessions[t])
         /\ \/ t \in DOMAIN sessions'
            \/ Logout(t)
            \/ users'[sessions[t].user].pw # users[sessions[t].user].pw
<1>1. TypeInv /\ Stamped
  BY DEF StampInv
<1>2. GoodSession(sessions[t]) /\ sessions[t] \in Session /\ now \in Nat
  BY <1>1 DEF TypeInv, Sessions, GoodSession, Counters
<1>3. Alive(sessions[t])
  BY <1>1, <1>2, AccessAssumption DEF Alive, InUse, Stamped, Session
<1>4. CASE UNCHANGED vars
  BY <1>3, <1>4 DEF vars
<1>5. CASE UNCHANGED sessions \/ CleanSessions
  BY <1>3, <1>5 DEF CleanSessions, Keep, Restrict
<1>6. ASSUME NEW u \in DOMAIN sessions, Logout(u) PROVE t \in DOMAIN sessions' \/ Logout(t)
  BY <1>6 DEF Logout, Keep, Restrict
<1>7. ASSUME NEW u \in DOMAIN sessions, LetIn(u) PROVE t \in DOMAIN sessions'
  BY <1>7 DEF LetIn
<1>8. ASSUME NEW p \in Slots, OpenSession(req[p]) PROVE t \in DOMAIN sessions'
  BY <1>8 DEF OpenSession, Put
<1>9. ASSUME NEW p \in Slots, ChangeCommit(p) \/ ResetCommit(p), CloseSessions(req[p].user)
      PROVE  \/ t \in DOMAIN sessions'
             \/ users'[sessions[t].user].pw # users[sessions[t].user].pw
  <2>1. CASE sessions[t].user # req[p].user
    BY <1>9, <2>1 DEF CloseSessions, Keep, Restrict
  <2>2. CASE sessions[t].user = req[p].user
    <3>1. /\ req[p].user \in DOMAIN users
          /\ users'[req[p].user].pw = users[req[p].user].pw + 1
      BY <1>1, <1>9, CommitForward
    <3>2. users[req[p].user].pw \in Nat
      BY <1>1, <3>1 DEF TypeInv, Accounts, Account
    <3> QED BY <2>2, <3>1, <3>2
  <2> QED BY <2>1, <2>2
<1> QED BY <1>1, <1>3, <1>4, <1>5, <1>6, <1>7, <1>8, <1>9, SessionCases

\* SessionInUseIsKept for any accounts, requests, times and crashes: neither gate and no
\* clean-up ends a session that is in use.  (core/auth.rs:199)
THEOREM UseKeepsSession == Spec => SessionInUseIsKept
<1>1. StampInv /\ [Next]_vars =>
        [~("dberror" \in faults) =>
           \A t \in DOMAIN sessions : InUse(t) =>
             /\ Alive(sessions[t])
             /\ \/ t \in DOMAIN sessions'
                \/ Logout(t)
                \/ users'[sessions[t].user].pw # users[sessions[t].user].pw]_vars
  BY KeptInUse
<1> QED BY <1>1, StampStart, StampStep, PTL DEF Spec, SessionInUseIsKept
=============================================================================
