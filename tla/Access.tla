------------------------------- MODULE Access -------------------------------
(***************************************************************************)
(* Who may come in: accounts and their passwords, the sessions of the web  *)
(* pages (handlers/auth.rs, core/auth.rs), the cache of verified           *)
(* credentials of WebDAV (handlers/dav/auth.rs), and the default accounts  *)
(* that the first start creates (db/mod.rs).                               *)
(*                                                                         *)
(* A password is a number: the n-th one of its account.  A request that    *)
(* gives a wrong password changes nothing and is left out, as is the rate  *)
(* limit (module Share).  Argon2 takes 100 ms: a request verifies against  *)
(* a hash it read, and acts on the answer in a later step.                 *)
(***************************************************************************)
EXTENDS Integers, FiniteSets, Functions

CONSTANTS
  Admin, Guest,  \* the default accounts
  Others,        \* names that register
  Slots,         \* requests that run at once
  CacheTime,     \* 60 s
  RefreshTime,   \* 5 minutes
  IdleTime,      \* session_idle_minutes
  Lifetime,      \* session_days
  MaxTime,       \* bound of the model on the clock
  MaxOps,        \* bound of the model on requests and crashes together
  MaxCrashes,    \* bound of the model on crashes
  FaultSets,     \* the sets of circumstances a behaviour may meet
  None           \* no request: no record of one, above all

Users      == {Admin, Guest} \cup Others
FaultKinds == {"overlap", "sync", "dberror", "disconnect"}

ASSUME AccessAssumption ==
  /\ Admin # Guest /\ {Admin, Guest} \cap Others = {} /\ None \notin Users
  /\ None \notin [stage : {"invalidate", "drop"}, user : Users, pw : Nat, id : Nat]
  /\ {CacheTime, RefreshTime, IdleTime, Lifetime, MaxTime, MaxOps, MaxCrashes} \subseteq Nat
  /\ RefreshTime <= IdleTime
  /\ FaultSets \subseteq SUBSET FaultKinds

VARIABLES
  users,     \* table users: the password and must_change_pwd of each account
  sessions,  \* table sessions, by the request that opened each; pw and used are for the
             \* properties: the password it stems from, and when it was last let in
  cache,     \* AUTH_CACHE: the last credentials that were verified, and when
  file,      \* whether credentials.txt is there
  boot,      \* the start of the program, or its normal run
  req,       \* req[p]: the request in slot p
  now,       \* the clock
  ops,       \* requests so far
  crashes,
  faults     \* the circumstances that may occur

tables == <<users, sessions>>
limits == <<crashes, faults>>
vars   == <<users, sessions, cache, file, boot, req, now, ops, crashes, faults>>

------------------------------------------------------------------------------
Empty        == << >>
Put(f, k, v) == [i \in DOMAIN f \cup {k} |-> IF i = k THEN v ELSE f[i]]
Keep(f, P)   == Restrict(f, P)

Running      == boot.stage = "up"
At(p, stage) == req[p] # None /\ req[p].stage = stage
Step(p, stage) == req' = [req EXCEPT ![p].stage = stage]
Done(p)      == req' = [req EXCEPT ![p] = None]

\* The password that the request verified was changed in the meantime.
Late(p) == users[req[p].user].pw # req[p].pw

\* The two gates: expires_at and the idle timeout.
Alive(s) == s.expires > now /\ s.active >= now - IdleTime

Start(p, stage, user) ==
  /\ Running /\ req[p] = None /\ ops + crashes < MaxOps
  /\ user \in DOMAIN users
  /\ ops' = ops + 1
  /\ req' = [req EXCEPT ![p] =
       [stage |-> stage, user |-> user, pw |-> users[user].pw, id |-> ops + 1]]

\* Mutant of OpenSession: two columns are swapped.
OpenSessionSwapped(r) ==
  sessions' = Put(sessions, r.id,
    [user |-> r.user, pw |-> r.pw, expires |-> now, active |-> now + Lifetime, used |-> now])

\* create_session
OpenSession(r) ==
  sessions' = Put(sessions, r.id,
    [user |-> r.user, pw |-> r.pw, expires |-> now + Lifetime, active |-> now, used |-> now])

\* DELETE FROM sessions WHERE username = ?
CloseSessions(user) ==
  sessions' = Keep(sessions, {t \in DOMAIN sessions : sessions[t].user # user})

\* clean_expired_sessions
CleanSessions == sessions' = Keep(sessions, {t \in DOMAIN sessions : Alive(sessions[t])})

------------------------------------------------------------------------------
(* The start: init_default_users, then the sessions that have ended.       *)

Starting(env, sync) ==
  [stage |-> "admin", first |-> users = Empty, env |-> env, sync |-> sync]

\* Settled configuration of a run: no state of the start is needed any more.
Up == [stage |-> "up", first |-> FALSE, env |-> {}, sync |-> FALSE]

\* sync_user_password.  A synchronised password is taken to be another one.
SyncUserPassword(user, next) ==
  /\ boot' = [boot EXCEPT !.stage = next]
  /\ users' = IF user \in boot.env
                THEN IF user \notin DOMAIN users
                       THEN Put(users, user, [pw |-> 1, must |-> FALSE])
                       ELSE IF boot.sync \/ boot.first
                         THEN Put(users, user, [pw |-> users[user].pw + 1, must |-> FALSE])
                         ELSE users
                ELSE IF boot.first
                  THEN Put(users, user, [pw |-> 1, must |-> TRUE])
                  ELSE users
  /\ UNCHANGED <<sessions, cache, file, req, now, ops, limits>>

BootAdmin == boot.stage = "admin" /\ SyncUserPassword(Admin, "guest")
BootGuest == boot.stage = "guest" /\ SyncUserPassword(Guest, "file")

\* Generated passwords are written down once, when that of the admin is one.
BootFile ==
  /\ boot.stage = "file"
  /\ file' = (boot.first /\ (Admin \notin boot.env \/ file))
  /\ CleanSessions
  /\ boot' = Up
  /\ UNCHANGED <<users, cache, req, now, ops, limits>>

Crash ==
  /\ crashes < MaxCrashes /\ ops + crashes < MaxOps
  /\ crashes' = crashes + 1
  /\ \E env \in SUBSET {Admin, Guest}, sync \in {FALSE, "sync" \in faults} :
       boot' = Starting(env, sync)
  /\ req' = [p \in Slots |-> None]
  /\ cache' = Empty
  /\ UNCHANGED <<tables, file, now, ops, faults>>

------------------------------------------------------------------------------
(* Requests.                                                               *)

\* login: the password is right.
Login(p, user) ==
  /\ Start(p, "login", user)
  /\ UNCHANGED <<tables, cache, file, boot, now, limits>>

\* The credentials file goes with the first login, even if no session comes of it.
LoginSession(p) ==
  /\ At(p, "login")
  /\ Late(p) => "overlap" \in faults
  /\ \/ OpenSession(req[p])
     \/ "dberror" \in faults /\ UNCHANGED sessions
  /\ file' = FALSE
  /\ Done(p)
  /\ UNCHANGED <<users, cache, boot, now, ops, limits>>

\* register, the flag being set; the UNIQUE name decides between two of them.
Register(user) ==
  /\ Running /\ ops + crashes < MaxOps
  /\ user \in Others \ DOMAIN users
  /\ users' = Put(users, user, [pw |-> 1, must |-> FALSE])
  /\ ops' = ops + 1
  /\ UNCHANGED <<sessions, cache, file, boot, req, now, limits>>

\* logout
Logout(t) ==
  /\ Running
  /\ t \in DOMAIN sessions
  /\ sessions' = Keep(sessions, DOMAIN sessions \ {t})
  /\ UNCHANGED <<users, cache, file, boot, req, now, ops, limits>>

\* Mutant of Refreshed: the stamp is that of the login.
RefreshedNever(s) == s.active

\* last_active_at is written when it is older than five minutes.
Refreshed(s) == IF s.active < now - RefreshTime THEN now ELSE s.active

LetIn(t) ==
  /\ Running
  /\ t \in DOMAIN sessions /\ Alive(sessions[t])
  /\ sessions' = [sessions EXCEPT ![t].used = now, ![t].active = Refreshed(sessions[t])]

\* auth_middleware; a failed refresh is ignored.
Visit(t) ==
  /\ \/ LetIn(t)
     \/ /\ "dberror" \in faults
        /\ Running /\ t \in DOMAIN sessions /\ Alive(sessions[t])
        /\ sessions' = [sessions EXCEPT ![t].used = now]
  /\ UNCHANGED <<users, cache, file, boot, req, now, ops, limits>>

\* change_password: the session, ...
ChangeOpen(p, t) ==
  /\ t \in DOMAIN sessions /\ Alive(sessions[t])
  /\ Start(p, "verify", sessions[t].user)
  /\ UNCHANGED <<tables, cache, file, boot, now, limits>>

\* ... the current password (it may have changed since the session was looked up), ...
ChangeVerify(p) ==
  /\ At(p, "verify")
  /\ req' = [req EXCEPT ![p].stage = "change", ![p].pw = users[req[p].user].pw]
  /\ UNCHANGED <<tables, cache, file, boot, now, ops, limits>>

\* Mutant of ChangeCommit: the sessions stay.
ChangeCommitKeeping(p) ==
  /\ At(p, "change")
  /\ users' = [users EXCEPT ![req[p].user] = [pw |-> @.pw + 1, must |-> FALSE]]
  /\ req' = [req EXCEPT ![p].stage = "invalidate", ![p].pw = users[req[p].user].pw + 1]
  /\ UNCHANGED <<sessions, cache, file, boot, now, ops, limits>>

\* ... the transaction, ...
ChangeCommit(p) ==
  /\ At(p, "change")
  /\ CloseSessions(req[p].user)
  /\ users' = [users EXCEPT ![req[p].user] = [pw |-> @.pw + 1, must |-> FALSE]]
  /\ req' = [req EXCEPT ![p].stage = "invalidate", ![p].pw = users[req[p].user].pw + 1]
  /\ UNCHANGED <<cache, file, boot, now, ops, limits>>

\* ... invalidate_dav_auth_cache, ...
Invalidate(user) == cache' = Keep(cache, DOMAIN cache \ {user})

ChangeInvalidate(p) ==
  /\ At(p, "invalidate")
  /\ Invalidate(req[p].user)
  /\ Step(p, "session")
  /\ UNCHANGED <<tables, file, boot, now, ops, limits>>

\* ... and a new session.
ChangeSession(p) ==
  /\ At(p, "session")
  /\ Late(p) => "overlap" \in faults
  /\ OpenSession(req[p])
  /\ Done(p)
  /\ UNCHANGED <<users, cache, file, boot, now, ops, limits>>

\* reset_user_password, by a session of the admin that is let in: must_change_pwd stays.
ResetOpen(p, t, user) ==
  /\ t \in DOMAIN sessions /\ sessions[t].user = Admin
  /\ ~users[Admin].must
  /\ LetIn(t)
  /\ Start(p, "reset", user)
  /\ UNCHANGED <<users, cache, file, boot, now, limits>>

ResetCommit(p) ==
  /\ At(p, "reset")
  /\ CloseSessions(req[p].user)
  /\ users' = [users EXCEPT ![req[p].user].pw = @ + 1]
  /\ Step(p, "drop")
  /\ UNCHANGED <<cache, file, boot, now, ops, limits>>

ResetInvalidate(p) ==
  /\ At(p, "drop")
  /\ Invalidate(req[p].user)
  /\ Done(p)
  /\ UNCHANGED <<tables, file, boot, now, ops, limits>>

\* dav_auth: these credentials are accepted without verification.
DavCached(user, pw) ==
  user \in DOMAIN cache /\ cache[user].pw = pw /\ now - cache[user].at < CacheTime

\* The hash and must_change_pwd are read, the password is right.
DavVerify(p, user) ==
  /\ Start(p, "dav", user)
  /\ ~DavCached(user, users[user].pw)
  /\ ~users[user].must
  /\ UNCHANGED <<tables, cache, file, boot, now, limits>>

DavRemember(p) ==
  /\ At(p, "dav")
  /\ Late(p) => "overlap" \in faults
  /\ cache' = Put(cache, req[p].user, [pw |-> req[p].pw, at |-> now])
  /\ Done(p)
  /\ UNCHANGED <<tables, file, boot, now, ops, limits>>

\* A request ends early: a database error, a wrong password, or the client left.
\* Only the last can come between the commit and the cache.  A login may have
\* removed the credentials file by then.
Abort(p) ==
  /\ req[p] # None
  /\ req[p].stage \in {"invalidate", "drop"} => "disconnect" \in faults
  /\ file' \in {file, file /\ req[p].stage # "login"}
  /\ Done(p)
  /\ UNCHANGED <<tables, cache, boot, now, ops, limits>>

------------------------------------------------------------------------------
\* spawn_session_cleanup, every hour.
Tidy ==
  /\ Running
  /\ CleanSessions
  /\ UNCHANGED <<users, cache, file, boot, req, now, ops, limits>>

Tick ==
  /\ Running /\ now < MaxTime
  /\ now' = now + 1
  /\ UNCHANGED <<tables, cache, file, boot, req, ops, limits>>

Init ==
  /\ users = Empty /\ sessions = Empty /\ cache = Empty
  /\ file = FALSE
  /\ \E env \in SUBSET {Admin, Guest} : boot = Starting(env, FALSE)
  /\ req = [p \in Slots |-> None]
  /\ now = 0 /\ ops = 0 /\ crashes = 0
  /\ faults \in FaultSets

Next ==
  \/ BootAdmin \/ BootGuest \/ BootFile \/ Crash \/ Tidy \/ Tick
  \/ \E user \in Users : Register(user)
  \/ \E t \in DOMAIN sessions : Logout(t) \/ Visit(t)
  \/ \E p \in Slots :
       \/ \E user \in Users : Login(p, user) \/ DavVerify(p, user)
       \/ \E t \in DOMAIN sessions : ChangeOpen(p, t)
       \/ \E t \in DOMAIN sessions, user \in Users : ResetOpen(p, t, user)
       \/ LoginSession(p) \/ DavRemember(p)
       \/ ChangeVerify(p) \/ ChangeCommit(p) \/ ChangeInvalidate(p) \/ ChangeSession(p)
       \/ ResetCommit(p) \/ ResetInvalidate(p) \/ Abort(p)

Spec == Init /\ [][Next]_vars

------------------------------------------------------------------------------
(* Properties.                                                             *)

Within(kinds) == faults \subseteq kinds

\* Accounts are numbered from their first password; every session, cached credential
\* and request is of an account, and stems from a password that it has or had.
TypeOK ==
  /\ DOMAIN users \subseteq Users
  /\ \A u \in DOMAIN users : users[u].pw \in Nat \ {0} /\ users[u].must \in BOOLEAN
  /\ DOMAIN sessions \subseteq 1..ops
  /\ \A t \in DOMAIN sessions :
       /\ sessions[t].user \in DOMAIN users /\ sessions[t].pw \in 1..users[sessions[t].user].pw
       /\ sessions[t].active \in 0..sessions[t].used /\ sessions[t].used \in 0..now
  /\ DOMAIN cache \subseteq DOMAIN users
  /\ \A u \in DOMAIN cache : cache[u].pw \in 1..users[u].pw /\ cache[u].at \in 0..now
  /\ file \in BOOLEAN
  /\ \A p \in Slots : req[p] # None =>
       /\ Running /\ req[p].user \in DOMAIN users
       /\ req[p].pw \in 1..users[req[p].user].pw

\* While nobody is between the commit of a new password of the account and the
\* invalidation of the cache, neither a session nor the WebDAV cache lets in someone
\* who came with an old one.  (handlers/auth.rs:536, 571, admin.rs:216, dav/auth.rs:32)
OldPasswordIsOut ==
  Within({"dberror"}) =>
    \A u \in DOMAIN users :
      (\A p \in Slots : ~(req[p] # None /\ req[p].user = u /\ req[p].stage \in {"invalidate", "drop"}))
      => /\ \A t \in DOMAIN sessions : sessions[t].user = u => sessions[t].pw = users[u].pw
         /\ \A old \in 1..users[u].pw - 1 : ~DavCached(u, old)

\* A session that was let in within the idle timeout less the refresh interval is not
\* ended by either gate, nor removed by the clean-up of the start or of the hourly task,
\* although last_active_at is written only every five minutes.  (core/auth.rs:199)
InUse(t) ==
  now < sessions[t].expires /\ now - sessions[t].used <= IdleTime - RefreshTime

SessionInUseIsKept ==
  [][~("dberror" \in faults) =>
       \A t \in DOMAIN sessions : InUse(t) =>
         /\ Alive(sessions[t])
         /\ \/ t \in DOMAIN sessions'
            \/ Logout(t)
            \/ users'[sessions[t].user].pw # users[sessions[t].user].pw]_vars

\* "The generated password is in credentials.txt, which the first login removes" (the
\* message of db/mod.rs:331): before the first request, the file is there for every
\* account with a generated password.
GeneratedPasswordIsReadable ==
  Running /\ ops = 0 /\ (\E u \in DOMAIN users : users[u].must) => file
=============================================================================
