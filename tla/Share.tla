------------------------------- MODULE Share -------------------------------
(***************************************************************************)
(* Public shares (handlers/share.rs) behind the rate limiter that all      *)
(* public endpoints have in common (handlers/rate_limit.rs).               *)
(*                                                                         *)
(* A share has a password or not.  Its page, given the password, hands out *)
(* a download token that access_share takes once in place of the password; *)
(* access_share and share_subfile take the password as well.  Wrong        *)
(* passwords of a client for a share lock that pair for a while.           *)
(*                                                                         *)
(* The map of the limiter, that of the failures and the process live       *)
(* together: no restart here.  What is delivered, download_count and the   *)
(* audit log are left out: nothing here reads them.                        *)
(***************************************************************************)
EXTENDS Integers, FiniteSets, Functions

CONSTANTS
  Clients,      \* addresses of clients, the keys of the limiter
  Shares,       \* share codes
  Slots,        \* requests that run at once
  Others,       \* the other endpoints behind the limiter
  Limit,        \* Limit[e]: max_attempts of endpoint e
  Window,       \* Window[e]: its window
  MaxEntries,   \* MAX_RATE_LIMIT_ENTRIES
  PurgeTime,    \* RATE_LIMIT_CLEANUP_AGE_SECS
  MaxFailures,  \* SHARE_MAX_FAILURES
  LockTime,     \* SHARE_LOCKOUT_SECS
  TokenTime,    \* 30 minutes
  Lifetimes,    \* values of expire_hours
  MaxTime,      \* bound of the model on the clock
  MaxOps,       \* bound of the model on requests once there is a share
  MaxBare,      \* bound of the model on requests before
  FaultSets,    \* the sets of circumstances a behaviour may meet
  None          \* no request, no token, no expiry

Endpoints  == {"access", "page", "subfile"} \cup Others
FaultKinds == {"overlap", "dberror"}

ASSUME ShareAssumption ==
  /\ Limit \in [Endpoints -> Nat \ {0}] /\ Window \in [Endpoints -> Nat]
  /\ {MaxEntries, PurgeTime, LockTime, TokenTime, MaxTime, MaxOps, MaxBare} \subseteq Nat
  /\ MaxFailures \in Nat \ {0} /\ IsFiniteSet(Slots)
  /\ Lifetimes \subseteq Nat \cup {None} /\ None \notin Nat
  /\ FaultSets \subseteq SUBSET FaultKinds

VARIABLES
  rate,    \* RATE_LIMITER: attempts of a client, since when, and the window of the entry
  fails,   \* SHARE_FAILED: wrong passwords of a client for a share, and since when
  shares,  \* table shares: has_password and expires_at
  tokens,  \* table share_tokens
  req,     \* req[p]: the request in slot p
  now,     \* the clock
  ops,     \* admitted requests so far
  hits,    \* for the properties: who was admitted where, and when
  served,  \* for the properties: how often each token that was issued has served
  faults   \* the circumstances that may occur

asked == <<now, ops, hits>>
vars  == <<rate, fails, shares, tokens, req, now, ops, hits, served, faults>>

------------------------------------------------------------------------------
Empty        == << >>
Put(f, k, v) == [i \in DOMAIN f \cup {k} |-> IF i = k THEN v ELSE f[i]]
Keep(f, P)   == Restrict(f, P)
Drop(f, k)   == Keep(f, DOMAIN f \ {k})
Lesser(a, b) == IF a < b THEN a ELSE b

At(p, stage)   == req[p] # None /\ req[p].stage = stage
Step(p, stage) == req' = [req EXCEPT ![p].stage = stage]
Done(p)        == req' = [req EXCEPT ![p] = None]

Since(e) == now - e.since

------------------------------------------------------------------------------
(* The limiter.                                                            *)

\* Mutant of WithRoom: the entries of others make room.
WithRoomEvicting(client) ==
  IF client \notin DOMAIN rate /\ Cardinality(DOMAIN rate) >= MaxEntries THEN Empty ELSE rate

\* A new client meets a full map: entries whose own window is over make room.
WithRoom(client) ==
  IF client \notin DOMAIN rate /\ Cardinality(DOMAIN rate) >= MaxEntries
    THEN Keep(rate, {c \in DOMAIN rate : Since(rate[c]) <= rate[c].window})
    ELSE rate

Counting(client) == client \in DOMAIN rate /\ Since(rate[client]) <= rate[client].window

\* Mutant of Refused: a full map takes new clients.
RefusedByCount(client, endpoint) ==
  Counting(client) /\ rate[client].n >= Limit[endpoint]

Refused(client, endpoint) ==
  \/ client \notin DOMAIN rate /\ Cardinality(DOMAIN WithRoom(client)) >= MaxEntries
  \/ Counting(client) /\ rate[client].n >= Limit[endpoint]

\* check_rate_limit, the request being admitted.  The window of an entry is that of the
\* endpoint that opened it; its count is of all endpoints.
Admit(client, endpoint) ==
  /\ ops < (IF shares = Empty THEN MaxBare ELSE MaxOps)
  /\ ~Refused(client, endpoint)
  /\ rate' = Put(WithRoom(client), client,
               IF Counting(client)
                 THEN [rate[client] EXCEPT !.n = @ + 1]
                 ELSE [n |-> 1, since |-> now, window |-> Window[endpoint]])
  /\ ops' = ops + 1
  /\ hits' = Put(hits, ops + 1, [client |-> client, endpoint |-> endpoint, at |-> now])

\* 429: only the map may have become smaller.
TurnAway(client, endpoint) ==
  /\ Refused(client, endpoint)
  /\ rate' = WithRoom(client)
  /\ UNCHANGED <<fails, shares, tokens, req, asked, served, faults>>

\* A request to login, register or WebDAV, or one that finds no share or an expired page.
OtherRequest(client, endpoint) ==
  /\ Admit(client, endpoint)
  /\ UNCHANGED <<fails, shares, tokens, req, now, served, faults>>

\* clean_expired_entries: the own window or PurgeTime, whichever is shorter (windows
\* are no shorter than its least cutoff, and the map is never twice too large: TypeOK).
PurgeRate ==
  /\ rate' = Keep(rate, {c \in DOMAIN rate : Since(rate[c]) <= Lesser(rate[c].window, PurgeTime)})
  /\ UNCHANGED <<fails, shares, tokens, req, asked, served, faults>>

------------------------------------------------------------------------------
(* Shares.                                                                 *)

\* create_share; a code is a UUID and never used again.
CreateShare(s, password, lifetime) ==
  /\ s \notin DOMAIN shares
  /\ shares' = Put(shares, s, [password |-> password, there |-> TRUE,
                               expires |-> IF lifetime = None THEN None ELSE now + lifetime])
  /\ UNCHANGED <<rate, fails, tokens, req, asked, served, faults>>

\* delete_share; its tokens stay until access_share or never.
DeleteShare(s) ==
  /\ s \in DOMAIN shares /\ shares[s].there
  /\ shares' = [shares EXCEPT ![s].there = FALSE]
  /\ UNCHANGED <<rate, fails, tokens, req, asked, served, faults>>

Expired(s) == shares[s].expires # None /\ now > shares[s].expires

\* The row of the share is read; the page looks at the expiry at once.
Ask(p, endpoint, client, s, token, right) ==
  /\ req[p] = None
  /\ s \in DOMAIN shares /\ shares[s].there
  /\ endpoint = "page" => ~Expired(s)
  /\ Admit(client, endpoint)
  /\ req' = [req EXCEPT ![p] =
       [stage |-> IF token = None THEN "lock" ELSE "token", endpoint |-> endpoint,
        client |-> client, share |-> s, token |-> token, right |-> right /\ shares[s].password, used |-> FALSE]]
  /\ UNCHANGED <<fails, shares, tokens, now, served, faults>>

AccessShare(p, client, s, token, right) == Ask(p, "access", client, s, token, right)
SharePage(p, client, s, right)          == Ask(p, "page", client, s, None, right)
ShareSubfile(p, client, s, right)       == Ask(p, "subfile", client, s, None, right)

\* The tokens of the share that have run out go.
Unexpired(ts, s) == Keep(ts, {t \in DOMAIN ts : ts[t].share # s \/ ts[t].expires >= now})

\* SELECT COUNT(*); an unknown token falls back to the password.
TokenLook(p) ==
  /\ At(p, "token")
  /\ LET r     == req[p]
         valid == /\ r.token \in DOMAIN tokens
                  /\ tokens[r.token].share = r.share /\ tokens[r.token].expires > now
         raced == \E q \in Slots : At(q, "take") /\ req[q].token = r.token
     IN /\ valid /\ raced => "overlap" \in faults
        /\ Step(p, IF valid THEN "take" ELSE "lock")
        /\ tokens' = IF valid THEN tokens ELSE Unexpired(tokens, r.share)
  /\ UNCHANGED <<rate, fails, shares, asked, served, faults>>

\* Mutant of TokenTake: only tokens that have run out go.
TokenTakeKeeping(p) ==
  /\ At(p, "take")
  /\ tokens' = Unexpired(tokens, req[p].share)
  /\ req' = [req EXCEPT ![p].stage = "serve", ![p].used = TRUE]
  /\ UNCHANGED <<rate, fails, shares, asked, served, faults>>

\* DELETE FROM share_tokens; its failure is ignored.
TokenTake(p) ==
  /\ At(p, "take")
  /\ \/ tokens' = Unexpired(Drop(tokens, req[p].token), req[p].share)
     \/ "dberror" \in faults /\ tokens' = Unexpired(tokens, req[p].share)
  /\ req' = [req EXCEPT ![p].stage = "serve", ![p].used = TRUE]
  /\ UNCHANGED <<rate, fails, shares, asked, served, faults>>

Key(p) == <<req[p].client, req[p].share>>

\* Mutant of Locked: nobody is locked out.
LockedNever(k) == FALSE

\* share_check_locked
Locked(k) == k \in DOMAIN fails /\ fails[k].n >= MaxFailures /\ Since(fails[k]) < LockTime

CheckLocked(p) ==
  /\ At(p, "lock")
  /\ IF ~shares[req[p].share].password THEN Step(p, "serve")
     ELSE IF Locked(Key(p)) THEN Done(p) ELSE Step(p, "answer")
  /\ UNCHANGED <<rate, fails, shares, tokens, asked, served, faults>>

\* share_record_failure: the count starts anew LockTime after its first failure.
Failed(k) ==
  IF k \in DOMAIN fails /\ Since(fails[k]) < LockTime
    THEN [fails[k] EXCEPT !.n = @ + 1]
    ELSE [n |-> 1, since |-> now]

\* The answer of Argon2.
AnswerWrong(p) ==
  /\ At(p, "answer") /\ ~req[p].right
  /\ fails' = Put(fails, Key(p), Failed(Key(p)))
  /\ Done(p)
  /\ UNCHANGED <<rate, shares, tokens, asked, served, faults>>

AnswerRight(p) ==
  /\ At(p, "answer") /\ req[p].right
  /\ fails' = Drop(fails, Key(p))
  /\ Step(p, "serve")
  /\ UNCHANGED <<rate, shares, tokens, asked, served, faults>>

\* access_share and share_subfile look at the expiry they read, and deliver.
Deliver(p) ==
  /\ At(p, "serve") /\ req[p].endpoint # "page"
  /\ served' = IF req[p].used /\ ~Expired(req[p].share)
                 THEN [served EXCEPT ![req[p].token] = @ + 1] ELSE served
  /\ Done(p)
  /\ UNCHANGED <<rate, fails, shares, tokens, asked, faults>>

\* issue_share_token, unless there is no password or the INSERT fails.
DeliverPage(p) ==
  /\ At(p, "serve") /\ req[p].endpoint = "page"
  /\ LET token == Cardinality(DOMAIN served) + 1
         s     == req[p].share
     IN \/ /\ shares[s].password
           /\ tokens' = Put(tokens, token, [share |-> s, expires |-> now + TokenTime])
           /\ served' = Put(served, token, 0)
        \/ /\ shares[s].password => "dberror" \in faults
           /\ UNCHANGED <<tokens, served>>
  /\ Done(p)
  /\ UNCHANGED <<rate, fails, shares, asked, faults>>

Tick ==
  /\ now < MaxTime
  /\ now' = now + 1
  /\ UNCHANGED <<rate, fails, shares, tokens, req, ops, hits, served, faults>>

Init ==
  /\ rate = Empty /\ fails = Empty /\ shares = Empty /\ tokens = Empty
  /\ req = [p \in Slots |-> None]
  /\ now = 0 /\ ops = 0 /\ hits = Empty /\ served = Empty
  /\ faults \in FaultSets

Next ==
  \/ Tick \/ PurgeRate
  \/ \E client \in Clients :
       \E e \in Endpoints : TurnAway(client, e) \/ OtherRequest(client, e)
  \/ \E s \in Shares :
       \/ \E password \in BOOLEAN, lifetime \in Lifetimes : CreateShare(s, password, lifetime)
       \/ DeleteShare(s)
  \/ \E p \in Slots :
       \/ \E client \in Clients, s \in Shares, right \in BOOLEAN :
            \/ \E token \in {None} \cup DOMAIN served : AccessShare(p, client, s, token, right)
            \/ SharePage(p, client, s, right) \/ ShareSubfile(p, client, s, right)
       \/ TokenLook(p) \/ TokenTake(p)
       \/ CheckLocked(p) \/ AnswerWrong(p) \/ AnswerRight(p)
       \/ Deliver(p) \/ DeliverPage(p)

Spec == Init /\ [][Next]_vars

------------------------------------------------------------------------------
(* Properties.                                                             *)

\* The limiter has no more entries than it may, and no entry counts beyond the largest
\* limit; what counts, locks or waits belongs to a client and a share there are.
TypeOK ==
  /\ DOMAIN rate \subseteq Clients /\ Cardinality(DOMAIN rate) <= MaxEntries
  /\ \A c \in DOMAIN rate :
       /\ rate[c].since \in 0..now /\ rate[c].window \in Range(Window)
       /\ \E e \in Endpoints : rate[c].n \in 1..Limit[e]
  /\ DOMAIN shares \subseteq Shares
  /\ DOMAIN fails \subseteq Clients \X DOMAIN shares
  /\ \A k \in DOMAIN fails : fails[k].n \in Nat \ {0} /\ fails[k].since \in 0..now
  /\ DOMAIN tokens \subseteq DOMAIN served
  /\ \A t \in DOMAIN tokens : tokens[t].share \in DOMAIN shares
  /\ \A p \in Slots : req[p] # None => req[p].share \in DOMAIN shares

\* An endpoint whose window is the shortest of all, and not longer than the purge, lets
\* in at most twice its limit of one client within a window: whatever the client asked of
\* the other endpoints, and whoever else fills the map.  (The windows are fixed, not
\* sliding, hence twice.)  (rate_limit.rs:23)
LimitHolds ==
  \A c \in Clients, e \in Endpoints :
    (Window[e] <= PurgeTime /\ \A f \in Endpoints : Window[e] <= Window[f]) =>
      LET recent == {i \in DOMAIN hits : /\ hits[i].client = c /\ hits[i].endpoint = e
                                         /\ now - hits[i].at <= Window[e]}
      IN Cardinality(recent) <= 2 * Limit[e]

\* The lock is tested before Argon2 runs and set after it: no more than the requests that
\* run at once can pass the test before the lock, so that a client tries at most
\* MaxFailures + |Slots| - 1 passwords of a share before it is locked out.  (share.rs:31)
GuessesAreBounded ==
  \A k \in DOMAIN fails : fails[k].n <= MaxFailures + Cardinality(Slots) - 1

\* A download token serves once, and only for its share, even if it is sent again.
\* Two requests that both count it before either deletes it ("overlap"), or a DELETE that
\* fails ("dberror"), break that.  (share.rs:214)
TokenServesOnce == faults = {} => \A t \in DOMAIN served : served[t] <= 1
=============================================================================
