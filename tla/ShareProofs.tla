---------------------------- MODULE ShareProofs -----------------------------
(***************************************************************************)
(* Proofs about Share, for any clients, shares, requests and limits.       *)
(*                                                                         *)
(* ServedOnce: unless two requests overlap on a token or a DELETE fails, a *)
(* request that takes a token is the only one that holds it, and a token   *)
(* that is still in the table has not served (OneUse).                     *)
(*                                                                         *)
(* GuessesBounded: while the count of a client and a share is fresh, the   *)
(* wrong passwords counted and those still at Argon2 stay together within  *)
(* the bound (Counted); a count that is too old only ever starts anew.     *)
(*                                                                         *)
(* TypeCorrect: with RateInv, the map of the limiter never overflows.      *)
(*                                                                         *)
(* LimitsHold: of the hits of a client at an endpoint only those that its  *)
(* present entry counts and those of the entry before can still be recent; *)
(* each of the two is within the limit (RoundsAre).                        *)
(***************************************************************************)
EXTENDS Share, FiniteSetTheorems, TLAPS

Stages == {"token", "take", "lock", "answer", "serve"}

Request ==
  [stage : Stages, endpoint : Endpoints, client : Clients, share : Shares,
   token : {None} \cup Nat, right : BOOLEAN, used : BOOLEAN]

Shape ==
  /\ req = [p \in Slots |-> req[p]]
  /\ \A p \in Slots : req[p] # None => /\ req[p] \in Request
                                       /\ req[p].share \in DOMAIN shares
                                       /\ req[p].used => req[p].stage = "serve"
  /\ DOMAIN shares \subseteq Shares
  /\ now \in Nat

------------------------------------------------------------------------------
(* The invariants.                                                         *)

\* Tokens are numbered in the order in which they are issued.
Issued ==
  /\ \E n \in Nat : served \in [1..n -> Nat]
  /\ DOMAIN tokens \subseteq DOMAIN served
  /\ \A t \in DOMAIN tokens : tokens[t].share \in DOMAIN shares
  /\ \A p \in Slots :
       req[p] # None /\ (req[p].stage = "take" \/ req[p].used) => req[p].token \in DOMAIN served

\* A request counts on token t, and has taken it out of the table.
Holds(p, t) == req[p] # None /\ req[p].token = t /\ (req[p].stage = "take" \/ req[p].used)
Took(p, t)  == req[p] # None /\ req[p].token = t /\ req[p].used

OneUse ==
  /\ \A t \in DOMAIN served : served[t] <= 1
  /\ \A p \in Slots, t \in DOMAIN served : Holds(p, t) => served[t] = 0
  /\ \A p, q \in Slots, t \in DOMAIN served : Holds(p, t) /\ Holds(q, t) => p = q
  /\ \A t \in DOMAIN tokens : served[t] = 0 /\ \A p \in Slots : ~Took(p, t)

TokenInv == Shape /\ Issued /\ (faults = {} => OneUse)

\* The requests at Argon2 for one client and one share.
Answering(k) == {p \in Slots : At(p, "answer") /\ Key(p) = k}
Bound        == MaxFailures + Cardinality(Slots) - 1

FailShape ==
  /\ DOMAIN fails \subseteq Clients \X DOMAIN shares
  /\ \A k \in DOMAIN fails : fails[k] \in [n : Nat \ {0}, since : 0..now]

Counted ==
  \A k \in DOMAIN fails :
    /\ fails[k].n <= Bound
    /\ Since(fails[k]) < LockTime => fails[k].n + Cardinality(Answering(k)) <= Bound

GuessInv == Shape /\ FailShape /\ Counted

RateInv ==
  /\ now \in Nat
  /\ DOMAIN rate \subseteq Clients
  /\ IsFiniteSet(DOMAIN rate) /\ Cardinality(DOMAIN rate) <= MaxEntries
  /\ \A c \in DOMAIN rate :
       /\ rate[c] \in [n : Nat \ {0}, since : 0..now, window : Range(Window)]
       /\ \E e \in Endpoints : rate[c].n <= Limit[e]

------------------------------------------------------------------------------
(* Functions with one more or fewer entries                                *)

LEMMA PutFacts ==
  ASSUME NEW f, NEW k, NEW v
  PROVE  /\ DOMAIN Put(f, k, v) = DOMAIN f \cup {k}
         /\ Put(f, k, v)[k] = v
         /\ \A i \in DOMAIN f \ {k} : Put(f, k, v)[i] = f[i]
  BY DEF Put

LEMMA UnexpiredFacts ==
  ASSUME NEW ts, NEW s
  PROVE  /\ DOMAIN Unexpired(ts, s) \subseteq DOMAIN ts
         /\ \A t \in DOMAIN Unexpired(ts, s) : Unexpired(ts, s)[t] = ts[t]
  BY DEF Unexpired, Keep, Restrict

LEMMA EmptyFacts == DOMAIN Empty = {}
  BY DEF Empty

\* Steps of a request change its slot only, and only its stage.
LEMMA StepFacts ==
  ASSUME Shape, NEW p \in Slots, NEW stage \in Stages, req[p] # None, Step(p, stage)
  PROVE  /\ req' = [q \in Slots |-> req'[q]]
         /\ \A q \in Slots \ {p} : req'[q] = req[q]
         /\ req'[p] = [req[p] EXCEPT !.stage = stage]
         /\ req'[p] \in Request
         /\ req'[p].stage = stage
         /\ req'[p].share = req[p].share /\ req'[p].token = req[p].token
         /\ req'[p].used = req[p].used /\ req'[p].client = req[p].client
<1>1. req = [q \in Slots |-> req[q]] /\ req[p] \in Request
  BY DEF Shape
<1>2. req' = [req EXCEPT ![p] = [req[p] EXCEPT !.stage = stage]]
  BY DEF Step
<1>3. req' = [q \in Slots |-> IF q = p THEN [req[p] EXCEPT !.stage = stage] ELSE req[q]]
  BY <1>1, <1>2, Zenon
<1>4. [req[p] EXCEPT !.stage = stage] \in Request
  BY <1>1 DEF Request
<1>5. req'[p] = [req[p] EXCEPT !.stage = stage] /\ \A q \in Slots \ {p} : req'[q] = req[q]
  BY <1>3
<1>6. req' = [q \in Slots |-> req'[q]]
  BY <1>3
<1> QED BY <1>1, <1>4, <1>5, <1>6 DEF Request

LEMMA DoneFacts ==
  ASSUME Shape, NEW p \in Slots, Done(p)
  PROVE  /\ req' = [q \in Slots |-> req'[q]]
         /\ \A q \in Slots \ {p} : req'[q] = req[q]
         /\ req'[p] = None
<1>1. req' = [q \in Slots |-> IF q = p THEN None ELSE req[q]]
  BY DEF Done, Shape
<1> QED BY <1>1

------------------------------------------------------------------------------
(* Shape                                                                   *)

\* A new request has used no token yet.
LEMMA AskFacts ==
  ASSUME Shape, NEW p \in Slots, NEW endpoint \in Endpoints, NEW client \in Clients,
         NEW s \in Shares, NEW token \in {None} \cup DOMAIN served, DOMAIN served \subseteq Nat,
         NEW right \in BOOLEAN, Ask(p, endpoint, client, s, token, right)
  PROVE  /\ req' = [q \in Slots |-> req'[q]]
         /\ \A q \in Slots \ {p} : req'[q] = req[q]
         /\ req'[p] \in Request /\ req'[p].share \in DOMAIN shares
         /\ ~req'[p].used /\ req'[p].stage \in {"lock", "token"}
<1> DEFINE new == [stage |-> IF token = None THEN "lock" ELSE "token", endpoint |-> endpoint,
                   client |-> client, share |-> s, token |-> token,
                   right |-> right /\ shares[s].password, used |-> FALSE]
<1>1. req' = [q \in Slots |-> IF q = p THEN new ELSE req[q]]
  BY DEF Ask, Shape
<1>2. req'[p] = new /\ \A q \in Slots \ {p} : req'[q] = req[q]
  BY <1>1
<1>3. s \in DOMAIN shares
  BY DEF Ask
<1>4. (right /\ shares[s].password) \in BOOLEAN
  OBVIOUS
<1>5. new \in Request
  BY <1>4 DEF Request, Stages
<1> HIDE DEF new
<1>6. new.share = s /\ ~new.used /\ new.stage \in {"lock", "token"}
  BY DEF new
<1>7. req' = [q \in Slots |-> req'[q]]
  BY <1>1
<1> QED BY <1>2, <1>3, <1>5, <1>6, <1>7

LEMMA TakeFacts ==
  ASSUME Shape, NEW p \in Slots, TokenTake(p)
  PROVE  /\ req' = [q \in Slots |-> req'[q]]
         /\ \A q \in Slots \ {p} : req'[q] = req[q]
         /\ req'[p] \in Request /\ req'[p].share = req[p].share
         /\ req'[p].token = req[p].token /\ req'[p].used /\ req'[p].stage = "serve"
<1>1. req = [q \in Slots |-> req[q]] /\ req[p] \in Request
  BY DEF Shape, TokenTake, At
<1> DEFINE new == [req[p] EXCEPT !.stage = "serve", !.used = TRUE]
<1>2. req' = [req EXCEPT ![p].stage = "serve", ![p].used = TRUE]
  BY DEF TokenTake
<1>3. req' = [q \in Slots |-> IF q = p THEN new ELSE req[q]]
  BY <1>1, <1>2
<1>4. new \in Request /\ new.share = req[p].share /\ new.token = req[p].token
      /\ new.used = TRUE /\ new.stage = "serve"
  BY <1>1 DEF Request, Stages
<1> HIDE DEF new
<1>5. req'[p] = new /\ \A q \in Slots \ {p} : req'[q] = req[q]
  BY <1>3
<1>6. req' = [q \in Slots |-> req'[q]]
  BY <1>3
<1> QED BY <1>4, <1>5, <1>6

\* Shape survives when one slot changes to a request that is well formed, or becomes free.
LEMMA OneSlotChanges ==
  ASSUME Shape, NEW p \in Slots,
         req' = [q \in Slots |-> req'[q]],
         \A q \in Slots \ {p} : req'[q] = req[q],
         req'[p] # None => /\ req'[p] \in Request /\ req'[p].share \in DOMAIN shares
                           /\ req'[p].used => req'[p].stage = "serve",
         shares' = shares, now' = now
  PROVE  Shape'
  BY DEF Shape

\* The steps that leave requests, tokens and failures alone.
Aside ==
  \/ Tick \/ PurgeRate
  \/ \E client \in Clients, e \in Endpoints : TurnAway(client, e) \/ OtherRequest(client, e)
  \/ \E s \in Shares :
       \/ \E password \in BOOLEAN, lifetime \in Lifetimes : CreateShare(s, password, lifetime)
       \/ DeleteShare(s)

LEMMA AsideFacts ==
  ASSUME Shape, Aside
  PROVE  /\ UNCHANGED <<fails, tokens, req, served, faults>>
         /\ DOMAIN shares \subseteq DOMAIN shares' /\ DOMAIN shares' \subseteq Shares
         /\ now' \in Nat /\ now <= now'
<1>0. DOMAIN shares \subseteq Shares /\ now \in Nat
  BY DEF Shape
<1>1. CASE Tick
  BY <1>0, <1>1 DEF Tick
<1>2. CASE PurgeRate
  BY <1>0, <1>2 DEF PurgeRate, asked
<1>3. CASE \E client \in Clients, e \in Endpoints : TurnAway(client, e) \/ OtherRequest(client, e)
  BY <1>0, <1>3 DEF TurnAway, OtherRequest, asked
<1>4. ASSUME NEW s \in Shares, NEW password, NEW lifetime, CreateShare(s, password, lifetime)
      PROVE  /\ UNCHANGED <<fails, tokens, req, served, faults>> /\ now' = now
             /\ DOMAIN shares' = DOMAIN shares \cup {s}
  BY <1>4, PutFacts DEF CreateShare, asked
<1>5. ASSUME NEW s \in Shares, DeleteShare(s)
      PROVE  /\ UNCHANGED <<fails, tokens, req, served, faults>> /\ now' = now
             /\ DOMAIN shares' = DOMAIN shares
  BY <1>5 DEF DeleteShare, asked
<1>6. CASE \E s \in Shares :
             \/ \E password \in BOOLEAN, lifetime \in Lifetimes : CreateShare(s, password, lifetime)
             \/ DeleteShare(s)
  <2>1. PICK s \in Shares :
          \/ \E password \in BOOLEAN, lifetime \in Lifetimes : CreateShare(s, password, lifetime)
          \/ DeleteShare(s)
    BY <1>6
  <2>2. CASE DeleteShare(s)
    BY <1>0, <1>5, <2>2
  <2>3. CASE \E password \in BOOLEAN, lifetime \in Lifetimes : CreateShare(s, password, lifetime)
    <3>1. PICK password \in BOOLEAN, lifetime \in Lifetimes : CreateShare(s, password, lifetime)
      BY <2>3
    <3>2. UNCHANGED <<fails, tokens, req, served, faults>> /\ now' = now
          /\ DOMAIN shares' = DOMAIN shares \cup {s}
      BY <1>4, <3>1, Zenon
    <3> QED BY <1>0, <3>2
  <2> QED BY <2>1, <2>2, <2>3
<1> QED BY <1>1, <1>2, <1>3, <1>6 DEF Aside

LEMMA AsideKeepsShape ==
  ASSUME Shape, Aside
  PROVE  Shape'
  BY AsideFacts DEF Shape

LEMMA AskKeepsShape ==
  ASSUME Shape, NEW p \in Slots, NEW endpoint \in Endpoints, NEW client \in Clients,
         NEW s \in Shares, NEW token \in {None} \cup DOMAIN served, DOMAIN served \subseteq Nat,
         NEW right \in BOOLEAN, Ask(p, endpoint, client, s, token, right)
  PROVE  Shape'
<1>1. shares' = shares /\ now' = now
  BY DEF Ask
<1> QED BY <1>1, AskFacts, OneSlotChanges

LEMMA TokenLookFacts ==
  ASSUME Shape, NEW p \in Slots, TokenLook(p)
  PROVE  Step(p, "take") \/ Step(p, "lock")
  BY DEF TokenLook

LEMMA CheckLockedFacts ==
  ASSUME NEW p \in Slots, CheckLocked(p)
  PROVE  Done(p) \/ Step(p, "serve") \/ Step(p, "answer")
  BY DEF CheckLocked

\* What a request does after it was let in.
Proceed(p) ==
  \/ TokenLook(p) \/ TokenTake(p)
  \/ CheckLocked(p) \/ AnswerWrong(p) \/ AnswerRight(p)
  \/ Deliver(p) \/ DeliverPage(p)

LEMMA ProceedKeepsShape ==
  ASSUME Shape, NEW p \in Slots, Proceed(p)
  PROVE  Shape'
<1>1. shares' = shares /\ now' = now
  BY DEF Proceed, TokenLook, TokenTake, CheckLocked, AnswerWrong, AnswerRight, Deliver, DeliverPage,
         asked
<1>2. req[p] # None /\ req[p] \in Request /\ req[p].share \in DOMAIN shares
      /\ (req[p].used => req[p].stage = "serve")
  BY DEF Shape, Proceed, TokenLook, TokenTake, CheckLocked, AnswerWrong, AnswerRight, Deliver,
         DeliverPage, At
<1>3. ASSUME Done(p) PROVE Shape'
  BY <1>1, <1>3, DoneFacts, OneSlotChanges
<1>4. ASSUME NEW stage \in Stages, Step(p, stage), req[p].stage # "serve" PROVE Shape'
  BY <1>1, <1>2, <1>4, StepFacts, OneSlotChanges
<1>5. CASE TokenLook(p)
  <2>1. req[p].stage # "serve"
    BY <1>5 DEF TokenLook, At
  <2>2. Step(p, "take") \/ Step(p, "lock")
    BY <1>5, TokenLookFacts
  <2>3. "take" \in Stages /\ "lock" \in Stages
    BY DEF Stages
  <2> QED BY <1>4, <2>1, <2>2, <2>3, Zenon
<1>6. CASE TokenTake(p)
  BY <1>1, <1>2, <1>6, TakeFacts, OneSlotChanges
<1>7. CASE CheckLocked(p)
  <2>1. req[p].stage # "serve"
    BY <1>7 DEF CheckLocked, At
  <2>2. Done(p) \/ Step(p, "serve") \/ Step(p, "answer")
    BY <1>7, CheckLockedFacts
  <2>3. "serve" \in Stages /\ "answer" \in Stages
    BY DEF Stages
  <2> QED BY <1>3, <1>4, <2>1, <2>2, <2>3, Zenon
<1>8. CASE AnswerWrong(p)
  BY <1>3, <1>8 DEF AnswerWrong
<1>9. CASE AnswerRight(p)
  <2>1. req[p].stage # "serve" /\ Step(p, "serve")
    BY <1>9 DEF AnswerRight, At
  <2>2. "serve" \in Stages
    BY DEF Stages
  <2> QED BY <1>4, <2>1, <2>2, Zenon
<1>10. CASE Deliver(p) \/ DeliverPage(p)
  BY <1>3, <1>10 DEF Deliver, DeliverPage
<1> QED BY <1>5, <1>6, <1>7, <1>8, <1>9, <1>10 DEF Proceed

\* A request is let in.
Asking(p) ==
  \E client \in Clients, s \in Shares, right \in BOOLEAN :
    \/ \E token \in {None} \cup DOMAIN served : AccessShare(p, client, s, token, right)
    \/ SharePage(p, client, s, right) \/ ShareSubfile(p, client, s, right)

LEMMA NextCases ==
  ASSUME Next
  PROVE  Aside \/ \E p \in Slots : Asking(p) \/ Proceed(p)
  BY DEF Next, Aside, Asking, Proceed

LEMMA AskingFacts ==
  ASSUME Shape, NEW p \in Slots, DOMAIN served \subseteq Nat, Asking(p)
  PROVE  /\ Shape'
         /\ \A q \in Slots \ {p} : req'[q] = req[q]
         /\ ~req'[p].used /\ req'[p].stage \in {"lock", "token"}
         /\ UNCHANGED <<fails, shares, tokens, now, served, faults>>
<1>1. PICK client \in Clients, s \in Shares, right \in BOOLEAN,
           token \in {None} \cup DOMAIN served, endpoint \in Endpoints :
             Ask(p, endpoint, client, s, token, right)
  BY DEF Asking, AccessShare, SharePage, ShareSubfile, Endpoints
<1>2. UNCHANGED <<fails, shares, tokens, now, served, faults>>
  BY <1>1 DEF Ask
<1>3. Shape'
  BY <1>1, AskKeepsShape
<1>4. /\ \A q \in Slots \ {p} : req'[q] = req[q]
      /\ ~req'[p].used /\ req'[p].stage \in {"lock", "token"}
  BY <1>1, AskFacts
<1> QED BY <1>2, <1>3, <1>4

------------------------------------------------------------------------------
(* Tokens                                                                  *)

LEMMA TokenStart == Init => TokenInv
<1> SUFFICES ASSUME Init PROVE TokenInv
  OBVIOUS
<1>1. DOMAIN shares = {} /\ DOMAIN tokens = {} /\ DOMAIN served = {}
  BY EmptyFacts DEF Init
<1>2. \A p \in Slots : req[p] = None
  BY DEF Init
<1>3. Shape
  BY <1>1, <1>2 DEF Init, Shape
<1>4. served \in [1..0 -> Nat]
  BY DEF Init, Empty
<1>5. Issued
  BY <1>1, <1>2, <1>4 DEF Issued
<1>6. OneUse
  BY <1>1, <1>2 DEF OneUse
<1> QED BY <1>3, <1>5, <1>6 DEF TokenInv

\* A request that holds no token afterwards leaves the claims of the others alone, when
\* tokens may only disappear.
LEMMA NoTokenHeld ==
  ASSUME TokenInv, Shape', NEW p \in Slots,
         \A q \in Slots \ {p} : req'[q] = req[q],
         req'[p] # None => req'[p].stage # "take" /\ ~req'[p].used,
         DOMAIN tokens' \subseteq DOMAIN tokens,
         \A t \in DOMAIN tokens' : tokens'[t] = tokens[t],
         UNCHANGED <<shares, served, faults>>
  PROVE  TokenInv'
<1>1. Issued'
  BY DEF TokenInv, Issued
<1>2. \A q \in Slots, t \in DOMAIN served :
        /\ Holds(q, t)' => q # p /\ Holds(q, t)
        /\ Took(q, t)' => q # p /\ Took(q, t)
  BY DEF Holds, Took
<1>3. ASSUME faults = {} PROVE OneUse'
  <2>1. OneUse /\ DOMAIN tokens \subseteq DOMAIN served
    BY <1>3 DEF TokenInv, Issued
  <2> QED BY <1>2, <2>1 DEF OneUse
<1> QED BY <1>1, <1>3 DEF TokenInv

LEMMA TokenInvAside ==
  ASSUME TokenInv, Aside
  PROVE  TokenInv'
<1>1. Shape'
  BY AsideKeepsShape DEF TokenInv
<1>2. UNCHANGED <<tokens, req, served, faults>> /\ DOMAIN shares \subseteq DOMAIN shares'
  BY AsideFacts DEF TokenInv
<1>3. Issued'
  BY <1>2 DEF TokenInv, Issued
<1>4. faults = {} => OneUse'
  BY <1>2 DEF TokenInv, OneUse, Holds, Took
<1> QED BY <1>1, <1>2, <1>3, <1>4 DEF TokenInv

LEMMA TokensNat ==
  ASSUME TokenInv
  PROVE  DOMAIN served \subseteq Nat
  BY DEF TokenInv, Issued

LEMMA TokenInvAsking ==
  ASSUME TokenInv, NEW p \in Slots, Asking(p)
  PROVE  TokenInv'
<1>1. /\ Shape'
      /\ \A q \in Slots \ {p} : req'[q] = req[q]
      /\ ~req'[p].used /\ req'[p].stage \in {"lock", "token"}
      /\ UNCHANGED <<shares, tokens, served, faults>>
  BY AskingFacts, TokensNat DEF TokenInv
<1> QED BY <1>1, NoTokenHeld

\* The token is there and nobody else is about to take it.
LEMMA TokenInvLook ==
  ASSUME TokenInv, NEW p \in Slots, TokenLook(p)
  PROVE  TokenInv'
<1> DEFINE t == req[p].token
           valid == /\ t \in DOMAIN tokens
                    /\ tokens[t].share = req[p].share /\ tokens[t].expires > now
           raced == \E q \in Slots : At(q, "take") /\ req[q].token = t
<1>1. /\ valid /\ raced => "overlap" \in faults
      /\ Step(p, IF valid THEN "take" ELSE "lock")
      /\ tokens' = IF valid THEN tokens ELSE Unexpired(tokens, req[p].share)
      /\ UNCHANGED <<shares, served, faults>>
  BY DEF TokenLook
<1>2. Shape /\ Shape'
  BY ProceedKeepsShape DEF TokenInv, Proceed
<1>3. req[p] # None /\ req[p].stage = "token" /\ ~req[p].used
  BY <1>2 DEF TokenLook, At, Shape
<1>4. CASE valid
  <2>1. Step(p, "take") /\ tokens' = tokens
    BY <1>1, <1>4
  <2>2. \A q \in Slots \ {p} : req'[q] = req[q]
    BY <1>2, <1>3, <2>1, StepFacts DEF Stages
  <2>3. req'[p].stage = "take" /\ req'[p].token = t /\ req'[p].used = req[p].used
    BY <1>2, <1>3, <2>1, StepFacts DEF Stages
  <2>4. t \in DOMAIN served
    BY <1>4 DEF TokenInv, Issued
  <2>5. Issued'
    BY <1>1, <2>1, <2>2, <2>3, <2>4 DEF TokenInv, Issued
  <2>6. ASSUME faults = {} PROVE OneUse'
    <3>1. OneUse /\ ~raced
      BY <1>1, <1>4, <2>6 DEF TokenInv
    <3>2. served[t] = 0 /\ \A q \in Slots : ~Holds(q, t)
      BY <1>4, <3>1 DEF OneUse, Holds, Took, At
    <3>3. \A q \in Slots, u \in DOMAIN served : Holds(q, u)' => Holds(q, u) \/ (q = p /\ u = t)
      BY <2>2, <2>3 DEF Holds
    <3>4. \A q \in Slots, u \in DOMAIN served : Took(q, u)' => Took(q, u)
      BY <1>3, <2>2, <2>3 DEF Took
    <3>5. \A q, r \in Slots, u \in DOMAIN served : Holds(q, u)' /\ Holds(r, u)' => q = r
      BY <3>1, <3>2, <3>3 DEF OneUse
    <3>6. \A q \in Slots, u \in DOMAIN served : Holds(q, u)' => served[u] = 0
      BY <3>1, <3>2, <3>3 DEF OneUse
    <3>7. \A u \in DOMAIN tokens : served[u] = 0 /\ \A q \in Slots : ~Took(q, u)'
      BY <3>1, <3>4 DEF OneUse, TokenInv, Issued
    <3> QED BY <1>1, <2>1, <3>1, <3>5, <3>6, <3>7 DEF OneUse
  <2> QED BY <1>1, <1>2, <2>5, <2>6 DEF TokenInv
<1>5. CASE ~valid
  <2>1. Step(p, "lock") /\ tokens' = Unexpired(tokens, req[p].share)
    BY <1>1, <1>5
  <2>2. \A q \in Slots \ {p} : req'[q] = req[q]
    BY <1>2, <1>3, <2>1, StepFacts DEF Stages
  <2>3. req'[p].stage = "lock" /\ req'[p].used = req[p].used
    BY <1>2, <1>3, <2>1, StepFacts DEF Stages
  <2> QED BY <1>1, <1>2, <1>3, <2>1, <2>2, <2>3, UnexpiredFacts, NoTokenHeld
<1> QED BY <1>4, <1>5

\* The DELETE takes the token out of the table, unless it fails.
LEMMA TokenInvTake ==
  ASSUME TokenInv, NEW p \in Slots, TokenTake(p)
  PROVE  TokenInv'
<1> DEFINE t == req[p].token
<1>1. Shape /\ Shape'
  BY ProceedKeepsShape DEF TokenInv, Proceed
<1>2. /\ \A q \in Slots \ {p} : req'[q] = req[q]
      /\ req'[p].token = t /\ req'[p].used
  BY <1>1, TakeFacts
<1>3. req[p] # None /\ req[p].stage = "take"
  BY DEF TokenTake, At
<1>4. UNCHANGED <<shares, served, faults>>
  BY DEF TokenTake, asked
<1>5. /\ DOMAIN tokens' \subseteq DOMAIN tokens
      /\ \A u \in DOMAIN tokens' : tokens'[u] = tokens[u]
      /\ "dberror" \notin faults => t \notin DOMAIN tokens'
  <2>1. CASE tokens' = Unexpired(Drop(tokens, t), req[p].share)
    BY <2>1 DEF Unexpired, Drop, Keep, Restrict
  <2>2. CASE "dberror" \in faults /\ tokens' = Unexpired(tokens, req[p].share)
    BY <2>2, UnexpiredFacts
  <2> QED BY <2>1, <2>2 DEF TokenTake
<1>6. t \in DOMAIN served
  BY <1>3 DEF TokenInv, Issued
<1>7. Issued'
  BY <1>2, <1>4, <1>5, <1>6 DEF TokenInv, Issued
<1>8. ASSUME faults = {} PROVE OneUse'
  <2>1. OneUse /\ Holds(p, t) /\ t \notin DOMAIN tokens'
    BY <1>3, <1>5, <1>8 DEF TokenInv, Holds
  <2>2. \A q \in Slots, u \in DOMAIN served : Holds(q, u)' => Holds(q, u)
    BY <1>2, <2>1 DEF Holds
  <2>3. \A q \in Slots, u \in DOMAIN served : Took(q, u)' => Took(q, u) \/ u = t
    BY <1>2 DEF Took
  <2>4. \A q, r \in Slots, u \in DOMAIN served : Holds(q, u)' /\ Holds(r, u)' => q = r
    BY <2>1, <2>2 DEF OneUse
  <2>5. \A q \in Slots, u \in DOMAIN served : Holds(q, u)' => served[u] = 0
    BY <2>1, <2>2 DEF OneUse
  <2>6. \A u \in DOMAIN tokens' : served[u] = 0 /\ \A q \in Slots : ~Took(q, u)'
    BY <1>5, <2>1, <2>3 DEF OneUse, TokenInv, Issued
  <2> QED BY <1>4, <2>1, <2>4, <2>5, <2>6 DEF OneUse
<1> QED BY <1>1, <1>4, <1>7, <1>8 DEF TokenInv

\* Requests that ask for a password hold no token.
LEMMA TokenInvPassword ==
  ASSUME TokenInv, NEW p \in Slots, CheckLocked(p) \/ AnswerWrong(p) \/ AnswerRight(p)
  PROVE  TokenInv'
<1>1. Shape /\ Shape'
  BY ProceedKeepsShape DEF TokenInv, Proceed
<1>2. UNCHANGED <<shares, tokens, served, faults>>
  BY DEF CheckLocked, AnswerWrong, AnswerRight, asked
<1>3. req[p] # None /\ req[p].stage # "serve"
  BY DEF CheckLocked, AnswerWrong, AnswerRight, At
<1>4. ~req[p].used
  BY <1>1, <1>3 DEF Shape
<1>5. ASSUME NEW stage \in Stages, stage # "take", Step(p, stage) PROVE TokenInv'
  <2>1. /\ \A q \in Slots \ {p} : req'[q] = req[q]
        /\ req'[p].stage = stage /\ req'[p].used = req[p].used
    BY <1>1, <1>3, <1>5, StepFacts
  <2> QED BY <1>1, <1>2, <1>4, <1>5, <2>1, NoTokenHeld
<1>6. ASSUME Done(p) PROVE TokenInv'
  BY <1>1, <1>2, <1>6, DoneFacts, NoTokenHeld
<1>7. Done(p) \/ Step(p, "serve") \/ Step(p, "answer")
  BY CheckLockedFacts DEF AnswerWrong, AnswerRight
<1>8. {"serve", "answer"} \subseteq Stages
  BY DEF Stages
<1> QED BY <1>5, <1>6, <1>7, <1>8

\* Who delivers holds the token alone, and it is no longer in the table.
LEMMA TokenInvDeliver ==
  ASSUME TokenInv, NEW p \in Slots, Deliver(p)
  PROVE  TokenInv'
<1> DEFINE t == req[p].token
<1>1. Shape /\ Shape'
  BY ProceedKeepsShape DEF TokenInv, Proceed
<1>2. (\A q \in Slots \ {p} : req'[q] = req[q]) /\ req'[p] = None
  BY <1>1, DoneFacts DEF Deliver
<1>3. UNCHANGED <<shares, tokens, faults>> /\ req[p] # None
  BY DEF Deliver, asked, At
<1>4. CASE served' = served
  BY <1>1, <1>2, <1>3, <1>4, NoTokenHeld
<1>5. CASE req[p].used /\ served' = [served EXCEPT ![t] = @ + 1]
  <2>1. t \in DOMAIN served
    BY <1>3, <1>5 DEF TokenInv, Issued
  <2>2. PICK n \in Nat : served \in [1..n -> Nat]
    BY DEF TokenInv, Issued
  <2>3. served' \in [1..n -> Nat] /\ DOMAIN served' = DOMAIN served
    BY <1>5, <2>1, <2>2
  <2>4. served'[t] = served[t] + 1 /\ \A u \in DOMAIN served : u # t => served'[u] = served[u]
    BY <1>5, <2>1, <2>2
  <2>5. Issued'
    BY <1>2, <1>3, <2>3 DEF TokenInv, Issued
  <2>6. ASSUME faults = {} PROVE OneUse'
    <3>1. OneUse /\ Holds(p, t) /\ Took(p, t)
      BY <1>3, <1>5, <2>6 DEF TokenInv, Holds, Took
    <3>2. served[t] = 0 /\ t \notin DOMAIN tokens
      BY <2>1, <3>1 DEF OneUse
    <3>3. \A q \in Slots, u \in DOMAIN served : Holds(q, u)' => Holds(q, u) /\ u # t
      <4>1. \A q \in Slots, u \in DOMAIN served : Holds(q, u)' => q # p /\ Holds(q, u)
        BY <1>2 DEF Holds
      <4> QED BY <2>1, <3>1, <4>1 DEF OneUse
    <3>4. \A q \in Slots, u \in DOMAIN served : Took(q, u)' => Took(q, u)
      BY <1>2 DEF Took
    <3>5. \A u \in DOMAIN served : served'[u] <= 1
      BY <2>4, <3>1, <3>2 DEF OneUse
    <3>6. \A q \in Slots, u \in DOMAIN served : Holds(q, u)' => served'[u] = 0
      BY <2>4, <3>1, <3>3 DEF OneUse
    <3>7. \A q, r \in Slots, u \in DOMAIN served : Holds(q, u)' /\ Holds(r, u)' => q = r
      BY <3>1, <3>3 DEF OneUse
    <3>8. \A u \in DOMAIN tokens : served'[u] = 0 /\ \A q \in Slots : ~Took(q, u)'
      BY <2>4, <3>1, <3>2, <3>4 DEF OneUse, TokenInv, Issued
    <3> QED BY <1>3, <2>3, <3>5, <3>6, <3>7, <3>8 DEF OneUse
  <2> QED BY <1>1, <1>3, <2>5, <2>6 DEF TokenInv
<1> QED BY <1>4, <1>5 DEF Deliver

\* A token that is issued has a number that none had before.
LEMMA TokenInvDeliverPage ==
  ASSUME TokenInv, NEW p \in Slots, DeliverPage(p)
  PROVE  TokenInv'
<1>1. Shape /\ Shape'
  BY ProceedKeepsShape DEF TokenInv, Proceed
<1>2. (\A q \in Slots \ {p} : req'[q] = req[q]) /\ req'[p] = None
  BY <1>1, DoneFacts DEF DeliverPage
<1>3. UNCHANGED <<shares, faults>> /\ req[p] # None
  BY DEF DeliverPage, asked, At
<1>4. CASE UNCHANGED <<tokens, served>>
  BY <1>1, <1>2, <1>3, <1>4, NoTokenHeld
<1>5. CASE \E expires :
             LET token == Cardinality(DOMAIN served) + 1
             IN /\ tokens' = Put(tokens, token, [share |-> req[p].share, expires |-> expires])
                /\ served' = Put(served, token, 0)
  <2>1. PICK n \in Nat : served \in [1..n -> Nat]
    BY DEF TokenInv, Issued
  <2>2. Cardinality(DOMAIN served) = n
    BY <2>1, FS_Interval
  <2>3. PICK expires :
          /\ tokens' = Put(tokens, n + 1, [share |-> req[p].share, expires |-> expires])
          /\ served' = Put(served, n + 1, 0)
    BY <1>5, <2>2
  <2>4. /\ DOMAIN tokens' = DOMAIN tokens \cup {n + 1}
        /\ tokens'[n + 1] = [share |-> req[p].share, expires |-> expires]
        /\ \A u \in DOMAIN tokens \ {n + 1} : tokens'[u] = tokens[u]
    BY <2>3 DEF Put
  <2>5. DOMAIN served = 1..n /\ n + 1 \notin DOMAIN served
    BY <2>1
  <2>6. served' \in [1..(n + 1) -> Nat]
    BY <2>1, <2>3 DEF Put
  <2>7. /\ DOMAIN served' = DOMAIN served \cup {n + 1}
        /\ served'[n + 1] = 0
        /\ \A u \in DOMAIN served : served'[u] = served[u]
    BY <2>3, <2>5 DEF Put
  <2>8. n + 1 \in Nat /\ req[p].share \in DOMAIN shares
    BY <1>1, <1>3, <2>1 DEF Shape
  <2>9. Issued'
    <3>1. \E m \in Nat : served' \in [1..m -> Nat]
      BY <2>6, <2>8
    <3>2. DOMAIN tokens' \subseteq DOMAIN served'
      BY <2>4, <2>7 DEF TokenInv, Issued
    <3>3. \A u \in DOMAIN tokens' : tokens'[u].share \in DOMAIN shares'
      BY <1>3, <2>4, <2>8 DEF TokenInv, Issued
    <3>4. \A q \in Slots : req'[q] # None /\ (req'[q].stage = "take" \/ req'[q].used) =>
                             req'[q].token \in DOMAIN served'
      BY <1>2, <2>7 DEF TokenInv, Issued
    <3> QED BY <3>1, <3>2, <3>3, <3>4 DEF Issued
  <2>10. ASSUME faults = {} PROVE OneUse'
    <3>1. OneUse
      BY <2>10 DEF TokenInv
    <3>2. \A q \in Slots : \A u : Holds(q, u)' => Holds(q, u) /\ u \in DOMAIN served
      BY <1>2 DEF Holds, TokenInv, Issued
    <3>3. \A q \in Slots : \A u : Took(q, u)' => Took(q, u) /\ u \in DOMAIN served
      BY <1>2 DEF Took, TokenInv, Issued
    <3>4. \A u \in DOMAIN served' : served'[u] <= 1
      BY <2>7, <3>1 DEF OneUse
    <3>5. \A q \in Slots, u \in DOMAIN served' : Holds(q, u)' => served'[u] = 0
      BY <2>7, <3>1, <3>2 DEF OneUse
    <3>6. \A q, r \in Slots, u \in DOMAIN served' : Holds(q, u)' /\ Holds(r, u)' => q = r
      BY <3>1, <3>2 DEF OneUse
    <3>7. \A u \in DOMAIN tokens' : served'[u] = 0 /\ \A q \in Slots : ~Took(q, u)'
      BY <2>4, <2>5, <2>7, <3>1, <3>3 DEF OneUse, TokenInv, Issued
    <3> QED BY <3>4, <3>5, <3>6, <3>7 DEF OneUse
  <2> QED BY <1>1, <1>3, <2>9, <2>10 DEF TokenInv
<1> QED BY <1>4, <1>5 DEF DeliverPage

LEMMA TokenStep == TokenInv /\ [Next]_vars => TokenInv'
<1> SUFFICES ASSUME TokenInv, [Next]_vars PROVE TokenInv'
  OBVIOUS
<1>1. CASE UNCHANGED vars
  BY <1>1 DEF vars, TokenInv, Shape, Issued, OneUse, Holds, Took
<1>2. CASE Aside
  BY <1>2, TokenInvAside
<1>3. ASSUME NEW p \in Slots, Asking(p) PROVE TokenInv'
  BY <1>3, TokenInvAsking
<1>4. ASSUME NEW p \in Slots, Proceed(p) PROVE TokenInv'
  BY <1>4, TokenInvLook, TokenInvTake, TokenInvPassword, TokenInvDeliver, TokenInvDeliverPage
     DEF Proceed
<1> QED BY <1>1, <1>2, <1>3, <1>4, NextCases

\* TokenServesOnce for any clients, shares and requests: a download token serves once, as
\* long as its requests do not overlap and its DELETE does not fail.  (share.rs:214)
THEOREM ServedOnce == Spec => []TokenServesOnce
<1>1. TokenInv => TokenServesOnce
  BY DEF TokenInv, OneUse, TokenServesOnce
<1> QED BY <1>1, TokenStart, TokenStep, PTL DEF Spec

------------------------------------------------------------------------------
(* Failures                                                                *)

LEMMA AnsweringFinite ==
  ASSUME NEW k
  PROVE  /\ IsFiniteSet(Answering(k)) /\ Cardinality(Answering(k)) \in Nat
         /\ Cardinality(Slots) \in Nat /\ Cardinality(Answering(k)) <= Cardinality(Slots)
<1>1. Answering(k) \subseteq Slots
  BY DEF Answering
<1> QED BY <1>1, ShareAssumption, FS_Subset, FS_CardinalityType

LEMMA GuessStart == Init => GuessInv
<1> SUFFICES ASSUME Init PROVE GuessInv
  OBVIOUS
<1>1. DOMAIN shares = {} /\ DOMAIN fails = {}
  BY EmptyFacts DEF Init
<1>2. Shape
  BY <1>1 DEF Init, Shape
<1> QED BY <1>1, <1>2 DEF GuessInv, FailShape, Counted

\* Counts only get older, and requests leave Argon2: what was counted stays within the bound.
LEMMA FewerAnswer ==
  ASSUME GuessInv, Shape', now <= now', DOMAIN shares \subseteq DOMAIN shares',
         DOMAIN fails' \subseteq DOMAIN fails,
         \A k \in DOMAIN fails' : fails'[k] = fails[k],
         \A k \in DOMAIN fails' : Answering(k)' \subseteq Answering(k)
  PROVE  GuessInv'
<1>1. now \in Nat /\ now' \in Nat
  BY DEF GuessInv, Shape
<1>2. FailShape'
  BY <1>1 DEF GuessInv, FailShape
<1>3. ASSUME NEW k \in DOMAIN fails'
      PROVE  /\ fails'[k].n <= Bound
             /\ now' - fails'[k].since < LockTime => fails'[k].n + Cardinality(Answering(k)') <= Bound
  <2>1. /\ fails[k].n <= Bound
        /\ Since(fails[k]) < LockTime => fails[k].n + Cardinality(Answering(k)) <= Bound
    BY <1>3 DEF GuessInv, Counted
  <2>2. Cardinality(Answering(k)') <= Cardinality(Answering(k)) /\ Cardinality(Answering(k)') \in Nat
    BY <1>3, AnsweringFinite, FS_Subset, FS_CardinalityType
  <2>3. fails[k] \in [n : Nat \ {0}, since : 0..now]
    BY <1>3 DEF GuessInv, FailShape
  <2>4. Bound \in Int /\ LockTime \in Nat /\ Cardinality(Answering(k)) \in Nat
    BY ShareAssumption, AnsweringFinite DEF Bound
  <2> QED BY <1>1, <1>3, <2>1, <2>2, <2>3, <2>4 DEF Since
<1>4. Counted'
  BY <1>3 DEF Counted, Since, Bound
<1> QED BY <1>2, <1>4 DEF GuessInv

LEMMA GuessInvAside ==
  ASSUME GuessInv, Aside
  PROVE  GuessInv'
<1>1. Shape /\ Shape'
  BY AsideKeepsShape DEF GuessInv
<1>2. UNCHANGED <<fails, req>> /\ now <= now' /\ DOMAIN shares \subseteq DOMAIN shares'
  BY <1>1, AsideFacts
<1>3. \A k : Answering(k)' = Answering(k)
  BY <1>2 DEF Answering, At, Key
<1> QED BY <1>1, <1>2, <1>3, FewerAnswer

\* A slot whose request is not at Argon2 afterwards.
LEMMA LeavesArgon2 ==
  ASSUME GuessInv, Shape', NEW p \in Slots,
         \A q \in Slots \ {p} : req'[q] = req[q],
         req'[p] = None \/ req'[p].stage # "answer",
         UNCHANGED <<fails, shares, now>>
  PROVE  GuessInv'
<1>1. \A k : Answering(k)' \subseteq Answering(k)
  BY DEF Answering, At, Key
<1> QED BY <1>1, FewerAnswer DEF GuessInv, Shape

LEMMA GuessInvAsking ==
  ASSUME GuessInv, NEW p \in Slots, Asking(p), DOMAIN served \subseteq Nat
  PROVE  GuessInv'
<1>1. /\ Shape'
      /\ \A q \in Slots \ {p} : req'[q] = req[q]
      /\ req'[p].stage \in {"lock", "token"}
      /\ UNCHANGED <<fails, shares, now>>
  BY AskingFacts DEF GuessInv
<1> QED BY <1>1, LeavesArgon2

LEMMA GuessInvElsewhere ==
  ASSUME GuessInv, NEW p \in Slots, TokenLook(p) \/ TokenTake(p) \/ Deliver(p) \/ DeliverPage(p)
  PROVE  GuessInv'
<1>1. Shape /\ Shape'
  BY ProceedKeepsShape DEF GuessInv, Proceed
<1>2. UNCHANGED <<fails, shares, now>> /\ req[p] # None
  BY DEF TokenLook, TokenTake, Deliver, DeliverPage, asked, At
<1>3. CASE Deliver(p) \/ DeliverPage(p)
  BY <1>1, <1>2, <1>3, DoneFacts, LeavesArgon2 DEF Deliver, DeliverPage
<1>4. CASE TokenTake(p)
  BY <1>1, <1>2, <1>4, TakeFacts, LeavesArgon2
<1>5. CASE TokenLook(p)
  <2>1. CASE Step(p, "take")
    BY <1>1, <1>2, <2>1, StepFacts, LeavesArgon2 DEF Stages
  <2>2. CASE Step(p, "lock")
    BY <1>1, <1>2, <2>2, StepFacts, LeavesArgon2 DEF Stages
  <2> QED BY <1>1, <1>5, <2>1, <2>2, TokenLookFacts
<1> QED BY <1>3, <1>4, <1>5

\* Only while the count is below MaxFailures, or too old to matter, a request gets to Argon2.
LEMMA GuessInvCheck ==
  ASSUME GuessInv, NEW p \in Slots, CheckLocked(p)
  PROVE  GuessInv'
<1>1. Shape /\ Shape'
  BY ProceedKeepsShape DEF GuessInv, Proceed
<1>2. UNCHANGED <<fails, shares, now>> /\ req[p] # None
  BY DEF CheckLocked, asked, At
<1>3. CASE Done(p)
  BY <1>1, <1>2, <1>3, DoneFacts, LeavesArgon2
<1>4. CASE Step(p, "serve")
  BY <1>1, <1>2, <1>4, StepFacts, LeavesArgon2 DEF Stages
<1>5. CASE Step(p, "answer") /\ ~Locked(Key(p))
  <2>1. /\ \A q \in Slots \ {p} : req'[q] = req[q]
        /\ Key(p)' = Key(p)
    BY <1>1, <1>2, <1>5, StepFacts DEF Stages, Key
  <2>2. \A k : k # Key(p) => Answering(k)' \subseteq Answering(k)
    BY <2>1 DEF Answering, At, Key
  <2>3. ASSUME NEW k \in DOMAIN fails
        PROVE  /\ fails[k].n <= Bound
               /\ Since(fails[k]) < LockTime =>
                    fails[k].n + Cardinality(Answering(k)') <= Bound
    <3>1. /\ fails[k].n <= Bound
          /\ Since(fails[k]) < LockTime => fails[k].n + Cardinality(Answering(k)) <= Bound
      BY <2>3 DEF GuessInv, Counted
    <3>2. fails[k].n \in Nat /\ MaxFailures \in Nat
      BY <2>3, ShareAssumption DEF GuessInv, FailShape
    <3>3. CASE k = Key(p) /\ Since(fails[k]) < LockTime
      <4>1. fails[k].n < MaxFailures
        BY <1>5, <2>3, <3>2, <3>3 DEF Locked
      <4>2. Answering(k)' \subseteq Slots
        BY DEF Answering
      <4>3. Cardinality(Answering(k)') <= Cardinality(Slots) /\ Cardinality(Answering(k)') \in Nat
            /\ Cardinality(Slots) \in Nat
        BY <4>2, ShareAssumption, FS_Subset, FS_CardinalityType
      <4> QED BY <3>1, <3>2, <4>1, <4>3 DEF Bound
    <3>4. CASE k # Key(p)
      <4>1. Cardinality(Answering(k)') <= Cardinality(Answering(k))
            /\ Cardinality(Answering(k)') \in Nat /\ Cardinality(Answering(k)) \in Nat
        BY <2>2, <3>4, AnsweringFinite, FS_Subset, FS_CardinalityType
      <4>2. Bound \in Int
        BY ShareAssumption, AnsweringFinite DEF Bound
      <4> QED BY <3>1, <3>2, <4>1, <4>2
    <3> QED BY <3>1, <3>3, <3>4
  <2>4. Counted'
    BY <1>2, <2>3 DEF Counted, Since, Bound
  <2> QED BY <1>1, <1>2, <2>4 DEF GuessInv, FailShape
<1> QED BY <1>3, <1>4, <1>5 DEF CheckLocked

\* A wrong password counts once more and is no longer at Argon2.
LEMMA GuessInvWrong ==
  ASSUME GuessInv, NEW p \in Slots, AnswerWrong(p)
  PROVE  GuessInv'
<1>0. PICK key : key = Key(p)
  OBVIOUS
<1>1. Shape /\ Shape'
  BY ProceedKeepsShape DEF GuessInv, Proceed
<1>2. /\ UNCHANGED <<shares, now>> /\ At(p, "answer")
      /\ fails' = Put(fails, key, Failed(key))
  BY <1>0 DEF AnswerWrong, asked
<1>3. (\A q \in Slots \ {p} : req'[q] = req[q]) /\ req'[p] = None
  BY <1>1, DoneFacts DEF AnswerWrong
<1>4. /\ DOMAIN fails' = DOMAIN fails \cup {key}
      /\ fails'[key] = Failed(key)
      /\ \A k \in DOMAIN fails \ {key} : fails'[k] = fails[k]
  BY <1>2 DEF Put
<1>5. \A k : Answering(k)' = Answering(k) \ {p}
  BY <1>3 DEF Answering, At, Key
<1>6. p \in Answering(key)
  BY <1>0, <1>2 DEF Answering
<1>7. key \in Clients \X DOMAIN shares /\ now \in Nat
  BY <1>0, <1>1, <1>2 DEF Shape, At, Request, Key
<1>8. /\ Cardinality(Answering(key)') = Cardinality(Answering(key)) - 1
      /\ Cardinality(Answering(key)) \in Nat /\ Cardinality(Slots) \in Nat
      /\ Cardinality(Answering(key)) <= Cardinality(Slots)
  <2>1. IsFiniteSet(Answering(key)) /\ Answering(key)' = Answering(key) \ {p}
    BY <1>5, AnsweringFinite
  <2>2. Cardinality(Answering(key) \ {p}) = Cardinality(Answering(key)) - 1
    BY <1>6, <2>1, FS_RemoveElement
  <2> QED BY <2>1, <2>2, AnsweringFinite
<1>9. /\ Failed(key) \in [n : Nat \ {0}, since : 0..now]
      /\ Failed(key).n + Cardinality(Answering(key)') <= Bound
      /\ Failed(key).n <= Bound
  <2>0. Cardinality(Answering(key)) >= 1
    BY <1>5, <1>6, <1>8, AnsweringFinite, FS_EmptySet
  <2>1. CASE key \in DOMAIN fails /\ Since(fails[key]) < LockTime
    <3>1. fails[key] \in [n : Nat \ {0}, since : 0..now]
      BY <2>1 DEF GuessInv, FailShape
    <3>2. fails[key].n + Cardinality(Answering(key)) <= Bound
      BY <2>1 DEF GuessInv, Counted
    <3>3. Failed(key) = [fails[key] EXCEPT !.n = @ + 1]
      BY <2>1 DEF Failed
    <3>4. Failed(key) \in [n : Nat \ {0}, since : 0..now] /\ Failed(key).n = fails[key].n + 1
      BY <3>1, <3>3
    <3>5. Bound \in Int
      BY <1>8, ShareAssumption DEF Bound
    <3> QED BY <1>8, <2>0, <3>1, <3>2, <3>4, <3>5
  <2>2. CASE ~(key \in DOMAIN fails /\ Since(fails[key]) < LockTime)
    <3>1. Failed(key) = [n |-> 1, since |-> now]
      BY <2>2 DEF Failed
    <3>2. MaxFailures \in Nat \ {0}
      BY ShareAssumption
    <3> QED BY <1>7, <1>8, <2>0, <3>1, <3>2 DEF Bound
  <2> QED BY <2>1, <2>2
<1>10. FailShape'
  BY <1>2, <1>4, <1>7, <1>9 DEF GuessInv, FailShape
<1>11. ASSUME NEW k \in DOMAIN fails, k # key
       PROVE  /\ fails'[k].n <= Bound
              /\ Since(fails'[k]) < LockTime =>
                   fails'[k].n + Cardinality(Answering(k)') <= Bound
  <2>1. /\ fails[k].n <= Bound /\ fails'[k] = fails[k]
        /\ Since(fails[k]) < LockTime => fails[k].n + Cardinality(Answering(k)) <= Bound
    BY <1>4, <1>11 DEF GuessInv, Counted
  <2>2. Answering(k)' \subseteq Answering(k)
    BY <1>5
  <2>3. Cardinality(Answering(k)') <= Cardinality(Answering(k)) /\ Cardinality(Answering(k)') \in Nat
        /\ Cardinality(Answering(k)) \in Nat
    BY <2>2, AnsweringFinite, FS_Subset, FS_CardinalityType
  <2>4. fails[k].n \in Nat /\ Bound \in Int
    BY <1>8, <1>11, ShareAssumption DEF GuessInv, FailShape, Bound
  <2> QED BY <2>1, <2>3, <2>4
<1>12. Counted'
  <2>1. ASSUME NEW k \in DOMAIN fails'
        PROVE  /\ fails'[k].n <= Bound
               /\ now' - fails'[k].since < LockTime =>
                    fails'[k].n + Cardinality(Answering(k)') <= Bound
    <3>1. CASE k = key
      BY <1>4, <1>9, <3>1
    <3>2. CASE k # key
      BY <1>2, <1>4, <1>11, <2>1, <3>2 DEF Since
    <3> QED BY <3>1, <3>2
  <2> QED BY <2>1 DEF Counted, Since, Bound
<1> QED BY <1>1, <1>10, <1>12 DEF GuessInv

\* A right password forgets the count.
LEMMA GuessInvRight ==
  ASSUME GuessInv, NEW p \in Slots, AnswerRight(p)
  PROVE  GuessInv'
<1>1. Shape /\ Shape'
  BY ProceedKeepsShape DEF GuessInv, Proceed
<1>2. /\ UNCHANGED <<shares, now>> /\ req[p] # None
      /\ fails' = Drop(fails, Key(p)) /\ Step(p, "serve")
  BY DEF AnswerRight, asked, At
<1>3. (\A q \in Slots \ {p} : req'[q] = req[q]) /\ req'[p].stage = "serve"
  BY <1>1, <1>2, StepFacts DEF Stages
<1>4. \A k : Answering(k)' \subseteq Answering(k)
  BY <1>3 DEF Answering, At, Key
<1>5. DOMAIN fails' \subseteq DOMAIN fails /\ \A k \in DOMAIN fails' : fails'[k] = fails[k]
  BY <1>2 DEF Drop, Keep, Restrict
<1>6. now <= now'
  BY <1>1, <1>2 DEF Shape
<1> QED BY <1>1, <1>2, <1>4, <1>5, <1>6, FewerAnswer

LEMMA GuessStep == GuessInv /\ DOMAIN served \subseteq Nat /\ [Next]_vars => GuessInv'
<1> SUFFICES ASSUME GuessInv, DOMAIN served \subseteq Nat, [Next]_vars PROVE GuessInv'
  OBVIOUS
<1>1. CASE UNCHANGED vars
  BY <1>1 DEF vars, GuessInv, Shape, FailShape, Counted, Answering, At, Key, Since
<1>2. CASE Aside
  BY <1>2, GuessInvAside
<1>3. ASSUME NEW p \in Slots, Asking(p) PROVE GuessInv'
  BY <1>3, GuessInvAsking
<1>4. ASSUME NEW p \in Slots, Proceed(p) PROVE GuessInv'
  BY <1>4, GuessInvElsewhere, GuessInvCheck, GuessInvWrong, GuessInvRight DEF Proceed
<1> QED BY <1>1, <1>2, <1>3, <1>4, NextCases

\* GuessesAreBounded for any clients, shares and requests: a client gets to try at most
\* MaxFailures + |Slots| - 1 passwords of a share before it is locked out.  (share.rs:31)
THEOREM GuessesBounded == Spec => []GuessesAreBounded
<1>1. GuessInv => GuessesAreBounded
  BY DEF GuessInv, Counted, GuessesAreBounded, Bound
<1>2. TokenInv => DOMAIN served \subseteq Nat
  BY TokensNat
<1> QED BY <1>1, <1>2, TokenStart, TokenStep, GuessStart, GuessStep, PTL DEF Spec

------------------------------------------------------------------------------
(* The limiter, and the type invariant                                     *)

\* Entries that go leave the others as they are.
LEMMA FewerEntries ==
  ASSUME RateInv, now' \in Nat, now <= now',
         DOMAIN rate' \subseteq DOMAIN rate, \A c \in DOMAIN rate' : rate'[c] = rate[c]
  PROVE  RateInv'
<1>1. IsFiniteSet(DOMAIN rate') /\ Cardinality(DOMAIN rate') <= Cardinality(DOMAIN rate)
      /\ Cardinality(DOMAIN rate') \in Nat /\ Cardinality(DOMAIN rate) \in Nat
  BY FS_Subset, FS_CardinalityType DEF RateInv
<1>2. MaxEntries \in Nat
  BY ShareAssumption
<1>3. \A c \in DOMAIN rate' :
        rate'[c] \in [n : Nat \ {0}, since : 0..now', window : Range(Window)]
  BY DEF RateInv
<1> QED BY <1>1, <1>2, <1>3 DEF RateInv

LEMMA WithRoomFacts ==
  ASSUME NEW client
  PROVE  /\ DOMAIN WithRoom(client) \subseteq DOMAIN rate
         /\ \A c \in DOMAIN WithRoom(client) : WithRoom(client)[c] = rate[c]
         /\ client \in DOMAIN rate => WithRoom(client) = rate
  BY DEF WithRoom, Keep, Restrict

\* Who is admitted gets an entry or counts once more; there was room for it.
LEMMA AdmitKeepsRate ==
  ASSUME RateInv, NEW client \in Clients, NEW endpoint \in Endpoints,
         Admit(client, endpoint), now' = now
  PROVE  RateInv'
<1>1. PICK room : room = WithRoom(client)
  OBVIOUS
<1>2. /\ DOMAIN room \subseteq DOMAIN rate
      /\ \A c \in DOMAIN room : room[c] = rate[c]
      /\ client \in DOMAIN rate => room = rate
  BY <1>1, WithRoomFacts
<1>3. PICK entry : entry = IF Counting(client)
                             THEN [rate[client] EXCEPT !.n = @ + 1]
                             ELSE [n |-> 1, since |-> now, window |-> Window[endpoint]]
  OBVIOUS
<1>4. rate' = Put(room, client, entry) /\ ~Refused(client, endpoint)
  BY <1>1, <1>3 DEF Admit
<1>5. /\ DOMAIN rate' = DOMAIN room \cup {client}
      /\ rate'[client] = entry
      /\ \A c \in DOMAIN room \ {client} : rate'[c] = room[c]
  BY <1>4 DEF Put
<1>6. Limit[endpoint] \in Nat \ {0} /\ Window[endpoint] \in Range(Window) /\ MaxEntries \in Nat
  BY ShareAssumption DEF Range
<1>7. entry \in [n : Nat \ {0}, since : 0..now, window : Range(Window)] /\ entry.n <= Limit[endpoint]
  <2>1. CASE Counting(client)
    <3>1. rate[client] \in [n : Nat \ {0}, since : 0..now, window : Range(Window)]
      BY <2>1 DEF RateInv, Counting
    <3>2. ~(rate[client].n >= Limit[endpoint])
      BY <1>4, <2>1 DEF Refused
    <3>3. entry = [rate[client] EXCEPT !.n = @ + 1]
      BY <1>3, <2>1
    <3> QED BY <1>6, <3>1, <3>2, <3>3
  <2>2. CASE ~Counting(client)
    <3>1. entry = [n |-> 1, since |-> now, window |-> Window[endpoint]]
      BY <1>3, <2>2
    <3>2. now \in Nat
      BY DEF RateInv
    <3> QED BY <1>6, <3>1, <3>2
  <2> QED BY <2>1, <2>2
<1>8. IsFiniteSet(DOMAIN rate) /\ Cardinality(DOMAIN rate) <= MaxEntries
  BY DEF RateInv
<1>9. IsFiniteSet(DOMAIN rate') /\ Cardinality(DOMAIN rate') <= MaxEntries
  <2>1. CASE client \in DOMAIN rate
    <3>1. DOMAIN rate' = DOMAIN rate
      BY <1>2, <1>5, <2>1
    <3> QED BY <1>8, <3>1
  <2>2. CASE client \notin DOMAIN rate
    <3>1. IsFiniteSet(DOMAIN room) /\ Cardinality(DOMAIN room) \in Nat
      BY <1>2, <1>8, FS_Subset, FS_CardinalityType
    <3>2. ~(Cardinality(DOMAIN room) >= MaxEntries)
      BY <1>1, <1>4, <2>2 DEF Refused
    <3>3. IsFiniteSet(DOMAIN room \cup {client})
          /\ Cardinality(DOMAIN room \cup {client}) = Cardinality(DOMAIN room) + 1
      BY <1>2, <2>2, <3>1, FS_AddElement
    <3> QED BY <1>5, <1>6, <3>1, <3>2, <3>3
  <2> QED BY <2>1, <2>2
<1>10. \A c \in DOMAIN rate' :
         /\ rate'[c] \in [n : Nat \ {0}, since : 0..now, window : Range(Window)]
         /\ \E e \in Endpoints : rate'[c].n <= Limit[e]
  BY <1>2, <1>5, <1>7 DEF RateInv
<1>11. DOMAIN rate' \subseteq Clients
  BY <1>2, <1>5 DEF RateInv
<1> QED BY <1>9, <1>10, <1>11 DEF RateInv

LEMMA RateStep == RateInv /\ [Next]_vars => RateInv'
<1> SUFFICES ASSUME RateInv, [Next]_vars PROVE RateInv'
  OBVIOUS
<1>0. now \in Nat
  BY DEF RateInv
<1>1. ASSUME UNCHANGED <<rate, now>> PROVE RateInv'
  BY <1>1 DEF RateInv
<1>2. CASE Tick
  BY <1>0, <1>2, FewerEntries DEF Tick
<1>3. CASE PurgeRate
  BY <1>0, <1>3, FewerEntries DEF PurgeRate, asked, Keep, Restrict
<1>4. ASSUME NEW client \in Clients, NEW e \in Endpoints, TurnAway(client, e) PROVE RateInv'
  BY <1>0, <1>4, WithRoomFacts, FewerEntries DEF TurnAway, asked
<1>5. ASSUME NEW client \in Clients, NEW e \in Endpoints, OtherRequest(client, e) PROVE RateInv'
  BY <1>5, AdmitKeepsRate DEF OtherRequest
<1>6. ASSUME NEW p \in Slots, Asking(p) PROVE RateInv'
  <2>1. \E client \in Clients, endpoint \in Endpoints : Admit(client, endpoint) /\ now' = now
    BY <1>6 DEF Asking, AccessShare, SharePage, ShareSubfile, Ask, Endpoints
  <2> QED BY <2>1, AdmitKeepsRate
<1>7. ASSUME NEW p \in Slots, Proceed(p) PROVE RateInv'
  <2>1. UNCHANGED <<rate, now>>
    BY <1>7 DEF Proceed, TokenLook, TokenTake, CheckLocked, AnswerWrong, AnswerRight, Deliver,
                DeliverPage, asked
  <2> QED BY <1>1, <2>1
<1>8. ASSUME NEW s, NEW password, NEW lifetime,
             CreateShare(s, password, lifetime) \/ DeleteShare(s)
      PROVE  RateInv'
  BY <1>1, <1>8 DEF CreateShare, DeleteShare, asked
<1>9. CASE UNCHANGED vars
  BY <1>1, <1>9 DEF vars
<1>10. CASE Aside
  BY <1>2, <1>3, <1>4, <1>5, <1>8, <1>10 DEF Aside
<1> QED BY <1>6, <1>7, <1>9, <1>10, NextCases

LEMMA RateStart == Init => RateInv
  BY EmptyFacts, FS_EmptySet, ShareAssumption DEF Init, RateInv

\* TypeOK for any clients, shares, requests and limits: above all, the map of the limiter
\* never has more than MaxEntries entries.  (rate_limit.rs:23)
THEOREM TypeCorrect == Spec => []TypeOK
<1>1. RateInv /\ TokenInv /\ GuessInv => TypeOK
  <2> SUFFICES ASSUME RateInv, TokenInv, GuessInv PROVE TypeOK
    OBVIOUS
  <2>1. /\ DOMAIN rate \subseteq Clients /\ Cardinality(DOMAIN rate) <= MaxEntries
        /\ \A c \in DOMAIN rate :
             /\ rate[c].since \in 0..now /\ rate[c].window \in Range(Window)
             /\ \E e \in Endpoints : rate[c].n \in 1..Limit[e]
    <3>1. \A e \in Endpoints : Limit[e] \in Nat
      BY ShareAssumption
    <3> QED BY <3>1 DEF RateInv
  <2>2. /\ DOMAIN shares \subseteq Shares
        /\ \A p \in Slots : req[p] # None => req[p].share \in DOMAIN shares
    BY DEF TokenInv, Shape
  <2>3. /\ DOMAIN fails \subseteq Clients \X DOMAIN shares
        /\ \A k \in DOMAIN fails : fails[k].n \in Nat \ {0} /\ fails[k].since \in 0..now
    BY DEF GuessInv, FailShape
  <2>4. /\ DOMAIN tokens \subseteq DOMAIN served
        /\ \A t \in DOMAIN tokens : tokens[t].share \in DOMAIN shares
    BY DEF TokenInv, Issued
  <2> QED BY <2>1, <2>2, <2>3, <2>4 DEF TypeOK
<1>2. TokenInv => DOMAIN served \subseteq Nat
  BY TokensNat
<1> QED BY <1>1, <1>2, RateStart, RateStep, TokenStart, TokenStep, GuessStart, GuessStep,
           PTL DEF Spec

------------------------------------------------------------------------------
(* The limit of an endpoint                                                *)

\* The endpoints LimitHolds is about: no entry that counts for one is shorter.
Shortest(e) == Window[e] <= PurgeTime /\ \A f \in Endpoints : Window[e] <= Window[f]

HitsOf(c, e) == {i \in DOMAIN hits : hits[i].client = c /\ hits[i].endpoint = e}

\* The hits of c at e that can still be recent are cur, those its entry counts, and old,
\* those of the entry before; start is when the present entry, or the last one, began.
RoundsAre(c, e, old, cur, start) ==
  /\ old \subseteq HitsOf(c, e) /\ cur \subseteq HitsOf(c, e)
  /\ Cardinality(old) <= Limit[e] /\ Cardinality(cur) <= Limit[e]
  /\ start <= now
  /\ \A i \in old : hits[i].at <= start
  /\ \A i \in HitsOf(c, e) \ (old \cup cur) : hits[i].at + Window[e] < start
  /\ c \in DOMAIN rate => rate[c].since = start /\ Cardinality(cur) <= rate[c].n
  /\ c \notin DOMAIN rate => start + Window[e] < now

Rounds(c, e) == \E old, cur \in SUBSET (1..ops), start \in Int : RoundsAre(c, e, old, cur, start)

Logged ==
  /\ ops \in Nat /\ DOMAIN hits = 1..ops
  /\ \A i \in 1..ops : hits[i].at \in 0..now

LimitInv == RateInv /\ Logged /\ \A c \in Clients, e \in Endpoints : Shortest(e) => Rounds(c, e)

LEMMA ShortestFacts ==
  ASSUME NEW e \in Endpoints, Shortest(e)
  PROVE  /\ Window[e] \in Nat /\ Limit[e] \in Nat \ {0} /\ PurgeTime \in Nat
         /\ \A w \in Range(Window) : w \in Nat /\ Window[e] <= Lesser(w, PurgeTime)
  BY ShareAssumption DEF Shortest, Range, Lesser

\* The hits stay, the clock does not go back, and the entry of c stays or was over.
LEMMA RoundsKeep ==
  ASSUME RateInv, Logged, now' \in Nat, now <= now', UNCHANGED <<ops, hits>>,
         NEW c \in Clients, NEW e \in Endpoints, Shortest(e), Rounds(c, e),
         c \notin DOMAIN rate => c \notin DOMAIN rate',
         c \in DOMAIN rate' => rate'[c] = rate[c],
         c \in DOMAIN rate /\ c \notin DOMAIN rate' => Window[e] < now' - rate[c].since
  PROVE  Rounds(c, e)'
<1>1. PICK old \in SUBSET (1..ops), cur \in SUBSET (1..ops), start \in Int :
        RoundsAre(c, e, old, cur, start)
  BY DEF Rounds
<1>2. now \in Nat /\ Window[e] \in Nat
  BY ShortestFacts DEF RateInv
<1>3. c \notin DOMAIN rate' => start + Window[e] < now'
  <2>1. CASE c \in DOMAIN rate
    <3>1. rate[c].since = start
      BY <1>1, <2>1 DEF RoundsAre
    <3> QED BY <1>2, <2>1, <3>1
  <2>2. CASE c \notin DOMAIN rate
    <3>1. start + Window[e] < now
      BY <1>1, <2>2 DEF RoundsAre
    <3> QED BY <1>2, <3>1
  <2> QED BY <2>1, <2>2
<1>4. start <= now'
  BY <1>1, <1>2 DEF RoundsAre
<1>5. RoundsAre(c, e, old, cur, start)'
  BY <1>1, <1>3, <1>4 DEF RoundsAre, HitsOf
<1> QED BY <1>5 DEF Rounds

\* Steps that admit nobody: entries go only when their window is over.
LEMMA LimitInvKeep ==
  ASSUME LimitInv, RateInv', now <= now', UNCHANGED <<ops, hits>>,
         DOMAIN rate' \subseteq DOMAIN rate, \A c \in DOMAIN rate' : rate'[c] = rate[c],
         \A c \in DOMAIN rate \ DOMAIN rate' : Since(rate[c]) > Lesser(rate[c].window, PurgeTime)
  PROVE  LimitInv'
<1>1. now \in Nat /\ now' \in Nat
  BY DEF LimitInv, RateInv
<1>2. Logged'
  BY <1>1 DEF LimitInv, Logged
<1>3. ASSUME NEW c \in Clients, NEW e \in Endpoints, Shortest(e) PROVE Rounds(c, e)'
  <2>1. RateInv /\ Logged /\ Rounds(c, e)
    BY <1>3 DEF LimitInv
  <2>2. ASSUME c \in DOMAIN rate, c \notin DOMAIN rate' PROVE Window[e] < now' - rate[c].since
    <3>1. rate[c].window \in Range(Window) /\ rate[c].since \in Int
      BY <2>1, <2>2 DEF RateInv
    <3>2. Window[e] \in Nat /\ Window[e] <= Lesser(rate[c].window, PurgeTime)
      BY <1>3, <3>1, ShortestFacts
    <3>3. Lesser(rate[c].window, PurgeTime) \in Int
      BY <1>3, <3>1, ShortestFacts DEF Lesser
    <3>4. now - rate[c].since > Lesser(rate[c].window, PurgeTime)
      BY <2>2 DEF Since
    <3> QED BY <1>1, <3>1, <3>2, <3>3, <3>4
  <2> QED BY <1>1, <1>3, <2>1, <2>2, RoundsKeep
<1>4. \A e \in Endpoints : Shortest(e)' = Shortest(e)
  BY DEF Shortest
<1> QED BY <1>2, <1>3 DEF LimitInv, Shortest

LEMMA WithRoomOver ==
  ASSUME RateInv, NEW client, NEW c \in DOMAIN rate, c \notin DOMAIN WithRoom(client)
  PROVE  Since(rate[c]) > rate[c].window /\ c # client
<1>1. Since(rate[c]) \in Int /\ rate[c].window \in Int
  BY ShareAssumption DEF RateInv, Since, Range
<1>2. client \notin DOMAIN rate
  BY WithRoomFacts
<1>3. ~(Since(rate[c]) <= rate[c].window)
  BY DEF WithRoom, Keep, Restrict
<1> QED BY <1>1, <1>2, <1>3

LEMMA HitsPut ==
  ASSUME Logged, NEW v, hits' = Put(hits, ops + 1, v), ops' = ops + 1
  PROVE  /\ DOMAIN hits' = 1..ops' /\ ops' \in Nat
         /\ hits'[ops + 1] = v /\ \A i \in 1..ops : hits'[i] = hits[i]
         /\ \A c, e : HitsOf(c, e)' = HitsOf(c, e) \cup
                        (IF v.client = c /\ v.endpoint = e THEN {ops + 1} ELSE {})
         /\ \A c, e : HitsOf(c, e) \subseteq 1..ops
<1>1. DOMAIN hits' = (1..ops) \cup {ops + 1}
  BY PutFacts DEF Logged
<1>2. DOMAIN hits' = 1..ops' /\ ops' \in Nat
  <2>1. ops \in Nat
    BY DEF Logged
  <2>2. (1..ops) \cup {ops + 1} = 1..(ops + 1)
    BY <2>1
  <2>3. ops' = ops + 1
    OBVIOUS
  <2>4. DOMAIN hits' = 1..(ops + 1)
    BY <1>1, <2>2
  <2> QED BY <2>1, <2>3, <2>4
<1>3. hits'[ops + 1] = v
  BY DEF Put
<1>4. \A i \in 1..ops : hits'[i] = hits[i]
  <2>1. \A i \in 1..ops : i # ops + 1 /\ i \in DOMAIN hits
    BY DEF Logged
  <2> QED BY <2>1 DEF Put
<1>5. \A c, e : HitsOf(c, e) \subseteq 1..ops
  BY DEF HitsOf, Logged
<1>6. ASSUME NEW c, NEW e
      PROVE  HitsOf(c, e)' = HitsOf(c, e) \cup
                        (IF v.client = c /\ v.endpoint = e THEN {ops + 1} ELSE {})
  BY <1>1, <1>3, <1>4 DEF HitsOf, Logged
<1> QED BY <1>2, <1>3, <1>4, <1>5, <1>6

\* An entry that counts lets c in: the hit joins cur.
LEMMA RoundsCount ==
  ASSUME RateInv, Logged, NEW c \in Clients, NEW f \in Endpoints, NEW e \in Endpoints, Shortest(e),
         Rounds(c, e), Admit(c, f), now' = now, Counting(c)
  PROVE  Rounds(c, e)'
<1>1. PICK old \in SUBSET (1..ops), cur \in SUBSET (1..ops), start \in Int :
        RoundsAre(c, e, old, cur, start)
  BY DEF Rounds
<1>2. c \in DOMAIN rate /\ ~(rate[c].n >= Limit[f]) /\ ops' = ops + 1
      /\ rate' = Put(rate, c, [rate[c] EXCEPT !.n = @ + 1])
      /\ hits' = Put(hits, ops + 1, [client |-> c, endpoint |-> f, at |-> now])
  BY WithRoomFacts DEF Admit, Refused, Counting
<1>3. rate[c] \in [n : Nat \ {0}, since : 0..now, window : Range(Window)]
  BY <1>2 DEF RateInv
<1>4. c \in DOMAIN rate' /\ rate'[c] = [rate[c] EXCEPT !.n = @ + 1]
  BY <1>2 DEF Put
<1>5. rate'[c].n = rate[c].n + 1 /\ rate'[c].since = rate[c].since
  BY <1>3, <1>4
<1>6. rate[c].since = start /\ Cardinality(cur) <= rate[c].n
  BY <1>1, <1>2 DEF RoundsAre
<1>7. PICK more : more = IF f = e THEN {ops + 1} ELSE {}
  OBVIOUS
<1>8. /\ DOMAIN hits' = 1..ops' /\ ops' \in Nat
      /\ \A i \in 1..ops : hits'[i] = hits[i]
      /\ HitsOf(c, e)' = HitsOf(c, e) \cup more
      /\ HitsOf(c, e) \subseteq 1..ops
  BY <1>2, <1>7, HitsPut
<1>9. /\ Cardinality(cur \cup more) <= Limit[e]
      /\ Cardinality(cur \cup more) <= rate[c].n + 1
  <2>1. IsFiniteSet(cur) /\ Cardinality(cur) \in Nat /\ ops + 1 \notin cur
    <3>1. IsFiniteSet(1..ops)
      BY FS_Interval DEF Logged
    <3>2. ops + 1 \notin 1..ops
      BY DEF Logged
    <3>3. IsFiniteSet(cur)
      BY <3>1, FS_Subset
    <3> QED BY <3>2, <3>3, FS_CardinalityType
  <2>2. Limit[e] \in Nat
    BY ShareAssumption
  <2>3. CASE f = e
    <3>1. Cardinality(cur \cup more) = Cardinality(cur) + 1
      BY <1>7, <2>1, <2>3, FS_AddElement
    <3> QED BY <1>2, <1>3, <1>6, <2>1, <2>2, <2>3, <3>1
  <2>4. CASE f # e
    <3>1. Cardinality(cur \cup more) = Cardinality(cur) /\ Cardinality(cur) <= Limit[e]
      BY <1>1, <1>7, <2>4 DEF RoundsAre
    <3>2. rate[c].n \in Nat
      BY <1>3
    <3> QED BY <1>6, <2>1, <2>2, <3>1, <3>2
  <2> QED BY <2>3, <2>4
<1>10. cur \cup more \in SUBSET (1..ops') /\ old \in SUBSET (1..ops')
  BY <1>2, <1>7 DEF Logged
<1>11. /\ old \subseteq HitsOf(c, e) /\ cur \subseteq HitsOf(c, e)
       /\ Cardinality(old) <= Limit[e] /\ start <= now
       /\ \A i \in old : hits[i].at <= start
       /\ \A i \in HitsOf(c, e) \ (old \cup cur) : hits[i].at + Window[e] < start
  BY <1>1 DEF RoundsAre
<1>12. /\ \A i \in old : hits'[i].at <= start
       /\ \A i \in HitsOf(c, e)' \ (old \cup cur \cup more) : hits'[i].at + Window[e] < start
  BY <1>8, <1>11
<1>13. PICK counted : counted = cur \cup more
  OBVIOUS
<1>14. RoundsAre(c, e, old, counted, start)'
  BY <1>4, <1>5, <1>6, <1>8, <1>9, <1>11, <1>12, <1>13 DEF RoundsAre
<1> QED BY <1>10, <1>13, <1>14 DEF Rounds

\* A new entry lets c in: what the last one counted is old now, and what was old is not recent.
LEMMA RoundsOpen ==
  ASSUME RateInv, Logged, NEW c \in Clients, NEW f \in Endpoints, NEW e \in Endpoints, Shortest(e),
         Rounds(c, e), Admit(c, f), now' = now, ~Counting(c)
  PROVE  Rounds(c, e)'
<1>1. PICK old \in SUBSET (1..ops), cur \in SUBSET (1..ops), start \in Int :
        RoundsAre(c, e, old, cur, start)
  BY DEF Rounds
<1>2. ops' = ops + 1
      /\ rate' = Put(WithRoom(c), c, [n |-> 1, since |-> now, window |-> Window[f]])
      /\ hits' = Put(hits, ops + 1, [client |-> c, endpoint |-> f, at |-> now])
  BY DEF Admit
<1>3. c \in DOMAIN rate' /\ rate'[c].n = 1 /\ rate'[c].since = now
  BY <1>2 DEF Put
<1>4. now \in Nat /\ Window[e] \in Nat /\ Limit[e] \in Nat \ {0}
  BY ShortestFacts DEF RateInv
<1>5. start + Window[e] < now
  <2>1. CASE c \in DOMAIN rate
    <3>1. rate[c] \in [n : Nat \ {0}, since : 0..now, window : Range(Window)]
      BY <2>1 DEF RateInv
    <3>2. rate[c].window \in Nat /\ Window[e] <= rate[c].window
      BY <3>1, ShareAssumption, ShortestFacts DEF Shortest, Range
    <3>3. ~(now - rate[c].since <= rate[c].window)
      BY <2>1 DEF Counting, Since
    <3>4. rate[c].since = start
      BY <1>1, <2>1 DEF RoundsAre
    <3> QED BY <1>4, <3>1, <3>2, <3>3, <3>4
  <2>2. CASE c \notin DOMAIN rate
    BY <1>1, <2>2 DEF RoundsAre
  <2> QED BY <2>1, <2>2
<1>6. PICK more : more = IF f = e THEN {ops + 1} ELSE {}
  OBVIOUS
<1>7. /\ DOMAIN hits' = 1..ops' /\ ops' \in Nat
      /\ \A i \in 1..ops : hits'[i] = hits[i]
      /\ HitsOf(c, e)' = HitsOf(c, e) \cup more
      /\ HitsOf(c, e) \subseteq 1..ops
  BY <1>2, <1>6, HitsPut
<1>8. Cardinality(more) <= Limit[e] /\ Cardinality(more) <= 1
  <2>1. Cardinality({}) = 0 /\ Cardinality({ops + 1}) = 1
    BY FS_EmptySet, FS_Singleton
  <2> QED BY <1>4, <1>6, <2>1
<1>9. cur \in SUBSET (1..ops') /\ more \in SUBSET (1..ops')
  BY <1>2, <1>6 DEF Logged
<1>10. /\ cur \subseteq HitsOf(c, e) /\ Cardinality(cur) <= Limit[e]
       /\ \A i \in old : hits[i].at <= start
       /\ \A i \in HitsOf(c, e) \ (old \cup cur) : hits[i].at + Window[e] < start
  BY <1>1 DEF RoundsAre
<1>11. \A i \in 1..ops : hits[i].at \in Int /\ hits[i].at <= now
  BY <1>4 DEF Logged
<1>12. \A i \in cur : hits'[i].at <= now
  BY <1>7, <1>11
<1>13. \A i \in HitsOf(c, e)' \ (cur \cup more) : hits'[i].at + Window[e] < now
  <2> SUFFICES ASSUME NEW i \in HitsOf(c, e), i \notin cur PROVE hits[i].at + Window[e] < now
    BY <1>7
  <2>1. hits[i].at \in Int
    BY <1>7, <1>11
  <2>2. CASE i \in old
    BY <1>4, <1>5, <1>10, <2>1, <2>2
  <2>3. CASE i \notin old
    <3>1. hits[i].at + Window[e] < start
      BY <1>10, <2>3
    <3> QED BY <1>4, <1>5, <2>1, <3>1
  <2> QED BY <2>2, <2>3
<1>14. PICK begun : begun = now
  OBVIOUS
<1>15. RoundsAre(c, e, cur, more, begun)'
  BY <1>3, <1>4, <1>7, <1>8, <1>10, <1>12, <1>13, <1>14 DEF RoundsAre
<1>16. begun \in Int
  BY <1>4, <1>14
<1> QED BY <1>9, <1>15, <1>16 DEF Rounds

\* To everybody else, only the room that was made matters.
LEMMA RoundsOther ==
  ASSUME RateInv, Logged, NEW c \in Clients, NEW client \in Clients, c # client,
         NEW f \in Endpoints, NEW e \in Endpoints, Shortest(e),
         Rounds(c, e), Admit(client, f), now' = now
  PROVE  Rounds(c, e)'
<1>1. PICK old \in SUBSET (1..ops), cur \in SUBSET (1..ops), start \in Int :
        RoundsAre(c, e, old, cur, start)
  BY DEF Rounds
<1>2. PICK room, entry : room = WithRoom(client) /\ rate' = Put(room, client, entry)
  BY DEF Admit
<1>3. ops' = ops + 1
      /\ hits' = Put(hits, ops + 1, [client |-> client, endpoint |-> f, at |-> now])
  BY DEF Admit
<1>4. /\ DOMAIN rate' = DOMAIN room \cup {client}
      /\ \A d \in DOMAIN room \ {client} : rate'[d] = room[d]
  BY <1>2 DEF Put
<1>5. c \in DOMAIN rate' => c \in DOMAIN rate /\ rate'[c] = rate[c]
  BY <1>2, <1>4, WithRoomFacts
<1>6. now \in Nat /\ Window[e] \in Nat
  BY ShortestFacts DEF RateInv
<1>7. c \notin DOMAIN rate' => start + Window[e] < now
  <2>1. CASE c \in DOMAIN rate /\ c \notin DOMAIN rate'
    <3>1. rate[c] \in [n : Nat \ {0}, since : 0..now, window : Range(Window)]
      BY <2>1 DEF RateInv
    <3>2. rate[c].window \in Nat /\ Window[e] <= rate[c].window
      BY <3>1, ShareAssumption DEF Shortest, Range
    <3>3. now - rate[c].since > rate[c].window
      BY <1>2, <1>4, <2>1, WithRoomOver DEF Since
    <3>4. rate[c].since = start
      BY <1>1, <2>1 DEF RoundsAre
    <3> QED BY <1>6, <3>1, <3>2, <3>3, <3>4
  <2>2. CASE c \notin DOMAIN rate
    BY <1>1, <2>2 DEF RoundsAre
  <2> QED BY <2>1, <2>2
<1>8. /\ \A i \in 1..ops : hits'[i] = hits[i]
      /\ HitsOf(c, e)' = HitsOf(c, e)
      /\ HitsOf(c, e) \subseteq 1..ops
  <2>1. PICK v : v = [client |-> client, endpoint |-> f, at |-> now]
    OBVIOUS
  <2>2. v.client # c /\ hits' = Put(hits, ops + 1, v)
    BY <1>3, <2>1
  <2>3. /\ \A i \in 1..ops : hits'[i] = hits[i]
        /\ HitsOf(c, e)' = HitsOf(c, e) \cup
             (IF v.client = c /\ v.endpoint = e THEN {ops + 1} ELSE {})
        /\ HitsOf(c, e) \subseteq 1..ops
    BY <1>3, <2>2, HitsPut
  <2> QED BY <2>2, <2>3
<1>9. old \in SUBSET (1..ops') /\ cur \in SUBSET (1..ops')
  BY <1>3 DEF Logged
<1>10. /\ old \subseteq HitsOf(c, e) /\ cur \subseteq HitsOf(c, e)
       /\ Cardinality(old) <= Limit[e] /\ Cardinality(cur) <= Limit[e] /\ start <= now
       /\ \A i \in old : hits[i].at <= start
       /\ \A i \in HitsOf(c, e) \ (old \cup cur) : hits[i].at + Window[e] < start
       /\ c \in DOMAIN rate => rate[c].since = start /\ Cardinality(cur) <= rate[c].n
  BY <1>1 DEF RoundsAre
<1>11. /\ \A i \in old : hits'[i].at <= start
       /\ \A i \in HitsOf(c, e)' \ (old \cup cur) : hits'[i].at + Window[e] < start
  BY <1>8, <1>10
<1>12. RoundsAre(c, e, old, cur, start)'
  BY <1>5, <1>7, <1>8, <1>10, <1>11 DEF RoundsAre
<1> QED BY <1>9, <1>12 DEF Rounds

LEMMA LimitInvAdmit ==
  ASSUME LimitInv, NEW client \in Clients, NEW f \in Endpoints, Admit(client, f), now' = now
  PROVE  LimitInv'
<1>1. RateInv /\ Logged
  BY DEF LimitInv
<1>2. RateInv'
  BY <1>1, AdmitKeepsRate
<1>3. Logged'
  <2>1. /\ ops' = ops + 1
        /\ hits' = Put(hits, ops + 1, [client |-> client, endpoint |-> f, at |-> now])
    BY DEF Admit
  <2>2. /\ DOMAIN hits' = 1..ops' /\ ops' \in Nat
        /\ hits'[ops + 1] = [client |-> client, endpoint |-> f, at |-> now]
        /\ \A i \in 1..ops : hits'[i] = hits[i]
    BY <1>1, <2>1, HitsPut
  <2>3. now \in Nat
    BY <1>1 DEF RateInv
  <2>4. ASSUME NEW i \in 1..ops' PROVE hits'[i].at \in 0..now
    <3>1. CASE i = ops + 1
      BY <2>2, <2>3, <3>1
    <3>2. CASE i # ops + 1
      <4>1. i \in 1..ops
        BY <1>1, <2>1, <2>4, <3>2 DEF Logged
      <4> QED BY <1>1, <2>2, <4>1 DEF Logged
    <3> QED BY <3>1, <3>2
  <2> QED BY <2>2, <2>4 DEF Logged
<1>4. ASSUME NEW c \in Clients, NEW e \in Endpoints, Shortest(e) PROVE Rounds(c, e)'
  <2>1. Rounds(c, e)
    BY <1>4 DEF LimitInv
  <2>2. CASE c # client
    BY <1>1, <1>4, <2>1, <2>2, RoundsOther
  <2>3. CASE c = client
    BY <1>1, <1>4, <2>1, <2>3, RoundsCount, RoundsOpen
  <2> QED BY <2>2, <2>3
<1> QED BY <1>2, <1>3, <1>4 DEF LimitInv, Shortest

LEMMA LimitStep == LimitInv /\ [Next]_vars => LimitInv'
<1> SUFFICES ASSUME LimitInv, [Next]_vars PROVE LimitInv'
  OBVIOUS
<1>1. RateInv /\ RateInv' /\ now \in Nat
  BY RateStep DEF LimitInv, RateInv
<1>2. ASSUME UNCHANGED <<rate, now, ops, hits>> PROVE LimitInv'
  BY <1>1, <1>2, LimitInvKeep
<1>3. CASE Tick
  BY <1>1, <1>3, LimitInvKeep DEF Tick
<1>4. CASE PurgeRate
  <2>1. /\ DOMAIN rate' \subseteq DOMAIN rate /\ \A c \in DOMAIN rate' : rate'[c] = rate[c]
        /\ \A c \in DOMAIN rate \ DOMAIN rate' :
             ~(Since(rate[c]) <= Lesser(rate[c].window, PurgeTime))
        /\ UNCHANGED <<now, ops, hits>>
    BY <1>4 DEF PurgeRate, asked, Keep, Restrict
  <2>2. \A c \in DOMAIN rate : Since(rate[c]) \in Int /\ Lesser(rate[c].window, PurgeTime) \in Int
    BY <1>1, ShareAssumption DEF RateInv, Since, Range, Lesser
  <2>3. \A c \in DOMAIN rate \ DOMAIN rate' :
          Since(rate[c]) > Lesser(rate[c].window, PurgeTime)
    BY <2>1, <2>2
  <2> QED BY <1>1, <2>1, <2>3, LimitInvKeep
<1>5. ASSUME NEW client \in Clients, NEW e \in Endpoints, TurnAway(client, e) PROVE LimitInv'
  <2>1. rate' = WithRoom(client) /\ UNCHANGED <<now, ops, hits>>
    BY <1>5 DEF TurnAway, asked
  <2>2. ASSUME NEW c \in DOMAIN rate, c \notin DOMAIN rate'
        PROVE  Since(rate[c]) > Lesser(rate[c].window, PurgeTime)
    <3>1. Since(rate[c]) > rate[c].window
      BY <1>1, <2>1, <2>2, WithRoomOver
    <3>2. Since(rate[c]) \in Int /\ rate[c].window \in Int /\ PurgeTime \in Int
      BY <1>1, ShareAssumption DEF RateInv, Since, Range
    <3> QED BY <3>1, <3>2 DEF Lesser
  <2> QED BY <1>1, <2>1, <2>2, WithRoomFacts, LimitInvKeep
<1>6. ASSUME NEW client \in Clients, NEW e \in Endpoints, OtherRequest(client, e) PROVE LimitInv'
  BY <1>6, LimitInvAdmit DEF OtherRequest
<1>7. ASSUME NEW p \in Slots, Asking(p) PROVE LimitInv'
  <2>1. \E client \in Clients, endpoint \in Endpoints : Admit(client, endpoint) /\ now' = now
    BY <1>7 DEF Asking, AccessShare, SharePage, ShareSubfile, Ask, Endpoints
  <2> QED BY <2>1, LimitInvAdmit
<1>8. ASSUME NEW p \in Slots, Proceed(p) PROVE LimitInv'
  <2>1. UNCHANGED <<rate, now, ops, hits>>
    BY <1>8 DEF Proceed, TokenLook, TokenTake, CheckLocked, AnswerWrong, AnswerRight, Deliver,
                DeliverPage, asked
  <2> QED BY <1>2, <2>1
<1>9. ASSUME NEW s, NEW password, NEW lifetime,
             CreateShare(s, password, lifetime) \/ DeleteShare(s)
      PROVE  LimitInv'
  BY <1>2, <1>9 DEF CreateShare, DeleteShare, asked
<1>10. CASE UNCHANGED vars
  BY <1>2, <1>10 DEF vars, asked
<1>11. CASE Aside
  BY <1>3, <1>4, <1>5, <1>6, <1>9, <1>11 DEF Aside
<1> QED BY <1>7, <1>8, <1>10, <1>11, NextCases

LEMMA LimitStart == Init => LimitInv
<1> SUFFICES ASSUME Init PROVE LimitInv
  OBVIOUS
<1>1. DOMAIN rate = {} /\ DOMAIN hits = {} /\ ops = 0 /\ now = 0
  BY EmptyFacts DEF Init
<1>2. Logged
  BY <1>1 DEF Logged
<1>3. ASSUME NEW c \in Clients, NEW e \in Endpoints, Shortest(e) PROVE Rounds(c, e)
  <2>1. PICK start : start = -1 - Window[e]
    OBVIOUS
  <2>2. Window[e] \in Nat /\ Limit[e] \in Nat
    BY <1>3, ShortestFacts
  <2>3. RoundsAre(c, e, {}, {}, start) /\ start \in Int
    BY <1>1, <2>1, <2>2, FS_EmptySet DEF RoundsAre, HitsOf
  <2> QED BY <2>3 DEF Rounds
<1> QED BY <1>2, <1>3, RateStart DEF LimitInv

\* LimitHolds for any clients, endpoints, windows and limits, however full the map: an
\* endpoint whose window is the shortest of all, and not longer than the purge, lets in at
\* most twice its limit of one client within its window.  (rate_limit.rs:23)
THEOREM LimitsHold == Spec => []LimitHolds
<1>1. LimitInv => LimitHolds
  <2> SUFFICES ASSUME LimitInv, NEW c \in Clients, NEW e \in Endpoints, Shortest(e),
                      NEW recent, recent = {i \in DOMAIN hits :
                                              /\ hits[i].client = c /\ hits[i].endpoint = e
                                              /\ now - hits[i].at <= Window[e]}
               PROVE  Cardinality(recent) <= 2 * Limit[e]
    BY DEF LimitHolds, Shortest
  <2>1. RateInv /\ Logged /\ Rounds(c, e)
    BY DEF LimitInv
  <2>2. PICK old \in SUBSET (1..ops), cur \in SUBSET (1..ops), start \in Int :
          RoundsAre(c, e, old, cur, start)
    BY <2>1 DEF Rounds
  <2>3. now \in Nat /\ Window[e] \in Nat /\ Limit[e] \in Nat
    BY <2>1, ShortestFacts DEF RateInv
  <2>4. recent \subseteq old \cup cur
    <3> SUFFICES ASSUME NEW i \in recent, i \notin old \cup cur PROVE FALSE
      OBVIOUS
    <3>1. i \in HitsOf(c, e) /\ now - hits[i].at <= Window[e] /\ hits[i].at \in Int
      BY <2>1 DEF HitsOf, Logged
    <3>2. hits[i].at + Window[e] < start /\ start <= now
      BY <2>2, <3>1 DEF RoundsAre
    <3> QED BY <2>3, <3>1, <3>2
  <2>5. IsFiniteSet(old) /\ IsFiniteSet(cur)
    <3>1. IsFiniteSet(1..ops)
      BY <2>1, FS_Interval DEF Logged
    <3> QED BY <3>1, FS_Subset
  <2>6. /\ IsFiniteSet(old \cup cur)
        /\ Cardinality(old \cup cur) <= Cardinality(old) + Cardinality(cur)
    <3>1. IsFiniteSet(old \cup cur)
      BY <2>5, FS_Union
    <3>2. IsFiniteSet(old \cap cur) /\ Cardinality(old \cap cur) \in Nat
      BY <2>5, FS_Intersection, FS_CardinalityType
    <3>3. Cardinality(old \cup cur)
            = Cardinality(old) + Cardinality(cur) - Cardinality(old \cap cur)
      BY <2>5, FS_Union
    <3> QED BY <2>5, <3>1, <3>2, <3>3, FS_CardinalityType
  <2>7. Cardinality(recent) <= Cardinality(old \cup cur)
        /\ Cardinality(recent) \in Nat /\ Cardinality(old \cup cur) \in Nat
    BY <2>4, <2>6, FS_Subset, FS_CardinalityType
  <2>8. Cardinality(old) <= Limit[e] /\ Cardinality(cur) <= Limit[e]
    BY <2>2 DEF RoundsAre
  <2>9. Cardinality(old) \in Nat /\ Cardinality(cur) \in Nat
    BY <2>5, FS_CardinalityType
  <2> QED BY <2>3, <2>6, <2>7, <2>8, <2>9
<1> QED BY <1>1, LimitStart, LimitStep, PTL DEF Spec
=============================================================================
