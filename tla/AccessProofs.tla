---------------------------- MODULE AccessProofs ----------------------------
(***************************************************************************)
(* Proofs about MCAccounts, which extends Sessions.  The first part is     *)
(* about Sessions, for any number of requests, users and tokens.  Both of  *)
(* its action properties rest on one fact of the state: a revocation is    *)
(* never undone.  That needs the times written into the rows to be later   *)
(* than Never, whichever request writes them and however long it waited,   *)
(* and it is what lets a request that decided on reuse rely on what it     *)
(* read before it waited for the family's rows.                            *)
(*                                                                         *)
(* The second part is what the theorems of AccountsProofs say of           *)
(* AccountsSpec.  That takes the steps of one module and leaves the others *)
(* alone, so each behaviour of it is one of that module, on the instance   *)
(* MCAccounts chooses; the theorem that holds for every value of the       *)
(* constants is cited for these values.  The long DEF lists only say that  *)
(* the two instances of a definition are the same formula.                 *)
(***************************************************************************)
EXTENDS MCAccounts, TLAPS

Token == [family : Families, user : Users, revoked : 0..MaxTime, expires : 1..(MaxTime + TTL)]

Request ==
    [pc : {"idle", "locked", "reuse", "issue", "update"},
     user : Users \union {Never}, family : Families \union {Never}, row : Nat,
     wasRevoked : 0..MaxTime, now : 0..MaxTime, sv : 0..MaxChanges, targets : SUBSET Nat,
     kind : {"none", "logout", "revoke", "password"}]

Typed ==
    /\ tokens \in Seq(Token) /\ Len(tokens) <= MaxTokens
    /\ account \in [Users -> [active : BOOLEAN, sv : 0..MaxChanges]]
    /\ clock \in 1..MaxTime
    /\ req \in [Requests -> Request]

\* What the request r, begun before the tokens ts were as they are, may still rely on.
Sound(ts, r) ==
    /\ r.row \in {Never} \union 1..Len(ts) /\ r.targets \subseteq 1..Len(ts)
    /\ r.pc \in {"locked", "reuse", "issue"} =>
         /\ r.now # Never /\ r.user \in Users /\ r.family \in Families
         /\ r.wasRevoked # Never => r.row # Never /\ ts[r.row].revoked # Never
    /\ r.pc \in {"locked", "reuse"} => r.row # Never
    /\ r.pc = "update" => r.user \in Users
    /\ r.pc = "reuse" /\ r.now - r.wasRevoked <= Grace =>
         \A i \in r.targets : ts[i].revoked = Never => ts[i].expires <= r.now

SessionsInv == Typed /\ \A q \in Requests : Sound(tokens, req[q])

\* Rows are added, and never deleted or taken back from their revocation.
Kept(ts, more) ==
    /\ Len(more) >= Len(ts)
    /\ \A i \in 1..Len(ts) : /\ more[i].family = ts[i].family /\ more[i].expires = ts[i].expires
                             /\ ts[i].revoked # Never => more[i].revoked # Never

-----------------------------------------------------------------------------
\* What a request relies on survives any such change of the rows.
LEMMA KeptSound ==
  ASSUME NEW ts \in Seq(Token), NEW more \in Seq(Token), Kept(ts, more),
         NEW r \in Request, Sound(ts, r)
  PROVE  Sound(more, r)
<1>1. Len(ts) \in Nat /\ Len(more) \in Nat /\ 1..Len(ts) \subseteq 1..Len(more)
  BY DEF Kept
<1> QED
  BY <1>1 DEF Sound, Kept, Never

\* A request's own step.
LEMMA StepKeeps ==
  ASSUME SessionsInv, NEW q \in Requests, NEW r \in Request, Sound(tokens, r), Step(q, r),
         UNCHANGED <<tokens, account, clock>>
  PROVE  SessionsInv'
<1>1. req'[q] = r /\ \A p \in Requests : p # q => req'[p] = req[p]
  BY DEF SessionsInv, Typed, Step
<1>2. Typed'
  BY DEF SessionsInv, Typed, Step
<1> QED
  BY <1>1, <1>2 DEF SessionsInv

\* An idle request relies on nothing.
LEMMA IdleSound ==
  ASSUME NEW ts \in Seq(Token)
  PROVE  Idle \in Request /\ Sound(ts, Idle) /\ Idle.pc = "idle"
BY SessionsAssumption DEF Idle, Request, Sound, Never

\* The commit with which a request ends.
LEMMA WriteKeeps ==
  ASSUME SessionsInv, NEW q \in Requests, Done(q), tokens' \in Seq(Token),
         Len(tokens') <= MaxTokens, Kept(tokens, tokens'),
         account' \in [Users -> [active : BOOLEAN, sv : 0..MaxChanges]], clock' = clock
  PROVE  SessionsInv'
<1>1. req'[q] = Idle /\ \A p \in Requests : p # q => req'[p] = req[p]
  BY DEF SessionsInv, Typed, Step, Done
<1>2. Typed'
  BY IdleSound DEF SessionsInv, Typed, Step, Done
<1>3. \A p \in Requests : Sound(tokens', req'[p])
  BY <1>1, IdleSound, KeptSound DEF SessionsInv, Typed
<1> QED
  BY <1>2, <1>3 DEF SessionsInv

\* A revocation of the rows S at the time x.
RevokedAt(ts, S, x) ==
    [i \in DOMAIN ts |-> IF i \in S THEN [ts[i] EXCEPT !.revoked = x] ELSE ts[i]]

\* It keeps every row, and leaves the others as they are.
LEMMA Revoked ==
  ASSUME NEW ts \in Seq(Token), NEW S, NEW x \in 1..MaxTime
  PROVE  /\ RevokedAt(ts, S, x) \in Seq(Token) /\ Len(RevokedAt(ts, S, x)) = Len(ts)
         /\ Kept(ts, RevokedAt(ts, S, x))
         /\ \A i \in 1..Len(ts) : i \notin S => RevokedAt(ts, S, x)[i] = ts[i]
<1> DEFINE more == RevokedAt(ts, S, x)
<1>1. DOMAIN ts = 1..Len(ts) /\ Len(ts) \in Nat /\ x \in 0..MaxTime /\ x # Never
  BY SessionsAssumption DEF Never
<1>2. ASSUME NEW i \in 1..Len(ts)
      PROVE  /\ more[i] \in Token /\ more[i].family = ts[i].family
             /\ more[i].expires = ts[i].expires
             /\ i \in S => more[i].revoked = x
             /\ i \notin S => more[i] = ts[i]
  <2>1. ts[i] \in Token /\ i \in DOMAIN ts
    BY <1>1
  <2>2. more[i] = IF i \in S THEN [ts[i] EXCEPT !.revoked = x] ELSE ts[i]
    BY <2>1 DEF RevokedAt
  <2> HIDE DEF more
  <2> QED
    BY <1>1, <2>1, <2>2 DEF Token
<1>3. more \in Seq(Token) /\ Len(more) = Len(ts)
  <2>1. DOMAIN more = 1..Len(ts)
    BY <1>1 DEF RevokedAt
  <2>2. more = [i \in 1..Len(ts) |-> more[i]]
    BY <2>1 DEF RevokedAt
  <2> HIDE DEF more
  <2> QED
    BY <1>1, <1>2, <2>2
<1> HIDE DEF more
<1>4. Kept(ts, more)
  <2>1. \A i \in 1..Len(ts) : ts[i].revoked # Never => more[i].revoked # Never
    BY <1>1, <1>2
  <2> QED
    BY <1>1, <1>2, <1>3, <2>1 DEF Kept
<1> QED
  BY <1>2, <1>3, <1>4 DEF more

\* No row and no request: the invariant holds at the start.
LEMMA SessionsInit == Init => SessionsInv
<1> SUFFICES ASSUME Init PROVE SessionsInv
  OBVIOUS
<1>1. tokens = <<>> /\ tokens \in Seq(Token) /\ Len(tokens) = 0
  BY DEF Init
<1>2. Len(tokens) <= MaxTokens /\ clock \in 1..MaxTime /\ 0 \in 0..MaxChanges
  BY <1>1, SessionsAssumption DEF Init
<1>3. \A q \in Requests : req[q] = Idle /\ Idle \in Request /\ Sound(tokens, Idle)
  BY <1>1, IdleSound DEF Init
<1>4. /\ req \in [Requests -> Request]
      /\ account \in [Users -> [active : BOOLEAN, sv : 0..MaxChanges]]
  BY <1>2, <1>3, IdleSound DEF Init
<1> QED
  BY <1>1, <1>2, <1>3, <1>4 DEF SessionsInv, Typed

\* What each step does to the rows and the clock.
LEMMA SessionsNext ==
  SessionsInv /\ [Next]_sessionVars =>
    /\ SessionsInv'
    /\ Kept(tokens, tokens')
<1> SUFFICES ASSUME SessionsInv, [Next]_sessionVars
             PROVE  SessionsInv' /\ Kept(tokens, tokens')
  OBVIOUS
<1>0. /\ tokens \in Seq(Token) /\ Len(tokens) \in Nat /\ DOMAIN tokens = 1..Len(tokens)
      /\ clock \in 1..MaxTime /\ clock \in 0..MaxTime /\ clock # Never
      /\ account \in [Users -> [active : BOOLEAN, sv : 0..MaxChanges]]
      /\ \A q \in Requests : req[q] \in Request /\ Sound(tokens, req[q])
      /\ 0 \in 0..MaxChanges /\ MaxTime \in Nat
  BY SessionsAssumption DEF SessionsInv, Typed, Never
<1>a. Kept(tokens, tokens)
  BY <1>0 DEF Kept
<1>b. ASSUME NEW q \in Requests, NEW r \in Request, Sound(tokens, r), Step(q, r),
             UNCHANGED <<tokens, account, clock>>
      PROVE  SessionsInv' /\ Kept(tokens, tokens')
  BY <1>a, <1>b, StepKeeps
<1>1. ASSUME NEW q \in Requests, NEW u \in Users, NEW f \in Families, Login(q, u, f)
      PROVE  SessionsInv' /\ Kept(tokens, tokens')
  <2> DEFINE r == [Idle EXCEPT !.pc = "issue", !.user = u, !.family = f, !.now = clock,
                               !.sv = account[u].sv]
  <2>1. r \in Request
    BY <1>0, IdleSound DEF Request
  <2>2. Sound(tokens, r)
    BY <1>0 DEF Sound, Idle, Never
  <2> QED
    BY <1>1, <1>b, <2>1, <2>2 DEF Login
<1>2. ASSUME NEW q \in Requests, NEW i \in DOMAIN tokens, RotateLock(q, i)
      PROVE  SessionsInv' /\ Kept(tokens, tokens')
  <2> DEFINE r == [Idle EXCEPT !.pc = "locked", !.row = i, !.now = clock,
                               !.user = tokens[i].user, !.family = tokens[i].family,
                               !.wasRevoked = tokens[i].revoked]
  <2>0. tokens[i] \in Token /\ i \in 1..Len(tokens)
    BY <1>0
  <2>1. r \in Request
    <3>1. /\ tokens[i].user \in Users /\ tokens[i].family \in Families
          /\ tokens[i].revoked \in 0..MaxTime /\ i \in Nat
      BY <1>0, <2>0 DEF Token
    <3> QED
      BY <1>0, <3>1, IdleSound DEF Request
  <2>2. Sound(tokens, r)
    BY <1>0, <2>0 DEF Sound, Idle, Never, Token
  <2> QED
    BY <1>2, <1>b, <2>1, <2>2 DEF RotateLock
<1>3. ASSUME NEW q \in Requests, RotateJudge(q)
      PROVE  SessionsInv' /\ Kept(tokens, tokens')
  <2>0. req[q].pc = "locked" /\ req[q] \in Request /\ Sound(tokens, req[q])
        /\ UNCHANGED <<tokens, account, clock>>
    BY <1>0, <1>3 DEF RotateJudge
  <2>1. CASE Reused(q) /\ Step(q, [req[q] EXCEPT !.pc = "reuse", !.targets = Family(req[q].family)])
    <3> DEFINE r == [req[q] EXCEPT !.pc = "reuse", !.targets = Family(req[q].family)]
    <3>1. /\ Family(req[q].family) \subseteq 1..Len(tokens)
          /\ Family(req[q].family) \in SUBSET Nat
      BY <1>0 DEF Family
    <3>2. r \in Request
      BY <1>0, <2>0, <3>1 DEF Request
    <3>3. req[q].row \in 1..Len(tokens) /\ tokens[req[q].row].revoked # Never
      BY <2>0, <2>1 DEF Sound, Reused, Never
    <3>4. ASSUME WithinGrace(q), NEW i \in Family(req[q].family), tokens[i].revoked = Never
          PROVE  tokens[i].expires <= req[q].now
      <4>1. i # req[q].row /\ ~(tokens[i].expires > req[q].now)
        BY <2>1, <3>3, <3>4 DEF Reused, HasLiveSuccessor, Unrevoked
      <4>2. tokens[i] \in Token
        BY <1>0, <3>1
      <4> QED
        BY <2>0, <4>1, <4>2, SessionsAssumption DEF Token, Request
    <3>5. Sound(tokens, r)
      BY <2>0, <3>1, <3>3, <3>4 DEF Sound, WithinGrace, Request, Never
    <3> QED
      BY <1>b, <2>0, <2>1, <3>2, <3>5
  <2>2. CASE Done(q)
    BY <1>0, <1>b, <2>0, <2>2, IdleSound DEF Done
  <2>3. CASE Step(q, [req[q] EXCEPT !.pc = "issue", !.sv = account[req[q].user].sv])
    <3> DEFINE r == [req[q] EXCEPT !.pc = "issue", !.sv = account[req[q].user].sv]
    <3>1. req[q].user \in Users
      BY <2>0 DEF Sound
    <3>2. r \in Request
      BY <1>0, <2>0, <3>1 DEF Request
    <3>3. Sound(tokens, r)
      BY <2>0 DEF Sound, Request
    <3> QED
      BY <1>b, <2>0, <2>3, <3>2, <3>3
  <2> QED
    BY <1>3, <2>1, <2>2, <2>3 DEF RotateJudge
<1>4. ASSUME NEW q \in Requests, RevokeFamily(q)
      PROVE  SessionsInv' /\ Kept(tokens, tokens')
  <2>1. req[q].now \in 1..MaxTime
    BY <1>0, <1>4 DEF RevokeFamily, Sound, Request, Never
  <2>2. /\ tokens' \in Seq(Token) /\ Len(tokens') = Len(tokens) /\ Kept(tokens, tokens')
    <3>1. tokens' = RevokedAt(tokens, req[q].targets, req[q].now)
      BY <1>4 DEF RevokeFamily, RevokedAt
    <3> QED
      BY <1>0, <2>1, <3>1, Revoked
  <2>3. Done(q) /\ account' = account /\ clock' = clock
    BY <1>4 DEF RevokeFamily
  <2> QED
    BY <1>0, <2>2, <2>3, WriteKeeps DEF SessionsInv, Typed
<1>5. ASSUME NEW q \in Requests, Deadlocked(q)
      PROVE  SessionsInv' /\ Kept(tokens, tokens')
  BY <1>0, <1>5, <1>b, IdleSound DEF Deadlocked, Done
<1>6. ASSUME NEW q \in Requests, Issue(q)
      PROVE  SessionsInv' /\ Kept(tokens, tokens')
  <2> DEFINE r == req[q]
             S == {i \in DOMAIN tokens : i = r.row /\ r.wasRevoked = Never}
             kept == RevokedAt(tokens, S, r.now)
             new == [family |-> r.family, user |-> r.user, revoked |-> Never,
                     expires |-> Expiry(r)]
  <2>1. /\ r \in Request /\ r.now \in 1..MaxTime /\ r.user \in Users /\ r.family \in Families
        /\ Len(tokens) < MaxTokens /\ Done(q) /\ account' = account /\ clock' = clock
    BY <1>0, <1>6 DEF Issue, Sound, Request, Never
  <2>2. /\ kept \in Seq(Token) /\ Len(kept) = Len(tokens) /\ Kept(tokens, kept)
    BY <1>0, <2>1, Revoked
  <2>3. new \in Token
    BY <1>0, <2>1, SessionsAssumption DEF Token, Expiry, Never
  <2>4. tokens' = Append(kept, new)
    <3>1. kept = [i \in DOMAIN tokens |->
                    IF i = r.row /\ r.wasRevoked = Never
                    THEN [tokens[i] EXCEPT !.revoked = r.now] ELSE tokens[i]]
      BY DEF RevokedAt
    <3> QED
      BY <1>6, <3>1, Zenon DEF Issue
  <2> HIDE DEF kept, new, S, r
  <2>5. /\ tokens' \in Seq(Token) /\ Len(tokens') = Len(tokens) + 1
        /\ \A i \in 1..Len(tokens) : tokens'[i] = kept[i]
    BY <1>0, <2>2, <2>3, <2>4
  <2>6. Kept(tokens, tokens')
    BY <1>0, <2>2, <2>5 DEF Kept
  <2>7. Len(tokens') <= MaxTokens
    BY <1>0, <2>1, <2>5, SessionsAssumption
  <2> QED
    BY <1>0, <2>1, <2>5, <2>6, <2>7, WriteKeeps
<1>7. ASSUME NEW q \in Requests, NEW kind \in {"logout", "revoke", "password"}, NEW u \in Users,
             NEW S \in SUBSET (1..Len(tokens)), NEW v \in 0..MaxChanges, Begin(q, kind, u, S, v)
      PROVE  SessionsInv' /\ Kept(tokens, tokens')
  <2> DEFINE r == [Idle EXCEPT !.pc = "update", !.kind = kind, !.user = u, !.targets = S, !.sv = v]
  <2>1. r \in Request
    <3>1. S \in SUBSET Nat
      BY <1>0
    <3> QED
      BY <1>0, <3>1, IdleSound DEF Request
  <2>2. Sound(tokens, r)
    BY <1>0 DEF Sound, Idle, Never
  <2> QED
    BY <1>7, <1>b, <2>1, <2>2 DEF Begin
<1>c. \A S : Unrevoked(S) \subseteq S
  BY DEF Unrevoked
<1>8. ASSUME NEW q \in Requests,
             Logout(q) \/ RevokeSession(q) \/ RevokeOthers(q) \/ ChangePassword(q)
      PROVE  SessionsInv' /\ Kept(tokens, tokens')
  <2>1. CASE Logout(q)
    <3>1. PICK i \in DOMAIN tokens : Begin(q, "logout", tokens[i].user, {i}, 0)
      BY <2>1 DEF Logout
    <3>2. tokens[i] \in Token /\ {i} \in SUBSET (1..Len(tokens))
      BY <1>0
    <3>3. tokens[i].user \in Users
      BY <3>2 DEF Token
    <3> QED
      BY <1>0, <1>7, <3>1, <3>2, <3>3
  <2>2. CASE RevokeSession(q)
    <3>1. PICK f \in Families, u \in Users : Begin(q, "revoke", u, Unrevoked(Family(f)), 0)
      BY <2>2 DEF RevokeSession
    <3>2. Unrevoked(Family(f)) \in SUBSET (1..Len(tokens))
      BY <1>0, <1>c DEF Family
    <3> QED
      BY <1>0, <1>7, <3>1, <3>2
  <2>3. CASE RevokeOthers(q)
    <3>1. PICK u \in Users, f \in Families \union {Never} :
            Begin(q, "revoke", u, Unrevoked(OfUser(u) \ Family(f)), 0)
      BY <2>3 DEF RevokeOthers
    <3>2. Unrevoked(OfUser(u) \ Family(f)) \in SUBSET (1..Len(tokens))
      BY <1>0, <1>c DEF OfUser
    <3> QED
      BY <1>0, <1>7, <3>1, <3>2
  <2>4. CASE ChangePassword(q)
    <3>1. PICK u \in Users : /\ account[u].sv < MaxChanges
                             /\ Begin(q, "password", u, Unrevoked(OfUser(u)), account[u].sv + 1)
      BY <2>4 DEF ChangePassword
    <3>2. Unrevoked(OfUser(u)) \in SUBSET (1..Len(tokens))
      BY <1>0, <1>c DEF OfUser
    <3>3. account[u].sv + 1 \in 0..MaxChanges
      BY <1>0, <3>1, SessionsAssumption
    <3> QED
      BY <1>0, <1>7, <3>1, <3>2, <3>3
  <2> QED
    BY <1>8, <2>1, <2>2, <2>3, <2>4
<1>9. ASSUME NEW q \in Requests, Update(q)
      PROVE  SessionsInv' /\ Kept(tokens, tokens')
  <2> DEFINE r == req[q]
             hit == IF r.kind = "logout" THEN r.targets ELSE Unrevoked(r.targets)
  <2>1. /\ r \in Request /\ r.user \in Users /\ Done(q) /\ clock' = clock
        /\ account' = IF r.kind = "password" THEN [account EXCEPT ![r.user].sv = r.sv] ELSE account
        /\ tokens' = RevokedAt(tokens, hit, clock)
    BY <1>0, <1>9 DEF Update, Sound, RevokedAt
  <2> HIDE DEF hit
  <2>2. /\ tokens' \in Seq(Token) /\ Len(tokens') = Len(tokens) /\ Kept(tokens, tokens')
    BY <1>0, <2>1, Revoked
  <2>3. account' \in [Users -> [active : BOOLEAN, sv : 0..MaxChanges]]
    BY <1>0, <2>1 DEF Request
  <2> QED
    BY <1>0, <2>1, <2>2, <2>3, WriteKeeps DEF SessionsInv, Typed
<1>10. ASSUME NEW u \in Users, SetActive(u)
       PROVE  SessionsInv' /\ Kept(tokens, tokens')
  <2>1. account' \in [Users -> [active : BOOLEAN, sv : 0..MaxChanges]]
    BY <1>0, <1>10 DEF SetActive
  <2> QED
    BY <1>10, <1>a, <2>1 DEF SetActive, SessionsInv, Typed
<1>11. ASSUME Tick PROVE SessionsInv' /\ Kept(tokens, tokens')
  <2>1. clock' \in 1..MaxTime
    BY <1>0, <1>11 DEF Tick
  <2> QED
    BY <1>11, <1>a, <2>1 DEF Tick, SessionsInv, Typed
<1>12. CASE UNCHANGED sessionVars
  BY <1>12, <1>a DEF sessionVars, SessionsInv, Typed
<1> QED
  BY <1>1, <1>2, <1>3, <1>4, <1>5, <1>6, <1>8, <1>9, <1>10, <1>11, <1>12
     DEF Next, Rotate, Revoke

\* The invariant holds throughout.
LEMMA SessionsAlways == Spec => []SessionsInv
BY SessionsInit, SessionsNext, PTL DEF Spec

\* The types: every request holds a row and targets that exist.
THEOREM TypeCorrect == Spec => []TypeOK
<1>1. ASSUME SessionsInv PROVE TypeOK
  <2>1. DOMAIN tokens = 1..Len(tokens) /\ \A i \in DOMAIN tokens : tokens[i] \in Token
    BY <1>1 DEF SessionsInv, Typed
  <2>2. \A q \in Requests : req[q] \in Request /\ Sound(tokens, req[q])
    BY <1>1 DEF SessionsInv, Typed
  <2> QED
    BY <1>1, <2>1, <2>2 DEF TypeOK, SessionsInv, Typed, Token, Request, Sound
<1> QED
  BY <1>1, SessionsAlways, PTL

-----------------------------------------------------------------------------
(* The end of a session, as a function of the rows, the clock and the requests. *)

Reuses(ts, r) ==
    /\ r.wasRevoked # Never
    /\ ~(/\ r.now - r.wasRevoked <= Grace
         /\ \E i \in DOMAIN ts : /\ ts[i].family = r.family /\ ts[i].revoked = Never
                                 /\ i # r.row /\ ts[i].expires > r.now)

Carries(ts, r, f) ==
    /\ r.family = f
    /\ \/ r.pc = "issue"
       \/ r.pc = "locked" /\ ~Reuses(ts, r) /\ ts[r.row].expires >= r.now

Dead(ts, c, f) ==
    /\ \E i \in DOMAIN ts : ts[i].family = f
    /\ \A i \in DOMAIN ts : ts[i].family = f => ~(ts[i].revoked = Never /\ ts[i].expires >= c)

\* Ended is that, before and after a step.
LEMMA EndedIs ==
  ASSUME NEW f
  PROVE  /\ Ended(f) <=> Dead(tokens, clock, f) /\ \A q \in Requests : ~Carries(tokens, req[q], f)
         /\ Ended(f)' <=> Dead(tokens', clock', f) /\ \A q \in Requests : ~Carries(tokens', req'[q], f)
<1>1. /\ (Family(f) # {}) <=> \E i \in DOMAIN tokens : tokens[i].family = f
      /\ (Family(f) # {})' <=> \E i \in DOMAIN tokens' : tokens'[i].family = f
  BY DEF Family
<1>2. ASSUME NEW q
      PROVE  /\ Reused(q) <=> Reuses(tokens, req[q])
             /\ Reused(q)' <=> Reuses(tokens', req'[q])
  BY DEF Reused, WithinGrace, HasLiveSuccessor, Unrevoked, Family, Reuses
<1>3. ASSUME NEW q
      PROVE  /\ Carrying(q, f) <=> Carries(tokens, req[q], f)
             /\ Carrying(q, f)' <=> Carries(tokens', req'[q], f)
  BY <1>2 DEF Carrying, Carries
<1>4. /\ (\A i \in Family(f) : ~Live(i)) <=>
           \A i \in DOMAIN tokens : tokens[i].family = f =>
               ~(tokens[i].revoked = Never /\ tokens[i].expires >= clock)
      /\ (\A i \in Family(f) : ~Live(i))' <=>
           \A i \in DOMAIN tokens' : tokens'[i].family = f =>
               ~(tokens'[i].revoked = Never /\ tokens'[i].expires >= clock')
  BY DEF Family, Live
<1> QED
  BY <1>1, <1>3, <1>4 DEF Ended, Dead

\* Unless a row of the family is added, it stays dead, and who could not carry it on cannot.
LEMMA DeadStays ==
  ASSUME NEW ts \in Seq(Token), NEW more \in Seq(Token), Kept(ts, more), NEW f,
         \A i \in 1..Len(more) : i > Len(ts) => more[i].family # f,
         NEW c \in Nat, NEW d \in Nat, c <= d, Dead(ts, c, f)
  PROVE  /\ Dead(more, d, f)
         /\ \A r \in Request : Sound(ts, r) /\ ~Carries(ts, r, f) => ~Carries(more, r, f)
<1>0. /\ DOMAIN ts = 1..Len(ts) /\ DOMAIN more = 1..Len(more) /\ Len(ts) \in Nat
      /\ Len(more) \in Nat /\ Len(ts) <= Len(more)
  BY DEF Kept
<1>1. ASSUME NEW i \in 1..Len(more), more[i].family = f
      PROVE  /\ i \in 1..Len(ts) /\ ts[i].family = f /\ more[i].expires = ts[i].expires
             /\ more[i].revoked = Never => ts[i].revoked = Never
             /\ ts[i].expires \in Nat
  <2>1. i \in 1..Len(ts)
    BY <1>0, <1>1
  <2>2. ts[i] \in Token
    BY <2>1
  <2>3. /\ more[i].family = ts[i].family /\ more[i].expires = ts[i].expires
        /\ ts[i].revoked # Never => more[i].revoked # Never
    BY <2>1 DEF Kept
  <2>4. ts[i].expires \in Nat
    BY <2>2 DEF Token
  <2> QED
    BY <1>1, <2>1, <2>3, <2>4
<1>2. Dead(more, d, f)
  <2>1. \E i \in DOMAIN more : more[i].family = f
    BY <1>0 DEF Dead, Kept
  <2>2. ASSUME NEW i \in DOMAIN more, more[i].family = f, more[i].revoked = Never,
               more[i].expires >= d
        PROVE  FALSE
    BY <1>0, <1>1, <2>2 DEF Dead
  <2> QED
    BY <2>1, <2>2 DEF Dead
<1>3. ASSUME NEW r \in Request, Sound(ts, r), ~Carries(ts, r, f), Carries(more, r, f) PROVE FALSE
  <2>1. r.family = f /\ r.pc = "locked" /\ ~Reuses(more, r) /\ more[r.row].expires >= r.now
    BY <1>3 DEF Carries
  <2>2. r.row \in 1..Len(ts) /\ more[r.row].expires = ts[r.row].expires
    BY <1>3, <2>1 DEF Sound, Kept, Never
  <2>3. Reuses(ts, r)
    BY <1>3, <2>1, <2>2 DEF Carries
  <2>4. Reuses(more, r)
    BY <1>0, <1>1, <2>1, <2>3 DEF Reuses
  <2> QED
    BY <2>1, <2>4
<1> QED
  BY <1>2, <1>3

\* A session that has ended stays ended.
LEMMA EndedNext ==
  ASSUME SessionsInv, [Next]_sessionVars, NEW f \in Families, Ended(f)
  PROVE  Ended(f)'
<1>0. /\ tokens \in Seq(Token) /\ Len(tokens) \in Nat /\ DOMAIN tokens = 1..Len(tokens)
      /\ clock \in Nat /\ clock \in 1..MaxTime
      /\ \A q \in Requests : req[q] \in Request /\ Sound(tokens, req[q])
  BY SessionsAssumption DEF SessionsInv, Typed
<1>a. /\ tokens' \in Seq(Token) /\ clock' \in Nat /\ Kept(tokens, tokens')
  BY SessionsNext, SessionsAssumption DEF SessionsInv, Typed
<1>b. Dead(tokens, clock, f) /\ \A q \in Requests : ~Carries(tokens, req[q], f)
  BY EndedIs
<1>c. ~Carries(tokens, Idle, f) /\ Sound(tokens, Idle) /\ Idle \in Request
  BY <1>0, IdleSound DEF Carries
\* The steps that add no row of the family.
<1>d. ASSUME NEW q \in Requests, NEW r \in Request, Step(q, r), Sound(tokens, r),
             ~Carries(tokens, r, f), clock <= clock',
             \A i \in 1..Len(tokens') : i > Len(tokens) => tokens'[i].family # f
      PROVE  Ended(f)'
  <2>1. /\ Dead(tokens', clock', f)
        /\ \A x \in Request : Sound(tokens, x) /\ ~Carries(tokens, x, f) => ~Carries(tokens', x, f)
    BY <1>0, <1>a, <1>b, <1>d, DeadStays
  <2>2. \A p \in Requests : req'[p] = IF p = q THEN r ELSE req[p]
    BY <1>d DEF Step, SessionsInv, Typed
  <2>3. \A p \in Requests : ~Carries(tokens', req'[p], f)
    BY <1>0, <1>b, <1>d, <2>1, <2>2
  <2> QED
    BY <2>1, <2>3, EndedIs
<1>e. ASSUME NEW q \in Requests, NEW r \in Request, Step(q, r), Sound(tokens, r),
             ~Carries(tokens, r, f), UNCHANGED <<tokens, account, clock>>
      PROVE  Ended(f)'
  BY <1>0, <1>d, <1>e
<1>f. ASSUME UNCHANGED <<tokens, req>>, clock <= clock' PROVE Ended(f)'
  <2>0. \A i \in 1..Len(tokens') : ~(i > Len(tokens))
    BY <1>0, <1>f
  <2>1. Dead(tokens', clock', f)
    BY <1>0, <1>a, <1>b, <1>f, <2>0, DeadStays
  <2> QED
    BY <1>b, <1>f, <2>1, EndedIs
<1>1. ASSUME NEW q \in Requests, NEW u \in Users, NEW g \in Families, Login(q, u, g)
      PROVE  Ended(f)'
  <2> DEFINE r == [Idle EXCEPT !.pc = "issue", !.user = u, !.family = g, !.now = clock,
                               !.sv = account[u].sv]
  <2>0. 0 \in 0..MaxChanges /\ clock \in 0..MaxTime /\ clock # Never
        /\ account[u].sv \in 0..MaxChanges
    BY <1>0, SessionsAssumption DEF Never, SessionsInv, Typed
  <2>1. g # f
    BY <1>0, <1>1, <1>b DEF Login, FreshFamily, Family, Dead
  <2>2. r \in Request
    BY <1>c, <2>0 DEF Request
  <2>3. Sound(tokens, r) /\ ~Carries(tokens, r, f)
    BY <2>0, <2>1 DEF Sound, Carries, Idle, Never
  <2> QED
    BY <1>1, <1>e, <2>2, <2>3 DEF Login
<1>2. ASSUME NEW q \in Requests, NEW i \in DOMAIN tokens, RotateLock(q, i)
      PROVE  Ended(f)'
  <2> DEFINE r == [Idle EXCEPT !.pc = "locked", !.row = i, !.now = clock,
                               !.user = tokens[i].user, !.family = tokens[i].family,
                               !.wasRevoked = tokens[i].revoked]
  <2>0. /\ tokens[i] \in Token /\ i \in 1..Len(tokens) /\ i \in Nat
        /\ tokens[i].user \in Users /\ tokens[i].family \in Families
        /\ tokens[i].revoked \in 0..MaxTime /\ clock \in 0..MaxTime /\ clock # Never
        /\ tokens[i].expires \in Nat
    <3>1. tokens[i] \in Token /\ i \in 1..Len(tokens)
      BY <1>0
    <3>2. clock \in 0..MaxTime /\ clock # Never /\ MaxTime \in Nat /\ TTL \in Nat
      BY <1>0, SessionsAssumption DEF Never
    <3> QED
      BY <1>0, <3>1, <3>2 DEF Token
  <2>1. r \in Request /\ r.pc = "locked" /\ r.row = i /\ r.now = clock
        /\ r.family = tokens[i].family /\ r.wasRevoked = tokens[i].revoked /\ r.user \in Users
        /\ r.targets = {}
    BY <1>c, <2>0 DEF Request, Idle
  <2>2. Step(q, r) /\ UNCHANGED <<tokens, account, clock>>
    BY <1>2 DEF RotateLock
  <2> HIDE DEF r
  <2>3. Sound(tokens, r)
    BY <1>0, <2>0, <2>1 DEF Sound, Never
  <2>4. ASSUME Carries(tokens, r, f) PROVE FALSE
    <3>1. tokens[i].family = f /\ ~Reuses(tokens, r) /\ tokens[i].expires >= clock
      BY <2>1, <2>4 DEF Carries
    <3>2. tokens[i].revoked # Never
      BY <1>b, <3>1 DEF Dead
    <3>3. PICK j \in DOMAIN tokens : /\ tokens[j].family = f /\ tokens[j].revoked = Never
                                     /\ tokens[j].expires > clock
      BY <2>1, <3>1, <3>2 DEF Reuses
    <3>4. tokens[j] \in Token
      BY <1>0
    <3>5. tokens[j].expires >= clock
      BY <1>0, <3>3, <3>4, SessionsAssumption DEF Token
    <3> QED
      BY <1>b, <3>3, <3>5 DEF Dead
  <2> QED
    BY <1>e, <2>1, <2>2, <2>3, <2>4
<1>3. ASSUME NEW q \in Requests, RotateJudge(q)
      PROVE  Ended(f)'
  <2>0. req[q].pc = "locked" /\ UNCHANGED <<tokens, account, clock>>
    BY <1>3 DEF RotateJudge
  <2>1. req'[q] \in Request /\ Sound(tokens, req'[q])
    BY <2>0, SessionsNext DEF SessionsInv, Typed
  <2>2. \A p \in Requests : p # q => req'[p] = req[p]
    <3>1. PICK r : req' = [req EXCEPT ![q] = r]
      BY <1>3 DEF RotateJudge, Step, Done
    <3> QED
      BY <3>1 DEF SessionsInv, Typed
  <2>3. ~Carries(tokens, req'[q], f)
    <3>1. CASE Step(q, [req[q] EXCEPT !.pc = "reuse", !.targets = Family(req[q].family)])
      <4>1. req'[q].pc = "reuse"
        BY <1>0, <3>1 DEF Step, SessionsInv, Typed, Request
      <4> QED
        BY <4>1 DEF Carries
    <3>2. CASE Done(q)
      BY <1>c, <3>2 DEF Done, Step, SessionsInv, Typed
    <3>3. CASE /\ ~Reused(q) /\ ~Rejected(q)
               /\ Step(q, [req[q] EXCEPT !.pc = "issue", !.sv = account[req[q].user].sv])
      <4>1. req'[q].family = req[q].family
        BY <1>0, <3>3 DEF Step, SessionsInv, Typed, Request
      <4>2. ~(tokens[req[q].row].expires < req[q].now)
        BY <3>3 DEF Rejected
      <4>3. req[q].row \in 1..Len(tokens)
        BY <1>0, <2>0 DEF Sound, Never
      <4>4. tokens[req[q].row].expires >= req[q].now
        <5>1. tokens[req[q].row] \in Token /\ req[q] \in Request
          BY <1>0, <4>3
        <5>2. tokens[req[q].row].expires \in Nat /\ req[q].now \in Nat
          BY <5>1, SessionsAssumption DEF Token, Request
        <5> QED
          BY <4>2, <5>2
      <4>5. ~Reuses(tokens, req[q])
        BY <3>3 DEF Reused, WithinGrace, HasLiveSuccessor, Unrevoked, Family, Reuses
      <4>6. req[q].family # f
        BY <1>b, <2>0, <4>4, <4>5 DEF Carries
      <4> QED
        BY <4>1, <4>6 DEF Carries
    <3> QED
      BY <1>3, <3>1, <3>2, <3>3 DEF RotateJudge
  <2>4. Dead(tokens', clock', f) /\ \A p \in Requests : ~Carries(tokens', req'[p], f)
    BY <1>b, <2>0, <2>2, <2>3
  <2> QED
    BY <2>4, EndedIs
<1>4. ASSUME NEW q \in Requests, Done(q), Len(tokens') = Len(tokens), clock' = clock
      PROVE  Ended(f)'
  BY <1>0, <1>4, <1>c, <1>d DEF Done
<1>5. ASSUME NEW q \in Requests, RevokeFamily(q) \/ Deadlocked(q) \/ Update(q)
      PROVE  Ended(f)'
  <2>1. Done(q) /\ clock' = clock
    BY <1>5 DEF RevokeFamily, Deadlocked, Update
  <2>2. Len(tokens') = Len(tokens)
    <3>1. tokens' = tokens \/ DOMAIN tokens' = DOMAIN tokens
      BY <1>5 DEF RevokeFamily, Deadlocked, Update
    <3> QED
      BY <1>0, <1>a, <3>1
  <2> QED
    BY <1>4, <2>1, <2>2
<1>6. ASSUME NEW q \in Requests, Issue(q)
      PROVE  Ended(f)'
  <2>1. req[q].pc = "issue" /\ Done(q) /\ clock' = clock
    BY <1>6 DEF Issue
  <2>2. req[q].family # f
    BY <1>b, <2>1 DEF Carries
  <2>3. /\ Len(tokens') = Len(tokens) + 1
        /\ tokens'[Len(tokens) + 1].family = req[q].family
    <3> DEFINE r == req[q]
               S == {i \in DOMAIN tokens : i = r.row /\ r.wasRevoked = Never}
               kept == RevokedAt(tokens, S, r.now)
               new == [family |-> r.family, user |-> r.user, revoked |-> Never,
                       expires |-> Expiry(r)]
    <3>1. r.now \in 1..MaxTime
      BY <1>0, <2>1 DEF Sound, Request, Never
    <3>2. kept \in Seq(Token) /\ Len(kept) = Len(tokens)
      BY <1>0, <3>1, Revoked
    <3>3. kept = [i \in DOMAIN tokens |->
                    IF i = r.row /\ r.wasRevoked = Never
                    THEN [tokens[i] EXCEPT !.revoked = r.now] ELSE tokens[i]]
      BY DEF RevokedAt
    <3>4. tokens' = Append(kept, new) /\ new.family = r.family
      BY <1>6, <3>3, Zenon DEF Issue
    <3> HIDE DEF kept, new
    <3> QED
      BY <1>0, <3>2, <3>4
  <2>4. \A i \in 1..Len(tokens') : i > Len(tokens) => tokens'[i].family # f
    BY <1>0, <2>2, <2>3
  <2> QED
    BY <1>0, <1>c, <1>d, <2>1, <2>4 DEF Done
<1>7. ASSUME NEW q \in Requests, NEW kind, NEW u, NEW S, NEW v, Begin(q, kind, u, S, v)
      PROVE  Ended(f)'
  <2>0. UNCHANGED <<tokens, account, clock>>
    BY <1>7 DEF Begin
  <2>1. req'[q].pc = "update" /\ \A p \in Requests : p # q => req'[p] = req[p]
    BY <1>7 DEF Begin, Step, Idle, SessionsInv, Typed
  <2>2. \A p \in Requests : ~Carries(tokens', req'[p], f)
    BY <1>b, <2>0, <2>1 DEF Carries
  <2> QED
    BY <1>b, <2>0, <2>2, EndedIs
<1>8. ASSUME NEW q \in Requests,
             Logout(q) \/ RevokeSession(q) \/ RevokeOthers(q) \/ ChangePassword(q)
      PROVE  Ended(f)'
  BY <1>7, <1>8 DEF Logout, RevokeSession, RevokeOthers, ChangePassword
<1>9. ASSUME (\E u \in Users : SetActive(u)) \/ Tick \/ UNCHANGED sessionVars
      PROVE  Ended(f)'
  BY <1>0, <1>9, <1>f DEF SetActive, Tick, sessionVars
<1> QED
  BY <1>1, <1>2, <1>3, <1>5, <1>6, <1>8, <1>9 DEF Next, Rotate, Revoke

\* A session that has ended never comes back, and the answer to reuse takes a live token
\* away only when the token presented was revoked longer than the grace window before.
THEOREM SessionsEndAlways == Spec => SessionsEnd
<1>1. SessionsInv /\ [Next]_sessionVars => [\A f \in Families : Ended(f) => Ended(f)']_sessionVars
  BY EndedNext
<1>2. SessionsInv =>
        \A q \in Requests :
          (req[q].pc = "reuse" /\ \E i \in Unrevoked(req[q].targets) :
              tokens[i].expires > req[q].now /\ tokens'[i].revoked # Never)
            => ~WithinGrace(q)
  <2> SUFFICES ASSUME SessionsInv, NEW q \in Requests, req[q].pc = "reuse", WithinGrace(q),
                      NEW i \in Unrevoked(req[q].targets), tokens[i].expires > req[q].now
               PROVE  FALSE
    BY DEF WithinGrace
  <2>1. Sound(tokens, req[q]) /\ req[q] \in Request
    BY DEF SessionsInv, Typed
  <2>2. i \in 1..Len(tokens) /\ tokens[i].revoked = Never /\ tokens[i].expires <= req[q].now
    BY <2>1 DEF Unrevoked, Sound, WithinGrace
  <2>3. tokens[i] \in Token
    BY <2>2 DEF SessionsInv, Typed
  <2> QED
    BY <2>1, <2>2, <2>3, SessionsAssumption DEF Token, Request
<1> QED
  BY <1>1, <1>2, SessionsAlways, PTL DEF Spec, SessionsEnd, EndedStaysEnded, OnlyLateReuseRevokes

-----------------------------------------------------------------------------

\* The requests of Accounts, Roles and DeviceLogin.
Shared == INSTANCE AccountsProofs
    WITH Emails <- {e1, e2}, Identities <- {id1}, MaxLinks <- 2, MaxInvites <- 2,
         Clients <- Requests, MaxLogins <- 2, MaxRotations <- 3,
         Permissions <- {read, write}, Holders <- {u1}, MaxVersion <- 4,
         Users <- {}, Keys <- {}, Prefixes <- {}, Templates <- {}, Granting <- {},
         MaxLifetime <- 0, MaxChanges <- 0, MaxTime <- 0,
         Browsers <- {}, People <- {}, Orgs <- {}, Logins <- {}, MaxEdits <- 0,
         Spenders <- {"ann", "bob"}, Caps <- {1}, Charged <- TRUE, MaxVirtual <- 2,
         Models <- {"a", "b"}, Chat <- {"a", "b"}, Native <- {}, InUse <- {}, Patchers <- {"p"},
         Replays <- Requests, MaxUpdates <- 2, MaxDeployed <- 2

\* One request: the credentials of a member, and the claims of two organizations.
OneRequest == INSTANCE AccountsProofs
    WITH Requests <- {"r1"}, Users <- {"ann"}, Keys <- {"k1", "k2"}, Prefixes <- {"x", "y"},
         Templates <- {"reader"}, Granting <- {}, MaxLifetime <- 1, MaxChanges <- 2, MaxTime <- 2,
         Browsers <- {"b1"}, People <- {"ann"}, Orgs <- {"o1", "o2"}, Logins <- {"l1"}, MaxEdits <- 2,
         Emails <- {}, Identities <- {}, MaxLinks <- 0, MaxInvites <- 0,
         Clients <- {}, MaxLogins <- 0, MaxRotations <- 0,
         Permissions <- {}, Holders <- {}, MaxVersion <- 0,
         Spenders <- {}, Caps <- {}, Charged <- TRUE, MaxVirtual <- 0,
         Models <- {"a", "b", "tei"}, Chat <- {"a", "b"}, Native <- {"tei"}, InUse <- {"tei"},
         Patchers <- Requests, Replays <- {}, MaxUpdates <- 4, MaxDeployed <- 3

\* Two requests: the members of a workspace, and two browsers at one login.
TwoRequests == INSTANCE AccountsProofs
    WITH Requests <- {"r1", "r2"}, Users <- {"ann", "bob"}, Keys <- {}, Prefixes <- {},
         Templates <- {}, Granting <- {}, MaxLifetime <- 1, MaxChanges <- 2, MaxTime <- 0,
         Browsers <- {"b1", "b2"}, People <- {"ann"}, Orgs <- {"o1"}, Logins <- {"l1"}, MaxEdits <- 2,
         Emails <- {}, Identities <- {}, MaxLinks <- 0, MaxInvites <- 0,
         Clients <- {}, MaxLogins <- 0, MaxRotations <- 0,
         Permissions <- {}, Holders <- {}, MaxVersion <- 0,
         Spenders <- {}, Caps <- {}, Charged <- TRUE, MaxVirtual <- 0,
         Models <- {}, Chat <- {}, Native <- {}, InUse <- {}, Patchers <- {}, Replays <- {},
         MaxUpdates <- 0, MaxDeployed <- 0

-----------------------------------------------------------------------------
\* A behaviour of the run is about one module from beginning to end.
LEMMA FocusKept ==
  AccountsSpec => /\ [](focus = "credentials") \/ [](~(focus = "credentials"))
                  /\ [](focus = "members") \/ [](~(focus = "members"))
                  /\ [](focus = "browsers") \/ [](~(focus = "browsers"))
                  /\ [](focus = "claims") \/ [](~(focus = "claims"))
                  /\ [](focus = "replays") \/ [](~(focus = "replays"))
                  /\ [](focus = "designations") \/ [](~(focus = "designations"))
<1>1. /\ focus = "credentials" /\ [AccountsNext]_accessVars => (focus = "credentials")'
      /\ ~(focus = "credentials") /\ [AccountsNext]_accessVars => (~(focus = "credentials"))'
  BY DEF AccountsNext, accessVars
<1>2. /\ focus = "members" /\ [AccountsNext]_accessVars => (focus = "members")'
      /\ ~(focus = "members") /\ [AccountsNext]_accessVars => (~(focus = "members"))'
  BY DEF AccountsNext, accessVars
<1>3. /\ focus = "browsers" /\ [AccountsNext]_accessVars => (focus = "browsers")'
      /\ ~(focus = "browsers") /\ [AccountsNext]_accessVars => (~(focus = "browsers"))'
  BY DEF AccountsNext, accessVars
<1>4. /\ focus = "claims" /\ [AccountsNext]_accessVars => (focus = "claims")'
      /\ ~(focus = "claims") /\ [AccountsNext]_accessVars => (~(focus = "claims"))'
  BY DEF AccountsNext, accessVars
<1>5. /\ focus = "replays" /\ [AccountsNext]_accessVars => (focus = "replays")'
      /\ ~(focus = "replays") /\ [AccountsNext]_accessVars => (~(focus = "replays"))'
  BY DEF AccountsNext, accessVars
<1>6. /\ focus = "designations" /\ [AccountsNext]_accessVars => (focus = "designations")'
      /\ ~(focus = "designations") /\ [AccountsNext]_accessVars => (~(focus = "designations"))'
  BY DEF AccountsNext, accessVars
<1> QED
  BY <1>1, <1>2, <1>3, <1>4, <1>5, <1>6, PTL DEF AccountsSpec

\* However registrations, the bootstrap command, invitations and resets race, there is one
\* superadmin, an invitation is closed exactly by the account it made, and a reset link
\* resets once: register_first_user, accept_invitation, reset_password.
THEOREM SpentOnceHere == AccountsSpec => []SpentOnce
<1>1. AccountsInit => Shared!Init
  BY DEF AccountsInit, Account!None, Account!NoUser, Account!Idle, Account!Init, Shared!None,
     Shared!NoUser, Shared!Idle, Shared!Init
<1>2. [AccountsNext]_accessVars => [Account!Next]_(Account!accountVars)
  BY DEF AccountsNext, accessVars, accountVars, Account!accountVars
<1>3. [Account!Next]_(Account!accountVars) => [Shared!Next]_(Shared!accountVars)
  BY DEF Account!accountVars, Account!None, Account!Exists, Account!Account, Account!Idle,
     Account!Step, Account!Done, Account!Superadmins, Account!RegisterLock,
     Account!RegisterCheck, Account!BootstrapCheck, Account!Clash,
     Account!CreateSuperadmin, Account!Invite, Account!AcceptRead,
     Account!AcceptCommit, Account!ProvisionRead, Account!ProvisionCommit,
     Account!LinkRows, Account!HeldLinks, Account!RequestReset, Account!NewLink,
     Account!ResetLock, Account!Reset, Account!SetActive, Account!SetRole,
     Account!Drop, Account!Next, Shared!accountVars, Shared!None, Shared!Exists,
     Shared!Account, Shared!Idle, Shared!Step, Shared!Done, Shared!Superadmins,
     Shared!RegisterLock, Shared!RegisterCheck, Shared!BootstrapCheck, Shared!Clash,
     Shared!CreateSuperadmin, Shared!Invite, Shared!AcceptRead, Shared!AcceptCommit,
     Shared!ProvisionRead, Shared!ProvisionCommit, Shared!LinkRows, Shared!HeldLinks,
     Shared!RequestReset, Shared!NewLink, Shared!ResetLock, Shared!Reset,
     Shared!SetActive, Shared!SetRole, Shared!Drop, Shared!Next
<1>4. AccountsSpec => Shared!Spec
  BY <1>1, <1>2, <1>3, PTL DEF AccountsSpec, Shared!Spec
<1>5. Shared!OneSuperadmin /\ Shared!SpentOnce => SpentOnce
  BY DEF SpentOnce, Account!Superadmins, Account!OneSuperadmin, Account!SpentOnce,
     Account!Cardinality, Shared!Superadmins, Shared!OneSuperadmin, Shared!SpentOnce,
     Shared!Cardinality
<1> QED
  BY <1>4, <1>5, Shared!OneSuperadminAlways, Shared!SpentOnceAlways, PTL

\* No cancelled or disconnected sign-in leaves a credential, and the refresh token on file
\* is the last one issued unless an answer was lost: poll, cancel, disconnect, refresh.
THEOREM CredentialIsLatestHere == AccountsSpec => []CredentialIsLatest
<1>1. AccountsInit => Shared!Device!Init
  BY DEF AccountsInit, Device!Logins, Device!Nothing, Device!NoLogin, Device!Idle, Device!Init,
     Shared!Device!Logins, Shared!Device!Nothing, Shared!Device!NoLogin,
     Shared!Device!Idle, Shared!Device!Init
<1>2. [AccountsNext]_accessVars => [Device!Next]_(Device!deviceVars)
  BY DEF AccountsNext, accessVars, deviceVars, Device!deviceVars
<1>3. [Device!Next]_(Device!deviceVars) => [Shared!Device!Next]_(Shared!Device!deviceVars)
  BY DEF Device!deviceVars, Device!Nothing, Device!NoLogin, Device!Idle, Device!Free,
     Device!State, Device!Settled, Device!StartLogin, Device!PollSettled, Device!Poll,
     Device!Refresh, Device!Answered, Device!AnswerPoll, Device!AnswerRefresh,
     Device!FinishPoll, Device!FinishRefresh, Device!Abort, Device!TakesBack,
     Device!CancelLogin, Device!Disconnect, Device!Lapse, Device!Next,
     Shared!Device!deviceVars, Shared!Device!Nothing, Shared!Device!NoLogin,
     Shared!Device!Idle, Shared!Device!Free, Shared!Device!State,
     Shared!Device!Settled, Shared!Device!StartLogin, Shared!Device!PollSettled,
     Shared!Device!Poll, Shared!Device!Refresh, Shared!Device!Answered,
     Shared!Device!AnswerPoll, Shared!Device!AnswerRefresh, Shared!Device!FinishPoll,
     Shared!Device!FinishRefresh, Shared!Device!Abort, Shared!Device!TakesBack,
     Shared!Device!CancelLogin, Shared!Device!Disconnect, Shared!Device!Lapse,
     Shared!Device!Next
<1>4. AccountsSpec => Shared!Device!Spec
  BY <1>1, <1>2, <1>3, PTL DEF AccountsSpec, Shared!Device!Spec
<1>5. Shared!Device!CredentialIsLatest => CredentialIsLatest
  BY DEF CredentialIsLatest, Device!Nothing, Device!Free, Device!CredentialIsLatest,
     Shared!Device!Nothing, Shared!Device!Free, Shared!Device!CredentialIsLatest
<1>6. Shared!Device!Spec => []Shared!Device!CredentialIsLatest
  <2>1. 2 \in Nat
    OBVIOUS
  <2> QED
    BY <2>1, Shared!CredentialIsLatestAlways
<1> QED
  BY <1>4, <1>5, <1>6, PTL

\* A rollback restores the version before the current one, whatever edits and activations
\* it overlaps: rollback_role_template.
THEOREM RollbackRestoresHere == AccountsSpec => RollbackRestores
<1>1. AccountsInit => Shared!Role!Init
  BY DEF AccountsInit, Role!Idle, Role!Init, Shared!Role!Idle, Shared!Role!Init
<1>2. [AccountsNext]_accessVars => [Role!Next]_(Role!roleVars)
  BY DEF AccountsNext, accessVars, roleVars, Role!roleVars
<1>3. [Role!Next]_(Role!roleVars) => [Shared!Role!Next]_(Shared!Role!roleVars)
  BY DEF Role!roleVars, Role!Snapshot, Role!Idle, Role!Step, Role!Done, Role!Exists, Role!Load,
     Role!Read, Role!Written, Role!UpdateRead, Role!UpdateCommit, Role!Newest,
     Role!SecondNewest, Role!Previous, Role!RollbackRead, Role!Taken, Role!Activate,
     Role!AssignRead, Role!AssignCommit, Role!Unassign, Role!DeleteRead,
     Role!DeleteCommit, Role!Next, Role!Cardinality, Shared!Role!roleVars,
     Shared!Role!Snapshot, Shared!Role!Idle, Shared!Role!Step, Shared!Role!Done,
     Shared!Role!Exists, Shared!Role!Load, Shared!Role!Read, Shared!Role!Written,
     Shared!Role!UpdateRead, Shared!Role!UpdateCommit, Shared!Role!Newest,
     Shared!Role!SecondNewest, Shared!Role!Previous, Shared!Role!RollbackRead,
     Shared!Role!Taken, Shared!Role!Activate, Shared!Role!AssignRead,
     Shared!Role!AssignCommit, Shared!Role!Unassign, Shared!Role!DeleteRead,
     Shared!Role!DeleteCommit, Shared!Role!Next, Shared!Role!Cardinality
<1>4. AccountsSpec => Shared!Role!Spec
  BY <1>1, <1>2, <1>3, PTL DEF AccountsSpec, Shared!Role!Spec
<1>5. Shared!Role!RollbackRestores => RollbackRestores
  BY DEF RollbackRestores, Role!roleVars, Role!RollbackRestores, Shared!Role!roleVars,
     Shared!Role!RollbackRestores
<1> QED
  BY <1>4, <1>5, Shared!RollbackRestoresAlways, PTL

\* The credentials of a member, and the members of a workspace: what a request is served
\* on held since it began, and the last owner goes only in a request that was overtaken.
\* get_tenant_context, resolve_api_key, remove_member.
LEMMA CredentialsHere ==
  AccountsSpec /\ focus = "credentials" => OneRequest!Principal!RevocationIsComplete
<1>1. AccountsInit /\ focus = "credentials" => OneRequest!Principal!Init
  BY DEF AccountsInit, Credential!None, Credential!Ranks, Credential!NoKey, Credential!Idle,
     Credential!Init, OneRequest!Principal!None, OneRequest!Principal!Ranks,
     OneRequest!Principal!NoKey, OneRequest!Principal!Idle, OneRequest!Principal!Init
<1>2. focus = "credentials" /\ [AccountsNext]_accessVars => [Credential!Next]_(Credential!principalVars)
  BY DEF AccountsNext, accessVars, principalVars, Credential!principalVars
<1>3. [Credential!Next]_(Credential!principalVars)
        => [OneRequest!Principal!Next]_(OneRequest!Principal!principalVars)
  BY DEF Credential!principalVars, Credential!None, Credential!Ranks, Credential!Never,
     Credential!Lesser, Credential!NoKey, Credential!Idle, Credential!Facts,
     Credential!Step, Credential!Done, Credential!rows, Credential!Permitted,
     Credential!LoadUser, Credential!BoundExpiry, Credential!MintRead, Credential!Mint,
     Credential!Resolve, Credential!KeyUser, Credential!VerifyMember, Credential!Serve,
     Credential!Finish, Credential!Change, Credential!Owners, Credential!Overtakes,
     Credential!AddMember, Credential!IsLastOwner, Credential!OustRead,
     Credential!OustCommit, Credential!EditUser, Credential!RevokeKey, Credential!Tick,
     Credential!Drop, Credential!Missing, Credential!Track, Credential!Next,
     OneRequest!Principal!principalVars, OneRequest!Principal!None,
     OneRequest!Principal!Ranks, OneRequest!Principal!Never,
     OneRequest!Principal!Lesser, OneRequest!Principal!NoKey,
     OneRequest!Principal!Idle, OneRequest!Principal!Facts, OneRequest!Principal!Step,
     OneRequest!Principal!Done, OneRequest!Principal!rows,
     OneRequest!Principal!Permitted, OneRequest!Principal!LoadUser,
     OneRequest!Principal!BoundExpiry, OneRequest!Principal!MintRead,
     OneRequest!Principal!Mint, OneRequest!Principal!Resolve,
     OneRequest!Principal!KeyUser, OneRequest!Principal!VerifyMember,
     OneRequest!Principal!Serve, OneRequest!Principal!Finish,
     OneRequest!Principal!Change, OneRequest!Principal!Owners,
     OneRequest!Principal!Overtakes, OneRequest!Principal!AddMember,
     OneRequest!Principal!IsLastOwner, OneRequest!Principal!OustRead,
     OneRequest!Principal!OustCommit, OneRequest!Principal!EditUser,
     OneRequest!Principal!RevokeKey, OneRequest!Principal!Tick,
     OneRequest!Principal!Drop, OneRequest!Principal!Missing,
     OneRequest!Principal!Track, OneRequest!Principal!Next
<1>4. AccountsSpec /\ focus = "credentials" => OneRequest!Principal!Spec
  BY <1>1, <1>2, <1>3, FocusKept, PTL DEF AccountsSpec, OneRequest!Principal!Spec
<1>5. OneRequest!PrincipalBounds
  BY DEF OneRequest!PrincipalBounds
<1> QED
  BY <1>4, <1>5, OneRequest!RevocationIsCompleteAlways, PTL

\* The same of the members.
LEMMA MembersHere ==
  AccountsSpec /\ focus = "members" => TwoRequests!Principal!RevocationIsComplete
<1>1. AccountsInit /\ focus = "members" => TwoRequests!Principal!Init
  BY DEF AccountsInit, Membership!None, Membership!Ranks, Membership!NoKey, Membership!Idle,
     Membership!Init, TwoRequests!Principal!None, TwoRequests!Principal!Ranks,
     TwoRequests!Principal!NoKey, TwoRequests!Principal!Idle,
     TwoRequests!Principal!Init
<1>2. focus = "members" /\ [AccountsNext]_accessVars => [Membership!Next]_(Membership!principalVars)
  BY DEF AccountsNext, accessVars, principalVars, Membership!principalVars
<1>3. [Membership!Next]_(Membership!principalVars)
        => [TwoRequests!Principal!Next]_(TwoRequests!Principal!principalVars)
  BY DEF Membership!principalVars, Membership!None, Membership!Ranks, Membership!Never,
     Membership!Lesser, Membership!NoKey, Membership!Idle, Membership!Facts,
     Membership!Step, Membership!Done, Membership!rows, Membership!Permitted,
     Membership!LoadUser, Membership!BoundExpiry, Membership!MintRead, Membership!Mint,
     Membership!Resolve, Membership!KeyUser, Membership!VerifyMember, Membership!Serve,
     Membership!Finish, Membership!Change, Membership!Owners, Membership!Overtakes,
     Membership!AddMember, Membership!IsLastOwner, Membership!OustRead,
     Membership!OustCommit, Membership!EditUser, Membership!RevokeKey, Membership!Tick,
     Membership!Drop, Membership!Missing, Membership!Track, Membership!Next,
     TwoRequests!Principal!principalVars, TwoRequests!Principal!None,
     TwoRequests!Principal!Ranks, TwoRequests!Principal!Never,
     TwoRequests!Principal!Lesser, TwoRequests!Principal!NoKey,
     TwoRequests!Principal!Idle, TwoRequests!Principal!Facts,
     TwoRequests!Principal!Step, TwoRequests!Principal!Done,
     TwoRequests!Principal!rows, TwoRequests!Principal!Permitted,
     TwoRequests!Principal!LoadUser, TwoRequests!Principal!BoundExpiry,
     TwoRequests!Principal!MintRead, TwoRequests!Principal!Mint,
     TwoRequests!Principal!Resolve, TwoRequests!Principal!KeyUser,
     TwoRequests!Principal!VerifyMember, TwoRequests!Principal!Serve,
     TwoRequests!Principal!Finish, TwoRequests!Principal!Change,
     TwoRequests!Principal!Owners, TwoRequests!Principal!Overtakes,
     TwoRequests!Principal!AddMember, TwoRequests!Principal!IsLastOwner,
     TwoRequests!Principal!OustRead, TwoRequests!Principal!OustCommit,
     TwoRequests!Principal!EditUser, TwoRequests!Principal!RevokeKey,
     TwoRequests!Principal!Tick, TwoRequests!Principal!Drop,
     TwoRequests!Principal!Missing, TwoRequests!Principal!Track,
     TwoRequests!Principal!Next
<1>4. AccountsSpec /\ focus = "members" => TwoRequests!Principal!Spec
  BY <1>1, <1>2, <1>3, FocusKept, PTL DEF AccountsSpec, TwoRequests!Principal!Spec
<1>5. TwoRequests!PrincipalBounds
  BY DEF TwoRequests!PrincipalBounds
<1> QED
  BY <1>4, <1>5, TwoRequests!RevocationIsCompleteAlways, PTL

\* Both at once, as the run checks them.
THEOREM RevocationIsCompleteHere == AccountsSpec => RevocationIsComplete
<1> DEFINE Served == /\ focus = "credentials" => Credential!Entitled
                     /\ focus = "members" => Membership!Entitled
           Owned == /\ focus = "credentials" => Credential!OwnerKept
                    /\ focus = "members" => Membership!OwnerKept
<1>1. OneRequest!Principal!Entitled => Credential!Entitled
  BY DEF Credential!Entitled, OneRequest!Principal!Entitled
<1>2. TwoRequests!Principal!Entitled => Membership!Entitled
  BY DEF Membership!Entitled, TwoRequests!Principal!Entitled
<1>3. [OneRequest!Principal!OwnerKept]_(OneRequest!Principal!principalVars) => [Credential!OwnerKept]_principalVars
  BY DEF principalVars, Credential!principalVars, Credential!Owners, Credential!OwnerKept,
     OneRequest!Principal!principalVars, OneRequest!Principal!Owners,
     OneRequest!Principal!OwnerKept
<1>4. [TwoRequests!Principal!OwnerKept]_(TwoRequests!Principal!principalVars) => [Membership!OwnerKept]_principalVars
  BY DEF principalVars, Membership!principalVars, Membership!Owners, Membership!OwnerKept,
     TwoRequests!Principal!principalVars, TwoRequests!Principal!Owners,
     TwoRequests!Principal!OwnerKept
<1>5. AccountsSpec /\ focus = "credentials" => []Served /\ [][Owned]_principalVars
  <2>1. focus = "credentials" /\ OneRequest!Principal!Entitled => Served
    BY <1>1
  <2>2. focus = "credentials" /\ [OneRequest!Principal!OwnerKept]_(OneRequest!Principal!principalVars)
          => [Owned]_principalVars
    BY <1>3
  <2> QED
    BY <2>1, <2>2, CredentialsHere, FocusKept, PTL DEF OneRequest!Principal!RevocationIsComplete
<1>6. AccountsSpec /\ focus = "members" => []Served /\ [][Owned]_principalVars
  <2>1. focus = "members" /\ TwoRequests!Principal!Entitled => Served
    BY <1>2
  <2>2. focus = "members" /\ [TwoRequests!Principal!OwnerKept]_(TwoRequests!Principal!principalVars)
          => [Owned]_principalVars
    BY <1>4
  <2> QED
    BY <2>1, <2>2, MembersHere, FocusKept, PTL DEF TwoRequests!Principal!RevocationIsComplete
<1>7. AccountsSpec /\ ~(focus = "credentials") /\ ~(focus = "members") => []Served /\ [][Owned]_principalVars
  <2>1. ~(focus = "credentials") /\ ~(focus = "members") => Served
    OBVIOUS
  <2>2. ~(focus = "credentials") /\ ~(focus = "members") => [Owned]_principalVars
    OBVIOUS
  <2> HIDE DEF Served, Owned
  <2> QED
    BY <2>1, <2>2, FocusKept, PTL
<1>8. RevocationIsComplete <=> []Served /\ [][Owned]_principalVars
  BY DEF RevocationIsComplete
<1> HIDE DEF Served, Owned
<1> QED
  BY <1>5, <1>6, <1>7, <1>8, PTL

\* A login signs in once, in the browser that began it and with one configuration, and an
\* overlap alone lets two organizations claim one domain: complete_login,
\* set_org_sso_domains.
THEOREM SignsInOnceHere == AccountsSpec => []SignsInOnce
<1>1. AccountsSpec /\ focus = "claims" => []OneRequest!SSO!SignsInOnce
  <2>1. AccountsInit /\ focus = "claims" => OneRequest!SSO!Init
  BY DEF AccountsInit, Claim!None, Claim!NoLogin, Claim!NoUser, Claim!Idle, Claim!Init,
     OneRequest!SSO!None, OneRequest!SSO!NoLogin, OneRequest!SSO!NoUser,
     OneRequest!SSO!Idle, OneRequest!SSO!Init
  <2>2. focus = "claims" /\ [AccountsNext]_accessVars => [Claim!Next]_(Claim!signOnVars)
    BY DEF AccountsNext, accessVars, signOnVars, Claim!signOnVars
  <2>3. [Claim!Next]_(Claim!signOnVars) => [OneRequest!SSO!Next]_(OneRequest!SSO!signOnVars)
  BY DEF Claim!signOnVars, Claim!None, Claim!Local, Claim!NoLogin, Claim!NoUser, Claim!Idle,
     Claim!Step, Claim!shared, Claim!Redis, Claim!Fail, Claim!LoadIssuer,
     Claim!LoadClient, Claim!Begin, Claim!Authenticate, Claim!Expire, Claim!Take,
     Claim!Accepted, Claim!Exchange, Claim!Claiming, Claim!Lookup, Claim!SignIn,
     Claim!Issue, Claim!Provision, Claim!Edit, Claim!signing, Claim!SetSsoConfig,
     Claim!ClaimRead, Claim!ClaimCommit, Claim!Unclaim, Claim!DeleteRead,
     Claim!DeleteCommit, Claim!CreateOrganization, Claim!AcceptInvitation,
     Claim!SetActive, Claim!Next, Claim!Cardinality, OneRequest!SSO!signOnVars,
     OneRequest!SSO!None, OneRequest!SSO!Local, OneRequest!SSO!NoLogin,
     OneRequest!SSO!NoUser, OneRequest!SSO!Idle, OneRequest!SSO!Step,
     OneRequest!SSO!shared, OneRequest!SSO!Redis, OneRequest!SSO!Fail,
     OneRequest!SSO!LoadIssuer, OneRequest!SSO!LoadClient, OneRequest!SSO!Begin,
     OneRequest!SSO!Authenticate, OneRequest!SSO!Expire, OneRequest!SSO!Take,
     OneRequest!SSO!Accepted, OneRequest!SSO!Exchange, OneRequest!SSO!Claiming,
     OneRequest!SSO!Lookup, OneRequest!SSO!SignIn, OneRequest!SSO!Issue,
     OneRequest!SSO!Provision, OneRequest!SSO!Edit, OneRequest!SSO!signing,
     OneRequest!SSO!SetSsoConfig, OneRequest!SSO!ClaimRead, OneRequest!SSO!ClaimCommit,
     OneRequest!SSO!Unclaim, OneRequest!SSO!DeleteRead, OneRequest!SSO!DeleteCommit,
     OneRequest!SSO!CreateOrganization, OneRequest!SSO!AcceptInvitation,
     OneRequest!SSO!SetActive, OneRequest!SSO!Next, OneRequest!SSO!Cardinality
  <2>4. AccountsSpec /\ focus = "claims" => OneRequest!SSO!Spec
    BY <2>1, <2>2, <2>3, FocusKept, PTL DEF AccountsSpec, OneRequest!SSO!Spec
  <2>5. OneRequest!NamesApart
    BY DEF OneRequest!NamesApart, OneRequest!SSO!Issuers, Pairs
  <2> QED
    BY <2>4, <2>5, OneRequest!SignsInOnceAlways, PTL
<1>2. AccountsSpec /\ focus = "browsers" => []TwoRequests!SSO!SignsInOnce
  <2>1. AccountsInit /\ focus = "browsers" => TwoRequests!SSO!Init
  BY DEF AccountsInit, Browsing!None, Browsing!NoLogin, Browsing!NoUser, Browsing!Idle,
     Browsing!Init, TwoRequests!SSO!None, TwoRequests!SSO!NoLogin,
     TwoRequests!SSO!NoUser, TwoRequests!SSO!Idle, TwoRequests!SSO!Init
  <2>2. focus = "browsers" /\ [AccountsNext]_accessVars => [Browsing!Next]_(Browsing!signOnVars)
    BY DEF AccountsNext, accessVars, signOnVars, Browsing!signOnVars
  <2>3. [Browsing!Next]_(Browsing!signOnVars) => [TwoRequests!SSO!Next]_(TwoRequests!SSO!signOnVars)
  BY DEF Browsing!signOnVars, Browsing!None, Browsing!Local, Browsing!NoLogin, Browsing!NoUser,
     Browsing!Idle, Browsing!Step, Browsing!shared, Browsing!Redis, Browsing!Fail,
     Browsing!LoadIssuer, Browsing!LoadClient, Browsing!Begin, Browsing!Authenticate,
     Browsing!Expire, Browsing!Take, Browsing!Accepted, Browsing!Exchange,
     Browsing!Claiming, Browsing!Lookup, Browsing!SignIn, Browsing!Issue,
     Browsing!Provision, Browsing!Edit, Browsing!signing, Browsing!SetSsoConfig,
     Browsing!ClaimRead, Browsing!ClaimCommit, Browsing!Unclaim, Browsing!DeleteRead,
     Browsing!DeleteCommit, Browsing!CreateOrganization, Browsing!AcceptInvitation,
     Browsing!SetActive, Browsing!Next, Browsing!Cardinality,
     TwoRequests!SSO!signOnVars, TwoRequests!SSO!None, TwoRequests!SSO!Local,
     TwoRequests!SSO!NoLogin, TwoRequests!SSO!NoUser, TwoRequests!SSO!Idle,
     TwoRequests!SSO!Step, TwoRequests!SSO!shared, TwoRequests!SSO!Redis,
     TwoRequests!SSO!Fail, TwoRequests!SSO!LoadIssuer, TwoRequests!SSO!LoadClient,
     TwoRequests!SSO!Begin, TwoRequests!SSO!Authenticate, TwoRequests!SSO!Expire,
     TwoRequests!SSO!Take, TwoRequests!SSO!Accepted, TwoRequests!SSO!Exchange,
     TwoRequests!SSO!Claiming, TwoRequests!SSO!Lookup, TwoRequests!SSO!SignIn,
     TwoRequests!SSO!Issue, TwoRequests!SSO!Provision, TwoRequests!SSO!Edit,
     TwoRequests!SSO!signing, TwoRequests!SSO!SetSsoConfig, TwoRequests!SSO!ClaimRead,
     TwoRequests!SSO!ClaimCommit, TwoRequests!SSO!Unclaim, TwoRequests!SSO!DeleteRead,
     TwoRequests!SSO!DeleteCommit, TwoRequests!SSO!CreateOrganization,
     TwoRequests!SSO!AcceptInvitation, TwoRequests!SSO!SetActive, TwoRequests!SSO!Next,
     TwoRequests!SSO!Cardinality
  <2>4. AccountsSpec /\ focus = "browsers" => TwoRequests!SSO!Spec
    BY <2>1, <2>2, <2>3, FocusKept, PTL DEF AccountsSpec, TwoRequests!SSO!Spec
  <2>5. TwoRequests!NamesApart
    BY DEF TwoRequests!NamesApart, TwoRequests!SSO!Issuers, Pairs
  <2> QED
    BY <2>4, <2>5, TwoRequests!SignsInOnceAlways, PTL
<1>3. focus = "claims" /\ OneRequest!SSO!SignsInOnce => SignsInOnce
  BY DEF SignsInOnce, Claim!Claiming, Claim!SignsInOnce, Claim!Cardinality,
     OneRequest!SSO!Claiming, OneRequest!SSO!SignsInOnce, OneRequest!SSO!Cardinality
<1>4. focus = "browsers" /\ TwoRequests!SSO!SignsInOnce => SignsInOnce
  BY DEF SignsInOnce, Browsing!Claiming, Browsing!SignsInOnce, Browsing!Cardinality,
     TwoRequests!SSO!Claiming, TwoRequests!SSO!SignsInOnce, TwoRequests!SSO!Cardinality
<1>5. ~(focus = "claims") /\ ~(focus = "browsers") => SignsInOnce
  BY DEF SignsInOnce
<1> QED
  BY <1>1, <1>2, <1>3, <1>4, <1>5, FocusKept, PTL

\* When nothing is under way, a member's key has the budget of what the member is
\* allocated, but for the cases that nobody looks after: put_user_quota, put_org_quota,
\* get_or_create_user_virtual_key.
THEOREM BudgetsFollowHere == AccountsSpec => []BudgetsFollow
<1>1. AccountsInit => Shared!Budget!Init
  BY DEF AccountsInit, Budget!Unset, Budget!NoKey, Budget!Keys, Budget!Idle, Budget!Init,
     Shared!Budget!Unset, Shared!Budget!NoKey, Shared!Budget!Keys, Shared!Budget!Idle,
     Shared!Budget!Init
<1>2. [AccountsNext]_accessVars => [Budget!Next]_(Budget!budgetVars)
  BY DEF AccountsNext, accessVars, budgetVars, Budget!budgetVars
<1>3. [Budget!Next]_(Budget!budgetVars) => [Shared!Budget!Next]_(Shared!Budget!budgetVars)
  BY DEF Budget!budgetVars, Budget!Unset, Budget!NoKey, Budget!Keys, Budget!Idle,
     Budget!Allocated, Budget!Effective, Budget!MaxBudget, Budget!Minting,
     Budget!Mirroring, Budget!Overlapped, Budget!Set, Budget!To, Budget!Stream,
     Budget!MintLookup, Budget!Generate, Budget!Store, Budget!PutUser, Budget!UpdateLookup,
     Budget!Written, Budget!UpdateCall, Budget!PutOrg, Budget!OrgRead, Budget!EachLookup,
     Budget!EachCall, Budget!OrgDone, Budget!Next, Shared!Budget!budgetVars,
     Shared!Budget!Unset, Shared!Budget!NoKey, Shared!Budget!Keys, Shared!Budget!Idle,
     Shared!Budget!Allocated, Shared!Budget!Effective, Shared!Budget!MaxBudget,
     Shared!Budget!Minting, Shared!Budget!Mirroring, Shared!Budget!Overlapped,
     Shared!Budget!Set, Shared!Budget!To, Shared!Budget!Stream, Shared!Budget!MintLookup,
     Shared!Budget!Generate, Shared!Budget!Store, Shared!Budget!PutUser,
     Shared!Budget!UpdateLookup, Shared!Budget!Written, Shared!Budget!UpdateCall,
     Shared!Budget!PutOrg, Shared!Budget!OrgRead, Shared!Budget!EachLookup,
     Shared!Budget!EachCall, Shared!Budget!OrgDone, Shared!Budget!Next
<1>4. AccountsSpec => Shared!Budget!Spec
  BY <1>1, <1>2, <1>3, PTL DEF AccountsSpec, Shared!Budget!Spec
<1>5. Shared!Budget!BudgetsFollow => BudgetsFollow
  BY DEF BudgetsFollow, Budget!Unset, Budget!NoKey, Budget!Allocated, Budget!MaxBudget,
     Budget!BudgetsFollow, Shared!Budget!Unset, Shared!Budget!NoKey,
     Shared!Budget!Allocated, Shared!Budget!MaxBudget, Shared!Budget!BudgetsFollow
<1>6. Shared!Budget!Spec => []Shared!Budget!BudgetsFollow
  <2>1. Shared!BudgetBounds
    BY DEF Shared!BudgetBounds
  <2> QED
    BY <2>1, Shared!BudgetsFollowAlways
<1> QED
  BY <1>4, <1>5, <1>6, PTL

\* Rows that say synced are deployed as they are, once no replay is owed or running, and one
\* model at most is the utility model: sync_models_to_litellm, update_model.
THEOREM RegistryHoldsHere == AccountsSpec => []RegistryHolds
<1>1. AccountsSpec /\ focus = "replays" => []Shared!Registering!RegistryHolds
  <2>1. AccountsInit /\ focus = "replays" => Shared!Registering!Init
    BY DEF AccountsInit, Replaying!None, Replaying!Absent, Replaying!Seeded, Replaying!NoReq,
       Replaying!NoSync, Replaying!Init, Shared!Registering!None, Shared!Registering!Absent,
       Shared!Registering!Seeded, Shared!Registering!NoReq, Shared!Registering!NoSync,
       Shared!Registering!Init
  <2>2. focus = "replays" /\ [AccountsNext]_accessVars => [Replaying!Next]_(Replaying!registryVars)
    BY DEF AccountsNext, ReplayNext, accessVars, registryVars, Replaying!registryVars
  <2>3. [Replaying!Next]_(Replaying!registryVars) => [Shared!Registering!Next]_(Shared!Registering!registryVars)
    BY DEF Replaying!registryVars, Replaying!None, Replaying!Absent, Replaying!Seeded,
       Replaying!NoReq, Replaying!NoSync, Replaying!Ids, Replaying!Present,
       Replaying!Enabled, Replaying!Running, Replaying!Commits, Replaying!CreateModel,
       Replaying!PatchRead, Replaying!PatchColumns, Replaying!Others, Replaying!Designate,
       Replaying!Undesignate, Replaying!PatchCommit, Replaying!PatchFails,
       Replaying!DeleteModel, Replaying!Untouched, Replaying!Deployable, Replaying!Start,
       Replaying!ListAll, Replaying!Outcome, Replaying!ListDeployed,
       Replaying!DeleteDeployed, Replaying!Deploy, Replaying!SyncFails, Replaying!Marked,
       Replaying!Mark, Replaying!Restart, Replaying!Next, Shared!Registering!registryVars,
       Shared!Registering!None, Shared!Registering!Absent, Shared!Registering!Seeded,
       Shared!Registering!NoReq, Shared!Registering!NoSync, Shared!Registering!Ids,
       Shared!Registering!Present, Shared!Registering!Enabled, Shared!Registering!Running,
       Shared!Registering!Commits, Shared!Registering!CreateModel,
       Shared!Registering!PatchRead, Shared!Registering!PatchColumns,
       Shared!Registering!Others, Shared!Registering!Designate,
       Shared!Registering!Undesignate, Shared!Registering!PatchCommit,
       Shared!Registering!PatchFails, Shared!Registering!DeleteModel,
       Shared!Registering!Untouched, Shared!Registering!Deployable, Shared!Registering!Start,
       Shared!Registering!ListAll, Shared!Registering!Outcome,
       Shared!Registering!ListDeployed, Shared!Registering!DeleteDeployed,
       Shared!Registering!Deploy, Shared!Registering!SyncFails, Shared!Registering!Marked,
       Shared!Registering!Mark, Shared!Registering!Restart, Shared!Registering!Next
  <2>4. AccountsSpec /\ focus = "replays" => Shared!Registering!Spec
    BY <2>1, <2>2, <2>3, FocusKept, PTL DEF AccountsSpec, Shared!Registering!Spec
  <2>5. 2 \in Nat
    OBVIOUS
  <2> QED
    BY <2>4, <2>5, Shared!RegistryHoldsAlways, PTL
<1>2. AccountsSpec /\ focus = "designations" => []OneRequest!Registering!RegistryHolds
  <2>1. AccountsInit /\ focus = "designations" => OneRequest!Registering!Init
    BY DEF AccountsInit, Designating!None, Designating!Absent, Designating!Seeded,
       Designating!NoReq, Designating!NoSync, Designating!Init, OneRequest!Registering!None,
       OneRequest!Registering!Absent, OneRequest!Registering!Seeded,
       OneRequest!Registering!NoReq, OneRequest!Registering!NoSync,
       OneRequest!Registering!Init
  <2>2. focus = "designations" /\ [AccountsNext]_accessVars => [Designating!Next]_(Designating!registryVars)
    BY DEF AccountsNext, accessVars, registryVars, Designating!registryVars
  <2>3. [Designating!Next]_(Designating!registryVars) => [OneRequest!Registering!Next]_(OneRequest!Registering!registryVars)
    BY DEF Designating!registryVars, Designating!None, Designating!Absent, Designating!Seeded,
       Designating!NoReq, Designating!NoSync, Designating!Ids, Designating!Present,
       Designating!Enabled, Designating!Running, Designating!Commits,
       Designating!CreateModel, Designating!PatchRead, Designating!PatchColumns,
       Designating!Others, Designating!Designate, Designating!Undesignate,
       Designating!PatchCommit, Designating!PatchFails, Designating!DeleteModel,
       Designating!Untouched, Designating!Deployable, Designating!Start, Designating!ListAll,
       Designating!Outcome, Designating!ListDeployed, Designating!DeleteDeployed,
       Designating!Deploy, Designating!SyncFails, Designating!Marked, Designating!Mark,
       Designating!Restart, Designating!Next, OneRequest!Registering!registryVars,
       OneRequest!Registering!None, OneRequest!Registering!Absent,
       OneRequest!Registering!Seeded, OneRequest!Registering!NoReq,
       OneRequest!Registering!NoSync, OneRequest!Registering!Ids,
       OneRequest!Registering!Present, OneRequest!Registering!Enabled,
       OneRequest!Registering!Running, OneRequest!Registering!Commits,
       OneRequest!Registering!CreateModel, OneRequest!Registering!PatchRead,
       OneRequest!Registering!PatchColumns, OneRequest!Registering!Others,
       OneRequest!Registering!Designate, OneRequest!Registering!Undesignate,
       OneRequest!Registering!PatchCommit, OneRequest!Registering!PatchFails,
       OneRequest!Registering!DeleteModel, OneRequest!Registering!Untouched,
       OneRequest!Registering!Deployable, OneRequest!Registering!Start,
       OneRequest!Registering!ListAll, OneRequest!Registering!Outcome,
       OneRequest!Registering!ListDeployed, OneRequest!Registering!DeleteDeployed,
       OneRequest!Registering!Deploy, OneRequest!Registering!SyncFails,
       OneRequest!Registering!Marked, OneRequest!Registering!Mark,
       OneRequest!Registering!Restart, OneRequest!Registering!Next
  <2>4. AccountsSpec /\ focus = "designations" => OneRequest!Registering!Spec
    BY <2>1, <2>2, <2>3, FocusKept, PTL DEF AccountsSpec, OneRequest!Registering!Spec
  <2>5. 3 \in Nat
    OBVIOUS
  <2> QED
    BY <2>4, <2>5, OneRequest!RegistryHoldsAlways, PTL
<1>3. focus = "replays" /\ Shared!Registering!RegistryHolds => RegistryHolds
  BY DEF RegistryHolds, Replaying!None, Replaying!Present, Replaying!Enabled, Replaying!Running,
     Replaying!Utility, Replaying!AtRest, Replaying!Served, Replaying!Exact,
     Replaying!RegistryHolds, Shared!Registering!None, Shared!Registering!Present,
     Shared!Registering!Enabled, Shared!Registering!Running, Shared!Registering!Utility,
     Shared!Registering!AtRest, Shared!Registering!Served, Shared!Registering!Exact,
     Shared!Registering!RegistryHolds
<1>4. focus = "designations" /\ OneRequest!Registering!RegistryHolds => RegistryHolds
  BY DEF RegistryHolds, Designating!None, Designating!Present, Designating!Enabled, Designating!Running,
     Designating!Utility, Designating!AtRest, Designating!Served, Designating!Exact,
     Designating!RegistryHolds, OneRequest!Registering!None,
     OneRequest!Registering!Present, OneRequest!Registering!Enabled,
     OneRequest!Registering!Running, OneRequest!Registering!Utility,
     OneRequest!Registering!AtRest, OneRequest!Registering!Served,
     OneRequest!Registering!Exact, OneRequest!Registering!RegistryHolds
<1>5. ~(focus = "replays") /\ ~(focus = "designations") => RegistryHolds
  BY DEF RegistryHolds
<1> QED
  BY <1>1, <1>2, <1>3, <1>4, <1>5, FocusKept, PTL
=============================================================================
