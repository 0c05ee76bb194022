------------------------------ MODULE Sessions ------------------------------
(***************************************************************************)
(* Refresh tokens: login, rotation with its grace window, logout, and the  *)
(* ways a session is revoked.  A session is a family of tokens, each the   *)
(* successor of one before it; the rows are never deleted.                 *)
(*                                                                         *)
(* A request is a transaction at READ COMMITTED.  rotate_refresh holds the *)
(* row of the token it was given (FOR UPDATE) to its end.  An UPDATE picks *)
(* its rows when it starts, waits for the rows that are held, and leaves   *)
(* out those its WHERE no longer matches: a token inserted after it        *)
(* started is not touched.  A rotation whose UPDATE waits for a rotation   *)
(* that waits for it is ended by the database.                             *)
(***************************************************************************)
EXTENDS Naturals, Sequences, FiniteSets

CONSTANTS
    Requests, Users,
    Families,     \* the uuid4 values that logins may draw
    TTL,          \* refresh_token_ttl_seconds
    Grace,        \* refresh_reuse_grace_seconds
    MaxTokens,    \* bound: tokens issued
    MaxChanges,   \* bound: password changes
    MaxTime       \* bound: the clock

ASSUME SessionsAssumption ==
    /\ TTL \in Nat /\ Grace \in Nat
    /\ MaxTokens \in Nat /\ MaxChanges \in Nat /\ MaxTime \in Nat \ {0}

VARIABLES
    tokens,    \* refresh_tokens, in the order of their inserts
    account,   \* users: active, and security_version
    clock,     \* datetime.now(UTC); 0 is before every event
    req        \* the requests in progress

sessionVars == <<tokens, account, clock, req>>

Never == 0
Idle == [pc |-> "idle", user |-> Never, family |-> Never, row |-> Never,
         wasRevoked |-> Never, now |-> Never, sv |-> Never, targets |-> {}, kind |-> "none"]

Family(f) == {i \in DOMAIN tokens : tokens[i].family = f}
Unrevoked(S) == {i \in S : tokens[i].revoked = Never}
OfUser(u) == {i \in DOMAIN tokens : tokens[i].user = u}

\* The rows locked by rotations: each holds the token it was given.
HeldBy(q) == IF req[q].pc \in {"locked", "reuse", "issue"} THEN {req[q].row} \ {Never} ELSE {}
HeldByOthers(q) == UNION {HeldBy(p) : p \in Requests \ {q}}

TypeOK ==
    /\ Len(tokens) <= MaxTokens
    /\ \A i \in DOMAIN tokens :
          tokens[i] \in [family : Families, user : Users, revoked : 0..MaxTime,
                         expires : 1..(MaxTime + TTL)]
    /\ account \in [Users -> [active : BOOLEAN, sv : 0..MaxChanges]]
    /\ clock \in 1..MaxTime
    /\ \A q \in Requests : /\ req[q].pc \in {"idle", "locked", "reuse", "issue", "update"}
                           /\ req[q].row \in {Never} \union DOMAIN tokens
                           /\ req[q].targets \subseteq DOMAIN tokens

Init ==
    /\ tokens = <<>>
    /\ account = [u \in Users |-> [active |-> TRUE, sv |-> 0]]
    /\ clock = 1
    /\ req = [q \in Requests |-> Idle]

-----------------------------------------------------------------------------
Step(q, r) == req' = [req EXCEPT ![q] = r]
Done(q) == Step(q, Idle)

FreshFamily(f) == Family(f) = {} /\ \A q \in Requests : req[q].family # f

\* login, login_oidc, issue_session: the user has been read; _issue_pair is next.
Login(q, u, f) ==
    /\ req[q].pc = "idle" /\ account[u].active /\ FreshFamily(f)
    /\ Step(q, [Idle EXCEPT !.pc = "issue", !.user = u, !.family = f,
                            !.now = clock, !.sv = account[u].sv])
    /\ UNCHANGED <<tokens, account, clock>>

\* rotate_refresh up to its row lock; the row is as of the lock.
RotateLock(q, i) ==
    /\ req[q].pc = "idle" /\ i \notin HeldByOthers(q)
    /\ Step(q, [Idle EXCEPT !.pc = "locked", !.row = i, !.now = clock,
                            !.user = tokens[i].user, !.family = tokens[i].family,
                            !.wasRevoked = tokens[i].revoked])
    /\ UNCHANGED <<tokens, account, clock>>

WithinGrace(q) == req[q].now - req[q].wasRevoked <= Grace

\* Mutant: evidence of a rotation is not asked for.
HasLiveSuccessorAssumed(q) == TRUE

HasLiveSuccessor(q) ==
    \E i \in Unrevoked(Family(req[q].family)) \ {req[q].row} : tokens[i].expires > req[q].now

Reused(q) ==
    /\ req[q].wasRevoked # Never
    /\ ~(WithinGrace(q) /\ HasLiveSuccessor(q))

Rejected(q) ==
    \/ tokens[req[q].row].expires < req[q].now
    \/ ~account[req[q].user].active

\* The reads behind the lock, and what they decide.
RotateJudge(q) ==
    /\ req[q].pc = "locked"
    /\ CASE Reused(q) ->
              Step(q, [req[q] EXCEPT !.pc = "reuse", !.targets = Family(req[q].family)])
         [] ~Reused(q) /\ Rejected(q) -> Done(q)
         [] OTHER ->
              Step(q, [req[q] EXCEPT !.pc = "issue", !.sv = account[req[q].user].sv])
    /\ UNCHANGED <<tokens, account, clock>>

\* The family's UPDATE, revoked rows included, and its commit.
RevokeFamily(q) ==
    /\ req[q].pc = "reuse" /\ req[q].targets \cap HeldByOthers(q) = {}
    /\ tokens' = [i \in DOMAIN tokens |->
                    IF i \in req[q].targets THEN [tokens[i] EXCEPT !.revoked = req[q].now]
                    ELSE tokens[i]]
    /\ Done(q)
    /\ UNCHANGED <<account, clock>>

\* deadlock_detected: two UPDATEs wait for each other's row; one request fails.
Deadlocked(q) ==
    /\ req[q].pc = "reuse"
    /\ \E p \in Requests \ {q} : /\ req[p].pc = "reuse"
                                 /\ req[p].row \in req[q].targets
                                 /\ req[q].row \in req[p].targets
    /\ Done(q)
    /\ UNCHANGED <<tokens, account, clock>>

\* Mutant: a rotation adds the lifetime to what is left of the old token's.
ExpiryAdded(r) == IF r.row = Never THEN clock + TTL ELSE tokens[r.row].expires + TTL

Expiry(r) == clock + TTL

\* _issue_pair: the presented token's revocation, unless it was revoked
\* before, and the new token, in one commit.
Issue(q) ==
    /\ req[q].pc = "issue" /\ Len(tokens) < MaxTokens
    /\ LET r == req[q]
           kept == [i \in DOMAIN tokens |->
                      IF i = r.row /\ r.wasRevoked = Never
                      THEN [tokens[i] EXCEPT !.revoked = r.now] ELSE tokens[i]]
       IN  tokens' = Append(kept, [family |-> r.family, user |-> r.user, revoked |-> Never,
                                   expires |-> Expiry(r)])
    /\ Done(q)
    /\ UNCHANGED <<account, clock>>

\* The start of an UPDATE: its rows are the committed rows it matches.
Begin(q, kind, u, S, v) ==
    /\ req[q].pc = "idle"
    /\ Step(q, [Idle EXCEPT !.pc = "update", !.kind = kind, !.user = u, !.targets = S, !.sv = v])
    /\ UNCHANGED <<tokens, account, clock>>

\* logout: the cookie's row, whether or not it is revoked.
Logout(q) == \E i \in DOMAIN tokens : Begin(q, "logout", tokens[i].user, {i}, 0)

\* revoke_session, revoke_other_sessions.
RevokeSession(q) ==
    \E f \in Families : \E u \in Users :
        Family(f) \cap OfUser(u) # {} /\ Begin(q, "revoke", u, Unrevoked(Family(f)), 0)
RevokeOthers(q) ==
    \E u \in Users, f \in Families \union {Never} :
        Begin(q, "revoke", u, Unrevoked(OfUser(u) \ Family(f)), 0)

\* change_password and reset_password: security_version as it was read, plus one.
ChangePassword(q) ==
    \E u \in Users : account[u].sv < MaxChanges /\ Begin(q, "password", u, Unrevoked(OfUser(u)), account[u].sv + 1)

Update(q) ==
    LET r == req[q]
        hit == IF r.kind = "logout" THEN r.targets ELSE Unrevoked(r.targets)
    IN  /\ r.pc = "update" /\ hit \cap HeldByOthers(q) = {}
        /\ tokens' = [i \in DOMAIN tokens |->
                        IF i \in hit THEN [tokens[i] EXCEPT !.revoked = clock] ELSE tokens[i]]
        /\ account' = IF r.kind = "password" THEN [account EXCEPT ![r.user].sv = r.sv] ELSE account
        /\ Done(q)
        /\ UNCHANGED clock

\* set_user_active; the tokens stay as they are.
SetActive(u) ==
    /\ account' = [account EXCEPT ![u].active = ~@]
    /\ UNCHANGED <<tokens, clock, req>>

Tick ==
    /\ clock < MaxTime /\ clock' = clock + 1
    /\ UNCHANGED <<tokens, account, req>>

Rotate(q) == \/ \E i \in DOMAIN tokens : RotateLock(q, i)
             \/ RotateJudge(q) \/ RevokeFamily(q) \/ Deadlocked(q) \/ Issue(q)

Revoke(q) == Logout(q) \/ RevokeSession(q) \/ RevokeOthers(q) \/ ChangePassword(q) \/ Update(q)

Next ==
    \/ \E q \in Requests : \/ \E u \in Users, f \in Families : Login(q, u, f)
                           \/ Rotate(q) \/ Revoke(q)
    \/ \E u \in Users : SetActive(u)
    \/ Tick

Spec == Init /\ [][Next]_sessionVars

-----------------------------------------------------------------------------
Live(i) == tokens[i].revoked = Never /\ tokens[i].expires >= clock

\* A request that may still issue a token of the family: it judges by the time at
\* which it took its row, however long it waits.
Carrying(q, f) ==
    /\ req[q].family = f
    /\ \/ req[q].pc = "issue"
       \/ req[q].pc = "locked" /\ ~Reused(q) /\ tokens[req[q].row].expires >= req[q].now

Ended(f) ==
    /\ Family(f) # {}
    /\ \A i \in Family(f) : ~Live(i)
    /\ \A q \in Requests : ~Carrying(q, f)

\* A session that has ended (no token of the family is live, no rotation is
\* under way) never comes back, whichever of its old tokens is presented and
\* however soon after its revocation: the grace window reissues only beside
\* a live successor.  rotate_refresh, logout, revoke_session.
EndedStaysEnded == [][\A f \in Families : Ended(f) => Ended(f)']_sessionVars

\* Racing tabs are not punished: the answer to reuse takes a live token away
\* only if the token presented was revoked longer than the grace window
\* before its row was locked.  rotate_refresh.
OnlyLateReuseRevokes ==
    [][\A q \in Requests :
          (req[q].pc = "reuse" /\ \E i \in Unrevoked(req[q].targets) :
              tokens[i].expires > req[q].now /\ tokens'[i].revoked # Never)
            => ~WithinGrace(q)]_sessionVars

\* Both at once: a session ends for good, and a live one is not taken away from
\* racing tabs.  rotate_refresh.
SessionsEnd == EndedStaysEnded /\ OnlyLateReuseRevokes
=============================================================================
