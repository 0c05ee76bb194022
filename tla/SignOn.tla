------------------------------- MODULE SignOn -------------------------------
(***************************************************************************)
(* Single sign-on: the settings an administrator stores, the login a       *)
(* browser begins, the callback the identity provider sends it to, and the *)
(* organizations that accept an email domain.                              *)
(*                                                                         *)
(* One email domain.  A callback carries the code and the state of one     *)
(* login together (so that its nonce always agrees), and its URL may be    *)
(* opened more than once, and in another browser than the one that began.  *)
(***************************************************************************)
EXTENDS Naturals, FiniteSets

CONSTANTS
    Requests, Browsers, People, Orgs,
    Logins,        \* states handed out by begin_login
    Pairs,         \* (issuer, client_id) as registered with the providers
    MaxEdits       \* bound: administrative changes

VARIABLES
    settings,   \* app_settings: oidc_issuer, oidc_client_id
    login,      \* oidc:state:* in Redis, and what its authorize URL asked for
    cookie,     \* the oidc_preauth cookie of each browser
    task,       \* requests in progress
    org,        \* organizations: whether each is there and claims the domain
    user,       \* users with an address in the domain
    sessions,   \* history: sign-ins
    raced,      \* history: two claims of the domain overlapped
    edits

signOnVars == <<settings, login, cookie, task, org, user, sessions, raced, edits>>

None == "none"
Local == "local"      \* an account with a password, bound to no identity
Issuers == {p[1] : p \in Pairs}
Clients == {p[2] : p \in Pairs}

NoLogin == [open |-> FALSE, browser |-> None, issuer |-> None, client |-> None, person |-> None]
NoUser == [org |-> None, bound |-> None, active |-> TRUE]
Idle == [pc |-> "idle", kind |-> None, browser |-> None, login |-> None, issuer |-> None, client |-> None, org |-> None]

TypeOK ==
    /\ settings \in Pairs
    /\ \A l \in Logins : /\ login[l].open \in BOOLEAN /\ login[l].browser \in Browsers \union {None}
                         /\ login[l].issuer \in Issuers \union {None}
                         /\ login[l].person \in People \union {None}
    /\ cookie \in [Browsers -> Logins \union {None}]
    /\ \A q \in Requests : task[q].pc \in
           {"idle", "client", "begin", "take", "exchange", "lookup", "issue", "provision"}
    /\ org \in [Orgs -> [here : BOOLEAN, claims : BOOLEAN, edit : {"none", "claim", "delete"}]]
    /\ \A p \in People : user[p].org \in Orgs \union {None}
    /\ raced \in BOOLEAN /\ edits \in 0..MaxEdits

Init ==
    /\ settings \in Pairs
    /\ login = [l \in Logins |-> NoLogin]
    /\ cookie = [b \in Browsers |-> None] /\ task = [q \in Requests |-> Idle]
    /\ org = [o \in Orgs |-> [here |-> TRUE, claims |-> FALSE, edit |-> "none"]]
    /\ user = [p \in People |-> NoUser]
    /\ sessions = {} /\ raced = FALSE /\ edits = 0

-----------------------------------------------------------------------------
Step(q, r) == task' = [task EXCEPT ![q] = r]
shared == <<org, user, sessions, raced, edits>>
Redis == <<login, cookie>>

\* The callback's error path: back to the login page without the cookie.
Fail(q) == Step(q, Idle) /\ cookie' = [cookie EXCEPT ![task[q].browser] = None]

\* load_provider reads the two settings in statements of their own; discovery
\* may fail.
LoadIssuer(q, b, kind, l) ==
    /\ task[q].pc = "idle"
    /\ IF kind = "login" THEN login[l] = NoLogin ELSE login[l].person # None
    /\ Step(q, [Idle EXCEPT !.pc = "client", !.kind = kind, !.browser = b, !.login = l, !.issuer = settings[1]])
    /\ UNCHANGED <<settings, Redis, shared>>

LoadClient(q) ==
    /\ task[q].pc = "client"
    /\ Step(q, [task[q] EXCEPT !.pc = IF task[q].kind = "login" THEN "begin" ELSE "take",
                               !.client = settings[2]])
    /\ UNCHANGED <<settings, Redis, shared>>

\* begin_login: the state in Redis and the cookie of the browser.
Begin(q) ==
    LET r == task[q]
    IN  /\ r.pc = "begin" /\ login[r.login] = NoLogin
        /\ login' = [login EXCEPT ![r.login] =
                        [NoLogin EXCEPT !.open = TRUE, !.browser = r.browser, !.issuer = r.issuer, !.client = r.client]]
        /\ cookie' = [cookie EXCEPT ![r.browser] = r.login]
        /\ Step(q, Idle)
        /\ UNCHANGED <<settings, shared>>

\* The identity provider: who signs in there gets a code, if it knows the client.
Authenticate(l, p) ==
    /\ login[l].browser # None /\ login[l].person = None
    /\ <<login[l].issuer, login[l].client>> \in Pairs
    /\ login' = [login EXCEPT ![l].person = p]
    /\ UNCHANGED <<settings, cookie, task, shared>>

\* _STATE_TTL_SECONDS and the cookie's max_age.
Expire(l) ==
    /\ login[l].open
    /\ login' = [login EXCEPT ![l].open = FALSE]
    /\ cookie' = [b \in Browsers |-> IF cookie[b] = l THEN None ELSE cookie[b]]
    /\ UNCHANGED <<settings, task, shared>>

\* Mutant: the state is read, and deleted after the sign-in.
TakeRead(q) ==
    LET l == task[q].login
    IN  /\ task[q].pc = "take"
        /\ IF login[l].open /\ cookie[task[q].browser] = l
           THEN Step(q, [task[q] EXCEPT !.pc = "exchange"]) /\ UNCHANGED cookie
           ELSE Fail(q)
        /\ UNCHANGED <<settings, login, shared>>

\* complete_login: the state is taken, once, then compared with the cookie.
Take(q) ==
    LET l == task[q].login
    IN  /\ task[q].pc = "take"
        /\ login' = [login EXCEPT ![l].open = FALSE]
        /\ IF login[l].open /\ cookie[task[q].browser] = l
           THEN Step(q, [task[q] EXCEPT !.pc = "exchange"]) /\ UNCHANGED cookie
           ELSE Fail(q)
        /\ UNCHANGED <<settings, shared>>

\* The claims iss and aud of the ID token against the provider of this request.
Accepted(r) == login[r.login].issuer = r.issuer /\ login[r.login].client = r.client

\* The code is exchanged and the ID token verified; either may fail.
Exchange(q) ==
    /\ task[q].pc = "exchange"
    /\ \/ Accepted(task[q]) /\ Step(q, [task[q] EXCEPT !.pc = "lookup"]) /\ UNCHANGED cookie
       \/ Fail(q)
    /\ UNCHANGED <<settings, login, shared>>

Claiming == {o \in Orgs : org[o].claims}

\* login_oidc: an account bound to the identity, else no account at all and
\* one organization that claims the domain.
Lookup(q) ==
    LET r == task[q]
        u == user[login[r.login].person]
    IN  /\ r.pc = "lookup"
        /\ \/ /\ u.bound = r.issuer /\ u.active
              /\ Step(q, [r EXCEPT !.pc = "issue"]) /\ UNCHANGED cookie
           \/ /\ u = NoUser /\ Cardinality(Claiming) = 1
              /\ Step(q, [r EXCEPT !.pc = "provision", !.org = CHOOSE o \in Claiming : TRUE])
              /\ UNCHANGED cookie
           \/ /\ IF u = NoUser THEN Cardinality(Claiming) # 1 ELSE u.bound # r.issuer \/ ~u.active
              /\ Fail(q)
        /\ UNCHANGED <<settings, login, shared>>

SignIn(q) ==
    /\ sessions' = sessions \union {[login |-> task[q].login, task |-> task[q],
                                     again |-> \E s \in sessions : s.login = task[q].login]}
    /\ Step(q, Idle) /\ cookie' = [cookie EXCEPT ![task[q].browser] = None]

Issue(q) ==
    /\ task[q].pc = "issue" /\ SignIn(q)
    /\ UNCHANGED <<settings, login, org, user, raced, edits>>

\* The new row, unless its address is taken or its organization is gone by
\* now: the database refuses it, an error the callback does not catch.
Provision(q) ==
    LET r == task[q]
        p == login[r.login].person
    IN  /\ r.pc = "provision"
        /\ IF user[p] = NoUser /\ org[r.org].here
           THEN user' = [user EXCEPT ![p] = [org |-> r.org, bound |-> r.issuer, active |-> TRUE]] /\ SignIn(q)
           ELSE Step(q, Idle) /\ UNCHANGED <<user, sessions, cookie>>
        /\ UNCHANGED <<settings, login, org, raced, edits>>

-----------------------------------------------------------------------------
Edit == edits < MaxEdits /\ edits' = edits + 1
signing == <<login, cookie, task, sessions>>

\* set_sso_config: both settings in one transaction.
SetSsoConfig(pair) ==
    /\ Edit /\ settings # pair /\ settings' = pair
    /\ UNCHANGED <<signing, org, user, raced>>

\* set_org_sso_domains: no other organization claims the domain, then commit.
ClaimRead(o) ==
    /\ org[o].here /\ org[o].edit = "none" /\ Claiming \subseteq {o}
    /\ org' = [org EXCEPT ![o].edit = "claim"]
    /\ raced' = (raced \/ \E p \in Orgs : org[p].edit = "claim")
    /\ UNCHANGED <<settings, signing, user, edits>>

ClaimCommit(o) ==
    /\ org[o].edit = "claim" /\ Edit
    /\ org' = [org EXCEPT ![o].edit = "none", ![o].claims = TRUE]
    /\ UNCHANGED <<settings, signing, user, raced>>

Unclaim(o) ==
    /\ Edit /\ org[o].claims /\ org[o].edit = "none"
    /\ org' = [org EXCEPT ![o].claims = FALSE]
    /\ UNCHANGED <<settings, signing, user, raced>>

\* delete_organization: no users, then commit; the foreign key of a user who
\* came meanwhile refuses.
DeleteRead(o) ==
    /\ org[o].here /\ org[o].edit = "none" /\ \A p \in People : user[p].org # o
    /\ org' = [org EXCEPT ![o].edit = "delete"]
    /\ UNCHANGED <<settings, signing, user, raced, edits>>

DeleteCommit(o) ==
    /\ org[o].edit = "delete"
    /\ IF \E p \in People : user[p].org = o THEN org' = [org EXCEPT ![o].edit = "none"] /\ UNCHANGED edits
       ELSE Edit /\ org' = [org EXCEPT ![o] = [here |-> FALSE, claims |-> FALSE, edit |-> "none"]]
    /\ UNCHANGED <<settings, signing, user, raced>>

CreateOrganization(o) ==
    /\ Edit /\ ~org[o].here
    /\ org' = [org EXCEPT ![o].here = TRUE]
    /\ UNCHANGED <<settings, signing, user, raced>>

\* An invitation is accepted: an account with a password (Accounts).
AcceptInvitation(p, o) ==
    /\ Edit /\ user[p] = NoUser /\ org[o].here
    /\ user' = [user EXCEPT ![p] = [org |-> o, bound |-> Local, active |-> TRUE]]
    /\ UNCHANGED <<settings, signing, org, raced>>

\* set_user_active
SetActive(p) ==
    /\ Edit /\ user[p] # NoUser
    /\ user' = [user EXCEPT ![p].active = ~@]
    /\ UNCHANGED <<settings, signing, org, raced>>

Next ==
    \/ \E q \in Requests :
          \/ LoadClient(q) \/ Begin(q) \/ Take(q) \/ Exchange(q) \/ Lookup(q) \/ Issue(q) \/ Provision(q)
          \/ \E b \in Browsers, l \in Logins, kind \in {"login", "callback"} : LoadIssuer(q, b, kind, l)
    \/ \E l \in Logins : Expire(l) \/ \E p \in People : Authenticate(l, p)
    \/ \E pair \in Pairs : SetSsoConfig(pair)
    \/ \E o \in Orgs : \/ ClaimRead(o) \/ ClaimCommit(o) \/ Unclaim(o) \/ DeleteRead(o)
                       \/ DeleteCommit(o) \/ CreateOrganization(o)
                       \/ \E p \in People : AcceptInvitation(p, o)
    \/ \E p \in People : SetActive(p)

Spec == Init /\ [][Next]_signOnVars

-----------------------------------------------------------------------------
\* A login signs in once, in the browser that began it, with a provider and a
\* client that were configured together, to an account that came from that
\* provider; and two organizations accept one domain only if they claimed
\* it at the same time.  complete_login, login_oidc, set_org_sso_domains.
SignsInOnce ==
    /\ \A s \in sessions :
          /\ ~s.again /\ s.task.browser = login[s.login].browser
          /\ <<s.task.issuer, s.task.client>> \in Pairs
          /\ user[login[s.login].person].bound = s.task.issuer
    /\ Cardinality(Claiming) > 1 => raced
=============================================================================
