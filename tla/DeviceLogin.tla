----------------------------- MODULE DeviceLogin -----------------------------
(***************************************************************************)
(* The sign-in with a ChatGPT account (modules/models/chatgpt_oauth.py): a *)
(* device code is shown to the operator, polled until the provider grants  *)
(* it, exchanged for a credential, and the credential refreshed for as     *)
(* long as it is used.  Two secret rows hold it all, the sign-in's and the *)
(* credential's; every operation holds one advisory lock from its reading  *)
(* of them, over its call of the provider, to its commit (_locked), and is *)
(* rolled back if anything goes wrong in between: the provider is not.     *)
(***************************************************************************)
EXTENDS Naturals

CONSTANTS
    Clients,
    MaxLogins,     \* bound: sign-ins started
    MaxRotations   \* bound: refresh tokens issued to one sign-in

VARIABLES
    login,     \* _LOGIN: the sign-in shown to the operator
    stored,    \* _CREDENTIAL: the sign-in it came from and its refresh token
    lapsed,    \* sign-ins whose expires_at has passed
    spent,     \* provider: the sign-ins whose authorization code was used
    issued,    \* provider: the last refresh token issued to each sign-in
    calls,     \* the operations that hold or wait for a provider's answer
    ended,     \* sign-ins cancelled or disconnected (history)
    cut        \* sign-ins whose provider's last answer was lost (history)

deviceVars == <<login, stored, lapsed, spent, issued, calls, ended, cut>>

Logins == 1..MaxLogins
Nothing == [of |-> 0, token |-> 0]
NoLogin == [id |-> 0, state |-> "none", grant |-> FALSE]
Idle == [op |-> "idle", rec |-> NoLogin, cred |-> Nothing, answer |-> "none"]

TypeOK ==
    /\ login \in [id : Logins \union {0}, grant : BOOLEAN,
                  state : {"none", "pending", "authorised", "cancelled", "failed", "expired"}]
    /\ stored \in [of : Logins \union {0}, token : 0..MaxRotations]
    /\ lapsed \subseteq Logins /\ spent \subseteq Logins /\ ended \subseteq Logins
    /\ cut \subseteq Logins /\ issued \in [Logins -> 0..MaxRotations]
    /\ \A c \in Clients : /\ calls[c].op \in {"idle", "poll", "refresh"}
                          /\ calls[c].answer \in {"none", "wait", "grant", "tokens", "refused"}

Init ==
    /\ login = NoLogin /\ stored = Nothing /\ lapsed = {} /\ spent = {}
    /\ issued = [i \in Logins |-> 0] /\ calls = [c \in Clients |-> Idle]
    /\ ended = {} /\ cut = {}

-----------------------------------------------------------------------------
\* Mutant: nothing keeps two operations apart.
FreeAlways == TRUE

\* _locked
Free == \A c \in Clients : calls[c].op = "idle"

\* _public
State == IF login.state = "pending" /\ login.id \in lapsed THEN "expired" ELSE login.state

Settled(state) == [id |-> login.id, state |-> state, grant |-> FALSE]

\* start_login
StartLogin ==
    /\ Free /\ State # "pending" /\ login.id < MaxLogins
    /\ login' = [id |-> login.id + 1, state |-> "pending", grant |-> FALSE]
    /\ UNCHANGED <<stored, lapsed, spent, issued, calls, ended, cut>>

\* poll_login of a sign-in that is over
PollSettled ==
    /\ Free /\ login.id # 0 /\ State # "pending"
    /\ login' = Settled(State)
    /\ UNCHANGED <<stored, lapsed, spent, issued, calls, ended, cut>>

\* poll_login up to its call; its clock was read before the lock was taken,
\* so the sign-in may just have lapsed.
Poll(c) ==
    /\ calls[c].op = "idle" /\ Free /\ login.state = "pending"
    /\ calls' = [calls EXCEPT ![c] = [Idle EXCEPT !.op = "poll", !.rec = login]]
    /\ UNCHANGED <<login, stored, lapsed, spent, issued, ended, cut>>

\* get_runtime_credentials of a token about to expire, up to its call
Refresh(c) ==
    /\ calls[c].op = "idle" /\ Free /\ stored # Nothing
    /\ calls' = [calls EXCEPT ![c] = [Idle EXCEPT !.op = "refresh", !.cred = stored]]
    /\ UNCHANGED <<login, stored, lapsed, spent, issued, ended, cut>>

Answered(c, answer) == calls' = [calls EXCEPT ![c].answer = answer]

\* The provider: a code is exchanged once, a refresh token is replaced by
\* its use, and either may be refused.
AnswerPoll(c) ==
    LET i == calls[c].rec.id
    IN  /\ calls[c].op = "poll" /\ calls[c].answer = "none"
        /\ \/ Answered(c, "refused") /\ UNCHANGED <<spent, issued>>
           \/ /\ ~calls[c].rec.grant /\ \E a \in {"wait", "grant"} : Answered(c, a)
              /\ UNCHANGED <<spent, issued>>
           \/ /\ calls[c].rec.grant /\ i \notin spent
              /\ spent' = spent \union {i} /\ issued' = [issued EXCEPT ![i] = 1]
              /\ Answered(c, "tokens")
        /\ UNCHANGED <<login, stored, lapsed, ended, cut>>

AnswerRefresh(c) ==
    LET i == calls[c].cred.of
    IN  /\ calls[c].op = "refresh" /\ calls[c].answer = "none"
        /\ \/ Answered(c, "refused") /\ UNCHANGED issued
           \/ /\ calls[c].cred.token = issued[i] /\ issued[i] < MaxRotations
              /\ issued' = [issued EXCEPT ![i] = @ + 1]
              /\ Answered(c, "tokens")
        /\ UNCHANGED <<login, stored, lapsed, spent, ended, cut>>

\* poll_login after its answer: the row, and the credential of an exchange.
FinishPoll(c) ==
    LET r == calls[c].rec
        a == calls[c].answer
    IN  /\ calls[c].op = "poll" /\ a # "none"
        /\ login' = IF r.id \in lapsed THEN [r EXCEPT !.state = "expired", !.grant = FALSE]
                    ELSE CASE a = "wait"    -> r
                           [] a = "grant"   -> [r EXCEPT !.grant = TRUE]
                           [] a = "tokens"  -> [r EXCEPT !.state = "authorised", !.grant = FALSE]
                           [] a = "refused" -> [r EXCEPT !.state = "failed", !.grant = FALSE]
        /\ stored' = IF a = "tokens" /\ r.id \notin lapsed THEN [of |-> r.id, token |-> 1] ELSE stored
        /\ calls' = [calls EXCEPT ![c] = Idle]
        /\ UNCHANGED <<lapsed, spent, issued, ended, cut>>

\* get_runtime_credentials after its answer; the record keeps its login_id.
FinishRefresh(c) ==
    /\ calls[c].op = "refresh" /\ calls[c].answer # "none"
    /\ stored' = IF calls[c].answer = "tokens"
                 THEN [calls[c].cred EXCEPT !.token = issued[calls[c].cred.of]] ELSE stored
    /\ calls' = [calls EXCEPT ![c] = Idle]
    /\ UNCHANGED <<login, lapsed, spent, issued, ended, cut>>

\* The client goes, the process dies, or the answer cannot be read.
Abort(c) ==
    /\ calls[c].op # "idle"
    /\ calls' = [calls EXCEPT ![c] = Idle]
    /\ cut' = IF calls[c].op = "refresh" /\ calls[c].answer = "tokens"
              THEN cut \union {calls[c].cred.of} ELSE cut
    /\ UNCHANGED <<login, stored, lapsed, spent, issued, ended>>

TakesBack == login.id # 0 /\ stored.of = login.id

\* cancel_login
CancelLogin ==
    /\ Free
    /\ stored' = IF TakesBack THEN Nothing ELSE stored
    /\ login' = Settled("cancelled")
    /\ ended' = ended \union ({login.id} \ {0})
    /\ UNCHANGED <<lapsed, spent, issued, calls, cut>>

\* disconnect
Disconnect ==
    /\ Free
    /\ stored' = Nothing /\ login' = Settled("cancelled") /\ ended' = 1..login.id
    /\ UNCHANGED <<lapsed, spent, issued, calls, cut>>

Lapse ==
    /\ login.state = "pending" /\ login.id \notin lapsed
    /\ lapsed' = lapsed \union {login.id}
    /\ UNCHANGED <<login, stored, spent, issued, calls, ended, cut>>

Next ==
    \/ StartLogin \/ PollSettled \/ CancelLogin \/ Disconnect \/ Lapse
    \/ \E c \in Clients : Poll(c) \/ Refresh(c) \/ AnswerPoll(c) \/ AnswerRefresh(c)
                          \/ FinishPoll(c) \/ FinishRefresh(c) \/ Abort(c)

Spec == Init /\ [][Next]_deviceVars

-----------------------------------------------------------------------------
\* A sign-in that was cancelled or disconnected leaves no credential behind,
\* not even when it was cancelled while its last exchange was under way, and
\* no refresh brings one back.  And the refresh token on file is the last one
\* the provider issued, unless the answer that replaced it was lost before its
\* commit: no two refreshes, and no refresh and sign-in, spend the same one.
\* cancel_login, get_runtime_credentials.
CredentialIsLatest ==
    /\ stored.of \notin ended
    /\ (Free /\ stored # Nothing /\ stored.of \notin cut) => stored.token = issued[stored.of]
=============================================================================
