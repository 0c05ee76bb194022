------------------------------ MODULE Registry ------------------------------
(***************************************************************************)
(* The registry of models and its copy in the gateway.  Every change of a  *)
(* row is followed by a replay in the background, on a session of its own: *)
(* it reads the rows, takes what the gateway has deployed away and deploys *)
(* the enabled rows again.  The outcome is written on every row.           *)
(*                                                                         *)
(* params stands for everything the gateway is told of a model; its key is *)
(* read when the model is deployed, which makes no difference here.        *)
(***************************************************************************)
EXTENDS Naturals, FiniteSets

CONSTANTS
    Models,       \* litellm_model_name is unique
    Chat,         \* of modality "chat"; the others are embedding models
    Native,       \* never deployed: tei, and names that start with chatgpt/
    InUse,        \* embedding models of workspaces, and the built-in one
    Requests, Syncs,
    MaxEvents,      \* bound: changes of the registry and restarts
    MaxDeployed     \* bound: models in the gateway

VARIABLES
    row,        \* models
    req,        \* a PATCH between its read and its commit
    deployed,   \* the gateway's models
    sync,
    owed,       \* background replays not started
    events,
    designated, \* the model last made the utility model (history)
    blurred     \* the copy was written by replays side by side, or by one that
                \* was refused the list (history)

registryVars ==
    <<row, req, deployed, sync, owed, events, designated, blurred>>

None == "none"
Absent == [state |-> "new", enabled |-> FALSE, utility |-> FALSE, params |-> 0, status |-> None]
Seeded == [state |-> "there", enabled |-> TRUE, utility |-> FALSE, params |-> 0, status |-> "pending"]
NoReq == [pc |-> "idle"]
NoSync == [pc |-> "idle"]
Ids == 1..MaxDeployed
Present == {m \in Models : row[m].state = "there"}
Enabled == {m \in Present : row[m].enabled}
Running == {s \in Syncs : sync[s].pc # "idle"}

TypeOK ==
    /\ row \in [Models -> [state : {"new", "there", "gone"}, enabled : BOOLEAN, utility : BOOLEAN,
                           params : 0..MaxEvents, status : {None, "pending", "synced", "error"}]]
    /\ \A q \in Requests : req[q].pc \in {"idle", "loaded"}
    /\ deployed \subseteq [id : Ids, model : Models, params : 0..MaxEvents]
    /\ \A s \in Syncs : sync[s].pc \in {"idle", "all", "list", "delete", "add", "mark"}
    /\ owed \in 0..(MaxEvents + 1) /\ events \in 0..MaxEvents
    /\ designated \in Models \union {None} /\ blurred \in BOOLEAN

Init ==
    /\ row \in {[m \in Models |-> IF m \in InUse \union there THEN Seeded ELSE Absent] :
                   there \in SUBSET Models}
    /\ req = [q \in Requests |-> NoReq] /\ sync = [s \in Syncs |-> NoSync]
    /\ deployed = {} /\ owed = 1 /\ events = 0
    /\ designated = None /\ blurred = FALSE

-----------------------------------------------------------------------------
(* Changes of the registry. *)

\* A commit, after which _schedule_sync adds a background task.
Commits ==
    /\ events < MaxEvents /\ events' = events + 1 /\ owed' = owed + 1
    /\ UNCHANGED <<deployed, sync, blurred>>

\* A name is registered once.
CreateModel(m) ==
    /\ row[m].state = "new" /\ Commits
    /\ row' = [row EXCEPT ![m] = [Seeded EXCEPT !.params = events']]
    /\ UNCHANGED <<req, designated>>

\* update_model reads the row and may wait for a name to resolve.
PatchRead(q, m) ==
    /\ req[q].pc = "idle" /\ m \in Present /\ events < MaxEvents
    /\ req' = [req EXCEPT ![q] = [pc |-> "loaded", model |-> m, was |-> row[m]]]
    /\ UNCHANGED <<row, deployed, sync, owed, events, designated, blurred>>

\* Columns that are not patched keep what another commit wrote.
PatchColumns(q) ==
    LET m == req[q].model
    IN  /\ row' \in {[row EXCEPT ![m].params = events + 1], [row EXCEPT ![m].enabled = ~req[q].was.enabled]}
        /\ UNCHANGED designated

\* UPDATE of the other rows, in the same transaction.
Others(q) == [n \in Models |-> IF n = req[q].model THEN row[n] ELSE [row[n] EXCEPT !.utility = FALSE]]

\* The row's own flag is written only if it differs from what was read.
Designate(q) ==
    LET m == req[q].model
    IN  /\ m \in Chat
        /\ row' = IF req[q].was.utility THEN Others(q) ELSE [Others(q) EXCEPT ![m].utility = TRUE]
        /\ designated' = IF row'[m].utility THEN m ELSE None

Undesignate(q) ==
    LET m == req[q].model
    IN  /\ req[q].was.utility
        /\ row' = [row EXCEPT ![m].utility = FALSE]
        /\ designated' = IF designated = m THEN None ELSE designated

\* A row that is gone makes the flush fail.
PatchCommit(q) ==
    /\ req[q].pc = "loaded" /\ req[q].model \in Present
    /\ PatchColumns(q) \/ Designate(q) \/ Undesignate(q)
    /\ req' = [req EXCEPT ![q] = NoReq] /\ Commits

PatchFails(q) ==
    /\ req[q].pc = "loaded" /\ req' = [req EXCEPT ![q] = NoReq]
    /\ UNCHANGED <<row, deployed, sync, owed, events, designated, blurred>>

\* delete_model: the built-in embedding model and one a workspace uses stay.
DeleteModel(m) ==
    /\ m \in Present /\ m \notin InUse /\ Commits
    /\ row' = [row EXCEPT ![m] = [Absent EXCEPT !.state = "gone"]]
    /\ req' = [q \in Requests |->
                  IF req[q].pc = "loaded" /\ req[q].model = m THEN NoReq ELSE req[q]]
    /\ designated' = IF designated = m THEN None ELSE designated

-----------------------------------------------------------------------------
(* sync_models_to_litellm. *)

Untouched == UNCHANGED <<row, req, owed, events, designated>>

\* Mutant: the disabled rows are replayed too.
DeployableAll == Present \ Native

\* list_enabled_models, less what the gateway is not to see.
Deployable == Enabled \ Native

Start(s) ==
    /\ owed > 0 /\ sync[s].pc = "idle" /\ owed' = owed - 1
    /\ sync' = [sync EXCEPT ![s] =
                   [pc |-> "all", models |-> Deployable, params |-> [m \in Models |-> row[m].params]]]
    /\ blurred' = (Running # {})
    /\ UNCHANGED <<row, req, deployed, events, designated>>

\* list_models: rows that were read before are not read again.
ListAll(s) ==
    /\ sync[s].pc = "all"
    /\ sync' = [sync EXCEPT ![s] = [pc |-> "list", models |-> @.models, params |-> @.params,
                                    was |-> [m \in Present |-> row[m].status]]]
    /\ UNCHANGED <<deployed, blurred>> /\ Untouched

Outcome(s, status) == [pc |-> "mark", was |-> sync[s].was, status |-> status]

\* /v1/model/info; an error status is read as an empty list.
ListDeployed(s) ==
    /\ sync[s].pc = "list"
    /\ \E ids \in {{}, {d.id : d \in deployed}} :
          /\ sync' = [sync EXCEPT ![s] = [pc |-> "delete", models |-> @.models, params |-> @.params,
                                          was |-> @.was, todo |-> ids]]
          /\ blurred' = (blurred \/ ids # {d.id : d \in deployed})
    /\ UNCHANGED deployed /\ Untouched

\* The gateway refuses to delete what is gone.
DeleteDeployed(s) ==
    /\ sync[s].pc = "delete"
    /\ IF sync[s].todo = {}
       THEN sync' = [sync EXCEPT ![s].pc = "add"] /\ UNCHANGED deployed
       ELSE \E i \in sync[s].todo :
               /\ \A j \in sync[s].todo : i <= j
               /\ deployed' = {d \in deployed : d.id # i}
               /\ sync' = [sync EXCEPT ![s] = IF deployed' = deployed THEN Outcome(s, "error")
                                              ELSE [sync[s] EXCEPT !.todo = sync[s].todo \ {i}]]
    /\ UNCHANGED blurred /\ Untouched

Deploy(s) ==
    /\ sync[s].pc = "add"
    /\ IF sync[s].models = {}
       THEN sync' = [sync EXCEPT ![s] = Outcome(s, "synced")] /\ UNCHANGED deployed
       ELSE LET m == CHOOSE n \in sync[s].models : TRUE
                free == {i \in Ids : \A d \in deployed : d.id # i}
                id == CHOOSE i \in free : \A j \in free : i <= j
            IN  /\ free # {}
                /\ deployed' = deployed \union {[id |-> id, model |-> m, params |-> sync[s].params[m]]}
                /\ sync' = [sync EXCEPT ![s].models = @ \ {m}]
    /\ UNCHANGED blurred /\ Untouched

\* A call of the gateway fails.
SyncFails(s) ==
    /\ sync[s].pc \in {"list", "delete", "add"}
    /\ sync' = [sync EXCEPT ![s] = Outcome(s, "error")]
    /\ UNCHANGED <<deployed, blurred>> /\ Untouched

\* The rows whose status changes.
Marked(s) == {m \in DOMAIN sync[s].was : sync[s].was[m] # sync[s].status}

\* One commit.  With a row gone meanwhile it may fail, and marks none.
Mark(s) ==
    /\ sync[s].pc = "mark" /\ sync' = [sync EXCEPT ![s] = NoSync]
    /\ \/ row' = [m \in Models |-> IF m \in Marked(s) \intersect Present
                                   THEN [row[m] EXCEPT !.status = sync[s].status] ELSE row[m]]
       \/ ~(Marked(s) \subseteq Present) /\ UNCHANGED row
    /\ UNCHANGED <<req, deployed, owed, events, designated, blurred>>

\* The process ends, and _lifespan replays the registry when it is back.
Restart ==
    /\ events < MaxEvents /\ events' = events + 1
    /\ req' = [q \in Requests |-> NoReq] /\ sync' = [s \in Syncs |-> NoSync] /\ owed' = 1
    /\ UNCHANGED <<row, deployed, designated, blurred>>

Next ==
    \/ \E m \in Models : CreateModel(m) \/ DeleteModel(m) \/ \E q \in Requests : PatchRead(q, m)
    \/ \E q \in Requests : PatchCommit(q) \/ PatchFails(q)
    \/ \E s \in Syncs : \/ Start(s) \/ ListAll(s) \/ ListDeployed(s) \/ DeleteDeployed(s)
                        \/ Deploy(s) \/ SyncFails(s) \/ Mark(s)
    \/ Restart

Spec == Init /\ [][Next]_registryVars

-----------------------------------------------------------------------------
\* get_utility_model
Utility == {m \in Enabled \intersect Chat : row[m].utility}

AtRest == owed = 0 /\ Running = {}

\* What the gateway has, model by model.
Served(m) == {d \in deployed : d.model = m}
Exact ==
    \A m \in Models :
        IF m \in Enabled \ Native THEN \E d \in Served(m) : Served(m) = {d} /\ d.params = row[m].params
        ELSE Served(m) = {}

\* Once no replay is owed or running, the rows agree on their status, and rows
\* that say synced are deployed once each, as they are, and nothing else is:
\* whatever was changed, deleted or restarted while a replay ran, unless two ran
\* side by side or one was refused the list of what is deployed.  And one model
\* serves as the utility model at most: the one last designated, unless that was
\* a repeated designation that lost the flag to another in between.
\* sync_models_to_litellm, update_model, get_utility_model.
RegistryHolds ==
    /\ AtRest /\ ~blurred =>
          \/ \A m \in Present : row[m].status = "error"
          \/ Exact /\ \A m \in Present : row[m].status = "synced"
    /\ Utility \subseteq {designated}
    /\ designated # None => row[designated].utility
=============================================================================
