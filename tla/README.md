# Ragz: specifications and proofs

Ragz is a multi-tenant document-question service: documents are uploaded to
workspaces, parsed and embedded by Celery workers into Qdrant, and answered about
in chats, with Postgres as the record of everything and Redis as broker and cache.
This directory holds TLA+ models of the parts whose correctness depends on the
order in which several requests, tasks and stores act, and of the algorithms whose
results a test hardly covers; the TLC instances that check them; and TLAPS proofs of
what was worth proving for every size.

Paths below are relative to `src/backend/src/ragz/` unless they begin with `src/`.

## 1. The system

### Components, their state, their operations

| Component | State | Operations | What makes it correct | Module |
|---|---|---|---|---|
| Access-list projection (`modules/documents/service.py`, `ingest.py`, `modules/retrieval/service.py`) | `documents.acl_group_ids`, `security_revision`, `projected_revision`, `index_state`; `acl_groups` in payloads | change of a list, sweep, ingest restamp, backfill, retrieve | an active row's points carry the committed list; a row out of retrieval comes back; retrieve serves committed lists | `AclProjection` |
| Outbox (`modules/outbox`, `worker/outbox.py`) | `outbox_events` | publish, claim, dispatch, back off, park, purge | no owed work is lost, no duplicate without a failure, a bad row stalls nobody | `Outbox`, `DurableWork` |
| Version lineages (`documents/service.py`, `ingest.py`) | `status`, `is_current`, `approved`, `has_vectors`; points | upload, ingest, re-index, approve, delete, promote | one version current and served at rest; deleted means gone | `Lineage` |
| Uploads and objects (`documents/service.py`, `uploads.py`, `core/storage.py`) | `documents`, objects by key | upload, store artifacts, move, delete | rows and objects match, versions follow uploads, caps | `Uploads` |
| Reconcilers' schedule (`ingest.py`) | `documents.updated_at`, `ingest_jobs.updated_at` | hourly sweep | a stranded row is driven again, one that is alive is not | `StuckSweep` |
| Re-embedding (`ingest.py`) | `reembed_jobs`, `embedding_model_id`, two collections | start, copy, wipe, switch | the collection that is read is complete | `Reembed` |
| Parsing and chunking (`parsers.py`, `pipeline.py`) | none | convert, OCR, cut | no text lost, sections right | `Chunking` |
| Folders (`documents/folders.py`) | the tree, `folder_id` | create, ensure path, move, delete | a forest; one folder per path | `Folders` |
| Metadata (`documents/metadata.py`) | fields, `documents.meta`, payloads | define, set, filter | payloads follow the row | `Metadata` |
| Retrieval (`modules/retrieval`) | none | filter, fuse, collapse, rerank | readable chunks only, the best of them | `Retrieval` |
| Chats and turns (`chat/chats.py`, `messages.py`, `service.py`) | the message tree, the summary, the ledger | send, edit, answer, regenerate, stop | well-formed tree, whole prompts, paid calls recorded but one | `ChatTurn` |
| Tool loop, web search (`chat/agent.py`, `web.py`) | daily counts in Redis | plan, search, fetch | budgets and caps, pages kept | `Gather` |
| Prompts (`chat/prompting.py`, `service.py`) | stored answers with citations | pin, retrieve, back-fill, fit, cite | a citation names what was shown | `Grounding` |
| Streaming adapters (`chat/llm.py`, `chatgpt.py`) | one stream | read events | an answer whole, once, or an error | `Streams` |
| Attachments (`chat/attachments.py`, `worker/tasks.py`) | rows, blobs, points | upload, extract, route, sweep | all three go together | `Attachments` |
| Feedback, audit log, answer audit (`chat/analytics.py`, `audit.py`, `modules/audit`) | `message_feedback`, scores, `audit_events` | rate, clear, score, page | pages complete, counts agree | `Reviews` |
| Evaluations (`modules/evals`) | `golden_queries`, `eval_runs` | edit, trigger, nightly, run | a run measures its change | `Evals` |
| Bots (`modules/bots`, `api/bots_relay.py`) and idempotency keys (`core/idempotency.py`) | integrations, mappings; claims in Redis | deliver, claim, relay, enable, delete | a delivery is answered once | `Deliveries` |
| Quotas (`modules/quotas/service.py`) | `usage_records`, quotas, cached sums | check, record, set | bounded overshoot; periods tile time | `Quota`, `Periods` |
| Reports (`quotas/reporting.py`, `costing.py`) | read only | reports, meter, summaries | every view has the same total | `Ledger` |
| Gateway keys (`models/keys.py`) | `secrets`, keys at the gateway | mint, mirror a quota | the budget follows the quota | `Budgets` |
| Model registry (`models/service.py`, `sync.py`) | `models`, deployments | create, patch, delete, replay | gateway mirrors registry | `Registry` |
| Catalogue of prices (`models/catalog.py`, `sdk.py`) | `model_catalog` | refresh, list, price | charged as shown | `Catalog` |
| ChatGPT sign-in (`models/chatgpt_oauth.py`) | two secret rows | start, poll, cancel, disconnect, refresh | the token on file is the last issued | `DeviceLogin` |
| Sessions (`auth/service.py`) | refresh-token families | login, rotate, log out, revoke | ended stays ended | `Sessions` |
| Accounts (`auth/service.py`, `bootstrap.py`) | users, invitations, reset links | register, invite, accept, reset | each is good for one use | `Accounts` |
| Single sign-on (`auth/oidc.py`) | login transactions, settings, domains | begin, callback, claim | one sign-in, one configuration | `SignOn` |
| Request context, members, API keys (`tenancy/context.py`, `service.py`, `auth/api_keys_service.py`) | memberships, roles, keys | load, mint, revoke, remove | revocation is complete | `Principals` |
| Role templates (`tenancy/service.py`) | templates, versions | edit, activate, roll back, assign | versions are a history | `Roles` |
| External facade, the schema of answer blocks, media proxy, e-mail, settings, health, HTTP policy, configuration, web client, deployment | small or none | | reasons in section 6 | |

### How they interact

* A request commits its change and an **outbox** row together, then nudges a
  dispatcher; the beat runs another every thirty seconds. Dispatchers turn rows
  into **Celery** messages, delivered at least once.
* **Tasks** (ingest, re-index, delete, evaluate, re-embed, extract, audit) write
  Postgres and Qdrant in separate steps, with network calls between.
* **Retrieval** reads Postgres, then Qdrant, then Postgres again; a **turn** reads the
  quota, retrieves, calls providers through the gateway or directly, and stores what
  it streamed and what it spent in several commits.
* **Requests** run at READ COMMITTED on sessions that hold copies of rows; two of them
  meet at row locks, unique indexes and advisory locks, or nowhere.
* **Sweeps** (projections, stuck documents, stale attachments, purge) repair what
  a crash left.
* **Copies** outside Postgres (payloads in Qdrant, deployments and budgets at the
  gateway, cached sums and claims in Redis) are written after the commit and may miss it.

### What is hard

There is no transaction over Postgres, Qdrant, Redis and the gateway; sessions hold
copies of rows that other processes change (an identity map that `FOR UPDATE` does not
refresh, columns written only when they differ from the copy); messages repeat; workers
die and clients go away between two commits; caches and marks expire. `PROJECT.json`
lists the places with their lines and the properties that watch them; section 7 lists
what was found beside them.

## 2. Modules

Three families have runs of their own, because overlap is what they are about:

| Module | Models | Kind |
|---|---|---|
| `DurableWork` | what publishers and consumers rely on: owed work stays owed until it was handed over or set aside | abstract specification |
| `Outbox`, `MCOutbox` | `outbox_events` and `dispatch_pending` | implements `DurableWork` |
| `AclProjection`, `MCAclProjection` | one document's access list in Postgres and Qdrant | |
| `Lineage`, `MCLineage` | the versions of one file name | relies on the delivery `DurableWork` promises |
| `ChatTurn`, `MCChatTurn` | one chat, its turns and their stops | |
| `OutboxProofs`, `AclProjectionProofs`, `LineageProofs`, `ChatTurnProofs` | theorems about them | |

The others are composed in three modules: `MCAccounts` (who may sign in, with what role,
and how much they may spend; extends `Sessions`), `MCDocuments` (bringing documents in
and keeping them in order; extends `AclProjection`) and `MCAnswers` (what an answer is
made from, how it is delivered and counted; extends `Reembed`). Their parts share no
state with one another, so they are checked side by side: a variable `focus` is drawn in
the initial state and names the instance whose actions the behaviour takes; the
variables of the other modules keep one fixed initial value. A module that answers
several questions has several instances there, with constants of their own. Each property of
a composite run is a conjunction over foci, and each focus contributes its invariant
as it stands in its module. General theorems about the parts are in `AccountsProofs`,
`DeliveryProofs` and, for `Uploads`, `LineageProofs`, for `Reviews` and `Retrieval`, `ChatTurnProofs`; `AccessProofs`,
`AnswersProofs` and `AclProjectionProofs` prove those about the modules the composites extend (`Sessions`, `Reembed`, `AclProjection`) and draw from all
of them what they say of `AccountsSpec`, `AnswersSpec` and `DocumentsSpec`.

### Outbox

State: `row` is `outbox_events.status` with the states before the insert and after
the purge; `due` is the order of `available_at` among the pending rows whose time
has come; `session[d]` is dispatcher `d`'s open transaction, rows locked and marks
not committed; `lost` are dispatchers whose connection dropped and who do not know;
`sent` counts messages the broker accepted.

`Publish` is `publish` at its caller's commit; `Claim` is `claim_due` with
`FOR UPDATE SKIP LOCKED`; `Park`, `Send`, `Reject` and `BrokerError` are the four
ways through the loop of `dispatch_pending` for one row (no handler, handed over, a
handler that raises before the broker is reached, a broker call that raises whether
or not it took effect); `Commit` is the one commit at the end of the batch; `Crash`,
`LoseConnection` and `CommitFails` are its failures; `Elapse` is the end of a
backoff; `PurgeDispatched` the daily purge. The length of a backoff and the age of a
purged row are left to chance: no property may depend on them.

### AclProjection

State: `row` is the committed `documents` row; `points[b]` the payload of the b-th
batch of its points; `snap[p]` the row as process `p`'s session holds it. `hidden`,
`hits` are what a `retrieve` remembers; `asked`, `window` are history.

| Action | Code |
|---|---|
| `LoadForAcl`, `CommitAcl` | `set_document_acl`: load, then one UPDATE that increments the revision in SQL and writes the list only if it differs from the loaded one |
| `SweepLoad` | `reconcile_security_projections`: one selected row |
| `WriteStore`, `WriteFails`, `RecordFailure`, `Activate`, `Superseded` | `project_document_security`: the Qdrant call, its failure, the compare-and-set that matches or does not |
| `IngestLoad` to `IngestShow` | `run_embed_upsert` seen by the list: batches from the loaded row, second read, restamp, index, promote |
| `BackfillLoad` to `BackfillFinish` | `run_enrichment_backfill` |
| `ReadStart`, `Query`, `Recheck` | `retrieve`: unprojected ids, vector query, unprojected ids again |
| `ReadChunks` | the two chunk readers, which do not look at the projection |
| `MarkDeleting`, `Killed` | a delete request; the death of any process between two steps |

### Lineage

State: `row[v]` is the row of version `v` (status, approved, current, has_vectors);
`store[v]` its points (none, hidden, visible); `owed` the published messages nobody
works on; per process the step, the job, `mine` (the session's copy of its own
document's row) and `plan` (what `promote_lineage` carries past its first commit).

`Take` to `MarkIndexed` are the tasks of the ingest chain and of a re-index, `DeletePoints`
and `EraseRow` those of `run_delete`, `Approve` is `set_approved`. `promote_lineage` is
`NothingIndexed`, `NeedsReindex` or `Converge`, then `Flip`, `DropDemoted`,
`ClearVectors` and `Enqueue`: one action per commit or Qdrant call. `StageRaises` and
`PromotionCut` give the message back, or mark the document failed when retries are
exhausted. Effective dates are folded into `approved`: both only make a version
eligible, and the scan for a date that has come calls the same promotion.

### ChatTurn

State: `msgs` are the rows of `messages` in insert order; `memory` is `chats.summary`
told as the set of messages it covers, with its anchor; `holder` the lock of the chat's
row; `turn[t]` one request with its program counter, the copies it read, what it streamed
and what it owes the ledger; `rescue[t]` the detached task.

`Ask` groups the openings (send, edit, answer, regenerate: leaf or parent read before
the lock, row inserted under it), `Gather` the calls before the prompt (triage, single
retrieval, forced search, planner and tools, the route that follows), `Assemble` the
history, with or without folding the summary, `Reply` the stream, the gatekeeper, and the
commits of the answer, of its citations and of its usage; `DrawBlocks` is the second paid call,
`generate_blocks`, between them and the done frame of the routes with sources, which no ledger
hears of. A call to `embed` stands for whatever a search bills. `Fail` is a provider's error and
`Abort` a client that goes away, at every await; `Rescue` is the detached task that
then stores the partial answer, `RescueDies` the end of its process.
The stream below it is `Streams`, the loop inside `Gather`'s step the module `Gather`, the
content of the prompt `Grounding`; ChatTurn sees them as calls that answer or fail.

### Accounts, credentials and money: the parts of `MCAccounts`

| Module (foci) | State and code | Steps kept apart |
|---|---|---|
| `Sessions` (sessions) | `tokens` are `refresh_tokens` in insert order, `account` is `users.is_active` and `security_version`. `Login`, `Rotate` (`rotate_refresh`), `Revoke` (logout, one session, all sessions) | reading the token, the row lock and the fresh reading under it, the search for a live successor, the commit; deactivation and time between them |
| `Accounts` (accounts) | `user`, `platform`, `invites`, `links`, the advisory `lock`. `RegisterLock`, `RegisterCheck`, `CreateSuperadmin`; `BootstrapCheck` (the command, without the lock); `Invite`, `AcceptRead`, `AcceptCommit`; `ProvisionRead`, `ProvisionCommit`; `RequestReset`, `NewLink`, `ResetLock`, `Reset` | each check and the commit that relies on it; a connection that drops between |
| `Ledger` (ledger) | `rows`, `manages`; `RecordUsage` adds a row, the views are operators: `UsageReport`, `DailyUsage`, `OrgUsageSummary`, `PlatformUsage`, `EstimateCost` | time between rows |
| `Catalog` (prices, refreshes) | `sdk` and `listing` (the installed LiteLLM), `published`, `table` (`model_catalog`). `Refresh`, `Fetch`, `Clear`, `Commit`, `Fail` are `refresh_catalog`; `Shown` is what `build_catalog` lists, `Charged` what `_price_map` finds | the age test, the download, the DELETE, the commit that meets another's rows |
| `Budgets` (budgets) | `userQuota`, `default`, `secret`, `budget`. `Stream`, `MintLookup`, `Generate`, `Store` are `get_or_create_user_virtual_key`; `PutUser`, `PutOrg` and their mirrors `UpdateCall`, `EachCall` | look-up, gateway call, secret, and the loop over the members |
| `Registry` (replays, designations) | `row` is `models`, `deployed` the gateway's. `PatchRead`, `PatchCommit`; `Start`, `ListAll`, `ListDeployed`, `DeleteDeployed`, `Deploy`, `Mark`, `SyncFails` are `sync_models_to_litellm` | every call to the gateway; a restart loses what is owed |
| `Roles` (roles) | `template`, `snapshots`, `holds`. `UpdateRead`, `Activate`, `RollbackRead`, `AssignRead`, `DeleteRead` and their commits | read and commit |
| `DeviceLogin` (device) | `login`, `stored` are the two secret rows; `issued`, `spent` the provider's memory. `StartLogin`, `Poll`, `CancelLogin`, `Disconnect`, `Refresh` with the provider's answer and the commit apart | the answer, its loss, the death before the commit; the advisory lock |
| `Principals` (credentials, members) | `member`, `user`, `key`, time. `LoadUser`, `VerifyMember`, `Resolve`, `KeyUser`, `Serve` are the statements of a request's context; `Mint`, `RevokeKey`, `AddMember`, `OustRead`, `OustCommit`, `EditUser` | each statement |
| `SignOn` (browsers, claims) | `settings`, `login` in Redis, `cookie`, `org`, `user`. `LoadIssuer`, `LoadClient`, `Begin`, `Take`, `Exchange`, `Lookup`, `Provision`, `Issue`; `ClaimRead`, `ClaimCommit` | the two settings are two reads; login, callback, and domain claims |

### Documents: the parts of `MCDocuments`

| Module (foci) | State and code | Steps kept apart |
|---|---|---|
| `AclProjection` (ingest) | as above, with an ingestion and a backfill beside a list change | the two reads of the row, the batches, the restamp |
| `Folders` (folders, tree) | `folder` with the request that has not committed the row, `doc`, `queued`. `Ensure` is `ensure_path` segment by segment with its savepoint, `Create`, `Move`, `Delete` (rows, events), `File` (move of a document) | read and commit; uniqueness waits for the other transaction |
| `Uploads` (uploads, moves, objects) | `row`, `object`, `upload`, `stage`, `wipe`. `Upload`, `FindDuplicate`, `FindPredecessor`, `Insert`, `Store`, `CommitUpload` are `create_from_upload`; `StartStage`, `PutArtifact` the artifacts; `DeleteObject`, `RemoveRow` are `run_delete` | each statement, each object, deaths between |
| `StuckSweep` (sweep) | `row` has `updated_at` and the newest job's; `Sweep` is `reconcile_stuck_documents`, `Progress` a heartbeat, `Lose` a lost message or worker | a beat at a time |
| `Chunking` (chunks) | `shape`, `scanned`, `blocks`, `work`. `Parse` chooses OCR; `Take`, `LastFlush`, `Whole` are `chunk_document` block by block | characters are numbers in reading order, so that loss, order and place can be told |
| `Metadata` (tags, fields) | `fields`, `meta`, `points`, `work`. `PutRead`, `PutCommit`, `PutMirror` are `set_document_metadata`; `Load`, `Upsert`, `IngestReread`, `IngestStamp` the tasks; `Clause` is `build_clauses` | commit and mirror; batches; a PUT of the values it had loaded commits no column and mirrors all the same |

### Answers and deliveries: the parts of `MCAnswers`

| Module (foci) | State and code | Steps kept apart |
|---|---|---|
| `Reembed` (reembed) | `model`, `doc`, `points`, `job`, `task`. `CheckUpload`, `CommitUpload` the gate; `StartReembed`; `TakeTask`, `CopyDoc`, `WipeOld`, `Flip`, `Acknowledge`, `FailTask`, `KillTask` | each document, the wipe, the switch, retry and redelivery |
| `Retrieval` (filter, rank) | `store`, `caller`, `asked`, `query`. `ReadPending`, `Fuse`, `Recheck`, `Rerank`, `FusionOrder` are `retrieve` | the order of the hits and the scores are choices |
| `Gather` (caps, pages) | `settings`, `count`, `gather`. `Turn` is one step of `run_agent_gather`: plan, gate, call, record | peek, call and record of a daily cap; midnight |
| `Grounding` (grounding) | `rows`, `points`, `answers`, `turn`. `Pin`, `Retrieve`, `Backfill` (chunks cited before, then those of attachments) fill the four groups; `Resolve` merges and numbers them; `Assemble` fits them and builds the `prompt` by its parts (system, summary, note, turns, question, label); `Reply`; `Give` refuses | deletion of documents between |
| `Streams` (streams) | `script` the answer, `said` and `told` what was sent, `texts`, `calls` the client's. `TextDelta` to `Completed` are the events, `UsageChunk` and `Done` the gateway's, `Fails`, `Closes` the breaks | each event |
| `Attachments` (attachments) | `row`, `blob`, `points`, `queue`, `send`, `sweep`. `Upload`, `Fetch`, `Extract`, `Route`, `Upsert`, `SweepList`, `SweepRow`, `SweepPoints`, `DeleteChat` | each store; deaths of worker, request and sweep |
| `Reviews` (queue, log, audits) | `feedback`, `scores`, `events`, `reader`. `SetRead` to `SetUpdate`, `ClearRead`, `ClearCommit`; `AuditRead`, `AuditDone`; `RecordAudit`, `CommitAudit`; `Open`, `Turn` turn pages by their key | times are taken before the commit |
| `Evals` (evals) | `settings`, `golden`, `events`, `runs`, `work`. `Patch`, `PatchCommit` are `update_retrieval_settings` with its event; `Start`, `Claim`, `Fill`, `Nightly` are `run_eval` | snapshot, claim, fill; redelivery |
| `Deliveries` (deliveries) | `signed`, `seen`, `mark`, `bot`, `convo`, `work`. `Deliver` verifies, `ClaimOnce`, `ClaimMark`, `Relay`, `SaveMapping`, `Reread`, `Send`; `SetEnabled`, `DeleteIntegration` | the claim before the work; time and expiry |
| `Quota` (quota) | `ledger`, `userQuota`, `orgQuota`, `cache` with expiry. `Open`, `Cached`, `Fill`, `Decide` are `check_quota` scope by scope, `Record` is `record_usage` | the read of Redis, of the ledger, the fill, the comparison; the record long after |
| `Periods` (periods) | `today`, `resetDay`; `PeriodBounds` is `period_bounds` | a day at a time over two years, one of them a leap year |

## 3. Runs

Passing runs:

| Run | Instance | Shows |
|---|---|---|
| `AclConcurrent` | two requests and a sweep in every order, three revisions, one fault; `FairSpec` | `ActiveIsProjected` (an active row is projected at its revision), `Reprojected` (a row out of retrieval comes back) |
| `AclSequential` | one process as request and sweep, a `retrieve` and a chunk reader beside it, three revisions, two faults | with projections one at a time: `ActiveMeansStored` (the points of an active row carry its list), `ServedWasCommitted` (what is served was committed during the call) |
| `Outbox` | three rows, two of them malformed, a sweep and a nudge of different builds, batches of two, two faults; `FairSpec` | `HandedOver`, `DuplicatesNeedFaults`, `KeepsContract` (the outbox implements `DurableWork`), `HandledIsDelivered` |
| `LineageSerial` | three versions, one worker, one request, one stage that raises | `ConvergedAtRest` (at rest, with all indexed, the effective version and no other is current and served), `DeletedNotServed` |
| `LineageSettles` | two versions, two workers, one cut promotion; `FairSpec` | `Settles`: tasks that ask for each other's work come to rest |
| `ChatTurn` | two overlapping turns, one of them small talk, on an empty, a started and a long chat; failures, stops and a deletion anywhere; with fairness | `TreeWellFormed`, `SummaryMatchesAnchor`, `PromptIsPath`, `SpendOnRecord`, `StoppedIsKept` |
| `Accounts` | the fourteen foci of `MCAccounts`; two requests at one user's session, three tokens and four instants in `Sessions` | the properties below, from `SessionsEnd` to `BudgetsFollow` |
| `Documents` | the ten foci of `MCDocuments`; two batches, one change of the list and one fault in the ingestion | `IngestRestampsAll` to `FindsByMetadata` |
| `Answers` | the fifteen foci of `MCAnswers`; one document, two models, three jobs, one retry and one kill in `Reembed` | `NothingLeftBehind` to `AllocationsHold` |

The composite runs check, besides the types:

| Property | What it says |
|---|---|
| `SessionsEnd` | a session that ended never comes back; a live token is taken away only by reuse after the grace window |
| `SpentOnce` | one superadmin from the first run; an invitation closed exactly with the account it made; a reset link resets once |
| `ViewsAgree` | all reports over the ledger add up to the same tokens and cost, within their scope; the table of prices is one refresh's and never emptied, and a model is charged what the picker shows, unless two entries claim its name |
| `RegistryHolds` | rows that say synced are deployed once and as they are, but for replays side by side; at most one utility model, the one last designated |
| `RollbackRestores` | a rollback restores the version before the current one; numbers only grow |
| `CredentialIsLatest` | a cancelled or disconnected sign-in leaves no credential; the token on file is the last issued, unless an answer was lost |
| `RevocationIsComplete` | a request is served only on facts that held since it began; the last owner goes only in a request that was overtaken since its test |
| `SignsInOnce` | a login signs in once, in its browser, with one configuration; two organizations hold a domain only if they claimed it together |
| `BudgetsFollow` | at rest a key's budget is what its member is allocated, but for overlaps, failed calls and a removed override |
| `IngestRestampsAll` | unless the list changed after the second read of the row, every point carries the committed list when the document is marked indexed |
| `FilingHolds` | concurrent `ensure_path` calls agree; a requested deletion has its event; the tree hangs from the root while one request moves folders; originals are there, objects have rows, versions follow uploads, caps and contents, but for overlaps |
| `OnlyStrandedAreSwept` | a stranded document is sent again within a beat of the cutoff, a stage that goes on is not |
| `ChunksCoverTheText` | no character is lost, order, sections, pages and sizes are right, for all four methods |
| `FindsByMetadata` | at rest a search by metadata finds a document exactly when its row has the value, unless a writer missed a change (`loose`): a copy older than a PUT, or a PUT that wrote no column and mirrors what another had replaced |
| `NothingLeftBehind` | after re-embedding every indexed document has its points where they are read, but for documents `caught` in the ways its comment lists |
| `DeliveredOnce` | a platform's message reaches the model once; a deleted bot keeps no conversation; an event of a settings change has one evaluation row, which measures this change or a later one |
| `GatheringHolds` | daily caps are passed only by the turns in flight together; a page found is a source; a turn fails over points without a row only after a death, a late send or a new route |
| `AnswersAreGrounded` | the citation stored under a number is the block the model saw under it; prompts keep their budget but for the summary, the note and the label, which the code adds after the count; a stream's answer is whole, once, or an error |
| `SourcesHold` | `retrieve` returns readable chunks only, each once, the best the reranker scored |
| `ReviewsHold` | pages turned while rows come and go skip none that stays; counts agree with lists; scored answers were paid for |
| `AllocationsHold` | no turn is admitted that began a cache lifetime after the total reached its allocation, none is refused while tokens are left; every day lies in one quota period |

`Documents` and `Answers` are the largest runs: above two million distinct states each, some two
minutes with a few workers; the others take less.

Variables named history above (`caught`, `loose`, `blurred`, `stale`, `raced`, `stirred`,
`crowded`, `orphans`, `dangling`, `cut`, `lost`) record that an overlap or failure happened
which the code does not guard against. A property excepts exactly these cases, so that
it says what the code does promise; section 7 names the cases.

Runs that end in a violation, each a disagreement between the code and what it says
of itself (quoted in `PROJECT.json`):

| Run | Property | What happens |
|---|---|---|
| `AclOverlap` | `ActiveMeansStored` | The store is written without a condition on the revision. A slow projection writes the old list after the newer one was written and before the newer row is activated: active row, old list, which no sweep selects. (The slow projector's own compare-and-set, if it lives to fail, sets the row pending again.) |
| `LineageDeleteRace` | `DeletedNotServed` | `run_delete` removes the points, then, several awaits later, the row. An ingestion in between writes the points again, indexes and promotes; the row goes and visible points stay. |
| `ChatAnswerTwice` | `AnsweredOnce` | The guard of `POST /answer` looks for a stored reply, and a reply is stored when its stream ends: two calls that overlap both pass and both store one. |

### Bounds, and why they are enough

* `MaxRevision` 3: the compare-and-set compares two revisions, and an ABA needs a third.
  `MaxFaults` 1 or 2: one failure to break, a second while it is being repaired.
* Two access lists: a property compares the stored list with the committed one; two
  are interchangeable, and the safety runs that use it declare the symmetry. Two
  batches: one written before and one after the change.
* Outbox: three rows with batches of two leave one outside every batch; as many malformed
  rows as a batch holds could fill it for ever; two dispatchers are the sweep and the
  nudge. The proofs lift these bounds.
* Lineage: three versions give a winner, a demoted one and one in neither role.
  `LineageSettles` uses two of each because the loop it looks for is between two tasks.
* Chat: two turns, as every race in it is between two; one planner step and a summary of
  one message (`Trigger`, `Keep`), reached in the long chat.
* Two requests (or workers) in every composite part: the code's races are between a read
  and a commit, and a third adds another pair. Where a part has one, its race is
  with the environment (time, deletion, delivery).
* Time is a small counter with the windows as constants of 1 to 3 ticks: orders of
  events and ends matter, not lengths. A `Tick` past the bound is cut, which leaves out
  behaviours longer than it, not shorter ones.
* `Sessions` has one user and one family with three tokens: reuse, its answer and a rotation
  that waits need no more, and the theorems lift the bound. In the members' instance
  `ann` begins in any role but none and `bob` in any: with neither there is nobody to remove.
* Counts of changes, deaths, retries, tokens, links, batches and edits (`Max...`) are named in
  the modules and bound what comes from outside.
* `Folders` moves with one request only: two movers can close a cycle (section 7).
* `Registry`'s `MaxDeployed` 2 in the replays cuts only behaviours that are `blurred`.
* `Retrieval` is checked twice, with one point and every payload for the filter, with four
  readable points of three chunks for the ranking: the filter judges points one by one.
* `Chunking`: documents of up to three blocks out of twelve kinds, on two pages; target
  and overlap so small that a block is cut, overlaps and is joined.

Reductions, each argued where it stands: in `MCChatTurn` and in `CapsNext` of `MCAnswers`,
steps that only their own turn can see are taken first; `ReplayNext` commits a patch as soon
as it is read while a replay runs; `TagsNext` creates the fields before values are set;
`Unstaged` and `OneDeletion` keep ingestion, or a second deletion, out of instances that
ask about uploads; `OneLost` lets one of the two documents lose its points in `Grounding`;
`BetweenRuns` edits golden queries while no run lists them. New rows
take a canonical unused identity (`Drawn`, or the next number).

`CHECK_DEADLOCK FALSE` everywhere: the counters bound the environment, and a system with
no owed work stops.

### Fairness

* Projection: each step of a process that is running, and the sweep, which the beat
  schedules for ever; not requests, and not failures. The bound on faults says that
  failures end, without which no sweep could promise anything.
* Outbox: `Claim` of the scheduled sweeps but not of nudges, the next step of a
  dispatcher that holds rows, and the passing of time.
* Lineage: `Task(p)`: workers consume their queue and a process that was not killed goes on.
* Chat: a request that holds the chat's row lock commits (it does two statements under it,
  and a cancelled one rolls back, which releases it too); the detached task goes on, strongly
  fair for the lock, which Postgres grants in turn.

The others are weak; nothing else assumes that a step possible now and then is ever taken.
The composite runs check safety and action properties, without fairness.

## 4. Proofs

For every number of processes, lists, batches, versions, messages, requests and failures.
Assumptions on constants are those in the modules, named, and evaluated by TLC in the
runs; a hypothesis that a theorem adds stands in its statement. Each proof has the same
plan: an inductive invariant (its name below), one lemma per action or group of actions
that keeps it, and a last step that joins them in temporal logic. The invariants say in
their named parts why the property is not inductive as it stands.

### `AclProjectionProofs`

* `TypeCorrect`: `Spec => []TypeOK`.
* `ActiveIsProjectedAlways`, from `RevInv`: types, `ActiveIsProjected`, and `SnapBehind`
  (no session holds a revision newer than the row's). The last is what makes the
  increment in SQL matter: a compare-and-set that matches matches the newest revision.
* `DistinctTargetsAlways`, under `RequestsDoNotSweep` (a process is not both kinds).
* `ActiveMeansStoredAlways` and `ServedWasCommittedAlways`, under `OneProjector`: one
  process makes all changes and projections, and neither ingestion nor the backfill
  runs beside it. `AclOverlap` shows that the hypothesis is needed. The invariant `SeqInv`
  says for each step of the projector which list the store can hold and that its snapshot
  is the row's; `ReadInv` adds that the hits of a query lie in the reader's window, and that
  before the query so do the lists of all points the first snapshot does not exclude.
* `IngestRestampsAllAlways`, under `OneOfEach` (one projector, and one task that writes
  payloads; they overlap each other freely, and each may die at any step). `RestampInv` says
  of the task how far it has come (`Restamping`: the batches behind it are there, the row it
  read again is the row unless it changed since) and of the projector (`Projecting`) that
  its copy carries the row's list while it is in flight.

Of `DocumentsSpec`: `IngestRestampsAllHere`; `OnlyStrandedAreSweptHere` and `FindsByMetadataHere`
from `DeliveryProofs`, by `SweepsHere` (a behaviour of the composed system is one of
`StuckSweep`) and `TagsHere` (it keeps the invariant of `Metadata` while that has the focus); and
`FilingHoldsHere`, by the same argument for the two instances of `Folders` (`FoldersHere`, `TreeHere`,
from `DeliveryProofs`) and the three of `Uploads` (`CappedHere`, `MovingHere`, `StoringHere`, from
`LineageProofs`). Its hypothesis `Apart`: the names of the run's constants are none of the words
that `Folders` uses in place of a request, a folder or a name ("root", "keep" and the like).

### `OutboxProofs`

* `OneHolderAlways`, `OnlyPendingHeldAlways`, `HandedOverAlways`, from `IInv`: types, a mark
  "dispatched" had its message accepted, a held row was published, open transactions
  hold disjoint sets (`LiveHolders`) of pending rows (`LiveHoldsPending`). `HandedOver`
  alone is not inductive: a commit would need to know that its marks are true; and
  `LiveHoldsPending` needs `LiveHolders`, or another's commit could change the row.
* `DuplicatesNeedFaultsAlways`, from `DupInv`: messages sent, plus dispatchers that will
  send the row without holding it, are at most the faults plus one for a message on
  record. A lost connection either adds such a dispatcher or takes a message off the
  record, never both for one row; a commit moves a record from a session to the row.
* `ContractKept`: `Spec => KeepsContract`. The refinement maps pending to owed,
  dispatched and purged to settled, failed to parked. A send is a `Deliver` or repeats
  one; a commit is a `Close` of two sets; a purge is a stutter.

The order of `due` has no part in these proofs; it is what liveness needs.

### `LineageProofs`

Of `Lineage`, both under `OneProcess`: one process does all the work, stage by stage, with stages that
raise, retries and exhausted retries. `LineageDeleteRace` is the counterexample for two.
Versions are any finite set of numbers (`VersionAssumption`); that a finite set has a
highest member comes from the library's well-founded ordering of finite subsets.

* `DeletedNotServedAlways`, from `Safe`: what is absent or gone has no flags and no points
  (`NoTrace`), and for each step what the process may rely on (`At`): its document is still
  there, its copy of the row agrees but for the status, a deletion that is about to erase
  the row has no points left.
* `ConvergedAtRestAlways`, also under `MaxCuts = 0` (no promotion dies between its commits;
  the code repairs such a lineage only at its next promotion). `Converges` says that rows
  claim exactly the points that are there, but for what is about to be written (`Backed`), and
  that once nothing is owed (`Calm`) the plan a promotion carries is the right one, step
  by step (`Decided`, `Planned`); at rest this is the property.

Of `Uploads`: `UploadsHoldAlways`, under `UploadBounds` (ids are drawn in order, requests are finitely
many, sizes and caps are numbers, the artifacts of a document have names of their own). `UploadInv`
has a part for each promise, and two for what they lean on:

* `EntryInv`: rows are drawn in order, and a request that has flushed one has it for itself;
  `WipeInv`: only what is stored is being deleted.
* `StageInv` and `ObjectInv`: a request knows whether its original is there; what `run_delete` has
  passed is gone, unless a stage put it back, which then is an orphan. That is why the property
  speaks of orphans at all: the deletion visits its keys in order and each once.
* `NewestInv`: a predecessor that was looked up is the newest of its place for as long as no other
  upload to it and no move came between (`Knows`, `Alone`), and so the row that follows it is newer
  than all (`Follows`).
* `CapInv`: as long as two uploads never overlapped, a request that has passed the test still fits;
  if they did, rows and requests under way together stay below the cap and the requests.
* `StoredOnce` is inductive as it stands: the flush tests it, as the unique index does.

The bytes of the rows are a sum over a set, and the module proves of such sums, without recursion,
what the invariant needs: there is one (`AddsUp`, `OneSum`), any element may be taken away first
(`TakesAway`), and a part of a set weighs no more than the whole (`TotalOfPart`).

### `ChatTurnProofs`

`TypeCorrect`, `TreeAlwaysWellFormed`, `SummaryAlwaysMatches`, `PromptIsAlwaysPath`,
`SpendAlwaysOnRecord`, and `ActiveLeafAlways` (the `CHOOSE` of the active leaf always has
something to choose), for any number of turns, of planner steps and of messages, any
`Keep` and `Trigger`; `TurnsNamed` says that no turn is the model's "nobody".

* The path above a message is a recursive function. That it has a solution follows from an
  explicit one, the messages in every set that contains the message and is closed under
  parents; what holds of all paths, from the least message for which it would not. No
  induction is used, which the provers cannot instantiate.
* `ChatInv`: types, the tree, `Tells` (the stored summary covers the path to its anchor), and
  per turn `Good` (its copies, its prompt and what it owes agree with the messages as they
  were and therefore, as messages are only added, as they are), `Holding` (who is between the
  count of siblings and the insert holds the lock of the chat) and `Rescued` (what the
  detached task stores is what the turn had streamed).

A third part is about `Reviews`: `ReviewsHoldAlways`, under `ReviewBounds` (ids are numbers, messages
and events are finitely many, and a page has room for a row), for any chats, organizations,
requests, replies of the Auditor and kills of the worker.

* `Newest` lists keys by rank: the i-th is the one that has i - 1 before it. That ranks are one
  to one, so that the list is sorted and has them all, is a count of finite sets (`RanksSort`).
* `StoreInv`: whoever has flushed a rating is alone with its message, which has none yet; times
  written are not in the future. `AuditInv`: an answer with scores has a usage row, and there
  is at most one more of them than deaths.
* `ReaderInv` says why a page may start after the last row of the page before it: what was shown is
  sorted and holds no row twice; no row that was shown is made again with an earlier time
  (`Settled`), so that it cannot come once more; what was there all the time has been shown or lies
  after the cursor; and while nothing changes, what is shown and what is left are the table.

The last part is about `Retrieval`: `ServesTheBestReadableAlways`, under `RetrievalBounds` (points are
finitely many, each of one organization and one workspace, a page has room for a chunk, scores are
numbers), for any payloads, callers, clauses and scores.

* `FilterReads`: what meets the filter's conditions, as Qdrant reads them, is what the caller may
  read. From there `RetrievalInv` says of the hits of each stage that they may be read: no stage
  adds one.
* `InOrder` and `Ranked` are given by ranks as well, so `RanksSort` says of both that they list all
  positions: first to last, and best to worst. `AlignedDoes`: the score at a position is the one
  the reranker gave to that text. With both, each of the k chunks has the score it is placed by
  (`RerankServes`), and who is left out has none higher.

### `AccessProofs`

Of `Sessions`: `TypeCorrect` and `SessionsEndAlways`, an action property: no step brings an ended session
back, and reuse takes a live token away only when the token presented was revoked longer than
the grace window ago. `SessionsInv`: the times written into rows are real instants, so a
revocation is never undone; and `Sound`: what a request read before it waited for a row
still holds of the rows as they are (`KeptSound`, as rows are only added and revoked). Then
`Ended` and `Dead` of a family are kept by each step, given that no request carries a new
token for it (`Carries`).

Of `AccountsSpec`, the system that the run `Accounts` checks: each behaviour of it is one of
the module with the focus (`FocusKept`), so that `SpentOnceHere`, `CredentialIsLatestHere`,
`RollbackRestoresHere`, `RevocationIsCompleteHere`, `SignsInOnceHere`, `BudgetsFollowHere` and
`RegistryHoldsHere` state the properties of the run under their own names. The general theorems are those of `AccountsProofs`; here
their constants are those of `MCAccounts`.

### `AccountsProofs`

One part for each of seven modules, each with the state of its own.

* Accounts: `OneSuperadminAlways`, `SpentOnceAlways`. `AccountsInv`: a link found unspent under
  its row lock is unspent (`Ready`, `Apart`: two requests never hold one link), invitations are
  closed exactly when an account names them (`Matched`), the superadmin exists exactly
  once its organization's name is taken (`Single`).
* DeviceLogin: `CredentialIsLatestAlways` (`MaxLogins \in Nat`). `DeviceInv`: one operation at a
  time (`OneAtATime`), which is what the advisory lock of `_locked` is for, and the token on
  file is the provider's last, but for an answer in hand or lost (`Current`).
* Principals: `EntitledAlways`, `OwnerKeptAlways` and both as `RevocationIsCompleteAlways`, under
  `PrincipalBounds` (lifetimes and counts are numbers). `PrincipalInv`: which facts a request may
  have lost at each statement of its context (`Verified`), no key outlives its bounds
  (`Within`), a test of the last owner that was not overtaken still holds (`Tested`).
* Roles: `RollbackRestoresAlways`. `RoleInv`: snapshots number the activations without gap or
  repetition (`Numbered`); what a request read is of the version it read it with, or that
  version's successor is taken (`ReadOf`).
* SignOn: `SignsInOnceAlways`, under `NamesApart` (no browser, login or issuer is called "none").
  `SignOnInv`: a login taken from Redis is in the hand of one request or came to its one
  session (`Separate`), what that request carries agrees with what the login asked for
  (`Carried`), one organization claims the domain unless two overlapped (`OneClaims`).
* Budgets: `BudgetsFollowAlways`, under `BudgetBounds` (an organization has a member).
  `BudgetInv`: keys are never shared: one that is not stored yet is no secret, and nobody but
  its request knows it (`OwnedBy`, `Secrets`); for a member somebody looks after, what any
  request carries is what the member is allocated (`Carries`), and the budget of the member's
  key is that, or a request is on its way to write it (`Writes`).
* Registry: `RegistryHoldsAlways` (`MaxDeployed \in Nat`). The copy is exact at rest only, so
  `Followed` says how far a replay is that runs alone and to which no change has been owed
  since: what it read is what the rows say, what it has yet to delete is all there is, and what
  it has deployed is as it should be (`Follows`). `Flagged`: the flag is set in the row it was
  last put in, and there only.

### `AnswersProofs`

Of `Reembed`: `TypeCorrect` and `NothingLeftBehindAlways`. The property speaks of states without tasks; the
invariant of those in between. `Shaped` ties tasks to jobs; `Swept`: what a run was to copy is
in the collection it fills or on its list; `Still`: a document on its way in is `caught`, or
no task runs and it goes where the workspace reads; `Covered`: the collection that is
searched is complete, or the run that emptied it will come again.

Of `AnswersSpec`: `NothingLeftBehindHere`; `DeliveredOnceHere`, `AllocationsHoldHere` (where
the user `u1` is not called "org") and `GatheringHoldsHere` (where the user and the organization
are two counters) from `DeliveryProofs`. The lemmas `DeliveriesHere`, `EvaluationsHere`,
`SpendingHere` and `CalendarHere` say that a behaviour of the composed system is, for their
variables, one of `Deliveries`, `Evals`, `Quota` and `Periods`; `CapsHere` and `PagesHere` that
it keeps the invariant of `Gather` while one of the two instances has the focus, and
`AttachmentsHere` that it keeps the one of `Attachments`. `ReviewsHoldHere` comes from
`ChatTurnProofs` in the same way (`QueueHere`, `LogHere`, `JudgingHere`), and so does
`SourcesHoldHere` (`FilteringHere`, `RankingHere`); they ask nothing of the constants.

### `DeliveryProofs`

Modules that are composed with others, each with the state of its own: work that is handed over
more than once, copies that are used after they were taken, and stores that are written apart.

* Deliveries: `DeliveredOnceAlways`, under `DeliveryBounds`. A claim lives longer than a signature
  verifies (`TTL > 2 * Skew`: 900 seconds in `bots.py` against 300 on each side of the clock in
  `verify.py`), and the mark of Telegram, thirty days, longer than the clock runs
  (`MarkTTL > MaxTime`: an update redelivered after that is not looked at). `DeliveryInv`: a message that was answered, or
  is about to be, is `Claimed` for as long as it verifies; the worker that is about to
  relay one is the only one (`Alone`); a claim outlasts its message (`Lasting`); what passed
  the test of its signature still verifies until it is claimed (`Verified`).
* Evals: `RunsMeasureTheirChangeAlways`. `EvalInv`: what a worker or a row carries was measured
  no earlier than the change its event announced (`Dated`); a run without a row of its own is
  not older than the rows there are, unless it is marked as overtaken (`Ahead`); the rows are
  in the order of what they measured but for those marked, and no two share an event (`Ordered`).
* StuckSweep: `OnlyStrandedAreSweptAlways`, an action property, under `SweepBounds`: the documents
  are finitely many and one sweep can take them all (more than its limit, and the later ones
  wait another hour). `SweepInv`: what the sweep reads of a document is not newer than what
  last happened to it, and the stage of a document is not silent (`Heard`); a stranded one is
  found by the next sweep (`Found`).
* Quota: `AllocationsHoldAlways`, an action property, under `QuotaBounds`: times and allocations are
  numbers, a cached total lives at least one instant, and no user is called "org". `QuotaInv`:
  since when a total has reached its allocation (`FullSince`); a cached total was one of the
  ledger, no longer ago than its lifetime and the delay of its entry (`Entered`); and what a
  check holds in each of its scopes is a total of the ledger that was not older than that when
  the check began (`Summed`, `Uses`, `CheckSound`). Totals never fall, as rows are only added.
* Periods: `PeriodsTileAlways`, for any years. The steps of the proof are facts about two
  neighbouring months: the month after the month before is the month itself (`MonthsTurn`), and
  the first day of a period lies in it (`BoundsOfStart`).
* Gather: `CapsHoldAlways` and `PagesAreKeptAlways`, under `GatherBounds`: the turns are finitely many,
  caps are numbers, and the organization's counter is no user's. `GatherInv`: a turn that has
  passed the test of a counter and not written it yet (`PassedGate`) stands for one call more than the
  counter says, so that counter and such turns together stay below cap and turns (`CountsHold`;
  the sums are cardinalities, and a step moves one turn in or out of `PassingGate`); counters of
  days to come are zero; and what a turn fetched is among its pages (`TurnHolds`).
* Attachments: `FailuresAreDanglingAlways`. `AttachmentInv`: points belong to a file that was routed
  to retrieval, or the sweep that cleared its row is still under way, or they are known to
  dangle (`Accounted`); a file being embedded has the row it was routed by, or is one that the sweep may
  take at any time (`Embedding`).
* Metadata: `FindsByMetadataAlways`, under `MetaBounds` (values and filters are numbers, batches are
  numbered). `MetaInv`: backfill and re-embedding follow ingestion, and each writes where
  it says (`InTurn`); batches passed have points (`BatchesPassed`); and unless a change was missed,
  what every writer under way has loaded is what the row says, and the points say it too where
  no mirror is to come (`NothingMissed`).
* Folders: `DeletionsAreQueuedAlways`, `EnsureConvergesAlways` and `ForestAlways`, under `FolderBounds`:
  folders are finitely many, paths are not empty, and no folder, request or name is called what the
  model writes in its place. `FolderInv`: a row of a request that has not committed is one that
  request remembers, and a parent was a folder once. `PathInv`: while nobody stirs the tree, names
  are unique below each parent and a request stands where the names it has passed lead (`Walks`);
  the row another request wrote, which the savepoint tripped over, is there when it is read again.
  `TreeInv`: each set of folders has one whose parent is outside it (`Acyclic`), and the request that
  moves has seen a set of ancestors of its destination without the folder it moves (`Apart`), which the
  others leave closed. `ForestAlways` is under `OneMover`: of two moves at once, neither
  `_is_ancestor_or_self` sees what the other is about to commit, and they make a cycle (section 7).

### What stays with TLC

* Liveness under fairness: `Reprojected`, `HandledIsDelivered`, `Settles`, `StoppedIsKept`.
* What is computed by folds and recursion over sequences, out of the provers' reach: `Chunking`,
  `Ledger`, `Catalog`, `Grounding`, `Streams`; so `ViewsAgree`, `ChunksCoverTheText`,
  `AnswersAreGrounded`.

## 5. Coverage of hazards

`PROJECT.json` lists forty hazards, each with a line and properties. Known places that no
property watches (paths under `src/backend/src/ragz/modules/` unless they say otherwise):

* `retrieval/service.py:570`: a change that commits after the first snapshot of unprojected
  documents and is projected before the second is missed by both.
* `retrieval/service.py:646`: the chunk readers do not exclude unprojected documents.
* `documents/ingest.py:450`: the enrichment backfill writes whole payloads from rows it
  loaded before its model calls.
* `documents/service.py:383`: the sweep activates a document whose deletion was requested
  after it was selected.
* `documents/service.py:442` and `464`: `FOR UPDATE` does not refresh rows the session has
  loaded, and the Qdrant steps of a promotion follow the release of its lock.
* `documents/ingest.py:673`, `documents/service.py:501`: a crash between the commits of a
  deletion, or of an approval, and the promotion that follows.
* `worker/outbox.py:93` (under `ragz/`): in a rolling update the older build parks an event
  only the newer one can send.
* `documents/folders.py:174`: two moves at once can close a cycle; `folders.py:278`: an
  upload into a subtree that is being deleted.

## 6. Not modelled, and why

* The parsers of single formats, embedding arithmetic, prompt templates, rendering,
  formatting: data. Their outcomes are choices of the actions that call them.
* The schema of answer blocks (`chat/blocks.py`) and its validation: no state, no order. The call
  that draws them is in `ChatTurn`, what it stores with the answer is not.
* The media proxy and address checks (`chat/media.py`, `core/net.py`): a relay with
  limits, one request at a time.
* The external facade (`api/routes/external.py`): a translation of formats over turns and
  retrieval; the key check in front of it is in `Principals`.
* The policy table, middleware, settings, e-mail, health, configuration, migrations, web
  client: tables, single rows, read-only probes or other languages' code.
* Qdrant, the broker, object storage, the gateway and identity providers are external: a call
  takes effect or not, and raises or not. Points of one call change together.
* Postgres runs at READ COMMITTED: each statement is atomic and sees what was
  committed; rows held by a session are stale until it reads them again.
* Redelivery of a message whose task is still running (a visibility timeout shorter
  than the task) is not in `Lineage`; overlap of tasks for one document comes from
  separate messages.
* `Ledger` omits the cut of a summary to its ten largest models; `Budgets` counts in tokens
  where the gateway counts money; `Evals` keeps of a score the settings and queries it
  was measured with.
* Usage rows of embeddings and enrichment, titles of chats, the wording of dead letters.

## 7. Observations

Where modelling showed that the code does not guard against something, or that a comment
says more than the code does. None is needed to read the models; each says which
module excepts it or leaves it out.

**Documents.**
`Uploads`: moving a document forks its lineage (two versions with one number); documents of a
deleted folder land at the root while they are being deleted and can become the predecessor
of an upload of the same name; two first uploads of one name that overlap make two lineages;
overlapping uploads pass the caps together; a document being deleted still refuses its
content; a crash or an ambiguous put between the object and the commit leaves an object;
`run_parse` and `run_chunk` can store artifacts behind `run_delete`.
`Folders`: `ensure_path`'s re-read after a lost race fails if the winner was deleted.
`Metadata`: a PUT during a backfill, a re-embedding, between ingestion's second read and its stamp, or
overlapping another PUT leaves payloads stale until a PUT that runs alone; a PUT of the values it had
loaded emits no UPDATE and yet mirrors them over those of a PUT that committed in between; deleting the last
field brings the presets back; two first listings clash on the unique name; a field made
again with another type keeps the old values; `ensure_metadata_index` does nothing while the
collection does not exist.
`Chunking`: after an overlap the carried text keeps the region's first page; `_split_text`'s "at
most limit chars" does not hold for one long word; `table_qa` leaves headings out of the
text; the OCR pass replaces the earlier text even when it finds less.
`Reembed`: `start_reembed` does not refuse a second job, and two that overlap may each empty the
collection the other fills; the "no window" of `start_reembed`'s docstring does not cover documents that are
already in ingestion, nor uploads behind a failed job that is retried.
`StuckSweep`: "only becomes eligible again after another full cutoff has elapsed" does not hold
for a row with a job, whose clock the sweep does not reset; "'deleting', which never gets one"
does not hold for a document deleted during ingestion; a message that waits longer than the cutoff is sent
twice.

**Retrieval and answers.**
`Retrieval`: the fusion limit applies before hypothetical questions collapse, so fewer than k
chunks may return; the best cosine of the fallback may belong to a chunk not returned.
`Grounding`: inlined attachments may exceed the context budget and are dropped when retrieval is
weak under `general_knowledge`, as are chunks of attachments; the summary, the note of messages left
out and the label of the question are added after the count, so a prompt passes the budget by as
much (`PromptsHold` excepts just these).
`Gather`: overlapping turns pass a daily cap by one each; a page at the Perplexity address is
dropped after a synthesis; a stop between a search and its record leaves it uncounted;
the comment "every session use in this loop is a READ … never a pending write" is not so
(harmlessly).
`ChatTurn`: "full spend recorded on every path" does not hold when a provider fails or the client
leaves; a reply without usage from the gateway is not recorded; the call that draws answer blocks is
paid for and recorded nowhere, on by default (`SpendOnRecord` excepts it); a fold whose reply is
unreadable moves the anchor on with the old text, or none, so that the messages it was asked about are
in no later prompt, although `fold_summary` promises "never to blanking history context"; a rename and the automatic title may overwrite each other; the documents route
streams without a commit before.
`Streams`: a gateway stream that closes cleanly before `[DONE]` passes for a finished answer; a
chunk with both usage and content loses the content.
`Attachments`: deleting a chat leaves blobs and points; a send before the extraction has
finished ignores the attachment silently; a model that counts fewer tokens inlines an
attachment whose points stay.
`Reviews`: two first ratings at once clash on the primary key; the DELETE of a clear may remove a
newer rating; tokens of a malformed audit are not metered, those of a repeated one twice; the
list of worst answers, sorted by a mean, may omit one that counts as low; the tree of a chat
is read in four statements.
`Evals`: a run takes top_k from its snapshot and the rest at each query; a nightly row
is dated at its end and may be the latest with older settings; a run that dies after
its claim leaves an empty row.
`Deliveries`: a delivery that was claimed and died is lost; `assert existing_chat_id is not None
# a concurrent writer must have created it` fails when the integration was deleted; a bot that
was switched off still answers deliveries in flight, on Discord also a deleted one.

**Accounts and money.**
`Sessions`: `security_version` is read and written without a lock; a rotation that waited long for
its row judges expiry and grace by the time at which it began.
`Accounts`: two requests at once leave two live reset links.
`Principals`: the test of the last owner takes no lock, so two demotions at once, or a
promotion that overlaps the removal of the same member, can leave a workspace without one; the check of an
embedding model's use takes none either; `create_workspace` adds no owner; two keys with one prefix both fail; a key's creation and
revocation commit before their audit record; an edit of a role between two statements of
`build_context` may mix an old role with new permissions.
`Roles`: an edit races with an activation; a template may be deleted between its check and its
assignment.
`SignOn`: a domain claim is check-then-act; "Any failure here sends the browser back to the login
page" does not hold for an IntegrityError.
`Quota`, `Budgets`: removing a member's override takes the gateway's cap away although the
organization's default applies; two first turns can mint two keys, one of them orphaned.
`Ledger`: a summary's queries count ledger rows, and its window differs from a report's;
deleting a model makes its past usage free.
`Registry`: "last committer wins, cleanly" can leave no utility model; "the replay is
all-or-nothing" holds for the status only; a list refused by the gateway gives duplicates; a row
stays "synced" between its change and the replay; a row deleted during a replay may fail the
commit of the status; default models may dangle.
`Catalog`: "never wipe good rows with this" does not hold for a refresh that began on an empty table
while another committed; of two overlapping refreshes the second fails on the primary key; a
slower one may bring older data with a newer date; a bare name shared by providers is charged by
the other's row; a group only `owner()` knows is shown with a price and not charged.

**Ingestion.** A current version that failed keeps `is_current` beside a promoted one although "exactly
one row ends with is_current"; a request that sets the list its session had loaded emits no
column and may project over a newer one; a change between ingestion's second read and its
restamp is overwritten (`IngestRestampsAll` excepts it).

## 8. Plan

The modules are complete as far as section 6 allows, and so are the proofs as far as section 4 does;
what would come next is `Evals` as a consumer of `DurableWork`: at-least-once delivery plus a claim.

The proofs about parts of a composed run go into the proof module beside them, as instances.
