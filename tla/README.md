# A TLA+ model of Busibox

Busibox is a self-hosted platform of cooperating services: documents are uploaded, processed into
searchable chunks, and used by agents, search and chat, all behind a zero-trust authorization service.
This directory models the parts of it where things happen at the same time and can go wrong half-way:

* **ingestion** of documents, from the upload request to the status `completed` (data API, worker, Redis Streams);
* **structured data**: a document of records in PostgreSQL and the copy of it in Redis;
* **workflows**: one execution of the agent service's workflow engine, with stops and approvals;
* **tasks**: schedules, triggers, executions and continuation chains of the agent service;
* the **bridge** between chat channels and the agent service;
* **deployment** of user apps into the container they share.

TLC checks them on small instances; TLAPS proves theorems about each of them for all values of the constants.

## 1. Inventory of the system

| Component | State | Operations | Talks to | What is hard | What makes it correct |
|---|---|---|---|---|---|
| Ingestion worker (`srv/data/src/worker*.py`, `worker/`) | none of its own but the job it runs | read, claim, process, retry, acknowledge | Redis Streams, PostgreSQL, Milvus, MinIO | crashes, redelivery, two workers on one file, partial failure | no file forgotten; completed means searchable; bounded retries and deliveries |
| Data API, ingestion requests (`api/routes/upload.py`, `files.py`) | `data_files`, `data_status` | upload, reprocess, cancel, delete | same | each request is several calls that interleave with the job | nothing resurrected after a delete; completed files spared by the clean-up |
| Milvus service | vectors by file | insert, delete, replace | Milvus | appends instead of upserting, replace is not atomic | one copy of the vectors per run |
| Schema and row level security | policies | - | PostgreSQL | the same statement sees different rows under another context | the worker sees what it must |
| Structured data service (`data_service.py`, `cache_manager.py`) | JSON documents with versions and records; a cached copy with a TTL | get, put, schema, insert, update, delete, activate, deactivate | PostgreSQL, Redis | no transaction around the statements of a request; the copy is filled from what was read earlier | deleted documents stay deleted, reads see finished writes, versions grow |
| Agent service: workflow engine (`enhanced_engine.py`, `api/workflows.py`) | executions, step executions | run, stop, approve | PostgreSQL, LiteLLM, tools | a status written over by another session, nested steps at once, cycles | a stop takes effect, completed means done, limits hold, runs end |
| Agent service: scheduler and tasks (`scheduler.py`, `task_service.py`, `api/tasks.py`, `trigger_task_tool.py`) | tasks, jobs in memory, executions | schedule, run, pause, resume, change, delete, stop, continue | PostgreSQL, APScheduler | row and job change separately, overlapping runs, restart during a run | a paused task starts nothing, an active one keeps its job, chains are bounded and flow |
| Bridge (`srv/bridge`) | per-user queue, worker and cancel event; the position of the poller | poll, receive, queue, interrupt, stream, reply, restart the bot | Telegram, WhatsApp, Signal, Discord, e-mail, agent API | redelivery, a worker's end racing a new message, clients closed under a request | one request of a user at a time, in order, none lost without the process |
| Authz (`srv/authz`) | users, sessions, magic links, challenges, delegation tokens | login, token exchange, delegation, revocation | PostgreSQL | single use under concurrency, revocation during an exchange | a one-time secret is used once; a revoked session yields no token |
| Agent service: chat agents, extraction, LLM routing | the conversation of a request | answer, extract, call tools | LiteLLM | what a language model answers | - |
| Deploy service: user apps (`port_allocator.py`, `container_executor.py`, `routes.py`, `nginx_config.py`) | port assignments and registry of running apps in files; supervisord and volumes in the container; nginx routes | deploy, stop, undeploy, recreate the container | Docker, supervisord, nginx | requests interleave at every command, one app's volumes restart all apps, nothing is undone | a completed app is up on its own port and stays so, a stopped one stays down, ports are never shared |
| Deploy service: core apps, services, platform; CLI, provisioning | the machines they configure | install, start, migrate | Docker, Ansible, k8s | partial failure of external tools | idempotence |
| Search, embedding, docs, config | (almost) none | queries, settings | Milvus, Neo4j, PostgreSQL | - | - |
| Voice agent | call state | answer, transfer, hang up | FreeSWITCH | event order | every call ends |

## 2. Plan

Most important first; each stage leaves a checked project behind.

1. **Ingestion** (done): `JobStream`, `FileStore`, `IngestAPI`, `IngestWorker`, composed in `Ingest`; the
   abstract `IngestService` and the refinement.
2. **Structured data** (done): `DocCache`, `StructuredData` over it. **Agent service** (done):
   `WorkflowEngine`, `AgentTasks`. **Bridge** (done): `Bridge`. **Deployment of apps** (done): `AppDeploy`.
3. **Proofs** (done): all safety invariants and action properties that the runs check, and the safety part of `ImplementsService`; see section 6
   for the hypotheses.
4. **Authz** (open): `OneTimeTokens` (magic link, TOTP, passkey challenge: one use each) and `TokenExchange`
   (session, delegation, revocation); theorem: single use for any number of clients.

## 3. Modules

The components share no state but PostgreSQL, each its own tables, so they are not composed with one another; within each,
everything that reaches the same rows, keys or memory is. A module of actions comes with a module of properties
(`...Properties`), one of constants for TLC (`MC...`) and one of theorems (`...Proofs`).

### 3.1 Ingestion

| Module | Models | Correspondence |
|---|---|---|
| `JobStream` | the two Redis Streams and their consumer group (external) | `log` is every message ever added; `unread`, `pel` (message to delivery count), `idle` (pending for 60 s), `trimmed`. Consumer names are left out: nothing the code does depends on them |
| `FileStore` | rows, status, chunks, markdown flag, vectors, cancel key of each file | one operator per statement or transaction; row level security as what a context sees (`Visible`, `SeenWithoutContext`) |
| `IngestAPI` | upload, reprocess, cancel, delete | one action per call to PostgreSQL, Milvus or Redis; the variables `upload`, `reproc`, `canceling`, `deletion` hold the step and what the request has read |
| `IngestWorker` | run, claims, `process_job`, the progressive PDF pipeline, `ErrorHandler` | `pc[w]` names the next call of worker `w`, `msg[w]` its message, `todo[w]` its snapshot of the pending list, `err[w]` and `count[w]` the exception and the retry count it has read |
| `Ingest` | the composition | interleaving of all of the above |
| `IngestProperties` | the properties and the fairness | |
| `IngestService` | what uploaders are promised, in two variables | refined by `Ingest` under the mapping `Status`, `Owed` |
| `MCIngest` | constants for TLC | |
| `IngestTypeProofs`, `IngestSafetyProofs`, `IngestDeliveryProofs` | theorems | |

How the code reads in the model:

* **Worker loop** (`worker.py:2243-2380`): `Start`/`PeriodicScan` take a snapshot with XPENDING, `DeadLetter`,
  `ClaimNothing`, `Claim`, `AckOrphan` walk through it, then `ReadHigh`, `ReadLow`. A message that was read is
  acknowledged whatever happened; one that was claimed is acknowledged only when `process_job` returns, or
  raises a `ValueError` that says "not found" (`Return`, `Raise`).
* **`process_job`** (`worker.py:512-2049`): `Begin` decides on the hard cap, the visibility of the row and the
  duplicate check; `Dispatch` and `Load` choose between the full, the partial (`Fast`, `Entity`) and the progressive path.
  Every step that writes a status, chunks, vectors or the markdown record is an action; between two of
  them anything else may happen. Any step may raise an exception of any class (`Fail`).
* **Progressive PDFs** (`pipeline.py:319-868`): pass 1 indexes, makes the file viewable and queues pass 2 on the
  low-priority stream; pass 2 replaces the vectors if some page improved. The cancel key is looked at before each pass.
* **Errors** (`error_handler.py`): `ShouldRetry`, `RequeueCount`, `Requeue`, `RequeueAdd` and `MarkFailed` are separate
  because the code makes a separate call to the database or to Redis in each.
* **Faults** are named in the constant `Faults`, and a run lists those it allows: `crash` (a worker process dies),
  `redis`, `db`, `milvus`, `markdown` (a call fails), `slow` (a job lasts longer than the claim's 60 s), `error` (an
  exception in the pipeline).
  `redis`, `db`, `milvus` and `markdown` stand for the failures the code handles where they occur (it logs them and goes on, or
  answers as if nothing were there); a failure that reaches the handler of `process_job` is `error`, of whatever
  origin.
* **`BypassRLS`** says whether the database role of the services bypasses row level security. The policies are
  forced and the role created by `config/init-databases.sql` does not bypass them; a deployment whose `POSTGRES_USER` is a
  superuser does. What holds with only one of the two values is said below.

The stages `classifying` and `extracting_metadata` are folded into `parsing`, `cleanup` and `markdown` into
`chunking`, `embedding` into `indexing`: no other step falls between them. `chunks`, `md` and the vectors stand for all
of a file's chunks, markdown and vectors, the latter as a number of copies.

`NoText` is the set of contents in which text extraction finds nothing. The chunker answers the blank text of such a document with no chunk,
`insert_text_chunks` returns without an insert, and the job goes on to `completed` all the same, without chunks or vectors; of a PDF the
OCR of pass 2 may still find a text (`FindsText`). `check_duplicate` does not take a completed document without chunks for an original (`HasChunkCount`).

### 3.2 Structured data

| Module | Models | Correspondence |
|---|---|---|
| `DocCache` | `cache_manager.py`: the two Redis keys of a document's copy | one operator per command: `StoreMeta`, `StoreCopy`, `Touch`, `Remove`, and the keys' expiry |
| `StructuredData` | `data_service.py` and the routes of `data.py` on one document | `row` and `recs` are PostgreSQL, `req[r]` a request: its operation, the next statement or command, and what it has read |

The service runs each statement on its own; `req[r].step` names the one to come. `get_document` is `ReadMeta`, `ReadCopy`,
`TouchCopy`, `CheckExists` when there is a copy and `ReadRow`, `ReadRows` otherwise; `activate` goes on with what it got
(`CacheMeta`, `CacheCopy`), `deactivate` flushes and removes; `insert`, `update` and `remove` find the row, change records,
bump the version, recount and remove the copy. No caller looks at the answer of the removal (`Invalidated`): when Redis fails the copy stays
and the request succeeds; `removed` records whether it went. A request that never takes its next step is one whose process stopped.
No request of the repository makes a copy dirty or starts the flush loop (`update_records` of the cache has no caller),
so the dirty flag is left out.

### 3.3 Workflow executions

`WorkflowEngine` is one execution: `run` is the coroutine of `run_workflow_execution` (`pc`, the position, the phase of the step
and of each nested step, usage), `status` and `records` its rows, `asked` the stop and approve requests. The coroutine's session keeps
the status it last read or wrote and writes only a difference (`SetStatus`), which is why a stop can be written over.
`Head` is the check between steps; `Enter`, `Update`, `Condition`, `Iterate`, `Abort` are the step types. Workflows are
a constant: the theorems are about every well-formed definition, `MCWorkflow` has five (a cycle, a branch over a human step,
a parallel step, loops with nested human and condition steps).

### 3.4 Tasks

`AgentTasks` is one task: `task` (its row), `job` (whether APScheduler has it, in memory), `exec` (executions, in order of creation),
`runner` (coroutines that create and run an execution), `req` (requests to pause, resume, change, delete, and to stop or delete
an execution). A cron firing is `look`, `create`, `start`, `run`, `update`; a run of a workflow links its execution before or after, as the
code does; `after` and `chain` are the callback `_on_bg_complete` that starts the continuation which `trigger_task_run` queued.
A restart loses job and coroutines and reloads the jobs of active tasks. The row's `schedule` is what `trigger_config` has for the scheduler: an expression it takes
(`valid`), one it refuses (`refused`, for the schema accepts any string), or none (`missing`); a change of the task may set the status and the
expression. `Register` is `_hot_register_task`: it does nothing without an active status or an expression, and otherwise cancels the old job first, so that a
refused expression leaves none, while the request succeeds. `cuts` records that a request took the job away.

### 3.5 Bridge

`Bridge` is one user linked to a polled channel (Telegram) and to webhooks (WhatsApp). `bot` is the polling loop with its client,
`confirmed` what Telegram will not deliver again, `call[c]` the calls of `MessageProcessor.process`, `queue`, `worker`, `current` and `cancels` the
dictionaries `_sender_queues`, `_sender_workers`, `_sender_cancels`. An action extends from one await to the next, because
everything runs on one event loop: `Accept` is `process` up to its notice, `Take` the worker's turn between two requests,
`Begin`, `Event`, `LastEvent`, `StreamFails`, `SendPiece`, `Tell` are `_run_request`. The clients of a request belong to the bot or to the
webhook call that brought it (`Open`). A piece is one flush of the buffer, whatever the number of chunks it is cut into,
or, on a channel without a status message to edit (WhatsApp), a thought or tool that is told at once and leaves the buffer alone.

### 3.6 Deployment of apps

`AppDeploy` is the deploy service in a Docker environment with the container `user-apps` that all apps share. A configuration of a program,
of a route or of a registry entry is reduced to its port.

* `ports`, `registry`: the two files of the service; `route` the nginx files, `live` what nginx loaded last.
* `up`, `conf`, `prog`, `on`, `mounted`: the container; supervisord's configuration files, the programs it has loaded, those it has started; the
  apps whose volumes are mounted. Whatever removes the container (`Down`, `Revive`, `Lose`) clears all of them.
* `req[r]`: a deployment, stop or undeployment: `at` is its next command, the rest what it has read and will use later (`port`, `pref`, `mounts`, `snap`).
* `out`, `made`, `doubt`: history. `doubt` holds the apps that were disturbed since their last request began: by another request on the same app,
  by a container that was replaced under the request's feet or lost, by a failure that no code looks at.

A deployment is `Allocate`, `stop_app` (`Halt`, `Remove`, `Unregister`, the steps of a stop and an undeployment as well), `Fetch`, perhaps a second `stop_app` and `Reallocate`
when the repository asks for another port, then for dev apps `Mounts` and, unless their volumes are there, `Down`, `Run`, `Snapshot`, `Restore` for each registered
app and `Reload`, and last `start_app` (`Clear`, `Write`, `StartUp` or `Forced`, `Register`, `Check`) and `Nginx`. An undeployment ends with `Unroute`
and `Release`. Each is one command on the container, or what happens without an await between two. Any command that finds the container down starts a fresh one
(`FindDown`, `Revive`). `docker stop` and `docker rm` are one step, and so is the revival: whatever comes between them has been put in doubt when they begin, so the model
only claims less about it.

The model starts from an empty service. The rate limit of 10 s per app (`check_rate_limit`) concerns deployments only and is left out, which adds behaviours.

## 4. Properties and runs

Ingestion:

| Property | Says |
|---|---|
| `TypeOK` | type invariant of all four modules |
| `NoFileForgotten` | a file whose status is not settled (completed, failed, cancelled) has a message outstanding, a worker on it, or a request under way |
| `CompletedIsSearchable` | when nothing is left to do on a completed document that has text, its content has vectors |
| `NoExtraVectors` | at most one copy of the vectors, plus one for each counted retry |
| `RetryBound` | two workers with stale retry counts exceed `max_retries` by one at most |
| `DeliveryBound` | a message is delivered at most 5 times, plus once per worker that judged it on a stale snapshot |
| `OneWorkerPerMessage` | without slow jobs, no two workers process one message |
| `NoResurrection` | a deleted file has no status, chunks, markdown or retry count |
| `CompletedIsFinal` | late, retried and redelivered jobs leave the vectors, chunks and (but for the error handler) the status of a completed file alone |
| `ImplementsService` | the refinement of `IngestService`, with its liveness: every accepted file is settled and the work on it ends |

The other components:

| Property | Says |
|---|---|
| `DroppedIsGone` | `get_document` never returns a document that was deleted before the request began, whatever copy of it is left |
| `NothingLeftOfDropped` | no request under way brings back a record of a deleted document |
| `ReadsSeeFinishedWrites` | a read sees the inserts and deletes that finished before it began, once the cached copy was removed, by the write's own request or by one after it, without an activation crossing the removal; a write whose removal failed is answered with success and outside |
| `VersionGrows` | `data_version` falls by a flush only |
| `StopTakesEffect` | after a stop that nothing overwrites at most one more step begins |
| `CompletedIsClean` | no failed or unfinished step hides behind a completed execution |
| `LimitsKept` | usage limits are exceeded by the other nested steps of a parallel step at most, and never by an execution that completes |
| `RunEnds` | an execution ends, also if its conditions jump back, when the calls in the cycle are limited |
| `PauseTakesEffect` | after a pause at most the one instance of the job that had looked at the status starts an execution |
| `ActiveIsScheduled` | when all requests are answered an active cron task whose expression the scheduler takes has its job, unless a request that took the job away (a pause, or the registration of a refused expression) overlapped with a resume or a change |
| `ChainBounded` | the depth limit of continuation chains holds however runs overlap |
| `ChainFlows` | the continuation of a background run is started, unless a run fails |
| `OneWorker` | two requests of a user never run at once, and the worker that runs is the one new messages see |
| `InOrder` | a Telegram message is never begun while an earlier one waits or is still to come |
| `InterruptTakesEffect` | an interrupted request sends what it had in hand and nothing more |
| `QueueIsWorked` | requests wait without a worker only when the last one died of an error it could not report |
| `EveryUpdateHandled` | every Telegram message reaches `process`, through crashes of the bot and restarts |
| `RequestsSettle` | a request that was taken over is answered, replaced, or lost with the process, unless its worker dies |
| `CompletedIsUp` | an app whose deployment completed undisturbed runs on its own port, registered, routed and mounted, through recreations of the container for others |
| `StoppedStaysDown` | an app stopped or undeployed undisturbed has neither configuration nor program, whatever is deployed or recreated after |
| `PortsAreOwn` | two apps never have a port in common, from allocation to what a failed deployment leaves behind |

with one type invariant each (`StructuredTypeOK`, `WorkflowTypeOK`, `TaskTypeOK`, `BridgeTypeOK`, `DeployTypeOK`).

| Run | Instance | Shows |
|---|---|---|
| `ingest_workers` | 2 workers, 2 uploads of one content, errors | retry, acknowledgement and duplicate checks lose no file and index nothing twice |
| `ingest_slow` | 2 workers, one file, jobs longer than 60 s | the retry count stays bounded although both workers process the file |
| `ingest_recovery` | 1 worker that crashes, a PDF and a media file, errors, fairness | refinement with liveness; completed files stay as they are |
| `ingest_takeover` | 2 workers, a crash, a document, errors, fairness | the same with takeovers, exclusivity and bounded deliveries |
| `ingest_requests` | 1 worker, a PDF without text before OCR, one reprocess, one cancel, deletes, Milvus failing | requests between any two steps of the job |
| `ingest_uploads` | 3 uploads (forced or not, two of one text, one of a blank file), MAXLEN 1, Redis, database and markdown failing | uploads, duplicates, trimming, outages, documents without text |
| `structured_data` | 3 requests of any kind, 2 at a time, one record, one schema, Redis failing at any command | every interleaving of two requests, and what a third sees of them |
| `workflow_runs` | 5 workflows, 2 stops, 1 approval, limits 2 and 3, loops of 2 items | stops and approvals between any two statements of every kind of step |
| `agent_tasks` | 2 requests, changes of status and expression, cron, one-time and webhook triggers, 2 executions, 1 restart | row and job stay together, pauses hold |
| `agent_chains` | runs and continuations of an agent or a workflow, 3 executions, 2 coroutines, a stop | chains are bounded and flow |
| `bridge` | 2 Telegram messages, a webhook, answers of 2 events, 1 failing call, 1 restart | the bridge's safety and liveness under faults |
| `deploy_apps` | 2 dev apps, 3 requests of any kind, 2 at a time, 1 dynamic and 1 reserved port, manifests that ask for none, the reserved or another port, failing commands, a lost container, restarts | every interleaving of two requests, and what a third makes of it |

### Bounds

Ingestion: one or two workers are enough for every race of the code, which is always between one worker and
one other actor (a worker, a request, a clean-up); two files of one content exercise the duplicate checks, three
a forced upload, a duplicate and a file without text. `MaxRetries` is 1 instead of 3, `HardCap` 2 or 3 instead of 5
and `MaxDeliver` 1 or 2 instead of 5: each counter still passes below, at and above its limit. `MaxLog` (12)
is never reached but in `ingest_uploads`, where it is 2 and only bounds the search. One crash, one reprocess
and one cancel request are enough for each to fall at every step. Deadlock is checked in every run of ingestion; the other systems
do come to rest. Symmetry (of workers, requests, records) is used only where no liveness is checked.

Structured data: `MaxActive` 2 puts any two requests beside each other; a third, before or after, reads what they left. One record
and one schema suffice because records and schemas never meet. Workflows: the five definitions have each step type, alone and nested; `AgentLimit` 2
is reached by three parallel agents, `ToolLimit` 3 by loops. Tasks: two executions and two coroutines overlap; `MaxContinuations` 1 is reached
by three executions. Bridge: two Telegram messages and a webhook make a queue of two behind a request at work, `MaxEvents` 2 a buffer and
a flush; `MaxWorkers` 2 leaves room for a second worker, which never appears.
Deployment: two apps compete for one dynamic port, so that it is exhausted; a manifest may ask for a port that is reserved, taken or free, and the repository may ask
for another than the request. With two requests at a time the container is recreated for one app in the middle of the other's request; the third begins
on whatever the two left. About 2 million distinct states.

`BypassRLS` is FALSE in `ingest_workers` and `ingest_requests`, TRUE in the runs that claim messages or upload
media (with FALSE the orphan check loses files, see below). `NoFileForgotten` is checked without `redis` failures and
with one worker per PDF, because the code does forget files otherwise: an upload or a retry whose XADD
fails leaves the file queued, and pass 1 writes `available` after queuing pass 2, so that a second worker that
is quick enough has its `completed` overwritten. It also needs fewer crashes on one message than `MaxDeliver`: a dead letter
leaves its file as it is.

### Where the code and its documentation differ

They were met while modelling; the models follow the code, and PROJECT.json quotes both sides of each:

* Ingestion: `_check_file_exists` sees no file under row level security, so a claimed message is acknowledged as an orphan;
  reprocessing from `embedding` or `indexing` deletes the vectors and inserts none (`insert_text_vectors` does not exist); a queued document that is cancelled is
  processed all the same; a duplicate that the worker had reported completed is deleted as incomplete by a later upload; pass 2 deletes the vectors, fails,
  and its retry may complete the file without any; a document without text is completed, "ready to search", with nothing to search.
* Structured data: deactivating a cache flushes a clean copy too, and with it an older schema and version; `expected_version` is compared in a
  statement of its own, so two updates may both pass; `validate_existing` looks at `data_content`, not at the records; a write whose invalidation fails is answered with success, and reads show the old copy until it expires.
* Agent service: a stop during the last step is overwritten by `completed`; an approval resumes nothing; a human step inside a
  parallel or loop step pauses nothing; continuations queued by scheduled runs stay pending; a continuation may be started by the end of another run,
  and by two at once; stopping a scheduled execution does not stop its workflow; the cooldown of `trigger_task_run` was removed;
  a change to a cron expression that the scheduler refuses is answered with success and leaves an active task without a job.
* Bridge: a waiting user is told "Got it - I'll respond once I finish the current request.", but the request of a WhatsApp message runs on clients that its webhook call
  has closed; it fails, so does the report of its failure, the worker dies of it (`stranded`), and what waits in the queue, of whatever channel, stays there until the user
  writes again. Conversation ids are kept per client, so neither channels nor WhatsApp messages share a conversation.
* Deployment: a container that was found down is started afresh without restoring the registered apps; a deployment whose program another request has removed is reported
  completed; undeploying does not reload nginx, so that the app's path may lead to the app that gets its port next; two recreations that overlap lose an app's volumes; an app
  whose preferred port is taken gives up its dynamic port at each deployment.

## 5. Fairness

Ingestion: `FairSpec` assumes of each worker weak fairness of `Progress` (its process is restarted by the supervisor, its loop
has no exit, every call returns or raises), strong fairness of `ReadHigh` (every round of the loop reads the
high-priority stream, though the reading alternates with other steps) and of `PeriodicScan` (every 60th round claims), and
weak fairness of the ageing of a pending message, which is the passing of time. Nothing is assumed of requests (a client or an
API process may stop at any step), of failures or of crashes, whose number alone is bounded.

Workflows: weak fairness of `Run`, the coroutine: the event loop runs what can go on, and the clients of tools and agents have timeouts.
Tasks: weak fairness of `Proceed(r)` for each coroutine, for the same reason; the queueing of a continuation (`Queue`) is the model's choice and not
in it. Bridge: weak fairness of `Poll` (the bot's loop has no exit), `Supervise` (the manager's loop), `Serve(c)` for each call and of the worker's steps
taken together. Structured data and deployment have no liveness property: a
request is a finite sequence of calls, and nothing waits for another.

## 6. Proofs

All theorems hold for all values of the constants, or all that satisfy the hypotheses they state (sets of files and requests, finite sets of workers and records, workflows, limits, faults,
bounds) under the assumptions named in the modules (`StreamAssumption`, `StoreAssumption`, `APIAssumption`, `WorkerAssumption`,
`StructuredAssumption`, `WorkflowAssumption`, `TasksAssumption`, `BridgeAssumption`, `DeployAssumption`), which TLC evaluates in every run of those modules.

Ingestion:

* `TypeCorrect` (`IngestTypeProofs`): `Spec => []TypeOK`. `TypeOK` is inductive by itself: it carries what the proofs need
  of the data, that what is unread, pending, idle or trimmed lies in the log, that idle messages are pending, and that a
  worker with a job has a message. One lemma per action.
* `NothingResurrected` (`IngestSafetyProofs`): `Spec => []NoResurrection`. Inductive together with `TypeOK`; the argument is that
  every write of a status, chunk, markdown record or retry count is conditional on the row, whatever the
  worker or the request has read before, and that the deletion of a row cascades.
* `MessagesAreExclusive` (`IngestSafetyProofs`): `"slow" \notin Faults => (Spec => []OneWorkerPerMessage)`. The property is not
  inductive: a worker could claim a message that another one holds if it were idle, or read it if it
  were unread. The invariant `Exclusive` adds that the message of a working worker is neither unread nor
  idle; `BecomeIdle` keeps the latter by the assumption, and `XCLAIM` hands out only idle messages.
* `DeliveriesBounded` (`IngestDeliveryProofs`): `Spec => []DeliveryBound`. A worker decides on the number of deliveries its
  snapshot shows, which others make stale, so the bound alone is not inductive. The invariant `ClaimBudget` counts the
  *claimants* of a message, the workers whose snapshot still shows it below the limit: deliveries plus claimants never exceed
  the limit plus the number of workers. A claim pays for its delivery with the claimant that made it; a snapshot
  makes a new claimant only while the deliveries are below the limit, when the bound is trivial. It also needs that a
  snapshot shows a message once, and no message that is yet unread. Cardinalities are handled by the library's `FS_Subset`,
  `FS_RemoveElement` and `FS_CardinalityType`; this is where the workers must be finite.
* `RetriesBounded` (`IngestDeliveryProofs`): `Spec => []RetryBound`, which itself speaks of at most two workers and a database that answers. `RetryInv`
  follows who still holds a count to write: a worker that is going to write more than `max_retries` (`Exceeds`) makes every other worker on the file
  harmless, so the bound is passed once, by one. `UploadsComeFirst` says that a file without a row has no job yet, for a new row starts counting at 0.

The other theorems of ingestion have hypotheses on the constants. Each hypothesis excludes a behaviour of the code that breaks the property, found by TLC or by
the proof, or a limit that the models lower and the code sets high.

* `NothingForgotten` (`IngestDeliveryProofs`): `Keeping => (Spec => []NoFileForgotten)`, for any number of files and requests. `KeptInv` says
  who has an unfinished file: a request, an unread message, a worker that has not decided the outcome, or, once a worker has died, the message it left,
  at its first delivery (`Abandoned`). It needs that snapshots show no more deliveries than there were (`SnapshotsLag`), and that until a worker dies each
  pending message is with the worker that read it (`FirstHands`). `Keeping` asks
  * that Redis and PostgreSQL answer, for a failed XADD leaves the file queued;
  * for at most one crash, and if there is one, no slow job, and a role that bypasses row level security, for the orphan check acknowledges the
    messages of files it cannot see, and a dead letter leaves its file as it is;
  * `MaxLen >= MaxLog`, streams that are never trimmed (10000 entries in the code), and `HardCap > MaxRetries + 1` (5 and 3 in the code);
  * that the role sees shared files and media rows (`BypassRLS`, or there are none), that a PDF is processed by one worker, for pass 1 may write
    `available` over the `completed` of pass 2, and at most two workers, for `RetryBound`.
* `ServicePromiseKept` (`IngestDeliveryProofs`): the refinement without its fairness. Under `Serving`, initial states map to initial states of
  `IngestService` and every step to one of its steps or a stutter. `Serving` adds to `Keeping` that nobody cancels, deletes or reprocesses (`IngestService` has no such
  requests) and that no two files share their content, for the clean-up of `check_duplicate` deletes rows. `ServeInv` gives the state of a request from its step;
  that what is unsettled is owed comes from `KeptInv`; `ServiceStep` turns a change of one file into a step of `IngestService`.
* `CompletedHasVectors` (`IngestSafetyProofs`): `Spec => []CompletedIsSearchable` for any faults and workers, without reprocess requests, deletes and PDFs (each deletes
  vectors, and a failure may not put them back), and if files of one content are all media or none is. It is about documents with text (`Textual`); a blank one is completed without
vectors, and may not stand in for a document with text, whose content differs. `SearchInv` says that vectors are
  there before anyone *decides* to complete the file (`Promised`: a worker at `duplicate` or `complete`, an upload at `dup`), and that every run is a full one.
* `VectorsAreCounted` (`IngestSafetyProofs`): `Calm => (Spec => []NoExtraVectors)`. Under `Calm` no worker dies, no job outlasts the idle time of a claim, Redis and
  PostgreSQL answer, nobody reprocesses and there are no PDFs (whose pass 2 is a second job); any of these lets two jobs of a file run, or one run twice, uncounted. Files,
  workers, uploads, forced ones too, cancels, deletes, trims and failing jobs are not restricted. The core is `OneAtATime`: a file has one unread message or one running
  job, and nothing is ever idle. `VectorInv` then counts the copies before the append, after it, and in each step of the error handler.
* `CompletedStays` (`IngestSafetyProofs`): `Spec => CompletedIsFinal`, an action property. `FinalInv` says that no job is forced and that a worker whose file is completed
  is before the duplicate check, past the end, or in the error handler (`AtRest`). It needs one running job per file (`OneRunner`), which holds under `Calm`, or with one worker,
  which may then die, lose Redis and process PDFs; and that the check is made (`AsUploaded`: no forced upload, trigger or reprocess request) and can fail only closed (no `db`).

Structured data (`StructuredProofs`):

* `StructuredTypeCorrect`: `StructuredTypeOK` is inductive; one lemma has a case for each step of a request.
* `NothingLeft`: inductive with the types. Nothing recreates a row, the delete of a row takes its records, and records are written only with a row.
* `VersionNeverFalls`: an action property, from the same lemma about what each step makes of the row (`RowStep`).
* `DroppedStaysGone`: the invariant `SeenInv` adds that a document that exists now existed when each pending request began, that a
  request has records to answer with only after it found the row, and that a get takes no other steps.
* `FinishedWritesAreSeen`: `ReadInv` relates three sets of records, those of the table, of the cached copy and of each read, to the writes they must show (`Follows`). A write
  counts for the copy once it is cleared: a removal of the copy that worked, its own or a later request's, came after it and no activation of the cache crossed that removal
  (`RemovedStep`; a failed removal clears nothing). An identifier that was removed does not come back (`Known`).

Workflows (`WorkflowProofs`), for every set of well-formed definitions:

* `WorkflowTypeCorrect`: `TypeInv` adds that the coroutine is inside its workflow while it executes a step.
* `StopHonoured`: `late <= 1` is not inductive; `StopInv` adds that nothing is counted unless the status is `stopped`, and that a
  step about to begin has had none begin since the stop.
* `CompletedClean`: `CleanInv` says where a record that is not completed may be: only with the step the coroutine is at, in a phase that
  fits (`Dirty`), which needs the shape of the phases of nested steps (`Shape`). Between steps every record is completed.
* `LimitsHold`: the calls made and those about to be made (`Working`, the nested steps that have passed the check) exceed a limit by `Overrun` at most, and
  once a limit is exceeded a step has failed that keeps the execution from completing (`Doomed`); `LimitsKept` follows with `CleanInv`.

Tasks (`TaskProofs`):

* `TaskTypeCorrect`: `TypeInv` adds that a chained run creates no execution of its own.
* `PauseHonoured`: `PauseInv` adds that the job runs one instance at a time (APScheduler's `max_instances`), and that once an execution was
  counted after a pause the task is not active and no instance is about to create another.
* `ActiveStaysScheduled`: `SchedInv` says that the job of an active cron task with an expression the scheduler takes is there, or a request is about to put it back (`Holds`), or
  requests have crossed; and that a request that is about to take the job away (`Ends`: a pause, or one that registers a refused expression it had read) overlaps with the one that
  gave the task the status and expression it has now (`Answered`). Requests that crossed did so for good.
* `ChainsAreBounded`: `Generation`, the number of ancestors, is a recursive function, computed from the parents, while the code hands a depth on. `ChainInv` says that the two
  agree locally (a parent comes before its child and has one less) and that each coroutine runs at the depth of its execution (`Fits`); that `Generation` is the depth follows from
  the least execution where they would differ, whose parent comes before it and agrees.

Bridge (`BridgeProofs`): one invariant, `Inv`, of three parts: `Mail` (the bot works on an update it was given, at or below what was sent),
`Crew` (workers and queue) and `Books` (counters and histories).

* `BridgeTypeCorrect`: `Inv` contains the types.
* `OneWorkerAtATime`: `Sole` says that a worker that is there is the current one. It is what `StartWorker` looks at, and a worker takes itself off
  the books in the step in which it finds the queue empty.
* `QueueServed`: `QueueIsWorked` is inductive together with `Sole`.
* `InterruptHonoured`: `Good` says of each worker that an interrupted request owes at least what it has in hand, and has nothing in hand
  but between an event and its sending; each piece sent is paid from both.
* `MessagesInOrder`: an action property. `Order` says where earlier messages are: settled or taken over when the bot looks at a later one (`BotOrder`), settled when it
  runs (`RunOrder`), settled, running or before it in the queue when it waits (`QueueOrder`).

Deployment (`DeployProofs`): one invariant, `Inv`, for any apps, ports and number of requests; none of the properties is inductive, because what an app is
left with depends on what a request, its own or another's, is about to do.

* `DeployTypeCorrect`, `PortsCorrect`, `StopCorrect`, `DeployCorrect`: the four properties follow from `Inv`, the conjunction of the types and
  * `Distinct`: no two apps are assigned one port (`allocate_port` reads and writes its file without an await in between);
  * `Overlap`: at most one request works on an app that is not in doubt (`Alone`), while a container is being replaced every app that another request works on is in
    doubt (`Apart`), and so are all apps when two replacements overlap (`Once`);
  * `Snaps`: what a recreation has yet to restore of an undisturbed app is what the registry holds of it;
  * `Working`: what each step of an undisturbed request may count on (from `Write` on the configuration is the app's port, from `StartUp` on the program, and so on);
  * `Resting`: what holds of an undisturbed app that no request works on, by how its last request ended; of a completed app whose container is being replaced it says
    what is still to come back (`Kept`).
* Steps are of three kinds, each with a lemma of its own: those that change one app only (`LocalStep`), those that replace the container (`RenewStep`) and those that
  begin to (`BeginStep`).

Model-checked only: all liveness (`RunEnds`, `ChainFlows`, `EveryUpdateHandled`, `RequestsSettle`, and the fairness in `ImplementsService`), for fairness and ENABLED are
beyond the prover. Every safety invariant and action property of the runs is a theorem, those of ingestion under the hypotheses above. No recursive operator occurs.

## 7. Not modelled

* Within ingestion: the optional entity extraction inside the full path (off by default), the multi-flow comparison of strategies,
  `skip_indexing`, PDFs of more than one batch of pages (a cancellation between batches leaves the vectors of
  earlier ones), triggers, sharing and moving files, per-page enhancement, admin deletion. `reprocess-all`
  selects `data_files.data_status`, a column that does not exist, so it fails before any effect.
* All files belong to one owner; `Shared` restricts visibility to jobs that carry roles, and no run uses it.
* The SELECT and the DELETE of `check_duplicate` are one step (they run on one connection, one after the other).
* Text extraction, chunking and embedding are computation; they appear as outcomes.
* The handler of `asyncio.TimeoutError` (`worker.py:1963-1986`) uses `timeout_seconds` and `page_count`, which may be unbound when the exception comes early or from the PDF
  path; the `NameError` it then dies of, which leaves the file as it is, is not modelled: `Fail` always reaches the error handler.
* Structured data: queries and the SQL they become, the embedded `data_content`, visibility and roles, several documents, the cache's flush loop
  (nothing starts it).
* Workflows: the data that steps pass on, the execution timeout (stored, never enforced), `execute_enhanced_workflow` (no caller), nesting deeper than one level.
* Tasks: notifications, insights, saved outputs, several tasks at once; what a run does is an outcome (`WorkflowEngine` has the workflow).
  A one-time task is taken as it is stored; its date may be taken out by a change, but setting one is left out (the request puts a `datetime` into a plain JSON column,
  `models/domain.py:677`, and no serializer for it is configured in `db/session.py:14`).
* Bridge: Signal, Discord and e-mail, several users, conversation ids, the rate limiter's clock (its verdict is a choice), attachments, redelivery of webhooks. That
  a webhook call closes its clients is an action of its own, so the model also has behaviours in which the loop is slow to do it.
* Authz: login, one-time secrets, sessions, token exchange and delegation; the next component of the plan.
* Chat agents, extraction and LLM routing: their control is what a language model answers, and requests share nothing.
* Deployment: LXC with systemd, databases and secrets of apps, the health check (its answer is ignored), the clean-up of volumes and build artifacts, status streams.
* Core apps, custom services, platform services, CLI, provisioning, voice agent: they drive make, Docker, Ansible, Kubernetes and FreeSWITCH, whose behaviour is not
  in the repository.
* Search, graph, provenance, libraries, config, document engine: single-statement reads and writes.
