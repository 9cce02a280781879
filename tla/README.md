# A TLA+ model of the DeskRPG Hermes plugin

The plugin (`src/deskrpg_plugin/`) runs inside a Hermes gateway and gives DeskRPG, a client, routes over
Hermes' kanban boards, cron jobs, profiles and sessions, together with tools and hooks that run inside the
agents' processes. Many routes read some state of Hermes and hand it on. The logic of the plugin's own is where
several steps belong together and others come in between: the cursor of the event stream, approvals by hooks
that hold no lock, files that are leased and swept, tokens that are rolled back, questions that wait, files that
several requests rewrite as a whole. These are modelled here.

Paths are relative to the repository's root, `src/` in `PROJECT.json`.

## 1. The system

### Components

| component | code | state it keeps | operations | modules | status |
|---|---|---|---|---|---|
| Event stream | `events.py` | none; positions live in the client's cursor | poll, start, handoff | `EventStream`, `Delivery` | partly |
| Cron event source | `events.py`, `cron_results.py` | none; watermark and open executions in the cursor | start, re-read, page, advance | `CronTail` | partly |
| Deletion log | `deleted_log.py` | `deskrpg_deleted.jsonl` of a board | append, read behind a line | `EventStream` | partly |
| Approval by hooks | `review_hooks.py`, `review_rules.py`, `review_state.py`, `review_store.py` | policies and decisions in a store beside Hermes' | pre hook, post hook, state | `Review` | partly |
| Card actions | `kanban_actions.py` | none | approve, request-changes, reassign, reclaim, terminate, unblock, archive | `Review` | partly |
| Cards and boards | `kanban_board.py`, `kanban_common.py` | none | create, patch, delete, drag, link, archive a board | `Cards`, `Review`, `EventStream` | partly |
| Artifact store | `artifacts_store.py` | `registry.db`, blobs | store a version, delete, prune | `Artifacts`, `ArtifactShelf`, `EventStream` | modelled |
| Artifact capture | `artifacts_hook.py`, `artifacts_tool.py`, ... | none | detect, save what was found | `Artifacts` | partly |
| Artifact routes | `artifacts_routes.py` | none | read, edit, delete | `Artifacts` | modelled |
| MCP OAuth | `mcp_oauth_routes.py` | `_SESSIONS`, `_STARTING` | start, restart, poll, callback, cancel | `McpOAuth` | modelled |
| Conversation files | `conversation_files_*.py` | files, links, bindings, leases, copies; blobs | upload, link, grant, prepare, delete, sweep | `ConversationFiles` | modelled |
| Questions to people | `ask_user.py` | `_questions`, registrations | register, ask, answer, interrupt | `AskUser` | modelled |
| Card proposals | `card_proposal_*.py` | `card_proposals` rows | propose, resolve, unresolve, record | `CardProposal` | modelled |
| Skill jobs and skills | `skill_jobs.py`, `skills_*.py`, `learning_routes.py` | `_jobs`, `_tasks`; Hermes' skill and memory files | start, run, time out; edit by hash, archive | `Skills` | partly |
| MCP connectors | `mcp_admin.py`, `mcp_state.py`, `mcp_probe.py`, ... | entries of `config.yaml`, lines of `.env`, checks, tokens | create, update, secrets, test, delete | `Connectors` | partly |
| Cron jobs | `cron.py`, `cron_results.py` | Hermes' job records | CRUD, pause, run, history | `CronJobs`, `CronResults` | modelled |
| Profiles, keys, configuration | `profiles.py`, `config.py`, `envfile.py`, ... | files of a profile | create, delete, rewrite | `ProfileHome` | partly |
| Unattended approvals | `approval_policy.py`, `approval_blocked.py` | a policy in `config.yaml`; `_SEEN` | read, write; record | `ProfileHome` (policy) | partly |
| Routes and wiring | `__init__.py`, `routes.py`, `_hermes_api.py`, ... | cached probes | register, authenticate, check | `ConversationServices`, `ProfileServices` | partly |
| Policy import | `review_migrate.py` | the approval store | copy once per board | | not modelled |
| Kanban operations and views | `kanban_ops.py`, `kanban_files.py`, `kanban_swarm*.py`, `kanban_views.py` | none | dispatch, attach, assemble, list | | not modelled |
| Session sources | `session_sources.py` | none | read a transcript | | not modelled |

What is left out of a component is said in its note in `PROJECT.json` and in section 6.

### How they interact

* A worker of Hermes writes `task_events` rows while it changes cards; `delete_task_handler` deletes a card,
  its rows go with it, and one line goes to the deletion log afterwards; hooks, tools and routes store
  artifacts, each a row of `artifact_events`. The poll of the event stream reads all of these, in separate
  transactions, and the scheduler's ledger of executions as well.
* The client keeps the cursor. One of its boards, the carrier, also asks for the host-wide sources; before
  that board is archived the client hands its host-wide positions to another one (`POST
  /deskrpg/events/handoff`).
* Hermes' dispatcher claims a card for the profile it is assigned to and starts a worker. Each tool call of
  the worker passes the pre hook and the post hook, in the worker's process. The hooks read the card, its
  events and the policy; Hermes makes the transition in between. People act on the same card through
  `kanban_actions.py` and `PATCH /deskrpg/kanban/tasks/{id}` in the gateway's process. The processes share
  two SQLite files and nothing else.
* Requests on files of a profile run in worker threads of the gateway. `config.yaml` is rewritten by the routes
  for approvals, skills, connectors, models and tools and by Hermes' own functions; `.env` by connectors,
  provider keys and the keys of new profiles. Each reads the whole file and replaces it.
* An execution of a conversation prepares a file: the plugin leases it, copies it into the profile's cache, has
  the agent's backend read it and gives a receipt. The cleanup task of the gateway sweeps originals and blobs.
* A run that asks a person waits in a thread of the agent; the answer comes on the event loop and wakes it.
* A proposal is a row; the client creates the card elsewhere and reports it, in requests of its own.
* An OAuth attempt is a worker of Hermes that outlives the request that started it, and may roll back late.
* A skill job is a child process of the gateway and may outlive it.
* The scheduler of cron jobs may be an external service with a registry of its own, which has to be told.

### What is hard

* Positions count ids, the merge sorts by time, and an answer is cut at a limit: a position has to stop before
  the first thing that is cut, in id order, while what was carried was chosen in time order.
* A row may tell two events, which the limit must not part. A row may tell none and yet fill a page.
* The sources of one answer are read at different moments. A card may be finished, or deleted and logged, in
  between.
* Answers get lost, and the server remembers nothing: whatever was not received has to be found again from
  the old cursor, and nothing else.
* An execution changes while it is watched. The cursor stands for what the client has heard of it, in two
  parts (a watermark and a set) that hand over to each other.
* An approval is a read, a transition and a record, in three transactions on two databases; the hooks' answer
  is as old as the tool call it precedes.

### What makes each component correct

* Event stream: nothing behind the client's start is skipped, nothing comes twice, the halves of a row come
  together, "no more" means that all has been read, a deletion is the last word on a card, and a client that
  keeps polling is told everything.
* Cron source: every start and every end is told once, the start first; the cursor does not grow with the
  history; every end is told in the end.
* Approval: no profile approves its own work; a card for people is completed by people; an approval that is
  recorded completed the card, for the submission that was approved, while it was waiting.
* MCP OAuth: attempts for one server do not overlap and the rollback of an old one undoes no newer approval, but
  for workers the plugin was made to let go of.
* Conversation files: a copy in use is not removed, what is deleted goes in the end, what is revoked is read by no
  session that continues the revoked one, and bytes that no row counts are left by stops of the gateway only.
* Questions: a question is answered at most once, the person who is told so was heard, and the run goes on.
* Card proposals: one proposal makes one card, but for answers that were lost.
* Artifacts: versions are numbered once and never lost, the last ones can be read, one title is one artifact,
  and the events tell the life of each once.
* Skills: a job ends and says the truth; a deleted chunk of memory is in the log.
* Connectors: a server whose requests came one after the other has a record, tokens and an entry that belong
  together, wherever requests failed; no given secret is lost.
* Profile: no request loses what another has written, and a handed-out key works.
* Cron jobs: the registry fires the jobs that are on; a row of the history shows its own run.
* Cards: no card is ready or claimed while a parent is unfinished.
* Deletion log: every line written is read once, under the number it was written with.

The full list of hazards, each at its line and with the properties that cover it, is `hazards` in
`PROJECT.json`.

## 2. The modules

### EventStream and Delivery

`EventStream.tla` models `collect`, `events_handler` and `handoff_handler` together with the writers they read.

| model | code |
|---|---|
| `klog[b]`, `kgone[b]` | the `task_events` rows of board `b` by id, and the ids whose rows `delete_task` removed. Hermes does not give an id twice |
| `card[b][c]` | a card before it exists, alive, deleted but not logged yet, deleted and logged |
| `dlog[b]` | the lines of `deskrpg_deleted.jsonl`, whole records |
| `alog`, `writer[w]` | the `artifact_events` rows; a store between `now = int(time.time())` and its commit |
| `cur[b]` | the cursor's `k`, `d` and `a`; `Missing` for an `a` the token does not have |
| `carrier`, `archived` | which board's polls name `include=`, and those the client polls no more |
| `req` | the poll between its two halves, and its answer |
| `base`, `got` | history: where the client started, what it has been given |

A poll is `ReadBoard`, the part of `collect` inside `board_conn`, and `Respond`, the rest: the connection is
closed before the other logs are read, so other actions come between the two. A row is `quiet` (an ignored
kind), `single` or `finished`; whether a `finished` row also tells `task.status` depends on the card at the
moment it is read, so `ReadBoard` chooses. The merge is modelled by its order (`Before`, the sort key), by the
events an answer carries (`Emitted`, with its rule for pairs), and by the position up to which everything is
carried (`Advanced`, which is `_fully_emitted_prefix`). `Start` and `HandOff` read the ends of the logs in one
step; the code reads them one after the other, which only moves the place where the client starts. A stop of
the gateway between `delete_task` and `append_deleted` is an `EraseCard` that no `LogDeletion` follows.

The events of a row, and what a cut leaves of a pair, are given by nested conditions and not by a `CASE`: more
than one arm of a `CASE` may hold, and which one is taken is then open, while the code looks in a fixed order
(`events.py:752-756`).

`Delivery.tla` is what the reader of a log is promised: entries are only added, the client starts at the end of a
log, and each answer brings the next of the entries it is told of, in the order of the log, none left out and none
twice. It knows no limit, no lost answer, no other log and no carrier. `EventStream` implements it for the deletion
log of each board (`DeletionsDelivered`) and, where one store at a time writes, for the host-wide log
(`ArtifactsDelivered`). The mapping takes the log itself, where the client started (`base[b].d`, and `base[carrier].a`
for the host-wide log), what it has been given (`got`) and what the last answer carried. An answer may bring several
entries; asking anew forgets which came last, which is how a repetition can be told from a stutter. The rows of
`task_events` are not among the logs: their cards may be deleted between the two halves of a poll, so that an answer
may carry a row that is no longer there. What holds of them is said by `NoGap` and `NoRepeatOnBoard`.

### CronTail

`CronTail.tla` models the cron source for one profile with a ledger: `cron_now_positions`, `_ledger_events`,
`_page_executions` and `advance_cron`. `run[r]` is the row of an execution, `cur` is the profile's `{t, o}`,
`req` the poll with the rows it has re-read. `BeginPoll`, one `Reread` per execution of `o` and `Respond` are
separate steps, since every read of the ledger is a transaction of its own and executions go on in between.
The other sources only matter by how much room they leave, so that an answer carries any initial part, in the
merge's order, of at most `Limit` cron events (`Cuts`). `told` and `got` are history: the events that were past
when the client started, and those delivered since. `MayFail` lets a re-read raise.

The three terminal statuses are one. The model assumes that an execution is claimed later than those claimed
before it, or in the same step: one scheduler writes a profile's ledger. It assumes that fewer than 500
executions are behind the watermark. Executions may end without having started or without an end time; the
code's substitutes for missing times are modelled, because the order of the events depends on them.

### Review

`Review.tla` models one card with a policy on a Hermes without the policy core patch. `card` is its status,
assignee and active run; `runs` and `worker` the runs ever claimed and where each of their workers is (working,
cleared by the pre hook, after the call, ended); `subs` the `review_requested` events; `policy` the card's
policy; `request[p]` a request of a person between its transactions; `approvals` the number of approvals in
`review_decisions`; `used` counts what people have done that is bounded.

A tool call is `PreHook`, one of the `Call...` actions and `PostHook`. The hooks' decisions are the operators
`Waiting`, `ReviewerRun`, `GoesToPerson`, `MayComplete` and `ReviewerFor`, one for each rule of
`review_hooks.situation` and `review_rules`. With `HookFails` the pre hook may fail to read the state: it then
refuses completions and lets the other tools through with the arguments the model wrote. An approval is
`ApproveCheck`, `ApproveComplete` and `ApproveRecord`; a request for changes `SendBackCheck`, `SendBackMove` and
`SendBackRecord`; `GiveUp` is a failure or a stop in between. The drags, the reassignment and the edit of the
policy are one transaction each and one action each.

Hermes' own transitions are external. They are modelled as the code uses them and as its tests fake them: it
refuses the calls of a worker whose run is no longer active, `complete_task` takes a card in any state but done,
`reopen_review_task` and `request_changes` return a card to the implementer of the latest submission,
`assign_task` refuses a running card. Blocked, scheduled and archived cards, parents, and the completion from a
shell (refused by the same rule as `kanban_complete`) are left out.

### ConversationFiles

`ConversationFiles.tla` models the originals and copies of one profile. `file[f]` is the row of `files` (its
state, whether its bytes count, `linked`, its age), `blob` the original on disk, `stray[f]` a blob without a row
that a stopped upload has left, `links`, `bound` and `asked` the rows of links, bindings and `prepare_requests`
with the lease, `copies` the rows and `cached` the files of the profile's cache.

Hermes compresses a session into a new one, which continues it. `older[s]` is what `s` continues, and itself; a
lineage is a chain, since `authorized_sessions` keeps of it what leads to the session. A binding is of one session
(`IssueGrant` looks at that session only, as `store.py:177` does), and reading goes through the lineage (`MayRead`: that
is `authorized_sessions` with `list_bound` or `bound_file`). A lease is of the session of the binding and of the
reader that continues it. `BeginRevoke` reads the lineage and each `RevokeNext` takes the bindings of one session, a
transaction of its own; what is bound in between is `since`. The revocation of a session that Hermes does not know,
which takes the bindings under that id only, is left out.

A prepare is `AcquireLease`, `ReadOriginal`, `PlaceCopy`, `GiveReceipt`: the transactions of
`conversation_files_prepare.py` in their order, each looking again at what its code looks at again. `Fail` may
come at any of them. `DeleteReady` is `_delete_ready`, which a deletion, the sweep and the release of a lease
share. The cleanup task is `EndGrace`, `SweepList`, one `SweepDelete` per id, `SweepCopies`, `SweepStrays`, each a
transaction or a look of its own. `StopAnywhere`, `StopInUpload`, `StopInPlaceCopy` and `StopInDelete` stop the
gateway between the change of files and the commit of rows. Time is what the code compares: a lease is live until
`Expire`, a row or a stray blob is young until it has aged. A copy that a stop has left without a row
(`StopInPlaceCopy`) is in `cached` and not in `copies`, and nothing but another prepare of the file finds it again.

### AskUser

`AskUser.tla` models `deskrpg_ask_user`: `registered` is the table of registrations, `questions` and `reply` the
table of questions, `event` their `threading.Event`s, `call[c]` the thread of the run (grace, a slice of waiting,
the look whether it is interrupted). An answer is two steps, `Answer` under the lock and `SetEvent` after it, so
that an interrupt comes between. `heard[c]` is history: who was told that their response was the answer.

### CardProposal

`CardProposal.tla` models the rows of `card_proposals` and the clients that resolve them. `Resolve`, `Unresolve`
and `RecordTask` are the `UPDATE`s with their `WHERE` clauses, of which the row count decides; a resolution may name a
card that was made already. The client's part,
external, is `person[h]`: after a resolution it creates a card, records it, or takes the resolution back; a
creation may have happened without its answer, and a request may be sent again (`lost`).

### McpOAuth

`McpOAuth.tla` models the attempts for one server of one profile. `session` is `_SESSIONS`, `starting` whether
the key is in `_STARTING`, `request[c]` a request between its awaits, `attempt[a]` a worker of Hermes with the
snapshot of tokens it took, `token` what is stored. `BeginStart` is the section under the lock; `Cancel`,
`WorkerExited` and `WorkerBusy` the cancellation and the ten seconds of waiting; `StartAttempt`,
`StartEndsWithout` and `Remember` the rest. Commit, failure and rollback are Hermes'.

There are three places at which the plugin lets go of a worker that runs: a poll that is told the outcome before the
worker is done (`mcp_oauth_routes.py:213` does not ask), a start that raises and leaves a worker, and an audit line
that cannot be written between the start and `_remember` (line 151). `Unfinished` says which of them an instance has,
and the run has all three. Whether Hermes does the first two is not in this repository; the third is the plugin's
own. `lost` is history: the attempts that went this way. `NoOverlap` and `TokensStay` say what the plugin does see to,
whatever the lost workers do meanwhile: the attempts that it has not let go of do not overlap, and none of them rolls
back a later approval. That no two workers run at all (`OneWorker`, `README.md:232`) does not hold; see the findings.

### Connectors

`Connectors.tla` models the MCP servers of a profile: their entries of `config.yaml`, the keys of `.env` they
refer to, the records of `mcp-checks.json`, the token files. A request is a chain of steps, `work[w]`, in the order
of the code: the entry under `CONFIG_LOCK`, the tool flags (read, then written under the lock of the checks),
`.env` (all lines read, the file replaced), then tokens and checks for a deletion. The revision that an update
names is the equality of entries at the request's beginning. `BreaksOff` ends a request before any of its writes, by
a failure or a stop. `authorizing` are the servers with a worker of OAuth, which looked at the entry when it began and
not again, so that `TokensStored` may come after the deletion. `order[n]` is history: whether the requests about `n`
have come one after the other (`calm`), have overlapped (`mixed`), or one is at work alone after such a time, or after
one was left half done (`alone`). A deletion that is alone from its first read to its last write makes things calm
again. Requests about other servers, and those of provider keys (`Foreign`), do not count: they may overlap with it.

### Skills

`Skills.tla` models the edits of skills and memory and the jobs of `skill_jobs.py`. An edit, archiving or deletion
is a check of the hash and a change by Hermes, two steps; a chunk of memory is deleted by its index after its text
was logged. `AgentEdits` is the agent in between. A job is one per profile: `StartJob`, a child that works, exits,
hangs or exits with 0 without having done anything (`ChildExits`), `TimeOut` and `Kill`, `Verify` in a thread of its
own and `Finish` on the loop after it, `ForgetJob`. An installation and a removal come with a verification
(`Verified`), an update and a run of the curator do not, and are believed by their exit code. A stop of the gateway
empties the table and leaves the children, each in a session of its own, at work (`orphans`).

### Artifacts and ArtifactShelf

`Artifacts.tla` models `store_artifact_version` in threads of several processes: `Decide` under `BEGIN IMMEDIATE`,
`WriteBlob`, the commit with the rows pruned past `Keep`, and the removal of the pruned files after it;
`soft_delete` likewise marks first and erases afterwards. A process stops, a file cannot be written, a commit
fails, at any of them (`MaxFaults`). The tool saves one text, the hook at the end of a turn a sequence (`Turns`),
a person edits or deletes what was live when the handler looked.

`ArtifactShelf.tla` is what a reader of the registry is promised: artifacts with versions that are only ever
added, the last `Keep` of which can be read, deletion as a whole, one live artifact per title. `Artifacts`
implements it under the mapping `Shelf` (the state and key of the row, and for each version what looking up its
row and then its file gives): the property `KeepsShelf == Shelf!ShelfSpec`. `WriteBlob`, the removals and the
failures are stutters; the commit is `Create` or `AddVersion`; marking is `PutAway`. A reading of a version that is
neither its text nor gone (`"missing"`) is no state of the shelf, so that the refinement also says that no file is
removed before its row says so.

### ProfileHome

`ProfileHome.tla` models the home of one profile. A request (creation with its clone, worker link and key;
deletion; a key; a line of `.env`; a change of `config.yaml`; a change of the approval policy) is a chain of reads
and replacements of whole files. `config.yaml` is the set of marks its writers have left; `req[r].conf` is what a
request has read. Requests of the approval policy exclude one another by their lock, nothing excludes the others.
The parts of a creation fail one by one (`CloneFails`, `WorkerFails`, `KeyFails`), so do the reads and writes of the
other requests (`PutFails`), and `rmtree` may stop half way (`TreeFails`). The connectors' writers of `config.yaml` are
in `Connectors`, with the entries as their part of it.
The operator edits by hand. `kept`, `handed` and `apart` are history: what was set and not taken away, the key
handed out last, and whether requests without a common lock have overlapped.

### CronJobs and CronResults

`CronJobs.tla` models the requests of `cron.py` on the stores of the profiles and `reconcile_provider` after each:
`CountProfiles`, then `Converge` (or its failure, which is swallowed), with an external scheduler whose `registry`
knows no profiles. `RunCheck` and `Trigger` are the two steps of running a job once. `missed` says that the
registry could not be brought up to date: two profiles, a failure, a 424. `Converge` reads the store and sets the
registry in one step. That is an assumption on the external scheduler (`on_jobs_changed` is called while no other
change is being written), whose code is not in this repository. The deletion of a profile is left out.

`CronResults.tla` models the three places that know of a run (ledger, session, output file) with their times, and
the matching of `cron_results.py` as operators: `ExecutionOf`, `SessionOfRun`, `OutputOf`, `RowStatus`, by
`Nearest`, with the window as a constant. `last_active` of a running session is taken to be its start, the oldest it
can be, so that a run may be told as stale earlier than in the code.

### Cards

`Cards.tla` models cards that depend on one another. Hermes' verbs are transactions; a drag is a chain of them
(`Drag`, then unblock, reopen, or the looks and writes of `_set_status_direct`: `Direct`, `Reclaim`, `Reclaimed`,
`Promote`, `Write`, `Recompute`), with the dispatcher's `Claim` and the workers in between. Creation stores the
policy in a second step and takes the card back when that fails; archiving counts and then writes. `Descendants(c)`,
what is below a card, is the least set closed under `Children`.

### ConversationServices and ProfileServices

Two modules put services side by side. No variable of one is read or written by another, and where the code of two
meets in a file, one module has the steps of both (`.env` and `config.yaml` in `ProfileHome` and, for the keys of
other routes, `Foreign` of `Connectors`). A behaviour of the whole then projects onto a behaviour of each, and each
property is about one of them; the composition therefore chooses a service at the start (`chosen`) and lets the
others rest, instead of multiplying their states. `Services` says which ones an instance has. `ConversationFiles`
is in both: with stops of the gateway and two preparers of one file in the one, with sessions that are compressed and
revoked in the other.

### MC modules, slips

`MCEventStream`, `MCCronTail`, `MCReview`, `MCConversationServices` and `MCProfileServices` hold the values of the
constants. A definition commented `(slip)` is not used by a specification: it is the definition below it with a
mistake that a change of the code could make. `mutants` in `PROJECT.json` says which property notices it.

## 3. What the runs show

| run | property | what it says |
|---|---|---|
| `events_pages` | `TypeOK` | types; a deleted card has no rows; no position is beyond the end of its log |
| | `NoGap` | everything between the start and the cursor has been delivered |
| | `PairsWhole` | at most `limit` events, one more only for a pair alone; the two events of a row are in one answer |
| | `NoRepeatOnBoard` | no row or line is delivered twice, or from before the start |
| | `NoMoreMeansAll` | `has_more = false` leaves nothing behind that was there when it was read |
| | `DeletionIsLast` | after a card's deletion the client hears nothing more of it |
| | `DeletionsDelivered` | `EventStream` implements `Delivery` for the deletion log of a board |
| `events_carrier` | `ArtifactsDelivered` | `EventStream` implements `Delivery` for the host-wide log, across two boards and a handoff, with one store at a time: no opted event is left out or delivered twice |
| `events_arrive` | `RowsArrive` | every row behind a cursor is reached, a page of rows that tell nothing and a pair that does not fit included |
| | `LogsArrive` | every logged deletion and every opted artifact event is reached |
| `events_two_stores` | `NoRepeatOfArtifacts` | fails: see the findings |
| `cron_tail` | `TypeOK` | types; a held status is one the execution has reached |
| | `NoGap` | the cursor says of every execution exactly what the client has heard of it |
| | `OnlyOpenHeld` | a finished execution is held only while it is ahead of the watermark |
| | `NoEventTwice` | a start or an end is delivered once |
| | `StartBeforeFinish` | no end is delivered before its start |
| `cron_arrive` | `EndsArrive` | every end that the ledger keeps is delivered |
| `cron_locked` | `NoEventTwice` | fails: see the findings |
| `review` | `TypeOK` | types; the active run is the card's and its worker is at work |
| | `NoSelfApproval` | a worker that completes the card took it from review, and the latest submission is not its own |
| | `PeopleDecide` | until a person edits the policy, workers complete cards of agent policies only |
| | `ApprovalsAreCompletions` | there are never more approvals than completions |
| `review_late_approval` | `LateApproval` | fails: see the findings |
| `conversation_services` | `ServicesTypeOK` | types of `ConversationFiles`, `AskUser` and `Skills`; an open question is one its run waits on |
| | `BytesHaveRows` | a blob with a row is counted until it is gone; bytes that no row counts, of originals and copies, are one file per stop of the gateway at most; without a stop rows and files agree |
| | `OneAnswer` | one person at the most is told to have answered, and it is that answer the run has |
| | `OneCard` | one card per proposal, and one more per lost answer at the most; what is recorded is a card of it |
| | `ReceiptHolds` | a copy is not taken away while an execution has its receipt and the lease lives |
| | `DeletedGoes` | the original of what was deleted goes in the end, its copy as far as a row says where it is, and what a stopped upload left |
| | `CallReturns` | an answered or interrupted call returns, and the grace ends |
| | `JobsTellTruth` | when an installation or removal is recorded a success, the skill is there or gone at that moment, not only when it was looked at |
| | `JobEnds` | a job ends, whatever its child does |
| `profile_services` | `ServicesTypeOK` | types of the services of a profile; links make no cycle; the OAuth key stands for one request |
| | `RevokedGone` | after a revocation, neither its session nor one that continues it reads of the conversation, but by a binding given since |
| | `NoOverlap` | of the OAuth attempts the plugin has not let go of, one works at a time |
| | `TidyCalm` | a server whose own requests came one after the other has record, tokens and entry that belong together, wherever requests fail; a deletion that is alone settles it again |
| | `ToldOnce` | the events of an artifact are its life, each step once and in order |
| | `ConfigKept` | while requests without a common lock do not overlap, nothing set is lost, and the handed-out key works |
| | `RegistryFollows` | with one profile and no missed change, the registry is the jobs that are on |
| | `OwnStatus` | a row of the history shows the outcome of its own run |
| | `ReadyParents` | no card is ready or at work while a parent is unfinished |
| | `TokensStay` | no rollback takes a later approval back, but that of a worker the plugin let go of |
| | `KeepsShelf` | `Artifacts` implements `ArtifactShelf` |
| `profile_deletion` | `RefusalDeletesNothing` | fails: see the findings |

### Bounds

* `events_pages`: one board, two cards (interchangeable), three rows, a clock of two values, limits 1 and 2.
  Two clock values give every order of times that rows, a deletion and a cut can tell apart; three rows are a
  page of `limit + 1` at limit 2, with a pair on either side of the cut and a quiet row behind it.
* `events_carrier`: two boards, one card each, one row each, two artifact events, limit 1. A handoff needs two
  boards, and one cut of the host-wide log needs two events.
* `events_arrive`: one board and one card with three rows and limit 1, two kinds of artifact events of which one is
  opted in. The first row of a card is its creation; the third lets a quiet row fill a page and a finished pair come
  first in an answer that has room for one event. One clock value: the order of times is the matter of
  `events_pages`. 36,699 states, about two minutes.
* `cron_tail`: two executions, clock values 0 to 3, room for two cron events. Two executions may be claimed
  together or apart, overlap either way, and both of their ends may be cut; four events against room for two
  leave every prefix.
* `cron_arrive`: the same with room for one event and a clock of two values.
* `review`: two profiles, three policies, two people, two runs; people drag to review, reopen and edit once
  each. Two runs are an implementation and a review, or a review claimed by the implementer; two people race
  each other and a worker. Policies are edited to the agent policy, the one under which a worker completes.

* `conversation_services`: one file with one request of two executions that share its lease, one stop at any step;
  two calls of one chat session, one with a closed question, and two profiles, so that a wrong profile and a second
  answer happen; one proposal, two people, one lost answer; one skill, two texts, one stop, two jobs of three kinds, so
  that one would start while another is being verified. A second file has a lease, copies and a sweep of its own; what
  two files share, a session and its lineage, is in `profile_services`.
* `profile_services`: two actors (interchangeable). Three sessions are one that is revoked, one before or behind it in
  the lineage and one that is begun meanwhile; one file is enough, since what is revoked is a conversation. Three
  OAuth attempts are an old one, one after it and a restart, with each of the three ways to let go of a worker; one
  server with four requests, two at a time, next to a key of another route: one that leaves things half done, one
  that overlaps, a deletion that is alone, and one after it. What servers share is a key, which is the matter of
  `KeysLeft`; that requests of other servers do no harm is proved for any number of them. Two artifacts with two
  versions and `Keep = 1` prune, a link may move onto another's URL, and one fault comes anywhere; three requests
  for the home are a creation, a request during it and one after; five calls for jobs, three for cards are a
  drag between two others. `OwnStatus` needs two runs apart by less than the window (`Gap = Window = 3`, a session
  one unit late, a clock of seven).
* `profile_deletion`: `profile_services` with the home only.

The limits of `ConversationFiles` (`Quota`, `CacheQuota`, `MaxCount`) are wide enough here never to refuse: no
property is about a refusal, which changes nothing.

Deadlock is checked in the runs of `EventStream`, where a client may always poll. The other runs may really
stop: when all runs are thinned out and the clock has reached its bound, the card is done and everyone idle, or
when people have made as many requests as the bound allows.

### Fairness

The server does nothing by itself. `EventStream!FairSpec` and `CronTail!FairSpec` ask only of the client that it
keeps polling ("Poller calls land here every tick", `events.py:997`) and of the network that a poll that is
repeated for ever is answered once: strong fairness of the answer, for each board, because an answer may be lost
again and again. `CronTail` also asks that the other sources do not for ever fill an answer before a cron event: the
merge is by time and their events are finite up to any time. Nothing is asked of the writers: a card need not be
deleted, a deletion need not be logged and a store need not commit. `Review` has no liveness property; nothing
in the code makes a person decide.

`ServicesFairness` asks weakly of what the plugin itself keeps going: the loop of the cleanup task and the clock
behind leases and stray blobs (an expiry is a comparison with the time, `conversation_files_store.py`), the thread of
a run that waits for an answer in slices, the `event.set()` that follows an answer in the same handler, and the timers
and the task of a skill job. The last is that a child that is killed is gone and that a look at the skills returns:
the wait after `SIGKILL` and the verification have no timeout in the code. Nothing is asked of people, of agents, of
the children of jobs or of executions: none has to renew, release, answer or exit. `profile_services` has no liveness
property.

### Findings

* `events_two_stores`: `store_artifact_version` reads the clock before it takes the lock, so two stores can
  commit in the other order than their times. A cut by time then carries the later id and leaves the earlier,
  the position stays before both, and the later one is delivered again. The docstring of `events.py` (lines
  17 to 19) says that no event is seen twice from answer to answer.
* `cron_locked`: a `get_execution` that raises is treated as an execution that is gone. Its start is then
  delivered again, or its end never. The docstring of `advance_cron` (`events.py:804`) says that nothing comes
  twice, wherever it is found.
* `review_late_approval`: the state is read, and then `complete_task` takes the card whatever it has become.
  The docstring of `_approve_waiting_card` (`kanban_actions.py:228`) says that a late approval is refused and
  changes nothing.
* `profile_deletion`: the wrapper of a profile is removed before it is found that the profile has a service and
  must not be deleted. The comment at `profiles.py:192` says that nothing was deleted, and so does
  `tests/test_profiles.py:244`, which looks at the directory only.

Ten more disagreements are stated as properties of their modules that no run checks, because each of them fails.
To see one, add it to `ConversationServices.cfg` (the first five) or `ProfileServices.cfg`, with `Services`
restricted to the service named here.

* `CopiesReclaimed` (PROPERTY, `files`): a copy whose row a stop of the gateway has kept from being committed
  (`conversation_files_prepare.py:146`) is never removed, neither by the deletion of its original nor by the sweep.
* `OneCommand` (`skills`): a child outlives the gateway, whose table of jobs starts empty; a second job works beside it.
* `SweptUnlinked` (PROPERTY, `files`): the sweep lists unlinked uploads and deletes each in a transaction that does
  not look again; one that was linked in between goes with its link.
* `MemoryLogged` (`skills`): the text that was logged and the chunk that is deleted by its index may differ.
* `NoSecondCard` (`proposals`): a creation whose answer was lost is undone, and the proposal makes a second card.
* `OneWorker` (`oauth`): a start whose audit line cannot be written, or a poll that is told the outcome early, leaves a
  worker that no later start knows of.
* `KeysLeft` (PROPERTY, `connectors`, with two servers): a deletion has read which keys the others use before it takes
  the lock; an entry saved in between may refer to a key whose line it then removes.
* `LinesKept` (PROPERTY, `connectors`): two overlapping rewrites of `.env` lose the lines of the first.
* `RunsOnceOnly` (PROPERTY, `cron`): a job that is paused between the check and `trigger_job` is resumed.
* `NoRunOnArchived` (`cards`): a card is claimed between the count of running cards and the archiving.

Four more statements do not hold and are not promised anywhere; they show how far the ones that hold go:
`ConfigAlwaysKept` (requests that overlap lose each other's change of `config.yaml`), `EditHits` (an edit of an
artifact that is deleted before the save goes to another artifact, or makes a new one), `OwnText` (a run without a session is
shown the output of the next run when that ends within the window), `OthersRegistered` (a job of a
profile that is made between the count and the reconciliation falls out of an external registry until the next
fire or start).

## 4. What is proved

### The event stream

`EventStreamProofs.tla` proves, for all values of the constants that satisfy `StreamAssumption` (limits are
positive, opted kinds are kinds, `NoBoard` is no board, bounds are natural numbers):

* `StreamInvariant`: `Spec => []StreamInv`, where `StreamInv == TypeOK /\ RequestOK /\ NoGap`;
* `TypeCorrect`: `Spec => []TypeOK`;
* `NothingIsSkipped`: `Spec => []NoGap`;
* `OrderInvariant`: `Spec => [](StreamInv /\ OrderInv)`, and from it the action properties `NoRepeatOnBoard`
  (`NoRepeats`), `PairsWhole` (`PairsStayWhole`), `DeletionIsLast` (`DeletedLast`) and `NoMoreMeansAll` (`NoMoreIsAll`);
* `ArtifactsOnce`: `Spec => NoRepeatOfArtifacts`, where one store writes (any two members of `Writers` are the same);
* `KeepsDeletions`: `Spec => DeletionsDelivered`, and, where one store writes, `KeepsArtifacts`:
  `Spec => ArtifactsDelivered`, the two refinements of `Delivery`.

`NoGap` is not inductive. Its step is `Respond`, and there one has to know that the rows read by the first half
are still the first ones behind the cursor when the second half moves it: rows written meanwhile come behind
them, and rows deleted meanwhile are no rows any more. That is `RequestOK`. The part of `TypeOK` that keeps the
positions within the logs gives that a row appended now is behind every cursor, and the part on deleted cards
that a card which is created has no row left from before.

The argument for `Respond`, for each of the three logs alike: what `TailOf` reads is downward closed behind the
cursor (`TailOfIsPrefix`); the new position is at most the last thing read before which nothing is cut
(`AdvancedStopsAtCut`); what is not cut is carried (`NotCutIsCarried`); and what is carried was read
(`EmittedIsRead`). Hence everything between the old position and the new was carried by this answer or told no
event. For `HandOff` the new carrier takes the old one's position and its start together. The other actions
append behind the cursors or remove rows. There is one lemma per action, and under it one step per part of the
invariant.

The action properties are about the order of times, of which `StreamInv` says nothing. `OrderInv` adds that rows and
lines lie in the order of their times, since both are appended with the present time (`LogsInOrder`); that a card
whose deletion is logged is gone for good (`DeletedStay`); that no position has fallen behind what was delivered
(`Behind`); and that a page which is not full holds all rows there were, none of a card whose deletion the client
knows (`PageOK`). The merge is a matter of ranks: the rank of an event, the number of those before it, is one to one
onto an initial part of the numbers (`RankOrders`), so that the first `n` events are `n` events (`FirstIsPrefix`) and
the limit parts at most one pair, which one less or one more brings together (`PairRanks`, `NoTwoSplits`). Hence
what an answer carries is an initial part of what was read (`EmittedIsFirst`), and in a log whose times are in order
the new position covers exactly what the answer carries (`AdvancedCovers`, `BroughtUpTo`). That is all that
`NoRepeatOnBoard` and the refinement of the deletion logs still need.

In the host-wide log the times are in order only while one store at a time writes: a store that waits for the lock
has read a time that nothing in the log is later than (`ArtifactsInOrder`). The run `events_two_stores` shows that
the condition cannot be left out. The position that counts moves with the carrier (`CarrierAhead`), and nobody but
the carriers, present and past, has one (`Carrying`). A poll that answers is a delivery, or, when the carrier's cursor
has no position yet, the joining of the log at its end; starting, taking over and asking are joins or stutters.

### OAuth attempts

`McpOAuthProofs.tla` proves, for every set of requests, every bound on attempts and every `Unfinished` that satisfy
`OAuthAssumption`:

* `OAuthInvariant`: `OAuthSpec => []OAuthInv`;
* `AttemptsDoNotOverlap`: `OAuthSpec => []NoOverlap`;
* `ApprovalsStay`: `OAuthSpec => TokensStay`;
* `OAuthTypeCorrect`: `OAuthSpec => []OAuthTypeOK`.

`ProfileServicesProofs.tla` carries the last of them over to the composition.

`NoOverlap` is not inductive: when a request starts a worker, one has to know that no other one is held. A worker is
held when it works and is not lost. `OAuthInv` adds why there is none. A worker that is held is remembered in
`_SESSIONS`, or about to be by the request that started it (`Known`), and what is remembered was not let go of
(`HeldApart`). The key in `_STARTING` stands for one request (`OneStarter`), so that this request is the one that
starts. While a request starts, no worker is held but the one it waits for (`AloneAtStart`): it looked under the lock
at which no other one was starting, so that whatever was held was in `_SESSIONS`, and a record leaves `_SESSIONS` when
its worker is done, or the worker becomes lost. No attempt begins after one that is held (`Last`); hence for
`TokensStay`: when a held worker rolls back, no attempt after it has begun, and none can have stored tokens that its
rollback erases. Lost workers may commit and roll back at any time, so that of a snapshot it is only claimed that it
is older than its attempt (`Snapshots`). Requests that start no worker share one lemma (`CallStepInv`), and so do the
steps of a worker (`WorkerStepInv`).

### The cron source

`CronTailProofs.tla` proves, for every set of runs and every limit and clock that satisfy `CronAssumption`, and
under `~MayFail` (re-reading an execution does not fail; the run `cron_locked` shows that it matters):

* `CursorInvariant`: `Spec => []CronInv`;
* `CronTypeCorrect`, `NothingFallsThrough`, `CursorStaysSmall`: `TypeOK`, `NoGap` and `OnlyOpenHeld` always hold;
* `ToldOnce` and `StartComesFirst`: `Spec => NoEventTwice` and `Spec => StartBeforeFinish`.

`NoGap` is not inductive, for three reasons. A poll takes many steps, and rows change between them: `ReadOK` says
that what was re-read lies between what the client knows and what the row is now, and that what was not found is
gone. The watermark says something of runs that are claimed later: it is the claim of a run (`Held`), and the
scheduler claims later than any run before, so that a new run is never behind it. And the answer may be cut between
the two events of a run: no end is earlier than its start (`InTime` in `LedgerOK`), hence the end is not carried
alone (`CutFacts`), and a run told in part is known as running. `HeardOK` is `NoGap` also for rows that were
thinned out while they were held.

All steps of the scheduler are one lemma (`LedgerStepInv`): a row stays, is claimed now, or goes on. `Respond` rests
on `RowsFacts` (what the client knows of each row, and has heard), `EventsFacts` (the events that follow from it),
`MarkFacts` (the watermark passes only what was told in full) and `KeptFacts` (what the next cursor says is what
the client then knows). The two action properties need `AnswerFacts` and that only `Respond` answers.

### Approvals

`ReviewProofs.tla` proves, for every set of profiles, people and policies and every bound that satisfy
`ReviewAssumption` (a reviewer is named exactly by the policies that need one, and is not the implementer, which
is what `_validate` and `parse_policy` see to):

* `ReviewTypes`, `ApprovalsCompleted`: `TypeOK` and `ApprovalsAreCompletions` always hold;
* `OwnWorkNeverApproved`, `PeopleDecideTheirs`: `Spec => NoSelfApproval` and `Spec => PeopleDecide`.

The two action properties are about the moment at which Hermes completes the card, but what they need was checked
earlier, by the pre hook. `ClearedOK` is that what the hook found still holds: the run was claimed from review, the
latest submission is another profile's, and without an edit the policy is an agent's. It stays because a run that is
cleared is the active one, so that nobody else can submit, and what moves the card away ends that run; this is why
`TypeOK` says that exactly the active run's worker works. A run from review has a submission to look at
(`Submitted`). For `ApprovalsCompleted` a count is needed (`Counted`): the approvals on record, the people and the
workers that have completed the card and will record it, are together no more than its completions.

### The artifact store

`ArtifactsProofs.tla` proves, for all values of the constants that satisfy `ArtifactsAssumption` (a hook that saves
has found something):

* `StoreKeepsShelf`: `ArtifactsSpec => KeepsShelf`, the refinement of `ArtifactShelf`;
* `EventsToldOnce`: `ArtifactsSpec => []ToldOnce`;
* `ArtifactTypes`: `ArtifactsSpec => []ArtifactsTypeOK`.

A commit is the shelf's creation of an artifact or its next version, the mark of a deletion puts it away, and all
other steps stutter. The commit refines only because what its writer decided under the lock is still right
(`Decided`): the version is the next one of a live artifact, or the artifact is new and its title nobody else's; one
writer at a time has decided (`OneWriter`). That steps which remove files stutter needs that a version which is
not marked as pruned has its file (`FilesThere`), that the marks are exactly those of the limit (`Marked`), and that
what a late writer still removes is marked or deleted (`Leftovers`). The mapping is `Shelved`, `TitleOf` and
`TextOf` in `Artifacts.tla`.

### The services of a conversation

`ConversationFilesProofs.tla` proves that each step of the files keeps `FilesInv`; both compositions cite it.
`ConversationServicesProofs.tla` proves of `ServicesSpec` of `ConversationServices`, for all constants that satisfy
`FilesAssumption` and `SkillsAssumption` (bounds are natural numbers):

* `OnePersonAnswers`: `[]OneAnswer`, by `AskInv`. A question in the table has been answered by nobody (`OpenQuestions`),
  what somebody was told is the answer in the entry (`Heard`), and a run ends with an event that stands for an answer
  or with its interrupt (`Ends`).
* `OneCardEach`: `[]OneCard`, by `ProposalInv`. `OneCard` counts cards; the invariant also counts the clients that may
  still make one (`OnTheirWay`), and weighs both against the resolution that stands and the answers that were lost
  (`Weighed`). Taking a resolution back sets a client on its way; the card of a record is one of the proposal's
  (`OwnCards`).
* `RowsForBytes`: `[]BytesHaveRows`, by `FilesInv`, with the types of the rows and that what a sweep has listed was
  uploaded. A stop adds one to the stray blobs or to the copies without a row (`FewStrays`), never to both: a transaction
  is of one file. `CopiesHeld`: `ReceiptHolds`, an action property, from it: every action
  that takes a copy away looks at the leases of all requests in its own transaction.
* `SuccessIsReal`: `JobsTellTruth`, by `JobsInv`: one job at a time is running, and while the gateway has not stopped no
  child is left from an earlier one, so that the command of a job that was looked at was the last to work on the skill.
* `ServicesTyped`: `[]ServicesTypeOK`, the types of all of them at once.

### The services of a profile

`ProfileServicesProofs.tla` proves of `ServicesSpec` of `ProfileServices`, for all constants that satisfy
`CronAssumption`, `CardsAssumption`, `ConnAssumption`, `ResultsAssumption` and `HomeAssumption` (bounds are natural
numbers, the root profile is one):

* `RegistryHolds`: `[]RegistryFollows`. The invariant is the property with "no request has changed the store and not
  yet told the scheduler" in place of "no request is under way" (`Followed`), and that jobs belong to profiles.
* `ParentsComeFirst`: `[]ReadyParents`, and `CardTypes`: `[]CardsTypeOK`, by which no card is below itself. The hard
  step of `ReadyParents` is a card that is reopened: what is below it must stop being ready, however long the chain.
  `Descendants` is the least set that holds the children of the card and of what it holds, which is what the code's
  walk over the links finds; as such it can be reasoned about without induction. Adding a parent makes no cycle
  because the code refuses a parent below the card (`LinkAcyclic`); taking links away makes none (`FewerParents`).
* `NothingLost`: `[]ConfigKept`, by `HomeInv`. While nobody overlaps, or only requests of the approval policy do (`Sole`),
  what a request has read of `config.yaml` and will write back holds everything that is to be kept (`ConfRead`), and
  what it has read of `.env` the key that was handed out (`KeyRead`). Requests of the approval policy are under one lock,
  so that one at a time is between reading and saving (`Policy`). Steps of one kind share a lemma (`HomeStepInv`).
* `NothingStays`: `[]TidyCalm`, by `ConnInv`. `TidyCalm` says nothing of a request half way, and the invariant has to:
  while the requests about a server are not mixed, one works on it at most (`OneWorks`); a deletion that is alone knows
  what it has taken, and no worker of OAuth stores tokens behind it (`RemovalKnows`); where things are calm, what a request
  has read of the entry is so still (`CalmKnows`), and a server that is not settled has a request at work on it that
  settles it, or leaves it `alone` when it breaks off (`Tidying`). `ConnTypes`: `[]ConnTypeOK`.
* `RevocationReaches`: `RevokedGone`, by `FilesInv` of `ConversationFilesProofs.tla`. A session continues others in a row
  (`SessionsInRow`), so that a binding which one that continues the revoked session reads is of its lineage; and a binding
  of that lineage is bound since or still to be taken, whatever Hermes compresses meanwhile (`Revoking`): a session that
  is begun then has no binding yet, or one that was given since.

* `OwnOutcome`: `[]OwnStatus`, under `2 * Lag < Gap` (a session is opened within less than half of the time between two
  starts of the job; `Lag = 1` and `Gap = 3` in the run). By `ResultsInv` the runs are apart by `Gap` and each session
  lies within `Lag` of its own run, so that the run that a session is matched with is its own, or none, whatever the
  window.
* `HomeBounded` and `ServicesTyped`: `[]ServicesTypeOK`, the types of all of them at once. The projections on
  `OAuthSpec` and `ArtifactsSpec` are proved (`OAuthAmongThem`, `ArtifactsAmongThem`), so that those two take over the
  invariants of their own modules. That the number of a key is within its bound is a matter of counting: keys that
  were handed out, and the requests that will hand one out, are no more than the requests begun (`HomeBounds`).

### Only model-checked

* Liveness, which is beyond the prover: `RowsArrive`, `LogsArrive`, `EndsArrive`, `CallReturns`, `DeletedGoes`,
  `JobEnds`. Each needs fairness, and so ENABLED, and an induction over what is still to come.
* What a run shows to be violated, and `ConfigAlwaysKept`, which does not hold.

Every other invariant and action property that a run checks is stated by a theorem. The theorems on the cron source
take `~MayFail`, those on the host-wide log a single store, and `OwnOutcome` its condition on times: the runs that
pass have them too, and where they do not hold a run or the text above says what happens. No module uses `RECURSIVE`,
so that none is closed to proofs.

## 5. Plan

In this order.

1. `Delivery` with fairness, so that it promises that what is owed comes, and `LogsArrive` as its refinement;
   a form of it for rows that may be taken back, for `task_events` and for the ledger of executions.
2. `DeletedLog`: physical lines, torn writes, line breaks inside a record, composed with the reader's position.
3. `Review` with board defaults, decisions as rows and the state shown to people; `CronTail` with a page size, a
   claim that is not the latest, and the fallback for a profile without a ledger.
4. `McpOAuth` with a count of the workers that are let go of, by the polls and starts that did so; `CronJobs` with a
   reading and a setting of the registry as two steps, and the deletion of a profile.

## 6. What is left out

Encoding and validation of tokens, payloads, wording, HTTP errors and authentication are not in the models: no
property depends on them. The models do not show that Hermes behaves as they assume. Numbers are unbounded in
the models and in Python; SQLite's ids do not wrap. Deletions by other tools than the plugin leave no line in
the log and are outside its promise (`deleted_log.py`).

Not modelled:

* Policy import (`review_migrate.py`): one copy per board in one transaction, keyed so that a second one changes
  nothing.
* Kanban operations and views: attachments are bytes, views are reads, the operations single calls of Hermes; a
  swarm is assembled in one transaction.
* Session sources: a reading of a transcript.

Left out of components that are partly modelled: the fallback of the cron source for profiles without a ledger and
its pages of 500; the physical lines of the deletion log; board defaults of policies; names, bodies, priorities and
comments of cards; the texts and paths that the artifact hooks search; the event of a blocked call
(`approval_blocked.py`); the pause of the curator, supporting files and search of skills; the audit lines and
the catalog of connectors; the persona file, the order of models, the login of providers and the launch of workers.
