# TLA+ specifications of inspect-k8s

inspect-k8s is a read-only Kubernetes inspector: a language model plans tool
calls, a harness validates and runs them, and what was observed is kept in a
wiki that later questions start from. These modules model the parts of the
harness whose correctness depends on order, on failure or on several threads
and processes working on the same state. Every definition that stands for code
is listed with its source lines in `PROJECT.json` ("map"); the hazards the
properties are aimed at are listed there too.

## The system

| Component | State it keeps | Operations | Interacts with |
|---|---|---|---|
| Inspector graph (`src/graph.py`, `src/nodes/`) | per thread: messages, raw results, observations, tool trace, usage, final answer (kept by the checkpointer between runs) | one superstep per node: wiki_reader, planner, executor, formatter, wiki_writer, reflector | model, tools, wiki, audit log; called by web server and CLI |
| Read-only gates (`tools/verb_validator.py`, `tools/guarded_client.py`, `config.py`) | registry of tools | validate a call, check a request, accept a kubeconfig | executor, tool wrappers |
| Read tools (`tools/k8s_read.py`, `multicluster.py`, `jira_reader.py`, `confluence_reader.py`, `fisheye_reader.py`, `source_reader.py`, `web_search.py`) | none between calls | a call is validated, sends its requests, is answered and recorded | gates, audit log |
| Trino tools (`tools/trino_reader.py`) | the query of a call | post, poll, cancel; reports of several queries | Trino |
| Web testing (`tools/web_test.py`) | policy of targets | probe, scan, list links, with redirects | web servers, DNS |
| Sandbox (`sandbox/`, `tools/sandbox_ops.py`, `tools/manifest_sanitizer.py`, `clone_cli.py`) | containers; policy of targets; the local cluster | run a command, run strix, clone a release, remove a resource | docker, kubectl, helm, DNS |
| Audit log (`audit.py`) | append-only JSON lines per day | record | executor, tool wrappers |
| Wiki (`nodes/wiki_writer.py`, `nodes/reflector.py`) | one file per workload, namespace, pattern, session, lesson | append observations, rewrite the session page, rebuild the index, append a lesson | graph, curator, editor |
| Curator (`curator.py`) | SQLite: jobs, page_state, journal | enqueue, claim_next, complete, fail, revive_dead, plan_cycle, run_pending, curate_page | web server thread and endpoint, cron; model; wiki |
| Web server (`web.py`) | invoke_lock, agents, graphs per context | chat (server-sent events), compact, reflect, delete, wiki editor, curator endpoints | everything above |
| Session registry (`sessions.py`) | SQLite: sessions, projects | touch, add_usage, remove, create/rename/remove/assign project | web server |
| Settings store (`settings_store.py`) | `.env` | read, rewrite | web server |
| Morning triage, daily report (`morning_triage.py`, `daily_report.py`) | snapshots per cluster, a Confluence page per day | scan, diff, send; look up, create or update | Kubernetes, Slack, Confluence |
| Desktop shell (`desktop/`) | the backend process, the window, the git checkout | start, restart, update, shut down | web server process, git |

What is hard in it:

* **Runs that stop anywhere.** The checkpointer saves a thread after every
  superstep. A model error, a closed browser or the death of the process leaves
  a half-finished run behind, and the next question starts from it.
* **Channels that outlive their run.** Only some channels are reset by
  wiki_reader; the others carry the previous run's values.
* **Budgets.** The tool-call budget, the recursion limit derived from it and
  the batches the model asks for must fit together.
* **A durable queue.** Claim, work, settle are separate statements, with
  crashes, failures, retries and manual revival in between, from several
  threads and possibly several processes.
* **One lock for many endpoints.** The invoke_lock serialises graph calls in
  one process; some endpoints take it late, some not at all.
* **External effects before state changes and after them.** Snapshot and Slack
  message, lookup and publication, stop and restart of the backend.

What makes each component correct:

* graph: the request sent to the model is always a valid history; every
  observable result reaches the wiki, once; a run ends, within its budget, by
  its budget rather than by the recursion limit; it reports its own answer.
* curator: a job has one worker; it is settled, retried while it has attempts
  and no longer; a page has at most one unfinished job and is not given to the
  model twice within a day; pages do not starve.
* sessions: a run's checkpoints are not interleaved with another request's; a
  deleted session leaves nothing behind; sessions refer to existing projects.
* wiki: appended history is kept whoever else edits the page.
* triage and report: a change that was detected is reported; what was reported
  as published stays published.
* tools: an answer never passes a part for the whole, and the audit log says what
  was done; a query is not left running for nobody; every call ends.
* sandbox: a container does not outlive its call; a denied target is denied by
  every name it has; a cloned release is cleaned, as far as its kinds are known, and
  finds its secrets.
* desktop: the shell knows the backend it started, the window follows it, and it
  is stopped with the application; an update loses nothing of the wiki.
* settings: a save changes what it was asked to change.

## Modules

| Module | Role |
|---|---|
| `InspectorGraph` | the graph: state, nodes as actions, properties, inductive invariant |
| `MCInspectorGraph` | the sets of tool outcomes TLC uses |
| `InspectorGraph_proofs` | proofs of its eight invariants |
| `JobQueue` | what a job queue promises: abstract specification |
| `CuratorQueue` | the curator: SQL statements as actions, refinement mapping to `JobQueue` |
| `MCCuratorQueue` | deployments: one server process, server and cron |
| `CuratorQueue_proofs` | proofs of its four invariants, of one action property and of the refinement, in one process |
| `Conversations` | what serialising the graph calls promises: abstract specification |
| `WebSessions` | the server's requests on sessions, refinement mapping to `Conversations` |
| `WebSessions_proofs` | proofs of its invariants and of the refinement |
| `WikiMemory` | a wiki page, everybody who writes it, and the update of the checkout it lies in |
| `DesktopShell` | the Electron shell and the backends it starts |
| `SettingsStore` | `.env` under overlapping saves |
| `MCWorkstation` | the three above, one at a time |
| `Workstation_proofs` | proofs of their invariants and of three action properties |
| `ReadTools` | every reading tool: its requests, its wrapper, its record |
| `TrinoQuery` | queries, pages, cancellation, reports of several queries |
| `WebProbe` | one page with redirects followed by hand |
| `CloneRelease` | a helm release copied into the local cluster, with the sanitizer |
| `SandboxTools` | a command in a container; strix and its policy of targets |
| `SandboxTools_proofs` | proofs of its types, that containers are removed and that denials hold |
| `CloneRelease_proofs` | proofs that the sandbox stays clean and workloads find their secrets |
| `MorningTriage` | scans, snapshots, changes, delivery |
| `MorningTriage_proofs` | proof that delivered reports add up |
| `DailyReport` | the day's turns, the folder, the page |
| `MCIntegrations` | the seven above, one at a time |
| `Integrations_proofs` | proofs about the reading tools, Trino, the web tools and the daily report; the composition |

### InspectorGraph

One conversation thread. `node` is the superstep to run next; the other
variables are the channels of `InspectorState`, the executor's locals (`batch`)
and the files (audit log, wiki, session page, lessons). `Ask` is
`graph.stream(payload)` from `chat` or the CLI: the question joins the history
and the run starts at START, whatever the previous run left. `WikiReader`,
`Planner`, `ExecuteCall`/`ExecutorReturns`, `Formatter`, `WikiWriter` and
`Reflector` are the nodes. The executor is two actions because its calls are
audited one by one while its channels are written together when it returns.
`Abort` is anything that ends a run early, in or between nodes; a half-finished
wiki_writer has appended the observations of a prefix of the calls. `Compact`
is `/compact`.

Data are abstracted: a tool call is a number (back ends hand out fresh ids), its
fate is one of ten outcomes (`ExecutorOutcome`, `K8sOutcome`, `ExtraOutcome`)
that differ in what reaches the audit log, the trace, the results and the
observations; an observation is the id of its call; a text is the run that
wrote it. The contents of wiki pages, prompts, token counts and the choice of
relevant pages are left out.

`SanitizeHistory` is the code's repair of the history and `ValidHistory` what a
back end accepts; the second is written independently of the first.

### JobQueue and CuratorQueue

`CuratorQueue` has one action per SQL statement with its commit: `Plan` and
`Insert` (plan_cycle, enqueue), `Select` and `MarkRunning` (claim_next),
`Curated` and `CurateRaises` (curate_page), `Complete`, `FailReads` and
`Requeue` (fail), `Revive`. `StartCycle` takes the process's invoke_lock and
`EndCycle` releases it. `StatementRaises` is an SQL error: in `complete` it is
caught by run_pending and the job fails, elsewhere it ends the cycle. `Crash`
ends a process and keeps the table. A worker that runs `python -m src.curator`
is a process of its own, so it shares no lock with the server.

Time is relative: a pending job has the ticks left until it is due, a page the
ticks since it was curated, up to the interval after which the code no longer
distinguishes them. The state space is then finite without a clock bound, and
liveness can be checked. Jobs whose time has come are in `due`, in the order of
next_run_at that the claim's ORDER BY uses. Rows of finished jobs are used again,
which stands for AUTOINCREMENT ids that nobody refers to any more.

`JobQueue` says what a reader of the docstrings expects: claim, by a worker that
has no other job; settle, by the worker that claimed. `ImplementsJobQueue` maps
a row's holder to the worker that is between claim and settlement of it.

### Conversations and WebSessions

A request is a slot with the endpoint that was called (`kind`), where its handler
is (`pc`), its thread_id and the messages it has read (`mine`). `project` is the
table of sessions: its domain is the rows, its values the project_ids. `ckpt` is
the length of each conversation in the checkpointer. Each method of SessionStore
holds the store's lock for one transaction and is one step; `touch` is two
(`Touch`, `Reread`), because it reads the row again under a lock taken anew.

| Code | Actions |
|---|---|
| `POST /api/chat` | `Call`, `Touch`, `Reread`, `Stream`, `Acquire`, `Superstep`, `Resume`, `FinishRun`, `Disconnect` |
| `DELETE /api/sessions/{id}` | `Call`, `RemoveRow`, `Acquire`, `DeleteThread` |
| `.../compact` | `Call`, `Acquire`, `Compact` |
| `.../reflect` | `Call`, `ReadState`, `Acquire`, `Reflect` |
| `POST /api/curator/run` | `Call`, `Acquire`, `Curate` |
| projects | `CreateProject`, `RemoveProject`, `AssignProject` |

Two things of the framework are modelled from how the code uses them. A
synchronous handler runs in a thread of a pool of `PoolSize` and keeps it while it
waits for a lock; the generator behind a chat's response has a thread only while
it computes its next event, but keeps the invoke_lock across events. A
disconnected browser closes the generator where it was left, which leaves its
with statement. That the generator is closed at once is how CPython collects an
object nobody refers to.

A superstep is counted as one more message; what it does is InspectorGraph's
business. Validation of requests, titles, turns, agents and token counts are left
out. The command line is a second process that shares the checkpointer and no
lock. It makes a thread id of its own unless `--thread` names one; given that of a
conversation in the browser, nothing serialises the two. It is not part of this
module.

`Conversations` has Begin, Write, End, Compact and Delete of one conversation at a
time. The mapping takes `ckpt` for its lengths and the thread of the chat that
holds the lock for the run that is going on; a wrong order of reading and locking,
or a handler that writes without the lock, is a step it does not allow.

### WikiMemory

A page is the set of notes it holds; a note is a number, written once. Whoever
writes a page reads the whole of it, works on what was read and writes the whole
back: the graph's wiki_writer (`Observe`) and the curator (`Curate`) between
`Acquire` and `Release` of their process's invoke_lock, the browser's editor
(`OpenEditor`, `SaveEdit`) without one. `checkAndPull` is one action per git
command that touches the page: `Fetch`, `StashPush`, `Merge`, `StashPop`. Two calls
may overlap, from the timer and the menu, and writers come in between. A pop that
conflicts leaves both versions in the file with markers in its front matter
("broken": no writer can parse it) and an unmerged index, with which later stashes
and merges are refused.

`UpdateKeepsMemory` takes the tree, both commits and the stash together: no step
of an update makes a note unreachable. `LockedWriteLosesNothing` says what the lock
is good for: what a locked writer drops without having read it was put there, while
it worked, by somebody who does not take that lock. The flag `stale` remembers
that. That edits and updates do get lost under the curator is therefore a
limit of the lock that the model shows, not something the repository promises
against.

### DesktopShell

`proc` is the table of backends; `mine` says that the shell that runs now spawned
the process and has not been told of its exit. `serverProc` is the handle that
kill and shutdown use. `Launch` is whenReady (an update that pulled something
spawns a backend of its own first), `Activate` the Dock icon, `RunAutoUpdate` the
timer or the menu, `OnExit` the exit handler, which clears the handle whatever it
holds. Backends share one port: one that finds it taken exits, one that is told to
stop closes its socket and finishes its connections later, and whoever holds the
port answers the health checks of `waitForServer`.

### SettingsStore

`PUT /api/settings` in three steps (`ReadLines`, `OpenFile`, `WriteLines`), since
`write_text` empties the file before it writes and nothing is locked. Overlapping
saves may undo each other, which the history flags `stale` and `torn` set apart:
without an overlap a save changes the keys it names and no other, and comments
and other keys are kept.

### ReadTools

A tool is the sequence of requests it sends, each with what happens when it fails;
the tables (`PodReads`, ..., `WebReads`) have one entry per tool. Families of tools
have wrappers that differ in what they record of a refusal, of a service's error and
of an unexpected exception; each wrapper is an operator (`K8sRecord`, ...). One
call runs at a time: calls share nothing but the log they append to. The tables of the
Kubernetes tools are sets of names, since most are one request that must succeed;
`K8sSeveral` has the others.

### TrinoQuery

The client's `query` and, beside it, what the engine does with it; `tool.stage` is
the question of a report that is being asked. `lost` marks a request that did
not get through, after which the engine may go on with a query nobody reads.

### WebProbe and SandboxTools

Names have an address, none, or another one later (`Moves`, `NameMoves`). What the
checks of a target's form refuse is one field (`form`) or kind; white lists, deny
lists and addresses are sets; the web tools have names and addresses of their own
(`WebHost`, `WebAddr`). `SandboxTools` makes its policy once, in Init, as
make_security_tools does, while DNS changes later.

A name is resolved when it is checked and again when it is used, so check and use are
two steps. `Authorize` is the check of a hop (web_test.py:267) and `Request` what httpx
asks for (272), at whatever address the name has by then; `pinned`, the addresses of
the check, only goes into the answer. `StrixStart` checks the target and `StrixRuns`
starts strix with the name, which strix resolves: `reached` is what it finds. The
history variables `moved` mark a name that moved in between, the DNS TOCTOU that
security_tools.py:41 lists among the residual risks. The properties say that nothing
else leads to a denied address, be it a move before the check, between two hops, or
another name of the same system.

### CloneRelease

One action per command of `clone_release`, with the sanitizer as operators on
documents. A document has the kind, name and replicas the sanitizer looks at, the
places where it has something only a cloud can run (`Places`), and the secret keys
its pods use in their environment, in secret volumes and in projected volumes. One
kind stands for those the sanitizer treats alike: Job for DaemonSet, CronJob and
Pod, Deployment for ReplicaSet. `Stripped` is what the sanitizer takes out, kind by
kind: the annotations of every document, the placement of the pods of a workload it
knows, the load balancer of a service, storage classes of a claim or a StatefulSet.
The annotations of a pod's template and the specification of a custom kind stay as
they were rendered, and no stub is made for a projected volume or for a pod inside a
custom kind; the properties say so. The apply of stubs and the apply of the manifest
may fail or be cut off in part; `Raises` is a command that times out.

`RemoveResource` removes by kind and name, secrets included, and `RemoveNamespace` the
whole namespace, both at any time, also under a clone. A release that renders a
Namespace document of its own, and two clones at once, are not modelled.

### MorningTriage and DailyReport

A source is a map of its deployments or tables (`Entries`) to what is compared. A
read that fails is absorbed by `_safe`: a cluster that does not answer is scanned as an
empty one, and that snapshot replaces the last one. The comparison with an empty
snapshot reports nothing, so the run after it takes what it finds for a baseline.
`ScanFails` is only what raises before the scan, or a lake that is not there.

`told` adds up, entry by entry, what the delivered messages said, from the first
baseline of a source on (`based`) and across later, silent ones; `Cut` is a message
whose list was shortened. `lost` are the entries whose last change no message
showed, because Slack refused it, the list was cut, the run died, or the
snapshot to compare with was empty; the next delivered change of an entry takes it
out again.

`DailyReport` counts turns: a page is the number of turns it was made of, and its
version. Confluence is external: unique titles, and an update that must name the next
version.

## Runs

| Run | Shows | Bounds |
|---|---|---|
| `inspector_thread` | history validity, nothing lost, nothing recorded twice, own reply reported | 2 questions, budget 2, batches of up to 2 calls, outcomes refused/data |
| `inspector_budget` | recursion limit, budget, signal at the budget, every run ends | 1 question, budget 3, batches of up to 2, 5 outcomes |
| `inspector_stale_answer` | finding: an earlier run's answer is reported at the budget | 2 questions, budget 1 |
| `curator_cycles` | refinement of JobQueue, no early repetition, one unfinished job a page, settlement, revisits | 2 workers of one process, 2 pages, 3 rows, 1 job a cycle, 3 attempts |
| `curator_faults` | type, exclusive claims, dead exactly when exhausted, under crashes, SQL errors and revivals | as above, 2 rows |
| `curator_restart` | finding: a job of a dead process is never settled | 1 page, 1 row, crashes |
| `curator_two_processes` | finding: server and cron claim the same job | 1 page, 1 row |
| `server_sessions` | serialised conversations, no stale memory, no dangling project, the lock is given back | 3 requests at a time, 1 conversation, 1 project, messages counted to 4, 3 threads |
| `server_orphan` | finding: a removed session leaves a checkpoint | 2 requests, 1 conversation |
| `desktop` | the handle is current, the window follows the backend, updates and locked writers lose no note, settings are kept | 3 backends, 1 update, 1 wait of each kind; 2 observers, 1 curator in another process, 1 editor, 2 updates, 2 notes, 2 stash entries; 2 keys, 2 saves |
| `desktop_orphan` | finding: an update at start-up starts two backends, and the shell quits without stopping one | 3 backends, 1 update |
| `integrations` | whole answers, true records, queries cancelled, calls answered, containers removed, denials kept, hops authorised, clones clean and resolvable, reports that add up | 2 rows a result, 2 limits; 2 clones of up to 2 of 7 documents; 2 sandbox calls, 2 names, 2 addresses; 2 redirects; sources of 2 and of 1 entries, 1 change always shown; 2 reports at once, 2 days, 2 turns, 2 versions |

Why the bounds are enough. Every property of the graph relates a run to what one
earlier run left in the thread, so two questions show what more would show; a
batch of two is the smallest that overshoots a budget or is left half done; a
budget of three lets a batch of two end exactly at it, one before and one past
it. The thread run uses two outcomes because the history and the wiki only
distinguish a result from no result; the budget run uses one of each class. In the curator, one
job per cycle with two pages makes a job wait while another is served, three
attempts give an uncapped delay, a capped one and death, and the third row
lets a new job arrive beside finished ones. A delay cap of 3 ticks with a base of
2 makes `min` matter; the re-curation interval of 2 ticks and calls of up to 1 tick
keep the code's order of magnitude (calls are shorter than a day).

A race on a conversation is between one request that holds the lock and those
that read or wait; three slots, each used again and again, have one holder and
two that queue in either order. Requests on different conversations share only
the lock, which one conversation contends for as well. Conversations of 4
messages can be compacted, shorter ones cannot.

`desktop` and `integrations` run modules that share no variable: every behaviour is
of one of them (`focus`), so that the states add up instead of multiplying. Three
backends are one that exits, one that replaces it and one more; MaxCode = 1 gives an
update at launch or a restart. Two notes are one that may be lost and one that
makes somebody write. Two clones in one namespace have the second meet what
the first left; two versions of a page are one run's and the next one's. A
schema of two tables has freshness go on to a next table, and a limit of one row
has a result that is full before it is read. A source of two entries has one change
reported while the other is lost, and a message that shows one of two; with two
redirects a chain has a hop after a hop that was redirected to, and a third is refused.

The bounds are MaxToolCalls, MaxBatch, MaxRuns (questions), NumPages, MaxJobs
(rows; a page is passed over while no row is free), CallTimeout (ticks of a
model call), Slots, MaxMessages, MaxNotes, MaxStash, Procs, MaxCode, MaxWaits,
Requests, MaxRows, Clones, Release, Calls, Sources, Entries, MaxShown, Versions, Days,
MaxTurns and MaxVersion. The other constants are parameters of the code.

Deadlock is checked for the curator and the server, where something can always happen; it is
not for the graph, where nobody has to ask another question, nor for `desktop` and
`integrations`, which end when a bound on what comes from outside is used up.

### Fairness

* Graph: `WF_vars(Step)`. One thread iterates `graph.stream()` to its end, so a
  run that is not aborted keeps taking supersteps; nobody has to ask, compact
  or abort. Calls of the model and of tools are assumed to return: the
  repository sets no limit of its own on model calls.
* Curator: weak fairness of each worker's steps inside a cycle, weak fairness of
  "some worker starts a cycle" (the background thread loops as long as the
  server runs; which worker gets the lock is left open), and strong fairness
  of time: workers wait at least a minute between cycles, so ticks are possible
  again and again but not continuously. Nothing is assumed of crashes, errors
  or revivals, nor of the model's success.

* Server: `WF_vars(Handler(s))` for each request, since a thread that need not wait
  goes on, and `SF_vars(FinishRun(s))`, since a run has finitely many supersteps
  (`RunFinishes` of InspectorGraph). Strong, because between two supersteps the
  generator may be left waiting for the browser. Nothing is assumed of who gets
  the lock, so nothing is claimed about a request's turn; nor that browsers stay.
  With fewer threads than requests the model can stop: all threads wait for the
  lock of a run that needs one to go on. The default pool of 40 threads puts that
  at 41 simultaneous requests to a local tool for one user.

* Trino: `WF_vars(EngineAnswers)`: a client that keeps asking is answered with a
  full page, the last page or a failure some day. The code polls without a limit of
  its own, so CallReturns rests on this alone.

## Proofs

Every safety property and every refinement that a passing run checks is also a theorem:
for every value of the constants that satisfies the named assumptions of the
modules, and not only for the bounds of the runs. Each proof follows one pattern: an inductive
invariant, one lemma per action, and a last step that joins them with the temporal rule.
Inductive invariants were checked with TLC before they were proved.

Some facts are about sequences of any length or sets of any size (the flattened
history, the last day that had turns). The library's induction theorems take an
operator as a parameter and cannot be used here; those lemmas look at the least
number for which the fact fails and refute it. What is assumed:

| Assumption | In | Why |
|---|---|---|
| GraphAssumption, CuratorAssumption, SessionAssumption | all theorems of the module | bounds are numbers, intervals are positive, special values are not ids |
| `OneProcess` | curator | the deployment the code is made for; with a cron process beside the server the claims are not exclusive (`curator_two_processes`) |
| `"revive" \notin Events` | NeverQueuedTwice | the endpoint revives dead jobs without looking for others of their page |
| `Events \subseteq {"crash"}` | WorkIsNotRepeated | a page whose `complete` failed is tried again after a delay, and so is the page of a revived job |
| `Events \subseteq {"revive"}` | ImplementsQueue | the abstract queue has no crashes and no failing statements |
| `Renderable` | clones | the documents of a release have the form of `Doc`; nothing is assumed of what they refer to or are made of |
| PolicyAssumption | types of the sandbox | the lists of the policy hold names and addresses |
| TrinoAssumption, ProbeAssumption, TriageAssumption, DailyAssumption, ShellAssumption | integrations, desktop | bounds are numbers; there is a largest limit, and a limit of one row |

### InspectorGraph_proofs

`Spec => []IndInv`, and from it TypeOK, NoRecursionError, BudgetRespected,
BudgetStopIsASignal, RecordedOnce, OwnReplyReported, RequestHistoryValid and
NothingObservedIsLost. `IndInv` has, besides the type invariant and RecordedOnce:

* `HistoryInv`: where the history stands when a node runs (the executor has a
  last message with 1 to MaxBatch calls);
* `BudgetInv`: supersteps, planner calls and traced calls advance together
  (in the planner `steps = 3 * usage + 1`, and every turn of the loop traces
  at least one call, so `usage <= Len(tool_trace)`). The recursion limit is
  never met because of this equation, not because of any one guard;
* `ClosingInv`: a run comes to wiki_writer by a reply of its own without calls
  or with the budget spent;
* `RecordInv`: the ids a run may still observe are not on the wiki yet. This is
  what makes RecordedOnce inductive through runs that stop between the wiki
  writer's pages: the next run's reader clears the observations, and new ids
  are larger than every recorded one;
* `ObtainedInv`: where the results of the run are, node by node: among the raw
  results, then the observations, then the wiki;
* `RequestInv`: the stored history *becomes* valid when it is sanitized. The stored
  history itself often is not, and while a batch runs its sanitized form has
  cancellations where the answers will be. The invariant therefore also speaks of
  the history without the reply that asked for the batch, whose calls are its own
  and unanswered; when the executor writes its answers, the flattening of
  the longer history is taken apart into these pieces.

### CuratorQueue_proofs

`LockInv` (a worker in a cycle has its process's lock, and no two workers of a
process are in a cycle) gives ExclusiveClaim with one process. `TableInv` relates
the rows, the order of the due jobs and what every worker has in hand (`Hand`: a
worker at its job has a running row, and has counted that row's attempts); TypeOK
and DeadWhenExhausted are parts of it. `DedupeInv` (what enqueue has checked still
holds when it inserts) gives OneLiveJobPerPage, `RestInv` (the page of a job that is
pending or not yet curated has had its rest) gives NotCuratedTooSoon. The refinement of `JobQueue` is one case per SQL statement.

### WebSessions_proofs

`Spec => []IndInv` for any number of requests, conversations, projects and
threads, where `IndInv` is TypeOK, `LockInv`, MemoryIsCheckpoint and ProjectsExist.
`LockInv` says that the holder of the lock is the one request inside its with
statement; without it MemoryIsCheckpoint is not inductive, for another request
could be writing. From it follow MemoryIsNeverStale, NoDanglingProject and, by a simulation
with one case per action, Serialised: `Spec => ImplementsConversations`.

### Workstation_proofs

* `WikiInv`: the fetched main has all that head has; a locked writer that is at work
  holds its process's lock, and the page is what it read unless it is marked stale.
  LockedWriteLosesNothing follows for the writers, and UpdateKeepsMemory command by
  command: a merge loses nothing because of the first part.
* `ShellInv`: the two properties, and that a shell that does not run has neither
  handle nor window.
* `SettingsInv`: the lines a save has read are those of the file until another save
  touches it, and carry the comments unless somebody read the empty file.

EachIsItself shows that the composition that the run checks is a behaviour of each of the three.

### SandboxTools_proofs, CloneRelease_proofs, MorningTriage_proofs

The policy denies every name and address the real systems had when it was made
(`PolicyInv`). `StrixInv` carries the check of a call (`NotDenied`) to the moment strix
is started: the policy never changes, the name of the target is not denied, and
neither is an address it has, unless it has moved since. A container belongs to a call
that waits for it, removes it, or failed to (`ContainerInv`).

In a clone, `CleanInv` says that documents are clean, each for its kind, from the step
after the sanitizer on, wherever the clone ends. `RefsInv` follows the references: they
are in `refs` until the stubs are applied and in the cluster afterwards. Applies only
add stubs and a removed secret is in `removed`; a namespace that is removed takes the
stubs away, but then nothing can be applied before the next clone makes it anew, which
is why the invariant speaks of `cluster.namespace` while documents are on their way.
Lemma `StubsAnswer` is about build_secret_stubs.

In the triage, what was told, patched with the changes in hand, is the snapshot
(`SumInv`), entry by entry, for every entry that is not `lost` and at every step of a
run; lemma `PatchedDiff` says that diff_snapshots gives what is needed to get from the
old snapshot to the new one, unless the old one is empty.

### Integrations_proofs

* `TrinoInv`: the client has no more rows than the engine sent, and a
  query is open at the client or not running, but for lost requests.
* `ReadInv`: every request that a call has made so far is in its answer or may be
  left out of it (`Covered`), for every tool of the tables.
* `ProbeInv`: types, the hops made are all authorised, and between check and request
  the page is one that was granted (`Granted`), at its addresses unless its name moved.
* `DailyInv`: a run that is at work has no fewer turns than the page of its day,
  unless it shares the day; two that share it are known to race.
* `EachIsRun`: the composition lets each of the seven do what its own module
  says. TypesCorrect is proved of the composition, the others of the specification of
  their module. CloneProved and TriageProved read a module's proofs
  in at their instances here.

### What is only model-checked

RunFinishes, JobSettles, PageRevisited, LockFreed and CallReturns need fairness, which
TLAPS 1.4.5 cannot reason about. The bounds named above keep their meaning for these.

## Findings

1. A run that stops at its budget reports the answer of an earlier run of the
   thread (`wiki_writer.py:229` searches the whole history). 
2. A job that was running when its process died stays running for ever, and
   its page is never curated again.
3. `claim_next` does not lock across processes: server and cron can both claim
   a job.
4. A session removed while a chat on it waits for the lock leaves a
   checkpoint without a row: the chat was registered before the removal and runs
   after it.
5. An update pulled at start-up starts a backend (`restartBackend`), and the next line
   of `whenReady` starts another and overwrites the only handle (`main.js:292-293`): the
   first one takes the port, and the shell quits without stopping it. The exit handler,
   which clears the handle whatever it holds (`main.js:110-111`), leads to the same end.

## Not modelled

* `llm.py`: adapters to model providers, wire formats and authentication.
* `tools/shell_http.py`: a client that logs in and fetches; one flag between calls.
* The fields of answers, the text of pages, prompts, reports and messages, and the
  patterns by which validators recognise arguments, SQL, paths and addresses: the
  models have the verdict, not the string.
* Agent files, feedback, statistics, the meta prompt, the browser page, the scripts:
  text and I/O without an order that matters.
* Not everything of a modelled part is promised by a property. A save that is undone by
  an overlapping one, an edit overwritten by the curator, a message of the triage
  that Slack refused, changes swallowed by the baseline after an empty snapshot, a
  name that moves between its check and its use, and lists left out of the inventory of images are steps the
  models take; the properties name them as their exceptions.

## Plan

What there is to model, at this grain, is modelled, and what safety the runs check is
proved. What is left:

1. Deeper statements of what is proved: ImplementsQueue with an abstract queue that
   may lose a worker, so that crashes need not be excluded; WorkIsNotRepeated with
   failing statements, for the pages whose `complete` got through.
2. `WebSessions`: the command line on a conversation of the browser, as a second process.
3. Properties for the hazards that have none yet (`PROJECT.json`, those with a note).
