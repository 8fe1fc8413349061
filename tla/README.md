# A verification project for AI-CONTROL-PLANE

This directory holds TLA+ models of the control plane in `src/` (the repository
root), the TLC instances that check them, and theorems about them checked by
TLAPS. Paths in this text are relative to the repository root; in the modules
and in PROJECT.json, which are read from above it, they start with `src/`.

How to run, from this directory:

    tlc -workers 2 -config TaskStoreSolo.cfg MCTaskStore.tla
    tlapm TaskStoreProofs.tla

Section 1 is the inventory of the system, 2 the plan and where it stands, 3 the
modules, 4 the runs, 5 fairness, 6 the proofs, 7 the disagreements found between
code and promise, 8 what is assumed, abstracted or left out.

## 1. Inventory

The repository has two halves. `src/autonomy` (AF-00 to AF-07) is a task
scheduler over a SQLite file: directives become tasks, tasks are leased to
workers, workers deliver evidence, nothing is completed without a review.
`src/directive` (CONTROL-02.5 to CONTROL-04) ingests signed directive files,
authenticates them against Git, and keeps queue, approval, killswitch and
recovery records in JSON files.

### 1.1 `src/autonomy`

| Component | State | Operations | Interacts with | Hard behaviour | Correct when |
|---|---|---|---|---|---|
| store (`store.py`, AF-00) | SQLite rows: tasks, workers, evidence, audit | create, register, heartbeat, claim, renew, start, reclaim, reconcile, fail, submit, complete, route/wait | everything in `autonomy` | several connections; read-then-write methods without a transaction or a guard on the write; clocks sampled before a lock wait | one holder at a time, one charge per lease, no completion without evidence, capacity respected, every lease ends |
| scheduler, supervisor, worker (`scheduler.py`, `supervisor.py`, `worker.py`, AF-01) | none of their own | schedule_once, reconcile | store | two schedulers or supervisors at once | as above |
| local gateway, router (`gateway.py`, `router.py`, AF-02) | in-memory sessions and dispatches | register, heartbeat, dispatch, acknowledge, result, route_once | store | restart forgets every session and dispatch; lease expires between ack and result; refused dispatch leaves a lease | one acknowledged dispatch per lease, a result only from the acknowledged holder |
| execution (`execution.py`, AF-03) | grants, workspaces, operations in SQLite; files of a disposable workspace | register, issue_grant, apply, recover, block | store, gateway (session binding) | crash between file writes and the commit; the lease changing hands between issue, apply and recover | files are wholly before or wholly after, and the grant says which; one APPLYING grant per workspace |
| ingestion (`ingestion.py`, AF-04) | source registrations, queue cursor, provenance rows; the append-only queue file (external) | ingest | store, directive queue | crash between records; truncated, rewritten or rebound source; one invalid record | each sequence number becomes at most one task, forever bound to its record |
| runtime (`runtime.py`, AF-04) | cycle status | run_once, start, stop | ingestion, supervisor, execution, router | partial failure of a cycle; recovery before routing | a blocked integrity stops the cycle before work is routed |
| external gateway (`external_gateway.py`, `transport.py`, `protocol.py`, `trust.py`, AF-05) | durable challenges, sessions, message ids, dispatches; spool files | issue_challenge, authenticate_session, heartbeat, dispatch, acknowledge, result, revoke | store, spool | replayed, reordered, late messages; crash between the commits of one message; restart forces re-authentication | no message takes effect twice, no session acts after restart or revocation without a new challenge |
| provider (`provider.py`, `codex_cli_provider.py`, `smoke.py`, AF-06) | provider connections and message ids | accept_provider_status, eligible_sessions, worker frames | external gateway | stale status, status of an earlier session | work is offered only over a fresh status of the session it goes to |
| service (`service.py`, AF-07) | lock file, status file, failure count | run, stop, read_status | runtime | crash and restart, backoff, lost status | one instance; cycle count only grows; integrity failures stop for a human |

### 1.2 `src/directive` and the control-plane engine

| Component | State | Operations | Interacts with | Hard behaviour | Correct when |
|---|---|---|---|---|---|
| watcher (`watcher.py`, `scanner.py`) | inbox, processed and rejected directories, acknowledgement files | poll_inbox | validator, authenticator, ledger, queue | crash between enqueue, ledger, acknowledgement and move; two watchers | each directive is queued at most once and its acknowledgement says so |
| durable queue, replay ledger (`durable_queue.py`, `replay_ledger.py`) | two append-only JSON-lines files | enqueue_payload, record, is_replayed | watcher, ingestion | torn last line; a failed append | what is recorded is not accepted again |
| queue integrity (`queue_integrity.py`) | directive states in a JSON file, hash-chained audit | enqueue, transition_state | e2e certification | memory changed before the save fails; two instances over one file | only the listed transitions, terminal states final |
| approval engine (`approval_engine.py`) | approval records in a JSON file, audit chain | create_request, transition_state, revalidate, notify | capability policy | approval after expiry; a truncating save | an execution is authorised once, by an unexpired approval of the same parameters |
| watchdog (`watchdog.py`) | killswitch file, health file, controller lease file | arm, engage, clear, beat, acquire_lease | recovery engine | non-atomic lease takeover; unreadable killswitch file after a crash | one controller; an engaged killswitch survives restarts |
| recovery engine (`recovery_engine.py`) | checkpoints in a file; executed set and retry history in memory | checkpoint, attempt_retry, execute_safe_recovery | queue, killswitch | restart forgets what was executed | nothing is executed twice, retries bounded |
| authenticator, schema validator, signer validator, capability policy, governance | none (Git, environment) | authenticate, revalidate_before_execution, evaluate_execution_authorization | watcher, approval engine | a commit or key that changes between ingestion and execution | fail closed |
| executor, reconciler (`executor.py`, `reconciler.py`) | none | refuse execution; compare claimed with observed state | watcher, engine | - | - |
| engine, lock manager (`engine.py`, `lock_manager.py`, `main.py`) | pid file, report files | run_sweep, acquire, release | observers, evaluator | a second instance that releases a lock it never got | one instance |
| evaluator, observers (`state_machine/evaluator.py`, `observer/*`) | none | derive a project state from evidence | engine | contradictory evidence | worst state wins |
| certification and governance truth (`github_governance_truth.py`, `e2e_certification.py`, `red_team_engine.py`, `generate_*.py`, `*_scanner.py`, `field_provenance_map.py`) | report files | derive a verdict from evidence files | Git, GitHub API | - | a verdict needs every piece of evidence |

## 2. Plan

Done, in the order in which the parts depend on each other:

| Module | Models | Extends | Abstract specification | Checked by | Proved in |
|---|---|---|---|---|---|
| `TaskStore` | AF-00, AF-01 | - | `TaskLifecycle` | `TaskStoreSolo`, `TaskStoreShared`, `DoubleLease` | `TaskStoreProofs`, `TaskStoreSoloProofs` |
| `ExternalGateway` | AF-05 and its routing | `TaskStore` | `TaskStore` | `ExternalGateway` | `ExternalGatewayProofs` |
| `Execution` | AF-03, with AF-02 dispatches and the AF-04 cycle | `TaskStore` | - | `Execution` | `ExecutionProofs` |
| `DirectiveWatcher` | inbox, durable queue, replay ledger | - | - | `DirectiveWatcher`, `Reprocessed` | `DirectiveWatcherProofs` |
| `Ingestion` | AF-04 queue file to tasks | - | - | `Ingestion` | `ServiceHostProofs` |
| `ServiceHost` | AF-07 around the cycle | `Ingestion` | `Ingestion` | `AutonomyService`, `QueueHandover` | `ServiceHostProofs` |
| `Killswitch` | killswitch of `watchdog.py` | - | - | `ControlRecords`, `KillswitchRestart` | `ControlRecordProofs` |
| `ControllerLease` | controller lease of `watchdog.py` | `Clock`, `FileRecords` | - | `ControlRecords` | `ControlRecordProofs` |
| `ObserverEngine` | `main.py`, `lock_manager.py`, `engine.py` | `FileRecords` | - | `ControlRecords` | `ControlRecordProofs` |
| `Recovery` | `recovery_engine.py` | `Clock` | - | `ControlRecords` | `ControlRecordProofs` |
| `Approvals` | `approval_engine.py` and its use | `Clock`, `FileRecords` | - | `ControlRecords` | `ControlRecordProofs` |
| `QueueRecords` | `queue_integrity.py` | `FileRecords` | - | `ControlRecords` | `ControlRecordProofs` |
| `Authentication` | `authenticator.py`, `executor.py` | `FileRecords` | - | `ControlRecords` | `TrustProofs` |
| `Certification` | `github_governance_truth.py` | `FileRecords` | - | `ControlRecords` | `ControlRecordProofs` |
| `ProjectStatus` | observers, `evaluator.py` | `FileRecords` | - | `ControlRecords` | `TrustProofs` |
| `LocalSessions` | AF-02 sessions | `Clock`, `FileRecords` | - | `ControlRecords` | `TrustProofs` |
| `ProviderStatus` | AF-06 | `Clock`, `FileRecords` | - | `ControlRecords` | `TrustProofs` |
| `ControlRecords` | the eleven modules above, over one clock | `Killswitch` to `ProviderStatus` | each of them | `ControlRecords` | `ControlRecordProofs` |

Next, most important first:

1. The all-or-nothing change of a workspace as the abstract specification of
   `Execution`, with a refinement proof (`LedgerMatchesDisk` is the invariant it
   needs).
2. `ProviderStatus` composed with `ExternalGateway`, whose sessions it takes as
   they come now.
3. **Verdicts** without state: the decision table of the capability policy, the
   reconciler, the governance and schema verdicts, as operators against a
   reference definition over all small inputs.

A run answers one question; where a later module makes a run redundant, the run
is dropped rather than kept beside it.

## 3. The modules

Every variable is a column, a file or a Python attribute, named at its
declaration; every action is a method or one committed statement of a method.
Actions named `Bad...` are faults, never part of a next-state relation: each is
a plausible mistake in the code, used to see that a property would notice it.

### TaskStore and TaskLifecycle

`state, owner, lease, ttl, attempts, verdict, rows` are the columns of a task
(and its evidence rows), `age, capacity` those of a worker; `granted` counts the
claims of a task and is what a fresh `lease_id` is modelled by. `pending[c]` is
what connection `c` holds in Python variables between two SQL statements.

- One action where the method is one transaction (`BEGIN IMMEDIATE`) or one
  guarded statement: `CreateTask`, `RegisterWorker`, `Heartbeat`, `Claim`,
  `Renew`, `Start`, `ReclaimExpired`, `SubmitInvalid`, `SubmitResult`,
  `MarkWaitingCapacity`.
- One action per statement where the method reads, decides and then writes by
  `task_id` alone: `FailRead`/`FailWrite` (`fail_attempt`),
  `ReviewRead`/`ReviewWrite` (`complete_after_review`),
  `StaleSelect`/`StaleRead`/`StaleWrite` (`reconcile_stale_workers`), and
  `ScheduleSelect`/`RouteRead`/`RouteScan`/`RouteWait`/`RouteClaim`/`RouteSkip`
  (`Scheduler.schedule_once` over `route_or_wait` and `claim`).
- `Crash(c)` forgets what a connection carried.

Time is kept relative (`ttl` is what is left of a lease, `age` what passed since
a heartbeat) and saturates where no comparison can see a difference, so `Tick`
needs no bound. A sampled clock lags by `d <= MaxLag`, since methods sample `n`
before they wait for the database.

`TaskLifecycle` is the abstract service: a task is absent, barred, open, held,
in review, done or dead; a grant takes it from open to held and is only possible
when every earlier grant was charged; every end of a held phase is a delivery or
one charge.

### ExternalGateway

Extends `TaskStore`: the gateway process is the client `Gate`, other connections
create, reclaim, reconcile and review. `sess, revoked, challenge, messages,
entered, acked, received` are the `af05_*` tables, `spooled` the outbound spool.
`call` is where the gateway is in the call it serves; each step is one statement
that commits by itself, so a call is check, `RecordMessage`, `AdvanceSession`,
`ApplyAck`/`ApplyResult` (a store operation), `MarkAck`/`MarkResult`, or
`Route`, `SpoolDispatch`, `EnterDispatch`, or `RevokeProfile`, `RevokeSession`.
`Refused` ends a call at any of them, the second `UPDATE` of `revoke`
(`external_gateway.py:157`) included, after which the process lives on with a
revoked profile and an authenticated session; `Restart` is death there plus the
constructor of the next process, which marks every session for
re-authentication. A frame is not sent, it is offered: any frame a worker's key
can sign, with any message id and sequence number, at any time, which includes
loss, delay, repetition and reordering.

### Execution

Extends `TaskStore` with AF-03. `grant` holds the rows of `execution_grants` and
`execution_transactions`, `space` the workspace state, `disk` the files,
`linked` the files whose temporary name still exists. `step[a]` is where a call
of `apply` is: `Consume`, `Check`, then per file `Authorize`, `Write` and, for a
creation, `Unlink`; `Verify`, `Commit`; or `Raise`, `Undo` file by file,
`UndoRaises`, `Condemn`, `Terminalize`. `Expire` and `Commit` compare with a
clock that was sampled earlier (`d`). `cycle` is where `run_once` is:
`Supervisor.reconcile`, whose two loops select, read again and write statement by
statement (`BeginCycle`, `ReconcileStale`, `SelectExpired`, `Reclaim`,
`Reconciled`), then `RecoverRead`/`RecoverBlock`/`RecoverWrite` per grant, then
`Route`. A failure that a worker reports is read in `WorkerAnswers` and written
by `task_id` in `FailureLands`, on whatever the row has become by then, in the
middle of a cycle too. `bound, dispatched` are the sessions and dispatches that the local
gateway keeps in memory; `Crashes` forgets them, every `step` and the cycle.
The cycle and the applies of one service take turns; what happens when they do
not is a note in section 7.

### DirectiveWatcher

`poll_inbox` over a sorted inbox, one step at a time (`pc`): take a file with a
verdict, enqueue, record, acknowledge, move. `queueFile` and `ledgerFile` are
the append-only files: the set of their readable lines, whether an unreadable
line is in them, and whether the last line is still open, in which case the next
append continues it. An open line may be a torn one or (`tail`) a whole record
cut just before its newline, which every reader loads until the next append
makes one unreadable line of both. `spoiled` is history: the records that were
lost that way. `queued` and `consumed` are what the process
remembers; `Boot` reloads both, and raises where the queue has a broken line.
Each outcome of `enqueue_payload` is an action (`EnqueueKnown`, `-Refused`,
`-Verified`, `-Unverified`, `-Unwritten`). `Crash` may leave any beginning of
what was being written. `handled` is a history variable used by `ProcessedOnce`
only.

### Ingestion

`file` is the queue file with `writing` the append under way: its line is first
`Torn`, then whole JSON without a newline (`Cut`), which parses, then the line
(`BeginAppend`, `WriteBody`, `FinishAppend`); the writer may die in between
(`AbandonAppend`) and another append go on behind a cut line (`AppendToCut`).
`rows` and `tasks` are the committed rows; a row keeps the sha of the bytes read,
so one of a cut line differs from the line in the file once it has its newline.
`ing[i]` is the memory of an ingestor: what it read, and where it is. `ReadFile`,
`Compare`, `CountRows` are separate statements; `Bind` is the transaction of one
line, with its two re-checks as `Rewritten` and `Rebound`.
Every way out is an action with the error class the code raises: `CompareFails`
and `BindConflict` (integrity blocked), `Invalid`, `Refuse` and `BindBusy`
(blocked), `ReadBusy` (transient). `RemoveLine` is tampering unless it takes out
a torn line. `Producers` says who writes: `"queue"` is `DurableExecutionQueue`,
`"other"` anything that can write a line with `readback_verified` true.

### ServiceHost

Extends `Ingestion`: a host is an ingestor inside `AutonomyServiceHost.run`.
`lock` is the kernel lock, `health` the row of `af07_service_health`, `host[h]`
the place in `run` and the count of transient failures. `Caught` is the chain of
exception handlers, `StageFails` the other stages of a cycle, the top of the loop
and what follows the cycle raising, `ReportLost` a health write that fails
outside the try block, `CrashHost` a kill that leaves the row and lets the kernel
drop the lock.

### The components with records of their own

The rest of the control plane keeps its state in files or in memory of its own,
or judges what others wrote. `Clock` is the reading of `time.time()` they share,
`FileRecords` the set-of-records view of a JSON file. Each of these modules has
its own `Init`, `Next` and specification and can be checked alone;
`ControlRecords` puts them together: `focus` is chosen at the start and only the
component it names moves. They share no variable but the clock, so a run of
`MCControlRecords`, its instance for TLC, checks each of them and no product of
them; `EachIsItself` (section 6) proves that the composition adds nothing to what
each of them does alone.

- **Killswitch.** `stateFile` is the file, `copy[p]` the instance of process
  `p`, `todo[p]` what is left of the call it executes. `_persist` is two steps
  (`TruncateState`, `Write`), then `AppendEvent`. `Trigger`, `EnterRecovery` and
  `Resume` change memory first. `KillProc` may fall between any two steps;
  `Construct` is `_load`, for which a blank file is a fresh, ARMED one.
- **ControllerLease.** `Check`, `TruncateLease`, `WriteLease` are the read, the
  `open(..., "w")` and the write of `acquire_or_renew_lease`, of any number of
  controllers. `told[c]` is what a controller may believe, `raced` remembers
  whose lease was written beside another's pending write.
- **ObserverEngine.** `Acquire` to `Unlink` are the kernel lock and the pid file,
  whose deletion comes after the unlock; `BeginSweep` to `Publish` one sweep,
  with each state file truncated and then written.
- **Recovery.** `BeginRecovery` is `execute_safe_recovery` up to the checkpoint:
  killswitch, duplicates, classification, retry window. `retries` and the history
  `granted` are sets of attempts, which a time and a number tell apart, so that
  two attempts at one reading of the clock are two. The checkpoint is
  truncated, written and read back in separate steps, while an engine of another
  process may write the same file. `BreakChain` and `Restart` damage the ledger.
- **Approvals.** `held` is the memory of an engine, `approvalsFile` what can be
  read from its file. `Create`, `Turn`, `Expire` change memory, `TruncateAll` and
  `WriteAll` save; `Authorise` checks a record for an executor, `AuthoriseUnseen`
  lets one through that brings no record (`capability_policy.py:306`), and
  `Consume` marks the approval when the work is done.
- **QueueRecords.** `Enqueue` and `Transition` change memory, `Save` replaces the
  file or fails; `waited` counts the executions sent to a human.
- **Authentication.** A check is a call of several Git commands: it samples the
  clock (`Examine` by the watcher, `Revalidate` by the executor,
  `RevalidateBefore` by a caller), then `AskRemote`, then `VerifySignature`, then
  the content and the verdict (`Admit`, `LetThrough`), or `RefuseDirective` at any
  of them. `Push`, `Outage`, `Revoke`, `Delist`, `Lapse` are the world, which moves
  between two commands as well as between two calls. `since` is history: the
  trust conditions that held at some moment since the check began.
- **Certification.** `Derive`, `ReadBase`, `ReadFinal`, `ReadPost` gather what
  `Conclude1C`, `Conclude03`, `Conclude04` judge, while `PublishCommit` moves the
  branch. A read of the head may give UNKNOWN, and a second one that raises
  stands for the first (`failed`). `Answered` hands the verdict to the caller.
- **ProjectStatus.** `ReadGit`, `ReadProcesses`, `ReadFile` observe a project one
  thing at a time; the local head may be unreadable beside a remote that answers,
  and then the `last_commit` of PROJECT_STATE, if any, takes its place
  (`LocalHeads`). `Evaluate` takes any status that the hash order of the set of
  declarations can produce.
- **LocalSessions.** `harness` is the memory of the gateway, `beat` the store.
  `RegisterHarness` and `HarnessBeat` take any session id, sequence number,
  observed time and sampled clock; `RestartGateway` forgets the sessions.
- **ProviderStatus.** `SignStatus` adds a frame to `wire`, from which any frame
  may arrive at any time; `CheckStatus` and `StoreStatus` are the checks before
  the transaction and the transaction of `accept_provider_status`; `Offer` is
  `eligible_sessions`. `Bridge` replaces the AF-05 session of a worker between
  any two of them, and `StartWorker` resets the counter of a worker.

## 4. The runs

States are distinct states found; times are on two workers. The runs of the
task services do not list their type invariants: those are parts of the
inductive invariants that section 6 proves. The types of the others are checked
together as `RecordsTyped`.

| Run | Instance | What it shows |
|---|---|---|
| `store_solo` | 58 306 states, 30 s | One connection at a time: claims and charges balance (`EachLeaseChargedOnce`), claims fit the capacity with a lagging clock, the store implements `TaskLifecycle` (where a grant needs every earlier one charged, so no lease is given over a live one), and leases end. |
| `store_shared` | 2.2 M, 65 s | Two connections interleaved at every statement: what the unguarded writes cannot break (`HumanGate`, `CompletedOnEvidence`, `HeldHasLease`). |
| `external_gateway` | 3.3 M, 90 s | Dispatch rows tell the truth after a crash or a failed statement anywhere; one dispatch per lease; evidence only from the acknowledged holder; no act of a revoked worker, also where only half of the revocation was written, or of a session older than the restart; a live session is not pushed out. |
| `execution` | 512 520, 65 s | Ledger and files agree wherever the process dies; a review has evidence of its own lease, though failures and stale heartbeats are written late; transactions settle. |
| `directive_watcher` | 1.2 M, 130 s | What was accepted is found in the queue, or was lost with an open line that broke it; what the ledger decided stays decided, except on an open line; the inbox drains. |
| `ingestion` | 5.3 M, 120 s | Racing, dying and repeating ingestors make one task per directive, and the rows follow the file, each read before or after its newline. |
| `autonomy_service` | 70 964, 45 s | The health row is that of the live host; its history is monotone; the queue drains. |
| `control_records` | 3.2 M, 195 s | Killswitch: a stop is lifted only for the incident that caused it. Lease: split brain only by a race past the check. Observer: what is published is one whole sweep, the pid never names another. Recovery: one continuation per directive and engine, no retry storm. Approvals: what is executed with a record is executed as approved, spent stays spent. Queue: started once, ended stays. Authentication: what is let through is what was ingested, and each trust condition held since the check began. Certification: a certificate names one head, as far as the head could be read. Status: VERIFIED is unambiguous and contradicted by no known head. Sessions: a worker is only heard forward. Provider: work is offered on the latest word. |
| `store_double_lease`, `watcher_reprocess`, `queue_handover`, `killswitch_restart` | counterexamples | The disagreements of section 7. |

Bounds, and why they are enough for what they are for:

- *Store.* Three tasks in both runs: in the first a task with a retry, one with
  none, one that needs a human; in the second one that governance did not allow
  in place of the latter. One worker of capacity 0 or 1 makes tasks compete.
  `MaxGrants` is budget + 1: one more claim is impossible where attempts are
  charged, and `store_solo` would show it as a failure of `EachLeaseChargedOnce`
  if charges were lost. `LeaseTerm` 2 and `Sla` 1 let a lease outlive its
  worker's heartbeat, `MaxLag` 1 lets every comparison be made with an outdated
  clock; `store_shared` gives up lag for interleaving. Proofs cover all values.
- *Gateway.* Two workers of which one is capable (the other matters as a rival
  for session ids), two messages with sequence numbers to 2 (an acknowledgement
  and a result, in both orders and repeated), two challenges (a session and its
  replacement), one task claimed twice. Sessions, challenges and messages are
  interchangeable, hence symmetric.
- *Execution.* Two plans that undo each other over two files, one of which is
  created and removed, so that every kind of operation, a half-done state and a
  state equal to an earlier one all occur; two grants and two appliers compete
  for one task; the task is claimed twice. The clock does not lag in the run
  (`MaxLag` 0), the proofs are for any lag.
- *Watcher.* Two ids, one of them for a human, and a malformed document, under a
  well-formed and an odd file name; under the odd name only the one for a human
  arrives. Two ids are what it takes for the append of one to destroy the open
  line of the other, and a file delivered again for one to be decided after.
- *Ingestion.* Two ingestors, files of two lines out of four: a directive under
  two bindings, another one verified or not; each may be torn, cut or whole. Two
  lines make every relation between neighbours (duplicate, rebound, blocked
  behind) possible. The two bindings are interchangeable, hence symmetric. A line
  to be refused is not followed in an altered file (`RefusedUnaltered`): it
  changes no row and no task, and ends a cycle there as it does elsewhere.
- *Service.* Two hosts, one permitted transient failure, a cycle count that
  saturates at 1: the count is compared, never added up. Two lines, one of them
  not read-back verified. States of an altered file are not followed
  (`Unaltered`): an alteration is for ever, `QueueDrains` excludes it, and to a
  host such a file is one that blocks its cycle, as a torn line does.
- *Control records.* A clock to 2 with terms, windows and ages of 1 or 2 has a
  moment before, at and after every limit. Two killswitch processes and two
  incidents (a trigger in the middle of a recovery); three controllers (one that
  races, one that is passed over, one that dies); two observers over two
  projects; two recovery engines over one checkpoint; one approval engine that
  crashes under two executors, two requests and two actions; one queue instance
  and two claimants; three commits that differ in key, path and content, with one
  directive file for every check that can fail; heads 3 to 5 so that the branch
  moves before, between and after two reads; two sessions of a worker in both
  gateways, and three status frames (an old word, a new one, and one of a
  restarted worker). Actors that share no file are interchangeable instances of
  the same bounds.

## 5. Fairness and liveness

- `LeasesEnd`: time passes, calls in progress go on, and
  `AutonomyRuntime.run_once` calls `Supervisor.reconcile` in every cycle, which
  gives `ReclaimExpired` strong fairness (between two cycles a lease may be
  renewed or delivered, so the action need not stay enabled). The promise is
  conditional on renewals ceasing: a holder may renew for ever.
- `TransactionsSettle`: calls of `apply` under way go on and the service cycles;
  conditional on crashes and failing cycles ceasing. A creation interrupted
  between `os.link` and `unlink` leaves a file with two links, which every later
  read refuses: the property says so (`linked # {}`) instead of hiding it.
- `InboxDrains`: `main.py` polls in every sweep and a watcher that is down is
  started again; conditional on crashes and failing moves ceasing, and excepting
  a broken queue file, with which the watcher refuses to start.
- `QueueDrains`: whatever stops a host, another one is started (boot trigger,
  restart on failure, or an operator), and a disturbance does not strike every
  time, so the steps of a cycle have strong fairness; conditional on a file that
  is whole, verified and not tampered with, and of which no line was committed
  before it had its newline (section 7).

## 6. The proofs

All theorems hold for every value of the constants that satisfies the named
assumptions of the modules (finite sets of tasks, null values outside their
sets, budgets and terms in Nat, and so on). No theorem assumes bounds on
workers, connections, messages, sessions, ingestors or hosts.

- **TaskStoreProofs** (any number of connections). `SharedInv` is inductive: the
  row invariants plus `CallInv`, which says what an unfinished call may carry.
  That part is needed because a write lands on whatever the row has become since
  the read: what survives is that the task is governed, that evidence rows and
  grants only grow, and that an attempt count is compared with the budget in the
  same statement that stores it. From it: `TypeCorrect`, `UnapprovedNeverRuns`,
  `CompletionHasEvidence`, `LeasedRowsAreWhole`,
  `ClaimsRespectCapacity` (by a cardinality argument, for any lag).
- **TaskStoreSoloProofs** (one connection at a time, `SoleClient`). `SoloInv`
  adds that what a call has read is still so when it writes, that free rows are
  clear, and that charges stay within the budget. From it:
  `LeasesAreAccountedFor`, `NoLeaseOverLease`, and the refinement
  `StoreImplementsLifecycle`, step by step. The two counterexamples of section 7
  show that `SoleClient` cannot be dropped.
- **ExternalGatewayProofs.** `GatewayUsesStore` shows each step of the gateway
  to be a step of the store, so `SharedInv` holds behind the gateway.
  `GatewayInv` then follows a call through its statements (`CallTrue`): between
  the store operation and the mark on the dispatch row, the task is still
  running or delivered, or no longer held as dispatched, whatever other
  connections did. From it: `RowsStayTrue`, `LeaseDispatchedOnce`,
  `ReviewedWorkWasAcked`, and the action properties `TrustGuardsWork` and
  `LiveSessionsStay`.
- **DirectiveWatcherProofs.** `WatcherInv` adds to the properties that a record of
  every accepted directive is found in the queue file or was spoiled, and spoiled
  only together with its line, that a running watcher remembers at least what the
  ledger file says, one decision per id in both, and that the file in hand passed
  the replay check. From it: `AcceptedDirectivesQueued` and `DecisionsFinal`.
- **ServiceHostProofs.** `IngestionInv` adds that only the last line can be torn or
  lack its newline (`FileInv`), that what an ingestor read still stands in the
  untampered file, up to a newline that came since (`Stands`), and that an
  ingestor commits at most one line ahead of the rows. From it:
  `DirectiveHasOneTask`, `CommittedRowsFollow`. `ServiceImplementsIngestion`
  carries both to the service (`ServiceKeepsTasks`). `HostInv` (whoever is out
  of "off" holds the lock, failures stay within the limit) gives `RowOfLiveHost`
  and `HealthOnlyAdvances`.

- **ExecutionProofs** (any number of appliers, grants, files and plans).
  `LedgerInv` is inductive. It says where everybody is: one transaction is under
  way at a time, carried by at most one applier and never beside the runtime
  cycle (`OneTransaction`); how far along its plan each step of `apply` and of
  its undoing has brought the files (`StepsFollowFiles`); and that what recovery
  read is still so when it writes (`CycleFollowsFiles`). `LedgerMatchesDisk`
  alone is not inductive, since it does not say which files are done. It gives
  `LedgerIsTrue`; that a plan names a file once is what lets one operation be
  done or undone without disturbing the others. `ReviewsHaveEvidence` needs two more facts,
  because recovery looks at the state of a task and not at its lease: an open
  transaction that can still be settled has the lease its task has now, and
  nothing is routed before every such transaction has been recovered. A review has
  an evidence row of a worker or an APPLIED grant of its lease. Each step
  is one of a handful of store operations (`StoreSteps`), among them failures and
  stale heartbeats written over whatever the row has become, so governed
  execution keeps the promises of the store's rows (`ExecutionKeepsRows`) and its
  workers' capacity (`ExecutionFitsCapacity`). It does not implement
  `TaskLifecycle`: such a late write can charge a lease twice. That no plan is
  empty is assumed: `canonical_plan` refuses an empty one (`execution.py:252`).
- **ControlRecordProofs** (the components with records of their own). The
  invariants differ from the properties by what files and memories owe each other:
  `KillswitchInv` (a pending recovery, in the file too, is of a cured incident,
  since the next process starts from the file) gives `StopsAreLiftedByCure`;
  `LeaseInv` (while an unraced controller may believe it owns the lease, the file
  is what it wrote and nobody else is past the check) gives `NoSplitWithoutRace`;
  `RecoveryInv` (what continued is in the memory of its engine) gives
  `DirectivesContinueOnce`; `RetryInv` (the attempts granted in the last window
  are among those an engine remembers, which are numbered, so that the new one
  is not among them) gives `RetriesAreBounded` by counting; `ObserverInv` (whoever is past the lock holds it, so
  the files under a sweep are its own) gives `WholeSweepsArePublished` and
  `PidIsTheHolders`; `ApprovalsInv` (every record is of a request, every approved
  one is signed) gives `ExecutionsAreApproved`; `CertificateInv` (the reads of the
  head that succeeded are in the order of the branch, and one that raised repeats
  the first) gives `CertificatesNameOneHead`. Two
  things are assumed by name, that one queue instance is open at a time
  (`SoleQueue`) and one approval engine (`SoleApprover`), and only where needed:
  `EndsAreFinal` (`QueueInv`: a record ended in the file is so in memory),
  `DirectivesStartOnce` (`StartsInv`: while a record, in the file or in memory, can
  still come to EXECUTING, every start was followed by a return to a human) and
  `SpentApprovalsStaySpent` (`SpentInv`: every record of a consumed approval says
  so). A second instance would save its own memory over the file.
  The types of every component are proved without those assumptions
  (`KillswitchTypes` to `CertificationTypes`), from what their shapes depend on:
  who is between a truncation and a write, that an incident was raised before it
  is named, that a call has its payload. `EachIsItself` shows that a
  behaviour of `ControlRecords` is one of each component: whoever does not move
  stutters, or sees the clock advance, which each clocked component allows.
  `RecordsKeepTheirTypes`, `RecordsAreSafeTogether` and
  `SoleOwnersAreSafeTogether` then carry the theorems of the components, those of
  `TrustProofs` too, to the specification that the run checks. `Certification`
  assumes that the branch has a head to start from (`Old <= MaxHead`).
- **TrustProofs.** `SessionsInv` says that what the local gateway remembers of a
  worker is what the store says of it, which makes any later message later for
  both: `WorkersAreHeardForward`. `StatusInv` says that the stored row is the last
  word heard, since the transaction compares the counter again after the checks:
  `OffersFollowLatestWord`. `TrustIsCheckedAgain` follows
  from `TrustInv`: the signer on the queued record is the key of its commit, and
  what a check under way has passed, at the clock it read first, held at some
  moment since it began (`LookIsTrue`). `VerifiedStatusIsTheOnlyOne` needs that a
  status is about what is still seen (`EvaluatedAsSeen`) and that a finite set
  without disagreement has one member.

Only model-checked: all liveness (`LeasesEnd`, `TransactionsSettle`,
`InboxDrains`, `QueueDrains`), since the provers do not do fairness and
enabledness here. Every invariant and every action property of a passing run is
stated by a theorem.

## 7. Where code and promise disagree

1. `store.py:191`: `route_or_wait` writes WAITING_CAPACITY over whatever the row
   has become. Two schedulers: one claims, the other overwrites, and the task is
   leased a second time under a live lease (`NoSecondLease`, run
   `store_double_lease`). `tests/test_autonomy_foundation_01.py:42-45` promises
   one lease.
2. `replay_ledger.py:86`: a failed append is only printed, and the next process
   decides the directive again (`ProcessedOnce`, run `watcher_reprocess`).
   `replay_ledger.py:5`. What does hold is `DecidedStaysDecided`: once the file
   has a decision it is final.
3. `durable_queue.py:160`: the line is serialised while `readback_verified` is
   still False, and ingestion refuses such lines (`QueuedBecomesTask`, run
   `queue_handover`); the test of `tests/test_autonomy_foundation_04.py:87`
   writes its line itself.
4. `watchdog.py:148`: the killswitch file is truncated and then written, and one
   that does not parse is taken for ARMED. Killed in between, a process that was
   TRIGGERED is followed by one that allows execution (`StopSurvivesRestart`, run
   `killswitch_restart`). `watchdog.py:124`. What does hold is `ResumeIsEarned`:
   in a process that lives on, only the cure of the same incident lifts a stop.

Seen while reading, with no run of their own. In the task services:

- `store.py:159`: `reconcile_stale_workers` charges a row that it selected
  earlier, also when another supervisor has handed it back since; two supervisors
  can spend two attempts on one lease
  (`tests/test_autonomy_foundation_01.py:46-49`). `EachLeaseChargedOnce` is
  therefore checked and proved for one connection at a time.
- `runtime.py:99`: the recovery of a cycle takes every APPLYING grant for one that
  a crash left. Beside an `apply` that still runs in another thread, the ledger
  and the files can end up different (`execution.py:157`).
- `store.py:162-166`: `fail_attempt` reads and then writes by `task_id` alone. In
  the service a cycle may reclaim the lease between the two, so that one lease is
  charged twice; the properties of `execution` do not count attempts.
- A task whose lease expires in EVIDENCE_PENDING has no way out: reclaim, fail
  and renew do not accept that state. No document promises one, so `LeasesEnd`
  counts it as an end of the lease.
- `renew` with a clock sampled before the expiry can revive an expired lease;
  it has no caller in the source.
- `durable_queue.py:165-168`, `replay_ledger.py:83-85`: an append that dies just
  before its newline leaves a readable record on an open line. The next process
  acts on it, and its first append continues the line and destroys the record: an
  accepted directive is in no queue then, and a decision can be taken again.
  `AcceptedIsQueued` and `DecidedStaysDecided` make that exception and no other.
- `ingestion.py:110-143`: a read that catches an append before its newline commits
  a sha of the line without it. When the newline has come every later cycle ends
  in QUEUE_REWRITE_OR_REORDER, though nobody touched the file.
- An acknowledged "waiting for a human" may not be in the queue, because the
  human gate swallows the error of `enqueue_payload` (`watcher.py:338`); and the
  commit in the queue and the commit in the ledger may differ after a crash and
  a second delivery.
- A directive queued again under another commit makes every later cycle of
  ingestion end in PROVENANCE_CONFLICT, and a line that is refused holds up all
  lines behind it. An ingestor that is slower than another may take the longer
  rows for a truncated file.
- A locked database inside the transaction of a line becomes a BlockedError
  (`ingestion.py:266`), so the service stops as BLOCKED, where
  `docs/AF07_OPERATOR_RUNBOOK.md:27` lets a busy SQLite enter BACKOFF; and
  `ops/af07-task-template.xml:6` restarts on failure where the runbook says that
  a blocked service is not retried.
- A provider session that returns after another one (s1, s2, s1) has lost its
  place: an older frame of s1 can then overtake a newer one, until the sequence
  passes it; `OfferedOnLatestWord` speaks of the words since the session last
  changed. A worker restarted under its old session id counts from one and is
  refused as a replay until it passes its old counter. A message id has only the
  first 24 characters of the session id.

In the control records:

- Approvals are single-use by the file: two executors can hold one approval
  before either consumes it, since the record is checked by one call
  (`approval_engine.py:386`) and consumed by another, whose refusal E2ERunner does
  not look at. `SpentIsSpent` states what does hold.
  `evaluate_execution_authorization` revalidates an approval only where it is
  handed the record (`capability_policy.py:306`): without one a token is issued
  over approval data whose state, expiry and approver nobody looks at
  (`AuthoriseUnseen`). `ExecutedAsApproved` speaks of executions with a record.
- After a restart a recovery engine has forgotten what it let continue, so the
  replay that `tests/test_recovery_engine.py:238` refuses is authorised by a new
  engine; `ContinuedOnce` speaks of one process.
- Two controllers that both find the lease free both own it
  (`watchdog.py:286`, against `watchdog.py:270`); `SplitOnlyByRace` says that
  nothing else leads there.
- A revalidation is not of one moment: the clock is read first
  (`authenticator.py:178`) and compared at the end (`:324`), the remote head is
  asked once (`:229`). A directive that expires, or is pushed away, while Git
  verifies its signature is let through; `LetThroughStillTrusted` says "since the
  check began".
- The executor revalidates without the path of the file (`executor.py:51`), so
  the blob is looked for under `<directive_id>.json`; a directive that was
  ingested from a file of another name can never be revalidated. A record reloaded from the queue file
  says `readback_verified` false (item 3) and is refused as well. The queued
  payload and the committed blob are related by the stated hash only.
- CONTROL-04 cannot PASS: `is_commit_ancestor` and `get_non_evidence_diff_count`
  (`github_governance_truth.py:1012`, `:1015`, `:1017`) are defined nowhere, so it
  raises NameError or finds the code unreachable, and it wants the review files
  to name another block than CONTROL-03 wants of the same files. Block 1C raises
  KeyError when the first diff fails. Verification data handed in by a caller is
  not compared with the final head, hence the condition in
  `CertificateNamesOneHead`. A second read of the head that raises is replaced by
  the first (`github_governance_truth.py:631`), so that "unchanged" is then
  concluded from one read; the property excepts that case.
- `evaluator.py:256`, `:278`: where `git rev-parse HEAD` fails or times out
  (`git_observer.py:49-51`) and the remote answers, a project is VERIFIED though no
  head was compared, or after a comparison with the `last_commit` of PROJECT_STATE
  (`evaluator.py:122`).
- `governance.py:85-141` takes an answer of `git cat-file` that begins with
  "tree " for the provenance its docstring promises.

## 8. Assumed, abstracted, left out

- *Store*: audit rows, priorities, descriptions and digests of evidence; the
  wall clock does not run backwards; threads that share one SQLite connection
  object are not modelled, several connections are.
- *External gateway*: one gateway process per database. A signature is "a frame
  this worker's key can sign"; canonical bytes, key files and spool file names
  are left out.
- *Execution*: one workspace, which every boot registers again and nobody else
  writes to; digests are the contents themselves; path rules and the identity of
  the directory only refuse.
- *Local gateway*: the resolution of local evidence files and the identity and
  capacity fields of a frame, which only refuse. An identical registration that
  is repeated changes nothing.
- *Watcher*: the authenticator's verdict is a free choice, since it depends on
  Git, the remote and the clock. Destination directories and status counters are
  left out; a delivery goes to a free name.
- *Ingestion*: field formats and the verifier's answer are "accepted",
  "refused" or "not ready"; all ingestors are configured with one path. An
  absent or oversized file and a rebound source path end like a torn line. The
  projection row `runtime_ingest_state`, by which nothing decides, is left out.
- *Service*: loading the configuration only refuses to start; the owner metadata
  file and the clock of `read_status` decide nothing. The stages of a cycle
  other than ingestion succeed or fail here; what they do is in `TaskStore`,
  `Execution` and `ExternalGateway`.
- *Killswitch, controller lease*: the health monitor, a pure verdict over a
  report that nothing in the source makes; the refusal of a directive that asks to
  disarm, which changes nothing; the
  hash chain of the trail.
- *Recovery, approvals, directive queue*: audit chains, notifications and the
  wording of reasons. One approval engine and one directive queue at a time: a
  second instance over the same file keeps its own memory and overwrites the
  other's records, and nothing in the source runs two.
- *Observer*: the health file and the contents of reports; *status*: confidence
  figures and recommended actions.
- *Authentication*: a schema is met or not, a signature verifies or not; what the
  repository contains does not change, only what is reachable, allowed or
  trusted.
- *Certification*: a snapshot is one of the few that its parser tells apart; force
  pushes are blocked, which a certificate requires evidence of.
- *Provider status*: the calls to the provider, result frames, the command line
  and the smoke run are I/O; the sessions of AF-05 are free here.
- *Not modelled*: the schema and signer validators, the capability policy, the
  governance verdict and the reconciler (section 2, item 3); the audit log, report
  generators, scanners and red team, which read and format and keep no state of
  their own.
