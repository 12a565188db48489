# Carpenter: a verification development

Carpenter is an agent platform: a chat conversation or a trigger creates *arcs* (units of work that form
trees), a durable work queue and an asyncio main loop run their handlers, and everything the platform knows is
kept in one SQLite database so that it survives a restart. These modules model the part on which the rest
stands (the queue and its loop, the event log, the timers, the life of a tree of arcs, the notices to a
supervisor) and four services beside it with a protocol of their own: package installs asked for in chat, calls
of a paid provider, the breaker of what they cost, and the turns of a conversation. TLC checks small instances; TLAPS
proves the safety properties for every size.

Paths below are relative to `src/carpenter/`.

## 1. Inventory

### The system

```
 webhooks, tools, timers ──record_event──▶ events ──process_subscriptions──▶ work_queue
                                             │                                  ▲  │ claim
                                             └──process_events + matchers───────┘  ▼
 chat turns, agent tools ──add_child, cancel──▶ arcs ◀──dispatch, freeze, retry── main loop (asyncio)
     │  ▲                                     ▲  │                                 │
     │  └── arc.chat_notify ──────────────────┼──┴─ supervisor_wake                │
     ▼                  startup recovery ─────┴── heartbeat hooks (scan, cron) ◀───┘
 provider (budget, breaker, limiter)
```

One process, one event loop, a pool of threads, one SQLite file.

* **On the event loop**: `run_loop`, the handlers of claimed rows (coroutines, interleaved where they await an
  agent or a thread), heartbeat hooks, the HTTP API, the delivery of messages.
* **On threads**: agents with their calls of the provider and their tools, install batches, and the code they
  execute. They call `enqueue`, `record_event`, `add_child`, `cancel_arc`, `add_once` at any moment.
* **Isolation**: `db_transaction` commits or rolls back one block, but opens SQLite's transaction at the first
  *write*: what a function reads before that is not protected. Most of the hazards below come from this.
* **Recovery**: `_recover_on_startup` (`db.py`) runs before the loop starts and repairs rows and arcs
  separately; components with files of their own (package installs) have passes of their own.

### Components

| Component | State | Operations | Hard behaviour | What makes it correct | Here |
|---|---|---|---|---|---|
| Work queue and main loop (`core/engine/work_queue.py`, `main_loop.py`, `retention.py`, `db.py`) | table `work_queue`; `_in_flight`; restart flags | enqueue, claim, complete, fail, sweep, done-callback, restart, drain, recovery | threads against the loop, callbacks that come late, crash between claim and settlement, reused row ids | accepted work is never lost, never executed twice at once, tried at most `max_retries` times, eventually settled | `WorkQueue`, `JobContract` |
| Event log (`event_bus.py`, `subscriptions.py`) | `events`, `event_matchers` | record, register, two passes, timeouts | events recorded between the passes, one of many actions failing, a crash between passes, timeout against answer | every event is routed once; a wait ends by one item or one timeout; no event closes over the head of a wait | `EventPipeline`, `EventContract` |
| Cron entries and timers (`trigger_manager.py`) | `cron_entries` | add, add_once, remove, enable, check | SELECT and writes apart, budget gate, ids handed out again | the table holds what callers were promised; one-shots fire | `CronTimers` |
| Arcs (`core/arcs/manager.py`, `dispatch_handler.py`, `child_failure_handler.py`, `retry.py`) | `arcs`, `arc_state` | create, add_child, dispatch, freeze, propagate, retry, fail, replan, cancel, scan, recovery | tool threads against handlers, several producers of one dispatch, recovery of half-done arcs | frozen arcs stay frozen, steps run in order, trees close together and do close, no arc is forgotten | `ArcLifecycle` |
| Supervisor arcs (`core/arcs/supervisor_wake_handler.py`) | `_pending_failures` | append, read and clear, dispatch | read and write of the list apart, crash between clear and enqueue, coalesced wakes | no failure is lost or told twice, and each is told | `SupervisorWake` |
| Package installs (`packages/pending_install.py`, `install_*.py`, `api/package_install.py`) | request rows, staged trees | request, approve, reject, expire, batch, compensate, recover | crash between file tree and row, shared packages of two batches | an approved request runs at most once and ends, what was never approved is not installed, staged trees are kept while needed and then reclaimed | `PackageInstall`, `InstallContract` |
| Package installer, update, reload (`packages/installer.py`, `update.py`, ...) | trees on disk, install rows | copy into place, hot reload, uninstall | swaps of directories, partial failure | directory and row agree | `PackageInstall` (in part) |
| API circuit breaker, rate limiter (`agent/circuit_breaker.py`, `rate_limiter.py`, `providers/anthropic.py`) | state and failures of a provider; windows of a model | allow, acquire, record, update from headers | late answers, several threads in retry loops, an estimate that feeds itself | limits kept, a failing provider left alone, nobody locked out, the breaker closes again | `ApiCalls` |
| Budget (`core/budget.py`, `cli_budget.py`) | latches and overrides in `budget_state`, a summary in memory | guard, evaluate, status, resume, override, enable | a summary that is out of date, latches cleared from two processes, overrides that overwrite each other | what is spent stays near the limit; the summary says what the latches say; work goes on when nothing blocks it | `Budget` |
| Agent invocation (`agent/invocation.py`) | a history in memory | tool loop, compaction | rows of several turns interleaved, a turn that ends inside a round of tools | what goes to the provider is well formed | `ChatTurns` (in part) |
| Conversations and channels (`agent/conversation.py`, `channels/*`, `core/workflows/arc_notify_handler.py`) | messages, the tracker | deliver, notify, format, roll over | a message during a turn or between tool_use and tool_result | every message is known to later turns and answered | `ChatTurns` (in part) |
| Root failures, model fallback, counters (`core/arcs/*`) | `arc_state`, statistics | one handler per arc end | repeated delivery | one report per failure | - |
| Judges and verification (`core/workflows/review_manager.py`, `core/arcs/verification.py`) | verdict rows, integrity level | submit verdict, promote, reject | crash between verdict and effect | no promotion without approval, each verdict takes effect | - |
| Coding, merge and platform workflows (`core/workflows/*`, `agent/coding_*.py`) | arcs, workspaces, git | long handlers | a step fails in the middle | resumable | - |
| Templates (`core/engine/template_*.py`) | templates | expand | - | expands to the declared tree | - |
| Retention and backup | files, old rows | delete, copy | deletes what is still used | - | - |
| Trigger kinds and webhooks (`core/engine/triggers/*`, `api/webhooks.py`) | `trigger_state` | start, stop, check | threshold counted over timestamps | fires once per threshold | - |
| Database layer, migrations; coordinator, server | connections; start-up order | start, stop | - | recovery before the loop | - |
| Models: health, selection, speed | scores | record, select | - | an allowed model only | - |
| Notifications | batch buffer, timer | notify, flush | crash, timer reset | delivered | - |
| Resources | `resources`, files | derive, pin, sweep | pin against sweep | pinned files stay | - |
| Trust, encryption, security policy | tables | join, decide | - | lattice laws | - |
| Review pipeline, verification of code (`review/*`, `verify/*`) | none | analyse | - | - | - |
| Restricted executor (`executor/restricted.py`) | worker thread, two queues | request, dispatch, time out | timeout against a blocked worker | the worker ends | - |
| Tools, HTTP API, knowledge base, forges, configuration | - | thin or textual | - | - | - |

`PROJECT.json` lists them all, with their files, the reason where a part is not modelled, and the 40 hazards that
properties cover, each at its line. Section 7 names the hazards nothing covers yet.

## 2. Plan

Done, in this order: `WorkQueue` with `JobContract`, `EventPipeline` with `EventContract`, `CronTimers`, `ArcLifecycle`,
`PackageInstall` with `InstallContract`, `SupervisorWake`, `ApiCalls`, `ChatTurns`, `Budget`, the last four checked together through `Services`; a proof module for
each (`ServicesProofs` carries the ones of `SupervisorWake` and `ApiCalls` over and holds those of `ChatTurns` and `Budget`).

Next, in order:

1. `ReviewVerdict`: verdict, promotion, rejection; replaces the free choice of `rejected` in `ArcLifecycle`.
2. `CounterTrigger`: counting over `created_at > last_fired_at`, feeding `EventPipeline`.
3. `Notifications`: the batch in memory, its timer, a crash.
4. Roll-over of conversations, as an extension of `ChatTurns` by a second conversation.
5. `ResourceSweep`, the restricted executor, merge-resolution; the integrity lattice as operators against a
   reference.
6. `PackageUpdate`: update, reconcile and hot reload over one install row.
7. A contract for the tree of arcs, as its planner sees it, like those of the queue, the events and the installs.

Runs: one passing run per module with its safety properties on the largest instance that stays within a few
minutes, with fairness and liveness in the same run where the instance allows it.

## 3. The modules and the code

Every action is one database transaction or one stretch of the loop without an `await`. Definitions keep the
source's names where they can; `PROJECT.json`'s `map` gives the lines of each. Operators whose name ends in `Slip`
are plausible mistakes; each, put in place of the definition it belongs to, breaks a property.

### WorkQueue

| Model | Code |
|---|---|
| `queue[i]` | row `i` of `work_queue`: status, idempotency key, `retry_count`, `max_retries`, priority; `delayed` is `scheduled_at` in the future |
| `in_flight`, `tasks`, `popping` | keys of `_in_flight`; the tasks that run; those whose `_done_callback` is scheduled |
| `proc`, `restart` | process up, draining, down; `_restart_pending` and its mode |
| `Enqueue` | `enqueue`: delete finished rows of the key, `INSERT OR IGNORE` |
| `Claim` | one turn of `_dispatch_work_items`: slot check, `claim`, `create_task`, `_in_flight[id]` |
| `HandlerReturns`, `HandlerRaises`, `SettlementLost` | `_run_handler`: `complete`; `fail`; the write of `fail` raises as well and the row keeps its claim |
| `DoneCallback` | pops the row id, whichever task it stands for |
| `SweepFinished` | retention of finished rows |
| `OpportunisticRestart`, `Shutdown`, `DrainTimeout`, `Exit`, `Crash`, `Recover` | `_check_restart`, the shutdown event, the drain with its cancel, the process's end, `_recover_on_startup` |

Row ids are given out as SQLite does without AUTOINCREMENT: largest plus one, so a deleted last id returns.
`orphaned` (claims without a task) and `recycled` (a row was claimed again before the callback of its former task
ran) are history variables that name the two known exceptions. Since `fail` puts the row back to pending with no
delay, `recycled` is reached in normal operation. (The module docstring of `work_queue.py` speaks of a back-off;
there is none in the code.)

`JobContract` is the queue as producers see it: accepted, open with some attempts left, done or dead, forgotten.
`WorkQueue!Contract` maps each row to a job; claims, restarts and recovery are stutters.

### EventPipeline

`pc` walks through `run_loop`: SELECT for subscriptions, their actions in one transaction, a second SELECT,
matching, timeouts. `RecordEvent` and `RegisterMatcher` come from threads between any two of them. Types and
payloads are members of a small set, filters are relations over it. `late` names the events recorded between the two
SELECTs, `broken` the actions that raised (an action's exception is logged and the event is processed nevertheless).
`process_events` is three steps: the SELECT of the batch, `LookUp` of the matchers of its first event, when nothing has been
written and no transaction is open (`event_bus.py:110`), and `Match`, which writes and reads the matchers of the later events
under the write lock. `fresh` names the registrations that commit between the last two: the first event of the batch is
closed without them.

`EventContract` is the pipeline as waiting arcs see it: an event is published, stays open, and is settled once; whoever
waits for it when the pass looks waits up is called, by one call of its own, and whoever comes after that may still be called; a wait that lapses publishes an event and is never
called; subscriptions are told of open events. `EventPipeline!Contract` takes a registration's fate from `wait` and the
calls and tellings from the keys in `work_queue`; the passes, the batch, the matchers' rows and a crash are stutters.
`RunActions` is `Tell`, `LookUp` fixes who must be called, `Match` is `Settle`, `Expire` is `Lapse`. Which events a subscription may miss is not the contract's
matter but `MissedOnlyLate`'s. An arc that registers after its event was settled waits for the next one, here as in the code.

### CronTimers

`CheckCron` is `check_cron` up to its SELECT, `Fire` its transaction. The writes go by id and use the kind that
was read. `owed` is what each name's last caller has been promised; `raced` and `repeated` are the exceptions, and
last until the name is scheduled again or removed: a name (re)scheduled while the SELECT's result was held is
overwritten or deleted (`trigger_manager.py:273`), and a name that gets an id back and asks for an instant already
emitted has its event ignored as a duplicate. An expression of cron is taken to fire at each instant.

### ArcLifecycle

| Model | Code |
|---|---|
| `Dispatch`, `SkipFrozen`, `AgentReturns` | `handle_arc_dispatch` up to and after the agent |
| `Decide`, `FreezeSelf`, `FreezeParent` | `freeze_arc`: reads, then the guarded write; `_propagate_completion`, which looks at one parent and no further |
| `Raises`, `Retry`, `Fail`, `FailRaises` | the `except` branch: retry with a row of its own key, failure with the parent's notice, an illegal transition that raises again |
| `Replan`, `MarkFailed`, `ReplanEnds` | `handle_child_failed` under the policy `replan`, and the one status the agent may set |
| `Scan` | the heartbeat's `scan_for_ready_arcs` |
| `AddChildReads/Inserts/Enqueues`, `CancelReads/Writes` | tool calls on threads, split where their reads are outside the write lock |
| `Create`, `CreateBatch` | `arc.create` and `arc.create_batch` (`tool_backends/arc.py`) under a parent: one transaction that asks nothing of the parent's status, with `step_order` 0, or the caller's orders; the scan starts the children |
| `Restart` | a crash at any point with `_recover_on_startup` |

Five history variables name what the properties except, each a behaviour of the code: `overwritten` (`cancel_arc`
writes by id on a status it read before the lock, `manager.py:774`), `strays` (a child inserted under a parent that
froze meanwhile, `manager.py:429`, or, by `create_arc`, had frozen before), `twins` (a child inserted beside or before its
siblings in `step_order`), `late` (`add_child` enqueues a child
that has already started), `backoff` (waiting for a retry rather than for children). Because `create_arc` writes a
`_retry_count` of 0, recovery also resets planners that only wait for their children (`db.py:225`).

Left out: model escalation (the status `escalated` is in the tables and never reached), activation events and
`wait_until`, degraded connectivity, handlers of judge, coding and template arcs, the policies other than `replan`,
the budget gate of the scan, status changes by tool (`arc.update_status`) other than marking a re-invoked parent failed, further
roots by `arc.create` (each is a tree of its own). `Adopters` are the arcs under which `Create` and `CreateBatch` insert, a bound. Also left out: two waiting retries of one arc (only
after a crash between the new row and the end of the old). Supervisors have a module of their own.

### SupervisorWake

| Model | Code |
|---|---|
| `child[c]` | a child, and how far the thread that failed it is in `_notify_supervisor_parent` |
| `list`, `snap`, `got` | `_pending_failures` in `arc_state`; the copy a notifying thread has read; the copy of the wake's handler |
| `NoticeFinds`, `NoticeReads`, `NoticeSkipped`, `NoticeAppends`, `NoticeEnqueues`, `NoticeFails` | the status of the supervisor; the list; the write of the longer list; the wake under `supervisor_wake:<id>` (`manager.py:955-1080`) |
| `ClaimWake`, `WakeSkips`, `WakeReads`, `WakeClears`, `WakeDispatches`, `WakeRaises` | `handle_supervisor_wake`: read, clear in one transaction, enqueue after it |
| `RunAgent`, `SkipDispatch`, `AgentReturns`, `AgentRaises` | the dispatch with the records in its payload, and its retry without them (`dispatch_handler.py:1421`) |
| `Crash`, `Recover` | the end of the process and `_recover_on_startup` |

`excused` collects the records that one of the windows has touched: a read and a write of the list that overlap
another's, a crash or an exception between clearing and dispatching, a supervisor that was not waiting, a record
appended after the list was cleared and before the wake's row was completed. Everything else is claimed to be told,
once. The docstring (`manager.py:1000`) says that "no records are lost between the append and the dispatch": the
windows are where the code does not keep that.

### ApiCalls

| Model | Code |
|---|---|
| `state`, `failures`, `cooled` | `CircuitBreaker`: state, count, and whether `recovery_timeout` has passed |
| `window`, `tokens`, `estimate`, `rate` | the requests and tokens in the limiter's windows, `next_estimate`; the limits in force, of which 0 is none |
| `served`, `healthy` | the provider: requests of this minute, whether it answers |
| `call[c]` | a thread in the loop of attempts of `anthropic.call`, and what the header of its answer says |
| `Check`, `Peek` | `allow_request`, by a call and by `chain.get_model`, which sends nothing |
| `Acquire`, `AcquireTimesOut` | `acquire`: room in both windows, or its deadline |
| `Receive`, `Succeed`, `Fail`, `Refuse`, `Reject` | the request on its way, 200, 5xx and timeouts, 429, other 4xx: with `record_success`, `record_failure`, `record`, `update_from_headers`, `record_429` |
| `Tick`, `Cool`, `Turn` | a minute, the recovery time, the provider's health |

`Inputs` are any natural numbers, above the limit of tokens as well, and each answer may bring other limits (`Headers`).
`largest` is the largest input of a call so far, `peak` the highest limit of the minute. After a 429 the windows are filled to three
quarters. The sliding window is a fixed minute on both sides. `blind` says that the window has lost sight of a request: an answer
older than other requests has cut it to its own count (`rate_limiter.py:220`), or a request admitted in one minute was
received in the next. `after` counts what a failing provider receives once the breaker has opened.

### Budget

| Model | Code |
|---|---|
| `spent` | the calls of the window in `api_calls`; each counts for one |
| `latched`, `overrides`, `enabled` | rows of `budget_state`: `restrict` and `shutdown`, `threshold_overrides`, `enabled_override` |
| `cache`, `fresh` | `_cached_summary`, and that it is younger than `eval_interval_seconds` |
| `step`, `found`, `held` | where each thread, the heartbeat and each operator is; what its evaluation has found; the overrides it has read |
| `Guard`, `Record`, `CallFails` | `guard_paid_call`, and the row of `_save_api_call` once the call is answered |
| `LoopAsks` | `autonomous_allowed` |
| `UseSummary`, `Measure`, `EvaluationRaises`, `Publish` | `_evaluate`: the summary is young; the measures, before the first write; an exception; the summary published after the notices |
| `LatchActive`, `Latch`, `ReadRestrict`, `ReadShutdown` | `_latch` finds its latch active and writes nothing; it writes, and both latches are read in its transaction; nothing was written, and they are read one by one outside of any transaction |
| `StatusBegins`, `ResumeBegins`, `ResumeGoesOn`, `OverrideReads`, `OverrideWrites`, `SetEnabled`, `DropSummary` | the commands, in chat or from a shell |
| `Revert`, `IntervalEnds`, `Drain`, `Restart` | an override expires; the summary gets old; the window empties; the server starts again |

A shell (`cli_budget.py`) is a process of its own: it shares the tables and neither the lock nor the summary. `begun` counts
the calls begun on one summary (as many as fit into `eval_interval_seconds`) and those let through because a resume fell between
`LatchActive` and the reads (`budget.py:268`, 335-336), `ceiling` is the highest shutdown
threshold of the window, and `freed` and `foreign` name the exceptions: a call begun with the breaker off, latches that a
shell has changed and the server has not read since. Warnings and notices are left out; one limit of each kind.

### ChatTurns

| Model | Code |
|---|---|
| `context` | the rows of `messages` as `format_messages_for_api` hands them out. It folds the rows from the left and rows are only added, so the model keeps the folded history |
| `Merge` | one step of `_merge_consecutive_roles`, its case of text before a list of blocks included (`conversation.py:726-733`) |
| `turn[t]` | an invocation: `start`, `calling` the provider, at a `tool`, `finish`; its history in memory |
| `tracked`, `Freed` | `InvocationTracker`: at most one turn *of the user* per conversation; the done-callback |
| `Deliver` | `deliver_inbound`: the row is saved, a turn begins unless one is tracked |
| `ArcEnds`, `Notify` | `arc.chat_notify` and its handler, whose turn nobody tracks |
| `Read`, `Compact`, `CallTools`, `ToolsReturn`, `ToolsEnd`, `CallReplies`, `CallFails` | `invoke_for_chat`: each row it saves is a step of its own |
| `Raises`, `Crash`, `Start` | an exception anywhere in a turn; the end of the process; the next start |

A message is a role, whether its content is a list of blocks, whose tools those are, and the messages of the user it
holds. `WellFormed` is what the provider accepts. A turn that meets a malformed history gets an error.
`clear`, `torn`, `muffled` and `passed` name the exceptions: a history read while another turn ran its tools or after it
had replied, a tool_use row that somebody else's row or the end of its turn cut from its result, a message saved
between tool_use and tool_result, a message whose turn failed or that came while one was in flight.

### PackageInstall

| Model | Code |
|---|---|
| `status`, `late`, `tree` | the request row, past its TTL or grace, its staged tree and age |
| `CreateRequest`, `InsertRequest`, `CreateFails` | a tool call: count the open requests, fetch, insert |
| `Approve`, `Reject`, `ExpireLazily` (and the `CrashIn...`) | the routes of the approval page; what one transaction commits before the next is one half each |
| `Sweep`, `SweepFails`, `CrashInSweep` | the hourly passes: expire, drop stale approvals, remove orphans, enqueue again |
| `ClaimItem`, `DropItem`, `StartBatch`, `StartRaises`, `Settle`, `SettleRaises`, `HandlerEnds` | the handler of the approval around its await |
| `Verify`, `BeginItem`, `Swap`, `Record`, `ItemFails`, `Compensate` | the batch on a thread: staged trees that are missing, do not hash as approved or cannot be read are refused; per package the swap of directories and then the row; compensation uninstalls what the batch had installed first |
| `BatchRaises` | the batch raises outside the install of a package: the handler marks the request failed and nothing is undone (`install_approved_handler.py:214`) |
| `Crash`, `CrashInSwap`, `Recover` | the end of the process at any point; start-up passes |

`crowd`, `shared`, `amiss` and `stuck` name the exceptions. The staged bytes and the preview are data. The hourly limit of requests
and the refusal of a source rejected in the last 48 hours (`install_requests.py`) are left out: they refuse more, and nothing else
depends on them.

`InstallContract` is what the operator is promised who approves a request: only an approved one changes what is recorded as
installed, it runs at most once however often its item is handed out, it takes back nothing that it has not recorded,
and it ends as installed only with all of its packages recorded and no compensation begun. `PackageInstall!Contract` maps the
statuses to phases, a batch's stage to its run and the packages before the one in work to what it has recorded; tokens,
trees, sweeps, items and directories are stutters. Compensation may remove a package that another request has recorded since
(`package_upgrade` shows it); the contract says so by naming only what the batch did.

### Services

`SupervisorWake`, `ApiCalls`, `ChatTurns` and `Budget` are modelled without a variable in common (a call that the budget
refuses is one that `ApiCalls` does not begin). `Services` is their sum: a `topic` is chosen first and
only that component moves. A state of the product would add nothing (no property relates two of them), and the sum
has the sum of their states. `FairSpec` asks for the fairness of the component that is the topic, and for
nothing of the others.

## 4. Runs

| Run | Instance | Shows |
|---|---|---|
| `queue_safety` | 3 rows, 1 key, 2 attempts, 2 slots | a claim has one owner; `_in_flight` exact unless recycled; handlers bounded |
| `queue_contract` | 2 rows, budgets 1 and 2, 2 priorities, fair | refinement of `JobContract`; the most urgent rows are settled |
| `events_pipeline` | 4 events, 2 waits, one with a timeout, fair | only late or broken events are missed; matchers are one-shot; refinement of `EventContract`; events are processed; waits end |
| `cron_timers` | 2 names, 2 instants, 2 ids, fair | the table holds what callers were promised; enabled one-shots fire |
| `arcs_planning` | planner with a step, a third arc to add or create under the root, 2 threads | frozen arcs, order of steps, trees that close together, no arc is forgotten |
| `arcs_restart` | planner with a step, a third arc created at any time under the root or the step, a retry, a restart, fair | no arc is forgotten, one run per arc, the root finishes |
| `arcs_recovery` | planner with a step, a restart | **violated**: recovery resets a planner that waits for its children |
| `arcs_nested` | three levels, fair | **violated**: the root waits for ever |
| `package_installs` | 2 requests for the same 2 packages in opposite orders, limit 1, 1 stop, fair | installs are attended, live requests keep their trees, directory and row agree, open requests within the limit, refinement of `InstallContract`, approvals end, trees are reclaimed |
| `package_upgrade` | the same, limit 2, no stop | **violated**: a compensation removes what another request installed |
| `services` | supervisor: 2 children, 1 stop; API: 2 threads, 2 attempts, threshold 2, limits of 3 or 2 requests and 4 or 1 tokens, inputs of 3; chat: 2 messages, 1 arc, 1 round of tools, compaction beyond 2, 1 mishap; budget: 1 thread, the heartbeat, an operator in chat and one in a shell, 2 commands or mishaps, limits reached at once; fair | records are kept, awaited and told; limits hold, the breaker trips and recovers; histories are well formed, messages attended, remembered and heard; spending is bounded, the summary agrees, work is released |
| `chat_context` | the chat of `services` | **violated**: a message of the user drops out of the conversation |

The properties by name, each preceded in its module by a comment that states it:

| Run | Properties |
|---|---|
| `queue_safety` | `ClaimsOwned`, `TrackedUnlessRecycled`, `HandlersBounded` |
| `queue_contract` | `KeepsContract`, `EventuallySettled` |
| `events_pipeline` | `MissedOnlyLate`, `MatchersOneShot`, `KeepsContract`, `EventuallyProcessed`, `WaitsEnd` |
| `cron_timers` | `TimersKeptUnlessRaced`, `OneShotsFire` |
| `arcs_planning` | `TreesCloseTogether`, `FrozenUnlessOverwritten`, `StepsInOrder`, `NoArcForgotten` |
| `arcs_restart` | `NoArcForgotten`, `OneRunPerArc`, `RootFinishes` |
| `arcs_recovery` | `RecoveryKeepsHolds` |
| `arcs_nested` | `HoldsEnd` |
| `package_installs` | `InstallsAttended`, `TreesKept`, `DirectoryMatchesRow`, `OpenWithinLimit`, `KeepsContract`, `ApprovedEnds`, `TreesReclaimed` |
| `package_upgrade` | `InstalledStays` |
| `chat_context` | `UserMessagesKept` |
| `services` | `RecordsKept`, `WakeComing`, `WithinLimit`, `FewAfterTrip`, `EmptyWindowAdmits`, `ContextsWellFormed`, `Attended`, `SpendBounded`, `SummaryAgrees`, `FailuresHeard`, `Recovers`, `Remembered`, `Heard`, `Released` |

### Bounds, and why they are enough

* Queue: the races need a row, the row that took its id or key, and a second claim. Three rows and two slots give
  all of them, one key suffices because keys never interact, two attempts have a first, a retry and a last.
* Events: one event on either side of each SELECT and one timeout event are three; the fourth lets a matcher's id
  be used again. The bound on recorded events is why `WaitsEnd` ends in "or the bound is reached".
* Cron: two names and two ids are needed for an id to go from one name to the other, and for two rows to be due in
  one pass; two instants for *due* and *not yet due*.
* Arcs: three arcs are a parent with two siblings or a chain of three; two threads are two conflicting tool calls.
  The two instances trade threads for retries and restarts. With a retry and a restart, every recovery case of an arc
  (active, waiting for children, waiting for a retry) comes up.
* Packages: two requests in opposite orders let each batch find the other's package before and after its own. One
  stop suffices: recovery leaves no state that a second stop could meet in another way.
* Supervisor: two children are the two threads that read before either writes; one stop falls into each window.
* API: two threads are one that trips the breaker and one in the middle of its loop, or an answer that is older than
  another request; the limit of 3 lies above the number of threads, 3 tokens of 4 make the estimate matter, and two pairs of
  limits let a header lower a limit below what is counted and raise it again.
* Chat: a turn of the user, one of an arc and a second message are every pair of turns that may overlap; with
  `Preserve` = 2 a history of one round of tools is already compacted, so the cut falls between pairs and in front
  of one. `Preserve` is even, as the default of 8: see section 5.

* Budget: with limits of one call every evaluation finds one reached; two calls show one more than the limit allows. Two
  commands are one against an evaluation, two operators, or a command and a restart; an operator outside the
  server's process is one that cannot drop its summary. One call on a summary is one that nothing measures.

The passing runs have between 169,000 and 1,327,000 distinct states (`arcs_planning` 1,327,001; `services` 831,939;
`arcs_restart` 709,013; `queue_safety` 583,148; `events_pipeline` 301,665; `cron_timers` 281,066; `package_installs` 248,206;
`queue_contract` 169,431) and each ends within three minutes on two workers. The proofs remove these bounds for the safety
properties.

Deadlock checking is off for the arcs, for `Services` and for the violated runs only: with all arcs
ended, all messages answered and restarts used up there is nothing left to do. Everywhere else some process can
always take a step.

### Fairness

The loop wakes at the latest every `heartbeat_seconds`, so claims, the passes of the pipeline, `check_cron`, the sweeps and
the steps of a dispatch are weakly fair while the process is up. Handlers and agents are assumed to come back
(each call has a timeout), a callback that is scheduled runs, a tool call or a batch that has begun goes on, time
passes, a stopped process is started again. Crashes, restarts, exceptions, messages, requests and tool calls have no
fairness: nothing has to happen. `Begin` of an API call does, because `Recovers` is a promise to callers that keep
coming, and `LoopAsks`, because the heartbeat does. Where it is enough
that one of several threads goes on (evaluations of the budget, attempts of calls, turns of a conversation), one
weak fairness over all their steps is assumed, which is less than one for each. `SF` is used twice: for a matcher's
timeout, whose stage comes and goes with every turn of the loop, and for `Succeed`: a provider that is healthy does
not refuse every request for ever. Liveness of the queue is stated for the most urgent priority: the claim takes rows in
order of priority, and a steady producer starves the others.

## 5. Findings

Each of these four is a run in which TLC finds the counterexample.

* `arcs_recovery` (`db.py:226`): recovery takes a `_retry_count` row in `arc_state` for the mark of an outstanding retry, but
  `create_arc` gives every arc one, with the value 0. After each restart, planners that wait for their children are reset and
  dispatched again, which the comment above the query (`db.py:219`) and `tests/test_startup_recovery.py:184` rule out; the test
  inserts its arc without `create_arc`. `RootFinishes` shows that the tree is completed nevertheless.
* `arcs_nested` (`dispatch_handler.py:1149`): completion is propagated one level. In a tree of three levels the root stays
  waiting although all its children are frozen; the docstring (line 1135) promises the contrary.
* `package_upgrade` (`packages/install_batch.py:588`): a failing batch uninstalls by name what it had installed first, also when
  another batch has upgraded it since. The docstring (line 581): "An **upgrade** is never rolled back".
* `chat_context` (`agent/conversation.py:733`): text in front of a list of blocks of the same role is replaced by the list. The
  docstring (line 704) says it is prepended; the comment in the branch (line 726) says it is dropped, and argues from system
  notifications alone. A message that a user sends while tools run drops out of every later context, also of the turn it
  starts itself.

Disagreements that the modules contain, without a run of their own. For the first five the property is still in its
module, and TLC refutes it when it is put into a configuration:

* `WorkQueue!RestartsOnlyWhenIdle` (`main_loop.py:138`): the callback pops a row id that may stand for a second task by then; the
  loop counts a running handler as none and an opportunistic restart kills it.
* `EventPipeline!SubscriptionsSeeEveryEvent` (`subscriptions.py:612`): an event recorded between the two SELECTs is marked
  processed unseen; the docstring (line 590) says subscriptions look at all events *they* have not processed.
* `ArcLifecycle!RejectedStepsBlock` (`dispatch_handler.py:1330`): `_enqueue_ready_children` holds a step back when a preceding one with
  `_required_pass` has a verdict other than "pass"; the heartbeat's scan does not look at verdicts and dispatches the step a few
  seconds later. The docstring (line 1163): "If the verdict is not "pass", the child is blocked". (A seed of two steps, `RequiredPass`
  the first.)
* `ApiCalls!SlotWhenEmpty` (`agent/rate_limiter.py:288`): the estimate must fit below the limit of tokens, and only an answer changes it.
  Calls of more input than the limit lift it above, or a header lowers the limit below it; then no call of that model is
  admitted until the process ends, however empty the windows. The docstring (line 246): "Block until a request slot is available
  within both RPM and ITPM windows". `OnlyLargeCallsLockOut` proves that nothing else locks calls out. (`Stingy` is such a header.)
* `ArcLifecycle!AlternativesStart` (`manager.py:860`): the alternative child comes behind the failed one, which never counts as done.
* `manager.py:980`: a parent whose children end with one cancelled and none failed stays waiting.
* `manager.py:1000`: "no records are lost between the append and the dispatch", against reads and writes of the list that overlap and a
  crash between clearing and enqueueing (`excused` in `SupervisorWake`).
* `agent/circuit_breaker.py:10` and the design document (line 320) speak of one probe request when half open; `allow_request` (lines
  63-64) admits all callers. `TripHolds` is the bound that does hold: one request per thread.
* `event_bus.py:89-92`: the steps of `process_events` are documented as one pass over the unprocessed events; a registration that commits
  between the read of the matchers and the first write is left armed while the event it should meet is closed (`fresh`).
* `budget.py:268`: an evaluation that finds its latch active holds no transaction, and a resume that commits before the latches are read
  lets through a call although the measure was over the threshold (`Pardoned`).
* `tool_backends/arc.py:22`: `arc.create` and `arc.create_batch` insert children under frozen parents, which `add_child` refuses (`strays`).
* `channels/channel.py:19`: "Ensures only one AI invocation runs per conversation at a time", but the turns of `arc.chat_notify` are not
  tracked. A crash or an exception between tool_use and tool_result leaves a history that the provider refuses from then on (`torn`).
* `agent/invocation.py:3013`: the forced final summary appends a second message of the user to the history in memory.
* `tool_backends/config_tool.py:45`: `compaction_preserve_recent` can be set to any number; an odd one cuts a tool_use from its result or puts two
  messages of the user in a row. `ContextsWellFormed` is proved for even ones.
* `packages/install_batch.py:294`: "every package of an approved request, or none of them", against the directory of a package whose install raises after the swap.
* `agent/coding_agent.py:495` and `:539` acquire and record a call a second time.

## 6. Proofs

All safety properties of the passing runs, the refinements among them, and the type invariants of all modules are theorems, for
every value of the constants that satisfies the assumptions named beside their declarations. Those say that bounds are natural numbers and
sets of waits and requests finite, and: a queue budget is at least 1 and `NoKey` no key (`WorkQueue`); the seed of a
plan is a forest in order of creation (`SeedAssumption`); each request names at least one package (`OrderAssumption`); for the chat,
`Preserve` is even, arcs are no messages and `Nobody` is neither (`ChatTurns!Parameters`); for the budget, thresholds are positive, threads
finitely many and neither operators nor the loop (`Budget!Parameters`). For the calls, the headers'
limits are natural numbers (`ApiCalls!Parameters`); inputs are unbounded.

The type invariants are proved and in no run: they hold for every size, and the runs are kept for what could be wrong. `PackageInstall!NothingUnapproved` is likewise a theorem alone; `InstallContract` implies it
of what is recorded, the theorem states it of the directories as well.

Each proof has the same shape: none of the properties is inductive alone; a strengthening `IInv` (or a family of them, proved
one above the other) holds initially and is kept by every action, one step per action and one below it per conjunct it
disturbs; the property follows.

| Module | Theorems | What the strengthening adds, and why |
|---|---|---|
| `WorkQueueProofs` | `QueueTyped`, `ClaimsAlwaysOwned`, `AttemptsBounded`, `TasksTracked`, `HandlersBoundedAlways`, `QueueKeepsContract` | a process that is down has left nothing behind (`DownIsEmpty`); the id a callback pops belongs to no running task unless recycled (`Disjoint`); the guard of the claim as a state predicate (`SlotsBounded`) |
| `EventPipelineProofs` | `PipelineTyped`, `OnlyLateEventsMissed`, `OneShot`, `PipelineKeepsContract` | what the loop holds in its hands agrees with the table at each `pc` (`PassesAgree`, `MatchersAgree`); a fired matcher is gone (`FiredOnce`) |
| `CronTimersProofs` | `TimersTyped`, `TimersKept` | one row per name and per id (`Shape`, `Single`, `IdsApart`); no due time has been skipped (`NoneAhead`); the SELECT's copy is still true of the rows that nobody touched (`CopyTrue`); an emitted instant is among those told (`Told`) |
| `ArcLifecycleProofs` | `ArcsTyped`, `FrozenStays`, `OrderKept`, `TreesClose`, `OneRun`, `NoneForgotten` | what a tool thread has read and what remains of it (`Calls`); order of rows and of whoever will be dispatched (`Ordered`); what the freezing handler has decided (`Decided`); which handlers may exist beside a retry (`RunInv`); that a verdict is still right when it is written (`Judged`) |
| `PackageInstallProofs` | `RequestsTyped`, `RowsMoveForward`, `LiveTreesKept`, `LimitHeld`, `DirectoriesMatch`, `NoInstallAbandoned`, `OnlyApprovedInstalls`, `InstallKeepsContract` | where the thread of a batch stands against its row (`RInv`); each open request stands for a place that its caller counted (`Reserved`); what a batch in progress holds of a directory (`Held`, `Agree`); that what it remembers as fresh is what it has recorded (`Placed`) |
| `SupervisorWakeProofs` | `WakeTyped`, `NoRecordLostOrDoubled`, `ListNotForgotten` | a copy of the list that is no longer true has excused its records (`Core`); a stopped process runs no agent (`DownIdle`) |
| `ApiCallsProofs` | `CallsTyped`, `LimitKept`, `TripHolds`, `OnlyLargeCallsLockOut` | while not blind, the window counts every request the provider has seen or will see (`WindowCovers`); the estimate never exceeds the largest input so far (`EstimateFits`); requests after the trip are of threads that had passed the check (`TripBounded`) |
| `ServicesProofs` | `ServicesTyped`, `SupervisorRecordsKept`, `SupervisorWakeComing`, `ApiWithinLimit`, `ApiFewAfterTrip`, `ApiEmptyWindowAdmits`, `ChatContextsWellFormed`, `ChatRemembered`, `ChatAttended`, `SpendingBounded`, `SpendingSummaryAgrees` | see below |

**The queue's contract.** `FailedRowFacts` is the lemma on `fail`: the attempt is counted, and the row is dead exactly at its last
one. `JobFacts` says what the mapping makes of each shape of row, and `NextContract` maps every step: `Enqueue` to
`Accept` (the row it deletes is the job it forgets), the settlements to `Succeed` and `FailAttempt`, the sweep to
`Forget`, all others to stutters.

**The events' contract.** A registration that is armed has one matcher (`MatchersAgree`), and of the events in the batch that
meet a matcher there is an earliest (`EarliestTakes`, from the well-foundedness of the naturals), so the waits that the batch
ends are those of the matchers that are taken (`TakenAreEnded`). `MatchContract` names the call of each by its matcher; it is new
although ids come again, because the items of matchers are of events that are settled. That the batch holds open events
only, at both passes, is `PassesAgree`.

**The installs' contract.** The mapping needs to know at each stage how far the batch is in the preview and what it will take
back: `Placed`. That `fresh` is a sequence of packages, although `Compensate` cuts it, follows once the cut is written with
`Front`. Every stop, sweep and settlement is one `Manage`, of as many requests as it touches; `Record`, `ItemFails` and `Compensate`
are steps of one request.

**No arc forgotten.** `NoArcForgotten` is not inductive: `freeze_arc` and `_propagate_completion` read first and write later, and
a child may end or a tool call may come in between. `Judged` says what survives: a verdict in the loop's hands about an arc whose
children are all done is `completed`, an active arc always gets one, and a parent is looked at because it has children. `Notices` says
that the handler of a failure has a child that failed or was cancelled over its end, which is what keeps a replanning arc minded.
`LeftBehind` (a restart finds a waiting planner without a `_retry_count` row) and `Unhappy` are where the code does leave an arc:
to nobody in the first case, to the failure's handler in the second.

**Services.** The sum instantiates the components under the same names and parameters as its proof module, so
`SupervisorPart` and `ApiPart` carry the components' theorems over: a step of the sum is a step of one component or
leaves its variables alone. The chat is proved here. `ChatSound` says: as long as nothing is torn, at most one turn is at its
tools, its tool_use is the only one that waits for a result (`OpenFits`, from `Sound` and `Waits`), and the history that
each turn holds is itself sound and ends on the user. That roles alternate is stated by the parity of positions: a
statement over neighbours would need induction over the length of the history, one over parity is kept by
`Merge`, by an appended pair and by a cut of an even number of messages. `Kept` says that each message a user has sent is
in `Holds(context)` or muffled; that rows of the assistant hold nothing; and that text at the end of the context while tools run is
muffled already, because that is the text the next tool_result will replace. `Tended` adds to `Attended` what a turn carries with
it: while it calls the model or runs tools its own message is in its history (compaction keeps it in the summary,
`CompactedHolds`), so a reply answers it; and at its end the message is dealt with, so the callback frees a conversation in
which nothing is owed.

Spending is proved here as well. `SpendingBound` counts, beside the calls that are recorded and under way, the threads whose
evaluation has found no reason to stop (`Granted`): a measurement below the threshold bounds all of them at once, a
latch only takes threads away, and only a call on a summary adds one, which `begun` counts. `SummaryFits` follows what
somebody past the lock has found, since that is what will be published: it agrees with the latches unless a
command is not over or a shell intervened; that only one thread is past the lock is `OneEvaluator`.

**Only model-checked.** Liveness, which is out of the prover's reach: `EventuallySettled`, `EventuallyProcessed`, `WaitsEnd`,
`OneShotsFire`, `RootFinishes`, `ApprovedEnds`, `TreesReclaimed`, `FailuresHeard`, `Recovers`, `Heard`, `Released`. The properties of
the four violated runs are refuted and have no theorem. No
module declares a RECURSIVE operator.

## 7. Not modelled

Most of the program's lines are transport and parsing (channels, HTTP, forges, package sources), prompts, analysis of code
(`review`, `verify`), numerical scores and vectors (models, knowledge base, embeddings), copying of file trees, rendering and
logging. They have no protocol of their own; to the modelled components they are a handler that returns or raises. The
modules stand for the code that keeps shared state, and a small one for each: that is why they map a minor part of the lines.

Left out of modelled components: section 3 says it for arcs; the tool loop of an agent outside chat, the formats of the
providers other than the Anthropic one, model fallback; updates, reconciliation and hot reload of packages.

Hazards that nothing covers yet, in the order of the plan:

* `core/workflows/review_manager.py:114`, `core/workflows/merge_handler.py:99`: a crash between a verdict or a resolution and its effect.
* `core/engine/triggers/counter.py:69`: two formats of timestamps are compared as strings.
* `core/notifications.py:345`: a batch in memory behind a timer that each new notification resets.
* `agent/conversation.py:106`: the conversation rolls over at a boundary of time while a turn of the old one runs.
* `core/resources/sweep.py:156`: a resource is pinned between the sweep's SELECT and its delete.
* `executor/restricted.py:597`: the dispatcher times out while the worker is blocked on its queue.
