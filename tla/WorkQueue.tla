----------------------------- MODULE WorkQueue -----------------------------
(***************************************************************************)
(* The work queue table (carpenter/core/engine/work_queue.py), the slots   *)
(* of the main loop that executes it (main_loop.py), the retention sweep   *)
(* of finished rows (retention.py) and the recovery of claimed rows when   *)
(* the platform starts (db.py).                                            *)
(*                                                                         *)
(* Every action is one SQLite transaction, or one synchronous stretch of   *)
(* the asyncio loop: enqueue is called from worker threads at any moment,  *)
(* claim and the settlement of a task run on the loop.                     *)
(***************************************************************************)
EXTENDS Naturals, FiniteSets

CONSTANTS
  MaxId,        \* bound: the largest row id explored
  Keys,         \* idempotency keys
  NoKey,        \* NULL key
  Budgets,      \* the max_retries values producers pass (SINGLE_ATTEMPT, 3, ...)
  Priorities,   \* the priorities producers pass; lower is served first
  MaxHandlers   \* config max_concurrent_handlers

ASSUME MaxIdAssumption       == MaxId \in Nat
ASSUME NoKeyAssumption       == NoKey \notin Keys
ASSUME BudgetsAssumption     == Budgets \subseteq Nat \ {0}
ASSUME PrioritiesAssumption  == Priorities \subseteq Nat
ASSUME MaxHandlersAssumption == MaxHandlers \in Nat

VARIABLES
  queue,      \* table work_queue
  in_flight,  \* keys of the dict main_loop._in_flight
  tasks,      \* row ids whose handler task exists and has not finished
  popping,    \* row ids whose task finished and whose _done_callback is scheduled
  proc,       \* the process: up, draining (shutdown), down
  restart,    \* _restart_pending with its mode
  orphaned,   \* row ids that kept their claim although their task is gone
  recycled    \* history: a row id was claimed again before its callback had run

vars == <<queue, in_flight, tasks, popping, proc, restart, orphaned, recycled>>

Ids == 1 .. MaxId

Absent == [status |-> "absent"]

Row == [status : {"pending", "claimed", "complete", "dead_letter"},
        key : Keys \cup {NoKey}, retry_count : Nat, max_retries : Budgets,
        priority : Priorities, delayed : BOOLEAN]

Present(i)  == queue[i].status # "absent"
Finished(i) == queue[i].status \in {"complete", "dead_letter"}
Live(i)     == queue[i].status \in {"pending", "claimed"}

TypeOK ==
  /\ queue \in [Ids -> {Absent} \cup Row]
  /\ in_flight \subseteq Ids
  /\ tasks \subseteq Ids
  /\ popping \subseteq Ids
  /\ proc \in {"up", "draining", "down"}
  /\ restart \in {"none", "opportunistic", "graceful"}
  /\ orphaned \subseteq Ids
  /\ recycled \in BOOLEAN

Init ==
  /\ queue = [i \in Ids |-> Absent]
  /\ in_flight = {} /\ tasks = {} /\ popping = {}
  /\ proc = "up" /\ restart = "none"
  /\ orphaned = {} /\ recycled = FALSE

-----------------------------------------------------------------------------
(* The table *)

(* INTEGER PRIMARY KEY without AUTOINCREMENT: SQLite hands out the largest  *)
(* id in the table plus one, so the id of a deleted last row comes back.    *)
NewId(i, T) ==
  /\ T[i].status = "absent"
  /\ \A j \in Ids : T[j].status # "absent" => j < i
  /\ i # 1 => T[i - 1].status # "absent"

(* enqueue's DELETE of the finished rows that hold the key. *)
WithoutFinished(k) ==
  [i \in Ids |-> IF k # NoKey /\ Finished(i) /\ queue[i].key = k THEN Absent
                 ELSE queue[i]]

(* A UNIQUE column: another row has the key.                                *)
KeyTaken(k, T) == k # NoKey /\ \E j \in Ids : T[j].status # "absent" /\ T[j].key = k

(* work_queue.enqueue: delete, then INSERT OR IGNORE, in one transaction.   *)
(* When the key is taken by a live row the call returns None and changes    *)
(* nothing: the DELETE found no row either, keys being unique.              *)
Enqueue(k, budget, prio, delayed) ==
  LET T == WithoutFinished(k) IN
  /\ proc # "down"
  /\ ~KeyTaken(k, T)
  /\ \E i \in Ids :
       /\ NewId(i, T)
       /\ queue' = [T EXCEPT ![i] =
            [status |-> "pending", key |-> k, retry_count |-> 0,
             max_retries |-> budget, priority |-> prio, delayed |-> delayed]]
  /\ UNCHANGED <<in_flight, tasks, popping, proc, restart, orphaned, recycled>>

(* A scheduled_at moment passes. *)
FallDue(i) ==
  /\ queue[i].status = "pending" /\ queue[i].delayed
  /\ queue' = [queue EXCEPT ![i].delayed = FALSE]
  /\ UNCHANGED <<in_flight, tasks, popping, proc, restart, orphaned, recycled>>

Claimable(i) == queue[i].status = "pending" /\ ~queue[i].delayed

(* ORDER BY priority, created_at: ids grow with created_at. *)
Before(i, j) ==
  \/ queue[i].priority < queue[j].priority
  \/ queue[i].priority = queue[j].priority /\ i < j

-----------------------------------------------------------------------------
(* The main loop *)

(* The operators with a Slip suffix are plausible mistakes in the code;     *)
(* each breaks a property below when it takes the place of the definition   *)
(* that follows it.                                                         *)
ClaimUntrackedSlip(i) ==  \* the task is not entered in _in_flight
  /\ proc = "up" /\ Cardinality(in_flight) < MaxHandlers
  /\ Claimable(i) /\ \A j \in Ids \ {i} : Claimable(j) => Before(i, j)
  /\ queue' = [queue EXCEPT ![i].status = "claimed"]
  /\ tasks' = tasks \cup {i}
  /\ recycled' = (recycled \/ i \in popping)
  /\ UNCHANGED <<in_flight, popping, proc, restart, orphaned>>

ClaimOneMoreSlip(i) ==    \* <= instead of <
  /\ proc = "up" /\ Cardinality(in_flight) <= MaxHandlers
  /\ Claimable(i) /\ \A j \in Ids \ {i} : Claimable(j) => Before(i, j)
  /\ queue' = [queue EXCEPT ![i].status = "claimed"]
  /\ in_flight' = in_flight \cup {i} /\ tasks' = tasks \cup {i}
  /\ recycled' = (recycled \/ i \in popping)
  /\ UNCHANGED <<popping, proc, restart, orphaned>>

(* One turn of the loop in _dispatch_work_items: claim, create the task,    *)
(* enter it in _in_flight under the row id.                                 *)
Claim(i) ==
  /\ proc = "up"
  /\ Cardinality(in_flight) < MaxHandlers
  /\ Claimable(i)
  /\ \A j \in Ids \ {i} : Claimable(j) => Before(i, j)
  /\ queue' = [queue EXCEPT ![i].status = "claimed"]
  /\ in_flight' = in_flight \cup {i}
  /\ tasks' = tasks \cup {i}
  /\ recycled' = (recycled \/ i \in popping)
  /\ UNCHANGED <<popping, proc, restart, orphaned>>

(* A task makes its first step only after the callbacks scheduled before it *)
(* have run, the one left by an earlier task with the same row id included. *)
Running(i) == i \in tasks /\ i \notin popping /\ proc # "down"

(* The retention sweep, itself a handler, removes finished rows older than  *)
(* retention_days: long enough for the task of the row to be gone.          *)
SweepFinished(i) ==
  /\ \E sweeper \in Ids : Running(sweeper)
  /\ Finished(i) /\ i \notin in_flight /\ i \notin popping
  /\ queue' = [queue EXCEPT ![i] = Absent]
  /\ UNCHANGED <<in_flight, tasks, popping, proc, restart, orphaned, recycled>>

TaskEnds(i) ==
  /\ tasks' = tasks \ {i}
  /\ popping' = popping \cup {i}
  /\ UNCHANGED <<in_flight, proc, restart, recycled>>

(* The handler returned: work_queue.complete, by id, whatever the status. *)
HandlerReturns(i) ==
  /\ Running(i)
  /\ queue' = [queue EXCEPT ![i].status = "complete"]
  /\ UNCHANGED orphaned
  /\ TaskEnds(i)

(* work_queue.fail *)
FailedRow(r) ==
  IF r.retry_count + 1 >= r.max_retries
  THEN [r EXCEPT !.status = "dead_letter", !.retry_count = r.retry_count + 1]
  ELSE [r EXCEPT !.status = "pending", !.retry_count = r.retry_count + 1]

(* The handler raised, there is no handler for the event type, or the       *)
(* UPDATE of complete raised: all end in work_queue.fail.                   *)
HandlerRaises(i) ==
  /\ Running(i)
  /\ queue' = [queue EXCEPT ![i] = FailedRow(queue[i])]
  /\ UNCHANGED orphaned
  /\ TaskEnds(i)

(* The UPDATE of fail raised too (the database stayed locked): the task     *)
(* dies with that exception and the row keeps its claim.                    *)
SettlementLost(i) ==
  /\ Running(i)
  /\ UNCHANGED queue
  /\ orphaned' = orphaned \cup {i}
  /\ TaskEnds(i)

(* _done_callback: pop the row id, whoever it stands for by now. *)
DoneCallback(i) ==
  /\ i \in popping
  /\ popping' = popping \ {i}
  /\ in_flight' = in_flight \ {i}
  /\ UNCHANGED <<queue, tasks, proc, restart, orphaned, recycled>>

-----------------------------------------------------------------------------
(* Restart, shutdown, crash and recovery *)

SetRestartPending(mode) ==
  /\ proc = "up"
  /\ restart' = mode
  /\ UNCHANGED <<queue, in_flight, tasks, popping, proc, orphaned, recycled>>

Gone == in_flight' = {} /\ tasks' = {} /\ popping' = {} /\ orphaned' = {}
        /\ proc' = "down" /\ restart' = "none"

(* _check_restart, opportunistic: exec when nothing is in flight. That no   *)
(* arc is active is a condition on the arcs table, left open here.          *)
OpportunisticRestart ==
  /\ proc = "up" /\ restart = "opportunistic" /\ in_flight = {}
  /\ Gone
  /\ UNCHANGED <<queue, recycled>>

(* _check_restart, graceful: sets the shutdown event; so does a signal. *)
Shutdown ==
  /\ proc = "up"
  /\ proc' = "draining"
  /\ UNCHANGED <<queue, in_flight, tasks, popping, restart, orphaned, recycled>>

(* The drain timed out: the tracked tasks are cancelled. CancelledError is  *)
(* no Exception, so _run_handler settles nothing.                           *)
DrainTimeout ==
  /\ proc = "draining"
  /\ tasks \cap in_flight # {}
  /\ tasks' = tasks \ in_flight
  /\ popping' = popping \cup (tasks \cap in_flight)
  /\ orphaned' = orphaned \cup (tasks \cap in_flight)
  /\ UNCHANGED <<queue, in_flight, proc, restart, recycled>>

(* The loop returned and the process ends. *)
Exit ==
  /\ proc = "draining" /\ in_flight = {}
  /\ Gone
  /\ UNCHANGED <<queue, recycled>>

Crash ==
  /\ proc # "down"
  /\ Gone
  /\ UNCHANGED <<queue, recycled>>

RecoverNothingSlip ==      \* claimed rows stay claimed
  /\ proc = "down" /\ proc' = "up"
  /\ UNCHANGED <<queue, in_flight, tasks, popping, restart, orphaned, recycled>>

RecoverDropsSlip ==        \* claimed rows are given up
  /\ proc = "down" /\ proc' = "up"
  /\ queue' = [i \in Ids |-> IF queue[i].status = "claimed"
                             THEN [queue[i] EXCEPT !.status = "dead_letter"]
                             ELSE queue[i]]
  /\ UNCHANGED <<in_flight, tasks, popping, restart, orphaned, recycled>>

(* db._recover_on_startup, the part about claimed rows. *)
Recover ==
  /\ proc = "down"
  /\ proc' = "up"
  /\ queue' = [i \in Ids |-> IF queue[i].status = "claimed"
                             THEN [queue[i] EXCEPT !.status = "pending"]
                             ELSE queue[i]]
  /\ UNCHANGED <<in_flight, tasks, popping, restart, orphaned, recycled>>

-----------------------------------------------------------------------------
Settles(i) == HandlerReturns(i) \/ HandlerRaises(i) \/ SettlementLost(i)

Next ==
  \/ \E k \in Keys \cup {NoKey}, b \in Budgets, p \in Priorities, d \in BOOLEAN :
       Enqueue(k, b, p, d)
  \/ \E i \in Ids :
       FallDue(i) \/ SweepFinished(i) \/ Claim(i) \/ Settles(i) \/ DoneCallback(i)
  \/ \E mode \in {"opportunistic", "graceful"} : SetRestartPending(mode)
  \/ OpportunisticRestart \/ Shutdown \/ DrainTimeout \/ Exit \/ Crash \/ Recover

Spec == Init /\ [][Next]_vars

(* The loop wakes at least every heartbeat_seconds, so a claimable row is   *)
(* claimed while the process is up; time passes; a scheduled callback runs; *)
(* handlers are assumed to end, and the platform to be started again.       *)
Fairness ==
  /\ \A i \in Ids : /\ WF_vars(FallDue(i))
                    /\ WF_vars(Claim(i))
                    /\ WF_vars(Settles(i))
                    /\ WF_vars(DoneCallback(i))
  /\ WF_vars(Recover)

FairSpec == Spec /\ Fairness

-----------------------------------------------------------------------------
(* Properties *)

(* No row is executed by two tasks, and a claim has an owner: while the     *)
(* process lives the claimed rows are the rows of the live tasks and the    *)
(* ones left behind by a lost settlement or a cancelled task; nothing else  *)
(* (claim, complete and fail by id, restart, recovery) splits the two.      *)
ClaimsOwned ==
  proc # "down" => /\ \A i \in Ids : queue[i].status = "claimed" <=> i \in tasks \cup orphaned
                   /\ tasks \cap orphaned = {}

(* fail() dead-letters a row exactly at its last permitted attempt, and a   *)
(* row that can still be claimed has an attempt left.                       *)
AttemptsWithinBudget ==
  \A i \in Ids :
    /\ Live(i) => queue[i].retry_count < queue[i].max_retries
    /\ queue[i].status = "dead_letter" => queue[i].retry_count = queue[i].max_retries

(* _in_flight holds exactly the tasks that run and those whose callback is  *)
(* scheduled, unless a claim got the row id of a task whose callback was    *)
(* still scheduled: that is the only way to lose track of a task.           *)
TrackedUnlessRecycled == ~recycled => in_flight = tasks \cup popping

(* max_concurrent_handlers bounds the handlers that run at one time, with   *)
(* the same exception.                                                      *)
HandlersBounded == ~recycled => Cardinality(tasks) <= MaxHandlers

(* main_loop.set_restart_pending: "restart when idle (... no in-flight      *)
(* handlers)": an opportunistic restart never ends a process in which a     *)
(* handler is running.                                                      *)
RestartsOnlyWhenIdle ==
  [][proc = "up" /\ restart = "opportunistic" /\ OpportunisticRestart => tasks = {}]_vars

(* The queue keeps the promise made to producers: claims, crashes, restarts *)
(* and recovery never lose an accepted row, finish one without an attempt,  *)
(* or grant more failed attempts than max_retries.                          *)
Job(r) == IF r.status = "absent" THEN [phase |-> "none"]
          ELSE IF r.status \in {"pending", "claimed"}
          THEN [phase |-> "open", key |-> r.key, left |-> r.max_retries - r.retry_count]
          ELSE [phase |-> IF r.status = "complete" THEN "done" ELSE "dead", key |-> r.key]

Contract == INSTANCE JobContract WITH job <- [i \in Ids |-> Job(queue[i])]

KeepsContract == Contract!Spec

(* Once the process stays up, every accepted row of the most urgent         *)
(* priority is eventually finished (or finished and gone), unless it is left *)
(* claimed by a lost settlement.  Less urgent rows may wait behind newer     *)
(* ones for ever.                                                            *)
EventuallySettled ==
  <>[](proc = "up") =>
    \A i \in Ids :
      (queue[i].status = "pending" /\ \A p \in Priorities : queue[i].priority <= p)
        ~> (~Live(i) \/ i \in orphaned)
=============================================================================
