---------------------------- MODULE ArcLifecycle ----------------------------
(***************************************************************************)
(* The life of a tree of arcs: core/arcs/manager.py, dispatch_handler.py,  *)
(* child_failure_handler.py and the arcs' part of db._recover_on_startup.  *)
(*                                                                         *)
(* Handlers are coroutines of the main loop: they interleave where they    *)
(* await the agent, and what they do after it is one stretch of the loop's *)
(* thread.  Tool calls (arc.add_child, arc.cancel) run on threads of their *)
(* own, and each reads before it takes SQLite's write lock.  arc.create    *)
(* and arc.create_batch with a parent are one write; without one they make *)
(* the root of another tree.                                               *)
(***************************************************************************)
EXTENDS Naturals, Integers, FiniteSets

CONSTANTS
  Seed,          \* the arcs there are at first: a sequence of [parent, step_order]
  MaxArcs,       \* bound: the number of arcs
  Templates,     \* the arcs made from a template: add_child refuses them
  RequiredPass,  \* the arcs with _required_pass
  Adopters,      \* bound: the parents arc.create and arc.create_batch are called for
  Threads,       \* the threads tool calls run on
  MaxRetries,    \* arc_retry.max_retries
  MaxRestarts    \* bound: the number of restarts

ASSUME BoundsAssumption == MaxArcs \in Nat /\ MaxRetries \in Nat /\ MaxRestarts \in Nat
ASSUME SeedAssumption ==
  /\ DOMAIN Seed \subseteq 1 .. MaxArcs
  /\ \A a \in DOMAIN Seed : Seed[a].parent \in 0 .. a - 1 /\ Seed[a].step_order \in 0 .. MaxArcs
ASSUME SetsAssumption ==
  /\ Templates \subseteq DOMAIN Seed /\ RequiredPass \subseteq DOMAIN Seed
  /\ Adopters \subseteq 1 .. MaxArcs

VARIABLES
  arcs,      \* table arcs
  attempts,  \* arc_state _retry_count, -1 when there is no such row
  rejected,  \* the arcs whose _verdict is not "pass"
  work,      \* work_queue: <<kind, arc>> -> status, "none" if settled ("dispatch": key
             \* arc_dispatch:<id>; "retry": arc_dispatch_<id>_<time>; "child_failed")
  running,   \* the items whose handler awaits an agent
  loop,      \* the loop's thread past that: freeze_arc(at) decided on "to", or settling
  call,      \* thread -> its tool call between its SELECT and its writes
  restarts,  \* number of restarts so far
  backoff,   \* history: the arcs waiting for a retry
  overwritten, \* history: frozen arcs a late cancel wrote over
  strays,    \* history: children inserted under a frozen or freezing parent
  twins,     \* history: children inserted beside or before their siblings
  late       \* history: children enqueued by add_child after they had started

hist == <<backoff, overwritten, strays, twins, late>>
vars == <<arcs, attempts, rejected, work, running, loop, call, restarts, hist>>

Arcs   == 1 .. MaxArcs
Kinds  == {"dispatch", "retry", "child_failed"}
Items  == Kinds \X Arcs
Idle   == [step |-> "idle"]
Settling(i) == [step |-> "settle", item |-> i]
NoCall == [op |-> "none"]

Frozen == {"completed", "failed", "cancelled", "escalated"}
Done   == {"completed", "escalated"}
Open   == {"pending", "active", "waiting"}

(* manager.TRANSITIONS; "escalated" is reached by model escalation, which   *)
(* is not modelled.                                                         *)
Transitions ==
  [pending |-> {"active", "cancelled"},
   active  |-> {"waiting", "completed", "failed", "cancelled"},
   waiting |-> {"active", "completed", "failed", "cancelled"}]

Allowed(s, new) == s \in Open /\ new \in Transitions[s]

Exists(a) == arcs[a].status # "absent"
Children(A, p) == {c \in Arcs : A[c].status # "absent" /\ A[c].parent = p}
Preceding(A, a) ==
  {b \in Arcs : /\ A[b].status # "absent"
                /\ A[a].parent # 0 /\ A[b].parent = A[a].parent
                /\ A[b].step_order < A[a].step_order}

TypeOK ==
  /\ arcs \in [Arcs -> [status : Open \cup Frozen \cup {"absent"},
                        parent : 0 .. MaxArcs, step_order : 0 .. MaxArcs]]
  /\ attempts \in [Arcs -> -1 .. MaxRetries]
  /\ rejected \subseteq RequiredPass
  /\ work \in [Items -> {"none", "pending", "claimed"}]
  /\ running \subseteq Items
  /\ loop \in {Idle} \cup [step : {"settle"}, item : Items]
             \cup [step : {"self", "parent"}, item : Items, at : Arcs,
                   to : {"completed", "failed", "waiting", "nothing"}]
  /\ call \in [Threads -> {NoCall} \cup [op : {"add"}, parent : Arcs, step_order : 0 .. MaxArcs]
                                   \cup [op : {"enqueue"}, arc : Arcs]
                                   \cup [op : {"cancel"}, arc : Arcs, open : SUBSET Arcs]]
  /\ restarts \in 0 .. MaxRestarts
  /\ backoff \cup overwritten \cup strays \cup twins \cup late \subseteq Arcs

(* Root arcs have no code: they wait for the heartbeat's scan.  create_arc  *)
(* (the seed) gives every arc its _retry_count row.                         *)
Init ==
  /\ arcs = [a \in Arcs |->
       IF a \in DOMAIN Seed
       THEN [status |-> "pending", parent |-> Seed[a].parent, step_order |-> Seed[a].step_order]
       ELSE [status |-> "absent", parent |-> 0, step_order |-> 0]]
  /\ attempts = [a \in Arcs |-> IF a \in DOMAIN Seed THEN 0 ELSE -1]
  /\ rejected = {}
  /\ work = [i \in Items |-> "none"] /\ running = {}
  /\ loop = Idle /\ call = [t \in Threads |-> NoCall] /\ restarts = 0
  /\ backoff = {} /\ overwritten = {} /\ strays = {} /\ twins = {} /\ late = {}

-----------------------------------------------------------------------------
(* Helpers of the handlers *)

Moved(A, a, new) == [A EXCEPT ![a].status = new]

(* work_queue.enqueue, for a set of items *)
Enqueued(W, S) == [i \in Items |-> IF i \in S /\ W[i] = "none" THEN "pending" ELSE W[i]]

check_dependenciesFrozenSlip(A, a) ==     \* FROZEN_STATUSES for DONE_STATUSES
  \A b \in Preceding(A, a) : A[b].status \in Frozen

check_dependencies(A, a) == \A b \in Preceding(A, a) : A[b].status \in Done

(* _check_review_verdicts *)
VerdictsPass(A, a) == \A b \in Preceding(A, a) : A[b].status = "completed" => b \notin rejected

(* _enqueue_ready_children: the dispatch items it enqueues *)
ReadyChildren(A, p) ==
  {"dispatch"} \X {c \in Children(A, p) : /\ A[c].status = "pending"
                                          /\ check_dependencies(A, c)
                                          /\ VerdictsPass(A, c)}

(* _notify_parent_of_failure with the policy "replan": the child_failed     *)
(* item, for a parent that waits and is no template's                       *)
Notice(A, c) ==
  LET p == A[c].parent IN
  {<<"child_failed", c>>} \cap {i \in Items : /\ p \in Arcs \ Templates
                                              /\ A[p].status = "waiting"}

(* freeze_arc, up to its write *)
Decide(A, a) ==
  LET C == {A[c].status : c \in Children(A, a)} IN
  CASE A[a].status \in Frozen -> "nothing"
    [] A[a].status \notin Frozen /\ C \subseteq Done -> "completed"
    [] A[a].status \notin Frozen /\ "failed" \in C /\ C \subseteq Frozen -> "failed"
    [] OTHER -> IF A[a].status = "active" THEN "waiting" ELSE "nothing"

-----------------------------------------------------------------------------
(* handle_arc_dispatch *)

Runs(a) == {<<"dispatch", a>>, <<"retry", a>>}

(* Claimed, and dispatch_arc: pending or waiting becomes active.            *)
Dispatch(i) ==
  LET a == i[2] IN
  /\ loop = Idle /\ i \in Runs(a) /\ work[i] = "pending"
  /\ arcs[a].status \in Open
  /\ arcs' = Moved(arcs, a, "active")
  /\ work' = [work EXCEPT ![i] = "claimed"]
  /\ running' = running \cup {i}
  /\ backoff' = backoff \ {a}
  /\ UNCHANGED <<attempts, rejected, loop, call, restarts, overwritten, strays, twins, late>>

(* The arc was frozen between enqueue and processing.                       *)
SkipFrozen(i) ==
  /\ loop = Idle /\ i \in Runs(i[2]) /\ work[i] = "pending"
  /\ arcs[i[2]].status \in Frozen
  /\ work' = [work EXCEPT ![i] = "none"]
  /\ UNCHANGED <<arcs, attempts, rejected, running, loop, call, restarts, hist>>

(* The agent (or the code) has come back; freeze_arc reads arc and children. *)
AgentReturns(i) ==
  LET a == i[2] IN
  /\ loop = Idle /\ i \in Runs(a) /\ i \in running
  /\ rejected' \in {rejected, rejected \cup ({a} \cap RequiredPass)}
  /\ running' = running \ {i}
  /\ loop' = [step |-> "self", item |-> i, at |-> a, to |-> Decide(arcs, a)]
  /\ UNCHANGED <<arcs, attempts, work, call, restarts, hist>>

FreezeSelfOnlySlip ==     \* no _propagate_completion
  /\ loop.step = "self"
  /\ loop.to = "nothing" \/ Allowed(arcs[loop.at].status, loop.to)
  /\ arcs' = IF loop.to = "nothing" THEN arcs ELSE Moved(arcs, loop.at, loop.to)
  /\ loop' = Settling(loop.item)
  /\ UNCHANGED <<attempts, rejected, work, running, call, restarts, hist>>

(* freeze_arc writes; _propagate_completion enqueues what is ready and      *)
(* reads the parent.  The parent's own parent is not looked at.             *)
FreezeSelf ==
  /\ loop.step = "self"
  /\ \/ loop.to = "nothing"
     \/ Allowed(arcs[loop.at].status, loop.to)
  /\ LET a == loop.at
         p == arcs[a].parent
         A == IF loop.to = "nothing" THEN arcs ELSE Moved(arcs, a, loop.to)
     IN /\ arcs' = A
        /\ work' = Enqueued(work,
                     ReadyChildren(A, IF p = 0 THEN a ELSE p)
                       \cup IF loop.to = "failed" THEN Notice(A, a) ELSE {})
        /\ loop' = IF p = 0 THEN Settling(loop.item)
                   ELSE [loop EXCEPT !.step = "parent", !.at = p, !.to = Decide(A, p)]
  /\ UNCHANGED <<attempts, rejected, running, call, restarts, hist>>

(* freeze_arc(parent): an illegal transition is logged and dropped.         *)
FreezeParent ==
  /\ loop.step = "parent"
  /\ LET p == loop.at
         ok == loop.to # "nothing" /\ Allowed(arcs[p].status, loop.to)
         A == IF ok THEN Moved(arcs, p, loop.to) ELSE arcs
     IN /\ arcs' = A
        /\ work' = IF ok /\ loop.to = "failed" THEN Enqueued(work, Notice(A, p)) ELSE work
  /\ loop' = Settling(loop.item)
  /\ UNCHANGED <<attempts, rejected, running, call, restarts, hist>>

(* The except branch of handle_arc_dispatch runs when the agent raises and  *)
(* when freeze_arc(arc) meets an illegal transition.                        *)
Raises(i) ==
  /\ i \in Runs(i[2])
  /\ \/ loop = Idle /\ i \in running
     \/ /\ loop.step = "self" /\ loop.item = i
        /\ loop.to # "nothing" /\ ~Allowed(arcs[i[2]].status, loop.to)
  /\ running' = running \ {i}

(* A missing _retry_count counts as 0.                                      *)
Count(a) == IF attempts[a] = -1 THEN 0 ELSE attempts[a]

RetryUnqueuedSlip(i) ==     \* the retry's row is not enqueued
  LET a == i[2]
      ok == Allowed(arcs[a].status, "waiting")
  IN
  /\ Raises(i)
  /\ Count(a) < MaxRetries
  /\ attempts' = [attempts EXCEPT ![a] = Count(a) + 1]
  /\ arcs' = IF ok THEN Moved(arcs, a, "waiting") ELSE arcs
  /\ backoff' = IF ok THEN backoff \cup {a} ELSE backoff
  /\ loop' = Settling(i)
  /\ UNCHANGED <<rejected, work, call, restarts, overwritten, strays, twins, late>>

(* should_retry: count, wait (if that is still legal) and enqueue a delayed *)
(* item of its own key, which takes the place of this one's row if this is  *)
(* a retry already (two waiting retries of one arc are left out).           *)
Retry(i) ==
  LET a == i[2]
      ok == Allowed(arcs[a].status, "waiting")
  IN
  /\ Raises(i)
  /\ Count(a) < MaxRetries
  /\ i[1] = "dispatch" => work[<<"retry", a>>] = "none"
  /\ attempts' = [attempts EXCEPT ![a] = Count(a) + 1]
  /\ arcs' = IF ok THEN Moved(arcs, a, "waiting") ELSE arcs
  /\ backoff' = IF ok THEN backoff \cup {a} ELSE backoff
  /\ work' = [work EXCEPT ![<<"retry", a>>] = "pending"]
  /\ loop' = IF i[1] = "retry" THEN Idle ELSE Settling(i)
  /\ UNCHANGED <<rejected, call, restarts, overwritten, strays, twins, late>>

(* Exhausted, or not retriable.  The parent is not re-evaluated here.       *)
Fail(i) ==
  LET a == i[2]
      A == Moved(arcs, a, "failed")
  IN
  /\ Raises(i)
  /\ Allowed(arcs[a].status, "failed")
  /\ arcs' = A
  /\ work' = Enqueued(work, Notice(A, a))
  /\ loop' = Settling(i)
  /\ UNCHANGED <<attempts, rejected, call, restarts, hist>>

(* update_status raises as well, and the queue retries the item unless it   *)
(* was enqueued for a single attempt.                                       *)
FailRaises(i) ==
  /\ Raises(i)
  /\ ~Allowed(arcs[i[2]].status, "failed")
  /\ work' = [work EXCEPT ![i] = IF i[1] = "retry" THEN "none" ELSE "pending"]
  /\ loop' = Idle
  /\ UNCHANGED <<arcs, attempts, rejected, call, restarts, hist>>

SettleFailedSlip ==     \* a dispatch that scheduled a retry is retried by the queue too
  /\ loop.step = "settle"
  /\ loop' = Idle
  /\ work' = [work EXCEPT ![loop.item] = IF loop.item[2] \in backoff THEN "pending" ELSE "none"]
  /\ UNCHANGED <<arcs, attempts, rejected, running, call, restarts, hist>>

(* _run_handler: the handler has returned, complete() ends the row.         *)
Settle ==
  /\ loop.step = "settle"
  /\ loop' = Idle
  /\ work' = [work EXCEPT ![loop.item] = "none"]
  /\ UNCHANGED <<arcs, attempts, rejected, running, call, restarts, hist>>

-----------------------------------------------------------------------------
(* handle_child_failed: a waiting parent becomes active again and its agent *)
(* is asked; nothing evaluates the parent afterwards.                       *)
Replan(c) ==
  LET i == <<"child_failed", c>>
      p == arcs[c].parent
  IN
  /\ loop = Idle /\ work[i] = "pending"
  /\ IF arcs[p].status = "waiting"
     THEN /\ arcs' = Moved(arcs, p, "active")
          /\ work' = [work EXCEPT ![i] = "claimed"]
          /\ running' = running \cup {i}
     ELSE /\ work' = [work EXCEPT ![i] = "none"]
          /\ UNCHANGED <<arcs, running>>
  /\ UNCHANGED <<attempts, rejected, loop, call, restarts, hist>>

ReplanEnds(c) ==
  /\ loop = Idle /\ <<"child_failed", c>> \in running
  /\ running' = running \ {<<"child_failed", c>>}
  /\ loop' = Settling(<<"child_failed", c>>)
  /\ UNCHANGED <<arcs, attempts, rejected, work, call, restarts, hist>>

(* The re-invoked agent marks its arc as failed (arc.update_status).        *)
MarkFailed(c) ==
  LET p == arcs[c].parent
      A == Moved(arcs, p, "failed")
  IN
  /\ <<"child_failed", c>> \in running
  /\ Allowed(arcs[p].status, "failed")
  /\ arcs' = A
  /\ work' = Enqueued(work, Notice(A, p))
  /\ UNCHANGED <<attempts, rejected, running, loop, call, restarts, hist>>

(* scan_for_ready_arcs, the heartbeat hook.                                 *)
Scan(a) ==
  /\ loop = Idle
  /\ arcs[a].status = "pending"
  /\ \A i \in Runs(a) : work[i] = "none"
  /\ check_dependencies(arcs, a)
  /\ work' = Enqueued(work, {<<"dispatch", a>>})
  /\ UNCHANGED <<arcs, attempts, rejected, running, loop, call, restarts, hist>>

-----------------------------------------------------------------------------
(* Tool calls *)

Orders(A, p) == {A[c].step_order : c \in Children(A, p)}

(* add_child: the parent's status and the largest step_order are read ...   *)
AddChildReads(t, p) ==
  /\ call[t] = NoCall
  /\ arcs[p].status \in Open /\ p \notin Templates
  /\ \E a \in Arcs : ~Exists(a)
  /\ \E o \in 0 .. MaxArcs :
       /\ \A n \in Orders(arcs, p) : n < o
       /\ o = 0 \/ (o - 1) \in Orders(arcs, p)
       /\ call' = [call EXCEPT ![t] = [op |-> "add", parent |-> p, step_order |-> o]]
  /\ UNCHANGED <<arcs, attempts, rejected, work, running, loop, restarts, hist>>

Deciding(p) == loop.step \in {"self", "parent"} /\ loop.at = p /\ loop.to \in Frozen

(* One transaction inserts the arcs of S, which get the next ids.           *)
Inserts(S, p, order) ==
  /\ \A a \in S : ~Exists(a) /\ \A b \in Arcs \ S : b < a => Exists(b)
  /\ arcs' = [a \in Arcs |->
       IF a \in S THEN [status |-> "pending", parent |-> p, step_order |-> order[a]] ELSE arcs[a]]
  /\ strays' = strays \cup {a \in S : arcs[p].status \in Frozen \/ Deciding(p)}
  /\ twins' = twins \cup {a \in S : \E n \in Orders(arcs, p) : order[a] <= n}
  /\ UNCHANGED <<rejected, work, running, loop, restarts, backoff, overwritten, late>>

(* ... the row is inserted and committed ...                                *)
AddChildInserts(t) ==
  /\ call[t].op = "add"
  /\ \E a \in Arcs :
       /\ Inserts({a}, call[t].parent, [b \in {a} |-> call[t].step_order])
       /\ call' = [call EXCEPT ![t] = [op |-> "enqueue", arc |-> a]]
  /\ UNCHANGED attempts

(* ... and enqueued, whatever has become of it, if nothing precedes it.     *)
AddChildEnqueues(t) ==
  LET a == call[t].arc IN
  /\ call[t].op = "enqueue"
  /\ work' = IF check_dependencies(arcs, a) THEN Enqueued(work, {<<"dispatch", a>>}) ELSE work
  /\ late' = IF arcs[a].status = "pending" THEN late ELSE late \cup {a}
  /\ call' = [call EXCEPT ![t] = NoCall]
  /\ UNCHANGED <<arcs, attempts, rejected, running, loop, restarts, backoff, overwritten, strays, twins>>

(* arc.create with a parent_id: nothing is asked of the parent, the child   *)
(* takes step_order 0 and is left to the heartbeat's scan.  Its             *)
(* _retry_count row is a write of its own, which may fail or be cut off.    *)
Create(p) ==
  /\ Exists(p)
  /\ \E a \in Arcs :
       /\ Inserts({a}, p, [b \in {a} |-> 0])
       /\ attempts' \in {attempts, [attempts EXCEPT ![a] = 0]}
  /\ UNCHANGED call

(* arc.create_batch: all or nothing, with the orders the caller gives or    *)
(* the next ones, read before the write lock; no _retry_count rows.         *)
CreateBatch(p) ==
  /\ Exists(p)
  /\ \E S \in SUBSET Arcs \ {{}} : \E order \in [S -> 0 .. MaxArcs] : Inserts(S, p, order)
  /\ UNCHANGED <<attempts, call>>

(* The descendants of a: what is in every set that holds its children and   *)
(* the children of its members.                                             *)
HoldsBelow(S, a) == \A b \in Arcs : Exists(b) /\ arcs[b].parent \in S \cup {a} => b \in S
Below(a) == {c \in Arcs : Exists(c) /\ \A S \in SUBSET Arcs : HoldsBelow(S, a) => c \in S}

(* cancel_arc: without the write lock it reads a and, below frozen arcs     *)
(* only, its descendants, down to the first open ones ...                   *)
CancelReads(t, a) ==
  /\ call[t] = NoCall
  /\ Exists(a)
  /\ LET T == {a} \cup Below(a)
         open == {c \in T : arcs[c].status \in Open}
     IN call' = [call EXCEPT ![t] = [op |-> "cancel", arc |-> a,
                   open |-> {c \in open : \A b \in open : c \notin Below(b)}]]
  /\ UNCHANGED <<arcs, attempts, rejected, work, running, loop, restarts, hist>>

Cancelled(A, S) == [c \in Arcs |-> IF c \in S THEN [A[c] EXCEPT !.status = "cancelled"] ELSE A[c]]

CancelAllSlip(t) ==     \* the cascade does not look at the descendants' status
  /\ call[t].op = "cancel"
  /\ arcs' = Cancelled(arcs, Below(call[t].arc) \cup call[t].open)
  /\ overwritten' = overwritten \cup {c \in call[t].open : arcs[c].status \in Frozen}
  /\ call' = [call EXCEPT ![t] = NoCall]
  /\ UNCHANGED <<attempts, rejected, work, running, loop, restarts, backoff, strays, twins, late>>

CancelAloneSlip(t) ==     \* no cascade
  /\ call[t].op = "cancel"
  /\ arcs' = Cancelled(arcs, call[t].open)
  /\ overwritten' = overwritten \cup {c \in call[t].open : arcs[c].status \in Frozen}
  /\ call' = [call EXCEPT ![t] = NoCall]
  /\ UNCHANGED <<attempts, rejected, work, running, loop, restarts, backoff, strays, twins, late>>

(* ... and overwrites these by id, whatever they have become; the open ones *)
(* below are read and written under the lock.                               *)
CancelWrites(t) ==
  /\ call[t].op = "cancel"
  /\ arcs' = Cancelled(arcs, {c \in Below(call[t].arc) : arcs[c].status \in Open} \cup call[t].open)
  /\ overwritten' = overwritten \cup {c \in call[t].open : arcs[c].status \in Frozen}
  /\ call' = [call EXCEPT ![t] = NoCall]
  /\ UNCHANGED <<attempts, rejected, work, running, loop, restarts, backoff, strays, twins, late>>

-----------------------------------------------------------------------------
(* A crash or a restart, and db._recover_on_startup: claimed items and      *)
(* active arcs become pending, and so do the waiting arcs with a            *)
(* _retry_count row.                                                        *)
Restart ==
  /\ restarts < MaxRestarts
  /\ restarts' = restarts + 1
  /\ arcs' = [a \in Arcs |->
       IF \/ arcs[a].status = "active"
          \/ arcs[a].status = "waiting" /\ attempts[a] # -1
       THEN [arcs[a] EXCEPT !.status = "pending"] ELSE arcs[a]]
  /\ work' = [i \in Items |-> IF work[i] = "claimed" THEN "pending" ELSE work[i]]
  /\ running' = {}
  /\ loop' = Idle
  /\ call' = [t \in Threads |-> NoCall]
  /\ backoff' = {a \in backoff : arcs'[a].status = "waiting"}
  /\ UNCHANGED <<attempts, rejected, overwritten, strays, twins, late>>

-----------------------------------------------------------------------------
LoopStep ==
  \/ \E i \in Items : \/ Dispatch(i) \/ SkipFrozen(i) \/ AgentReturns(i)
                      \/ Retry(i) \/ Fail(i) \/ FailRaises(i)
  \/ FreezeSelf \/ FreezeParent \/ Settle
  \/ \E c \in Arcs : Replan(c) \/ ReplanEnds(c) \/ Scan(c)

CallEnds(t) == AddChildInserts(t) \/ AddChildEnqueues(t) \/ CancelWrites(t)

ToolCall ==
  \/ \E t \in Threads, a \in Arcs : AddChildReads(t, a) \/ CancelReads(t, a)
  \/ \E t \in Threads : CallEnds(t)
  \/ \E p \in Adopters : Create(p) \/ CreateBatch(p)

Next == LoopStep \/ ToolCall \/ (\E c \in Arcs : MarkFailed(c)) \/ Restart

Spec == Init /\ [][Next]_vars

(* The heartbeat keeps the loop going, agents are assumed to come back, and *)
(* a tool call that has begun ends.                                         *)
FairSpec == Spec /\ WF_vars(LoopStep) /\ \A t \in Threads : WF_vars(CallEnds(t))

-----------------------------------------------------------------------------
(* Properties *)

Starts(a) == arcs[a].status = "pending" /\ arcs'[a].status = "active"
Changes(a) == arcs[a].status \in Frozen /\ arcs'[a].status # arcs[a].status

(* "Completed, failed, and cancelled are frozen - the record becomes        *)
(* immutable" (docs/design.md), whatever restarts, retries, cascades, late  *)
(* handlers and replanning do.  One thing breaks it: a cancel_arc that had  *)
(* read the arc as open.                                                    *)
FrozenUnlessOverwritten == [][\A a \in Arcs : Changes(a) => a \in overwritten']_vars

(* "Children execute in step_order": an arc starts, for the first time or   *)
(* after a restart, only when everything before it is done, except for what *)
(* a late cancel overwrote and for children inserted beside or before their *)
(* siblings (arc.create does, and two calls that read the same orders).     *)
StepsInOrder ==
  [][\A a \in Arcs : Starts(a) =>
       \A b \in Preceding(arcs, a) : arcs[b].status \in Done \/ b \in overwritten \cup twins]_vars

(* A completed arc has only finished children and a cancelled one no open   *)
(* ones, except children inserted while it froze or, as arc.create and      *)
(* arc.create_batch do, afterwards.                                         *)
TreesCloseTogether ==
  \A c \in Arcs \ strays : Exists(c) /\ arcs[c].parent # 0 =>
    LET p == arcs[arcs[c].parent].status IN
    /\ p = "completed" => arcs[c].status \in Done \/ c \in overwritten
    /\ p = "cancelled" => arcs[c].status \in Frozen

(* Without a restart an arc's agent never runs twice at a time: dispatches  *)
(* from finished siblings, from the heartbeat's scan, from retries and, if   *)
(* it is in time, from add_child do not add up.                              *)
OneRunPerArc ==
  restarts = 0 => \A a \in Arcs \ late : Cardinality(Runs(a) \cap running) <= 1

(* No arc is forgotten: one that has been started is in the hands of its   *)
(* own run or of a child's failure, and it does not wait when its children *)
(* are finished leaves, unless a retry is queued or the last of them is    *)
(* just being propagated.  A waiting arc without a _retry_count row may be *)
(* left behind by a restart (freeze_arc, _propagate_completion, the except *)
(* branch of handle_arc_dispatch, handle_child_failed).                    *)
Minded(a)    == \E i \in Runs(a) : i \in running \/ (loop.step = "self" /\ loop.item = i)
Finished(a)  == \A c \in Children(arcs, a) : arcs[c].status \in Done /\ Children(arcs, c) = {}
Unhappy(a)   == \E c \in Children(arcs, a) : arcs[c].status = "failed" \/ c \in overwritten
LeftBehind(a) == restarts > 0 /\ attempts[a] = -1

NoArcForgotten ==
  \A a \in Arcs :
    /\ arcs[a].status = "active" => Minded(a) \/ Unhappy(a)
    /\ arcs[a].status = "waiting" /\ Finished(a) =>
         \/ Minded(a) \/ work[<<"retry", a>>] = "pending" \/ LeftBehind(a)
         \/ loop.step = "parent" /\ loop.at = a

(* _enqueue_ready_children: a child is ready if "No preceding required_pass *)
(* sibling has a non-pass verdict".                                         *)
RejectedStepsBlock == [][\A a \in Arcs : Starts(a) => VerdictsPass(arcs, a)]_vars

(* A tree of two levels in which nothing fails or is cancelled is completed *)
(* (HoldsEnd is about three), whatever restarts, retries and children that  *)
(* are created at any time do to the order of its steps.                    *)
Smooth == \A a \in Arcs : /\ arcs[a].status \notin {"failed", "cancelled"}
                           /\ arcs[a].parent \in {0, 1}

RootFinishes == []Smooth => <>(arcs[1].status = "completed")

(* _recover_on_startup: only the waiting arcs with a retry outstanding are  *)
(* "coerced back to pending"; a parent that waits for its children keeps    *)
(* waiting.                                                                 *)
RecoveryKeepsHolds ==
  [][restarts' # restarts =>
       \A a \in Arcs \ backoff : arcs[a].status = "waiting" => arcs'[a].status = "waiting"]_vars

(* _propagate_completion: "the parent transitions to completed/failed once  *)
(* all its children are frozen".                                            *)
HoldsEnd ==
  [](overwritten = {}) =>
    \A p \in Arcs :
      (/\ arcs[p].status = "waiting" /\ p \notin backoff
       /\ \A c \in Children(arcs, p) : arcs[c].status \in Frozen)
        ~> arcs[p].status # "waiting"

(* handle_child_failed tells the re-invoked parent to "Create alternative   *)
(* child arcs": the child it adds is started, unless the parent is frozen   *)
(* (or a late cancel writes over an arc).                                   *)
AddsAlternative(t, p) ==
  /\ call[t].op = "add" /\ call[t].parent = p
  /\ \E b \in Children(arcs, p) : <<"child_failed", b>> \in running

AlternativesStart ==
  [](overwritten = {}) =>
    \A t \in Threads, p \in Arcs, c \in Arcs :
      ~Exists(c) /\ AddsAlternative(t, p)
        ~> arcs[c].status \notin {"absent", "pending"} \/ arcs[p].status \in Frozen
=============================================================================
