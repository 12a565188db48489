--------------------------- MODULE SupervisorWake ---------------------------
(***************************************************************************)
(* A SUPERVISOR arc waits for failures of the arcs below it.  The thread   *)
(* that fails a child appends a record to a list kept in arc_state         *)
(* (core/arcs/manager.py, _notify_supervisor_parent) and enqueues a wake   *)
(* under one key; the wake's handler reads and clears the list and         *)
(* enqueues a dispatch with the records                                    *)
(* (core/arcs/supervisor_wake_handler.py); the dispatch runs the agent     *)
(* (core/arcs/dispatch_handler.py).                                        *)
(*                                                                         *)
(* db_transaction opens SQLite's transaction at the first write: the read  *)
(* of the list and its write are two steps, in the append and in the clear.*)
(***************************************************************************)
EXTENDS Integers, FiniteSets

CONSTANTS
    Children,       \* the arcs that may fail
    Raising,        \* agents and enqueues may raise
    MaxStops        \* bound on ends of the process

VARIABLES
    child,      \* each child, and how far its failure has been noted
    snap,       \* the list as the thread that notes a failure read it
    list,       \* _pending_failures
    wake,       \* the work item supervisor_wake:<id>
    stage,      \* the wake's handler
    got,        \* the records it read
    items,      \* records of the dispatch items not yet claimed
    agents,     \* records of the dispatches whose agent runs
    heard,      \* records an agent was invoked with, to its end
    status,     \* the supervisor
    retry_row,  \* the supervisor has a _retry_count in arc_state
    up, stops,  \* the process
    excused     \* records one of the windows named below has touched

failing == <<child, snap>>
waking  == <<wake, stage, got>>
serving == <<items, agents, heard, status>>
life    == <<up, stops, retry_row>>
vars    == <<failing, list, waking, serving, life, excused>>

ChildStates == {"running", "failed", "noticed", "read", "appended", "told", "unheard"}

TypeOK ==
    /\ child \in [Children -> ChildStates]
    /\ snap \in [Children -> SUBSET Children]
    /\ list \subseteq Children /\ got \subseteq Children /\ heard \subseteq Children
    /\ wake \in {"none", "pending", "claimed"}
    /\ stage \in {"idle", "taken", "read", "cleared"}
    /\ stage # "idle" => wake = "claimed"
    /\ items \subseteq SUBSET Children /\ agents \subseteq SUBSET Children
    /\ {} \notin items \cup agents
    /\ status \in {"waiting", "active", "pending", "failed"}
    /\ retry_row \in BOOLEAN /\ up \in BOOLEAN /\ stops \in 0..MaxStops
    /\ excused \subseteq Children

(* create_arc gives the arc a _retry_count unless it was created inside    *)
(* somebody else's transaction (a template).                               *)
Init ==
    /\ child = [c \in Children |-> "running"]
    /\ snap = [c \in Children |-> {}]
    /\ list = {} /\ got = {} /\ items = {} /\ agents = {} /\ heard = {}
    /\ wake = "none" /\ stage = "idle" /\ status = "waiting"
    /\ retry_row \in BOOLEAN
    /\ up = TRUE /\ stops = 0 /\ excused = {}

(***************************************************************************)
(* A child fails: its status is committed, then the supervisor is told.    *)
(***************************************************************************)
ChildFails(c) ==
    /\ up /\ child[c] = "running"
    /\ child' = [child EXCEPT ![c] = "failed"]
    /\ UNCHANGED <<snap, list, waking, serving, life, excused>>

(* _notify_parent_of_failure looks for a supervisor that is waiting, and   *)
(* reads the list of the one it found; a supervisor that is not waiting    *)
(* hears nothing of this failure.                                          *)
NoticeFinds(c) ==
    /\ up /\ child[c] = "failed" /\ status = "waiting"
    /\ child' = [child EXCEPT ![c] = "noticed"]
    /\ UNCHANGED <<snap, list, waking, serving, life, excused>>

NoticeReads(c) ==
    /\ up /\ child[c] = "noticed"
    /\ child' = [child EXCEPT ![c] = "read"]
    /\ snap' = [snap EXCEPT ![c] = list]
    /\ UNCHANGED <<list, waking, serving, life, excused>>

NoticeSkipped(c) ==
    /\ up /\ child[c] = "failed" /\ status # "waiting"
    /\ child' = [child EXCEPT ![c] = "unheard"]
    /\ excused' = excused \cup {c}
    /\ UNCHANGED <<snap, list, waking, serving, life>>

(* The list as read, with the new record: what came or went in between is  *)
(* overwritten or brought back.                                            *)
Appended(c) == snap[c] \cup {c}

NoticeAppends(c) ==
    /\ up /\ child[c] = "read"
    /\ list' = Appended(c)
    /\ excused' = excused \cup (list \ snap[c]) \cup (snap[c] \ list)
    /\ child' = [child EXCEPT ![c] = "appended"]
    /\ snap' = [snap EXCEPT ![c] = {}]
    /\ UNCHANGED <<waking, serving, life>>

(* enqueue under the supervisor's key: an item not yet finished wins, even *)
(* if its handler has already cleared the list.                            *)
WakeDroppedSlip  == wake
RevivedSlip      == "pending"
WakeEnqueued     == IF wake = "none" THEN "pending" ELSE wake

NoticeEnqueues(c) ==
    /\ up /\ child[c] = "appended"
    /\ wake' = WakeEnqueued
    /\ excused' = IF stage = "cleared" THEN excused \cup list ELSE excused
    /\ child' = [child EXCEPT ![c] = "told"]
    /\ UNCHANGED <<snap, list, stage, got, serving, life>>

(* An enqueue that raises is logged; the record stays on the list.         *)
NoticeFails(c) ==
    /\ Raising /\ up /\ child[c] = "appended"
    /\ child' = [child EXCEPT ![c] = "told"]
    /\ excused' = excused \cup list
    /\ UNCHANGED <<snap, list, waking, serving, life>>

(***************************************************************************)
(* handle_supervisor_wake.                                                 *)
(***************************************************************************)
ClaimWake ==
    /\ up /\ wake = "pending"
    /\ wake' = "claimed" /\ stage' = "taken"
    /\ UNCHANGED <<failing, list, got, serving, life, excused>>

(* A supervisor that is not waiting is left alone; what is on the list     *)
(* stays there until the next failure.                                     *)
WakeSkips ==
    /\ stage = "taken" /\ status # "waiting"
    /\ wake' = "none" /\ stage' = "idle"
    /\ excused' = excused \cup list
    /\ UNCHANGED <<failing, list, got, serving, life>>

WakeReads ==
    /\ stage = "taken" /\ status = "waiting"
    /\ got' = list
    /\ stage' = "read"
    /\ UNCHANGED <<failing, list, wake, serving, life, excused>>

ClearedSlip == list
Cleared     == {}

WakeClears ==
    /\ stage = "read"
    /\ list' = Cleared
    /\ excused' = excused \cup (list \ got)
    /\ stage' = "cleared"
    /\ UNCHANGED <<failing, wake, got, serving, life>>

(* The dispatch has a key of its own, so that it is always enqueued; an    *)
(* empty list enqueues none.                                               *)
WakeDispatches ==
    /\ stage = "cleared"
    /\ items' = IF got = {} THEN items ELSE items \cup {got}
    /\ wake' = "none" /\ stage' = "idle" /\ got' = {}
    /\ UNCHANGED <<failing, list, agents, heard, status, life, excused>>

(* The enqueue raises: the wake is tried again, the list is empty by then. *)
WakeRaises ==
    /\ Raising /\ stage = "cleared"
    /\ wake' = "pending" /\ stage' = "idle" /\ got' = {}
    /\ excused' = excused \cup got
    /\ UNCHANGED <<failing, list, serving, life>>

(***************************************************************************)
(* The dispatch.  A supervisor may be woken again while it is active or    *)
(* has become pending; only an ended one is left alone.                    *)
(***************************************************************************)
DispatchableSlip == status \in {"pending", "active"}
Dispatchable     == status # "failed"

RunAgent(i) ==
    /\ up /\ i \in items
    /\ Dispatchable
    /\ items' = items \ {i} /\ agents' = agents \cup {i}
    /\ status' = "active"
    /\ UNCHANGED <<failing, list, waking, heard, life, excused>>

SkipDispatch(i) ==
    /\ up /\ i \in items /\ status = "failed"
    /\ items' = items \ {i}
    /\ excused' = excused \cup i
    /\ UNCHANGED <<failing, list, waking, agents, heard, status, life>>

(* freeze_arc puts a supervisor with a failed or unfinished child back to  *)
(* waiting.                                                                *)
Frozen == IF status = "active" THEN "waiting" ELSE status

AgentReturns(i) ==
    /\ up /\ i \in agents
    /\ agents' = agents \ {i} /\ heard' = heard \cup i
    /\ status' = Frozen
    /\ UNCHANGED <<failing, list, waking, items, life, excused>>

(* The retry's dispatch carries the arc only, neither the flag nor the     *)
(* records, and is skipped as any dispatch of a supervisor; without        *)
(* retries left the supervisor fails.                                      *)
AgentRaises(i) ==
    /\ Raising /\ up /\ i \in agents
    /\ agents' = agents \ {i}
    /\ status' \in {Frozen, "failed"}
    /\ excused' = excused \cup i
    /\ UNCHANGED <<failing, list, waking, items, heard, life>>

(***************************************************************************)
(* The process ends and is started again: claimed items are handed out     *)
(* again; an active supervisor becomes pending, and so does a waiting one  *)
(* that has a _retry_count.                                                *)
(***************************************************************************)
Crash ==
    /\ up /\ stops < MaxStops
    /\ up' = FALSE /\ stops' = stops + 1
    /\ child' = [c \in Children |->
           IF child[c] \in {"failed", "noticed", "read"} THEN "unheard"
           ELSE IF child[c] = "appended" THEN "told" ELSE child[c]]
    /\ snap' = [c \in Children |-> {}]
    /\ excused' = excused
           \cup {c \in Children : child[c] \in {"failed", "noticed", "read"}}
           \cup (IF wake = "none" THEN {c \in Children : child[c] = "appended"} ELSE {})
           \cup (IF stage = "cleared" THEN got ELSE {})
    /\ stage' = "idle" /\ got' = {}
    /\ UNCHANGED <<list, wake, serving, retry_row>>

Recover ==
    /\ ~up
    /\ up' = TRUE
    /\ wake' = IF wake = "claimed" THEN "pending" ELSE wake
    /\ items' = items \cup agents
    /\ agents' = {}
    /\ status' = IF status = "active" \/ (status = "waiting" /\ retry_row)
                 THEN "pending" ELSE status
    /\ UNCHANGED <<failing, list, stage, got, heard, stops, retry_row, excused>>

Next ==
    \/ \E c \in Children :
          \/ ChildFails(c) \/ NoticeFinds(c) \/ NoticeSkipped(c) \/ NoticeReads(c)
          \/ NoticeAppends(c) \/ NoticeEnqueues(c) \/ NoticeFails(c)
    \/ ClaimWake \/ WakeSkips \/ WakeReads \/ WakeClears \/ WakeDispatches \/ WakeRaises
    \/ \E i \in SUBSET Children :
          RunAgent(i) \/ SkipDispatch(i) \/ AgentReturns(i) \/ AgentRaises(i)
    \/ Crash \/ Recover

Spec == Init /\ [][Next]_vars

(* Threads and handlers go on, a process that is down is started again.    *)
NoticeGoesOn(c) == \/ NoticeFinds(c) \/ NoticeSkipped(c) \/ NoticeReads(c)
                   \/ NoticeAppends(c) \/ NoticeEnqueues(c) \/ NoticeFails(c)
WakeGoesOn      == \/ ClaimWake \/ WakeSkips \/ WakeReads
                   \/ WakeClears \/ WakeDispatches \/ WakeRaises
DispatchGoesOn  == \E i \in SUBSET Children :
                      RunAgent(i) \/ SkipDispatch(i) \/ AgentReturns(i) \/ AgentRaises(i)

Fairness ==
    /\ WF_vars(Recover)
    /\ \A c \in Children : WF_vars(NoticeGoesOn(c))
    /\ WF_vars(WakeGoesOn) /\ WF_vars(DispatchGoesOn)

FairSpec == Spec /\ Fairness

(***************************************************************************)
(* Properties                                                              *)
(***************************************************************************)

(* Where a record can be: on the list, in the hands of the wake's handler  *)
(* after it cleared the list, in a dispatch waiting or running, told.      *)
Places(c) ==
    Cardinality({i \in items \cup agents : c \in i})
    + (IF c \in list THEN 1 ELSE 0)
    + (IF stage = "cleared" /\ c \in got THEN 1 ELSE 0)
    + (IF c \in heard THEN 1 ELSE 0)

Recorded == {c \in Children : child[c] \in {"appended", "told"}}

(* A recorded failure is in exactly one place, never lost and never told   *)
(* twice, unless a read and a write of the list overlapped another's, the  *)
(* process ended or something raised in the middle, or the supervisor was  *)
(* not waiting (manager._notify_supervisor_parent, handle_supervisor_wake).*)
RecordsKept == \A c \in Recorded \ excused : Places(c) = 1

(* A record on the list has a wake coming, so that no failure waits for    *)
(* the next one to be noticed: unless the wake found the supervisor not    *)
(* waiting, or the record came after the list was cleared and before the   *)
(* wake was finished (the key supervisor_wake:<id> of both).               *)
WakeComing ==
    list \subseteq excused
    \/ (wake # "none" /\ stage # "cleared")
    \/ \E c \in Children : child[c] = "appended"

(* Every failure reaches an agent, unless it met one of those windows.     *)
FailuresHeard ==
    <>[](\A c \in Children : child[c] # "running" => c \in heard \cup excused)
=============================================================================
