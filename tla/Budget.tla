------------------------------- MODULE Budget -------------------------------
(***************************************************************************)
(* The breaker of spending (core/budget.py): limits are measured over the  *)
(* recorded calls, the two severe ones latch in the database until an      *)
(* operator clears them, and a summary is kept in memory for a few         *)
(* seconds.  Threads ask it before each paid call, the heartbeat before    *)
(* autonomous work; operators command it in chat or from a shell           *)
(* (cli_budget.py), which is a process with a summary and a lock of its    *)
(* own.  Each call counts for one; warnings are left out.                  *)
(***************************************************************************)
EXTENDS Integers, FiniteSets

CONSTANTS
    Callers,        \* threads that make paid calls
    Loop,           \* the event loop: autonomous_allowed
    Operators,      \* who commands the breaker
    Shell,          \* those of them in a process of their own
    Thresholds,     \* the configured threshold of each limit
    Offers,         \* pairs of a limit and a threshold an operator may set
    MaxSpent,       \* bound on the calls of a window
    MaxBegun,       \* bound on the calls begun on summaries
    MaxCommands     \* bound on commands, restarts and failed evaluations

(* One limit of each action that blocks.                                   *)
Limits   == {"cap", "restrict", "shutdown"}
Latching == {"restrict", "shutdown"}

Parameters ==
    /\ IsFiniteSet(Callers) /\ Shell \subseteq Operators
    /\ Loop \notin Callers /\ Loop \notin Operators /\ Callers \cap Operators = {}
    /\ Thresholds \in [Limits -> Nat \ {0}] /\ Offers \subseteq Limits \X (Nat \ {0})
    /\ MaxCommands \in Nat /\ MaxSpent \in Nat /\ MaxBegun \in Nat

VARIABLES
    spent,      \* calls of the window in table api_calls
    latched,    \* budget_state: the latches that are active
    overrides,  \* budget_state: thresholds set by operators, 0 for none
    enabled,    \* budget_state: enabled_override
    cache,      \* _cached_summary: what blocks
    fresh,      \* it is younger than eval_interval_seconds
    step,       \* where everybody is
    found,      \* what an evaluation in progress has found
    active,     \* the latches its _latch calls have found active
    held,       \* the overrides an operator has read
    commands,   \* commands, restarts and failed evaluations so far
    begun,      \* history: calls begun on a summary, or let through by a
                \* resume, since spending was last measured below the limit
    ceiling,    \* history: the highest shutdown threshold of the window
    freed,      \* history: a call of the window was begun with the breaker off
    foreign     \* history: a shell has changed the latches since they were read

table   == <<spent, latched, overrides, enabled>>
memory  == <<cache, fresh>>
history == <<begun, ceiling, freed, foreign>>
vars    == <<table, memory, step, found, active, held, commands, history>>

Evaluators == Callers \cup {Loop} \cup Operators
NoSummary  == {"none"}
NoOverride == [l \in Limits |-> 0]

TypeOK ==
    /\ spent \in Nat /\ latched \subseteq Latching /\ enabled \in BOOLEAN
    /\ overrides \in [Limits -> Nat]
    /\ cache \in (SUBSET Limits) \cup {NoSummary} /\ fresh \in BOOLEAN
    /\ step \in [Evaluators -> {"idle", "evaluate", "measured", "reading", "read",
                                 "calling", "half", "override", "drop"}]
    /\ \A c \in Callers : step[c] \in {"idle", "evaluate", "measured", "reading", "read", "calling"}
    /\ step[Loop] \in {"idle", "evaluate", "measured", "reading", "read"}
    /\ \A o \in Operators : step[o] \in {"idle", "evaluate", "measured", "reading", "read",
                                          "half", "override", "drop"}
    /\ found \in [Evaluators -> SUBSET Limits] /\ active \in [Evaluators -> SUBSET Latching]
    /\ held \in [Operators -> [Limits -> Nat]]
    /\ commands \in 0 .. MaxCommands
    /\ begun \in Nat /\ ceiling \in Nat \ {0} /\ freed \in BOOLEAN /\ foreign \in BOOLEAN

Init ==
    /\ spent = 0 /\ latched = {} /\ overrides = NoOverride /\ enabled = TRUE
    /\ cache = NoSummary /\ fresh = FALSE
    /\ step = [e \in Evaluators |-> "idle"]
    /\ found = [e \in Evaluators |-> {}] /\ active = [e \in Evaluators |-> {}]
    /\ held = [o \in Operators |-> NoOverride]
    /\ commands = 0
    /\ begun = 0 /\ ceiling = Thresholds["shutdown"] /\ freed = FALSE /\ foreign = FALSE

(* _effective_limits                                                       *)
Effective(set, l) == IF set[l] # 0 THEN set[l] ELSE Thresholds[l]

OverSlip == {l \in Limits : spent > Effective(overrides, l)}
Over     == {l \in Limits : spent >= Effective(overrides, l)}

At(e, p)    == step[e] = p
Go(e, p)    == step' = [step EXCEPT ![e] = p]
Outstanding == {c \in Callers : At(c, "calling")}

(* _eval_lock of the server.                                               *)
Locked == \E e \in Evaluators \ Shell : step[e] \in {"measured", "reading", "read"}

(* Against the bound.                                                      *)
Counted == commands < MaxCommands /\ commands' = commands + 1

-----------------------------------------------------------------------------
(* guard_paid_call: a latched kill-switch raises at once.                  *)
Guard(c) ==
    /\ At(c, "idle") /\ spent + Cardinality(Outstanding) < MaxSpent
    /\ \/ ~enabled /\ Go(c, "calling") /\ freed' = TRUE
       \/ enabled /\ "shutdown" \notin latched /\ Go(c, "evaluate") /\ UNCHANGED freed
    /\ UNCHANGED <<table, memory, found, active, held, commands, begun, ceiling, foreign>>

(* What the caller of _evaluate does with the summary.                     *)
Decide(e, summary) ==
    Go(e, IF e \in Callers /\ "shutdown" \notin summary THEN "calling" ELSE "idle")

(* autonomous_allowed                                                      *)
LoopAsks ==
    /\ At(Loop, "idle") /\ enabled /\ Go(Loop, "evaluate")
    /\ UNCHANGED <<table, memory, found, active, held, commands, history>>

(* _evaluate asks once more whether the breaker is on, for a guard.        *)
PassDisabled(c) ==
    /\ At(c, "evaluate") /\ ~enabled
    /\ Decide(c, {})
    /\ freed' = TRUE
    /\ UNCHANGED <<table, memory, found, active, held, commands, begun, ceiling, foreign>>

UsableSlip == cache # NoSummary
Usable     == cache # NoSummary /\ fresh

(* _evaluate within the interval.                                          *)
UseSummary(e) ==
    /\ At(e, "evaluate") /\ e \notin Operators /\ ~Locked /\ Usable
    /\ e \in Callers => begun < MaxBegun
    /\ Decide(e, cache)
    /\ begun' = IF e \in Callers /\ "shutdown" \notin cache THEN begun + 1 ELSE begun
    /\ UNCHANGED <<table, memory, found, active, held, commands, ceiling, freed, foreign>>

(* _evaluate measures: before its first write it holds its own lock only.  *)
(* status() measures whatever the summary's age.                           *)
Measure(e) ==
    /\ At(e, "evaluate") /\ (e \in Operators \/ ~Usable) /\ (e \in Shell \/ ~Locked)
    /\ Go(e, "measured")
    /\ found' = [found EXCEPT ![e] = Over]
    /\ begun' = IF e \notin Shell /\ "shutdown" \notin Over THEN 0 ELSE begun
    /\ UNCHANGED <<table, memory, active, held, commands, ceiling, freed, foreign>>

(* _latch writes nothing when it finds its latch active, and until          *)
(* something is written no transaction is open.                             *)
LatchActive(e, l) ==
    /\ At(e, "measured") /\ l \in (found[e] \cap latched) \ active[e]
    /\ active' = [active EXCEPT ![e] = @ \cup {l}]
    /\ UNCHANGED <<table, memory, step, found, held, commands, history>>

ToLatch(e) == (found[e] \cap Latching) \ active[e]

(* It writes; the latches still to come are checked, and both are read at   *)
(* the end, in the transaction of the write.                                *)
Findings(e)     == (found[e] \cap {"cap"}) \cup latched'

(* A call begins, although the measure was too high, when a resume has      *)
(* come in between.                                                         *)
Pardoned(e) == e \in Callers /\ "shutdown" \in active[e] \ latched
Counts(e)   == begun' = IF Pardoned(e) THEN begun + 1 ELSE begun

(* A shell reads or sets latches that the server has not read.              *)
LatchesRead(e) == foreign' = (e \in Shell /\ (foreign \/ latched' # latched))

Latch(e) ==
    /\ At(e, "measured") /\ ~ToLatch(e) \subseteq latched
    /\ latched' = latched \cup ToLatch(e)
    /\ found' = [found EXCEPT ![e] = Findings(e)]
    /\ active' = [active EXCEPT ![e] = {}]
    /\ Go(e, "read")
    /\ LatchesRead(e) /\ Counts(e)
    /\ UNCHANGED <<spent, overrides, enabled, memory, held, commands, ceiling, freed>>

(* Nothing was written: the two latches are read one by one, outside of any *)
(* transaction, and a resume may come before either.                        *)
Reread(e, l) == (found[e] \ {l}) \cup (latched \cap {l})

ReadRestrict(e) ==
    /\ At(e, "measured") /\ ToLatch(e) = {}
    /\ found' = [found EXCEPT ![e] = Reread(e, "restrict")]
    /\ Go(e, "reading")
    /\ UNCHANGED latched /\ LatchesRead(e)
    /\ UNCHANGED <<spent, overrides, enabled, memory, active, held, commands, begun, ceiling, freed>>

ReadShutdown(e) ==
    /\ At(e, "reading")
    /\ found' = [found EXCEPT ![e] = Reread(e, "shutdown")]
    /\ active' = [active EXCEPT ![e] = {}]
    /\ Go(e, "read")
    /\ Counts(e)
    /\ UNCHANGED <<table, memory, held, commands, ceiling, freed, foreign>>

(* The database raises: the transaction is rolled back and the lock freed  *)
(* (between the two reads it would leave the same behind).                 *)
EvaluationRaises(e) ==
    /\ At(e, "measured") /\ Counted
    /\ Go(e, "idle")
    /\ found' = [found EXCEPT ![e] = {}] /\ active' = [active EXCEPT ![e] = {}]
    /\ UNCHANGED <<table, memory, held, history>>

(* After the notices, which may take a while, the summary is published.    *)
Publish(e) ==
    /\ At(e, "read")
    /\ IF e \in Shell THEN UNCHANGED memory ELSE cache' = found[e] /\ fresh' = TRUE
    /\ Decide(e, found[e])
    /\ found' = [found EXCEPT ![e] = {}]
    /\ UNCHANGED <<table, active, held, commands, history>>

(* The call is answered and _save_api_call writes its row.                 *)
Record(c) ==
    /\ At(c, "calling") /\ Go(c, "idle")
    /\ spent' = spent + 1
    /\ UNCHANGED <<latched, overrides, enabled, memory, found, active, held, commands, history>>

(* The call raises, or the write of its row does.                          *)
CallFails(c) ==
    /\ At(c, "calling") /\ Go(c, "idle")
    /\ UNCHANGED <<table, memory, found, active, held, commands, history>>

-----------------------------------------------------------------------------
(* Operators                                                               *)

Commands(o) == At(o, "idle") /\ Counted

(* status                                                                  *)
StatusBegins(o) ==
    /\ Commands(o) /\ enabled /\ Go(o, "evaluate")
    /\ UNCHANGED <<table, memory, found, active, held, history>>

(* A shell has no summary of the server's to drop.                         *)
Returns(o) == Go(o, IF o \in Shell THEN "idle" ELSE "drop")

Clear(o, latch) ==
    /\ latched' = latched \ {latch}
    /\ foreign' = (foreign \/ (o \in Shell /\ latch \in latched))
    /\ UNCHANGED <<spent, overrides, enabled, memory, found, active, held, begun, ceiling, freed>>

(* resume: the latches go one by one.                                      *)
ResumeBegins(o)  == Commands(o) /\ Go(o, "half") /\ Clear(o, "restrict")
ResumeGoesOn(o)  == At(o, "half") /\ Returns(o) /\ Clear(o, "shutdown") /\ UNCHANGED commands

(* set_threshold_override reads all overrides and writes all of them.      *)
OverrideReads(o) ==
    /\ Commands(o) /\ Go(o, "override")
    /\ held' = [held EXCEPT ![o] = overrides]
    /\ UNCHANGED <<table, memory, found, active, history>>

Raised(set) == IF Effective(set, "shutdown") > ceiling THEN Effective(set, "shutdown") ELSE ceiling

OverrideWrites(o) ==
    /\ At(o, "override") /\ Returns(o)
    /\ \E offer \in Offers : overrides' = [held[o] EXCEPT ![offer[1]] = offer[2]]
    /\ held' = [held EXCEPT ![o] = NoOverride]
    /\ ceiling' = Raised(overrides')
    /\ UNCHANGED <<spent, latched, enabled, memory, found, active, commands, begun, freed, foreign>>

SetEnabled(o) ==
    /\ Commands(o) /\ Returns(o)
    /\ enabled' \in BOOLEAN
    /\ UNCHANGED <<spent, latched, overrides, memory, found, active, held, history>>

(* The end of each command in the server.                                  *)
DropSlip == UNCHANGED memory
Dropped  == cache' = NoSummary /\ fresh' = FALSE

DropSummary(o) ==
    /\ At(o, "drop") /\ ~Locked /\ Go(o, "idle")
    /\ Dropped
    /\ UNCHANGED <<table, found, active, held, commands, history>>

-----------------------------------------------------------------------------
(* An override expires.  An operator's older copy may bring it back, which *)
(* the code allows only when the copy has a later expiry.                  *)
Revert(l) ==
    /\ overrides[l] # 0
    /\ overrides' = [overrides EXCEPT ![l] = 0]
    /\ ceiling' = Raised(overrides')
    /\ UNCHANGED <<spent, latched, enabled, memory, step, found, active, held,
                   commands, begun, freed, foreign>>

(* eval_interval_seconds have passed.                                      *)
IntervalEnds ==
    /\ fresh /\ fresh' = FALSE
    /\ UNCHANGED <<table, cache, step, found, active, held, commands, history>>

(* The window has drained.                                                 *)
Drain ==
    /\ spent > 0 /\ spent' = 0
    /\ ceiling' = Effective(overrides, "shutdown")
    /\ freed' = (freed /\ Outstanding # {})
    /\ UNCHANGED <<latched, overrides, enabled, memory, step, found, active, held,
                   commands, begun, foreign>>

(* The server is started again; shells go on.                              *)
Restart ==
    /\ Counted
    /\ cache' = NoSummary /\ fresh' = FALSE
    /\ step' = [e \in Evaluators |-> IF e \in Shell THEN step[e] ELSE "idle"]
    /\ found' = [e \in Evaluators |-> IF e \in Shell THEN found[e] ELSE {}]
    /\ active' = [e \in Evaluators |-> IF e \in Shell THEN active[e] ELSE {}]
    /\ held' = [o \in Operators |-> IF o \in Shell THEN held[o] ELSE NoOverride]
    /\ UNCHANGED <<table, history>>

Evaluates(e) ==
    \/ \E l \in Latching : LatchActive(e, l)
    \/ Latch(e) \/ ReadRestrict(e) \/ ReadShutdown(e) \/ Publish(e)

Next ==
    \/ \E c \in Callers : Guard(c) \/ PassDisabled(c) \/ Record(c) \/ CallFails(c)
    \/ LoopAsks
    \/ \E e \in Evaluators : UseSummary(e) \/ Measure(e) \/ Evaluates(e) \/ EvaluationRaises(e)
    \/ \E o \in Operators :
          \/ ResumeBegins(o) \/ ResumeGoesOn(o) \/ OverrideReads(o) \/ OverrideWrites(o)
          \/ SetEnabled(o) \/ StatusBegins(o) \/ DropSummary(o)
    \/ \E l \in Limits : Revert(l)
    \/ IntervalEnds \/ Drain \/ Restart

Spec == Init /\ [][Next]_vars

(* Time passes, somebody gets the lock, an evaluation that has begun goes  *)
(* on, and the database is not locked for ever.                            *)
SomeoneEvaluates == \E e \in Evaluators : UseSummary(e) \/ Measure(e)
EvaluationGoesOn == \E e \in Evaluators : Evaluates(e)

Fairness == WF_vars(IntervalEnds) /\ WF_vars(SomeoneEvaluates) /\ WF_vars(EvaluationGoesOn)

(* The heartbeat keeps coming.                                             *)
Watching == WF_vars(LoopAsks)

FairSpec == Spec /\ Fairness /\ Watching

-----------------------------------------------------------------------------
(* Properties                                                              *)

(* What is spent in a window, with the calls under way, exceeds what the   *)
(* kill-switch allows by at most one call of each thread, those begun on   *)
(* one summary, and one for each resume that falls between the check of    *)
(* the latch and the reads of an evaluation: nothing else that operators   *)
(* do, nor a restart, opens more, as long as the breaker is on             *)
(* (guard_paid_call, _evaluate, _latch).                                   *)
SpendBounded ==
    freed \/ spent + Cardinality(Outstanding) <= ceiling - 1 + Cardinality(Callers) + begun

(* Whoever decides on the summary in memory decides as the latches in the  *)
(* database say: neither an evaluation that overlaps a resume nor a latch  *)
(* set in the meantime leaves an old answer behind, but for what a shell   *)
(* has changed, and until a command in the server returns                  *)
(* (_cached_summary, resume).                                              *)
SummaryAgrees ==
    \/ cache = NoSummary \/ Locked \/ foreign
    \/ \E o \in Operators \ Shell : step[o] \in {"half", "drop"}
    \/ cache \cap Latching = latched

(* When no latch is set and no limit is reached any more, the summary says *)
(* so again and again and autonomous work goes on: the cap clears itself,  *)
(* and what a shell has changed reaches the server (cli_budget.py).        *)
Unblocked == cache = {} \/ latched # {} \/ Over # {} \/ ~enabled
Released  == []<>Unblocked
=============================================================================
