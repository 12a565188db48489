----------------------------- MODULE CronTimers -----------------------------
(***************************************************************************)
(* Cron entries and one-shot timers: trigger_manager.py.  check_cron runs  *)
(* on the main loop in two parts, a SELECT of the due entries outside any  *)
(* transaction and the writes it decides on; add_cron, add_once,           *)
(* remove_cron and enable_cron are called from worker threads.             *)
(***************************************************************************)
EXTENDS Naturals, FiniteSets

CONSTANTS
  Names,    \* names of cron entries
  MaxTime,  \* bound: the last instant explored
  MaxId     \* bound: the largest row id given out

ASSUME BoundsAssumption == MaxTime \in Nat /\ MaxId \in Nat

VARIABLES
  now,      \* the clock
  entries,  \* table cron_entries by name: {} or the set of its one row
  emitted,  \* idempotency keys of the timer.fired events: <<cron id, fire time>>
  allowed,  \* budget.autonomous_allowed()
  pc,       \* "idle" or "write": check_cron holds a SELECT's result
  due,      \* that result: rows with their name
  read_at,  \* the instant check_cron took as now
  owed,     \* history: what each name's last caller still has coming
  raced,    \* history: names last scheduled while check_cron held its result
  repeated  \* history: names last scheduled for an instant already emitted

vars == <<now, entries, emitted, allowed, pc, due, read_at, owed, raced, repeated>>

Times == 0 .. MaxTime
Nothing == [fire |-> MaxTime + 2, once |-> TRUE]
Ids   == 1 .. MaxId
Row   == [id : Ids, next_fire_at : 0 .. MaxTime + 1, one_shot : BOOLEAN, enabled : BOOLEAN]

Exists(n) == entries[n] # {}
TheRow(n) == CHOOSE r \in entries[n] : TRUE

TypeOK ==
  /\ now \in Times
  /\ entries \in [Names -> SUBSET Row] /\ \A n \in Names : Cardinality(entries[n]) <= 1
  /\ emitted \subseteq Ids \X (0 .. MaxTime + 1)
  /\ allowed \in BOOLEAN
  /\ pc \in {"idle", "write"}
  /\ due \subseteq [name : Names, row : Row]
  /\ read_at \in Times
  /\ owed \in [Names -> [fire : 0 .. MaxTime + 2, once : BOOLEAN]]
  /\ raced \subseteq Names /\ repeated \subseteq Names

Init ==
  /\ now = 0 /\ entries = [n \in Names |-> {}] /\ emitted = {} /\ allowed = TRUE
  /\ pc = "idle" /\ due = {} /\ read_at = 0
  /\ owed = [n \in Names |-> Nothing] /\ raced = {} /\ repeated = {}

-----------------------------------------------------------------------------
(* The id of an existing row, or the largest id plus one (no AUTOINCREMENT). *)
IdFor(n, id) ==
  IF Exists(n) THEN id = TheRow(n).id
  ELSE /\ \A m \in Names : Exists(m) => TheRow(m).id < id
       /\ id # 1 => \E m \in Names : Exists(m) /\ TheRow(m).id = id - 1

Marked(S, n, yes) == IF yes THEN S \cup {n} ELSE S \ {n}

(* INSERT or UPDATE by name, in one transaction: the entry is enabled and   *)
(* gets the new fire time and kind.                                         *)
Schedule(n, fire, once) ==
  /\ \E id \in Ids :
       /\ IdFor(n, id)
       /\ entries' = [entries EXCEPT ![n] =
            {[id |-> id, next_fire_at |-> fire, one_shot |-> once, enabled |-> TRUE]}]
       /\ repeated' = Marked(repeated, n, <<id, fire>> \in emitted)
  /\ owed' = [owed EXCEPT ![n] = [fire |-> fire, once |-> once]]
  /\ raced' = Marked(raced, n, pc = "write")
  /\ UNCHANGED <<now, emitted, allowed, pc, due, read_at>>

(* add_once takes any instant, the past included. *)
AddOnce(n) == \E t \in Times : Schedule(n, t, TRUE)

(* add_cron: croniter's next instant after now; every expression is taken   *)
(* to fire at each instant.                                                 *)
AddCron(n) == Schedule(n, now + 1, FALSE)

RemoveCron(n) ==
  /\ Exists(n)
  /\ entries' = [entries EXCEPT ![n] = {}]
  /\ owed' = [owed EXCEPT ![n] = Nothing]
  /\ raced' = raced \ {n} /\ repeated' = repeated \ {n}
  /\ UNCHANGED <<now, emitted, allowed, pc, due, read_at>>

EnableCron(n, enabled) ==
  /\ Exists(n)
  /\ entries' = [entries EXCEPT ![n] = {[TheRow(n) EXCEPT !.enabled = enabled]}]
  /\ UNCHANGED <<now, emitted, allowed, pc, due, read_at, owed, raced, repeated>>

-----------------------------------------------------------------------------
CheckCronStrictSlip ==     \* next_fire_at < now
  /\ pc = "idle" /\ allowed
  /\ due' = {d \in [name : Names, row : UNION {entries[n] : n \in Names}] :
               d.row \in entries[d.name] /\ d.row.enabled /\ d.row.next_fire_at < now}
  /\ read_at' = now /\ pc' = "write"
  /\ UNCHANGED <<now, entries, emitted, allowed, owed, raced, repeated>>

(* check_cron: the budget gate and the SELECT. *)
CheckCron ==
  /\ pc = "idle" /\ allowed
  /\ due' = {d \in [name : Names, row : UNION {entries[n] : n \in Names}] :
               /\ d.row \in entries[d.name]
               /\ d.row.enabled /\ d.row.next_fire_at <= now}
  /\ read_at' = now
  /\ pc' = "write"
  /\ UNCHANGED <<now, entries, emitted, allowed, owed, raced, repeated>>

Key(d) == <<d.row.id, d.row.next_fire_at>>

AdvancedNoDeleteSlip(n) ==  \* a fired one-shot stays
  IF Exists(n) /\ \E d \in due : d.row.id = TheRow(n).id
  THEN {[TheRow(n) EXCEPT !.next_fire_at = read_at + 1]} ELSE entries[n]

(* DELETE the one-shots, move the others on, by id: whatever row carries    *)
(* the id by now, and as the kind that was read.                            *)
Advanced(n) ==
  IF Exists(n) /\ \E d \in due : d.row.id = TheRow(n).id
  THEN LET d == CHOOSE x \in due : x.row.id = TheRow(n).id IN
       IF d.row.one_shot THEN {} ELSE {[TheRow(n) EXCEPT !.next_fire_at = read_at + 1]}
  ELSE entries[n]

(* The events, INSERT OR IGNORE by key, and the rows, in one transaction.   *)
Fire ==
  /\ pc = "write"
  /\ emitted' = emitted \cup {Key(d) : d \in due}
  /\ entries' = [n \in Names |-> Advanced(n)]
  /\ owed' = [n \in Names |->
       IF \E d \in due : d.name = n /\ d.row.next_fire_at = owed[n].fire /\ Key(d) \notin emitted
       THEN IF owed[n].once THEN Nothing ELSE [fire |-> read_at + 1, once |-> FALSE]
       ELSE owed[n]]
  /\ pc' = "idle" /\ due' = {} /\ read_at' = 0
  /\ UNCHANGED <<now, allowed, raced, repeated>>

(* A crash, or an exception: everything decided so far is rolled back.      *)
Crash ==
  /\ pc = "write" /\ due # {}
  /\ pc' = "idle" /\ due' = {} /\ read_at' = 0
  /\ UNCHANGED <<now, entries, emitted, allowed, owed, raced, repeated>>

Tick ==
  /\ now < MaxTime
  /\ now' = now + 1
  /\ UNCHANGED <<entries, emitted, allowed, pc, due, read_at, owed, raced, repeated>>

BudgetTurns ==
  /\ allowed' = ~allowed
  /\ UNCHANGED <<now, entries, emitted, pc, due, read_at, owed, raced, repeated>>

-----------------------------------------------------------------------------
Next ==
  \/ \E n \in Names : \/ AddOnce(n) \/ AddCron(n) \/ RemoveCron(n)
                      \/ \E b \in BOOLEAN : EnableCron(n, b)
  \/ CheckCron \/ Fire \/ Crash \/ Tick \/ BudgetTurns

Spec == Init /\ [][Next]_vars

(* check_cron runs at every heartbeat; time passes.                         *)
FairSpec == Spec /\ WF_vars(CheckCron) /\ WF_vars(Fire) /\ WF_vars(Tick)

-----------------------------------------------------------------------------
(* Properties *)

(* The table holds for a name exactly what its last caller still has        *)
(* coming: a one-shot until its event is recorded, a recurring entry at its *)
(* next instant, nothing after removal.                                     *)
Kept(n) ==
  IF owed[n] = Nothing THEN entries[n] = {}
  ELSE \E r \in entries[n] : r.next_fire_at = owed[n].fire /\ r.one_shot = owed[n].once

(* Restarts in the middle of check_cron, the budget gate, disabled entries  *)
(* and reused row ids never make the table differ from what callers were    *)
(* told, except for a name rescheduled between the SELECT and the writes of *)
(* check_cron and one asked to fire at an instant already emitted.          *)
TimersKeptUnlessRaced == \A n \in Names : Kept(n) \/ n \in raced \cup repeated

(* Once the budget breaker stays off and no crash interrupts check_cron, a  *)
(* one-shot that stays enabled fires, with the same two exceptions.         *)
OneShotsFire ==
  (<>[]allowed /\ <>[][~Crash]_vars) =>
    \A n \in Names, t \in Times :
      (owed[n] = [fire |-> t, once |-> TRUE])
        ~> \/ owed[n] # [fire |-> t, once |-> TRUE]
           \/ \E r \in entries[n] : ~r.enabled
           \/ n \in raced \cup repeated
=============================================================================
