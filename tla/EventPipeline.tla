--------------------------- MODULE EventPipeline ---------------------------
(***************************************************************************)
(* The event log, its persistent subscriptions and its one-shot matchers:  *)
(* carpenter/core/engine/event_bus.py and subscriptions.py, in the order   *)
(* main_loop.run_loop calls them.                                          *)
(*                                                                         *)
(* The main loop reads the unprocessed events twice, once for the          *)
(* subscriptions and once for the matchers, and only the second pass marks *)
(* them processed.  It looks the matchers of its first event up before it  *)
(* has written anything, and so before it holds the write lock.  Worker    *)
(* threads and the HTTP server record events and register matchers between *)
(* any two steps; a crash rolls the open transaction back and starts the   *)
(* loop over.                                                              *)
(***************************************************************************)
EXTENDS Naturals, FiniteSets

CONSTANTS
  MaxEvents,    \* bound: the number of events recorded
  Types,        \* event types (type and payload, as far as filters look)
  TimeoutType,  \* "matcher.timeout"
  Subs,         \* loaded, enabled subscriptions
  SubMatches,   \* the pairs <<s, t>> that type, filter and package gate let pass
  Waits,        \* the registrations arcs make: one matcher each
  WaitMatches,  \* the pairs <<w, t>> a registration's type and filter let pass
  Expiring      \* the registrations made with a timeout_at

ASSUME MaxEventsAssumption   == MaxEvents \in Nat
ASSUME TimeoutTypeAssumption == TimeoutType \in Types
ASSUME MatchesAssumption     == SubMatches \subseteq Subs \X Types
                                /\ WaitMatches \subseteq Waits \X Types
ASSUME ExpiringAssumption    == Expiring \subseteq Waits
ASSUME RegistrationsAssumption ==
  IsFiniteSet(Waits) /\ "none" \notin Waits /\ "none" \notin Types

VARIABLES
  events,    \* table events: <<type, processed>> in the order of their ids
  matchers,  \* table event_matchers: matcher id -> registration
  wait,      \* what became of every registration
  items,     \* idempotency keys in work_queue (rows outlive their completion)
  pc,        \* where the main loop stands
  batch,     \* the event ids its current SELECT returned
  fresh,     \* registrations that process_events' lookup came too early for
  late,      \* history: events recorded between the two SELECTs
  broken     \* history: <<s, e>> whose action raised

vars == <<events, matchers, wait, items, pc, batch, fresh, late, broken>>

EventIds   == 1 .. MaxEvents
MatcherIds == 1 .. Cardinality(Waits)
SubKeys     == {"sub"} \X Subs \X EventIds
MatcherKeys == {"matcher"} \X MatcherIds \X EventIds

Recorded    == {e \in EventIds : events[e].type # "none"}
Unprocessed == {e \in Recorded : ~events[e].processed}
Armed       == {m \in MatcherIds : matchers[m] # "none"}

TypeOK ==
  /\ events \in [EventIds -> [type : Types \cup {"none"}, processed : BOOLEAN]]
  /\ matchers \in [MatcherIds -> Waits \cup {"none"}]
  /\ wait \in [Waits -> {"unregistered", "armed", "fired", "timed_out"}]
  /\ items \subseteq SubKeys \cup MatcherKeys
  /\ pc \in {"subscriptions", "actions", "matchers", "match", "write", "timeouts"}
  /\ batch \subseteq EventIds
  /\ fresh \subseteq Waits
  /\ late \subseteq EventIds
  /\ broken \subseteq Subs \X EventIds

Init ==
  /\ events = [e \in EventIds |-> [type |-> "none", processed |-> FALSE]]
  /\ matchers = [m \in MatcherIds |-> "none"]
  /\ wait = [w \in Waits |-> "unregistered"]
  /\ items = {} /\ pc = "subscriptions" /\ batch = {} /\ fresh = {}
  /\ late = {} /\ broken = {}

-----------------------------------------------------------------------------
(* Producers *)

NextEvent(e) == e \notin Recorded /\ \A f \in EventIds : f < e => f \in Recorded

Append(e, t) == events' = [events EXCEPT ![e] = [type |-> t, processed |-> FALSE]]

(* event_bus.record_event: one INSERT.  A duplicate idempotency key inserts *)
(* nothing, which is no step here.                                          *)
RecordEvent(t) == \E e \in EventIds :
  /\ NextEvent(e)
  /\ Append(e, t)
  /\ late' = IF pc \in {"actions", "matchers"} THEN late \cup {e} ELSE late
  /\ UNCHANGED <<matchers, wait, items, pc, batch, fresh, broken>>

(* event_bus.register_matcher: INSERT, the id being the largest plus one.   *)
RegisterMatcher(w) ==
  /\ wait[w] = "unregistered"
  /\ \E m \in MatcherIds :
       /\ m \notin Armed /\ \A n \in Armed : n < m
       /\ m # 1 => (m - 1) \in Armed
       /\ matchers' = [matchers EXCEPT ![m] = w]
  /\ wait' = [wait EXCEPT ![w] = "armed"]
  /\ fresh' = IF pc = "write" /\ batch # {} THEN fresh \cup {w} ELSE fresh
  /\ UNCHANGED <<events, items, pc, batch, late, broken>>

-----------------------------------------------------------------------------
(* subscriptions.process_subscriptions *)

SelectForSubscriptions ==
  /\ pc = "subscriptions"
  /\ batch' = Unprocessed
  /\ pc' = "actions"
  /\ UNCHANGED <<events, matchers, wait, items, fresh, late, broken>>

Due(s, e) == <<s, events[e].type>> \in SubMatches

(* The actions of the whole batch in one transaction, INSERT OR IGNORE with *)
(* a key per subscription and event; an action that raises is logged and    *)
(* skipped.                                                                 *)
RunActions ==
  /\ pc = "actions"
  /\ LET due == {p \in Subs \X batch : Due(p[1], p[2])} IN
     \E raising \in SUBSET due :
       /\ items' = items \cup {<<"sub", p[1], p[2]>> : p \in due \ raising}
       /\ broken' = broken \cup raising
  /\ pc' = "matchers" /\ batch' = {}
  /\ UNCHANGED <<events, matchers, wait, fresh, late>>

(* event_bus.process_events *)

SelectForMatchers ==
  /\ pc = "matchers"
  /\ batch' = Unprocessed
  /\ pc' = "match"
  /\ UNCHANGED <<events, matchers, wait, items, fresh, late, broken>>

(* The matchers of the first event of the batch are read before the pass    *)
(* has written anything: no transaction is open, and a registration that    *)
(* commits before the first write is `fresh'.                               *)
LookUp ==
  /\ pc = "match"
  /\ pc' = "write"
  /\ UNCHANGED <<events, matchers, wait, items, batch, fresh, late, broken>>

(* The first write takes the write lock; the matchers of the later events   *)
(* are read under it.                                                       *)
First(e)    == \A f \in batch : e <= f
Meets(m, e) == /\ matchers[m] # "none" /\ <<matchers[m], events[e].type>> \in WaitMatches
               /\ First(e) => matchers[m] \notin fresh

TakesOneSlip(e, m) ==  \* an event serves the first of its matchers only
  /\ Meets(m, e) /\ \A f \in batch : f < e => ~Meets(m, f)
  /\ \A n \in MatcherIds : n < m => ~Meets(n, e)

(* A matcher is used up by one event of the batch: an earlier event whose   *)
(* type it accepts (priorities are left out of the types) gets it.          *)
Takes(e, m) == Meets(m, e) /\ \A f \in batch : f < e => ~Meets(m, f)

Processed(S) ==
  events' = [e \in EventIds |-> IF e \in S THEN [events[e] EXCEPT !.processed = TRUE]
                                ELSE events[e]]

NewItems == {k \in MatcherKeys : k[3] \in batch /\ Takes(k[3], k[2])}
Taken    == {m \in MatcherIds : \E e \in batch : Takes(e, m)}
Fire(M)  == wait' = [w \in Waits |-> IF \E m \in M : matchers[m] = w THEN "fired" ELSE wait[w]]
Delete(M) == matchers' = [m \in MatcherIds |-> IF m \in M THEN "none" ELSE matchers[m]]

(* Plausible mistakes in process_events, each in the place of Match below.  *)
MatchKeepSlip ==       \* a matcher that met an event is not deleted
  /\ pc = "write" /\ items' = items \cup NewItems /\ Fire(Taken) /\ Processed(batch)
  /\ pc' = "timeouts" /\ batch' = {} /\ fresh' = {} /\ UNCHANGED <<matchers, late, broken>>

MatchAllSlip ==        \* every unprocessed event is marked, not the ones that were read
  /\ pc = "write" /\ items' = items \cup NewItems /\ Delete(Taken) /\ Fire(Taken)
  /\ Processed(Unprocessed)
  /\ pc' = "timeouts" /\ batch' = {} /\ fresh' = {} /\ UNCHANGED <<late, broken>>

MatchUnmetSlip ==      \* an event no matcher waits for is left unprocessed
  /\ pc = "write" /\ items' = items \cup NewItems /\ Delete(Taken) /\ Fire(Taken)
  /\ Processed({e \in batch : \E m \in Armed : Takes(e, m)})
  /\ pc' = "timeouts" /\ batch' = {} /\ fresh' = {} /\ UNCHANGED <<late, broken>>

(* Work items for the matchers that meet an event of the batch, which are   *)
(* deleted; the whole batch becomes processed; one transaction.             *)
Match ==
  /\ pc = "write"
  /\ items' = items \cup NewItems
  /\ Delete(Taken)
  /\ Fire(Taken)
  /\ Processed(batch)
  /\ pc' = "timeouts" /\ batch' = {} /\ fresh' = {}
  /\ UNCHANGED <<late, broken>>

ExpireOthersSlip(m) ==  \* timeout_at IS NULL
  /\ pc = "timeouts" /\ matchers[m] \in Waits \ Expiring
  /\ \E e \in EventIds : NextEvent(e) /\ Append(e, TimeoutType)
  /\ matchers' = [matchers EXCEPT ![m] = "none"]
  /\ wait' = [wait EXCEPT ![matchers[m]] = "timed_out"]
  /\ UNCHANGED <<items, pc, batch, fresh, late, broken>>

(* event_bus.check_timeouts: a timeout event and a DELETE for the matchers  *)
(* whose timeout_at has passed, in one transaction (here: one at a time).   *)
Expire(m) ==
  /\ pc = "timeouts"
  /\ matchers[m] \in Expiring
  /\ \E e \in EventIds : NextEvent(e) /\ Append(e, TimeoutType)
  /\ matchers' = [matchers EXCEPT ![m] = "none"]
  /\ wait' = [wait EXCEPT ![matchers[m]] = "timed_out"]
  /\ UNCHANGED <<items, pc, batch, fresh, late, broken>>

NextIteration ==
  /\ pc = "timeouts"
  /\ pc' = "subscriptions"
  /\ UNCHANGED <<events, matchers, wait, items, batch, fresh, late, broken>>

(* A crash, or a stage that raises: what was committed stays, the rest is   *)
(* rolled back, the loop begins at the top and its first SELECT sees the    *)
(* events that were about to come too late.  (After the last stage this is  *)
(* NextIteration.)                                                          *)
Crash ==
  /\ pc \notin {"subscriptions", "timeouts"}
  /\ pc' = "subscriptions" /\ batch' = {} /\ fresh' = {}
  /\ late' = late \ Unprocessed
  /\ UNCHANGED <<events, matchers, wait, items, broken>>

Next ==
  \/ \E t \in Types \ {TimeoutType} : RecordEvent(t)
  \/ \E w \in Waits : RegisterMatcher(w)
  \/ SelectForSubscriptions \/ RunActions \/ SelectForMatchers
  \/ LookUp \/ Match
  \/ \E m \in MatcherIds : Expire(m)
  \/ NextIteration \/ Crash

Spec == Init /\ [][Next]_vars

(* The heartbeat drives the loop through its stages for as long as the      *)
(* process lives; time passes, so an expiring matcher expires.              *)
Fairness ==
  /\ WF_vars(SelectForSubscriptions) /\ WF_vars(RunActions)
  /\ WF_vars(SelectForMatchers) /\ WF_vars(LookUp) /\ WF_vars(Match)
  /\ WF_vars(NextIteration)
  /\ \A m \in MatcherIds : SF_vars(Expire(m))

FairSpec == Spec /\ Fairness

-----------------------------------------------------------------------------
(* Properties *)

ItemFor(s, e) == <<"sub", s, e>> \in items

(* process_subscriptions runs before process_events "ensuring events are    *)
(* routed before being marked processed": a processed event that a          *)
(* subscription should have seen and did not was either recorded between    *)
(* the two SELECTs of one iteration, or its action raised.  Crashes between *)
(* the two passes lose nothing.                                             *)
MissedOnlyLate ==
  \A s \in Subs, e \in Recorded :
    events[e].processed /\ Due(s, e) /\ ~ItemFor(s, e) => e \in late \/ <<s, e>> \in broken

(* The same without the exception for late events.                          *)
SubscriptionsSeeEveryEvent ==
  \A s \in Subs, e \in Recorded :
    events[e].processed /\ Due(s, e) /\ ~ItemFor(s, e) => <<s, e>> \in broken

(* A matcher is one-shot: over its life a registration yields one work item *)
(* or one timeout, never both, and matcher ids that SQLite hands out again  *)
(* never make two registrations share an idempotency key.                   *)
MatchersOneShot ==
  /\ Cardinality({w \in Waits : wait[w] = "fired"}) = Cardinality(items \cap MatcherKeys)
  /\ \A w \in Waits : wait[w] = "armed" <=> \E m \in MatcherIds : matchers[m] = w

(* What waiting arcs and subscriptions are promised, whichever pass reads   *)
(* what: process_events calls every registration that waits for an event    *)
(* and was there when it looked matchers up, once, in the transaction that  *)
(* closes the event; one that came later can miss the first event of the    *)
(* batch and no other, so never one recorded after it; check_timeouts calls *)
(* none that has fired.  The loop's passes, the crashes between them, the   *)
(* batches and the matchers' rows are stutter.                              *)
Contract == INSTANCE EventContract WITH
  Events <- EventIds, NoType <- "none", LapseType <- TimeoutType, Names <- MatcherIds,
  type   <- [e \in EventIds |-> events[e].type],
  closed <- Recorded \ Unprocessed,
  told   <- {p \in Subs \X EventIds : <<"sub", p[1], p[2]>> \in items},
  calls  <- {p \in MatcherIds \X EventIds : <<"matcher", p[1], p[2]>> \in items},
  settling  <- IF pc = "write" THEN batch ELSE {},
  newcomers <- fresh

KeepsContract == Contract!Spec

(* Once crashes stop, every recorded event is processed, and an expiring    *)
(* matcher fires or times out (or the bound on events is reached).          *)
EventuallyProcessed ==
  <>[][~Crash]_vars => \A e \in EventIds : (e \in Recorded) ~> events[e].processed

WaitsEnd ==
  <>[][~Crash]_vars =>
    \A w \in Expiring : (wait[w] = "armed") ~> (wait[w] # "armed" \/ Recorded = EventIds)
=============================================================================
