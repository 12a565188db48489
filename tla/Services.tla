------------------------------ MODULE Services ------------------------------
(***************************************************************************)
(* Small components of the one process that share no state with each       *)
(* other.  A behaviour is one of one of them, the topic, while the others  *)
(* rest in their initial states: whatever holds of every behaviour here    *)
(* holds of every behaviour of each component.                             *)
(***************************************************************************)
EXTENDS Integers, FiniteSets

CONSTANTS Topics    \* the components that may move
CONSTANTS Children, Raising, MaxStops
CONSTANTS Callers, Threshold, Attempts, FirstRate, Rates, Drift, Inputs, FirstEstimate, TokenBound
CONSTANTS MaxInbound, Arcs, Nobody, MaxTools, Preserve, MaxMishaps
CONSTANTS Payers, Loop, Operators, Shell, Thresholds, Offers, MaxSpent, MaxBegun, MaxCommands

VARIABLES topic     \* the component that moves

VARIABLES child, snap, list, wake, stage, got, items, agents, heard, status,
          retry_row, up, stops, excused
ASSUME SupervisorParameters == MaxStops \in Nat

Supervisor == INSTANCE SupervisorWake
supervisor == <<child, snap, list, wake, stage, got, items, agents, heard,
                status, retry_row, up, stops, excused>>

VARIABLES state, failures, cooled, call, rate, window, tokens, estimate, served,
          healthy, blind, peak, largest, after
Api == INSTANCE ApiCalls
api == <<state, failures, cooled, call, rate, window, tokens, estimate, served,
         healthy, blind, peak, largest, after>>

ASSUME ApiParameters == Api!Parameters

VARIABLES context, turn, tracked, running, mishaps, answered, passed, muffled, torn
Chat == INSTANCE ChatTurns
ASSUME ChatParameters == Chat!Parameters

chat == <<context, turn, tracked, running, mishaps, answered, passed, muffled, torn>>

VARIABLES spent, latched, overrides, enabled, cache, fresh, step, found, active, held,
          commands, begun, ceiling, freed, foreign
Spending == INSTANCE Budget WITH Callers <- Payers
ASSUME SpendingParameters == Spending!Parameters

spending == <<spent, latched, overrides, enabled, cache, fresh, step, found, active, held,
              commands, begun, ceiling, freed, foreign>>

vars == <<topic, supervisor, api, chat, spending>>

(* The one component with several initial states takes any of them when it *)
(* is the topic.                                                           *)
Init ==
    /\ topic \in Topics
    /\ Supervisor!Init /\ Api!Init /\ Chat!Init /\ Spending!Init
    /\ topic # "supervisor" => retry_row

SupervisorStep ==
    topic = "supervisor" /\ Supervisor!Next /\ UNCHANGED <<topic, api, chat, spending>>
ApiStep ==
    topic = "api" /\ Api!Next /\ UNCHANGED <<topic, supervisor, chat, spending>>
ChatStep ==
    topic = "chat" /\ Chat!Next /\ UNCHANGED <<topic, supervisor, api, spending>>
SpendingStep ==
    topic = "spending" /\ Spending!Next /\ UNCHANGED <<topic, supervisor, api, chat>>

Next == SupervisorStep \/ ApiStep \/ ChatStep \/ SpendingStep

Spec == Init /\ [][Next]_vars

(* The fairness of each component, asked for when it is the topic.         *)
SupervisorFairness ==
    /\ WF_supervisor(topic = "supervisor" /\ Supervisor!Recover)
    /\ \A c \in Children : WF_supervisor(topic = "supervisor" /\ Supervisor!NoticeGoesOn(c))
    /\ WF_supervisor(topic = "supervisor" /\ Supervisor!WakeGoesOn)
    /\ WF_supervisor(topic = "supervisor" /\ Supervisor!DispatchGoesOn)

ApiFairness ==
    /\ WF_api(topic = "api" /\ Api!Tick) /\ WF_api(topic = "api" /\ Api!Cool)
    /\ WF_api(topic = "api" /\ Api!CallGoesOn) /\ SF_api(topic = "api" /\ Api!Answers)
    /\ WF_api(topic = "api" /\ Api!SomeoneCalls)

ChatFairness == WF_chat(topic = "chat" /\ Chat!ChatGoesOn)

SpendingFairness ==
    /\ WF_spending(topic = "spending" /\ Spending!IntervalEnds)
    /\ WF_spending(topic = "spending" /\ Spending!SomeoneEvaluates)
    /\ WF_spending(topic = "spending" /\ Spending!EvaluationGoesOn)
    /\ WF_spending(topic = "spending" /\ Spending!LoopAsks)

FairSpec ==
    Spec /\ SupervisorFairness /\ ApiFairness /\ ChatFairness /\ SpendingFairness

(* Each component's variables stay in their types.                         *)
TypeOK == Supervisor!TypeOK /\ Api!TypeOK /\ Chat!TypeOK /\ Spending!TypeOK

(* The properties below are stated, and commented, in their components.    *)
(* SupervisorWake: a record on the list goes to the supervisor or stays.   *)
RecordsKept   == Supervisor!RecordsKept
(* SupervisorWake: a list that is not empty has a wake on its way.         *)
WakeComing    == Supervisor!WakeComing
(* SupervisorWake: the agent is invoked with every failure in the end.     *)
FailuresHeard == Supervisor!FailuresHeard
(* ApiCalls: no more requests of a minute than the provider allows.        *)
WithinLimit   == Api!WithinLimit
(* ApiCalls: few requests follow the failure that opened the breaker.      *)
FewAfterTrip  == Api!FewAfterTrip
(* ApiCalls: only a call above the limit of tokens locks others out.       *)
EmptyWindowAdmits == Api!EmptyWindowAdmits
(* ApiCalls: two empty windows have a slot.                                *)
SlotWhenEmpty == Api!SlotWhenEmpty
(* ApiCalls: the breaker closes again when the provider is back.           *)
Recovers      == Api!Recovers
(* ChatTurns: a context that goes to the provider is one it takes.         *)
ContextsWellFormed == Chat!ContextsWellFormed
(* ChatTurns: a message is in the hands of its turn or was dealt with.     *)
Attended      == Chat!Attended
(* ChatTurns: a turn knows what the user said before it started.           *)
Remembered    == Chat!Remembered
(* ChatTurns: a message gets its answer.                                   *)
Heard         == Chat!Heard
(* Budget: a window's spending stays near what the kill-switch allows.     *)
SpendBounded  == Spending!SpendBounded
(* Budget: the summary in memory says what the latches say.                *)
SummaryAgrees == Spending!SummaryAgrees
(* Budget: with no latch and no limit reached, autonomous work goes on.    *)
Released      == []<>(topic # "spending" \/ Spending!Unblocked)
=============================================================================
