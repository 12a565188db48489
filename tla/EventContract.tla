--------------------------- MODULE EventContract ---------------------------
(***************************************************************************)
(* What the event log promises the arcs that wait and the subscriptions    *)
(* that listen, with the passes of the loop, its batches, the matchers'    *)
(* rows and the crashes left out.  An event is published once and stays    *)
(* open until it is settled, once.  Whoever waits for it when its          *)
(* settlement begins is called when it ends, by one call of its own and by *)
(* no later event.  A wait that begins meanwhile, a newcomer, can miss one *)
(* event of the settlement, which was published before it: no event closes *)
(* over the head of a wait that is older than the event.  A wait that      *)
(* lapses says so in an event of its own, and is never called.  A          *)
(* subscription is told of open events only.                               *)
(***************************************************************************)
EXTENDS Naturals

CONSTANTS
    Events,       \* the numbers of the events, in the order of publication
    Types,
    NoType,       \* of an event that has not been published
    LapseType,    \* of the event that a lapsed wait publishes
    Subs,
    SubMatches,   \* the pairs <<s, t>> of interest to a subscription
    Waits,
    WaitMatches,  \* the pairs <<w, t>> that end a wait
    Expiring,     \* the waits that may lapse
    Names         \* names of calls, which may be used again for other events

VARIABLES
    type,         \* the type of every event
    closed,       \* the events that are settled
    wait,         \* what became of every wait
    told,         \* which subscription was told of which event
    calls,        \* the calls made: <<name, event>>
    settling,     \* the events of the settlement that has begun
    newcomers     \* the waits begun while it lasts

vars == <<type, closed, wait, told, calls, settling, newcomers>>

Published == {e \in Events : type[e] # NoType}
Open      == Published \ closed

Init ==
    /\ type = [e \in Events |-> NoType]
    /\ closed = {}
    /\ wait = [w \in Waits |-> "unregistered"]
    /\ told = {} /\ calls = {} /\ settling = {} /\ newcomers = {}

Appended(t) == \E e \in Events \ Published :
    /\ \A f \in Events : f < e => f \in Published
    /\ type' = [type EXCEPT ![e] = t]

Publish(t) == Appended(t) /\ UNCHANGED <<closed, wait, told, calls, settling, newcomers>>

Await(w) ==
    /\ wait[w] = "unregistered"
    /\ wait' = [wait EXCEPT ![w] = "armed"]
    /\ newcomers' = IF settling = {} THEN newcomers ELSE newcomers \cup {w}
    /\ UNCHANGED <<type, closed, told, calls, settling>>

Tell ==
    /\ \E S \in SUBSET {p \in Subs \X Open : <<p[1], type[p[2]]>> \in SubMatches} :
          told' = told \cup S
    /\ UNCHANGED <<type, closed, wait, calls, settling, newcomers>>

Begin(E) ==
    /\ settling = {}
    /\ settling' = E
    /\ UNCHANGED <<type, closed, wait, told, calls, newcomers>>

(* Every wait that an event of the settlement ends is called, for one of   *)
(* those events, under a name that no other wait is called by in this step *)
(* and that was not used for that event before.  One of the events, the    *)
(* same for all of them, does not count for newcomers.                     *)
Ends(e, w, missed) == /\ <<w, type[e]>> \in WaitMatches
                      /\ e = missed => w \notin newcomers
Ended(missed) ==
    {w \in Waits : wait[w] = "armed" /\ \E e \in settling : Ends(e, w, missed)}

Settle(missed) ==
    /\ closed' = closed \cup settling
    /\ \E name \in [Ended(missed) -> Names], at \in [Ended(missed) -> settling] :
          /\ \A w \in Ended(missed) : /\ Ends(at[w], w, missed)
                                      /\ <<name[w], at[w]>> \notin calls
          /\ \A v, w \in Ended(missed) : name[v] = name[w] => v = w
          /\ calls' = calls \cup {<<name[w], at[w]>> : w \in Ended(missed)}
    /\ wait' = [w \in Waits |-> IF w \in Ended(missed) THEN "fired" ELSE wait[w]]
    /\ settling' = {} /\ newcomers' = {}
    /\ UNCHANGED <<type, told>>

GiveUp ==
    /\ settling' = {} /\ newcomers' = {}
    /\ UNCHANGED <<type, closed, wait, told, calls>>

Lapse(w) ==
    /\ wait[w] = "armed"
    /\ wait' = [wait EXCEPT ![w] = "timed_out"]
    /\ Appended(LapseType)
    /\ UNCHANGED <<closed, told, calls, settling, newcomers>>

Next ==
    \/ \E t \in Types \ {LapseType} : Publish(t)
    \/ \E w \in Waits : Await(w)
    \/ Tell
    \/ \E E \in SUBSET Open : Begin(E)
    \/ \E missed \in settling : Settle(missed)
    \/ GiveUp
    \/ \E w \in Expiring : Lapse(w)

Spec == Init /\ [][Next]_vars
=============================================================================
