--------------------------- MODULE ServicesProofs ---------------------------
(***************************************************************************)
(* What is proved of supervisor arcs and of API calls holds of the         *)
(* services: a behaviour of Services is one of each component, which moves *)
(* or rests.  Chat turns and spending, which have no proof module of their *)
(* own, are proved about here.                                             *)
(***************************************************************************)
EXTENDS Services, FiniteSetTheorems, SequenceTheorems, TLAPS

SupervisorProofs == INSTANCE SupervisorWakeProofs
ApiProofs        == INSTANCE ApiCallsProofs

-----------------------------------------------------------------------------
(* The definitions of the two instances of a component are the same.       *)
LEMMA SupervisorPart == Spec => SupervisorProofs!Spec
  <1>1. Init => SupervisorProofs!Init BY DEF Init, Supervisor!Init, SupervisorProofs!Init
  <1>2. [Next]_vars => [SupervisorProofs!Next]_(SupervisorProofs!vars)
    <2>1. ASSUME Supervisor!Next PROVE SupervisorProofs!Next
      BY <2>1 DEF Supervisor!failing, SupervisorProofs!failing, Supervisor!waking,
        SupervisorProofs!waking, Supervisor!serving, SupervisorProofs!serving, Supervisor!life,
        SupervisorProofs!life, Supervisor!vars, SupervisorProofs!vars, Supervisor!ChildFails,
        SupervisorProofs!ChildFails, Supervisor!NoticeFinds, SupervisorProofs!NoticeFinds,
        Supervisor!NoticeReads, SupervisorProofs!NoticeReads, Supervisor!NoticeSkipped,
        SupervisorProofs!NoticeSkipped, Supervisor!Appended, SupervisorProofs!Appended,
        Supervisor!NoticeAppends, SupervisorProofs!NoticeAppends, Supervisor!WakeEnqueued,
        SupervisorProofs!WakeEnqueued, Supervisor!NoticeEnqueues,
        SupervisorProofs!NoticeEnqueues, Supervisor!NoticeFails, SupervisorProofs!NoticeFails,
        Supervisor!ClaimWake, SupervisorProofs!ClaimWake, Supervisor!WakeSkips,
        SupervisorProofs!WakeSkips, Supervisor!WakeReads, SupervisorProofs!WakeReads,
        Supervisor!Cleared, SupervisorProofs!Cleared, Supervisor!WakeClears,
        SupervisorProofs!WakeClears, Supervisor!WakeDispatches, SupervisorProofs!WakeDispatches,
        Supervisor!WakeRaises, SupervisorProofs!WakeRaises, Supervisor!Dispatchable,
        SupervisorProofs!Dispatchable, Supervisor!RunAgent, SupervisorProofs!RunAgent,
        Supervisor!SkipDispatch, SupervisorProofs!SkipDispatch, Supervisor!Frozen,
        SupervisorProofs!Frozen, Supervisor!AgentReturns, SupervisorProofs!AgentReturns,
        Supervisor!AgentRaises, SupervisorProofs!AgentRaises, Supervisor!Crash,
        SupervisorProofs!Crash, Supervisor!Recover, SupervisorProofs!Recover, Supervisor!Next,
        SupervisorProofs!Next
    <2>2. vars' = vars => SupervisorProofs!vars' = SupervisorProofs!vars
      BY DEF vars, supervisor, SupervisorProofs!failing, SupervisorProofs!waking,
        SupervisorProofs!serving, SupervisorProofs!life, SupervisorProofs!vars
    <2> QED
      BY <2>1, <2>2 DEF Next, SupervisorStep, ApiStep, ChatStep, SpendingStep, supervisor,
        SupervisorProofs!failing, SupervisorProofs!waking, SupervisorProofs!serving,
        SupervisorProofs!life, SupervisorProofs!vars
  <1> QED BY <1>1, <1>2, PTL DEF Spec, SupervisorProofs!Spec

LEMMA ApiPart == Spec => ApiProofs!Spec
  <1>1. Init => ApiProofs!Init BY DEF Init, Api!Init, ApiProofs!Init, Api!Idle, ApiProofs!Idle
  <1>2. [Next]_vars => [ApiProofs!Next]_(ApiProofs!vars)
    <2>1. ASSUME Api!Next PROVE ApiProofs!Next
      BY <2>1 DEF Api!breaker, ApiProofs!breaker, Api!limiter, ApiProofs!limiter, Api!provider,
        ApiProofs!provider, Api!history, ApiProofs!history, Api!vars, ApiProofs!vars, Api!Idle,
        ApiProofs!Idle, Api!At, ApiProofs!At, Api!Admitted, ApiProofs!Admitted, Api!Go,
        ApiProofs!Go, Api!Raise, ApiProofs!Raise, Api!Again, ApiProofs!Again, Api!Begin,
        ApiProofs!Begin, Api!TokensFit, ApiProofs!TokensFit, Api!Larger, ApiProofs!Larger,
        Api!Headers, ApiProofs!Headers, Api!Allowed, ApiProofs!Allowed, Api!Probing, ApiProofs!Probing,
        Api!Check, ApiProofs!Check, Api!Peek, ApiProofs!Peek, Api!Room, ApiProofs!Room,
        Api!Acquire, ApiProofs!Acquire, Api!AcquireTimesOut, ApiProofs!AcquireTimesOut,
        Api!Receive, ApiProofs!Receive, Api!Trimmed, ApiProofs!Trimmed, Api!Capped,
        ApiProofs!Capped, Api!Estimated, ApiProofs!Estimated, Api!Succeed, ApiProofs!Succeed,
        Api!Opened, ApiProofs!Opened, Api!Fail, ApiProofs!Fail, Api!Fuller, ApiProofs!Fuller,
        Api!Refuse, ApiProofs!Refuse, Api!Reject, ApiProofs!Reject, Api!Tick, ApiProofs!Tick,
        Api!Cardinality, ApiProofs!Cardinality, Api!Cool, ApiProofs!Cool, Api!Turn,
        ApiProofs!Turn, Api!Next, ApiProofs!Next
    <2>2. vars' = vars => ApiProofs!vars' = ApiProofs!vars
      BY DEF vars, api, ApiProofs!breaker, ApiProofs!limiter, ApiProofs!provider,
        ApiProofs!history, ApiProofs!vars
    <2> QED
      BY <2>1, <2>2 DEF Next, SupervisorStep, ApiStep, ChatStep, SpendingStep, api, ApiProofs!breaker,
        ApiProofs!limiter, ApiProofs!provider, ApiProofs!history, ApiProofs!vars
  <1> QED BY <1>1, <1>2, PTL DEF Spec, ApiProofs!Spec

-----------------------------------------------------------------------------
(* A failure on record is in one place, neither lost nor told twice.       *)
THEOREM SupervisorRecordsKept == Spec => []RecordsKept
  <1>1. SupervisorProofs!Spec => []SupervisorProofs!RecordsKept
    BY SupervisorParameters, SupervisorProofs!NoRecordLostOrDoubled
  <1>2. SupervisorProofs!RecordsKept => RecordsKept
    BY DEF RecordsKept, Supervisor!RecordsKept, Supervisor!Recorded, Supervisor!Places,
      SupervisorProofs!RecordsKept, SupervisorProofs!Recorded, SupervisorProofs!Places,
      Supervisor!Cardinality, SupervisorProofs!Cardinality
  <1> QED BY <1>1, <1>2, SupervisorPart, PTL

(* Whatever is on the list is going to be read.                            *)
THEOREM SupervisorWakeComing == Spec => []WakeComing
  <1>1. SupervisorProofs!Spec => []SupervisorProofs!WakeComing
    BY SupervisorParameters, SupervisorProofs!ListNotForgotten
  <1>2. SupervisorProofs!WakeComing => WakeComing
    BY DEF WakeComing, Supervisor!WakeComing, SupervisorProofs!WakeComing
  <1> QED BY <1>1, <1>2, SupervisorPart, PTL

LEMMA ApiProofsParameters == ApiProofs!Parameters
  BY ApiParameters DEF Api!Parameters, ApiProofs!Parameters, Api!IsFiniteSet,
    ApiProofs!IsFiniteSet

(* The provider gets no more requests of a minute than it allows.          *)
THEOREM ApiWithinLimit == Spec => []WithinLimit
  <1>1. ApiProofs!Spec => []ApiProofs!WithinLimit BY ApiProofsParameters, ApiProofs!LimitKept
  <1>2. ApiProofs!WithinLimit => WithinLimit
    BY DEF WithinLimit, Api!WithinLimit, ApiProofs!WithinLimit
  <1> QED BY <1>1, <1>2, ApiPart, PTL

(* Few requests follow the failure that opened the breaker.                *)
THEOREM ApiFewAfterTrip == Spec => []FewAfterTrip
  <1>1. ApiProofs!Spec => []ApiProofs!FewAfterTrip BY ApiProofsParameters, ApiProofs!TripHolds
  <1>2. ApiProofs!FewAfterTrip => FewAfterTrip
    BY DEF FewAfterTrip, Api!FewAfterTrip, ApiProofs!FewAfterTrip, Api!Cardinality,
      ApiProofs!Cardinality
  <1> QED BY <1>1, <1>2, ApiPart, PTL

(* The limiter locks calls out only after one above its limit of tokens.   *)
THEOREM ApiEmptyWindowAdmits == Spec => []EmptyWindowAdmits
  <1>1. ApiProofs!Spec => []ApiProofs!EmptyWindowAdmits
    BY ApiProofsParameters, ApiProofs!OnlyLargeCallsLockOut
  <1>2. ApiProofs!EmptyWindowAdmits => EmptyWindowAdmits
    BY DEF EmptyWindowAdmits, Api!EmptyWindowAdmits, ApiProofs!EmptyWindowAdmits, Api!Room,
      ApiProofs!Room, Api!TokensFit, ApiProofs!TokensFit
  <1> QED BY <1>1, <1>2, ApiPart, PTL

-----------------------------------------------------------------------------
(* Spending: who may be where.                                             *)
Resting == {"idle", "evaluate", "measured", "reading", "read"}

Allowed(e) ==
    Resting \cup (IF e \in Payers THEN {"calling"} ELSE {})
            \cup (IF e \in Operators THEN {"half", "override", "drop"} ELSE {})

PlacesFit(p) ==
    /\ p = [e \in Spending!Evaluators |-> p[e]]
    /\ \A e \in Spending!Evaluators : p[e] \in Allowed(e)

SpendingFits ==
    /\ spent \in Nat /\ latched \subseteq Spending!Latching /\ enabled \in BOOLEAN
    /\ overrides \in [Spending!Limits -> Nat]
    /\ cache \in (SUBSET Spending!Limits) \cup {Spending!NoSummary} /\ fresh \in BOOLEAN
    /\ PlacesFit(step)
    /\ found \in [Spending!Evaluators -> SUBSET Spending!Limits]
    /\ active \in [Spending!Evaluators -> SUBSET Spending!Latching]
    /\ held \in [Operators -> [Spending!Limits -> Nat]]
    /\ commands \in 0 .. MaxCommands
    /\ begun \in Nat /\ ceiling \in Nat \ {0} /\ freed \in BOOLEAN /\ foreign \in BOOLEAN

LEMMA FitsTyped == ASSUME Spending!Parameters, SpendingFits PROVE Spending!TypeOK
  BY DEF Spending!Parameters, SpendingFits, PlacesFit, Allowed, Resting, Spending!TypeOK,
    Spending!Evaluators

LEMMA PlaceGoes ==
  ASSUME PlacesFit(step), NEW e \in Spending!Evaluators, NEW p \in Allowed(e), Spending!Go(e, p)
  PROVE  PlacesFit(step')
  BY DEF PlacesFit, Spending!Go

LEMMA EffectiveTyped ==
  ASSUME Spending!Parameters, NEW set \in [Spending!Limits -> Nat], NEW l \in Spending!Limits
  PROVE  Spending!Effective(set, l) \in Nat \ {0}
  BY DEF Spending!Parameters, Spending!Effective

(* ceiling never falls but with the window.                                *)
LEMMA RaisedTyped ==
  ASSUME Spending!Parameters, NEW set \in [Spending!Limits -> Nat], ceiling \in Nat \ {0}
  PROVE  /\ Spending!Raised(set) \in Nat \ {0} /\ Spending!Raised(set) >= ceiling
         /\ Spending!Raised(set) >= Spending!Effective(set, "shutdown")
  <1>1. Spending!Effective(set, "shutdown") \in Nat \ {0}
    BY EffectiveTyped DEF Spending!Limits
  <1> QED BY <1>1 DEF Spending!Raised

LEMMA SpendingFitsInit == ASSUME Spending!Parameters, Spending!Init PROVE SpendingFits
  <1>1. PlacesFit(step) BY DEF Spending!Init, PlacesFit, Allowed, Resting
  <1>2. Spending!NoOverride \in [Spending!Limits -> Nat] BY DEF Spending!NoOverride
  <1>3. ceiling \in Nat \ {0} /\ commands \in 0 .. MaxCommands
    BY DEF Spending!Parameters, Spending!Init, Spending!Limits
  <1> QED BY <1>1, <1>2, <1>3 DEF Spending!Init, SpendingFits

(* What the steps that move one of the actors do.                          *)
LEMMA SpendingCallerTyped ==
  ASSUME Spending!Parameters, SpendingFits, NEW c \in Payers,
         Spending!Guard(c) \/ Spending!PassDisabled(c) \/ Spending!Record(c) \/ Spending!CallFails(c)
  PROVE  SpendingFits'
  <1> USE DEF SpendingFits, Spending!table, Spending!memory, Spending!history
  <1>1. c \in Spending!Evaluators /\ {"idle", "evaluate", "calling"} \subseteq Allowed(c)
    BY DEF Spending!Evaluators, Allowed, Resting
  <1>2. \E p \in Allowed(c) : Spending!Go(c, p)
    BY <1>1 DEF Spending!Guard, Spending!PassDisabled, Spending!Record, Spending!CallFails,
      Spending!Decide
  <1>3. PlacesFit(step') BY <1>1, <1>2, PlaceGoes
  <1>4. CASE Spending!Guard(c) BY <1>3, <1>4 DEF Spending!Guard
  <1>5. CASE Spending!PassDisabled(c) BY <1>3, <1>5 DEF Spending!PassDisabled
  <1>6. CASE Spending!Record(c) BY <1>3, <1>6 DEF Spending!Record
  <1>7. CASE Spending!CallFails(c) BY <1>3, <1>7 DEF Spending!CallFails
  <1> QED BY <1>4, <1>5, <1>6, <1>7

LEMMA SpendingEvaluationTyped ==
  ASSUME Spending!Parameters, SpendingFits, NEW e \in Spending!Evaluators,
         \/ Spending!UseSummary(e) \/ Spending!Measure(e) \/ Spending!Evaluates(e)
         \/ Spending!EvaluationRaises(e)
  PROVE  SpendingFits'
  <1> USE DEF SpendingFits, Spending!table, Spending!memory, Spending!history
  <1>1. CASE Spending!UseSummary(e)
    <2>1. \E p \in Allowed(e) : Spending!Go(e, p)
      BY <1>1 DEF Allowed, Resting, Spending!UseSummary, Spending!Decide
    <2> QED BY <1>1, <2>1, PlaceGoes DEF Spending!UseSummary
  <1>2. CASE Spending!Measure(e)
    <2>1. PlacesFit(step') BY <1>2, PlaceGoes DEF Allowed, Resting, Spending!Measure
    <2>2. Spending!Over \subseteq Spending!Limits BY DEF Spending!Over
    <2> QED BY <1>2, <2>1, <2>2 DEF Spending!Measure
  <1>3. ASSUME NEW l \in Spending!Latching, Spending!LatchActive(e, l) PROVE SpendingFits'
    BY <1>3 DEF Spending!LatchActive, PlacesFit
  <1>4. CASE Spending!Latch(e)
    <2>1. PlacesFit(step') BY <1>4, PlaceGoes DEF Allowed, Resting, Spending!Latch
    <2>2. latched' \subseteq Spending!Latching BY <1>4 DEF Spending!Latch, Spending!ToLatch
    <2>3. Spending!Findings(e) \subseteq Spending!Limits
      BY <2>2 DEF Spending!Findings, Spending!Latching, Spending!Limits
    <2>4. foreign' \in BOOLEAN /\ begun' \in Nat
      BY <1>4 DEF Spending!Latch, Spending!LatchesRead, Spending!Counts
    <2> QED BY <1>4, <2>1, <2>2, <2>3, <2>4 DEF Spending!Latch
  <1>5. ASSUME NEW l \in Spending!Latching PROVE Spending!Reread(e, l) \in SUBSET Spending!Limits
    BY DEF Spending!Reread, Spending!Latching, Spending!Limits
  <1>6. CASE Spending!ReadRestrict(e)
    <2>1. PlacesFit(step') BY <1>6, PlaceGoes DEF Allowed, Resting, Spending!ReadRestrict
    <2>2. foreign' \in BOOLEAN BY <1>6 DEF Spending!ReadRestrict, Spending!LatchesRead
    <2>3. found' \in [Spending!Evaluators -> SUBSET Spending!Limits]
      BY <1>5, <1>6 DEF Spending!ReadRestrict, Spending!Latching
    <2> QED BY <1>6, <2>1, <2>2, <2>3 DEF Spending!ReadRestrict
  <1>7. CASE Spending!ReadShutdown(e)
    <2>1. PlacesFit(step') BY <1>7, PlaceGoes DEF Allowed, Resting, Spending!ReadShutdown
    <2>2. begun' \in Nat BY <1>7 DEF Spending!ReadShutdown, Spending!Counts
    <2>3. found' \in [Spending!Evaluators -> SUBSET Spending!Limits]
      BY <1>5, <1>7 DEF Spending!ReadShutdown, Spending!Latching
    <2>4. active' \in [Spending!Evaluators -> SUBSET Spending!Latching]
      BY <1>7 DEF Spending!ReadShutdown
    <2> QED BY <1>7, <2>1, <2>2, <2>3, <2>4 DEF Spending!ReadShutdown
  <1>8. CASE Spending!EvaluationRaises(e)
    <2>1. PlacesFit(step') BY <1>8, PlaceGoes DEF Allowed, Resting, Spending!EvaluationRaises
    <2>2. commands' \in 0 .. MaxCommands
      BY <1>8 DEF Spending!EvaluationRaises, Spending!Counted, Spending!Parameters
    <2> QED BY <1>8, <2>1, <2>2 DEF Spending!EvaluationRaises
  <1>9. CASE Spending!Publish(e)
    <2>1. \E p \in Allowed(e) : Spending!Go(e, p)
      BY <1>9 DEF Allowed, Resting, Spending!Publish, Spending!Decide
    <2>2. PlacesFit(step') BY <2>1, PlaceGoes
    <2>3. cache' \in (SUBSET Spending!Limits) \cup {Spending!NoSummary} /\ fresh' \in BOOLEAN
      <3>1. CASE e \in Shell BY <1>9, <3>1 DEF Spending!Publish
      <3>2. CASE e \notin Shell BY <1>9, <3>2 DEF Spending!Publish
      <3> QED BY <3>1, <3>2
    <2> QED BY <1>9, <2>2, <2>3 DEF Spending!Publish
  <1> QED BY <1>1, <1>2, <1>3, <1>4, <1>6, <1>7, <1>8, <1>9 DEF Spending!Evaluates

LEMMA SpendingCommandTyped ==
  ASSUME Spending!Parameters, SpendingFits, NEW o \in Operators,
         \/ Spending!ResumeBegins(o) \/ Spending!ResumeGoesOn(o) \/ Spending!OverrideReads(o)
         \/ Spending!OverrideWrites(o) \/ Spending!SetEnabled(o) \/ Spending!StatusBegins(o)
         \/ Spending!DropSummary(o)
  PROVE  SpendingFits'
  <1> USE DEF SpendingFits, Spending!table, Spending!memory, Spending!history
  <1>1. /\ o \in Spending!Evaluators
        /\ {"idle", "evaluate", "half", "override", "drop"} \subseteq Allowed(o)
    BY DEF Spending!Evaluators, Allowed, Resting
  <1>2. \E p \in Allowed(o) : Spending!Go(o, p)
    BY <1>1 DEF Spending!ResumeBegins, Spending!ResumeGoesOn, Spending!OverrideReads,
      Spending!OverrideWrites, Spending!SetEnabled, Spending!StatusBegins, Spending!DropSummary,
      Spending!Returns
  <1>3. PlacesFit(step') BY <1>1, <1>2, PlaceGoes
  <1>4. ASSUME Spending!Counted PROVE commands' \in 0 .. MaxCommands
    BY <1>4 DEF Spending!Counted, Spending!Parameters
  <1>5. CASE Spending!ResumeBegins(o) \/ Spending!ResumeGoesOn(o)
    <2>1. commands' \in 0 .. MaxCommands
      BY <1>4, <1>5 DEF Spending!ResumeBegins, Spending!Commands, Spending!ResumeGoesOn
    <2>2. PICK l \in Spending!Latching : Spending!Clear(o, l)
      BY <1>5 DEF Spending!ResumeBegins, Spending!ResumeGoesOn, Spending!Latching
    <2> QED BY <1>3, <2>1, <2>2 DEF Spending!Clear
  <1>6. CASE Spending!OverrideReads(o)
    BY <1>3, <1>4, <1>6 DEF Spending!OverrideReads, Spending!Commands
  <1>7. CASE Spending!OverrideWrites(o)
    <2>1. PICK offer \in Offers : overrides' = [held[o] EXCEPT ![offer[1]] = offer[2]]
      BY <1>7 DEF Spending!OverrideWrites
    <2>2. offer[1] \in Spending!Limits /\ offer[2] \in Nat BY DEF Spending!Parameters
    <2>3. overrides' \in [Spending!Limits -> Nat] BY <2>1, <2>2
    <2>4. ceiling' \in Nat \ {0} BY <1>7, <2>3, RaisedTyped DEF Spending!OverrideWrites
    <2>5. held' \in [Operators -> [Spending!Limits -> Nat]]
      BY <1>7 DEF Spending!OverrideWrites, Spending!NoOverride
    <2> QED BY <1>3, <1>7, <2>3, <2>4, <2>5 DEF Spending!OverrideWrites
  <1>8. CASE Spending!SetEnabled(o)
    BY <1>3, <1>4, <1>8 DEF Spending!SetEnabled, Spending!Commands
  <1>9. CASE Spending!StatusBegins(o)
    BY <1>3, <1>4, <1>9 DEF Spending!StatusBegins, Spending!Commands
  <1>10. CASE Spending!DropSummary(o)
    BY <1>3, <1>10 DEF Spending!DropSummary, Spending!Dropped
  <1> QED BY <1>5, <1>6, <1>7, <1>8, <1>9, <1>10

LEMMA SpendingTimeTyped ==
  ASSUME Spending!Parameters, SpendingFits,
         \/ Spending!LoopAsks \/ Spending!IntervalEnds \/ Spending!Drain \/ Spending!Restart
         \/ \E l \in Spending!Limits : Spending!Revert(l)
  PROVE  SpendingFits'
  <1> USE DEF SpendingFits, Spending!table, Spending!memory, Spending!history
  <1>1. CASE Spending!LoopAsks
    <2>1. Loop \in Spending!Evaluators /\ "evaluate" \in Allowed(Loop)
      BY DEF Spending!Evaluators, Allowed, Resting
    <2>2. PlacesFit(step') BY <1>1, <2>1, PlaceGoes DEF Spending!LoopAsks
    <2> QED BY <1>1, <2>2 DEF Spending!LoopAsks
  <1>2. CASE Spending!IntervalEnds BY <1>2 DEF Spending!IntervalEnds
  <1>3. CASE Spending!Drain
    <2>1. ceiling' \in Nat \ {0}
      BY <1>3, EffectiveTyped DEF Spending!Drain, Spending!Limits
    <2> QED BY <1>3, <2>1 DEF Spending!Drain
  <1>4. CASE Spending!Restart
    <2>1. PlacesFit(step') BY <1>4 DEF Spending!Restart, PlacesFit, Allowed, Resting
    <2>2. commands' \in 0 .. MaxCommands
      BY <1>4 DEF Spending!Restart, Spending!Counted, Spending!Parameters
    <2>3. held' \in [Operators -> [Spending!Limits -> Nat]]
      BY <1>4 DEF Spending!Restart, Spending!NoOverride
    <2> QED BY <1>4, <2>1, <2>2, <2>3 DEF Spending!Restart
  <1>5. ASSUME NEW l \in Spending!Limits, Spending!Revert(l) PROVE SpendingFits'
    <2>1. overrides' \in [Spending!Limits -> Nat] BY <1>5 DEF Spending!Revert
    <2>2. ceiling' \in Nat \ {0} BY <1>5, <2>1, RaisedTyped DEF Spending!Revert
    <2> QED BY <1>5, <2>1, <2>2 DEF Spending!Revert
  <1> QED BY <1>1, <1>2, <1>3, <1>4, <1>5

LEMMA SpendingFitsStep ==
  ASSUME Spending!Parameters, SpendingFits, [Spending!Next]_spending PROVE SpendingFits'
  <1>1. CASE UNCHANGED spending BY <1>1 DEF spending, SpendingFits, PlacesFit
  <1>2. CASE Spending!Next
    BY <1>2, SpendingCallerTyped, SpendingEvaluationTyped, SpendingCommandTyped,
      SpendingTimeTyped DEF Spending!Next
  <1> QED BY <1>1, <1>2

LEMMA SpendingStepOnly == [Next]_vars => [Spending!Next]_spending
  BY DEF Next, SupervisorStep, ApiStep, ChatStep, SpendingStep, vars

LEMMA SpendingAlwaysFits == Spec => []SpendingFits
  <1>1. Init => SpendingFits BY SpendingParameters, SpendingFitsInit DEF Init
  <1>2. SpendingFits /\ [Next]_vars => SpendingFits'
    BY SpendingParameters, SpendingFitsStep, SpendingStepOnly
  <1> QED BY <1>1, <1>2, PTL DEF Spec

-----------------------------------------------------------------------------
(* Spending: who has found the latches before they were cleared holds the  *)
(* lock, and the operator has still to drop the summary.                   *)
SummaryFits ==
    \/ foreign
    \/ \E o \in Operators \ Shell : step[o] \in {"half", "drop"}
    \/ /\ \/ cache = Spending!NoSummary \/ cache \cap Spending!Latching = latched
          \/ \E e \in Spending!Evaluators \ Shell : step[e] \in {"reading", "read"}
       /\ \A e \in Spending!Evaluators \ Shell :
             /\ step[e] = "read" => found[e] \cap Spending!Latching = latched
             /\ step[e] = "reading" => ("restrict" \in found[e] <=> "restrict" \in latched)

(* _eval_lock: in the server one evaluation at a time is past its start.   *)
LockHeld(p, e) == e \in Spending!Evaluators \ Shell /\ p[e] \in {"measured", "reading", "read"}
OneEvaluator   == \A x, y : LockHeld(step, x) /\ LockHeld(step, y) => x = y

LEMMA LockReleased ==
  ASSUME OneEvaluator, \A x : LockHeld(step', x) => LockHeld(step, x)
  PROVE  OneEvaluator'
  BY DEF OneEvaluator

LEMMA LockGoes ==
  ASSUME PlacesFit(step), OneEvaluator, NEW e \in Spending!Evaluators, NEW p, Spending!Go(e, p),
         p \in {"measured", "reading", "read"} => LockHeld(step, e) \/ e \in Shell
  PROVE  OneEvaluator'
  <1>1. \A x \in Spending!Evaluators : step'[x] = IF x = e THEN p ELSE step[x]
    BY DEF PlacesFit, Spending!Go
  <1> QED BY <1>1, LockReleased DEF LockHeld

LEMMA OneEvaluatorStep ==
  ASSUME SpendingFits, OneEvaluator, [Spending!Next]_spending PROVE OneEvaluator'
  <1> USE DEF SpendingFits
  <1>1. CASE UNCHANGED spending BY <1>1 DEF spending, OneEvaluator, LockHeld
  <1>2. ASSUME NEW c \in Payers,
               Spending!Guard(c) \/ Spending!PassDisabled(c) \/ Spending!Record(c)
               \/ Spending!CallFails(c)
        PROVE  OneEvaluator'
    <2>1. \E p : p \notin {"measured", "reading", "read"} /\ Spending!Go(c, p)
      BY <1>2 DEF Spending!Guard, Spending!PassDisabled, Spending!Record, Spending!CallFails,
        Spending!Decide
    <2> QED BY <2>1, LockGoes DEF Spending!Evaluators
  <1>3. ASSUME Spending!LoopAsks PROVE OneEvaluator'
    BY <1>3, LockGoes DEF Spending!LoopAsks, Spending!Evaluators
  <1>4. ASSUME NEW e \in Spending!Evaluators,
               \/ Spending!UseSummary(e) \/ Spending!Latch(e) \/ Spending!ReadRestrict(e)
               \/ Spending!ReadShutdown(e) \/ Spending!EvaluationRaises(e) \/ Spending!Publish(e)
        PROVE  OneEvaluator'
    <2>1. \E p : /\ p \in {"measured", "reading", "read"} => LockHeld(step, e) \/ e \in Shell
                /\ Spending!Go(e, p)
      BY <1>4 DEF Spending!UseSummary, Spending!Latch, Spending!ReadRestrict,
        Spending!ReadShutdown, Spending!EvaluationRaises, Spending!Publish, Spending!Decide,
        Spending!At, LockHeld
    <2> QED BY <2>1, LockGoes
  <1>5. ASSUME NEW e \in Spending!Evaluators, Spending!Measure(e) PROVE OneEvaluator'
    <2>1. CASE e \in Shell BY <1>5, <2>1, LockGoes DEF Spending!Measure
    <2>2. CASE e \notin Shell
      <3>1. ~Spending!Locked BY <1>5, <2>2 DEF Spending!Measure
      <3>2. \A x : ~LockHeld(step, x) BY <3>1 DEF Spending!Locked, LockHeld
      <3>3. \A x \in Spending!Evaluators : x # e => step'[x] = step[x]
        BY <1>5 DEF Spending!Measure, Spending!Go, PlacesFit
      <3> QED BY <3>2, <3>3 DEF OneEvaluator, LockHeld
    <2> QED BY <2>1, <2>2
  <1>6. ASSUME NEW o \in Operators,
               \/ Spending!ResumeBegins(o) \/ Spending!ResumeGoesOn(o) \/ Spending!OverrideReads(o)
               \/ Spending!OverrideWrites(o) \/ Spending!SetEnabled(o) \/ Spending!StatusBegins(o)
               \/ Spending!DropSummary(o)
        PROVE  OneEvaluator'
    <2>1. \E p : p \notin {"measured", "reading", "read"} /\ Spending!Go(o, p)
      BY <1>6 DEF Spending!ResumeBegins, Spending!ResumeGoesOn, Spending!OverrideReads,
        Spending!OverrideWrites, Spending!SetEnabled, Spending!StatusBegins,
        Spending!DropSummary, Spending!Returns
    <2> QED BY <2>1, LockGoes DEF Spending!Evaluators
  <1>7. CASE Spending!IntervalEnds \/ Spending!Drain \/ \E l \in Spending!Limits : Spending!Revert(l)
    BY <1>7 DEF Spending!IntervalEnds, Spending!Drain, Spending!Revert, OneEvaluator, LockHeld
  <1>8. CASE Spending!Restart BY <1>8 DEF Spending!Restart, OneEvaluator, LockHeld
  <1>9. ASSUME NEW e \in Spending!Evaluators, NEW l, Spending!LatchActive(e, l) PROVE OneEvaluator'
    BY <1>9 DEF Spending!LatchActive, OneEvaluator, LockHeld
  <1> QED
    BY <1>1, <1>2, <1>3, <1>4, <1>5, <1>6, <1>7, <1>8, <1>9 DEF Spending!Next, Spending!Evaluates

(* Steps that neither publish nor latch nor end a command.                 *)
LEMMA SummaryElsewhere ==
  ASSUME PlacesFit(step), SummaryFits, NEW e \in Spending!Evaluators, NEW p,
         p \notin {"reading", "read"}, step[e] \notin {"reading", "read", "half", "drop"},
         Spending!Go(e, p),
         UNCHANGED <<latched, cache, foreign>>,
         \A x \in Spending!Evaluators : step[x] \in {"reading", "read"} => found'[x] = found[x]
  PROVE  SummaryFits'
  <1>1. \A x \in Spending!Evaluators : step'[x] = IF x = e THEN p ELSE step[x]
    BY DEF PlacesFit, Spending!Go
  <1>2. Operators \subseteq Spending!Evaluators BY DEF Spending!Evaluators
  <1> QED BY <1>1, <1>2 DEF SummaryFits

LEMMA SummaryCaller ==
  ASSUME SpendingFits, SummaryFits, NEW c \in Payers,
         Spending!Guard(c) \/ Spending!PassDisabled(c) \/ Spending!Record(c) \/ Spending!CallFails(c)
  PROVE  SummaryFits'
  <1> USE DEF Spending!table, Spending!memory, Spending!history
  <1>1. c \in Spending!Evaluators BY DEF Spending!Evaluators
  <1>2. step[c] \notin {"reading", "read", "half", "drop"} /\ UNCHANGED <<latched, cache, foreign, found>>
    BY DEF Spending!Guard, Spending!PassDisabled, Spending!Record, Spending!CallFails, Spending!At
  <1>3. \E p : p \notin {"reading", "read"} /\ Spending!Go(c, p)
    BY DEF Spending!Guard, Spending!PassDisabled, Spending!Record, Spending!CallFails,
      Spending!Decide
  <1> QED BY <1>1, <1>2, <1>3, SummaryElsewhere DEF SpendingFits

(* Who reads latches in the server leaves a true summary, or true so far.   *)
LEMMA SummaryRead ==
  ASSUME SpendingFits, OneEvaluator, SummaryFits, NEW e \in Spending!Evaluators \ Shell,
         NEW p \in {"reading", "read"}, step[e] \in {"measured", "reading"}, Spending!Go(e, p),
         cache' = cache, \A x \in Spending!Evaluators : x # e => found'[x] = found[x],
         latched' # latched => p = "read",
         p = "read" => found'[e] \cap Spending!Latching = latched',
         p = "reading" => ("restrict" \in found'[e] <=> "restrict" \in latched'),
         UNCHANGED <<cache, foreign>> \/ ~foreign'
  PROVE  SummaryFits'
  <1>1. \A x \in Spending!Evaluators : step'[x] = IF x = e THEN p ELSE step[x]
    BY DEF SpendingFits, PlacesFit, Spending!Go
  <1>2. \A x \in Spending!Evaluators \ Shell : step[x] \in {"measured", "reading", "read"} => x = e
    BY DEF OneEvaluator, LockHeld
  <1>3. step[e] # "read" OBVIOUS
  <1> QED BY <1>1, <1>2, <1>3 DEF SummaryFits

LEMMA SummaryEvaluation ==
  ASSUME SpendingFits, OneEvaluator, SummaryFits, NEW e \in Spending!Evaluators,
         \/ Spending!UseSummary(e) \/ Spending!Measure(e) \/ Spending!Evaluates(e)
         \/ Spending!EvaluationRaises(e)
  PROVE  SummaryFits'
  <1> USE DEF Spending!table, Spending!memory, Spending!history
  <1>0. Operators \subseteq Spending!Evaluators BY DEF Spending!Evaluators
  <1>1. CASE Spending!UseSummary(e) \/ Spending!Measure(e) \/ Spending!EvaluationRaises(e)
    <2>1. /\ step[e] \notin {"reading", "read", "half", "drop"}
          /\ UNCHANGED <<latched, cache, foreign>>
      BY <1>1 DEF Spending!UseSummary, Spending!Measure, Spending!EvaluationRaises, Spending!At
    <2>2. \E p : p \notin {"reading", "read"} /\ Spending!Go(e, p)
      BY <1>1 DEF Spending!UseSummary, Spending!Measure, Spending!EvaluationRaises, Spending!Decide
    <2>3. \A x \in Spending!Evaluators : step[x] \in {"reading", "read"} => found'[x] = found[x]
      BY <1>1, <2>1 DEF Spending!UseSummary, Spending!Measure, Spending!EvaluationRaises,
        SpendingFits
    <2> QED BY <2>1, <2>2, <2>3, SummaryElsewhere DEF SpendingFits
  <1>2. ASSUME NEW l, Spending!LatchActive(e, l) PROVE SummaryFits'
    BY <1>2 DEF Spending!LatchActive, SummaryFits
  <1>3. CASE e \in Shell /\ (Spending!Latch(e) \/ Spending!ReadRestrict(e) \/ Spending!ReadShutdown(e))
    <2>1. /\ \A x \in Spending!Evaluators : x # e => step'[x] = step[x] /\ found'[x] = found[x]
          /\ cache' = cache
      BY <1>3 DEF Spending!Latch, Spending!ReadRestrict, Spending!ReadShutdown, Spending!Go,
        SpendingFits, PlacesFit
    <2>2. foreign' \/ (latched' = latched /\ ~foreign)
      BY <1>3 DEF Spending!Latch, Spending!ReadRestrict, Spending!ReadShutdown,
        Spending!LatchesRead
    <2> QED BY <1>0, <1>3, <2>1, <2>2 DEF SummaryFits
  <1>4. CASE e \notin Shell /\ Spending!Latch(e)
    <2>1. /\ Spending!Go(e, "read") /\ step[e] = "measured" /\ cache' = cache /\ ~foreign'
          /\ found' = [found EXCEPT ![e] = Spending!Findings(e)]
      BY <1>4 DEF Spending!Latch, Spending!At, Spending!LatchesRead
    <2>2. found'[e] = Spending!Findings(e) /\ latched' \subseteq Spending!Latching
      BY <1>4, <2>1 DEF Spending!Latch, Spending!ToLatch, SpendingFits
    <2>3. found'[e] \cap Spending!Latching = latched'
      BY <2>2 DEF Spending!Findings, Spending!Latching
    <2> QED BY <1>4, <2>1, <2>3, SummaryRead DEF SpendingFits
  <1>5. CASE e \notin Shell /\ Spending!ReadRestrict(e)
    <2>1. /\ Spending!Go(e, "reading") /\ step[e] = "measured" /\ cache' = cache /\ ~foreign'
          /\ found' = [found EXCEPT ![e] = Spending!Reread(e, "restrict")] /\ latched' = latched
      BY <1>5 DEF Spending!ReadRestrict, Spending!At, Spending!LatchesRead
    <2>2. "restrict" \in found'[e] <=> "restrict" \in latched'
      BY <2>1 DEF Spending!Reread, SpendingFits
    <2> QED BY <1>5, <2>1, <2>2, SummaryRead DEF SpendingFits
  <1>6. CASE e \notin Shell /\ Spending!ReadShutdown(e)
    <2>1. /\ Spending!Go(e, "read") /\ step[e] = "reading" /\ cache' = cache
          /\ found' = [found EXCEPT ![e] = Spending!Reread(e, "shutdown")]
          /\ latched' = latched /\ foreign' = foreign
      BY <1>6 DEF Spending!ReadShutdown, Spending!At
    <2>2. CASE \/ foreign
               \/ \E o \in Operators \ Shell : step[o] \in {"half", "drop"}
      BY <1>0, <2>1, <2>2 DEF SummaryFits, Spending!Go, SpendingFits, PlacesFit
    <2>3. CASE ~foreign /\ ~\E o \in Operators \ Shell : step[o] \in {"half", "drop"}
      <3>1. "restrict" \in found[e] <=> "restrict" \in latched
        BY <1>6, <2>1, <2>3 DEF SummaryFits
      <3>2. found'[e] \cap Spending!Latching = latched'
        BY <2>1, <3>1 DEF Spending!Reread, SpendingFits, Spending!Latching
      <3> QED BY <1>6, <2>1, <3>2, SummaryRead DEF SpendingFits
    <2> QED BY <2>2, <2>3
  <1>7. CASE Spending!Publish(e)
    <2>1. \E p : p \notin {"reading", "read", "half", "drop"} /\ Spending!Go(e, p)
      BY <1>7 DEF Spending!Publish, Spending!Decide
    <2>2. /\ \A x \in Spending!Evaluators : x # e => step'[x] = step[x] /\ found'[x] = found[x]
          /\ step[e] = "read" /\ step'[e] \notin {"reading", "read", "half", "drop"}
      BY <1>7, <2>1 DEF Spending!Publish, Spending!At, Spending!Go, SpendingFits, PlacesFit
    <2>3. UNCHANGED <<latched, foreign>> BY <1>7 DEF Spending!Publish
    <2>4. CASE e \in Shell
      <3>1. cache' = cache BY <1>7, <2>4 DEF Spending!Publish
      <3> QED BY <1>0, <2>2, <2>3, <2>4, <3>1 DEF SummaryFits
    <2>5. CASE e \notin Shell
      <3>1. cache' = found[e] BY <1>7, <2>5 DEF Spending!Publish
      <3> QED BY <1>0, <2>2, <2>3, <2>5, <3>1 DEF SummaryFits
    <2> QED BY <2>4, <2>5
  <1> QED BY <1>1, <1>2, <1>3, <1>4, <1>5, <1>6, <1>7 DEF Spending!Evaluates

LEMMA SummaryCommand ==
  ASSUME SpendingFits, SummaryFits, NEW o \in Operators,
         \/ Spending!ResumeBegins(o) \/ Spending!ResumeGoesOn(o) \/ Spending!OverrideReads(o)
         \/ Spending!OverrideWrites(o) \/ Spending!SetEnabled(o) \/ Spending!StatusBegins(o)
         \/ Spending!DropSummary(o)
  PROVE  SummaryFits'
  <1> USE DEF Spending!table, Spending!memory, Spending!history
  <1>1. Operators \subseteq Spending!Evaluators BY DEF Spending!Evaluators
  <1>2. CASE \/ Spending!OverrideReads(o) \/ Spending!OverrideWrites(o)
             \/ Spending!SetEnabled(o) \/ Spending!StatusBegins(o)
    <2>1. /\ step[o] \notin {"reading", "read", "half", "drop"}
          /\ UNCHANGED <<latched, cache, foreign, found>>
      BY <1>2 DEF Spending!OverrideReads, Spending!OverrideWrites, Spending!SetEnabled,
        Spending!StatusBegins, Spending!Commands, Spending!At
    <2>2. \E p : p \notin {"reading", "read"} /\ Spending!Go(o, p)
      BY <1>2 DEF Spending!OverrideReads, Spending!OverrideWrites, Spending!SetEnabled,
        Spending!StatusBegins, Spending!Returns
    <2> QED BY <1>1, <2>1, <2>2, SummaryElsewhere DEF SpendingFits
  <1>3. CASE Spending!ResumeBegins(o) \/ Spending!ResumeGoesOn(o)
    <2>1. PICK l \in Spending!Latching : Spending!Clear(o, l)
      BY <1>3 DEF Spending!ResumeBegins, Spending!ResumeGoesOn, Spending!Latching
    <2>2. UNCHANGED <<cache, found>> BY <2>1 DEF Spending!Clear
    <2>3. \E p : /\ Spending!Go(o, p) /\ p \notin {"reading", "read"}
                /\ (o \in Shell \/ p \in {"half", "drop"})
      BY <1>3 DEF Spending!ResumeBegins, Spending!ResumeGoesOn, Spending!Returns
    <2>4. /\ \A x \in Spending!Evaluators : x # o => step'[x] = step[x]
          /\ step'[o] \notin {"reading", "read"} /\ (o \in Shell \/ step'[o] \in {"half", "drop"})
      BY <1>1, <2>3 DEF Spending!Go, SpendingFits, PlacesFit
    <2>5. CASE o \in Shell
      <3>1. foreign' \/ (latched' = latched /\ ~foreign) BY <2>1, <2>5 DEF Spending!Clear
      <3> QED BY <1>1, <2>2, <2>4, <2>5, <3>1 DEF SummaryFits
    <2>6. CASE o \notin Shell BY <2>4, <2>6 DEF SummaryFits
    <2> QED BY <2>5, <2>6
  <1>4. CASE Spending!DropSummary(o)
    <2>1. /\ \A x \in Spending!Evaluators :
                step'[x] \in {"reading", "read"} => step[x] \in {"reading", "read"}
          /\ cache' = Spending!NoSummary
      BY <1>1, <1>4 DEF Spending!DropSummary, Spending!Dropped, Spending!Go, SpendingFits, PlacesFit
    <2>2. \A x \in Spending!Evaluators \ Shell : step[x] \notin {"reading", "read"}
      BY <1>4 DEF Spending!DropSummary, Spending!Locked
    <2> QED BY <2>1, <2>2 DEF SummaryFits
  <1> QED BY <1>2, <1>3, <1>4

LEMMA SummaryStep ==
  ASSUME SpendingFits, OneEvaluator, SummaryFits, [Spending!Next]_spending PROVE SummaryFits'
  <1> USE DEF Spending!table, Spending!memory, Spending!history
  <1>1. CASE UNCHANGED spending BY <1>1 DEF spending, SummaryFits
  <1>2. CASE Spending!LoopAsks
    <2>1. Loop \in Spending!Evaluators BY DEF Spending!Evaluators
    <2> QED
      BY <1>2, <2>1, SummaryElsewhere DEF Spending!LoopAsks, Spending!At, SpendingFits
  <1>3. CASE Spending!IntervalEnds \/ Spending!Drain \/ \E l \in Spending!Limits : Spending!Revert(l)
    BY <1>3 DEF Spending!IntervalEnds, Spending!Drain, Spending!Revert, SummaryFits
  <1>4. CASE Spending!Restart
    <2>1. \A x \in Spending!Evaluators \ Shell : step'[x] = "idle" BY <1>4 DEF Spending!Restart
    <2>2. cache' = Spending!NoSummary BY <1>4 DEF Spending!Restart
    <2> QED BY <2>1, <2>2 DEF SummaryFits
  <1> QED
    BY <1>1, <1>2, <1>3, <1>4, SummaryCaller, SummaryEvaluation, SummaryCommand DEF Spending!Next

(* The summary in memory says what the latches say (resume and _evaluate), *)
(* for any number of threads and operators.                                *)
THEOREM SpendingSummaryAgrees == Spec => []SummaryAgrees
  <1> DEFINE I == OneEvaluator /\ SummaryFits
  <1>1. Init => I
    BY DEF Init, Spending!Init, OneEvaluator, LockHeld, SummaryFits
  <1>2. SpendingFits /\ I /\ [Next]_vars => I'
    BY SpendingStepOnly, OneEvaluatorStep, SummaryStep
  <1>3. I => SummaryAgrees
    BY DEF SummaryAgrees, Spending!SummaryAgrees, SummaryFits, Spending!Locked
  <1>4. Spec => []I BY <1>1, <1>2, SpendingAlwaysFits, PTL DEF Spec
  <1> QED BY <1>3, <1>4, PTL

-----------------------------------------------------------------------------
(* Spending: the threads that will call, as far as they know.              *)
Granted == {c \in Payers : \/ step[c] = "calling"
                           \/ /\ step[c] \in {"measured", "reading", "read"}
                              /\ "shutdown" \notin found[c]}

BoundHolds == spent + Cardinality(Granted) <= ceiling - 1 + Cardinality(Payers) + begun

(* Who reads outside of a transaction has found its latch active.          *)
ReadsLatched ==
    \A c \in Payers : step[c] = "reading" /\ "shutdown" \in found[c] => "shutdown" \in active[c]

SpendingBound == Spending!Effective(overrides, "shutdown") <= ceiling /\ (freed \/ BoundHolds)

LEMMA PayersFinite ==
  ASSUME NEW S \in SUBSET Payers
  PROVE  IsFiniteSet(S) /\ Cardinality(S) \in Nat /\ Cardinality(S) <= Cardinality(Payers)
  <1>1. IsFiniteSet(Payers)
    BY SpendingParameters DEF Spending!Parameters, Spending!IsFiniteSet, IsFiniteSet
  <1> QED BY <1>1, FS_Subset, FS_CardinalityType

LEMMA GrantedTyped ==
  /\ Cardinality(Payers) \in Nat
  /\ Cardinality(Granted) \in Nat /\ Cardinality(Granted) <= Cardinality(Payers)
  /\ Cardinality(Granted') \in Nat /\ Cardinality(Granted') <= Cardinality(Payers)
  <1>1. Granted \subseteq Payers /\ Granted' \subseteq Payers BY DEF Granted
  <1> QED BY <1>1, PayersFinite

(* One thread more, one thread less, the same threads or fewer.            *)
LEMMA GrantedMore ==
  ASSUME NEW c \in Payers, Granted' \subseteq Granted \cup {c}
  PROVE  Cardinality(Granted') <= Cardinality(Granted) + 1
  <1>1. Granted \subseteq Payers BY DEF Granted
  <1>2. IsFiniteSet(Granted) /\ IsFiniteSet(Granted \cup {c}) BY <1>1, PayersFinite
  <1>3. Cardinality(Granted \cup {c}) <= Cardinality(Granted) + 1
    BY <1>1, <1>2, PayersFinite, FS_AddElement
  <1>4. Cardinality(Granted') <= Cardinality(Granted \cup {c}) BY <1>2, FS_Subset
  <1>5. Cardinality(Granted \cup {c}) \in Nat BY <1>1, PayersFinite
  <1> QED BY <1>3, <1>4, <1>5, GrantedTyped

LEMMA GrantedLess ==
  ASSUME NEW c \in Granted, Granted' \subseteq Granted \ {c}
  PROVE  Cardinality(Granted') <= Cardinality(Granted) - 1
  <1>1. Granted \subseteq Payers BY DEF Granted
  <1>2. IsFiniteSet(Granted) /\ IsFiniteSet(Granted \ {c}) BY <1>1, PayersFinite
  <1>3. Cardinality(Granted \ {c}) = Cardinality(Granted) - 1 BY <1>2, FS_RemoveElement
  <1>4. Cardinality(Granted') <= Cardinality(Granted \ {c}) BY <1>2, FS_Subset
  <1> QED BY <1>3, <1>4, GrantedTyped

LEMMA GrantedFewer ==
  ASSUME Granted' \subseteq Granted PROVE Cardinality(Granted') <= Cardinality(Granted)
  <1>1. Granted \subseteq Payers BY DEF Granted
  <1> QED BY <1>1, PayersFinite, FS_Subset

LEMMA BoundKept ==
  ASSUME SpendingFits, SpendingBound, Granted' \subseteq Granted, spent' = spent,
         ceiling' \in Nat, ceiling' >= ceiling, begun' \in Nat, begun' >= begun, freed' = freed
  PROVE  freed' \/ BoundHolds'
  BY GrantedFewer, GrantedTyped DEF SpendingFits, SpendingBound, BoundHolds

LEMMA SameEffective ==
  ASSUME SpendingBound, UNCHANGED <<overrides, ceiling>>
  PROVE  Spending!Effective(overrides', "shutdown") <= ceiling'
  BY DEF SpendingBound

(* A step of one actor leaves the others where they are.                   *)
LEMMA GrantedElsewhere ==
  ASSUME PlacesFit(step), NEW e \in Spending!Evaluators, NEW p, Spending!Go(e, p),
         \A x \in Payers \ {e} : found'[x] = found[x]
  PROVE  /\ Granted' \subseteq Granted \cup ({e} \cap Payers)
         /\ Granted' \ {e} = Granted \ {e} /\ step'[e] = p
  <1>1. \A x \in Spending!Evaluators : step'[x] = IF x = e THEN p ELSE step[x]
    BY DEF PlacesFit, Spending!Go
  <1> QED BY <1>1 DEF Granted, Spending!Evaluators

LEMMA BoundCaller ==
  ASSUME SpendingFits, SpendingBound, NEW c \in Payers,
         Spending!Guard(c) \/ Spending!PassDisabled(c) \/ Spending!Record(c) \/ Spending!CallFails(c)
  PROVE  SpendingBound'
  <1> USE DEF Spending!table, Spending!memory, Spending!history
  <1>1. UNCHANGED <<overrides, ceiling, begun, found>>
    BY DEF Spending!Guard, Spending!PassDisabled, Spending!Record, Spending!CallFails
  <1>2. c \in Spending!Evaluators BY DEF Spending!Evaluators
  <1>3. CASE Spending!Guard(c)
    <2>1. freed' \/ (Spending!Go(c, "evaluate") /\ freed' = freed)
      BY <1>3 DEF Spending!Guard
    <2>2. ASSUME ~freed' PROVE Granted' \subseteq Granted
      BY <1>1, <1>2, <2>1, <2>2, GrantedElsewhere DEF SpendingFits, Granted
    <2>3. spent' = spent BY <1>3 DEF Spending!Guard
    <2> QED
      BY <1>1, <2>1, <2>2, <2>3, BoundKept, SameEffective DEF SpendingBound, SpendingFits
  <1>4. CASE Spending!PassDisabled(c)
    BY <1>1, <1>4, SameEffective DEF SpendingBound, Spending!PassDisabled
  <1>5. CASE Spending!Record(c) \/ Spending!CallFails(c)
    <2>1. c \in Granted /\ Spending!Go(c, "idle") /\ freed' = freed
      BY <1>5 DEF Granted, Spending!Record, Spending!CallFails, Spending!At
    <2>2. Granted' \subseteq Granted \ {c}
      BY <1>1, <1>2, <2>1, GrantedElsewhere DEF SpendingFits, Granted
    <2>3. Cardinality(Granted') <= Cardinality(Granted) - 1 BY <2>1, <2>2, GrantedLess
    <2>4. spent' \in {spent, spent + 1} BY <1>5 DEF Spending!Record, Spending!CallFails
    <2>5. freed' \/ BoundHolds'
      BY <1>1, <2>1, <2>3, <2>4, GrantedTyped DEF SpendingBound, BoundHolds, SpendingFits
    <2> QED BY <1>1, <2>5, SameEffective DEF SpendingBound
  <1> QED BY <1>3, <1>4, <1>5

LEMMA ReadsLatchedStep ==
  ASSUME SpendingFits, ReadsLatched, [Spending!Next]_spending PROVE ReadsLatched'
  <1> USE DEF Spending!table, Spending!memory, Spending!history
  <1>1. ASSUME NEW e \in Spending!Evaluators, NEW p, p # "reading", Spending!Go(e, p),
               \A x \in Payers \ {e} : found'[x] = found[x] /\ active'[x] = active[x]
        PROVE  ReadsLatched'
    BY <1>1 DEF Spending!Go, ReadsLatched, SpendingFits, PlacesFit, Spending!Evaluators
  <1>2. CASE UNCHANGED spending BY <1>2 DEF spending, ReadsLatched
  <1>3. ASSUME NEW c \in Payers,
               Spending!Guard(c) \/ Spending!PassDisabled(c) \/ Spending!Record(c)
               \/ Spending!CallFails(c)
        PROVE  ReadsLatched'
    <2>1. \E p : p # "reading" /\ Spending!Go(c, p)
      BY <1>3 DEF Spending!Guard, Spending!PassDisabled, Spending!Record, Spending!CallFails,
        Spending!Decide
    <2>2. UNCHANGED <<found, active>>
      BY <1>3 DEF Spending!Guard, Spending!PassDisabled, Spending!Record, Spending!CallFails
    <2> QED BY <1>1, <2>1, <2>2 DEF Spending!Evaluators
  <1>4. CASE Spending!LoopAsks BY <1>1, <1>4 DEF Spending!LoopAsks, Spending!Evaluators
  <1>5. ASSUME NEW e \in Spending!Evaluators,
               \/ Spending!UseSummary(e) \/ Spending!Measure(e) \/ Spending!Latch(e)
               \/ Spending!ReadShutdown(e) \/ Spending!EvaluationRaises(e) \/ Spending!Publish(e)
        PROVE  ReadsLatched'
    <2>1. \E p : p # "reading" /\ Spending!Go(e, p)
      BY <1>5 DEF Spending!UseSummary, Spending!Measure, Spending!Latch, Spending!ReadShutdown,
        Spending!EvaluationRaises, Spending!Publish, Spending!Decide
    <2>2. \A x \in Payers \ {e} : found'[x] = found[x] /\ active'[x] = active[x]
      BY <1>5 DEF Spending!UseSummary, Spending!Measure, Spending!Latch, Spending!ReadShutdown,
        Spending!EvaluationRaises, Spending!Publish, SpendingFits, Spending!Evaluators
    <2> QED BY <1>1, <2>1, <2>2
  <1>6. ASSUME NEW e \in Spending!Evaluators, NEW l \in Spending!Latching,
               Spending!LatchActive(e, l)
        PROVE  ReadsLatched'
    BY <1>6 DEF Spending!LatchActive, ReadsLatched, SpendingFits, Spending!Evaluators
  <1>7. ASSUME NEW e \in Spending!Evaluators, Spending!ReadRestrict(e) PROVE ReadsLatched'
    <2>1. /\ active' = active /\ Spending!ToLatch(e) = {} /\ Spending!Go(e, "reading")
          /\ found' = [found EXCEPT ![e] = Spending!Reread(e, "restrict")]
      BY <1>7 DEF Spending!ReadRestrict
    <2>2. \A x \in Spending!Evaluators : "shutdown" \in found'[x] <=> "shutdown" \in found[x]
      BY <2>1 DEF Spending!Reread, SpendingFits
    <2>3. "shutdown" \in found[e] => "shutdown" \in active[e]
      BY <2>1 DEF Spending!ToLatch, Spending!Latching
    <2>4. \A x \in Spending!Evaluators : x # e => step'[x] = step[x]
      BY <2>1 DEF Spending!Go, SpendingFits, PlacesFit
    <2> QED BY <2>1, <2>2, <2>3, <2>4 DEF ReadsLatched, Spending!Evaluators
  <1>8. ASSUME NEW o \in Operators,
               \/ Spending!ResumeBegins(o) \/ Spending!ResumeGoesOn(o) \/ Spending!OverrideReads(o)
               \/ Spending!OverrideWrites(o) \/ Spending!SetEnabled(o) \/ Spending!StatusBegins(o)
               \/ Spending!DropSummary(o)
        PROVE  ReadsLatched'
    <2>1. \E p : p # "reading" /\ Spending!Go(o, p)
      BY <1>8 DEF Spending!ResumeBegins, Spending!ResumeGoesOn, Spending!OverrideReads,
        Spending!OverrideWrites, Spending!SetEnabled, Spending!StatusBegins, Spending!DropSummary,
        Spending!Returns
    <2>2. UNCHANGED <<found, active>>
      BY <1>8 DEF Spending!ResumeBegins, Spending!ResumeGoesOn, Spending!OverrideReads,
        Spending!OverrideWrites, Spending!SetEnabled, Spending!StatusBegins, Spending!DropSummary,
        Spending!Clear
    <2> QED BY <1>1, <2>1, <2>2 DEF Spending!Evaluators
  <1>9. CASE Spending!IntervalEnds \/ Spending!Drain \/ \E l \in Spending!Limits : Spending!Revert(l)
    BY <1>9 DEF Spending!IntervalEnds, Spending!Drain, Spending!Revert, ReadsLatched
  <1>10. CASE Spending!Restart
    BY <1>10 DEF Spending!Restart, ReadsLatched, Spending!Evaluators
  <1> QED
    BY <1>2, <1>3, <1>4, <1>5, <1>6, <1>7, <1>8, <1>9, <1>10 DEF Spending!Next, Spending!Evaluates

(* A verdict that a resume turned is paid for in begun; any other stands.  *)
LEMMA BoundSettled ==
  ASSUME SpendingFits, SpendingBound, NEW e \in Spending!Evaluators, Spending!Go(e, "read"),
         step[e] \in {"measured", "reading"}, Spending!Counts(e),
         UNCHANGED <<spent, overrides, ceiling, freed>>,
         \A x \in Payers \ {e} : found'[x] = found[x],
         e \in Payers /\ "shutdown" \in found[e] /\ "shutdown" \notin found'[e] => Spending!Pardoned(e)
  PROVE  SpendingBound'
  <1>1. CASE Spending!Pardoned(e)
    <2>1. begun' = begun + 1 /\ e \in Payers BY <1>1 DEF Spending!Counts, Spending!Pardoned
    <2>2. Granted' \subseteq Granted \cup {e} BY GrantedElsewhere DEF SpendingFits
    <2>3. Cardinality(Granted') <= Cardinality(Granted) + 1 BY <2>1, <2>2, GrantedMore
    <2> QED
      BY <2>1, <2>3, GrantedTyped, SameEffective DEF SpendingBound, BoundHolds, SpendingFits
  <1>2. CASE ~Spending!Pardoned(e)
    <2>1. begun' = begun BY <1>2 DEF Spending!Counts
    <2>2. Granted' \subseteq Granted BY <1>2, GrantedElsewhere DEF SpendingFits, Granted
    <2> QED BY <2>1, <2>2, BoundKept, SameEffective DEF SpendingBound, SpendingFits
  <1> QED BY <1>1, <1>2

LEMMA BoundEvaluation ==
  ASSUME SpendingFits, SpendingBound, ReadsLatched, NEW e \in Spending!Evaluators,
         \/ Spending!UseSummary(e) \/ Spending!Measure(e) \/ Spending!Evaluates(e)
         \/ Spending!EvaluationRaises(e)
  PROVE  SpendingBound'
  <1> USE DEF Spending!table, Spending!memory, Spending!history
  <1>1. UNCHANGED <<spent, overrides, ceiling, freed>>
    BY DEF Spending!UseSummary, Spending!Measure, Spending!Evaluates, Spending!LatchActive,
      Spending!Latch, Spending!ReadRestrict, Spending!ReadShutdown, Spending!EvaluationRaises,
      Spending!Publish
  <1>2. \A x \in Payers \ {e} : found'[x] = found[x]
    BY DEF Spending!UseSummary, Spending!Measure, Spending!Evaluates, Spending!LatchActive,
      Spending!Latch, Spending!ReadRestrict, Spending!ReadShutdown, Spending!EvaluationRaises,
      Spending!Publish, SpendingFits, Spending!Evaluators
  <1>3. CASE Spending!UseSummary(e)
    <2>1. PICK p : p = (IF e \in Payers /\ "shutdown" \notin cache THEN "calling" ELSE "idle")
                   /\ Spending!Go(e, p)
      BY <1>3 DEF Spending!UseSummary, Spending!Decide
    <2>2. CASE e \in Payers /\ "shutdown" \notin cache
      <3>1. begun' = begun + 1 BY <1>3, <2>2 DEF Spending!UseSummary
      <3>2. Granted' \subseteq Granted \cup {e}
        BY <1>2, <2>1, GrantedElsewhere DEF SpendingFits
      <3>3. Cardinality(Granted') <= Cardinality(Granted) + 1 BY <2>2, <3>2, GrantedMore
      <3> QED
        BY <1>1, <3>1, <3>3, GrantedTyped, SameEffective DEF SpendingBound, BoundHolds, SpendingFits
    <2>3. CASE ~(e \in Payers /\ "shutdown" \notin cache)
      <3>1. begun' = begun BY <1>3, <2>3 DEF Spending!UseSummary
      <3>2. Granted' \subseteq Granted
        BY <1>2, <2>1, <2>3, GrantedElsewhere DEF SpendingFits, Granted
      <3> QED BY <1>1, <3>1, <3>2, BoundKept, SameEffective DEF SpendingBound, SpendingFits
    <2> QED BY <2>2, <2>3
  <1>4. CASE Spending!Measure(e)
    <2>1. CASE e \notin Shell /\ "shutdown" \notin Spending!Over
      <3>1. begun' = 0 BY <1>4, <2>1 DEF Spending!Measure
      <3>2. Spending!Effective(overrides, "shutdown") \in Nat \ {0}
        BY SpendingParameters, EffectiveTyped DEF SpendingFits, Spending!Limits
      <3>3. spent < Spending!Effective(overrides, "shutdown")
        BY <2>1, <3>2 DEF Spending!Over, Spending!Limits, SpendingFits
      <3>4. spent <= ceiling - 1 BY <3>2, <3>3 DEF SpendingBound, SpendingFits
      <3> QED
        BY <1>1, <3>1, <3>4, GrantedTyped, SameEffective DEF SpendingBound, BoundHolds, SpendingFits
    <2>2. CASE ~(e \notin Shell /\ "shutdown" \notin Spending!Over)
      <3>1. begun' = begun BY <1>4, <2>2 DEF Spending!Measure
      <3>2. e \in Payers => "shutdown" \in found'[e]
        BY <1>4, <2>2, SpendingParameters DEF Spending!Measure, Spending!Parameters, SpendingFits
      <3>3. Spending!Go(e, "measured") BY <1>4 DEF Spending!Measure
      <3>4. Granted' \subseteq Granted
        BY <1>2, <3>2, <3>3, GrantedElsewhere DEF SpendingFits, Granted
      <3> QED BY <1>1, <3>1, <3>4, BoundKept, SameEffective DEF SpendingBound, SpendingFits
    <2> QED BY <2>1, <2>2
  <1>5. CASE Spending!Latch(e)
    <2>1. /\ Spending!Counts(e) /\ Spending!Go(e, "read") /\ step[e] = "measured"
          /\ latched' = latched \cup Spending!ToLatch(e)
          /\ found' = [found EXCEPT ![e] = Spending!Findings(e)]
      BY <1>5 DEF Spending!Latch, Spending!At
    <2>2. found'[e] = Spending!Findings(e) BY <2>1 DEF SpendingFits
    <2>3. e \in Payers /\ "shutdown" \in found[e] /\ "shutdown" \notin found'[e]
          => Spending!Pardoned(e)
      BY <2>1, <2>2 DEF Spending!Findings, Spending!ToLatch, Spending!Latching, Spending!Pardoned
    <2> QED BY <1>1, <1>2, <2>1, <2>3, BoundSettled
  <1>8. CASE Spending!ReadRestrict(e)
    <2>1. /\ begun' = begun /\ Spending!Go(e, "reading") /\ step[e] = "measured"
          /\ found' = [found EXCEPT ![e] = Spending!Reread(e, "restrict")]
      BY <1>8 DEF Spending!ReadRestrict, Spending!At
    <2>2. "shutdown" \in found[e] => "shutdown" \in found'[e]
      BY <2>1 DEF Spending!Reread, SpendingFits
    <2>3. Granted' \subseteq Granted
      BY <1>2, <2>1, <2>2, GrantedElsewhere DEF SpendingFits, Granted
    <2> QED BY <1>1, <2>1, <2>3, BoundKept, SameEffective DEF SpendingBound, SpendingFits
  <1>9. CASE Spending!ReadShutdown(e)
    <2>1. /\ Spending!Counts(e) /\ Spending!Go(e, "read") /\ step[e] = "reading"
          /\ found' = [found EXCEPT ![e] = Spending!Reread(e, "shutdown")]
      BY <1>9 DEF Spending!ReadShutdown, Spending!At
    <2>2. e \in Payers /\ "shutdown" \in found[e] /\ "shutdown" \notin found'[e]
          => Spending!Pardoned(e)
      BY <2>1 DEF Spending!Reread, SpendingFits, Spending!Pardoned, ReadsLatched
    <2> QED BY <1>1, <1>2, <2>1, <2>2, BoundSettled
  <1>10. ASSUME NEW l, Spending!LatchActive(e, l) PROVE SpendingBound'
    <2>1. UNCHANGED <<step, found, begun>> BY <1>10 DEF Spending!LatchActive
    <2>2. Granted' \subseteq Granted BY <2>1 DEF Granted
    <2> QED BY <1>1, <2>1, <2>2, BoundKept, SameEffective DEF SpendingBound, SpendingFits
  <1>6. CASE Spending!EvaluationRaises(e)
    <2>1. begun' = begun /\ Spending!Go(e, "idle")
      BY <1>6 DEF Spending!EvaluationRaises
    <2>2. Granted' \subseteq Granted BY <1>2, <2>1, GrantedElsewhere DEF SpendingFits, Granted
    <2> QED BY <1>1, <2>1, <2>2, BoundKept, SameEffective DEF SpendingBound, SpendingFits
  <1>7. CASE Spending!Publish(e)
    <2>1. PICK p : p = (IF e \in Payers /\ "shutdown" \notin found[e] THEN "calling" ELSE "idle")
                   /\ Spending!Go(e, p)
      BY <1>7 DEF Spending!Publish, Spending!Decide
    <2>2. step[e] = "read" /\ begun' = begun BY <1>7 DEF Spending!Publish, Spending!At
    <2>3. Granted' \subseteq Granted
      BY <1>2, <2>1, <2>2, GrantedElsewhere DEF SpendingFits, Granted
    <2> QED BY <1>1, <2>2, <2>3, BoundKept, SameEffective DEF SpendingBound, SpendingFits
  <1> QED
    BY <1>3, <1>4, <1>5, <1>6, <1>7, <1>8, <1>9, <1>10 DEF Spending!Evaluates

LEMMA BoundCommand ==
  ASSUME SpendingFits, SpendingBound, NEW o \in Operators,
         \/ Spending!ResumeBegins(o) \/ Spending!ResumeGoesOn(o) \/ Spending!OverrideReads(o)
         \/ Spending!OverrideWrites(o) \/ Spending!SetEnabled(o) \/ Spending!StatusBegins(o)
         \/ Spending!DropSummary(o)
  PROVE  SpendingBound'
  <1> USE DEF Spending!table, Spending!memory, Spending!history
  <1>1. UNCHANGED <<spent, begun, freed, found>>
    BY DEF Spending!ResumeBegins, Spending!ResumeGoesOn, Spending!OverrideReads,
      Spending!OverrideWrites, Spending!SetEnabled, Spending!StatusBegins, Spending!DropSummary,
      Spending!Clear
  <1>2. \E p : Spending!Go(o, p)
    BY DEF Spending!ResumeBegins, Spending!ResumeGoesOn, Spending!OverrideReads,
      Spending!OverrideWrites, Spending!SetEnabled, Spending!StatusBegins, Spending!DropSummary,
      Spending!Returns
  <1>3. o \in Spending!Evaluators /\ o \notin Payers
    BY SpendingParameters DEF Spending!Evaluators, Spending!Parameters
  <1>4. Granted' \subseteq Granted
    BY <1>1, <1>2, <1>3, GrantedElsewhere DEF SpendingFits, Granted
  <1>5. CASE Spending!OverrideWrites(o)
    <2>1. PICK offer \in Offers : overrides' = [held[o] EXCEPT ![offer[1]] = offer[2]]
      BY <1>5 DEF Spending!OverrideWrites
    <2>2. offer[2] \in Nat BY SpendingParameters DEF Spending!Parameters
    <2>3. overrides' \in [Spending!Limits -> Nat] BY <2>1, <2>2 DEF SpendingFits
    <2>4. ceiling' = Spending!Raised(overrides') BY <1>5 DEF Spending!OverrideWrites
    <2>5. /\ ceiling' \in Nat \ {0} /\ ceiling' >= ceiling
          /\ ceiling' >= Spending!Effective(overrides', "shutdown")
      BY <2>3, <2>4, SpendingParameters, RaisedTyped DEF SpendingFits
    <2>6. Spending!Effective(overrides', "shutdown") \in Nat
      BY <2>3, SpendingParameters, EffectiveTyped DEF Spending!Limits
    <2>7. Spending!Effective(overrides', "shutdown") <= ceiling' BY <2>5, <2>6
    <2> QED BY <1>1, <1>4, <2>5, <2>7, BoundKept DEF SpendingBound, SpendingFits
  <1>6. CASE ~Spending!OverrideWrites(o)
    <2>1. UNCHANGED <<overrides, ceiling>>
      BY <1>6 DEF Spending!ResumeBegins, Spending!ResumeGoesOn, Spending!OverrideReads,
        Spending!SetEnabled, Spending!StatusBegins, Spending!DropSummary, Spending!Clear
    <2> QED BY <1>1, <1>4, <2>1, BoundKept, SameEffective DEF SpendingBound, SpendingFits
  <1> QED BY <1>5, <1>6

LEMMA BoundTime ==
  ASSUME SpendingFits, SpendingBound,
         \/ Spending!LoopAsks \/ Spending!IntervalEnds \/ Spending!Drain \/ Spending!Restart
         \/ \E l \in Spending!Limits : Spending!Revert(l)
  PROVE  SpendingBound'
  <1> USE DEF Spending!table, Spending!memory, Spending!history
  <1>1. CASE Spending!LoopAsks
    <2>1. Loop \in Spending!Evaluators /\ Loop \notin Payers
      BY SpendingParameters DEF Spending!Evaluators, Spending!Parameters
    <2>2. UNCHANGED <<spent, overrides, ceiling, begun, freed, found>> BY <1>1 DEF Spending!LoopAsks
    <2>3. Granted' \subseteq Granted
      BY <1>1, <2>1, <2>2, GrantedElsewhere DEF Spending!LoopAsks, SpendingFits, Granted
    <2> QED BY <2>2, <2>3, BoundKept, SameEffective DEF SpendingBound, SpendingFits
  <1>2. CASE Spending!IntervalEnds
    BY <1>2 DEF Spending!IntervalEnds, SpendingBound, BoundHolds, Granted
  <1>3. CASE Spending!Drain
    <2>1. /\ spent' = 0 /\ begun' = begun /\ overrides' = overrides
          /\ ceiling' = Spending!Effective(overrides, "shutdown")
      BY <1>3 DEF Spending!Drain
    <2>2. ceiling' \in Nat \ {0}
      BY <2>1, SpendingParameters, EffectiveTyped DEF SpendingFits, Spending!Limits
    <2>3. BoundHolds' BY <2>1, <2>2, GrantedTyped DEF BoundHolds, SpendingFits
    <2>4. Spending!Effective(overrides', "shutdown") <= ceiling' BY <2>1, <2>2
    <2> QED BY <2>3, <2>4 DEF SpendingBound
  <1>4. CASE Spending!Restart
    <2>1. UNCHANGED <<spent, overrides, ceiling, begun, freed>> BY <1>4 DEF Spending!Restart
    <2>2. Granted' \subseteq Granted
      BY <1>4, SpendingParameters DEF Spending!Restart, Spending!Parameters, Granted,
        Spending!Evaluators
    <2> QED BY <2>1, <2>2, BoundKept, SameEffective DEF SpendingBound, SpendingFits
  <1>5. ASSUME NEW l \in Spending!Limits, Spending!Revert(l) PROVE SpendingBound'
    <2>1. overrides' \in [Spending!Limits -> Nat] /\ ceiling' = Spending!Raised(overrides')
      BY <1>5 DEF Spending!Revert, SpendingFits
    <2>2. /\ ceiling' \in Nat \ {0} /\ ceiling' >= ceiling
          /\ ceiling' >= Spending!Effective(overrides', "shutdown")
      BY <2>1, SpendingParameters, RaisedTyped DEF SpendingFits
    <2>3. Spending!Effective(overrides', "shutdown") \in Nat
      BY <2>1, SpendingParameters, EffectiveTyped DEF Spending!Limits
    <2>4. Spending!Effective(overrides', "shutdown") <= ceiling' BY <2>2, <2>3
    <2>5. UNCHANGED <<spent, begun, freed, step, found>> BY <1>5 DEF Spending!Revert
    <2>6. Granted' \subseteq Granted BY <2>5 DEF Granted
    <2> QED BY <2>2, <2>4, <2>5, <2>6, BoundKept DEF SpendingBound, SpendingFits
  <1> QED BY <1>1, <1>2, <1>3, <1>4, <1>5

LEMMA BoundStep ==
  ASSUME SpendingFits, ReadsLatched, SpendingBound, [Spending!Next]_spending
  PROVE  SpendingBound'
  <1>1. CASE UNCHANGED spending
    BY <1>1 DEF spending, SpendingBound, BoundHolds, Granted, Spending!Effective
  <1> QED BY <1>1, BoundCaller, BoundEvaluation, BoundCommand, BoundTime DEF Spending!Next

(* A window's spending stays near what the kill-switch allows, whatever    *)
(* the overrides and the commands (guard_paid_call).                       *)
THEOREM SpendingBounded == Spec => []SpendBounded
  <1>1. Init => SpendingBound
    <2>1. ASSUME Init PROVE Granted = {} BY <2>1 DEF Init, Spending!Init, Granted, Spending!Evaluators
    <2>2. Cardinality({}) = 0 BY FS_EmptySet
    <2>3. ASSUME Init
          PROVE  /\ spent = 0 /\ begun = 0 /\ ceiling = Thresholds["shutdown"]
                 /\ Spending!Effective(overrides, "shutdown") = Thresholds["shutdown"]
      BY <2>3 DEF Init, Spending!Init, Spending!Effective, Spending!NoOverride, Spending!Limits
    <2>4. Thresholds["shutdown"] \in Nat \ {0}
      BY SpendingParameters DEF Spending!Parameters, Spending!Limits
    <2> QED BY <2>1, <2>2, <2>3, <2>4, GrantedTyped DEF SpendingBound, BoundHolds
  <1>2. SpendingFits /\ ReadsLatched /\ SpendingBound /\ [Next]_vars => (ReadsLatched /\ SpendingBound)'
    BY SpendingStepOnly, ReadsLatchedStep, BoundStep
  <1>3. SpendingFits /\ SpendingBound => SpendBounded
    <2> SUFFICES ASSUME SpendingFits, SpendingBound PROVE SpendBounded OBVIOUS
    <2>1. \A S : Spending!Cardinality(S) = Cardinality(S)
      BY DEF Spending!Cardinality, Cardinality
    <2>2. Spending!Outstanding \subseteq Granted BY DEF Spending!Outstanding, Spending!At, Granted
    <2>3. Granted \subseteq Payers BY DEF Granted
    <2>4. /\ Cardinality(Spending!Outstanding) <= Cardinality(Granted)
          /\ Cardinality(Spending!Outstanding) \in Nat
      BY <2>2, <2>3, PayersFinite, FS_Subset
    <2> QED
      BY <2>1, <2>4, GrantedTyped DEF SpendBounded, Spending!SpendBounded, SpendingBound,
        BoundHolds, SpendingFits
  <1>4. Init => ReadsLatched BY DEF Init, Spending!Init, ReadsLatched, Spending!Evaluators
  <1>5. Spec => []SpendingBound BY <1>1, <1>2, <1>4, SpendingAlwaysFits, PTL DEF Spec
  <1> QED BY <1>3, <1>5, SpendingAlwaysFits, PTL

-----------------------------------------------------------------------------
(* Chat turns: roles alternate, and a list of blocks is one of a pair.     *)
Row == Chat!Messages

Alternates(ctx) ==
    \A i, j \in 1 .. Len(ctx) : ctx[i].role = ctx[j].role <=> (i + j) % 2 = 0

(* The tool_use at k may still wait for its result.                        *)
Paired(ctx, k) ==
    \A i \in 1 .. Len(ctx) : ctx[i].list =>
        /\ ctx[i].role = "assistant" /\ i # k =>
              i < Len(ctx) /\ ctx[i + 1].list /\ ctx[i + 1].tool = ctx[i].tool
        /\ ctx[i].role = "user" => i > 1 /\ ctx[i - 1].list /\ ctx[i - 1].tool = ctx[i].tool

Sound(ctx, k) == Alternates(ctx) /\ Paired(ctx, k)

(* At most text of the user stands behind it.                              *)
Waits(ctx, k, t) ==
    /\ k \in 1 .. Len(ctx) /\ ctx[k].role = "assistant" /\ ctx[k].list /\ ctx[k].tool = t
    /\ k = Len(ctx) \/ (k = Len(ctx) - 1 /\ ~ctx[k + 1].list)

LEMMA RowFacts ==
  ASSUME NEW ctx \in Seq(Row), NEW i \in 1 .. Len(ctx)
  PROVE  ctx[i] \in Row /\ ctx[i].role \in {"user", "assistant"} /\ ctx[i].list \in BOOLEAN
  <1>1. ctx[i] \in Row BY ElementOfSeq
  <1> QED BY <1>1 DEF Row, Chat!Messages

LEMMA SoundFits == ASSUME NEW ctx \in Seq(Row), Sound(ctx, 0) PROVE Chat!WellFormed(ctx)
  <1> SUFFICES ASSUME NEW i \in 1 .. Len(ctx)
               PROVE  /\ i > 1 => ctx[i - 1].role # ctx[i].role
                      /\ (ctx[i].role = "assistant" /\ ctx[i].list) =>
                            i < Len(ctx) /\ ctx[i + 1].tool = ctx[i].tool
                      /\ (ctx[i].role = "user" /\ ctx[i].list) =>
                            i > 1 /\ ctx[i - 1].tool = ctx[i].tool
    BY DEF Chat!WellFormed
  <1>1. Len(ctx) \in Nat BY LenProperties
  <1>2. ASSUME i > 1 PROVE ctx[i - 1].role # ctx[i].role
    <2>1. i - 1 \in 1 .. Len(ctx) /\ (i - 1 + i) % 2 # 0 BY <1>1, <1>2
    <2> QED BY <2>1 DEF Sound, Alternates
  <1>3. i # 0 BY <1>1
  <1> QED BY <1>2, <1>3 DEF Sound, Paired

(* What Merge makes of a history and a message.                            *)
Appends(ctx, msg) ==
    \/ ctx = <<>>
    \/ ctx[Len(ctx)].role # msg.role
    \/ ctx[Len(ctx)].list /\ msg.list

LEMMA MergeAppends ==
  ASSUME NEW ctx \in Seq(Row), NEW msg \in Row, Appends(ctx, msg)
  PROVE  LET new == Chat!Merge(ctx, msg) IN
         /\ new \in Seq(Row) /\ Len(new) = Len(ctx) + 1
         /\ \A i \in 1 .. Len(ctx) : new[i] = ctx[i]
         /\ new[Len(ctx) + 1] = msg
  <1>1. Chat!Merge(ctx, msg) = Append(ctx, msg) BY DEF Chat!Merge, Chat!Last, Appends
  <1> QED BY <1>1, AppendProperties

LEMMA MergeReplaces ==
  ASSUME NEW ctx \in Seq(Row), NEW msg \in Row, ~Appends(ctx, msg)
  PROVE  LET new == Chat!Merge(ctx, msg)
             last == ctx[Len(ctx)]
         IN  /\ new \in Seq(Row) /\ Len(new) = Len(ctx) /\ Len(ctx) > 0
             /\ \A i \in 1 .. Len(ctx) - 1 : new[i] = ctx[i]
             /\ new[Len(ctx)] = IF msg.list THEN msg
                                ELSE [last EXCEPT !.holds = last.holds \cup msg.holds]
  <1> DEFINE n == Len(ctx)
             last == ctx[n]
             put == IF msg.list THEN msg ELSE [last EXCEPT !.holds = last.holds \cup msg.holds]
             rest == SubSeq(ctx, 1, n - 1)
  <1>1. n \in Nat /\ n > 0 BY LenProperties, EmptySeq DEF Appends
  <1>2. last \in Row BY <1>1, ElementOfSeq
  <1>3. put \in Row BY <1>2 DEF Row, Chat!Messages
  <1>4. \A i \in 1 .. n - 1 : ctx[i] \in Row BY <1>1, ElementOfSeq
  <1>5. rest \in Seq(Row) /\ Len(rest) = n - 1 /\ \A i \in 1 .. n - 1 : rest[i] = ctx[i]
    <2> HIDE DEF n
    <2>1. 1 \in Int /\ n - 1 \in Int BY <1>1
    <2>2. /\ rest \in Seq(Row)
          /\ Len(rest) = IF 1 <= n - 1 THEN (n - 1) - 1 + 1 ELSE 0
          /\ \A i \in 1 .. (n - 1) - 1 + 1 : rest[i] = ctx[1 + i - 1]
      BY <1>4, <2>1, SubSeqProperties
    <2> QED BY <1>1, <2>2
  <1>6. Chat!Merge(ctx, msg) = Append(rest, put)
    BY DEF Chat!Merge, Chat!Last, Chat!Front, Chat!Joined, Appends
  <1> HIDE DEF rest, put, n
  <1>7. /\ Append(rest, put) \in Seq(Row) /\ Len(Append(rest, put)) = Len(rest) + 1
        /\ \A i \in 1 .. Len(rest) : Append(rest, put)[i] = rest[i]
        /\ Append(rest, put)[Len(rest) + 1] = put
    BY <1>3, <1>5, AppendProperties
  <1>8. /\ Append(rest, put) \in Seq(Row) /\ Len(Append(rest, put)) = n
        /\ \A i \in 1 .. n - 1 : Append(rest, put)[i] = ctx[i]
        /\ Append(rest, put)[n] = put
    BY <1>1, <1>5, <1>7
  <1> QED BY <1>1, <1>6, <1>8 DEF n, put

LEMMA OneLonger ==
  ASSUME NEW ctx \in Seq(Row), Alternates(ctx), NEW new \in Seq(Row), NEW msg \in Row,
         Len(new) = Len(ctx) + 1, \A i \in 1 .. Len(ctx) : new[i] = ctx[i],
         new[Len(ctx) + 1] = msg,
         Len(ctx) > 0 => ctx[Len(ctx)].role # msg.role
  PROVE  Alternates(new)
  <1> DEFINE n == Len(ctx)
  <1>1. n \in Nat BY LenProperties
  <1> SUFFICES ASSUME NEW i \in 1 .. n + 1, NEW j \in 1 .. n + 1
               PROVE  new[i].role = new[j].role <=> (i + j) % 2 = 0
    BY DEF Alternates
  <1>2. \A l \in 1 .. n : new[l].role = ctx[l].role /\ ctx[l].role \in {"user", "assistant"}
    BY RowFacts
  <1>3. msg.role \in {"user", "assistant"} BY DEF Row, Chat!Messages
  <1>4. \A l \in 1 .. n : ctx[l].role = msg.role <=> (l + n + 1) % 2 = 0
    <2> SUFFICES ASSUME NEW l \in 1 .. n PROVE ctx[l].role = msg.role <=> (l + n + 1) % 2 = 0
      OBVIOUS
    <2>1. n \in 1 .. n /\ n > 0 BY <1>1
    <2>2. ctx[l].role = ctx[n].role <=> (l + n) % 2 = 0 BY <2>1 DEF Alternates
    <2>3. ctx[l].role = msg.role <=> ctx[l].role # ctx[n].role BY <1>2, <1>3, <2>1
    <2>4. (l + n) % 2 = 0 <=> (l + n + 1) % 2 # 0 BY <1>1
    <2> QED BY <2>2, <2>3, <2>4
  <1>5. CASE i \in 1 .. n /\ j \in 1 .. n BY <1>2, <1>5 DEF Alternates
  <1>6. CASE i \in 1 .. n /\ j = n + 1 BY <1>2, <1>4, <1>6
  <1>7. CASE i = n + 1 /\ j \in 1 .. n
    <2>1. (j + n + 1) % 2 = (i + j) % 2 BY <1>1, <1>7
    <2> QED BY <1>2, <1>4, <1>7, <2>1
  <1>8. CASE i = n + 1 /\ j = n + 1
    <2>1. (i + j) % 2 = 0 BY <1>1, <1>8
    <2> QED BY <1>8, <2>1
  <1> QED BY <1>1, <1>5, <1>6, <1>7, <1>8

LEMMA SameLength ==
  ASSUME NEW ctx \in Seq(Row), Alternates(ctx), NEW new \in Seq(Row), Len(new) = Len(ctx),
         Len(ctx) > 0, \A i \in 1 .. Len(ctx) - 1 : new[i] = ctx[i],
         new[Len(ctx)].role = ctx[Len(ctx)].role
  PROVE  Alternates(new)
  <1>1. Len(ctx) \in Nat BY LenProperties
  <1>2. \A i \in 1 .. Len(ctx) : new[i].role = ctx[i].role
    <2> SUFFICES ASSUME NEW i \in 1 .. Len(ctx) PROVE new[i].role = ctx[i].role OBVIOUS
    <2>1. i \in 1 .. Len(ctx) - 1 \/ i = Len(ctx) BY <1>1
    <2> QED BY <2>1
  <1> QED BY <1>2 DEF Alternates

LEMMA LastJoined ==
  ASSUME NEW ctx \in Seq(Row), Alternates(ctx), NEW new \in Seq(Row), NEW S, Len(new) = Len(ctx),
         Len(ctx) > 0, \A i \in 1 .. Len(ctx) - 1 : new[i] = ctx[i],
         new[Len(ctx)] = [ctx[Len(ctx)] EXCEPT !.holds = S]
  PROVE  /\ Alternates(new)
         /\ \A i \in 1 .. Len(ctx) : /\ new[i].role = ctx[i].role /\ new[i].list = ctx[i].list
                                     /\ new[i].tool = ctx[i].tool
  <1> DEFINE n == Len(ctx)
  <1>1. n \in Nat /\ n \in 1 .. n BY LenProperties
  <1>2. ctx[n] \in Row BY <1>1, RowFacts
  <1>3. new[n].role = ctx[n].role /\ new[n].list = ctx[n].list /\ new[n].tool = ctx[n].tool
    BY <1>2 DEF Row, Chat!Messages
  <1>4. \A i \in 1 .. n : /\ new[i].role = ctx[i].role /\ new[i].list = ctx[i].list
                          /\ new[i].tool = ctx[i].tool
    <2> SUFFICES ASSUME NEW i \in 1 .. n
                 PROVE  /\ new[i].role = ctx[i].role /\ new[i].list = ctx[i].list
                        /\ new[i].tool = ctx[i].tool
      OBVIOUS
    <2>1. i \in 1 .. n - 1 \/ i = n BY <1>1
    <2> QED BY <1>3, <2>1
  <1> QED BY <1>3, <1>4, SameLength

LEMMA PairsLike ==
  ASSUME NEW ctx \in Seq(Row), NEW k, Paired(ctx, k), NEW new \in Seq(Row), Len(new) = Len(ctx),
         \A i \in 1 .. Len(ctx) : /\ new[i].role = ctx[i].role /\ new[i].list = ctx[i].list
                                  /\ new[i].tool = ctx[i].tool
  PROVE  Paired(new, k)
  <1> DEFINE n == Len(ctx)
  <1>1. n \in Nat BY LenProperties
  <1> SUFFICES ASSUME NEW i \in 1 .. n, new[i].list
               PROVE  /\ new[i].role = "assistant" /\ i # k =>
                           i < n /\ new[i + 1].list /\ new[i + 1].tool = new[i].tool
                      /\ new[i].role = "user" =>
                           i > 1 /\ new[i - 1].list /\ new[i - 1].tool = new[i].tool
    BY DEF Paired
  <1>2. ctx[i].list /\ new[i].role = ctx[i].role /\ new[i].tool = ctx[i].tool OBVIOUS
  <1>3. (i < n => i + 1 \in 1 .. n) /\ (i > 1 => i - 1 \in 1 .. n) BY <1>1
  <1> QED BY <1>2, <1>3 DEF Paired

LEMMA PairsLonger ==
  ASSUME NEW ctx \in Seq(Row), NEW k, Paired(ctx, k), NEW new \in Seq(Row), NEW msg \in Row,
         Len(new) = Len(ctx) + 1, \A i \in 1 .. Len(ctx) : new[i] = ctx[i],
         new[Len(ctx) + 1] = msg, NEW l,
         k = l \/ k = 0 \/ (k = Len(ctx) /\ msg.list /\ msg.tool = ctx[k].tool),
         msg.list /\ msg.role = "assistant" => l = Len(ctx) + 1,
         msg.list /\ msg.role = "user" =>
            Len(ctx) > 0 /\ ctx[Len(ctx)].list /\ ctx[Len(ctx)].tool = msg.tool
  PROVE  Paired(new, l)
  <1> DEFINE n == Len(ctx)
  <1>1. n \in Nat BY LenProperties
  <1> SUFFICES ASSUME NEW i \in 1 .. n + 1, new[i].list
               PROVE  /\ new[i].role = "assistant" /\ i # l =>
                           i < n + 1 /\ new[i + 1].list /\ new[i + 1].tool = new[i].tool
                      /\ new[i].role = "user" =>
                           i > 1 /\ new[i - 1].list /\ new[i - 1].tool = new[i].tool
    BY DEF Paired
  <1>2. CASE i \in 1 .. n
    <2>1. ctx[i].list /\ new[i] = ctx[i] BY <1>2
    <2>2. ASSUME ctx[i].role = "assistant", i # l
          PROVE  new[i + 1].list /\ new[i + 1].tool = new[i].tool
      <3>1. CASE i = k
        <4>1. i = n /\ msg.list /\ msg.tool = ctx[i].tool BY <1>1, <1>2, <2>2, <3>1
        <4> QED BY <2>1, <4>1
      <3>2. CASE i # k
        <4>1. i < n /\ ctx[i + 1].list /\ ctx[i + 1].tool = ctx[i].tool
          BY <1>2, <2>1, <2>2, <3>2 DEF Paired
        <4>2. i + 1 \in 1 .. n BY <1>1, <1>2, <4>1
        <4> QED BY <2>1, <4>1, <4>2
      <3> QED BY <3>1, <3>2
    <2>3. ASSUME ctx[i].role = "user"
          PROVE  i > 1 /\ new[i - 1].list /\ new[i - 1].tool = new[i].tool
      <3>1. i > 1 /\ ctx[i - 1].list /\ ctx[i - 1].tool = ctx[i].tool
        BY <1>2, <2>1, <2>3 DEF Paired
      <3>2. i - 1 \in 1 .. n BY <1>1, <1>2, <3>1
      <3> QED BY <2>1, <3>1, <3>2
    <2> QED BY <1>1, <1>2, <2>1, <2>2, <2>3
  <1>3. CASE i = n + 1
    <2>1. new[i] = msg BY <1>3
    <2>2. msg.role = "user" => n \in 1 .. n /\ i - 1 = n BY <1>1, <1>3, <2>1
    <2> QED BY <1>3, <2>1, <2>2
  <1> QED BY <1>1, <1>2, <1>3

(* Text is replaced by a list of the same role.                            *)
LEMMA PairsReplaced ==
  ASSUME NEW ctx \in Seq(Row), NEW k, Paired(ctx, k), NEW new \in Seq(Row), NEW msg \in Row,
         Len(ctx) > 0, Len(new) = Len(ctx), \A i \in 1 .. Len(ctx) - 1 : new[i] = ctx[i],
         new[Len(ctx)] = msg, msg.list, ~ctx[Len(ctx)].list, NEW l,
         k = 0 \/ (k = Len(ctx) - 1 /\ msg.tool = ctx[k].tool),
         msg.role = "assistant" => l = Len(ctx),
         msg.role = "user" =>
            Len(ctx) > 1 /\ ctx[Len(ctx) - 1].list /\ ctx[Len(ctx) - 1].tool = msg.tool
  PROVE  Paired(new, l)
  <1> DEFINE n == Len(ctx)
  <1>1. n \in Nat BY LenProperties
  <1> SUFFICES ASSUME NEW i \in 1 .. n, new[i].list
               PROVE  /\ new[i].role = "assistant" /\ i # l =>
                           i < n /\ new[i + 1].list /\ new[i + 1].tool = new[i].tool
                      /\ new[i].role = "user" =>
                           i > 1 /\ new[i - 1].list /\ new[i - 1].tool = new[i].tool
    BY DEF Paired
  <1>2. CASE i \in 1 .. n - 1
    <2>1. ctx[i].list /\ new[i] = ctx[i] BY <1>2
    <2>2. ASSUME ctx[i].role = "assistant"
          PROVE  new[i + 1].list /\ new[i + 1].tool = new[i].tool
      <3>1. CASE i = k
        <4>1. i + 1 = n /\ msg.tool = ctx[i].tool BY <1>1, <1>2, <3>1
        <4> QED BY <2>1, <4>1
      <3>2. CASE i # k
        <4>1. i < n /\ ctx[i + 1].list /\ ctx[i + 1].tool = ctx[i].tool
          BY <1>2, <2>1, <2>2, <3>2 DEF Paired
        <4>2. i + 1 \in 1 .. n - 1
          <5>1. i + 1 # n BY <4>1
          <5> QED BY <1>1, <1>2, <4>1, <5>1
        <4> QED BY <2>1, <4>1, <4>2
      <3> QED BY <3>1, <3>2
    <2>3. ASSUME ctx[i].role = "user"
          PROVE  i > 1 /\ new[i - 1].list /\ new[i - 1].tool = new[i].tool
      <3>1. i > 1 /\ ctx[i - 1].list /\ ctx[i - 1].tool = ctx[i].tool
        BY <1>2, <2>1, <2>3 DEF Paired
      <3>2. i - 1 \in 1 .. n - 1 BY <1>1, <1>2, <3>1
      <3> QED BY <2>1, <3>1, <3>2
    <2>4. i < n BY <1>1, <1>2
    <2> QED BY <2>1, <2>2, <2>3, <2>4
  <1>3. CASE i = n
    <2>1. new[i] = msg BY <1>3
    <2>2. msg.role = "user" => n > 1 /\ n - 1 \in 1 .. n - 1 BY <1>1, <1>3, <2>1
    <2>3. msg.role = "user" => new[n - 1] = ctx[n - 1] BY <2>2
    <2> QED BY <1>3, <2>1, <2>2, <2>3
  <1> QED BY <1>1, <1>2, <1>3

(* A message of the user, a notice or a notification.                      *)
LEMMA MergeText ==
  ASSUME NEW ctx \in Seq(Row), NEW msg \in Row, msg.role = "user", ~msg.list,
         NEW k \in 0 .. Len(ctx), Sound(ctx, k), k # 0 => \E t : Waits(ctx, k, t)
  PROVE  LET new == Chat!Merge(ctx, msg) IN
         Sound(new, k) /\ \A t : Waits(ctx, k, t) => Waits(new, k, t)
  <1> DEFINE n == Len(ctx)
  <1>1. n \in Nat BY LenProperties
  <1>0. PICK new : new = Chat!Merge(ctx, msg) OBVIOUS
  <1>e. ctx = <<>> <=> n = 0 BY EmptySeq
  <1>2. CASE Appends(ctx, msg)
    <2>1. /\ new \in Seq(Row) /\ Len(new) = n + 1 /\ new[n + 1] = msg
          /\ \A i \in 1 .. n : new[i] = ctx[i]
      BY <1>0, <1>2, MergeAppends
    <2>2. n > 0 => ctx[n].role # msg.role BY <1>2, <1>e DEF Appends
    <2>3. Alternates(new) BY <2>1, <2>2, OneLonger DEF Sound
    <2>4. Paired(new, k) BY <2>1, PairsLonger DEF Sound
    <2>5. ASSUME NEW t, Waits(ctx, k, t) PROVE Waits(new, k, t)
      <3>1. k \in 1 .. n /\ new[k] = ctx[k] BY <2>1, <2>5 DEF Waits
      <3>2. k # n - 1
        <4> SUFFICES ASSUME k = n - 1 PROVE FALSE OBVIOUS
        <4>1. ctx[n].role = "user"
          <5>1. n \in 1 .. n /\ (k + n) % 2 # 0 BY <1>1, <3>1
          <5>2. ctx[n].role # ctx[k].role BY <3>1, <5>1 DEF Sound, Alternates
          <5>3. ctx[n].role \in {"user", "assistant"} BY <5>1, RowFacts
          <5> QED BY <2>5, <5>2, <5>3 DEF Waits
        <4> QED BY <1>1, <2>2, <3>1, <4>1
      <3>3. k = n BY <2>5, <3>2 DEF Waits
      <3> QED BY <1>1, <2>1, <2>5, <3>1, <3>3 DEF Waits
    <2> QED BY <1>0, <2>3, <2>4, <2>5 DEF Sound
  <1>3. CASE ~Appends(ctx, msg)
    <2>1. /\ new \in Seq(Row) /\ Len(new) = n /\ n > 0
          /\ \A i \in 1 .. n - 1 : new[i] = ctx[i]
          /\ new[n] = [ctx[n] EXCEPT !.holds = ctx[n].holds \cup msg.holds]
      BY <1>0, <1>3, MergeReplaces
    <2>4. /\ Alternates(new)
          /\ \A i \in 1 .. n : /\ new[i].role = ctx[i].role /\ new[i].list = ctx[i].list
                               /\ new[i].tool = ctx[i].tool
      BY <2>1, LastJoined DEF Sound
    <2>6. Paired(new, k) BY <2>1, <2>4, PairsLike DEF Sound
    <2>7. ASSUME NEW t, Waits(ctx, k, t) PROVE Waits(new, k, t)
      <3>1. k \in 1 .. n BY <2>7 DEF Waits
      <3>2. k = n - 1 => k + 1 \in 1 .. n BY <1>1, <3>1
      <3> QED BY <2>1, <2>4, <2>7, <3>1, <3>2 DEF Waits
    <2> QED BY <1>0, <2>4, <2>6, <2>7 DEF Sound
  <1> QED BY <1>2, <1>3

(* The text of a reply.                                                    *)
LEMMA MergeReply ==
  ASSUME NEW ctx \in Seq(Row), NEW msg \in Row, msg.role = "assistant", ~msg.list, Sound(ctx, 0)
  PROVE  Sound(Chat!Merge(ctx, msg), 0)
  <1> DEFINE n == Len(ctx)
  <1>0. PICK new : new = Chat!Merge(ctx, msg) OBVIOUS
  <1>1. n \in Nat /\ (ctx = <<>> <=> n = 0) BY LenProperties, EmptySeq
  <1>2. CASE Appends(ctx, msg)
    <2>1. /\ new \in Seq(Row) /\ Len(new) = n + 1 /\ new[n + 1] = msg
          /\ \A i \in 1 .. n : new[i] = ctx[i]
      BY <1>0, <1>2, MergeAppends
    <2>2. n > 0 => ctx[n].role # msg.role BY <1>1, <1>2 DEF Appends
    <2>3. Alternates(new) BY <2>1, <2>2, OneLonger DEF Sound
    <2>4. Paired(new, 0) BY <2>1, PairsLonger DEF Sound
    <2> QED BY <1>0, <2>3, <2>4 DEF Sound
  <1>3. CASE ~Appends(ctx, msg)
    <2>1. /\ new \in Seq(Row) /\ Len(new) = n /\ n > 0
          /\ \A i \in 1 .. n - 1 : new[i] = ctx[i]
          /\ new[n] = [ctx[n] EXCEPT !.holds = ctx[n].holds \cup msg.holds]
      BY <1>0, <1>3, MergeReplaces
    <2>2. /\ Alternates(new)
          /\ \A i \in 1 .. n : /\ new[i].role = ctx[i].role /\ new[i].list = ctx[i].list
                               /\ new[i].tool = ctx[i].tool
      BY <2>1, LastJoined DEF Sound
    <2>3. Paired(new, 0) BY <2>1, <2>2, PairsLike DEF Sound
    <2> QED BY <1>0, <2>2, <2>3 DEF Sound
  <1> QED BY <1>2, <1>3

(* A tool_use: it waits.                                                   *)
LEMMA MergeUse ==
  ASSUME NEW ctx \in Seq(Row), NEW msg \in Row, msg.role = "assistant", msg.list, Sound(ctx, 0)
  PROVE  LET new == Chat!Merge(ctx, msg) IN
         Len(new) > 0 /\ Sound(new, Len(new)) /\ Waits(new, Len(new), msg.tool)
         /\ new[Len(new)] = msg
  <1> DEFINE n == Len(ctx)
  <1>0. PICK new : new = Chat!Merge(ctx, msg) OBVIOUS
  <1>1. n \in Nat /\ (ctx = <<>> <=> n = 0) BY LenProperties, EmptySeq
  <1>2. CASE Appends(ctx, msg)
    <2>1. /\ new \in Seq(Row) /\ Len(new) = n + 1 /\ new[n + 1] = msg
          /\ \A i \in 1 .. n : new[i] = ctx[i]
      BY <1>0, <1>2, MergeAppends
    <2>2. n > 0 => ctx[n].role # msg.role
      <3> SUFFICES ASSUME n > 0, ctx[n].role = msg.role PROVE FALSE OBVIOUS
      <3>1. ctx[n].list /\ n \in 1 .. n /\ n # 0 BY <1>1, <1>2 DEF Appends
      <3> QED BY <3>1 DEF Sound, Paired
    <2>3. Alternates(new) BY <2>1, <2>2, OneLonger DEF Sound
    <2>4. Paired(new, n + 1) BY <2>1, PairsLonger DEF Sound
    <2>5. n + 1 \in 1 .. n + 1 /\ n + 1 > 0 BY <1>1
    <2> QED BY <1>0, <2>1, <2>3, <2>4, <2>5 DEF Sound, Waits
  <1>3. CASE ~Appends(ctx, msg)
    <2>1. /\ new \in Seq(Row) /\ Len(new) = n /\ n > 0
          /\ \A i \in 1 .. n - 1 : new[i] = ctx[i]
          /\ new[n] = msg
      BY <1>0, <1>3, MergeReplaces
    <2>2. ctx[n].role = msg.role /\ ~ctx[n].list BY <1>3 DEF Appends
    <2>3. Alternates(new) BY <2>1, <2>2, SameLength DEF Sound
    <2>4. Paired(new, n) BY <2>1, <2>2, PairsReplaced DEF Sound
    <2>5. n \in 1 .. n BY <1>1, <2>1
    <2> QED BY <1>0, <2>1, <2>3, <2>4, <2>5 DEF Sound, Waits
  <1> QED BY <1>2, <1>3

(* Its tool_result takes the place of text that came in between.           *)
LEMMA MergeResult ==
  ASSUME NEW ctx \in Seq(Row), NEW msg \in Row, msg.role = "user", msg.list,
         NEW k \in 1 .. Len(ctx), Sound(ctx, k), Waits(ctx, k, msg.tool)
  PROVE  Sound(Chat!Merge(ctx, msg), 0)
  <1> DEFINE n == Len(ctx)
  <1>0. PICK new : new = Chat!Merge(ctx, msg) OBVIOUS
  <1>1. n \in Nat /\ n > 0 /\ ctx # <<>> /\ n \in 1 .. n BY LenProperties, EmptySeq
  <1>2. CASE k = n
    <2>1. Appends(ctx, msg) /\ ctx[n].role # msg.role BY <1>2 DEF Waits, Appends
    <2>2. /\ new \in Seq(Row) /\ Len(new) = n + 1 /\ new[n + 1] = msg
          /\ \A i \in 1 .. n : new[i] = ctx[i]
      BY <1>0, <2>1, MergeAppends
    <2>3. Alternates(new) BY <2>1, <2>2, OneLonger DEF Sound
    <2>4. ctx[n].list /\ ctx[n].tool = msg.tool BY <1>2 DEF Waits
    <2>5. Paired(new, 0) BY <1>1, <1>2, <2>2, <2>4, PairsLonger DEF Sound
    <2> QED BY <1>0, <2>3, <2>5 DEF Sound
  <1>3. CASE k = n - 1
    <2>1. ~ctx[n].list BY <1>1, <1>3 DEF Waits
    <2>2. ctx[n].role = "user"
      <3>1. (k + n) % 2 # 0 BY <1>1, <1>3
      <3>2. ctx[n].role # ctx[k].role BY <1>1, <3>1 DEF Sound, Alternates
      <3> QED BY <1>1, <3>2, RowFacts DEF Waits
    <2>3. ~Appends(ctx, msg) BY <1>1, <2>1, <2>2 DEF Appends
    <2>4. /\ new \in Seq(Row) /\ Len(new) = n
          /\ \A i \in 1 .. n - 1 : new[i] = ctx[i]
          /\ new[n] = msg
      BY <1>0, <2>3, MergeReplaces
    <2>5. Alternates(new) BY <1>1, <2>2, <2>4, SameLength DEF Sound
    <2>6. n > 1 /\ ctx[n - 1].list /\ ctx[n - 1].tool = msg.tool BY <1>1, <1>3 DEF Waits
    <2>7. Paired(new, 0) BY <1>1, <1>3, <2>1, <2>4, <2>6, PairsReplaced DEF Sound
    <2> QED BY <1>0, <2>5, <2>7 DEF Sound
  <1> QED BY <1>2, <1>3 DEF Waits

(* A compaction keeps the last Preserve messages behind a summary.         *)
LEMMA CompactedShape ==
  ASSUME Chat!Parameters, NEW ctx \in Seq(Row), Len(ctx) > Preserve
  PROVE  LET new == Chat!Compacted(ctx)
             cut == Len(ctx) - Preserve
         IN  /\ new \in Seq(Row) /\ Len(new) = Preserve + 1
             /\ new[1].role = "user" /\ ~new[1].list
             /\ \A i \in 1 .. cut : ctx[i].holds \subseteq new[1].holds
             /\ \A i \in 2 .. Preserve + 1 : new[i] = ctx[cut + i - 1]
  <1> DEFINE n == Len(ctx)
             cut == n - Preserve
             S == Chat!Holds(SubSeq(ctx, 1, cut))
             head == Chat!Text("user", S)
             tail == SubSeq(ctx, cut + 1, n)
             new == <<head>> \o tail
  <1>1. /\ n \in Nat /\ Preserve \in Nat /\ Preserve % 2 = 0 /\ cut \in Nat /\ cut > 0
        /\ n = cut + Preserve /\ n \in 1 .. n
    BY LenProperties DEF Chat!Parameters
  <1>2. /\ head \in Row /\ head.role = "user" /\ ~head.list
        /\ \A i \in 1 .. cut : ctx[i].holds \subseteq head.holds
    <2>1. \A i \in 1 .. cut : ctx[i] \in Row
      <3>1. \A i \in 1 .. cut : i \in 1 .. n BY <1>1
      <3> QED BY <3>1, RowFacts
    <2>2. /\ SubSeq(ctx, 1, cut) \in Seq(Row) /\ Len(SubSeq(ctx, 1, cut)) = cut
          /\ \A i \in 1 .. cut : SubSeq(ctx, 1, cut)[i] = ctx[i]
      <3>1. 1 \in Int /\ cut \in Int /\ 1 <= cut /\ cut - 1 + 1 = cut BY <1>1
      <3>2. \A i \in 1 .. cut : 1 + i - 1 = i BY <1>1
      <3> HIDE DEF cut
      <3> QED BY <2>1, <3>1, <3>2, SubSeqProperties
    <2> DEFINE s == SubSeq(ctx, 1, cut)
    <2>3. \A i \in 1 .. Len(s) : s[i].holds \subseteq Chat!Inbound
      <3> SUFFICES ASSUME NEW i \in 1 .. Len(s) PROVE s[i].holds \subseteq Chat!Inbound OBVIOUS
      <3> HIDE DEF s
      <3>1. s \in Seq(Row) BY <2>2 DEF s
      <3>2. s[i] \in Row BY <3>1, RowFacts
      <3> QED BY <3>2 DEF Row, Chat!Messages
    <2>4. S \subseteq Chat!Inbound BY <2>3 DEF Chat!Holds
    <2>5. \A i \in 1 .. cut : ctx[i].holds \subseteq S BY <2>2 DEF Chat!Holds
    <2> HIDE DEF S
    <2> QED BY <2>4, <2>5 DEF Chat!Text, Row, Chat!Messages
  <1>3. tail \in Seq(Row) /\ Len(tail) = Preserve /\ \A i \in 1 .. Preserve : tail[i] = ctx[cut + i]
    <2>1. cut + 1 \in Int /\ n \in Int /\ n - (cut + 1) + 1 = Preserve BY <1>1
    <2>2. \A i \in cut + 1 .. n : ctx[i] \in Row
      <3>1. \A i \in cut + 1 .. n : i \in 1 .. n BY <1>1
      <3> QED BY <3>1, RowFacts
    <2>3. /\ tail \in Seq(Row)
          /\ Len(tail) = IF cut + 1 <= n THEN n - (cut + 1) + 1 ELSE 0
          /\ \A i \in 1 .. n - (cut + 1) + 1 : tail[i] = ctx[cut + 1 + i - 1]
      <3> HIDE DEF cut, n
      <3> QED BY <2>1, <2>2, SubSeqProperties
    <2>4. \A i \in 1 .. Preserve : cut + 1 + i - 1 = cut + i BY <1>1
    <2>5. (IF cut + 1 <= n THEN n - (cut + 1) + 1 ELSE 0) = Preserve BY <1>1
    <2> HIDE DEF tail
    <2> QED BY <2>1, <2>3, <2>4, <2>5
  <1> HIDE DEF head, tail
  <1>4. /\ new \in Seq(Row) /\ Len(new) = Preserve + 1 /\ new[1] = head
        /\ \A i \in 2 .. Preserve + 1 : new[i] = ctx[cut + i - 1]
    <2>1. <<head>> \in Seq(Row) /\ Len(<<head>>) = 1 /\ <<head>>[1] = head BY <1>2
    <2>2. /\ new \in Seq(Row) /\ Len(new) = 1 + Preserve
          /\ \A i \in 1 .. 1 + Preserve : new[i] = IF i <= 1 THEN <<head>>[i] ELSE tail[i - 1]
      <3> HIDE DEF new
      <3>1. new = <<head>> \o tail BY DEF new
      <3> QED BY <1>3, <2>1, <3>1, ConcatProperties
    <2> HIDE DEF new, cut
    <2>3. ASSUME NEW i \in 2 .. Preserve + 1 PROVE new[i] = ctx[cut + i - 1]
      <3>1. i - 1 \in 1 .. Preserve /\ i \in 1 .. 1 + Preserve /\ ~(i <= 1) BY <1>1, <2>3
      <3>2. new[i] = tail[i - 1] BY <2>2, <3>1
      <3>3. cut + (i - 1) = cut + i - 1 BY <1>1, <2>3
      <3> QED BY <1>3, <3>1, <3>2, <3>3
    <2>4. 1 \in 1 .. 1 + Preserve /\ 1 + Preserve = Preserve + 1 BY <1>1
    <2> QED BY <2>1, <2>2, <2>3, <2>4
  <1>5. Chat!Compacted(ctx) = new BY DEF Chat!Compacted, new, head, tail
  <1> HIDE DEF new
  <1> QED BY <1>2, <1>4, <1>5

LEMMA CompactedTyped ==
  ASSUME Chat!Parameters, NEW ctx \in Seq(Row), Len(ctx) > Preserve
  PROVE  Chat!Compacted(ctx) \in Seq(Row)
  BY CompactedShape

(* What a compaction keeps begins with an assistant's message, because     *)
(* Preserve is even.                                                       *)
LEMMA CompactedSound ==
  ASSUME Chat!Parameters, NEW ctx \in Seq(Row), Sound(ctx, 0), Len(ctx) > Preserve,
         ctx[Len(ctx)].role = "user"
  PROVE  LET new == Chat!Compacted(ctx) IN
         /\ new \in Seq(Row) /\ Sound(new, 0) /\ Len(new) > 0 /\ new[Len(new)].role = "user"
  <1> DEFINE n == Len(ctx)
             cut == n - Preserve
             new == Chat!Compacted(ctx)
  <1>1. /\ n \in Nat /\ Preserve \in Nat /\ Preserve % 2 = 0 /\ cut \in Nat /\ cut > 0
        /\ n = cut + Preserve /\ n \in 1 .. n
    BY LenProperties DEF Chat!Parameters
  <1>4. /\ new \in Seq(Row) /\ Len(new) = Preserve + 1
        /\ \A i \in 2 .. Preserve + 1 : new[i] = ctx[cut + i - 1]
    BY CompactedShape
  <1>2. new[1].role = "user" /\ ~new[1].list BY CompactedShape
  <1> HIDE DEF new
  <1>5. \A i \in 2 .. Preserve + 1 : cut + i - 1 \in 1 .. n BY <1>1
  <1>6. \A i \in 2 .. Preserve + 1 : new[i].role = "user" <=> (1 + i) % 2 = 0
    <2> SUFFICES ASSUME NEW i \in 2 .. Preserve + 1
                 PROVE  new[i].role = "user" <=> (1 + i) % 2 = 0
      OBVIOUS
    <2>1. ctx[cut + i - 1].role = ctx[n].role <=> (cut + i - 1 + n) % 2 = 0
      BY <1>1, <1>5 DEF Sound, Alternates
    <2>2. (cut + i - 1 + n) % 2 = (1 + i) % 2 BY <1>1
    <2> QED BY <1>4, <2>1, <2>2
  <1>7. Alternates(new)
    <2> SUFFICES ASSUME NEW i \in 1 .. Preserve + 1, NEW j \in 1 .. Preserve + 1
                 PROVE  new[i].role = new[j].role <=> (i + j) % 2 = 0
      BY <1>4 DEF Alternates
    <2>1. CASE i \in 2 .. Preserve + 1 /\ j \in 2 .. Preserve + 1
      <3>1. ctx[cut + i - 1].role = ctx[cut + j - 1].role
            <=> (cut + i - 1 + (cut + j - 1)) % 2 = 0
        BY <1>5, <2>1 DEF Sound, Alternates
      <3>2. (cut + i - 1 + (cut + j - 1)) % 2 = (i + j) % 2 BY <1>1
      <3> QED BY <1>4, <2>1, <3>1, <3>2
    <2>2. CASE i = 1 /\ j \in 2 .. Preserve + 1 BY <1>2, <1>4, <1>6, <2>2
    <2>3. CASE i \in 2 .. Preserve + 1 /\ j = 1
      <3>1. (1 + i) % 2 = (i + j) % 2 BY <1>1, <2>3
      <3> QED BY <1>2, <1>4, <1>6, <2>3, <3>1
    <2>4. CASE i = 1 /\ j = 1
      <3>1. (i + j) % 2 = 0 BY <2>4
      <3> QED BY <2>4, <3>1
    <2>5. (i = 1 \/ i \in 2 .. Preserve + 1) /\ (j = 1 \/ j \in 2 .. Preserve + 1) BY <1>1
    <2> QED BY <2>1, <2>2, <2>3, <2>4, <2>5
  <1>8. Paired(new, 0)
    <2> SUFFICES ASSUME NEW i \in 1 .. Preserve + 1, new[i].list
                 PROVE  /\ new[i].role = "assistant" /\ i # 0 =>
                             i < Preserve + 1 /\ new[i + 1].list /\ new[i + 1].tool = new[i].tool
                        /\ new[i].role = "user" =>
                             i > 1 /\ new[i - 1].list /\ new[i - 1].tool = new[i].tool
      BY <1>4 DEF Paired
    <2>1. i \in 2 .. Preserve + 1
      <3>1. i # 1 BY <1>2, <1>4
      <3> QED BY <1>1, <3>1
    <2> DEFINE p == cut + i - 1
    <2>2. p \in 1 .. n /\ new[i] = ctx[p] /\ p # 0
      <3>1. p \in 1 .. n BY <1>5, <2>1
      <3>2. new[i] = ctx[p] BY <1>4, <2>1
      <3>3. p # 0 BY <1>1, <3>1
      <3> QED BY <3>1, <3>2, <3>3
    <2>3. ASSUME new[i].role = "assistant"
          PROVE  i < Preserve + 1 /\ new[i + 1].list /\ new[i + 1].tool = new[i].tool
      <3>1. p < n /\ ctx[p + 1].list /\ ctx[p + 1].tool = ctx[p].tool
        BY <2>2, <2>3 DEF Sound, Paired
      <3>2. i + 1 \in 2 .. Preserve + 1 /\ cut + (i + 1) - 1 = p + 1 /\ i < Preserve + 1
        <4>1. p < n BY <3>1
        <4>2. i - 1 < Preserve BY <1>1, <2>1, <4>1
        <4>3. i \in Int /\ i >= 2 BY <1>1, <2>1
        <4> QED BY <1>1, <4>2, <4>3
      <3>3. new[i + 1] = ctx[p + 1] BY <1>4, <3>2
      <3> QED BY <2>2, <3>1, <3>2, <3>3
    <2>4. ASSUME new[i].role = "user"
          PROVE  i > 1 /\ new[i - 1].list /\ new[i - 1].tool = new[i].tool
      <3>1. ctx[p - 1].list /\ ctx[p - 1].tool = ctx[p].tool
        BY <2>2, <2>4 DEF Sound, Paired
      <3>2. i # 2
        <4>1. (1 + i) % 2 = 0 BY <1>6, <2>1, <2>4
        <4> QED BY <4>1
      <3>3. i - 1 \in 2 .. Preserve + 1 /\ cut + (i - 1) - 1 = p - 1 /\ i > 1
        BY <1>1, <2>1, <3>2
      <3>4. new[i - 1] = ctx[p - 1] BY <1>4, <3>3
      <3> QED BY <2>2, <3>1, <3>3, <3>4
    <2> QED BY <2>3, <2>4
  <1>9. new[Preserve + 1].role = "user"
    <2>1. CASE Preserve = 0 BY <1>2, <1>4, <2>1
    <2>2. CASE Preserve # 0
      <3>1. Preserve + 1 \in 2 .. Preserve + 1 /\ cut + (Preserve + 1) - 1 = n BY <1>1, <2>2
      <3> QED BY <1>4, <3>1
    <2> QED BY <2>1, <2>2
  <1>11. Preserve + 1 > 0 BY <1>1
  <1> QED BY <1>4, <1>7, <1>8, <1>9, <1>11 DEF Sound, new

(* The pair a round of tools adds to the history in memory.                *)
LEMMA RoundSound ==
  ASSUME NEW ctx \in Seq(Row), Sound(ctx, 0), ctx # <<>> => ctx[Len(ctx)].role = "user",
         NEW t \in Chat!Turns
  PROVE  LET new == ctx \o <<Chat!Use(t), Chat!Result(t)>> IN
         /\ new \in Seq(Row) /\ Sound(new, 0) /\ Len(new) > 0 /\ new[Len(new)].role = "user"
  <1> DEFINE n == Len(ctx)
             a == Chat!Use(t)
             b == Chat!Result(t)
             mid == Append(ctx, a)
             new == ctx \o <<a, b>>
  <1>1. n \in Nat /\ (ctx = <<>> <=> n = 0) BY LenProperties, EmptySeq
  <1>2. /\ a \in Row /\ a.role = "assistant" /\ a.list /\ a.tool = t
        /\ b \in Row /\ b.role = "user" /\ b.list /\ b.tool = t
    BY DEF Chat!Use, Chat!Result, Row, Chat!Messages
  <1> HIDE DEF a, b
  <1>3. /\ mid \in Seq(Row) /\ Len(mid) = n + 1 /\ mid[n + 1] = a
        /\ \A i \in 1 .. n : mid[i] = ctx[i]
    BY <1>2, AppendProperties
  <1>4. /\ new \in Seq(Row) /\ Len(new) = n + 2 /\ new[n + 2] = b /\ new[n + 1] = a
        /\ \A i \in 1 .. n : new[i] = ctx[i]
    <2>1. <<a, b>> \in Seq(Row) /\ Len(<<a, b>>) = 2 /\ <<a, b>>[1] = a /\ <<a, b>>[2] = b
      BY <1>2
    <2>2. /\ new \in Seq(Row) /\ Len(new) = n + 2
          /\ \A i \in 1 .. n + 2 : new[i] = IF i <= n THEN ctx[i] ELSE <<a, b>>[i - n]
      <3> HIDE DEF new
      <3>1. new = ctx \o <<a, b>> BY DEF new
      <3> QED BY <2>1, <3>1, ConcatProperties
    <2> HIDE DEF new
    <2>3. /\ n + 1 \in 1 .. n + 2 /\ n + 2 \in 1 .. n + 2 /\ ~(n + 1 <= n) /\ ~(n + 2 <= n)
          /\ n + 1 - n = 1 /\ n + 2 - n = 2
      BY <1>1
    <2>4. new[n + 1] = a /\ new[n + 2] = b BY <2>1, <2>2, <2>3
    <2>5. \A i \in 1 .. n : i \in 1 .. n + 2 /\ i <= n BY <1>1
    <2> QED BY <2>2, <2>4, <2>5
  <1> HIDE DEF mid, new
  <1>5. Alternates(mid) BY <1>1, <1>2, <1>3, OneLonger DEF Sound
  <1>6. Paired(mid, n + 1) BY <1>2, <1>3, PairsLonger DEF Sound
  <1>7. Len(new) = Len(mid) + 1 /\ new[Len(mid) + 1] = b /\ \A i \in 1 .. Len(mid) : new[i] = mid[i]
    <2>1. Len(mid) + 1 = n + 2 /\ \A i \in 1 .. n + 1 : i \in 1 .. n \/ i = n + 1 BY <1>1, <1>3
    <2> QED BY <1>3, <1>4, <2>1
  <1>8. Len(mid) > 0 /\ mid[Len(mid)] = a BY <1>1, <1>3
  <1>9. Alternates(new) BY <1>2, <1>3, <1>4, <1>5, <1>7, <1>8, OneLonger
  <1>10. Paired(new, 0) BY <1>2, <1>3, <1>4, <1>6, <1>7, <1>8, PairsLonger
  <1>11. Len(new) > 0 /\ new[Len(new)].role = "user" BY <1>1, <1>2, <1>4
  <1>12. new = ctx \o <<Chat!Use(t), Chat!Result(t)>> BY DEF new, a, b
  <1> QED BY <1>4, <1>9, <1>10, <1>11, <1>12 DEF Sound

-----------------------------------------------------------------------------
(* Chat turns: types.                                                      *)
TurnRecord == [at : Chat!Places, ctx : Seq(Row), tools : 0 .. MaxTools, clear : BOOLEAN]

(* The round of tools a turn is in is one it may still count.              *)
Proper(r) ==
    /\ r \in TurnRecord
    /\ r.ctx # <<>> => r.at \in {"calling", "tool"}
    /\ r.at = "tool" => r.tools < MaxTools

ChatTyped ==
    /\ context \in Seq(Row)
    /\ DOMAIN turn = Chat!Turns /\ turn = [t \in Chat!Turns |-> turn[t]]
    /\ \A t \in Chat!Turns : Proper(turn[t])
    /\ tracked \in Chat!Inbound \cup {Nobody}
    /\ running \in BOOLEAN /\ mishaps \in 0 .. MaxMishaps /\ torn \in BOOLEAN
    /\ answered \cup passed \cup muffled \subseteq Chat!Inbound

LEMMA MergeTyped ==
  ASSUME NEW ctx \in Seq(Row), NEW msg \in Row PROVE Chat!Merge(ctx, msg) \in Seq(Row)
  <1>1. CASE Appends(ctx, msg) BY <1>1, MergeAppends
  <1>2. CASE ~Appends(ctx, msg) BY <1>2, MergeReplaces
  <1> QED BY <1>1, <1>2

LEMMA RowsTyped ==
  /\ \A m \in Chat!Inbound : Chat!Said(m) \in Row
  /\ Chat!Notice \in Row /\ Chat!Reply \in Row
  /\ \A t \in Chat!Turns : Chat!Use(t) \in Row /\ Chat!Result(t) \in Row
  BY DEF Chat!Said, Chat!Notice, Chat!Reply, Chat!Use, Chat!Result, Chat!Text, Row, Chat!Messages

LEMMA HoldsTyped == ASSUME NEW ctx \in Seq(Row) PROVE Chat!Holds(ctx) \subseteq Chat!Inbound
  <1>1. \A i \in 1 .. Len(ctx) : ctx[i].holds \subseteq Chat!Inbound
    BY RowFacts DEF Row, Chat!Messages
  <1> QED BY <1>1 DEF Chat!Holds

LEMMA ContextTyped == ASSUME ChatTyped, Chat!Next PROVE context' \in Seq(Row)
  <1> USE MergeTyped, RowsTyped DEF ChatTyped
  <1>1. ASSUME NEW m \in Chat!Inbound, Chat!Deliver(m) PROVE context' \in Seq(Row)
    BY <1>1 DEF Chat!Deliver
  <1>2. ASSUME NEW a \in Arcs, Chat!ArcEnds(a) \/ Chat!Notify(a) PROVE context' \in Seq(Row)
    BY <1>2 DEF Chat!ArcEnds, Chat!Notify
  <1>3. ASSUME NEW t \in Chat!Turns, Chat!Step(t) PROVE context' \in Seq(Row)
    <2>1. CASE Chat!Read(t) BY <2>1 DEF Chat!Read
    <2>2. CASE Chat!Compact(t) BY <2>2 DEF Chat!Compact
    <2>3. CASE Chat!CallTools(t) BY <2>3 DEF Chat!CallTools
    <2>4. CASE Chat!ToolsReturn(t) BY <2>4 DEF Chat!ToolsReturn
    <2>5. CASE Chat!ToolsEnd(t) BY <2>5 DEF Chat!ToolsEnd
    <2>6. CASE Chat!CallReplies(t) BY <2>6 DEF Chat!CallReplies
    <2>7. CASE Chat!CallFails(t) BY <2>7 DEF Chat!CallFails
    <2>8. CASE Chat!TaskDone(t) BY <2>8 DEF Chat!TaskDone
    <2> QED BY <1>3, <2>1, <2>2, <2>3, <2>4, <2>5, <2>6, <2>7, <2>8 DEF Chat!Step
  <1>4. ASSUME NEW t \in Chat!Turns, Chat!Raises(t) PROVE context' \in Seq(Row)
    BY <1>4 DEF Chat!Raises
  <1>5. ASSUME Chat!Crash \/ Chat!Start PROVE context' \in Seq(Row)
    BY <1>5 DEF Chat!Crash, Chat!Start
  <1> QED BY <1>1, <1>2, <1>3, <1>4, <1>5 DEF Chat!Next

(* One turn changes at a time, but for a crash.                            *)
TurnsProper(tn) ==
    /\ DOMAIN tn = Chat!Turns /\ tn = [t \in Chat!Turns |-> tn[t]]
    /\ \A t \in Chat!Turns : Proper(tn[t])

LEMMA OneTurn ==
  ASSUME TurnsProper(turn), NEW t \in Chat!Turns, NEW r, Proper(r)
  PROVE  TurnsProper([turn EXCEPT ![t] = r])
  BY DEF TurnsProper

LEMMA GoesProper ==
  ASSUME TurnsProper(turn), NEW t \in Chat!Turns, NEW place \in Chat!Places, place # "tool",
         turn[t].ctx = <<>>
  PROVE  TurnsProper(Chat!Goes(t, place))
  <1>1. Proper([turn[t] EXCEPT !.at = place]) BY DEF TurnsProper, Proper, TurnRecord
  <1>2. Chat!Goes(t, place) = [turn EXCEPT ![t] = [turn[t] EXCEPT !.at = place]] BY DEF Chat!Goes
  <1> QED BY <1>1, <1>2, OneTurn

LEMMA GoneProper ==
  ASSUME Chat!Parameters, NEW place \in Chat!Places, place # "tool"
  PROVE  Proper([Chat!NoTurn EXCEPT !.at = place])
  <1>1. <<>> \in Seq(Row) /\ 0 \in 0 .. MaxTools BY DEF Chat!Parameters
  <1> QED BY <1>1 DEF Proper, TurnRecord, Chat!NoTurn

LEMMA EndsProper ==
  ASSUME Chat!Parameters, TurnsProper(turn), NEW t \in Chat!Turns, NEW b, Chat!Ends(t, b)
  PROVE  TurnsProper(turn')
  <1>1. (IF t \in Arcs THEN "done" ELSE "finish") \in Chat!Places /\
        (IF t \in Arcs THEN "done" ELSE "finish") # "tool" BY DEF Chat!Places
  <1> QED BY <1>1, GoneProper, OneTurn DEF Chat!Ends

LEMMA TurnsTyped == ASSUME Chat!Parameters, ChatTyped, Chat!Next PROVE TurnsProper(turn')
  <1>0. TurnsProper(turn) BY DEF TurnsProper, ChatTyped
  <1>p. \A t \in Chat!Turns : turn[t].at \notin {"calling", "tool"} => turn[t].ctx = <<>>
    BY DEF ChatTyped, Proper
  <1>1. ASSUME NEW m \in Chat!Inbound, Chat!Deliver(m) PROVE TurnsProper(turn')
    <2>1. m \in Chat!Turns /\ turn[m].ctx = <<>>
      BY <1>1, <1>p DEF Chat!Deliver, Chat!At, Chat!Turns
    <2> QED BY <1>0, <1>1, <2>1, GoesProper DEF Chat!Deliver, Chat!Places
  <1>2. ASSUME NEW a \in Arcs, Chat!ArcEnds(a) \/ Chat!Notify(a) PROVE TurnsProper(turn')
    <2>1. a \in Chat!Turns /\ turn[a].ctx = <<>>
      BY <1>2, <1>p DEF Chat!ArcEnds, Chat!Notify, Chat!At, Chat!Turns
    <2> QED BY <1>0, <1>2, <2>1, GoesProper DEF Chat!ArcEnds, Chat!Notify, Chat!Places
  <1>3. ASSUME NEW t \in Chat!Turns, Chat!Step(t) PROVE TurnsProper(turn')
    <2>p. Proper(turn[t]) BY DEF ChatTyped
    <2>1. CASE Chat!Read(t)
      <3> DEFINE r == [turn[t] EXCEPT !.at = "calling", !.ctx = context,
                         !.clear = ~Chat!MidTool(t) /\ Chat!Last(context).role = "user"]
      <3>1. Proper(r) BY <2>p DEF ChatTyped, Proper, TurnRecord, Chat!Places
      <3>2. turn' = [turn EXCEPT ![t] = r] BY <2>1 DEF Chat!Read
      <3> QED BY <1>0, <3>1, <3>2, OneTurn
    <2>2. CASE Chat!Compact(t)
      <3> DEFINE c == Chat!Compacted(turn[t].ctx)
                 r == [turn[t] EXCEPT !.ctx = c]
      <3>1. c \in Seq(Row) BY <2>2, <2>p, CompactedTyped DEF Chat!Compact, Proper, TurnRecord
      <3> HIDE DEF c
      <3>2. Proper(r) BY <2>2, <2>p, <3>1 DEF Proper, TurnRecord, Chat!Compact, Chat!At
      <3>3. turn' = [turn EXCEPT ![t] = r] BY <2>2 DEF Chat!Compact, c
      <3> QED BY <1>0, <3>2, <3>3, OneTurn
    <2>3. CASE Chat!CallTools(t)
      <3>1. Proper([turn[t] EXCEPT !.at = "tool"])
        BY <2>p, <2>3 DEF Proper, TurnRecord, Chat!Places, Chat!CallTools
      <3> QED BY <1>0, <2>3, <3>1, OneTurn DEF Chat!CallTools, Chat!Goes
    <2>4. CASE Chat!ToolsReturn(t)
      <3> DEFINE c == turn[t].ctx \o <<Chat!Use(t), Chat!Result(t)>>
                 r == [turn[t] EXCEPT !.at = "calling", !.tools = turn[t].tools + 1, !.ctx = c]
      <3>1. c \in Seq(Row)
        <4>1. <<Chat!Use(t), Chat!Result(t)>> \in Seq(Row) BY RowsTyped
        <4>2. turn[t].ctx \in Seq(Row) BY <2>p DEF Proper, TurnRecord
        <4> QED BY <4>1, <4>2, ConcatProperties
      <3> HIDE DEF c
      <3>2. turn[t].tools + 1 \in 0 .. MaxTools
        BY <2>p, <2>4 DEF Proper, TurnRecord, Chat!ToolsReturn, Chat!At, Chat!Parameters
      <3>3. Proper(r) BY <2>p, <3>1, <3>2 DEF Proper, TurnRecord, Chat!Places
      <3>4. turn' = [turn EXCEPT ![t].at = "calling", ![t].tools = turn[t].tools + 1, ![t].ctx = c]
        BY <2>4 DEF Chat!ToolsReturn, c
      <3>5. turn' = [turn EXCEPT ![t] = r] BY <3>4
      <3> QED BY <1>0, <3>3, <3>5, OneTurn
    <2>5. CASE Chat!ToolsEnd(t) BY <1>0, <2>5, EndsProper DEF Chat!ToolsEnd
    <2>6. CASE Chat!CallReplies(t) BY <1>0, <2>6, EndsProper DEF Chat!CallReplies
    <2>7. CASE Chat!CallFails(t) BY <1>0, <2>7, EndsProper DEF Chat!CallFails
    <2>8. CASE Chat!TaskDone(t)
      <3>1. turn[t].ctx = <<>> BY <1>p, <2>8 DEF Chat!TaskDone, Chat!At
      <3> QED BY <1>0, <2>8, <3>1, GoesProper DEF Chat!TaskDone, Chat!Places
    <2> QED BY <1>3, <2>1, <2>2, <2>3, <2>4, <2>5, <2>6, <2>7, <2>8 DEF Chat!Step
  <1>4. ASSUME NEW t \in Chat!Turns, Chat!Raises(t) PROVE TurnsProper(turn')
    <2>1. CASE Chat!Ends(t, FALSE) BY <1>0, <2>1, EndsProper
    <2>2. CASE turn' = [turn EXCEPT ![t] = [Chat!NoTurn EXCEPT !.at = "queued"]]
      BY <1>0, <2>2, GoneProper, OneTurn DEF Chat!Places
    <2> QED BY <1>4, <2>1, <2>2 DEF Chat!Raises
  <1>5. ASSUME Chat!Crash PROVE TurnsProper(turn')
    <2> DEFINE to(t) == IF ~Chat!InFlight(t) THEN turn[t]
                        ELSE [Chat!NoTurn EXCEPT !.at = IF t \in Arcs THEN "queued" ELSE "lost"]
    <2>1. turn' = [t \in Chat!Turns |-> to(t)] BY <1>5 DEF Chat!Crash
    <2>2. ASSUME NEW t \in Chat!Turns PROVE Proper(to(t))
      <3>1. CASE ~Chat!InFlight(t) BY <3>1 DEF ChatTyped
      <3>2. CASE Chat!InFlight(t)
        <4>1. (IF t \in Arcs THEN "queued" ELSE "lost") \in Chat!Places /\
              (IF t \in Arcs THEN "queued" ELSE "lost") # "tool" BY DEF Chat!Places
        <4> QED BY <3>2, <4>1, GoneProper
      <3> QED BY <3>1, <3>2
    <2> HIDE DEF to
    <2> QED BY <2>1, <2>2 DEF TurnsProper
  <1>6. ASSUME Chat!Start PROVE TurnsProper(turn') BY <1>0, <1>6 DEF Chat!Start
  <1> QED BY <1>1, <1>2, <1>3, <1>4, <1>5, <1>6 DEF Chat!Next

LEMMA EndsTyped ==
  ASSUME ChatTyped, NEW t \in Chat!Turns, NEW b, Chat!Ends(t, b)
  PROVE  answered' \subseteq Chat!Inbound /\ passed' \subseteq Chat!Inbound
  <1>1. turn[t].ctx \in Seq(Row) BY DEF ChatTyped, Proper, TurnRecord
  <1>2. Chat!Holds(turn[t].ctx) \subseteq Chat!Inbound BY <1>1, HoldsTyped
  <1> QED BY <1>2 DEF Chat!Ends, ChatTyped

LEMMA OthersTyped ==
  ASSUME Chat!Parameters, ChatTyped, Chat!Next
  PROVE  /\ tracked' \in Chat!Inbound \cup {Nobody}
         /\ running' \in BOOLEAN /\ mishaps' \in 0 .. MaxMishaps /\ torn' \in BOOLEAN
         /\ answered' \cup passed' \cup muffled' \subseteq Chat!Inbound
  <1> USE DEF ChatTyped
  <1>1. ASSUME NEW m \in Chat!Inbound, Chat!Deliver(m)
        PROVE  /\ tracked' \in Chat!Inbound \cup {Nobody} /\ UNCHANGED <<running, mishaps, torn>>
               /\ answered' \cup passed' \cup muffled' \subseteq Chat!Inbound
    BY <1>1 DEF Chat!Deliver
  <1>2. ASSUME NEW a \in Arcs, Chat!ArcEnds(a) \/ Chat!Notify(a)
        PROVE  UNCHANGED <<tracked, running, mishaps, torn, answered, passed, muffled>>
    BY <1>2 DEF Chat!ArcEnds, Chat!Notify
  <1>3. ASSUME NEW t \in Chat!Turns, Chat!Step(t)
        PROVE  /\ tracked' \in Chat!Inbound \cup {Nobody} /\ torn' \in BOOLEAN
               /\ UNCHANGED <<running, mishaps>>
               /\ answered' \cup passed' \cup muffled' \subseteq Chat!Inbound
    <2>1. CASE Chat!Read(t) BY <2>1 DEF Chat!Read
    <2>2. CASE Chat!Compact(t) BY <2>2 DEF Chat!Compact
    <2>3. CASE Chat!CallTools(t) BY <2>3 DEF Chat!CallTools, Chat!MidTool
    <2>4. CASE Chat!ToolsReturn(t) BY <2>4 DEF Chat!ToolsReturn, Chat!MidTool
    <2>5. CASE Chat!ToolsEnd(t) BY <2>5, EndsTyped DEF Chat!ToolsEnd, Chat!MidTool
    <2>6. CASE Chat!CallReplies(t) BY <2>6, EndsTyped DEF Chat!CallReplies, Chat!MidTool
    <2>7. CASE Chat!CallFails(t) BY <2>7, EndsTyped DEF Chat!CallFails
    <2>8. CASE Chat!TaskDone(t) BY <2>8 DEF Chat!TaskDone, Chat!Freed
    <2> QED BY <1>3, <2>1, <2>2, <2>3, <2>4, <2>5, <2>6, <2>7, <2>8 DEF Chat!Step
  <1>4. ASSUME NEW t \in Chat!Turns, Chat!Raises(t)
        PROVE  /\ mishaps' \in 0 .. MaxMishaps /\ torn' \in BOOLEAN
               /\ UNCHANGED <<running, tracked>>
               /\ answered' \cup passed' \cup muffled' \subseteq Chat!Inbound
    <2>1. mishaps' \in 0 .. MaxMishaps BY <1>4 DEF Chat!Raises, Chat!Parameters
    <2>2. torn' \in BOOLEAN BY <1>4 DEF Chat!Raises, Chat!MidTool, Chat!At
    <2>3. UNCHANGED <<running, tracked, muffled>> BY <1>4 DEF Chat!Raises
    <2>4. Chat!Ends(t, FALSE) \/ UNCHANGED <<answered, passed>> BY <1>4 DEF Chat!Raises
    <2> QED BY <2>1, <2>2, <2>3, <2>4, EndsTyped
  <1>5. ASSUME Chat!Crash
        PROVE  /\ tracked' = Nobody /\ running' = FALSE /\ mishaps' \in 0 .. MaxMishaps
               /\ torn' \in BOOLEAN /\ answered' \cup passed' \cup muffled' \subseteq Chat!Inbound
    BY <1>5 DEF Chat!Crash, Chat!At, Chat!Parameters
  <1>6. ASSUME Chat!Start
        PROVE  running' = TRUE /\ UNCHANGED <<tracked, mishaps, torn, answered, passed, muffled>>
    BY <1>6 DEF Chat!Start
  <1> QED BY <1>1, <1>2, <1>3, <1>4, <1>5, <1>6 DEF Chat!Next

LEMMA ChatTypedStep == ASSUME Chat!Parameters, ChatTyped, [Chat!Next]_chat PROVE ChatTyped'
  <1>1. CASE Chat!Next BY <1>1, ContextTyped, TurnsTyped, OthersTyped DEF ChatTyped, TurnsProper
  <1>2. CASE UNCHANGED chat BY <1>2 DEF chat, ChatTyped
  <1> QED BY <1>1, <1>2

LEMMA ChatTypedInit == ASSUME Chat!Parameters, Chat!Init PROVE ChatTyped
  <1>1. <<>> \in Seq(Row) /\ 0 \in 0 .. MaxTools /\ 0 \in 0 .. MaxMishaps BY DEF Chat!Parameters
  <1>2. Proper(Chat!NoTurn) BY <1>1 DEF Proper, TurnRecord, Chat!NoTurn, Chat!Places
  <1> QED BY <1>1, <1>2 DEF Chat!Init, ChatTyped

LEMMA ChatStepOnly == [Next]_vars => [Chat!Next]_chat
  BY DEF Next, SupervisorStep, ApiStep, ChatStep, SpendingStep, vars

LEMMA ChatAlwaysTyped == Spec => []ChatTyped
  <1>1. Init => ChatTyped BY ChatParameters, ChatTypedInit DEF Init
  <1>2. ChatTyped /\ [Next]_vars => ChatTyped' BY ChatParameters, ChatTypedStep, ChatStepOnly
  <1> QED BY <1>1, <1>2, PTL DEF Spec

(* Each component's variables stay in their types.                         *)
THEOREM ServicesTyped == Spec => []TypeOK
  <1>1. ChatTyped => Chat!TypeOK
    <2>1. ChatTyped => turn \in [Chat!Turns -> TurnRecord] BY DEF ChatTyped, Proper
    <2> QED BY <2>1 DEF ChatTyped, Proper, Chat!TypeOK, TurnRecord, Row
  <1>2. SupervisorProofs!Spec => []SupervisorProofs!TypeOK
    BY SupervisorParameters, SupervisorProofs!WakeTyped
  <1>3. SupervisorProofs!TypeOK => Supervisor!TypeOK
    BY DEF Supervisor!TypeOK, SupervisorProofs!TypeOK, Supervisor!ChildStates,
      SupervisorProofs!ChildStates
  <1>5. ApiProofs!Spec => []ApiProofs!TypeOK BY ApiProofsParameters, ApiProofs!CallsTyped
  <1>6. ApiProofs!TypeOK => Api!TypeOK
    BY DEF Api!TypeOK, ApiProofs!TypeOK, Api!Calls, ApiProofs!Calls, Api!Places, ApiProofs!Places
  <1>7. SpendingFits => Spending!TypeOK BY SpendingParameters, FitsTyped
  <1> QED
    BY <1>1, <1>2, <1>3, <1>5, <1>6, <1>7, ChatAlwaysTyped, SpendingAlwaysFits, SupervisorPart,
      ApiPart, PTL DEF TypeOK

-----------------------------------------------------------------------------
(* Chat turns: the rows.  As long as nothing was torn, one turn at most    *)
(* runs its tools, and its tool_use is the one that waits for its result.  *)
InTools == {t \in Chat!Turns : turn[t].at = "tool"}

OpenFits(ctx, T) ==
    \/ T = {} /\ Sound(ctx, 0)
    \/ \E t \in T : \E k \in 1 .. Len(ctx) : T = {t} /\ Sound(ctx, k) /\ Waits(ctx, k, t)

ClearFits(r) ==
    r.clear => Sound(r.ctx, 0) /\ (r.ctx # <<>> => r.ctx[Len(r.ctx)].role = "user")

ChatSound == ~torn => OpenFits(context, InTools) /\ \A t \in Chat!Turns : ClearFits(turn[t])

LEMMA TornStays == ASSUME Chat!Next, ~torn' PROVE ~torn
  BY DEF Chat!Next, Chat!Step, Chat!Deliver, Chat!ArcEnds, Chat!Notify, Chat!Read, Chat!Compact,
    Chat!CallTools, Chat!ToolsReturn, Chat!ToolsEnd, Chat!CallReplies, Chat!CallFails,
    Chat!TaskDone, Chat!Raises, Chat!Crash, Chat!Start

LEMMA EmptySound == Sound(<<>>, 0)
  BY DEF Sound, Alternates, Paired

LEMMA InToolsMoves ==
  ASSUME ChatTyped, NEW t \in Chat!Turns, NEW r, turn' = [turn EXCEPT ![t] = r]
  PROVE  InTools' = IF r.at = "tool" THEN InTools \cup {t} ELSE InTools \ {t}
  BY DEF InTools, ChatTyped

LEMMA MidToolIs == ASSUME NEW t PROVE Chat!MidTool(t) <=> InTools \ {t} # {}
  BY DEF InTools, Chat!MidTool, Chat!At

LEMMA TextFits ==
  ASSUME NEW ctx \in Seq(Row), NEW T, OpenFits(ctx, T),
         NEW msg \in Row, msg.role = "user", ~msg.list
  PROVE  OpenFits(Chat!Merge(ctx, msg), T)
  <1>0. 0 \in 0 .. Len(ctx) BY LenProperties
  <1>1. CASE T = {} /\ Sound(ctx, 0)
    <2>1. Sound(Chat!Merge(ctx, msg), 0) BY <1>0, <1>1, MergeText
    <2> QED BY <1>1, <2>1 DEF OpenFits
  <1>2. ASSUME NEW t \in T, NEW k \in 1 .. Len(ctx), T = {t}, Sound(ctx, k), Waits(ctx, k, t)
        PROVE  OpenFits(Chat!Merge(ctx, msg), T)
    <2>1. k \in 0 .. Len(ctx) BY LenProperties
    <2>2. Sound(Chat!Merge(ctx, msg), k) /\ Waits(Chat!Merge(ctx, msg), k, t)
      BY <1>2, <2>1, MergeText
    <2>3. k \in 1 .. Len(Chat!Merge(ctx, msg)) BY <2>2 DEF Waits
    <2> QED BY <1>2, <2>2, <2>3 DEF OpenFits
  <1> QED BY <1>1, <1>2 DEF OpenFits

LEMMA TextRows ==
  /\ \A m \in Chat!Inbound : /\ Chat!Said(m) \in Row /\ Chat!Said(m).role = "user"
                             /\ ~Chat!Said(m).list
  /\ Chat!Notice \in Row /\ Chat!Notice.role = "user" /\ ~Chat!Notice.list
  /\ Chat!Reply \in Row /\ Chat!Reply.role = "assistant" /\ ~Chat!Reply.list
  BY RowsTyped DEF Chat!Said, Chat!Notice, Chat!Reply, Chat!Text

LEMMA PairRows ==
  ASSUME NEW t \in Chat!Turns
  PROVE  /\ Chat!Use(t) \in Row /\ Chat!Use(t).role = "assistant" /\ Chat!Use(t).list
         /\ Chat!Use(t).tool = t
         /\ Chat!Result(t) \in Row /\ Chat!Result(t).role = "user" /\ Chat!Result(t).list
         /\ Chat!Result(t).tool = t
  BY RowsTyped DEF Chat!Use, Chat!Result

(* The reply of a turn while no other runs its tools.                      *)
LEMMA ReplyFits ==
  ASSUME ChatTyped, OpenFits(context, {}) PROVE OpenFits(Chat!Merge(context, Chat!Reply), {})
  BY TextRows, MergeReply DEF ChatTyped, OpenFits

LEMMA UseFits ==
  ASSUME ChatTyped, OpenFits(context, {}), NEW t \in Chat!Turns
  PROVE  OpenFits(Chat!Merge(context, Chat!Use(t)), {t})
  <1> DEFINE new == Chat!Merge(context, Chat!Use(t))
  <1>1. Sound(context, 0) BY DEF OpenFits
  <1>2. Sound(new, Len(new)) /\ Waits(new, Len(new), t) BY <1>1, PairRows, MergeUse DEF ChatTyped
  <1>3. Len(new) \in 1 .. Len(new) BY <1>2 DEF Waits
  <1> HIDE DEF new
  <1>4. OpenFits(new, {t}) BY <1>2, <1>3 DEF OpenFits
  <1> QED BY <1>4 DEF new

LEMMA ResultFits ==
  ASSUME ChatTyped, NEW t \in Chat!Turns, OpenFits(context, {t})
  PROVE  OpenFits(Chat!Merge(context, Chat!Result(t)), {})
  <1>1. PICK k \in 1 .. Len(context) : Sound(context, k) /\ Waits(context, k, t) BY DEF OpenFits
  <1>2. Sound(Chat!Merge(context, Chat!Result(t)), 0) BY <1>1, PairRows, MergeResult DEF ChatTyped
  <1> QED BY <1>2 DEF OpenFits

LEMMA GoneClear == ASSUME NEW place PROVE ClearFits([Chat!NoTurn EXCEPT !.at = place])
  BY EmptySound DEF ClearFits, Chat!NoTurn

(* A turn that ends leaves no context.                                     *)
LEMMA EndsClear ==
  ASSUME ChatTyped, NEW t \in Chat!Turns, NEW b, Chat!Ends(t, b),
         \A u \in Chat!Turns : ClearFits(turn[u])
  PROVE  (\A u \in Chat!Turns : ClearFits(turn'[u])) /\ InTools' = InTools \ {t}
  <1> DEFINE place == IF t \in Arcs THEN "done" ELSE "finish"
             r == [Chat!NoTurn EXCEPT !.at = place]
  <1>1. turn' = [turn EXCEPT ![t] = r] BY DEF Chat!Ends
  <1>2. r.at # "tool" BY DEF Chat!NoTurn
  <1>3. ClearFits(r) BY GoneClear
  <1> HIDE DEF r
  <1> QED BY <1>1, <1>2, <1>3, InToolsMoves DEF ChatTyped

(* A turn that goes on to another place with the same context.             *)
LEMMA GoesClear ==
  ASSUME ChatTyped, NEW t \in Chat!Turns, NEW place, turn' = Chat!Goes(t, place),
         \A u \in Chat!Turns : ClearFits(turn[u])
  PROVE  /\ \A u \in Chat!Turns : ClearFits(turn'[u])
         /\ InTools' = IF place = "tool" THEN InTools \cup {t} ELSE InTools \ {t}
  <1> DEFINE r == [turn[t] EXCEPT !.at = place]
  <1>0. turn[t] \in TurnRecord BY DEF ChatTyped, Proper
  <1>1. turn' = [turn EXCEPT ![t] = r] BY DEF Chat!Goes
  <1>2. r.at = place /\ r.ctx = turn[t].ctx /\ r.clear = turn[t].clear BY <1>0 DEF TurnRecord
  <1>3. ClearFits(r) BY <1>2 DEF ClearFits
  <1> HIDE DEF r
  <1> QED BY <1>1, <1>2, <1>3, InToolsMoves DEF ChatTyped

LEMMA ChatSoundTurn ==
  ASSUME Chat!Parameters, ChatTyped, NEW t \in Chat!Turns, Chat!Step(t), ~torn, ~torn',
         OpenFits(context, InTools), \A u \in Chat!Turns : ClearFits(turn[u])
  PROVE  OpenFits(context', InTools') /\ \A u \in Chat!Turns : ClearFits(turn'[u])
  <1>p. Proper(turn[t]) /\ turn[t] \in TurnRecord /\ turn[t].ctx \in Seq(Row)
    BY DEF ChatTyped, Proper, TurnRecord
  <1>c. context \in Seq(Row) BY DEF ChatTyped
  <1>n. OpenFits(Chat!Merge(context, Chat!Notice), InTools) BY <1>c, TextFits, TextRows
  <1>1. CASE Chat!Read(t)
    <2> DEFINE clear == ~Chat!MidTool(t) /\ Chat!Last(context).role = "user"
               r == [turn[t] EXCEPT !.at = "calling", !.ctx = context, !.clear = clear]
    <2>1. turn' = [turn EXCEPT ![t] = r] /\ context' = context BY <1>1 DEF Chat!Read
    <2>2. r.at = "calling" /\ r.ctx = context /\ r.clear = clear BY <1>p DEF TurnRecord
    <2>3. InTools \ {t} = InTools BY <1>1 DEF InTools, Chat!Read, Chat!At
    <2>4. ASSUME clear PROVE Sound(context, 0) /\ context[Len(context)].role = "user"
      <3>1. InTools = {} BY <2>3, <2>4, MidToolIs
      <3> QED BY <2>4, <3>1 DEF OpenFits, Chat!Last
    <2> HIDE DEF r, clear
    <2>5. ClearFits(r) BY <2>2, <2>4 DEF ClearFits
    <2>6. InTools' = InTools BY <2>1, <2>2, <2>3, InToolsMoves
    <2> QED BY <2>1, <2>5, <2>6 DEF ChatTyped
  <1>2. CASE Chat!Compact(t)
    <2> DEFINE c == Chat!Compacted(turn[t].ctx)
               r == [turn[t] EXCEPT !.ctx = c]
    <2>1. turn' = [turn EXCEPT ![t] = r] /\ context' = Chat!Merge(context, Chat!Notice)
      BY <1>2 DEF Chat!Compact
    <2>2. r.at = turn[t].at /\ r.ctx = c /\ r.clear = turn[t].clear BY <1>p DEF TurnRecord
    <2>3. turn[t].at = "calling" /\ Len(turn[t].ctx) > Preserve BY <1>2 DEF Chat!Compact, Chat!At
    <2>4. turn[t].ctx # <<>>
      <3>1. Len(<<>>) = 0 /\ Preserve \in Nat BY DEF Chat!Parameters
      <3> QED BY <2>3, <3>1
    <2>5. turn[t].clear => Sound(c, 0) /\ c[Len(c)].role = "user"
      BY <1>p, <2>3, <2>4, CompactedSound DEF ClearFits
    <2> HIDE DEF c, r
    <2>6. ClearFits(r) BY <2>2, <2>5 DEF ClearFits
    <2>7. InTools' = InTools BY <2>1, <2>2, <2>3, InToolsMoves DEF InTools
    <2> QED BY <1>n, <2>1, <2>6, <2>7 DEF ChatTyped
  <1>3. CASE Chat!CallTools(t)
    <2>1. t \notin InTools BY <1>3 DEF Chat!CallTools, Chat!At, InTools
    <2>2. InTools = {} BY <1>3, <2>1, MidToolIs DEF Chat!CallTools
    <2>3. (\A u \in Chat!Turns : ClearFits(turn'[u])) /\ InTools' = InTools \cup {t}
      BY <1>3, GoesClear DEF Chat!CallTools
    <2>4. InTools' = {t} BY <2>2, <2>3
    <2> QED BY <1>3, <2>2, <2>3, <2>4, UseFits DEF Chat!CallTools
  <1>4. CASE Chat!ToolsReturn(t)
    <2> DEFINE c == turn[t].ctx \o <<Chat!Use(t), Chat!Result(t)>>
               r == [turn[t] EXCEPT !.at = "calling", !.tools = turn[t].tools + 1, !.ctx = c]
    <2>1. turn' = [turn EXCEPT ![t] = r]
      <3> HIDE DEF c
      <3>1. turn' = [turn EXCEPT ![t].at = "calling", ![t].tools = turn[t].tools + 1, ![t].ctx = c]
        BY <1>4 DEF Chat!ToolsReturn, c
      <3> QED BY <3>1
    <2>2. r.at = "calling" /\ r.ctx = c /\ r.clear = turn[t].clear BY <1>p DEF TurnRecord
    <2>3. turn[t].clear => Sound(c, 0) /\ c[Len(c)].role = "user"
      BY <1>p, RoundSound DEF ClearFits
    <2> HIDE DEF c, r
    <2>4. ClearFits(r) BY <2>2, <2>3 DEF ClearFits
    <2>5. InTools = {t}
      <3>1. t \in InTools BY <1>4 DEF InTools, Chat!ToolsReturn, Chat!At
      <3>2. InTools \ {t} = {} BY <1>4, MidToolIs DEF Chat!ToolsReturn
      <3> QED BY <3>1, <3>2
    <2>6. InTools' = {} BY <2>1, <2>2, <2>5, InToolsMoves
    <2>7. OpenFits(context', {}) BY <1>4, <2>5, ResultFits DEF Chat!ToolsReturn
    <2> QED BY <2>1, <2>4, <2>6, <2>7 DEF ChatTyped
  <1>5. CASE Chat!ToolsEnd(t)
    <2> DEFINE new == Chat!Merge(context, Chat!Result(t))
    <2>1. t \in InTools BY <1>5 DEF InTools, Chat!ToolsEnd, Chat!At
    <2>2. InTools \ {t} = {} BY <1>5, MidToolIs DEF Chat!ToolsEnd
    <2>3. OpenFits(new, {})
      <3>1. OpenFits(context, {t}) BY <2>1, <2>2
      <3> QED BY <3>1, ResultFits
    <2>4. new \in Seq(Row) BY <1>c, PairRows, MergeTyped
    <2>5. context' = new \/ context' = Chat!Merge(new, Chat!Reply) BY <1>5 DEF Chat!ToolsEnd
    <2> HIDE DEF new
    <2>6. OpenFits(Chat!Merge(new, Chat!Reply), {})
      BY <2>3, <2>4, TextRows, MergeReply DEF OpenFits
    <2>7. (\A u \in Chat!Turns : ClearFits(turn'[u])) /\ InTools' = {}
      BY <1>5, <2>2, EndsClear DEF Chat!ToolsEnd
    <2> QED BY <2>3, <2>5, <2>6, <2>7
  <1>6. CASE Chat!CallReplies(t)
    <2>1. t \notin InTools BY <1>6 DEF Chat!CallReplies, Chat!At, InTools
    <2>2. InTools = {} BY <1>6, <2>1, MidToolIs DEF Chat!CallReplies
    <2>3. (\A u \in Chat!Turns : ClearFits(turn'[u])) /\ InTools' = {}
      BY <1>6, <2>2, EndsClear DEF Chat!CallReplies
    <2> QED BY <1>6, <2>2, <2>3, ReplyFits DEF Chat!CallReplies
  <1>7. CASE Chat!CallFails(t)
    <2>1. InTools \ {t} = InTools BY <1>7 DEF Chat!CallFails, Chat!At, InTools
    <2>2. (\A u \in Chat!Turns : ClearFits(turn'[u])) /\ InTools' = InTools
      BY <1>7, <2>1, EndsClear DEF Chat!CallFails
    <2>3. OpenFits(context', InTools) BY <1>7, <1>n DEF Chat!CallFails
    <2> QED BY <2>2, <2>3
  <1>8. CASE Chat!TaskDone(t)
    <2>1. InTools \ {t} = InTools BY <1>8 DEF Chat!TaskDone, Chat!At, InTools
    <2>2. turn' = Chat!Goes(t, "done") /\ context' = context BY <1>8 DEF Chat!TaskDone
    <2> QED BY <2>1, <2>2, GoesClear
  <1> QED BY <1>1, <1>2, <1>3, <1>4, <1>5, <1>6, <1>7, <1>8 DEF Chat!Step

LEMMA ChatSoundStep ==
  ASSUME Chat!Parameters, ChatTyped, ChatSound, [Chat!Next]_chat PROVE ChatSound'
  <1> SUFFICES ASSUME ~torn'
               PROVE  OpenFits(context', InTools') /\ \A t \in Chat!Turns : ClearFits(turn'[t])
    BY DEF ChatSound
  <1>0. ASSUME Chat!Next
        PROVE  /\ ~torn /\ OpenFits(context, InTools)
               /\ \A t \in Chat!Turns : ClearFits(turn[t])
    BY <1>0, TornStays DEF ChatSound
  <1>c. context \in Seq(Row) BY DEF ChatTyped
  <1>1. ASSUME Chat!Next, NEW m \in Chat!Inbound, Chat!Deliver(m)
        PROVE  OpenFits(context', InTools') /\ \A t \in Chat!Turns : ClearFits(turn'[t])
    <2>1. m \in Chat!Turns /\ InTools \ {m} = InTools
      BY <1>1 DEF Chat!Deliver, Chat!At, InTools, Chat!Turns
    <2>2. (\A t \in Chat!Turns : ClearFits(turn'[t])) /\ InTools' = InTools
      BY <1>0, <1>1, <2>1, GoesClear DEF Chat!Deliver
    <2>3. OpenFits(context', InTools) BY <1>0, <1>1, <1>c, TextFits, TextRows DEF Chat!Deliver
    <2> QED BY <2>2, <2>3
  <1>2. ASSUME Chat!Next, NEW a \in Arcs, Chat!ArcEnds(a) \/ Chat!Notify(a)
        PROVE  OpenFits(context', InTools') /\ \A t \in Chat!Turns : ClearFits(turn'[t])
    <2>1. a \in Chat!Turns /\ InTools \ {a} = InTools
      BY <1>2 DEF Chat!ArcEnds, Chat!Notify, Chat!At, InTools, Chat!Turns
    <2>2. (\A t \in Chat!Turns : ClearFits(turn'[t])) /\ InTools' = InTools
      BY <1>0, <1>2, <2>1, GoesClear DEF Chat!ArcEnds, Chat!Notify
    <2>3. OpenFits(context', InTools)
      BY <1>0, <1>2, <1>c, TextFits, TextRows DEF Chat!ArcEnds, Chat!Notify
    <2> QED BY <2>2, <2>3
  <1>3. ASSUME Chat!Next, NEW t \in Chat!Turns, Chat!Step(t)
        PROVE  OpenFits(context', InTools') /\ \A u \in Chat!Turns : ClearFits(turn'[u])
    BY <1>0, <1>3, ChatSoundTurn
  <1>4. ASSUME Chat!Next, NEW t \in Chat!Turns, Chat!Raises(t)
        PROVE  OpenFits(context', InTools') /\ \A u \in Chat!Turns : ClearFits(turn'[u])
    <2>1. t \notin InTools BY <1>4 DEF Chat!Raises, Chat!At, InTools
    <2>2. CASE t \in Chat!Inbound /\ context' = Chat!Merge(context, Chat!Reply) /\ Chat!Ends(t, FALSE)
      <3>1. InTools = {} BY <1>4, <2>1, <2>2, MidToolIs DEF Chat!Raises
      <3>2. (\A u \in Chat!Turns : ClearFits(turn'[u])) /\ InTools' = {}
        BY <1>0, <1>4, <2>2, <3>1, EndsClear
      <3> QED BY <1>0, <1>4, <2>2, <3>1, <3>2, ReplyFits
    <2>3. CASE turn' = [turn EXCEPT ![t] = [Chat!NoTurn EXCEPT !.at = "queued"]] /\ context' = context
      <3> DEFINE r == [Chat!NoTurn EXCEPT !.at = "queued"]
      <3>1. r.at # "tool" BY DEF Chat!NoTurn
      <3>2. ClearFits(r) BY GoneClear
      <3> HIDE DEF r
      <3>3. turn' = [turn EXCEPT ![t] = r] BY <2>3 DEF r
      <3>4. InTools' = InTools BY <2>1, <3>1, <3>3, InToolsMoves
      <3> QED BY <1>0, <1>4, <2>3, <3>2, <3>3, <3>4 DEF ChatTyped
    <2> QED BY <1>4, <2>2, <2>3 DEF Chat!Raises
  <1>5. ASSUME Chat!Next, Chat!Crash
        PROVE  OpenFits(context', InTools') /\ \A t \in Chat!Turns : ClearFits(turn'[t])
    <2>1. InTools = {} BY <1>5 DEF Chat!Crash, Chat!At, InTools
    <2> DEFINE place(t) == IF t \in Arcs THEN "queued" ELSE "lost"
               to(t) == IF ~Chat!InFlight(t) THEN turn[t] ELSE [Chat!NoTurn EXCEPT !.at = place(t)]
    <2>2. turn' = [t \in Chat!Turns |-> to(t)] /\ context' = context BY <1>5 DEF Chat!Crash
    <2>3. ASSUME NEW t \in Chat!Turns PROVE ClearFits(to(t)) /\ to(t).at # "tool"
      <3>1. CASE ~Chat!InFlight(t) BY <1>0, <1>5, <2>1, <3>1 DEF InTools
      <3>2. CASE Chat!InFlight(t)
        <4>1. [Chat!NoTurn EXCEPT !.at = place(t)].at # "tool" BY DEF Chat!NoTurn
        <4> HIDE DEF place
        <4> QED BY <3>2, <4>1, GoneClear
      <3> QED BY <3>1, <3>2
    <2> HIDE DEF to
    <2>4. InTools' = {} BY <2>2, <2>3 DEF InTools
    <2> QED BY <1>0, <1>5, <2>1, <2>2, <2>3, <2>4
  <1>6. ASSUME Chat!Next, Chat!Start
        PROVE  OpenFits(context', InTools') /\ \A t \in Chat!Turns : ClearFits(turn'[t])
    BY <1>0, <1>6 DEF Chat!Start, InTools
  <1>7. ASSUME UNCHANGED chat
        PROVE  OpenFits(context', InTools') /\ \A t \in Chat!Turns : ClearFits(turn'[t])
    BY <1>7 DEF chat, InTools, ChatSound
  <1> QED BY <1>1, <1>2, <1>3, <1>4, <1>5, <1>6, <1>7 DEF Chat!Next

(* What goes to the provider is well formed, whatever arrived while tools  *)
(* ran, wherever it was compacted and however many turns there are.        *)
THEOREM ChatContextsWellFormed == Spec => []ContextsWellFormed
  <1>1. Init => ChatSound
    BY EmptySound DEF Init, Chat!Init, ChatSound, OpenFits, InTools, ClearFits, Chat!NoTurn
  <1>2. ChatTyped /\ ChatSound /\ [Next]_vars => ChatSound'
    BY ChatParameters, ChatSoundStep, ChatStepOnly
  <1>3. ChatTyped /\ ChatSound => ContextsWellFormed
    <2> SUFFICES ASSUME ChatTyped, ChatSound, NEW t \in Chat!Turns,
                        turn[t].ctx # <<>>, turn[t].clear, ~torn
                 PROVE  Chat!WellFormed(turn[t].ctx)
      BY DEF ContextsWellFormed, Chat!ContextsWellFormed
    <2>1. turn[t].ctx \in Seq(Row) BY DEF ChatTyped, Proper, TurnRecord
    <2>2. Sound(turn[t].ctx, 0) BY DEF ChatSound, ClearFits
    <2> QED BY <2>1, <2>2, SoundFits
  <1> QED BY <1>1, <1>2, <1>3, ChatAlwaysTyped, PTL DEF Spec

-----------------------------------------------------------------------------
(* Chat turns: what the user said.                                         *)
Silent(ctx) == \A i \in 1 .. Len(ctx) : ctx[i].role = "assistant" => ctx[i].holds = {}

EndsOnText(ctx) == Len(ctx) > 0 /\ ctx[Len(ctx)].role = "user" /\ ~ctx[Len(ctx)].list

(* Text at the end, which a tool_result may replace, is in M.              *)
EndsIn(ctx, M) == EndsOnText(ctx) => ctx[Len(ctx)].holds \subseteq M

Kept ==
    /\ Silent(context)
    /\ \A m \in Chat!Inbound : turn[m].at # "none" => m \in Chat!Holds(context) \cup muffled
    /\ InTools # {} => EndsIn(context, muffled)

LEMMA HoldsHas ==
  ASSUME NEW ctx, NEW x
  PROVE  x \in Chat!Holds(ctx) <=> \E i \in 1 .. Len(ctx) : x \in ctx[i].holds
  BY DEF Chat!Holds

LEMMA MergeKeeps ==
  ASSUME NEW ctx \in Seq(Row), NEW msg \in Row, Silent(ctx),
         msg.role = "assistant" => msg.holds = {}
  PROVE  LET new == Chat!Merge(ctx, msg) IN
         /\ Silent(new)
         /\ msg.holds \subseteq Chat!Holds(new)
         /\ \A x \in Chat!Holds(ctx) :
               \/ x \in Chat!Holds(new)
               \/ EndsOnText(ctx) /\ x \in ctx[Len(ctx)].holds /\ msg.list /\ msg.role = "user"
         /\ \A M : EndsIn(ctx, M) /\ (msg.role = "user" /\ ~msg.list => msg.holds \subseteq M)
                       => EndsIn(new, M)
         /\ msg.role = "assistant" \/ msg.list => \A M : EndsIn(new, M)
  <1> DEFINE n == Len(ctx)
  <1>0. PICK new : new = Chat!Merge(ctx, msg) OBVIOUS
  <1>1. n \in Nat /\ (ctx = <<>> <=> n = 0) BY LenProperties, EmptySeq
  <1>2. CASE Appends(ctx, msg)
    <2>1. /\ new \in Seq(Row) /\ Len(new) = n + 1 /\ new[n + 1] = msg
          /\ \A i \in 1 .. n : new[i] = ctx[i]
      BY <1>0, <1>2, MergeAppends
    <2>2. n + 1 \in 1 .. n + 1 /\ \A i \in 1 .. n + 1 : i \in 1 .. n \/ i = n + 1 BY <1>1
    <2>3. Silent(new) BY <2>1, <2>2 DEF Silent
    <2>4. msg.holds \subseteq Chat!Holds(new) BY <2>1, <2>2, HoldsHas
    <2>5. \A x \in Chat!Holds(ctx) : x \in Chat!Holds(new)
      <3> SUFFICES ASSUME NEW x \in Chat!Holds(ctx) PROVE x \in Chat!Holds(new) OBVIOUS
      <3>1. PICK i \in 1 .. n : x \in ctx[i].holds BY HoldsHas
      <3>2. i \in 1 .. n + 1 BY <1>1
      <3> QED BY <2>1, <3>1, <3>2, HoldsHas
    <2>6. EndsOnText(new) => msg.role = "user" /\ ~msg.list BY <2>1 DEF EndsOnText
    <2>7. \A M : (msg.role = "user" /\ ~msg.list => msg.holds \subseteq M) => EndsIn(new, M)
      BY <2>1, <2>6 DEF EndsIn
    <2>8. msg.role = "assistant" \/ msg.list => \A M : EndsIn(new, M) BY <2>6 DEF EndsIn
    <2> QED BY <1>0, <2>3, <2>4, <2>5, <2>7, <2>8
  <1>3. CASE ~Appends(ctx, msg)
    <2>1. /\ new \in Seq(Row) /\ Len(new) = n /\ n > 0
          /\ \A i \in 1 .. n - 1 : new[i] = ctx[i]
          /\ new[n] = IF msg.list THEN msg ELSE [ctx[n] EXCEPT !.holds = ctx[n].holds \cup msg.holds]
      BY <1>0, <1>3, MergeReplaces
    <2>2. n \in 1 .. n /\ \A i \in 1 .. n : i \in 1 .. n - 1 \/ i = n BY <1>1, <2>1
    <2>3. ctx[n].role = msg.role /\ (msg.list => ~ctx[n].list) BY <1>1, <1>3 DEF Appends
    <2>4. msg.list => new[n] = msg BY <2>1
    <2>5. ~msg.list => /\ new[n].holds = ctx[n].holds \cup msg.holds
                       /\ new[n].role = ctx[n].role /\ new[n].list = ctx[n].list
      <3>1. ctx[n] \in Row BY <2>2, RowFacts
      <3> QED BY <2>1, <3>1 DEF Row, Chat!Messages
    <2>6. Silent(new)
      <3> SUFFICES ASSUME NEW i \in 1 .. n, new[i].role = "assistant" PROVE new[i].holds = {}
        BY <2>1 DEF Silent
      <3>1. CASE i \in 1 .. n - 1 BY <2>1, <3>1 DEF Silent
      <3>2. CASE i = n BY <2>2, <2>3, <2>4, <2>5, <3>2 DEF Silent
      <3> QED BY <2>2, <3>1, <3>2
    <2>7. msg.holds \subseteq new[n].holds BY <2>4, <2>5
    <2>8. msg.holds \subseteq Chat!Holds(new) BY <2>1, <2>2, <2>7, HoldsHas
    <2>9. ASSUME NEW x \in Chat!Holds(ctx)
          PROVE  \/ x \in Chat!Holds(new)
                 \/ EndsOnText(ctx) /\ x \in ctx[n].holds /\ msg.list /\ msg.role = "user"
      <3>1. PICK i \in 1 .. n : x \in ctx[i].holds BY HoldsHas
      <3>2. CASE i \in 1 .. n - 1 BY <2>1, <3>1, <3>2, HoldsHas
      <3>3. CASE i = n /\ ~msg.list BY <2>1, <2>5, <3>1, <3>3, HoldsHas
      <3>4. CASE i = n /\ msg.list
        <4>1. ctx[n].role # "assistant" BY <2>2, <3>1, <3>4 DEF Silent
        <4>2. ctx[n].role = "user" BY <2>2, <4>1, RowFacts
        <4> QED BY <2>1, <2>3, <3>1, <3>4, <4>2 DEF EndsOnText
      <3> QED BY <2>2, <3>2, <3>3, <3>4
    <2>10. ASSUME NEW M, EndsIn(ctx, M), msg.role = "user" /\ ~msg.list => msg.holds \subseteq M
           PROVE  EndsIn(new, M)
      BY <2>1, <2>3, <2>4, <2>5, <2>10 DEF EndsIn, EndsOnText
    <2>11. ASSUME msg.role = "assistant" \/ msg.list, NEW M PROVE EndsIn(new, M)
      BY <2>1, <2>3, <2>4, <2>5, <2>11 DEF EndsIn, EndsOnText
    <2> QED BY <1>0, <2>6, <2>8, <2>9, <2>10, <2>11
  <1> QED BY <1>2, <1>3

LEMMA RowHolds ==
  /\ \A m \in Chat!Inbound : Chat!Said(m).holds = {m}
  /\ Chat!Notice.holds = {} /\ Chat!Reply.holds = {}
  /\ \A t \in Chat!Turns : Chat!Use(t).holds = {} /\ Chat!Result(t).holds = {}
  BY DEF Chat!Said, Chat!Notice, Chat!Reply, Chat!Use, Chat!Result, Chat!Text

(* A row with nothing of the user in it loses what a tool_result replaces. *)
LEMMA RowKept ==
  ASSUME NEW ctx \in Seq(Row), NEW msg \in Row, Silent(ctx), msg.holds = {}, NEW M,
         msg.list /\ msg.role = "user" => EndsIn(ctx, M),
         NEW S, \A m \in S : m \in Chat!Holds(ctx) \cup M
  PROVE  LET new == Chat!Merge(ctx, msg) IN
         /\ Silent(new) /\ \A m \in S : m \in Chat!Holds(new) \cup M
         /\ EndsIn(ctx, M) => EndsIn(new, M)
         /\ msg.role = "assistant" \/ msg.list => EndsIn(new, M)
  <1>1. PICK new : new = Chat!Merge(ctx, msg) OBVIOUS
  <1>2. \A x \in Chat!Holds(ctx) :
           \/ x \in Chat!Holds(new)
           \/ EndsOnText(ctx) /\ x \in ctx[Len(ctx)].holds /\ msg.list /\ msg.role = "user"
    BY <1>1, MergeKeeps
  <1>3. /\ Silent(new) /\ (EndsIn(ctx, M) => EndsIn(new, M))
        /\ msg.role = "assistant" \/ msg.list => EndsIn(new, M)
    BY <1>1, MergeKeeps
  <1>4. \A m \in S : m \in Chat!Holds(new) \cup M BY <1>2 DEF EndsIn
  <1> QED BY <1>1, <1>3, <1>4

Spoken == {m \in Chat!Inbound : turn[m].at # "none"}

LEMMA SpokenSame ==
  ASSUME ChatTyped, NEW t \in Chat!Turns, NEW r, turn' = [turn EXCEPT ![t] = r],
         turn[t].at # "none" \/ t \notin Chat!Inbound
  PROVE  Spoken' \subseteq Spoken
  BY DEF Spoken, ChatTyped

KeptAs(ctx, S, T, M) ==
    /\ Silent(ctx)
    /\ \A m \in S : m \in Chat!Holds(ctx) \cup M
    /\ T # {} => EndsIn(ctx, M)

LEMMA KeptIs == Kept <=> KeptAs(context, Spoken, InTools, muffled)
  BY DEF Kept, KeptAs, Spoken

LEMMA KeptTurn ==
  ASSUME Chat!Parameters, ChatTyped, NEW t \in Chat!Turns, Chat!Step(t),
         KeptAs(context, Spoken, InTools, muffled)
  PROVE  /\ KeptAs(context', Spoken, InTools', muffled) /\ Spoken' \subseteq Spoken
         /\ muffled' = muffled
  <1>c. context \in Seq(Row) BY DEF ChatTyped
  <1>n. \A T : (T # {} => EndsIn(context, muffled)) =>
                  KeptAs(Chat!Merge(context, Chat!Notice), Spoken, T, muffled)
    BY <1>c, RowKept, TextRows, RowHolds DEF KeptAs
  <1>r. \A T : KeptAs(Chat!Merge(context, Chat!Reply), Spoken, T, muffled)
    BY <1>c, RowKept, TextRows, RowHolds DEF KeptAs
  <1>e. ASSUME NEW b, Chat!Ends(t, b), turn[t].at # "none"
        PROVE  InTools' \subseteq InTools /\ Spoken' \subseteq Spoken
    <2> DEFINE r == [Chat!NoTurn EXCEPT !.at = IF t \in Arcs THEN "done" ELSE "finish"]
    <2>1. turn' = [turn EXCEPT ![t] = r] BY <1>e DEF Chat!Ends
    <2>2. r.at # "tool" BY DEF Chat!NoTurn
    <2> HIDE DEF r
    <2> QED BY <1>e, <2>1, <2>2, InToolsMoves, SpokenSame
  <1>g. ASSUME NEW place, turn' = Chat!Goes(t, place), turn[t].at # "none"
        PROVE  Spoken' \subseteq Spoken /\ (place # "tool" => InTools' \subseteq InTools)
    <2> DEFINE r == [turn[t] EXCEPT !.at = place]
    <2>1. turn' = [turn EXCEPT ![t] = r] BY <1>g DEF Chat!Goes
    <2>2. r.at = place BY DEF ChatTyped, Proper, TurnRecord
    <2> HIDE DEF r
    <2> QED BY <1>g, <2>1, <2>2, InToolsMoves, SpokenSame
  <1>1. CASE Chat!Read(t)
    <2> DEFINE r == [turn[t] EXCEPT !.at = "calling", !.ctx = context,
                       !.clear = ~Chat!MidTool(t) /\ Chat!Last(context).role = "user"]
    <2>1. /\ turn' = [turn EXCEPT ![t] = r] /\ turn[t].at # "none"
          /\ context' = context /\ muffled' = muffled
      BY <1>1 DEF Chat!Read, Chat!At
    <2>2. r.at = "calling" BY DEF ChatTyped, Proper, TurnRecord
    <2> HIDE DEF r
    <2>3. InTools' \subseteq InTools /\ Spoken' \subseteq Spoken
      BY <2>1, <2>2, InToolsMoves, SpokenSame
    <2> QED BY <2>1, <2>3 DEF KeptAs
  <1>2. CASE Chat!Compact(t)
    <2> DEFINE r == [turn[t] EXCEPT !.ctx = Chat!Compacted(turn[t].ctx)]
    <2>1. /\ turn' = [turn EXCEPT ![t] = r] /\ turn[t].at = "calling"
          /\ context' = Chat!Merge(context, Chat!Notice) /\ muffled' = muffled
      BY <1>2 DEF Chat!Compact, Chat!At
    <2>2. r.at = turn[t].at BY DEF ChatTyped, Proper, TurnRecord
    <2> HIDE DEF r
    <2>3. InTools' \subseteq InTools /\ Spoken' \subseteq Spoken
      BY <2>1, <2>2, InToolsMoves, SpokenSame
    <2> QED BY <1>n, <2>1, <2>3 DEF KeptAs
  <1>3. CASE Chat!CallTools(t)
    <2>1. /\ context' = Chat!Merge(context, Chat!Use(t)) /\ turn' = Chat!Goes(t, "tool")
          /\ turn[t].at # "none" /\ muffled' = muffled
      BY <1>3 DEF Chat!CallTools, Chat!At
    <2>2. KeptAs(context', Spoken, InTools', muffled)
      BY <1>c, <2>1, RowKept, PairRows, RowHolds DEF KeptAs
    <2> QED BY <1>g, <2>1, <2>2
  <1>4. CASE Chat!ToolsReturn(t) \/ Chat!ToolsEnd(t)
    <2> DEFINE done == Chat!Merge(context, Chat!Result(t))
    <2>1. t \in InTools /\ turn[t].at # "none" /\ muffled' = muffled
      BY <1>4 DEF Chat!ToolsReturn, Chat!ToolsEnd, Chat!At, InTools
    <2>2. EndsIn(context, muffled) BY <2>1 DEF KeptAs
    <2>3. Silent(done) /\ (\A m \in Spoken : m \in Chat!Holds(done) \cup muffled)
          /\ EndsIn(done, muffled)
      BY <1>c, <2>2, RowKept, PairRows, RowHolds DEF KeptAs
    <2>4. done \in Seq(Row) BY <1>c, PairRows, MergeTyped
    <2>5. context' = done \/ context' = Chat!Merge(done, Chat!Reply)
      BY <1>4 DEF Chat!ToolsReturn, Chat!ToolsEnd
    <2> HIDE DEF done
    <2>6. KeptAs(Chat!Merge(done, Chat!Reply), Spoken, InTools', muffled)
      BY <2>3, <2>4, RowKept, TextRows, RowHolds DEF KeptAs
    <2>7. KeptAs(done, Spoken, InTools', muffled) BY <2>3 DEF KeptAs
    <2>8. Spoken' \subseteq Spoken
      <3>1. CASE Chat!ToolsReturn(t)
        <4> DEFINE c == turn[t].ctx \o <<Chat!Use(t), Chat!Result(t)>>
                   r == [turn[t] EXCEPT !.at = "calling", !.tools = turn[t].tools + 1, !.ctx = c]
        <4> HIDE DEF c
        <4>1. turn' = [turn EXCEPT ![t].at = "calling", ![t].tools = turn[t].tools + 1, ![t].ctx = c]
          BY <3>1 DEF Chat!ToolsReturn, c
        <4>2. turn' = [turn EXCEPT ![t] = r] BY <4>1
        <4> QED BY <2>1, <4>2, SpokenSame
      <3>2. CASE Chat!ToolsEnd(t) BY <1>e, <2>1, <3>2 DEF Chat!ToolsEnd
      <3> QED BY <1>4, <3>1, <3>2
    <2> QED BY <2>1, <2>5, <2>6, <2>7, <2>8
  <1>5. CASE Chat!CallReplies(t)
    <2>1. turn[t].at # "none" BY <1>5 DEF Chat!CallReplies, Chat!At
    <2> QED BY <1>5, <1>e, <1>r, <2>1 DEF Chat!CallReplies
  <1>6. CASE Chat!CallFails(t)
    <2>1. turn[t].at # "none" BY <1>6 DEF Chat!CallFails, Chat!At
    <2>2. InTools' \subseteq InTools /\ Spoken' \subseteq Spoken
      BY <1>6, <1>e, <2>1 DEF Chat!CallFails
    <2>3. context' = Chat!Merge(context, Chat!Notice) \/ context' = context
      BY <1>6 DEF Chat!CallFails
    <2>4. KeptAs(context, Spoken, InTools', muffled) BY <2>2 DEF KeptAs
    <2>5. muffled' = muffled BY <1>6 DEF Chat!CallFails
    <2> QED BY <1>n, <2>2, <2>3, <2>4, <2>5 DEF KeptAs
  <1>7. CASE Chat!TaskDone(t)
    <2>1. turn[t].at # "none" /\ turn' = Chat!Goes(t, "done") /\ context' = context
          /\ muffled' = muffled
      BY <1>7 DEF Chat!TaskDone, Chat!At
    <2>2. InTools' \subseteq InTools /\ Spoken' \subseteq Spoken BY <1>g, <2>1
    <2> QED BY <2>1, <2>2 DEF KeptAs
  <1> QED BY <1>1, <1>2, <1>3, <1>4, <1>5, <1>6, <1>7 DEF Chat!Step

LEMMA KeptFewer ==
  ASSUME NEW ctx, NEW S, NEW T, NEW M, KeptAs(ctx, S, T, M),
         NEW S2, S2 \subseteq S, NEW T2, T2 \subseteq T
  PROVE  KeptAs(ctx, S2, T2, M)
  BY DEF KeptAs

LEMMA KeptStep == ASSUME Chat!Parameters, ChatTyped, Kept, [Chat!Next]_chat PROVE Kept'
  <1>k. KeptAs(context, Spoken, InTools, muffled) BY KeptIs
  <1> SUFFICES KeptAs(context', Spoken', InTools', muffled')
    BY DEF Kept, KeptAs, Spoken
  <1>c. context \in Seq(Row) BY DEF ChatTyped
  <1>n. \A T : (T # {} => EndsIn(context, muffled)) =>
                  KeptAs(Chat!Merge(context, Chat!Notice), Spoken, T, muffled)
    BY <1>c, <1>k, RowKept, TextRows, RowHolds DEF KeptAs
  <1>g. ASSUME NEW t \in Chat!Turns, NEW place, turn' = Chat!Goes(t, place), place # "tool"
        PROVE  InTools' \subseteq InTools /\ Spoken' \subseteq Spoken \cup {t}
               /\ (turn[t].at # "none" \/ t \notin Chat!Inbound => Spoken' \subseteq Spoken)
    <2> DEFINE r == [turn[t] EXCEPT !.at = place]
    <2>1. turn' = [turn EXCEPT ![t] = r] BY <1>g DEF Chat!Goes
    <2>2. r.at = place BY DEF ChatTyped, Proper, TurnRecord
    <2> HIDE DEF r
    <2>3. InTools' \subseteq InTools BY <1>g, <2>1, <2>2, InToolsMoves
    <2>4. Spoken' \subseteq Spoken \cup {t} BY <2>1 DEF Spoken, ChatTyped
    <2>5. turn[t].at # "none" \/ t \notin Chat!Inbound => Spoken' \subseteq Spoken
      BY <2>1, SpokenSame
    <2> QED BY <2>3, <2>4, <2>5
  <1>1. ASSUME NEW m \in Chat!Inbound, Chat!Deliver(m)
        PROVE  KeptAs(context', Spoken', InTools', muffled')
    <2> DEFINE new == Chat!Merge(context, Chat!Said(m))
    <2>1. PICK place : turn' = Chat!Goes(m, place) /\ place \in {"start", "waiting"}
      BY <1>1 DEF Chat!Deliver
    <2>2. m \in Chat!Turns BY DEF Chat!Turns
    <2>3. InTools' \subseteq InTools /\ Spoken' \subseteq Spoken \cup {m} BY <1>g, <2>1, <2>2
    <2>4. Chat!Said(m) \in Row /\ Chat!Said(m).role = "user" /\ ~Chat!Said(m).list
          /\ Chat!Said(m).holds = {m}
      BY TextRows, RowHolds
    <2>5. Silent(context) BY <1>k DEF KeptAs
    <2>6. /\ Silent(new) /\ {m} \subseteq Chat!Holds(new)
          /\ \A x \in Chat!Holds(context) : x \in Chat!Holds(new)
          /\ \A M : EndsIn(context, M) /\ {m} \subseteq M => EndsIn(new, M)
      BY <1>c, <2>4, <2>5, MergeKeeps
    <2>7. context' = new BY <1>1 DEF Chat!Deliver
    <2> HIDE DEF new
    <2>8. muffled \subseteq muffled' /\ (InTools # {} => m \in muffled')
      BY <1>1 DEF Chat!Deliver, InTools, Chat!At
    <2>9. \A x \in Spoken \cup {m} : x \in Chat!Holds(new) \cup muffled'
      BY <1>k, <2>6, <2>8 DEF KeptAs
    <2>10. ASSUME InTools' # {} PROVE EndsIn(new, muffled')
      <3>1. InTools # {} BY <2>3, <2>10
      <3>2. EndsIn(context, muffled) BY <1>k, <3>1 DEF KeptAs
      <3>3. EndsIn(context, muffled') BY <2>8, <3>2 DEF EndsIn
      <3> QED BY <2>6, <2>8, <3>1, <3>3
    <2> QED BY <2>3, <2>6, <2>7, <2>9, <2>10 DEF KeptAs
  <1>2. ASSUME NEW a \in Arcs, Chat!ArcEnds(a) \/ Chat!Notify(a)
        PROVE  KeptAs(context', Spoken', InTools', muffled')
    <2>1. a \in Chat!Turns /\ a \notin Chat!Inbound
      BY DEF Chat!Turns, Chat!Parameters, Chat!Inbound
    <2>2. PICK place : turn' = Chat!Goes(a, place) /\ place # "tool"
      BY <1>2 DEF Chat!ArcEnds, Chat!Notify
    <2>3. InTools' \subseteq InTools /\ Spoken' \subseteq Spoken BY <1>g, <2>1, <2>2
    <2>4. /\ context' = context \/ context' = Chat!Merge(context, Chat!Notice)
          /\ muffled' = muffled
      BY <1>2 DEF Chat!ArcEnds, Chat!Notify
    <2>5. KeptAs(Chat!Merge(context, Chat!Notice), Spoken, InTools, muffled)
      BY <1>k, <1>n DEF KeptAs
    <2> QED BY <1>k, <2>3, <2>4, <2>5, KeptFewer
  <1>3. ASSUME NEW t \in Chat!Turns, Chat!Step(t)
        PROVE  KeptAs(context', Spoken', InTools', muffled')
    BY <1>k, <1>3, KeptTurn, KeptFewer
  <1>4. ASSUME NEW t \in Chat!Turns, Chat!Raises(t)
        PROVE  KeptAs(context', Spoken', InTools', muffled')
    <2>1. PICK place : turn' = [turn EXCEPT ![t] = [Chat!NoTurn EXCEPT !.at = place]]
                       /\ place # "tool"
      BY <1>4 DEF Chat!Raises, Chat!Ends
    <2> DEFINE r == [Chat!NoTurn EXCEPT !.at = place]
    <2>2. r.at # "tool" BY <2>1 DEF Chat!NoTurn
    <2>3. turn' = [turn EXCEPT ![t] = r] /\ turn[t].at # "none" BY <1>4, <2>1 DEF Chat!Raises
    <2> HIDE DEF r
    <2>4. InTools' \subseteq InTools /\ Spoken' \subseteq Spoken
      BY <2>2, <2>3, InToolsMoves, SpokenSame
    <2>5. /\ context' = context \/ context' = Chat!Merge(context, Chat!Reply)
          /\ muffled' = muffled
      BY <1>4 DEF Chat!Raises
    <2>6. KeptAs(Chat!Merge(context, Chat!Reply), Spoken, InTools, muffled)
      BY <1>c, <1>k, RowKept, TextRows, RowHolds DEF KeptAs
    <2> QED BY <1>k, <2>4, <2>5, <2>6, KeptFewer
  <1>5. ASSUME Chat!Crash PROVE KeptAs(context', Spoken', InTools', muffled')
    <2>1. context' = context /\ muffled' = muffled BY <1>5 DEF Chat!Crash
    <2>2. ASSUME NEW t \in Chat!Turns
          PROVE  (turn[t].at = "none" => turn'[t].at = "none")
                 /\ (turn'[t].at = "tool" => turn[t].at = "tool")
      <3>1. CASE ~Chat!InFlight(t) BY <1>5, <3>1 DEF Chat!Crash
      <3>2. CASE Chat!InFlight(t)
        <4> DEFINE place == IF t \in Arcs THEN "queued" ELSE "lost"
        <4>1. turn'[t] = [Chat!NoTurn EXCEPT !.at = place] BY <1>5, <3>2 DEF Chat!Crash
        <4>2. [Chat!NoTurn EXCEPT !.at = place].at = place BY DEF Chat!NoTurn
        <4> QED BY <3>2, <4>1, <4>2 DEF Chat!InFlight
      <3> QED BY <3>1, <3>2
    <2>3. InTools' \subseteq InTools BY <2>2 DEF InTools
    <2>4. Spoken' \subseteq Spoken BY <2>2 DEF Spoken, Chat!Turns
    <2> QED BY <1>k, <2>1, <2>3, <2>4, KeptFewer
  <1>6. ASSUME Chat!Start \/ UNCHANGED chat PROVE KeptAs(context', Spoken', InTools', muffled')
    <2>1. /\ context' = context /\ muffled' = muffled /\ turn' = turn
      BY <1>6 DEF Chat!Start, chat
    <2>2. Spoken' = Spoken /\ InTools' = InTools BY <2>1 DEF Spoken, InTools
    <2> QED BY <1>k, <2>1, <2>2
  <1> QED BY <1>1, <1>2, <1>3, <1>4, <1>5, <1>6 DEF Chat!Next

(* A turn starts with every message the user sent before it, but for those *)
(* saved while tools ran.                                                  *)
THEOREM ChatRemembered == Spec => Remembered
  <1>1. Init => Kept
    BY DEF Init, Chat!Init, Kept, Silent, InTools, Chat!NoTurn, Chat!Turns
  <1>2. ChatTyped /\ Kept /\ [Next]_vars => Kept' BY ChatParameters, KeptStep, ChatStepOnly
  <1>3. ChatTyped /\ Kept =>
          [\A t \in Chat!Turns : Chat!Read(t) =>
              {m \in Chat!Inbound : ~Chat!At(m, "none")} \subseteq
                 Chat!Holds(turn'[t].ctx) \cup muffled]_(Chat!vars)
    <2> SUFFICES ASSUME ChatTyped, Kept, NEW t \in Chat!Turns, Chat!Read(t)
                 PROVE  {m \in Chat!Inbound : ~Chat!At(m, "none")} \subseteq
                           Chat!Holds(turn'[t].ctx) \cup muffled
      OBVIOUS
    <2> DEFINE r == [turn[t] EXCEPT !.at = "calling", !.ctx = context,
                       !.clear = ~Chat!MidTool(t) /\ Chat!Last(context).role = "user"]
    <2>1. turn' = [turn EXCEPT ![t] = r] BY DEF Chat!Read
    <2>2. r.ctx = context BY DEF ChatTyped, Proper, TurnRecord
    <2> HIDE DEF r
    <2>3. turn'[t].ctx = context BY <2>1, <2>2 DEF ChatTyped
    <2> QED BY <2>3 DEF Kept, Chat!At
  <1> QED BY <1>1, <1>2, <1>3, ChatAlwaysTyped, PTL DEF Spec, Remembered, Chat!Remembered

-----------------------------------------------------------------------------
(* Chat turns: no message of the user is left without a turn.              *)
Flight == {"start", "calling", "tool", "finish"}
Dealt  == answered \cup passed \cup muffled

(* A turn that calls the model has its own message before it, and one that *)
(* is about to end has dealt with it.                                      *)
Tended ==
    /\ Chat!Attended
    /\ \A m \in Chat!Inbound :
          /\ turn[m].at \in {"calling", "tool"} => m \in Chat!Holds(turn[m].ctx) \cup muffled
          /\ turn[m].at = "finish" => m \in Dealt

LEMMA AttendedIs ==
  Chat!Attended <=>
    /\ tracked # Nobody => turn[tracked].at \in Flight
    /\ \A m \in Chat!Inbound :
          /\ turn[m].at \in Flight => tracked = m
          /\ turn[m].at \notin Flight \cup {"none"} => m \in Dealt
  BY DEF Chat!Attended, Chat!InFlight, Chat!At, Flight, Dealt

LEMMA CompactedHolds ==
  ASSUME Chat!Parameters, NEW ctx \in Seq(Row), Len(ctx) > Preserve
  PROVE  Chat!Holds(ctx) \subseteq Chat!Holds(Chat!Compacted(ctx))
  <1> DEFINE new == Chat!Compacted(ctx)
             cut == Len(ctx) - Preserve
  <1>1. Len(ctx) \in Nat /\ Preserve \in Nat /\ cut \in Nat BY LenProperties DEF Chat!Parameters
  <1>2. /\ Len(new) = Preserve + 1 /\ \A i \in 1 .. cut : ctx[i].holds \subseteq new[1].holds
        /\ \A i \in 2 .. Preserve + 1 : new[i] = ctx[cut + i - 1]
    BY CompactedShape
  <1> HIDE DEF new
  <1> SUFFICES ASSUME NEW x \in Chat!Holds(ctx) PROVE x \in Chat!Holds(new) BY DEF new
  <1>3. PICK i \in 1 .. Len(ctx) : x \in ctx[i].holds BY HoldsHas
  <1>4. CASE i <= cut
    <2>1. i \in 1 .. cut /\ 1 \in 1 .. Preserve + 1 BY <1>1, <1>4
    <2> QED BY <1>2, <1>3, <2>1, HoldsHas
  <1>5. CASE i > cut
    <2> DEFINE j == i - cut + 1
    <2>1. j \in 2 .. Preserve + 1 /\ j \in 1 .. Preserve + 1 /\ cut + j - 1 = i BY <1>1, <1>5
    <2>2. new[j] = ctx[i] BY <1>2, <2>1
    <2> HIDE DEF j
    <2> QED BY <1>2, <1>3, <2>1, <2>2, HoldsHas
  <1> QED BY <1>1, <1>4, <1>5

LEMMA RoundHolds ==
  ASSUME NEW ctx \in Seq(Row), NEW a \in Row, NEW b \in Row
  PROVE  Chat!Holds(ctx) \subseteq Chat!Holds(ctx \o <<a, b>>)
  <1>1. <<a, b>> \in Seq(Row) /\ Len(<<a, b>>) = 2 OBVIOUS
  <1>2. Len(ctx) \in Nat BY LenProperties
  <1> DEFINE new == ctx \o <<a, b>>
  <1>3. /\ Len(new) = Len(ctx) + 2
        /\ \A i \in 1 .. Len(ctx) + 2 :
              new[i] = IF i <= Len(ctx) THEN ctx[i] ELSE <<a, b>>[i - Len(ctx)]
    BY <1>1, ConcatProperties
  <1> HIDE DEF new
  <1> SUFFICES ASSUME NEW x \in Chat!Holds(ctx) PROVE x \in Chat!Holds(new) BY DEF new
  <1>4. PICK i \in 1 .. Len(ctx) : x \in ctx[i].holds BY HoldsHas
  <1>5. i \in 1 .. Len(ctx) + 2 /\ i <= Len(ctx) BY <1>2
  <1> QED BY <1>3, <1>4, <1>5, HoldsHas

(* A turn moves within its flight, or it is nobody's the user waits for.   *)
LEMMA TendedTurn ==
  ASSUME ChatTyped, Tended, Chat!Parameters, NEW t \in Chat!Turns, NEW r,
         turn' = [turn EXCEPT ![t] = r], tracked' = tracked,
         muffled' = muffled, answered \subseteq answered', passed \subseteq passed',
         t \in Chat!Inbound =>
            /\ turn[t].at \in Flight /\ r.at \in Flight
            /\ r.at \in {"calling", "tool"} => t \in Chat!Holds(r.ctx) \cup muffled
            /\ r.at = "finish" => t \in Dealt'
  PROVE  Tended'
  <1>1. Dealt \subseteq Dealt' BY DEF Dealt
  <1>2. \A m \in Chat!Inbound : m \in Chat!Turns /\ turn'[m] = IF m = t THEN r ELSE turn[m]
    BY DEF ChatTyped, Chat!Turns
  <1>3. tracked # Nobody => tracked \in Chat!Inbound BY DEF ChatTyped
  <1>4. Chat!Attended BY DEF Tended
  <1>5. tracked' # Nobody => turn'[tracked'].at \in Flight BY <1>2, <1>3, <1>4, AttendedIs
  <1>6. ASSUME NEW m \in Chat!Inbound
        PROVE  /\ turn'[m].at \in Flight => tracked' = m
               /\ turn'[m].at \notin Flight \cup {"none"} => m \in Dealt'
               /\ turn'[m].at \in {"calling", "tool"} => m \in Chat!Holds(turn'[m].ctx) \cup muffled'
               /\ turn'[m].at = "finish" => m \in Dealt'
    <2>1. CASE m # t BY <1>1, <1>2, <1>4, <2>1, AttendedIs DEF Tended
    <2>2. CASE m = t BY <1>2, <1>4, <2>2, AttendedIs
    <2> QED BY <2>1, <2>2
  <1>7. Chat!Attended' BY <1>5, <1>6 DEF Chat!Attended, Chat!InFlight, Chat!At, Flight, Dealt
  <1>8. \A m \in Chat!Inbound :
           turn'[m].at \in {"calling", "tool"} => m \in Chat!Holds(turn[m].ctx)' \cup muffled'
    BY <1>6 DEF Chat!Holds
  <1> QED BY <1>6, <1>7, <1>8 DEF Tended

LEMMA TendedEnds ==
  ASSUME ChatTyped, Tended, Chat!Parameters, NEW t \in Chat!Turns, NEW b \in BOOLEAN,
         Chat!Ends(t, b), turn[t].at \in {"start", "calling", "tool"},
         b => turn[t].at \in {"calling", "tool"},
         UNCHANGED <<tracked, muffled>>
  PROVE  Tended'
  <1> DEFINE r == [Chat!NoTurn EXCEPT !.at = IF t \in Arcs THEN "done" ELSE "finish"]
  <1>1. /\ turn' = [turn EXCEPT ![t] = r]
        /\ answered' = IF b THEN answered \cup Chat!Holds(turn[t].ctx) ELSE answered
        /\ passed' = IF b THEN passed ELSE passed \cup ({t} \cap Chat!Inbound)
    BY DEF Chat!Ends
  <1>2. t \in Chat!Inbound => r.at = "finish"
    BY DEF Chat!NoTurn, Chat!Parameters, Chat!Inbound
  <1>3. t \in Chat!Inbound => t \in Dealt' BY <1>1 DEF Tended, Dealt
  <1> HIDE DEF r
  <1> QED BY <1>1, <1>2, <1>3, TendedTurn DEF Flight

LEMMA TendedStep1 ==
  ASSUME Chat!Parameters, ChatTyped, Kept, Tended, NEW t \in Chat!Turns, Chat!Step(t)
  PROVE  Tended'
  <1>0. turn[t].ctx \in Seq(Row) /\ turn[t] \in TurnRecord BY DEF ChatTyped, Proper, TurnRecord
  <1>1. CASE Chat!Read(t)
    <2> DEFINE r == [turn[t] EXCEPT !.at = "calling", !.ctx = context,
                       !.clear = ~Chat!MidTool(t) /\ Chat!Last(context).role = "user"]
    <2>1. /\ turn' = [turn EXCEPT ![t] = r] /\ turn[t].at = "start"
          /\ UNCHANGED <<tracked, answered, passed, muffled>>
      BY <1>1 DEF Chat!Read, Chat!At
    <2>2. r.at = "calling" /\ r.ctx = context BY <1>0 DEF TurnRecord
    <2> HIDE DEF r
    <2>3. t \in Chat!Inbound => t \in Chat!Holds(r.ctx) \cup muffled BY <2>1, <2>2 DEF Kept
    <2> QED BY <2>1, <2>2, <2>3, TendedTurn DEF Flight
  <1>2. CASE Chat!Compact(t)
    <2> DEFINE r == [turn[t] EXCEPT !.ctx = Chat!Compacted(turn[t].ctx)]
    <2>1. /\ turn' = [turn EXCEPT ![t] = r] /\ turn[t].at = "calling"
          /\ Len(turn[t].ctx) > Preserve /\ UNCHANGED <<tracked, answered, passed, muffled>>
      BY <1>2 DEF Chat!Compact, Chat!At
    <2>2. r.at = turn[t].at /\ r.ctx = Chat!Compacted(turn[t].ctx) BY <1>0 DEF TurnRecord
    <2> HIDE DEF r
    <2>3. Chat!Holds(turn[t].ctx) \subseteq Chat!Holds(r.ctx) BY <1>0, <2>1, <2>2, CompactedHolds
    <2>4. t \in Chat!Inbound => t \in Chat!Holds(r.ctx) \cup muffled BY <2>1, <2>3 DEF Tended
    <2> QED BY <2>1, <2>2, <2>4, TendedTurn DEF Flight
  <1>3. CASE Chat!CallTools(t)
    <2> DEFINE r == [turn[t] EXCEPT !.at = "tool"]
    <2>1. /\ turn' = [turn EXCEPT ![t] = r] /\ turn[t].at = "calling"
          /\ UNCHANGED <<tracked, answered, passed, muffled>>
      BY <1>3 DEF Chat!CallTools, Chat!At, Chat!Goes
    <2>2. r.at = "tool" /\ r.ctx = turn[t].ctx BY <1>0 DEF TurnRecord
    <2> HIDE DEF r
    <2>3. t \in Chat!Inbound => t \in Chat!Holds(r.ctx) \cup muffled BY <2>1, <2>2 DEF Tended
    <2> QED BY <2>1, <2>2, <2>3, TendedTurn DEF Flight
  <1>4. CASE Chat!ToolsReturn(t)
    <2> DEFINE c == turn[t].ctx \o <<Chat!Use(t), Chat!Result(t)>>
               r == [turn[t] EXCEPT !.at = "calling", !.tools = turn[t].tools + 1, !.ctx = c]
    <2>1. Chat!Holds(turn[t].ctx) \subseteq Chat!Holds(c) BY <1>0, RowsTyped, RoundHolds
    <2>2. turn[t].at = "tool" /\ UNCHANGED <<tracked, answered, passed, muffled>>
      BY <1>4 DEF Chat!ToolsReturn, Chat!At
    <2>3. turn' = [turn EXCEPT ![t].at = "calling", ![t].tools = turn[t].tools + 1, ![t].ctx = c]
      BY <1>4 DEF Chat!ToolsReturn
    <2> HIDE DEF c
    <2>4. turn' = [turn EXCEPT ![t] = r] BY <2>3
    <2>5. r.at = "calling" /\ r.ctx = c BY <1>0 DEF TurnRecord
    <2> HIDE DEF r
    <2>6. t \in Chat!Inbound => t \in Chat!Holds(r.ctx) \cup muffled
      BY <2>1, <2>2, <2>5 DEF Tended
    <2> QED BY <2>2, <2>4, <2>5, <2>6, TendedTurn DEF Flight
  <1>5. CASE Chat!ToolsEnd(t) \/ Chat!CallReplies(t)
    <2>1. /\ turn[t].at \in {"calling", "tool"} /\ Chat!Ends(t, TRUE)
          /\ UNCHANGED <<tracked, muffled>>
      BY <1>5 DEF Chat!ToolsEnd, Chat!CallReplies, Chat!At
    <2> QED BY <2>1, TendedEnds
  <1>6. CASE Chat!CallFails(t)
    <2>1. turn[t].at = "calling" /\ Chat!Ends(t, FALSE) /\ UNCHANGED <<tracked, muffled>>
      BY <1>6 DEF Chat!CallFails, Chat!At
    <2> QED BY <2>1, TendedEnds
  <1>7. CASE Chat!TaskDone(t)
    <2> DEFINE r == [turn[t] EXCEPT !.at = "done"]
    <2>1. /\ turn' = [turn EXCEPT ![t] = r] /\ turn[t].at = "finish" /\ t \in Chat!Inbound
          /\ tracked' = Nobody /\ UNCHANGED <<answered, passed, muffled>>
      BY <1>7 DEF Chat!TaskDone, Chat!At, Chat!Goes, Chat!Freed
    <2>2. r.at = "done" BY <1>0 DEF TurnRecord
    <2> HIDE DEF r
    <2>3. \A m \in Chat!Inbound : turn'[m] = IF m = t THEN r ELSE turn[m]
      BY <2>1 DEF ChatTyped, Chat!Turns
    <2>4. Dealt' = Dealt /\ t \in Dealt BY <2>1 DEF Dealt, Tended
    <2>5. tracked = t /\ \A m \in Chat!Inbound : m # t => turn[m].at \notin Flight
      BY <2>1, AttendedIs DEF Tended, Flight
    <2>6. \A m \in Chat!Inbound :
             turn'[m].at \notin Flight /\ (turn'[m].at # "none" => m \in Dealt')
      BY <2>2, <2>3, <2>4, <2>5, AttendedIs DEF Tended, Flight
    <2>7. Chat!Attended'
      BY <2>1, <2>6 DEF Chat!Attended, Chat!InFlight, Chat!At, Flight, Dealt
    <2> QED BY <2>6, <2>7 DEF Tended, Flight
  <1> QED BY <1>1, <1>2, <1>3, <1>4, <1>5, <1>6, <1>7 DEF Chat!Step

LEMMA TendedStep ==
  ASSUME Chat!Parameters, ChatTyped, Kept, Tended, [Chat!Next]_chat PROVE Tended'
  <1>0. /\ Chat!Attended /\ Chat!Inbound \subseteq Chat!Turns /\ Arcs \subseteq Chat!Turns
        /\ Arcs \cap Chat!Inbound = {} /\ Nobody \notin Chat!Inbound
    BY DEF Tended, Chat!Turns, Chat!Parameters, Chat!Inbound
  <1>r. \A t \in Chat!Turns : turn[t] \in TurnRecord BY DEF ChatTyped, Proper
  <1>1. ASSUME NEW m \in Chat!Inbound, Chat!Deliver(m) PROVE Tended'
    <2>1. PICK place \in {"start", "waiting"} :
            /\ turn' = [turn EXCEPT ![m] = [turn[m] EXCEPT !.at = place]] /\ turn[m].at = "none"
            /\ \/ tracked = Nobody /\ place = "start" /\ tracked' = m
               \/ tracked # Nobody /\ place = "waiting" /\ tracked' = tracked
            /\ muffled \subseteq muffled' /\ answered' = answered
            /\ passed' = IF \E t \in Chat!Inbound : turn[t].at \in Flight
                         THEN passed \cup {m} ELSE passed
      BY <1>1 DEF Chat!Deliver, Chat!At, Chat!Goes, Chat!InFlight, Flight
    <2> DEFINE r == [turn[m] EXCEPT !.at = place]
    <2>2. r.at = place BY <1>0, <1>r DEF TurnRecord
    <2>3. \A k \in Chat!Inbound : turn'[k] = IF k = m THEN r ELSE turn[k]
      BY <1>0, <2>1 DEF ChatTyped
    <2> HIDE DEF r
    <2>4. Dealt \subseteq Dealt' BY <2>1 DEF Dealt
    <2>5. \A k \in Chat!Inbound : k # m =>
             /\ turn'[k].at \in {"calling", "tool"} => k \in Chat!Holds(turn'[k].ctx) \cup muffled'
             /\ turn'[k].at = "finish" => k \in Dealt'
             /\ turn'[k].at \notin Flight \cup {"none"} => k \in Dealt'
      BY <1>0, <2>1, <2>3, <2>4, AttendedIs DEF Tended
    <2>6. CASE tracked = Nobody
      <3>1. place = "start" /\ tracked' = m BY <2>1, <2>6
      <3>2. \A k \in Chat!Inbound : k # m => turn'[k].at \notin Flight
        BY <1>0, <2>3, <2>6, AttendedIs
      <3>3. turn'[m].at = "start" BY <2>2, <2>3, <3>1
      <3> QED BY <2>5, <3>1, <3>2, <3>3
           DEF Tended, Chat!Attended, Chat!InFlight, Chat!At, Flight, Dealt, Chat!Holds
    <2>7. CASE tracked # Nobody
      <3>1. place = "waiting" /\ tracked' = tracked /\ tracked \in Chat!Inbound
        BY <2>1, <2>7 DEF ChatTyped
      <3>2. turn[tracked].at \in Flight BY <1>0, <2>7, AttendedIs
      <3>3. m \in Dealt' BY <2>1, <3>1, <3>2 DEF Dealt
      <3>4. tracked # m BY <2>1, <3>2 DEF Flight
      <3>5. turn'[m].at = "waiting" BY <2>2, <2>3, <3>1
      <3>6. turn'[tracked].at \in Flight /\
            \A k \in Chat!Inbound : k # m /\ turn'[k].at \in Flight => tracked = k
        BY <1>0, <2>3, <3>1, <3>2, <3>4, AttendedIs
      <3> QED BY <2>5, <3>1, <3>3, <3>5, <3>6
           DEF Tended, Chat!Attended, Chat!InFlight, Chat!At, Flight, Dealt, Chat!Holds
    <2> QED BY <2>6, <2>7
  <1>2. ASSUME NEW a \in Arcs, Chat!ArcEnds(a) \/ Chat!Notify(a) PROVE Tended'
    <2>1. PICK r : turn' = [turn EXCEPT ![a] = r]
      BY <1>2 DEF Chat!ArcEnds, Chat!Notify, Chat!Goes
    <2>2. UNCHANGED <<tracked, answered, passed, muffled>> BY <1>2 DEF Chat!ArcEnds, Chat!Notify
    <2> QED BY <1>0, <2>1, <2>2, TendedTurn
  <1>3. ASSUME NEW t \in Chat!Turns, Chat!Step(t) PROVE Tended' BY <1>3, TendedStep1
  <1>4. ASSUME NEW t \in Chat!Turns, Chat!Raises(t) PROVE Tended'
    <2>1. turn[t].at \in {"start", "calling", "tool"} /\ UNCHANGED <<tracked, muffled>>
      BY <1>4 DEF Chat!Raises
    <2>2. CASE Chat!Ends(t, FALSE) BY <2>1, <2>2, TendedEnds
    <2>3. CASE t \in Arcs /\ turn' = [turn EXCEPT ![t] = [Chat!NoTurn EXCEPT !.at = "queued"]]
               /\ UNCHANGED <<answered, passed>>
      BY <1>0, <2>1, <2>3, TendedTurn
    <2> QED BY <1>4, <2>2, <2>3 DEF Chat!Raises
  <1>5. ASSUME Chat!Crash PROVE Tended'
    <2>1. /\ tracked' = Nobody /\ answered' = answered /\ muffled' = muffled
          /\ passed' = passed \cup {m \in Chat!Inbound : turn[m].at \in Flight}
      BY <1>5 DEF Chat!Crash, Chat!InFlight, Flight
    <2>2. ASSUME NEW m \in Chat!Inbound
          PROVE  turn'[m].at \notin Flight /\ (turn'[m].at # "none" => m \in Dealt')
      <3>1. CASE turn[m].at \notin Flight
        <4>1. turn'[m] = turn[m] BY <1>0, <1>5, <3>1 DEF Chat!Crash, Chat!InFlight, Flight
        <4>2. turn[m].at # "none" => m \in Dealt BY <1>0, <3>1, AttendedIs
        <4> QED BY <2>1, <3>1, <4>1, <4>2 DEF Dealt
      <3>2. CASE turn[m].at \in Flight
        <4>1. m \notin Arcs BY <1>0
        <4>2. turn'[m] = [Chat!NoTurn EXCEPT !.at = "lost"]
          BY <1>0, <1>5, <3>2, <4>1 DEF Chat!Crash, Chat!InFlight, Flight
        <4>3. turn'[m].at = "lost" BY <4>2 DEF Chat!NoTurn
        <4> QED BY <2>1, <3>2, <4>3 DEF Dealt, Flight
      <3> QED BY <3>1, <3>2
    <2> QED BY <2>1, <2>2
         DEF Tended, Chat!Attended, Chat!InFlight, Chat!At, Flight, Dealt
  <1>6. ASSUME Chat!Start \/ UNCHANGED chat PROVE Tended'
    <2>1. UNCHANGED <<turn, tracked, answered, passed, muffled>> BY <1>6 DEF Chat!Start, chat
    <2> QED BY <2>1 DEF Tended, Chat!Attended, Chat!InFlight, Chat!At, Dealt, Chat!Holds
  <1> QED BY <1>1, <1>2, <1>3, <1>4, <1>5, <1>6 DEF Chat!Next

(* Whoever holds the conversation works, and no message of the user is     *)
(* without a turn unless it was in the context of a reply or a window that *)
(* is named took it: however deliveries, notifications, tools, compactions,*)
(* exceptions and restarts interleave.                                     *)
THEOREM ChatAttended == Spec => []Attended
  <1>1. Init => Kept
    BY DEF Init, Chat!Init, Kept, Silent, InTools, Chat!NoTurn, Chat!Turns
  <1>2. Init => Tended
    BY DEF Init, Chat!Init, Tended, Chat!Attended, Chat!InFlight, Chat!At, Chat!NoTurn,
      Chat!Turns
  <1>3. ChatTyped /\ Kept /\ [Next]_vars => Kept' BY ChatParameters, KeptStep, ChatStepOnly
  <1>4. ChatTyped /\ Kept /\ Tended /\ [Next]_vars => Tended'
    BY ChatParameters, TendedStep, ChatStepOnly
  <1>5. Tended => Attended BY DEF Tended, Attended
  <1> QED BY <1>1, <1>2, <1>3, <1>4, <1>5, ChatAlwaysTyped, PTL DEF Spec
=============================================================================
