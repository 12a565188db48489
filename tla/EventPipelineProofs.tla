------------------------- MODULE EventPipelineProofs -------------------------
(***************************************************************************)
(* For any number of events, subscriptions and registrations: an event is  *)
(* missed by a subscription only if it came between the two SELECTs, and   *)
(* every registration fires at most once.                                  *)
(***************************************************************************)
EXTENDS EventPipeline, FiniteSetTheorems, WellFoundedInduction, TLAPS

(* Every subscription the event is due to has its item or raised.          *)
Routed(e)  == \A s \in Subs : Due(s, e) => ItemFor(s, e) \/ <<s, e>> \in broken
Covered(e) == Routed(e) \/ e \in late

(* What the subscriptions' pass has done for the events it read, stage by  *)
(* stage.                                                                  *)
PassesAgree ==
    /\ \A e \in Recorded : events[e].processed => Covered(e)
    /\ pc = "actions" => \A e \in Unprocessed : e \in batch \/ e \in late
    /\ pc = "matchers" => \A e \in Unprocessed : Covered(e)
    /\ pc \in {"match", "write"} => \A e \in batch : Covered(e)
    /\ pc \in {"actions", "match", "write"} => batch \subseteq Unprocessed

(* Matchers and armed registrations correspond one to one, and an item of  *)
(* a matcher is of an event that was processed with it.                    *)
MatchersAgree ==
    /\ \A w \in Waits : wait[w] = "armed" <=> \E m \in MatcherIds : matchers[m] = w
    /\ \A m, n \in MatcherIds : matchers[m] # "none" /\ matchers[m] = matchers[n] => m = n
    /\ \A k \in items \cap MatcherKeys : k[3] \in Recorded \ Unprocessed

FiredRegs == {w \in Waits : wait[w] = "fired"}

FiredOnce ==
    /\ IsFiniteSet(items \cap MatcherKeys)
    /\ Cardinality(FiredRegs) = Cardinality(items \cap MatcherKeys)

IInv == TypeOK /\ PassesAgree /\ MatchersAgree /\ FiredOnce

(* The assumption, as a fact for the steps below.                          *)
Registrations == IsFiniteSet(Waits) /\ "none" \notin Waits /\ "none" \notin Types

LEMMA RegistrationsHold == Registrations
  BY RegistrationsAssumption DEF Registrations

-----------------------------------------------------------------------------
LEMMA KeysApart == SubKeys \cap MatcherKeys = {}
  BY DEF SubKeys, MatcherKeys

LEMMA InitIInv == ASSUME Registrations PROVE Init => IInv
  <1> SUFFICES ASSUME Init PROVE IInv OBVIOUS
  <1>1. TypeOK BY DEF Init, TypeOK
  <1>2. Recorded = {} BY DEF Init, Recorded
  <1>3. PassesAgree BY <1>2 DEF Init, PassesAgree, Unprocessed
  <1>4. MatchersAgree BY DEF Init, MatchersAgree, Registrations
  <1>5. FiredOnce
    <2>1. FiredRegs = {} /\ items \cap MatcherKeys = {} BY DEF Init, FiredRegs
    <2> QED BY <2>1, FS_EmptySet DEF FiredOnce
  <1> QED BY <1>1, <1>3, <1>4, <1>5 DEF IInv

(* A new event changes nothing for the ones that are there.                *)
LEMMA AppendEvent ==
  ASSUME IInv, Registrations, NEW e \in EventIds, NEW t \in Types, NextEvent(e), Append(e, t)
  PROVE  /\ events' \in [EventIds -> [type : Types \cup {"none"}, processed : BOOLEAN]]
         /\ Recorded' = Recorded \cup {e} /\ e \notin Recorded
         /\ Unprocessed' = Unprocessed \cup {e}
         /\ ~events'[e].processed
         /\ \A f \in EventIds \ {e} : events'[f] = events[f]
  <1>1. e \notin Recorded BY DEF NextEvent
  <1>2. events' = [events EXCEPT ![e] = [type |-> t, processed |-> FALSE]] BY DEF Append
  <1>3. events \in [EventIds -> [type : Types \cup {"none"}, processed : BOOLEAN]]
    BY DEF IInv, TypeOK
  <1>4. /\ events' \in [EventIds -> [type : Types \cup {"none"}, processed : BOOLEAN]]
        /\ events'[e] = [type |-> t, processed |-> FALSE]
        /\ \A f \in EventIds \ {e} : events'[f] = events[f]
    BY <1>2, <1>3
  <1>5. t # "none" BY DEF Registrations
  <1>6. Recorded' = Recorded \cup {e}
    BY <1>4, <1>5 DEF Recorded
  <1>7. Unprocessed' = Unprocessed \cup {e}
    BY <1>1, <1>4, <1>6 DEF Unprocessed, Recorded
  <1> QED BY <1>1, <1>4, <1>6, <1>7

LEMMA RecordEventStep ==
  ASSUME IInv, Registrations, NEW t \in Types, RecordEvent(t) PROVE IInv'
  <1>1. PICK e \in EventIds :
          /\ NextEvent(e) /\ Append(e, t)
          /\ late' = IF pc \in {"actions", "matchers"} THEN late \cup {e} ELSE late
    BY DEF RecordEvent
  <1>2. UNCHANGED <<matchers, wait, items, pc, batch, fresh, broken>> BY DEF RecordEvent
  <1>3. /\ events' \in [EventIds -> [type : Types \cup {"none"}, processed : BOOLEAN]]
        /\ Recorded' = Recorded \cup {e} /\ e \notin Recorded
        /\ Unprocessed' = Unprocessed \cup {e}
        /\ ~events'[e].processed
        /\ \A f \in EventIds \ {e} : events'[f] = events[f]
    BY <1>1, AppendEvent
  <1>4. TypeOK' BY <1>1, <1>2, <1>3 DEF IInv, TypeOK
  <1>5. \A f \in Recorded : f \in EventIds \ {e} BY <1>3 DEF Recorded
  <1>6. \A f \in Recorded : Covered(f) => Covered(f)'
    BY <1>1, <1>2, <1>3, <1>5 DEF Covered, Routed, Due, ItemFor
  <1>7. PassesAgree'
    <2>1. \A f \in Recorded' : events'[f].processed => Covered(f)'
      BY <1>3, <1>5, <1>6 DEF IInv, PassesAgree
    <2>2. pc \in {"actions", "matchers"} => e \in late' BY <1>1
    <2>3. late \subseteq late' BY <1>1
    <2>4. Unprocessed \subseteq Recorded BY DEF Unprocessed
    <2>5. pc' = "actions" => \A f \in Unprocessed' : f \in batch' \/ f \in late'
      BY <1>2, <1>3, <2>2, <2>3 DEF IInv, PassesAgree
    <2>6. pc' = "matchers" => \A f \in Unprocessed' : Covered(f)'
      <3> SUFFICES ASSUME pc' = "matchers", NEW f \in Unprocessed' PROVE Covered(f)' OBVIOUS
      <3>1. CASE f = e BY <1>2, <2>2, <3>1 DEF Covered
      <3>2. CASE f # e BY <1>2, <1>3, <1>6, <2>4, <3>2 DEF IInv, PassesAgree
      <3> QED BY <3>1, <3>2
    <2>7. pc' \in {"match", "write"} => \A f \in batch' : Covered(f)'
      BY <1>2, <1>6, <2>4 DEF IInv, PassesAgree
    <2>8. pc' \in {"actions", "match", "write"} => batch' \subseteq Unprocessed'
      BY <1>2, <1>3 DEF IInv, PassesAgree
    <2> QED BY <2>1, <2>5, <2>6, <2>7, <2>8 DEF PassesAgree
  <1>8. MatchersAgree'
    <2>1. \A k \in items \cap MatcherKeys : k[3] \in Recorded' \ Unprocessed'
      BY <1>3 DEF IInv, MatchersAgree
    <2> QED BY <1>2, <2>1 DEF IInv, MatchersAgree
  <1>9. FiredOnce' BY <1>2 DEF IInv, FiredOnce, FiredRegs
  <1> QED BY <1>4, <1>7, <1>8, <1>9 DEF IInv

LEMMA RegisterMatcherStep ==
  ASSUME IInv, Registrations, NEW w \in Waits, RegisterMatcher(w) PROVE IInv'
  <1>1. PICK m \in MatcherIds : m \notin Armed /\ matchers' = [matchers EXCEPT ![m] = w]
    BY DEF RegisterMatcher
  <1>2. /\ wait[w] = "unregistered" /\ wait' = [wait EXCEPT ![w] = "armed"]
        /\ fresh' \subseteq fresh \cup {w}
        /\ UNCHANGED <<events, items, pc, batch, late, broken>>
    BY DEF RegisterMatcher
  <1>3. matchers \in [MatcherIds -> Waits \cup {"none"}] /\ wait \in [Waits -> {"unregistered", "armed", "fired", "timed_out"}]
    BY DEF IInv, TypeOK
  <1>4. /\ \A n \in MatcherIds : matchers'[n] = IF n = m THEN w ELSE matchers[n]
        /\ \A v \in Waits : wait'[v] = IF v = w THEN "armed" ELSE wait[v]
        /\ matchers' \in [MatcherIds -> Waits \cup {"none"}]
        /\ wait' \in [Waits -> {"unregistered", "armed", "fired", "timed_out"}]
    BY <1>1, <1>2, <1>3
  <1>5. TypeOK' BY <1>2, <1>4 DEF IInv, TypeOK
  <1>6. Recorded' = Recorded /\ Unprocessed' = Unprocessed /\ \A e \in EventIds : Covered(e)' <=> Covered(e)
    BY <1>2 DEF Recorded, Unprocessed, Covered, Routed, Due, ItemFor
  <1>7. PassesAgree' BY <1>2, <1>6 DEF IInv, PassesAgree, Recorded, Unprocessed
  <1>8. MatchersAgree'
    <2>1. matchers[m] = "none" BY <1>1 DEF Armed
    <2>2. \A n \in MatcherIds : matchers[n] # w BY <1>2 DEF IInv, MatchersAgree
    <2>3. \A v \in Waits : wait'[v] = "armed" <=> \E n \in MatcherIds : matchers'[n] = v
      <3> SUFFICES ASSUME NEW v \in Waits
                   PROVE  wait'[v] = "armed" <=> \E n \in MatcherIds : matchers'[n] = v
        OBVIOUS
      <3>1. CASE v = w BY <1>4, <3>1
      <3>2. CASE v # w
        <4>1. v # "none" BY DEF Registrations
        <4> QED BY <1>4, <2>1, <3>2, <4>1 DEF IInv, MatchersAgree
      <3> QED BY <3>1, <3>2
    <2>4. \A i, j \in MatcherIds : matchers'[i] # "none" /\ matchers'[i] = matchers'[j] => i = j
      BY <1>4, <2>2 DEF IInv, MatchersAgree
    <2> QED BY <1>2, <1>6, <2>3, <2>4 DEF IInv, MatchersAgree
  <1>9. FiredOnce'
    <2>1. FiredRegs' = FiredRegs BY <1>2, <1>4 DEF FiredRegs
    <2> QED BY <1>2, <2>1 DEF IInv, FiredOnce
  <1> QED BY <1>5, <1>7, <1>8, <1>9 DEF IInv

(* A step that changes the stage and the batch only.                       *)
LEMMA StageStep ==
  ASSUME IInv, UNCHANGED <<events, matchers, wait, items, broken>>,
         pc' \in {"subscriptions", "actions", "matchers", "match", "write", "timeouts"},
         batch' \subseteq EventIds, fresh' \subseteq fresh, late' \subseteq late,
         \A e \in late \ late' : e \notin Recorded \/ ~events[e].processed,
         /\ pc' = "actions" => batch' = Unprocessed
         /\ pc' = "match" => batch' = Unprocessed /\ pc = "matchers" /\ late' = late
         /\ pc' = "write" => batch' = batch /\ pc = "match" /\ late' = late
         /\ pc' # "matchers"
  PROVE  IInv'
  <1>1. Recorded' = Recorded /\ Unprocessed' = Unprocessed BY DEF Recorded, Unprocessed
  <1>2. TypeOK' BY DEF IInv, TypeOK
  <1>3. \A e \in Recorded : Routed(e)' <=> Routed(e) BY DEF Routed, Due, ItemFor
  <1>4. PassesAgree'
    <2>1. \A e \in Recorded : events[e].processed => Covered(e)'
      BY <1>3 DEF IInv, PassesAgree, Covered
    <2>2. pc' \in {"match", "write"} => \A e \in batch' : Covered(e)'
      BY <1>3 DEF IInv, PassesAgree, Covered, Unprocessed
    <2>3. pc' \in {"actions", "match", "write"} => batch' \subseteq Unprocessed'
      BY <1>1 DEF IInv, PassesAgree
    <2> QED BY <1>1, <2>1, <2>2, <2>3 DEF PassesAgree
  <1>5. MatchersAgree' BY <1>1 DEF IInv, MatchersAgree
  <1>6. FiredOnce' BY DEF IInv, FiredOnce, FiredRegs
  <1> QED BY <1>2, <1>4, <1>5, <1>6 DEF IInv

LEMMA SelectForSubscriptionsStep == ASSUME IInv, SelectForSubscriptions PROVE IInv'
  <1>1. Unprocessed \subseteq EventIds BY DEF Unprocessed, Recorded
  <1> QED BY <1>1, StageStep DEF SelectForSubscriptions

LEMMA SelectForMatchersStep == ASSUME IInv, SelectForMatchers PROVE IInv'
  <1>1. Unprocessed \subseteq EventIds BY DEF Unprocessed, Recorded
  <1> QED BY <1>1, StageStep DEF SelectForMatchers

LEMMA LookUpStep == ASSUME IInv, LookUp PROVE IInv'
  BY StageStep DEF LookUp, IInv, TypeOK

LEMMA NextIterationStep == ASSUME IInv, NextIteration PROVE IInv'
  BY StageStep DEF NextIteration, IInv, TypeOK

LEMMA CrashStep == ASSUME IInv, Crash PROVE IInv'
  <1>1. \A e \in late \ late' : ~events[e].processed BY DEF Crash, Unprocessed
  <1>2. fresh' = {} /\ batch' = {} BY DEF Crash
  <1> QED BY <1>1, <1>2, StageStep DEF Crash

LEMMA StutterStep == ASSUME IInv, UNCHANGED vars PROVE IInv'
  <1>1. Recorded' = Recorded /\ Unprocessed' = Unprocessed BY DEF Recorded, Unprocessed, vars
  <1>2. TypeOK' BY DEF IInv, TypeOK, vars
  <1>3. PassesAgree' BY <1>1 DEF IInv, PassesAgree, Covered, Routed, Due, ItemFor, vars
  <1>4. MatchersAgree' BY <1>1 DEF IInv, MatchersAgree, vars
  <1>5. FiredOnce' BY DEF IInv, FiredOnce, FiredRegs, vars
  <1> QED BY <1>2, <1>3, <1>4, <1>5 DEF IInv

(* The subscriptions' pass: every event it read is routed afterwards, those *)
(* that have come since are late.                                          *)
LEMMA RunActionsStep == ASSUME IInv, RunActions PROVE IInv'
  <1> DEFINE due == {p \in Subs \X batch : Due(p[1], p[2])}
  <1>1. PICK raising \in SUBSET due :
          /\ items' = items \cup {<<"sub", p[1], p[2]>> : p \in due \ raising}
          /\ broken' = broken \cup raising
    BY DEF RunActions
  <1>2. /\ pc = "actions" /\ pc' = "matchers" /\ batch' = {}
        /\ UNCHANGED <<events, matchers, wait, fresh, late>>
    BY DEF RunActions
  <1>3. batch \subseteq EventIds BY DEF IInv, TypeOK
  <1>4. {<<"sub", p[1], p[2]>> : p \in due \ raising} \subseteq SubKeys
    BY <1>3 DEF SubKeys
  <1>5. Recorded' = Recorded /\ Unprocessed' = Unprocessed BY <1>2 DEF Recorded, Unprocessed
  <1>6. items' \cap MatcherKeys = items \cap MatcherKeys BY <1>1, <1>4, KeysApart
  <1>7. TypeOK'
    <2>1. items' \subseteq SubKeys \cup MatcherKeys BY <1>1, <1>4 DEF IInv, TypeOK
    <2>2. broken' \subseteq Subs \X EventIds BY <1>1, <1>3 DEF IInv, TypeOK
    <2> QED BY <1>2, <2>1, <2>2 DEF IInv, TypeOK
  <1>8. PassesAgree'
    <2>1. \A e \in Recorded : Covered(e) => Covered(e)'
      BY <1>1, <1>2 DEF Covered, Routed, Due, ItemFor
    <2>2. \A e \in batch : Routed(e)'
      <3> SUFFICES ASSUME NEW e \in batch, NEW s \in Subs, Due(s, e)
                   PROVE  <<"sub", s, e>> \in items' \/ <<s, e>> \in broken'
        BY <1>2 DEF Routed, Due, ItemFor
      <3>1. <<s, e>> \in due OBVIOUS
      <3>2. CASE <<s, e>> \in raising BY <1>1, <3>2
      <3>3. CASE <<s, e>> \notin raising
        <4>1. <<"sub", <<s, e>>[1], <<s, e>>[2]>> \in items' BY <1>1, <3>1, <3>3
        <4> QED BY <4>1
      <3> QED BY <3>2, <3>3
    <2>3. \A e \in Unprocessed : Covered(e)' BY <1>2, <2>2 DEF IInv, PassesAgree, Covered
    <2> QED BY <1>2, <1>5, <2>1, <2>3 DEF IInv, PassesAgree
  <1>9. MatchersAgree' BY <1>2, <1>5, <1>6 DEF IInv, MatchersAgree
  <1>10. FiredOnce' BY <1>2, <1>6 DEF IInv, FiredOnce, FiredRegs
  <1> QED BY <1>7, <1>8, <1>9, <1>10 DEF IInv

(* Nothing is in the subscriptions' hands while matchers expire.           *)
LEMMA ExpireStep == ASSUME IInv, Registrations, NEW m \in MatcherIds, Expire(m) PROVE IInv'
  <1>1. PICK e \in EventIds : NextEvent(e) /\ Append(e, TimeoutType) BY DEF Expire
  <1>2. /\ pc = "timeouts" /\ matchers[m] \in Expiring
        /\ matchers' = [matchers EXCEPT ![m] = "none"]
        /\ wait' = [wait EXCEPT ![matchers[m]] = "timed_out"]
        /\ UNCHANGED <<items, pc, batch, fresh, late, broken>>
    BY DEF Expire
  <1>3. /\ events' \in [EventIds -> [type : Types \cup {"none"}, processed : BOOLEAN]]
        /\ Recorded' = Recorded \cup {e} /\ e \notin Recorded
        /\ Unprocessed' = Unprocessed \cup {e}
        /\ ~events'[e].processed
        /\ \A f \in EventIds \ {e} : events'[f] = events[f]
    BY <1>1, AppendEvent, TimeoutTypeAssumption
  <1>4. matchers \in [MatcherIds -> Waits \cup {"none"}] /\ wait \in [Waits -> {"unregistered", "armed", "fired", "timed_out"}]
    BY DEF IInv, TypeOK
  <1>5. matchers[m] \in Waits /\ matchers[m] # "none"
    BY <1>2, ExpiringAssumption DEF Registrations
  <1>6. /\ \A n \in MatcherIds : matchers'[n] = IF n = m THEN "none" ELSE matchers[n]
        /\ \A v \in Waits : wait'[v] = IF v = matchers[m] THEN "timed_out" ELSE wait[v]
        /\ matchers' \in [MatcherIds -> Waits \cup {"none"}]
        /\ wait' \in [Waits -> {"unregistered", "armed", "fired", "timed_out"}]
    BY <1>2, <1>4, <1>5
  <1>7. TypeOK' BY <1>2, <1>3, <1>6 DEF IInv, TypeOK
  <1>8. \A f \in Recorded : f \in EventIds \ {e} BY <1>3 DEF Recorded
  <1>9. PassesAgree'
    <2>1. \A f \in Recorded' : events'[f].processed => Covered(f)'
      BY <1>2, <1>3, <1>8 DEF IInv, PassesAgree, Covered, Routed, Due, ItemFor
    <2> QED BY <1>2, <2>1 DEF PassesAgree
  <1>10. MatchersAgree'
    <2>1. \A v \in Waits : wait'[v] = "armed" <=> \E n \in MatcherIds : matchers'[n] = v
      <3> SUFFICES ASSUME NEW v \in Waits
                   PROVE  wait'[v] = "armed" <=> \E n \in MatcherIds : matchers'[n] = v
        OBVIOUS
      <3>1. v # "none" BY DEF Registrations
      <3>2. CASE v = matchers[m]
        <4>1. \A n \in MatcherIds : matchers'[n] # v
          BY <1>5, <1>6, <3>1, <3>2 DEF IInv, MatchersAgree
        <4> QED BY <1>6, <3>2, <4>1
      <3>3. CASE v # matchers[m]
        <4>1. wait'[v] = wait[v] BY <1>6, <3>3
        <4>2. (\E n \in MatcherIds : matchers'[n] = v) <=> (\E n \in MatcherIds : matchers[n] = v)
          BY <1>6, <3>1, <3>3
        <4> QED BY <4>1, <4>2 DEF IInv, MatchersAgree
      <3> QED BY <3>2, <3>3
    <2>2. \A i, j \in MatcherIds : matchers'[i] # "none" /\ matchers'[i] = matchers'[j] => i = j
      BY <1>6 DEF IInv, MatchersAgree
    <2>3. \A k \in items \cap MatcherKeys : k[3] \in Recorded' \ Unprocessed'
      BY <1>3 DEF IInv, MatchersAgree
    <2> QED BY <1>2, <2>1, <2>2, <2>3 DEF MatchersAgree
  <1>11. FiredOnce'
    <2>1. wait[matchers[m]] = "armed" BY <1>5 DEF IInv, MatchersAgree
    <2>2. FiredRegs' = FiredRegs BY <1>6, <2>1 DEF FiredRegs
    <2> QED BY <1>2, <2>2 DEF IInv, FiredOnce
  <1> QED BY <1>7, <1>9, <1>10, <1>11 DEF IInv

-----------------------------------------------------------------------------
(* The matchers' pass.  Of the events of the batch that meet a matcher the *)
(* earliest takes it.                                                      *)
LEMMA TakenOnce ==
  ASSUME TypeOK, NEW m, NEW e \in batch, NEW f \in batch, Takes(e, m), Takes(f, m)
  PROVE  e = f
  <1>1. e \in Nat /\ f \in Nat BY DEF TypeOK, EventIds
  <1>2. ~(e < f) /\ ~(f < e) BY DEF Takes
  <1> QED BY <1>1, <1>2

LEMMA MatchCounts ==
  ASSUME IInv, Registrations
  PROVE  /\ IsFiniteSet(Taken) /\ IsFiniteSet(NewItems)
         /\ Cardinality(NewItems) = Cardinality(Taken)
         /\ Cardinality({matchers[m] : m \in Taken}) = Cardinality(Taken)
  <1>1. Taken \subseteq MatcherIds BY DEF Taken
  <1>2. IsFiniteSet(MatcherIds)
    <2>1. Cardinality(Waits) \in Nat BY FS_CardinalityType DEF Registrations
    <2> QED BY <2>1, FS_Interval DEF MatcherIds
  <1>3. IsFiniteSet(Taken) BY <1>1, <1>2, FS_Subset
  <1>4. ExistsBijection(Taken, NewItems)
    <2> DEFINE g == [m \in Taken |-> <<"matcher", m, CHOOSE e \in batch : Takes(e, m)>>]
    <2>1. \A m \in Taken : /\ (CHOOSE e \in batch : Takes(e, m)) \in batch
                           /\ Takes(CHOOSE e \in batch : Takes(e, m), m)
      BY DEF Taken
    <2>2. batch \subseteq EventIds BY DEF IInv, TypeOK
    <2>3. \A m \in Taken : g[m] \in NewItems
      <3> SUFFICES ASSUME NEW m \in Taken PROVE g[m] \in NewItems OBVIOUS
      <3> DEFINE e == CHOOSE x \in batch : Takes(x, m)
      <3>1. e \in batch /\ Takes(e, m) BY <2>1
      <3>2. g[m] = <<"matcher", m, e>> OBVIOUS
      <3> HIDE DEF e
      <3>3. <<"matcher", m, e>> \in MatcherKeys BY <1>1, <2>2, <3>1 DEF MatcherKeys
      <3> QED BY <3>1, <3>2, <3>3 DEF NewItems
    <2>4. \A k \in NewItems : \E m \in Taken : g[m] = k
      <3> SUFFICES ASSUME NEW k \in NewItems PROVE \E m \in Taken : g[m] = k OBVIOUS
      <3>1. /\ k[3] \in batch /\ Takes(k[3], k[2]) /\ k[2] \in MatcherIds
            /\ k = <<"matcher", k[2], k[3]>>
        BY DEF NewItems, MatcherKeys
      <3>2. k[2] \in Taken BY <3>1 DEF Taken
      <3>3. (CHOOSE x \in batch : Takes(x, k[2])) = k[3]
        BY <2>1, <3>1, <3>2, TakenOnce DEF IInv
      <3>4. g[k[2]] = k BY <3>1, <3>2, <3>3
      <3> QED BY <3>2, <3>4
    <2>5. \A m, n \in Taken : g[m] = g[n] => m = n OBVIOUS
    <2>6. g \in [Taken -> NewItems]
      <3>1. g = [m \in Taken |-> g[m]] OBVIOUS
      <3> QED BY <2>3, <3>1
    <2> HIDE DEF g
    <2>7. g \in Bijection(Taken, NewItems)
      BY <2>4, <2>5, <2>6 DEF Bijection, Injection, Surjection, IsInjective
    <2> QED BY <2>7 DEF ExistsBijection
  <1>5. ExistsBijection(Taken, {matchers[m] : m \in Taken})
    <2> DEFINE h == [m \in Taken |-> matchers[m]]
    <2>1. \A m, n \in Taken : matchers[m] = matchers[n] => m = n
      BY <1>1 DEF IInv, MatchersAgree, Taken, Takes, Meets
    <2>2. h \in Bijection(Taken, {matchers[m] : m \in Taken})
      BY <2>1 DEF Bijection, Injection, Surjection, IsInjective
    <2> QED BY <2>2 DEF ExistsBijection
  <1> QED BY <1>3, <1>4, <1>5, FS_Bijection

LEMMA MatchStep == ASSUME IInv, Registrations, Match PROVE IInv'
  <1> DEFINE R == {matchers[m] : m \in Taken}
  <1>1. /\ pc = "write" /\ items' = items \cup NewItems /\ pc' = "timeouts" /\ batch' = {}
        /\ fresh' = {}
        /\ UNCHANGED <<late, broken>>
        /\ matchers' = [m \in MatcherIds |-> IF m \in Taken THEN "none" ELSE matchers[m]]
        /\ wait' = [w \in Waits |-> IF \E m \in Taken : matchers[m] = w THEN "fired" ELSE wait[w]]
        /\ events' = [e \in EventIds |-> IF e \in batch THEN [events[e] EXCEPT !.processed = TRUE]
                                         ELSE events[e]]
    BY DEF Match, Delete, Fire, Processed
  <1>2. Taken \subseteq MatcherIds /\ batch \subseteq Unprocessed
        /\ \A m \in Taken : matchers[m] # "none"
    BY <1>1 DEF Taken, Takes, Meets, IInv, PassesAgree
  <1>3. \A m \in MatcherIds : matchers[m] \in Waits \cup {"none"} BY DEF IInv, TypeOK
  <1>4. R \subseteq Waits BY <1>2, <1>3
  <1>5. \A e \in EventIds :
          /\ events'[e].type = events[e].type
          /\ events'[e].processed = (e \in batch \/ events[e].processed)
          /\ events'[e] \in [type : Types \cup {"none"}, processed : BOOLEAN]
    BY <1>1 DEF IInv, TypeOK
  <1>6. Recorded' = Recorded /\ Unprocessed' = Unprocessed \ batch
    BY <1>5 DEF Recorded, Unprocessed
  <1>7. NewItems \subseteq MatcherKeys /\ \A k \in NewItems : k[3] \in batch
    BY DEF NewItems
  <1>8. TypeOK'
    <2>1. events' \in [EventIds -> [type : Types \cup {"none"}, processed : BOOLEAN]]
      BY <1>1, <1>5
    <2>2. matchers' \in [MatcherIds -> Waits \cup {"none"}] BY <1>1, <1>3
    <2>3. wait' \in [Waits -> {"unregistered", "armed", "fired", "timed_out"}]
      BY <1>1 DEF IInv, TypeOK
    <2> QED BY <1>1, <1>7, <2>1, <2>2, <2>3 DEF IInv, TypeOK
  <1>9. PassesAgree'
    <2>1. \A e \in Recorded : Covered(e) => Covered(e)'
      <3> SUFFICES ASSUME NEW e \in Recorded PROVE Covered(e) => Covered(e)' OBVIOUS
      <3>1. events'[e].type = events[e].type BY <1>5 DEF Recorded
      <3> QED BY <1>1, <3>1 DEF Covered, Routed, Due, ItemFor
    <2>2. \A e \in Recorded : events'[e].processed => Covered(e)
      BY <1>1, <1>5 DEF IInv, PassesAgree, Recorded
    <2> QED BY <1>1, <1>6, <2>1, <2>2 DEF PassesAgree
  <1>10. MatchersAgree'
    <2>1. \A w \in Waits : wait'[w] = "armed" <=> \E m \in MatcherIds : matchers'[m] = w
      <3> SUFFICES ASSUME NEW w \in Waits
                   PROVE  wait'[w] = "armed" <=> \E m \in MatcherIds : matchers'[m] = w
        OBVIOUS
      <3>1. w # "none" BY DEF Registrations
      <3>2. CASE w \in R
        <4>1. wait'[w] = "fired" BY <1>1, <3>2
        <4>2. PICK m \in Taken : matchers[m] = w BY <3>2
        <4>3. \A n \in MatcherIds : matchers[n] = w => n = m
          BY <1>2, <3>1, <4>2 DEF IInv, MatchersAgree
        <4>4. \A n \in MatcherIds : matchers'[n] # w BY <1>1, <3>1, <4>2, <4>3
        <4> QED BY <4>1, <4>4
      <3>3. CASE w \notin R
        <4>1. wait'[w] = wait[w] BY <1>1, <3>3
        <4>2. (\E m \in MatcherIds : matchers'[m] = w) <=> (\E m \in MatcherIds : matchers[m] = w)
          BY <1>1, <3>1, <3>3
        <4> QED BY <4>1, <4>2 DEF IInv, MatchersAgree
      <3> QED BY <3>2, <3>3
    <2>2. \A i, j \in MatcherIds : matchers'[i] # "none" /\ matchers'[i] = matchers'[j] => i = j
      BY <1>1 DEF IInv, MatchersAgree
    <2>3. \A k \in items' \cap MatcherKeys : k[3] \in Recorded' \ Unprocessed'
      <3> SUFFICES ASSUME NEW k \in items' \cap MatcherKeys
                   PROVE  k[3] \in Recorded /\ (k[3] \in batch \/ k[3] \notin Unprocessed)
        BY <1>6
      <3>1. CASE k \in items BY <3>1 DEF IInv, MatchersAgree
      <3>2. CASE k \in NewItems BY <1>2, <1>7, <3>2 DEF Unprocessed
      <3> QED BY <1>1, <3>1, <3>2
    <2> QED BY <2>1, <2>2, <2>3 DEF MatchersAgree
  <1>11. FiredOnce'
    <2> DEFINE I == items \cap MatcherKeys
    <2>1. FiredRegs' = FiredRegs \cup R BY <1>1, <1>4 DEF FiredRegs
    <2>2. items' \cap MatcherKeys = I \cup NewItems BY <1>1, <1>7
    <2>3. FiredRegs \cap R = {}
      <3>1. \A w \in R : wait[w] = "armed" BY <1>2, <1>4 DEF IInv, MatchersAgree
      <3> QED BY <3>1 DEF FiredRegs
    <2>4. I \cap NewItems = {}
      <3>1. \A k \in I : k[3] \notin Unprocessed BY DEF IInv, MatchersAgree
      <3> QED BY <1>2, <1>7, <3>1
    <2>5. /\ IsFiniteSet(NewItems) /\ IsFiniteSet(R) /\ IsFiniteSet(FiredRegs) /\ IsFiniteSet(I)
          /\ Cardinality(NewItems) = Cardinality(R)
          /\ Cardinality(FiredRegs) = Cardinality(I)
      <3>1. FiredRegs \subseteq Waits BY DEF FiredRegs
      <3> QED BY <1>4, <3>1, MatchCounts, FS_Subset DEF IInv, FiredOnce, Registrations
    <2>6. /\ Cardinality(FiredRegs \cup R) = Cardinality(FiredRegs) + Cardinality(R)
          /\ Cardinality(I \cup NewItems) = Cardinality(I) + Cardinality(NewItems)
          /\ IsFiniteSet(I \cup NewItems)
      <3>1. /\ Cardinality(FiredRegs) \in Nat /\ Cardinality(R) \in Nat
            /\ Cardinality(I) \in Nat /\ Cardinality(NewItems) \in Nat /\ Cardinality({}) = 0
        BY <2>5, FS_CardinalityType, FS_EmptySet
      <3> HIDE DEF R, I
      <3>2. Cardinality(FiredRegs \cup R) = Cardinality(FiredRegs) + Cardinality(R) - Cardinality({})
        BY <2>3, <2>5, FS_Union
      <3>3. /\ Cardinality(I \cup NewItems) = Cardinality(I) + Cardinality(NewItems) - Cardinality({})
            /\ IsFiniteSet(I \cup NewItems)
        BY <2>4, <2>5, FS_Union
      <3> QED BY <3>1, <3>2, <3>3
    <2> QED BY <2>1, <2>2, <2>5, <2>6 DEF FiredOnce
  <1> QED BY <1>8, <1>9, <1>10, <1>11 DEF IInv

LEMMA NextIInv == ASSUME Registrations PROVE IInv /\ [Next]_vars => IInv'
  <1> SUFFICES ASSUME IInv, [Next]_vars PROVE IInv' OBVIOUS
  <1>1. ASSUME NEW t \in Types \ {TimeoutType}, RecordEvent(t) PROVE IInv' BY <1>1, RecordEventStep
  <1>2. ASSUME NEW w \in Waits, RegisterMatcher(w) PROVE IInv' BY <1>2, RegisterMatcherStep
  <1>3. CASE SelectForSubscriptions BY <1>3, SelectForSubscriptionsStep
  <1>4. CASE RunActions BY <1>4, RunActionsStep
  <1>5. CASE SelectForMatchers BY <1>5, SelectForMatchersStep
  <1>6. CASE LookUp BY <1>6, LookUpStep
  <1>11. CASE Match BY <1>11, MatchStep
  <1>7. ASSUME NEW m \in MatcherIds, Expire(m) PROVE IInv' BY <1>7, ExpireStep
  <1>8. CASE NextIteration BY <1>8, NextIterationStep
  <1>9. CASE Crash BY <1>9, CrashStep
  <1>10. CASE UNCHANGED vars BY <1>10, StutterStep
  <1> QED BY <1>1, <1>2, <1>3, <1>4, <1>5, <1>6, <1>7, <1>8, <1>9, <1>10, <1>11 DEF Next

-----------------------------------------------------------------------------
(* Type correctness.                                                       *)
THEOREM PipelineTyped == Spec => []TypeOK
  <1>1. Init => IInv BY InitIInv, RegistrationsHold
  <1>2. IInv /\ [Next]_vars => IInv' BY NextIInv, RegistrationsHold
  <1>3. IInv => TypeOK BY DEF IInv
  <1> QED BY <1>1, <1>2, <1>3, PTL DEF Spec

(* Whatever crashes and whoever records events, a processed event that a   *)
(* subscription has not seen came between the two SELECTs of an iteration, *)
(* or its action raised (process_subscriptions, process_events).           *)
THEOREM OnlyLateEventsMissed == Spec => []MissedOnlyLate
  <1>1. Init => IInv BY InitIInv, RegistrationsHold
  <1>2. IInv /\ [Next]_vars => IInv' BY NextIInv, RegistrationsHold
  <1>3. IInv => MissedOnlyLate BY DEF IInv, PassesAgree, Covered, Routed, MissedOnlyLate
  <1> QED BY <1>1, <1>2, <1>3, PTL DEF Spec

(* As many items of matchers as registrations that fired, although SQLite  *)
(* gives matcher ids out again (process_events).                           *)
THEOREM OneShot == Spec => []MatchersOneShot
  <1>1. Init => IInv BY InitIInv, RegistrationsHold
  <1>2. IInv /\ [Next]_vars => IInv' BY NextIInv, RegistrationsHold
  <1>3. IInv => MatchersOneShot
    BY DEF IInv, MatchersAgree, FiredOnce, FiredRegs, MatchersOneShot
  <1> QED BY <1>1, <1>2, <1>3, PTL DEF Spec
-----------------------------------------------------------------------------
(* Refinement of EventContract *)

MapType   == [e \in EventIds |-> events[e].type]
MapClosed == Recorded \ Unprocessed
MapTold   == {p \in Subs \X EventIds : <<"sub", p[1], p[2]>> \in items}
MapCalls  == {p \in MatcherIds \X EventIds : <<"matcher", p[1], p[2]>> \in items}

MapSettling == IF pc = "write" THEN batch ELSE {}

MapVars == <<MapType, MapClosed, wait, MapTold, MapCalls, MapSettling, fresh>>

LEMMA InitContract == Init => Contract!Init
  BY DEF Init, Contract!Init, Recorded

LEMMA MapPublished == Contract!Published = Recorded
  BY DEF Contract!Published, Recorded

LEMMA MapOpen == Contract!Open = Unprocessed
  BY MapPublished DEF Contract!Open, Unprocessed

(* A new event is the next one of the contract's log, and is open.         *)
LEMMA AppendContract ==
  ASSUME IInv, Registrations, NEW e \in EventIds, NEW t \in Types, NextEvent(e), Append(e, t)
  PROVE  Contract!Appended(t) /\ MapClosed' = MapClosed
  <1>1. events \in [EventIds -> [type : Types \cup {"none"}, processed : BOOLEAN]]
    BY DEF IInv, TypeOK
  <1>2. events' = [events EXCEPT ![e] = [type |-> t, processed |-> FALSE]] BY DEF Append
  <1>3. MapType' = [MapType EXCEPT ![e] = t] BY <1>1, <1>2 DEF MapType
  <1>4. e \notin Contract!Published /\ \A f \in EventIds : f < e => f \in Contract!Published
    BY MapPublished DEF NextEvent
  <1>5. MapClosed' = MapClosed BY AppendEvent DEF MapClosed
  <1> QED BY <1>3, <1>4, <1>5 DEF Contract!Appended, MapType

(* No stage of the loop touches what the contract speaks of, except where  *)
(* it works.                                                               *)
LEMMA StutterContract ==
  ASSUME UNCHANGED <<events, wait, items, fresh>>, pc # "write", pc' # "write"
  PROVE  UNCHANGED MapVars
  BY DEF MapVars, MapSettling, MapType, MapClosed, MapTold, MapCalls, Recorded, Unprocessed

LEMMA RecordEventContract ==
  ASSUME IInv, Registrations, NEW t \in Types \ {TimeoutType}, RecordEvent(t)
  PROVE  Contract!Publish(t)
  <1>1. PICK e \in EventIds : NextEvent(e) /\ Append(e, t) BY DEF RecordEvent
  <1>2. Contract!Appended(t) /\ MapClosed' = MapClosed BY <1>1, AppendContract
  <1>3. /\ wait' = wait /\ MapTold' = MapTold /\ MapCalls' = MapCalls
        /\ fresh' = fresh /\ MapSettling' = MapSettling
    BY DEF RecordEvent, MapTold, MapCalls, MapSettling
  <1> QED BY <1>2, <1>3 DEF Contract!Publish, MapClosed, MapTold, MapCalls, MapSettling

LEMMA RegisterMatcherContract ==
  ASSUME NEW w \in Waits, RegisterMatcher(w) PROVE Contract!Await(w)
  <1>1. Recorded' = Recorded /\ Unprocessed' = Unprocessed
    BY DEF RegisterMatcher, Recorded, Unprocessed
  <1>2. fresh' = IF MapSettling = {} THEN fresh ELSE fresh \cup {w}
    BY DEF RegisterMatcher, MapSettling
  <1>3. MapSettling' = MapSettling BY DEF RegisterMatcher, MapSettling
  <1> QED BY <1>1, <1>2, <1>3 DEF RegisterMatcher, Contract!Await, MapSettling

(* The subscriptions are told of events that are still open: only the      *)
(* matchers' pass closes events, and it comes after this one.              *)
LEMMA RunActionsContract == ASSUME IInv, RunActions PROVE Contract!Tell
  <1> DEFINE due == {p \in Subs \X batch : Due(p[1], p[2])}
  <1>1. PICK raising \in SUBSET due :
          items' = items \cup {<<"sub", p[1], p[2]>> : p \in due \ raising}
    BY DEF RunActions
  <1>2. batch \subseteq Unprocessed /\ batch \subseteq EventIds
    BY DEF RunActions, IInv, PassesAgree, TypeOK
  <1>3. due \ raising \in SUBSET {p \in Subs \X Contract!Open :
                                     <<p[1], MapType[p[2]]>> \in SubMatches}
    BY <1>2, MapOpen DEF Due, MapType
  <1>4. MapTold' = MapTold \cup (due \ raising)
    <2>1. \A p \in Subs \X EventIds :
            <<"sub", p[1], p[2]>> \in {<<"sub", q[1], q[2]>> : q \in due \ raising}
              <=> p \in due \ raising
      <3> SUFFICES ASSUME NEW p \in Subs \X EventIds
                   PROVE  <<"sub", p[1], p[2]>> \in {<<"sub", q[1], q[2]>> : q \in due \ raising}
                            <=> p \in due \ raising
        OBVIOUS
      <3>1. ASSUME NEW q \in due \ raising, <<"sub", p[1], p[2]>> = <<"sub", q[1], q[2]>>
            PROVE  p = q
        <4>1. p[1] = q[1] /\ p[2] = q[2] BY <3>1
        <4>2. q \in Subs \X batch /\ p = <<p[1], p[2]>> BY DEF SubKeys
        <4>3. q = <<q[1], q[2]>> BY <4>2
        <4> QED BY <4>1, <4>2, <4>3
      <3> QED BY <3>1
    <2>2. due \ raising \subseteq Subs \X EventIds BY <1>2
    <2> HIDE DEF due
    <2> QED BY <1>1, <2>1, <2>2 DEF MapTold
  <1>5. MapCalls' = MapCalls
    <2>1. \A p \in MatcherIds \X EventIds :
            <<"matcher", p[1], p[2]>> \notin {<<"sub", q[1], q[2]>> : q \in due \ raising}
      OBVIOUS
    <2> QED BY <1>1, <2>1 DEF MapCalls
  <1>6. UNCHANGED <<MapType, MapClosed, wait, MapSettling, fresh>>
    BY DEF RunActions, MapType, MapClosed, Recorded, Unprocessed, MapSettling
  <1> QED BY <1>3, <1>4, <1>5, <1>6
          DEF Contract!Tell, MapTold, MapCalls, MapType, MapClosed, MapSettling

(* A matcher that expires is armed, so its registration has not fired; and *)
(* it will not, because the row goes with it.                              *)
LEMMA ExpireContract ==
  ASSUME IInv, Registrations, NEW m \in MatcherIds, Expire(m)
  PROVE  \E w \in Expiring : Contract!Lapse(w)
  <1>1. PICK e \in EventIds : NextEvent(e) /\ Append(e, TimeoutType) BY DEF Expire
  <1>2. matchers[m] \in Expiring BY DEF Expire
  <1>3. wait[matchers[m]] = "armed"
    BY <1>2, ExpiringAssumption DEF IInv, MatchersAgree
  <1>4. Contract!Appended(TimeoutType) /\ MapClosed' = MapClosed
    BY <1>1, AppendContract, TimeoutTypeAssumption
  <1>5. /\ MapTold' = MapTold /\ MapCalls' = MapCalls
        /\ fresh' = fresh /\ MapSettling' = MapSettling
    BY DEF Expire, MapTold, MapCalls, MapSettling
  <1>6. Contract!Lapse(matchers[m])
    BY <1>3, <1>4, <1>5 DEF Expire, Contract!Lapse, MapClosed, MapTold, MapCalls, MapSettling
  <1> QED BY <1>2, <1>6

(* The lookup of the first event's matchers begins a settlement, of an     *)
(* empty batch too; a crash during it gives the settlement up.             *)
LEMMA LookUpContract ==
  ASSUME IInv, LookUp, NEW E, E = batch PROVE Contract!Begin(E)
  <1>1. MapSettling = {} /\ MapSettling' = E /\ fresh' = fresh BY DEF LookUp, MapSettling
  <1>2. UNCHANGED <<MapType, MapClosed, wait, MapTold, MapCalls>>
    BY DEF LookUp, MapType, MapClosed, MapTold, MapCalls, Recorded, Unprocessed
  <1> QED BY <1>1, <1>2
          DEF Contract!Begin, MapType, MapClosed, MapTold, MapCalls, MapSettling

LEMMA CrashContract == ASSUME Crash PROVE Contract!GiveUp
  <1>1. MapSettling' = {} /\ fresh' = {} BY DEF Crash, MapSettling
  <1>2. UNCHANGED <<MapType, MapClosed, wait, MapTold, MapCalls>>
    BY DEF Crash, MapType, MapClosed, MapTold, MapCalls, Recorded, Unprocessed
  <1> QED BY <1>1, <1>2
          DEF Contract!GiveUp, MapType, MapClosed, MapTold, MapCalls, MapSettling

(* A set of events has an earliest one: a batch has a first event, and of  *)
(* the events of the batch that meet a matcher, one takes it.              *)
LEMMA Earliest ==
  ASSUME NEW T \in SUBSET EventIds, T # {} PROVE \E f \in T : \A g \in T : ~(g < f)
  <1>1. T \subseteq Nat
    <2>1. \A n \in EventIds : n \in Nat BY MaxEventsAssumption DEF EventIds
    <2> QED BY <2>1
  <1>2. PICK e : e \in T OBVIOUS
  <1>3. PICK f \in T : \A g \in T : ~(<<g, f>> \in OpToRel(<, Nat))
    BY <1>1, <1>2, WFMin, NatLessThanWellFounded
  <1> QED BY <1>1, <1>3 DEF OpToRel

LEMMA BatchHasFirst ==
  ASSUME batch \subseteq EventIds, batch # {} PROVE \E head \in batch : First(head)
  <1>1. PICK head \in batch : \A g \in batch : ~(g < head) BY Earliest
  <1>2. \A n \in EventIds : n \in Nat BY MaxEventsAssumption DEF EventIds
  <1> QED BY <1>1, <1>2 DEF First

LEMMA EarliestTakes ==
  ASSUME batch \subseteq EventIds, NEW m, NEW e \in batch, Meets(m, e)
  PROVE  \E f \in batch : Takes(f, m)
  <1> DEFINE T == {f \in batch : Meets(m, f)}
  <1>1. T \in SUBSET EventIds /\ T # {} OBVIOUS
  <1>2. PICK f \in T : \A g \in T : ~(g < f)
    <2> HIDE DEF T
    <2> QED BY <1>1, Earliest
  <1> QED BY <1>2 DEF Takes

(* The waits that the batch ends are those of the matchers it takes.       *)
LEMMA TakenAreEnded ==
  ASSUME IInv, Registrations, pc = "write", NEW head \in batch, First(head)
  PROVE  /\ Contract!Ended(head) = {matchers[m] : m \in Taken}
         /\ \A m, n \in Taken : matchers[m] = matchers[n] => m = n
  <1>1. batch \subseteq EventIds BY DEF IInv, TypeOK
  <1>0. MapSettling = batch BY DEF MapSettling
  <1>5. \A e \in batch : First(e) <=> e = head
    <2>1. \A e \in batch : e \in Nat BY <1>1, MaxEventsAssumption DEF EventIds
    <2> QED BY <2>1 DEF First
  <1>2. ASSUME NEW w \in Contract!Ended(head) PROVE \E m \in Taken : matchers[m] = w
    <2>1. PICK e \in batch : <<w, MapType[e]>> \in WaitMatches /\ (e = head => w \notin fresh)
      BY <1>0 DEF Contract!Ended, Contract!Ends, MapType, MapSettling
    <2>2. w \in Waits /\ w # "none" /\ wait[w] = "armed"
      BY DEF Contract!Ended, Registrations
    <2>3. PICK m \in MatcherIds : matchers[m] = w BY <2>2 DEF IInv, MatchersAgree
    <2>4. Meets(m, e) BY <1>1, <1>5, <2>1, <2>2, <2>3 DEF Meets, MapType
    <2>5. m \in Taken BY <1>1, <2>4, EarliestTakes DEF Taken
    <2> QED BY <2>3, <2>5
  <1>3. ASSUME NEW m \in Taken PROVE matchers[m] \in Contract!Ended(head)
    <2>1. PICK e \in batch : Meets(m, e) /\ m \in MatcherIds BY DEF Taken, Takes
    <2>2. matchers[m] \in Waits BY <2>1 DEF Meets, IInv, TypeOK
    <2>3. wait[matchers[m]] = "armed" BY <2>1, <2>2 DEF IInv, MatchersAgree
    <2>4. <<matchers[m], MapType[e]>> \in WaitMatches /\ (e = head => matchers[m] \notin fresh)
      BY <1>1, <1>5, <2>1 DEF Meets, MapType
    <2> QED BY <1>0, <2>1, <2>2, <2>3, <2>4 DEF Contract!Ended, Contract!Ends, MapType, MapSettling
  <1>4. \A m, n \in Taken : matchers[m] = matchers[n] => m = n
    BY DEF Taken, Takes, Meets, IInv, MatchersAgree
  <1> QED BY <1>2, <1>3, <1>4

(* The matchers' pass settles its batch: every registration it ends is     *)
(* called by the matcher that stood for it, for the event that took it.    *)
(* Newcomers miss the first event, and no other.                           *)
LEMMA MatchContract ==
  ASSUME IInv, Registrations, Match, NEW head \in batch, First(head)
  PROVE  Contract!Settle(head)
  <1> DEFINE C == Contract!Ended(head)
             row(w) == CHOOSE m \in Taken : matchers[m] = w
             first(m) == CHOOSE e \in batch : Takes(e, m)
             name == [w \in C |-> row(w)]
             at == [w \in C |-> first(row(w))]
  <1>1. batch \subseteq Unprocessed /\ batch \subseteq EventIds /\ pc = "write"
    BY DEF Match, IInv, PassesAgree, TypeOK
  <1>2. C = {matchers[m] : m \in Taken}
        /\ \A m, n \in Taken : matchers[m] = matchers[n] => m = n
    BY <1>1, TakenAreEnded
  <1>3. Taken \subseteq MatcherIds
        /\ \A m \in Taken : first(m) \in batch /\ Takes(first(m), m)
    BY DEF Taken
  <1>4. \A w \in C : row(w) \in Taken /\ matchers[row(w)] = w BY <1>2
  <1>5. \A m \in Taken : row(matchers[m]) = m BY <1>2, <1>4
  <1>6. \A m \in Taken : \A e \in batch : Takes(e, m) => e = first(m)
    BY <1>3, TakenOnce DEF IInv
  <1> HIDE DEF row, first, C
  <1>7. name \in [C -> MatcherIds] /\ at \in [C -> batch] BY <1>3, <1>4
  <1>8. ASSUME NEW w \in C
        PROVE  Contract!Ends(at[w], w, head) /\ <<name[w], at[w]>> \notin MapCalls
    <2>1. row(w) \in Taken /\ matchers[row(w)] = w /\ name[w] = row(w) /\ at[w] = first(row(w))
      BY <1>4
    <2>2. at[w] \in batch /\ Meets(row(w), at[w]) BY <1>3, <2>1 DEF Takes
    <2>3. Contract!Ends(at[w], w, head)
      BY <1>1, <2>1, <2>2 DEF Meets, MapType, Contract!Ends
    <2>4. <<"matcher", name[w], at[w]>> \notin items
      <3>1. <<"matcher", name[w], at[w]>> \in MatcherKeys BY <1>1, <1>7, <2>2 DEF MatcherKeys
      <3>2. at[w] \in Unprocessed BY <1>1, <2>2
      <3> QED BY <3>1, <3>2 DEF IInv, MatchersAgree
    <2> QED BY <2>3, <2>4 DEF MapCalls
  <1>9. \A v, w \in C : name[v] = name[w] => v = w BY <1>4
  <1>10. MapCalls' = MapCalls \cup {<<name[w], at[w]>> : w \in C}
    <2>1. items' = items \cup NewItems BY DEF Match
    <2>2. ASSUME NEW m \in MatcherIds, NEW e \in EventIds
          PROVE  <<"matcher", m, e>> \in NewItems <=> <<m, e>> \in {<<name[w], at[w]>> : w \in C}
      <3>1. <<"matcher", m, e>> \in MatcherKeys BY DEF MatcherKeys
      <3>2. <<"matcher", m, e>> \in NewItems <=> e \in batch /\ Takes(e, m)
        BY <3>1 DEF NewItems
      <3>3. ASSUME e \in batch, Takes(e, m) PROVE \E w \in C : <<m, e>> = <<name[w], at[w]>>
        <4>1. m \in Taken BY <3>3 DEF Taken
        <4>2. matchers[m] \in C /\ row(matchers[m]) = m /\ first(m) = e
          BY <1>2, <1>5, <1>6, <3>3, <4>1
        <4>3. name[matchers[m]] = m /\ at[matchers[m]] = e BY <4>2
        <4> QED BY <4>2, <4>3
      <3>4. ASSUME NEW w \in C, <<m, e>> = <<name[w], at[w]>> PROVE e \in batch /\ Takes(e, m)
        <4>1. m = row(w) /\ e = first(row(w)) BY <3>4
        <4> QED BY <1>3, <1>4, <4>1
      <3> QED BY <3>2, <3>3, <3>4
    <2>3. \A p \in MatcherIds \X EventIds : p = <<p[1], p[2]>> OBVIOUS
    <2>4. {<<name[w], at[w]>> : w \in C} \subseteq MatcherIds \X EventIds BY <1>1, <1>7
    <2> HIDE DEF name, at
    <2>5. ASSUME NEW p \in MatcherIds \X EventIds
          PROVE  p \in MapCalls' <=> p \in MapCalls \/ p \in {<<name[w], at[w]>> : w \in C}
      <3>1. <<"matcher", p[1], p[2]>> \in NewItems <=> p \in {<<name[w], at[w]>> : w \in C}
        BY <2>2, <2>3
      <3> QED BY <2>1, <3>1 DEF MapCalls
    <2>6. MapCalls' \subseteq MatcherIds \X EventIds /\ MapCalls \subseteq MatcherIds \X EventIds
      BY DEF MapCalls
    <2> QED BY <2>4, <2>5, <2>6
  <1>11. wait' = [w \in Waits |-> IF w \in C THEN "fired" ELSE wait[w]]
    BY <1>2 DEF Match, Fire
  <1>12. \A e \in EventIds : /\ events'[e].type = events[e].type
                             /\ events'[e].processed = (e \in batch \/ events[e].processed)
    BY DEF Match, Processed, IInv, TypeOK
  <1>13. MapType' = MapType BY <1>12 DEF MapType
  <1>14. Recorded' = Recorded /\ Unprocessed' = Unprocessed \ batch
    BY <1>12 DEF Recorded, Unprocessed
  <1>15. MapClosed' = MapClosed \cup batch
    BY <1>1, <1>14 DEF MapClosed, Unprocessed
  <1>16. MapTold' = MapTold
    <2>1. \A p \in Subs \X EventIds : <<"sub", p[1], p[2]>> \notin NewItems
      BY DEF NewItems, MatcherKeys
    <2> QED BY <2>1 DEF Match, MapTold
  <1> HIDE DEF name, at
  <1>17. \E nm \in [C -> MatcherIds], to \in [C -> batch] :
            /\ \A w \in C : Contract!Ends(to[w], w, head) /\ <<nm[w], to[w]>> \notin MapCalls
            /\ \A v, w \in C : nm[v] = nm[w] => v = w
            /\ MapCalls' = MapCalls \cup {<<nm[w], to[w]>> : w \in C}
    BY <1>7, <1>8, <1>9, <1>10
  <1>18. MapSettling = batch /\ MapSettling' = {} /\ fresh' = {} BY DEF Match, MapSettling
  <1> QED BY <1>11, <1>13, <1>15, <1>16, <1>17, <1>18
          DEF C, Contract!Settle, MapType, MapClosed, MapTold, MapCalls, MapSettling

LEMMA EmptyMatchContract == ASSUME IInv, Match, batch = {} PROVE Contract!GiveUp
  <1>1. NewItems = {} /\ Taken = {} BY DEF NewItems, Taken
  <1>2. items' = items /\ MapSettling' = {} /\ fresh' = {} BY <1>1 DEF Match, MapSettling
  <1>3. wait' = wait BY <1>1 DEF Match, Fire, IInv, TypeOK
  <1>4. events' = events BY DEF Match, Processed, IInv, TypeOK
  <1>5. UNCHANGED <<MapType, MapClosed, MapTold, MapCalls>>
    BY <1>2, <1>4 DEF MapType, MapClosed, MapTold, MapCalls, Recorded, Unprocessed
  <1> QED BY <1>2, <1>3, <1>5
          DEF Contract!GiveUp, MapType, MapClosed, MapTold, MapCalls, MapSettling

LEMMA NextContract ==
  ASSUME Registrations PROVE IInv /\ [Next]_vars => [Contract!Next]_(Contract!vars)
  <1> SUFFICES ASSUME IInv, [Next]_vars PROVE Contract!Next \/ UNCHANGED MapVars
    BY DEF Contract!vars, MapVars, MapType, MapClosed, MapTold, MapCalls, MapSettling
  <1>1. ASSUME NEW t \in Types \ {TimeoutType}, RecordEvent(t) PROVE Contract!Next
    BY <1>1, RecordEventContract DEF Contract!Next
  <1>2. ASSUME NEW w \in Waits, RegisterMatcher(w) PROVE Contract!Next
    BY <1>2, RegisterMatcherContract DEF Contract!Next
  <1>3. CASE SelectForSubscriptions BY <1>3, StutterContract DEF SelectForSubscriptions
  <1>4. CASE RunActions BY <1>4, RunActionsContract DEF Contract!Next
  <1>5. CASE SelectForMatchers BY <1>5, StutterContract DEF SelectForMatchers
  <1>6. CASE LookUp
    <2>1. PICK E : E = batch OBVIOUS
    <2>2. E \in SUBSET Contract!Open BY <1>6, <2>1, MapOpen DEF LookUp, IInv, PassesAgree
    <2>3. Contract!Begin(E) BY <1>6, <2>1, LookUpContract
    <2> QED BY <2>2, <2>3 DEF Contract!Next
  <1>11. CASE Match
    <2>1. CASE batch = {} BY <1>11, <2>1, EmptyMatchContract DEF Contract!Next
    <2>2. CASE batch # {}
      <3>1. PICK head \in batch : First(head) BY <2>2, BatchHasFirst DEF IInv, TypeOK
      <3>2. Contract!Settle(head) BY <1>11, <3>1, MatchContract
      <3>3. MapSettling = batch BY <1>11 DEF Match, MapSettling
      <3> QED BY <3>2, <3>3 DEF Contract!Next, MapSettling
    <2> QED BY <2>1, <2>2
  <1>7. ASSUME NEW m \in MatcherIds, Expire(m) PROVE Contract!Next
    BY <1>7, ExpireContract DEF Contract!Next
  <1>8. CASE NextIteration BY <1>8, StutterContract DEF NextIteration
  <1>9. CASE Crash BY <1>9, CrashContract DEF Contract!Next
  <1>10. CASE UNCHANGED vars
    BY <1>10 DEF vars, MapVars, MapType, MapClosed, MapTold, MapCalls, MapSettling,
                 Recorded, Unprocessed
  <1> QED BY <1>1, <1>2, <1>3, <1>4, <1>5, <1>6, <1>7, <1>8, <1>9, <1>10, <1>11 DEF Next

(* The pipeline keeps its contract: whatever crashes, whoever records      *)
(* events and registers matchers meanwhile, process_events closes no event *)
(* over the head of a matcher that was armed when the pass looked matchers *)
(* up or before the event was recorded, calls every registration that an   *)
(* event ends exactly once, and tells subscriptions of open events only.   *)
THEOREM PipelineKeepsContract == Spec => KeepsContract
  <1>1. Init => IInv /\ Contract!Init BY InitIInv, InitContract, RegistrationsHold
  <1>2. IInv /\ [Next]_vars => IInv' BY NextIInv, RegistrationsHold
  <1>3. IInv /\ [Next]_vars => [Contract!Next]_(Contract!vars)
    BY NextContract, RegistrationsHold
  <1> QED BY <1>1, <1>2, <1>3, PTL DEF Spec, KeepsContract, Contract!Spec
=============================================================================
