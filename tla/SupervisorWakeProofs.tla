------------------------ MODULE SupervisorWakeProofs ------------------------
(***************************************************************************)
(* A recorded failure is in exactly one place, and one that waits on the   *)
(* list has a wake coming, for any number of children, any number of ends  *)
(* of the process and any interleaving.                                    *)
(***************************************************************************)
EXTENDS SupervisorWake, FiniteSetTheorems, TLAPS

Held(c)      == \E i \in items \cup agents : c \in i
InTransit(c) == stage = "cleared" /\ c \in got

(* Two dispatches never carry the same record.                             *)
HeldOnce(c) ==
    /\ \A i, j \in items \cup agents : c \in i /\ c \in j => i = j
    /\ \A i \in items \cap agents : c \notin i

(* RecordsKept without counting.                                           *)
InOnePlace(c) ==
    /\ Held(c) \/ c \in list \/ InTransit(c) \/ c \in heard
    /\ Held(c) => c \notin list /\ ~InTransit(c) /\ c \notin heard
    /\ c \in list => ~InTransit(c) /\ c \notin heard
    /\ InTransit(c) => c \notin heard

Nowhere(c) == ~Held(c) /\ c \notin list /\ ~InTransit(c) /\ c \notin heard

(* What holds of a record that none of the windows has touched.            *)
Sound(c) ==
    /\ HeldOnce(c)
    /\ child[c] # "unheard"
    /\ child[c] \in {"appended", "told"} => InOnePlace(c)
    /\ child[c] \in {"running", "failed", "noticed", "read"} => Nowhere(c)
    /\ stage = "read" /\ c \in got => c \in list

AllSound == \A c \in Children : c \in excused \/ Sound(c)

(* Without a wake to come, whoever appended a record is about to enqueue   *)
(* one.                                                                    *)
ListAwaited ==
    \/ wake # "none" /\ stage # "cleared"
    \/ \A c \in list : c \in excused \/ child[c] = "appended"

Core == TypeOK /\ AllSound /\ ListAwaited

(* A process that is down runs no handler.                                 *)
DownIdle == ~up => stage = "idle"

IInv == Core /\ DownIdle

-----------------------------------------------------------------------------
LEMMA InitIInv == ASSUME MaxStops \in Nat PROVE Init => IInv
  <1> SUFFICES ASSUME Init PROVE IInv OBVIOUS
  <1>1. TypeOK BY DEF Init, TypeOK, ChildStates
  <1>2. AllSound BY DEF Init, AllSound, Sound, HeldOnce, InOnePlace, Nowhere, Held, InTransit
  <1>3. ListAwaited BY DEF Init, ListAwaited
  <1>4. DownIdle BY DEF Init, DownIdle
  <1> QED BY <1>1, <1>2, <1>3, <1>4 DEF IInv, Core

(* A step of one child that touches nothing but the child's own place.     *)
LEMMA ChildStep ==
  ASSUME Core, NEW c \in Children,
         UNCHANGED <<list, wake, stage, got, items, agents, heard, status, up, stops, retry_row>>,
         NEW s \in ChildStates, child' = [child EXCEPT ![c] = s],
         snap' \in [Children -> SUBSET Children],
         excused \subseteq excused', excused' \subseteq Children,
         \/ c \in excused'
         \/ child[c] \in {"running", "failed", "noticed", "read"} /\ s \in {"failed", "noticed", "read"},
         child[c] # "appended"
  PROVE  Core'
  <1>1. TypeOK' BY DEF Core, TypeOK
  <1>2. AllSound'
    <2> SUFFICES ASSUME NEW d \in Children, d \notin excused' PROVE Sound(d)' BY DEF AllSound
    <2>1. Sound(d) BY DEF Core, AllSound
    <2>2. child'[d] = IF d = c THEN s ELSE child[d] BY DEF Core, TypeOK
    <2>3. d = c => /\ child[c] \in {"running", "failed", "noticed", "read"}
                   /\ s \in {"failed", "noticed", "read"}
      OBVIOUS
    <2> QED BY <2>1, <2>2, <2>3 DEF Sound, HeldOnce, InOnePlace, Nowhere, Held, InTransit
  <1>3. ListAwaited'
    <2>1. \A d \in Children : child[d] = "appended" => child'[d] = "appended" BY DEF Core, TypeOK
    <2> QED BY <2>1 DEF Core, ListAwaited, TypeOK
  <1> QED BY <1>1, <1>2, <1>3 DEF Core

LEMMA ChildFailsStep == ASSUME Core, NEW c \in Children, ChildFails(c) PROVE Core'
  <1>1. "failed" \in ChildStates BY DEF ChildStates
  <1> QED BY <1>1, ChildStep DEF ChildFails, Core, TypeOK, waking, serving, life

LEMMA NoticeFindsStep == ASSUME Core, NEW c \in Children, NoticeFinds(c) PROVE Core'
  <1>1. "noticed" \in ChildStates BY DEF ChildStates
  <1> QED BY <1>1, ChildStep DEF NoticeFinds, Core, TypeOK, waking, serving, life

LEMMA NoticeReadsStep == ASSUME Core, NEW c \in Children, NoticeReads(c) PROVE Core'
  <1>1. "read" \in ChildStates BY DEF ChildStates
  <1> QED BY <1>1, ChildStep DEF NoticeReads, Core, TypeOK, waking, serving, life

LEMMA NoticeSkippedStep == ASSUME Core, NEW c \in Children, NoticeSkipped(c) PROVE Core'
  <1>1. "unheard" \in ChildStates BY DEF ChildStates
  <1> QED BY <1>1, ChildStep DEF NoticeSkipped, Core, TypeOK, waking, serving, life

(* The list as read: whoever is on one of the two lists only is excused.   *)
LEMMA NoticeAppendsStep == ASSUME Core, NEW c \in Children, NoticeAppends(c) PROVE Core'
  <1>1. /\ child[c] = "read" /\ child' = [child EXCEPT ![c] = "appended"]
        /\ list' = snap[c] \cup {c}
        /\ excused' = excused \cup (list \ snap[c]) \cup (snap[c] \ list)
        /\ snap' = [snap EXCEPT ![c] = {}]
        /\ UNCHANGED <<wake, stage, got, items, agents, heard, status, up, stops, retry_row>>
    BY DEF NoticeAppends, Appended, waking, serving, life
  <1>2. snap[c] \subseteq Children BY DEF Core, TypeOK
  <1>3. TypeOK'
    <2>1. child' \in [Children -> ChildStates] BY <1>1 DEF Core, TypeOK, ChildStates
    <2>2. snap' \in [Children -> SUBSET Children] BY <1>1 DEF Core, TypeOK
    <2>3. list' \subseteq Children /\ excused' \subseteq Children BY <1>1, <1>2 DEF Core, TypeOK
    <2> QED BY <1>1, <2>1, <2>2, <2>3 DEF Core, TypeOK
  <1>4. AllSound'
    <2> SUFFICES ASSUME NEW d \in Children, d \notin excused' PROVE Sound(d)' BY DEF AllSound
    <2>1. Sound(d) BY <1>1 DEF Core, AllSound
    <2>2. d \in list' <=> d \in list \/ d = c BY <1>1
    <2>3. child'[d] = IF d = c THEN "appended" ELSE child[d] BY <1>1 DEF Core, TypeOK
    <2>4. Held(d)' = Held(d) /\ InTransit(d)' = InTransit(d) /\ HeldOnce(d)'
      BY <1>1, <2>1 DEF Held, InTransit, Sound, HeldOnce
    <2> QED BY <1>1, <2>1, <2>2, <2>3, <2>4 DEF Sound, InOnePlace, Nowhere
  <1>5. ListAwaited'
    <2>1. \A d \in Children : child[d] = "appended" => child'[d] = "appended"
      BY <1>1 DEF Core, TypeOK
    <2>2. child'[c] = "appended" BY <1>1 DEF Core, TypeOK
    <2>3. \A d \in list' : d = c \/ d \in list \/ d \in excused' BY <1>1
    <2> QED BY <1>1, <1>2, <2>1, <2>2, <2>3 DEF Core, ListAwaited, TypeOK
  <1> QED BY <1>3, <1>4, <1>5 DEF Core
(* A step that leaves the children, the list and the dispatches alone and  *)
(* only excuses more.                                                      *)
LEMMA TellStep ==
  ASSUME Core, NEW c \in Children, child[c] = "appended",
         child' = [child EXCEPT ![c] = "told"],
         UNCHANGED <<snap, list, stage, got, items, agents, heard, status, up, stops, retry_row>>,
         wake' \in {"none", "pending", "claimed"}, stage # "idle" => wake' = "claimed",
         excused \subseteq excused', excused' \subseteq Children,
         \/ wake' # "none" /\ stage # "cleared"
         \/ list \subseteq excused'
  PROVE  Core'
  <1>1. child' \in [Children -> ChildStates] BY DEF Core, TypeOK, ChildStates
  <1>2. TypeOK' BY <1>1 DEF Core, TypeOK
  <1>3. AllSound'
    <2> SUFFICES ASSUME NEW d \in Children, d \notin excused' PROVE Sound(d)' BY DEF AllSound
    <2>1. Sound(d) BY DEF Core, AllSound
    <2>2. child'[d] = IF d = c THEN "told" ELSE child[d] BY DEF Core, TypeOK
    <2> QED BY <2>1, <2>2 DEF Sound, HeldOnce, InOnePlace, Nowhere, Held, InTransit
  <1>4. ListAwaited' BY DEF ListAwaited
  <1> QED BY <1>2, <1>3, <1>4 DEF Core

LEMMA NoticeEnqueuesStep == ASSUME Core, NEW c \in Children, NoticeEnqueues(c) PROVE Core'
  <1>1. /\ child[c] = "appended" /\ child' = [child EXCEPT ![c] = "told"]
        /\ wake' = WakeEnqueued
        /\ excused' = IF stage = "cleared" THEN excused \cup list ELSE excused
        /\ UNCHANGED <<snap, list, stage, got, items, agents, heard, status, up, stops, retry_row>>
    BY DEF NoticeEnqueues, serving, life
  <1>2. /\ wake' \in {"pending", "claimed"} /\ (stage # "idle" => wake' = "claimed")
    BY <1>1 DEF WakeEnqueued, Core, TypeOK
  <1>3. excused \subseteq excused' /\ excused' \subseteq Children BY <1>1 DEF Core, TypeOK
  <1>4. (wake' # "none" /\ stage # "cleared") \/ list \subseteq excused' BY <1>1, <1>2
  <1> QED BY <1>1, <1>2, <1>3, <1>4, TellStep

LEMMA NoticeFailsStep == ASSUME Core, NEW c \in Children, NoticeFails(c) PROVE Core'
  <1>1. /\ child[c] = "appended" /\ child' = [child EXCEPT ![c] = "told"]
        /\ wake' = wake /\ excused' = excused \cup list
        /\ UNCHANGED <<snap, list, stage, got, items, agents, heard, status, up, stops, retry_row>>
    BY DEF NoticeFails, waking, serving, life
  <1>2. wake' \in {"none", "pending", "claimed"} /\ (stage # "idle" => wake' = "claimed")
    BY <1>1 DEF Core, TypeOK
  <1>3. excused \subseteq excused' /\ excused' \subseteq Children BY <1>1 DEF Core, TypeOK
  <1> QED BY <1>1, <1>2, <1>3, TellStep

-----------------------------------------------------------------------------
(* The wake's handler.                                                     *)
LEMMA ClaimWakeStep == ASSUME Core, ClaimWake PROVE Core'
  <1>1. /\ wake = "pending" /\ wake' = "claimed" /\ stage' = "taken"
        /\ UNCHANGED <<child, snap, list, got, items, agents, heard, status, up, stops, retry_row, excused>>
    BY DEF ClaimWake, failing, serving, life
  <1>2. stage = "idle" BY <1>1 DEF Core, TypeOK
  <1>3. TypeOK' BY <1>1 DEF Core, TypeOK
  <1>4. AllSound'
    BY <1>1, <1>2 DEF Core, AllSound, Sound, HeldOnce, InOnePlace, Nowhere, Held, InTransit
  <1>5. ListAwaited' BY <1>1 DEF ListAwaited
  <1> QED BY <1>3, <1>4, <1>5 DEF Core

LEMMA WakeSkipsStep == ASSUME Core, WakeSkips PROVE Core'
  <1>1. /\ stage = "taken" /\ wake' = "none" /\ stage' = "idle" /\ excused' = excused \cup list
        /\ UNCHANGED <<child, snap, list, got, items, agents, heard, status, up, stops, retry_row>>
    BY DEF WakeSkips, failing, serving, life
  <1>2. TypeOK' BY <1>1 DEF Core, TypeOK
  <1>3. AllSound'
    BY <1>1 DEF Core, AllSound, Sound, HeldOnce, InOnePlace, Nowhere, Held, InTransit
  <1>4. ListAwaited' BY <1>1 DEF ListAwaited
  <1> QED BY <1>2, <1>3, <1>4 DEF Core

LEMMA WakeReadsStep == ASSUME Core, WakeReads PROVE Core'
  <1>1. /\ stage = "taken" /\ got' = list /\ stage' = "read"
        /\ UNCHANGED <<child, snap, list, wake, items, agents, heard, status, up, stops, retry_row, excused>>
    BY DEF WakeReads, failing, serving, life
  <1>2. TypeOK' BY <1>1 DEF Core, TypeOK
  <1>3. AllSound'
    BY <1>1 DEF Core, AllSound, Sound, HeldOnce, InOnePlace, Nowhere, Held, InTransit
  <1>4. ListAwaited' BY <1>1 DEF Core, TypeOK, ListAwaited
  <1> QED BY <1>2, <1>3, <1>4 DEF Core

LEMMA WakeClearsStep == ASSUME Core, WakeClears PROVE Core'
  <1>1. /\ stage = "read" /\ list' = {} /\ stage' = "cleared" /\ excused' = excused \cup (list \ got)
        /\ UNCHANGED <<child, snap, wake, got, items, agents, heard, status, up, stops, retry_row>>
    BY DEF WakeClears, Cleared, failing, serving, life
  <1>2. TypeOK' BY <1>1 DEF Core, TypeOK
  <1>3. AllSound'
    <2> SUFFICES ASSUME NEW d \in Children, d \notin excused' PROVE Sound(d)' BY DEF AllSound
    <2>1. Sound(d) BY <1>1 DEF Core, AllSound
    <2>2. d \in list <=> d \in got BY <1>1, <2>1 DEF Sound
    <2>3. InTransit(d)' <=> d \in list BY <1>1, <2>2 DEF InTransit
    <2>4. ~InTransit(d) BY <1>1 DEF InTransit
    <2>5. (Held(d)' <=> Held(d)) /\ HeldOnce(d)' BY <1>1, <2>1 DEF Held, HeldOnce, Sound
    <2> QED BY <1>1, <2>1, <2>2, <2>3, <2>4, <2>5 DEF Sound, InOnePlace, Nowhere
  <1>4. ListAwaited' BY <1>1 DEF ListAwaited
  <1> QED BY <1>2, <1>3, <1>4 DEF Core

(* The records go from the handler's hands into one new dispatch, which no *)
(* untouched record was in before.                                         *)
LEMMA WakeDispatchesStep == ASSUME Core, WakeDispatches PROVE Core'
  <1>1. /\ stage = "cleared" /\ wake' = "none" /\ stage' = "idle" /\ got' = {}
        /\ items' = IF got = {} THEN items ELSE items \cup {got}
        /\ UNCHANGED <<child, snap, list, agents, heard, status, up, stops, retry_row, excused>>
    BY DEF WakeDispatches, failing, life
  <1>2. TypeOK'
    <2>1. items' \subseteq SUBSET Children /\ {} \notin items' \cup agents'
      BY <1>1 DEF Core, TypeOK
    <2> QED BY <1>1, <2>1 DEF Core, TypeOK
  <1>3. AllSound'
    <2> SUFFICES ASSUME NEW d \in Children, d \notin excused PROVE Sound(d)'
      BY <1>1 DEF AllSound
    <2>1. Sound(d) BY DEF Core, AllSound
    <2>2. \A i \in items' : d \in i => i \in items \/ (i = got /\ d \in got) BY <1>1
    <2>3. items \subseteq items' /\ (d \in got => got \in items') BY <1>1
    <2>4. InTransit(d) <=> d \in got BY <1>1 DEF InTransit
    <2>5. d \in got => ~Held(d) BY <2>1, <2>4, <1>2
      DEF Sound, InOnePlace, Nowhere, Core, TypeOK, ChildStates
    <2>6. Held(d)' <=> Held(d) \/ d \in got BY <1>1, <2>2, <2>3 DEF Held
    <2>7. HeldOnce(d)'
      <3>1. CASE d \in got
        <4>1. \A i \in items \cup agents : d \notin i BY <2>5, <3>1 DEF Held
        <4> QED BY <1>1, <2>2, <4>1 DEF HeldOnce
      <3>2. CASE d \notin got
        <4>1. \A i \in items' : d \in i => i \in items BY <2>2, <3>2
        <4> QED BY <1>1, <2>1, <4>1 DEF HeldOnce, Sound
      <3> QED BY <3>1, <3>2
    <2>8. ~InTransit(d)' BY <1>1 DEF InTransit
    <2> QED BY <1>1, <2>1, <2>4, <2>5, <2>6, <2>7, <2>8 DEF Sound, InOnePlace, Nowhere
  <1>4. ListAwaited' BY <1>1 DEF Core, ListAwaited
  <1> QED BY <1>2, <1>3, <1>4 DEF Core

LEMMA WakeRaisesStep == ASSUME Core, WakeRaises PROVE Core'
  <1>1. /\ stage = "cleared" /\ wake' = "pending" /\ stage' = "idle" /\ got' = {}
        /\ excused' = excused \cup got
        /\ UNCHANGED <<child, snap, list, items, agents, heard, status, up, stops, retry_row>>
    BY DEF WakeRaises, failing, serving, life
  <1>2. TypeOK' BY <1>1 DEF Core, TypeOK
  <1>3. AllSound'
    BY <1>1 DEF Core, AllSound, Sound, HeldOnce, InOnePlace, Nowhere, Held, InTransit
  <1>4. ListAwaited' BY <1>1 DEF ListAwaited
  <1> QED BY <1>2, <1>3, <1>4 DEF Core

-----------------------------------------------------------------------------
(* The dispatches and the process.                                         *)
LEMMA RunAgentStep == ASSUME Core, NEW i, RunAgent(i) PROVE Core'
  <1>1. /\ i \in items /\ items' = items \ {i} /\ agents' = agents \cup {i} /\ status' = "active"
        /\ UNCHANGED <<child, snap, list, wake, stage, got, heard, up, stops, retry_row, excused>>
    BY DEF RunAgent, failing, waking, life
  <1>2. items' \cup agents' = items \cup agents BY <1>1
  <1>3. TypeOK' BY <1>1 DEF Core, TypeOK
  <1>4. AllSound'
    <2> SUFFICES ASSUME NEW d \in Children, d \notin excused PROVE Sound(d)'
      BY <1>1 DEF AllSound
    <2>1. Sound(d) BY DEF Core, AllSound
    <2>2. Held(d)' <=> Held(d) BY <1>2 DEF Held
    <2>3. HeldOnce(d)' BY <1>1, <1>2, <2>1 DEF HeldOnce, Sound
    <2> QED BY <1>1, <2>1, <2>2, <2>3 DEF Sound, InOnePlace, Nowhere, InTransit
  <1>5. ListAwaited' BY <1>1 DEF Core, ListAwaited
  <1> QED BY <1>3, <1>4, <1>5 DEF Core

(* A dispatch that goes takes its records along: skipped, raised or told.  *)
LEMMA LeaveStep ==
  ASSUME Core, NEW i, TypeOK',
         UNCHANGED <<child, snap, list, wake, stage, got, up, stops, retry_row>>,
         \/ i \in items /\ items' = items \ {i} /\ agents' = agents
         \/ i \in agents /\ agents' = agents \ {i} /\ items' = items,
         \/ heard' = heard /\ excused' = excused \cup i
         \/ heard' = heard \cup i /\ excused' = excused
  PROVE  Core'
  <1>1. AllSound'
    <2> SUFFICES ASSUME NEW d \in Children, d \notin excused' PROVE Sound(d)' BY DEF AllSound
    <2>1. Sound(d) BY DEF Core, AllSound
    <2>2. HeldOnce(d)' BY <2>1 DEF HeldOnce, Sound
    <2>3. CASE d \notin i
      <3>1. Held(d)' <=> Held(d) BY <2>3 DEF Held
      <3>2. d \in heard' <=> d \in heard BY <2>3
      <3> QED BY <2>1, <2>2, <3>1, <3>2 DEF Sound, InOnePlace, Nowhere, InTransit
    <2>4. CASE d \in i
      <3>1. heard' = heard \cup i BY <2>4
      <3>2. Held(d) BY <2>4 DEF Held
      <3>3. ~Held(d)' BY <2>1, <2>4 DEF Held, HeldOnce, Sound
      <3>4. d \in heard' BY <2>4, <3>1
      <3> QED BY <2>1, <2>2, <3>2, <3>3, <3>4 DEF Sound, InOnePlace, Nowhere, InTransit
    <2> QED BY <2>3, <2>4
  <1>2. ListAwaited' BY DEF Core, ListAwaited
  <1> QED BY <1>1, <1>2 DEF Core

LEMMA SkipDispatchStep == ASSUME Core, NEW i, SkipDispatch(i) PROVE Core'
  <1>1. /\ i \in items /\ items' = items \ {i} /\ excused' = excused \cup i
        /\ UNCHANGED <<child, snap, list, wake, stage, got, agents, heard, status, up, stops, retry_row>>
    BY DEF SkipDispatch, failing, waking, life
  <1>2. TypeOK' BY <1>1 DEF Core, TypeOK
  <1> QED BY <1>1, <1>2, LeaveStep

LEMMA AgentReturnsStep == ASSUME Core, NEW i, AgentReturns(i) PROVE Core'
  <1>1. /\ i \in agents /\ agents' = agents \ {i} /\ heard' = heard \cup i /\ status' = Frozen
        /\ UNCHANGED <<child, snap, list, wake, stage, got, items, up, stops, retry_row, excused>>
    BY DEF AgentReturns, failing, waking, life
  <1>2. TypeOK' BY <1>1 DEF Core, TypeOK, Frozen
  <1> QED BY <1>1, <1>2, LeaveStep

LEMMA AgentRaisesStep == ASSUME Core, NEW i, AgentRaises(i) PROVE Core'
  <1>1. /\ i \in agents /\ agents' = agents \ {i} /\ excused' = excused \cup i
        /\ status' \in {Frozen, "failed"}
        /\ UNCHANGED <<child, snap, list, wake, stage, got, items, heard, up, stops, retry_row>>
    BY DEF AgentRaises, failing, waking, life
  <1>2. TypeOK' BY <1>1 DEF Core, TypeOK, Frozen
  <1> QED BY <1>1, <1>2, LeaveStep

LEMMA CrashStep == ASSUME MaxStops \in Nat, Core, Crash PROVE Core'
  <1>1. /\ up' = FALSE /\ stops < MaxStops /\ stops' = stops + 1 /\ stage' = "idle" /\ got' = {}
        /\ snap' = [c \in Children |-> {}]
        /\ child' = [c \in Children |->
               IF child[c] \in {"failed", "noticed", "read"} THEN "unheard"
               ELSE IF child[c] = "appended" THEN "told" ELSE child[c]]
        /\ UNCHANGED <<list, wake, items, agents, heard, status, retry_row>>
    BY DEF Crash, serving
  <1>2. excused' = excused
           \cup {c \in Children : child[c] \in {"failed", "noticed", "read"}}
           \cup (IF wake = "none" THEN {c \in Children : child[c] = "appended"} ELSE {})
           \cup (IF stage = "cleared" THEN got ELSE {})
    BY DEF Crash
  <1>3. TypeOK'
    <2>1. child' \in [Children -> ChildStates] BY <1>1 DEF Core, TypeOK, ChildStates
    <2>2. stops' \in 0 .. MaxStops BY <1>1 DEF Core, TypeOK
    <2>3. excused' \subseteq Children BY <1>2 DEF Core, TypeOK
    <2>4. up' \in BOOLEAN BY <1>1
    <2> QED BY <1>1, <2>1, <2>2, <2>3, <2>4 DEF Core, TypeOK
  <1>4. AllSound'
    <2> SUFFICES ASSUME NEW d \in Children, d \notin excused' PROVE Sound(d)' BY DEF AllSound
    <2>1. Sound(d) BY <1>2 DEF Core, AllSound
    <2>2. /\ child[d] \notin {"failed", "noticed", "read"}
          /\ stage = "cleared" => d \notin got
      BY <1>2
    <2>3. child'[d] = IF child[d] = "appended" THEN "told" ELSE child[d] BY <1>1, <2>2
    <2>4. ~InTransit(d) /\ ~InTransit(d)' BY <1>1, <2>2 DEF InTransit
    <2>5. Held(d)' <=> Held(d) BY <1>1 DEF Held
    <2>6. HeldOnce(d)' BY <1>1, <2>1 DEF Sound, HeldOnce
    <2> QED BY <1>1, <2>1, <2>3, <2>4, <2>5, <2>6 DEF Sound, InOnePlace, Nowhere
  <1>5. ListAwaited'
    <2>1. CASE wake # "none" BY <1>1, <2>1 DEF ListAwaited
    <2>2. CASE wake = "none"
      <3>1. \A c \in list : c \in excused \/ child[c] = "appended" BY <2>2 DEF Core, ListAwaited
      <3>2. \A c \in list : c \in excused' BY <1>2, <2>2, <3>1 DEF Core, TypeOK
      <3> QED BY <1>1, <3>2 DEF ListAwaited
    <2> QED BY <2>1, <2>2
  <1> QED BY <1>3, <1>4, <1>5 DEF Core

LEMMA RecoverStep == ASSUME Core, DownIdle, Recover PROVE Core'
  <1>1. /\ up' = TRUE /\ ~up /\ wake' = IF wake = "claimed" THEN "pending" ELSE wake
        /\ items' = items \cup agents /\ agents' = {}
        /\ status' = IF status = "active" \/ (status = "waiting" /\ retry_row)
                      THEN "pending" ELSE status
        /\ UNCHANGED <<child, snap, list, stage, got, heard, stops, retry_row, excused>>
    BY DEF Recover, failing
  <1>2. stage = "idle" BY <1>1 DEF DownIdle
  <1>3. items' \cup agents' = items \cup agents BY <1>1
  <1>4. TypeOK'
    <2>1. wake' \in {"none", "pending", "claimed"} BY <1>1 DEF Core, TypeOK
    <2>2. status' \in {"waiting", "active", "pending", "failed"} BY <1>1 DEF Core, TypeOK
    <2>3. up' \in BOOLEAN BY <1>1
    <2> QED BY <1>1, <1>2, <1>3, <2>1, <2>2, <2>3 DEF Core, TypeOK
  <1>5. AllSound'
    <2> SUFFICES ASSUME NEW d \in Children, d \notin excused PROVE Sound(d)'
      BY <1>1 DEF AllSound
    <2>1. Sound(d) BY DEF Core, AllSound
    <2>2. Held(d)' <=> Held(d) BY <1>3 DEF Held
    <2>3. HeldOnce(d)' BY <1>1, <1>3, <2>1 DEF Sound, HeldOnce
    <2> QED BY <1>1, <2>1, <2>2, <2>3 DEF Sound, InOnePlace, Nowhere, InTransit
  <1>6. ListAwaited' BY <1>1 DEF Core, ListAwaited
  <1> QED BY <1>4, <1>5, <1>6 DEF Core

LEMMA StutterStep == ASSUME Core, UNCHANGED vars PROVE Core'
  <1>1. UNCHANGED <<child, snap, list, wake, stage, got, items, agents, heard, status, up, stops, retry_row, excused>>
    BY DEF vars, failing, waking, serving, life
  <1>2. TypeOK' BY <1>1 DEF Core, TypeOK
  <1>3. AllSound'
    BY <1>1 DEF Core, AllSound, Sound, HeldOnce, InOnePlace, Nowhere, Held, InTransit
  <1>4. ListAwaited' BY <1>1 DEF Core, ListAwaited
  <1> QED BY <1>2, <1>3, <1>4 DEF Core

LEMMA DownIdleStep == ASSUME Core, DownIdle, [Next]_vars PROVE DownIdle'
  <1>1. CASE \E c \in Children :
               \/ ChildFails(c) \/ NoticeFinds(c) \/ NoticeSkipped(c) \/ NoticeReads(c)
               \/ NoticeAppends(c) \/ NoticeEnqueues(c) \/ NoticeFails(c)
    BY <1>1 DEF ChildFails, NoticeFinds, NoticeSkipped, NoticeReads, NoticeAppends,
                NoticeEnqueues, NoticeFails, DownIdle, waking, life
  <1>2. CASE ClaimWake \/ WakeSkips \/ WakeReads \/ WakeClears \/ WakeDispatches \/ WakeRaises
    BY <1>2 DEF ClaimWake, WakeSkips, WakeReads, WakeClears, WakeDispatches, WakeRaises,
                DownIdle, life
  <1>3. CASE \E i \in SUBSET Children :
               RunAgent(i) \/ SkipDispatch(i) \/ AgentReturns(i) \/ AgentRaises(i)
    BY <1>3 DEF RunAgent, SkipDispatch, AgentReturns, AgentRaises, DownIdle, waking, life
  <1>4. CASE Crash \/ Recover BY <1>4 DEF Crash, Recover, DownIdle
  <1>5. CASE UNCHANGED vars BY <1>5 DEF vars, DownIdle, waking, life
  <1> QED BY <1>1, <1>2, <1>3, <1>4, <1>5 DEF Next

LEMMA NextIInv == ASSUME MaxStops \in Nat PROVE IInv /\ [Next]_vars => IInv'
  <1> SUFFICES ASSUME Core, DownIdle, [Next]_vars PROVE Core'
    BY DownIdleStep DEF IInv
  <1>1. ASSUME NEW c \in Children, ChildFails(c) PROVE Core' BY <1>1, ChildFailsStep
  <1>2. ASSUME NEW c \in Children, NoticeFinds(c) PROVE Core' BY <1>2, NoticeFindsStep
  <1>3. ASSUME NEW c \in Children, NoticeSkipped(c) PROVE Core' BY <1>3, NoticeSkippedStep
  <1>4. ASSUME NEW c \in Children, NoticeReads(c) PROVE Core' BY <1>4, NoticeReadsStep
  <1>5. ASSUME NEW c \in Children, NoticeAppends(c) PROVE Core' BY <1>5, NoticeAppendsStep
  <1>6. ASSUME NEW c \in Children, NoticeEnqueues(c) PROVE Core' BY <1>6, NoticeEnqueuesStep
  <1>7. ASSUME NEW c \in Children, NoticeFails(c) PROVE Core' BY <1>7, NoticeFailsStep
  <1>8. CASE ClaimWake BY <1>8, ClaimWakeStep
  <1>9. CASE WakeSkips BY <1>9, WakeSkipsStep
  <1>10. CASE WakeReads BY <1>10, WakeReadsStep
  <1>11. CASE WakeClears BY <1>11, WakeClearsStep
  <1>12. CASE WakeDispatches BY <1>12, WakeDispatchesStep
  <1>13. CASE WakeRaises BY <1>13, WakeRaisesStep
  <1>14. ASSUME NEW i \in SUBSET Children, RunAgent(i) PROVE Core' BY <1>14, RunAgentStep
  <1>15. ASSUME NEW i \in SUBSET Children, SkipDispatch(i) PROVE Core' BY <1>15, SkipDispatchStep
  <1>16. ASSUME NEW i \in SUBSET Children, AgentReturns(i) PROVE Core' BY <1>16, AgentReturnsStep
  <1>17. ASSUME NEW i \in SUBSET Children, AgentRaises(i) PROVE Core' BY <1>17, AgentRaisesStep
  <1>18. CASE Crash BY <1>18, CrashStep
  <1>19. CASE Recover BY <1>19, RecoverStep
  <1>20. CASE UNCHANGED vars BY <1>20, StutterStep
  <1> QED
    BY <1>1, <1>2, <1>3, <1>4, <1>5, <1>6, <1>7, <1>8, <1>9, <1>10, <1>11, <1>12, <1>13,
       <1>14, <1>15, <1>16, <1>17, <1>18, <1>19, <1>20 DEF Next

-----------------------------------------------------------------------------
(* Type correctness.                                                       *)
THEOREM WakeTyped == ASSUME MaxStops \in Nat PROVE Spec => []TypeOK
  <1>1. Init => IInv BY InitIInv
  <1>2. IInv /\ [Next]_vars => IInv' BY NextIInv
  <1>3. IInv => TypeOK BY DEF IInv, Core
  <1> QED BY <1>1, <1>2, <1>3, PTL DEF Spec

(* Every recorded failure that none of the named windows touched is in     *)
(* exactly one place, for any number of children and of ends of the        *)
(* process (manager._notify_supervisor_parent, handle_supervisor_wake).    *)
THEOREM NoRecordLostOrDoubled == ASSUME MaxStops \in Nat PROVE Spec => []RecordsKept
  <1>1. Init => IInv BY InitIInv
  <1>2. IInv /\ [Next]_vars => IInv' BY NextIInv
  <1>3. IInv => RecordsKept
    <2> SUFFICES ASSUME IInv, NEW c \in Recorded \ excused PROVE Places(c) = 1
      BY DEF RecordsKept
    <2>1. c \in Children /\ child[c] \in {"appended", "told"} BY DEF Recorded
    <2>2. Sound(c) /\ InOnePlace(c) BY <2>1 DEF IInv, Core, AllSound, Sound
    <2> DEFINE D == {i \in items \cup agents : c \in i}
    <2>3. Held(c) => Cardinality(D) = 1
      <3> SUFFICES ASSUME Held(c) PROVE Cardinality(D) = 1 OBVIOUS
      <3>1. PICK i \in items \cup agents : c \in i BY DEF Held
      <3>2. D = {i} BY <2>2, <3>1 DEF Sound, HeldOnce
      <3>3. Cardinality({i}) = 1 BY FS_Singleton
      <3> QED BY <3>2, <3>3
    <2>4. ~Held(c) => Cardinality(D) = 0
      <3> SUFFICES ASSUME ~Held(c) PROVE Cardinality(D) = 0 OBVIOUS
      <3>1. D = {} BY DEF Held
      <3> QED BY <3>1, FS_EmptySet
    <2>5. Places(c) = Cardinality(D) + (IF c \in list THEN 1 ELSE 0)
                      + (IF InTransit(c) THEN 1 ELSE 0) + (IF c \in heard THEN 1 ELSE 0)
      BY DEF Places, InTransit
    <2> HIDE DEF D
    <2> QED BY <2>2, <2>3, <2>4, <2>5 DEF InOnePlace
  <1> QED BY <1>1, <1>2, <1>3, PTL DEF Spec

(* A record that waits on the list is not forgotten: a wake is to come     *)
(* (the key supervisor_wake:<id>).                                         *)
THEOREM ListNotForgotten == ASSUME MaxStops \in Nat PROVE Spec => []WakeComing
  <1>1. Init => IInv BY InitIInv
  <1>2. IInv /\ [Next]_vars => IInv' BY NextIInv
  <1>3. IInv => WakeComing BY DEF IInv, Core, TypeOK, ListAwaited, WakeComing
  <1> QED BY <1>1, <1>2, <1>3, PTL DEF Spec
=============================================================================
