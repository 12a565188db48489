------------------------- MODULE ArcLifecycleProofs -------------------------
(***************************************************************************)
(* Frozen arcs stay as they are, steps run in their order, trees close     *)
(* together, no arc runs twice at a time and none is forgotten, but for    *)
(* the windows the properties name: for any plan, any number of arcs,      *)
(* threads, retries and restarts.                                          *)
(***************************************************************************)
EXTENDS ArcLifecycle, FiniteSetTheorems, TLAPS

Row     == [status : Open \cup Frozen \cup {"absent"},
            parent : 0 .. MaxArcs, step_order : 0 .. MaxArcs]
Verdict == {"completed", "failed", "waiting", "nothing"}

(* An item whose handler has not ended, and who may be behind one that     *)
(* comes to be: an item of the same arc, or steps that are done.           *)
Alive(i) == work[i] # "none" \/ i \in running \/ (loop.step # "idle" /\ loop.item = i)

Sources ==
    \A i \in Items : i[1] # "child_failed" /\ Alive(i)' =>
        \/ \E j \in Runs(i[2]) : Alive(j)
        \/ arcs'[i[2]].status # "absent" /\ check_dependencies(arcs', i[2])

(* What a step does to the row of an arc.                                  *)
SameRow(a) == arcs'[a].parent = arcs[a].parent /\ arcs'[a].step_order = arcs[a].step_order

ChildrenClosed(p) ==
    \A c \in Arcs : arcs'[c].status # "absent" /\ arcs'[c].parent = p => arcs'[c].status \in Frozen

Stays(a) == SameRow(a) /\ arcs'[a].status = arcs[a].status

Steps(a) ==
    /\ SameRow(a) /\ arcs[a].status \in Open /\ arcs'[a].status \in Open \cup Frozen
    /\ arcs'[a].status = "active" =>
          arcs[a].status # "pending" \/ \E i \in Runs(a) : work[i] = "pending"
    /\ arcs'[a].status = "completed" =>
          loop.step \in {"self", "parent"} /\ loop.at = a /\ loop.to = "completed"
    /\ arcs'[a].status = "cancelled" => ChildrenClosed(a)
    /\ arcs'[a].status = "pending" => restarts' # restarts

WrittenOver(a) ==
    /\ SameRow(a) /\ arcs[a].status \in Frozen /\ arcs'[a].status = "cancelled"
    /\ a \in overwritten' /\ ChildrenClosed(a)

Inserted(a) ==
    /\ arcs[a].status = "absent" /\ arcs'[a].status = "pending"
    /\ LET p == arcs'[a].parent
       IN  /\ p \in Arcs /\ (arcs[p].status \in Frozen \/ Deciding(p)) => a \in strays'
           /\ \A b \in Arcs : /\ arcs[b].status # "absent" /\ arcs[b].parent = p
                              /\ arcs'[a].step_order <= arcs[b].step_order
                => a \in twins'

Evolves ==
    /\ overwritten \subseteq overwritten' /\ strays \subseteq strays'
    /\ twins \subseteq twins' /\ late \subseteq late'
    /\ \A a \in Arcs : Stays(a) \/ Steps(a) \/ WrittenOver(a) \/ Inserted(a)

(* A tool call that is between its reads and its writes.                   *)
Calls ==
    \A t \in Threads :
        /\ call[t].op = "enqueue" => Exists(call[t].arc)
        /\ call[t].op = "cancel" => /\ Exists(call[t].arc)
                                    /\ call[t].open \subseteq {call[t].arc} \cup Below(call[t].arc)

-----------------------------------------------------------------------------
(* Facts about rows, items, the loop and calls.                            *)
LEMMA Items1 ==
  /\ \A i \in Items : i[2] \in Arcs /\ i = <<i[1], i[2]>>
  /\ \A a \in Arcs : Runs(a) \subseteq Items /\ <<"child_failed", a>> \in Items
  BY DEF Items, Kinds, Runs

LEMMA LoopFacts ==
  ASSUME TypeOK
  PROVE  /\ loop.step \in {"idle", "settle", "self", "parent"}
         /\ loop.step = "idle" <=> loop = Idle
         /\ loop.step # "idle" => loop.item \in Items
         /\ loop.step \in {"self", "parent"} => loop.at \in Arcs /\ loop.to \in Verdict
  BY DEF TypeOK, Idle, Verdict

LEMMA CallFacts ==
  ASSUME TypeOK, NEW t \in Threads
  PROVE  /\ call[t].op = "add" => call[t].parent \in Arcs /\ call[t].step_order \in 0 .. MaxArcs
         /\ call[t].op = "enqueue" => call[t].arc \in Arcs
         /\ call[t].op = "cancel" => call[t].arc \in Arcs /\ call[t].open \subseteq Arcs
  <1>1. call[t] \in {NoCall} \cup [op : {"add"}, parent : Arcs, step_order : 0 .. MaxArcs]
                      \cup [op : {"enqueue"}, arc : Arcs]
                      \cup [op : {"cancel"}, arc : Arcs, open : SUBSET Arcs]
    BY DEF TypeOK
  <1> QED BY <1>1 DEF NoCall

LEMMA MovedFacts ==
  ASSUME NEW A \in [Arcs -> Row], NEW a, NEW new \in Open \cup Frozen
  PROVE  /\ Moved(A, a, new) \in [Arcs -> Row]
         /\ \A b \in Arcs : /\ Moved(A, a, new)[b].status = IF b = a THEN new ELSE A[b].status
                            /\ Moved(A, a, new)[b].parent = A[b].parent
                            /\ Moved(A, a, new)[b].step_order = A[b].step_order
  BY DEF Moved, Row

LEMMA EnqueuedFacts ==
  ASSUME NEW W \in [Items -> {"none", "pending", "claimed"}], NEW S
  PROVE  /\ Enqueued(W, S) \in [Items -> {"none", "pending", "claimed"}]
         /\ \A i \in Items : Enqueued(W, S)[i] # "none" => W[i] # "none" \/ i \in S
         /\ \A i \in Items : i \notin S \/ W[i] # "none" => Enqueued(W, S)[i] = W[i]
  BY DEF Enqueued

LEMMA DecideFacts ==
  ASSUME NEW A, NEW a
  PROVE  /\ Decide(A, a) \in Verdict
         /\ Decide(A, a) = "completed" => \A c \in Children(A, a) : A[c].status \in Done
  BY DEF Decide, Verdict

LEMMA Statuses ==
  /\ Open \cap Frozen = {} /\ Done \subseteq Frozen
  /\ "absent" \notin Open \cup Frozen /\ {"pending", "active", "waiting"} = Open
  /\ {"completed", "failed", "cancelled"} \subseteq Frozen
  /\ "cancelled" \notin Done /\ "completed" \in Done
  BY DEF Open, Frozen, Done

LEMMA ReadyFacts ==
  ASSUME NEW A \in [Arcs -> Row], NEW p, NEW i \in ReadyChildren(A, p)
  PROVE  i \in Items /\ A[i[2]].status = "pending" /\ check_dependencies(A, i[2])
         /\ i = <<"dispatch", i[2]>>
  BY DEF ReadyChildren, Children, Items, Kinds

LEMMA NoticeFacts ==
  ASSUME NEW A, NEW c, NEW i \in Notice(A, c) PROVE i[1] = "child_failed"
  BY DEF Notice

-----------------------------------------------------------------------------
(* Steps that move one arc, or none.                                       *)
LEMMA MoveEvolves ==
  ASSUME TypeOK, NEW a, NEW new \in (Open \cup Frozen) \ {"cancelled", "pending"},
         arcs' = Moved(arcs, a, new), a \in Arcs => arcs[a].status \in Open,
         UNCHANGED <<overwritten, strays, twins>>, late \subseteq late',
         new = "active" => arcs[a].status # "pending" \/ \E i \in Runs(a) : work[i] = "pending",
         new = "completed" => loop.step \in {"self", "parent"} /\ loop.at = a
                              /\ loop.to = "completed"
  PROVE  arcs' \in [Arcs -> Row] /\ Evolves
  <1>1. arcs \in [Arcs -> Row] BY DEF TypeOK, Row
  <1>2. /\ arcs' \in [Arcs -> Row]
        /\ \A b \in Arcs : /\ arcs'[b].status = IF b = a THEN new ELSE arcs[b].status
                           /\ SameRow(b)
    BY <1>1, MovedFacts DEF SameRow
  <1>3. \A b \in Arcs : Stays(b) \/ Steps(b)
    <2> SUFFICES ASSUME NEW b \in Arcs PROVE Stays(b) \/ Steps(b) OBVIOUS
    <2>1. CASE b # a BY <1>2, <2>1 DEF Stays
    <2>2. CASE b = a BY <1>2, <2>2 DEF Steps
    <2> QED BY <2>1, <2>2
  <1> QED BY <1>2, <1>3 DEF Evolves

LEMMA SameEvolves ==
  ASSUME TypeOK, arcs' = arcs, UNCHANGED <<overwritten, strays, twins>>, late \subseteq late'
  PROVE  arcs' \in [Arcs -> Row] /\ Evolves
  BY DEF TypeOK, Row, Evolves, Stays, SameRow

(* What a handler does with the work table.                                *)
LEMMA DispatchStep ==
  ASSUME TypeOK, NEW i \in Items, Dispatch(i) PROVE TypeOK' /\ Evolves /\ Sources
  <1>1. /\ i \in Runs(i[2]) /\ i[2] \in Arcs /\ work[i] = "pending" /\ arcs[i[2]].status \in Open
        /\ arcs' = Moved(arcs, i[2], "active") /\ work' = [work EXCEPT ![i] = "claimed"]
        /\ running' = running \cup {i} /\ backoff' = backoff \ {i[2]}
        /\ UNCHANGED <<attempts, rejected, loop, call, restarts, overwritten, strays, twins, late>>
    BY Items1 DEF Dispatch
  <1>2. arcs' \in [Arcs -> Row] /\ Evolves
    <2>1. "active" \in (Open \cup Frozen) \ {"cancelled", "pending"} BY DEF Open
    <2> QED BY <1>1, <2>1, MoveEvolves
  <1>3. TypeOK' BY <1>1, <1>2 DEF TypeOK, Row
  <1>4. Sources
    <2>1. \A j \in Items : Alive(j)' => Alive(j) \/ j = i BY <1>1 DEF Alive, TypeOK
    <2>2. Alive(i) BY <1>1 DEF Alive
    <2> QED BY <2>1, <2>2, Items1 DEF Sources, Runs, Items, Kinds
  <1> QED BY <1>2, <1>3, <1>4

(* Nothing new becomes alive.                                              *)
LEMMA NoSource ==
  ASSUME \A i \in Items : i[1] # "child_failed" /\ Alive(i)' => Alive(i)
  PROVE  Sources
  <1>1. \A i \in Items : i[1] # "child_failed" => i \in Runs(i[2])
    BY DEF Items, Kinds, Runs
  <1> QED BY <1>1 DEF Sources

LEMMA SkipFrozenStep ==
  ASSUME TypeOK, NEW i \in Items, SkipFrozen(i) PROVE TypeOK' /\ Evolves /\ Sources
  <1>1. /\ work' = [work EXCEPT ![i] = "none"]
        /\ UNCHANGED <<arcs, attempts, rejected, running, loop, call, restarts, backoff,
                       overwritten, strays, twins, late>>
    BY DEF SkipFrozen, hist
  <1>2. TypeOK' BY <1>1 DEF TypeOK
  <1>3. Sources BY <1>1, NoSource DEF Alive, TypeOK
  <1> QED BY <1>1, <1>2, <1>3, SameEvolves

LEMMA AgentReturnsStep ==
  ASSUME TypeOK, NEW i \in Items, AgentReturns(i) PROVE TypeOK' /\ Evolves /\ Sources
  <1>1. /\ i[2] \in Arcs /\ i \in running
        /\ rejected' \subseteq rejected \cup ({i[2]} \cap RequiredPass)
        /\ running' = running \ {i}
        /\ loop' = [step |-> "self", item |-> i, at |-> i[2], to |-> Decide(arcs, i[2])]
        /\ UNCHANGED <<arcs, attempts, work, call, restarts, backoff, overwritten, strays,
                       twins, late>>
    BY Items1 DEF AgentReturns, hist
  <1>2. Decide(arcs, i[2]) \in Verdict BY DecideFacts
  <1>3. TypeOK'
    <2>1. loop' \in [step : {"self", "parent"}, item : Items, at : Arcs,
                     to : {"completed", "failed", "waiting", "nothing"}]
      BY <1>1, <1>2 DEF Verdict
    <2> QED BY <1>1, <2>1 DEF TypeOK
  <1>4. Sources BY <1>1, NoSource DEF Alive
  <1> QED BY <1>1, <1>3, <1>4, SameEvolves

LEMMA FreezeSelfStep ==
  ASSUME TypeOK, FreezeSelf PROVE TypeOK' /\ Evolves /\ Sources
  <1> DEFINE a == loop.at
             p == arcs[a].parent
             S == ReadyChildren(arcs', IF p = 0 THEN a ELSE p)
             N == IF loop.to = "failed" THEN Notice(arcs', a) ELSE {}
  <1>1. /\ loop.step = "self"
        /\ \/ loop.to = "nothing" /\ arcs' = arcs
           \/ /\ loop.to # "nothing" /\ Allowed(arcs[a].status, loop.to)
              /\ arcs' = Moved(arcs, a, loop.to)
        /\ work' = Enqueued(work, S \cup N)
        /\ \/ p = 0 /\ loop' = Settling(loop.item)
           \/ p # 0 /\ loop' = [loop EXCEPT !.step = "parent", !.at = p, !.to = Decide(arcs', p)]
        /\ UNCHANGED <<attempts, rejected, running, call, restarts, backoff, overwritten, strays,
                       twins, late>>
    BY DEF FreezeSelf, hist
  <1>2. a \in Arcs /\ loop.to \in Verdict /\ loop.item \in Items BY <1>1, LoopFacts
  <1>3. p \in 0 .. MaxArcs BY <1>2 DEF TypeOK
  <1>4. arcs' \in [Arcs -> Row] /\ Evolves
    <2>1. CASE arcs' = arcs BY <1>1, <2>1, SameEvolves
    <2>2. CASE loop.to # "nothing" /\ Allowed(arcs[a].status, loop.to)
               /\ arcs' = Moved(arcs, a, loop.to)
      <3>1. loop.to \in (Open \cup Frozen) \ {"cancelled", "pending"} /\ loop.to # "active"
        BY <1>2, <2>2 DEF Verdict, Open, Frozen
      <3>2. arcs[a].status \in Open BY <2>2 DEF Allowed
      <3> QED BY <1>1, <2>2, <3>1, <3>2, MoveEvolves
    <2> QED BY <1>1, <2>1, <2>2
  <1>5. work' \in [Items -> {"none", "pending", "claimed"}] BY <1>1, EnqueuedFacts DEF TypeOK
  <1>6. /\ loop' \in [step : {"settle"}, item : Items]
              \cup [step : {"self", "parent"}, item : Items, at : Arcs,
                    to : {"completed", "failed", "waiting", "nothing"}]
        /\ loop'.step # "idle" /\ loop'.item = loop.item
    <2>1. CASE p = 0 BY <1>1, <1>2, <2>1 DEF Settling
    <2>2. CASE p # 0
      <3>1. p \in Arcs BY <1>3, <2>2, BoundsAssumption DEF Arcs, BoundsAssumption
      <3>2. Decide(arcs', p) \in Verdict BY DecideFacts
      <3>3. loop \in [step : {"self", "parent"}, item : Items, at : Arcs,
                      to : {"completed", "failed", "waiting", "nothing"}]
        BY <1>1 DEF TypeOK, Idle
      <3>4. loop' = [step |-> "parent", item |-> loop.item, at |-> p, to |-> Decide(arcs', p)]
        BY <1>1, <2>2, <3>3
      <3> QED BY <1>2, <3>1, <3>2, <3>4 DEF Verdict
    <2> QED BY <2>1, <2>2
  <1>7. TypeOK' BY <1>1, <1>4, <1>5, <1>6 DEF TypeOK, Row
  <1>8. Sources
    <2> SUFFICES ASSUME NEW j \in Items, j[1] # "child_failed", Alive(j)'
                 PROVE  \/ \E k \in Runs(j[2]) : Alive(k)
                        \/ arcs'[j[2]].status # "absent" /\ check_dependencies(arcs', j[2])
      BY DEF Sources
    <2>1. j \in Runs(j[2]) BY DEF Items, Kinds, Runs
    <2>2. CASE Alive(j) BY <2>1, <2>2
    <2>3. CASE ~Alive(j)
      <3>1. work'[j] # "none" /\ work[j] = "none" BY <1>1, <1>6, <2>3 DEF Alive
      <3>2. j \in S \cup N BY <1>1, <3>1, EnqueuedFacts DEF TypeOK
      <3>3. j \notin N BY NoticeFacts
      <3>4. j \in S BY <3>2, <3>3
      <3> HIDE DEF a, p
      <3>5. arcs'[j[2]].status = "pending" /\ check_dependencies(arcs', j[2])
        BY <1>4, <3>4, ReadyFacts
      <3> QED BY <3>5
    <2> QED BY <2>2, <2>3
  <1> QED BY <1>4, <1>7, <1>8

LEMMA FreezeParentStep ==
  ASSUME TypeOK, FreezeParent PROVE TypeOK' /\ Evolves /\ Sources
  <1> DEFINE p == loop.at
             ok == loop.to # "nothing" /\ Allowed(arcs[p].status, loop.to)
  <1>1. /\ loop.step = "parent"
        /\ \/ ~ok /\ arcs' = arcs
           \/ ok /\ arcs' = Moved(arcs, p, loop.to)
        /\ work' = work \/ work' = Enqueued(work, Notice(arcs', p))
        /\ loop' = Settling(loop.item)
        /\ UNCHANGED <<attempts, rejected, running, call, restarts, backoff, overwritten, strays,
                       twins, late>>
    BY DEF FreezeParent, hist
  <1>2. p \in Arcs /\ loop.to \in Verdict /\ loop.item \in Items BY <1>1, LoopFacts
  <1>3. arcs' \in [Arcs -> Row] /\ Evolves
    <2>1. CASE arcs' = arcs BY <1>1, <2>1, SameEvolves
    <2>2. CASE ok /\ arcs' = Moved(arcs, p, loop.to)
      <3>1. loop.to \in (Open \cup Frozen) \ {"cancelled", "pending"} /\ loop.to # "active"
        BY <1>2, <2>2 DEF Verdict, Open, Frozen
      <3>2. arcs[p].status \in Open BY <2>2 DEF Allowed
      <3> QED BY <1>1, <2>2, <3>1, <3>2, MoveEvolves
    <2> QED BY <1>1, <2>1, <2>2
  <1>4. work' \in [Items -> {"none", "pending", "claimed"}] BY <1>1, EnqueuedFacts DEF TypeOK
  <1>5. loop' \in [step : {"settle"}, item : Items] BY <1>1, <1>2 DEF Settling
  <1>6. TypeOK' BY <1>1, <1>3, <1>4, <1>5 DEF TypeOK, Row
  <1>7. Sources
    <2>1. \A j \in Items : j[1] # "child_failed" => (work'[j] # "none" => work[j] # "none")
      BY <1>1, EnqueuedFacts, NoticeFacts DEF TypeOK
    <2>2. loop'.item = loop.item BY <1>1 DEF Settling
    <2> QED BY <1>1, <2>1, <2>2, NoSource DEF Alive
  <1> QED BY <1>3, <1>6, <1>7

LEMMA RaisesFacts ==
  ASSUME TypeOK, NEW i \in Items, Raises(i)
  PROVE  /\ i \in Runs(i[2]) /\ i[2] \in Arcs /\ Alive(i) /\ running' = running \ {i}
         /\ loop # Idle => loop.item = i
  BY Items1, LoopFacts DEF Raises, Alive, Idle

LEMMA RetryStep ==
  ASSUME TypeOK, NEW i \in Items, Retry(i) PROVE TypeOK' /\ Evolves /\ Sources
  <1> DEFINE a == i[2]
             r == <<"retry", a>>
  <1>1. /\ Raises(i) /\ Count(a) < MaxRetries
        /\ attempts' = [attempts EXCEPT ![a] = Count(a) + 1]
        /\ \/ Allowed(arcs[a].status, "waiting") /\ arcs' = Moved(arcs, a, "waiting")
           \/ arcs' = arcs
        /\ backoff' \subseteq backoff \cup {a}
        /\ work' = [work EXCEPT ![r] = "pending"]
        /\ loop' = Idle \/ loop' = Settling(i)
        /\ UNCHANGED <<rejected, call, restarts, overwritten, strays, twins, late>>
    BY DEF Retry
  <1>2. a \in Arcs /\ r \in Items /\ i \in Runs(a) /\ Alive(i) /\ running' = running \ {i}
    BY <1>1, RaisesFacts DEF Items, Kinds
  <1>3. arcs' \in [Arcs -> Row] /\ Evolves
    <2>1. CASE arcs' = arcs BY <1>1, <2>1, SameEvolves
    <2>2. CASE Allowed(arcs[a].status, "waiting") /\ arcs' = Moved(arcs, a, "waiting")
      <3>1. "waiting" \in (Open \cup Frozen) \ {"cancelled", "pending"} BY DEF Open
      <3>2. arcs[a].status \in Open BY <2>2 DEF Allowed
      <3> QED BY <1>1, <2>2, <3>1, <3>2, MoveEvolves
    <2> QED BY <1>1, <2>1, <2>2
  <1>4. attempts' \in [Arcs -> -1 .. MaxRetries]
    <2>1. attempts[a] \in -1 .. MaxRetries BY <1>2 DEF TypeOK
    <2>2. Count(a) + 1 \in -1 .. MaxRetries
      BY <1>1, <2>1, BoundsAssumption DEF Count, BoundsAssumption
    <2> QED BY <1>1, <1>2, <2>2 DEF TypeOK
  <1>5. loop' \in {Idle} \cup [step : {"settle"}, item : Items] BY <1>1 DEF Settling
  <1>6. TypeOK' BY <1>1, <1>2, <1>3, <1>4, <1>5 DEF TypeOK, Row
  <1>7. Sources
    <2> SUFFICES ASSUME NEW j \in Items, j[1] # "child_failed", Alive(j)'
                 PROVE  \E k \in Runs(j[2]) : Alive(k)
      BY DEF Sources
    <2>1. j \in Runs(j[2]) BY DEF Items, Kinds, Runs
    <2>2. CASE j[2] = a BY <1>2, <2>2
    <2>3. CASE j[2] # a
      <3>1. work'[j] = work[j] BY <1>1, <2>3 DEF TypeOK
      <3>2. ~(loop'.step # "idle" /\ loop'.item = j) BY <1>1, <2>3 DEF Idle, Settling
      <3> QED BY <1>2, <2>1, <3>1, <3>2 DEF Alive
    <2> QED BY <2>2, <2>3
  <1> QED BY <1>3, <1>6, <1>7

LEMMA FailStep ==
  ASSUME TypeOK, NEW i \in Items, Fail(i) PROVE TypeOK' /\ Evolves /\ Sources
  <1> DEFINE a == i[2]
  <1>1. /\ Raises(i) /\ Allowed(arcs[a].status, "failed") /\ arcs' = Moved(arcs, a, "failed")
        /\ work' = Enqueued(work, Notice(arcs', a)) /\ loop' = Settling(i)
        /\ UNCHANGED <<attempts, rejected, call, restarts, backoff, overwritten, strays, twins,
                       late>>
    BY DEF Fail, hist
  <1>2. a \in Arcs /\ Alive(i) /\ running' = running \ {i} BY <1>1, RaisesFacts
  <1>3. arcs' \in [Arcs -> Row] /\ Evolves
    <2>1. "failed" \in (Open \cup Frozen) \ {"cancelled", "pending"} BY DEF Frozen
    <2>2. arcs[a].status \in Open BY <1>1 DEF Allowed
    <2> QED BY <1>1, <2>1, <2>2, MoveEvolves
  <1>4. work' \in [Items -> {"none", "pending", "claimed"}] BY <1>1, EnqueuedFacts DEF TypeOK
  <1>5. loop' \in [step : {"settle"}, item : Items] BY <1>1 DEF Settling
  <1>6. TypeOK' BY <1>1, <1>2, <1>3, <1>4, <1>5 DEF TypeOK, Row
  <1>7. Sources
    <2>1. \A j \in Items : j[1] # "child_failed" => (work'[j] # "none" => work[j] # "none")
      BY <1>1, EnqueuedFacts, NoticeFacts DEF TypeOK
    <2>2. loop'.item = i BY <1>1 DEF Settling
    <2> QED BY <1>1, <1>2, <2>1, <2>2, NoSource DEF Alive
  <1> QED BY <1>3, <1>6, <1>7

LEMMA FailRaisesStep ==
  ASSUME TypeOK, NEW i \in Items, FailRaises(i) PROVE TypeOK' /\ Evolves /\ Sources
  <1>1. /\ Raises(i) /\ loop' = Idle
        /\ \E s \in {"none", "pending"} : work' = [work EXCEPT ![i] = s]
        /\ UNCHANGED <<arcs, attempts, rejected, call, restarts, backoff, overwritten, strays,
                       twins, late>>
    BY DEF FailRaises, hist
  <1>2. Alive(i) /\ running' = running \ {i} BY <1>1, RaisesFacts
  <1>3. TypeOK' BY <1>1, <1>2 DEF TypeOK
  <1>4. Sources
    <2>1. \A j \in Items : j # i => work'[j] = work[j] BY <1>1 DEF TypeOK
    <2> QED BY <1>1, <1>2, <2>1, NoSource DEF Alive, Idle
  <1> QED BY <1>1, <1>3, <1>4, SameEvolves

LEMMA SettleStep ==
  ASSUME TypeOK, Settle PROVE TypeOK' /\ Evolves /\ Sources
  <1>1. /\ loop.step = "settle" /\ loop' = Idle /\ work' = [work EXCEPT ![loop.item] = "none"]
        /\ UNCHANGED <<arcs, attempts, rejected, running, call, restarts, backoff, overwritten,
                       strays, twins, late>>
    BY DEF Settle, hist
  <1>2. loop.item \in Items BY <1>1, LoopFacts
  <1>3. TypeOK' BY <1>1, <1>2 DEF TypeOK
  <1>4. Sources BY <1>1, <1>2, NoSource DEF Alive, Idle, TypeOK
  <1> QED BY <1>1, <1>3, <1>4, SameEvolves

LEMMA ReplanStep ==
  ASSUME TypeOK, NEW c \in Arcs, Replan(c) PROVE TypeOK' /\ Evolves /\ Sources
  <1> DEFINE i == <<"child_failed", c>>
             p == arcs[c].parent
  <1>1. /\ \/ /\ arcs[p].status = "waiting" /\ arcs' = Moved(arcs, p, "active")
              /\ work' = [work EXCEPT ![i] = "claimed"] /\ running' = running \cup {i}
           \/ /\ work' = [work EXCEPT ![i] = "none"] /\ arcs' = arcs /\ running' = running
        /\ UNCHANGED <<attempts, rejected, loop, call, restarts, backoff, overwritten, strays,
                       twins, late>>
    BY DEF Replan, hist
  <1>2. i \in Items BY Items1
  <1>3. arcs' \in [Arcs -> Row] /\ Evolves
    <2>1. CASE arcs' = arcs BY <1>1, <2>1, SameEvolves
    <2>2. CASE arcs[p].status = "waiting" /\ arcs' = Moved(arcs, p, "active")
      <3>1. "active" \in (Open \cup Frozen) \ {"cancelled", "pending"} /\ "waiting" \in Open
        BY DEF Open
      <3> QED BY <1>1, <2>2, <3>1, MoveEvolves
    <2> QED BY <1>1, <2>1, <2>2
  <1>4. TypeOK' BY <1>1, <1>2, <1>3 DEF TypeOK, Row
  <1>5. Sources
    <2>1. \A j \in Items : j # i => work'[j] = work[j] BY <1>1 DEF TypeOK
    <2> QED BY <1>1, <2>1, NoSource DEF Alive
  <1> QED BY <1>3, <1>4, <1>5

LEMMA ReplanEndsStep ==
  ASSUME TypeOK, NEW c \in Arcs, ReplanEnds(c) PROVE TypeOK' /\ Evolves /\ Sources
  <1> DEFINE i == <<"child_failed", c>>
  <1>1. /\ running' = running \ {i} /\ loop' = Settling(i)
        /\ UNCHANGED <<arcs, attempts, rejected, work, call, restarts, backoff, overwritten,
                       strays, twins, late>>
    BY DEF ReplanEnds, hist
  <1>2. i \in Items BY Items1
  <1>3. loop' \in [step : {"settle"}, item : Items] BY <1>1, <1>2 DEF Settling
  <1>4. TypeOK' BY <1>1, <1>3 DEF TypeOK
  <1>5. Sources BY <1>1, NoSource DEF Alive, Settling
  <1> QED BY <1>1, <1>4, <1>5, SameEvolves

LEMMA MarkFailedStep ==
  ASSUME TypeOK, NEW c \in Arcs, MarkFailed(c) PROVE TypeOK' /\ Evolves /\ Sources
  <1> DEFINE p == arcs[c].parent
  <1>1. /\ Allowed(arcs[p].status, "failed") /\ arcs' = Moved(arcs, p, "failed")
        /\ work' = Enqueued(work, Notice(arcs', p))
        /\ UNCHANGED <<attempts, rejected, running, loop, call, restarts, backoff, overwritten,
                       strays, twins, late>>
    BY DEF MarkFailed, hist
  <1>2. arcs' \in [Arcs -> Row] /\ Evolves
    <2>1. "failed" \in (Open \cup Frozen) \ {"cancelled", "pending"} BY DEF Frozen
    <2>2. arcs[p].status \in Open BY <1>1 DEF Allowed
    <2> QED BY <1>1, <2>1, <2>2, MoveEvolves
  <1>3. work' \in [Items -> {"none", "pending", "claimed"}] BY <1>1, EnqueuedFacts DEF TypeOK
  <1>4. TypeOK' BY <1>1, <1>2, <1>3 DEF TypeOK, Row
  <1>5. Sources
    <2>1. \A j \in Items : j[1] # "child_failed" => (work'[j] # "none" => work[j] # "none")
      BY <1>1, EnqueuedFacts, NoticeFacts DEF TypeOK
    <2> QED BY <1>1, <2>1, NoSource DEF Alive
  <1> QED BY <1>2, <1>4, <1>5

(* An item enqueued for an arc that exists and follows steps that are done. *)
LEMMA EnqueueOneStep ==
  ASSUME TypeOK, NEW a \in Arcs, arcs' = arcs,
         \/ work' = work
         \/ Exists(a) /\ check_dependencies(arcs, a)
            /\ work' = Enqueued(work, {<<"dispatch", a>>}),
         UNCHANGED <<running, loop>>
  PROVE  work' \in [Items -> {"none", "pending", "claimed"}] /\ Sources
  <1>1. work' \in [Items -> {"none", "pending", "claimed"}] BY EnqueuedFacts DEF TypeOK
  <1>2. Sources
    <2> SUFFICES ASSUME NEW j \in Items, j[1] # "child_failed", Alive(j)', ~Alive(j)
                 PROVE  arcs'[j[2]].status # "absent" /\ check_dependencies(arcs', j[2])
      <3>1. \A j \in Items : j[1] # "child_failed" => j \in Runs(j[2]) BY DEF Items, Kinds, Runs
      <3> QED BY <3>1 DEF Sources
    <2>1. work'[j] # "none" /\ work[j] = "none" BY DEF Alive
    <2>2. j = <<"dispatch", a>> /\ Exists(a) /\ check_dependencies(arcs, a)
      BY <2>1, EnqueuedFacts DEF TypeOK
    <2> QED BY <2>2 DEF Exists
  <1> QED BY <1>1, <1>2

LEMMA ScanStep ==
  ASSUME TypeOK, NEW a \in Arcs, Scan(a) PROVE TypeOK' /\ Evolves /\ Sources
  <1>1. /\ Exists(a) /\ check_dependencies(arcs, a) /\ work' = Enqueued(work, {<<"dispatch", a>>})
        /\ UNCHANGED <<arcs, attempts, rejected, running, loop, call, restarts, backoff,
                       overwritten, strays, twins, late>>
    BY DEF Scan, Exists, hist
  <1>2. work' \in [Items -> {"none", "pending", "claimed"}] /\ Sources BY <1>1, EnqueueOneStep
  <1>3. TypeOK' BY <1>1, <1>2 DEF TypeOK
  <1> QED BY <1>1, <1>2, <1>3, SameEvolves

-----------------------------------------------------------------------------
(* Tool calls.                                                             *)
LEMMA CallAlone ==
  ASSUME TypeOK, NEW t \in Threads,
         NEW c \in {NoCall} \cup [op : {"add"}, parent : Arcs, step_order : 0 .. MaxArcs]
                     \cup [op : {"enqueue"}, arc : Arcs]
                     \cup [op : {"cancel"}, arc : Arcs, open : SUBSET Arcs],
         call' = [call EXCEPT ![t] = c],
         UNCHANGED <<arcs, attempts, rejected, work, running, loop, restarts, backoff,
                     overwritten, strays, twins, late>>
  PROVE  TypeOK' /\ Evolves /\ Sources
  <1>1. TypeOK' BY DEF TypeOK
  <1>2. Sources BY NoSource DEF Alive
  <1> QED BY <1>1, <1>2, SameEvolves

LEMMA AddChildReadsStep ==
  ASSUME TypeOK, NEW t \in Threads, NEW p \in Arcs, AddChildReads(t, p)
  PROVE  TypeOK' /\ Evolves /\ Sources
  <1>1. PICK o \in 0 .. MaxArcs :
          call' = [call EXCEPT ![t] = [op |-> "add", parent |-> p, step_order |-> o]]
    BY DEF AddChildReads
  <1>2. UNCHANGED <<arcs, attempts, rejected, work, running, loop, restarts, backoff,
                    overwritten, strays, twins, late>>
    BY DEF AddChildReads, hist
  <1>3. [op |-> "add", parent |-> p, step_order |-> o]
          \in [op : {"add"}, parent : Arcs, step_order : 0 .. MaxArcs]
    OBVIOUS
  <1> QED BY <1>1, <1>2, <1>3, CallAlone

(* Arcs that are inserted disturb no row that was there.                   *)
LEMMA InsertsFacts ==
  ASSUME TypeOK, NEW S \in SUBSET Arcs, NEW p \in Arcs, NEW order \in [S -> 0 .. MaxArcs],
         Inserts(S, p, order)
  PROVE  /\ arcs' \in [Arcs -> Row] /\ strays' \cup twins' \subseteq Arcs
         /\ UNCHANGED <<rejected, work, running, loop, restarts, backoff, overwritten, late>>
         /\ \A a \in S : ~Exists(a) /\ arcs'[a].status = "pending"
         /\ \A a \in Arcs \ S : arcs'[a] = arcs[a]
         /\ Evolves /\ Sources
  <1>1. /\ \A a \in S : ~Exists(a)
        /\ arcs' = [a \in Arcs |->
             IF a \in S THEN [status |-> "pending", parent |-> p, step_order |-> order[a]] ELSE arcs[a]]
        /\ strays' = strays \cup {a \in S : arcs[p].status \in Frozen \/ Deciding(p)}
        /\ twins' = twins \cup {a \in S : \E n \in Orders(arcs, p) : order[a] <= n}
        /\ UNCHANGED <<rejected, work, running, loop, restarts, backoff, overwritten, late>>
    BY DEF Inserts
  <1>2. \A a \in Arcs \ S : arcs'[a] = arcs[a] BY <1>1
  <1>3. \A a \in S : /\ arcs'[a] = [status |-> "pending", parent |-> p, step_order |-> order[a]]
                     /\ arcs'[a] \in Row
    <2>1. p \in 0 .. MaxArcs BY BoundsAssumption DEF Arcs, BoundsAssumption
    <2> SUFFICES ASSUME NEW a \in S
                 PROVE  /\ arcs'[a] = [status |-> "pending", parent |-> p, step_order |-> order[a]]
                        /\ arcs'[a] \in Row
      OBVIOUS
    <2>2. arcs'[a] = [status |-> "pending", parent |-> p, step_order |-> order[a]] BY <1>1
    <2>3. order[a] \in 0 .. MaxArcs /\ "pending" \in Open BY DEF Open
    <2> QED BY <2>1, <2>2, <2>3 DEF Row
  <1>4. arcs' \in [Arcs -> Row]
    <2>1. \A a \in Arcs : arcs'[a] \in Row BY <1>2, <1>3 DEF TypeOK, Row
    <2>2. arcs' = [a \in Arcs |-> arcs'[a]] BY <1>1
    <2> QED BY <2>1, <2>2
  <1>5. strays' \cup twins' \subseteq Arcs BY <1>1 DEF TypeOK
  <1>6. ASSUME NEW a \in S PROVE Inserted(a)
    <2>1. arcs[a].status = "absent" BY <1>1 DEF Exists
    <2>2. \A b \in Arcs : arcs[b].status # "absent" /\ arcs[b].parent = p
                          => arcs[b].step_order \in Orders(arcs, p)
      BY DEF Orders, Children
    <2>3. arcs'[a] = [status |-> "pending", parent |-> p, step_order |-> order[a]] BY <1>3
    <2>4. /\ arcs'[a].status = "pending" /\ arcs'[a].parent = p /\ arcs'[a].step_order = order[a]
      BY <2>3
    <2>5. arcs[p].status \in Frozen \/ Deciding(p) => a \in strays' BY <1>1
    <2>6. \A b \in Arcs : /\ arcs[b].status # "absent" /\ arcs[b].parent = p
                          /\ order[a] <= arcs[b].step_order
            => a \in twins'
      BY <1>1, <2>2
    <2> QED BY <2>1, <2>4, <2>5, <2>6 DEF Inserted
  <1>7. Evolves
    <2>1. \A a \in Arcs \ S : Stays(a) BY <1>2 DEF Stays, SameRow
    <2>2. /\ overwritten \subseteq overwritten' /\ strays \subseteq strays'
          /\ twins \subseteq twins' /\ late \subseteq late'
      BY <1>1
    <2> QED BY <1>6, <2>1, <2>2 DEF Evolves
  <1>8. Sources BY <1>1, NoSource DEF Alive
  <1>9. \A a \in S : ~Exists(a) /\ arcs'[a].status = "pending" BY <1>1, <1>3
  <1> QED BY <1>1, <1>2, <1>4, <1>5, <1>7, <1>8, <1>9

LEMMA AddChildInsertsFacts ==
  ASSUME TypeOK, NEW t \in Threads, AddChildInserts(t)
  PROVE  /\ UNCHANGED attempts
         /\ \E a \in Arcs, p \in Arcs : \E order \in [{a} -> 0 .. MaxArcs] :
               /\ Inserts({a}, p, order)
               /\ call' = [call EXCEPT ![t] = [op |-> "enqueue", arc |-> a]]
  <1>1. call[t].op = "add" /\ UNCHANGED attempts BY DEF AddChildInserts
  <1>2. PICK a \in Arcs :
          /\ Inserts({a}, call[t].parent, [b \in {a} |-> call[t].step_order])
          /\ call' = [call EXCEPT ![t] = [op |-> "enqueue", arc |-> a]]
    BY DEF AddChildInserts
  <1>3. call[t].parent \in Arcs /\ call[t].step_order \in 0 .. MaxArcs BY <1>1, CallFacts
  <1>4. [b \in {a} |-> call[t].step_order] \in [{a} -> 0 .. MaxArcs] BY <1>3
  <1> QED BY <1>1, <1>2, <1>3, <1>4

LEMMA AddChildInsertsStep ==
  ASSUME TypeOK, NEW t \in Threads, AddChildInserts(t) PROVE TypeOK' /\ Evolves /\ Sources
  <1>1. UNCHANGED attempts BY AddChildInsertsFacts
  <1>2. PICK a \in Arcs, p \in Arcs : \E order \in [{a} -> 0 .. MaxArcs] :
          /\ Inserts({a}, p, order)
          /\ call' = [call EXCEPT ![t] = [op |-> "enqueue", arc |-> a]]
    BY AddChildInsertsFacts
  <1>3. /\ arcs' \in [Arcs -> Row] /\ strays' \cup twins' \subseteq Arcs
        /\ UNCHANGED <<rejected, work, running, loop, restarts, backoff, overwritten, late>>
        /\ Evolves /\ Sources
    BY <1>2, InsertsFacts
  <1>4. [op |-> "enqueue", arc |-> a] \in [op : {"enqueue"}, arc : Arcs] OBVIOUS
  <1>5. TypeOK' BY <1>1, <1>2, <1>3, <1>4 DEF TypeOK, Row
  <1> QED BY <1>3, <1>5

(* The children other tools create: new arcs and their _retry_count rows.  *)
Created(S) ==
  /\ UNCHANGED call /\ attempts' \in [Arcs -> -1 .. MaxRetries]
  /\ \A a \in Arcs \ S : attempts'[a] = attempts[a]
  /\ \E p \in Arcs : \E order \in [S -> 0 .. MaxArcs] : Inserts(S, p, order)

LEMMA CreateFacts ==
  ASSUME TypeOK, NEW p \in Adopters, Create(p) \/ CreateBatch(p)
  PROVE  \E S \in SUBSET Arcs : Created(S)
  <1>0. p \in Arcs BY SetsAssumption DEF SetsAssumption, Arcs
  <1>1. CASE Create(p)
    <2>1. PICK a \in Arcs :
            /\ Inserts({a}, p, [b \in {a} |-> 0])
            /\ attempts' \in {attempts, [attempts EXCEPT ![a] = 0]}
      BY <1>1 DEF Create
    <2>2. [b \in {a} |-> 0] \in [{a} -> 0 .. MaxArcs] BY BoundsAssumption DEF BoundsAssumption
    <2>3. /\ attempts' \in [Arcs -> -1 .. MaxRetries]
          /\ \A b \in Arcs \ {a} : attempts'[b] = attempts[b]
      BY <2>1, BoundsAssumption DEF TypeOK, BoundsAssumption
    <2>4. UNCHANGED call BY <1>1 DEF Create
    <2>5. Created({a}) BY <1>0, <2>1, <2>2, <2>3, <2>4 DEF Created
    <2> QED BY <2>5
  <1>2. CASE CreateBatch(p)
    <2>1. PICK S \in SUBSET Arcs : \E order \in [S -> 0 .. MaxArcs] : Inserts(S, p, order)
      BY <1>2 DEF CreateBatch
    <2>2. UNCHANGED <<attempts, call>> BY <1>2 DEF CreateBatch
    <2>3. Created(S) BY <1>0, <2>1, <2>2 DEF Created, TypeOK
    <2> QED BY <2>3
  <1> QED BY <1>1, <1>2

LEMMA CreateStep ==
  ASSUME TypeOK, NEW S \in SUBSET Arcs, Created(S)
  PROVE  /\ TypeOK' /\ Evolves /\ Sources
         /\ UNCHANGED <<rejected, work, running, loop, call, restarts, backoff, overwritten, late>>
         /\ \A a \in S : ~Exists(a) /\ arcs'[a].status = "pending"
         /\ \A a \in Arcs \ S : arcs'[a] = arcs[a] /\ attempts'[a] = attempts[a]
  <1>1. PICK p \in Arcs : \E order \in [S -> 0 .. MaxArcs] : Inserts(S, p, order)
    BY DEF Created
  <1>2. /\ arcs' \in [Arcs -> Row] /\ strays' \cup twins' \subseteq Arcs
        /\ UNCHANGED <<rejected, work, running, loop, restarts, backoff, overwritten, late>>
        /\ \A a \in S : ~Exists(a) /\ arcs'[a].status = "pending"
        /\ \A a \in Arcs \ S : arcs'[a] = arcs[a]
        /\ Evolves /\ Sources
    BY <1>1, InsertsFacts
  <1>3. TypeOK' BY <1>2 DEF TypeOK, Row, Created
  <1> QED BY <1>2, <1>3 DEF Created

LEMMA AddChildEnqueuesStep ==
  ASSUME TypeOK, Calls, NEW t \in Threads, AddChildEnqueues(t)
  PROVE  TypeOK' /\ Evolves /\ Sources
  <1> DEFINE a == call[t].arc
  <1>1. /\ call[t].op = "enqueue"
        /\ \/ work' = work
           \/ check_dependencies(arcs, a) /\ work' = Enqueued(work, {<<"dispatch", a>>})
        /\ late \subseteq late' /\ late' \subseteq late \cup {a}
        /\ call' = [call EXCEPT ![t] = NoCall]
        /\ UNCHANGED <<arcs, attempts, rejected, running, loop, restarts, backoff, overwritten,
                       strays, twins>>
    BY DEF AddChildEnqueues
  <1>2. a \in Arcs /\ Exists(a) BY <1>1, CallFacts DEF Calls
  <1>3. work' \in [Items -> {"none", "pending", "claimed"}] /\ Sources
    BY <1>1, <1>2, EnqueueOneStep
  <1>4. TypeOK' BY <1>1, <1>2, <1>3 DEF TypeOK
  <1> QED BY <1>1, <1>3, <1>4, SameEvolves

LEMMA CancelReadsStep ==
  ASSUME TypeOK, NEW t \in Threads, NEW a \in Arcs, CancelReads(t, a)
  PROVE  TypeOK' /\ Evolves /\ Sources
  <1>1. PICK S \in SUBSET Arcs : call' = [call EXCEPT ![t] = [op |-> "cancel", arc |-> a, open |-> S]]
    BY DEF CancelReads, Below
  <1>2. UNCHANGED <<arcs, attempts, rejected, work, running, loop, restarts, backoff,
                    overwritten, strays, twins, late>>
    BY DEF CancelReads, hist
  <1>3. [op |-> "cancel", arc |-> a, open |-> S]
          \in [op : {"cancel"}, arc : Arcs, open : SUBSET Arcs]
    OBVIOUS
  <1> QED BY <1>1, <1>2, <1>3, CallAlone

(* The children of a and of its descendants are its descendants.           *)
LEMMA BelowClosed ==
  ASSUME NEW a, NEW p \in {a} \cup Below(a), NEW c \in Arcs, Exists(c), arcs[c].parent = p
  PROVE  c \in Below(a)
  <1> SUFFICES ASSUME NEW S \in SUBSET Arcs, HoldsBelow(S, a) PROVE c \in S BY DEF Below
  <1>1. p \in S \cup {a} BY DEF Below
  <1> QED BY <1>1 DEF HoldsBelow

LEMMA CancelWritesStep ==
  ASSUME TypeOK, Calls, NEW t \in Threads, CancelWrites(t)
  PROVE  TypeOK' /\ Evolves /\ Sources
  <1> DEFINE a == call[t].arc
             S == {c \in Below(a) : arcs[c].status \in Open} \cup call[t].open
  <1>1. /\ call[t].op = "cancel" /\ arcs' = Cancelled(arcs, S)
        /\ overwritten' = overwritten \cup {c \in call[t].open : arcs[c].status \in Frozen}
        /\ call' = [call EXCEPT ![t] = NoCall]
        /\ UNCHANGED <<attempts, rejected, work, running, loop, restarts, backoff, strays,
                       twins, late>>
    BY DEF CancelWrites
  <1>2. /\ a \in Arcs /\ call[t].open \subseteq Arcs /\ Exists(a)
        /\ call[t].open \subseteq {a} \cup Below(a)
    BY <1>1, CallFacts DEF Calls
  <1>3. S \subseteq {a} \cup Below(a) /\ \A c \in S : Exists(c) BY <1>2 DEF Below
  <1>4. /\ \A c \in Arcs : SameRow(c)
        /\ \A c \in Arcs : arcs'[c].status = IF c \in S THEN "cancelled" ELSE arcs[c].status
        /\ arcs' \in [Arcs -> Row]
    <2> HIDE DEF S
    <2> QED BY <1>1 DEF Cancelled, TypeOK, Row, SameRow, Frozen
  <1>5. \A p \in S : ChildrenClosed(p)
    <2> SUFFICES ASSUME NEW p \in S, NEW c \in Arcs, arcs'[c].status # "absent",
                        arcs'[c].parent = p
                 PROVE  arcs'[c].status \in Frozen
      BY DEF ChildrenClosed
    <2>1. Exists(c) /\ arcs[c].parent = p BY <1>3, <1>4 DEF Exists, SameRow
    <2>2. c \in Below(a) BY <1>3, <2>1, BelowClosed
    <2>3. arcs[c].status \in Open \cup Frozen BY <2>1 DEF TypeOK, Exists
    <2> QED BY <1>4, <2>2, <2>3 DEF Frozen
  <1>6. \A c \in Arcs : Stays(c) \/ Steps(c) \/ WrittenOver(c)
    <2> SUFFICES ASSUME NEW c \in Arcs PROVE Stays(c) \/ Steps(c) \/ WrittenOver(c) OBVIOUS
    <2>1. CASE c \notin S BY <1>4, <2>1 DEF Stays
    <2>2. CASE c \in S /\ arcs[c].status \in Open
      BY <1>4, <1>5, <2>2 DEF Steps, Frozen
    <2>3. CASE c \in S /\ arcs[c].status \notin Open
      <3>1. c \in call[t].open BY <2>3
      <3>2. arcs[c].status \in Frozen BY <1>3, <2>3 DEF TypeOK, Exists
      <3> QED BY <1>1, <1>4, <1>5, <2>3, <3>1, <3>2 DEF WrittenOver
    <2> QED BY <2>1, <2>2, <2>3
  <1>7. Evolves BY <1>1, <1>6 DEF Evolves
  <1>8. TypeOK' BY <1>1, <1>2, <1>4 DEF TypeOK, Row
  <1>9. Sources BY <1>1, NoSource DEF Alive
  <1> QED BY <1>7, <1>8, <1>9

(* The next start.                                                         *)
LEMMA RestartStep == ASSUME TypeOK, Restart PROVE TypeOK' /\ Evolves /\ Sources
  <1> DEFINE R == {a \in Arcs : \/ arcs[a].status = "active"
                                \/ arcs[a].status = "waiting" /\ attempts[a] # -1}
  <1>1. /\ restarts < MaxRestarts /\ restarts' = restarts + 1
        /\ arcs' = [a \in Arcs |-> IF a \in R THEN [arcs[a] EXCEPT !.status = "pending"] ELSE arcs[a]]
        /\ work' = [i \in Items |-> IF work[i] = "claimed" THEN "pending" ELSE work[i]]
        /\ running' = {} /\ loop' = Idle /\ call' = [t \in Threads |-> NoCall]
        /\ backoff' \subseteq backoff
        /\ UNCHANGED <<attempts, rejected, overwritten, strays, twins, late>>
    BY DEF Restart
  <1>2. restarts \in 0 .. MaxRestarts BY DEF TypeOK
  <1>3. restarts' \in 0 .. MaxRestarts /\ restarts' # restarts
    BY <1>1, <1>2, BoundsAssumption DEF BoundsAssumption
  <1>4. /\ \A c \in Arcs : SameRow(c)
        /\ \A c \in Arcs : arcs'[c].status = IF c \in R THEN "pending" ELSE arcs[c].status
        /\ arcs' \in [Arcs -> Row]
    <2> HIDE DEF R
    <2> QED BY <1>1 DEF TypeOK, Row, SameRow, Open
  <1>5. \A c \in Arcs : Stays(c) \/ Steps(c)
    BY <1>3, <1>4 DEF Stays, Steps, Open
  <1>6. Evolves BY <1>1, <1>5 DEF Evolves
  <1>7. TypeOK' BY <1>1, <1>3, <1>4 DEF TypeOK, Row
  <1>8. Sources BY <1>1, NoSource DEF Alive, Idle, TypeOK
  <1> QED BY <1>6, <1>7, <1>8

LEMMA NextStep == ASSUME TypeOK, Calls, [Next]_vars PROVE TypeOK' /\ Evolves /\ Sources
  <1>1. CASE UNCHANGED vars
    <2>1. TypeOK' BY <1>1 DEF vars, hist, TypeOK
    <2>2. Sources BY <1>1, NoSource DEF vars, hist, Alive
    <2> QED BY <1>1, <2>1, <2>2, SameEvolves DEF vars, hist
  <1>2. CASE LoopStep
    BY <1>2, DispatchStep, SkipFrozenStep, AgentReturnsStep, RetryStep, FailStep, FailRaisesStep,
       FreezeSelfStep, FreezeParentStep, SettleStep, ReplanStep, ReplanEndsStep, ScanStep
       DEF LoopStep
  <1>3. CASE ToolCall
    BY <1>3, AddChildReadsStep, CancelReadsStep, AddChildInsertsStep, AddChildEnqueuesStep,
       CancelWritesStep, CreateFacts, CreateStep DEF ToolCall, CallEnds
  <1>4. CASE (\E c \in Arcs : MarkFailed(c)) \/ Restart BY <1>4, MarkFailedStep, RestartStep
  <1> QED BY <1>1, <1>2, <1>3, <1>4 DEF Next

-----------------------------------------------------------------------------
(* What lasts.                                                             *)
LEMMA RowsLast ==
  ASSUME TypeOK, Evolves, NEW a \in Arcs, Exists(a)
  PROVE  Exists(a)' /\ SameRow(a) /\ (arcs[a].status \in Done => arcs'[a].status \in Done \/ a \in overwritten')
  BY Statuses DEF Evolves, Stays, Steps, WrittenOver, Inserted, Exists

LEMMA BelowGrows ==
  ASSUME TypeOK, Evolves, NEW a PROVE Below(a) \subseteq Below(a)'
  <1> SUFFICES ASSUME NEW c \in Below(a) PROVE c \in Below(a)' OBVIOUS
  <1>1. c \in Arcs /\ Exists(c)' BY RowsLast DEF Below
  <1>2. ASSUME NEW S \in SUBSET Arcs, HoldsBelow(S, a)' PROVE c \in S
    <2>1. HoldsBelow(S, a)
      <3> SUFFICES ASSUME NEW b \in Arcs, Exists(b), arcs[b].parent \in S \cup {a} PROVE b \in S
        BY DEF HoldsBelow
      <3>1. Exists(b)' /\ arcs'[b].parent = arcs[b].parent BY RowsLast DEF SameRow
      <3> QED BY <1>2, <3>1 DEF HoldsBelow
    <2> QED BY <2>1 DEF Below
  <1> QED BY <1>1, <1>2 DEF Below

LEMMA CallsStep == ASSUME TypeOK, Calls, [Next]_vars PROVE Calls'
  <1>1. TypeOK' /\ Evolves BY NextStep
  <1> SUFFICES ASSUME NEW t \in Threads, NEW a, call'[t].arc = a,
                      call'[t].op \in {"enqueue", "cancel"}
               PROVE  /\ Exists(a)'
                      /\ call'[t].op = "cancel" => call'[t].open \subseteq {a} \cup Below(a)'
    BY DEF Calls, Exists, Below, HoldsBelow
  <1>3. CASE call'[t] = call[t] \/ call'[t] = NoCall
    <2>1. call'[t] = call[t] BY <1>3 DEF NoCall
    <2>2. a \in Arcs /\ Exists(a) /\ (call[t].op = "cancel" => call[t].open \subseteq {a} \cup Below(a))
      BY <2>1, CallFacts DEF Calls
    <2>3. Exists(a)' /\ Below(a) \subseteq Below(a)' BY <1>1, <2>2, RowsLast, BelowGrows
    <2> QED BY <2>1, <2>2, <2>3
  <1>4. ASSUME NEW b \in Arcs, AddChildReads(t, b) PROVE FALSE
    BY <1>4 DEF AddChildReads, TypeOK
  <1>5. CASE AddChildInserts(t)
    <2>1. PICK b \in Arcs, p \in Arcs : \E order \in [{b} -> 0 .. MaxArcs] :
            /\ Inserts({b}, p, order)
            /\ call' = [call EXCEPT ![t] = [op |-> "enqueue", arc |-> b]]
      BY <1>5, AddChildInsertsFacts
    <2>2. call'[t] = [op |-> "enqueue", arc |-> b] BY <2>1 DEF TypeOK
    <2>3. arcs'[b].status = "pending" BY <2>1, InsertsFacts
    <2> QED BY <2>2, <2>3 DEF Exists
  <1>6. ASSUME NEW b \in Arcs, CancelReads(t, b)
        PROVE  Exists(a)' /\ call'[t].open \subseteq {a} \cup Below(a)'
    <2>1. PICK S \in SUBSET ({b} \cup Below(b)) :
            call' = [call EXCEPT ![t] = [op |-> "cancel", arc |-> b, open |-> S]]
      BY <1>6 DEF CancelReads
    <2>2. call'[t] = [op |-> "cancel", arc |-> b, open |-> S] BY <2>1 DEF TypeOK
    <2>3. Exists(b) /\ arcs' = arcs /\ a = b BY <1>6, <2>2 DEF CancelReads
    <2>4. Exists(a)' /\ Below(a)' = Below(b) BY <2>3 DEF Below, HoldsBelow, Exists
    <2> QED BY <2>2, <2>3, <2>4
  <1>7. CASE UNCHANGED vars BY <1>3, <1>7 DEF vars
  <1>8. CASE LoopStep \/ \E c \in Arcs : MarkFailed(c)
    <2>1. call' = call
      BY <1>8 DEF LoopStep, MarkFailed, Dispatch, SkipFrozen, AgentReturns, Retry, Fail, FailRaises,
                  FreezeSelf, FreezeParent, Settle, Replan, ReplanEnds, Scan
    <2> QED BY <1>3, <2>1
  <1>9. CASE Restart BY <1>3, <1>9 DEF Restart
  <1>10. ASSUME NEW u \in Threads, u # t, NEW d \in Arcs,
                AddChildReads(u, d) \/ CancelReads(u, d) \/ CallEnds(u)
         PROVE  call'[t] = call[t]
    BY <1>10 DEF AddChildReads, CancelReads, CallEnds, AddChildInserts, AddChildEnqueues,
                 CancelWrites, TypeOK
  <1>11. ASSUME NEW u \in Threads, u # t, CallEnds(u) PROVE call'[t] = call[t]
    BY <1>11 DEF CallEnds, AddChildInserts, AddChildEnqueues, CancelWrites, TypeOK
  <1>12. CASE AddChildEnqueues(t) \/ CancelWrites(t)
    <2>1. call'[t] = NoCall BY <1>12 DEF AddChildEnqueues, CancelWrites, TypeOK
    <2> QED BY <1>3, <2>1
  <1>13. CASE \E p \in Adopters : Create(p) \/ CreateBatch(p)
    BY <1>3, <1>13, CreateFacts, CreateStep
  <1>14. CASE ToolCall /\ ~(\E p \in Adopters : Create(p) \/ CreateBatch(p))
    <2>1. PICK u \in Threads : (\E d \in Arcs : AddChildReads(u, d) \/ CancelReads(u, d)) \/ CallEnds(u)
      BY <1>14 DEF ToolCall
    <2>2. CASE u # t BY <1>3, <1>10, <1>11, <2>1, <2>2
    <2>3. CASE u = t
      <3>1. CASE \E d \in Arcs : AddChildReads(t, d) BY <1>4, <3>1
      <3>2. CASE \E d \in Arcs : CancelReads(t, d) BY <1>6, <3>2
      <3> QED BY <1>5, <1>12, <2>1, <2>3, <3>1, <3>2 DEF CallEnds
    <2> QED BY <2>2, <2>3
  <1> QED BY <1>7, <1>8, <1>9, <1>13, <1>14 DEF Next

-----------------------------------------------------------------------------
(* The order of the steps: an arc that has an item, a handler or an        *)
(* outcome on its way follows steps that are done.                         *)
Cleared(a) ==
    Exists(a) /\ \A b \in Preceding(arcs, a) :
                    arcs[b].status \in Done \/ b \in overwritten \cup twins

Ordered == \A i \in Items : i[1] # "child_failed" /\ Alive(i) => Cleared(i[2])

LEMMA ClearedLasts == ASSUME TypeOK, TypeOK', Evolves, NEW a \in Arcs, Cleared(a) PROVE Cleared(a)'
  <1>1. Exists(a)' /\ SameRow(a) BY RowsLast DEF Cleared
  <1> SUFFICES ASSUME NEW b \in Preceding(arcs, a)'
               PROVE  arcs'[b].status \in Done \/ b \in overwritten' \cup twins'
    BY <1>1 DEF Cleared
  <1>2. /\ b \in Arcs /\ arcs'[b].status # "absent" /\ arcs'[a].parent # 0
        /\ arcs'[b].parent = arcs'[a].parent /\ arcs'[b].step_order < arcs'[a].step_order
    BY DEF Preceding
  <1>3. CASE Exists(b)
    <2>1. SameRow(b) /\ (arcs[b].status \in Done => arcs'[b].status \in Done \/ b \in overwritten')
      BY <1>2, <1>3, RowsLast
    <2>2. b \in Preceding(arcs, a) BY <1>1, <1>2, <1>3, <2>1 DEF Preceding, SameRow, Exists
    <2> QED BY <2>1, <2>2 DEF Cleared, Evolves
  <1>4. CASE ~Exists(b)
    <2>1. Inserted(b) BY <1>2, <1>4, Statuses DEF Evolves, Stays, Steps, WrittenOver, Exists
    <2>2. arcs[a].step_order \in 0 .. MaxArcs /\ arcs'[b].step_order \in 0 .. MaxArcs
      BY <1>2 DEF TypeOK
    <2>3. arcs'[b].step_order <= arcs[a].step_order BY <1>1, <1>2, <2>2 DEF SameRow
    <2> QED BY <1>1, <1>2, <2>1, <2>3 DEF Inserted, SameRow, Cleared, Exists
  <1> QED BY <1>3, <1>4

LEMMA OrderedStep == ASSUME TypeOK, TypeOK', Evolves, Sources, Ordered PROVE Ordered'
  <1> SUFFICES ASSUME NEW i \in Items, i[1] # "child_failed", Alive(i)' PROVE Cleared(i[2])'
    BY DEF Ordered
  <1>1. i[2] \in Arcs BY Items1
  <1>2. CASE \E j \in Runs(i[2]) : Alive(j)
    <2>1. PICK j \in Runs(i[2]) : Alive(j) BY <1>2
    <2>2. j \in Items /\ j[1] # "child_failed" /\ j[2] = i[2] BY <1>1, <2>1, Items1 DEF Runs
    <2>3. Cleared(i[2]) BY <2>1, <2>2 DEF Ordered
    <2> QED BY <1>1, <2>3, ClearedLasts
  <1>3. CASE arcs'[i[2]].status # "absent" /\ check_dependencies(arcs', i[2])
    <2>1. \A b \in Preceding(arcs', i[2]) : arcs'[b].status \in Done
      BY <1>3 DEF check_dependencies
    <2> QED BY <1>3, <2>1 DEF Cleared, Exists
  <1> QED BY <1>2, <1>3 DEF Sources

LEMMA StartsInOrder ==
  ASSUME TypeOK, Evolves, Ordered, NEW a \in Arcs, Starts(a)
  PROVE  \A b \in Preceding(arcs, a) : arcs[b].status \in Done \/ b \in overwritten \cup twins
  <1>1. arcs[a].status = "pending" /\ arcs'[a].status = "active" BY DEF Starts
  <1>2. \E i \in Runs(a) : work[i] = "pending"
    BY <1>1, Statuses DEF Evolves, Stays, Steps, WrittenOver, Inserted
  <1>3. PICK i \in Runs(a) : work[i] = "pending" BY <1>2
  <1>4. i \in Items /\ i[1] # "child_failed" /\ i[2] = a BY <1>3, Items1 DEF Runs
  <1>5. Cleared(a) BY <1>3, <1>4 DEF Ordered, Alive
  <1> QED BY <1>5 DEF Cleared

-----------------------------------------------------------------------------
(* Trees: a decision to complete was made on finished children.            *)
Deserved(p) ==
    \A c \in Arcs \ strays : Exists(c) /\ arcs[c].parent = p => arcs[c].status \in Done \/ c \in overwritten

Decided == loop.step \in {"self", "parent"} /\ loop.to = "completed" => Deserved(loop.at)

LEMMA DeservedLasts ==
  ASSUME TypeOK, Evolves, NEW p \in Arcs, Deserved(p), arcs[p].status \in Frozen \/ Deciding(p)
  PROVE  Deserved(p)'
  <1> SUFFICES ASSUME NEW c \in Arcs, c \notin strays', arcs'[c].status # "absent", arcs'[c].parent = p
               PROVE  arcs'[c].status \in Done \/ c \in overwritten'
    BY DEF Deserved, Exists
  <1>1. CASE Exists(c)
    <2>1. SameRow(c) /\ (arcs[c].status \in Done => arcs'[c].status \in Done \/ c \in overwritten')
      BY <1>1, RowsLast
    <2> QED BY <1>1, <2>1 DEF Deserved, SameRow, Evolves
  <1>2. CASE ~Exists(c)
    <2>1. Inserted(c) BY <1>2, Statuses DEF Evolves, Stays, Steps, WrittenOver, Exists
    <2> QED BY <2>1 DEF Inserted
  <1> QED BY <1>1, <1>2

LEMMA DecidedStep == ASSUME TypeOK, Evolves, Decided, [Next]_vars PROVE Decided'
  <1> SUFFICES ASSUME NEW p, loop'.step \in {"self", "parent"}, loop'.to = "completed",
                      loop'.at = p
               PROVE  Deserved(p)'
    BY DEF Decided, Deserved, Exists
  <1>1. CASE loop' = loop
    <2>1. p \in Arcs BY <1>1, LoopFacts
    <2>2. Deserved(p) /\ Deciding(p) BY <1>1, Statuses DEF Decided, Deciding
    <2> QED BY <2>1, <2>2, DeservedLasts
  <1>2. ASSUME Decide(arcs', p) = "completed" PROVE Deserved(p)'
    <2>1. \A c \in Children(arcs', p) : arcs'[c].status \in Done BY <1>2, DecideFacts
    <2> QED BY <2>1 DEF Deserved, Children, Exists
  <1>3. ASSUME NEW i \in Items, AgentReturns(i) PROVE Deserved(p)'
    <2>1. /\ loop' = [step |-> "self", item |-> i, at |-> i[2], to |-> Decide(arcs, i[2])]
          /\ arcs' = arcs
      BY <1>3 DEF AgentReturns
    <2> QED BY <1>2, <2>1
  <1>4. CASE FreezeSelf
    <2> DEFINE q == arcs[loop.at].parent
    <2>1. loop.step = "self" /\ q # 0
          /\ loop' = [loop EXCEPT !.step = "parent", !.at = q, !.to = Decide(arcs', q)]
      BY <1>4 DEF FreezeSelf, Settling
    <2>2. loop \in [step : {"self", "parent"}, item : Items, at : Arcs,
                    to : {"completed", "failed", "waiting", "nothing"}]
      BY <2>1 DEF TypeOK, Idle
    <2> HIDE DEF q
    <2>3. loop'.at = q /\ loop'.to = Decide(arcs', q) BY <2>1, <2>2
    <2> QED BY <1>2, <2>3
  <1>5. CASE FreezeParent \/ Settle BY <1>5 DEF FreezeParent, Settle, Settling, Idle
  <1>6. ASSUME NEW i \in Items, Dispatch(i) \/ SkipFrozen(i) \/ Retry(i) \/ Fail(i) \/ FailRaises(i)
        PROVE  loop' = loop \/ loop'.step \in {"idle", "settle"}
    BY <1>6 DEF Dispatch, SkipFrozen, Retry, Fail, FailRaises, Idle, Settling
  <1>7. ASSUME NEW c \in Arcs, Replan(c) \/ ReplanEnds(c) \/ Scan(c) \/ MarkFailed(c)
        PROVE  loop' = loop \/ loop'.step = "settle"
    BY <1>7 DEF Replan, ReplanEnds, Scan, MarkFailed, Settling
  <1>8. CASE ToolCall
    BY <1>1, <1>8 DEF ToolCall, CallEnds, AddChildReads, CancelReads, AddChildInserts,
                      AddChildEnqueues, CancelWrites, Create, CreateBatch, Inserts
  <1>9. CASE Restart BY <1>9 DEF Restart, Idle
  <1>10. CASE UNCHANGED vars BY <1>1, <1>10 DEF vars
  <1> QED BY <1>1, <1>3, <1>4, <1>5, <1>6, <1>7, <1>8, <1>9, <1>10 DEF Next, LoopStep

LEMMA TreesStep ==
  ASSUME TypeOK, TypeOK', Evolves, Decided, TreesCloseTogether PROVE TreesCloseTogether'
  <1> SUFFICES ASSUME NEW c \in Arcs, c \notin strays', arcs'[c].status # "absent",
                      arcs'[c].parent # 0
               PROVE  LET p == arcs'[c].parent IN
                      /\ arcs'[p].status = "completed" =>
                            arcs'[c].status \in Done \/ c \in overwritten'
                      /\ arcs'[p].status = "cancelled" => arcs'[c].status \in Frozen
    BY DEF TreesCloseTogether, Exists
  <1>p. PICK p : p = arcs'[c].parent OBVIOUS
  <1>1. p \in Arcs
    <2>1. p \in 0 .. MaxArcs /\ p # 0 BY <1>p DEF TypeOK
    <2> QED BY <2>1, BoundsAssumption DEF Arcs, BoundsAssumption
  <1>2. CASE arcs'[p].status = "completed"
    <2>1. Deserved(p) /\ (arcs[p].status \in Frozen \/ Deciding(p))
      <3>1. CASE arcs[p].status = "completed"
        <4>1. \A d \in Arcs \ strays : Exists(d) /\ arcs[d].parent = p =>
                 arcs[d].status \in Done \/ d \in overwritten
          <5>1. p # 0 BY <1>1 DEF Arcs
          <5> QED BY <3>1, <5>1 DEF TreesCloseTogether
        <4> QED BY <3>1, <4>1, Statuses DEF Deserved
      <3>2. CASE arcs[p].status # "completed"
        <4>1. Steps(p) BY <1>1, <1>2, <3>2, Statuses DEF Evolves, Stays, WrittenOver, Inserted
        <4>2. loop.step \in {"self", "parent"} /\ loop.at = p /\ loop.to = "completed"
          BY <1>2, <4>1 DEF Steps
        <4> QED BY <4>2, Statuses DEF Decided, Deciding
      <3> QED BY <3>1, <3>2
    <2>2. Deserved(p)' BY <1>1, <2>1, DeservedLasts
    <2>3. arcs'[c].status \in Done \/ c \in overwritten' BY <1>p, <2>2 DEF Deserved, Exists
    <2> QED BY <1>p, <1>2, <2>3
  <1>3. CASE arcs'[p].status = "cancelled"
    <2>1. CASE arcs[p].status # "cancelled"
      <3>1. ChildrenClosed(p)
        BY <1>1, <1>3, <2>1, Statuses DEF Evolves, Stays, Steps, WrittenOver, Inserted
      <3> QED BY <1>p, <1>3, <3>1 DEF ChildrenClosed
    <2>2. CASE arcs[p].status = "cancelled"
      <3>1. CASE Exists(c)
        <4>1. SameRow(c) BY <3>1, RowsLast
        <4>2. p = arcs[c].parent /\ c \notin strays BY <1>p, <4>1 DEF SameRow, Evolves
        <4>3. p # 0 BY <1>1 DEF Arcs
        <4>4. arcs[c].status \in Frozen BY <2>2, <3>1, <4>2, <4>3 DEF TreesCloseTogether
        <4>5. arcs'[c].status \in Frozen
          BY <4>4, Statuses DEF Evolves, Stays, Steps, WrittenOver, Inserted
        <4> QED BY <1>p, <1>3, <4>5
      <3>2. CASE ~Exists(c)
        <4>1. Inserted(c) BY <3>2, Statuses DEF Evolves, Stays, Steps, WrittenOver, Exists
        <4> QED BY <1>p, <1>1, <2>2, <4>1, Statuses DEF Inserted
      <3> QED BY <3>1, <3>2
    <2> QED BY <2>1, <2>2
  <1> QED BY <1>p, <1>2, <1>3

-----------------------------------------------------------------------------
(* Without a restart: a retry waits only for an arc that has started, and  *)
(* takes the place of its dispatch.                                        *)
Busy(a) == (\E i \in Runs(a) : i \in running) \/ (loop.step # "idle" /\ loop.item \in Runs(a))

Alone(a) ==
    /\ arcs[a].status \in {"pending", "absent"} => work[<<"retry", a>>] = "none" /\ ~Busy(a)
    /\ work[<<"retry", a>>] # "none" =>
          work[<<"dispatch", a>>] = "none" \/ loop = Settling(<<"dispatch", a>>)

Claimed ==
    /\ \A i \in running : work[i] = "claimed" /\ (loop.step # "idle" => loop.item # i)
    /\ loop.step # "idle" => work[loop.item] = "claimed"

RunInv == Claimed /\ (restarts = 0 => \A a \in Arcs \ late : Alone(a))

LEMMA RunsFacts ==
  ASSUME NEW a \in Arcs
  PROVE  /\ <<"dispatch", a>> \in Items /\ <<"retry", a>> \in Items
         /\ Runs(a) = {<<"dispatch", a>>, <<"retry", a>>}
         /\ <<"dispatch", a>> # <<"retry", a>> /\ Runs(a) \subseteq Items
         /\ \A i \in Items : i \in Runs(a) => i[2] = a
  BY DEF Items, Kinds, Runs

LEMMA EarlyBefore ==
  ASSUME TypeOK, Evolves, restarts' = restarts, NEW a \in Arcs,
         arcs'[a].status \in {"pending", "absent"}
  PROVE  arcs[a].status \in {"pending", "absent"}
  BY Statuses DEF Evolves, Stays, Steps, WrittenOver, Inserted

(* Steps that leave the handlers alone and enqueue dispatches at most.     *)
LEMMA QuietRuns ==
  ASSUME TypeOK, Evolves, RunInv, UNCHANGED <<running, restarts>>,
         \/ loop' = loop
         \/ loop.step \in {"self", "parent"} /\ loop'.step # "idle" /\ loop'.item = loop.item,
         NEW S, work' = Enqueued(work, S),
         \A i \in S : \/ i[1] = "child_failed"
                      \/ \E a \in Arcs : /\ i = <<"dispatch", a>>
                                         /\ arcs'[a].status = "pending" \/ a \in late'
  PROVE  RunInv'
  <1>1. Claimed'
    <2>1. \A i \in Items : work[i] # "none" => work'[i] = work[i] BY EnqueuedFacts DEF TypeOK
    <2>2. loop'.step # "idle" => loop.step # "idle" /\ loop'.item = loop.item OBVIOUS
    <2> QED BY <2>1, <2>2, LoopFacts DEF RunInv, Claimed, TypeOK
  <1>2. ASSUME restarts = 0, NEW a \in Arcs, a \notin late' PROVE Alone(a)'
    <2>1. a \notin late /\ Alone(a) BY <1>2 DEF Evolves, RunInv
    <2>2. work'[<<"retry", a>>] = work[<<"retry", a>>]
      <3>1. <<"retry", a>> \in Items BY RunsFacts
      <3>2. <<"retry", a>> \notin S OBVIOUS
      <3>3. work'[<<"retry", a>>] =
              IF <<"retry", a>> \in S /\ work[<<"retry", a>>] = "none" THEN "pending"
              ELSE work[<<"retry", a>>]
        BY <3>1 DEF Enqueued
      <3> QED BY <3>2, <3>3
    <2>3. arcs'[a].status \in {"pending", "absent"} => arcs[a].status \in {"pending", "absent"}
      BY EarlyBefore
    <2>4. Busy(a)' => Busy(a) BY DEF Busy
    <2>5. work'[<<"retry", a>>] # "none" =>
             work'[<<"dispatch", a>>] = "none" \/ loop' = Settling(<<"dispatch", a>>)
      <3> SUFFICES ASSUME work[<<"retry", a>>] # "none", loop # Settling(<<"dispatch", a>>)
                   PROVE  work'[<<"dispatch", a>>] = "none"
        BY <2>2 DEF Settling
      <3>1. work[<<"dispatch", a>>] = "none" /\ arcs'[a].status # "pending"
        BY <2>1, <2>3 DEF Alone
      <3>2. <<"dispatch", a>> \notin S BY <1>2, <3>1
      <3>3. <<"dispatch", a>> \in Items BY RunsFacts
      <3>4. work'[<<"dispatch", a>>] =
              IF <<"dispatch", a>> \in S /\ work[<<"dispatch", a>>] = "none" THEN "pending"
              ELSE work[<<"dispatch", a>>]
        BY <3>3 DEF Enqueued
      <3> QED BY <3>1, <3>2, <3>4
    <2> QED BY <2>1, <2>2, <2>3, <2>4, <2>5 DEF Alone
  <1> QED BY <1>1, <1>2 DEF RunInv

LEMMA StillRuns ==
  ASSUME TypeOK, Evolves, RunInv, UNCHANGED <<work, running, loop, restarts>> PROVE RunInv'
  <1>1. work' = Enqueued(work, {}) BY DEF Enqueued, TypeOK
  <1> QED BY <1>1, QuietRuns

(* The arcs a step of a handler is not about.                              *)
LEMMA OthersAlone ==
  ASSUME TypeOK, Evolves, restarts' = restarts, NEW a \in Arcs, Alone(a),
         \A i \in Runs(a) : work'[i] = work[i] /\ (i \in running' => i \in running),
         loop'.step = "idle" \/ loop'.item \notin Runs(a), loop # Settling(<<"dispatch", a>>)
  PROVE  Alone(a)'
  <1>1. Busy(a)' => Busy(a) BY DEF Busy
  <1>2. /\ work'[<<"retry", a>>] = work[<<"retry", a>>]
        /\ work'[<<"dispatch", a>>] = work[<<"dispatch", a>>]
    BY DEF Runs
  <1> QED BY <1>1, <1>2, EarlyBefore DEF Alone

LEMMA DispatchRuns ==
  ASSUME TypeOK, Evolves, RunInv, NEW i \in Items, Dispatch(i) PROVE RunInv'
  <1>1. /\ loop = Idle /\ i \in Runs(i[2]) /\ i[2] \in Arcs /\ work[i] = "pending"
        /\ arcs' = Moved(arcs, i[2], "active") /\ work' = [work EXCEPT ![i] = "claimed"]
        /\ running' = running \cup {i} /\ loop' = loop /\ restarts' = restarts /\ late' = late
    BY Items1 DEF Dispatch
  <1>2. Claimed' BY <1>1 DEF RunInv, Claimed, TypeOK, Idle
  <1>3. ASSUME restarts = 0, NEW a \in Arcs, a \notin late' PROVE Alone(a)'
    <2>1. Alone(a) BY <1>1, <1>3 DEF RunInv
    <2>2. CASE a # i[2]
      <3>1. i \notin Runs(a) /\ Runs(a) \subseteq Items BY <1>1, <2>2, RunsFacts
      <3>2. \A j \in Runs(a) : work'[j] = work[j] /\ (j \in running' => j \in running)
        BY <1>1, <3>1 DEF TypeOK
      <3>3. loop'.step = "idle" BY <1>1 DEF Idle
      <3>4. loop # Settling(<<"dispatch", a>>) BY <1>1 DEF Idle, Settling
      <3> QED BY <1>1, <2>1, <3>2, <3>3, <3>4, OthersAlone
    <2>3. CASE a = i[2]
      <3>1. arcs'[a].status = "active" BY <1>1, <2>3 DEF Moved, TypeOK
      <3>2. \A j \in Runs(a) : work'[j] # "none" <=> work[j] # "none"
        BY <1>1, RunsFacts DEF TypeOK
      <3> QED BY <1>1, <2>1, <3>1, <3>2 DEF Alone, Idle, Settling, Runs
    <2> QED BY <2>2, <2>3
  <1> QED BY <1>1, <1>2, <1>3 DEF RunInv

LEMMA SkipFrozenRuns ==
  ASSUME TypeOK, Evolves, RunInv, NEW i \in Items, SkipFrozen(i) PROVE RunInv'
  <1>1. /\ loop = Idle /\ work[i] = "pending" /\ work' = [work EXCEPT ![i] = "none"]
        /\ arcs' = arcs /\ running' = running /\ loop' = loop /\ restarts' = restarts
        /\ late' = late
    BY DEF SkipFrozen, hist
  <1>2. Claimed' BY <1>1 DEF RunInv, Claimed, TypeOK, Idle
  <1>3. ASSUME restarts = 0, NEW a \in Arcs, a \notin late' PROVE Alone(a)'
    <2>1. Alone(a) BY <1>1, <1>3 DEF RunInv
    <2>2. Busy(a)' <=> Busy(a) BY <1>1 DEF Busy
    <2>3. \A j \in Runs(a) : work'[j] # "none" => work[j] # "none" BY <1>1, RunsFacts DEF TypeOK
    <2> QED BY <1>1, <2>1, <2>2, <2>3 DEF Alone, Runs
  <1> QED BY <1>1, <1>2, <1>3 DEF RunInv

LEMMA AgentReturnsRuns ==
  ASSUME TypeOK, Evolves, RunInv, NEW i \in Items, AgentReturns(i) PROVE RunInv'
  <1>1. /\ loop = Idle /\ i \in Runs(i[2]) /\ i[2] \in Arcs /\ i \in running
        /\ running' = running \ {i} /\ loop'.step = "self" /\ loop'.item = i
        /\ arcs' = arcs /\ work' = work /\ restarts' = restarts /\ late' = late
    BY Items1 DEF AgentReturns, hist
  <1>2. Claimed' BY <1>1 DEF RunInv, Claimed
  <1>3. ASSUME restarts = 0, NEW a \in Arcs, a \notin late' PROVE Alone(a)'
    <2>1. Alone(a) BY <1>1, <1>3 DEF RunInv
    <2>2. CASE a # i[2]
      <3>1. i \notin Runs(a) BY <1>1, <2>2, RunsFacts
      <3> QED BY <1>1, <1>3, <2>1, <3>1, OthersAlone DEF Idle, Settling
    <2>3. CASE a = i[2]
      <3>1. Busy(a) BY <1>1, <2>3 DEF Busy
      <3> QED BY <1>1, <2>1, <3>1 DEF Alone, Idle, Settling
    <2> QED BY <2>2, <2>3
  <1> QED BY <1>1, <1>2, <1>3 DEF RunInv

(* What the except branch finds.                                           *)
LEMMA RaisesRuns ==
  ASSUME TypeOK, RunInv, NEW i \in Items, Raises(i)
  PROVE  /\ work[i] = "claimed" /\ i[2] \in Arcs /\ i \in Runs(i[2]) /\ running' = running \ {i}
         /\ Busy(i[2]) /\ loop.step \in {"idle", "self"} /\ (loop.step # "idle" => loop.item = i)
         /\ \A a \in Arcs : loop # Settling(<<"dispatch", a>>)
  <1>1. i[2] \in Arcs /\ i \in Runs(i[2]) /\ running' = running \ {i} BY Items1 DEF Raises
  <1>2. CASE loop = Idle /\ i \in running
    BY <1>1, <1>2 DEF RunInv, Claimed, Busy, Idle, Settling
  <1>3. CASE loop.step = "self" /\ loop.item = i
    BY <1>1, <1>3 DEF RunInv, Claimed, Busy, Settling
  <1> QED BY <1>2, <1>3 DEF Raises

LEMMA RetryRuns ==
  ASSUME TypeOK, Evolves, RunInv, NEW i \in Items, Retry(i) PROVE RunInv'
  <1> DEFINE b == i[2]
             r == <<"retry", b>>
             d == <<"dispatch", b>>
  <1>1. /\ Raises(i) /\ (i[1] = "dispatch" => work[r] = "none")
        /\ work' = [work EXCEPT ![r] = "pending"]
        /\ loop' = IF i[1] = "retry" THEN Idle ELSE Settling(i)
        /\ restarts' = restarts /\ late' = late
        /\ arcs' = Moved(arcs, b, "waiting") \/ arcs' = arcs
    BY DEF Retry
  <1>2. /\ work[i] = "claimed" /\ b \in Arcs /\ i \in Runs(b) /\ running' = running \ {i}
        /\ Busy(b) /\ loop.step \in {"idle", "self"} /\ (loop.step # "idle" => loop.item = i)
        /\ \A a \in Arcs : loop # Settling(<<"dispatch", a>>)
    BY <1>1, RaisesRuns
  <1>3. i = r \/ i = d BY <1>2 DEF Runs
  <1>4. r \in Items /\ d \in Items /\ r # d BY <1>2, RunsFacts
  <1>5. \A j \in Items : j # r => work'[j] = work[j] BY <1>1
  <1>6. Claimed'
    <2>1. r \notin running'
      <3>1. CASE i = r BY <1>2, <3>1
      <3>2. CASE i = d
        <4>1. work[r] = "none" BY <1>1, <3>2
        <4> QED BY <1>2, <4>1 DEF RunInv, Claimed
      <3> QED BY <1>3, <3>1, <3>2
    <2>2. running' \subseteq Items /\ running' \subseteq running /\ i \notin running'
      BY <1>2 DEF TypeOK
    <2>3. \A j \in running' : work'[j] = "claimed" BY <1>5, <2>1, <2>2 DEF RunInv, Claimed
    <2>4. loop'.step # "idle" => loop'.item = i /\ i = d BY <1>1, <1>3 DEF Settling, Idle
    <2>5. loop'.step # "idle" => work'[loop'.item] = "claimed" BY <1>2, <1>4, <1>5, <2>4
    <2> QED BY <2>2, <2>3, <2>4, <2>5 DEF Claimed
  <1>7. ASSUME restarts = 0, NEW a \in Arcs, a \notin late' PROVE Alone(a)'
    <2>1. Alone(a) BY <1>1, <1>7 DEF RunInv
    <2>2. CASE a # b
      <3>1. i \notin Runs(a) /\ r \notin Runs(a) BY <1>2, <2>2, RunsFacts
      <3>2. \A j \in Runs(a) : work'[j] = work[j]
        <4>1. Runs(a) \subseteq Items BY RunsFacts
        <4> HIDE DEF r
        <4> QED BY <1>5, <3>1, <4>1
      <3>3. loop'.step = "idle" \/ loop'.item \notin Runs(a)
        BY <1>1, <3>1 DEF Idle, Settling
      <3> QED BY <1>1, <1>2, <2>1, <3>2, <3>3, OthersAlone
    <2>3. CASE a = b
      <3>1. arcs[a].status \notin {"pending", "absent"} BY <1>2, <2>1, <2>3 DEF Alone
      <3>2. arcs'[a].status \notin {"pending", "absent"} BY <1>1, <3>1, EarlyBefore
      <3>3. work'[d] = "none" \/ loop' = Settling(d)
        <4>1. CASE i = d BY <1>1, <4>1
        <4>2. CASE i = r
          <5>1. work[d] = "none" BY <1>2, <2>1, <2>3, <4>2 DEF Alone
          <5> QED BY <1>4, <1>5, <5>1
        <4> QED BY <1>3, <4>1, <4>2
      <3> QED BY <2>3, <3>2, <3>3 DEF Alone
    <2> QED BY <2>2, <2>3
  <1> QED BY <1>1, <1>6, <1>7 DEF RunInv

LEMMA FailRuns ==
  ASSUME TypeOK, Evolves, RunInv, NEW i \in Items, Fail(i) PROVE RunInv'
  <1>1. /\ Raises(i) /\ loop' = Settling(i) /\ arcs' = Moved(arcs, i[2], "failed")
        /\ work' = Enqueued(work, Notice(arcs', i[2])) /\ restarts' = restarts /\ late' = late
    BY DEF Fail, hist
  <1>2. /\ work[i] = "claimed" /\ i[2] \in Arcs /\ i \in Runs(i[2]) /\ running' = running \ {i}
        /\ Busy(i[2]) /\ \A a \in Arcs : loop # Settling(<<"dispatch", a>>)
    BY <1>1, RaisesRuns
  <1>3. \A j \in Items : j[1] # "child_failed" \/ work[j] # "none" => work'[j] = work[j]
    BY <1>1, EnqueuedFacts, NoticeFacts DEF TypeOK
  <1>4. Claimed'
    <2>1. \A j \in running' : work'[j] = "claimed" BY <1>2, <1>3 DEF RunInv, Claimed, TypeOK
    <2>2. loop'.item = i /\ work'[i] = "claimed" BY <1>1, <1>2, <1>3 DEF Settling
    <2> QED BY <1>2, <2>1, <2>2 DEF Claimed
  <1>5. ASSUME restarts = 0, NEW a \in Arcs, a \notin late' PROVE Alone(a)'
    <2>1. Alone(a) BY <1>1, <1>5 DEF RunInv
    <2>2. \A j \in Runs(a) : work'[j] = work[j] BY <1>3, RunsFacts DEF Runs
    <2>3. CASE a # i[2]
      <3>1. i \notin Runs(a) BY <1>2, <2>3, RunsFacts
      <3>2. loop'.item \notin Runs(a) BY <1>1, <3>1 DEF Settling
      <3> QED BY <1>1, <1>2, <2>1, <2>2, <3>2, OthersAlone
    <2>4. CASE a = i[2]
      <3>1. arcs'[a].status = "failed" BY <1>1, <2>4 DEF Moved, TypeOK
      <3> QED BY <1>2, <2>1, <2>2, <3>1 DEF Alone, Runs
    <2> QED BY <2>3, <2>4
  <1> QED BY <1>1, <1>4, <1>5 DEF RunInv

LEMMA FailRaisesRuns ==
  ASSUME TypeOK, Evolves, RunInv, NEW i \in Items, FailRaises(i) PROVE RunInv'
  <1>1. /\ Raises(i) /\ loop' = Idle /\ arcs' = arcs /\ restarts' = restarts /\ late' = late
        /\ \A j \in Items : j # i => work'[j] = work[j]
    BY DEF FailRaises, hist
  <1>2. /\ work[i] = "claimed" /\ i[2] \in Arcs /\ i \in Runs(i[2]) /\ running' = running \ {i}
        /\ Busy(i[2]) /\ \A a \in Arcs : loop # Settling(<<"dispatch", a>>)
    BY <1>1, RaisesRuns
  <1>3. Claimed' BY <1>1, <1>2 DEF RunInv, Claimed, TypeOK, Idle
  <1>4. ASSUME restarts = 0, NEW a \in Arcs, a \notin late' PROVE Alone(a)'
    <2>1. Alone(a) BY <1>1, <1>4 DEF RunInv
    <2>2. CASE a # i[2]
      <3>1. i \notin Runs(a) BY <1>2, <2>2, RunsFacts
      <3>2. \A j \in Runs(a) : work'[j] = work[j]
        <4>1. Runs(a) \subseteq Items BY RunsFacts
        <4> QED BY <1>1, <3>1, <4>1
      <3> QED BY <1>1, <1>2, <2>1, <3>2, OthersAlone DEF Idle
    <2>3. CASE a = i[2]
      <3>1. arcs'[a].status \notin {"pending", "absent"} BY <1>1, <1>2, <2>1, <2>3 DEF Alone
      <3>2. work[<<"retry", a>>] = "none" \/ work[<<"dispatch", a>>] = "none"
        BY <1>2, <2>1 DEF Alone
      <3>3. \A j \in Runs(a) : work[j] = "none" => work'[j] = "none"
        BY <1>1, <1>2, RunsFacts
      <3> QED BY <3>1, <3>2, <3>3 DEF Alone, Runs
    <2> QED BY <2>2, <2>3
  <1> QED BY <1>1, <1>3, <1>4 DEF RunInv

LEMMA SettleRuns == ASSUME TypeOK, Evolves, RunInv, Settle PROVE RunInv'
  <1>1. /\ loop.step = "settle" /\ loop' = Idle /\ work' = [work EXCEPT ![loop.item] = "none"]
        /\ arcs' = arcs /\ running' = running /\ restarts' = restarts /\ late' = late
    BY DEF Settle, hist
  <1>2. loop.item \in Items BY <1>1, LoopFacts
  <1>3. Claimed' BY <1>1, <1>2 DEF RunInv, Claimed, TypeOK, Idle
  <1>4. ASSUME restarts = 0, NEW a \in Arcs, a \notin late' PROVE Alone(a)'
    <2>1. Alone(a) BY <1>1, <1>4 DEF RunInv
    <2>2. Busy(a)' => Busy(a) BY <1>1 DEF Busy, Idle
    <2>3. \A j \in Runs(a) : work[j] = "none" \/ j = loop.item => work'[j] = "none"
      BY <1>1, <1>2, RunsFacts DEF TypeOK
    <2>4. loop = Settling(<<"dispatch", a>>) => loop.item = <<"dispatch", a>> BY DEF Settling
    <2> QED BY <1>1, <2>1, <2>2, <2>3, <2>4 DEF Alone, Runs
  <1> QED BY <1>1, <1>3, <1>4 DEF RunInv

LEMMA ReplanRuns ==
  ASSUME TypeOK, Evolves, RunInv, NEW c \in Arcs, Replan(c) \/ ReplanEnds(c) PROVE RunInv'
  <1> DEFINE i == <<"child_failed", c>>
  <1>1. /\ loop = Idle /\ restarts' = restarts /\ late' = late
        /\ \/ /\ work[i] = "pending" /\ loop' = loop
              /\ \/ work' = [work EXCEPT ![i] = "claimed"] /\ running' = running \cup {i}
                 \/ work' = [work EXCEPT ![i] = "none"] /\ running' = running
           \/ i \in running /\ running' = running \ {i} /\ loop' = Settling(i) /\ work' = work
    BY DEF Replan, ReplanEnds, hist
  <1>2. i \in Items BY Items1
  <1>3. Claimed' BY <1>1, <1>2 DEF RunInv, Claimed, TypeOK, Idle, Settling
  <1>4. ASSUME restarts = 0, NEW a \in Arcs, a \notin late' PROVE Alone(a)'
    <2>1. Alone(a) BY <1>1, <1>4 DEF RunInv
    <2>2. i \notin Runs(a) BY DEF Runs
    <2>3. Runs(a) \subseteq Items BY RunsFacts
    <2>4. work \in [Items -> {"none", "pending", "claimed"}] BY DEF TypeOK
    <2>5. loop'.step = "idle" \/ loop'.item = i BY <1>1 DEF Idle, Settling
    <2>6. loop # Settling(<<"dispatch", a>>) BY <1>1 DEF Idle, Settling
    <2> HIDE DEF i
    <2>7. \A j \in Runs(a) : work'[j] = work[j] /\ (j \in running' => j \in running)
      BY <1>1, <2>2, <2>3, <2>4
    <2> QED BY <1>1, <2>1, <2>2, <2>5, <2>6, <2>7, OthersAlone
  <1> QED BY <1>1, <1>3, <1>4 DEF RunInv

LEMMA FreezeRuns ==
  ASSUME TypeOK, TypeOK', Evolves, RunInv, FreezeSelf \/ FreezeParent PROVE RunInv'
  <1>1. UNCHANGED <<running, restarts>> BY DEF FreezeSelf, FreezeParent
  <1>2. loop.step \in {"self", "parent"} /\ loop'.step # "idle" /\ loop'.item = loop.item
    <2>1. CASE loop' = Settling(loop.item) BY <2>1 DEF FreezeSelf, FreezeParent, Settling
    <2>2. CASE loop' # Settling(loop.item)
      <3>1. loop.step = "self" /\ \E p, t : loop' = [loop EXCEPT !.step = "parent", !.at = p, !.to = t]
        BY <2>2 DEF FreezeSelf, FreezeParent
      <3>2. loop \in [step : {"self", "parent"}, item : Items, at : Arcs,
                      to : {"completed", "failed", "waiting", "nothing"}]
        BY <3>1 DEF TypeOK, Idle
      <3> QED BY <3>1, <3>2
    <2> QED BY <2>1, <2>2
  <1>3. arcs' \in [Arcs -> Row] BY DEF TypeOK, Row
  <1>4. CASE FreezeSelf
    <2> DEFINE q == arcs[loop.at].parent
               p == IF q = 0 THEN loop.at ELSE q
               N == IF loop.to = "failed" THEN Notice(arcs', loop.at) ELSE {}
    <2>0. work' = Enqueued(work, ReadyChildren(arcs', p) \cup N) BY <1>4 DEF FreezeSelf
    <2>1. \A j \in N : j[1] = "child_failed" BY NoticeFacts
    <2> HIDE DEF p, N
    <2>2. \A j \in ReadyChildren(arcs', p) : j[2] \in Arcs /\ j = <<"dispatch", j[2]>>
                                            /\ arcs'[j[2]].status = "pending"
      BY <1>3, ReadyFacts, Items1
    <2>3. \A j \in ReadyChildren(arcs', p) \cup N :
             \/ j[1] = "child_failed"
             \/ \E a \in Arcs : /\ j = <<"dispatch", a>>
                                /\ arcs'[a].status = "pending" \/ a \in late'
      BY <2>1, <2>2
    <2> QED BY <1>1, <1>2, <2>0, <2>3, QuietRuns
  <1>5. CASE FreezeParent
    <2>1. work' = Enqueued(work, {}) \/ work' = Enqueued(work, Notice(arcs', loop.at))
      BY <1>5 DEF FreezeParent, Enqueued, TypeOK
    <2> QED BY <1>1, <1>2, <2>1, NoticeFacts, QuietRuns
  <1> QED BY <1>4, <1>5

LEMMA EnqueueRuns ==
  ASSUME TypeOK, Evolves, RunInv,
         \/ \E c \in Arcs : MarkFailed(c) \/ Scan(c)
         \/ \E t \in Threads : AddChildEnqueues(t)
  PROVE  RunInv'
  <1>1. ASSUME NEW c \in Arcs, MarkFailed(c) PROVE RunInv'
    <2>1. work' = Enqueued(work, Notice(arcs', arcs[c].parent))
          /\ UNCHANGED <<running, loop, restarts>>
      BY <1>1 DEF MarkFailed
    <2> QED BY <2>1, NoticeFacts, QuietRuns
  <1>2. ASSUME NEW c \in Arcs, Scan(c) PROVE RunInv'
    <2>1. work' = Enqueued(work, {<<"dispatch", c>>}) /\ UNCHANGED <<running, loop, restarts>>
          /\ arcs'[c].status = "pending"
      BY <1>2 DEF Scan
    <2> QED BY <2>1, QuietRuns
  <1>3. ASSUME NEW t \in Threads, AddChildEnqueues(t) PROVE RunInv'
    <2>1. PICK a \in Arcs : a = call[t].arc BY <1>3, CallFacts DEF AddChildEnqueues
    <2>2. UNCHANGED <<arcs, running, loop, restarts>>
          /\ (work' = work \/ work' = Enqueued(work, {<<"dispatch", a>>}))
          /\ (arcs[a].status = "pending" \/ a \in late')
      BY <1>3, <2>1 DEF AddChildEnqueues
    <2>3. CASE work' = work BY <2>2, <2>3, StillRuns
    <2>4. CASE work' = Enqueued(work, {<<"dispatch", a>>}) BY <2>2, <2>4, QuietRuns
    <2> QED BY <2>2, <2>3, <2>4
  <1> QED BY <1>1, <1>2, <1>3

LEMMA NextRuns == ASSUME TypeOK, TypeOK', Evolves, RunInv, [Next]_vars PROVE RunInv'
  <1>1. CASE UNCHANGED vars BY <1>1, StillRuns DEF vars
  <1>2. CASE LoopStep
    BY <1>2, DispatchRuns, SkipFrozenRuns, AgentReturnsRuns, RetryRuns, FailRuns, FailRaisesRuns,
       FreezeRuns, SettleRuns, ReplanRuns, EnqueueRuns DEF LoopStep
  <1>3. ASSUME NEW t \in Threads, NEW a \in Arcs, AddChildReads(t, a) \/ CancelReads(t, a)
        PROVE  RunInv'
    BY <1>3, StillRuns DEF AddChildReads, CancelReads
  <1>4. ASSUME NEW t \in Threads, AddChildInserts(t) \/ CancelWrites(t) PROVE RunInv'
    BY <1>4, StillRuns DEF AddChildInserts, Inserts, CancelWrites
  <1>5. ASSUME NEW p \in Adopters, Create(p) \/ CreateBatch(p) PROVE RunInv'
    BY <1>5, CreateFacts, CreateStep, StillRuns
  <1>6. CASE ToolCall BY <1>3, <1>4, <1>6, <1>5, EnqueueRuns DEF ToolCall, CallEnds
  <1>7. CASE \E c \in Arcs : MarkFailed(c) BY <1>7, EnqueueRuns
  <1>8. CASE Restart
    <2>1. running' = {} /\ loop' = Idle /\ restarts' = restarts + 1 BY <1>8 DEF Restart
    <2>2. restarts' # 0 BY <2>1, BoundsAssumption DEF TypeOK, BoundsAssumption
    <2> QED BY <2>1, <2>2 DEF RunInv, Claimed, Idle
  <1> QED BY <1>1, <1>2, <1>6, <1>7, <1>8 DEF Next

-----------------------------------------------------------------------------
IInv == TypeOK /\ Calls /\ Ordered /\ Decided /\ TreesCloseTogether /\ RunInv

LEMMA InitTyped == ASSUME Init PROVE TypeOK
  <1>1. arcs \in [Arcs -> Row]
    <2>1. \A a \in DOMAIN Seed : Seed[a].parent \in 0 .. MaxArcs /\ Seed[a].step_order \in 0 .. MaxArcs
      BY SeedAssumption, BoundsAssumption DEF SeedAssumption, BoundsAssumption
    <2>2. 0 \in 0 .. MaxArcs BY BoundsAssumption DEF BoundsAssumption
    <2> QED BY <2>1, <2>2 DEF Init, Row, Open
  <1>2. attempts \in [Arcs -> -1 .. MaxRetries] BY BoundsAssumption DEF Init, BoundsAssumption
  <1>3. restarts \in 0 .. MaxRestarts BY BoundsAssumption DEF Init, BoundsAssumption
  <1> QED BY <1>1, <1>2, <1>3 DEF Init, TypeOK, Row

LEMMA InitInv == ASSUME Init PROVE IInv
  <1>1. TypeOK BY InitTyped
  <1>2. Calls BY DEF Init, Calls, NoCall
  <1>3. loop.step = "idle" BY DEF Init, Idle
  <1>4. \A i \in Items : ~Alive(i) BY <1>3 DEF Init, Alive
  <1>5. Ordered BY <1>4 DEF Ordered
  <1>6. Decided BY <1>3 DEF Decided
  <1>7. TreesCloseTogether
    <2>1. \A a \in Arcs : arcs[a].status \in {"pending", "absent"} BY DEF Init
    <2> SUFFICES ASSUME NEW c \in Arcs, Exists(c), arcs[c].parent # 0
                 PROVE  arcs[arcs[c].parent].status \notin {"completed", "cancelled"}
      BY DEF TreesCloseTogether
    <2>2. arcs[c].parent \in 0 .. MaxArcs BY <1>1 DEF TypeOK
    <2>3. arcs[c].parent \in Arcs BY <2>2, BoundsAssumption DEF Arcs, BoundsAssumption
    <2> QED BY <2>1, <2>3
  <1>8. RunInv
    <2>1. running = {} /\ \A i \in Items : work[i] = "none" BY DEF Init
    <2>2. Claimed BY <1>3, <2>1 DEF Claimed
    <2>3. \A a \in Arcs : Alone(a) BY <1>3, <2>1, RunsFacts DEF Alone, Busy
    <2> QED BY <2>2, <2>3 DEF RunInv
  <1> QED BY <1>1, <1>2, <1>5, <1>6, <1>7, <1>8 DEF IInv

LEMMA InvStep == ASSUME IInv, [Next]_vars PROVE IInv' /\ Evolves
  <1>1. TypeOK' /\ Evolves /\ Sources BY NextStep DEF IInv
  <1> QED BY <1>1, CallsStep, OrderedStep, DecidedStep, TreesStep, NextRuns DEF IInv

LEMMA InvAlways == Spec => []IInv
  <1>1. Init => IInv BY InitInv
  <1>2. IInv /\ [Next]_vars => IInv' BY InvStep
  <1> QED BY <1>1, <1>2, PTL DEF Spec

(* Rows, items, handlers and calls keep their shape.                       *)
THEOREM ArcsTyped == Spec => []TypeOK
  <1>1. IInv => TypeOK BY DEF IInv
  <1> QED BY <1>1, InvAlways, PTL

(* Whatever restarts, retries, cascades, late handlers and replanning do,  *)
(* a frozen arc changes only when cancel_arc writes over it, which had     *)
(* read it as open.                                                        *)
THEOREM FrozenStays == Spec => FrozenUnlessOverwritten
  <1>1. ASSUME IInv, [Next]_vars, NEW a \in Arcs, Changes(a) PROVE a \in overwritten'
    <2>1. Evolves BY <1>1, InvStep
    <2> QED BY <1>1, <2>1, Statuses DEF Evolves, Changes, Stays, Steps, WrittenOver, Inserted
  <1>2. IInv /\ [Next]_vars => [\A a \in Arcs : Changes(a) => a \in overwritten']_vars BY <1>1
  <1> QED BY <1>2, InvAlways, PTL DEF Spec, FrozenUnlessOverwritten

(* An arc starts, and starts again, only when every step before it is      *)
(* done, but for what a late cancel overwrote and children given an order  *)
(* already taken: whoever enqueued the dispatch, and however long ago.     *)
THEOREM OrderKept == Spec => StepsInOrder
  <1>1. ASSUME IInv, [Next]_vars, NEW a \in Arcs, Starts(a), NEW b \in Preceding(arcs, a)
        PROVE  arcs[b].status \in Done \/ b \in overwritten \cup twins
    <2>1. Evolves BY <1>1, InvStep
    <2> QED BY <1>1, <2>1, StartsInOrder DEF IInv
  <1>2. IInv /\ [Next]_vars =>
          [\A a \in Arcs : Starts(a) =>
             \A b \in Preceding(arcs, a) : arcs[b].status \in Done \/ b \in overwritten \cup twins]_vars
    BY <1>1
  <1> QED BY <1>2, InvAlways, PTL DEF Spec, StepsInOrder

(* A completed arc has only finished children, a cancelled one no open     *)
(* ones, except those inserted while it froze: though completion is        *)
(* decided before it is written, and children are cancelled by a cascade.  *)
THEOREM TreesClose == Spec => []TreesCloseTogether
  <1>1. IInv => TreesCloseTogether BY DEF IInv
  <1> QED BY <1>1, InvAlways, PTL

(* Without a restart no arc has two agents at a time, whoever dispatches   *)
(* it, unless add_child enqueued it after it had started.                  *)
THEOREM OneRun == Spec => []OneRunPerArc
  <1>1. ASSUME IInv, restarts = 0, NEW a \in Arcs \ late
        PROVE  Cardinality(Runs(a) \cap running) <= 1
    <2> DEFINE d == <<"dispatch", a>>
               r == <<"retry", a>>
    <2>1. Runs(a) = {d, r} BY DEF Runs
    <2>2. d \notin running \/ r \notin running
      <3> SUFFICES ASSUME d \in running, r \in running PROVE FALSE OBVIOUS
      <3>1. Claimed /\ Alone(a) BY <1>1 DEF IInv, RunInv
      <3>2. work[d] = "claimed" /\ work[r] = "claimed" BY <3>1 DEF Claimed
      <3>3. loop = Settling(d) BY <3>1, <3>2 DEF Alone
      <3>4. loop.step # "idle" /\ loop.item = d BY <3>3 DEF Settling
      <3> QED BY <3>1, <3>4 DEF Claimed
    <2>3. Runs(a) \cap running = {} \/ \E x : Runs(a) \cap running = {x} BY <2>1, <2>2
    <2>4. CASE Runs(a) \cap running = {} BY <2>4, FS_EmptySet
    <2>5. CASE \E x : Runs(a) \cap running = {x} BY <2>5, FS_Singleton
    <2> QED BY <2>3, <2>4, <2>5
  <1>2. IInv => OneRunPerArc BY <1>1 DEF OneRunPerArc
  <1> QED BY <1>2, InvAlways, PTL

-----------------------------------------------------------------------------
(* No arc is forgotten.  What the loop has decided about an arc is still   *)
(* right when it writes it, and who replans has a child that failed.       *)
AllDone(p) == \A c \in Children(arcs, p) : arcs[c].status \in Done

Judged ==
    loop.step \in {"self", "parent"} =>
        /\ arcs[loop.at].status \in {"active", "waiting"} /\ AllDone(loop.at) => loop.to = "completed"
        /\ loop.step = "self" =>
              loop.item \in Runs(loop.at) /\ (arcs[loop.at].status = "active" => loop.to # "nothing")
        /\ loop.step = "parent" => Children(arcs, loop.at) # {}

Notices ==
    \A c \in Arcs : work[<<"child_failed", c>>] # "none" =>
        Exists(c) /\ (arcs[c].status = "failed" \/ c \in overwritten)

Active(a)  == arcs[a].status = "active" => Minded(a) \/ Unhappy(a)
Waiting(a) ==
    arcs[a].status = "waiting" /\ Finished(a) =>
        \/ Minded(a) \/ work[<<"retry", a>>] = "pending" \/ LeftBehind(a)
        \/ loop.step = "parent" /\ loop.at = a

FInv == IInv /\ Judged /\ Notices /\ NoArcForgotten

LEMMA ForgottenParts == NoArcForgotten <=> \A a \in Arcs : Active(a) /\ Waiting(a)
  BY DEF NoArcForgotten, Active, Waiting

LEMMA DecideRight ==
  ASSUME NEW A, NEW a
  PROVE  /\ A[a].status \in {"active", "waiting"} /\ (\A c \in Children(A, a) : A[c].status \in Done)
              => Decide(A, a) = "completed"
         /\ A[a].status = "active" => Decide(A, a) # "nothing"
  <1>1. A[a].status \in {"active", "waiting"} => A[a].status \notin Frozen BY DEF Frozen
  <1> DEFINE C == {A[c].status : c \in Children(A, a)}
  <1>2. (\A c \in Children(A, a) : A[c].status \in Done) => C \subseteq Done
    OBVIOUS
  <1>3. Decide(A, a) =
          CASE A[a].status \in Frozen -> "nothing"
            [] A[a].status \notin Frozen /\ C \subseteq Done -> "completed"
            [] A[a].status \notin Frozen /\ "failed" \in C /\ C \subseteq Frozen -> "failed"
            [] OTHER -> IF A[a].status = "active" THEN "waiting" ELSE "nothing"
    BY DEF Decide
  <1>4. C \subseteq Done => "failed" \notin C BY DEF Done
  <1> HIDE DEF C
  <1>5. ASSUME A[a].status \notin Frozen, C \subseteq Done PROVE Decide(A, a) = "completed"
    BY <1>3, <1>4, <1>5
  <1>6. ASSUME A[a].status = "active" PROVE Decide(A, a) # "nothing" BY <1>1, <1>3, <1>4, <1>6
  <1> QED BY <1>1, <1>2, <1>5, <1>6

LEMMA NoticeOf ==
  ASSUME NEW A, NEW c, NEW d, NEW i \in Notice(A, c), i = <<"child_failed", d>> PROVE d = c
  BY DEF Notice

LEMMA ChildrenGrow ==
  ASSUME TypeOK, Evolves, NEW p
  PROVE  /\ Children(arcs, p) \subseteq Children(arcs, p)'
         /\ \A c \in Arcs : arcs[c].status # "absent" => arcs'[c].parent = arcs[c].parent
  <1>1. \A c \in Arcs : arcs[c].status # "absent" =>
           arcs'[c].status # "absent" /\ arcs'[c].parent = arcs[c].parent
    BY RowsLast DEF Exists, SameRow
  <1> QED BY <1>1 DEF Children

LEMMA FailedLasts ==
  ASSUME TypeOK, Evolves, NEW c \in Arcs, Exists(c), arcs[c].status = "failed" \/ c \in overwritten
  PROVE  Exists(c)' /\ (arcs'[c].status = "failed" \/ c \in overwritten')
  <1>1. Exists(c)' BY RowsLast
  <1>2. arcs[c].status = "failed" => arcs'[c].status = "failed" \/ c \in overwritten'
    BY Statuses DEF Evolves, Stays, Steps, WrittenOver, Inserted
  <1> QED BY <1>1, <1>2 DEF Evolves

(* The arcs a step is not about.                                           *)
Beside(a) ==
    /\ arcs'[a].status = arcs[a].status /\ attempts'[a] = attempts[a] /\ restarts' = restarts
    /\ work[<<"retry", a>>] = "pending" => work'[<<"retry", a>>] = "pending"
    /\ Minded(a) => Minded(a)'

LEMMA ActiveLasts ==
  ASSUME TypeOK, Evolves, NEW a \in Arcs, Active(a), Beside(a) PROVE Active(a)'
  <1>1. Unhappy(a) => Unhappy(a)'
    <2> SUFFICES ASSUME NEW c \in Children(arcs, a), arcs[c].status = "failed" \/ c \in overwritten
                 PROVE  Unhappy(a)'
      BY DEF Unhappy
    <2>1. c \in Arcs /\ Exists(c) /\ c \in Children(arcs, a)' BY ChildrenGrow DEF Children, Exists
    <2>2. arcs'[c].status = "failed" \/ c \in overwritten' BY <2>1, FailedLasts
    <2> QED BY <2>1, <2>2 DEF Unhappy
  <1> QED BY <1>1 DEF Active, Beside

LEMMA WaitingLasts ==
  ASSUME TypeOK, Evolves, NEW a \in Arcs, Waiting(a), Beside(a),
         loop.step = "parent" /\ loop.at = a => loop'.step = "parent" /\ loop'.at = a,
         \A c \in Children(arcs, a) : arcs'[c].status \in Done =>
            arcs[c].status \in Done \/ Children(arcs, c) # {}
  PROVE  Waiting(a)'
  <1>1. Finished(a)' => Finished(a)
    <2> SUFFICES ASSUME Finished(a)', NEW c \in Children(arcs, a)
                 PROVE  arcs[c].status \in Done /\ Children(arcs, c) = {}
      BY DEF Finished
    <2>1. c \in Children(arcs, a)' /\ Children(arcs, c) \subseteq Children(arcs, c)'
      BY ChildrenGrow
    <2>2. arcs'[c].status \in Done /\ Children(arcs, c)' = {} BY <2>1 DEF Finished
    <2> QED BY <2>1, <2>2
  <1> QED BY <1>1 DEF Waiting, Beside, LeftBehind

LEMMA BesideAll ==
  ASSUME TypeOK, Evolves, NEW a \in Arcs, Active(a), Waiting(a), Beside(a),
         loop.step = "parent" => loop' = loop,
         \A c \in Arcs : arcs'[c].status \in Done => arcs[c].status \in Done
  PROVE  Active(a)' /\ Waiting(a)'
  <1>1. \A c \in Children(arcs, a) : arcs'[c].status \in Done => arcs[c].status \in Done
    BY DEF Children
  <1> QED BY <1>1, ActiveLasts, WaitingLasts

-----------------------------------------------------------------------------
(* Tool calls, a replanning agent and stuttering leave the loop alone.     *)
Apart == ToolCall \/ (\E c \in Arcs : MarkFailed(c)) \/ UNCHANGED vars

LEMMA ApartFacts ==
  ASSUME IInv, Apart
  PROVE  /\ UNCHANGED <<running, loop, restarts>>
         /\ \A a \in Arcs : /\ arcs'[a].status \in {"active", "waiting"} =>
                                  arcs'[a].status = arcs[a].status /\ attempts'[a] = attempts[a]
                            /\ arcs'[a].status \in Done => arcs[a].status \in Done
                            /\ work'[<<"retry", a>>] = work[<<"retry", a>>]
                            /\ work'[<<"child_failed", a>>] # "none" =>
                                  work[<<"child_failed", a>>] # "none" \/ arcs'[a].status = "failed"
  <1>0. TypeOK /\ \A a \in Arcs : /\ <<"retry", a>> \in Items /\ <<"child_failed", a>> \in Items
                                  /\ <<"retry", a>> # <<"dispatch", a>>
    BY DEF IInv, Items, Kinds
  <1>1. CASE UNCHANGED vars BY <1>1 DEF vars
  <1>2. ASSUME NEW t \in Threads, NEW a \in Arcs, AddChildReads(t, a) \/ CancelReads(t, a)
        PROVE  UNCHANGED <<arcs, attempts, running, loop, restarts, work>>
    BY <1>2 DEF AddChildReads, CancelReads
  <1>3. ASSUME NEW t \in Threads, AddChildInserts(t)
        PROVE  /\ UNCHANGED <<attempts, running, loop, restarts, work>>
               /\ \A a \in Arcs : arcs'[a].status = "pending" \/ arcs'[a] = arcs[a]
    <2>1. PICK b \in Arcs, p \in Arcs : \E order \in [{b} -> 0 .. MaxArcs] :
            Inserts({b}, p, order)
      BY <1>0, <1>3, AddChildInsertsFacts
    <2>2. UNCHANGED attempts BY <1>0, <1>3, AddChildInsertsFacts
    <2> QED BY <1>0, <2>1, <2>2, InsertsFacts
  <1>4. ASSUME NEW t \in Threads, AddChildEnqueues(t)
        PROVE  /\ UNCHANGED <<arcs, attempts, running, loop, restarts>>
               /\ \E a \in Arcs : work' = work \/ work' = Enqueued(work, {<<"dispatch", a>>})
    BY <1>0, <1>4, CallFacts DEF AddChildEnqueues
  <1>5. ASSUME NEW t \in Threads, CancelWrites(t)
        PROVE  /\ UNCHANGED <<attempts, running, loop, restarts, work>>
               /\ \A a \in Arcs : arcs'[a].status = "cancelled" \/ arcs'[a] = arcs[a]
    BY <1>0, <1>5 DEF CancelWrites, Cancelled, TypeOK
  <1>6. ASSUME NEW c \in Arcs, MarkFailed(c)
        PROVE  /\ UNCHANGED <<attempts, running, loop, restarts>>
               /\ \A a \in Arcs : /\ arcs'[a].status = "failed" \/ arcs'[a].status = arcs[a].status
                                  /\ work'[<<"retry", a>>] = work[<<"retry", a>>]
                                  /\ work'[<<"child_failed", a>>] # "none" =>
                                        work[<<"child_failed", a>>] # "none" \/ arcs'[a].status = "failed"
    <2> DEFINE p == arcs[c].parent
    <2>1. /\ arcs' = Moved(arcs, p, "failed") /\ work' = Enqueued(work, Notice(arcs', p))
          /\ UNCHANGED <<attempts, running, loop, restarts>>
      BY <1>6 DEF MarkFailed
    <2>2. arcs \in [Arcs -> Row] /\ "failed" \in Open \cup Frozen BY <1>0 DEF TypeOK, Row, Frozen
    <2> HIDE DEF p
    <2>3. \A a \in Arcs : arcs'[a].status = IF a = p THEN "failed" ELSE arcs[a].status
      BY <2>1, <2>2, MovedFacts
    <2> SUFFICES ASSUME NEW a \in Arcs
                 PROVE  /\ work'[<<"retry", a>>] = work[<<"retry", a>>]
                        /\ work'[<<"child_failed", a>>] # "none" =>
                              work[<<"child_failed", a>>] # "none" \/ a = p
      BY <2>1, <2>3
    <2>4. <<"retry", a>> \notin Notice(arcs', p) BY NoticeFacts
    <2>5. <<"child_failed", a>> \in Notice(arcs', p) => a = p BY NoticeOf
    <2> QED BY <1>0, <2>1, <2>4, <2>5, EnqueuedFacts DEF TypeOK
  <1>7. ASSUME NEW b \in Arcs, work' = Enqueued(work, {<<"dispatch", b>>}), NEW a \in Arcs
        PROVE  work'[<<"retry", a>>] = work[<<"retry", a>>]
               /\ work'[<<"child_failed", a>>] = work[<<"child_failed", a>>]
    BY <1>0, <1>7, EnqueuedFacts DEF TypeOK
  <1>8. CASE ToolCall
    <2>1. CASE \E t \in Threads, a \in Arcs : AddChildReads(t, a) \/ CancelReads(t, a)
      BY <1>2, <2>1
    <2>2. CASE \E t \in Threads : AddChildInserts(t) BY <1>3, <2>2, Statuses DEF Done
    <2>3. CASE \E t \in Threads : AddChildEnqueues(t)
      <3>1. PICK a \in Arcs : work' = work \/ work' = Enqueued(work, {<<"dispatch", a>>})
        BY <1>4, <2>3
      <3> QED BY <1>4, <1>7, <2>3, <3>1
    <2>4. CASE \E t \in Threads : CancelWrites(t) BY <1>5, <2>4, Statuses
    <2>5. ASSUME NEW q \in Adopters, Create(q) \/ CreateBatch(q)
          PROVE  /\ UNCHANGED <<running, loop, restarts, work>>
                 /\ \A a \in Arcs : \/ arcs'[a].status = "pending"
                                    \/ arcs'[a] = arcs[a] /\ attempts'[a] = attempts[a]
      BY <1>0, <2>5, CreateFacts, CreateStep
    <2>6. CASE \E q \in Adopters : Create(q) \/ CreateBatch(q) BY <2>5, <2>6, Statuses DEF Done
    <2> QED BY <1>8, <2>1, <2>2, <2>3, <2>4, <2>6 DEF ToolCall, CallEnds
  <1>9. CASE \E c \in Arcs : MarkFailed(c)
    <2>1. "failed" \notin Done BY DEF Done
    <2> QED BY <1>6, <1>9, <2>1
  <1> QED BY <1>1, <1>8, <1>9 DEF Apart

LEMMA ApartKeeps ==
  ASSUME FInv, Apart, Evolves PROVE Judged' /\ Notices' /\ NoArcForgotten'
  <1>0. TypeOK /\ IInv BY DEF FInv, IInv
  <1>1. /\ UNCHANGED <<running, loop, restarts>>
        /\ \A a \in Arcs : /\ arcs'[a].status \in {"active", "waiting"} =>
                                 arcs'[a].status = arcs[a].status /\ attempts'[a] = attempts[a]
                           /\ arcs'[a].status \in Done => arcs[a].status \in Done
                           /\ work'[<<"retry", a>>] = work[<<"retry", a>>]
                           /\ work'[<<"child_failed", a>>] # "none" =>
                                 work[<<"child_failed", a>>] # "none" \/ arcs'[a].status = "failed"
    BY <1>0, ApartFacts
  <1>2. Judged'
    <2> SUFFICES ASSUME loop.step \in {"self", "parent"}
                 PROVE  /\ arcs'[loop.at].status \in {"active", "waiting"} /\ AllDone(loop.at)'
                              => loop.to = "completed"
                        /\ loop.step = "self" => loop.item \in Runs(loop.at)
                              /\ (arcs'[loop.at].status = "active" => loop.to # "nothing")
                        /\ loop.step = "parent" => Children(arcs, loop.at)' # {}
      BY <1>1 DEF Judged, AllDone
    <2>1. loop.at \in Arcs BY <1>0, LoopFacts
    <2> DEFINE p == loop.at
    <2>2. p' = p BY <1>1
    <2> HIDE DEF p
    <2>4. Children(arcs, p) \subseteq Children(arcs', p) BY <1>0, <2>2, ChildrenGrow DEF Children
    <2>3. AllDone(p)' => AllDone(p) BY <1>1, <2>2, <2>4 DEF AllDone, Children
    <2>5. AllDone(loop.at)' => AllDone(loop.at) BY <2>3 DEF p
    <2>6. Children(arcs, loop.at) # {} => Children(arcs, loop.at)' # {}
      BY <2>2, <2>4 DEF p, Children
    <2> QED BY <1>1, <2>1, <2>5, <2>6 DEF FInv, Judged
  <1>3. Notices'
    <2> SUFFICES ASSUME NEW c \in Arcs, work'[<<"child_failed", c>>] # "none"
                 PROVE  Exists(c)' /\ (arcs'[c].status = "failed" \/ c \in overwritten')
      BY DEF Notices
    <2>1. CASE arcs'[c].status = "failed" BY <2>1 DEF Exists
    <2>2. CASE work[<<"child_failed", c>>] # "none"
      BY <1>0, <2>2, FailedLasts DEF FInv, Notices
    <2> QED BY <1>1, <2>1, <2>2
  <1>4. ASSUME NEW a \in Arcs PROVE Active(a)' /\ Waiting(a)'
    <2>1. Active(a) /\ Waiting(a) BY ForgottenParts DEF FInv
    <2>2. CASE arcs'[a].status \notin {"active", "waiting"} BY <2>2 DEF Active, Waiting
    <2>3. CASE arcs'[a].status \in {"active", "waiting"}
      <3>1. Beside(a) BY <1>1, <2>3 DEF Beside, Minded
      <3> QED BY <1>0, <1>1, <2>1, <3>1, BesideAll
    <2> QED BY <2>2, <2>3
  <1>5. NoArcForgotten'
    <2>1. \A a \in Arcs : Active(a)' /\ Waiting(a)' BY <1>4
    <2> QED BY <2>1 DEF NoArcForgotten, Active, Waiting
  <1> QED BY <1>2, <1>3, <1>5

-----------------------------------------------------------------------------
(* The loop's own steps.                                                   *)
Kept == Judged' /\ Notices' /\ NoArcForgotten'

LEMMA KeptIf ==
  ASSUME FInv, Evolves,
         \A c \in Arcs : work'[<<"child_failed", c>>] # "none" =>
            work[<<"child_failed", c>>] # "none" \/ arcs'[c].status = "failed",
         \A a \in Arcs : Active(a)' /\ Waiting(a)',
         Judged'
  PROVE  Kept
  <1>1. Notices'
    <2> SUFFICES ASSUME NEW c \in Arcs, work'[<<"child_failed", c>>] # "none"
                 PROVE  Exists(c)' /\ (arcs'[c].status = "failed" \/ c \in overwritten')
      BY DEF Notices
    <2>1. CASE arcs'[c].status = "failed" BY <2>1 DEF Exists
    <2>2. CASE work[<<"child_failed", c>>] # "none" BY <2>2, FailedLasts DEF FInv, IInv, Notices
    <2> QED BY <2>1, <2>2
  <1>2. NoArcForgotten' BY DEF NoArcForgotten, Active, Waiting
  <1> QED BY <1>1, <1>2 DEF Kept

LEMMA Held == ASSUME FInv, NEW a \in Arcs PROVE TypeOK /\ Active(a) /\ Waiting(a)
  BY ForgottenParts DEF FInv, IInv

LEMMA OtherRuns ==
  ASSUME NEW a \in Arcs, NEW b \in Arcs, a # b
  PROVE  Runs(a) \cap Runs(b) = {} /\ <<"retry", b>> \notin Runs(a)
  BY DEF Runs

LEMMA NoRun == ASSUME NEW a, NEW i \in Runs(a), NEW c PROVE <<"child_failed", c>> # i BY DEF Runs

LEMMA Tables ==
  ASSUME FInv
  PROVE  /\ arcs \in [Arcs -> Row] /\ work \in [Items -> {"none", "pending", "claimed"}]
         /\ attempts \in [Arcs -> -1 .. MaxRetries]
         /\ loop.step # "idle" => loop.item \in Items
  BY LoopFacts DEF FInv, IInv, TypeOK, Row

LEMMA DispatchKeeps ==
  ASSUME FInv, Evolves, NEW i \in Items, Dispatch(i) PROVE Kept
  <1> DEFINE a == i[2]
  <1>1. /\ a \in Arcs /\ i \in Runs(a) /\ work[i] = "pending" /\ arcs' = Moved(arcs, a, "active")
        /\ work' = [work EXCEPT ![i] = "claimed"] /\ running' = running \cup {i}
        /\ loop = Idle /\ UNCHANGED <<attempts, loop, restarts>>
    BY Items1 DEF Dispatch
  <1>2. \A b \in Arcs : arcs'[b].status = IF b = a THEN "active" ELSE arcs[b].status
    <2>1. arcs \in [Arcs -> Row] /\ "active" \in Open \cup Frozen BY Tables DEF Open
    <2> QED BY <1>1, <2>1, MovedFacts
  <1>3. \A c \in Arcs : arcs'[c].status \in Done => arcs[c].status \in Done
    BY <1>2 DEF Done
  <1>4. ASSUME NEW b \in Arcs PROVE Active(b)' /\ Waiting(b)'
    <2>1. CASE b = a BY <1>1, <1>2, <2>1 DEF Active, Waiting, Minded
    <2>2. CASE b # a
      <3>1. <<"retry", b>> # i BY <1>1, <2>2, OtherRuns
      <3>2. work'[<<"retry", b>>] = work[<<"retry", b>>] BY <1>1, <3>1, RunsFacts, Tables
      <3>3. Beside(b) BY <1>1, <1>2, <2>2, <3>2 DEF Beside, Minded
      <3> QED BY <1>1, <1>3, <3>3, Held, BesideAll
    <2> QED BY <2>1, <2>2
  <1>5. \A c \in Arcs : work'[<<"child_failed", c>>] = work[<<"child_failed", c>>]
    BY <1>1, Items1, NoRun, Tables
  <1>6. Judged' BY <1>1 DEF Judged, Idle
  <1> QED BY <1>4, <1>5, <1>6, KeptIf

LEMMA SkipFrozenKeeps ==
  ASSUME FInv, Evolves, NEW i \in Items, SkipFrozen(i) PROVE Kept
  <1> DEFINE a == i[2]
  <1>1. /\ a \in Arcs /\ i \in Runs(a) /\ arcs[a].status \in Frozen
        /\ work' = [work EXCEPT ![i] = "none"] /\ loop = Idle
        /\ UNCHANGED <<arcs, attempts, running, loop, restarts>>
    BY Items1 DEF SkipFrozen
  <1>2. ASSUME NEW b \in Arcs PROVE Active(b)' /\ Waiting(b)'
    <2>1. CASE b = a BY <1>1, <2>1 DEF Active, Waiting, Frozen
    <2>2. CASE b # a
      <3>1. <<"retry", b>> # i BY <1>1, <2>2, OtherRuns
      <3>2. work'[<<"retry", b>>] = work[<<"retry", b>>] BY <1>1, <3>1, RunsFacts, Tables
      <3>3. Beside(b) BY <1>1, <3>2 DEF Beside, Minded
      <3> QED BY <1>1, <3>3, Held, BesideAll
    <2> QED BY <2>1, <2>2
  <1>3. \A c \in Arcs : work'[<<"child_failed", c>>] = work[<<"child_failed", c>>]
    BY <1>1, Items1, NoRun, Tables
  <1>4. Judged' BY <1>1 DEF Judged, Idle
  <1> QED BY <1>2, <1>3, <1>4, KeptIf

LEMMA AgentReturnsKeeps ==
  ASSUME FInv, Evolves, NEW i \in Items, AgentReturns(i) PROVE Kept
  <1> DEFINE a == i[2]
  <1>1. /\ a \in Arcs /\ i \in Runs(a) /\ running' = running \ {i} /\ loop = Idle
        /\ loop' = [step |-> "self", item |-> i, at |-> a, to |-> Decide(arcs, a)]
        /\ UNCHANGED <<arcs, attempts, work, restarts>>
    BY Items1 DEF AgentReturns
  <1>2. ASSUME NEW b \in Arcs PROVE Active(b)' /\ Waiting(b)'
    <2>1. Minded(b) => Minded(b)' BY <1>1, OtherRuns DEF Minded, Idle
    <2>2. Beside(b) BY <1>1, <2>1 DEF Beside
    <2>3. loop.step # "parent" BY <1>1 DEF Idle
    <2> QED BY <1>1, <2>2, <2>3, Held, BesideAll
  <1>3. /\ loop'.step = "self" /\ loop'.item = i /\ loop'.at = a /\ loop'.to = Decide(arcs, a)
        /\ arcs' = arcs
    BY <1>1
  <1>4. Judged'
    <2>1. AllDone(loop.at)' => \A c \in Children(arcs, a) : arcs[c].status \in Done
      BY <1>3 DEF AllDone, Children
    <2> QED BY <1>1, <1>3, <2>1, DecideRight DEF Judged
  <1> QED BY <1>1, <1>2, <1>4, KeptIf

LEMMA RaisesAgain ==
  ASSUME FInv, NEW i \in Items, Raises(i)
  PROVE  /\ i[2] \in Arcs /\ i \in Runs(i[2]) /\ running' = running \ {i} /\ loop.step # "parent"
         /\ \A b \in Arcs : b # i[2] /\ Minded(b) =>
               \E j \in Runs(b) : j \in running'
  <1>1. i[2] \in Arcs /\ i \in Runs(i[2]) /\ running' = running \ {i} /\ loop.step # "parent"
    BY Items1 DEF Raises, Idle
  <1>2. loop.step = "self" => loop.item = i BY DEF Raises, Idle
  <1> QED BY <1>1, <1>2, OtherRuns DEF Minded

LEMMA RetryKeeps ==
  ASSUME FInv, Evolves, NEW i \in Items, Retry(i) PROVE Kept
  <1> DEFINE a == i[2]
             r == <<"retry", a>>
  <1>1. /\ \/ Allowed(arcs[a].status, "waiting") /\ arcs' = Moved(arcs, a, "waiting")
           \/ ~Allowed(arcs[a].status, "waiting") /\ arcs' = arcs
        /\ attempts' = [attempts EXCEPT ![a] = Count(a) + 1]
        /\ work' = [work EXCEPT ![r] = "pending"] /\ (loop' = Idle \/ loop' = Settling(i))
        /\ restarts' = restarts
    BY DEF Retry
  <1>2. /\ a \in Arcs /\ i \in Runs(a) /\ running' = running \ {i} /\ loop.step # "parent"
        /\ \A b \in Arcs : b # a /\ Minded(b) => \E j \in Runs(b) : j \in running'
    BY RaisesAgain DEF Retry
  <1>3. \A b \in Arcs : b # a => arcs'[b].status = arcs[b].status
    <2>1. arcs \in [Arcs -> Row] /\ "waiting" \in Open \cup Frozen BY Tables DEF Open
    <2> QED BY <1>1, <2>1, MovedFacts
  <1>4. arcs'[a].status # "active" /\ (arcs'[a].status \in Done => arcs[a].status \in Done)
    <2>1. arcs \in [Arcs -> Row] /\ "waiting" \in Open \cup Frozen BY Tables DEF Open
    <2>2. CASE arcs' = Moved(arcs, a, "waiting")
      <3>1. arcs'[a].status = "waiting" BY <1>2, <2>1, <2>2, MovedFacts
      <3> QED BY <3>1 DEF Done
    <2>3. CASE arcs' = arcs /\ ~Allowed(arcs[a].status, "waiting")
      BY <2>3 DEF Allowed, Transitions, Open
    <2> QED BY <1>1, <2>2, <2>3
  <1>5. work'[r] = "pending" /\ \A j \in Items : j # r => work'[j] = work[j]
    BY <1>1, <1>2, RunsFacts, Tables
  <1>6. ASSUME NEW b \in Arcs PROVE Active(b)' /\ Waiting(b)'
    <2>1. CASE b = a BY <1>4, <1>5, <2>1 DEF Active, Waiting
    <2>2. CASE b # a
      <3>1. work'[<<"retry", b>>] = work[<<"retry", b>>] BY <1>5, <2>2, RunsFacts
      <3>2. attempts'[b] = attempts[b] BY <1>1, <2>2, Tables
      <3>3. Beside(b) BY <1>1, <1>2, <1>3, <2>2, <3>1, <3>2 DEF Beside, Minded
      <3>4. \A c \in Arcs : arcs'[c].status \in Done => arcs[c].status \in Done BY <1>3, <1>4
      <3> QED BY <1>2, <3>3, <3>4, Held, BesideAll
    <2> QED BY <2>1, <2>2
  <1>7. \A c \in Arcs : work'[<<"child_failed", c>>] = work[<<"child_failed", c>>]
    BY <1>5, Items1
  <1>8. Judged' BY <1>1 DEF Judged, Idle, Settling
  <1> QED BY <1>6, <1>7, <1>8, KeptIf

(* What enqueueing leaves of the items there are.                          *)
LEMMA EnqueuedKeeps ==
  ASSUME FInv, NEW S, work' = Enqueued(work, S), NEW i \in Items
  PROVE  /\ work[i] # "none" \/ i \notin S => work'[i] = work[i]
         /\ work[i] = "pending" => work'[i] = "pending"
  BY EnqueuedFacts, Tables

LEMMA FailKeeps ==
  ASSUME FInv, Evolves, NEW i \in Items, Fail(i) PROVE Kept
  <1> DEFINE a == i[2]
  <1>1. /\ arcs' = Moved(arcs, a, "failed") /\ work' = Enqueued(work, Notice(arcs', a))
        /\ loop' = Settling(i) /\ UNCHANGED <<attempts, restarts>>
    BY DEF Fail
  <1>2. /\ a \in Arcs /\ i \in Runs(a) /\ running' = running \ {i} /\ loop.step # "parent"
        /\ \A b \in Arcs : b # a /\ Minded(b) => \E j \in Runs(b) : j \in running'
    BY RaisesAgain DEF Fail
  <1>3. \A b \in Arcs : arcs'[b].status = IF b = a THEN "failed" ELSE arcs[b].status
    <2>1. arcs \in [Arcs -> Row] /\ "failed" \in Open \cup Frozen BY Tables DEF Frozen
    <2> QED BY <1>1, <2>1, MovedFacts
  <1>4. ASSUME NEW b \in Arcs PROVE Active(b)' /\ Waiting(b)'
    <2>1. CASE b = a BY <1>3, <2>1 DEF Active, Waiting
    <2>2. CASE b # a
      <3>1. work[<<"retry", b>>] = "pending" => work'[<<"retry", b>>] = "pending"
        BY <1>1, RunsFacts, EnqueuedKeeps
      <3>2. Beside(b) BY <1>1, <1>2, <1>3, <2>2, <3>1 DEF Beside, Minded
      <3>3. \A c \in Arcs : arcs'[c].status \in Done => arcs[c].status \in Done BY <1>3 DEF Done
      <3> QED BY <1>2, <3>2, <3>3, Held, BesideAll
    <2> QED BY <2>1, <2>2
  <1>5. ASSUME NEW c \in Arcs, work'[<<"child_failed", c>>] # "none"
        PROVE  work[<<"child_failed", c>>] # "none" \/ arcs'[c].status = "failed"
    <2>1. c # a => <<"child_failed", c>> \notin Notice(arcs', a) BY NoticeOf
    <2> QED BY <1>1, <1>2, <1>3, <1>5, <2>1, Items1, EnqueuedKeeps
  <1>6. Judged' BY <1>1 DEF Judged, Settling
  <1> QED BY <1>4, <1>5, <1>6, KeptIf

LEMMA FailRaisesKeeps ==
  ASSUME FInv, Evolves, NEW i \in Items, FailRaises(i) PROVE Kept
  <1> DEFINE a == i[2]
  <1>1. /\ ~Allowed(arcs[a].status, "failed") /\ loop' = Idle
        /\ \E s : work' = [work EXCEPT ![i] = s]
        /\ UNCHANGED <<arcs, attempts, restarts>>
    BY DEF FailRaises
  <1>2. /\ a \in Arcs /\ i \in Runs(a) /\ running' = running \ {i} /\ loop.step # "parent"
        /\ \A b \in Arcs : b # a /\ Minded(b) => \E j \in Runs(b) : j \in running'
    BY RaisesAgain DEF FailRaises
  <1>3. \A j \in Items : j # i => work'[j] = work[j] BY <1>1, Tables
  <1>4. ASSUME NEW b \in Arcs PROVE Active(b)' /\ Waiting(b)'
    <2>1. CASE b = a
      <3>1. arcs'[a].status \notin {"active", "waiting"} BY <1>1 DEF Allowed, Transitions, Open
      <3> QED BY <2>1, <3>1 DEF Active, Waiting
    <2>2. CASE b # a
      <3>1. work'[<<"retry", b>>] = work[<<"retry", b>>] BY <1>2, <1>3, <2>2, RunsFacts, OtherRuns
      <3>2. Beside(b) BY <1>1, <1>2, <2>2, <3>1 DEF Beside, Minded
      <3> QED BY <1>1, <1>2, <3>2, Held, BesideAll
    <2> QED BY <2>1, <2>2
  <1>5. \A c \in Arcs : work'[<<"child_failed", c>>] = work[<<"child_failed", c>>]
    BY <1>2, <1>3, Items1, NoRun
  <1>6. Judged' BY <1>1 DEF Judged, Idle
  <1> QED BY <1>4, <1>5, <1>6, KeptIf

LEMMA SettleKeeps == ASSUME FInv, Evolves, Settle PROVE Kept
  <1>1. /\ loop.step = "settle" /\ loop' = Idle /\ work' = [work EXCEPT ![loop.item] = "none"]
        /\ UNCHANGED <<arcs, attempts, running, restarts>>
    BY DEF Settle
  <1>2. loop.item \in Items /\ work[loop.item] = "claimed"
    <2>1. Claimed BY DEF FInv, IInv, RunInv
    <2> QED BY <1>1, <2>1, Tables DEF Claimed
  <1>3. \A j \in Items : work'[j] = (IF j = loop.item THEN "none" ELSE work[j]) BY <1>1, Tables
  <1>4. ASSUME NEW b \in Arcs PROVE Active(b)' /\ Waiting(b)'
    <2>1. work[<<"retry", b>>] = "pending" => work'[<<"retry", b>>] = "pending"
      BY <1>2, <1>3, RunsFacts
    <2>2. Beside(b) BY <1>1, <2>1 DEF Beside, Minded
    <2> QED BY <1>1, <2>2, Held, BesideAll
  <1>5. \A c \in Arcs : work'[<<"child_failed", c>>] # "none" => work[<<"child_failed", c>>] # "none"
    BY <1>3, Items1
  <1>6. Judged' BY <1>1 DEF Judged, Idle
  <1> QED BY <1>4, <1>5, <1>6, KeptIf

LEMMA ScanKeeps == ASSUME FInv, Evolves, NEW a \in Arcs, Scan(a) PROVE Kept
  <1>1. /\ work' = Enqueued(work, {<<"dispatch", a>>}) /\ loop = Idle
        /\ UNCHANGED <<arcs, attempts, running, loop, restarts>>
    BY DEF Scan
  <1>2. ASSUME NEW b \in Arcs PROVE Active(b)' /\ Waiting(b)'
    <2>1. work[<<"retry", b>>] = "pending" => work'[<<"retry", b>>] = "pending"
      BY <1>1, RunsFacts, EnqueuedKeeps
    <2>2. Beside(b) BY <1>1, <2>1 DEF Beside, Minded
    <2> QED BY <1>1, <2>2, Held, BesideAll
  <1>3. \A c \in Arcs : work'[<<"child_failed", c>>] = work[<<"child_failed", c>>]
    <2> SUFFICES ASSUME NEW c \in Arcs
                 PROVE  work'[<<"child_failed", c>>] = work[<<"child_failed", c>>]
      OBVIOUS
    <2>1. <<"child_failed", c>> \notin {<<"dispatch", a>>} OBVIOUS
    <2> QED BY <1>1, <2>1, Items1, EnqueuedKeeps
  <1>4. Judged' BY <1>1 DEF Judged, Idle
  <1> QED BY <1>2, <1>3, <1>4, KeptIf

LEMMA ReplanEndsKeeps == ASSUME FInv, Evolves, NEW c \in Arcs, ReplanEnds(c) PROVE Kept
  <1>1. /\ running' = running \ {<<"child_failed", c>>} /\ loop' = Settling(<<"child_failed", c>>)
        /\ loop = Idle /\ UNCHANGED <<arcs, attempts, work, restarts>>
    BY DEF ReplanEnds
  <1>2. ASSUME NEW b \in Arcs PROVE Active(b)' /\ Waiting(b)'
    <2>1. Minded(b) => Minded(b)' BY <1>1, NoRun DEF Minded, Idle
    <2>2. Beside(b) /\ loop.step # "parent" BY <1>1, <2>1 DEF Beside, Idle
    <2> QED BY <1>1, <2>2, Held, BesideAll
  <1>3. Judged' BY <1>1 DEF Judged, Settling
  <1> QED BY <1>1, <1>2, <1>3, KeptIf

(* Who replans has a child that failed, and so it is not forgotten when    *)
(* the agent has come back.                                                *)
LEMMA ReplanKeeps == ASSUME FInv, Evolves, NEW c \in Arcs, Replan(c) PROVE Kept
  <1> DEFINE i == <<"child_failed", c>>
             p == arcs[c].parent
  <1>1. /\ work[i] = "pending" /\ loop = Idle /\ UNCHANGED <<attempts, loop, restarts>>
        /\ \/ arcs' = Moved(arcs, p, "active")
           \/ arcs' = arcs
        /\ running \subseteq running'
        /\ \E s : work' = [work EXCEPT ![i] = s]
    BY DEF Replan
  <1>2. arcs' = arcs \/ \A b \in Arcs : arcs'[b].status = IF b = p THEN "active" ELSE arcs[b].status
    <2>1. arcs \in [Arcs -> Row] /\ "active" \in Open \cup Frozen BY Tables DEF Open
    <2> QED BY <1>1, <2>1, MovedFacts
  <1>3. \A j \in Items : j # i => work'[j] = work[j] BY <1>1, Tables
  <1>4. ASSUME NEW b \in Arcs PROVE Active(b)' /\ Waiting(b)'
    <2>1. CASE arcs'[b].status = arcs[b].status
      <3>1. work'[<<"retry", b>>] = work[<<"retry", b>>]
        <4>1. <<"retry", b>> # i OBVIOUS
        <4> QED BY <1>3, <4>1, RunsFacts
      <3>2. Beside(b) BY <1>1, <2>1, <3>1 DEF Beside, Minded
      <3>3. \A d \in Arcs : arcs'[d].status \in Done => arcs[d].status \in Done BY <1>2 DEF Done
      <3> QED BY <1>1, <3>2, <3>3, Held, BesideAll
    <2>2. CASE arcs'[b].status # arcs[b].status
      <3>1. b = p /\ arcs'[b].status = "active" BY <1>2, <2>2
      <3>2. Exists(c) /\ (arcs[c].status = "failed" \/ c \in overwritten)
        BY <1>1 DEF FInv, Notices
      <3>3. Exists(c)' /\ (arcs'[c].status = "failed" \/ c \in overwritten') /\ arcs'[c].parent = b
        BY <3>1, <3>2, FailedLasts, ChildrenGrow DEF FInv, IInv, Exists
      <3>4. Unhappy(b)' BY <3>3 DEF Unhappy, Children, Exists
      <3> QED BY <3>1, <3>4 DEF Active, Waiting
    <2> QED BY <2>1, <2>2
  <1>5. \A d \in Arcs : work'[<<"child_failed", d>>] # "none" => work[<<"child_failed", d>>] # "none"
    <2> SUFFICES ASSUME NEW d \in Arcs, work[<<"child_failed", d>>] = "none"
                 PROVE  work'[<<"child_failed", d>>] = "none"
      OBVIOUS
    <2>1. <<"child_failed", d>> # i BY <1>1
    <2> QED BY <1>3, <2>1, Items1
  <1>6. Judged' BY <1>1 DEF Judged, Idle
  <1> QED BY <1>4, <1>5, <1>6, KeptIf

(* A restart leaves behind no one but arcs that wait and were never        *)
(* counted.                                                                *)
LEMMA RestartKeeps == ASSUME FInv, Evolves, Restart PROVE Kept
  <1>1. /\ restarts' = restarts + 1 /\ loop' = Idle /\ attempts' = attempts
        /\ work' = [i \in Items |-> IF work[i] = "claimed" THEN "pending" ELSE work[i]]
        /\ \A a \in Arcs : arcs'[a].status \in {"active", "waiting"} =>
             arcs'[a].status = "waiting" /\ attempts[a] = -1
    BY DEF Restart
  <1>2. restarts' > 0 BY <1>1, BoundsAssumption DEF FInv, IInv, TypeOK, BoundsAssumption
  <1>3. \A a \in Arcs : Active(a)' /\ Waiting(a)'
    BY <1>1, <1>2 DEF Active, Waiting, LeftBehind
  <1>4. \A c \in Arcs : work'[<<"child_failed", c>>] # "none" => work[<<"child_failed", c>>] # "none"
    BY <1>1, Items1
  <1>5. Judged' BY <1>1 DEF Judged, Idle
  <1> QED BY <1>3, <1>4, <1>5, KeptIf

-----------------------------------------------------------------------------
(* freeze_arc, of an arc and of its parent.                                *)
LEMMA NotFinished ==
  ASSUME FInv, Evolves, NEW a, ~AllDone(a),
         \A c \in Children(arcs, a) : arcs'[c].status \in Done => arcs[c].status \in Done
  PROVE  ~(\A c \in Children(arcs', a) : arcs'[c].status \in Done)
  <1>1. PICK c \in Children(arcs, a) : arcs[c].status \notin Done BY DEF AllDone
  <1>2. c \in Children(arcs', a)
    <2>1. c \in Arcs /\ Exists(c) /\ arcs[c].parent = a BY DEF Children, Exists
    <2>2. Exists(c)' /\ arcs'[c].parent = a BY <2>1, RowsLast DEF FInv, IInv, SameRow
    <2> QED BY <2>1, <2>2 DEF Children, Exists
  <1> QED BY <1>1, <1>2

LEMMA FreezeSelfKeeps == ASSUME FInv, Evolves, FreezeSelf PROVE Kept
  <1> DEFINE a == loop.at
             p == arcs[a].parent
             S == ReadyChildren(arcs', IF p = 0 THEN a ELSE p)
             N == IF loop.to = "failed" THEN Notice(arcs', a) ELSE {}
  <1>1. /\ loop.step = "self"
        /\ \/ loop.to = "nothing" /\ arcs' = arcs
           \/ /\ loop.to # "nothing" /\ Allowed(arcs[a].status, loop.to)
              /\ arcs' = Moved(arcs, a, loop.to)
        /\ work' = Enqueued(work, S \cup N)
        /\ \/ p = 0 /\ loop' = Settling(loop.item)
           \/ p # 0 /\ loop' = [loop EXCEPT !.step = "parent", !.at = p, !.to = Decide(arcs', p)]
        /\ UNCHANGED <<attempts, running, restarts>>
    BY DEF FreezeSelf
  <1>2. /\ a \in Arcs /\ loop.to \in Verdict /\ loop.item \in Items /\ TypeOK
        /\ loop.item \in Runs(a) /\ (arcs[a].status = "active" => loop.to # "nothing")
        /\ arcs[a].status \in {"active", "waiting"} /\ AllDone(a) => loop.to = "completed"
    BY <1>1, LoopFacts DEF FInv, IInv, Judged
  <1>3. Exists(a)
    <2>1. Cleared(loop.item[2]) BY <1>1, <1>2, NoRun DEF FInv, IInv, Ordered, Alive, Runs
    <2>2. loop.item[2] = a BY <1>2, RunsFacts
    <2> QED BY <2>1, <2>2 DEF Cleared
  <1>4. /\ \A b \in Arcs : b # a => arcs'[b].status = arcs[b].status
        /\ loop.to = "nothing" => arcs'[a].status = arcs[a].status
        /\ loop.to # "nothing" => arcs'[a].status = loop.to
        /\ \A b \in Arcs : arcs'[b].parent = arcs[b].parent
    <2>1. loop.to # "nothing" => loop.to \in Open \cup Frozen
      BY <1>2 DEF Open, Frozen, Verdict
    <2> QED BY <1>1, <1>2, <2>1, Tables, MovedFacts
  <1>5. arcs'[a].status \in {"active", "waiting"} =>
          arcs'[a].status = "waiting" /\ ~AllDone(a)
    BY <1>1, <1>2, <1>4 DEF Verdict, Allowed, Transitions, Open
  <1>6. /\ \A b \in Arcs : work[<<"retry", b>>] = "pending" => work'[<<"retry", b>>] = "pending"
        /\ \A b \in Arcs : b # a /\ Minded(b) => \E j \in Runs(b) : j \in running'
    <2>1. \A b \in Arcs : b # a => loop.item \notin Runs(b) BY <1>2, OtherRuns
    <2> QED BY <1>1, <2>1, RunsFacts, EnqueuedKeeps DEF Minded
  <1>7. ASSUME NEW b \in Arcs PROVE Active(b)' /\ Waiting(b)'
    <2>1. CASE b = a /\ arcs'[b].status \notin {"active", "waiting"} BY <2>1 DEF Active, Waiting
    <2>2. CASE b = a /\ arcs'[b].status \in {"active", "waiting"}
      <3>1. arcs'[b].status = "waiting" /\ ~AllDone(b) BY <1>5, <2>2
      <3>2. \A c \in Children(arcs, b) : arcs'[c].status \in Done => arcs[c].status \in Done
        BY <1>4, <2>2, <3>1 DEF Done, Children
      <3>3. ~Finished(b)'
        <4>1. ~(\A c \in Children(arcs', b) : arcs'[c].status \in Done) BY <3>1, <3>2, NotFinished
        <4> QED BY <4>1 DEF Finished
      <3> QED BY <3>1, <3>3 DEF Active, Waiting
    <2>3. CASE b # a
      <3>1. Beside(b) BY <1>1, <1>4, <1>6, <2>3 DEF Beside, Minded
      <3>2. Active(b)' BY <1>2, <3>1, Held, ActiveLasts
      <3>3. CASE b = p
        <4>1. loop'.step = "parent" /\ loop'.at = b
          <5>1. b # 0 BY DEF Arcs
          <5>2. loop \in [step : {"self", "parent"}, item : Items, at : Arcs,
                          to : {"completed", "failed", "waiting", "nothing"}]
            BY <1>1, <1>2 DEF TypeOK, Idle
          <5> QED BY <1>1, <3>3, <5>1, <5>2
        <4> QED BY <3>2, <4>1 DEF Waiting
      <3>4. CASE b # p
        <4>1. \A c \in Children(arcs, b) : arcs'[c].status = arcs[c].status
          BY <1>4, <3>4 DEF Children
        <4> QED BY <1>1, <1>2, <3>1, <3>2, <4>1, Held, WaitingLasts
      <3> QED BY <3>3, <3>4
    <2> QED BY <2>1, <2>2, <2>3
  <1>8. ASSUME NEW c \in Arcs, work'[<<"child_failed", c>>] # "none"
        PROVE  work[<<"child_failed", c>>] # "none" \/ arcs'[c].status = "failed"
    <2> SUFFICES ASSUME work[<<"child_failed", c>>] = "none" PROVE arcs'[c].status = "failed"
      OBVIOUS
    <2>1. <<"child_failed", c>> \in S \cup N BY <1>1, <1>8, Items1, EnqueuedKeeps
    <2>2. <<"child_failed", c>> \notin S BY DEF ReadyChildren
    <2>3. <<"child_failed", c>> \in N BY <2>1, <2>2
    <2>4. loop.to = "failed" /\ c = a BY <2>3, NoticeOf
    <2> QED BY <1>4, <2>4
  <1>9. Judged'
    <2>1. CASE loop' = Settling(loop.item) BY <2>1 DEF Judged, Settling
    <2>2. CASE p # 0 /\ loop' = [loop EXCEPT !.step = "parent", !.at = p, !.to = Decide(arcs', p)]
      <3>1. loop \in [step : {"self", "parent"}, item : Items, at : Arcs,
                      to : {"completed", "failed", "waiting", "nothing"}]
        BY <1>1, <1>2 DEF TypeOK, Idle
      <3>2. loop'.step = "parent" /\ loop'.at = p /\ loop'.to = Decide(arcs', p) BY <2>2, <3>1
      <3>3. a \in Children(arcs', p)
        <4>1. arcs'[a].status # "absent" BY <1>2, <1>3, <1>4 DEF Exists, Verdict
        <4> QED BY <1>2, <1>4, <4>1 DEF Children
      <3>4. Children(arcs, loop.at)' # {} BY <3>2, <3>3 DEF Children
      <3>5. AllDone(loop.at)' => \A c \in Children(arcs', p) : arcs'[c].status \in Done
        BY <3>2 DEF AllDone, Children
      <3> QED BY <3>2, <3>4, <3>5, DecideRight DEF Judged
    <2> QED BY <1>1, <2>1, <2>2
  <1> QED BY <1>7, <1>8, <1>9, KeptIf

LEMMA FreezeParentKeeps == ASSUME FInv, Evolves, FreezeParent PROVE Kept
  <1> DEFINE p == loop.at
             ok == loop.to # "nothing" /\ Allowed(arcs[p].status, loop.to)
  <1>1. /\ loop.step = "parent" /\ loop' = Settling(loop.item)
        /\ \/ ~ok /\ arcs' = arcs
           \/ ok /\ arcs' = Moved(arcs, p, loop.to)
        /\ work' = IF ok /\ loop.to = "failed" THEN Enqueued(work, Notice(arcs', p)) ELSE work
        /\ UNCHANGED <<attempts, running, restarts>>
    BY DEF FreezeParent
  <1>2. /\ p \in Arcs /\ loop.to \in Verdict /\ TypeOK /\ Children(arcs, p) # {}
        /\ arcs[p].status \in {"active", "waiting"} /\ AllDone(p) => loop.to = "completed"
    BY <1>1, LoopFacts DEF FInv, IInv, Judged
  <1>3. /\ \A b \in Arcs : b # p => arcs'[b].status = arcs[b].status
        /\ ~ok => arcs'[p].status = arcs[p].status
        /\ ok => arcs'[p].status = loop.to
    <2>1. loop.to # "nothing" => loop.to \in Open \cup Frozen
      BY <1>2 DEF Open, Frozen, Verdict
    <2> QED BY <1>1, <1>2, <2>1, Tables, MovedFacts
  <1>4. /\ arcs'[p].status = "active" => arcs'[p].status = arcs[p].status
        /\ arcs'[p].status = "waiting" => ~AllDone(p)
    BY <1>1, <1>2, <1>3 DEF Verdict, Allowed, Transitions, Open
  <1>5. \A b \in Arcs : work[<<"retry", b>>] = "pending" => work'[<<"retry", b>>] = "pending"
    BY <1>1, RunsFacts, EnqueuedKeeps
  <1>6. ASSUME NEW b \in Arcs PROVE Active(b)' /\ Waiting(b)'
    <2>1. ASSUME arcs'[b].status = arcs[b].status PROVE Beside(b) /\ Active(b)'
      <3>1. Beside(b) BY <1>1, <1>5, <2>1 DEF Beside, Minded
      <3> QED BY <1>2, <3>1, Held, ActiveLasts
    <2>2. CASE b = p
      <3>1. Active(b)' BY <1>4, <2>1, <2>2 DEF Active
      <3>2. Waiting(b)'
        <4>1. CASE arcs'[b].status # "waiting" BY <4>1 DEF Waiting
        <4>2. CASE arcs'[b].status = "waiting"
          <5>1. \A c \in Children(arcs, b) : arcs'[c].status \in Done => arcs[c].status \in Done
            BY <1>3, <2>2, <4>2 DEF Done, Children
          <5>2. ~AllDone(b) BY <1>4, <2>2, <4>2
          <5>3. ~(\A c \in Children(arcs', b) : arcs'[c].status \in Done) BY <5>1, <5>2, NotFinished
          <5> QED BY <5>3 DEF Waiting, Finished
        <4> QED BY <4>1, <4>2
      <3> QED BY <3>1, <3>2
    <2>3. CASE b # p
      <3>1. Beside(b) /\ Active(b)' BY <1>3, <2>1, <2>3
      <3>2. \A c \in Children(arcs, b) : arcs'[c].status \in Done =>
               arcs[c].status \in Done \/ Children(arcs, c) # {}
        BY <1>2, <1>3 DEF Children
      <3> QED BY <1>2, <2>3, <3>1, <3>2, Held, WaitingLasts
    <2> QED BY <2>2, <2>3
  <1>7. ASSUME NEW c \in Arcs, work'[<<"child_failed", c>>] # "none"
        PROVE  work[<<"child_failed", c>>] # "none" \/ arcs'[c].status = "failed"
    <2> SUFFICES ASSUME work[<<"child_failed", c>>] = "none" PROVE arcs'[c].status = "failed"
      OBVIOUS
    <2>1. ok /\ loop.to = "failed" /\ work' = Enqueued(work, Notice(arcs', p)) BY <1>1, <1>7
    <2>2. <<"child_failed", c>> \in Notice(arcs', p) BY <1>7, <2>1, Items1, EnqueuedKeeps
    <2>3. c = p BY <2>2, NoticeOf
    <2> QED BY <1>3, <2>1, <2>3
  <1>8. Judged' BY <1>1 DEF Judged, Settling
  <1> QED BY <1>6, <1>7, <1>8, KeptIf

-----------------------------------------------------------------------------
LEMMA ForgottenStep == ASSUME FInv, [Next]_vars PROVE FInv'
  <1>1. IInv' /\ Evolves BY InvStep DEF FInv
  <1>2. CASE Apart BY <1>1, <1>2, ApartKeeps DEF FInv
  <1>3. CASE LoopStep
    <2>1. Kept
      BY <1>1, <1>3, DispatchKeeps, SkipFrozenKeeps, AgentReturnsKeeps, RetryKeeps, FailKeeps,
         FailRaisesKeeps, FreezeSelfKeeps, FreezeParentKeeps, SettleKeeps, ReplanKeeps,
         ReplanEndsKeeps, ScanKeeps DEF LoopStep
    <2> QED BY <1>1, <2>1 DEF Kept, FInv
  <1>4. CASE Restart BY <1>1, <1>4, RestartKeeps DEF Kept, FInv
  <1> QED BY <1>2, <1>3, <1>4 DEF Next, Apart

(* No arc that has been started is forgotten: handlers hand arcs over to   *)
(* one another, retries and restarts notwithstanding, and a freeze_arc     *)
(* that read children and parent before others wrote them does not strand  *)
(* one that waits for finished children.                                   *)
THEOREM NoneForgotten == Spec => []NoArcForgotten
  <1>1. Init => FInv
    <2> SUFFICES ASSUME Init PROVE FInv OBVIOUS
    <2>1. IInv BY InitInv
    <2>2. Judged BY DEF Init, Idle, Judged
    <2>3. Notices BY Items1 DEF Init, Notices
    <2>4. \A a \in Arcs : arcs[a].status \in {"pending", "absent"} BY DEF Init
    <2>5. NoArcForgotten BY <2>4 DEF NoArcForgotten
    <2> QED BY <2>1, <2>2, <2>3, <2>5 DEF FInv
  <1>2. FInv /\ [Next]_vars => FInv' BY ForgottenStep
  <1>3. FInv => NoArcForgotten BY DEF FInv
  <1> QED BY <1>1, <1>2, <1>3, PTL DEF Spec
=============================================================================
