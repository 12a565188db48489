-------------------------- MODULE CronTimersProofs --------------------------
(***************************************************************************)
(* The table of timers agrees with what callers were told, for any number  *)
(* of names and instants and any interleaving with check_cron, but for the *)
(* two exceptions its property names.                                      *)
(***************************************************************************)
EXTENDS CronTimers, FiniteSetTheorems, TLAPS

(* One row for a name, one name for an id.                                 *)
Single    == \A n \in Names : \A r, q \in entries[n] : r = q
IdsApart  == \A n, m \in Names : \A r \in entries[n], q \in entries[m] : r.id = q.id => n = m
Shape ==
  /\ now \in Times /\ entries \in [Names -> SUBSET Row]
  /\ emitted \subseteq Ids \X (0 .. MaxTime + 1)
  /\ allowed \in BOOLEAN /\ pc \in {"idle", "write"}
  /\ due \subseteq [name : Names, row : Row]
  /\ read_at \in Times
  /\ owed \in [Names -> [fire : 0 .. MaxTime + 2, once : BOOLEAN]]
  /\ raced \subseteq Names /\ repeated \subseteq Names

(* No event is emitted ahead of its time, so that the instant a recurring  *)
(* entry moves on to is new under any id.                                  *)
NoneAhead ==
  /\ read_at <= now
  /\ \A k \in emitted : k[2] <= now /\ (pc = "write" => k[2] <= read_at)
  /\ \A d \in due : d.row.next_fire_at <= read_at

SameRow(r, q) == r.id = q.id /\ r.next_fire_at = q.next_fire_at /\ r.one_shot = q.one_shot

(* What check_cron holds is a copy of the rows of all names that were not  *)
(* rescheduled since.                                                      *)
CopyTrue ==
  /\ pc = "idle" => due = {}
  /\ \A d, e \in due : d.name = e.name \/ d.row.id = e.row.id => d = e
  /\ \A n \in Names \ raced : \A r \in entries[n], d \in due :
        d.name = n \/ d.row.id = r.id => d.name = n /\ SameRow(d.row, r)

(* An entry that will fire has not emitted its event before.               *)
Fresh(n) == \A r \in entries[n] : <<r.id, r.next_fire_at>> \notin emitted

Told == \A n \in Names : n \in raced \cup repeated \/ (Kept(n) /\ Fresh(n))

IInv == Shape /\ Single /\ IdsApart /\ NoneAhead /\ CopyTrue /\ Told

-----------------------------------------------------------------------------
LEMMA OwnRow ==
  ASSUME Single, NEW n \in Names, NEW r \in entries[n]
  PROVE  Exists(n) /\ TheRow(n) = r /\ entries[n] = {r}
  BY DEF Single, Exists, TheRow

LEMMA RowFields ==
  ASSUME NEW r \in Row, NEW t \in 0 .. MaxTime + 1
  PROVE  /\ [r EXCEPT !.next_fire_at = t] \in Row
         /\ [r EXCEPT !.next_fire_at = t].id = r.id
         /\ [r EXCEPT !.next_fire_at = t].next_fire_at = t
         /\ [r EXCEPT !.next_fire_at = t].one_shot = r.one_shot
  BY DEF Row

LEMMA RowEnabled ==
  ASSUME NEW r \in Row, NEW b \in BOOLEAN
  PROVE  [r EXCEPT !.enabled = b] \in Row /\ SameRow([r EXCEPT !.enabled = b], r)
  BY DEF Row, SameRow

LEMMA InitIInv == Init => IInv
  <1> SUFFICES ASSUME Init PROVE IInv OBVIOUS
  <1>1. 0 \in Times /\ Nothing \in [fire : 0 .. MaxTime + 2, once : BOOLEAN]
    BY BoundsAssumption DEF Times, Nothing
  <1>2. Shape BY <1>1 DEF Init, Shape
  <1>3. Single /\ IdsApart BY DEF Init, Single, IdsApart
  <1>4. NoneAhead /\ CopyTrue BY DEF Init, NoneAhead, CopyTrue
  <1>5. Told BY DEF Init, Told, Kept, Fresh
  <1> QED BY <1>2, <1>3, <1>4, <1>5 DEF IInv

(* A row scheduled for n is n's only one, under an id of its own.          *)
LEMMA ScheduleStep ==
  ASSUME IInv, NEW n \in Names, NEW fire \in 0 .. MaxTime + 1, NEW once \in BOOLEAN,
         Schedule(n, fire, once)
  PROVE  IInv'
  <1>1. PICK id \in Ids :
          /\ IdFor(n, id)
          /\ entries' = [entries EXCEPT ![n] =
               {[id |-> id, next_fire_at |-> fire, one_shot |-> once, enabled |-> TRUE]}]
          /\ repeated' = Marked(repeated, n, <<id, fire>> \in emitted)
    BY DEF Schedule
  <1>2. /\ owed' = [owed EXCEPT ![n] = [fire |-> fire, once |-> once]]
        /\ raced' = Marked(raced, n, pc = "write")
        /\ UNCHANGED <<now, emitted, allowed, pc, due, read_at>>
    BY DEF Schedule
  <1> DEFINE r == [id |-> id, next_fire_at |-> fire, one_shot |-> once, enabled |-> TRUE]
             o == [fire |-> fire, once |-> once]
  <1>3. r \in Row /\ r.id = id /\ r.next_fire_at = fire /\ r.one_shot = once BY DEF Row
  <1>4. o \in [fire : 0 .. MaxTime + 2, once : BOOLEAN] /\ o # Nothing /\ o.fire = fire /\ o.once = once
    BY BoundsAssumption DEF Nothing
  <1>5. entries' = [entries EXCEPT ![n] = {r}] /\ owed' = [owed EXCEPT ![n] = o] BY <1>1, <1>2
  <1> HIDE DEF r, o
  <1>6. /\ \A m \in Names : entries'[m] = IF m = n THEN {r} ELSE entries[m]
        /\ \A m \in Names : owed'[m] = IF m = n THEN o ELSE owed[m]
        /\ entries' \in [Names -> SUBSET Row]
        /\ owed' \in [Names -> [fire : 0 .. MaxTime + 2, once : BOOLEAN]]
    BY <1>3, <1>4, <1>5 DEF IInv, Shape
  <1>7. /\ raced' \subseteq Names /\ repeated' \subseteq Names
        /\ \A m \in Names \ {n} : (m \in raced' <=> m \in raced) /\ (m \in repeated' <=> m \in repeated)
        /\ n \in raced' <=> pc = "write"
        /\ n \in repeated' <=> <<id, fire>> \in emitted
    BY <1>1, <1>2 DEF Marked, IInv, Shape
  <1>8. Shape' BY <1>2, <1>6, <1>7 DEF IInv, Shape
  <1>9. Single' BY <1>6 DEF IInv, Single
  <1>10. \A m \in Names \ {n} : \A q \in entries[m] : q.id # id
    <2> SUFFICES ASSUME NEW m \in Names \ {n}, NEW q \in entries[m] PROVE q.id # id OBVIOUS
    <2>1. TheRow(m) = q /\ Exists(m) BY OwnRow DEF IInv
    <2>2. q.id \in Ids BY DEF IInv, Shape, Row
    <2>3. CASE Exists(n)
      <3>1. TheRow(n) \in entries[n] BY <2>3 DEF Exists, TheRow
      <3>2. id = TheRow(n).id BY <1>1, <2>3 DEF IdFor
      <3> QED BY <3>1, <3>2 DEF IInv, IdsApart
    <2>4. CASE ~Exists(n)
      <3>1. q.id < id BY <1>1, <2>1, <2>4 DEF IdFor
      <3> QED BY <2>2, <3>1 DEF Ids
    <2> QED BY <2>3, <2>4
  <1>11. IdsApart' BY <1>3, <1>6, <1>10 DEF IInv, IdsApart
  <1>12. NoneAhead' BY <1>2 DEF IInv, NoneAhead
  <1>13. CopyTrue'
    <2>1. \A m \in Names \ raced' : \A q \in entries'[m], d \in due :
             d.name = m \/ d.row.id = q.id => d.name = m /\ SameRow(d.row, q)
      <3> SUFFICES ASSUME NEW m \in Names \ raced', NEW q \in entries'[m], NEW d \in due,
                          d.name = m \/ d.row.id = q.id
                   PROVE  d.name = m /\ SameRow(d.row, q)
        OBVIOUS
      <3>1. m # n BY <1>7 DEF IInv, CopyTrue, Shape
      <3> QED BY <1>6, <1>7, <3>1 DEF IInv, CopyTrue
    <2> QED BY <1>2, <2>1 DEF IInv, CopyTrue
  <1>14. Told'
    <2> SUFFICES ASSUME NEW m \in Names, m \notin raced' \cup repeated' PROVE Kept(m)' /\ Fresh(m)'
      BY DEF Told
    <2>1. CASE m = n
      <3>1. entries'[m] = {r} /\ owed'[m] = o BY <1>6, <2>1
      <3>2. Nothing' = Nothing BY DEF Nothing
      <3>3. Kept(m)' BY <1>3, <1>4, <3>1, <3>2 DEF Kept
      <3>4. <<id, fire>> \notin emitted' BY <1>2, <1>7, <2>1
      <3> QED BY <1>3, <3>1, <3>3, <3>4 DEF Fresh
    <2>2. CASE m # n
      <3>1. entries'[m] = entries[m] /\ owed'[m] = owed[m] BY <1>6, <2>2
      <3>2. Kept(m) /\ Fresh(m) BY <1>7, <2>2 DEF IInv, Told
      <3> QED BY <1>2, <3>1, <3>2 DEF Kept, Fresh, Nothing
    <2> QED BY <2>1, <2>2
  <1> QED BY <1>8, <1>9, <1>11, <1>12, <1>13, <1>14 DEF IInv

LEMMA AddOnceStep == ASSUME IInv, NEW n \in Names, AddOnce(n) PROVE IInv'
  <1>1. PICK t \in Times : Schedule(n, t, TRUE) BY DEF AddOnce
  <1>2. t \in 0 .. MaxTime + 1 BY BoundsAssumption DEF Times
  <1> QED BY <1>1, <1>2, ScheduleStep

LEMMA AddCronStep == ASSUME IInv, NEW n \in Names, AddCron(n) PROVE IInv'
  <1>1. now + 1 \in 0 .. MaxTime + 1 BY BoundsAssumption DEF IInv, Shape, Times
  <1> QED BY <1>1, ScheduleStep DEF AddCron

LEMMA RemoveCronStep == ASSUME IInv, NEW n \in Names, RemoveCron(n) PROVE IInv'
  <1>1. /\ entries' = [entries EXCEPT ![n] = {}] /\ owed' = [owed EXCEPT ![n] = Nothing]
        /\ raced' = raced \ {n} /\ repeated' = repeated \ {n}
        /\ UNCHANGED <<now, emitted, allowed, pc, due, read_at>>
    BY DEF RemoveCron
  <1>2. Nothing \in [fire : 0 .. MaxTime + 2, once : BOOLEAN] BY BoundsAssumption DEF Nothing
  <1>3. /\ \A m \in Names : entries'[m] = IF m = n THEN {} ELSE entries[m]
        /\ \A m \in Names : owed'[m] = IF m = n THEN Nothing ELSE owed[m]
        /\ entries' \in [Names -> SUBSET Row]
        /\ owed' \in [Names -> [fire : 0 .. MaxTime + 2, once : BOOLEAN]]
    BY <1>1, <1>2 DEF IInv, Shape
  <1>4. Shape' BY <1>1, <1>3 DEF IInv, Shape
  <1>5. Single' /\ IdsApart' BY <1>3 DEF IInv, Single, IdsApart
  <1>6. NoneAhead' BY <1>1 DEF IInv, NoneAhead
  <1>7. CopyTrue'
    <2>1. \A m \in Names \ raced' : \A q \in entries'[m] : m \notin raced /\ q \in entries[m]
      BY <1>1, <1>3
    <2> QED BY <1>1, <2>1 DEF IInv, CopyTrue
  <1>8. Told'
    <2> SUFFICES ASSUME NEW m \in Names, m \notin raced' \cup repeated' PROVE Kept(m)' /\ Fresh(m)'
      BY DEF Told
    <2>1. CASE m = n BY <1>3, <2>1 DEF Kept, Fresh, Nothing
    <2>2. CASE m # n
      <3>1. entries'[m] = entries[m] /\ owed'[m] = owed[m] BY <1>3, <2>2
      <3>2. Kept(m) /\ Fresh(m) BY <1>1, <2>2 DEF IInv, Told
      <3> QED BY <1>1, <3>1, <3>2 DEF Kept, Fresh, Nothing
    <2> QED BY <2>1, <2>2
  <1> QED BY <1>4, <1>5, <1>6, <1>7, <1>8 DEF IInv

LEMMA EnableCronStep ==
  ASSUME IInv, NEW n \in Names, NEW b \in BOOLEAN, EnableCron(n, b) PROVE IInv'
  <1>1. /\ Exists(n) /\ entries' = [entries EXCEPT ![n] = {[TheRow(n) EXCEPT !.enabled = b]}]
        /\ UNCHANGED <<now, emitted, allowed, pc, due, read_at, owed, raced, repeated>>
    BY DEF EnableCron
  <1> DEFINE q == TheRow(n)
             r == [q EXCEPT !.enabled = b]
  <1>2. q \in entries[n] /\ q \in Row BY <1>1 DEF Exists, TheRow, IInv, Shape
  <1>3. entries[n] = {q} BY <1>2, OwnRow DEF IInv
  <1> HIDE DEF q
  <1>4. r \in Row /\ SameRow(r, q) BY <1>2, RowEnabled DEF r
  <1>5. entries' = [entries EXCEPT ![n] = {r}] BY <1>1 DEF q
  <1> HIDE DEF r
  <1>6. /\ \A m \in Names : entries'[m] = IF m = n THEN {r} ELSE entries[m]
        /\ entries' \in [Names -> SUBSET Row]
    BY <1>4, <1>5 DEF IInv, Shape
  (* Every row has a row of before with the same id, fire time and kind.   *)
  <1>7. \A m \in Names : \A x \in entries'[m] : \E y \in entries[m] : SameRow(x, y)
    <2> SUFFICES ASSUME NEW m \in Names, NEW x \in entries'[m]
                 PROVE  \E y \in entries[m] : SameRow(x, y)
      OBVIOUS
    <2>1. CASE m = n BY <1>2, <1>4, <1>6, <2>1
    <2>2. CASE m # n BY <1>6, <2>2 DEF SameRow
    <2> QED BY <2>1, <2>2
  <1>8. Shape' BY <1>1, <1>6 DEF IInv, Shape
  <1>9. Single' BY <1>6 DEF IInv, Single
  <1>10. IdsApart' BY <1>7 DEF IInv, IdsApart, SameRow
  <1>11. NoneAhead' BY <1>1 DEF IInv, NoneAhead
  <1>12. CopyTrue'
    <2>1. \A m \in Names \ raced : \A x \in entries'[m], d \in due :
             d.name = m \/ d.row.id = x.id => d.name = m /\ SameRow(d.row, x)
      <3> SUFFICES ASSUME NEW m \in Names \ raced, NEW x \in entries'[m], NEW d \in due,
                          d.name = m \/ d.row.id = x.id
                   PROVE  d.name = m /\ SameRow(d.row, x)
        OBVIOUS
      <3>1. PICK y \in entries[m] : SameRow(x, y) BY <1>7
      <3>2. d.name = m /\ SameRow(d.row, y) BY <3>1 DEF IInv, CopyTrue, SameRow
      <3> QED BY <3>1, <3>2 DEF SameRow
    <2> QED BY <1>1, <2>1 DEF IInv, CopyTrue
  <1>13. Told'
    <2> SUFFICES ASSUME NEW m \in Names, m \notin raced \cup repeated PROVE Kept(m)' /\ Fresh(m)'
      BY <1>1 DEF Told
    <2>1. Kept(m) /\ Fresh(m) BY DEF IInv, Told
    <2>2. CASE m # n
      <3>1. entries'[m] = entries[m] BY <1>6, <2>2
      <3> QED BY <1>1, <2>1, <3>1 DEF Kept, Fresh, Nothing
    <2>3. CASE m = n
      <3>1. entries'[m] = {r} /\ entries[m] = {q} BY <1>3, <1>6, <2>3
      <3>2. owed[m] # Nothing BY <2>1, <3>1 DEF Kept
      <3>3. q.next_fire_at = owed[m].fire /\ q.one_shot = owed[m].once BY <2>1, <3>1, <3>2 DEF Kept
      <3>4. r.next_fire_at = owed[m].fire /\ r.one_shot = owed[m].once /\ r.id = q.id
        BY <1>4, <3>3 DEF SameRow
      <3>5. Kept(m)' BY <1>1, <3>1, <3>2, <3>4 DEF Kept, Nothing
      <3>6. r.next_fire_at = q.next_fire_at BY <1>4 DEF SameRow
      <3>7. Fresh(m)' BY <1>1, <2>1, <3>1, <3>4, <3>6 DEF Fresh
      <3> QED BY <3>5, <3>7
    <2> QED BY <2>2, <2>3
  <1> QED BY <1>8, <1>9, <1>10, <1>11, <1>12, <1>13 DEF IInv

(* The SELECT: what it holds is the rows themselves.                       *)
LEMMA CheckCronStep == ASSUME IInv, CheckCron PROVE IInv'
  <1>1. /\ due' = {d \in [name : Names, row : UNION {entries[n] : n \in Names}] :
                     d.row \in entries[d.name] /\ d.row.enabled /\ d.row.next_fire_at <= now}
        /\ read_at' = now /\ pc' = "write"
        /\ UNCHANGED <<now, entries, emitted, allowed, owed, raced, repeated>>
    BY DEF CheckCron
  <1>2. \A d \in due' : d.name \in Names /\ d.row \in entries[d.name] /\ d.row.next_fire_at <= now
    BY <1>1
  <1>3. \A d \in due' : d = [name |-> d.name, row |-> d.row] BY <1>1
  <1>4. due' \subseteq [name : Names, row : Row] BY <1>2, <1>3 DEF IInv, Shape
  <1>5. Shape' BY <1>1, <1>4 DEF IInv, Shape
  <1>6. NoneAhead' BY <1>1, <1>2 DEF IInv, NoneAhead, Shape, Times
  <1>7. CopyTrue'
    <2>1. \A d, e \in due' : d.name = e.name \/ d.row.id = e.row.id => d = e
      BY <1>2, <1>3 DEF IInv, Single, IdsApart
    <2>2. \A n \in Names : \A r \in entries[n], d \in due' :
             d.name = n \/ d.row.id = r.id => d.name = n /\ SameRow(d.row, r)
      BY <1>2 DEF IInv, Single, IdsApart, SameRow
    <2> QED BY <1>1, <2>1, <2>2 DEF CopyTrue
  <1>8. Single' /\ IdsApart' BY <1>1 DEF IInv, Single, IdsApart
  <1>9. Told' BY <1>1 DEF IInv, Told, Kept, Fresh, Nothing
  <1> QED BY <1>5, <1>6, <1>7, <1>8, <1>9 DEF IInv

(* Steps that leave the table alone and hold nothing back.                 *)
LEMMA QuietStep ==
  ASSUME IInv, UNCHANGED <<entries, emitted, owed, raced, repeated>>,
         allowed' \in BOOLEAN, now' \in Times, now <= now',
         \/ UNCHANGED <<pc, due, read_at>>
         \/ pc' = "idle" /\ due' = {} /\ read_at' = 0 /\ now' = now
  PROVE  IInv'
  <1>1. now \in Nat /\ now' \in Nat /\ 0 \in Times /\ read_at \in Nat
        /\ \A k \in emitted : k[2] \in Nat
    BY BoundsAssumption DEF IInv, Shape, Times
  <1>2. Shape' BY <1>1 DEF IInv, Shape
  <1>3. NoneAhead' BY <1>1 DEF IInv, NoneAhead
  <1>4. CopyTrue' BY DEF IInv, CopyTrue
  <1>5. Single' /\ IdsApart' BY DEF IInv, Single, IdsApart
  <1>6. Told' BY DEF IInv, Told, Kept, Fresh, Nothing
  <1> QED BY <1>2, <1>3, <1>4, <1>5, <1>6 DEF IInv

LEMMA CrashStep == ASSUME IInv, Crash PROVE IInv'
  <1>1. now \in Times /\ now <= now BY DEF IInv, Shape, Times
  <1> QED BY <1>1, QuietStep DEF Crash, IInv, Shape

LEMMA TickStep == ASSUME IInv, Tick PROVE IInv'
  <1>1. now' \in Times /\ now <= now' BY BoundsAssumption DEF Tick, IInv, Shape, Times
  <1> QED BY <1>1, QuietStep DEF Tick, IInv, Shape

LEMMA BudgetTurnsStep == ASSUME IInv, BudgetTurns PROVE IInv'
  <1>1. now \in Times /\ now <= now BY DEF IInv, Shape, Times
  <1>2. allowed' \in BOOLEAN BY DEF BudgetTurns
  <1> QED BY <1>1, <1>2, QuietStep DEF BudgetTurns

LEMMA StutterStep == ASSUME IInv, UNCHANGED vars PROVE IInv'
  <1>1. now \in Times /\ now <= now BY DEF IInv, Shape, Times
  <1> QED BY <1>1, QuietStep DEF vars, IInv, Shape


(* The writes: entry by entry, what was read is what is there, or the name *)
(* was rescheduled in between.                                             *)
LEMMA FireStep == ASSUME IInv, Fire PROVE IInv'
  <1>1. /\ pc = "write" /\ pc' = "idle" /\ due' = {} /\ read_at' = 0
        /\ emitted' = emitted \cup {Key(d) : d \in due}
        /\ entries' = [n \in Names |-> Advanced(n)]
        /\ UNCHANGED <<now, allowed, raced, repeated>>
    BY DEF Fire
  <1>2. owed' = [n \in Names |->
           IF \E d \in due : d.name = n /\ d.row.next_fire_at = owed[n].fire /\ Key(d) \notin emitted
           THEN IF owed[n].once THEN Nothing ELSE [fire |-> read_at + 1, once |-> FALSE]
           ELSE owed[n]]
    BY DEF Fire
  <1>3. /\ Nothing \in [fire : 0 .. MaxTime + 2, once : BOOLEAN] /\ 0 \in Times
        /\ read_at \in Nat /\ now \in Nat /\ read_at <= now
        /\ read_at + 1 \in 0 .. MaxTime + 1 /\ read_at + 1 \in 0 .. MaxTime + 2
    BY BoundsAssumption DEF Nothing, Times, IInv, Shape, NoneAhead
  <1>4. \A d \in due : d.row \in Row /\ d.row.id \in Ids /\ d.row.next_fire_at \in 0 .. MaxTime + 1
                      /\ d.row.next_fire_at <= read_at /\ d.row.one_shot \in BOOLEAN
    BY DEF IInv, Shape, NoneAhead, Row
  (* What becomes of a row, by whether its id is among those that were     *)
  (* read.                                                                 *)
  <1>5. ASSUME NEW n \in Names, NEW r \in entries[n], NEW d \in due, d.row.id = r.id
        PROVE  Advanced(n) = IF d.row.one_shot THEN {} ELSE {[r EXCEPT !.next_fire_at = read_at + 1]}
    <2>1. TheRow(n) = r /\ Exists(n) BY OwnRow DEF IInv
    <2>2. (CHOOSE x \in due : x.row.id = r.id) = d BY <1>5 DEF IInv, CopyTrue
    <2> QED BY <1>5, <2>1, <2>2 DEF Advanced
  <1>6. ASSUME NEW n \in Names, NEW r \in entries[n], \A d \in due : d.row.id # r.id
        PROVE  Advanced(n) = {r}
    <2>1. TheRow(n) = r /\ Exists(n) /\ entries[n] = {r} BY OwnRow DEF IInv
    <2> QED BY <1>6, <2>1 DEF Advanced
  <1>7. ASSUME NEW n \in Names, entries[n] = {} PROVE Advanced(n) = {}
    BY <1>7 DEF Advanced, Exists
  <1>8. ASSUME NEW n \in Names, NEW x \in Advanced(n)
        PROVE  \E r \in entries[n] : x \in Row /\ x.id = r.id /\ x.one_shot = r.one_shot /\ Advanced(n) = {x}
    <2>1. CASE entries[n] = {} BY <1>7, <1>8, <2>1
    <2>2. CASE entries[n] # {}
      <3>1. PICK r \in entries[n] : TRUE BY <2>2
      <3>2. r \in Row BY DEF IInv, Shape
      <3>3. CASE \E d \in due : d.row.id = r.id
        <4>1. PICK d \in due : d.row.id = r.id BY <3>3
        <4> DEFINE q == [r EXCEPT !.next_fire_at = read_at + 1]
        <4>2. q \in Row /\ q.id = r.id /\ q.one_shot = r.one_shot BY <1>3, <3>2, RowFields
        <4>3. Advanced(n) = IF d.row.one_shot THEN {} ELSE {q} BY <1>5, <4>1
        <4> HIDE DEF q
        <4>4. Advanced(n) = {q} /\ x = q BY <1>8, <4>3
        <4> QED BY <4>2, <4>4
      <3>4. CASE \A d \in due : d.row.id # r.id BY <1>6, <1>8, <3>2, <3>4
      <3> QED BY <3>3, <3>4
    <2> QED BY <2>1, <2>2
  <1>9. \A n \in Names : entries'[n] = Advanced(n) BY <1>1
  <1>10. Shape'
    <2>1. entries' \in [Names -> SUBSET Row]
      <3>1. \A n \in Names : Advanced(n) \subseteq Row BY <1>8
      <3> QED BY <1>1, <3>1
    <2>2. emitted' \subseteq Ids \X (0 .. MaxTime + 1) BY <1>1, <1>4 DEF IInv, Shape, Key
    <2>3. owed' \in [Names -> [fire : 0 .. MaxTime + 2, once : BOOLEAN]]
      <3>1. [fire |-> read_at + 1, once |-> FALSE] \in [fire : 0 .. MaxTime + 2, once : BOOLEAN]
        BY <1>3
      <3>2. owed \in [Names -> [fire : 0 .. MaxTime + 2, once : BOOLEAN]] BY DEF IInv, Shape
      <3> QED BY <1>2, <1>3, <3>1, <3>2
    <2> QED BY <1>1, <1>3, <2>1, <2>2, <2>3 DEF IInv, Shape
  <1>11. Single' BY <1>8, <1>9 DEF Single
  <1>12. IdsApart'
    <2> SUFFICES ASSUME NEW n \in Names, NEW m \in Names, NEW x \in Advanced(n), NEW y \in Advanced(m),
                        x.id = y.id
                 PROVE  n = m
      BY <1>9 DEF IdsApart
    <2>1. PICK r \in entries[n] : x.id = r.id BY <1>8
    <2>2. PICK q \in entries[m] : y.id = q.id BY <1>8
    <2> QED BY <2>1, <2>2 DEF IInv, IdsApart
  <1>13. \A k \in emitted' : k[2] <= read_at
    BY <1>1, <1>4 DEF IInv, NoneAhead, Key
  <1>14. NoneAhead'
    <2>1. \A k \in emitted' : k[2] <= now'
      <3> SUFFICES ASSUME NEW k \in emitted' PROVE k[2] <= now BY <1>1
      <3>1. k[2] \in Nat BY <1>10 DEF Shape
      <3> QED BY <1>3, <1>13, <3>1
    <2> QED BY <1>1, <1>3, <2>1 DEF NoneAhead
  <1>15. CopyTrue' BY <1>1 DEF CopyTrue
  <1>16. Told'
    <2> SUFFICES ASSUME NEW n \in Names, n \notin raced \cup repeated PROVE Kept(n)' /\ Fresh(n)'
      BY <1>1 DEF Told
    <2>1. Kept(n) /\ Fresh(n) BY DEF IInv, Told
    <2>2. Nothing' = Nothing BY DEF Nothing
    <2>3. CASE entries[n] = {}
      <3>1. owed[n] = Nothing BY <2>1, <2>3 DEF Kept
      <3>2. \A d \in due : d.row.next_fire_at # owed[n].fire BY <1>4, <3>1, BoundsAssumption DEF Nothing
      <3>3. owed'[n] = Nothing BY <1>2, <3>1, <3>2
      <3>4. entries'[n] = {} BY <1>7, <1>9, <2>3
      <3> QED BY <2>2, <3>3, <3>4 DEF Kept, Fresh
    <2>4. CASE entries[n] # {}
      <3>1. PICK r \in entries[n] : TRUE BY <2>4
      <3>2. /\ owed[n] # Nothing /\ entries[n] = {r}
            /\ r.next_fire_at = owed[n].fire /\ r.one_shot = owed[n].once
        BY <2>1, <2>4, <3>1, OwnRow DEF Kept, IInv
      <3>3. r \in Row BY DEF IInv, Shape
      <3>4. CASE \E d \in due : d.row.id = r.id
        <4>1. PICK d \in due : d.row.id = r.id BY <3>4
        <4>2. d.name = n /\ SameRow(d.row, r) BY <4>1 DEF IInv, CopyTrue
        <4>3. Key(d) = <<r.id, r.next_fire_at>> BY <4>2 DEF Key, SameRow
        <4>4. Key(d) \notin emitted BY <2>1, <4>3 DEF Fresh
        <4>5. owed'[n] = IF owed[n].once THEN Nothing ELSE [fire |-> read_at + 1, once |-> FALSE]
          BY <1>2, <3>2, <4>2, <4>4 DEF SameRow
        <4>6. CASE owed[n].once
          <5>1. d.row.one_shot BY <3>2, <4>2, <4>6 DEF SameRow
          <5>2. entries'[n] = {} BY <1>5, <1>9, <4>1, <5>1
          <5> QED BY <2>2, <4>5, <4>6, <5>2 DEF Kept, Fresh
        <4>7. CASE ~owed[n].once
          <5> DEFINE q == [r EXCEPT !.next_fire_at = read_at + 1]
                     o == [fire |-> read_at + 1, once |-> FALSE]
          <5>1. ~d.row.one_shot BY <3>2, <4>2, <4>7 DEF SameRow
          <5>2. entries'[n] = {q} BY <1>5, <1>9, <4>1, <5>1
          <5>3. q.id = r.id /\ q.next_fire_at = read_at + 1 /\ q.one_shot = r.one_shot
            BY <1>3, <3>3, RowFields
          <5>4. r.one_shot = FALSE BY <3>2, <3>3, <4>7 DEF Row
          <5>5. owed'[n] = o /\ o.fire = read_at + 1 /\ o.once = FALSE BY <4>5, <4>7
          <5>6. o # Nothing BY <1>3, BoundsAssumption DEF Nothing
          <5> HIDE DEF q, o
          <5>7. Kept(n)' BY <2>2, <5>2, <5>3, <5>4, <5>5, <5>6 DEF Kept
          <5>8. \A k \in emitted' : k[2] # read_at + 1 BY <1>3, <1>10, <1>13 DEF Shape
          <5>9. Fresh(n)' BY <5>2, <5>3, <5>8 DEF Fresh
          <5> QED BY <5>7, <5>9
        <4> QED BY <4>6, <4>7
      <3>5. CASE \A d \in due : d.row.id # r.id
        <4>1. \A d \in due : d.name # n BY <3>5 DEF IInv, CopyTrue, SameRow
        <4>2. owed'[n] = owed[n] BY <1>2, <4>1
        <4>3. entries'[n] = {r} BY <1>6, <1>9, <3>5
        <4>4. Kept(n)' BY <2>2, <3>2, <4>2, <4>3 DEF Kept
        <4>5. <<r.id, r.next_fire_at>> \notin emitted' BY <1>1, <2>1, <3>5 DEF Fresh, Key
        <4> QED BY <4>3, <4>4, <4>5 DEF Fresh
      <3> QED BY <3>4, <3>5
    <2> QED BY <2>3, <2>4
  <1> QED BY <1>10, <1>11, <1>12, <1>14, <1>15, <1>16 DEF IInv

LEMMA NextIInv == IInv /\ [Next]_vars => IInv'
  <1> SUFFICES ASSUME IInv, [Next]_vars PROVE IInv' OBVIOUS
  <1>1. ASSUME NEW n \in Names, AddOnce(n) PROVE IInv' BY <1>1, AddOnceStep
  <1>2. ASSUME NEW n \in Names, AddCron(n) PROVE IInv' BY <1>2, AddCronStep
  <1>3. ASSUME NEW n \in Names, RemoveCron(n) PROVE IInv' BY <1>3, RemoveCronStep
  <1>4. ASSUME NEW n \in Names, NEW b \in BOOLEAN, EnableCron(n, b) PROVE IInv'
    BY <1>4, EnableCronStep
  <1>5. CASE CheckCron BY <1>5, CheckCronStep
  <1>6. CASE Fire BY <1>6, FireStep
  <1>7. CASE Crash BY <1>7, CrashStep
  <1>8. CASE Tick BY <1>8, TickStep
  <1>9. CASE BudgetTurns BY <1>9, BudgetTurnsStep
  <1>10. CASE UNCHANGED vars BY <1>10, StutterStep
  <1> QED BY <1>1, <1>2, <1>3, <1>4, <1>5, <1>6, <1>7, <1>8, <1>9, <1>10 DEF Next

-----------------------------------------------------------------------------
(* Type correctness: among other things there is never a second row for a  *)
(* name (the UNIQUE constraint add_cron and add_once rely on).             *)
THEOREM TimersTyped == Spec => []TypeOK
  <1>1. IInv => TypeOK
    <2> SUFFICES ASSUME IInv PROVE TypeOK OBVIOUS
    <2>1. ASSUME NEW n \in Names PROVE Cardinality(entries[n]) <= 1
      <3>1. CASE entries[n] = {}
        <4>1. Cardinality(entries[n]) = 0 BY <3>1, FS_EmptySet
        <4> QED BY <4>1
      <3>2. CASE entries[n] # {}
        <4>1. PICK r \in entries[n] : TRUE BY <3>2
        <4>2. entries[n] = {r} BY OwnRow DEF IInv
        <4>3. Cardinality(entries[n]) = 1 BY <4>2, FS_Singleton
        <4> QED BY <4>3
      <3> QED BY <3>1, <3>2
    <2> QED BY <2>1 DEF IInv, Shape, TypeOK
  <1> QED BY <1>1, InitIInv, NextIInv, PTL DEF Spec

(* For any names and any length of time the table holds exactly what each  *)
(* name's last caller has coming, unless the name was rescheduled between  *)
(* check_cron's SELECT and its writes or for an instant already emitted    *)
(* (check_cron, add_cron, add_once, remove_cron, enable_cron).             *)
THEOREM TimersKept == Spec => []TimersKeptUnlessRaced
  <1>1. IInv => TimersKeptUnlessRaced BY DEF IInv, Told, TimersKeptUnlessRaced
  <1> QED BY <1>1, InitIInv, NextIInv, PTL DEF Spec
=============================================================================
