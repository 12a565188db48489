--------------------------- MODULE ApiCallsProofs ---------------------------
(***************************************************************************)
(* The limiter never lets more requests of a minute through than its       *)
(* limit, locks calls out only after one above the limit of tokens, and a  *)
(* breaker that is open lets through at most what its callers had in hand: *)
(* for any number of threads, attempts and requests, and whatever limits   *)
(* the headers bring.                                                      *)
(***************************************************************************)
EXTENDS ApiCalls, FiniteSetTheorems, TLAPS

(* Requests that may still reach the provider without asking the breaker.  *)
InHand == {c \in Callers : call[c].at \in {"acquire", "admitted"}}

(* What the limiter admitted and the provider may yet count, or has        *)
(* counted, is in the window, which the limits of this minute bound.       *)
WindowCovers ==
    /\ rate.requests <= peak
    /\ blind \/ (window <= peak /\ served + Cardinality(Admitted) <= window)

EstimateFits == estimate <= largest

(* While the breaker is open, each caller is counted at most once: those   *)
(* in hand have not been yet.                                              *)
TripBounded ==
    /\ state # "open" => after = 0
    /\ after + Cardinality(InHand) <= Cardinality(Callers)

IInv == TypeOK /\ WindowCovers /\ EstimateFits /\ TripBounded

-----------------------------------------------------------------------------
LEMMA SubsetsFinite ==
  ASSUME Parameters, NEW S, S \subseteq Callers
  PROVE  IsFiniteSet(S) /\ Cardinality(S) \in Nat /\ Cardinality(S) <= Cardinality(Callers)
  BY FS_Subset, FS_CardinalityType DEF Parameters

(* Moving one caller in or out of a set of callers.                        *)
LEMMA OneIn ==
  ASSUME Parameters, NEW S, S \subseteq Callers, NEW c \in Callers \ S
  PROVE  Cardinality(S \cup {c}) = Cardinality(S) + 1
  BY SubsetsFinite, FS_AddElement

LEMMA OneOut ==
  ASSUME Parameters, NEW S, S \subseteq Callers, NEW c \in S
  PROVE  Cardinality(S \ {c}) = Cardinality(S) - 1
  BY SubsetsFinite, FS_RemoveElement

(* The estimate is a mean of the last one and the input.                   *)
LEMMA EstimateIsMean ==
  ASSUME Parameters, NEW i \in Inputs, estimate \in Nat, largest \in Nat, estimate <= largest
  PROVE  /\ Estimated(i) \in Nat /\ Larger(largest, i) \in Nat
         /\ Estimated(i) <= Larger(largest, i)
  BY SMT DEF Estimated, Larger, Parameters

LEMMA RateTyped ==
  ASSUME Parameters, NEW r \in Rates
  PROVE  r.requests \in Nat /\ r.tokens \in Nat /\ r.tokens < TokenBound
  <1>1. r \in [requests : Nat, tokens : 0 .. TokenBound - 1] /\ TokenBound \in Nat BY DEF Parameters
  <1> QED BY <1>1

LEMMA IdleCall == ASSUME Parameters PROVE Idle \in Calls
  <1>1. 0 \in 0 .. Attempts - 1 BY DEF Parameters
  <1> QED BY <1>1 DEF Idle, Calls, Places

LEMMA InitIInv == ASSUME Parameters PROVE Init => IInv
  <1> SUFFICES ASSUME Init PROVE IInv OBVIOUS
  <1>1. Admitted = {} /\ InHand = {}
    BY DEF Init, Admitted, InHand, At, Idle
  <1>2. Cardinality({}) = 0 /\ Cardinality(Callers) \in Nat
    BY FS_EmptySet, FS_CardinalityType DEF Parameters
  <1>3. TypeOK
    <2>1. call \in [Callers -> Calls] BY IdleCall DEF Init
    <2>2. state = "closed" /\ failures = 0 /\ failures < Threshold BY DEF Init, Parameters
    <2>3. /\ tokens \in 0 .. TokenBound /\ estimate \in Nat /\ rate \in Rates
          /\ peak \in Nat /\ largest \in Nat
      BY RateTyped DEF Init, Parameters
    <2>4. window \in Nat /\ served \in Nat /\ after \in Nat BY DEF Init
    <2>5. cooled \in BOOLEAN /\ healthy \in BOOLEAN /\ blind \in BOOLEAN BY DEF Init
    <2>6. failures \in Nat /\ state \in {"closed", "open", "half_open"}
          /\ (state = "closed" <=> failures < Threshold)
      BY <2>2
    <2> QED BY <2>1, <2>3, <2>4, <2>5, <2>6 DEF TypeOK
  <1>4. FirstRate \in Rates BY DEF Parameters
  <1> QED
    BY <1>1, <1>2, <1>3, <1>4, RateTyped DEF Init, IInv, WindowCovers, EstimateFits, TripBounded,
      Parameters

-----------------------------------------------------------------------------
(* The three ways a call goes on: to another place, back to idle, or round *)
(* the loop.                                                               *)
LEMMA GoCalls ==
  ASSUME Parameters, TypeOK, NEW c \in Callers, NEW p \in Places, Go(c, p)
  PROVE  /\ call' \in [Callers -> Calls] /\ call'[c].at = p
         /\ \A d \in Callers \ {c} : call'[d] = call[d]
  <1>1. [call[c] EXCEPT !.at = p] \in Calls BY DEF TypeOK, Calls
  <1> QED BY <1>1 DEF Go, TypeOK, Calls

LEMMA RaiseCalls ==
  ASSUME Parameters, TypeOK, NEW c \in Callers, Raise(c)
  PROVE  /\ call' \in [Callers -> Calls] /\ call'[c].at = "idle"
         /\ \A d \in Callers \ {c} : call'[d] = call[d]
  BY IdleCall DEF Raise, TypeOK, Idle

LEMMA AgainCalls ==
  ASSUME Parameters, TypeOK, NEW c \in Callers, Again(c)
  PROVE  /\ call' \in [Callers -> Calls] /\ call'[c].at \in {"check", "idle"}
         /\ \A d \in Callers \ {c} : call'[d] = call[d]
  <1>1. call[c].n \in 0 .. Attempts - 1 /\ Attempts \in Nat \ {0} BY DEF TypeOK, Calls, Parameters
  <1>2. CASE call[c].n + 1 < Attempts
    <2> DEFINE r == [at |-> "check", n |-> call[c].n + 1, used |-> 0]
    <2>1. call[c].n + 1 \in 0 .. Attempts - 1 BY <1>1, <1>2
    <2>2. r \in Calls BY <2>1 DEF Calls, Places
    <2>3. call' = [call EXCEPT ![c] = r] BY <1>2 DEF Again
    <2>4. r.at = "check" OBVIOUS
    <2> HIDE DEF r
    <2> QED BY <2>2, <2>3, <2>4 DEF TypeOK
  <1>3. CASE ~(call[c].n + 1 < Attempts)
    <2>1. call' = [call EXCEPT ![c] = Idle] BY <1>3 DEF Again
    <2> QED BY <2>1, IdleCall DEF TypeOK, Idle
  <1> QED BY <1>2, <1>3

(* How the sets of callers in hand change with one caller.                 *)
LEMMA InHandMoves ==
  ASSUME Parameters, NEW c \in Callers,
         \A d \in Callers \ {c} : call'[d] = call[d]
  PROVE  /\ call'[c].at \notin {"acquire", "admitted"} => InHand' = InHand \ {c}
         /\ call'[c].at \in {"acquire", "admitted"} => InHand' = InHand \cup {c}
         /\ call'[c].at # "admitted" => Admitted' = Admitted \ {c}
         /\ call'[c].at = "admitted" => Admitted' = Admitted \cup {c}
  BY DEF InHand, Admitted, At

(* The numbers that follow from it.                                        *)
LEMMA Counts ==
  ASSUME Parameters
  PROVE  /\ Cardinality(InHand) \in Nat /\ Cardinality(Admitted) \in Nat
         /\ Cardinality(Callers) \in Nat /\ Cardinality(InHand) <= Cardinality(Callers)
  BY SubsetsFinite DEF InHand, Admitted, Parameters

LEMMA InHandCounts ==
  ASSUME Parameters, NEW c \in Callers,
         \A d \in Callers \ {c} : call'[d] = call[d]
  PROVE  /\ Cardinality(InHand') \in Nat /\ Cardinality(Admitted') \in Nat
         /\ Cardinality(InHand') <= Cardinality(Callers)
         /\ call'[c].at \notin {"acquire", "admitted"} => Cardinality(InHand') <= Cardinality(InHand)
         /\ call[c].at \in {"acquire", "admitted"} => Cardinality(InHand') <= Cardinality(InHand)
         /\ /\ call[c].at \in {"acquire", "admitted"}
            /\ call'[c].at \notin {"acquire", "admitted"}
            => Cardinality(InHand') = Cardinality(InHand) - 1
         /\ call'[c].at # "admitted" => Cardinality(Admitted') <= Cardinality(Admitted)
         /\ Cardinality(Admitted') <= Cardinality(Admitted) + 1
         /\ /\ call[c].at = "admitted"
            /\ call'[c].at # "admitted"
            => Cardinality(Admitted') = Cardinality(Admitted) - 1
  <1> DEFINE H == InHand  A == Admitted
  <1>1. H \subseteq Callers /\ A \subseteq Callers BY DEF InHand, Admitted
  <1>2. /\ c \in H <=> call[c].at \in {"acquire", "admitted"}
        /\ c \in A <=> call[c].at = "admitted"
    BY DEF InHand, Admitted, At
  <1>3. /\ call'[c].at \notin {"acquire", "admitted"} => InHand' = H \ {c}
        /\ call'[c].at \in {"acquire", "admitted"} => InHand' = H \cup {c}
        /\ call'[c].at # "admitted" => Admitted' = A \ {c}
        /\ call'[c].at = "admitted" => Admitted' = A \cup {c}
    BY InHandMoves
  <1> HIDE DEF H, A
  <1>4. \A S \in SUBSET Callers :
           /\ Cardinality(S) \in Nat
           /\ c \in S => S \cup {c} = S /\ Cardinality(S \ {c}) = Cardinality(S) - 1
           /\ c \notin S => S \ {c} = S /\ Cardinality(S \cup {c}) = Cardinality(S) + 1
    <2> TAKE S \in SUBSET Callers
    <2>1. Cardinality(S) \in Nat BY SubsetsFinite
    <2>2. c \in S => S \cup {c} = S /\ Cardinality(S \ {c}) = Cardinality(S) - 1 BY OneOut
    <2>3. c \notin S => S \ {c} = S /\ Cardinality(S \cup {c}) = Cardinality(S) + 1 BY OneIn
    <2> QED BY <2>1, <2>2, <2>3
  <1>5. InHand' \subseteq Callers /\ Admitted' \subseteq Callers BY <1>1, <1>3
  <1>6. /\ Cardinality(InHand') \in Nat /\ Cardinality(Admitted') \in Nat
        /\ Cardinality(InHand') <= Cardinality(Callers)
    BY <1>5, SubsetsFinite
  <1>7. /\ Cardinality(H) \in Nat
        /\ c \in H => H \cup {c} = H /\ Cardinality(H \ {c}) = Cardinality(H) - 1
        /\ c \notin H => H \ {c} = H
    BY <1>1, <1>4
  <1>10. /\ Cardinality(A) \in Nat
         /\ c \in A => A \cup {c} = A /\ Cardinality(A \ {c}) = Cardinality(A) - 1
         /\ c \notin A => A \ {c} = A /\ Cardinality(A \cup {c}) = Cardinality(A) + 1
    BY <1>1, <1>4
  <1>8. /\ call'[c].at \notin {"acquire", "admitted"} => Cardinality(InHand') <= Cardinality(H)
        /\ call[c].at \in {"acquire", "admitted"} => Cardinality(InHand') <= Cardinality(H)
        /\ /\ call[c].at \in {"acquire", "admitted"}
           /\ call'[c].at \notin {"acquire", "admitted"}
           => Cardinality(InHand') = Cardinality(H) - 1
    <2>1. CASE call'[c].at \in {"acquire", "admitted"}
      <3>1. InHand' = H \cup {c} BY <1>3, <2>1
      <3> QED BY <1>2, <1>7, <2>1, <3>1
    <2>2. CASE call'[c].at \notin {"acquire", "admitted"}
      <3>1. InHand' = H \ {c} BY <1>3, <2>2
      <3>2. CASE c \in H BY <1>2, <1>7, <2>2, <3>1, <3>2
      <3>3. CASE c \notin H
        <4>1. InHand' = H BY <1>7, <3>1, <3>3
        <4>2. Cardinality(InHand') = Cardinality(H) BY <4>1
        <4> QED BY <1>2, <1>7, <2>2, <3>3, <4>2
      <3> QED BY <3>2, <3>3
    <2> QED BY <2>1, <2>2
  <1>9. /\ call'[c].at # "admitted" => Cardinality(Admitted') <= Cardinality(A)
        /\ Cardinality(Admitted') <= Cardinality(A) + 1
        /\ /\ call[c].at = "admitted"
           /\ call'[c].at # "admitted"
           => Cardinality(Admitted') = Cardinality(A) - 1
    <2>1. CASE call'[c].at = "admitted"
      <3>1. Admitted' = A \cup {c} BY <1>3, <2>1
      <3>2. Cardinality(Admitted') = Cardinality(A \cup {c}) BY <3>1
      <3>3. Cardinality(A \cup {c}) \in {Cardinality(A), Cardinality(A) + 1} BY <1>10
      <3> QED BY <1>10, <2>1, <3>2, <3>3
    <2>2. CASE call'[c].at # "admitted"
      <3>1. Admitted' = A \ {c} BY <1>3, <2>2
      <3>2. CASE c \in A BY <1>2, <1>10, <2>2, <3>1, <3>2
      <3>3. CASE c \notin A
        <4>1. Admitted' = A BY <1>10, <3>1, <3>3
        <4>2. Cardinality(Admitted') = Cardinality(A) BY <4>1
        <4> QED BY <1>2, <1>10, <2>2, <3>3, <4>2
      <3> QED BY <3>2, <3>3
    <2> QED BY <2>1, <2>2
  <1> QED BY <1>6, <1>8, <1>9 DEF H, A
-----------------------------------------------------------------------------
(* What an action that leaves a part of the state alone keeps.             *)
LEMMA KeepsWindow ==
  ASSUME Parameters, IInv, UNCHANGED <<rate, window, served, blind, peak>>,
         Cardinality(Admitted') \in Nat, Cardinality(Admitted') <= Cardinality(Admitted)
  PROVE  WindowCovers'
  <1>1. Cardinality(Admitted) \in Nat /\ window \in Nat /\ served \in Nat /\ peak \in Nat
    BY Counts DEF IInv, TypeOK, Parameters
  <1> QED BY <1>1 DEF IInv, WindowCovers

LEMMA KeepsTrip ==
  ASSUME Parameters, IInv, UNCHANGED <<state, after>>,
         Cardinality(InHand') \in Nat, Cardinality(InHand') <= Cardinality(InHand)
  PROVE  TripBounded'
  <1>1. Cardinality(InHand) \in Nat /\ Cardinality(Callers) \in Nat /\ after \in Nat
    BY Counts DEF IInv, TypeOK
  <1> QED BY <1>1 DEF IInv, TripBounded

LEMMA ClosedTrip ==
  ASSUME Parameters, after' = 0,
         Cardinality(InHand') \in Nat, Cardinality(InHand') <= Cardinality(Callers)
  PROVE  TripBounded'
  BY Counts DEF TripBounded

LEMMA BeginStep == ASSUME Parameters, IInv, NEW c \in Callers, Begin(c) PROVE IInv'
  <1>1. UNCHANGED <<breaker, limiter, provider, history>> /\ Go(c, "check") BY DEF Begin
  <1>2. /\ call' \in [Callers -> Calls] /\ call'[c].at = "check"
        /\ \A d \in Callers \ {c} : call'[d] = call[d]
    BY <1>1, GoCalls DEF IInv, Places
  <1>3. TypeOK' BY <1>1, <1>2 DEF IInv, TypeOK, breaker, limiter, provider, history
  <1>4. /\ Cardinality(InHand') \in Nat /\ Cardinality(InHand') <= Cardinality(InHand)
        /\ Cardinality(Admitted') \in Nat /\ Cardinality(Admitted') <= Cardinality(Admitted)
    BY <1>2, InHandCounts
  <1>5. WindowCovers' BY <1>1, <1>4, KeepsWindow DEF limiter, provider, history
  <1>6. TripBounded' BY <1>1, <1>4, KeepsTrip DEF breaker, history
  <1> QED BY <1>1, <1>3, <1>5, <1>6 DEF IInv, EstimateFits, limiter, history

LEMMA CheckStep == ASSUME Parameters, IInv, NEW c \in Callers, Check(c) PROVE IInv'
  <1>1. /\ UNCHANGED <<failures, cooled, limiter, provider, blind, peak, largest>> /\ At(c, "check")
        /\ after' = IF state' = "open" THEN after ELSE 0
    BY DEF Check
  <1>2. \/ Allowed /\ state' = Probing /\ Go(c, "acquire")
        \/ ~Allowed /\ state' = state /\ Raise(c)
    BY DEF Check
  <1>3. /\ call' \in [Callers -> Calls]
        /\ \A d \in Callers \ {c} : call'[d] = call[d]
        /\ \/ Allowed /\ call'[c].at = "acquire" /\ state' = Probing
           \/ ~Allowed /\ call'[c].at = "idle" /\ state' = state
    <2>1. CASE Allowed BY <1>2, <2>1, GoCalls DEF IInv, Places
    <2>2. CASE ~Allowed BY <1>2, <2>2, RaiseCalls DEF IInv
    <2> QED BY <2>1, <2>2
  <1>4. /\ state' \in {"closed", "open", "half_open"}
        /\ state' = "closed" <=> state = "closed"
        /\ state' = "open" => state = "open" /\ call'[c].at = "idle"
    BY <1>3 DEF IInv, TypeOK, Probing, Allowed
  <1>5. after' \in Nat BY <1>1 DEF IInv, TypeOK
  <1>6. TypeOK'
    <2>1. failures' \in Nat /\ (state' = "closed" <=> failures' < Threshold)
      BY <1>1, <1>4 DEF IInv, TypeOK
    <2> QED BY <1>1, <1>3, <1>4, <1>5, <2>1 DEF IInv, TypeOK, limiter, provider
  <1>7. /\ Cardinality(InHand') \in Nat /\ Cardinality(InHand') <= Cardinality(Callers)
        /\ Cardinality(Admitted') \in Nat /\ Cardinality(Admitted') <= Cardinality(Admitted)
        /\ call'[c].at = "idle" => Cardinality(InHand') <= Cardinality(InHand)
    BY <1>3, InHandCounts
  <1>8. WindowCovers' BY <1>1, <1>7, KeepsWindow DEF limiter, provider
  <1>9. TripBounded'
    <2>1. CASE state' = "open"
      <3>1. UNCHANGED <<state, after>> /\ call'[c].at = "idle" BY <1>1, <1>4, <2>1
      <3> QED BY <1>7, <3>1, KeepsTrip
    <2>2. CASE state' # "open"
      <3>1. after' = 0 BY <1>1, <2>2
      <3> QED BY <1>7, <3>1, ClosedTrip
    <2> QED BY <2>1, <2>2
  <1> QED BY <1>1, <1>6, <1>8, <1>9 DEF IInv, EstimateFits, limiter, history

LEMMA PeekStep == ASSUME Parameters, IInv, Peek PROVE IInv'
  <1>1. /\ UNCHANGED <<failures, cooled, call, limiter, provider, blind, peak, largest>>
        /\ state = "open" /\ state' = "half_open" /\ after' = 0
    BY DEF Peek, Probing
  <1>2. InHand' = InHand /\ Admitted' = Admitted BY <1>1 DEF InHand, Admitted, At
  <1>3. TypeOK'
    <2>1. failures' \in Nat /\ (state' = "closed" <=> failures' < Threshold)
      BY <1>1 DEF IInv, TypeOK
    <2> QED BY <1>1, <2>1 DEF IInv, TypeOK, limiter, provider
  <1>4. WindowCovers' BY <1>1, <1>2, Counts, KeepsWindow DEF limiter, provider
  <1>5. TripBounded' BY <1>1, <1>2, Counts, ClosedTrip
  <1> QED BY <1>1, <1>3, <1>4, <1>5 DEF IInv, EstimateFits, limiter, history

LEMMA AcquireStep == ASSUME Parameters, IInv, NEW c \in Callers, Acquire(c) PROVE IInv'
  <1>1. /\ UNCHANGED <<breaker, rate, tokens, estimate, provider, peak, largest, after>>
        /\ At(c, "acquire") /\ Go(c, "admitted")
        /\ rate.requests = 0 \/ window < rate.requests
        /\ window' = window + 1 \/ (rate.requests = 0 /\ window' = window)
        /\ blind' = (blind \/ rate.requests = 0)
    BY DEF Acquire, Room
  <1>2. /\ call' \in [Callers -> Calls] /\ call'[c].at = "admitted" /\ call[c].at = "acquire"
        /\ \A d \in Callers \ {c} : call'[d] = call[d]
    BY <1>1, GoCalls DEF IInv, Places, At
  <1>3. /\ window' \in Nat /\ window \in Nat /\ peak \in Nat /\ served \in Nat
        /\ rate.requests \in Nat /\ rate.requests <= peak
    BY <1>1, RateTyped DEF IInv, TypeOK, WindowCovers
  <1>4. TypeOK'
    <2>1. blind' \in BOOLEAN BY <1>1
    <2> QED BY <1>1, <1>2, <1>3, <2>1 DEF IInv, TypeOK, breaker, provider
  <1>5. /\ Cardinality(InHand') \in Nat /\ Cardinality(InHand') <= Cardinality(InHand)
        /\ Cardinality(Admitted') \in Nat /\ Cardinality(Admitted') <= Cardinality(Admitted) + 1
    BY <1>2, InHandCounts
  <1>6. WindowCovers'
    <2>1. UNCHANGED <<rate, peak, served>> BY <1>1 DEF provider
    <2>2. CASE blind \/ rate.requests = 0
      <3>1. blind' BY <1>1, <2>2
      <3> QED BY <1>3, <2>1, <3>1 DEF WindowCovers
    <2>3. CASE ~blind /\ rate.requests # 0
      <3>1. served + Cardinality(Admitted) <= window BY <2>3 DEF IInv, WindowCovers
      <3>2. window < rate.requests /\ window' = window + 1 BY <1>1, <2>3
      <3>3. Cardinality(Admitted) \in Nat BY Counts
      <3>4. window' <= peak /\ served + Cardinality(Admitted') <= window'
        BY <1>3, <1>5, <3>1, <3>2, <3>3
      <3> QED BY <1>3, <2>1, <3>4 DEF WindowCovers
    <2> QED BY <2>2, <2>3
  <1>7. TripBounded' BY <1>1, <1>5, KeepsTrip DEF breaker
  <1> QED BY <1>1, <1>4, <1>6, <1>7 DEF IInv, EstimateFits

LEMMA AcquireTimesOutStep ==
  ASSUME Parameters, IInv, NEW c \in Callers, AcquireTimesOut(c) PROVE IInv'
  <1>1. UNCHANGED <<breaker, limiter, provider, history>> /\ Raise(c) BY DEF AcquireTimesOut
  <1>2. /\ call' \in [Callers -> Calls] /\ call'[c].at = "idle"
        /\ \A d \in Callers \ {c} : call'[d] = call[d]
    BY <1>1, RaiseCalls DEF IInv
  <1>3. TypeOK' BY <1>1, <1>2 DEF IInv, TypeOK, breaker, limiter, provider, history
  <1>4. /\ Cardinality(InHand') \in Nat /\ Cardinality(InHand') <= Cardinality(InHand)
        /\ Cardinality(Admitted') \in Nat /\ Cardinality(Admitted') <= Cardinality(Admitted)
    BY <1>2, InHandCounts
  <1>5. WindowCovers' BY <1>1, <1>4, KeepsWindow DEF limiter, provider, history
  <1>6. TripBounded' BY <1>1, <1>4, KeepsTrip DEF breaker, history
  <1> QED BY <1>1, <1>3, <1>5, <1>6 DEF IInv, EstimateFits, limiter, history

(* The provider counts what was admitted: from one side of the sum to the  *)
(* other, and, behind an open breaker, from those in hand to those after.  *)
LEMMA ReceiveStep == ASSUME Parameters, IInv, NEW c \in Callers, Receive(c) PROVE IInv'
  <1>1. /\ UNCHANGED <<breaker, limiter, healthy, blind, peak, largest>> /\ call[c].at = "admitted"
        /\ served' = served + 1
        /\ call' = [call EXCEPT ![c] = [call[c] EXCEPT !.at = "sent", !.used = served + 1]]
        /\ after' = IF state = "open" THEN after + 1 ELSE 0
    BY DEF Receive, At
  <1>2. served' \in Nat /\ after' \in Nat /\ served \in Nat /\ after \in Nat
    BY <1>1 DEF IInv, TypeOK
  <1>3. /\ call' \in [Callers -> Calls] /\ call'[c].at = "sent"
        /\ \A d \in Callers \ {c} : call'[d] = call[d]
    <2> DEFINE g == [call[c] EXCEPT !.at = "sent"]
               r == [g EXCEPT !.used = served + 1]
    <2>1. g \in Calls /\ g.at = "sent" BY DEF IInv, TypeOK, Calls, Places
    <2>2. call' = [call EXCEPT ![c] = r] BY <1>1
    <2> HIDE DEF g
    <2>3. r \in Calls /\ r.at = "sent" BY <1>1, <1>2, <2>1 DEF Calls
    <2> HIDE DEF r
    <2> QED BY <2>2, <2>3 DEF IInv, TypeOK
  <1>4. TypeOK' BY <1>1, <1>2, <1>3 DEF IInv, TypeOK, breaker, limiter
  <1>5. /\ Cardinality(InHand') \in Nat /\ Cardinality(InHand') = Cardinality(InHand) - 1
        /\ Cardinality(Admitted') \in Nat /\ Cardinality(Admitted') = Cardinality(Admitted) - 1
        /\ Cardinality(InHand') <= Cardinality(Callers)
    BY <1>1, <1>3, InHandCounts
  <1>6. Cardinality(InHand) \in Nat /\ Cardinality(Admitted) \in Nat /\ Cardinality(Callers) \in Nat
    BY Counts
  <1>7. WindowCovers'
    <2>1. rate'.requests <= peak' BY <1>1 DEF IInv, WindowCovers, limiter
    <2>2. CASE blind BY <1>1, <2>1, <2>2 DEF WindowCovers
    <2>3. CASE ~blind
      <3>1. window <= peak /\ served + Cardinality(Admitted) <= window
        BY <2>3 DEF IInv, WindowCovers
      <3>2. served' + Cardinality(Admitted') = served + Cardinality(Admitted) BY <1>1, <1>2, <1>5, <1>6
      <3> QED BY <1>1, <2>1, <3>1, <3>2 DEF WindowCovers, limiter
    <2> QED BY <2>2, <2>3
  <1>8. TripBounded'
    <2>1. CASE state = "open"
      <3>1. after + Cardinality(InHand) <= Cardinality(Callers) BY DEF IInv, TripBounded
      <3>2. after' + Cardinality(InHand') = after + Cardinality(InHand)
        BY <1>1, <1>2, <1>5, <1>6, <2>1
      <3>3. state' = "open" BY <1>1, <2>1 DEF breaker
      <3> QED BY <3>1, <3>2, <3>3 DEF TripBounded
    <2>2. CASE state # "open" BY <1>1, <1>5, <2>2, ClosedTrip
    <2> QED BY <2>1, <2>2
  <1> QED BY <1>1, <1>4, <1>7, <1>8 DEF IInv, EstimateFits, limiter, history

LEMMA CappedType == ASSUME Parameters, NEW n \in Nat PROVE Capped(n) \in 0 .. TokenBound
  BY SMT DEF Capped, Parameters

LEMMA SucceedStep == ASSUME Parameters, IInv, NEW c \in Callers, Succeed(c) PROVE IInv'
  <1>1. /\ UNCHANGED <<cooled, provider>> /\ Raise(c) /\ call[c].at = "sent"
        /\ window' \in {Trimmed(c), window} /\ rate' \in Rates
        /\ blind' = (blind \/ window' < served + Cardinality(Admitted))
        /\ peak' = Larger(peak, rate'.requests)
        /\ state' = "closed" /\ failures' = 0 /\ after' = 0
    BY DEF Succeed, At, Headers, IInv, TypeOK
  <1>2. PICK i \in Inputs : /\ tokens' = Capped(tokens + i) /\ estimate' = Estimated(i)
                           /\ largest' = Larger(largest, i)
    BY DEF Succeed
  <1>3. estimate' \in Nat /\ largest' \in Nat /\ EstimateFits'
    BY <1>2, EstimateIsMean DEF IInv, TypeOK, EstimateFits
  <1>12. /\ peak' \in Nat /\ peak <= peak' /\ rate'.requests <= peak' /\ peak \in Nat
    BY <1>1, RateTyped, SMT DEF Larger, IInv, TypeOK
  <1>4. tokens' \in 0 .. TokenBound
    <2>1. tokens + i \in Nat BY DEF IInv, TypeOK, Parameters
    <2> QED BY <1>2, <2>1, CappedType
  <1>5. /\ call' \in [Callers -> Calls] /\ call'[c].at = "idle"
        /\ \A d \in Callers \ {c} : call'[d] = call[d]
    BY <1>1, RaiseCalls DEF IInv
  <1>6. window' \in Nat /\ window' <= window
    <2>1. call[c].used \in Nat /\ Drift \in Nat /\ window \in Nat
      BY DEF IInv, TypeOK, Calls, Parameters
    <2> QED BY <1>1, <2>1 DEF Trimmed
  <1>7. blind' \in BOOLEAN /\ cooled' \in BOOLEAN /\ healthy' \in BOOLEAN
    <2>1. cooled' = cooled /\ healthy' = healthy BY <1>1 DEF provider
    <2>2. cooled \in BOOLEAN /\ healthy \in BOOLEAN /\ blind \in BOOLEAN BY DEF IInv, TypeOK
    <2>3. blind' \in BOOLEAN BY <1>1, <2>2, Zenon
    <2> QED BY <2>1, <2>2, <2>3
  <1>8. TypeOK'
    <2>1. failures' \in Nat /\ (state' = "closed" <=> failures' < Threshold)
      BY <1>1 DEF Parameters
    <2>2. served' \in Nat /\ after' \in Nat BY <1>1 DEF provider, IInv, TypeOK
    <2>3. state' \in {"closed", "open", "half_open"} BY <1>1
    <2> QED BY <1>1, <1>3, <1>4, <1>5, <1>6, <1>7, <1>12, <2>1, <2>2, <2>3 DEF TypeOK
  <1>9. /\ Cardinality(InHand') \in Nat /\ Cardinality(InHand') <= Cardinality(Callers)
        /\ Cardinality(Admitted') \in Nat /\ Cardinality(Admitted') <= Cardinality(Admitted)
    BY <1>5, InHandCounts
  <1>10. WindowCovers'
    <2>1. rate'.requests <= peak' BY <1>12
    <2>2. CASE blind' BY <2>1, <2>2 DEF WindowCovers
    <2>3. CASE ~blind'
      <3>1. ~(window' < served + Cardinality(Admitted)) /\ ~blind BY <1>1, <2>3
      <3>4. window \in Nat /\ window <= peak BY <3>1 DEF IInv, TypeOK, WindowCovers
      <3>5. window' <= peak' BY <1>6, <1>12, <3>4
      <3>2. served \in Nat /\ served' = served /\ Cardinality(Admitted) \in Nat
        BY <1>1, Counts DEF IInv, TypeOK, provider
      <3>3. served' + Cardinality(Admitted') <= window' BY <1>6, <1>9, <3>1, <3>2
      <3> QED BY <2>1, <3>3, <3>5 DEF WindowCovers
    <2> QED BY <2>2, <2>3
  <1>11. TripBounded' BY <1>1, <1>9, ClosedTrip
  <1> QED BY <1>3, <1>8, <1>10, <1>11 DEF IInv

LEMMA FailStep == ASSUME Parameters, IInv, NEW c \in Callers, Fail(c) PROVE IInv'
  <1>1. /\ UNCHANGED <<limiter, provider, blind, peak, largest>> /\ Again(c)
        /\ failures' = IF failures < Threshold THEN failures + 1 ELSE failures
        /\ state' = Opened /\ cooled' = FALSE
        /\ after' = IF state' = "open" THEN after ELSE 0
    BY DEF Fail
  <1>2. /\ call' \in [Callers -> Calls] /\ call'[c].at \in {"check", "idle"}
        /\ \A d \in Callers \ {c} : call'[d] = call[d]
    BY <1>1, AgainCalls DEF IInv
  <1>3. TypeOK'
    <2>1. /\ failures \in Nat /\ Threshold \in Nat /\ (state = "closed" <=> failures < Threshold)
          /\ state \in {"closed", "open", "half_open"} /\ after \in Nat
      BY DEF IInv, TypeOK, Parameters
    <2>2. /\ failures' \in Nat /\ (state' = "closed" <=> failures' < Threshold)
          /\ state' \in {"closed", "open", "half_open"}
      BY <1>1, <2>1 DEF Opened
    <2>3. after' \in Nat BY <1>1, <2>1
    <2>4. cooled' \in BOOLEAN BY <1>1
    <2> QED BY <1>1, <1>2, <2>2, <2>3, <2>4 DEF IInv, TypeOK, limiter, provider
  <1>4. /\ Cardinality(InHand') \in Nat /\ Cardinality(InHand') <= Cardinality(InHand)
        /\ Cardinality(Admitted') \in Nat /\ Cardinality(Admitted') <= Cardinality(Admitted)
        /\ Cardinality(InHand') <= Cardinality(Callers)
    BY <1>2, InHandCounts
  <1>5. WindowCovers' BY <1>1, <1>4, KeepsWindow DEF limiter, provider
  <1>6. TripBounded'
    <2>1. CASE state' = "open"
      <3>1. after + Cardinality(InHand) <= Cardinality(Callers) BY DEF IInv, TripBounded
      <3>2. after' = after /\ after \in Nat BY <1>1, <2>1 DEF IInv, TypeOK
      <3>3. Cardinality(InHand) \in Nat /\ Cardinality(Callers) \in Nat BY Counts
      <3>4. after' + Cardinality(InHand') <= Cardinality(Callers) BY <1>4, <3>1, <3>2, <3>3
      <3> QED BY <2>1, <3>4 DEF TripBounded
    <2>2. CASE state' # "open"
      <3>1. after' = 0 BY <1>1, <2>2
      <3> QED BY <1>4, <3>1, ClosedTrip
    <2> QED BY <2>1, <2>2
  <1> QED BY <1>1, <1>3, <1>5, <1>6 DEF IInv, EstimateFits, limiter, history

LEMMA RefuseStep == ASSUME Parameters, IInv, NEW c \in Callers, Refuse(c) PROVE IInv'
  <1>1. /\ UNCHANGED <<breaker, rate, estimate, provider, history>> /\ Again(c)
        /\ window' = Fuller(window, rate.requests) /\ tokens' = Fuller(tokens, rate.tokens)
    BY DEF Refuse
  <1>2. /\ call' \in [Callers -> Calls] /\ call'[c].at \in {"check", "idle"}
        /\ \A d \in Callers \ {c} : call'[d] = call[d]
    BY <1>1, AgainCalls DEF IInv
  <1>3. /\ window \in Nat /\ served \in Nat /\ peak \in Nat
        /\ rate.requests \in Nat /\ rate.requests <= peak
        /\ rate.tokens \in Nat /\ rate.tokens < TokenBound /\ TokenBound \in Nat
    BY RateTyped DEF IInv, TypeOK, WindowCovers, Parameters
  <1>4. window' \in Nat /\ window <= window' /\ (window <= peak => window' <= peak)
    BY <1>1, <1>3, SMT DEF Fuller
  <1>5. tokens' \in 0 .. TokenBound
    <2>1. tokens \in 0 .. TokenBound BY DEF IInv, TypeOK
    <2> QED BY SMT, <1>1, <1>3, <2>1 DEF Fuller
  <1>6. TypeOK' BY <1>1, <1>2, <1>4, <1>5 DEF IInv, TypeOK, breaker, provider, history
  <1>7. /\ Cardinality(InHand') \in Nat /\ Cardinality(InHand') <= Cardinality(InHand)
        /\ Cardinality(Admitted') \in Nat /\ Cardinality(Admitted') <= Cardinality(Admitted)
    BY <1>2, InHandCounts
  <1>8. WindowCovers'
    <2>1. UNCHANGED <<rate, served, blind, peak>> BY <1>1 DEF provider, history
    <2>2. CASE blind BY <1>3, <2>1, <2>2 DEF WindowCovers
    <2>3. CASE ~blind
      <3>1. window <= peak /\ served + Cardinality(Admitted) <= window
        BY <2>3 DEF IInv, WindowCovers
      <3>2. Cardinality(Admitted) \in Nat BY Counts
      <3>3. served' + Cardinality(Admitted') <= window' BY <1>3, <1>4, <1>7, <2>1, <3>1, <3>2
      <3> QED BY <1>3, <1>4, <2>1, <3>1, <3>3 DEF WindowCovers
    <2> QED BY <2>2, <2>3
  <1>9. TripBounded' BY <1>1, <1>7, KeepsTrip DEF breaker, history
  <1> QED BY <1>1, <1>6, <1>8, <1>9 DEF IInv, EstimateFits, history

LEMMA RejectStep == ASSUME Parameters, IInv, NEW c \in Callers, Reject(c) PROVE IInv'
  <1>1. UNCHANGED <<breaker, limiter, provider, history>> /\ (Raise(c) \/ Again(c)) BY DEF Reject
  <1>2. /\ call' \in [Callers -> Calls] /\ call'[c].at \in {"check", "idle"}
        /\ \A d \in Callers \ {c} : call'[d] = call[d]
    <2>1. CASE Raise(c) BY <2>1, RaiseCalls DEF IInv
    <2>2. CASE Again(c) BY <2>2, AgainCalls DEF IInv
    <2> QED BY <1>1, <2>1, <2>2
  <1>3. TypeOK' BY <1>1, <1>2 DEF IInv, TypeOK, breaker, limiter, provider, history
  <1>4. /\ Cardinality(InHand') \in Nat /\ Cardinality(InHand') <= Cardinality(InHand)
        /\ Cardinality(Admitted') \in Nat /\ Cardinality(Admitted') <= Cardinality(Admitted)
    BY <1>2, InHandCounts
  <1>5. WindowCovers' BY <1>1, <1>4, KeepsWindow DEF limiter, provider, history
  <1>6. TripBounded' BY <1>1, <1>4, KeepsTrip DEF breaker, history
  <1> QED BY <1>1, <1>3, <1>5, <1>6 DEF IInv, EstimateFits, limiter, history

LEMMA TickStep == ASSUME Parameters, IInv, Tick PROVE IInv'
  <1>1. /\ UNCHANGED <<breaker, call, rate, estimate, healthy, largest, after>>
        /\ window' = 0 /\ tokens' = 0 /\ served' = 0 /\ blind' = (Admitted # {})
        /\ peak' = rate.requests
    BY DEF Tick
  <1>2. InHand' = InHand /\ Admitted' = Admitted BY <1>1 DEF InHand, Admitted, At
  <1>3. TypeOK'
    <2>1. tokens' \in 0 .. TokenBound /\ peak' \in Nat BY <1>1, RateTyped DEF Parameters, IInv, TypeOK
    <2>2. blind' \in BOOLEAN BY <1>1
    <2>3. window' \in Nat /\ served' \in Nat BY <1>1
    <2> QED BY <1>1, <2>1, <2>2, <2>3 DEF IInv, TypeOK, breaker
  <1>4. WindowCovers'
    <2>1. rate'.requests <= peak' /\ window' <= peak' BY <1>1, RateTyped DEF IInv, TypeOK
    <2>2. CASE Admitted # {} BY <1>1, <2>1, <2>2 DEF WindowCovers
    <2>3. CASE Admitted = {}
      <3>1. Cardinality(Admitted') = 0 BY <1>2, <2>3, FS_EmptySet
      <3> QED BY <1>1, <2>1, <3>1 DEF WindowCovers
    <2> QED BY <2>2, <2>3
  <1>5. TripBounded' BY <1>1, <1>2, Counts, KeepsTrip DEF breaker
  <1> QED BY <1>1, <1>3, <1>4, <1>5 DEF IInv, EstimateFits

LEMMA CoolStep == ASSUME Parameters, IInv, Cool PROVE IInv'
  <1>1. UNCHANGED <<state, failures, call, limiter, provider, history>> /\ cooled' = TRUE BY DEF Cool
  <1>2. InHand' = InHand /\ Admitted' = Admitted BY <1>1 DEF InHand, Admitted, At
  <1>3. TypeOK'
    <2>1. cooled' \in BOOLEAN BY <1>1
    <2> QED BY <1>1, <2>1 DEF IInv, TypeOK, limiter, provider, history
  <1>4. WindowCovers' BY <1>1, <1>2, Counts, KeepsWindow DEF limiter, provider, history
  <1>5. TripBounded' BY <1>1, <1>2, Counts, KeepsTrip DEF history
  <1> QED BY <1>1, <1>3, <1>4, <1>5 DEF IInv, EstimateFits, limiter, history

LEMMA TurnStep == ASSUME Parameters, IInv, Turn PROVE IInv'
  <1>1. UNCHANGED <<breaker, call, limiter, served, history>> /\ healthy' = ~healthy BY DEF Turn
  <1>2. InHand' = InHand /\ Admitted' = Admitted BY <1>1 DEF InHand, Admitted, At
  <1>3. TypeOK'
    <2>1. healthy' \in BOOLEAN BY <1>1
    <2> QED BY <1>1, <2>1 DEF IInv, TypeOK, breaker, limiter, history
  <1>4. WindowCovers' BY <1>1, <1>2, Counts, KeepsWindow DEF limiter, history
  <1>5. TripBounded' BY <1>1, <1>2, Counts, KeepsTrip DEF breaker, history
  <1> QED BY <1>1, <1>3, <1>4, <1>5 DEF IInv, EstimateFits, limiter, history

LEMMA StutterStep == ASSUME Parameters, IInv, UNCHANGED vars PROVE IInv'
  <1>1. UNCHANGED <<breaker, call, limiter, provider, history>> BY DEF vars
  <1>2. InHand' = InHand /\ Admitted' = Admitted BY <1>1 DEF InHand, Admitted, At
  <1>3. TypeOK' BY <1>1 DEF IInv, TypeOK, breaker, limiter, provider, history
  <1>4. WindowCovers' BY <1>1, <1>2, Counts, KeepsWindow DEF limiter, provider, history
  <1>5. TripBounded' BY <1>1, <1>2, Counts, KeepsTrip DEF breaker, history
  <1> QED BY <1>1, <1>3, <1>4, <1>5 DEF IInv, EstimateFits, limiter, history

LEMMA NextIInv == ASSUME Parameters PROVE IInv /\ [Next]_vars => IInv'
  <1> SUFFICES ASSUME IInv, [Next]_vars PROVE IInv' OBVIOUS
  <1>1. ASSUME NEW c \in Callers, Begin(c) PROVE IInv' BY <1>1, BeginStep
  <1>2. ASSUME NEW c \in Callers, Check(c) PROVE IInv' BY <1>2, CheckStep
  <1>3. ASSUME NEW c \in Callers, Acquire(c) PROVE IInv' BY <1>3, AcquireStep
  <1>4. ASSUME NEW c \in Callers, AcquireTimesOut(c) PROVE IInv' BY <1>4, AcquireTimesOutStep
  <1>5. ASSUME NEW c \in Callers, Receive(c) PROVE IInv' BY <1>5, ReceiveStep
  <1>6. ASSUME NEW c \in Callers, Succeed(c) PROVE IInv' BY <1>6, SucceedStep
  <1>7. ASSUME NEW c \in Callers, Fail(c) PROVE IInv' BY <1>7, FailStep
  <1>8. ASSUME NEW c \in Callers, Refuse(c) PROVE IInv' BY <1>8, RefuseStep
  <1>9. ASSUME NEW c \in Callers, Reject(c) PROVE IInv' BY <1>9, RejectStep
  <1>10. CASE Peek BY <1>10, PeekStep
  <1>11. CASE Tick BY <1>11, TickStep
  <1>12. CASE Cool BY <1>12, CoolStep
  <1>13. CASE Turn BY <1>13, TurnStep
  <1>14. CASE UNCHANGED vars BY <1>14, StutterStep
  <1> QED
    BY <1>1, <1>2, <1>3, <1>4, <1>5, <1>6, <1>7, <1>8, <1>9, <1>10, <1>11, <1>12, <1>13, <1>14
    DEF Next

-----------------------------------------------------------------------------
(* Type correctness: among other things the breaker is closed exactly      *)
(* while its failures are below the threshold, and the counts of the       *)
(* windows are numbers.                                                    *)
THEOREM CallsTyped == ASSUME Parameters PROVE Spec => []TypeOK
  <1>1. Init => IInv BY InitIInv
  <1>2. IInv /\ [Next]_vars => IInv' BY NextIInv
  <1>3. IInv => TypeOK BY DEF IInv
  <1> QED BY <1>1, <1>2, <1>3, PTL DEF Spec

(* For any number of threads and attempts, and whatever limits headers     *)
(* bring, the provider never has more requests of a minute than the        *)
(* highest limit of that minute, unless the window went blind              *)
(* (rate_limiter.acquire, update_from_headers).                            *)
THEOREM LimitKept == ASSUME Parameters PROVE Spec => []WithinLimit
  <1>1. Init => IInv BY InitIInv
  <1>2. IInv /\ [Next]_vars => IInv' BY NextIInv
  <1>3. IInv => WithinLimit
    <2> SUFFICES ASSUME IInv, ~blind PROVE served <= peak BY DEF WithinLimit
    <2>1. served \in Nat /\ window \in Nat /\ peak \in Nat BY DEF IInv, TypeOK, Parameters
    <2>2. window <= peak /\ served + Cardinality(Admitted) <= window BY DEF IInv, WindowCovers
    <2>3. Cardinality(Admitted) \in Nat BY Counts
    <2> QED BY <2>1, <2>2, <2>3
  <1> QED BY <1>1, <1>2, <1>3, PTL DEF Spec

(* For any number of threads and attempts, an open breaker lets through at *)
(* most one request of each thread, the one it had in hand (allow_request  *)
(* is asked before every attempt of anthropic.call).                       *)
THEOREM TripHolds == ASSUME Parameters PROVE Spec => []FewAfterTrip
  <1>1. Init => IInv BY InitIInv
  <1>2. IInv /\ [Next]_vars => IInv' BY NextIInv
  <1>3. IInv => FewAfterTrip
    <2> SUFFICES ASSUME IInv PROVE after <= Cardinality(Callers) BY DEF FewAfterTrip
    <2>1. after \in Nat /\ after + Cardinality(InHand) <= Cardinality(Callers)
      BY DEF IInv, TypeOK, TripBounded
    <2> QED BY <2>1, Counts
  <1> QED BY <1>1, <1>2, <1>3, PTL DEF Spec

(* Whatever limits, answers and refusals come in whatever order, a lock-out *)
(* needs a call with more tokens than the limit that holds: the estimate is *)
(* never above the largest call, so an empty window admits any other        *)
(* (rate_limiter.record, acquire).                                          *)
THEOREM OnlyLargeCallsLockOut == ASSUME Parameters PROVE Spec => []EmptyWindowAdmits
  <1>1. Init => IInv BY InitIInv
  <1>2. IInv /\ [Next]_vars => IInv' BY NextIInv
  <1>3. IInv => EmptyWindowAdmits
    <2> SUFFICES ASSUME IInv, window = 0, tokens = 0, ~(rate.tokens # 0 /\ largest > rate.tokens)
                 PROVE  Room
      BY DEF EmptyWindowAdmits
    <2>1. /\ rate.requests \in Nat /\ rate.tokens \in Nat
          /\ estimate \in Nat /\ largest \in Nat /\ estimate <= largest
      BY RateTyped DEF IInv, TypeOK, EstimateFits
    <2>2. rate.requests = 0 \/ window < rate.requests BY <2>1
    <2>3. rate.tokens = 0 \/ tokens + estimate <= rate.tokens BY <2>1
    <2> QED BY <2>2, <2>3 DEF Room, TokensFit
  <1> QED BY <1>1, <1>2, <1>3, PTL DEF Spec
=============================================================================
