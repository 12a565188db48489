------------------------------ MODULE ApiCalls ------------------------------
(***************************************************************************)
(* Calls of a paid provider (agent/providers/anthropic.py, call) by the    *)
(* agent threads, through the circuit breaker of the provider              *)
(* (agent/circuit_breaker.py) and the sliding windows of the model         *)
(* (agent/rate_limiter.py).  Both objects are locked for each of their     *)
(* methods, and for no longer.                                             *)
(***************************************************************************)
EXTENDS Integers, FiniteSets

CONSTANTS
    Callers,        \* threads that call
    Threshold,      \* circuit_breaker_threshold
    Attempts,       \* retry_max_attempts
    FirstRate,      \* effective limits of the configuration (get_rpm_limit,
                    \* get_itpm_limit), 0 for none
    Rates,          \* and those the headers may bring, less the headroom
    Drift,          \* excess over the provider's count that is tolerated (2)
    Inputs,         \* input tokens of a call
    FirstEstimate,  \* next_estimate of a new bucket
    TokenBound      \* bound on the tokens counted, above every limit

Parameters ==
    /\ IsFiniteSet(Callers)
    /\ Threshold \in Nat \ {0} /\ Attempts \in Nat \ {0}
    /\ TokenBound \in Nat \ {0} /\ Rates \subseteq [requests : Nat, tokens : 0 .. TokenBound - 1]
    /\ FirstRate \in Rates
    /\ Drift \in Nat /\ Inputs \subseteq Nat /\ FirstEstimate \in Nat

VARIABLES
    state, failures,    \* the breaker
    cooled,             \* recovery_timeout has passed since the last failure
    call,               \* each caller: where it is, its attempt, and the
                        \* requests used that the header of its answer shows
    rate,               \* the limiter's limits
    window,             \* requests in its window
    tokens, estimate,   \* tokens in its window; those the next call may need
    served,             \* requests of this minute the provider received
    healthy,            \* the provider answers
    blind,              \* history: a received or admitted request is not in
                        \* the window, or no limit held when it was admitted
    peak,               \* history: the highest limit of requests this minute
    largest,            \* history: the tokens of the largest call so far
    after               \* history: requests received since the breaker opened

breaker  == <<state, failures, cooled>>
limiter  == <<rate, window, tokens, estimate>>
provider == <<served, healthy>>
history  == <<blind, peak, largest, after>>
vars     == <<breaker, call, limiter, provider, history>>

Idle == [at |-> "idle", n |-> 0, used |-> 0]

Places == {"idle", "check", "acquire", "admitted", "sent"}
Calls  == [at : Places, n : 0 .. Attempts - 1, used : Nat]

TypeOK ==
    /\ state \in {"closed", "open", "half_open"}
    /\ failures \in Nat /\ (state = "closed" <=> failures < Threshold)
    /\ cooled \in BOOLEAN /\ healthy \in BOOLEAN /\ blind \in BOOLEAN
    /\ call \in [Callers -> Calls]
    /\ rate \in Rates /\ window \in Nat /\ tokens \in 0 .. TokenBound /\ estimate \in Nat
    /\ served \in Nat /\ peak \in Nat /\ largest \in Nat /\ after \in Nat

Init ==
    /\ state = "closed" /\ failures = 0 /\ cooled = FALSE
    /\ call = [c \in Callers |-> Idle]
    /\ rate = FirstRate /\ window = 0 /\ tokens = 0 /\ estimate = FirstEstimate
    /\ served = 0 /\ healthy = TRUE
    /\ blind = FALSE /\ peak = FirstRate.requests /\ largest = FirstEstimate /\ after = 0

At(c, place) == call[c].at = place
Admitted     == {c \in Callers : At(c, "admitted")}
Go(c, place) == call' = [call EXCEPT ![c].at = place]
Raise(c)     == call' = [call EXCEPT ![c] = Idle]

(* Round the loop of attempts, or raise last_error.                        *)
UncheckedSlip(c) ==
    call' = [call EXCEPT ![c] = IF @.n + 1 < Attempts
                                THEN [at |-> "acquire", n |-> @.n + 1, used |-> 0] ELSE Idle]
Again(c) ==
    call' = [call EXCEPT ![c] = IF @.n + 1 < Attempts
                                THEN [at |-> "check", n |-> @.n + 1, used |-> 0] ELSE Idle]

Begin(c) ==
    /\ At(c, "idle") /\ Go(c, "check")
    /\ UNCHANGED <<breaker, limiter, provider, history>>

-----------------------------------------------------------------------------
(* allow_request: everyone passes while the breaker is half open.          *)
OneProbeSlip == state = "closed" \/ (state = "open" /\ cooled)
Allowed      == state # "open" \/ cooled
Probing      == IF state = "open" THEN "half_open" ELSE state

Check(c) ==
    /\ At(c, "check")
    /\ \/ Allowed /\ state' = Probing /\ Go(c, "acquire")
       \/ ~Allowed /\ Raise(c) /\ UNCHANGED state
    /\ after' = IF state' = "open" THEN after ELSE 0
    /\ UNCHANGED <<failures, cooled, limiter, provider, blind, peak, largest>>

(* chain.get_model and get_api_url ask the breaker and send nothing.       *)
Peek ==
    /\ state = "open" /\ cooled
    /\ state' = Probing /\ after' = 0
    /\ UNCHANGED <<failures, cooled, call, limiter, provider, blind, peak, largest>>

(* acquire: room in both windows.                                          *)
TokensFit == rate.tokens = 0 \/ tokens + estimate <= rate.tokens
RoomSlip  == (rate.requests = 0 \/ window <= rate.requests) /\ TokensFit
Room      == (rate.requests = 0 \/ window < rate.requests) /\ TokensFit

(* Without any limit it returns at once, unless it was waiting already.    *)
Acquire(c) ==
    /\ At(c, "acquire") /\ Room
    /\ \/ window' = window + 1
       \/ rate.requests = 0 /\ rate.tokens = 0 /\ UNCHANGED window
    /\ blind' = (blind \/ rate.requests = 0)
    /\ Go(c, "admitted")
    /\ UNCHANGED <<breaker, rate, tokens, estimate, provider, peak, largest, after>>

AcquireTimesOut(c) ==
    /\ At(c, "acquire") /\ ~Room
    /\ Raise(c)
    /\ UNCHANGED <<breaker, limiter, provider, history>>

(* The provider counts the request; its answer will say how many it had by *)
(* then.                                                                   *)
Receive(c) ==
    /\ At(c, "admitted")
    /\ served' = served + 1
    /\ call' = [call EXCEPT ![c] = [@ EXCEPT !.at = "sent", !.used = served + 1]]
    /\ after' = IF state = "open" THEN after + 1 ELSE 0
    /\ UNCHANGED <<breaker, limiter, healthy, blind, peak, largest>>

-----------------------------------------------------------------------------
Larger(a, b) == IF b > a THEN b ELSE a

(* update_from_headers drops what the window holds beyond the answer's     *)
(* count, however long the answer took, and takes new limits over.         *)
Trimmed(c) == IF window > call[c].used + Drift THEN call[c].used ELSE window

Headers(c) ==
    \/ window' = Trimmed(c) /\ rate' \in Rates
    \/ UNCHANGED <<window, rate>>

(* Tokens beyond every limit are all one.                                  *)
Capped(count) == IF count > TokenBound THEN TokenBound ELSE count

(* next_estimate = int(0.3 * next_estimate + 0.7 * input_tokens)           *)
EstimatedSlip(input) == (10 * estimate + 7 * input) \div 10
Estimated(input)     == (3 * estimate + 7 * input) \div 10

Succeed(c) ==
    /\ At(c, "sent") /\ healthy
    /\ Headers(c)
    /\ blind' = (blind \/ window' < served + Cardinality(Admitted))
    /\ peak' = Larger(peak, rate'.requests)
    /\ \E input \in Inputs :
          /\ tokens' = Capped(tokens + input) /\ estimate' = Estimated(input)
          /\ largest' = Larger(largest, input)
    /\ state' = "closed" /\ failures' = 0 /\ after' = 0
    /\ Raise(c)
    /\ UNCHANGED <<cooled, provider>>

(* record_failure                                                          *)
Opened == IF state = "half_open" \/ failures + 1 >= Threshold THEN "open" ELSE state

(* A 5xx or a timeout after the provider had the request; a connection     *)
(* refused before.                                                         *)
Fail(c) ==
    /\ \/ At(c, "sent")
       \/ At(c, "admitted")
    /\ ~healthy
    /\ failures' = IF failures < Threshold THEN failures + 1 ELSE failures
    /\ state' = Opened /\ cooled' = FALSE
    /\ after' = IF state' = "open" THEN after ELSE 0
    /\ Again(c)
    /\ UNCHANGED <<limiter, provider, blind, peak, largest>>

Fuller(count, limit) == IF (3 * limit) \div 4 > count THEN (3 * limit) \div 4 ELSE count

(* 429: record_429 fills both windows to three quarters.                   *)
Refuse(c) ==
    /\ At(c, "sent") /\ healthy
    /\ window' = Fuller(window, rate.requests) /\ tokens' = Fuller(tokens, rate.tokens)
    /\ Again(c)
    /\ UNCHANGED <<breaker, rate, estimate, provider, history>>

(* Any other 4xx raises, but for a temperature field no longer known, and  *)
(* so does an answer cut short; the breaker hears of neither.              *)
Reject(c) ==
    /\ At(c, "sent")
    /\ \/ Raise(c)
       \/ healthy /\ Again(c)
    /\ UNCHANGED <<breaker, limiter, provider, history>>

-----------------------------------------------------------------------------
(* A minute passes: both sides forget the requests before it.              *)
Tick ==
    /\ window' = 0 /\ tokens' = 0 /\ served' = 0
    /\ blind' = (Admitted # {}) /\ peak' = rate.requests
    /\ UNCHANGED <<breaker, call, rate, estimate, healthy, largest, after>>

(* recovery_timeout has passed.                                            *)
Cool ==
    /\ state = "open" /\ ~cooled /\ cooled' = TRUE
    /\ UNCHANGED <<state, failures, call, limiter, provider, history>>

Turn ==
    /\ healthy' = ~healthy
    /\ UNCHANGED <<breaker, call, limiter, served, history>>

Next ==
    \/ \E c \in Callers :
          \/ Begin(c) \/ Check(c) \/ Acquire(c) \/ AcquireTimesOut(c) \/ Receive(c)
          \/ Succeed(c) \/ Fail(c) \/ Refuse(c) \/ Reject(c)
    \/ Peek \/ Tick \/ Cool \/ Turn

Spec == Init /\ [][Next]_vars

(* Time passes, some thread that has begun goes on, and a provider that    *)
(* answers does not only refuse.                                           *)
CallGoesOn == \E c \in Callers :
                 \/ Check(c) \/ Acquire(c) \/ AcquireTimesOut(c) \/ Receive(c)
                 \/ Succeed(c) \/ Fail(c) \/ Refuse(c) \/ Reject(c)
Answers    == \E c \in Callers : Succeed(c)

Fairness == WF_vars(Tick) /\ WF_vars(Cool) /\ WF_vars(CallGoesOn) /\ SF_vars(Answers)

(* There is always work that calls.                                        *)
SomeoneCalls == \E c \in Callers : Begin(c)
Calling      == WF_vars(SomeoneCalls)

FairSpec == Spec /\ Fairness /\ Calling

-----------------------------------------------------------------------------
(* Properties                                                              *)

(* The provider never receives more requests in a minute than the limit    *)
(* (the highest of that minute), by retries and parallel threads or around *)
(* a 429, unless an answer older than other requests has cut the window, a *)
(* request admitted in one minute is received in the next, or no limit is  *)
(* set (rate_limiter.py).                                                  *)
WithinLimit == blind \/ served <= peak

(* Once the breaker has opened, a failing provider receives at most the    *)
(* one request each thread had in hand, until the recovery time is over:   *)
(* no loop of attempts goes on behind it (allow_request, call).            *)
FewAfterTrip == after <= Cardinality(Callers)

(* The estimate alone exceeds the limit, and only an answer changes it: no *)
(* call is admitted any more (acquire, record).                            *)
LockedOut == rate.tokens # 0 /\ estimate > rate.tokens

(* When the provider has recovered for good, the breaker closes again: no  *)
(* late failure, lost probe or admission by somebody who then sends        *)
(* nothing keeps it open or half open for ever, unless the limiter locks   *)
(* every call out.                                                         *)
Recovers == []<>(state = "closed" \/ ~healthy \/ LockedOut)

(* Whatever limits and answers come in whatever order, the limiter locks   *)
(* calls out only when one call has had more tokens than the limit that    *)
(* holds now: many small calls, a 429 or a change of limits back and forth *)
(* leave an empty window that admits a request (acquire, record).          *)
EmptyWindowAdmits ==
    window = 0 /\ tokens = 0 => Room \/ (rate.tokens # 0 /\ largest > rate.tokens)

(* acquire blocks "until a request slot is available within both RPM and   *)
(* ITPM windows" (rate_limiter.py:246): with both windows empty there is   *)
(* one.                                                                    *)
SlotWhenEmpty == window = 0 /\ tokens = 0 => Room
=============================================================================
