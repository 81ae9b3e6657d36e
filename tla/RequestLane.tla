----------------------------- MODULE RequestLane -----------------------------
(***************************************************************************)
(* One provider lane of the analysis HTTP client,                          *)
(* src/analysis/crates/core/src/enrich/http.rs: a token bucket with a      *)
(* shared 429 cool-down, a semaphore of in-flight requests, the success    *)
(* cache in front of both, and the retry loop of the calls that share the  *)
(* lane.  Lanes share nothing, so one lane is the whole of the component.  *)
(*                                                                         *)
(* Time is discrete and relative: a tick is the unit of every duration,    *)
(* and each instant the code stores is kept as the ticks until it or since *)
(* it.  The fraction of a token that the bucket holds is counted in ticks  *)
(* of refilling, a whole token being Refill of them.                       *)
(***************************************************************************)
EXTENDS Integers, FiniteSets

CONSTANTS
    Callers,        \* the calls of request_on_lane made on this lane
    Identities,     \* the calls, those of one success-cache identity in a set
    CacheUsers,     \* calls made with use_success_cache
    Permits,        \* size of the in_flight semaphore
    MaxBurst,       \* max_burst
    Refill,         \* refill_interval
    InitialTokens,  \* tokens of the new bucket
    CoolDown,       \* RATE_LIMIT_COOLDOWN
    MaxCoolDown,    \* MAX_RATE_LIMIT_COOLDOWN
    RetryHints,     \* Retry-After values a provider sends; 0 if it sends none
    BusyBackoff,    \* first delay after 502, 503 and 504
    ErrorBackoff,   \* first delay after other retryable errors
    Retries         \* retries of a call

ASSUME CallersAssumption ==
    /\ IsFiniteSet(Callers)
    /\ UNION Identities = Callers
    /\ \A i, j \in Identities : i # j => i \intersect j = {}
    /\ CacheUsers \subseteq Callers
    /\ Retries \in Nat
    /\ Permits \in Nat \ {0}

\* An identity is known by the calls that have it.
Identity == [c \in Callers |-> CHOOSE i \in Identities : c \in i]

\* A cool-down is never shorter than one refill interval: 1 s against 300 ms
\* for OpenSea and 1 ms for the other lanes.
ASSUME RateAssumption ==
    /\ MaxBurst \in Nat \ {0}
    /\ Refill \in Nat \ {0}
    /\ InitialTokens \in 1..MaxBurst
    /\ CoolDown \in Nat /\ CoolDown >= Refill
    /\ MaxCoolDown \in Nat /\ MaxCoolDown >= CoolDown

ASSUME DelayAssumption ==
    RetryHints \subseteq Nat /\ BusyBackoff \in Nat /\ ErrorBackoff \in Nat

VARIABLES
    phase,      \* where each call is
    attempt,    \* its attempt, from 0
    sleep,      \* ticks until its sleep ends
    free,       \* permits left in the semaphore
    tokens,     \* tokens of the bucket, in ticks of refilling
    elapsed,    \* ticks since last_refill, up to a full bucket
    coolDown,   \* ticks until cool_down_until, 0 once it has passed
    cached,     \* identities with a stored success
    allowance,  \* history: what a bucket that is never drained would hold
    hush        \* history: ticks until every pause noted so far is over

calls == <<phase, attempt, sleep>>
bucket == <<tokens, elapsed, coolDown>>
history == <<allowance, hush>>
laneVars == <<calls, free, bucket, cached, history>>

NoCoolDown == -1        \* cool_down_until is None
Capacity == MaxBurst * Refill

Least(m, n) == IF m < n THEN m ELSE n
Most(m, n) == IF m > n THEN m ELSE n

Phases == {"start", "acquire", "permit", "sent", "returned"}

LaneTypeOK ==
    /\ phase \in [Callers -> Phases]
    /\ attempt \in [Callers -> 0..Retries]
    /\ sleep \in [Callers -> Nat]
    /\ free \in 0..Permits
    /\ tokens \in 0..Capacity
    /\ elapsed \in 0..Capacity
    /\ coolDown \in Nat \cup {NoCoolDown}
    /\ cached \subseteq Identities
    /\ allowance \in Int /\ allowance <= Capacity
    /\ hush \in Nat

LaneInit ==
    /\ phase = [c \in Callers |-> "start"]
    /\ attempt = [c \in Callers |-> 0]
    /\ sleep = [c \in Callers |-> 0]
    /\ free = Permits
    /\ tokens = InitialTokens * Refill
    /\ elapsed = 0
    /\ coolDown = NoCoolDown
    /\ cached = {}
    /\ allowance = Capacity
    /\ hush = 0
-----------------------------------------------------------------------------
(* The call looks into the success cache, once.                            *)

Load(c) ==
    /\ phase[c] = "start"
    /\ phase' = [phase EXCEPT ![c] =
           IF c \in CacheUsers /\ Identity[c] \in cached THEN "returned" ELSE "acquire"]
    /\ UNCHANGED <<attempt, sleep, free, bucket, cached, history>>

-----------------------------------------------------------------------------
(* TokenBucketRateLimiter::acquire: one turn of its loop per action.       *)

\* Mutant: the refill is not capped.
RefilledWithoutCap == tokens + elapsed

\* What the bucket holds once refilled up to now.
Refilled == Least(tokens + elapsed, Capacity)

Awake(c) == phase[c] = "acquire" /\ sleep[c] = 0

\* The call takes a token and goes on to the semaphore.
TakeToken(c) ==
    /\ phase' = [phase EXCEPT ![c] = "permit"]
    /\ elapsed' = 0
    /\ allowance' = allowance - Refill
    /\ UNCHANGED <<attempt, sleep, free, cached, hush>>

\* A cool-down is on: the call sleeps until it ends.
AcquireParks(c) ==
    /\ Awake(c)
    /\ coolDown > 0
    /\ sleep' = [sleep EXCEPT ![c] = coolDown]
    /\ UNCHANGED <<phase, attempt, free, bucket, cached, history>>

\* Mutant: the bucket is full again after a cool-down.
AcquireResumesFull(c) ==
    /\ Awake(c)
    /\ coolDown = 0
    /\ coolDown' = NoCoolDown
    /\ tokens' = Capacity - Refill
    /\ TakeToken(c)

\* The first call to see the cool-down over clears it and has the one token.
AcquireResumes(c) ==
    /\ Awake(c)
    /\ coolDown = 0
    /\ coolDown' = NoCoolDown
    /\ tokens' = 0
    /\ TakeToken(c)

AcquireToken(c) ==
    /\ Awake(c)
    /\ coolDown = NoCoolDown
    /\ Refilled >= Refill
    /\ tokens' = Refilled - Refill
    /\ TakeToken(c)
    /\ UNCHANGED coolDown

\* Too little for a token: the call sleeps until the missing part is refilled.
AcquireWaits(c) ==
    /\ Awake(c)
    /\ coolDown = NoCoolDown
    /\ Refilled < Refill
    /\ tokens' = Refilled
    /\ elapsed' = 0
    /\ sleep' = [sleep EXCEPT ![c] = Refill - Refilled]
    /\ UNCHANGED <<phase, attempt, free, coolDown, cached, history>>

Acquire(c) ==
    \/ AcquireParks(c)
    \/ AcquireResumes(c)
    \/ AcquireToken(c)
    \/ AcquireWaits(c)

-----------------------------------------------------------------------------
(* The request and what becomes of its answer.                             *)

\* The calls that hold a permit.
InFlight == {c \in Callers : phase[c] = "sent"}

\* With a permit the request goes out, whatever the bucket has become.
Send(c) ==
    /\ phase[c] = "permit"
    /\ free > 0
    /\ free' = free - 1
    /\ phase' = [phase EXCEPT ![c] = "sent"]
    /\ UNCHANGED <<attempt, sleep, bucket, cached, history>>

\* Every answer or transport error gives the permit back first.
Answered(c) ==
    /\ phase[c] = "sent"
    /\ free' = free + 1

Return(c) ==
    /\ phase' = [phase EXCEPT ![c] = "returned"]
    /\ UNCHANGED <<attempt, sleep, bucket, history>>

\* Mutant: an attempt that failed is not counted.
RetryUncounted(c, delay) ==
    /\ attempt[c] < Retries
    /\ phase' = [phase EXCEPT ![c] = "acquire"]
    /\ sleep' = [sleep EXCEPT ![c] = delay]
    /\ UNCHANGED <<attempt, cached, allowance>>

\* The call sleeps before its next attempt, which needs a token of its own.
Retry(c, delay) ==
    /\ attempt[c] < Retries
    /\ attempt' = [attempt EXCEPT ![c] = @ + 1]
    /\ phase' = [phase EXCEPT ![c] = "acquire"]
    /\ sleep' = [sleep EXCEPT ![c] = delay]
    /\ UNCHANGED <<cached, allowance>>

\* Doublings[n + 1] is 2^n, as far as the code shifts.
Doublings == <<1, 2, 4, 8, 16, 32, 64, 128, 256>>
Doubling(n, most) == Doublings[Least(n, most) + 1]

\* rate_limit_backoff: the provider's hint, but not less than the adaptive delay.
RateLimitBackoff(hint, n) ==
    Most(hint, Least(CoolDown * Doubling(n, 5), MaxCoolDown))

\* A complete success is stored, if the call uses the cache, and returned.
Succeed(c) ==
    /\ Answered(c)
    /\ cached' = IF c \in CacheUsers THEN cached \cup {Identity[c]} ELSE cached
    /\ Return(c)

\* A provider error in a successful response is returned but never stored.
ReturnPartial(c) ==
    /\ Answered(c)
    /\ Return(c)
    /\ UNCHANGED cached

\* Mutant: a shorter pause replaces a longer one.
PauseReplaced(delay) == delay

\* The pause of the lane after a call notes one: the longer of the two.
PauseNoted(delay) == Most(coolDown, delay)

\* Mutant: the permit is kept over the back-off.
ThrottledHolding(c) ==
    \E hint \in RetryHints :
        LET delay == RateLimitBackoff(hint, attempt[c])
        IN  /\ phase[c] = "sent"
            /\ Retry(c, delay)
            /\ coolDown' = PauseNoted(delay)
            /\ tokens' = 0
            /\ elapsed' = 0
            /\ hush' = Most(hush, delay)
            /\ UNCHANGED free

\* A rate limit with retries left pauses the whole lane and drains its bucket.
Throttled(c) ==
    \E hint \in RetryHints :
        LET delay == RateLimitBackoff(hint, attempt[c])
        IN  /\ Answered(c)
            /\ Retry(c, delay)
            /\ coolDown' = PauseNoted(delay)
            /\ tokens' = 0
            /\ elapsed' = 0
            /\ hush' = Most(hush, delay)

\* 502, 503, 504 and transient provider errors in a successful response.
Busy(c) ==
    /\ Answered(c)
    /\ Retry(c, BusyBackoff * Doubling(attempt[c], 4))
    /\ UNCHANGED <<bucket, hush>>

\* Timeouts, broken connections, 500 and unreadable bodies.
Fails(c) ==
    /\ Answered(c)
    /\ Retry(c, ErrorBackoff * Doubling(attempt[c], 8))
    /\ UNCHANGED <<bucket, hush>>

\* 404 and other final errors at once, any error on the last attempt; the
\* rate limit of a last attempt pauses nobody.
GiveUp(c) ==
    /\ Answered(c)
    /\ Return(c)
    /\ UNCHANGED cached

\* handle_request_error and the success path: what an answer may be.
Answer(c) ==
    \/ Succeed(c)
    \/ ReturnPartial(c)
    \/ Throttled(c)
    \/ Busy(c)
    \/ Fails(c)
    \/ GiveUp(c)

CallStep(c) == Load(c) \/ Acquire(c) \/ Send(c) \/ Answer(c)

\* Cancellation or a failed sink drops the stream of enrichments and with it
\* every call under way; a dropped request gives its permit back.
Abandon ==
    /\ \E c \in Callers : phase[c] # "returned"
    /\ phase' = [c \in Callers |-> "returned"]
    /\ free' = Permits
    /\ UNCHANGED <<attempt, sleep, bucket, cached, history>>

Tick ==
    /\ sleep' = [c \in Callers |-> Most(sleep[c] - 1, 0)]
    /\ elapsed' = Least(elapsed + 1, Capacity)
    /\ coolDown' = IF coolDown > 0 THEN coolDown - 1 ELSE coolDown
    /\ allowance' = Least(allowance + 1, Capacity)
    /\ hush' = Most(hush - 1, 0)
    /\ UNCHANGED <<phase, attempt, free, tokens, cached>>

LaneNext ==
    \/ \E c \in Callers : CallStep(c)
    \/ Abandon
    \/ Tick

LaneSpec == LaneInit /\ [][LaneNext]_laneVars

\* Tasks are polled, the clock advances, and every request ends, by its
\* timeout at the latest.
LaneFairness == WF_laneVars(Tick) /\ \A c \in Callers : WF_laneVars(CallStep(c))

-----------------------------------------------------------------------------
(* Properties.                                                             *)

\* No permit is lost or doubled: a call holds one exactly while its request
\* is out, through retries, back-offs and cancellation.
PermitsConserved == free + Cardinality(InFlight) = Permits

\* The tokens granted in any stretch of time are at most a full burst and what
\* refills in that time, although the cool-down hands out a token of its own.
GrantsWithinRate == allowance >= 0

TokenTaken(c) == phase[c] = "acquire" /\ phase'[c] = "permit"

\* No call takes a token before every pause noted by any call is over.
CoolDownHonoured == [][\A c \in Callers : TokenTaken(c) => hush = 0]_laneVars

\* Every call returns, however often the provider throttles or fails it.
CallsEnd == \A c \in Callers : <>(phase[c] = "returned")
=============================================================================
