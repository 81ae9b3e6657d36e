-------------------------- MODULE RequestLaneProofs --------------------------
(***************************************************************************)
(* Proofs about the lane of RequestLane, for any calls, bucket, delays and *)
(* retries its assumptions admit.                                          *)
(***************************************************************************)
EXTENDS RequestLane, FiniteSetTheorems, TLAPS

\* Every call has an identity.
LEMMA IdentityType == Identity \in [Callers -> Identities]
  BY CallersAssumption DEF Identity

\* A product with a positive number is no smaller than the other factor.
LEMMA ProductGrows ==
    ASSUME NEW a \in Nat, NEW b \in Nat \ {0}
    PROVE  a * b \in Nat /\ a * b >= a
  OBVIOUS

\* The bucket holds at least one token.
LEMMA CapacityFacts == Capacity \in Nat /\ Capacity >= Refill
  <1>1. Refill \in Nat /\ MaxBurst \in Nat \ {0}
    BY RateAssumption
  <1>2. Refill * MaxBurst = MaxBurst * Refill
    BY <1>1
  <1> QED
    BY <1>1, <1>2, ProductGrows DEF Capacity

\* The shifts of the back-offs never yield zero.
LEMMA DoublingType ==
    ASSUME NEW n \in Nat, NEW most \in 0..8
    PROVE  Doubling(n, most) \in Nat \ {0}
  <1>1. Least(n, most) \in 0..8
    BY DEF Least
  <1>2. \A i \in 0..8 : Doublings[i + 1] \in Nat \ {0}
    BY DEF Doublings
  <1> QED
    BY <1>1, <1>2 DEF Doubling

\* A pause lasts at least as long as one token takes to refill.
LEMMA BackoffIsAPause ==
    ASSUME NEW hint \in RetryHints, NEW n \in Nat
    PROVE  RateLimitBackoff(hint, n) \in Nat /\ RateLimitBackoff(hint, n) >= Refill
  <1>1. Doubling(n, 5) \in Nat \ {0}
    BY DoublingType
  <1>2. CoolDown * Doubling(n, 5) \in Nat /\ CoolDown * Doubling(n, 5) >= CoolDown
    BY <1>1, ProductGrows, RateAssumption
  <1>3. hint \in Nat
    BY DelayAssumption
  <1> QED
    BY <1>2, <1>3, RateAssumption DEF RateLimitBackoff, Least, Most

\* The delays before other retries are lengths of time.
LEMMA DelayType ==
    ASSUME NEW n \in Nat
    PROVE  /\ BusyBackoff * Doubling(n, 4) \in Nat
           /\ ErrorBackoff * Doubling(n, 8) \in Nat
  <1>1. Doubling(n, 4) \in Nat \ {0} /\ Doubling(n, 8) \in Nat \ {0}
    BY DoublingType
  <1> QED
    BY <1>1, ProductGrows, DelayAssumption

-----------------------------------------------------------------------------
(* Types.                                                                  *)

LEMMA TypeInit == LaneInit => LaneTypeOK
  <1> SUFFICES ASSUME LaneInit PROVE LaneTypeOK
    OBVIOUS
  <1>1. InitialTokens * Refill \in 0..Capacity
    <2>1. /\ InitialTokens \in Nat /\ MaxBurst \in Nat /\ Refill \in Nat
          /\ InitialTokens <= MaxBurst
      BY RateAssumption
    <2>2. \A i, m, r \in Nat : i <= m => i * r \in 0..(m * r)
      OBVIOUS
    <2> QED
      BY <2>1, <2>2 DEF Capacity
  <1> QED
    BY <1>1, CapacityFacts, CallersAssumption, RateAssumption
       DEF LaneInit, LaneTypeOK, Phases, NoCoolDown

-----------------------------------------------------------------------------
(* The semaphore.  The permits that are not free are held by the requests  *)
(* that are out, which also bounds the free ones.                          *)

LEMMA InFlightFinite ==
    IsFiniteSet(InFlight) /\ Cardinality(InFlight) \in Nat
  <1>1. InFlight \subseteq Callers
    BY DEF InFlight
  <1> QED
    BY <1>1, CallersAssumption, FS_Subset, FS_CardinalityType

LEMMA RequestOut ==
    ASSUME LaneTypeOK, NEW c \in Callers, phase[c] # "sent",
           phase' = [phase EXCEPT ![c] = "sent"]
    PROVE  Cardinality(InFlight') = Cardinality(InFlight) + 1
  <1>1. InFlight' = InFlight \cup {c} /\ c \notin InFlight
    BY DEF InFlight, LaneTypeOK
  <1> QED
    BY <1>1, InFlightFinite, FS_AddElement

LEMMA RequestBack ==
    ASSUME LaneTypeOK, NEW c \in Callers, phase[c] = "sent", NEW p, p # "sent",
           phase' = [phase EXCEPT ![c] = p]
    PROVE  /\ Cardinality(InFlight') = Cardinality(InFlight) - 1
           /\ Cardinality(InFlight) >= 1
  <1>1. InFlight' = InFlight \ {c} /\ c \in InFlight
    BY DEF InFlight, LaneTypeOK
  <1>2. Cardinality(InFlight') = Cardinality(InFlight) - 1
    BY <1>1, InFlightFinite, FS_RemoveElement
  <1>3. Cardinality(InFlight) # 0
    BY <1>1, InFlightFinite, FS_EmptySet
  <1> QED
    BY <1>2, <1>3, InFlightFinite

LEMMA RequestElsewhere ==
    ASSUME LaneTypeOK, NEW c \in Callers, phase[c] # "sent", NEW p, p # "sent",
           phase' = [phase EXCEPT ![c] = p]
    PROVE  InFlight' = InFlight
  BY DEF InFlight, LaneTypeOK

-----------------------------------------------------------------------------
(* One step.  LaneTypeOK needs PermitsConserved for the bound of free.     *)

LaneType == LaneTypeOK /\ PermitsConserved

LEMMA LaneTypeInit == LaneInit => LaneType
  <1> SUFFICES ASSUME LaneInit PROVE LaneType
    OBVIOUS
  <1>1. InFlight = {}
    BY DEF LaneInit, InFlight
  <1>2. free + 0 = Permits
    BY CallersAssumption DEF LaneInit
  <1> QED
    BY <1>1, <1>2, TypeInit, FS_EmptySet DEF LaneType, PermitsConserved

\* An answer gives its permit back; what else it does keeps the types.
LEMMA AnswerPermit ==
    ASSUME LaneType, NEW c \in Callers, Answered(c), NEW p, p # "sent",
           phase' = [phase EXCEPT ![c] = p]
    PROVE  free' \in 0..Permits /\ PermitsConserved'
  <1>1. /\ Cardinality(InFlight') = Cardinality(InFlight) - 1
        /\ Cardinality(InFlight) >= 1
    BY RequestBack DEF LaneType, Answered
  <1> QED
    BY <1>1, InFlightFinite, CallersAssumption
       DEF LaneType, LaneTypeOK, PermitsConserved, Answered

LEMMA LaneTypeStep == LaneType /\ [LaneNext]_laneVars => LaneType'
  <1> SUFFICES ASSUME LaneType, [LaneNext]_laneVars PROVE LaneType'
    OBVIOUS
  <1>t. LaneTypeOK /\ PermitsConserved
    BY DEF LaneType
  <1> USE CapacityFacts DEF LaneTypeOK, Phases
  <1>1. ASSUME NEW c \in Callers, Load(c) PROVE LaneType'
    <2>1. LaneTypeOK'
      BY <1>1, <1>t DEF Load, bucket, history
    <2>2. InFlight' = InFlight
      BY <1>1, <1>t, RequestElsewhere DEF Load
    <2> QED
      BY <1>1, <1>t, <2>1, <2>2 DEF LaneType, PermitsConserved, Load
  <1>2. ASSUME NEW c \in Callers, Acquire(c) PROVE LaneType'
    <2>1. CASE AcquireParks(c)
      BY <2>1, <1>t DEF AcquireParks, bucket, history, LaneType, PermitsConserved, InFlight
    <2>2. ASSUME TakeToken(c), phase[c] = "acquire"
          PROVE  PermitsConserved'
      <3>1. InFlight' = InFlight
        BY <2>2, <1>t, RequestElsewhere DEF TakeToken
      <3> QED
        BY <2>2, <3>1, <1>t DEF PermitsConserved, TakeToken
    <2>3. CASE AcquireResumes(c)
      <3>1. LaneTypeOK'
        BY <2>3, <1>t, RateAssumption DEF AcquireResumes, TakeToken
      <3> QED
        BY <2>2, <2>3, <3>1 DEF AcquireResumes, Awake, LaneType
    <2>4. CASE AcquireToken(c)
      <3>1. LaneTypeOK'
        BY <2>4, <1>t, RateAssumption DEF AcquireToken, TakeToken, Refilled, Least
      <3> QED
        BY <2>2, <2>4, <3>1 DEF AcquireToken, Awake, LaneType
    <2>5. CASE AcquireWaits(c)
      <3>1. LaneTypeOK'
        BY <2>5, <1>t, RateAssumption DEF AcquireWaits, Refilled, Least, history
      <3> QED
        BY <2>5, <3>1, <1>t DEF AcquireWaits, LaneType, PermitsConserved, InFlight
    <2> QED
      BY <1>2, <2>1, <2>3, <2>4, <2>5 DEF Acquire
  <1>3. ASSUME NEW c \in Callers, Send(c) PROVE LaneType'
    <2>1. LaneTypeOK'
      BY <1>3, <1>t, CallersAssumption DEF Send, bucket, history
    <2>2. Cardinality(InFlight') = Cardinality(InFlight) + 1
      BY <1>3, <1>t, RequestOut DEF Send
    <2> QED
      BY <1>3, <1>t, <2>1, <2>2, InFlightFinite DEF LaneType, PermitsConserved, Send
  <1>4. ASSUME NEW c \in Callers, Answered(c), Return(c),
               cached' = cached \/ cached' = cached \cup {Identity[c]}
        PROVE  LaneType'
    <2>1. free' \in 0..Permits /\ PermitsConserved'
      BY <1>4, AnswerPermit DEF Return
    <2> QED
      BY <1>4, <1>t, <2>1, IdentityType DEF Return, bucket, history, LaneType
  <1>5. ASSUME NEW c \in Callers, NEW delay \in Nat, Answered(c), Retry(c, delay),
               \/ UNCHANGED <<bucket, hush>>
               \/ /\ coolDown' = PauseNoted(delay) /\ tokens' = 0 /\ elapsed' = 0
                  /\ hush' = Most(hush, delay)
        PROVE  LaneType'
    <2>1. free' \in 0..Permits /\ PermitsConserved'
      BY <1>5, AnswerPermit DEF Retry
    <2>2. attempt' \in [Callers -> 0..Retries]
      BY <1>5, <1>t, CallersAssumption DEF Retry
    <2>3. /\ tokens' \in 0..Capacity /\ elapsed' \in 0..Capacity /\ hush' \in Nat
          /\ coolDown' \in Nat \cup {NoCoolDown}
      BY <1>5, <1>t DEF bucket, PauseNoted, Most, NoCoolDown
    <2> QED
      BY <1>5, <1>t, <2>1, <2>2, <2>3 DEF Retry, LaneType
  <1>6. ASSUME NEW c \in Callers, Answer(c) PROVE LaneType'
    <2>1. attempt[c] \in Nat
      BY <1>t, CallersAssumption
    <2>2. CASE Succeed(c)
      BY <2>2, <1>4 DEF Succeed
    <2>3. CASE ReturnPartial(c)
      BY <2>3, <1>4 DEF ReturnPartial
    <2>4. CASE Throttled(c)
      <3>1. PICK hint \in RetryHints :
               LET delay == RateLimitBackoff(hint, attempt[c])
               IN  /\ Answered(c) /\ Retry(c, delay)
                   /\ coolDown' = PauseNoted(delay) /\ tokens' = 0 /\ elapsed' = 0
                   /\ hush' = Most(hush, delay)
        BY <2>4 DEF Throttled
      <3>2. RateLimitBackoff(hint, attempt[c]) \in Nat
        BY <2>1, BackoffIsAPause
      <3> QED
        BY <3>1, <3>2, <1>5
    <2>5. CASE Busy(c)
      BY <2>1, <2>5, <1>5, DelayType DEF Busy
    <2>6. CASE Fails(c)
      BY <2>1, <2>6, <1>5, DelayType DEF Fails
    <2>7. CASE GiveUp(c)
      BY <2>7, <1>4 DEF GiveUp
    <2> QED
      BY <1>6, <2>2, <2>3, <2>4, <2>5, <2>6, <2>7 DEF Answer
  <1>7. ASSUME Abandon PROVE LaneType'
    <2>1. InFlight' = {}
      BY <1>7 DEF Abandon, InFlight
    <2>2. LaneTypeOK'
      BY <1>7, <1>t, CallersAssumption DEF Abandon, bucket, history
    <2>3. free' + 0 = Permits
      BY <1>7, CallersAssumption DEF Abandon
    <2> QED
      BY <2>1, <2>2, <2>3, FS_EmptySet DEF LaneType, PermitsConserved
  <1>8. ASSUME Tick PROVE LaneType'
    <2>1. LaneTypeOK'
      BY <1>8, <1>t DEF Tick, Least, Most, NoCoolDown
    <2> QED
      BY <1>8, <2>1, <1>t DEF Tick, LaneType, PermitsConserved, InFlight
  <1>9. ASSUME UNCHANGED laneVars PROVE LaneType'
    BY <1>9, <1>t
       DEF laneVars, calls, bucket, history, LaneType, PermitsConserved, InFlight
  <1> QED
    BY <1>1, <1>2, <1>3, <1>6, <1>7, <1>8, <1>9 DEF LaneNext, CallStep

\* The lane keeps its types: in particular a bucket is never overfull and the
\* semaphore never hands out more than its permits.
THEOREM LaneTypeCorrect == LaneSpec => []LaneTypeOK
  <1>1. LaneType => LaneTypeOK
    BY DEF LaneType
  <1> QED
    BY <1>1, LaneTypeInit, LaneTypeStep, PTL DEF LaneSpec

\* No permit of a lane is ever lost or handed out twice: a call holds one
\* exactly while its request is out, through retries and cancellation.
THEOREM PermitsAreConserved == LaneSpec => []PermitsConserved
  <1>1. LaneType => PermitsConserved
    BY DEF LaneType
  <1> QED
    BY <1>1, LaneTypeInit, LaneTypeStep, PTL DEF LaneSpec
-----------------------------------------------------------------------------
(* The rate.  A bucket that is never drained always holds at least what    *)
(* the lane's bucket would hold after a refill; and when a cool-down ends, *)
(* one token has refilled since it was noted, which pays for the token the *)
(* first caller is then given.                                             *)

RateInv ==
    /\ allowance >= Least(tokens + elapsed, Capacity)
    /\ coolDown # NoCoolDown => coolDown + elapsed >= Refill
    /\ hush <= Most(coolDown, 0)

LaneInv == LaneType /\ RateInv

LEMMA LaneInvInit == LaneInit => LaneInv
  <1> SUFFICES ASSUME LaneInit PROVE RateInv
    BY LaneTypeInit DEF LaneInv
  <1>1. LaneTypeOK
    BY TypeInit
  <1> QED
    BY <1>1, CapacityFacts DEF LaneInit, RateInv, LaneTypeOK, Least, Most, NoCoolDown

LEMMA LaneInvStep == LaneInv /\ [LaneNext]_laneVars => LaneInv'
  <1> SUFFICES ASSUME LaneInv, [LaneNext]_laneVars PROVE RateInv'
    BY LaneTypeStep DEF LaneInv
  <1>t. LaneTypeOK /\ RateInv
    BY DEF LaneInv, LaneType
  <1>r. Refill \in Nat \ {0} /\ NoCoolDown = -1
    BY RateAssumption DEF NoCoolDown
  <1> USE CapacityFacts DEF LaneTypeOK, RateInv, Least, Most
  <1>1. ASSUME UNCHANGED <<bucket, history>> PROVE RateInv'
    BY <1>1, <1>t DEF bucket, history
  <1>2. ASSUME NEW c \in Callers, AcquireResumes(c) PROVE RateInv'
    <2>1. /\ allowance >= Refill
          /\ hush = 0
      BY <1>2, <1>t, <1>r DEF AcquireResumes
    <2> QED
      BY <1>2, <1>t, <1>r, <2>1 DEF AcquireResumes, TakeToken
  <1>3. ASSUME NEW c \in Callers, AcquireToken(c) PROVE RateInv'
    BY <1>3, <1>t, <1>r DEF AcquireToken, TakeToken, Refilled
  <1>4. ASSUME NEW c \in Callers, AcquireWaits(c) PROVE RateInv'
    BY <1>4, <1>t, <1>r DEF AcquireWaits, Refilled, history
  <1>5. ASSUME NEW c \in Callers, Throttled(c) PROVE RateInv'
    <2>1. PICK hint \in RetryHints :
             LET delay == RateLimitBackoff(hint, attempt[c])
             IN  /\ Retry(c, delay)
                 /\ coolDown' = PauseNoted(delay) /\ tokens' = 0 /\ elapsed' = 0
                 /\ hush' = Most(hush, delay)
      BY <1>5 DEF Throttled
    <2> DEFINE delay == RateLimitBackoff(hint, attempt[c])
    <2>2. attempt[c] \in Nat
      BY <1>t, CallersAssumption
    <2>3. delay \in Nat /\ delay >= Refill
      BY <2>2, BackoffIsAPause
    <2>4. /\ allowance' = allowance /\ tokens' = 0 /\ elapsed' = 0
          /\ coolDown' = Most(coolDown, delay) /\ hush' = Most(hush, delay)
      BY <2>1 DEF Retry, PauseNoted
    <2> HIDE DEF delay
    <2> QED
      BY <1>t, <1>r, <2>3, <2>4
  <1>6. ASSUME Tick PROVE RateInv'
    BY <1>6, <1>t, <1>r DEF Tick
  <1>7. ASSUME NEW c \in Callers, CallStep(c) PROVE RateInv'
    <2>1. CASE Load(c) \/ Send(c) \/ AcquireParks(c)
      BY <2>1, <1>1 DEF Load, Send, AcquireParks
    <2>2. CASE Succeed(c) \/ ReturnPartial(c) \/ GiveUp(c)
      BY <2>2, <1>1 DEF Succeed, ReturnPartial, GiveUp, Return
    <2>3. CASE Busy(c) \/ Fails(c)
      BY <2>3, <1>1 DEF Busy, Fails, Retry, history
    <2> QED
      BY <1>2, <1>3, <1>4, <1>5, <1>7, <2>1, <2>2, <2>3
         DEF CallStep, Acquire, Answer
  <1>8. ASSUME Abandon \/ UNCHANGED laneVars PROVE RateInv'
    BY <1>8, <1>1 DEF Abandon, laneVars
  <1> QED
    BY <1>6, <1>7, <1>8 DEF LaneNext

\* The tokens a lane grants never exceed a full burst and what refills
\* meanwhile, for any calls, pauses and hints of the provider.
THEOREM GrantsStayWithinRate == LaneSpec => []GrantsWithinRate
  <1>1. LaneInv => GrantsWithinRate
    BY CapacityFacts DEF LaneInv, LaneType, LaneTypeOK, RateInv, Least, GrantsWithinRate
  <1> QED
    BY <1>1, LaneInvInit, LaneInvStep, PTL DEF LaneSpec

\* No call takes a token before every pause noted by any call is over.
THEOREM CoolDownIsHonoured == LaneSpec => CoolDownHonoured
  <1>1. LaneInv /\ [LaneNext]_laneVars => [\A c \in Callers : TokenTaken(c) => hush = 0]_laneVars
    <2> SUFFICES ASSUME LaneInv, LaneNext, NEW c \in Callers, TokenTaken(c)
                 PROVE  hush = 0
      OBVIOUS
    <2>1. LaneTypeOK /\ RateInv
      BY DEF LaneInv, LaneType
    <2>2. phase[c] = "acquire" /\ phase'[c] = "permit"
      BY DEF TokenTaken
    <2>3. PICK d \in Callers : AcquireResumes(d) \/ AcquireToken(d)
      BY <2>1, <2>2
         DEF LaneNext, CallStep, Acquire, Answer, Load, AcquireParks, AcquireWaits, Send,
             Succeed, ReturnPartial, Throttled, Busy, Fails, GiveUp, Return, Retry,
             Abandon, Tick, LaneTypeOK
    <2> QED
      BY <2>1, <2>3 DEF AcquireResumes, AcquireToken, RateInv, LaneTypeOK, Most, NoCoolDown
  <1> QED
    BY <1>1, LaneInvInit, LaneInvStep, PTL DEF LaneSpec, CoolDownHonoured
=============================================================================
