----------------------------- MODULE MCSampling -----------------------------
(* The two halves of a sampling round, each on an instance of its own with *)
(* the other at its end: the search over the download sink, and the        *)
(* threads that feed it.                                                   *)
EXTENDS SampleCollector, ProbeRound

CONSTANTS a1, a2, a3, b1, x1, x2, A, B, X, l1, l2, l3, l4

(* The search: chains a and b have an intra-chain bucket each and share a  *)
(* cross bucket.  Chain a can supply a1, a2 and a3, chain b only b1, the   *)
(* cross bucket x1 and x2.  Two profile pairs find them.                   *)
MCPoolOf == [b \in Buckets |-> IF b = X THEN "cross" ELSE "intra"]

MCBucketOf == [p \in Pairs |-> IF p \in {x1, x2} THEN X ELSE IF p = b1 THEN B ELSE A]

TaskOf(b, S) == [bucket |-> b, pairs |-> S \cap Pairs]

MCMatches == {{TaskOf(A, {a1, a2}), TaskOf(X, {x1, x2})},
              {TaskOf(A, {a2, a3}), TaskOf(B, {b1})}}

MCPartners == [l \in Lefts |-> IF l = l1 THEN 2 ELSE 1]

\* The search has given up: its rounds found nothing.
SearchOver ==
    /\ SinkInit
    /\ targets = CHOOSE t \in BalancedTargets : TRUE
    /\ visited = [b \in Buckets |-> <<>>]
    /\ committed = [b \in Buckets |-> 0]
    /\ viable = [b \in Buckets |-> 0]
    /\ taken = {} /\ raised = {} /\ offered = {} /\ batch = {}
    /\ pc = "done"
    /\ current = NoTask /\ fresh = FALSE /\ fallback = <<>> /\ deferred = 0
    /\ round = MaxProbeRound /\ stagnant = MaxStagnant /\ seenBefore = 0

\* The threads of a round have ended.
ThreadsOver ==
    /\ prod = "done" /\ left = {} /\ tasks = {}
    /\ thread = [t \in PoolThreads |-> "free"]
    /\ found = <<>> /\ fwd = "idle" /\ ready = {} /\ sending = NoLeft
    /\ matches = <<>> /\ con = "ended" /\ buffer = <<>> /\ drained = TRUE
    /\ stop = TRUE /\ complete = FALSE /\ failed = FALSE
    /\ tried = Partners

SamplingInit == (SampleInit /\ ThreadsOver) \/ (SearchOver /\ ProbeInit)

SamplingNext ==
    \/ SampleNext /\ UNCHANGED probeVars
    \/ ProbeNext /\ UNCHANGED sampleVars

SamplingFairSpec ==
    /\ SamplingInit /\ [][SamplingNext]_<<sampleVars, probeVars>>
    /\ WF_sampleVars(CollectorNext)
    /\ \A p \in Pairs : WF_sampleVars(SinkAnswers /\ media[p]' # media[p])
    /\ WF_probeVars(ProducerStep)
    /\ \A t \in PoolThreads : WF_probeVars(PoolStep(t))
    /\ WF_probeVars(ForwardStep)
    /\ WF_probeVars(ConsumerStep)
=============================================================================
