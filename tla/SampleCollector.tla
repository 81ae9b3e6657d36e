-------------------------- MODULE SampleCollector --------------------------
(***************************************************************************)
(* The search for sample pairs (FastSampleCollector and                    *)
(* sample_direct_releasing): rounds of probes offer tasks, each a set of   *)
(* contract pairs for one bucket of chains; the collector submits pairs to *)
(* the download sink, commits the answers of a bucket in the order its     *)
(* pairs were visited, fills a target per bucket and moves the target of   *)
(* an exhausted bucket to the others of its pool.  A pair is visited once, *)
(* so it stands for its candidate id.                                      *)
(***************************************************************************)
EXTENDS DownloadSink, Naturals, Sequences, FiniteSetsExt

CONSTANTS
    Buckets,         \* intra-chain and cross-chain buckets
    PoolOf,          \* the pool of a bucket
    BucketOf,        \* the bucket of a pair (candidate)
    Matches,         \* what probing can find: sets of tasks
    Target,          \* pairs wanted per pool (--sample-pairs)
    MaxOutstanding,  \* downloads in flight at most
    MaxProbeRound,   \* the first round that probes with the full budget
    MaxStagnant,     \* idle full rounds before the search gives up
    NoTask

Pairs == Candidates

Task == [bucket: Buckets, pairs: SUBSET Pairs]

ASSUME SampleAssumption ==
    /\ IsFiniteSet(Candidates) /\ IsFiniteSet(Buckets)
    /\ Target \in Nat \ {0}
    /\ MaxOutstanding \in Nat \ {0}
    /\ MaxStagnant \in Nat \ {0}
    /\ BucketOf \in [Candidates -> Buckets]
    /\ \A m \in Matches : m \subseteq Task
    /\ NoTask \notin Task

VARIABLES
    targets,     \* per bucket: pairs still wanted in total
    visited,     \* per bucket: the pairs submitted, in order
    committed,   \* per bucket: how many of them are decided
    viable,      \* per bucket: undecided pairs that have not failed
    taken,       \* the accepted pairs
    raised,      \* the buckets whose target was ever raised (history)
    pc,          \* the stage of a round
    offered,     \* the matches this round has produced
    batch,       \* the tasks of the current match still to process
    current,     \* the task in process_fast_sample_tasks
    fresh,       \* a pair was submitted and the sink is to be polled
    fallback,    \* deferred tasks
    deferred,    \* deferrals in a row in the fallback loop
    round, stagnant, seenBefore

targetVars == <<targets, visited, committed, viable, taken, raised>>

searchVars == <<offered, batch, current, fresh, fallback, deferred>>

roundVars == <<round, stagnant, seenBefore>>

sampleVars == <<sinkVars, targetVars, pc, searchVars, roundVars>>

PoolBuckets(b) == {x \in Buckets : PoolOf[x] = PoolOf[b]}

Sum(f) == MapThenSumSet(LAMBDA b : f[b], DOMAIN f)

SeenPairs == UNION {{visited[b][i] : i \in DOMAIN visited[b]} : b \in Buckets}

\* Submitted pairs of b that are not decided yet, in order.
CommitOrder(b) == SubSeq(visited[b], committed[b] + 1, Len(visited[b]))

Undecided(b) == {visited[b][i] : i \in committed[b] + 1..Len(visited[b])}

UncommittedTotal == Sum([b \in Buckets |-> Len(visited[b]) - committed[b]])

HasOutstanding == UncommittedTotal # 0

InFlight == SeenPairs \ reported

Accepted(b) == Cardinality({p \in taken : BucketOf[p] = b})

Full(b) == Accepted(b) >= targets[b]

Complete == \A b \in Buckets : Full(b)

Covered(b) == Accepted(b) + viable[b] >= targets[b]

Remaining == Sum([b \in Buckets |-> IF Full(b) THEN 0 ELSE targets[b] - Accepted(b)])

HasOpenSlot == Cardinality(InFlight) < MaxOutstanding

HasCommitCapacity == UncommittedTotal < Remaining + 2 * MaxOutstanding

CanPrefetch == UncommittedTotal < Remaining + Min({Remaining, MaxOutstanding})

\* Uncovered buckets come first; surplus is prefetched once all are covered.
Wants(b) ==
    /\ ~Full(b)
    /\ HasCommitCapacity
    /\ IF \E x \in Buckets : ~Covered(x) THEN ~Covered(b) ELSE CanPrefetch

FallbackCapacity == Sum(targets) + 2 * MaxOutstanding

FallbackHasRoom == Len(fallback) < FallbackCapacity

----------------------------------------------------------------------------
(* Collecting answers                                                      *)

Success(p) == media[p] = "success"

\* Mutant: a poll decides one pair of a bucket at most.
CommitOne(b, S) ==
    IF committed[b] < Len(visited[b]) /\ visited[b][committed[b] + 1] \in S
    THEN committed[b] + 1 ELSE committed[b]

\* How far the decided prefix of b reaches once the answers in S are known.
CommitPoint(b, S) ==
    Max({k \in committed[b]..Len(visited[b]) :
            \A i \in committed[b] + 1..k : visited[b][i] \in S})

\* The successes of b that a decided prefix of length k adds.
Successes(b, k) ==
    {visited[b][i] : i \in {j \in committed[b] + 1..k : Success(visited[b][j])}}

NewSuccesses(b, S) == Successes(b, CommitPoint(b, S))

Room(b) == IF Full(b) THEN 0 ELSE targets[b] - Accepted(b)

\* How far the successes of that prefix still fit under the target.
TakePoint(b, S) ==
    Max({k \in committed[b]..CommitPoint(b, S) : Cardinality(Successes(b, k)) <= Room(b)})

\* Mutant: successes count as soon as they are answered, in front of pairs
\* that were visited earlier.
TakenOutOfOrder(b, S) ==
    LET open == {p \in S \ taken : BucketOf[p] = b /\ Success(p)}
    IN CHOOSE T \in SUBSET open :
           Cardinality(T) = Min({Room(b), Cardinality(open)})

\* The new successes that are accepted; the others are dropped for good.
NewlyTaken(b, S) == Successes(b, TakePoint(b, S))

\* Mutant: a reported failure leaves its bucket covered.
NoFailures(b) == {x \in {} : BucketOf[x] = b}

NewFailures(b) ==
    {p \in Answered \ reported : BucketOf[p] = b /\ media[p] = "failure"}

\* collect(): poll the sink, then decide what can be decided, bucket by
\* bucket.
Collect ==
    /\ Report
    /\ committed' = [b \in Buckets |-> CommitPoint(b, Answered)]
    /\ taken' = taken \union UNION {NewlyTaken(b, Answered) : b \in Buckets}
    /\ viable' = [b \in Buckets |->
                    viable[b] - Cardinality(NewFailures(b))
                              - Cardinality(NewSuccesses(b, Answered))]
    /\ UNCHANGED <<targets, visited, raised>>

\* collect(true): the poll returns once there is an answer.
CollectWaiting == Answered \ reported # {} /\ Collect

----------------------------------------------------------------------------
(* Initial targets                                                         *)

\* balanced_sample_bucket_targets: an even share, the remainder at random.
BalancedTargets ==
    LET share(b) == Target \div Cardinality(PoolBuckets(b))
    IN {t \in [Buckets -> 0..Target] :
            \A b \in Buckets :
                /\ t[b] \in {share(b), share(b) + 1}
                /\ Sum([x \in PoolBuckets(b) |-> t[x]]) = Target}

SampleInit ==
    /\ SinkInit
    /\ targets \in BalancedTargets
    /\ visited = [b \in Buckets |-> <<>>]
    /\ committed = [b \in Buckets |-> 0]
    /\ viable = [b \in Buckets |-> 0]
    /\ taken = {}
    /\ raised = {}
    /\ pc = "search"
    /\ offered = {}
    /\ batch = {}
    /\ current = NoTask
    /\ fresh = FALSE
    /\ fallback = <<>>
    /\ deferred = 0
    /\ round = 0
    /\ stagnant = 0
    /\ seenBefore = 0

----------------------------------------------------------------------------
(* Submitting pairs                                                        *)

\* observe(): the pair takes its place in the order of its bucket.
Observe(p) ==
    /\ visited' = [visited EXCEPT ![BucketOf[p]] = Append(@, p)]
    /\ viable' = [viable EXCEPT ![BucketOf[p]] = @ + 1]
    /\ Submit(p) \/ SubmitKnown(p)
    /\ UNCHANGED <<targets, committed, taken, raised>>

\* submit_next_fast_sample_task: the next unseen pair of the task, in random
\* order, skipping pairs seen before; rest is what the task has left.
SubmitNext(task, rest) ==
    \E p \in task.pairs \ SeenPairs :
        /\ rest \in {task.pairs \ ({p} \union S) : S \in SUBSET (task.pairs \cap SeenPairs)}
        /\ Observe(p)

Exhausted(task) == task.pairs \subseteq SeenPairs

----------------------------------------------------------------------------
(* Processing the tasks of a match                                         *)

\* The consumer takes the next match of a left and a right profile.
BeginMatch ==
    /\ pc = "search" /\ current = NoTask /\ batch = {} /\ ~fresh
    /\ ~Complete
    /\ \E m \in Matches \ offered :
        /\ offered' = offered \union {m}
        /\ batch' = {t \in m : targets[t.bucket] # 0}
    /\ Collect
    /\ UNCHANGED <<pc, current, fresh, fallback, deferred, roundVars>>

TakeTask ==
    /\ pc = "search" /\ current = NoTask /\ ~fresh
    /\ \E t \in batch :
        /\ batch' = IF Complete THEN {} ELSE batch \ {t}
        /\ current' = IF Full(t.bucket) THEN NoTask ELSE t
    /\ UNCHANGED <<sinkVars, targetVars, pc, offered, fresh, fallback, deferred,
                   roundVars>>

Processing == pc = "search" /\ current # NoTask

DropTask ==
    /\ Processing
    /\ Full(current.bucket)
    /\ current' = NoTask
    /\ UNCHANGED <<sinkVars, targetVars, pc, offered, batch, fresh, fallback,
                   deferred, roundVars>>

DeferTask ==
    /\ Processing
    /\ ~Full(current.bucket) /\ ~Wants(current.bucket)
    /\ FallbackHasRoom
    /\ fallback' = Append(fallback, current)
    /\ current' = NoTask
    /\ UNCHANGED <<sinkVars, targetVars, pc, offered, batch, fresh, deferred, roundVars>>

\* Backpressure: no slot, or no room to defer.
AwaitSlot ==
    /\ Processing
    /\ ~Full(current.bucket)
    /\ IF Wants(current.bucket) THEN ~HasOpenSlot ELSE ~FallbackHasRoom
    /\ IF HasOutstanding
       THEN CollectWaiting /\ UNCHANGED pc
       ELSE pc' = "error" /\ UNCHANGED <<sinkVars, targetVars>>
    /\ UNCHANGED <<searchVars, roundVars>>

SubmitTask ==
    /\ Processing
    /\ ~Full(current.bucket) /\ Wants(current.bucket) /\ HasOpenSlot
    /\ IF Exhausted(current)
       THEN UNCHANGED <<sinkVars, targetVars, fallback, fresh>>
       ELSE \E rest \in SUBSET current.pairs :
                /\ SubmitNext(current, rest)
                /\ fallback' = IF rest # {} /\ FallbackHasRoom
                               THEN Append(fallback, [current EXCEPT !.pairs = rest])
                               ELSE fallback
                /\ fresh' = TRUE
    /\ current' = NoTask
    /\ UNCHANGED <<pc, offered, batch, deferred, roundVars>>

\* A submission is followed by a poll that does not wait.
PollAfterSubmit ==
    /\ fresh
    /\ Collect
    /\ fresh' = FALSE
    /\ UNCHANGED <<pc, offered, batch, current, fallback, deferred, roundVars>>

\* All targets are met, or the producer has nothing more this round: its
\* probes are random and need not find every match.
EndSearch ==
    /\ pc = "search" /\ current = NoTask /\ batch = {} /\ ~fresh
    /\ pc' = "drain"
    /\ UNCHANGED <<sinkVars, targetVars, searchVars, roundVars>>

Draining == pc \in {"drain", "redrain"} /\ ~Complete /\ HasOutstanding

Drain ==
    /\ Draining
    /\ CollectWaiting
    /\ UNCHANGED <<pc, searchVars, roundVars>>

DrainEnds ==
    /\ pc \in {"drain", "redrain"} /\ ~Draining
    /\ pc' = IF pc = "drain" /\ ~Complete /\ fallback # <<>> THEN "fallback" ELSE "close"
    /\ deferred' = 0
    /\ UNCHANGED <<sinkVars, targetVars, offered, batch, current, fresh, fallback,
                   roundVars>>

----------------------------------------------------------------------------
(* Deferred tasks                                                          *)

FallbackTurn ==
    pc = "fallback" /\ ~fresh /\ ~Complete /\ fallback # <<>>

FallbackEnds ==
    /\ pc = "fallback" /\ ~fresh
    /\ Complete \/ fallback = <<>>
    /\ pc' = "redrain"
    /\ UNCHANGED <<sinkVars, targetVars, searchVars, roundVars>>

DropDeferred ==
    /\ FallbackTurn
    /\ Full(Head(fallback).bucket)
    /\ fallback' = Tail(fallback)
    /\ deferred' = 0
    /\ UNCHANGED <<sinkVars, targetVars, pc, offered, batch, current, fresh, roundVars>>

\* Mutant: tasks are deferred in turn and nobody waits for an answer.
RotateOnly ==
    /\ FallbackTurn
    /\ LET b == Head(fallback).bucket
       IN ~Full(b) /\ (~Wants(b) \/ ~HasOpenSlot)
    /\ fallback' = Append(Tail(fallback), Head(fallback))
    /\ deferred' = 0
    /\ UNCHANGED <<sinkVars, targetVars, pc, offered, batch, current, fresh, roundVars>>

\* The task goes to the back.  After a whole turn of deferrals the collector
\* waits for an answer, or gives up when there is none to come.
RotateDeferred ==
    /\ FallbackTurn
    /\ LET b == Head(fallback).bucket
       IN ~Full(b) /\ (~Wants(b) \/ ~HasOpenSlot)
    /\ fallback' = Append(Tail(fallback), Head(fallback))
    /\ IF deferred + 1 < Len(fallback)
       THEN deferred' = deferred + 1 /\ UNCHANGED <<sinkVars, targetVars, pc>>
       ELSE IF HasOutstanding
            THEN deferred' = 0 /\ CollectWaiting /\ UNCHANGED pc
            ELSE /\ deferred' = deferred + 1
                 /\ pc' = "redrain"
                 /\ UNCHANGED <<sinkVars, targetVars>>
    /\ UNCHANGED <<offered, batch, current, fresh, roundVars>>

SubmitDeferred ==
    /\ FallbackTurn
    /\ LET task == Head(fallback)
       IN /\ ~Full(task.bucket) /\ Wants(task.bucket) /\ HasOpenSlot
          /\ IF Exhausted(task)
             THEN fallback' = Tail(fallback) /\ UNCHANGED <<sinkVars, targetVars, fresh>>
             ELSE \E rest \in SUBSET task.pairs :
                    /\ SubmitNext(task, rest)
                    /\ fallback' = IF rest # {}
                                   THEN Append(Tail(fallback), [task EXCEPT !.pairs = rest])
                                   ELSE Tail(fallback)
                    /\ fresh' = TRUE
    /\ deferred' = 0
    /\ UNCHANGED <<pc, offered, batch, current, roundVars>>

----------------------------------------------------------------------------
(* The end of a round                                                      *)

Incomplete == {b \in Buckets : ~Full(b)}

Recipients(b) == PoolBuckets(b) \ Incomplete

\* The buckets redistribute_exhausted_bucket empties.
Donors ==
    IF round < MaxProbeRound THEN {}
    ELSE {b \in Incomplete : Recipients(b) # {} /\ CommitOrder(b) = <<>>}

Deficit(b) == targets[b] - Accepted(b)

Raise == raised' = raised \union {b \in Buckets : targets'[b] > targets[b]}

\* Mutant: an exhausted bucket hands its deficit on and keeps its own target.
RedistributeTwice ==
    /\ targets' = [b \in Buckets |->
          targets[b] + Sum([d \in {x \in Donors : b \in Recipients(x)} |-> Deficit(d)])]
    /\ Raise

\* Every deficit is split evenly over the recipients, the remainder at random.
Redistribute ==
    \E extra \in [Donors -> SUBSET (Buckets \ Incomplete)] :
        /\ \A d \in Donors :
            /\ extra[d] \subseteq Recipients(d)
            /\ Cardinality(extra[d]) = Deficit(d) % Cardinality(Recipients(d))
        /\ targets' = [b \in Buckets |->
             IF b \in Donors THEN Accepted(b)
             ELSE targets[b] + Sum([d \in {x \in Donors : b \in Recipients(x)} |->
                      Deficit(d) \div Cardinality(Recipients(d))
                      + (IF b \in extra[d] THEN 1 ELSE 0)])]
        /\ Raise

Stagnates ==
    Donors = {} /\ Cardinality(SeenPairs) = seenBefore

\* The next round, or the end after MaxStagnant rounds without a new pair.
CloseRound ==
    /\ pc = "close" /\ ~Complete
    /\ Redistribute
    /\ stagnant' = IF round < MaxProbeRound THEN stagnant
                   ELSE IF Stagnates THEN stagnant + 1 ELSE 0
    /\ pc' = IF stagnant' = MaxStagnant THEN "retain" ELSE "search"
    /\ round' = Min({round + 1, MaxProbeRound})
    /\ seenBefore' = Cardinality(SeenPairs)
    /\ offered' = {}
    /\ UNCHANGED <<sinkVars, visited, committed, viable, taken, batch, current, fresh,
                   fallback, deferred>>

CloseSearch ==
    /\ pc = "close" /\ Complete
    /\ pc' = "retain"
    /\ UNCHANGED <<sinkVars, targetVars, searchVars, roundVars>>

\* retain_candidates refuses a selection the sink does not hold.
RetainTaken ==
    /\ pc = "retain"
    /\ IF taken \subseteq kept
       THEN Retain(taken) /\ pc' = "done"
       ELSE pc' = "error" /\ UNCHANGED sinkVars
    /\ UNCHANGED <<targetVars, searchVars, roundVars>>

SinkAnswers ==
    /\ pc # "done"
    /\ AnswerSome
    /\ UNCHANGED <<targetVars, pc, searchVars, roundVars>>

CollectorNext ==
    \/ BeginMatch \/ TakeTask \/ DropTask \/ DeferTask \/ AwaitSlot \/ SubmitTask
    \/ PollAfterSubmit \/ EndSearch
    \/ Drain \/ DrainEnds
    \/ FallbackEnds \/ DropDeferred \/ RotateDeferred \/ SubmitDeferred
    \/ CloseRound \/ CloseSearch \/ RetainTaken

SampleNext == CollectorNext \/ SinkAnswers

SampleSpec == SampleInit /\ [][SampleNext]_sampleVars

\* The search runs, and the sink answers what it was asked (ImageSession).
SampleFairSpec ==
    /\ SampleSpec
    /\ WF_sampleVars(CollectorNext)
    /\ \A p \in Pairs : WF_sampleVars(SinkAnswers /\ media[p]' # media[p])

----------------------------------------------------------------------------
(* The collector's bookkeeping is what its stages rely on: what is viable  *)
(* is exactly what was submitted, is not decided and has not been reported *)
(* as failed; nothing is accepted beyond a target.                         *)
SampleTypeOK ==
    /\ SinkTypeOK
    /\ targets \in [Buckets -> 0..Target]
    /\ \A b \in Buckets :
        /\ committed[b] \in 0..Len(visited[b])
        /\ Accepted(b) <= targets[b]
        /\ viable[b] = Cardinality({p \in Undecided(b) : p \notin reported \/ Success(p)})
    /\ pc \in {"search", "drain", "fallback", "redrain", "close", "retain", "done", "error"}
    /\ current = NoTask \/ current \in Task
    /\ Len(fallback) <= FallbackCapacity + 1

(* The internal errors of the search (no media work under backpressure,    *)
(* a selection the sink does not hold) do not occur, and whenever a        *)
(* collector waits for the sink, a pair of every undecided bucket is still *)
(* to be answered: a bucket's decisions never wait behind a reported pair. *)
WaitsOnlyForDownloads ==
    /\ pc # "error"
    /\ \A b \in Buckets :
        CommitOrder(b) # <<>> => Head(CommitOrder(b)) \notin reported

(* Redistribution moves targets inside a pool and creates none: when the   *)
(* search ends, each pool has at most the pairs asked for, and the sink    *)
(* holds exactly the pairs accepted.                                       *)
PoolTargetsConserved ==
    /\ \A b \in Buckets : Sum([x \in PoolBuckets(b) |-> targets[x]]) = Target
    /\ pc = "done" => kept = taken

(* Which pairs are sampled depends on the order of the visits and on which *)
(* downloads fail, not on which finish first: in a bucket whose target was *)
(* never raised, no success is passed over for a later one.                *)
NoEarlierSuccessPassedOver ==
    \A b \in Buckets \ raised :
        \A i, j \in DOMAIN visited[b] :
            i < j /\ visited[b][j] \in taken =>
                /\ media[visited[b][i]] \in Outcomes
                /\ Success(visited[b][i]) => visited[b][i] \in taken

(* Every round ends: neither backpressure nor the rotation of deferred     *)
(* tasks nor the final drain waits for an answer that never comes.         *)
RoundsEnd == []<>(pc \in {"close", "done"})

(* Insufficient complete pairs are reported, as the README of the program  *)
(* says: the search ends.                                                  *)
SearchEnds == <>(pc = "done")
=============================================================================
