--------------------------- MODULE EvidenceCache ---------------------------
(***************************************************************************)
(* The evidence checkpoint of an analysis run: the meta file and the       *)
(* shards of core/src/reporting/evidence_cache.rs, and the stage of        *)
(* run_inner (cli/src/pipeline.rs) that loads them, decides what to        *)
(* refresh and what to fetch, and writes them back through                 *)
(* EvidenceCacheSink.  Only files survive a run.                           *)
(*                                                                         *)
(* A bundle is reduced to what these decisions read: the pagination bounds *)
(* and the UTC day of its prices, which relations it holds, and which      *)
(* families its quality record reports as failed.                          *)
(***************************************************************************)
EXTENDS Integers, FiniteSets

CONSTANTS
    Candidates,     \* candidate contracts
    Seeds,          \* seed contracts
    SeedLists,      \* seed lists an operator runs with
    RelationsOf,    \* the registry of a list: candidate -> related seeds
    Bounds,         \* values of the pagination limits
    Versions,       \* program versions, oldest first
    MaxDay,         \* bound: days
    BatchSize,      \* DEFAULT_EVIDENCE_CACHE_BATCH
    CrashPoints,    \* where a run may be killed
    MaxCrashes,     \* bound: killed runs
    MaxErrors,      \* bound: loads, refreshes, fetches or writes that fail
    MaxFailures,    \* bound: bundles with a failed family
    NoMeta, NoBundle

ASSUME RelationsType == RelationsOf \in [SeedLists -> [Candidates -> SUBSET Seeds]]
ASSUME BatchAssumption == BatchSize \in Nat \ {0}
ASSUME CacheBounds ==
    /\ Versions \subseteq Nat /\ MaxDay \in Nat \ {0}
    /\ MaxCrashes \in Nat /\ MaxErrors \in Nat /\ MaxFailures \in Nat
ASSUME CrashPointsType == CrashPoints \subseteq {"between", "flush", "meta", "clear"}

Families == {"deep", "prices", "holders"}

Days == 1..MaxDay

Meta == [version : Versions, bounds : Bounds, day : Days]

Bundle == [bounds : Bounds, day : Days,
           rel : [Seeds -> {"absent", "blank", "real"}],
           failed : SUBSET Families]

ASSUME NoMetaAssumption == NoMeta \notin Meta
ASSUME NoBundleAssumption == NoBundle \notin Bundle

VARIABLES
    meta,           \* evidence_cache.meta.json
    shard,          \* the shard file of each candidate
    version,        \* the program's EVIDENCE_CACHE_VERSION
    pc,             \* the stage of the run
    day, bounds, list,                      \* the run's parameters
    evidence,       \* bundles in memory
    missing, priceOnly, holderOnly, relationOnly,   \* the run's plan
    toPush,         \* refreshed bundles not yet handed to the sink
    pending,        \* the sink's buffer
    fetched,        \* what the deep fetch returned so far
    crashes, errors, failures,              \* bounded faults so far
    metaLost,       \* history: shards were once left without their meta file
    passedOver      \* history: shards that the run which stamped a newer day
                    \* in the meta file had not renewed

disk == <<meta, shard, passedOver>>
params == <<version, day, bounds, list>>
plan == <<missing, priceOnly, holderOnly, relationOnly>>
memory == <<evidence, toPush, pending, fetched>>
faults == <<crashes, errors, failures, metaLost>>
vars == <<disk, params, pc, plan, memory, faults>>

None == [c \in Candidates |-> NoBundle]

Held(f) == {c \in Candidates : f[c] # NoBundle}

\* registry.candidate_contracts() of the current seed list
Current == {c \in Candidates : RelationsOf[list][c] # {}}

----------------------------------------------------------------------------
Init ==
    /\ meta = NoMeta
    /\ shard = None
    /\ version \in Versions
    /\ pc = "off"
    /\ day = 1
    /\ bounds \in Bounds
    /\ list \in SeedLists
    /\ evidence = None
    /\ missing = {} /\ priceOnly = {} /\ holderOnly = {} /\ relationOnly = {}
    /\ toPush = {}
    /\ pending = None
    /\ fetched = None
    /\ crashes = 0 /\ errors = 0 /\ failures = 0
    /\ metaLost = FALSE
    /\ passedOver = {}

(* The process is gone; its memory with it. *)
Gone ==
    /\ pc' = "off"
    /\ evidence' = None
    /\ missing' = {} /\ priceOnly' = {} /\ holderOnly' = {} /\ relationOnly' = {}
    /\ toPush' = {}
    /\ pending' = None
    /\ fetched' = None

(* A run starts: evidence_cache_params with the day of the moment, possibly *)
(* with other limits, other seeds or a newer program than the last run's.   *)
StartRun ==
    /\ pc = "off"
    /\ version' \in {v \in Versions : v >= version}
    /\ day' \in day..MaxDay
    /\ bounds' \in Bounds
    /\ list' \in SeedLists
    /\ pc' = "load"
    /\ UNCHANGED <<disk, plan, memory, faults>>

(* sharded_layout_active: the entries directory is created before the meta *)
(* file is written and removed after it, so the meta file decides.          *)
ShardedLayout == meta # NoMeta

\* Mutant: the bounds are not compared.
LoadableUnderAnyBounds == ShardedLayout /\ meta.version = version

(* load_evidence_cache_resumable followed by validate_evidence_cache. *)
Loadable == ShardedLayout /\ meta.version = version /\ meta.bounds = bounds

(* reconcile_cached_relation_legit: relations of the current registry that *)
(* the bundle lacks are filled with default signals; others are dropped.   *)
Reconciled(b, c) ==
    [b EXCEPT !.rel = [s \in Seeds |->
        IF s \notin RelationsOf[list][c] THEN "absent"
        ELSE IF b.rel[s] = "absent" THEN "blank"
        ELSE b.rel[s]]]

LacksRelation(b, c) == \E s \in RelationsOf[list][c] : b.rel[s] = "absent"

Cached == IF Loadable THEN Held(shard) \intersect Current ELSE {}

(* The evidence stage up to the decision whether HTTP is needed at all,    *)
(* from the bundles that were loaded.                                      *)
Plan(cached) ==
    LET stale == Loadable /\ meta.day # day
        miss == {c \in Current : c \notin cached \/ "deep" \in shard[c].failed}
        kept == cached \ miss
        price == {c \in kept : stale \/ "prices" \in shard[c].failed}
        holder == {c \in kept : "holders" \in shard[c].failed}
        relation == {c \in kept : LacksRelation(shard[c], c)}
    IN
    /\ evidence' = [c \in Candidates |->
                      IF c \in cached THEN Reconciled(shard[c], c) ELSE NoBundle]
    /\ missing' = miss
    /\ priceOnly' = price
    /\ holderOnly' = holder
    /\ relationOnly' = relation
    /\ pc' = IF miss \union price \union holder \union relation = {}
             THEN "analyze" ELSE "create"

LoadAndPlan ==
    /\ pc = "load"
    /\ Plan(Cached)
    /\ UNCHANGED <<disk, params, toPush, pending, fetched, faults>>

(* "no usable cache yet": a meta file or shard that cannot be read leaves  *)
(* the run without any bundle, and the files as they are.                  *)
LoadFails ==
    /\ pc = "load"
    /\ ShardedLayout
    /\ errors < MaxErrors
    /\ errors' = errors + 1
    /\ Plan({})
    /\ UNCHANGED <<disk, params, toPush, pending, fetched, crashes, failures,
                   metaLost>>

NewMeta == [version |-> version, bounds |-> bounds, day |-> day]

\* Mutant: the new day is stamped before the refresh.
CreateSinkStamped ==
    /\ pc = "create"
    /\ ShardedLayout => meta.version = version
    /\ meta' = NewMeta
    /\ shard' = IF ShardedLayout /\ meta.bounds # bounds THEN None ELSE shard
    /\ pc' = "prices"
    /\ UNCHANGED <<passedOver, params, plan, memory, faults>>

(* EvidenceCacheSink::create: keep a compatible cache with its meta, clear *)
(* one with other bounds, refuse one of another version.                   *)
CreateSink ==
    /\ pc = "create"
    /\ ShardedLayout => meta.version = version
    /\ IF ShardedLayout /\ meta.bounds = bounds
       THEN UNCHANGED disk
       ELSE /\ meta' = NewMeta
            /\ shard' = IF ShardedLayout THEN None ELSE shard
            /\ passedOver' = {}
    /\ pc' = "prices"
    /\ UNCHANGED <<params, plan, memory, faults>>

CreateRefused ==
    /\ pc = "create"
    /\ ShardedLayout
    /\ meta.version # version
    /\ pc' = "refused"
    /\ UNCHANGED <<disk, params, plan, memory, faults>>

(* A refused run has returned its error; the process ends. *)
LeaveRefused ==
    /\ pc = "refused"
    /\ Gone
    /\ UNCHANGED <<disk, params, faults>>

----------------------------------------------------------------------------
(* EvidenceCacheSink.  One shard per candidate: a write replaces it.       *)
With(p, c, b) == [p EXCEPT ![c] = b]

Full(p) == Cardinality(Held(p)) >= BatchSize

Written(p) == [c \in Candidates |-> IF p[c] # NoBundle THEN p[c] ELSE shard[c]]

(* push: a later bundle of the same candidate replaces the pending one.    *)
Push(c, b) ==
    LET p == With(pending, c, b) IN
    IF Full(p) THEN shard' = Written(p) /\ pending' = None
               ELSE pending' = p /\ UNCHANGED shard

Fail(k) ==
    /\ failures + k <= MaxFailures
    /\ failures' = failures + k

\* A refresh replaces one family of the quality record.
Refreshed(b, family, bad) ==
    [b EXCEPT !.failed = IF bad THEN @ \union {family} ELSE @ \ {family}]

(* refresh_cached_prices: new quotes for every bundle of price_only, some  *)
(* of which may fail on their own.  push follows for each of them.         *)
RefreshPrices ==
    /\ pc = "prices"
    /\ \E bad \in SUBSET priceOnly :
          /\ Fail(Cardinality(bad))
          /\ evidence' = [c \in Candidates |->
                             IF c \in priceOnly
                             THEN Refreshed([evidence[c] EXCEPT !.day = day],
                                            "prices", c \in bad)
                             ELSE evidence[c]]
    /\ toPush' = priceOnly
    /\ pc' = "pushPrices"
    /\ UNCHANGED <<disk, params, plan, pending, fetched, crashes, errors, metaLost>>

(* refresh_cached_evm_holders *)
RefreshHolders ==
    /\ pc = "holders"
    /\ \E bad \in SUBSET holderOnly :
          /\ Fail(Cardinality(bad))
          /\ evidence' = [c \in Candidates |->
                             IF c \in holderOnly
                             THEN Refreshed(evidence[c], "holders", c \in bad)
                             ELSE evidence[c]]
    /\ toPush' = holderOnly
    /\ pc' = "pushHolders"
    /\ UNCHANGED <<disk, params, plan, pending, fetched, crashes, errors, metaLost>>

Requested(c) ==
    [s \in Seeds |-> IF s \in RelationsOf[list][c] THEN "real" ELSE "absent"]

(* refresh_relation_legit *)
RefreshRelations ==
    /\ pc = "relations"
    /\ evidence' = [c \in Candidates |->
                       IF c \in relationOnly
                       THEN [evidence[c] EXCEPT !.rel = Requested(c)]
                       ELSE evidence[c]]
    /\ toPush' = relationOnly
    /\ pc' = "pushRelations"
    /\ UNCHANGED <<disk, params, plan, pending, fetched, faults>>

(* A refresh that returns an error leaves run_inner at once: the sink is   *)
(* dropped without finish.                                                 *)
RefreshFails ==
    /\ \/ pc = "prices" /\ priceOnly # {}
       \/ pc = "holders" /\ holderOnly # {}
       \/ pc = "relations" /\ relationOnly # {}
    /\ errors < MaxErrors
    /\ errors' = errors + 1
    /\ Gone
    /\ UNCHANGED <<disk, params, crashes, failures, metaLost>>

AfterPushes == [pushPrices |-> "holders", pushHolders |-> "relations",
                pushRelations |-> "fetch"]

(* The loop that hands the refreshed bundles to the sink. *)
PushRefreshed ==
    /\ pc \in DOMAIN AfterPushes
    /\ \E c \in toPush :
          /\ Push(c, evidence[c])
          /\ toPush' = toPush \ {c}
    /\ UNCHANGED <<meta, passedOver, params, pc, plan, evidence, fetched, faults>>

PushesDone ==
    /\ pc \in DOMAIN AfterPushes
    /\ toPush = {}
    /\ pc' = AfterPushes[pc]
    /\ UNCHANGED <<disk, params, plan, memory, faults>>

(* What the deep fetch of a candidate yields. *)
FetchedBundle(c, bad) ==
    [bounds |-> bounds, day |-> day, rel |-> Requested(c), failed |-> bad]

(* enrich_candidates_with_hook: one more candidate is finished, in any     *)
(* order, and on_bundle pushes it.                                         *)
FetchOne(c) ==
    /\ pc = "fetch"
    /\ c \in missing \ Held(fetched)
    /\ \E bad \in SUBSET Families :
          /\ Fail(IF bad = {} THEN 0 ELSE 1)
          /\ Push(c, FetchedBundle(c, bad))
          /\ fetched' = With(fetched, c, FetchedBundle(c, bad))
    /\ UNCHANGED <<meta, passedOver, params, pc, plan, evidence, toPush, crashes,
                   errors, metaLost>>

\* A write that breaks off: some shards are written, one of the others may
\* be away, renamed to its backup, and the rest of the buffer is lost.
Interrupted(p, done) ==
    \E torn \in SUBSET (Held(p) \ done) :
       /\ Cardinality(torn) <= 1
       /\ shard' = [c \in Candidates |-> IF c \in done THEN p[c]
                                        ELSE IF c \in torn THEN NoBundle
                                        ELSE shard[c]]

(* The meta file gets the run's day.  Shards stay behind that the run has  *)
(* neither refreshed nor fetched, or whose new bundle was dropped before   *)
(* it was written; on an unchanged day, those that were behind already.    *)
Stamp(answered, dropped) ==
    LET renewed == (answered \ dropped) \union
                   (IF meta.day = day THEN Candidates \ passedOver
                                      ELSE (Current \ missing) \ dropped)
    IN
    /\ meta' = NewMeta
    /\ passedOver' = Held(shard') \ renewed

\* The rewrite of the meta file fails: the old one stays, or is away if the
\* roll-back fails too.
StampFails ==
    /\ meta' \in {meta, NoMeta}
    /\ metaLost' = (metaLost \/ meta' = NoMeta)
    /\ UNCHANGED passedOver

\* Mutant: finish only flushes.
FinishSinkWithoutMeta ==
    /\ shard' = Written(pending)
    /\ UNCHANGED <<meta, passedOver, metaLost>>

(* sink.finish() is called whatever the fetch returned.                    *)
FinishSink ==
    /\ shard' = Written(pending)
    /\ Stamp(Held(fetched), {})
    /\ UNCHANGED metaLost

(* It returns an error: the flush broke off and the meta file was not      *)
(* touched, or its rewrite failed.                                         *)
FinishSinkFails ==
    \/ /\ \E done \in SUBSET Held(pending) :
             done # Held(pending) /\ Interrupted(pending, done)
       /\ UNCHANGED <<meta, passedOver, metaLost>>
    \/ shard' = Written(pending) /\ StampFails

\* evidence.extend(fetched)
Extended ==
    evidence' = [c \in Candidates |-> IF fetched[c] # NoBundle THEN fetched[c]
                                                             ELSE evidence[c]]

FinishRun ==
    /\ pc = "fetch"
    /\ missing = Held(fetched)
    /\ FinishSink
    /\ pending' = None
    /\ Extended
    /\ pc' = "analyze"
    /\ UNCHANGED <<params, plan, toPush, fetched, crashes, errors, failures>>

(* "final cache flush failed" is printed and the run goes on.              *)
FinishRunUnsaved ==
    /\ pc = "fetch"
    /\ missing = Held(fetched)
    /\ errors < MaxErrors
    /\ errors' = errors + 1
    /\ FinishSinkFails
    /\ pending' = None
    /\ Extended
    /\ pc' = "unsaved"
    /\ UNCHANGED <<params, plan, toPush, fetched, crashes, failures>>

(* The fetch returns an error, or the run is cancelled.                    *)
FetchFails ==
    /\ pc = "fetch"
    /\ missing # Held(fetched)
    /\ errors < MaxErrors
    /\ errors' = errors + 1
    /\ FinishSink \/ FinishSinkFails
    /\ Gone
    /\ UNCHANGED <<params, crashes, failures>>

(* The flush inside on_bundle fails.  That ends the fetch, what it had not *)
(* written is dropped, and finish finds an empty buffer to flush.          *)
HookFails(c) ==
    /\ pc = "fetch"
    /\ c \in missing \ Held(fetched)
    /\ errors < MaxErrors
    /\ errors' = errors + 1
    /\ \E bad \in SUBSET Families :
          LET p == With(pending, c, FetchedBundle(c, bad)) IN
          /\ Fail(IF bad = {} THEN 0 ELSE 1)
          /\ Full(p)
          /\ \E done \in SUBSET Held(p) :
                /\ done # Held(p)
                /\ Interrupted(p, done)
                /\ \/ /\ Stamp(Held(fetched) \union {c}, Held(p) \ done)
                      /\ UNCHANGED metaLost
                   \/ StampFails
    /\ Gone
    /\ UNCHANGED <<params, crashes>>

Analyzing == pc \in {"analyze", "unsaved"}

(* The rest of run_inner reads the evidence; the run ends. *)
EndRun ==
    /\ Analyzing
    /\ Gone
    /\ UNCHANGED <<disk, params, faults>>

----------------------------------------------------------------------------
(* The process is killed, or a file operation of push or create hands an   *)
(* error up with `?`, which ends the run as abruptly.  Between two file    *)
(* operations it only loses its memory; the other cases are the windows    *)
(* inside flush, inside the rewrite of the meta file, and inside           *)
(* clear_evidence_artifacts (meta first, then entries).                    *)
Crash(point) ==
    /\ point \in CrashPoints
    /\ crashes < MaxCrashes
    /\ crashes' = crashes + 1
    /\ metaLost' = (metaLost \/ point \in {"meta", "clear"})
    /\ Gone
    /\ UNCHANGED <<params, errors, failures>>

CrashBetween ==
    /\ pc # "off"
    /\ Crash("between")
    /\ UNCHANGED disk

Breaks(p) == \E done \in SUBSET Held(p) : Interrupted(p, done)

CrashInFlush ==
    /\ \/ /\ pc \in DOMAIN AfterPushes
          /\ \E c \in toPush :
                LET p == With(pending, c, evidence[c])
                IN Full(p) /\ Breaks(p)
       \/ /\ pc = "fetch"
          /\ \E c \in missing \ Held(fetched) :
                LET p == With(pending, c, FetchedBundle(c, {}))
                IN Full(p) /\ Breaks(p)
       \/ pc = "fetch" /\ Breaks(pending)
    /\ Crash("flush")
    /\ UNCHANGED <<meta, passedOver>>

CrashInMeta ==
    /\ pc = "fetch"
    /\ Crash("meta")
    /\ shard' = Written(pending)
    /\ meta' = NoMeta
    /\ UNCHANGED passedOver

CrashInClear ==
    /\ pc = "create"
    /\ ShardedLayout
    /\ meta.version = version
    /\ meta.bounds # bounds
    /\ Crash("clear")
    /\ meta' = NoMeta
    /\ \E left \in SUBSET Held(shard) :
          shard' = [c \in Candidates |-> IF c \in left THEN shard[c] ELSE NoBundle]
    /\ UNCHANGED passedOver

Next ==
    \/ StartRun
    \/ LoadAndPlan
    \/ LoadFails
    \/ CreateSink
    \/ CreateRefused
    \/ LeaveRefused
    \/ RefreshPrices
    \/ RefreshHolders
    \/ RefreshRelations
    \/ RefreshFails
    \/ PushRefreshed
    \/ PushesDone
    \/ \E c \in Candidates : FetchOne(c)
    \/ FinishRun
    \/ FinishRunUnsaved
    \/ FetchFails
    \/ \E c \in Candidates : HookFails(c)
    \/ EndRun
    \/ CrashBetween
    \/ CrashInFlush
    \/ CrashInMeta
    \/ CrashInClear

Spec == Init /\ [][Next]_vars

----------------------------------------------------------------------------
(* Every variable keeps its type; a run that is not fetching has no buffer. *)
TypeOK ==
    /\ meta \in Meta \union {NoMeta}
    /\ shard \in [Candidates -> Bundle \union {NoBundle}]
    /\ version \in Versions /\ day \in Days /\ bounds \in Bounds
    /\ list \in SeedLists
    /\ evidence \in [Candidates -> Bundle \union {NoBundle}]
    /\ pending \in [Candidates -> Bundle \union {NoBundle}]
    /\ fetched \in [Candidates -> Bundle \union {NoBundle}]
    /\ missing \subseteq Candidates
    /\ priceOnly \union holderOnly \union relationOnly \subseteq Held(evidence)
    /\ toPush \subseteq Held(evidence)
    /\ metaLost \in BOOLEAN
    /\ passedOver \subseteq Candidates
    /\ pc \in {"off", "load", "create", "analyze", "unsaved", "refused"} =>
          pending = None

(* "Pagination bounds must match": the bundles a run analyses were         *)
(* collected under the pagination bounds of that run, unless a kill or a   *)
(* failed roll-back once left shards without their meta file (the next run *)
(* then adopts them whatever their bounds).                                *)
AnalyzedWithinBounds ==
    Analyzing /\ ~metaLost =>
        \A c \in Held(evidence) : evidence[c].bounds = bounds

(* "A stale pricing day triggers a price-only refresh": the prices a run   *)
(* analyses are of the day of the run.  Besides shards that lost their     *)
(* meta file, the only bundles that may be older are those that an earlier *)
(* run of the same day passed over when it stamped the meta file: because  *)
(* its seed list did not relate the candidate, its fetch failed before the *)
(* candidate's turn, or a failed flush dropped the new bundle.             *)
AnalyzedPricesCurrent ==
    Analyzing /\ ~metaLost =>
        \A c \in Held(evidence) : c \in passedOver \/ evidence[c].day = day

(* The same claim as the module documentation makes it, for every bundle.  *)
PricesAreOfTheDay ==
    Analyzing => \A c \in Held(evidence) : evidence[c].day = day

(* reconcile_cached_relation_legit aligns "seed-scoped legitimacy results  *)
(* to the current registry": every relation a run analyses was requested   *)
(* from the providers by some run, and never is the default filled in for  *)
(* a relation the cache lacked.                                            *)
RelationsRequested ==
    Analyzing =>
        \A c \in Current : \A s \in RelationsOf[list][c] :
            evidence[c].rel[s] = "real"

(* A run that reaches the analysis analyses every candidate.  Unless it    *)
(* has reported that the final flush failed, it leaves a checkpoint from   *)
(* which a rerun with the same parameters gets the same bundles without    *)
(* lacking anything.                                                       *)
CheckpointComplete ==
    Current # {} =>
        /\ Analyzing => Held(evidence) = Current
        /\ pc = "analyze" =>
              /\ Loadable
              /\ meta.day = day
              /\ \A c \in Current :
                    /\ shard[c] # NoBundle
                    /\ evidence[c] = Reconciled(shard[c], c)
                    /\ ~LacksRelation(shard[c], c)
=============================================================================
