------------------------ MODULE EvidenceCacheProofs ------------------------
(***************************************************************************)
(* Theorems about EvidenceCache, for any candidates, seeds, seed lists,    *)
(* bounds, versions, batch size and number of faults: what a run analyses  *)
(* was collected under its own bounds, is as old as its pricing day says,  *)
(* and is on the disk when the run gets that far.                          *)
(***************************************************************************)
EXTENDS EvidenceCache, TLAPS

InRun == {"prices", "pushPrices", "holders", "pushHolders", "relations",
          "pushRelations", "fetch"}

\* The candidates of the run that are not fetched again.
Kept == Current \ missing

\* What the shards will be once the sink's buffer is flushed.
OnDisk(c) == Written(pending)[c]

\* The bundle has signals for the relations of the registry and no others.
Aligned(b, c) ==
    \A s \in Seeds : b.rel[s] = "absent" <=> s \notin RelationsOf[list][c]

-----------------------------------------------------------------------------
(* The invariant behind CheckpointComplete                                 *)

StateTyped ==
    /\ meta \in Meta \union {NoMeta}
    /\ shard \in [Candidates -> Bundle \union {NoBundle}]
    /\ version \in Versions /\ day \in Days /\ bounds \in Bounds
    /\ list \in SeedLists
    /\ evidence \in [Candidates -> Bundle \union {NoBundle}]
    /\ pending \in [Candidates -> Bundle \union {NoBundle}]
    /\ fetched \in [Candidates -> Bundle \union {NoBundle}]
    /\ missing \subseteq Candidates
    /\ priceOnly \union holderOnly \union relationOnly \subseteq Candidates
    /\ toPush \subseteq Candidates
    /\ metaLost \in BOOLEAN

\* Nothing is left over from an earlier stage.
Idle ==
    /\ pc \notin DOMAIN AfterPushes => toPush = {}
    /\ pc \notin {"fetch", "analyze", "unsaved"} => fetched = None
    /\ pc \in {"off", "load", "create", "analyze", "unsaved", "refused"} =>
          pending = None

\* What is in memory fits the registry of the run.
MemoryAligned == \A c \in Held(evidence) : Aligned(evidence[c], c)

\* The plan covers the run's candidates.
Planned ==
    pc \in {"create"} \union InRun =>
        /\ Held(evidence) \subseteq Current
        /\ missing \subseteq Current
        /\ Kept \subseteq Held(evidence)
        /\ priceOnly \union holderOnly \union relationOnly \subseteq Kept
        /\ toPush \subseteq Kept
        /\ MemoryAligned

\* The shards are those that were loaded.
AsLoaded ==
    \A c \in Kept :
        /\ shard[c] # NoBundle
        /\ evidence[c] = Reconciled(shard[c], c)
        /\ LacksRelation(shard[c], c) => c \in relationOnly

AtCreate ==
    pc = "create" => (Held(evidence) # {} => Loadable) /\ AsLoaded

\* The shard of a candidate may lack a relation until its refreshed bundle
\* is handed to the sink.
NotYetAligned(c) ==
    /\ c \in relationOnly
    /\ \/ pc \in InRun \ {"pushRelations", "fetch"}
       \/ pc = "pushRelations" /\ c \in toPush

\* The shards and the buffer together say what the memory says, except of
\* what waits to be pushed.
KeptOnDisk ==
    \A c \in Kept :
        /\ OnDisk(c) # NoBundle
        /\ c \in toPush \/ evidence[c] = Reconciled(OnDisk(c), c)
        /\ LacksRelation(OnDisk(c), c) => NotYetAligned(c)

FetchedOnDisk ==
    \A c \in Held(fetched) :
        /\ c \in missing
        /\ OnDisk(c) = fetched[c]
        /\ fetched[c].rel = Requested(c)

Running == pc \in InRun => Loadable /\ KeptOnDisk /\ FetchedOnDisk

CheckInv ==
    StateTyped /\ Idle /\ Planned /\ AtCreate /\ Running /\ CheckpointComplete

-----------------------------------------------------------------------------
(* Lemmas about the operators of the checkpoint                            *)

LEMMA ReconciledBundle ==
    ASSUME NEW b \in Bundle, NEW c \in Candidates, list \in SeedLists
    PROVE  /\ Reconciled(b, c) \in Bundle
           /\ Aligned(Reconciled(b, c), c)
           /\ Reconciled(b, c).bounds = b.bounds
           /\ Reconciled(b, c).day = b.day
           /\ Reconciled(b, c).failed = b.failed
  BY RelationsType DEF Reconciled, Aligned, Bundle

LEMMA AlignedIsReconciled ==
    ASSUME NEW b \in Bundle, NEW c \in Candidates, list \in SeedLists,
           Aligned(b, c)
    PROVE  b = Reconciled(b, c) /\ ~LacksRelation(b, c)
  <1>1. b.rel = [s \in Seeds |->
                   IF s \notin RelationsOf[list][c] THEN "absent"
                   ELSE IF b.rel[s] = "absent" THEN "blank"
                   ELSE b.rel[s]]
    BY DEF Aligned, Bundle
  <1>2. b = Reconciled(b, c)
    BY <1>1 DEF Reconciled, Bundle
  <1> QED  BY <1>2, RelationsType DEF Aligned, LacksRelation

LEMMA RequestedRelations ==
    ASSUME NEW b \in Bundle, NEW c \in Candidates, b.rel = Requested(c)
    PROVE  Aligned(b, c)
  BY DEF Aligned, Requested

LEMMA RefreshedBundle ==
    ASSUME NEW b \in Bundle, NEW f \in Families, NEW bad \in BOOLEAN,
           day \in Days
    PROVE  /\ Refreshed(b, f, bad) \in Bundle
           /\ Refreshed([b EXCEPT !.day = day], f, bad) \in Bundle
           /\ Refreshed(b, f, bad).rel = b.rel
           /\ Refreshed(b, f, bad).bounds = b.bounds
           /\ Refreshed(b, f, bad).day = b.day
           /\ Refreshed([b EXCEPT !.day = day], f, bad).rel = b.rel
           /\ Refreshed([b EXCEPT !.day = day], f, bad).bounds = b.bounds
           /\ Refreshed([b EXCEPT !.day = day], f, bad).day = day
  BY DEF Refreshed, Bundle

\* A push changes what will be on the disk of its candidate only.
LEMMA PushWrites ==
    ASSUME NEW c \in Candidates, NEW b \in Bundle, Push(c, b),
           pending \in [Candidates -> Bundle \union {NoBundle}],
           shard \in [Candidates -> Bundle \union {NoBundle}]
    PROVE  /\ pending' \in [Candidates -> Bundle \union {NoBundle}]
           /\ shard' \in [Candidates -> Bundle \union {NoBundle}]
           /\ \A d \in Candidates :
                 OnDisk(d)' = IF d = c THEN b ELSE OnDisk(d)
  <1> DEFINE p == With(pending, c, b)
  <1>1. /\ p \in [Candidates -> Bundle \union {NoBundle}]
        /\ p[c] = b /\ \A d \in Candidates \ {c} : p[d] = pending[d]
    BY DEF With
  <1>2. b # NoBundle
    BY NoBundleAssumption
  <1>3. CASE Full(p)
    <2>1. shard' = Written(p) /\ pending' = None
      BY <1>3 DEF Push
    <2>2. \A d \in Candidates : OnDisk(d)' = shard'[d]
      BY <2>1 DEF OnDisk, Written, None
    <2>3. \A d \in Candidates : shard'[d] = IF d = c THEN b ELSE OnDisk(d)
      BY <1>1, <1>2, <2>1 DEF OnDisk, Written
    <2>4. shard' \in [Candidates -> Bundle \union {NoBundle}]
      BY <1>1, <2>1 DEF Written
    <2>5. pending' \in [Candidates -> Bundle \union {NoBundle}]
      BY <2>1 DEF None
    <2> QED  BY <2>2, <2>3, <2>4, <2>5
  <1>4. CASE ~Full(p)
    <2>1. pending' = p /\ shard' = shard
      BY <1>4 DEF Push
    <2>2. \A d \in Candidates : OnDisk(d)' = IF d = c THEN b ELSE OnDisk(d)
      BY <1>1, <1>2, <2>1 DEF OnDisk, Written
    <2> QED  BY <1>1, <2>1, <2>2
  <1> QED  BY <1>3, <1>4

LEMMA WrittenType ==
    ASSUME NEW p \in [Candidates -> Bundle \union {NoBundle}],
           shard \in [Candidates -> Bundle \union {NoBundle}]
    PROVE  Written(p) \in [Candidates -> Bundle \union {NoBundle}]
  BY DEF Written
-----------------------------------------------------------------------------
(* CheckInv is inductive                                                   *)

LEMMA CheckInit == Init => CheckInv
  <1> SUFFICES ASSUME Init PROVE CheckInv
    OBVIOUS
  <1>1. None \in [Candidates -> Bundle \union {NoBundle}] /\ 1 \in Days
    BY CacheBounds DEF None, Days
  <1>2. StateTyped
    BY <1>1 DEF Init, StateTyped
  <1>3. pc = "off" /\ toPush = {} /\ fetched = None /\ pending = None
    BY DEF Init
  <1> QED
    BY <1>2, <1>3
    DEF CheckInv, Idle, Planned, AtCreate, Running, CheckpointComplete, Analyzing, InRun,
        AfterPushes

\* A process that is gone leaves nothing but the disk.
LEMMA CheckGone ==
    ASSUME StateTyped, Gone, UNCHANGED params, metaLost' \in BOOLEAN,
           meta' \in Meta \union {NoMeta},
           shard' \in [Candidates -> Bundle \union {NoBundle}]
    PROVE  CheckInv'
  BY DEF StateTyped, Gone, params, CheckInv, Idle, Planned, AtCreate, Running,
         CheckpointComplete, Analyzing, InRun, None, AfterPushes

LEMMA CheckStart == CheckInv /\ StartRun => CheckInv'
  BY CacheBounds
  DEF CheckInv, StartRun, StateTyped, Idle, Planned, AtCreate, Running,
      CheckpointComplete, Analyzing, InRun, disk, plan, memory, faults, Days,
      AfterPushes

\* A plan made from the bundles that were loaded, or from none.
LEMMA CheckPlan ==
    ASSUME NEW cached, cached = Cached \/ cached = {}, CheckInv, pc = "load",
           Plan(cached),
           UNCHANGED <<disk, params, toPush, pending, fetched, metaLost>>
    PROVE  CheckInv'
  <1> DEFINE stale == Loadable /\ meta.day # day
             miss == {c \in Current : c \notin cached \/
                                      "deep" \in shard[c].failed}
             kept == cached \ miss
             price == {c \in kept : stale \/ "prices" \in shard[c].failed}
             holder == {c \in kept : "holders" \in shard[c].failed}
             relation == {c \in kept : LacksRelation(shard[c], c)}
  <1>1. /\ pc = "load"
        /\ evidence' = [c \in Candidates |->
                           IF c \in cached THEN Reconciled(shard[c], c)
                           ELSE NoBundle]
        /\ missing' = miss /\ priceOnly' = price /\ holderOnly' = holder
        /\ relationOnly' = relation
        /\ pc' = IF miss \union price \union holder \union relation = {}
                 THEN "analyze" ELSE "create"
    BY DEF Plan
  <1>2. /\ UNCHANGED <<meta, shard, version, day, bounds, list, toPush,
                       pending, fetched, metaLost>>
        /\ StateTyped /\ Idle
    BY DEF disk, params, CheckInv
  <1>0. \/ cached = {}
        \/ Loadable /\ cached = Held(shard) \intersect Current
    <2>1. CASE Loadable
      BY <2>1 DEF Cached
    <2>2. CASE ~Loadable
      BY <2>2 DEF Cached
    <2> QED  BY <2>1, <2>2
  <1> HIDE DEF stale, miss, kept, price, holder, relation
  <1>3. /\ Current' = Current /\ Current \subseteq Candidates
        /\ cached \subseteq Current
        /\ \A c \in cached : shard[c] # NoBundle
    BY <1>0, <1>2 DEF Current, Held
  <1>4. \A c \in cached : /\ shard[c] \in Bundle
                          /\ Reconciled(shard[c], c) \in Bundle
                          /\ Aligned(Reconciled(shard[c], c), c)
    BY <1>2, <1>3, ReconciledBundle DEF StateTyped
  <1>5. Held(evidence)' = cached
    BY <1>1, <1>3, <1>4, NoBundleAssumption DEF Held
  <1>6. StateTyped'
    <2>1. evidence' \in [Candidates -> Bundle \union {NoBundle}]
      BY <1>1, <1>3, <1>4
    <2>2. miss \subseteq Candidates /\ price \subseteq Candidates
          /\ holder \subseteq Candidates /\ relation \subseteq Candidates
      BY <1>3 DEF miss, price, holder, relation, kept
    <2> QED  BY <1>1, <1>2, <2>1, <2>2 DEF StateTyped
  <1>7. Idle'
    BY <1>1, <1>2 DEF Idle, AfterPushes
  <1>8. Kept' = kept
    BY <1>1, <1>3 DEF Kept, kept, miss
  <1>9. Planned'
    <2>1. miss \subseteq Current /\ kept \subseteq cached
          /\ price \union holder \union relation \subseteq kept
      BY DEF miss, kept, price, holder, relation
    <2>2. toPush' = {}
      BY <1>1, <1>2 DEF Idle, AfterPushes
    <2>3. \A c \in cached : evidence'[c] = Reconciled(shard[c], c)
      BY <1>1, <1>3
    <2>4. MemoryAligned'
      BY <1>2, <1>4, <1>5, <2>3 DEF Aligned, MemoryAligned
    <2> QED  BY <1>1, <1>3, <1>5, <1>8, <2>1, <2>2, <2>4 DEF Planned
  <1>10. \A c \in cached : Reconciled(shard[c], c)' = Reconciled(shard[c], c)
    BY <1>2 DEF Reconciled
  <1>11. \A c \in cached : LacksRelation(shard[c], c)'
                           = LacksRelation(shard[c], c)
    BY <1>2 DEF LacksRelation
  <1>12. Loadable' = Loadable
    BY <1>2 DEF Loadable, ShardedLayout
  <1>13. AtCreate'
    <2>1. cached # {} => Loadable
      BY <1>0
    <2>3. AsLoaded'
      <3> SUFFICES ASSUME NEW c \in kept
                   PROVE  /\ shard'[c] # NoBundle
                          /\ evidence'[c] = Reconciled(shard[c], c)'
                          /\ LacksRelation(shard[c], c)' => c \in relationOnly'
        BY <1>8 DEF AsLoaded
      <3>1. /\ Reconciled(shard[c], c)' = Reconciled(shard[c], c)
            /\ LacksRelation(shard[c], c)' = LacksRelation(shard[c], c)
        BY <1>2 DEF Reconciled, LacksRelation
      <3>2. c \in cached /\ c \in Candidates /\ shard[c] # NoBundle
        BY <1>3 DEF kept
      <3>3. shard'[c] # NoBundle /\ evidence'[c] = Reconciled(shard[c], c)
        BY <1>1, <1>2, <3>2
      <3>4. LacksRelation(shard[c], c) => c \in relationOnly'
        BY <1>1 DEF relation
      <3> QED  BY <3>1, <3>3, <3>4
    <2> QED  BY <1>5, <1>8, <1>12, <2>1, <2>3 DEF AtCreate
  <1>14. Running'
    BY <1>1 DEF Running, InRun
  <1>15. CheckpointComplete'
    <2> SUFFICES ASSUME pc' \in {"analyze", "unsaved"}, Current # {}
                 PROVE  /\ Held(evidence)' = Current
                        /\ Loadable /\ meta.day = day
                        /\ \A c \in Current :
                              /\ shard[c] # NoBundle
                              /\ evidence'[c] = Reconciled(shard[c], c)
                              /\ ~LacksRelation(shard[c], c)
      BY <1>2, <1>3, <1>5, <1>10, <1>11, <1>12 DEF CheckpointComplete, Analyzing
    <2>1. miss = {} /\ price = {} /\ relation = {}
      BY <1>1
    <2>2. cached = Current /\ kept = Current
      BY <1>3, <2>1 DEF miss, kept
    <2>3. Loadable
      BY <1>0, <2>2
    <2>4. meta.day = day
      BY <2>1, <2>2, <2>3 DEF price, stale
    <2>5. \A c \in Current : shard[c] # NoBundle
      BY <1>3, <2>2
    <2>6. \A c \in Current : ~LacksRelation(shard[c], c)
      BY <2>1, <2>2 DEF relation
    <2> QED  BY <1>1, <1>3, <1>5, <2>2, <2>3, <2>4, <2>5, <2>6
  <1> QED  BY <1>6, <1>7, <1>9, <1>13, <1>14, <1>15 DEF CheckInv

LEMMA CheckLoad == CheckInv /\ (LoadAndPlan \/ LoadFails) => CheckInv'
  <1>1. ASSUME CheckInv, LoadAndPlan PROVE CheckInv'
    BY <1>1, CheckPlan DEF LoadAndPlan, faults
  <1>2. ASSUME CheckInv, LoadFails PROVE CheckInv'
    BY <1>2, CheckPlan DEF LoadFails
  <1> QED  BY <1>1, <1>2

LEMMA CheckCreate == CheckInv /\ CreateSink => CheckInv'
  <1> SUFFICES ASSUME CheckInv, CreateSink PROVE CheckInv'
    OBVIOUS
  <1>1. /\ pc = "create" /\ pc' = "prices"
        /\ StateTyped /\ Idle /\ Planned /\ AtCreate
        /\ UNCHANGED <<version, day, bounds, list, missing, priceOnly,
                       holderOnly, relationOnly, evidence, toPush, pending,
                       fetched, metaLost>>
    BY DEF CreateSink, CheckInv, params, plan, memory, faults
  <1>2. NewMeta \in Meta
    BY <1>1 DEF NewMeta, Meta, StateTyped
  <1>3. /\ meta' \in Meta \union {NoMeta} /\ Loadable'
        /\ shard' \in [Candidates -> Bundle \union {NoBundle}]
    BY <1>1, <1>2, NoMetaAssumption
    DEF CreateSink, Loadable, ShardedLayout, StateTyped, None, NewMeta, disk
  <1>4. StateTyped'
    BY <1>1, <1>3 DEF StateTyped
  <1>5. Idle'
    BY <1>1 DEF Idle, AfterPushes
  <1>6. Current' = Current /\ Kept' = Kept
        /\ Held(evidence)' = Held(evidence)
    BY <1>1 DEF Current, Kept, Held
  <1>7. Planned'
    BY <1>1, <1>6 DEF Planned, MemoryAligned, Aligned, InRun
  <1>8. AtCreate' /\ CheckpointComplete'
    BY <1>1 DEF AtCreate, CheckpointComplete, Analyzing
  <1>9. Kept # {} => UNCHANGED <<meta, shard>>
    BY <1>1 DEF Planned, AtCreate, CreateSink, Loadable, disk
  <1>10. pending = None /\ fetched = None
    BY <1>1 DEF Idle
  <1>11. \A c \in Kept : OnDisk(c)' = shard'[c] /\ c \in Candidates
    BY <1>1, <1>10 DEF OnDisk, Written, None, Kept, Current
  <1>12. KeptOnDisk'
    <2> SUFFICES ASSUME NEW c \in Kept
                 PROVE  /\ OnDisk(c)' # NoBundle
                        /\ evidence'[c] = Reconciled(OnDisk(c), c)'
                        /\ LacksRelation(OnDisk(c), c)' => NotYetAligned(c)'
      BY <1>6 DEF KeptOnDisk
    <2>1. OnDisk(c)' = shard[c]
      BY <1>9, <1>11
    <2>2. /\ Reconciled(OnDisk(c), c)' = Reconciled(shard[c], c)
          /\ LacksRelation(OnDisk(c), c)' = LacksRelation(shard[c], c)
      BY <1>1, <2>1 DEF Reconciled, LacksRelation
    <2> QED  BY <1>1, <2>1, <2>2 DEF AtCreate, AsLoaded, NotYetAligned, InRun
  <1>13. Held(fetched)' = {}
    BY <1>1, <1>10 DEF Held, None
  <1>14. Running'
    BY <1>1, <1>3, <1>12, <1>13 DEF Running, FetchedOnDisk
  <1> QED  BY <1>4, <1>5, <1>7, <1>8, <1>14 DEF CheckInv

LEMMA CheckRefused == CheckInv /\ CreateRefused => CheckInv'
  BY DEF CheckInv, CreateRefused, StateTyped, Idle, Planned, AtCreate, Running,
         CheckpointComplete, Analyzing, InRun, disk, params, plan, memory, faults,
         AfterPushes

\* What the refreshes do to the bundle of one candidate.
LEMMA PricesOf ==
    ASSUME StateTyped, RefreshPrices, NEW c \in Candidates
    PROVE  /\ c \notin priceOnly => evidence'[c] = evidence[c]
           /\ c \in priceOnly /\ evidence[c] \in Bundle =>
                 /\ evidence'[c] \in Bundle
                 /\ evidence'[c].bounds = evidence[c].bounds
                 /\ evidence'[c].rel = evidence[c].rel
                 /\ evidence'[c].day = day
  <1>1. PICK bad \in SUBSET priceOnly :
           evidence' = [d \in Candidates |->
                           IF d \in priceOnly
                           THEN Refreshed([evidence[d] EXCEPT !.day = day],
                                          "prices", d \in bad)
                           ELSE evidence[d]]
    BY DEF RefreshPrices
  <1>2. c \in priceOnly =>
           evidence'[c] = Refreshed([evidence[c] EXCEPT !.day = day], "prices",
                                    c \in bad)
    BY <1>1
  <1>3. day \in Days /\ "prices" \in Families
    BY DEF Families, StateTyped
  <1> QED  BY <1>1, <1>2, <1>3 DEF Refreshed, Bundle

LEMMA HoldersOf ==
    ASSUME StateTyped, RefreshHolders, NEW c \in Candidates
    PROVE  /\ c \notin holderOnly => evidence'[c] = evidence[c]
           /\ c \in holderOnly /\ evidence[c] \in Bundle =>
                 /\ evidence'[c] \in Bundle
                 /\ evidence'[c].bounds = evidence[c].bounds
                 /\ evidence'[c].rel = evidence[c].rel
                 /\ evidence'[c].day = evidence[c].day
  <1>1. PICK bad \in SUBSET holderOnly :
           evidence' = [d \in Candidates |->
                           IF d \in holderOnly
                           THEN Refreshed(evidence[d], "holders", d \in bad)
                           ELSE evidence[d]]
    BY DEF RefreshHolders
  <1>2. c \in holderOnly =>
           evidence'[c] = Refreshed(evidence[c], "holders", c \in bad)
    BY <1>1
  <1>3. "holders" \in Families
    BY DEF Families
  <1> QED  BY <1>1, <1>2, <1>3 DEF Refreshed, Bundle

LEMMA RelationsRefreshed ==
    ASSUME RefreshRelations, NEW c \in Candidates
    PROVE  /\ c \notin relationOnly => evidence'[c] = evidence[c]
           /\ c \in relationOnly /\ evidence[c] \in Bundle =>
                 /\ evidence'[c] \in Bundle
                 /\ evidence'[c].bounds = evidence[c].bounds
                 /\ evidence'[c].rel = Requested(c)
                 /\ evidence'[c].day = evidence[c].day
  <1>1. evidence' = [d \in Candidates |->
                       IF d \in relationOnly
                       THEN [evidence[d] EXCEPT !.rel = Requested(d)]
                       ELSE evidence[d]]
    BY DEF RefreshRelations
  <1>2. c \in relationOnly =>
           evidence'[c] = [evidence[c] EXCEPT !.rel = Requested(c)]
    BY <1>1
  <1>3. Requested(c) \in [Seeds -> {"absent", "blank", "real"}]
    BY DEF Requested
  <1> QED  BY <1>1, <1>2, <1>3 DEF Bundle

\* What the invariant says of one candidate.
LEMMA KeptBundle ==
    ASSUME KeptOnDisk, NEW c \in Kept
    PROVE  /\ OnDisk(c) # NoBundle
           /\ c \in toPush \/ evidence[c] = Reconciled(OnDisk(c), c)
           /\ LacksRelation(OnDisk(c), c) => NotYetAligned(c)
  BY DEF KeptOnDisk

\* A refresh of the bundles in some set of kept candidates.
LEMMA CheckRefresh ==
    ASSUME CheckInv, NEW W \in SUBSET Kept,
           pc \in {"prices", "holders", "relations"},
           pc' \in {"pushPrices", "pushHolders", "pushRelations"},
           pc' = "pushRelations" => W = relationOnly,
           toPush' = W,
           evidence' \in [Candidates -> Bundle \union {NoBundle}],
           \A c \in Candidates \ W : evidence'[c] = evidence[c],
           \A c \in W : evidence'[c] \in Bundle
                       /\ evidence'[c].rel \in {evidence[c].rel, Requested(c)},
           UNCHANGED <<disk, params, plan, pending, fetched, metaLost>>
    PROVE  CheckInv'
  <1>1. /\ StateTyped /\ Idle /\ Planned /\ Loadable /\ KeptOnDisk
        /\ FetchedOnDisk /\ toPush = {}
        /\ UNCHANGED <<meta, shard, version, day, bounds, list, missing,
                       priceOnly, holderOnly, relationOnly, pending, fetched,
                       metaLost>>
    BY DEF CheckInv, Running, InRun, Idle, AfterPushes, disk, params, plan
  <1>2. Current' = Current /\ Kept' = Kept /\ Kept \subseteq Candidates
    BY <1>1 DEF Current, Kept
  <1>3. /\ Held(evidence) \subseteq Current /\ Kept \subseteq Held(evidence)
        /\ MemoryAligned
    BY <1>1 DEF Planned, InRun
  <1>4. Held(evidence)' = Held(evidence)
    BY <1>2, <1>3, NoBundleAssumption DEF Held
  <1>5. StateTyped'
    BY <1>1, <1>2 DEF StateTyped
  <1>6. Idle'
    BY <1>1 DEF Idle, AfterPushes
  <1>7. MemoryAligned'
    <2> SUFFICES ASSUME NEW c \in Held(evidence) PROVE Aligned(evidence[c], c)'
      BY <1>4 DEF MemoryAligned
    <2>1. Aligned(evidence[c], c) /\ c \in Candidates
      BY <1>3 DEF MemoryAligned, Held
    <2>2. evidence'[c].rel \in {evidence[c].rel, Requested(c)}
      BY <2>1
    <2> QED  BY <1>1, <2>1, <2>2 DEF Aligned, Requested
  <1>8. Planned'
    BY <1>1, <1>2, <1>4, <1>7 DEF Planned, InRun
  <1>9. AtCreate' /\ CheckpointComplete'
    BY DEF AtCreate, CheckpointComplete, Analyzing
  <1>10. KeptOnDisk'
    <2> SUFFICES ASSUME NEW c \in Kept
                 PROVE  /\ OnDisk(c)' # NoBundle
                        /\ \/ c \in toPush'
                           \/ evidence'[c] = Reconciled(OnDisk(c), c)'
                        /\ LacksRelation(OnDisk(c), c)' => NotYetAligned(c)'
      BY <1>2 DEF KeptOnDisk
    <2>1. OnDisk(c)' = OnDisk(c)
      BY <1>1 DEF OnDisk, Written
    <2>2. /\ Reconciled(OnDisk(c), c)' = Reconciled(OnDisk(c), c)
          /\ LacksRelation(OnDisk(c), c)' = LacksRelation(OnDisk(c), c)
      BY <1>1, <2>1 DEF Reconciled, LacksRelation
    <2>3. /\ OnDisk(c) # NoBundle
          /\ evidence[c] = Reconciled(OnDisk(c), c)
          /\ LacksRelation(OnDisk(c), c) => NotYetAligned(c)
      BY <1>1, KeptBundle
    <2>4. c \in W \/ evidence'[c] = evidence[c]
      BY <1>2
    <2>5. NotYetAligned(c) => NotYetAligned(c)'
      BY <1>1 DEF NotYetAligned, InRun
    <2> QED  BY <2>1, <2>2, <2>3, <2>4, <2>5
  <1>11. FetchedOnDisk'
    BY <1>1 DEF FetchedOnDisk, Idle, Held, None
  <1>12. Running'
    BY <1>1, <1>10, <1>11 DEF Running, Loadable, ShardedLayout
  <1> QED  BY <1>5, <1>6, <1>8, <1>9, <1>12 DEF CheckInv

LEMMA CheckPrices == CheckInv /\ RefreshPrices => CheckInv'
  <1> SUFFICES ASSUME CheckInv, RefreshPrices PROVE CheckInv'
    OBVIOUS
  <1>1. /\ StateTyped /\ Planned /\ pc = "prices"
        /\ toPush' = priceOnly /\ pc' = "pushPrices"
        /\ UNCHANGED <<disk, params, plan, pending, fetched, metaLost>>
    BY DEF CheckInv, RefreshPrices
  <1>2. priceOnly \in SUBSET Kept /\ Kept \subseteq Held(evidence)
    BY <1>1 DEF Planned, InRun
  <1>3. \A c \in priceOnly : c \in Candidates /\ evidence[c] \in Bundle
    BY <1>1, <1>2 DEF Held, StateTyped
  <1>4. \A c \in Candidates \ priceOnly : evidence'[c] = evidence[c]
    BY <1>1, PricesOf
  <1>5. \A c \in priceOnly : evidence'[c] \in Bundle
                 /\ evidence'[c].rel \in {evidence[c].rel, Requested(c)}
    BY <1>1, <1>3, PricesOf
  <1>6. evidence' \in [Candidates -> Bundle \union {NoBundle}]
    <2>1. DOMAIN evidence' = Candidates
          /\ evidence' = [c \in Candidates |-> evidence'[c]]
      BY DEF RefreshPrices
    <2> QED  BY <1>1, <1>4, <1>5, <2>1 DEF StateTyped
  <1> QED  BY <1>1, <1>2, <1>4, <1>5, <1>6, CheckRefresh

LEMMA CheckHolders == CheckInv /\ RefreshHolders => CheckInv'
  <1> SUFFICES ASSUME CheckInv, RefreshHolders PROVE CheckInv'
    OBVIOUS
  <1>1. /\ StateTyped /\ Planned /\ pc = "holders"
        /\ toPush' = holderOnly /\ pc' = "pushHolders"
        /\ UNCHANGED <<disk, params, plan, pending, fetched, metaLost>>
    BY DEF CheckInv, RefreshHolders
  <1>2. holderOnly \in SUBSET Kept /\ Kept \subseteq Held(evidence)
    BY <1>1 DEF Planned, InRun
  <1>3. \A c \in holderOnly : c \in Candidates /\ evidence[c] \in Bundle
    BY <1>1, <1>2 DEF Held, StateTyped
  <1>4. \A c \in Candidates \ holderOnly : evidence'[c] = evidence[c]
    BY <1>1, HoldersOf
  <1>5. \A c \in holderOnly : evidence'[c] \in Bundle
                 /\ evidence'[c].rel \in {evidence[c].rel, Requested(c)}
    BY <1>1, <1>3, HoldersOf
  <1>6. evidence' \in [Candidates -> Bundle \union {NoBundle}]
    <2>1. DOMAIN evidence' = Candidates
          /\ evidence' = [c \in Candidates |-> evidence'[c]]
      BY DEF RefreshHolders
    <2> QED  BY <1>1, <1>4, <1>5, <2>1 DEF StateTyped
  <1> QED  BY <1>1, <1>2, <1>4, <1>5, <1>6, CheckRefresh

LEMMA CheckRelations == CheckInv /\ RefreshRelations => CheckInv'
  <1> SUFFICES ASSUME CheckInv, RefreshRelations PROVE CheckInv'
    OBVIOUS
  <1>1. /\ StateTyped /\ Planned /\ pc = "relations"
        /\ toPush' = relationOnly /\ pc' = "pushRelations"
        /\ UNCHANGED <<disk, params, plan, pending, fetched, metaLost>>
    BY DEF CheckInv, RefreshRelations, faults
  <1>2. relationOnly \in SUBSET Kept /\ Kept \subseteq Held(evidence)
    BY <1>1 DEF Planned, InRun
  <1>3. \A c \in relationOnly : c \in Candidates /\ evidence[c] \in Bundle
    BY <1>1, <1>2 DEF Held, StateTyped
  <1>4. \A c \in Candidates \ relationOnly : evidence'[c] = evidence[c]
    BY <1>1, RelationsRefreshed
  <1>5. \A c \in relationOnly : evidence'[c] \in Bundle
                 /\ evidence'[c].rel \in {evidence[c].rel, Requested(c)}
    BY <1>1, <1>3, RelationsRefreshed
  <1>6. evidence' \in [Candidates -> Bundle \union {NoBundle}]
    <2>1. DOMAIN evidence' = Candidates
          /\ evidence' = [c \in Candidates |-> evidence'[c]]
      BY DEF RefreshRelations
    <2> QED  BY <1>1, <1>4, <1>5, <2>1 DEF StateTyped
  <1> QED  BY <1>1, <1>2, <1>4, <1>5, <1>6, CheckRefresh

LEMMA CheckRefreshFails == CheckInv /\ RefreshFails => CheckInv'
  BY CheckGone DEF CheckInv, RefreshFails, StateTyped, disk

LEMMA CheckPush == CheckInv /\ PushRefreshed => CheckInv'
  <1> SUFFICES ASSUME CheckInv, PushRefreshed PROVE CheckInv'
    OBVIOUS
  <1>1. /\ pc \in {"pushPrices", "pushHolders", "pushRelations"}
        /\ StateTyped /\ Idle /\ Planned /\ Loadable /\ KeptOnDisk
        /\ FetchedOnDisk
        /\ UNCHANGED <<pc, meta, version, day, bounds, list, missing,
                       priceOnly, holderOnly, relationOnly, evidence, fetched,
                       metaLost>>
    BY DEF CheckInv, PushRefreshed, Running, InRun, AfterPushes, params, plan,
           faults
  <1>2. PICK c \in toPush : Push(c, evidence[c]) /\ toPush' = toPush \ {c}
    BY DEF PushRefreshed
  <1>3. /\ Current' = Current /\ Kept' = Kept /\ Kept \subseteq Candidates
        /\ Held(evidence)' = Held(evidence)
    BY <1>1 DEF Current, Kept, Held
  <1>4. /\ c \in Candidates /\ evidence[c] \in Bundle /\ c \in Kept
        /\ Aligned(evidence[c], c) /\ MemoryAligned /\ toPush \subseteq Kept
    BY <1>1, <1>2 DEF Planned, InRun, MemoryAligned, Held, StateTyped
  <1>5. /\ pending' \in [Candidates -> Bundle \union {NoBundle}]
        /\ shard' \in [Candidates -> Bundle \union {NoBundle}]
        /\ \A d \in Candidates :
              OnDisk(d)' = IF d = c THEN evidence[c] ELSE OnDisk(d)
    BY <1>1, <1>2, <1>4, PushWrites DEF StateTyped
  <1>6. StateTyped'
    BY <1>1, <1>2, <1>5 DEF StateTyped
  <1>7. Idle'
    BY <1>1, <1>2 DEF Idle, AfterPushes
  <1>8. MemoryAligned'
    BY <1>1, <1>3, <1>4 DEF MemoryAligned, Aligned
  <1>9. Planned'
    BY <1>1, <1>2, <1>3, <1>8 DEF Planned, InRun
  <1>10. AtCreate' /\ CheckpointComplete'
    BY <1>1 DEF AtCreate, CheckpointComplete, Analyzing
  <1>11. KeptOnDisk'
    <2> SUFFICES ASSUME NEW d \in Kept
                 PROVE  /\ OnDisk(d)' # NoBundle
                        /\ \/ d \in toPush'
                           \/ evidence'[d] = Reconciled(OnDisk(d), d)'
                        /\ LacksRelation(OnDisk(d), d)' => NotYetAligned(d)'
      BY <1>3 DEF KeptOnDisk
    <2>1. CASE d = c
      <3>1. OnDisk(c)' = evidence[c]
        BY <1>4, <1>5
      <3>2. evidence[c] = Reconciled(evidence[c], c)
            /\ ~LacksRelation(evidence[c], c)
        BY <1>1, <1>4, AlignedIsReconciled DEF StateTyped
      <3>3. Reconciled(OnDisk(c), c)' = Reconciled(evidence[c], c)
            /\ LacksRelation(OnDisk(c), c)' = LacksRelation(evidence[c], c)
        BY <1>1, <3>1 DEF Reconciled, LacksRelation
      <3> QED  BY <1>1, <1>4, <2>1, <3>1, <3>2, <3>3, NoBundleAssumption
    <2>2. CASE d # c
      <3>1. OnDisk(d)' = OnDisk(d)
        BY <1>3, <1>5, <2>2
      <3>2. /\ OnDisk(d) # NoBundle
            /\ d \in toPush \/ evidence[d] = Reconciled(OnDisk(d), d)
            /\ LacksRelation(OnDisk(d), d) => NotYetAligned(d)
        BY <1>1, KeptBundle
      <3>3. /\ Reconciled(OnDisk(d), d)' = Reconciled(OnDisk(d), d)
            /\ LacksRelation(OnDisk(d), d)' = LacksRelation(OnDisk(d), d)
        BY <1>1, <3>1 DEF Reconciled, LacksRelation
      <3>4. d \in toPush => d \in toPush'
        BY <1>2, <2>2
      <3>5. NotYetAligned(d) => NotYetAligned(d)'
        BY <1>1, <3>4 DEF NotYetAligned
      <3> QED  BY <1>1, <3>1, <3>2, <3>3, <3>4, <3>5
    <2> QED  BY <2>1, <2>2
  <1>12. FetchedOnDisk'
    BY <1>1 DEF FetchedOnDisk, Idle, Held, None
  <1>13. Running'
    BY <1>1, <1>11, <1>12 DEF Running, Loadable, ShardedLayout
  <1> QED  BY <1>6, <1>7, <1>9, <1>10, <1>13 DEF CheckInv

LEMMA CheckPushesDone == CheckInv /\ PushesDone => CheckInv'
  <1> SUFFICES ASSUME CheckInv, PushesDone PROVE CheckInv'
    OBVIOUS
  <1>1. /\ pc \in {"pushPrices", "pushHolders", "pushRelations"}
        /\ StateTyped /\ Idle /\ Planned /\ Loadable /\ KeptOnDisk
        /\ FetchedOnDisk /\ toPush = {}
        /\ UNCHANGED <<meta, shard, version, day, bounds, list, missing,
                       priceOnly, holderOnly, relationOnly, evidence, fetched,
                       pending, toPush, metaLost>>
    BY DEF CheckInv, PushesDone, Running, InRun, AfterPushes, disk, params,
           plan, memory, faults
  <1>2. \/ pc = "pushPrices" /\ pc' = "holders"
        \/ pc = "pushHolders" /\ pc' = "relations"
        \/ pc = "pushRelations" /\ pc' = "fetch"
    BY DEF PushesDone, AfterPushes
  <1>3. /\ Current' = Current /\ Kept' = Kept
        /\ Held(evidence)' = Held(evidence) /\ Held(fetched)' = Held(fetched)
    BY <1>1 DEF Current, Kept, Held
  <1>4. StateTyped'
    BY <1>1 DEF StateTyped
  <1>5. Idle'
    BY <1>1, <1>2 DEF Idle, AfterPushes
  <1>6. MemoryAligned'
    BY <1>1, <1>3 DEF Planned, InRun, MemoryAligned, Aligned
  <1>7. Planned'
    BY <1>1, <1>2, <1>3, <1>6 DEF Planned, InRun
  <1>8. AtCreate' /\ CheckpointComplete'
    BY <1>2 DEF AtCreate, CheckpointComplete, Analyzing
  <1>9. KeptOnDisk'
    <2> SUFFICES ASSUME NEW d \in Kept
                 PROVE  /\ OnDisk(d)' # NoBundle
                        /\ \/ d \in toPush'
                           \/ evidence'[d] = Reconciled(OnDisk(d), d)'
                        /\ LacksRelation(OnDisk(d), d)' => NotYetAligned(d)'
      BY <1>3 DEF KeptOnDisk
    <2>1. OnDisk(d)' = OnDisk(d)
      BY <1>1 DEF OnDisk, Written
    <2>2. /\ OnDisk(d) # NoBundle
          /\ d \in toPush \/ evidence[d] = Reconciled(OnDisk(d), d)
          /\ LacksRelation(OnDisk(d), d) => NotYetAligned(d)
      BY <1>1, KeptBundle
    <2>3. /\ Reconciled(OnDisk(d), d)' = Reconciled(OnDisk(d), d)
          /\ LacksRelation(OnDisk(d), d)' = LacksRelation(OnDisk(d), d)
      BY <1>1, <2>1 DEF Reconciled, LacksRelation
    <2>4. NotYetAligned(d) => NotYetAligned(d)'
      BY <1>1, <1>2 DEF NotYetAligned, InRun
    <2> QED  BY <1>1, <2>1, <2>2, <2>3, <2>4
  <1>10. FetchedOnDisk'
    BY <1>1, <1>2 DEF FetchedOnDisk, Idle, Held, None
  <1>11. Running'
    BY <1>1, <1>9, <1>10 DEF Running, Loadable, ShardedLayout
  <1> QED  BY <1>4, <1>5, <1>7, <1>8, <1>11 DEF CheckInv

LEMMA FetchedIsBundle ==
    ASSUME StateTyped, NEW c \in Candidates, NEW bad \in SUBSET Families
    PROVE  /\ FetchedBundle(c, bad) \in Bundle
           /\ FetchedBundle(c, bad).rel = Requested(c)
           /\ FetchedBundle(c, bad).bounds = bounds
           /\ FetchedBundle(c, bad).day = day
  BY DEF StateTyped, FetchedBundle, Requested, Bundle

LEMMA CheckFetchOne ==
    ASSUME NEW c \in Candidates, CheckInv, FetchOne(c) PROVE CheckInv'
  <1>1. /\ pc = "fetch" /\ c \in missing \ Held(fetched)
        /\ StateTyped /\ Idle /\ Planned /\ Loadable /\ KeptOnDisk
        /\ FetchedOnDisk /\ toPush = {}
        /\ UNCHANGED <<pc, meta, version, day, bounds, list, missing,
                       priceOnly, holderOnly, relationOnly, evidence, toPush,
                       metaLost>>
    BY DEF CheckInv, FetchOne, Running, InRun, Idle, AfterPushes, params, plan
  <1>2. PICK bad \in SUBSET Families :
           /\ Push(c, FetchedBundle(c, bad))
           /\ fetched' = With(fetched, c, FetchedBundle(c, bad))
    BY DEF FetchOne
  <1> DEFINE b == FetchedBundle(c, bad)
  <1>3. b \in Bundle /\ b.rel = Requested(c) /\ b # NoBundle
    BY <1>1, <1>2, FetchedIsBundle, NoBundleAssumption
  <1>4. /\ pending' \in [Candidates -> Bundle \union {NoBundle}]
        /\ shard' \in [Candidates -> Bundle \union {NoBundle}]
        /\ \A d \in Candidates : OnDisk(d)' = IF d = c THEN b ELSE OnDisk(d)
    BY <1>1, <1>2, <1>3, PushWrites DEF StateTyped
  <1>5. fetched' = [fetched EXCEPT ![c] = b]
    BY <1>2 DEF With
  <1> HIDE DEF b
  <1>6. /\ fetched' \in [Candidates -> Bundle \union {NoBundle}]
        /\ fetched'[c] = b
        /\ \A d \in Candidates \ {c} : fetched'[d] = fetched[d]
    BY <1>1, <1>3, <1>5 DEF StateTyped
  <1>7. /\ Current' = Current /\ Kept' = Kept /\ Kept \subseteq Candidates
        /\ Held(evidence)' = Held(evidence) /\ c \notin Kept
    BY <1>1 DEF Current, Kept, Held
  <1>8. StateTyped'
    BY <1>1, <1>4, <1>6 DEF StateTyped
  <1>9. Idle'
    BY <1>1 DEF Idle, AfterPushes
  <1>10. MemoryAligned'
    BY <1>1, <1>7 DEF Planned, InRun, MemoryAligned, Aligned
  <1>11. Planned'
    BY <1>1, <1>7, <1>10 DEF Planned, InRun
  <1>12. AtCreate' /\ CheckpointComplete'
    BY <1>1 DEF AtCreate, CheckpointComplete, Analyzing
  <1>13. KeptOnDisk'
    <2> SUFFICES ASSUME NEW d \in Kept
                 PROVE  /\ OnDisk(d)' # NoBundle
                        /\ \/ d \in toPush'
                           \/ evidence'[d] = Reconciled(OnDisk(d), d)'
                        /\ LacksRelation(OnDisk(d), d)' => NotYetAligned(d)'
      BY <1>7 DEF KeptOnDisk
    <2>1. OnDisk(d)' = OnDisk(d)
      BY <1>4, <1>7
    <2>2. /\ OnDisk(d) # NoBundle
          /\ d \in toPush \/ evidence[d] = Reconciled(OnDisk(d), d)
          /\ LacksRelation(OnDisk(d), d) => NotYetAligned(d)
      BY <1>1, KeptBundle
    <2>3. /\ Reconciled(OnDisk(d), d)' = Reconciled(OnDisk(d), d)
          /\ LacksRelation(OnDisk(d), d)' = LacksRelation(OnDisk(d), d)
      BY <1>1, <2>1 DEF Reconciled, LacksRelation
    <2>4. NotYetAligned(d) => NotYetAligned(d)'
      BY <1>1 DEF NotYetAligned
    <2> QED  BY <1>1, <2>1, <2>2, <2>3, <2>4
  <1>14. FetchedOnDisk'
    <2> SUFFICES ASSUME NEW d \in Held(fetched)'
                 PROVE  /\ d \in missing'
                        /\ OnDisk(d)' = fetched'[d]
                        /\ fetched'[d].rel = Requested(d)'
      BY DEF FetchedOnDisk
    <2>1. d \in Candidates
      BY DEF Held
    <2>2. Requested(d)' = Requested(d)
      BY <1>1 DEF Requested
    <2>3. CASE d = c
      BY <1>1, <1>3, <1>4, <1>6, <2>1, <2>2, <2>3
    <2>4. CASE d # c
      <3>1. d \in Held(fetched)
        BY <1>6, <2>1, <2>4 DEF Held
      <3>2. d \in missing /\ OnDisk(d) = fetched[d]
            /\ fetched[d].rel = Requested(d)
        BY <1>1, <3>1 DEF FetchedOnDisk
      <3> QED  BY <1>1, <1>4, <1>6, <2>1, <2>2, <2>4, <3>2
    <2> QED  BY <2>3, <2>4
  <1>15. Running'
    BY <1>1, <1>13, <1>14 DEF Running, Loadable, ShardedLayout
  <1> QED  BY <1>8, <1>9, <1>11, <1>12, <1>15 DEF CheckInv

LEMMA NewMetaIsMeta == StateTyped => NewMeta \in Meta /\ NewMeta # NoMeta
  BY NoMetaAssumption DEF StateTyped, NewMeta, Meta

\* What a finished fetch leaves to analyse: every candidate of the run.
LEMMA ExtendedEvidence ==
    ASSUME CheckInv, pc = "fetch", missing = Held(fetched), Extended,
           UNCHANGED list
    PROVE  /\ evidence' \in [Candidates -> Bundle \union {NoBundle}]
           /\ Held(evidence)' = Current
           /\ Current' = Current
  <1>1. StateTyped /\ Planned
    BY DEF CheckInv
  <1>2. \A c \in Candidates :
           evidence'[c] = IF fetched[c] # NoBundle THEN fetched[c]
                                                   ELSE evidence[c]
    BY DEF Extended
  <1>3. evidence' \in [Candidates -> Bundle \union {NoBundle}]
    BY <1>1 DEF Extended, StateTyped
  <1>4. Current' = Current /\ Current \subseteq Candidates
    BY DEF Current
  <1>5. Held(evidence)' = Current
    BY <1>1, <1>2, <1>4 DEF Held, Planned, InRun, Kept
  <1> QED  BY <1>3, <1>4, <1>5

LEMMA CheckFinish == CheckInv /\ FinishRun => CheckInv'
  <1> SUFFICES ASSUME CheckInv, FinishRun PROVE CheckInv'
    OBVIOUS
  <1>1. /\ pc = "fetch" /\ missing = Held(fetched)
        /\ StateTyped /\ Idle /\ Planned /\ Loadable /\ KeptOnDisk
        /\ FetchedOnDisk /\ toPush = {}
        /\ shard' = Written(pending) /\ meta' = NewMeta /\ pending' = None
        /\ pc' = "analyze"
        /\ UNCHANGED <<version, day, bounds, list, missing, priceOnly,
                       holderOnly, relationOnly, fetched, toPush, metaLost>>
    BY DEF CheckInv, FinishRun, FinishSink, Stamp, Running, InRun, Idle,
           AfterPushes, params, plan
  <1>2. \A c \in Candidates :
           evidence'[c] = IF fetched[c] # NoBundle THEN fetched[c]
                                                   ELSE evidence[c]
    BY DEF FinishRun, Extended
  <1>3. Current' = Current /\ Current \subseteq Candidates
    BY <1>1 DEF Current
  <1>4. StateTyped'
    <2>1. evidence' \in [Candidates -> Bundle \union {NoBundle}]
      BY <1>1, ExtendedEvidence DEF FinishRun
    <2>2. shard' \in [Candidates -> Bundle \union {NoBundle}]
      BY <1>1, WrittenType DEF StateTyped
    <2>3. pending' \in [Candidates -> Bundle \union {NoBundle}]
      BY <1>1 DEF None
    <2> QED  BY <1>1, <2>1, <2>2, <2>3, NewMetaIsMeta DEF StateTyped
  <1>5. Idle'
    BY <1>1 DEF Idle, AfterPushes
  <1>6. Planned' /\ AtCreate' /\ Running'
    BY <1>1 DEF Planned, AtCreate, Running, InRun
  <1>7. Loadable' /\ meta'.day = day
    BY <1>1, NewMetaIsMeta DEF Loadable, ShardedLayout, NewMeta
  <1>8. Held(evidence)' = Current
    BY <1>1, ExtendedEvidence DEF FinishRun
  <1>9. ASSUME NEW c \in Current
        PROVE  /\ shard'[c] # NoBundle
               /\ evidence'[c] = Reconciled(shard[c], c)'
               /\ ~LacksRelation(shard[c], c)'
    <2>1. c \in Candidates /\ shard'[c] = OnDisk(c)
      BY <1>1, <1>3 DEF OnDisk
    <2>2. /\ Reconciled(shard[c], c)' = Reconciled(OnDisk(c), c)
          /\ LacksRelation(shard[c], c)' = LacksRelation(OnDisk(c), c)
      BY <1>1, <2>1 DEF Reconciled, LacksRelation
    <2>3. CASE c \in missing
      <3>1. /\ OnDisk(c) = fetched[c] /\ fetched[c].rel = Requested(c)
            /\ fetched[c] # NoBundle /\ fetched[c] \in Bundle
        BY <1>1, <2>1, <2>3 DEF FetchedOnDisk, Held, StateTyped
      <3>2. /\ fetched[c] = Reconciled(fetched[c], c)
            /\ ~LacksRelation(fetched[c], c)
        BY <1>1, <2>1, <3>1, RequestedRelations, AlignedIsReconciled
        DEF StateTyped
      <3>3. /\ Reconciled(OnDisk(c), c) = Reconciled(fetched[c], c)
            /\ LacksRelation(OnDisk(c), c) = LacksRelation(fetched[c], c)
        BY <3>1
      <3>4. evidence'[c] = fetched[c]
        BY <1>2, <2>1, <3>1
      <3> QED  BY <2>1, <2>2, <3>1, <3>2, <3>3, <3>4
    <2>4. CASE c \notin missing
      <3>1. c \in Kept /\ fetched[c] = NoBundle
        BY <1>1, <2>1, <2>4 DEF Kept, Held
      <3>2. /\ OnDisk(c) # NoBundle
            /\ c \in toPush \/ evidence[c] = Reconciled(OnDisk(c), c)
            /\ LacksRelation(OnDisk(c), c) => NotYetAligned(c)
        BY <1>1, <3>1, KeptBundle
      <3>3. ~NotYetAligned(c)
        BY <1>1 DEF NotYetAligned
      <3>4. evidence'[c] = evidence[c]
        BY <1>2, <2>1, <3>1
      <3> QED  BY <1>1, <2>1, <2>2, <3>2, <3>3, <3>4
    <2> QED  BY <2>3, <2>4
  <1>10. CheckpointComplete'
    BY <1>1, <1>3, <1>7, <1>8, <1>9 DEF CheckpointComplete, Analyzing
  <1> QED  BY <1>4, <1>5, <1>6, <1>10 DEF CheckInv

\* A write that breaks off leaves bundles or nothing in the shards.
LEMMA InterruptedType ==
    ASSUME NEW p \in [Candidates -> Bundle \union {NoBundle}], NEW done,
           StateTyped, Interrupted(p, done)
    PROVE  shard' \in [Candidates -> Bundle \union {NoBundle}]
  BY DEF Interrupted, StateTyped

LEMMA StampType ==
    ASSUME StateTyped, NEW A, NEW D, Stamp(A, D)
    PROVE  meta' \in Meta \union {NoMeta}
  BY NewMetaIsMeta DEF Stamp

LEMMA StampFailsType ==
    ASSUME StateTyped, StampFails
    PROVE  meta' \in Meta \union {NoMeta} /\ metaLost' \in BOOLEAN
  BY DEF StampFails, StateTyped

LEMMA SinkFailsType ==
    ASSUME StateTyped, FinishSinkFails
    PROVE  /\ shard' \in [Candidates -> Bundle \union {NoBundle}]
           /\ meta' \in Meta \union {NoMeta}
           /\ metaLost' \in BOOLEAN
  <1>1. pending \in [Candidates -> Bundle \union {NoBundle}]
    BY DEF StateTyped
  <1>2. CASE /\ \E done \in SUBSET Held(pending) :
                   done # Held(pending) /\ Interrupted(pending, done)
             /\ UNCHANGED <<meta, passedOver, metaLost>>
    BY <1>1, <1>2, InterruptedType DEF StateTyped
  <1>3. CASE shard' = Written(pending) /\ StampFails
    BY <1>1, <1>3, StampFailsType, WrittenType DEF StateTyped
  <1> QED  BY <1>2, <1>3 DEF FinishSinkFails

LEMMA CheckUnsaved == CheckInv /\ FinishRunUnsaved => CheckInv'
  <1> SUFFICES ASSUME CheckInv, FinishRunUnsaved PROVE CheckInv'
    OBVIOUS
  <1>1. /\ pc = "fetch" /\ missing = Held(fetched) /\ Extended
        /\ StateTyped /\ Idle /\ toPush = {} /\ FinishSinkFails
        /\ pending' = None /\ pc' = "unsaved"
        /\ UNCHANGED <<version, day, bounds, list, missing, priceOnly,
                       holderOnly, relationOnly, fetched, toPush>>
    BY DEF CheckInv, FinishRunUnsaved, Idle, AfterPushes, params, plan
  <1>2. /\ evidence' \in [Candidates -> Bundle \union {NoBundle}]
        /\ Held(evidence)' = Current /\ Current' = Current
    BY <1>1, ExtendedEvidence
  <1>3. pending' \in [Candidates -> Bundle \union {NoBundle}]
    BY <1>1 DEF None
  <1>4. StateTyped'
    BY <1>1, <1>2, <1>3, SinkFailsType DEF StateTyped
  <1>5. Idle'
    BY <1>1 DEF Idle, AfterPushes
  <1>6. Planned' /\ AtCreate' /\ Running'
    BY <1>1 DEF Planned, AtCreate, Running, InRun
  <1>7. CheckpointComplete'
    BY <1>1, <1>2 DEF CheckpointComplete
  <1> QED  BY <1>4, <1>5, <1>6, <1>7 DEF CheckInv

LEMMA CheckFetchFails == CheckInv /\ FetchFails => CheckInv'
  <1> SUFFICES ASSUME CheckInv, FetchFails PROVE CheckInv'
    OBVIOUS
  <1>1. StateTyped /\ Gone /\ UNCHANGED params
    BY DEF CheckInv, FetchFails
  <1>2. CASE FinishSink
    BY <1>1, <1>2, StampType, WrittenType, CheckGone DEF FinishSink, StateTyped
  <1>3. CASE FinishSinkFails
    BY <1>1, <1>3, SinkFailsType, CheckGone
  <1> QED  BY <1>2, <1>3 DEF FetchFails

\* The buffer with one more bundle that the fetch yields.
LEMMA WithFetched ==
    ASSUME StateTyped, NEW c \in Candidates, NEW bad \in SUBSET Families
    PROVE  With(pending, c, FetchedBundle(c, bad))
              \in [Candidates -> Bundle \union {NoBundle}]
  BY FetchedIsBundle DEF StateTyped, With

LEMMA CheckHookFails ==
    ASSUME NEW c \in Candidates, CheckInv, HookFails(c) PROVE CheckInv'
  <1>1. StateTyped /\ Gone /\ UNCHANGED params
    BY DEF CheckInv, HookFails
  <1>2. PICK bad \in SUBSET Families :
           LET p == With(pending, c, FetchedBundle(c, bad)) IN
           \E done \in SUBSET Held(p) :
              /\ Interrupted(p, done)
              /\ \/ /\ Stamp(Held(fetched) \union {c}, Held(p) \ done)
                    /\ UNCHANGED metaLost
                 \/ StampFails
    BY DEF HookFails
  <1>3. shard' \in [Candidates -> Bundle \union {NoBundle}]
    BY <1>1, <1>2, WithFetched, InterruptedType
  <1>4. meta' \in Meta \union {NoMeta} /\ metaLost' \in BOOLEAN
    BY <1>1, <1>2, StampType, StampFailsType DEF StateTyped
  <1> QED  BY <1>1, <1>3, <1>4, CheckGone

LEMMA CheckEndRun == CheckInv /\ (EndRun \/ LeaveRefused) => CheckInv'
  BY CheckGone DEF CheckInv, EndRun, LeaveRefused, StateTyped, disk, faults

LEMMA CheckCrash ==
    CheckInv /\ (CrashBetween \/ CrashInFlush \/ CrashInMeta \/ CrashInClear)
      => CheckInv'
  <1>1. ASSUME CheckInv, CrashBetween PROVE CheckInv'
    BY <1>1, CheckGone DEF CheckInv, CrashBetween, Crash, StateTyped, disk
  <1>2. ASSUME CheckInv, CrashInFlush PROVE CheckInv'
    <2>1. /\ StateTyped /\ Gone /\ meta' = meta /\ UNCHANGED params
          /\ metaLost' \in BOOLEAN
      BY <1>2 DEF CheckInv, CrashInFlush, Crash
    <2>2. /\ \A c \in toPush :
                With(pending, c, evidence[c])
                   \in [Candidates -> Bundle \union {NoBundle}]
          /\ \A c \in missing :
                With(pending, c, FetchedBundle(c, {}))
                   \in [Candidates -> Bundle \union {NoBundle}]
      BY <2>1, FetchedIsBundle DEF StateTyped, With
    <2>3. shard' \in [Candidates -> Bundle \union {NoBundle}]
      BY <1>2, <2>1, <2>2, InterruptedType DEF CrashInFlush, Breaks, StateTyped
    <2> QED  BY <2>1, <2>3, CheckGone DEF StateTyped
  <1>3. ASSUME CheckInv, CrashInMeta PROVE CheckInv'
    BY <1>3, CheckGone, WrittenType DEF CheckInv, CrashInMeta, Crash, StateTyped
  <1>4. ASSUME CheckInv, CrashInClear PROVE CheckInv'
    BY <1>4, CheckGone DEF CheckInv, CrashInClear, Crash, StateTyped
  <1> QED  BY <1>1, <1>2, <1>3, <1>4

LEMMA CheckStutter == CheckInv /\ UNCHANGED vars => CheckInv'
  <1> SUFFICES ASSUME CheckInv, UNCHANGED vars PROVE CheckInv'
    OBVIOUS
  <1>1. UNCHANGED <<meta, shard, version, pc, day, bounds, list, evidence,
                    missing, priceOnly, holderOnly, relationOnly, toPush,
                    pending, fetched, metaLost>>
    BY DEF vars, disk, params, plan, memory, faults
  <1> QED
    BY <1>1
    DEF CheckInv, StateTyped, Idle, Planned, MemoryAligned, Aligned, AtCreate,
        AsLoaded, Running, KeptOnDisk, FetchedOnDisk, NotYetAligned,
        CheckpointComplete, Analyzing, Kept, Current, Held, OnDisk, Written, Loadable,
        ShardedLayout, Reconciled, LacksRelation, Requested

LEMMA CheckSpec == Spec => []CheckInv
  <1>1. CheckInv /\ [Next]_vars => CheckInv'
    BY CheckStart, CheckLoad, CheckCreate, CheckRefused, CheckPrices,
       CheckHolders, CheckRelations, CheckRefreshFails, CheckPush,
       CheckPushesDone, CheckFetchOne, CheckFinish, CheckUnsaved,
       CheckFetchFails, CheckHookFails, CheckEndRun, CheckCrash, CheckStutter
    DEF Next
  <1> QED  BY CheckInit, <1>1, PTL DEF Spec

\* A run that reaches the analysis analyses every candidate and, unless it
\* reported that the final flush failed, leaves its evidence on the disk: what
\* load_evidence_cache_resumable would read back is what the run analyses
\* (pipeline.rs, evidence stage; evidence_cache.rs, EvidenceCacheSink).
THEOREM CheckpointKept == Spec => []CheckpointComplete
  <1>1. CheckInv => CheckpointComplete
    BY DEF CheckInv
  <1> QED  BY CheckSpec, <1>1, PTL

-----------------------------------------------------------------------------
(* Whose bounds the bundles were collected under                           *)

Within(b) == {x \in Bundle : x.bounds = b} \union {NoBundle}

ShardsWithin ==
    IF ShardedLayout THEN shard \in [Candidates -> Within(meta.bounds)]
                     ELSE shard = None

MemoryWithin ==
    /\ pc \in {"create", "analyze", "unsaved"} \union InRun =>
          evidence \in [Candidates -> Within(bounds)]
    /\ pending \in [Candidates -> Within(bounds)]
    /\ fetched \in [Candidates -> Within(bounds)]

BoundsKept == ~metaLost => ShardsWithin /\ MemoryWithin

\* Neither a push nor a flush that is interrupted writes anything but the
\* bundle at hand and what the buffer held.
LEMMA PushKeeps ==
    ASSUME NEW T, NoBundle \in T, NEW c \in Candidates, NEW b \in T, Push(c, b),
           pending \in [Candidates -> T], shard \in [Candidates -> T]
    PROVE  pending' \in [Candidates -> T] /\ shard' \in [Candidates -> T]
  BY DEF Push, With, Written, None

LEMMA InterruptedKeeps ==
    ASSUME NEW T, NoBundle \in T, NEW p \in [Candidates -> T], NEW done,
           shard \in [Candidates -> T], Interrupted(p, done)
    PROVE  shard' \in [Candidates -> T]
  BY DEF Interrupted

LEMMA WrittenKeeps ==
    ASSUME NEW T, NoBundle \in T, NEW p \in [Candidates -> T],
           shard \in [Candidates -> T]
    PROVE  Written(p) \in [Candidates -> T]
  BY DEF Written

\* In a run that writes, the shards were collected under the run's bounds.
LEMMA RunShards ==
    ASSUME CheckInv, BoundsKept, ~metaLost, pc \in InRun
    PROVE  /\ ShardedLayout /\ meta.bounds = bounds
           /\ shard \in [Candidates -> Within(bounds)]
           /\ evidence \in [Candidates -> Within(bounds)]
           /\ pending \in [Candidates -> Within(bounds)]
           /\ fetched \in [Candidates -> Within(bounds)]
           /\ NoBundle \in Within(bounds)
  BY DEF CheckInv, Running, BoundsKept, Loadable, ShardsWithin, MemoryWithin,
         Within

LEMMA BoundsGone ==
    ASSUME Gone, ~metaLost' => ShardsWithin'
    PROVE  BoundsKept'
  BY DEF Gone, BoundsKept, MemoryWithin, InRun, None, Within

LEMMA BoundsInit == Init => BoundsKept
  BY DEF Init, BoundsKept, ShardsWithin, ShardedLayout, MemoryWithin, InRun,
         None, Within

LEMMA BoundsStart == CheckInv /\ BoundsKept /\ StartRun => BoundsKept'
  <1> SUFFICES ASSUME CheckInv, BoundsKept, StartRun PROVE BoundsKept'
    OBVIOUS
  <1>1. /\ pending = None /\ fetched = None /\ pc' = "load"
        /\ UNCHANGED <<meta, shard, pending, fetched, metaLost>>
    BY DEF CheckInv, Idle, StartRun, disk, memory, faults
  <1>2. ~metaLost' => ShardsWithin'
    BY <1>1 DEF BoundsKept, ShardsWithin, ShardedLayout
  <1>3. MemoryWithin'
    BY <1>1 DEF MemoryWithin, InRun, None, Within
  <1> QED  BY <1>2, <1>3 DEF BoundsKept

LEMMA CachedHeld ==
    ASSUME NEW cached, cached = Cached \/ cached = {}
    PROVE  \A c \in cached : /\ Loadable /\ c \in Candidates
                             /\ c \in Current /\ shard[c] # NoBundle
  <1>1. CASE Loadable
    BY <1>1 DEF Cached, Held
  <1>2. CASE ~Loadable
    BY <1>2 DEF Cached
  <1> QED  BY <1>1, <1>2

LEMMA BoundsPlan ==
    ASSUME NEW cached, cached = Cached \/ cached = {}, CheckInv, BoundsKept,
           Plan(cached),
           UNCHANGED <<disk, params, toPush, pending, fetched, metaLost>>
    PROVE  BoundsKept'
  <1> SUFFICES ASSUME ~metaLost PROVE BoundsKept'
    BY DEF BoundsKept
  <1>1. /\ ShardsWithin /\ pending \in [Candidates -> Within(bounds)]
        /\ fetched \in [Candidates -> Within(bounds)] /\ list \in SeedLists
        /\ UNCHANGED <<meta, shard, bounds, list, pending, fetched>>
    BY DEF BoundsKept, MemoryWithin, CheckInv, StateTyped, disk, params
  <1>2. ShardsWithin'
    BY <1>1 DEF ShardsWithin, ShardedLayout
  <1>3. /\ \A c \in cached : Loadable /\ shard[c] # NoBundle
        /\ evidence' = [c \in Candidates |->
                          IF c \in cached THEN Reconciled(shard[c], c)
                                          ELSE NoBundle]
    BY CachedHeld DEF Plan
  <1>4. ASSUME NEW c \in Candidates PROVE evidence'[c] \in Within(bounds)
    <2>1. CASE c \in cached
      <3>1. Loadable /\ shard[c] # NoBundle
        BY <1>3, <2>1
      <3>2. shard[c] \in Bundle /\ shard[c].bounds = bounds
        BY <1>1, <3>1 DEF ShardsWithin, Loadable, Within
      <3>3. evidence'[c] = Reconciled(shard[c], c)
        BY <1>3, <2>1
      <3> QED  BY <1>1, <3>2, <3>3, ReconciledBundle DEF Within
    <2>2. CASE c \notin cached
      BY <1>3, <2>2 DEF Within
    <2> QED  BY <2>1, <2>2
  <1>5. evidence' \in [Candidates -> Within(bounds)]
    BY <1>3, <1>4
  <1> QED  BY <1>1, <1>2, <1>5 DEF BoundsKept, MemoryWithin

LEMMA BoundsLoad ==
    CheckInv /\ BoundsKept /\ (LoadAndPlan \/ LoadFails) => BoundsKept'
  <1>1. ASSUME CheckInv, BoundsKept, LoadAndPlan PROVE BoundsKept'
    BY <1>1, BoundsPlan DEF LoadAndPlan, faults
  <1>2. ASSUME CheckInv, BoundsKept, LoadFails PROVE BoundsKept'
    BY <1>2, BoundsPlan DEF LoadFails
  <1> QED  BY <1>1, <1>2

LEMMA BoundsCreate == CheckInv /\ BoundsKept /\ CreateSink => BoundsKept'
  <1> SUFFICES ASSUME CheckInv, BoundsKept, CreateSink, ~metaLost
               PROVE  BoundsKept'
    BY DEF CreateSink, faults, BoundsKept
  <1>1. /\ pc = "create" /\ StateTyped /\ ShardsWithin /\ MemoryWithin
        /\ UNCHANGED <<bounds, evidence, pending, fetched>>
    BY DEF CreateSink, CheckInv, BoundsKept, params, memory
  <1>2. MemoryWithin'
    BY <1>1 DEF MemoryWithin
  <1>3. ShardsWithin'
    <2>1. CASE ShardedLayout /\ meta.bounds = bounds
      BY <1>1, <2>1 DEF CreateSink, ShardsWithin, ShardedLayout, disk
    <2>2. CASE ~(ShardedLayout /\ meta.bounds = bounds)
      <3>1. shard' = None /\ meta' = NewMeta
        BY <1>1, <2>2 DEF CreateSink, ShardsWithin
      <3> QED  BY <1>1, <3>1, NewMetaIsMeta
               DEF ShardsWithin, ShardedLayout, None, Within
    <2> QED  BY <2>1, <2>2
  <1> QED  BY <1>2, <1>3 DEF BoundsKept

LEMMA BoundsRefresh ==
    CheckInv /\ BoundsKept /\ (RefreshPrices \/ RefreshHolders \/ RefreshRelations)
      => BoundsKept'
  <1> SUFFICES ASSUME CheckInv, BoundsKept, ~metaLost,
                      RefreshPrices \/ RefreshHolders \/ RefreshRelations
               PROVE  BoundsKept'
    BY DEF RefreshPrices, RefreshHolders, RefreshRelations, faults, BoundsKept
  <1>1. /\ pc \in InRun
        /\ UNCHANGED <<meta, shard, bounds, pending, fetched>>
    BY DEF RefreshPrices, RefreshHolders, RefreshRelations, InRun, disk, params
  <1>2. /\ ShardedLayout /\ meta.bounds = bounds
        /\ shard \in [Candidates -> Within(bounds)]
        /\ evidence \in [Candidates -> Within(bounds)]
        /\ pending \in [Candidates -> Within(bounds)]
        /\ fetched \in [Candidates -> Within(bounds)]
    BY <1>1, RunShards
  <1>3. CheckInv'
    BY CheckPrices, CheckHolders, CheckRelations
  <1>4. evidence' \in [Candidates -> Bundle \union {NoBundle}]
    BY <1>3 DEF CheckInv, StateTyped
  <1>5. ASSUME NEW c \in Candidates PROVE evidence'[c] \in Within(bounds)
    <2>1. c \in Held(evidence) =>
             evidence[c] \in Bundle /\ evidence[c].bounds = bounds
      BY <1>2 DEF Held, Within
    <2>2. priceOnly \union holderOnly \union relationOnly \subseteq Held(evidence)
      BY <1>1 DEF CheckInv, Planned
    <2>3. CASE RefreshPrices
      BY <1>2, <2>1, <2>2, <2>3, PricesOf DEF CheckInv, Within
    <2>4. CASE RefreshHolders
      BY <1>2, <2>1, <2>2, <2>4, HoldersOf DEF CheckInv, Within
    <2>5. CASE RefreshRelations
      BY <1>2, <2>1, <2>2, <2>5, RelationsRefreshed DEF CheckInv, Within
    <2> QED  BY <2>3, <2>4, <2>5
  <1>6. evidence' \in [Candidates -> Within(bounds)]
    BY <1>4, <1>5
  <1>7. ShardsWithin'
    BY <1>1, <1>2 DEF ShardsWithin, ShardedLayout
  <1> QED  BY <1>1, <1>2, <1>6, <1>7 DEF BoundsKept, MemoryWithin

LEMMA BoundsPush == CheckInv /\ BoundsKept /\ PushRefreshed => BoundsKept'
  <1> SUFFICES ASSUME CheckInv, BoundsKept, PushRefreshed, ~metaLost
               PROVE  BoundsKept'
    BY DEF PushRefreshed, faults, BoundsKept
  <1>1. pc \in InRun /\ UNCHANGED <<pc, meta, bounds, evidence, fetched>>
    BY DEF PushRefreshed, AfterPushes, InRun, params
  <1>2. /\ ShardedLayout /\ meta.bounds = bounds
        /\ shard \in [Candidates -> Within(bounds)]
        /\ evidence \in [Candidates -> Within(bounds)]
        /\ pending \in [Candidates -> Within(bounds)]
        /\ fetched \in [Candidates -> Within(bounds)]
        /\ NoBundle \in Within(bounds)
    BY <1>1, RunShards
  <1>3. PICK c \in toPush : Push(c, evidence[c])
    BY DEF PushRefreshed
  <1>4. c \in Candidates /\ evidence[c] \in Within(bounds)
    BY <1>2 DEF CheckInv, StateTyped
  <1>5. /\ pending' \in [Candidates -> Within(bounds)]
        /\ shard' \in [Candidates -> Within(bounds)]
    BY <1>2, <1>3, <1>4, PushKeeps
  <1> QED
    BY <1>1, <1>2, <1>5 DEF BoundsKept, ShardsWithin, MemoryWithin, ShardedLayout

LEMMA BoundsPushesDone == CheckInv /\ BoundsKept /\ PushesDone => BoundsKept'
  <1> SUFFICES ASSUME CheckInv, BoundsKept, PushesDone, ~metaLost
               PROVE  BoundsKept'
    BY DEF PushesDone, faults, BoundsKept
  <1>1. /\ pc \in InRun
        /\ UNCHANGED <<meta, shard, bounds, evidence, pending, fetched>>
    BY DEF PushesDone, AfterPushes, InRun, disk, params, memory
  <1> QED
    BY <1>1 DEF BoundsKept, ShardsWithin, MemoryWithin, ShardedLayout

LEMMA BoundsFetchOne ==
    ASSUME NEW c \in Candidates, CheckInv, BoundsKept, FetchOne(c)
    PROVE  BoundsKept'
  <1> SUFFICES ASSUME ~metaLost PROVE BoundsKept'
    BY DEF FetchOne, BoundsKept
  <1>1. pc \in InRun /\ UNCHANGED <<pc, meta, bounds, evidence>>
    BY DEF FetchOne, InRun, params
  <1>2. /\ ShardedLayout /\ meta.bounds = bounds
        /\ shard \in [Candidates -> Within(bounds)]
        /\ evidence \in [Candidates -> Within(bounds)]
        /\ pending \in [Candidates -> Within(bounds)]
        /\ fetched \in [Candidates -> Within(bounds)]
        /\ NoBundle \in Within(bounds)
    BY <1>1, RunShards
  <1>3. PICK bad \in SUBSET Families :
           /\ Push(c, FetchedBundle(c, bad))
           /\ fetched' = With(fetched, c, FetchedBundle(c, bad))
    BY DEF FetchOne
  <1>4. FetchedBundle(c, bad) \in Within(bounds)
    BY <1>3, FetchedIsBundle DEF CheckInv, Within
  <1>5. /\ pending' \in [Candidates -> Within(bounds)]
        /\ shard' \in [Candidates -> Within(bounds)]
    BY <1>2, <1>3, <1>4, PushKeeps
  <1>6. fetched' \in [Candidates -> Within(bounds)]
    BY <1>2, <1>3, <1>4 DEF With
  <1> QED
    BY <1>1, <1>2, <1>5, <1>6
    DEF BoundsKept, ShardsWithin, MemoryWithin, ShardedLayout

\* Shards that a finish leaves, whether it succeeds or fails.
LEMMA BoundsSink ==
    ASSUME CheckInv, BoundsKept, pc = "fetch", FinishSink \/ FinishSinkFails,
           UNCHANGED bounds, ~metaLost'
    PROVE  ~metaLost /\ ShardsWithin'
  <1>1. StateTyped /\ pc \in InRun /\ metaLost \in BOOLEAN
    BY DEF CheckInv, StateTyped, InRun
  <1>2. /\ ~metaLost
        /\ meta' = meta \/ meta' = NewMeta
    <2>1. CASE FinishSink
      BY <2>1 DEF FinishSink, Stamp
    <2>2. CASE FinishSinkFails
      BY <1>1, <2>2 DEF FinishSinkFails, StampFails
    <2> QED  BY <2>1, <2>2
  <1>3. /\ ShardedLayout /\ meta.bounds = bounds
        /\ shard \in [Candidates -> Within(bounds)]
        /\ pending \in [Candidates -> Within(bounds)]
        /\ NoBundle \in Within(bounds)
    BY <1>1, <1>2, RunShards
  <1>4. shard' \in [Candidates -> Within(bounds)]
    <2>1. CASE FinishSink
      BY <1>3, <2>1, WrittenKeeps DEF FinishSink
    <2>2. CASE FinishSinkFails
      BY <1>3, <2>2, WrittenKeeps, InterruptedKeeps DEF FinishSinkFails
    <2> QED  BY <2>1, <2>2
  <1>5. ShardedLayout' /\ meta'.bounds = bounds
    BY <1>1, <1>2, <1>3, NewMetaIsMeta DEF ShardedLayout, NewMeta
  <1> QED  BY <1>2, <1>4, <1>5 DEF ShardsWithin

LEMMA BoundsFinish ==
    CheckInv /\ BoundsKept /\ (FinishRun \/ FinishRunUnsaved) => BoundsKept'
  <1> SUFFICES ASSUME CheckInv, BoundsKept, FinishRun \/ FinishRunUnsaved,
                      ~metaLost'
               PROVE  BoundsKept'
    BY DEF BoundsKept
  <1>1. /\ pc = "fetch" /\ pc \in InRun /\ UNCHANGED <<bounds, fetched>>
        /\ FinishSink \/ FinishSinkFails
        /\ Extended /\ pending' = None
    BY DEF FinishRun, FinishRunUnsaved, InRun, params
  <1>2. ~metaLost /\ ShardsWithin'
    BY <1>1, BoundsSink
  <1>3. /\ evidence \in [Candidates -> Within(bounds)]
        /\ fetched \in [Candidates -> Within(bounds)]
        /\ NoBundle \in Within(bounds)
    BY <1>1, <1>2, RunShards
  <1>4. evidence' \in [Candidates -> Within(bounds)]
    BY <1>1, <1>3 DEF Extended
  <1> QED
    BY <1>1, <1>2, <1>3, <1>4 DEF BoundsKept, MemoryWithin, None

LEMMA BoundsHookFails ==
    ASSUME NEW c \in Candidates, CheckInv, BoundsKept, HookFails(c)
    PROVE  BoundsKept'
  <1>1. /\ pc \in InRun /\ StateTyped /\ Gone /\ UNCHANGED bounds
        /\ metaLost \in BOOLEAN
    BY DEF CheckInv, StateTyped, HookFails, InRun, params
  <1>2. PICK bad \in SUBSET Families :
           LET p == With(pending, c, FetchedBundle(c, bad)) IN
           \E done \in SUBSET Held(p) :
              /\ Interrupted(p, done)
              /\ \/ /\ Stamp(Held(fetched) \union {c}, Held(p) \ done)
                    /\ UNCHANGED metaLost
                 \/ StampFails
    BY DEF HookFails
  <1>3. ASSUME ~metaLost' PROVE ShardsWithin'
    <2> DEFINE p == With(pending, c, FetchedBundle(c, bad))
    <2>a. PICK done \in SUBSET Held(p) :
             /\ Interrupted(p, done)
             /\ \/ /\ Stamp(Held(fetched) \union {c}, Held(p) \ done)
                   /\ UNCHANGED metaLost
                \/ StampFails
      BY <1>2
    <2> HIDE DEF p
    <2>1. /\ ~metaLost
          /\ meta' = meta \/ meta' = NewMeta
      <3>1. CASE StampFails
        BY <1>1, <1>3, <3>1 DEF StampFails
      <3>2. CASE /\ Stamp(Held(fetched) \union {c}, Held(p) \ done)
                 /\ UNCHANGED metaLost
        <4>1. meta' = NewMeta  BY <3>2 DEF Stamp
        <4>2. ~metaLost  BY <1>3, <3>2
        <4> QED  BY <4>1, <4>2
      <3> QED  BY <2>a, <3>1, <3>2
    <2>2. /\ ShardedLayout /\ meta.bounds = bounds
          /\ shard \in [Candidates -> Within(bounds)]
          /\ pending \in [Candidates -> Within(bounds)]
          /\ NoBundle \in Within(bounds)
      BY <1>1, <2>1, RunShards
    <2>3. FetchedBundle(c, bad) \in Within(bounds)
      BY <1>1, <1>2, FetchedIsBundle DEF Within
    <2>4. With(pending, c, FetchedBundle(c, bad)) \in [Candidates -> Within(bounds)]
      BY <2>2, <2>3 DEF With
    <2>5. shard' \in [Candidates -> Within(bounds)]
      BY <1>2, <2>2, <2>4, InterruptedKeeps
    <2>6. ShardedLayout' /\ meta'.bounds = bounds
      BY <1>1, <2>1, <2>2, NewMetaIsMeta DEF ShardedLayout, NewMeta
    <2> QED  BY <1>1, <2>5, <2>6 DEF ShardsWithin
  <1> QED  BY <1>1, <1>3, BoundsGone

LEMMA BoundsEnds ==
    CheckInv /\ BoundsKept
       /\ (RefreshFails \/ FetchFails \/ EndRun \/ CreateRefused \/ LeaveRefused)
      => BoundsKept'
  <1>1. ASSUME CheckInv, BoundsKept, RefreshFails \/ EndRun \/ LeaveRefused
        PROVE  BoundsKept'
    BY <1>1, BoundsGone
    DEF RefreshFails, EndRun, LeaveRefused, BoundsKept, ShardsWithin,
        ShardedLayout, disk, faults
  <1>2. ASSUME CheckInv, BoundsKept, FetchFails PROVE BoundsKept'
    <2>1. /\ pc = "fetch" /\ Gone /\ UNCHANGED bounds
          /\ FinishSink \/ FinishSinkFails
      BY <1>2 DEF FetchFails, params
    <2>2. ~metaLost' => ShardsWithin'
      BY <1>2, <2>1, BoundsSink
    <2> QED  BY <2>1, <2>2, BoundsGone
  <1>3. ASSUME BoundsKept, CreateRefused PROVE BoundsKept'
    BY <1>3 DEF CreateRefused, BoundsKept, ShardsWithin, MemoryWithin,
                ShardedLayout, disk, params, memory, faults, InRun
  <1> QED  BY <1>1, <1>2, <1>3

LEMMA BoundsCrash ==
    CheckInv /\ BoundsKept
       /\ (CrashBetween \/ CrashInFlush \/ CrashInMeta \/ CrashInClear)
      => BoundsKept'
  <1>1. ASSUME BoundsKept, CrashBetween PROVE BoundsKept'
    BY <1>1, BoundsGone
    DEF CrashBetween, Crash, BoundsKept, ShardsWithin, ShardedLayout, disk
  <1>2. ASSUME CheckInv, BoundsKept, CrashInFlush PROVE BoundsKept'
    <2>1. /\ Gone /\ meta' = meta /\ UNCHANGED bounds
          /\ metaLost' = metaLost /\ metaLost \in BOOLEAN /\ pc \in InRun
          /\ StateTyped
      BY <1>2 DEF CheckInv, StateTyped, CrashInFlush, Crash, params, AfterPushes,
                  InRun
    <2>2. ASSUME ~metaLost PROVE ShardsWithin'
      <3>1. /\ ShardedLayout /\ meta.bounds = bounds
            /\ shard \in [Candidates -> Within(bounds)]
            /\ evidence \in [Candidates -> Within(bounds)]
            /\ pending \in [Candidates -> Within(bounds)]
            /\ NoBundle \in Within(bounds)
        BY <1>2, <2>1, <2>2, RunShards
      <3>2. \A c \in toPush : With(pending, c, evidence[c])
                                 \in [Candidates -> Within(bounds)]
        BY <2>1, <3>1 DEF StateTyped, With
      <3>3. \A c \in missing : FetchedBundle(c, {}) \in Within(bounds)
        BY <2>1, FetchedIsBundle DEF StateTyped, Within
      <3>4. \A c \in missing : With(pending, c, FetchedBundle(c, {}))
                                  \in [Candidates -> Within(bounds)]
        BY <2>1, <3>1, <3>3 DEF StateTyped, With
      <3>5. PICK p \in [Candidates -> Within(bounds)] : Breaks(p)
        BY <1>2, <3>1, <3>2, <3>4 DEF CrashInFlush
      <3>6. shard' \in [Candidates -> Within(bounds)]
        BY <3>1, <3>5, InterruptedKeeps DEF Breaks
      <3> QED  BY <2>1, <3>1, <3>6 DEF ShardsWithin, ShardedLayout
    <2> QED  BY <2>1, <2>2, BoundsGone
  <1>3. ASSUME CrashInMeta \/ CrashInClear PROVE BoundsKept'
    BY <1>3 DEF CrashInMeta, CrashInClear, Crash, BoundsKept
  <1> QED  BY <1>1, <1>2, <1>3

LEMMA BoundsStutter == BoundsKept /\ UNCHANGED vars => BoundsKept'
  BY DEF BoundsKept, ShardsWithin, MemoryWithin, ShardedLayout, vars, disk,
         params, plan, memory, faults

LEMMA BoundsSpec == Spec => []BoundsKept
  <1>1. CheckInv /\ BoundsKept /\ [Next]_vars => BoundsKept'
    BY BoundsStart, BoundsLoad, BoundsCreate, BoundsRefresh, BoundsPush,
       BoundsPushesDone, BoundsFetchOne, BoundsFinish, BoundsHookFails,
       BoundsEnds, BoundsCrash, BoundsStutter
    DEF Next
  <1> QED  BY BoundsInit, CheckSpec, <1>1, PTL DEF Spec

\* "Pagination bounds must match" (evidence_cache.rs,
\* validate_evidence_cache): what a run analyses was collected under its own
\* bounds, unless a kill or a failed roll-back left shards without their meta
\* file.
THEOREM RunKeepsBounds == Spec => []AnalyzedWithinBounds
  <1>1. BoundsKept => AnalyzedWithinBounds
    BY NoBundleAssumption
    DEF BoundsKept, MemoryWithin, AnalyzedWithinBounds, Analyzing, Held, Within
  <1> QED  BY BoundsSpec, <1>1, PTL

-----------------------------------------------------------------------------
(* How old the bundles are                                                 *)

Today == {x \in Bundle : x.day = day} \union {NoBundle}

\* The shards that may be older although the meta file is of the run's day.
Behind == IF ShardedLayout /\ meta.day = day THEN passedOver ELSE {}

ShardDays ==
    ShardedLayout =>
        /\ meta.day <= day
        /\ meta.day = day =>
              \A c \in Candidates : c \in passedOver \/ shard[c] \in Today

PlannedDays ==
    pc = "create" =>
        \A c \in Kept \ Behind : c \in priceOnly \/ evidence[c] \in Today

\* The bundles that the price refresh is about to replace.
Unpriced == IF pc = "prices" THEN priceOnly ELSE {}

RunDays ==
    pc \in InRun =>
        \A c \in Kept \ (Unpriced \union Behind) :
            /\ evidence[c] \in Today
            /\ c \in toPush \/ OnDisk(c) \in Today

BufferDays ==
    /\ \A c \in Candidates : c \in Behind \/ pending[c] \in Today
    /\ fetched \in [Candidates -> Today]

AnalysisDays ==
    Analyzing =>
        \A c \in Candidates : c \in passedOver \/ evidence[c] \in Today

DaysKept ==
    ~metaLost =>
        ShardDays /\ PlannedDays /\ RunDays /\ BufferDays /\ AnalysisDays

LEMMA DaysInit == Init => DaysKept
  BY DEF Init, DaysKept, ShardDays, ShardedLayout, PlannedDays, RunDays,
         BufferDays, AnalysisDays, Analyzing, InRun, None, Today

LEMMA DaysGone ==
    ASSUME Gone, ~metaLost' => ShardDays'
    PROVE  DaysKept'
  BY DEF Gone, DaysKept, PlannedDays, RunDays, BufferDays, AnalysisDays,
         Analyzing, InRun, None, Today

LEMMA DaysStart == CheckInv /\ DaysKept /\ StartRun => DaysKept'
  <1> SUFFICES ASSUME CheckInv, DaysKept, StartRun PROVE DaysKept'
    OBVIOUS
  <1>1. /\ pending' = None /\ fetched' = None /\ pc' = "load"
        /\ UNCHANGED <<meta, shard, passedOver, metaLost>> /\ StateTyped
    BY DEF CheckInv, Idle, StartRun, disk, memory, faults
  <1>2. /\ day \in Int /\ day' \in Int /\ day <= day'
        /\ meta # NoMeta => meta.day \in Int
    BY <1>1, CacheBounds DEF StartRun, StateTyped, Days, Meta
  <1>3. ~metaLost' => ShardDays'
    <2> SUFFICES ASSUME ~metaLost, meta # NoMeta
                 PROVE  /\ meta.day <= day'
                        /\ meta.day = day' =>
                              \A c \in Candidates :
                                 c \in passedOver \/ shard[c] \in Today'
      BY <1>1 DEF ShardDays, ShardedLayout
    <2>1. /\ meta.day <= day
          /\ meta.day = day =>
                \A c \in Candidates : c \in passedOver \/ shard[c] \in Today
      BY DEF DaysKept, ShardDays, ShardedLayout
    <2>2. meta.day = day' => day' = day /\ meta.day = day
      BY <1>2, <2>1
    <2>3. day' = day => Today' = Today
      BY DEF Today
    <2> QED  BY <1>2, <2>1, <2>2, <2>3
  <1>4. PlannedDays' /\ RunDays' /\ BufferDays' /\ AnalysisDays'
    BY <1>1 DEF PlannedDays, RunDays, BufferDays, AnalysisDays, Analyzing,
                InRun, None, Today
  <1> QED  BY <1>3, <1>4 DEF DaysKept

LEMMA DaysPlan ==
    ASSUME NEW cached, cached = Cached \/ cached = {}, CheckInv, DaysKept,
           pc = "load", Plan(cached),
           UNCHANGED <<disk, params, toPush, pending, fetched, metaLost>>
    PROVE  DaysKept'
  <1> SUFFICES ASSUME ~metaLost PROVE DaysKept'
    BY DEF DaysKept
  <1> DEFINE stale == Loadable /\ meta.day # day
             miss == {c \in Current : c \notin cached \/
                                      "deep" \in shard[c].failed}
             kept == cached \ miss
             price == {c \in kept : stale \/ "prices" \in shard[c].failed}
  <1>1. /\ StateTyped /\ ShardDays /\ BufferDays
        /\ evidence' = [c \in Candidates |->
                           IF c \in cached THEN Reconciled(shard[c], c)
                           ELSE NoBundle]
        /\ missing' = miss /\ priceOnly' = price
        /\ pc' \in {"analyze", "create"}
        /\ pc' = "analyze" => miss \union price = {}
        /\ UNCHANGED <<meta, shard, passedOver, version, day, bounds, list,
                       pending, fetched>>
    BY DEF Plan, disk, params, CheckInv, DaysKept
  <1>2. \A c \in cached : /\ Loadable /\ c \in Candidates /\ c \in Current
                          /\ shard[c] # NoBundle
    BY CachedHeld
  <1> HIDE DEF stale, miss, kept, price
  <1>3. /\ ShardDays' /\ BufferDays' /\ Today' = Today /\ Behind' = Behind
        /\ Current' = Current
    BY <1>1 DEF ShardDays, BufferDays, ShardedLayout, Today, Behind, Current
  <1>4. RunDays'
    BY <1>1 DEF RunDays, InRun
  <1>5. Kept' = kept
    BY <1>1, <1>2, <1>3 DEF Kept, kept, miss
  \* a bundle that is kept although the meta file is of today is of today,
  \* unless it was passed over
  <1>6. ASSUME NEW c \in kept, meta.day = day, c \notin passedOver
        PROVE  evidence'[c] \in Today
    <2>1. c \in Candidates /\ c \in cached /\ Loadable /\ shard[c] # NoBundle
      BY <1>2 DEF kept
    <2>2. shard[c] \in Bundle /\ shard[c].day = day
      BY <1>1, <1>6, <2>1 DEF StateTyped, ShardDays, Loadable, Today
    <2>3. evidence'[c] = Reconciled(shard[c], c)
      BY <1>1, <2>1
    <2> QED  BY <1>1, <2>1, <2>2, <2>3, ReconciledBundle DEF StateTyped, Today
  <1>7. \A c \in kept : c \notin price => Loadable /\ meta.day = day
    BY <1>2 DEF price, stale, kept
  <1>8. PlannedDays'
    <2>1. ASSUME NEW c \in kept \ Behind, c \notin price
          PROVE  evidence'[c] \in Today
      <3>1. Loadable /\ meta.day = day
        BY <1>7, <2>1
      <3>2. c \notin passedOver
        BY <2>1, <3>1 DEF Behind, Loadable
      <3> QED  BY <1>6, <3>1, <3>2
    <2> QED  BY <1>1, <1>3, <1>5, <2>1 DEF PlannedDays
  <1>9. AnalysisDays'
    <2> SUFFICES ASSUME pc' = "analyze", NEW c \in Candidates,
                        c \notin passedOver
                 PROVE  evidence'[c] \in Today
      BY <1>1, <1>3 DEF AnalysisDays, Analyzing
    <2>1. CASE c \in cached
      <3>1. c \in kept /\ c \notin price
        BY <1>1, <2>1 DEF kept
      <3> QED  BY <1>6, <1>7, <3>1
    <2>2. CASE c \notin cached
      BY <1>1, <2>2 DEF Today
    <2> QED  BY <2>1, <2>2
  <1> QED  BY <1>3, <1>4, <1>8, <1>9 DEF DaysKept

LEMMA DaysLoad == CheckInv /\ DaysKept /\ (LoadAndPlan \/ LoadFails) => DaysKept'
  <1>1. ASSUME CheckInv, DaysKept, LoadAndPlan PROVE DaysKept'
    BY <1>1, DaysPlan DEF LoadAndPlan, faults
  <1>2. ASSUME CheckInv, DaysKept, LoadFails PROVE DaysKept'
    BY <1>2, DaysPlan DEF LoadFails
  <1> QED  BY <1>1, <1>2

LEMMA DaysCreate ==
    CheckInv /\ BoundsKept /\ DaysKept /\ CreateSink => DaysKept'
  <1> SUFFICES ASSUME CheckInv, BoundsKept, DaysKept, CreateSink, ~metaLost
               PROVE  DaysKept'
    BY DEF CreateSink, faults, DaysKept
  <1>1. /\ pc = "create" /\ pc' = "prices" /\ StateTyped /\ Planned /\ AtCreate
        /\ ShardsWithin /\ ShardDays /\ BufferDays /\ PlannedDays
        /\ pending = None
        /\ UNCHANGED <<day, list, missing, priceOnly, evidence, toPush, pending,
                       fetched>>
    BY DEF CreateSink, CheckInv, Idle, BoundsKept, DaysKept, params, plan,
           memory
  <1>2. /\ AnalysisDays' /\ PlannedDays' /\ Today' = Today
        /\ Kept' = Kept /\ Unpriced' = priceOnly
    BY <1>1 DEF AnalysisDays, Analyzing, PlannedDays, Today, Kept, Current,
                Unpriced
  <1>3. BufferDays'
    BY <1>1, <1>2 DEF BufferDays, None, Today
  <1>4. CASE ShardedLayout /\ meta.bounds = bounds
    <2>1. UNCHANGED <<meta, shard, passedOver>> /\ Loadable
      BY <1>4 DEF CreateSink, Loadable, disk
    <2>2. ShardDays' /\ Behind' = Behind
      BY <1>1, <1>2, <2>1 DEF ShardDays, ShardedLayout, Behind
    <2>3. \A c \in Candidates : OnDisk(c)' = shard[c]
      BY <1>1, <2>1 DEF OnDisk, Written, None
    <2>4. \A c \in Kept \ (priceOnly \union Behind) : evidence[c] \in Today
      BY <1>1 DEF PlannedDays
    <2>5. ASSUME NEW c \in Kept \ (priceOnly \union Behind)
          PROVE  OnDisk(c)' \in Today
      <3>1. c \in Candidates /\ OnDisk(c)' = shard[c]
        BY <2>3 DEF Kept, Current
      <3>2. shard[c] \in Bundle /\ evidence[c] = Reconciled(shard[c], c)
        BY <1>1, <2>1, <3>1 DEF AtCreate, AsLoaded, StateTyped
      <3>3. evidence[c] # NoBundle
        BY <1>1, <3>1, <3>2, ReconciledBundle, NoBundleAssumption DEF StateTyped
      <3>4. evidence[c] \in Bundle /\ evidence[c].day = day
        BY <2>4, <3>3 DEF Today
      <3>5. Reconciled(shard[c], c).day = shard[c].day
        BY <1>1, <3>1, <3>2, ReconciledBundle DEF StateTyped
      <3>6. shard[c].day = day
        BY <3>2, <3>4, <3>5
      <3> QED  BY <1>1, <3>1, <3>2, <3>6 DEF Today
    <2>6. RunDays'
      BY <1>1, <1>2, <2>2, <2>4, <2>5 DEF RunDays
    <2> QED  BY <1>2, <1>3, <2>2, <2>6 DEF DaysKept
  <1>5. CASE ~(ShardedLayout /\ meta.bounds = bounds)
    <2>1. shard' = None /\ meta' = NewMeta
      BY <1>1, <1>5 DEF CreateSink, ShardsWithin
    <2>2. Kept = {}
      BY <1>1, <1>5 DEF Planned, AtCreate, Loadable
    <2>3. /\ meta'.day = day /\ day \in Int
      BY <1>1, <2>1, CacheBounds DEF NewMeta, StateTyped, Days
    <2>4. ShardDays'
      BY <1>1, <1>2, <2>1, <2>3 DEF ShardDays, None, Today
    <2>5. RunDays'
      BY <1>1, <1>2, <2>2 DEF RunDays
    <2> QED  BY <1>2, <1>3, <2>4, <2>5 DEF DaysKept
  <1> QED  BY <1>4, <1>5

\* A refresh: what waits for new prices gets them, the rest keeps its day.
LEMMA DaysRefresh ==
    CheckInv /\ DaysKept /\ (RefreshPrices \/ RefreshHolders \/ RefreshRelations)
      => DaysKept'
  <1> SUFFICES ASSUME CheckInv, DaysKept, ~metaLost,
                      RefreshPrices \/ RefreshHolders \/ RefreshRelations
               PROVE  DaysKept'
    BY DEF RefreshPrices, RefreshHolders, RefreshRelations, faults, DaysKept
  <1>1. /\ pc \in InRun /\ toPush = {} /\ StateTyped /\ Planned
        /\ ShardDays /\ BufferDays /\ RunDays
        /\ UNCHANGED <<meta, shard, passedOver, day, list, missing, priceOnly,
                       pending, fetched>>
        /\ pc' \in {"pushPrices", "pushHolders", "pushRelations"}
        /\ pc \in {"prices", "holders", "relations"}
    BY DEF RefreshPrices, RefreshHolders, RefreshRelations, InRun, disk, params,
           plan, CheckInv, Idle, AfterPushes, DaysKept
  <1>2. Today' = Today /\ Behind' = Behind /\ Kept' = Kept /\ Unpriced' = {}
    BY <1>1 DEF Today, Behind, ShardedLayout, Kept, Current, Unpriced
  <1>3. BufferDays' /\ ShardDays' /\ AnalysisDays' /\ PlannedDays'
    BY <1>1, <1>2 DEF BufferDays, ShardDays, ShardedLayout, AnalysisDays,
                      Analyzing, PlannedDays
  <1>4. \A c \in Candidates : OnDisk(c)' = OnDisk(c)
    BY <1>1 DEF OnDisk, Written
  <1>5. ASSUME NEW c \in Kept \ Behind
        PROVE  /\ evidence'[c] \in Today
               /\ c \in toPush' \/ OnDisk(c)' \in Today
    <2>1. /\ c \in Candidates /\ evidence[c] # NoBundle /\ evidence[c] \in Bundle
      BY <1>1 DEF Kept, Current, Planned, Held, StateTyped
    <2>2. OnDisk(c)' = OnDisk(c)
      BY <1>4, <2>1
    <2>3. c \notin Unpriced => evidence[c] \in Today /\ OnDisk(c) \in Today
      BY <1>1 DEF RunDays
    <2>4. CASE RefreshPrices
      <3>1. toPush' = priceOnly /\ Unpriced = priceOnly
        BY <2>4 DEF RefreshPrices, Unpriced
      <3>2. evidence'[c] \in Today
        BY <1>1, <2>1, <2>3, <2>4, <3>1, PricesOf DEF Today
      <3> QED  BY <2>2, <2>3, <3>1, <3>2
    <2>5. CASE RefreshHolders \/ RefreshRelations
      <3>1. Unpriced = {}
        BY <2>5 DEF RefreshHolders, RefreshRelations, Unpriced
      <3>2. evidence[c] \in Today /\ evidence[c].day = day
        BY <2>1, <2>3, <3>1, NoBundleAssumption DEF Today
      <3>3. evidence'[c] \in Today
        BY <1>1, <2>1, <2>5, <3>2, HoldersOf, RelationsRefreshed DEF Today
      <3> QED  BY <2>2, <2>3, <3>1, <3>3
    <2> QED  BY <2>4, <2>5
  <1>6. RunDays'
    BY <1>1, <1>2, <1>5 DEF RunDays
  <1> QED  BY <1>3, <1>6 DEF DaysKept

\* A push changes nothing but the bundle at hand and what the buffer held.
LEMMA PushEach ==
    ASSUME NEW c \in Candidates, NEW b, Push(c, b), NEW d \in Candidates,
           pending \in [Candidates -> Bundle \union {NoBundle}]
    PROVE  /\ pending'[d] \in {NoBundle, IF d = c THEN b ELSE pending[d]}
           /\ shard'[d] \in {shard[d], IF d = c THEN b ELSE pending[d]}
  BY DEF Push, With, Written, None

\* So it keeps the days of what may not be behind.
LEMMA PushDays ==
    ASSUME StateTyped, ShardDays, BufferDays, NEW c \in Candidates, NEW b,
           c \in Behind \/ b \in Today, Push(c, b),
           UNCHANGED <<meta, passedOver, day>>
    PROVE  /\ \A d \in Candidates : d \in Behind' \/ pending'[d] \in Today'
           /\ ShardDays'
  <1>1. Today' = Today /\ Behind' = Behind /\ NoBundle \in Today
    BY DEF Today, Behind, ShardedLayout
  <1>2. \A d \in Candidates : d \in Behind \/ pending'[d] \in Today
    BY <1>1, PushEach DEF StateTyped, BufferDays
  <1>3. ASSUME ShardedLayout, meta.day = day, NEW d \in Candidates,
               d \notin passedOver
        PROVE  shard'[d] \in Today
    <2>1. Behind = passedOver
      BY <1>3 DEF Behind
    <2> QED  BY <1>3, <2>1, PushEach DEF StateTyped, BufferDays, ShardDays
  <1> QED  BY <1>1, <1>2, <1>3 DEF ShardDays, ShardedLayout

LEMMA DaysPush == CheckInv /\ DaysKept /\ PushRefreshed => DaysKept'
  <1> SUFFICES ASSUME CheckInv, DaysKept, PushRefreshed, ~metaLost
               PROVE  DaysKept'
    BY DEF PushRefreshed, faults, DaysKept
  <1>1. /\ pc \in InRun /\ pc \in {"pushPrices", "pushHolders", "pushRelations"}
        /\ StateTyped /\ Planned /\ ShardDays /\ BufferDays /\ RunDays
        /\ UNCHANGED <<pc, meta, passedOver, day, list, missing, priceOnly,
                       evidence, fetched>>
    BY DEF PushRefreshed, AfterPushes, InRun, params, plan, CheckInv, DaysKept
  <1>2. /\ AnalysisDays' /\ PlannedDays'
        /\ Today' = Today /\ Behind' = Behind
        /\ Kept' = Kept /\ Unpriced' = {} /\ Unpriced = {}
    BY <1>1 DEF AnalysisDays, Analyzing, PlannedDays, Today, Behind,
                ShardedLayout, Kept, Current, Unpriced
  <1>3. PICK c \in toPush : Push(c, evidence[c]) /\ toPush' = toPush \ {c}
    BY DEF PushRefreshed
  <1>4. c \in Candidates /\ c \in Kept /\ evidence[c] # NoBundle
        /\ evidence[c] \in Bundle
    BY <1>1 DEF Planned, Kept, Current, Held, StateTyped
  <1>5. c \in Behind \/ evidence[c] \in Today
    BY <1>1, <1>2, <1>4 DEF RunDays
  <1>6. /\ \A d \in Candidates : d \in Behind' \/ pending'[d] \in Today'
        /\ ShardDays'
    BY <1>1, <1>3, <1>4, <1>5, PushDays
  <1>7. \A d \in Candidates :
           OnDisk(d)' = IF d = c THEN evidence[c] ELSE OnDisk(d)
    BY <1>1, <1>3, <1>4, PushWrites DEF StateTyped
  <1>8. \A d \in Kept \ Behind : d \in toPush' \/ OnDisk(d)' \in Today
    BY <1>1, <1>2, <1>3, <1>5, <1>7 DEF RunDays, Kept, Current
  <1>9. RunDays'
    BY <1>1, <1>2, <1>8 DEF RunDays
  <1>10. BufferDays'
    BY <1>1, <1>2, <1>6 DEF BufferDays
  <1> QED  BY <1>2, <1>6, <1>9, <1>10 DEF DaysKept

LEMMA DaysPushesDone == CheckInv /\ DaysKept /\ PushesDone => DaysKept'
  <1> SUFFICES ASSUME CheckInv, DaysKept, PushesDone, ~metaLost
               PROVE  DaysKept'
    BY DEF PushesDone, faults, DaysKept
  <1>1. /\ pc \in InRun /\ pc \in {"pushPrices", "pushHolders", "pushRelations"}
        /\ pc' \in {"holders", "relations", "fetch"}
        /\ StateTyped /\ ShardDays /\ BufferDays /\ RunDays
        /\ UNCHANGED <<meta, shard, passedOver, day, list, missing, priceOnly,
                       evidence, pending, fetched, toPush>>
    BY DEF PushesDone, AfterPushes, InRun, disk, params, plan, memory, CheckInv,
           DaysKept
  <1>2. /\ Today' = Today /\ Behind' = Behind /\ Kept' = Kept
        /\ Unpriced' = {} /\ Unpriced = {}
    BY <1>1 DEF Today, Behind, ShardedLayout, Kept, Current, Unpriced
  <1>3. AnalysisDays' /\ PlannedDays' /\ ShardDays' /\ BufferDays'
    BY <1>1, <1>2 DEF AnalysisDays, Analyzing, PlannedDays, ShardDays,
                      BufferDays, ShardedLayout
  <1>4. \A c \in Candidates : OnDisk(c)' = OnDisk(c)
    BY <1>1 DEF OnDisk, Written
  <1>5. RunDays'
    BY <1>1, <1>2, <1>4 DEF RunDays, Kept, Current
  <1> QED  BY <1>3, <1>5 DEF DaysKept

LEMMA DaysFetchOne ==
    ASSUME NEW c \in Candidates, CheckInv, DaysKept, FetchOne(c)
    PROVE  DaysKept'
  <1> SUFFICES ASSUME ~metaLost PROVE DaysKept'
    BY DEF FetchOne, DaysKept
  <1>1. /\ pc = "fetch" /\ pc \in InRun /\ c \in missing \ Held(fetched)
        /\ StateTyped /\ ShardDays /\ BufferDays /\ RunDays
        /\ UNCHANGED <<pc, meta, passedOver, day, list, missing, priceOnly,
                       evidence, toPush>>
    BY DEF FetchOne, InRun, params, plan, CheckInv, DaysKept
  <1>2. /\ AnalysisDays' /\ PlannedDays'
        /\ Today' = Today /\ Behind' = Behind
        /\ Kept' = Kept /\ Unpriced' = {} /\ Unpriced = {}
    BY <1>1 DEF AnalysisDays, Analyzing, PlannedDays, Today, Behind,
                ShardedLayout, Kept, Current, Unpriced
  <1>3. PICK bad \in SUBSET Families :
           /\ Push(c, FetchedBundle(c, bad))
           /\ fetched' = With(fetched, c, FetchedBundle(c, bad))
    BY DEF FetchOne
  <1> DEFINE b == FetchedBundle(c, bad)
  <1>4. b \in Today /\ b \in Bundle /\ b # NoBundle
    BY <1>1, <1>3, FetchedIsBundle, NoBundleAssumption DEF Today
  <1> HIDE DEF b
  <1>5. /\ \A d \in Candidates : d \in Behind' \/ pending'[d] \in Today'
        /\ ShardDays'
    BY <1>1, <1>3, <1>4, PushDays DEF b
  <1>6. \A d \in Candidates : OnDisk(d)' = IF d = c THEN b ELSE OnDisk(d)
    BY <1>1, <1>3, <1>4, PushWrites DEF StateTyped, b
  <1>7. fetched' = [fetched EXCEPT ![c] = b]
    BY <1>3 DEF With, b
  <1>8. BufferDays'
    BY <1>1, <1>2, <1>4, <1>5, <1>7 DEF BufferDays
  <1>9. \A d \in Kept : OnDisk(d)' = OnDisk(d)
    BY <1>1, <1>6 DEF Kept, Current
  <1>10. RunDays'
    BY <1>1, <1>2, <1>9 DEF RunDays
  <1> QED  BY <1>2, <1>5, <1>8, <1>10 DEF DaysKept

\* What a write that breaks off leaves in each shard.
LEMMA InterruptedEach ==
    ASSUME NEW p, NEW done, NEW d \in Candidates, Interrupted(p, done)
    PROVE  /\ shard'[d] \in {NoBundle, p[d], shard[d]}
           /\ d \in done => shard'[d] = p[d]
           /\ d \notin done /\ d \notin Held(p) \ done => shard'[d] = shard[d]
  <1>1. PICK torn \in SUBSET (Held(p) \ done) :
           shard' = [c \in Candidates |-> IF c \in done THEN p[c]
                                          ELSE IF c \in torn THEN NoBundle
                                          ELSE shard[c]]
    BY DEF Interrupted
  <1> QED  BY <1>1

\* A write under the old meta file, whole or broken off.
LEMMA WriteDays ==
    ASSUME StateTyped, ShardDays, BufferDays, NEW p,
           \A d \in Candidates : d \in Behind \/ p[d] \in Today,
           \A d \in Candidates : shard'[d] \in {NoBundle, p[d], shard[d]},
           UNCHANGED <<meta, passedOver, day>>
    PROVE  ShardDays'
  <1>1. Today' = Today /\ NoBundle \in Today
    BY DEF Today
  <1>2. ASSUME ShardedLayout, meta.day = day, NEW d \in Candidates,
               d \notin passedOver
        PROVE  shard'[d] \in Today
    <2>1. Behind = passedOver
      BY <1>2 DEF Behind
    <2> QED  BY <1>1, <1>2, <2>1 DEF ShardDays
  <1> QED  BY <1>1, <1>2 DEF ShardDays, ShardedLayout

\* The stamp names as renewed only what is of today on the disk.
LEMMA StampDays ==
    ASSUME StateTyped, NEW A, NEW D, Stamp(A, D), UNCHANGED day,
           \A d \in Candidates :
              /\ d \in A \ D => shard'[d] \in Today
              /\ meta.day = day /\ d \notin passedOver => shard'[d] \in Today
              /\ meta.day # day /\ d \in Kept \ D => shard'[d] \in Today
    PROVE  ShardDays'
  <1>1. /\ Today' = Today /\ NoBundle \in Today
        /\ meta' = NewMeta /\ meta'.day = day /\ day \in Int
    BY CacheBounds DEF Today, Stamp, NewMeta, StateTyped, Days
  <1>2. passedOver' = Held(shard') \ ((A \ D) \union
                         (IF meta.day = day THEN Candidates \ passedOver
                                            ELSE Kept \ D))
    BY DEF Stamp, Kept
  <1>3. ASSUME NEW d \in Candidates, d \notin passedOver'
        PROVE  shard'[d] \in Today
    <2>1. CASE d \notin Held(shard')
      BY <1>1, <2>1 DEF Held
    <2>2. CASE d \in A \ D
      BY <2>2
    <2>3. CASE d \in Held(shard') /\ d \notin A \ D
      <3>1. CASE meta.day = day
        BY <1>2, <1>3, <2>3, <3>1
      <3>2. CASE meta.day # day
        BY <1>2, <1>3, <2>3, <3>2
      <3> QED  BY <3>1, <3>2
    <2> QED  BY <2>1, <2>2, <2>3
  <1> QED  BY <1>1, <1>3 DEF ShardDays

\* In a run that fetches, what will be on the disk is of today, unless it
\* is behind or still to be fetched.
LEMMA FetchDays ==
    ASSUME CheckInv, DaysKept, ~metaLost, pc = "fetch"
    PROVE  /\ StateTyped /\ ShardDays /\ BufferDays /\ ShardedLayout
           /\ \A d \in Kept : d \in Behind \/ OnDisk(d) \in Today
           /\ \A d \in Kept : d \in Behind \/ evidence[d] \in Today
           /\ \A d \in Held(fetched) : OnDisk(d) \in Today
  <1>1. /\ StateTyped /\ Idle /\ ShardDays /\ RunDays /\ BufferDays
        /\ FetchedOnDisk /\ Loadable /\ toPush = {} /\ Unpriced = {}
        /\ pc \in InRun
    BY DEF CheckInv, DaysKept, Running, InRun, Idle, AfterPushes, Unpriced
  <1>2. \A d \in Kept : d \in Behind \/ OnDisk(d) \in Today
    BY <1>1 DEF RunDays
  <1>3. \A d \in Kept : d \in Behind \/ evidence[d] \in Today
    BY <1>1 DEF RunDays
  <1>4. \A d \in Held(fetched) : OnDisk(d) \in Today
    BY <1>1 DEF FetchedOnDisk, BufferDays, Held
  <1> QED  BY <1>1, <1>2, <1>3, <1>4 DEF Loadable

\* The last flush, whether the fetch ended or failed.
LEMMA FinishDays ==
    ASSUME CheckInv, DaysKept, ~metaLost, pc = "fetch", FinishSink,
           UNCHANGED day
    PROVE  ShardDays'
  <1>1. /\ StateTyped /\ ShardDays /\ BufferDays /\ ShardedLayout
        /\ \A d \in Kept : d \in Behind \/ OnDisk(d) \in Today
        /\ \A d \in Held(fetched) : OnDisk(d) \in Today
    BY FetchDays
  <1>2. /\ \A d \in Candidates : shard'[d] = OnDisk(d)
        /\ Stamp(Held(fetched), {})
    BY <1>1 DEF FinishSink, OnDisk, Written
  <1>3. ASSUME NEW d \in Candidates, meta.day = day, d \notin passedOver
        PROVE  OnDisk(d) \in Today
    <2>1. d \notin Behind
      BY <1>3 DEF Behind
    <2> QED  BY <1>1, <1>3, <2>1 DEF OnDisk, Written, BufferDays, ShardDays
  <1>4. meta.day # day => Behind = {}
    BY DEF Behind
  <1>5. Kept \subseteq Candidates /\ Held(fetched) \subseteq Candidates
    BY DEF Kept, Current, Held
  <1> QED  BY <1>1, <1>2, <1>3, <1>4, <1>5, StampDays

LEMMA SinkFailsDays ==
    ASSUME CheckInv, DaysKept, pc = "fetch", FinishSinkFails, UNCHANGED day,
           ~metaLost'
    PROVE  ~metaLost /\ ShardDays' /\ UNCHANGED <<meta, passedOver>>
  <1>1. ~metaLost /\ UNCHANGED <<meta, passedOver>>
    BY DEF FinishSinkFails, StampFails, CheckInv, StateTyped
  <1>2. /\ StateTyped /\ ShardDays /\ BufferDays
    BY <1>1, FetchDays
  <1>3. \A d \in Candidates : shard'[d] \in {NoBundle, pending[d], shard[d]}
    <2>1. CASE \E done \in SUBSET Held(pending) : Interrupted(pending, done)
      BY <2>1, InterruptedEach
    <2>2. CASE shard' = Written(pending)
      BY <2>2 DEF Written
    <2> QED  BY <2>1, <2>2 DEF FinishSinkFails
  <1> QED  BY <1>1, <1>2, <1>3, WriteDays DEF BufferDays

LEMMA DaysFinish == CheckInv /\ DaysKept /\ FinishRun => DaysKept'
  <1> SUFFICES ASSUME CheckInv, DaysKept, FinishRun, ~metaLost
               PROVE  DaysKept'
    BY DEF FinishRun, FinishSink, DaysKept
  <1>1. /\ pc = "fetch" /\ missing = Held(fetched) /\ FinishSink
        /\ UNCHANGED <<day, list, fetched>> /\ pending' = None
        /\ pc' = "analyze" /\ Extended
    BY DEF FinishRun, params
  <1>2. /\ ShardDays' /\ Today' = Today /\ BufferDays
        /\ \A d \in Kept : d \in Behind \/ evidence[d] \in Today
    BY <1>1, FinishDays, FetchDays DEF Today
  <1>3. KeptOnDisk /\ StateTyped /\ Planned /\ pc \in InRun
    BY <1>1 DEF CheckInv, Running, InRun
  \* what was behind and was not fetched is still behind
  <1>4. ASSUME NEW c \in Behind, c \in Kept PROVE c \in passedOver'
    <2>1. /\ meta.day = day /\ c \in passedOver /\ c \in Candidates
          /\ c \notin Held(fetched)
      BY <1>1, <1>4 DEF Behind, Kept, Current
    <2>2. shard'[c] # NoBundle
      BY <1>1, <1>3, <1>4, KeptBundle DEF FinishSink, OnDisk
    <2> QED  BY <1>1, <2>1, <2>2 DEF FinishSink, Stamp, Held
  <1>5. ASSUME NEW c \in Candidates
        PROVE  c \in passedOver' \/ evidence'[c] \in Today
    <2>1. CASE c \in Held(fetched)
      BY <1>1, <1>2, <2>1 DEF Extended, Held, BufferDays
    <2>2. CASE c \notin Held(fetched) /\ c \in Kept
      <3>1. evidence'[c] = evidence[c]
        BY <1>1, <2>2 DEF Extended, Held
      <3> QED  BY <1>2, <1>4, <2>2, <3>1
    <2>3. CASE c \notin Held(fetched) /\ c \notin Kept
      <3>1. evidence'[c] = evidence[c] /\ c \notin Current
        BY <1>1, <2>3 DEF Extended, Held, Kept
      <3>2. evidence[c] = NoBundle
        BY <1>3, <3>1 DEF Planned, Held
      <3> QED  BY <3>1, <3>2 DEF Today
    <2> QED  BY <2>1, <2>2, <2>3
  <1>6. AnalysisDays' /\ BufferDays' /\ PlannedDays' /\ RunDays'
    BY <1>1, <1>2, <1>5 DEF AnalysisDays, BufferDays, PlannedDays, RunDays,
                            InRun, None, Today
  <1> QED  BY <1>2, <1>6 DEF DaysKept

LEMMA DaysUnsaved == CheckInv /\ DaysKept /\ FinishRunUnsaved => DaysKept'
  <1> SUFFICES ASSUME CheckInv, DaysKept, FinishRunUnsaved, ~metaLost'
               PROVE  DaysKept'
    BY DEF DaysKept
  <1>1. /\ pc = "fetch" /\ missing = Held(fetched) /\ FinishSinkFails
        /\ UNCHANGED <<day, list, fetched>> /\ pending' = None
        /\ pc' = "unsaved" /\ Extended
    BY DEF FinishRunUnsaved, params
  <1>2. ~metaLost /\ ShardDays' /\ UNCHANGED passedOver /\ Today' = Today
    BY <1>1, SinkFailsDays DEF Today
  <1>3. /\ BufferDays
        /\ \A d \in Kept : d \in Behind \/ evidence[d] \in Today
    BY <1>1, <1>2, FetchDays
  <1>4. Planned /\ pc \in InRun
    BY <1>1 DEF CheckInv, InRun
  <1>5. ASSUME NEW c \in Candidates, c \notin passedOver
        PROVE  evidence'[c] \in Today
    <2>1. CASE c \in Held(fetched)
      BY <1>1, <1>3, <2>1 DEF Extended, Held, BufferDays
    <2>2. CASE c \notin Held(fetched) /\ c \in Kept
      <3>1. evidence'[c] = evidence[c] /\ c \notin Behind
        BY <1>1, <1>5, <2>2 DEF Extended, Held, Behind
      <3> QED  BY <1>3, <2>2, <3>1
    <2>3. CASE c \notin Held(fetched) /\ c \notin Kept
      <3>1. evidence'[c] = evidence[c] /\ c \notin Current
        BY <1>1, <2>3 DEF Extended, Held, Kept
      <3>2. evidence[c] = NoBundle
        BY <1>4, <3>1 DEF Planned, Held
      <3> QED  BY <3>1, <3>2 DEF Today
    <2> QED  BY <2>1, <2>2, <2>3
  <1>6. AnalysisDays' /\ BufferDays' /\ PlannedDays' /\ RunDays'
    BY <1>1, <1>2, <1>3, <1>5 DEF AnalysisDays, BufferDays, PlannedDays,
                                  RunDays, InRun, None, Today
  <1> QED  BY <1>2, <1>6 DEF DaysKept

\* The flush inside on_bundle breaks off and finish stamps the meta file.
LEMMA DaysHookFails ==
    ASSUME NEW c \in Candidates, CheckInv, DaysKept, HookFails(c)
    PROVE  DaysKept'
  <1>1. /\ pc = "fetch" /\ Gone /\ UNCHANGED day /\ metaLost \in BOOLEAN
    BY DEF CheckInv, StateTyped, HookFails, params
  <1>2. PICK bad \in SUBSET Families :
           LET p == With(pending, c, FetchedBundle(c, bad)) IN
           \E done \in SUBSET Held(p) :
              /\ Interrupted(p, done)
              /\ \/ /\ Stamp(Held(fetched) \union {c}, Held(p) \ done)
                    /\ UNCHANGED metaLost
                 \/ StampFails
    BY DEF HookFails
  <1> DEFINE b == FetchedBundle(c, bad)
             p == With(pending, c, b)
  <1>3. PICK done \in SUBSET Held(p) :
           /\ Interrupted(p, done)
           /\ \/ /\ Stamp(Held(fetched) \union {c}, Held(p) \ done)
                 /\ UNCHANGED metaLost
              \/ StampFails
    BY <1>2
  <1>4. ASSUME ~metaLost' PROVE ShardDays'
    <2>1. ~metaLost
      BY <1>1, <1>3, <1>4 DEF StampFails
    <2>2. /\ StateTyped /\ ShardDays /\ BufferDays /\ ShardedLayout
          /\ \A d \in Kept : d \in Behind \/ OnDisk(d) \in Today
          /\ \A d \in Held(fetched) : OnDisk(d) \in Today
      BY <1>1, <2>1, FetchDays
    <2>3. b \in Today /\ b # NoBundle
      BY <1>2, <2>2, FetchedIsBundle, NoBundleAssumption DEF Today
    <2>4. \A d \in Candidates : p[d] = IF d = c THEN b ELSE pending[d]
      BY <2>2 DEF With, StateTyped
    <2> HIDE DEF b, p
    <2>5. \A d \in Candidates : shard'[d] \in {NoBundle, p[d], shard[d]}
      BY <1>3, InterruptedEach
    <2>6. \A d \in Candidates : d \in Behind \/ p[d] \in Today
      BY <2>2, <2>3, <2>4 DEF BufferDays
    <2>7. CASE StampFails
      BY <1>1, <1>4, <2>1, <2>2, <2>5, <2>6, <2>7, WriteDays DEF StampFails
    <2>8. CASE Stamp(Held(fetched) \union {c}, Held(p) \ done)
      <3>1. ASSUME NEW d \in Candidates, d \notin Held(p) \ done
            PROVE  shard'[d] = IF d = c THEN b ELSE OnDisk(d)
        <4>1. CASE d \in done
          <5>1. shard'[d] = p[d] /\ p[d] # NoBundle
            BY <1>3, <4>1, InterruptedEach DEF Held
          <5> QED  BY <2>4, <5>1 DEF OnDisk, Written
        <4>2. CASE d \notin done
          <5>1. shard'[d] = shard[d] /\ p[d] = NoBundle
            BY <1>3, <3>1, <4>2, InterruptedEach DEF Held
          <5> QED  BY <2>3, <2>4, <5>1 DEF OnDisk, Written
        <4> QED  BY <4>1, <4>2
      <3>2. \A d \in (Held(fetched) \union {c}) \ (Held(p) \ done) :
               d \in Candidates => shard'[d] \in Today
        BY <2>2, <2>3, <3>1
      <3>3. ASSUME NEW d \in Candidates, meta.day = day, d \notin passedOver
            PROVE  shard'[d] \in Today
        <4>1. d \notin Behind
          BY <3>3 DEF Behind
        <4> QED  BY <2>2, <2>5, <2>6, <3>3, <4>1 DEF ShardDays, Today
      <3>4. ASSUME NEW d \in Candidates, meta.day # day,
                   d \in Kept \ (Held(p) \ done)
            PROVE  shard'[d] \in Today
        <4>1. OnDisk(d) \in Today
          BY <2>2, <3>4 DEF Behind
        <4> QED  BY <2>3, <3>1, <3>4, <4>1
      <3> QED  BY <1>1, <2>2, <2>8, <3>2, <3>3, <3>4, StampDays
    <2> QED  BY <1>3, <2>7, <2>8
  <1> QED  BY <1>1, <1>4, DaysGone

LEMMA DaysEnds ==
    CheckInv /\ DaysKept
       /\ (RefreshFails \/ FetchFails \/ EndRun \/ CreateRefused \/ LeaveRefused)
      => DaysKept'
  <1>1. ASSUME DaysKept, RefreshFails \/ EndRun \/ LeaveRefused
        PROVE  DaysKept'
    BY <1>1, DaysGone
    DEF RefreshFails, EndRun, LeaveRefused, DaysKept, ShardDays, ShardedLayout,
        Today, disk, params, faults
  <1>2. ASSUME CheckInv, DaysKept, FetchFails PROVE DaysKept'
    <2>1. /\ pc = "fetch" /\ Gone /\ UNCHANGED day
          /\ FinishSink \/ FinishSinkFails
      BY <1>2 DEF FetchFails, params
    <2>2. ASSUME ~metaLost' PROVE ShardDays'
      BY <1>2, <2>1, <2>2, FinishDays, SinkFailsDays DEF FinishSink
    <2> QED  BY <2>1, <2>2, DaysGone
  <1>3. ASSUME DaysKept, CreateRefused PROVE DaysKept'
    <2>1. /\ pc' = "refused"
          /\ UNCHANGED <<meta, shard, passedOver, day, pending, fetched, metaLost>>
      BY <1>3 DEF CreateRefused, disk, params, memory, faults
    <2>2. Today' = Today /\ Behind' = Behind
      BY <2>1 DEF Today, Behind, ShardedLayout
    <2> QED
      BY <1>3, <2>1, <2>2
      DEF DaysKept, ShardDays, PlannedDays, RunDays, BufferDays, AnalysisDays,
          Analyzing, ShardedLayout, InRun
  <1> QED  BY <1>1, <1>2, <1>3

LEMMA DaysCrash ==
    CheckInv /\ DaysKept
       /\ (CrashBetween \/ CrashInFlush \/ CrashInMeta \/ CrashInClear)
      => DaysKept'
  <1>1. ASSUME DaysKept, CrashBetween PROVE DaysKept'
    BY <1>1, DaysGone
    DEF CrashBetween, Crash, DaysKept, ShardDays, ShardedLayout, Today, disk,
        params
  <1>2. ASSUME CheckInv, DaysKept, CrashInFlush PROVE DaysKept'
    <2>1. /\ Gone /\ UNCHANGED <<meta, passedOver, day>>
          /\ metaLost' = metaLost /\ metaLost \in BOOLEAN
          /\ pc \in {"pushPrices", "pushHolders", "pushRelations", "fetch"}
          /\ StateTyped /\ Planned
      BY <1>2 DEF CheckInv, StateTyped, CrashInFlush, Crash, params, AfterPushes
    <2>2. ASSUME ~metaLost PROVE ShardDays'
      <3>1. ShardDays /\ BufferDays /\ RunDays
        BY <1>2, <2>2 DEF DaysKept
      <3>2. \A c \in toPush : /\ c \in Candidates
                              /\ c \in Behind \/ evidence[c] \in Today
        BY <2>1, <3>1 DEF Planned, RunDays, InRun, Unpriced, Kept, Current
      <3>3. \A c \in missing : c \in Candidates /\ FetchedBundle(c, {}) \in Today
        BY <2>1, FetchedIsBundle DEF StateTyped, Today
      <3>4. ASSUME NEW c \in Candidates, NEW b, c \in Behind \/ b \in Today,
                   NEW d \in Candidates
            PROVE  d \in Behind \/ With(pending, c, b)[d] \in Today
        BY <2>1, <3>1, <3>4 DEF With, StateTyped, BufferDays
      <3>5. \E p : /\ Breaks(p)
                   /\ \A d \in Candidates : d \in Behind \/ p[d] \in Today
        <4>1. CASE \E c \in toPush : Breaks(With(pending, c, evidence[c]))
          BY <3>2, <3>4, <4>1
        <4>2. CASE \E c \in missing :
                      Breaks(With(pending, c, FetchedBundle(c, {})))
          BY <3>3, <3>4, <4>2
        <4>3. CASE Breaks(pending)
          BY <3>1, <4>3 DEF BufferDays
        <4> QED  BY <1>2, <4>1, <4>2, <4>3 DEF CrashInFlush
      <3>6. PICK p : /\ Breaks(p)
                     /\ \A d \in Candidates : d \in Behind \/ p[d] \in Today
        BY <3>5
      <3>7. \A d \in Candidates : shard'[d] \in {NoBundle, p[d], shard[d]}
        BY <3>6, InterruptedEach DEF Breaks
      <3> QED  BY <2>1, <3>1, <3>6, <3>7, WriteDays
    <2> QED  BY <2>1, <2>2, DaysGone
  <1>3. ASSUME CrashInMeta \/ CrashInClear PROVE DaysKept'
    BY <1>3 DEF CrashInMeta, CrashInClear, Crash, DaysKept
  <1> QED  BY <1>1, <1>2, <1>3

LEMMA DaysStutter == DaysKept /\ UNCHANGED vars => DaysKept'
  <1> SUFFICES ASSUME DaysKept, UNCHANGED vars PROVE DaysKept'
    OBVIOUS
  <1>1. UNCHANGED <<meta, shard, passedOver, version, pc, day, bounds, list,
                    evidence, missing, priceOnly, toPush, pending, fetched,
                    metaLost>>
    BY DEF vars, disk, params, plan, memory, faults
  <1> QED
    BY <1>1
    DEF DaysKept, ShardDays, PlannedDays, RunDays, BufferDays, AnalysisDays,
        Analyzing, Behind, ShardedLayout, Today, Kept, Current, Unpriced,
        OnDisk, Written

\* "A stale pricing day triggers a price-only refresh" (evidence_cache.rs;
\* pipeline.rs, evidence stage): with any seed lists, faults and kills, the
\* prices a run analyses are of its day, but for the bundles that an earlier
\* run of that day had passed over when it stamped the meta file.
THEOREM RunHasCurrentPrices == Spec => []AnalyzedPricesCurrent
  <1>1. CheckInv /\ BoundsKept /\ DaysKept /\ [Next]_vars => DaysKept'
    BY DaysStart, DaysLoad, DaysCreate, DaysRefresh, DaysPush, DaysPushesDone,
       DaysFetchOne, DaysFinish, DaysUnsaved, DaysHookFails, DaysEnds,
       DaysCrash, DaysStutter
    DEF Next
  <1>2. DaysKept => AnalyzedPricesCurrent
    BY NoBundleAssumption
    DEF DaysKept, AnalysisDays, AnalyzedPricesCurrent, Held, Today
  <1> QED  BY DaysInit, CheckSpec, BoundsSpec, <1>1, <1>2, PTL DEF Spec
=============================================================================
