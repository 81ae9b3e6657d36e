--------------------------- MODULE AnalysisProofs ---------------------------
(***************************************************************************)
(* What is proved of CandidateRun, for any world of providers, any rows an *)
(* earlier run left in the identity cache, any threads and any channel:    *)
(* the gate leaves out official candidates only, nothing is reported that  *)
(* is not on the disk, and a scope sees a candidate as the analysis of the *)
(* scope's own relations would.                                            *)
(***************************************************************************)
EXTENDS CandidateRun, TLAPS

-----------------------------------------------------------------------------
(* The gate leaves out official candidates only.                           *)

\* What is known of the world: a relation is a pair of a candidate and a
\* seed, and yes-or-no answers are just that.
Answered ==
    /\ \A r \in registry : r = <<r[1], r[2]>> /\ r[1] \in Jobs
    /\ \A s \in SeedIds : /\ answers.seed[s].license \in BOOLEAN
                          /\ answers.seed[s].whole \in BOOLEAN
    /\ \A c \in CandidateIds : /\ answers.candidate[c].rpc \in BOOLEAN
                               /\ answers.candidate[c].storage \in BOOLEAN

\* Seeds are read once and as they are; the next phase starts when all are.
SeedsRead ==
    /\ DOMAIN caches \subseteq SeedIds
    /\ \A s \in DOMAIN caches : caches[s] = SeedCacheOf(s)
    /\ gate # "seeds" => DOMAIN caches = SeedIds

\* The candidates that no signal without a request settles.
Open == {c \in CandidateIds : ~ LocallyFullyLegit(c)}

\* Which phase knows how much of whom.
PhasesKept ==
    /\ gate \in {"seeds", "prefetch", "identity", "relations", "done"}
    /\ gate \in {"seeds", "prefetch"} =>
          DOMAIN prefetched = {} /\ DOMAIN identities = {}
    /\ gate \in {"identity", "relations", "done"} =>
          /\ DOMAIN prefetched = Open /\ DOMAIN probed = Open
          /\ DOMAIN identities \subseteq Open
    /\ gate = "identity" => \A c \in Open : DOMAIN probed[c] = {}
    /\ gate \in {"relations", "done"} => DOMAIN identities = Open

\* Nobody is taken for a controller who is none, and nobody is missed unless
\* a request failed.
ControllersKnown ==
    \A c \in DOMAIN prefetched :
        /\ prefetched[c].controllers \subseteq TrueControllers(c)
        /\ NothingFailed => prefetched[c].controllers = TrueControllers(c)

IdentitiesKnown ==
    \A c \in DOMAIN identities :
        /\ identities[c].controllers = prefetched[c].controllers
        /\ identities[c].slug = IF SlugWanted(c) THEN answers.candidate[c].slug
                                ELSE Missing

\* A probed relation has the signals of what was known by then.
RelationsKnown ==
    gate \in {"relations", "done"} =>
        \A c \in DOMAIN probed :
            /\ DOMAIN probed[c] \subseteq SeedsOf(c)
            /\ \A s \in DOMAIN probed[c] :
                  probed[c][s] = RelationSignals(c, s)

GateInv ==
    /\ Answered /\ SeedsRead /\ PhasesKept /\ ControllersKnown
    /\ IdentitiesKnown /\ RelationsKnown /\ GateSkipsOnlyLegit

-----------------------------------------------------------------------------
\* A relation with a signal is official, if the seed is read and the
\* candidate's controllers are not overestimated.
LEMMA OfflineIsOfficial ==
    ASSUME Answered, SeedsRead, gate # "seeds",
           NEW c \in CandidateIds, NEW s \in SeedsOf(c),
           IsLegitDuplicate(OfflineSignals(c, s))
    PROVE  TrulyOfficial(c, s)
<1>1. s \in SeedIds /\ caches[s] = SeedCacheOf(s)
  BY DEF SeedsRead, SeedsOf
<1>2. OfflineSignals(c, s).flags # {}
  BY DEF IsLegitDuplicate
<1>3. OfflineSignals(c, s).flags =
        Flag("seed_open_license", caches[s].open_license)
        \cup Flag("seed_nft_interaction",
                  c \in caches[s].current_owners
                        \cup caches[s].transfer_counterparties)
  BY DEF OfflineSignals, Signals, NoSignals
<1>4. \/ caches[s].open_license
      \/ c \in caches[s].current_owners
      \/ c \in caches[s].transfer_counterparties
  BY <1>2, <1>3 DEF Flag
<1> QED BY <1>1, <1>4 DEF SeedCacheOf, TrulyOfficial

\* The signals of a probed relation, one by one.
LEMMA RelationFlags ==
    ASSUME NEW c, NEW s
    PROVE  RelationSignals(c, s).flags # {} <=>
              \/ OfflineSignals(c, s).flags # {}
              \/ caches[s].controllers \cap identities[c].controllers # {}
              \/ /\ caches[s].collection_slug # Missing
                 /\ caches[s].collection_slug = identities[c].slug
              \/ HolderRequested(c, s) /\ answers.holds[<<c, s>>] = "yes"
  BY DEF RelationSignals, Flag

LEMMA SignalIsOfficial ==
    ASSUME Answered, SeedsRead, gate # "seeds", ControllersKnown,
           IdentitiesKnown, DOMAIN identities \subseteq DOMAIN prefetched,
           NEW c \in CandidateIds, c \in DOMAIN identities,
           NEW s \in SeedsOf(c), IsLegitDuplicate(RelationSignals(c, s))
    PROVE  TrulyOfficial(c, s)
<1>1. s \in SeedIds /\ caches[s] = SeedCacheOf(s)
  BY DEF SeedsRead, SeedsOf
<1>2. CASE OfflineSignals(c, s).flags # {}
  BY <1>2, OfflineIsOfficial DEF IsLegitDuplicate
<1>3. CASE caches[s].controllers \cap identities[c].controllers # {}
  BY <1>1, <1>3 DEF SeedCacheOf, TrulyOfficial, ControllersKnown,
                    IdentitiesKnown
<1>4. CASE /\ caches[s].collection_slug # Missing
           /\ caches[s].collection_slug = identities[c].slug
  BY <1>1, <1>4 DEF SeedCacheOf, TrulyOfficial, IdentitiesKnown
<1>5. CASE HolderRequested(c, s) /\ answers.holds[<<c, s>>] = "yes"
  BY <1>1, <1>5 DEF SeedCacheOf, TrulyOfficial, HolderRequested, Answered
<1> QED BY <1>2, <1>3, <1>4, <1>5, RelationFlags DEF IsLegitDuplicate

\* And with every request answered an official relation has a signal.
LEMMA OfficialIsSignalled ==
    ASSUME Answered, SeedsRead, gate # "seeds", ControllersKnown,
           IdentitiesKnown, DOMAIN identities \subseteq DOMAIN prefetched,
           NothingFailed,
           NEW c \in CandidateIds, c \in DOMAIN identities,
           NEW s \in SeedsOf(c), TrulyOfficial(c, s)
    PROVE  IsLegitDuplicate(RelationSignals(c, s))
<1>1. s \in SeedIds /\ caches[s] = SeedCacheOf(s)
  BY DEF SeedsRead, SeedsOf
<1>2. OfflineSignals(c, s).flags =
        Flag("seed_open_license", caches[s].open_license)
        \cup Flag("seed_nft_interaction",
                  c \in caches[s].current_owners
                        \cup caches[s].transfer_counterparties)
  BY DEF OfflineSignals, Signals, NoSignals
<1>3. CASE \/ answers.seed[s].license
           \/ c \in answers.seed[s].owners
           \/ s \in EvmContracts /\ c \in answers.seed[s].counterparties
  <2>1. \/ caches[s].open_license
        \/ c \in caches[s].current_owners \cup caches[s].transfer_counterparties
    BY <1>1, <1>3 DEF SeedCacheOf
  <2>2. OfflineSignals(c, s).flags # {}
    BY <1>2, <2>1 DEF Flag
  <2> QED BY <2>2, RelationFlags DEF IsLegitDuplicate
<1>4. CASE answers.seed[s].controllers \cap TrueControllers(c) # {}
  <2>1. caches[s].controllers \cap identities[c].controllers # {}
    BY <1>1, <1>4 DEF SeedCacheOf, ControllersKnown, IdentitiesKnown
  <2> QED BY <2>1, RelationFlags DEF IsLegitDuplicate
<1>5. CASE /\ answers.seed[s].slug # Missing
           /\ answers.seed[s].slug = answers.candidate[c].slug
  <2>1. caches[s].collection_slug = answers.seed[s].slug
    BY <1>1 DEF SeedCacheOf
  <2>2. SlugWanted(c)
    BY <1>5, <2>1 DEF SlugWanted
  <2>3. identities[c].slug = answers.candidate[c].slug
    BY <2>2 DEF IdentitiesKnown
  <2> QED BY <1>5, <2>1, <2>3, RelationFlags DEF IsLegitDuplicate
<1>6. CASE /\ {c, s} \subseteq EvmContracts
           /\ ~ answers.seed[s].whole /\ answers.holds[<<c, s>>] = "yes"
  <2>1. CASE c \in caches[s].current_owners
    <3>1. OfflineSignals(c, s).flags # {}
      BY <1>2, <2>1 DEF Flag
    <3> QED BY <3>1, RelationFlags DEF IsLegitDuplicate
  <2>2. CASE c \notin caches[s].current_owners
    <3>1. HolderRequested(c, s)
      BY <1>1, <1>6, <2>2 DEF HolderRequested, SeedCacheOf, Answered
    <3> QED BY <1>6, <3>1, RelationFlags DEF IsLegitDuplicate
  <2> QED BY <2>1, <2>2
<1> QED BY <1>3, <1>4, <1>5, <1>6 DEF TrulyOfficial

-----------------------------------------------------------------------------
\* What only depends on the world and on the seeds stays with them.
LEMMA WorldKept ==
    ASSUME UNCHANGED <<registry, answers>>
    PROVE  /\ CandidateIds' = CandidateIds /\ SeedIds' = SeedIds
           /\ \A c : SeedsOf(c)' = SeedsOf(c)
           /\ \A s : SeedCacheOf(s)' = SeedCacheOf(s)
           /\ NothingFailed' = NothingFailed
           /\ Answered => Answered'
  BY DEF CandidateIds, SeedIds, SeedsOf, SeedCacheOf, NothingFailed, Answered

LEMMA SeedsKept ==
    ASSUME UNCHANGED <<registry, answers, caches>>
    PROVE  /\ \A c, s : OfflineSignals(c, s)' = OfflineSignals(c, s)
           /\ \A c, s : HolderRequested(c, s)' = HolderRequested(c, s)
           /\ \A c : LocallyFullyLegit(c)' = LocallyFullyLegit(c)
           /\ \A c : SlugWanted(c)' = SlugWanted(c)
           /\ Open' = Open
<1>1. \A c : SeedsOf(c)' = SeedsOf(c)
  BY WorldKept
<1>2. \A c, s : OfflineSignals(c, s)' = OfflineSignals(c, s)
  BY DEF OfflineSignals, Signals
<1>3. \A c, s : HolderRequested(c, s)' = HolderRequested(c, s)
  BY DEF HolderRequested
<1>4. \A c : LocallyFullyLegit(c)' = LocallyFullyLegit(c)
  BY <1>1, <1>2 DEF LocallyFullyLegit
<1>5. \A c : SlugWanted(c)' = SlugWanted(c)
  BY <1>1 DEF SlugWanted
<1>6. Open' = Open
  BY <1>4, WorldKept DEF Open
<1> QED BY <1>2, <1>3, <1>4, <1>5, <1>6

LEMMA TruthKept ==
    ASSUME UNCHANGED <<registry, answers, idRows>>
    PROVE  /\ \A c : TrueControllers(c)' = TrueControllers(c)
           /\ \A c, s : TrulyOfficial(c, s)' = TrulyOfficial(c, s)
  BY DEF TrueControllers, TrulyOfficial

LEMMA SignalsKept ==
    ASSUME UNCHANGED <<registry, answers, caches>>,
           NEW c, NEW s, identities'[c] = identities[c]
    PROVE  RelationSignals(c, s)' = RelationSignals(c, s)
  BY SeedsKept DEF RelationSignals

LEMMA ReadSeedInv ==
    ASSUME GateInv, NEW s \in SeedIds, ReadSeed(s)
    PROVE  GateInv'
<1> USE DEF GateInv
<1>1. SeedsRead'
  <2>1. DOMAIN caches' = DOMAIN caches \cup {s}
    BY DEF ReadSeed
  <2>2. \A t \in DOMAIN caches' : caches'[t] = SeedCacheOf(t)
    BY <2>1 DEF ReadSeed, SeedsRead
  <2>3. gate' # "seeds" => DOMAIN caches' = SeedIds
    BY DEF ReadSeed
  <2> QED BY <2>1, <2>2, <2>3, WorldKept DEF ReadSeed, SeedsRead
<1>2. Answered'
  BY WorldKept DEF ReadSeed
<1>3. PhasesKept' /\ RelationsKnown' /\ GateSkipsOnlyLegit'
  BY DEF ReadSeed, PhasesKept, RelationsKnown, GateSkipsOnlyLegit
<1>4. ControllersKnown' /\ IdentitiesKnown'
  BY DEF ReadSeed, PhasesKept, ControllersKnown, IdentitiesKnown
<1> QED BY <1>1, <1>2, <1>3, <1>4

\* A batch and a single lookup tell the same, if they tell all.
LEMMA ProbeKnows ==
    ASSUME Answered, NEW c \in CandidateIds, NEW requested
    PROVE  LET a == answers.candidate[c]
               said == ControllerProbe(requested, c).controllers
               all == MetadataOf(a) \cup OnChain(a)
           IN  said \subseteq all /\ (a.rpc /\ a.storage => said = all)
<1>1. ControllerProbe(requested, c) \in
        {SingleProbe(answers.candidate[c]), BatchProbe(answers.candidate[c])}
  BY DEF ControllerProbe
<1> QED BY <1>1 DEF Answered, SingleProbe, BatchProbe

LEMMA PrefetchInv ==
    ASSUME GateInv, Prefetch
    PROVE  GateInv'
<1> USE DEF GateInv
<1> DEFINE missing == Open \ DOMAIN idRows
           fetched == [c \in missing |->
                IF c \in EvmContracts
                THEN ControllerProbe(missing \cap EvmContracts, c)
                ELSE SolanaProbe(answers.candidate[c])]
           kept == {c \in missing : Reusable(c, fetched[c])}
           all == [c \in Open |-> IF c \in missing THEN fetched[c]
                                  ELSE idRows[c]]
<1>1. /\ gate = "prefetch"
      /\ idRows' = [c \in DOMAIN idRows \cup kept |->
                       IF c \in kept THEN fetched[c] ELSE idRows[c]]
      /\ prefetched' = all
      /\ probed' = [c \in Open |-> <<>>]
      /\ gate' = IF Open = {} THEN "relations" ELSE "identity"
      /\ UNCHANGED <<registry, answers, caches, identities, bundles, toEnrich>>
  BY DEF Prefetch, Open
<1> HIDE DEF missing, fetched, kept, all
<1>2. Answered' /\ SeedsRead'
  BY <1>1, WorldKept DEF SeedsRead
<1>3. Open' = Open /\ DOMAIN identities = {}
  BY <1>1, SeedsKept DEF PhasesKept
<1>4. PhasesKept'
  BY <1>1, <1>3 DEF PhasesKept, all
<1>5. ControllersKnown'
  <2> SUFFICES ASSUME NEW c \in Open
               PROVE  /\ all[c].controllers \subseteq TrueControllers(c)'
                      /\ NothingFailed =>
                            all[c].controllers = TrueControllers(c)'
    BY <1>1, WorldKept DEF ControllersKnown, all
  <2>1. c \in CandidateIds /\ kept \subseteq missing
    BY DEF Open, kept
  <2>2. CASE c \in DOMAIN idRows
    <3>1. c \notin kept /\ all[c] = idRows[c] /\ idRows'[c] = idRows[c]
      BY <1>1, <2>1, <2>2 DEF missing, all
    <3>2. TrueControllers(c)' = idRows[c].controllers
      BY <1>1, <2>2, <3>1 DEF TrueControllers
    <3> QED BY <3>1, <3>2
  <2>3. CASE c \in kept
    <3>1. all[c] = fetched[c] /\ idRows'[c] = fetched[c]
      BY <1>1, <2>1, <2>3 DEF all
    <3>2. TrueControllers(c)' = fetched[c].controllers
      BY <1>1, <2>3, <3>1 DEF TrueControllers
    <3> QED BY <3>1, <3>2
  <2>4. CASE c \notin DOMAIN idRows /\ c \notin kept
    <3>1. c \in missing /\ all[c] = fetched[c]
      BY <2>4 DEF missing, all
    <3>2. TrueControllers(c)' =
             MetadataOf(answers.candidate[c])
             \cup (IF c \in EvmContracts THEN OnChain(answers.candidate[c])
                   ELSE {})
      BY <1>1, <2>4 DEF TrueControllers
    <3>3. CASE c \in EvmContracts
      <4>1. fetched[c] = ControllerProbe(missing \cap EvmContracts, c)
        BY <3>1, <3>3 DEF fetched
      <4> QED BY <2>1, <3>1, <3>2, <3>3, <4>1, ProbeKnows DEF NothingFailed
    <3>4. CASE c \notin EvmContracts
      <4>1. fetched[c].controllers = MetadataOf(answers.candidate[c])
        BY <3>1, <3>4 DEF fetched, SolanaProbe
      <4> QED BY <3>1, <3>2, <3>4, <4>1
    <3> QED BY <3>3, <3>4
  <2> QED BY <2>2, <2>3, <2>4
<1>6. IdentitiesKnown' /\ RelationsKnown'
  <2>1. IdentitiesKnown'
    BY <1>1, <1>3 DEF IdentitiesKnown
  <2>2. \A c \in DOMAIN probed' : DOMAIN probed'[c] = {}
    BY <1>1
  <2> QED BY <2>1, <2>2 DEF RelationsKnown
<1>7. GateSkipsOnlyLegit'
  BY <1>1 DEF GateSkipsOnlyLegit
<1> QED BY <1>2, <1>4, <1>5, <1>6, <1>7

LEMMA ProbeCandidateInv ==
    ASSUME GateInv, NEW c \in CandidateIds, ProbeCandidate(c)
    PROVE  GateInv'
<1> USE DEF GateInv
<1>1. /\ gate = "identity" /\ gate' \in {"identity", "relations"}
      /\ c \in DOMAIN prefetched \ DOMAIN identities
      /\ UNCHANGED <<registry, answers, caches, idRows, prefetched, probed,
                     bundles, toEnrich>>
  BY DEF ProbeCandidate
<1>2. /\ DOMAIN identities' = DOMAIN identities \cup {c}
      /\ gate' = "relations" => DOMAIN identities' = DOMAIN prefetched
  BY <1>1 DEF ProbeCandidate
<1>3. IdentitiesKnown'
  <2> SUFFICES ASSUME NEW d \in DOMAIN identities'
               PROVE  /\ identities'[d].controllers = prefetched[d].controllers
                      /\ identities'[d].slug =
                            IF SlugWanted(d) THEN answers.candidate[d].slug
                            ELSE Missing
    BY <1>1, SeedsKept DEF IdentitiesKnown
  <2>1. CASE d = c
    BY <1>2, <2>1 DEF ProbeCandidate
  <2>2. CASE d # c
    BY <1>2, <2>2 DEF ProbeCandidate, IdentitiesKnown
  <2> QED BY <2>1, <2>2
<1>4. Answered' /\ SeedsRead'
  BY <1>1, WorldKept DEF SeedsRead
<1>5. PhasesKept'
  BY <1>1, <1>2, SeedsKept DEF PhasesKept
<1>6. ControllersKnown'
  BY <1>1, WorldKept, TruthKept DEF ControllersKnown
<1>7. RelationsKnown'
  BY <1>1 DEF PhasesKept, RelationsKnown
<1>8. GateSkipsOnlyLegit'
  BY <1>1 DEF GateSkipsOnlyLegit
<1> QED BY <1>3, <1>4, <1>5, <1>6, <1>7, <1>8

LEMMA ProbeRelationInv ==
    ASSUME GateInv, NEW c \in CandidateIds, NEW s \in SeedIds,
           ProbeRelation(c, s)
    PROVE  GateInv'
<1> USE DEF GateInv
<1>1. /\ gate = "relations"
      /\ c \in DOMAIN probed /\ s \in SeedsOf(c)
      /\ UNCHANGED <<registry, answers, gate, caches, idRows, prefetched,
                     identities, bundles, toEnrich>>
      /\ probed' = [probed EXCEPT ![c] =
            [t \in DOMAIN probed[c] \cup {s} |->
                IF t = s THEN RelationSignals(c, s) ELSE probed[c][t]]]
  BY DEF ProbeRelation
<1>2. Answered' /\ SeedsRead' /\ ControllersKnown' /\ IdentitiesKnown'
  BY <1>1, WorldKept, SeedsKept, TruthKept
     DEF SeedsRead, ControllersKnown, IdentitiesKnown
<1>3. PhasesKept'
  BY <1>1, SeedsKept DEF PhasesKept
<1>4. RelationsKnown'
  <2> SUFFICES ASSUME NEW d \in DOMAIN probed
               PROVE  /\ DOMAIN probed'[d] \subseteq SeedsOf(d)
                      /\ \A t \in DOMAIN probed'[d] :
                            probed'[d][t] = RelationSignals(d, t)
    BY <1>1, WorldKept, SignalsKept DEF RelationsKnown
  <2>1. CASE d = c
    BY <1>1, <2>1 DEF RelationsKnown
  <2>2. CASE d # c
    BY <1>1, <2>2 DEF RelationsKnown
  <2> QED BY <2>1, <2>2
<1>5. GateSkipsOnlyLegit'
  BY <1>1 DEF GateSkipsOnlyLegit
<1> QED BY <1>2, <1>3, <1>4, <1>5

\* A bundle of the gate has the relations it was made of, and says that they
\* were verified if one of them has a signal.
LEMMA BundleTells ==
    ASSUME NEW relations, NEW controllers
    PROVE  LET b == GateBundle(relations, controllers)
           IN  /\ b.relations = relations
               /\ \A s \in DOMAIN relations :
                     IsLegitDuplicate(relations[s]) =>
                        b.legit.verification_complete
<1> DEFINE b == GateBundle(relations, controllers)
<1>1. /\ b.relations = relations
      /\ b.legit = FinalizeLegit(NoSignals, relations)
  BY DEF GateBundle, ABundle
<1>2. ASSUME NEW s \in DOMAIN relations, relations[s].flags # {}
      PROVE  FinalizeLegit(NoSignals, relations).verification_complete
  <2>1. Merged(relations).flags # {}
    BY <1>2 DEF Merged
  <2>2. DOMAIN relations # {}
    BY <1>2
  <2> QED BY <2>1, <2>2 DEF FinalizeLegit, Merged
<1> QED BY <1>1, <1>2 DEF IsLegitDuplicate

LEMMA FinishGateInv ==
    ASSUME GateInv, FinishGate
    PROVE  GateInv'
<1> USE DEF GateInv
<1>1. /\ gate = "relations" /\ RelationsProbed /\ gate' = "done"
      /\ bundles' = [c \in CandidateIds |->
            IF c \in DOMAIN probed
            THEN GateBundle(probed[c], identities[c].controllers)
            ELSE GateBundle([s \in SeedsOf(c) |-> OfflineSignals(c, s)], {})]
      /\ toEnrich' = {c \in DOMAIN probed : ~ AllRelationsLegit(c, probed[c])}
      /\ UNCHANGED <<registry, answers, caches, idRows, prefetched, identities,
                     probed>>
  BY DEF FinishGate
<1>2. Answered' /\ SeedsRead' /\ ControllersKnown' /\ IdentitiesKnown'
  BY <1>1, WorldKept, SeedsKept, TruthKept
     DEF SeedsRead, ControllersKnown, IdentitiesKnown
<1>3. PhasesKept'
  BY <1>1, SeedsKept DEF PhasesKept
<1>4. RelationsKnown'
  BY <1>1, WorldKept, SignalsKept DEF RelationsKnown
<1>5. /\ DOMAIN probed = Open /\ DOMAIN identities = Open
      /\ DOMAIN prefetched = Open
  BY <1>1 DEF PhasesKept
<1>6. \A c \in Open : /\ DOMAIN probed[c] = SeedsOf(c)
                      /\ \A s \in SeedsOf(c) :
                            probed[c][s] = RelationSignals(c, s)
  BY <1>1, <1>5 DEF RelationsProbed, RelationsKnown
<1>7. ASSUME NEW c \in CandidateIds PROVE SeedsOf(c) # {}
  BY DEF CandidateIds, SeedIds, SeedsOf, Answered
<1>8. ASSUME NEW c \in CandidateIds \ toEnrich'
      PROVE  /\ \A s \in SeedsOf(c) : TrulyOfficial(c, s)
             /\ DOMAIN bundles'[c].relations = SeedsOf(c)
             /\ bundles'[c].legit.verification_complete
  <2>1. CASE c \in Open
    <3>1. bundles'[c] = GateBundle(probed[c], identities[c].controllers)
      BY <1>1, <1>5, <2>1
    <3>2. \A s \in SeedsOf(c) : IsLegitDuplicate(probed[c][s])
      BY <1>1, <1>5, <1>6, <1>8, <2>1 DEF AllRelationsLegit
    <3>3. \A s \in SeedsOf(c) : TrulyOfficial(c, s)
      BY <1>1, <1>5, <1>6, <2>1, <3>2, SignalIsOfficial
    <3> QED BY <1>6, <1>7, <2>1, <3>1, <3>2, <3>3, BundleTells
  <2>2. CASE c \notin Open
    <3> DEFINE told == [s \in SeedsOf(c) |-> OfflineSignals(c, s)]
    <3>1. bundles'[c] = GateBundle(told, {})
      BY <1>1, <1>5, <2>2
    <3>2. \A s \in SeedsOf(c) : IsLegitDuplicate(OfflineSignals(c, s))
      BY <2>2 DEF Open, LocallyFullyLegit
    <3>3. \A s \in SeedsOf(c) : TrulyOfficial(c, s)
      BY <1>1, <3>2, OfflineIsOfficial
    <3>4. DOMAIN told = SeedsOf(c)
          /\ \A s \in DOMAIN told : IsLegitDuplicate(told[s])
      BY <3>2
    <3> HIDE DEF told
    <3> QED BY <1>7, <3>1, <3>3, <3>4, BundleTells
  <2> QED BY <2>1, <2>2
<1>9. ASSUME NothingFailed, NEW c \in toEnrich'
      PROVE  \E s \in SeedsOf(c) : ~ TrulyOfficial(c, s)
  <2>1. c \in Open /\ c \in CandidateIds
    BY <1>1, <1>5 DEF Open
  <2>2. PICK s \in SeedsOf(c) : ~ IsLegitDuplicate(RelationSignals(c, s))
    BY <1>1, <1>5, <1>6, <2>1 DEF AllRelationsLegit
  <2> QED BY <1>1, <1>5, <1>9, <2>1, <2>2, OfficialIsSignalled
<1>10. GateSkipsOnlyLegit'
  BY <1>1, <1>8, <1>9, WorldKept, TruthKept DEF GateSkipsOnlyLegit
<1> QED BY <1>2, <1>3, <1>4, <1>10

LEMMA GateStepInv == GateInv /\ (GateNext \/ UNCHANGED gateVars) => GateInv'
<1> SUFFICES ASSUME GateInv, GateNext \/ UNCHANGED gateVars PROVE GateInv'
  OBVIOUS
<1>1. CASE UNCHANGED gateVars
  <2> USE <1>1 DEF gateVars, GateInv
  <2>1. Answered' /\ SeedsRead' /\ ControllersKnown' /\ IdentitiesKnown'
    BY WorldKept, SeedsKept, TruthKept
       DEF SeedsRead, ControllersKnown, IdentitiesKnown
  <2>2. PhasesKept' /\ RelationsKnown'
    BY WorldKept, SeedsKept, SignalsKept DEF PhasesKept, RelationsKnown
  <2>3. GateSkipsOnlyLegit'
    BY WorldKept, TruthKept DEF GateSkipsOnlyLegit
  <2> QED BY <2>1, <2>2, <2>3
<1> QED
  BY <1>1, ReadSeedInv, PrefetchInv, ProbeCandidateInv, ProbeRelationInv,
     FinishGateInv DEF GateNext

-----------------------------------------------------------------------------
(* Nothing is reported that is not on the disk.                            *)

Idle == \A w \in Workers : working[w] = NoJob

InChannel(c) == \E i \in 1 .. Len(queue) : queue[i] = c

\* Before the stage starts nothing moves.
Untouched ==
    pool = "waiting" =>
        /\ Idle /\ jobs = {} /\ queue = <<>> /\ files = {}
        /\ result = [c \in Jobs |-> "none"]

\* The workers and the channel hold candidates of this run.
Employed ==
    /\ \A w \in Workers : working[w] # NoJob => working[w] \in jobs
    /\ \A i \in 1 .. Len(queue) : queue[i] \in jobs

\* No candidate is lost between the threads.
Accounted ==
    \A c \in jobs : \/ c \in todo
                    \/ \E w \in Workers : working[w] = c
                    \/ result[c] # "none"

\* What a worker sent is in the channel or on the disk while the writer
\* lives, and a refused send means that it does not.
Delivered ==
    \A c \in jobs :
        /\ result[c] = "ok" /\ writer # "dead" => c \in files \/ InChannel(c)
        /\ result[c] = "failed" => writer = "dead"

\* The sender is dropped after the last result, the writer ends after that
\* with an empty channel, and the join comes last.
InOrderClosed ==
    /\ pool \notin {"waiting", "analysing"} => todo = {} /\ Idle
    /\ writer = "ended" => /\ queue = <<>>
                           /\ pool \notin {"waiting", "analysing"}
    /\ pool = "reporting" => /\ writer = "ended"
                             /\ \A c \in jobs : result[c] # "cancelled"

PoolInv ==
    /\ PoolTypeOK /\ Untouched /\ Employed
    /\ Accounted /\ Delivered /\ InOrderClosed

LEMMA PoolInitInv == PoolInit => PoolInv
<1> SUFFICES ASSUME PoolInit PROVE PoolInv
  OBVIOUS
<1> USE DEF PoolInit
<1>1. /\ pool \in {"waiting", "analysing", "joining", "reporting", "failed",
                  "cancelled"}
      /\ jobs \subseteq Jobs /\ todo \subseteq jobs /\ files \subseteq jobs
      /\ writer \in {"running", "dead", "ended"}
      /\ cancelled \in BOOLEAN
  OBVIOUS
<1>3. working \in [Workers -> Jobs \cup {NoJob}]
  OBVIOUS
<1>4. result \in [Jobs -> {"none", "ok", "failed", "cancelled"}]
  OBVIOUS
<1>5. queue \in Seq(Jobs)
  OBVIOUS
<1>2. Untouched /\ Employed /\ Accounted /\ Delivered /\ InOrderClosed
  BY DEF Untouched, Employed, Accounted, Delivered, InOrderClosed, Idle
<1> QED BY <1>1, <1>2, <1>3, <1>4, <1>5 DEF PoolInv, PoolTypeOK

(* The writer's step: a candidate leaves the channel for the disk.         *)
LEMMA WriteKeepsDelivered ==
    ASSUME PoolTypeOK, Delivered, NEW ok \in BOOLEAN, Write(ok)
    PROVE  Delivered'
<1> SUFFICES ASSUME NEW c \in jobs
             PROVE  /\ result[c] = "ok" /\ writer' # "dead"
                            => c \in files' \/ InChannel(c)'
                    /\ result[c] = "failed" => writer' = "dead"
  BY DEF Write, Delivered
<1>1. CASE ok /\ InChannel(c)
  <2>1. PICK i \in 1 .. Len(queue) : queue[i] = c
    BY <1>1 DEF InChannel
  <2>2. CASE i = 1
    BY <1>1, <2>1, <2>2 DEF Write, PoolTypeOK, Delivered
  <2>3. CASE i # 1
    <3>1. i - 1 \in 1 .. Len(queue') /\ queue'[i - 1] = c
      BY <1>1, <2>1, <2>3 DEF Write, PoolTypeOK
    <3> QED BY <1>1, <3>1 DEF InChannel, Write, Delivered
  <2> QED BY <2>2, <2>3
<1>2. CASE ok /\ ~ InChannel(c)
  BY <1>2 DEF Write, Delivered
<1>3. CASE ~ ok
  BY <1>3 DEF Write, Delivered
<1> QED BY <1>1, <1>2, <1>3

(* A worker's step: its candidate enters the channel.                      *)
LEMMA SendKeepsDelivered ==
    ASSUME PoolTypeOK, Delivered, NEW w \in Workers, Send(w)
    PROVE  Delivered'
<1> SUFFICES ASSUME NEW c \in jobs
             PROVE  /\ result'[c] = "ok" /\ writer # "dead"
                            => c \in files \/ InChannel(c)'
                    /\ result'[c] = "failed" => writer = "dead"
  BY DEF Send, Delivered
<1>1. CASE writer = "dead"
  BY <1>1 DEF Send, Delivered, PoolTypeOK
<1>2. CASE writer # "dead" /\ c = working[w]
  <2>1. Len(queue') \in 1 .. Len(queue') /\ queue'[Len(queue')] = c
    BY <1>2, PoolAssumption DEF Send, PoolTypeOK
  <2>2. result'[c] = "ok"
    BY <1>2 DEF Send, PoolTypeOK
  <2> QED BY <2>1, <2>2 DEF InChannel
<1>3. CASE writer # "dead" /\ c # working[w]
  <2>1. result'[c] = result[c]
    BY <1>3 DEF Send, PoolTypeOK
  <2>2. ASSUME NEW i \in 1 .. Len(queue), queue[i] = c
        PROVE  i \in 1 .. Len(queue') /\ queue'[i] = c
    BY <1>3, <2>2 DEF Send, PoolTypeOK
  <2> QED BY <1>3, <2>1, <2>2 DEF InChannel, Delivered
<1> QED BY <1>1, <1>2, <1>3

LEMMA PoolStepInv == PoolInv /\ [PoolNext]_poolVars => PoolInv'
<1> SUFFICES ASSUME PoolInv, [PoolNext]_poolVars PROVE PoolInv'
  OBVIOUS
<1> USE PoolAssumption DEF PoolInv, PoolTypeOK, Idle
<1>1. ASSUME NEW candidates \in SUBSET Jobs, StartPool(candidates)
      PROVE  PoolInv'
  BY <1>1 DEF StartPool, Untouched, Employed, Accounted, Delivered,
              InOrderClosed, InChannel
<1>2. CASE CancelRun
  BY <1>2 DEF CancelRun, Untouched, Employed, Accounted, Delivered,
              InOrderClosed, InChannel
<1>3. ASSUME NEW w \in Workers, NEW c \in Jobs, Take(w, c)
      PROVE  PoolInv'
  <2>1. PoolTypeOK' /\ Untouched' /\ Employed' /\ InOrderClosed'
    BY <1>3 DEF Take, Untouched, Employed, InOrderClosed
  <2>2. Accounted'
    BY <1>3 DEF Take, Accounted
  <2>3. Delivered'
    BY <1>3 DEF Take, Delivered, InChannel
  <2> QED BY <2>1, <2>2, <2>3
<1>4. ASSUME NEW w \in Workers, Send(w)
      PROVE  PoolInv'
  <2> DEFINE c == working[w]
  <2>6. c \in Jobs
    BY <1>4 DEF Send
  <2>7. working' \in [Workers -> Jobs \cup {NoJob}]
    BY <1>4 DEF Send
  <2>8. result' \in [Jobs -> {"none", "ok", "failed", "cancelled"}]
    BY <1>4, <2>6 DEF Send
  <2>9. queue' \in Seq(Jobs)
    BY <1>4, <2>6 DEF Send
  <2>1. PoolTypeOK'
    BY <1>4, <2>7, <2>8, <2>9 DEF Send
  <2>4. Untouched'
    BY <1>4 DEF Send, Untouched
  <2>5. InOrderClosed'
    BY <1>4 DEF Send, InOrderClosed
  <2>2. Accounted'
    BY <1>4 DEF Send, Accounted
  <2>3. Delivered'
    BY <1>4, SendKeepsDelivered
  <2>10. Employed'
    <3>1. c \in jobs
      BY <1>4 DEF Send, Employed
    <3>2. \A v \in Workers : working'[v] # NoJob => working'[v] \in jobs
      BY <1>4 DEF Send, Employed
    <3>3. \A i \in 1 .. Len(queue') : queue'[i] \in jobs
      BY <1>4, <3>1 DEF Send, Employed
    <3> QED BY <1>4, <3>2, <3>3 DEF Send, Employed
  <2> QED BY <2>1, <2>2, <2>3, <2>4, <2>5, <2>10
<1>5. ASSUME NEW ok \in BOOLEAN, Write(ok)
      PROVE  PoolInv'
  <2>1. Head(queue) \in jobs /\ Tail(queue) \in Seq(Jobs)
    BY <1>5 DEF Write, Employed
  <2>2. files' \subseteq jobs /\ queue' \in Seq(Jobs)
    <3>1. <<>> \in Seq(Jobs)
      OBVIOUS
    <3> QED BY <1>5, <2>1, <3>1 DEF Write
  <2>3. PoolTypeOK'
    BY <1>5, <2>2 DEF Write
  <2>4. Untouched'
    BY <1>5 DEF Write, Untouched
  <2>5. InOrderClosed'
    BY <1>5 DEF Write, InOrderClosed
  <2>6. Accounted'
    BY <1>5 DEF Write, Accounted
  <2>7. Delivered'
    BY <1>5, WriteKeepsDelivered
  <2>8. Employed'
    BY <1>5 DEF Write, Employed
  <2> QED BY <2>3, <2>4, <2>5, <2>6, <2>7, <2>8
<1>6. CASE Close
  BY <1>6 DEF Close, Untouched, Employed, Accounted, Delivered,
              InOrderClosed, InChannel
<1>7. CASE EndWriter
  BY <1>7 DEF EndWriter, Untouched, Employed, Accounted, Delivered,
              InOrderClosed, InChannel
<1>8. CASE JoinWriter
  BY <1>8 DEF JoinWriter, Untouched, Employed, Accounted, Delivered,
              InOrderClosed, InChannel
<1>9. CASE UNCHANGED poolVars
  BY <1>9 DEF poolVars, Untouched, Employed, Accounted, Delivered,
              InOrderClosed, InChannel
<1> QED
  BY <1>1, <1>2, <1>3, <1>4, <1>5, <1>6, <1>7, <1>8, <1>9
     DEF PoolNext, PoolSteps

LEMMA PoolInvImplies == PoolInv => WrittenBeforeReported
<1> SUFFICES ASSUME PoolInv, pool = "reporting"
             PROVE  /\ \A c \in jobs : result[c] = "ok"
                    /\ files = jobs
                    /\ queue = <<>>
  BY DEF WrittenBeforeReported
<1> USE DEF PoolInv, PoolTypeOK
<1>1. writer = "ended" /\ queue = <<>>
  BY DEF InOrderClosed
<1>2. ASSUME NEW c \in jobs PROVE result[c] = "ok"
  <2>1. result[c] # "none"
    BY PoolAssumption DEF Accounted, InOrderClosed, Idle
  <2>2. result[c] # "failed" /\ result[c] # "cancelled"
    BY <1>1 DEF Delivered, InOrderClosed
  <2> QED BY <2>1, <2>2
<1>3. ASSUME NEW c \in jobs PROVE c \in files
  BY <1>1, <1>2, <1>3 DEF Delivered, InChannel
<1> QED BY <1>1, <1>2, <1>3

-----------------------------------------------------------------------------
(* The run: the gate, then the pool, then the report.                      *)

\* A world in which yes-or-no questions have such answers.
Sensible(world) ==
    /\ \A r \in world.registry : r = <<r[1], r[2]>> /\ r[1] \in Jobs
    /\ \A r \in world.registry :
          /\ world.answers.seed[r[2]].license \in BOOLEAN
          /\ world.answers.seed[r[2]].whole \in BOOLEAN
          /\ world.answers.candidate[r[1]].rpc \in BOOLEAN
          /\ world.answers.candidate[r[1]].storage \in BOOLEAN

LEMMA GateStarts ==
    ASSUME NEW world, NEW rows, Sensible(world), GateInit(world, rows)
    PROVE  GateInv
<1> USE DEF GateInit
<1>1. Answered
  BY DEF Sensible, Answered, SeedIds, CandidateIds
<1>2. SeedsRead /\ PhasesKept
  BY DEF SeedsRead, PhasesKept
<1>3. /\ ControllersKnown /\ IdentitiesKnown /\ RelationsKnown
      /\ GateSkipsOnlyLegit
  BY DEF ControllersKnown, IdentitiesKnown, RelationsKnown, GateSkipsOnlyLegit
<1> QED BY <1>1, <1>2, <1>3 DEF GateInv

\* A step of the run is a step of the gate, one of the pool, or neither.
LEMMA RunSteps ==
    ASSUME [RunNext]_<<gateVars, poolVars, runVars>>, Answered
    PROVE  /\ GateNext \/ UNCHANGED gateVars
           /\ [PoolNext]_poolVars
<1>1. CandidateIds \in SUBSET Jobs
  BY DEF Answered, CandidateIds
<1> QED
  BY <1>1 DEF RunNext, GateStep, EnrichAll, AnalyseAll, PoolStep, Report, End,
              PoolNext

\* The gate is sound and, if no request failed, complete: whatever the
\* providers say, in whatever order the probes are answered, and whatever an
\* earlier run left in the identity cache, the candidates that are not
\* enriched have official relations only.
THEOREM GateIsSound ==
    ASSUME NEW world, NEW rows, Sensible(world)
    PROVE  RunSpec(world, rows) => []GateSkipsOnlyLegit
<1>1. RunInit(world, rows) => GateInv
  BY GateStarts DEF RunInit
<1>2. GateInv /\ [RunNext]_<<gateVars, poolVars, runVars>> => GateInv'
  BY RunSteps, GateStepInv DEF GateInv
<1>3. GateInv => GateSkipsOnlyLegit
  BY DEF GateInv
<1> QED BY <1>1, <1>2, <1>3, PTL DEF RunSpec

\* Nothing is reported that is not on the disk, in the run as a whole: with
\* any number of threads and any capacity of the channel, whenever the user
\* cancels and whichever write fails.
THEOREM ReportedIsWritten ==
    ASSUME NEW world, NEW rows, Sensible(world)
    PROVE  RunSpec(world, rows) => []WrittenBeforeReported
<1>1. RunInit(world, rows) => GateInv /\ PoolInv
  BY GateStarts, PoolInitInv DEF RunInit
<1>2. GateInv /\ PoolInv /\ [RunNext]_<<gateVars, poolVars, runVars>>
        => GateInv' /\ PoolInv'
  BY RunSteps, GateStepInv, PoolStepInv DEF GateInv
<1>3. PoolInv => WrittenBeforeReported
  BY PoolInvImplies
<1> QED BY <1>1, <1>2, <1>3, PTL DEF RunSpec

-----------------------------------------------------------------------------
(* A scope sees what the analysis of its own relations would find.         *)

\* Two bundles that differ in nothing but the relations and their merged
\* signals.
SameEvents(a, b) ==
    /\ a.contract = b.contract /\ a.chain = b.chain /\ a.address = b.address
    /\ a.transfers = b.transfers /\ a.sales = b.sales
    /\ a.holders = b.holders /\ a.flows = b.flows /\ a.quotes = b.quotes
    /\ a.quality = b.quality /\ a.controllers = b.controllers
    /\ a.deployment = b.deployment
    /\ a.deployment_timestamp = b.deployment_timestamp
    /\ a.collection_nft_count = b.collection_nft_count
    /\ a.collection_nft_count_complete = b.collection_nft_count_complete

\* Nothing that is found in the events depends on the relations: who is who,
LEMMA SameRoles ==
    ASSUME NEW a, NEW b, SameEvents(a, b)
    PROVE  Roles(a) = Roles(b)
<1>1. Victims(a) = Victims(b)
  BY DEF SameEvents, Victims, PaidAcquisitions, Holdings, Norm, IsEvm, Held
<1>2. Attributed(a) = Attributed(b)
  BY DEF SameEvents, Attributed, Controllers, DeploymentPayer,
         PaidAcquisitions, Holdings, Norm, IsEvm, Held
<1> QED BY <1>1, <1>2 DEF Roles

\* the evidence of every address,
LEMMA SameAttribution ==
    ASSUME NEW a, NEW b, SameEvents(a, b), NEW graph, NEW roles
    PROVE  Attribution(a, graph, roles) = Attribution(b, graph, roles)
<1>1. \A x : Norm(a, x) = Norm(b, x) /\ Usable(a, x) = Usable(b, x)
  BY DEF SameEvents, Norm, Usable, IsEvm
<1>2. /\ Held(a) = Held(b)
      /\ HighVolumeSellers(a) = HighVolumeSellers(b)
      /\ StarDistributors(a, graph) = StarDistributors(b, graph)
  <2>1. Held(a) = Held(b)
    BY DEF SameEvents, Held
  <2>2. HighVolumeSellers(a) = HighVolumeSellers(b)
    BY DEF SameEvents, HighVolumeSellers, Norm, IsEvm
  <2>3. StarDistributors(a, graph) = StarDistributors(b, graph)
    BY <1>1 DEF StarDistributors
  <2> QED BY <2>1, <2>2, <2>3
<1>3. OperatorEvidence(a, graph) = OperatorEvidence(b, graph)
  BY <1>2 DEF SameEvents, OperatorEvidence, Controllers, DeploymentPayer,
              Norm, IsEvm
<1>4. MaliciousSaleCycles(a, graph) = MaliciousSaleCycles(b, graph)
  BY <1>1, <1>3 DEF SameEvents, MaliciousSaleCycles
<1>5. EvidenceRows(a, graph) = EvidenceRows(b, graph)
  BY <1>2, <1>4 DEF SameEvents, EvidenceRows, Usable, Norm, IsEvm
<1> QED BY <1>5 DEF Attribution

\* the lifecycle and the value flow,
LEMMA SameLifecycle ==
    ASSUME NEW a, NEW b, SameEvents(a, b), NEW roles, NEW now
    PROVE  Lifecycle(a, roles, now) = Lifecycle(b, roles, now)
<1>1. Held(a) = Held(b) /\ VictimTokens(a, roles) = VictimTokens(b, roles)
  BY DEF SameEvents, Held, VictimTokens
<1>2. ASSUME NEW tokens, NEW acquired
      PROVE  HoldingSeconds(a, tokens, acquired, now)
                = HoldingSeconds(b, tokens, acquired, now)
  BY <1>1 DEF SameEvents, HoldingSeconds
<1> QED BY <1>1, <1>2 DEF SameEvents, Lifecycle

LEMMA SameValueFlow ==
    ASSUME NEW a, NEW b, SameEvents(a, b), NEW roles
    PROVE  ValueFlow(a, roles) = ValueFlow(b, roles)
  BY DEF SameEvents, ValueFlow, ReceivedUsd, Held, Usable, Norm, IsEvm

\* the cycles of wash trading and the exits from them,
LEMMA SameCycle ==
    ASSUME NEW a, NEW b, SameEvents(a, b), NEW cycle
    PROVE  /\ CycleEnd(a, cycle) = CycleEnd(b, cycle)
           /\ CycleInstance(a, cycle) = CycleInstance(b, cycle)
<1>1. InternalSales(a, cycle) = InternalSales(b, cycle)
  BY DEF SameEvents, InternalSales, EventsWhere, EventBody, EventFrom, EventTo
<1>2. CycleEnd(a, cycle) = CycleEnd(b, cycle)
  BY <1>1 DEF SameEvents, CycleEnd, EventBody
<1>3. CycleInstance(a, cycle) = CycleInstance(b, cycle)
  BY DEF SameEvents, CycleInstance, InternalSales, InstanceOf, EventsWhere,
         EventBody, EventFrom, EventTo
<1> QED BY <1>2, <1>3

LEMMA SamePumps ==
    ASSUME NEW a, NEW b, SameEvents(a, b), NEW roles
    PROVE  /\ WashComponents(a, roles) = WashComponents(b, roles)
           /\ Pumps(a, roles) = Pumps(b, roles)
<1>1. WashComponents(a, roles) = WashComponents(b, roles)
  BY DEF SameEvents, WashComponents, SaleCycles
<1>2. Pumps(a, roles) = Pumps(b, roles)
  BY DEF SameEvents, Pumps, WashComponents, SaleCycles,
         ExitPriceExceedsInternal, Comparable, AllPriced, UsdOf, ExitSales,
         InternalSales, CycleEnd, EventsWhere, EventBody, EventFrom, EventTo
<1> QED BY <1>1, <1>2

LEMMA SamePump ==
    ASSUME NEW a, NEW b, SameEvents(a, b), NEW roles, NEW cycle
    PROVE  PumpInstance(a, roles, cycle) = PumpInstance(b, roles, cycle)
<1>1. CycleEnd(a, cycle) = CycleEnd(b, cycle)
  BY SameCycle
<1> QED
  BY <1>1 DEF SameEvents, PumpInstance, InternalSales, ExitSales, LossesOf,
              UsdOf, InstanceOf, EventsWhere, EventBody, EventFrom, EventTo

\* the stars,
LEMMA SameStars ==
    ASSUME NEW a, NEW b, SameEvents(a, b), NEW roles, NEW graph,
           NEW components
    PROVE  Stars(a, graph, components, roles)
              = Stars(b, graph, components, roles)
  BY DEF SameEvents, Stars, IsStar, StarInstance, StarKind, DagTargets,
         OutgoingEvents, ComponentOf, LossesOf, InstanceOf, EventsWhere,
         EventBody, EventFrom, EventTo

\* the layered transfers,
LEMMA SameSearch ==
    ASSUME NEW a, NEW b, SameEvents(a, b), NEW token, NEW start
    PROVE  SearchPath(a, token, start) = SearchPath(b, token, start)
  BY DEF SameEvents, SearchPath, Outgoing, Visited, EventBefore, Precedes,
         EventsWhere, EventBody, EventFrom, EventTo

LEMMA SameLayers ==
    ASSUME NEW a, NEW b, SameEvents(a, b), NEW roles
    PROVE  LayeredPaths(a, roles) = LayeredPaths(b, roles)
<1> DEFINE Starts(x) == Sorted(LayeredStarts(x, roles), LAMBDA y, z :
                            y[1] < z[1] \/ (y[1] = z[1] /\ y[2] < z[2]))
           Found(x, starts) ==
               [s \in ToSet(starts) |-> SearchPath(x, s[1], s[2])]
           Kept(found, starts) == SelectSeq(starts, LAMBDA s : found[s] # <<>>)
           Told(x, found, kept) ==
               [i \in DOMAIN kept |->
                   LayeredInstance(x, kept[i][2], found[kept[i]][1])]
           Paths(x, starts) ==
               Told(x, Found(x, starts), Kept(Found(x, starts), starts))
<1>1. /\ LayeredPaths(a, roles) = Paths(a, Starts(a))
      /\ LayeredPaths(b, roles) = Paths(b, Starts(b))
  BY Zenon DEF LayeredPaths
<1>2. Starts(a) = Starts(b)
  <2>1. LayeredStarts(a, roles) = LayeredStarts(b, roles)
    BY DEF SameEvents, LayeredStarts, EventsWhere, EventBody, EventFrom,
           EventTo
  <2> QED BY <2>1
<1>3. ASSUME NEW starts
      PROVE  Found(a, starts) = Found(b, starts)
  BY SameSearch
<1>4. ASSUME NEW found, NEW kept
      PROVE  Told(a, found, kept) = Told(b, found, kept)
  <2>1. ASSUME NEW start, NEW path
        PROVE  LayeredInstance(a, start, path)
                  = LayeredInstance(b, start, path)
    BY DEF SameEvents, LayeredInstance, InstanceOf, Visited, EventsWhere,
           EventBody, EventFrom, EventTo
  <2> QED BY <2>1
<1> HIDE DEF Found, Kept, Told, Starts
<1> QED BY <1>1, <1>2, <1>3, <1>4

\* and so all that the detectors tell;
LEMMA SameBehaviors ==
    ASSUME NEW a, NEW b, SameEvents(a, b), NEW graph, NEW components,
           NEW roles
    PROVE  Behaviors(a, graph, components, roles)
              = Behaviors(b, graph, components, roles)
<1>1. ASSUME NEW address
      PROVE  InventoryInstance(a, address) = InventoryInstance(b, address)
  BY DEF SameEvents, InventoryInstance, UsdOf, InstanceOf, EventsWhere,
         EventBody, EventFrom, EventTo
<1> DEFINE Cycles(x, cycles) ==
               [i \in DOMAIN cycles |-> CycleInstance(x, cycles[i])]
           PumpsOf(x, pumps) ==
               [i \in DOMAIN pumps |-> PumpInstance(x, roles, pumps[i])]
           Stocks(x) ==
               [i \in DOMAIN InventoryVertices(graph, roles) |->
                   InventoryInstance(x, graph.addresses[
                       InventoryVertices(graph, roles)[i]])]
<1>2. \A x : Instances(x, graph, components, roles) =
                Cycles(x, WashComponents(x, roles))
                \o PumpsOf(x, Pumps(x, roles))
                \o Stars(x, graph, components, roles)
                \o LayeredPaths(x, roles) \o Stocks(x)
  BY Zenon DEF Instances
<1>3. ASSUME NEW cycles
      PROVE  Cycles(a, cycles) = Cycles(b, cycles)
  BY SameCycle
<1>4. ASSUME NEW pumps
      PROVE  PumpsOf(a, pumps) = PumpsOf(b, pumps)
  BY SamePump
<1>5. Stocks(a) = Stocks(b)
  BY <1>1
<1> HIDE DEF Cycles, PumpsOf, Stocks
<1>6. Instances(a, graph, components, roles)
        = Instances(b, graph, components, roles)
  <2>1. /\ Cycles(a, WashComponents(a, roles))
              = Cycles(b, WashComponents(b, roles))
        /\ PumpsOf(a, Pumps(a, roles)) = PumpsOf(b, Pumps(b, roles))
    BY <1>3, <1>4, SamePumps
  <2>2. /\ Stars(a, graph, components, roles)
              = Stars(b, graph, components, roles)
        /\ LayeredPaths(a, roles) = LayeredPaths(b, roles)
    BY SameStars, SameLayers
  <2> QED BY <1>2, <1>5, <2>1, <2>2, Zenon
<1> QED BY <1>6 DEF Behaviors

\* what the operators spent, took in and cost others;
LEMMA SameGas ==
    ASSUME NEW a, NEW b, SameEvents(a, b), NEW roles
    PROVE  GasByTx(a, roles) = GasByTx(b, roles)
<1>1. EventGas(a, roles) = EventGas(b, roles)
  BY DEF SameEvents, EventGas
<1>2. GasByEvent(a, roles) = GasByEvent(b, roles)
  BY <1>1 DEF GasByEvent
<1>3. a.flows = b.flows /\ a.quality = b.quality
  BY DEF SameEvents
<1> QED BY <1>2, <1>3 DEF GasByTx

LEMMA SameContributions ==
    ASSUME NEW a, NEW b, SameEvents(a, b), NEW roles
    PROVE  Contributions(a, roles) = Contributions(b, roles)
<1>1. ASSUME NEW s
      PROVE  SaleContributions(a, roles, s) = SaleContributions(b, roles, s)
  BY DEF SameEvents, SaleContributions, HonestSale, HonestHolds,
         VictimTokens, Held
<1>2. ASSUME NEW t
      PROVE  MintContributions(a, roles, t) = MintContributions(b, roles, t)
  BY DEF SameEvents, MintContributions, HonestMint, HonestHolds,
         VictimTokens, Held, MintToOperator
<1>3. a.sales = b.sales /\ a.transfers = b.transfers
  BY DEF SameEvents
<1> DEFINE OfSales(x) ==
               [i \in DOMAIN x.sales |->
                   SaleContributions(x, roles, x.sales[i])]
           OfMints(x, paid) ==
               [i \in DOMAIN x.transfers |->
                   IF i \in paid
                   THEN MintContributions(x, roles, x.transfers[i])
                   ELSE <<>>]
<1>4. \A x : Contributions(x, roles) =
                FlattenSeq(OfSales(x)) \o FlattenSeq(OfMints(x, PaidMints(x)))
  BY Zenon DEF Contributions
<1>5. OfSales(a) = OfSales(b)
  BY <1>1, <1>3
<1>6. ASSUME NEW paid
      PROVE  OfMints(a, paid) = OfMints(b, paid)
  BY <1>2, <1>3
<1>7. PaidMints(a) = PaidMints(b)
  BY <1>3 DEF PaidMints
<1> HIDE DEF OfSales, OfMints
<1> QED BY <1>4, <1>5, <1>6, <1>7, Zenon

LEMMA SameEconomics ==
    ASSUME NEW a, NEW b, SameEvents(a, b), NEW roles
    PROVE  EconomicsOf(a, roles) = EconomicsOf(b, roles)
<1>1. /\ GasByTx(a, roles) = GasByTx(b, roles)
      /\ Contributions(a, roles) = Contributions(b, roles)
  BY SameGas, SameContributions
<1>2. VictimTokens(a, roles) = VictimTokens(b, roles)
  BY DEF SameEvents, VictimTokens, Held
<1>3. /\ PaidMints(a) = PaidMints(b)
      /\ FlowContributions(a) = FlowContributions(b)
  BY DEF SameEvents, PaidMints, FlowContributions
<1>4. SpotRate(a) = SpotRate(b)
  BY DEF SameEvents, SpotRate
<1>5. PricedGas(a, GasByTx(b, roles)) = PricedGas(b, GasByTx(b, roles))
  BY <1>4 DEF PricedGas
<1> QED
  BY <1>1, <1>2, <1>3, <1>4, <1>5
     DEF SameEvents, EconomicsOf, HonestSale, HonestMint, HonestHolds,
         MintToOperator

\* nor anything else that is told of the events.
LEMMA SameExplanation ==
    ASSUME NEW a, NEW b, SameEvents(a, b), NEW base, NEW graph, NEW roles,
           NEW now
    PROVE  Explained(base, a, graph, roles, now)
              = Explained(base, b, graph, roles, now)
<1>1. ASSUME NEW found
      PROVE  Detailed(base, a, graph, roles, found, now)
                = Detailed(base, b, graph, roles, found, now)
  <2>1. /\ Attribution(a, graph, roles) = Attribution(b, graph, roles)
        /\ Lifecycle(a, roles, now) = Lifecycle(b, roles, now)
        /\ ValueFlow(a, roles) = ValueFlow(b, roles)
        /\ EconomicsOf(a, roles) = EconomicsOf(b, roles)
    BY SameAttribution, SameLifecycle, SameValueFlow, SameEconomics
  <2>2. Withheld(a) = Withheld(b)
    BY DEF SameEvents, Withheld
  <2> QED BY <2>1, <2>2 DEF Detailed
<1> QED BY <1>1, SameBehaviors DEF Explained

\* A bundle, as far as the projection needs to know: it has the fields of one.
IsBundle(b) == DOMAIN b = DOMAIN ABundle

\* The evidence of some seeds is that of all but for the relations.
LEMMA FilteredKeepsEvents ==
    ASSUME NEW b, IsBundle(b), NEW seeds
    PROVE  LET f == FilteredForAnalysis(b, seeds)
               kept == RelationSignalsFor(b, seeds)
           IN  /\ SameEvents(f, b)
               /\ f.relations = kept
               /\ f.legit = FinalizeLegit(NoSignals, kept)
<1> DEFINE kept == RelationSignalsFor(b, seeds)
           legit == FinalizeLegit(NoSignals, kept)
<1>1. FilteredForAnalysis(b, seeds)
        = [b EXCEPT !.relations = kept, !.legit = legit]
  BY DEF FilteredForAnalysis, RelationSignalsFor
<1>2. DOMAIN b = {"contract", "chain", "address", "transfers", "sales",
                  "holders", "flows", "quotes", "quality", "controllers",
                  "deployment", "deployment_timestamp",
                  "collection_nft_count", "collection_nft_count_complete",
                  "legit", "relations"}
  BY DEF IsBundle, ABundle
<1> HIDE DEF kept, legit
<1> QED BY <1>1, <1>2 DEF SameEvents, kept, legit

-----------------------------------------------------------------------------
\* The fields of an analysis.
AnalysisFields ==
    {"contract", "chain", "legit", "legit_by_seed", "attribution",
     "lifecycle", "value_flow", "behaviors", "instances", "economics",
     "withheld", "quality", "population"}

\* What is known of a candidate before anything is looked for.
Plain(b) ==
    [NoAnalysis EXCEPT !.contract = b.contract, !.chain = b.chain,
                       !.quality = b.quality,
                       !.population = IF b.collection_nft_count_complete
                                      THEN b.collection_nft_count
                                      ELSE Missing]

\* What a projection leaves of a candidate that is legitimate in a scope.
Cleared(x) ==
    [x EXCEPT !.attribution = <<>>, !.lifecycle = <<>>, !.value_flow = <<>>,
              !.behaviors = NoAnalysis.behaviors, !.instances = <<>>,
              !.economics = NoEconomics, !.withheld = {}]

\* What the summaries keep of the rows and of the instances.
KeptRows(x) ==
    [a \in DOMAIN x.attribution |-> [x.attribution[a] EXCEPT !.evidence = {}]]

KeptInstances(x) ==
    [i \in DOMAIN x.instances |->
        [kind |-> x.instances[i].kind, addresses |-> x.instances[i].addresses,
         nfts |-> x.instances[i].nfts, buyers |-> x.instances[i].buyers,
         losses |-> x.instances[i].losses]]

Keeping(x, rows, told) ==
    [x EXCEPT !.attribution = rows, !.lifecycle = <<>>, !.value_flow = <<>>,
              !.instances = told]

Signed(x, signals, bySeed) ==
    [x EXCEPT !.legit = signals, !.legit_by_seed = bySeed]

SignedBySeed(r) == [seed \in DOMAIN r |-> Classify(r[seed])]

AllLegit(relations) ==
    /\ DOMAIN relations # {}
    /\ \A seed \in DOMAIN relations : IsLegitDuplicate(relations[seed])

\* Which fields each of the steps of an analysis sets.
LEMMA FieldsSet ==
    /\ \A x : Shrink(x) = Keeping(x, KeptRows(x), KeptInstances(x))
    /\ \A x, l, r :
          Classified(x, l, r) = Signed(x, Classify(l), SignedBySeed(r))
<1>1. \A x : Shrink(x) = Keeping(x, KeptRows(x), KeptInstances(x))
  BY DEF Shrink, Keeping, KeptRows, KeptInstances
<1>2. \A x, l, r :
          Classified(x, l, r) = Signed(x, Classify(l), SignedBySeed(r))
  BY DEF Classified, Signed, SignedBySeed
<1> QED BY <1>1, <1>2

LEMMA FieldsKept ==
    ASSUME NEW x, DOMAIN x = AnalysisFields
    PROVE  /\ DOMAIN Shrink(x) = AnalysisFields
           /\ \A l, r : DOMAIN Classified(x, l, r) = AnalysisFields
           /\ \A b, graph, roles, found, now :
                 DOMAIN Detailed(x, b, graph, roles, found, now)
                    = AnalysisFields
<1>1. DOMAIN Shrink(x) = AnalysisFields
  BY DEF Shrink
<1>2. \A l, r : DOMAIN Classified(x, l, r) = AnalysisFields
  BY DEF Classified
<1>3. \A b, graph, roles, found, now :
         DOMAIN Detailed(x, b, graph, roles, found, now) = AnalysisFields
  BY DEF Detailed
<1> QED BY <1>1, <1>2, <1>3

LEMMA PlainFields == \A b : DOMAIN Plain(b) = AnalysisFields
  BY DEF Plain, NoAnalysis, AnalysisFields

\* The signals set last are those that stay,
LEMMA ClassifiedAgain ==
    ASSUME NEW x, DOMAIN x = AnalysisFields, NEW l, NEW r, NEW m, NEW s
    PROVE  Classified(Classified(x, l, r), m, s) = Classified(x, m, s)
  BY DEF Classified, AnalysisFields

\* whatever else is told of the candidate,
LEMMA ClassifiedDetails ==
    ASSUME NEW x, DOMAIN x = AnalysisFields, NEW b, NEW graph, NEW roles,
           NEW found, NEW now, NEW m, NEW s
    PROVE  Classified(Detailed(x, b, graph, roles, found, now), m, s)
              = Detailed(Classified(x, m, s), b, graph, roles, found, now)
<1>1. ASSUME NEW v1, NEW v2, NEW v3, NEW v4, NEW v5, NEW v6, NEW v7,
             NEW v8, NEW v9
      PROVE  [[x EXCEPT !.attribution = v1, !.lifecycle = v2,
                        !.value_flow = v3, !.behaviors = v4,
                        !.instances = v5, !.economics = v6, !.withheld = v7]
                 EXCEPT !.legit = v8, !.legit_by_seed = v9]
             = [[x EXCEPT !.legit = v8, !.legit_by_seed = v9]
                 EXCEPT !.attribution = v1, !.lifecycle = v2,
                        !.value_flow = v3, !.behaviors = v4,
                        !.instances = v5, !.economics = v6, !.withheld = v7]
  BY DEF AnalysisFields
<1> QED BY <1>1 DEF Classified, Detailed

\* and whatever the summaries keep of it.
LEMMA ClassifiedShrunk ==
    ASSUME NEW x, DOMAIN x = AnalysisFields, NEW m, NEW s
    PROVE  Classified(Shrink(x), m, s) = Shrink(Classified(x, m, s))
<1> DEFINE c == Classified(x, m, s)
           l == Classify(m)
           t == SignedBySeed(s)
<1>1. c = Signed(x, l, t)
  BY FieldsSet
<1>2. KeptRows(c) = KeptRows(x) /\ KeptInstances(c) = KeptInstances(x)
  <2>1. c.attribution = x.attribution /\ c.instances = x.instances
    BY DEF Classified, AnalysisFields
  <2> QED BY <2>1 DEF KeptRows, KeptInstances
<1> HIDE DEF c, l, t
<1>3. Shrink(c) = Keeping(Signed(x, l, t), KeptRows(x), KeptInstances(x))
  BY <1>1, <1>2, FieldsSet
<1>4. Classified(Shrink(x), m, s)
        = Signed(Keeping(x, KeptRows(x), KeptInstances(x)), l, t)
  BY FieldsSet DEF l, t
<1>5. ASSUME NEW rows, NEW told
      PROVE  Signed(Keeping(x, rows, told), l, t)
                = Keeping(Signed(x, l, t), rows, told)
  BY DEF Signed, Keeping, AnalysisFields
<1> QED BY <1>3, <1>4, <1>5 DEF c

\* The signals say whether a candidate is legitimate for all of its seeds.
LEMMA ClassifiedSays ==
    ASSUME NEW x, DOMAIN x = AnalysisFields, NEW l, NEW r
    PROVE  FullyLegit(Classified(x, l, r).legit_by_seed) <=> AllLegit(r)
<1>1. Classified(x, l, r).legit_by_seed = SignedBySeed(r)
  BY DEF Classified, SignedBySeed, AnalysisFields
<1>2. /\ DOMAIN SignedBySeed(r) = DOMAIN r
      /\ \A seed \in DOMAIN r :
            SignedBySeed(r)[seed].legit = IsLegitDuplicate(r[seed])
  BY DEF SignedBySeed, Classify
<1> QED BY <1>1, <1>2 DEF FullyLegit, AllLegit

\* What is cleared does not depend on what was told,
LEMMA ClearedDetails ==
    ASSUME NEW x, DOMAIN x = AnalysisFields, NEW b, NEW graph, NEW roles,
           NEW found, NEW now
    PROVE  Cleared(Shrink(Detailed(x, b, graph, roles, found, now)))
              = Cleared(Shrink(x))
<1> DEFINE y == Detailed(x, b, graph, roles, found, now)
<1>1. PICK v1, v2, v3, v4, v5, v6, v7 :
        y = [x EXCEPT !.attribution = v1, !.lifecycle = v2,
                      !.value_flow = v3, !.behaviors = v4,
                      !.instances = v5, !.economics = v6, !.withheld = v7]
  <2>1. \E v1, v2, v3, v4, v5, v6, v7 :
          y = [x EXCEPT !.attribution = v1, !.lifecycle = v2,
                        !.value_flow = v3, !.behaviors = v4,
                        !.instances = v5, !.economics = v6, !.withheld = v7]
    BY Zenon DEF Detailed
  <2> QED BY <2>1
<1> HIDE DEF y
<1>2. ASSUME NEW rows, NEW told
      PROVE  Cleared(Keeping(y, rows, told))
                = Cleared(Keeping(x, KeptRows(x), KeptInstances(x)))
  BY <1>1 DEF Cleared, Keeping, AnalysisFields
<1>3. Cleared(Shrink(y)) = Cleared(Shrink(x))
  BY <1>2, FieldsSet
<1> QED BY <1>3 DEF y

\* and where nothing was looked for there is nothing to clear.
LEMMA NothingToClear ==
    ASSUME NEW b, NEW l, NEW r
    PROVE  Cleared(Shrink(Classified(Plain(b), l, r)))
              = Shrink(Classified(Plain(b), l, r))
<1> DEFINE y == Classified(Plain(b), l, r)
<1>1. /\ DOMAIN y = AnalysisFields
      /\ y.attribution = <<>> /\ y.behaviors = NoAnalysis.behaviors
      /\ y.instances = <<>> /\ y.economics = NoEconomics /\ y.withheld = {}
  <2>1. /\ Plain(b).attribution = <<>> /\ Plain(b).instances = <<>>
        /\ Plain(b).behaviors = NoAnalysis.behaviors
        /\ Plain(b).economics = NoEconomics /\ Plain(b).withheld = {}
    BY DEF Plain, NoAnalysis
  <2> QED BY <2>1, PlainFields DEF Classified, AnalysisFields
<1> HIDE DEF y
<1>2. KeptRows(y) = <<>> /\ KeptInstances(y) = <<>>
  BY <1>1 DEF KeptRows, KeptInstances
<1> DEFINE z == Shrink(y)
<1>3. z = Keeping(y, <<>>, <<>>)
  BY <1>2, FieldsSet
<1>4. /\ DOMAIN z = AnalysisFields
      /\ z.attribution = <<>> /\ z.lifecycle = <<>> /\ z.value_flow = <<>>
      /\ z.behaviors = NoAnalysis.behaviors /\ z.instances = <<>>
      /\ z.economics = NoEconomics /\ z.withheld = {}
      /\ z = [f \in AnalysisFields |-> z[f]]
  BY <1>1, <1>3 DEF Keeping, AnalysisFields
<1> HIDE DEF z
<1>5. Cleared(z) = z
  BY <1>4 DEF Cleared, AnalysisFields
<1> QED BY <1>5 DEF z, y

Based(b) == Classified(Plain(b), b.legit, b.relations)

\* The two branches of the analysis,
LEMMA AnalyzeCases ==
    ASSUME NEW b, NEW now
    PROVE  /\ AllLegit(b.relations) => Analyze(b, now) = Based(b)
           /\ ~ AllLegit(b.relations) =>
                 Analyze(b, now) = Explained(Based(b), b,
                     FromTransfers(b.transfers), Roles(b), now)
<1>1. Analyze(b, now)
        = IF FullyLegit(Based(b).legit_by_seed) THEN Based(b)
          ELSE Explained(Based(b), b, FromTransfers(b.transfers), Roles(b),
                         now)
  BY Zenon DEF Analyze, Based, Plain
<1>2. FullyLegit(Based(b).legit_by_seed) <=> AllLegit(b.relations)
  BY PlainFields, ClassifiedSays DEF Based
<1> QED BY <1>1, <1>2

\* and those of the projection.
LEMMA ProjectCases ==
    ASSUME NEW x, DOMAIN x = AnalysisFields, NEW r, DOMAIN r # {}
    PROVE  LET p == Classified(x, FinalizeLegit(NoSignals, r), r)
           IN  /\ AllLegit(r) => Project(x, r) = Cleared(p)
               /\ ~ AllLegit(r) => Project(x, r) = p
<1> DEFINE l == FinalizeLegit(NoSignals, r)
           p == Classified(x, l, r)
<1>1. l = [Merged(r) EXCEPT
              !.verification_complete = @ \/ Merged(r).flags # {}]
  BY DEF FinalizeLegit
<1> HIDE DEF l
<1>2. Project(x, r) = IF ~ FullyLegit(p.legit_by_seed) THEN p ELSE Cleared(p)
  BY <1>1, Zenon DEF Project, Cleared
<1>3. FullyLegit(p.legit_by_seed) <=> AllLegit(r)
  BY ClassifiedSays
<1> QED BY <1>2, <1>3 DEF l

\* The projection of the whole analysis to some of the seeds is the analysis
\* of the evidence of those seeds, as far as the summaries read either.  A
\* candidate that is legitimate for all of its seeds is so for some of them;
\* one that is not may be, and then all that was found is cleared; and one
\* that is not for these seeds either was looked at, and what was found does
\* not depend on the seeds.
LEMMA ProjectedIsAnalysed ==
    ASSUME NEW b, IsBundle(b), NEW seeds, DOMAIN b.relations \cap seeds # {},
           NEW now
    PROVE  Project(Shrink(Analyze(b, now)), RelationSignalsFor(b, seeds))
              = Shrink(Analyze(FilteredForAnalysis(b, seeds), now))
<1> DEFINE f == FilteredForAnalysis(b, seeds)
           r == RelationSignalsFor(b, seeds)
           l == FinalizeLegit(NoSignals, r)
           graph == FromTransfers(b.transfers)
           found == Behaviors(b, graph, Components(graph), Roles(b))
           Says(x) == Detailed(x, b, graph, Roles(b), found, now)
           whole == Analyze(b, now)
           own == Classified(Plain(b), l, r)
<1>1. /\ SameEvents(f, b) /\ f.relations = r /\ f.legit = l
  BY FilteredKeepsEvents
<1>2. DOMAIN r # {} /\ (AllLegit(b.relations) => AllLegit(r))
  BY DEF RelationSignalsFor, AllLegit
<1>3. Based(f) = own
  <2>1. Plain(f) = Plain(b)
    BY <1>1 DEF SameEvents, Plain
  <2> QED BY <1>1, <2>1 DEF Based
<1>4. /\ AllLegit(b.relations) => whole = Based(b)
      /\ ~ AllLegit(b.relations) => whole = Says(Based(b))
  BY AnalyzeCases DEF Explained
<1>5. /\ AllLegit(r) => Analyze(f, now) = own
      /\ ~ AllLegit(r) => Analyze(f, now) = Says(own)
  <2>1. /\ FromTransfers(f.transfers) = graph /\ Roles(f) = Roles(b)
    BY <1>1, SameRoles DEF SameEvents
  <2>2. Explained(own, f, graph, Roles(b), now)
           = Explained(own, b, graph, Roles(b), now)
    BY <1>1, SameExplanation
  <2>3. Explained(own, b, graph, Roles(b), now) = Says(own)
    BY DEF Explained
  <2>4. /\ AllLegit(f.relations) => Analyze(f, now) = Based(f)
        /\ ~ AllLegit(f.relations) =>
              Analyze(f, now) = Explained(Based(f), f,
                     FromTransfers(f.transfers), Roles(f), now)
    BY AnalyzeCases
  <2> HIDE DEF f, r, own, Says, graph
  <2> QED BY <1>1, <1>3, <2>1, <2>2, <2>3, <2>4
<1>6. /\ DOMAIN Plain(b) = AnalysisFields /\ DOMAIN Based(b) = AnalysisFields
      /\ DOMAIN own = AnalysisFields /\ DOMAIN whole = AnalysisFields
      /\ DOMAIN Shrink(whole) = AnalysisFields
      /\ \A x : DOMAIN x = AnalysisFields => DOMAIN Says(x) = AnalysisFields
  <2>1. DOMAIN Plain(b) = AnalysisFields
    BY PlainFields
  <2>2. DOMAIN Based(b) = AnalysisFields /\ DOMAIN own = AnalysisFields
    BY <2>1, FieldsKept DEF Based
  <2>3. \A x : DOMAIN x = AnalysisFields => DOMAIN Says(x) = AnalysisFields
    BY FieldsKept
  <2> HIDE DEF whole, own, Says
  <2>4. DOMAIN whole = AnalysisFields
    BY <1>4, <2>2, <2>3
  <2> QED BY <2>1, <2>2, <2>3, <2>4, FieldsKept
<1>7. Classified(Shrink(whole), l, r) = Shrink(Classified(whole, l, r))
  BY <1>6, ClassifiedShrunk
<1>8. Classified(Based(b), l, r) = own
  BY <1>6, ClassifiedAgain DEF Based
<1>9. Classified(Says(Based(b)), l, r) = Says(own)
  BY <1>6, <1>8, ClassifiedDetails
<1>10. /\ AllLegit(r) => Project(Shrink(whole), r)
                            = Cleared(Shrink(Classified(whole, l, r)))
       /\ ~ AllLegit(r) => Project(Shrink(whole), r)
                            = Shrink(Classified(whole, l, r))
  BY <1>2, <1>6, <1>7, ProjectCases
<1>11. Cleared(Shrink(own)) = Shrink(own)
  BY NothingToClear
<1>12. Cleared(Shrink(Says(own))) = Cleared(Shrink(own))
  BY <1>6, ClearedDetails
<1>13. Project(Shrink(whole), r) = Shrink(Analyze(f, now))
  <2> HIDE DEF f, r, l, graph, found, Says, whole, own
  <2>1. CASE AllLegit(b.relations)
    BY <1>2, <1>4, <1>5, <1>8, <1>10, <1>11, <2>1
  <2>2. CASE ~ AllLegit(b.relations) /\ AllLegit(r)
    BY <1>4, <1>5, <1>9, <1>10, <1>11, <1>12, <2>2
  <2>3. CASE ~ AllLegit(r)
    BY <1>2, <1>4, <1>5, <1>9, <1>10, <2>3
  <2> QED BY <2>1, <2>2, <2>3
<1> QED BY <1>13

-----------------------------------------------------------------------------
(* The report tells the analyses of the evidence.                          *)

\* A world whose providers answer with the fields of a bundle.
Bundled(world) ==
    \A r \in world.registry : IsBundle(world.events[r[1]].bundle)

\* A bundle of a candidate with the relations it has.
Whole(b, c) == IsBundle(b) /\ DOMAIN b.relations = SeedsOf(c)

\* What the gate, the enrichment and the report have of every candidate.
EvidenceKept ==
    /\ \A c \in CandidateIds : IsBundle(events[c].bundle)
    /\ gate = "done" => \A c \in CandidateIds : Whole(bundles[c], c)
    /\ evidence # <<>> => /\ gate = "done" /\ DOMAIN evidence = CandidateIds
                          /\ \A c \in CandidateIds : Whole(evidence[c], c)
    /\ pool # "waiting" => evidence # <<>>
    /\ report # NoReport =>
          /\ evidence # <<>>
          /\ report.details =
                [c \in CandidateIds |-> Analyze(evidence[c], Now)]

\* The enrichment adds to what the gate knows, and keeps its relations.
LEMMA EnrichmentKeepsRelations ==
    ASSUME NEW b, IsBundle(b), NEW native, NEW receipts
    PROVE  /\ IsBundle(EnrichEvm(b, native, receipts))
           /\ EnrichEvm(b, native, receipts).relations = b.relations
<1>1. ASSUME NEW paid, IsBundle(paid), NEW base, NEW found, NEW preliminary
      PROVE  LET w == WithFlows(paid, base, found, preliminary, native,
                                receipts)
             IN  IsBundle(w) /\ w.relations = paid.relations
  BY <1>1 DEF WithFlows, IsBundle, ABundle
<1>2. ASSUME NEW base, IsBundle(base), NEW flows
      PROVE  LET p == WithPayments(base, native, flows)
             IN  IsBundle(p) /\ p.relations = base.relations
  BY <1>2 DEF WithPayments, IsBundle, ABundle
<1>3. ASSUME NEW base, IsBundle(base)
      PROVE  LET w == Fetched(base, native, receipts)
             IN  IsBundle(w) /\ w.relations = base.relations
  BY <1>1, <1>2, <1>3, Zenon DEF Fetched, Paid, Refetched
<1>4. ASSUME NEW sold, NEW moved
      PROVE  LET p == [b EXCEPT !.sales = sold, !.transfers = moved]
             IN  IsBundle(p) /\ p.relations = b.relations
  BY DEF IsBundle, ABundle
<1> QED BY <1>3, <1>4, Zenon DEF EnrichEvm

LEMMA EnrichedWhole ==
    ASSUME NEW c, Whole(bundles[c], c), IsBundle(events[c].bundle)
    PROVE  Whole(Enriched(c), c)
<1> DEFINE named == [bundles[c] EXCEPT !.contract = c, !.address = c,
                                    !.chain = ContractChain[c]]
           fetched == [events[c].bundle EXCEPT !.contract = c, !.address = c,
                                      !.chain = ContractChain[c],
                                      !.controllers = named.controllers,
                                      !.relations = named.relations,
                                      !.legit = named.legit]
<1>1. Whole(named, c) /\ Whole(fetched, c)
  BY DEF Whole, IsBundle, ABundle
<1>2. ASSUME NEW native, NEW receipts
      PROVE  Whole(EnrichEvm(fetched, native, receipts), c)
  <2> HIDE DEF named, fetched
  <2> QED BY <1>1, EnrichmentKeepsRelations DEF Whole
<1>3. Enriched(c) \in {named, fetched,
         EnrichEvm(fetched, events[c].native, events[c].receipts)}
  BY Zenon DEF Enriched
<1> HIDE DEF named, fetched
<1> QED BY <1>1, <1>2, <1>3

\* What the gate knows has the relations it probed.
LEMMA GateBundleWhole ==
    ASSUME NEW c, NEW relations, DOMAIN relations = SeedsOf(c), NEW controllers
    PROVE  Whole(GateBundle(relations, controllers), c)
  BY DEF Whole, GateBundle, IsBundle, ABundle

\* No step but the last of the gate makes the bundles, and none of it comes
\* after.
LEMMA GateStepKeeps ==
    ASSUME EvidenceKept, GateStep
    PROVE  EvidenceKept'
<1>1. /\ UNCHANGED <<registry, poolVars, runVars>> /\ gate # "done"
      /\ CandidateIds' = CandidateIds /\ \A c : SeedsOf(c)' = SeedsOf(c)
  BY DEF GateStep, GateNext, ReadSeed, Prefetch, ProbeCandidate, ProbeRelation,
         FinishGate, CandidateIds, SeedsOf, SeedIds
<1>2. ASSUME gate' = "done", NEW c \in CandidateIds
      PROVE  Whole(bundles[c], c)'
  <2>1. FinishGate
    BY <1>1, <1>2 DEF GateStep, GateNext, ReadSeed, Prefetch, ProbeCandidate,
                      ProbeRelation
  <2>2. \/ /\ c \in DOMAIN probed
           /\ bundles'[c] = GateBundle(probed[c], identities[c].controllers)
        \/ bundles'[c] =
              GateBundle([s \in SeedsOf(c) |-> OfflineSignals(c, s)], {})
    BY <2>1, <1>2 DEF FinishGate
  <2>3. c \in DOMAIN probed => DOMAIN probed[c] = SeedsOf(c)
    BY <2>1 DEF FinishGate, RelationsProbed
  <2>4. Whole(bundles'[c], c)
    BY <2>2, <2>3, GateBundleWhole
  <2> QED BY <1>1, <2>4 DEF Whole
<1> QED BY <1>1, <1>2 DEF EvidenceKept, poolVars, runVars

\* The enrichment makes the evidence of every candidate, once.
LEMMA EnrichKeeps ==
    ASSUME EvidenceKept, EnrichAll
    PROVE  EvidenceKept'
<1>1. /\ gate = "done" /\ evidence = <<>>
      /\ UNCHANGED <<gateVars, poolVars, hits, events, report>>
      /\ evidence' = [c \in CandidateIds |-> Enriched(c)]
  BY DEF EnrichAll
<1>2. CandidateIds' = CandidateIds /\ \A c : SeedsOf(c)' = SeedsOf(c)
  BY <1>1 DEF gateVars, CandidateIds, SeedsOf, SeedIds
<1>3. ASSUME NEW c \in CandidateIds
      PROVE  Whole(evidence'[c], c)
  BY <1>1, EnrichedWhole DEF EvidenceKept
<1> QED BY <1>1, <1>2, <1>3 DEF EvidenceKept, Whole, gateVars, poolVars

\* The pool is fed when there is evidence, and reads nothing else.
LEMMA PoolKeeps ==
    ASSUME EvidenceKept,
           AnalyseAll \/ PoolStep \/ UNCHANGED <<gateVars, poolVars, runVars>>
    PROVE  EvidenceKept'
<1>1. /\ UNCHANGED <<gateVars, runVars>>
      /\ pool' # "waiting" => evidence # <<>>
  BY DEF EvidenceKept, AnalyseAll, PoolStep, PoolSteps, CancelRun, Take, Send,
         Write, Close, EndWriter, JoinWriter, poolVars, gateVars, runVars
<1>2. CandidateIds' = CandidateIds /\ \A c : SeedsOf(c)' = SeedsOf(c)
  BY <1>1 DEF gateVars, CandidateIds, SeedsOf, SeedIds
<1> QED BY <1>1, <1>2 DEF EvidenceKept, Whole, gateVars, runVars

\* The report tells what the analysis of the evidence said.
LEMMA ReportKeeps ==
    ASSUME EvidenceKept, Report
    PROVE  EvidenceKept'
<1>1. /\ pool = "reporting"
      /\ UNCHANGED <<gateVars, poolVars, hits, events, evidence>>
      /\ report'.details = [c \in CandidateIds |-> Analyze(evidence[c], Now)]
  BY DEF Report, Reported
<1>2. CandidateIds' = CandidateIds /\ \A c : SeedsOf(c)' = SeedsOf(c)
  BY <1>1 DEF gateVars, CandidateIds, SeedsOf, SeedIds
<1> QED BY <1>1, <1>2 DEF EvidenceKept, Whole, gateVars, poolVars

\* The projection of what is told is what the property asks for.
LEMMA ProjectionFollows ==
    ASSUME EvidenceKept, Answered
    PROVE  ProjectionExact
<1> SUFFICES ASSUME report # NoReport, NEW scope \in Scopes,
                    NEW c \in DOMAIN report.details,
                    ScopeSeeds(registry, scope, c) # {}
             PROVE  LET seeds == ScopeSeeds(registry, scope, c)
                        b == FilteredForAnalysis(evidence[c], seeds)
                    IN  Project(Shrink(report.details[c]),
                                RelationSignalsFor(evidence[c], seeds))
                           = Shrink(Analyze(b, Now))
  BY DEF ProjectionExact
<1>1. /\ c \in CandidateIds /\ Whole(evidence[c], c)
      /\ report.details[c] = Analyze(evidence[c], Now)
  BY DEF EvidenceKept
<1>2. SeedsOf(c) \cap ScopeSeeds(registry, scope, c) # {}
  BY DEF ScopeSeeds, SeedsOf, SeedIds, Answered
<1> QED BY <1>1, <1>2, ProjectedIsAnalysed DEF Whole

\* A scope sees a candidate as the analysis of the evidence of the scope's
\* own relations would: for any world of providers, any events and any chains,
\* the projection (project_relation_signals) leaves nothing of another seed
\* behind and loses nothing of the scope's own.
THEOREM ProjectionIsExact ==
    ASSUME NEW world, NEW rows, Sensible(world), Bundled(world)
    PROVE  RunSpec(world, rows) => []ProjectionExact
<1>1. RunInit(world, rows) => GateInv /\ EvidenceKept
  BY GateStarts DEF RunInit, GateInit, PoolInit, Bundled, EvidenceKept,
                    CandidateIds
<1>2. GateInv /\ EvidenceKept /\ [RunNext]_<<gateVars, poolVars, runVars>>
        => GateInv' /\ EvidenceKept'
  <2> SUFFICES ASSUME GateInv, EvidenceKept,
                      [RunNext]_<<gateVars, poolVars, runVars>>
               PROVE  GateInv' /\ EvidenceKept'
    OBVIOUS
  <2>1. GateInv'
    BY RunSteps, GateStepInv DEF GateInv
  <2>2. EvidenceKept'
    BY GateStepKeeps, EnrichKeeps, PoolKeeps, ReportKeeps DEF RunNext, End
  <2> QED BY <2>1, <2>2
<1>3. GateInv /\ EvidenceKept => ProjectionExact
  BY ProjectionFollows DEF GateInv
<1> QED BY <1>1, <1>2, <1>3, PTL DEF RunSpec

=============================================================================
