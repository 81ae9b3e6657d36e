----------------------------- MODULE LegitGate -----------------------------
(***************************************************************************)
(* analysis/crates/core/src/enrich/legit_detect.rs and controllers.rs: the *)
(* gate before enrichment.  It reads each seed once, settles what it can   *)
(* from that, asks who controls the remaining candidates (from the         *)
(* identity cache, in batches, or one by one), probes every relation, and  *)
(* leaves out the candidates whose every relation is official.  The tasks  *)
(* of a phase run together and are drained in any order.                   *)
(***************************************************************************)
EXTENDS CandidateEvidence

CONSTANTS
    EvmContracts,            \* those on an EVM chain
    ContractsPerBatch        \* CONTRACTS_PER_BATCH

ASSUME GateAssumption == ContractsPerBatch \in Nat \ {0}

VARIABLES
    registry,    \* the pairs <<candidate, seed>> with a hit: never changes
    answers,     \* what the providers say: never changes
    gate,        \* "seeds", "prefetch", "identity", "relations", "done"
    caches,      \* SeedCache of every seed read so far
    idRows,      \* the identity cache's rows, in memory and on disk
    prefetched,  \* the probe of every candidate no offline signal settles
    identities,  \* CandidateProbe of every candidate probed so far
    probed,      \* relation_legit: the signals of the probed relations
    bundles,     \* LegitPreflight.evidence
    toEnrich     \* LegitPreflight.candidates_to_enrich

gateVars == <<registry, answers, gate, caches, idRows, prefetched,
              identities, probed, bundles, toEnrich>>

(***************************************************************************)
(* answers.seed[s]: [license, controllers, keyed, slug, owners, whole,     *)
(*   counterparties]: keyed is whether the provider could be asked at all, *)
(*   whole whether every page of the owners was read.                      *)
(* answers.candidate[c]: [metadata, owner, fallback, admins, storage,      *)
(*   rpc, slug]: metadata is <<>> if the request failed, else the set of   *)
(*   its controller fields; storage is whether the EIP-1967 row came.      *)
(* answers.batch: whether a provider batch is usable.                      *)
(* answers.holds[<<c, s>>]: "yes", "no" or "fail", of is_holder_of_contract*)
(***************************************************************************)

CandidateIds == {r[1] : r \in registry}
SeedIds == {r[2] : r \in registry}
SeedsOf(c) == {s \in SeedIds : <<c, s>> \in registry}

-----------------------------------------------------------------------------
(* Seeds                                                                   *)

\* build_seed_cache: an EVM seed's controllers, profile, transfers and
\* holders are asked together; a Solana seed's assets give the rest.
SeedCacheOf(s) ==
    LET a == answers.seed[s]
    IN  [open_license |-> a.license, controllers |-> a.controllers,
         collection_slug |-> a.slug,
         transfer_counterparties |->
            IF s \in EvmContracts THEN a.counterparties ELSE {},
         current_owners |-> a.owners,
         current_owners_complete |-> s \in EvmContracts /\ a.whole,
         controllers_probed |-> a.keyed]

ReadSeed(s) ==
    /\ gate = "seeds"
    /\ s \notin DOMAIN caches
    /\ caches' = [t \in DOMAIN caches \cup {s} |->
                     IF t = s THEN SeedCacheOf(s) ELSE caches[t]]
    /\ gate' = IF DOMAIN caches' = SeedIds THEN "prefetch" ELSE gate
    /\ UNCHANGED <<registry, answers, idRows, prefetched, identities, probed,
                   bundles, toEnrich>>

Signals(flags) == [NoSignals EXCEPT !.flags = flags]

Flag(kind, on) == IF on THEN {kind} ELSE {}

\* offline_relation_signals
OfflineSignals(c, s) ==
    Signals(Flag("seed_open_license", caches[s].open_license)
            \cup Flag("seed_nft_interaction",
                      c \in caches[s].current_owners
                            \cup caches[s].transfer_counterparties))

\* Mutant: one official relation settles the candidate.
AnyOfflineLegit(c) ==
    \E s \in SeedsOf(c) : IsLegitDuplicate(OfflineSignals(c, s))

LocallyFullyLegit(c) ==
    \A s \in SeedsOf(c) : IsLegitDuplicate(OfflineSignals(c, s))

-----------------------------------------------------------------------------
(* Who controls a candidate                                                *)

OnChain(a) == ({IF a.owner # Missing THEN a.owner ELSE a.fallback}
               \cup a.admins) \ {Missing}

MetadataOf(a) == IF a.metadata = <<>> THEN {} ELSE a.metadata[1]

\* fetch_evm_controllers: without the storage row none of the calls counts.
SingleProbe(a) ==
    [controllers |-> MetadataOf(a) \cup
                     (IF a.rpc /\ a.storage THEN OnChain(a) ELSE {}),
     truncated |-> a.metadata = <<>> \/ ~ (a.rpc /\ a.storage)]

\* fetch_controller_chunk: the calls of a batch count one by one.
BatchProbe(a) ==
    [controllers |-> MetadataOf(a) \cup OnChain(a),
     truncated |-> a.metadata = <<>> \/ ~ a.storage]

\* The requested EVM candidates in chunks, by contract id.
ChunkOf(requested, c) ==
    LET order == Sorted(requested, <)
        at == CHOOSE i \in DOMAIN order : order[i] = c
        chunk == (at - 1) \div ContractsPerBatch
    IN  {order[i] : i \in {i \in DOMAIN order :
                              (i - 1) \div ContractsPerBatch = chunk}}

ControllerProbe(requested, c) ==
    IF Cardinality(ChunkOf(requested, c)) = 1 \/ ~ answers.batch
    THEN SingleProbe(answers.candidate[c])
    ELSE BatchProbe(answers.candidate[c])

\* A Solana identity: the collection's authorities and its name.
SolanaProbe(a) == [controllers |-> MetadataOf(a), truncated |-> FALSE]

\* reusable_identity_row
Reusable(c, probe) ==
    IF c \in EvmContracts THEN ~ probe.truncated
    ELSE probe.controllers # {} \/ answers.candidate[c].slug # Missing

\* The phase before the probes: the rows the cache lacks are fetched and
\* those that hold are kept and written.
Prefetch ==
    /\ gate = "prefetch"
    /\ LET open == {c \in CandidateIds : ~ LocallyFullyLegit(c)}
           missing == open \ DOMAIN idRows
           fetched == [c \in missing |->
                IF c \in EvmContracts
                THEN ControllerProbe(missing \cap EvmContracts, c)
                ELSE SolanaProbe(answers.candidate[c])]
           kept == {c \in missing : Reusable(c, fetched[c])}
           all == [c \in open |-> IF c \in missing THEN fetched[c]
                                  ELSE idRows[c]]
       IN  /\ idRows' = [c \in DOMAIN idRows \cup kept |->
                            IF c \in kept THEN fetched[c] ELSE idRows[c]]
           /\ prefetched' = all
           /\ probed' = [c \in open |-> <<>>]
           /\ gate' = IF open = {} THEN "relations" ELSE "identity"
    /\ UNCHANGED <<registry, answers, caches, identities, bundles, toEnrich>>

\* A candidate's name is asked for only if a seed it relates to has one.
SlugWanted(c) ==
    \E s \in SeedsOf(c) : caches[s].collection_slug # Missing

ProbeCandidate(c) ==
    /\ gate = "identity"
    /\ c \in DOMAIN prefetched \ DOMAIN identities
    /\ identities' = [d \in DOMAIN identities \cup {c} |->
            IF d # c THEN identities[d]
            ELSE [controllers |-> prefetched[c].controllers,
                  slug |-> IF SlugWanted(c) THEN answers.candidate[c].slug
                           ELSE Missing]]
    /\ gate' = IF DOMAIN identities' = DOMAIN prefetched THEN "relations"
               ELSE gate
    /\ UNCHANGED <<registry, answers, caches, idRows, prefetched, probed,
                   bundles, toEnrich>>

-----------------------------------------------------------------------------
(* Relations                                                               *)

\* relation_needs_holder_request: the seed's snapshot does not settle it.
HolderRequested(c, s) ==
    /\ s \in EvmContracts /\ c \in EvmContracts
    /\ ~ caches[s].current_owners_complete
    /\ c \notin caches[s].current_owners

\* probe_relation
RelationSignals(c, s) ==
    LET seed == caches[s]
        candidate == identities[c]
    IN  [flags |->
            OfflineSignals(c, s).flags
            \cup Flag("official_controller_continuity",
                      seed.controllers \cap candidate.controllers # {})
            \cup Flag("official_collection_relation",
                      /\ seed.collection_slug # Missing
                      /\ seed.collection_slug = candidate.slug)
            \cup Flag("seed_nft_interaction",
                      /\ HolderRequested(c, s)
                      /\ answers.holds[<<c, s>>] = "yes"),
         keys |-> {}, verification_complete |-> seed.controllers_probed]

ProbeRelation(c, s) ==
    /\ gate = "relations"
    /\ c \in DOMAIN probed
    /\ s \in SeedsOf(c) \ DOMAIN probed[c]
    /\ probed' = [probed EXCEPT ![c] =
            [t \in DOMAIN probed[c] \cup {s} |->
                IF t = s THEN RelationSignals(c, s) ELSE probed[c][t]]]
    /\ UNCHANGED <<registry, answers, gate, caches, idRows, prefetched,
                   identities, bundles, toEnrich>>

RelationsProbed == \A c \in DOMAIN probed : DOMAIN probed[c] = SeedsOf(c)

\* EvidenceBundle::empty with what the gate found out.
GateBundle(relations, controllers) ==
    [ABundle EXCEPT !.relations = relations, !.controllers = controllers,
                    !.legit = FinalizeLegit(NoSignals, relations),
                    !.quality = NothingRequested]

\* all_relations_legit
AllRelationsLegit(c, relations) ==
    /\ DOMAIN relations = SeedsOf(c)
    /\ \A s \in DOMAIN relations : IsLegitDuplicate(relations[s])

FinishGate ==
    /\ gate = "relations" /\ RelationsProbed
    /\ bundles' = [c \in CandidateIds |->
            IF c \in DOMAIN probed
            THEN GateBundle(probed[c], identities[c].controllers)
            ELSE GateBundle([s \in SeedsOf(c) |-> OfflineSignals(c, s)], {})]
    /\ toEnrich' = {c \in DOMAIN probed : ~ AllRelationsLegit(c, probed[c])}
    /\ gate' = "done"
    /\ UNCHANGED <<registry, answers, caches, idRows, prefetched, identities,
                   probed>>

-----------------------------------------------------------------------------
\* rows: what an earlier run left in the identity cache.
GateInit(world, rows) ==
    /\ registry = world.registry
    /\ answers = world.answers
    /\ gate = "seeds"
    /\ caches = <<>>
    /\ idRows = rows
    /\ prefetched = <<>>
    /\ identities = <<>>
    /\ probed = <<>>
    /\ bundles = <<>>
    /\ toEnrich = {}

GateNext ==
    \/ \E s \in SeedIds : ReadSeed(s)
    \/ Prefetch
    \/ \E c \in CandidateIds : ProbeCandidate(c)
    \/ \E c \in CandidateIds, s \in SeedIds : ProbeRelation(c, s)
    \/ FinishGate

-----------------------------------------------------------------------------
(* Properties                                                              *)

\* What holds between a candidate and a seed, whoever was asked and however:
\* controllers are those of the identity cache, or all that the providers
\* would tell of the candidate.
TrueControllers(c) ==
    IF c \in DOMAIN idRows THEN idRows[c].controllers
    ELSE MetadataOf(answers.candidate[c])
         \cup (IF c \in EvmContracts THEN OnChain(answers.candidate[c])
               ELSE {})

TrulyOfficial(c, s) ==
    LET seed == answers.seed[s]
    IN  \/ seed.license
        \/ c \in seed.owners
        \/ s \in EvmContracts /\ c \in seed.counterparties
        \/ seed.controllers \cap TrueControllers(c) # {}
        \/ seed.slug # Missing /\ seed.slug = answers.candidate[c].slug
        \/ /\ {c, s} \subseteq EvmContracts
           /\ ~ seed.whole /\ answers.holds[<<c, s>>] = "yes"

NothingFailed ==
    /\ \A c \in CandidateIds : LET a == answers.candidate[c]
                               IN  a.metadata # <<>> /\ a.rpc /\ a.storage
    /\ \A r \in registry : answers.holds[r] # "fail"

\* The gate leaves a candidate out of the enrichment only if every relation
\* it has is official: a probe that fails, a short cut, a batch or a cached
\* identity never makes one official.  When no probe failed it leaves out
\* every such candidate.  (A holder missing from a snapshot of some pages is
\* asked for; a snapshot that is whole is believed.)
GateSkipsOnlyLegit ==
    gate = "done" =>
        /\ \A c \in CandidateIds \ toEnrich :
              /\ \A s \in SeedsOf(c) : TrulyOfficial(c, s)
              /\ DOMAIN bundles[c].relations = SeedsOf(c)
              /\ bundles[c].legit.verification_complete
        /\ NothingFailed =>
              \A c \in toEnrich : \E s \in SeedsOf(c) : ~ TrulyOfficial(c, s)

=============================================================================
