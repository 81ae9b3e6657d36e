# A TLA+ model of NFT Evidence Analyzer

Modules that model the stateful parts of this repository, TLC configurations
that check them on small instances, and TLAPS proofs of the results that hold
for any instance.  Paths below are relative to the repository root.

## 1. The system and its parts

| Part | Source | State it keeps | Operations | What makes it correct |
|---|---|---|---|---|
| EVM tables and `.env` | `src/fetch/evm/common.py` | staging table `temp_<chain>` with claims, asset table `nft_assets_<chain>`, `scan_progress`, the `DEFI_BLACKLIST` line | insert, claim, delete, release, sweep of a contract, rewrite of `.env` | no row vanishes, claims are exclusive, entries are preserved |
| EVM log scanner | `src/fetch/evm/log_scanner.py` | window of prefetched ranges, `seen`, blacklist, checkpoint | start/resume, requests, pop, stage, checkpoint, stop | the checkpoint never passes what was not staged |
| EVM metadata workers | `src/fetch/evm/metadata_fetcher.py` | per worker: claimed rows, accepted records, new contracts | claim, process, blacklist, insert, delete, release, stop, kill | valid records are kept before rows are deleted; failed rows go back |
| EVM image retry | `src/fetch/evm/retry.py` | asset rows with a missing image | select, fetch, update, mark | no row is checked for ever, none overwritten with less |
| Solana collector | `src/fetch/solana/*.py` | page cursor, since-slot, staging and asset tables | page pass, claim, insert, delete | a resumed pass must not skip accounts that changed meanwhile |
| Parquet export | `src/export/src/main.rs` | none | stream a table to a file | one consistent transaction per chain |
| Dedup matching | `src/dedup/crates/core/src/name`, `uri.rs`, `metadata` | per lane: marks of what was compared, hits; shared work counters | match names, URIs, metadata | equal to a quadratic reference |
| Dedup load | `src/dedup/crates/core/src/parquet.rs`, `entity.rs` | shards of contracts, NFTs, strings and anchors | scan chunks, merge in order, index URIs | the result is that of one pass over the rows, however the input is cut |
| Sampling of metadata pairs | `src/dedup/crates/core/src/metadata/direct.rs` | targets, visited pairs and committed answers per bucket; channels between the probing threads | probe, submit, commit, move a target, end | the sample depends on the seed only, not on who answers first; a search that cannot succeed ends |
| Enrichment HTTP client | `core/src/enrich/http.rs` | token bucket, cool-down and permits per provider lane, success cache | acquire, note 429, retry, store | never above the rate, always some progress, bounded retries |
| Enrichment orchestrator | `core/src/enrich/orchestrator.rs`, caches in `alchemy.rs`, `value_flow.rs`, `helius.rs` | bundles under construction with a status per evidence family; the listing of a Solana collection, page by page; caches of quotes, receipts, transfers and Solana transactions that all candidates of a run share | deep fetch, price, holder and relation refresh; look up, lead, join and evict a request | each candidate exactly one bundle, complete only if nothing is lacking; a request that succeeded is never repeated, a failed one never served again |
| Evidence checkpoint | `core/src/reporting/evidence_cache.rs`, `run_inner` in `cli/src/pipeline.rs` | meta file, one shard per candidate, sink buffer | load, plan, create, push, flush, finish, clear | what is analysed fits the run's parameters; nothing collected is lost |
| Seed NFT and dedup caches | `core/src/seed_nft.rs`, `core/src/reporting/dedup_cache.rs` | cache files keyed by inputs | stream, replace, load | a torn file is never read as complete |
| Sample images | `src/dedup/crates/cli/src/sample_images.rs` | state of every image URI, job queue, retry heap, image cache; transaction directories | submit, fetch, retry, poll, close; stage, commit, roll back, recover | one job per image, every pair answered, all outputs of one run or all of another |
| Legitimacy gate | `core/src/enrich/legit_detect.rs`, `controllers.rs` | what is known of each seed, identity rows that later runs reuse, signals per relation | read seeds, prefetch, probe candidates and relations, attach | a candidate is spared the requests only if every relation of it is official |
| Analysis of a candidate | `core/src/enrich/value_flow.rs`, `mint_payment.rs`, `roles.rs`, `core/src/analysis` | none between calls; Tarjan's stack and lowlinks within one | price, attach receipts and payments, attribute roles, detect behaviors, add up, project on a scope | the detectors find what their definitions say; no amount counts twice; one analysis serves every scope |
| Analysis stage, reports | `run_inner` in `cli/src/pipeline.rs`, `core/src/reporting/run.rs` | candidates taken, results, the writer's channel, the files | take, analyse, send, write, join, roll up | nothing is reported that is not on the disk; what candidates share counts once |

(`core` and `cli` stand for `src/analysis/crates/core` and
`src/analysis/crates/cli`.)

How they interact.  The scanner and the metadata workers are separate programs
that meet only in PostgreSQL tables and in the `.env` file; every SQL commit is
atomic and everything between two commits can interleave with the other
processes.  The exporter reads the asset table; analysis reads the Parquet
files, collects evidence over HTTP and meets its own earlier runs in the cache
files.  `dedup` reads the same Parquet files.  Its command `sample-metadata`
drives a collector, which takes matches from a pool of probing threads over a
channel and hands pairs to a download session through the trait
`MetadataSampleDownloadSink`; the session's worker threads fetch images, and
when enough pairs are complete the outputs replace the published ones.

What is hard.  Several worker processes per program, claims that expire while
their owner still works, a text file rewritten without a lock, a scanner whose
requests finish out of order and whose progress takes two commits, kills at
every point, and caches that a later run with other seeds, limits, days or
another program version must judge from one meta file; candidates enriched at
once, each leading some requests and waiting for others; a listing whose pages
shrink while they are counted on.  In `dedup`: an index
and bounds that skip almost all comparisons and may lose none that counts;
marks of 16 bits that wrap; answers that arrive in any order but must not
decide what is sampled; a pool thread that waits for tasks of its own pool;
retries, shared images, a bounded queue and an interrupt in one session; and a
commit of several renames with a recovery that may itself be interrupted.  In
the analysis: a gate whose signals come from probes that fail one by one; graph
algorithms unrolled into explicit stacks; transactions that carry several
events, of one candidate or of many; and a pool that feeds a writer while the
user may cancel or the disk fail.
`PROJECT.json` lists these hazards at the lines where they bite.

## 2. Modules

| Module | Models |
|---|---|
| `CollectorTables` | The shared tables; one operator per committed transaction of `common.py`. `temp` maps an NFT to its staging row (id, claimant, whether the claim is older than `CLAIM_RETRY_AFTER_SECONDS`). |
| `MetadataFetcher` | `_worker_main` as a program counter per worker: claim, `_process_batch`, the three file operations of `append_blacklist_env`, `load_blacklist`, the two transactions of `_cleanup_blacklisted_pending`, `batch_insert_main`, `delete_temp_nfts`; plus the except and finally branches, stop signals, kills, a rerun, and time passing over a claim. |
| `EvmCollector` | `main` of the scanner: the window of asyncio tasks, `popleft` and enqueue, the await, the two commits of `_persist_batch`, exit, stop and crash; and scanner and workers over the same tables: a step of the system is a step of one. |
| `SolanaScanner` | `main` of `tx_scanner.py`: resume decision, slot, prefetched page, the two commits per page, stop, crash; the chain (external) changes under it. |
| `SolanaCollector` | That scanner and the workers of the Solana `metadata_fetcher.py`: claim, fetch, upsert and delete on their own connections, the except branch, stop, kill, rerun, expiring claims. |
| `EvidenceCache` | The evidence stage of `run_inner` with `EvidenceCacheSink`, run after run; only `meta` and `shard` survive a run; loads, refreshes, fetches, flushes and the final stamp may fail. |
| `RequestLane` | One provider lane of the HTTP client: `TokenBucketRateLimiter`, the `in_flight` semaphore and `request_on_lane` with `handle_request_error` as a program counter per call. Lanes share nothing. |
| `RequestCache` | What the candidates of one run share: the `OnceCell` caches of quotes and transfers (`fetch_subset`, `ExternalTransferCache::fetch`), `ReceiptRequestCache::fetch` and `TransactionRequestCache::fetch_many`, with every cell a key ever had. |
| `EvmEnrichment` | `enrich_evm` of a candidate over these caches: the two joins, the flows of the controllers and of all operators, the last receipts, and the status of each evidence family. |
| `SolanaEnrichment` | `enrich_solana` with `helius.rs`: the pages of a listing, the resolution of a collection from the NFTs the database has, its unverified members, NFTs asked for one by one, the exclusion of what is no NFT, histories of signatures, their transactions over the shared cache; and the stream of `enrich_candidates_with_hook`, in which candidates of both kinds run at once. |
| `DownloadSink` | What the sampler is promised by a download sink: a submitted pair is answered once, at any time; each answer is reported once. |
| `SampleCollector` | `FastSampleCollector` and `sample_direct_releasing` over such a sink: tasks of a round, visiting and submitting pairs, in-order commits per bucket, the stages that end a round, `redistribute_exhausted_bucket`, stagnation. |
| `ImageSession` | `MetadataImageDownloadSession` and its workers: `submit`, `poll`, URI states with their consumers, ready-URI cache, job queue, retries, image cache, interrupt, shutdown. |
| `SampleCommand` | `stage_sample_bundle`, `commit_sample_bundle`, its roll-back, `recover_sample_transactions`, run after run; and session and bundle as the command runs them, with crashes and reruns; `ImageSession` is shown to be a `DownloadSink`. |
| `ProbeRound` | The threads of one sampling round: producer, Rayon pool, forwarder, consumer and the three bounded channels between them. |
| `EntityStore` | `load_entities_with_options`: chunks of row groups scanned into shards, the ordered tree merge, joining of rows, anchors and their deferred sort, chain filter, URI postings, interrupts. |
| `NameMatching` | `run_name`: members, atoms, token index, the bounds on length and overlap, rare prefixes, `CandidateSeen`, lanes that claim chunks, interrupt, join. |
| `MetadataMatching` | `run_prepared_direct`: members and profiles, BM25 cosine, term ranks and prefixes, postings, lanes that claim interleaved profiles and share the table of hits, interrupts, counts. |
| `DedupRun` | `run_uri`: tasks over chunks of postings, groups across their borders, scopes, token hits, image hits that are not token hits, counts; and `run` of dedup's command line: the load, then names, URIs and metadata, whichever were asked for; an error or interrupt ends it. |
| `Similarity` | The measures both programs compare with, Jaro-Winkler and the BM25 cosine, and the bounds on length, overlap and shared terms by which pairs are discarded. |
| `SeedStore` | What an analysis works on: pass 1 over identities, names and URIs, the rows of the providers that replace those of the seeds, pass 2 over the metadata the seeds may be compared with; chunks, shards and the ordered merge of both. |
| `SeedQueries` | `run-dedup` from that store to the reports: seeds claimed by threads that reuse their buffers, queries by URI, by name and by metadata, edges, the relations and duplicate scales of each seed, cancellation and failure. |
| `CandidateEvidence` | What a candidate is analysed from and who is who in it: the evidence bundle; `enrich_evm` from answered requests to evidence (prices, receipts, the seeds of operators, value flows and their classification, payments of mints); the graph of addresses with Tarjan's components on its explicit frames; victims, roles, attribution, lifecycle and value flow facts. |
| `CandidateAnalysis` | `analyze_candidate`: the seven detectors of `behavior.rs`, `economics.rs`, completeness, the projection on the relations of a scope and the shrinking before results are kept. |
| `LegitGate` | `prefilter_candidates`: seeds read once, signals without a request, identities from the cache, in batches or one by one, relations probed, each phase drained in any order; the candidates that are left out. |
| `RunReport` | `reporting/run.rs`: the rollup of a seed, the summary of a scope, and what both count once. |
| `CandidateRun` | `run_inner` from the registry of hits to the summaries: gate and enrichment; the threads of the analysis stage (pool workers, the bounded channel, the writer, cancellation, the join); the report. |
| `MCEvmCollector`, `MCSolanaCollector`, `MCEvidenceLane`, `MCEnrichment`, `MCSampleCommand`, `MCSampling`, `MCDedupRun`, `MCAnalysis` | Constants for TLC. `MCEvmCollector` serves the run of the whole collector and those of the workers alone (`WorkersSpec`). `MCEvidenceLane` puts `EvidenceCache` and `RequestLane` side by side. `MCAnalysis` puts `SeedQueries` and `CandidateRun` side by side, in five families of instances. `MCSampling` puts the two halves of a sampling round, `SampleCollector` and `ProbeRound`, side by side, each on an instance of its own. |
| `CollectorProofs` (about `MetadataFetcher` and `EvmCollector`), `SolanaProofs` (about `SolanaCollector`), `RequestLaneProofs`, `EnrichmentProofs` (about `RequestCache`, `EvmEnrichment` and `SolanaEnrichment`), `EvidenceCacheProofs`, `SamplingProofs` (about `SampleCollector` and `ProbeRound`), `SampleCommandProofs`, `AnalysisProofs` (about `CandidateRun`) | Theorems about the modules they are named after. |

Abstractions.  An NFT is a key with a contract and what its metadata turns out
to be (`KindOf`: usable, no token URI, inline image); names, images and URIs
are not represented.  `claimed_at` is reduced to the comparison the code makes.
A row is identified by its id *and* its NFT (a "ticket"), which tells a row
from a later row of the same key.  Rows that `FOR UPDATE SKIP LOCKED` skips are
chosen freely among those another live worker could be holding.  The `.env`
line is a set of contracts; `append_blacklist_env` is three steps because the
file is read, truncated by `open(..., "w")` and written.  A scanner request is
an interval and the topics whose call succeeded.  A bundle is reduced to the
bounds and day it was collected under, its relations (absent, filled with
defaults, really requested) and its failed families.  Atomic replacement of a
file is a backup rename and an install rename, with a kill possible between.

The clock of `RequestLane` is relative: every stored instant is the number of
ticks until it or since it, so no counter grows and the state space is finite;
a fraction of a token is counted in ticks of refilling.  A response is reduced
to how `request_on_lane` treats it.

In `EvmEnrichment` a request that no other candidate makes is its outcome; the
queries of the payers of mints, holders and royalty recipients are left out,
and only what they do to a status remains.  `Empty` and `Complete` are one
status: there is no more to get.  `get_or_init` runs the request of whoever
looked the key up first; the code leaves open which of the waiting callers that
is.  A waiting call leads again if the leading one is dropped, which no task
here is.  A run without an Alchemy key requests nothing of this.

In `SolanaEnrichment` an NFT is a model value, a transaction is a receipt of the
cache, and what a transaction shows of a row is whether it is among `Bare` (no
parties, owner change or time) or `Feeless`.  Addresses have the right form, all
keys are given and no snapshot was prefetched.  Holders have the status of the
listing they are taken from.  A listing that ends early, a page that was sent
before, an NFT the provider does not know and a history that is cut count as
incomplete answers; a page shorter than it was asked for is one the collection
ends on.  The batches of signatures and transactions and their fallbacks, one
request each, are reduced to the answers they bring.

A sample pair is its candidate id: a pair is visited once, so the two coincide.
What probing finds is a set of tasks given by a constant; a round offers any of
its subsets in any order, so no property depends on the order of the matches.
A cached image that cannot be copied fails its pair alone; other errors of the
local disk inside a session end the command and are reduced to `GiveUp`; the HTTP exchange of a job is reduced to its outcome (fetched, to be
retried, failed for good).  A poll that waits and returns nothing changes
nothing and is a stuttering step.  A file operation of the bundle is
atomic (a rename, the removal of one path, the write of the state file); the
removal of a transaction directory is its members in order.

`NameMatching` computes similarities as fractions where the code uses `f64`,
so a score that is rounded across a threshold is outside the model.
Jaro-Winkler itself is `rapidfuzz`, defined here as that library documents it
and marked external.  The mark of `CandidateSeen` counts to `Generations`
instead of 2^16, to let it wrap in a small instance.

In `EntityStore` a row is a record of model values; an empty column is `Absent`,
while a name that says null (`Unusable`) is a name that later rows do not
replace and that `NameMatching` ignores, as in the code.  Token ids of one
contract are assumed to differ as numbers (`StoreAssumption`): ids such as `7`
and `007`, which are different NFTs of equal magnitude, tie in the order of the
anchors, and which of them a bounded list keeps depends on the chunks.  The
phase in which schemas are validated is left out.  `DedupRun` follows the
branch for up to 64 chains; the other branch computes the same sets with hash
tables.  The partial reports written between the phases are left out.

In `MetadataMatching` a document is a number with a set of terms
(`DocumentTerms`), each of which occurs in it once; then the lengths cancel out
of the BM25 cosine, and it depends on the shared terms and on the ratio of the
two inverse frequencies alone, whose square (0.069) is rounded to 7 : 100 so
that both sides of a comparison with the threshold are whole numbers.  As with
names, scores that round across a threshold are outside the model.  A lane
scores all candidates of a profile in one step: the code adds bits to the
shared words one match at a time, by `fetch_or`, and bits are never taken away,
so only the word it read before can be stale (`probing.known`).  A threshold of
zero, for which the code compares every two profiles without an index, and the
sampling of pairs for the report are left out.

`SeedQueries` compares with the same `Similarity`; metadata anchors are not
bounded there (`metadata_anchors = None`), the default.  An edge is a contract
and, for URIs, the NFT; the URIs, names and documents of a row are numbers and
short sequences of numbers.

In the analysis an address is an integer in the order of the normalised text,
`Missing` stands for `None`, and amounts, rates, fees, blocks and times are
small integers; a ratio is a pair of numerator and denominator, and the top
tenth of the contracts is an integer ceiling.  Figures are kept in dollars, and
in native units where a dollar figure or a count of what is unpriced depends on
them.  In `CandidateRun` every request of the deep fetch is answered and no
checkpoint exists: which requests are made, shared and fail is the subject of
`EvmEnrichment` and `SolanaEnrichment`, what survives a run that of
`EvidenceCache`.  The rows of a candidate on Solana are given.  The wording
of explanations and keys of evidence is left out.

History variables (`staged`, `listed`, `unanswered`, `everAged`, `killed`,
`missed`, `atLoad`, `late`, `unswept`, `torn`, `metaLost`, `passedOver`; `seenAt`, `overlooked`, `passBegan`, `savedBegan`, `gaps`,
`waived`, `shared` of the Solana modules; `allowance`, `hush` of the lane;
`raised` of the sampler, `outcome` of the session, `expected` of the bundle, the
tried pairs of `ProbeRound`) are never read by a guard; they let a property name
what may excuse a loss.

Definitions whose comment begins with "Mutant:" are deliberately wrong
variants of the definition that follows them.  No specification uses them; they
serve to confirm that a property fails when the code is changed that way.

## 3. What TLC checks

The runs check what could be wrong and leave types to the proofs: the type
invariants of the fetcher, the scanner and the lane are theorems (`TypeCorrect`,
`ScannerTypes`, `LaneTypeCorrect`), as are the permits of the lane
(`PermitsAreConserved`), whose loss `CallsEnd` would show; the other proofs of
section 5 carry the types they need, and those of the modules without theorems
(`DedupTypeOK`) only state the shape of the state.  `PoolTargetsConserved` is a
theorem of `SamplingProofs`, and `MetadataExact` is a part of `DuplicatesExact`.

| Run | Instance | Shows |
|---|---|---|
| `fetcher_safety` | 2 workers (symmetry), an ordinary and an inline NFT of one contract, another contract listed from the start, batch 2, one fault (a raising batch, an abort or a kill), stop and rerun, 2 inserts of the scanner | `NothingVanishes`, `NoLeakedClaim`, `YoungClaimsAreExclusive`, `EnvKeepsListed`, `OnlyRacesEscapeBlacklist` |
| `collector` | scanner with window 2 over 4 blocks, 1 worker, a contract with an ordinary and an inline NFT, one failed log request, one scanner crash or stop, one raising and one silent batch, stop, kill and rerun of the worker; with fairness | `CheckpointCoversScan`, `EveryTransferAccounted`, `CollectionFinishes` |
| `solana_safety` | scanner with 2 pages of one mint each, 2 workers, a chain that changes once, `GPA_SINCE_SLOT` 0 or 1, one error, stop or kill anywhere | `ChangesSeen`, `AssetCoversSeen` |
| `evidence_lane` | Checkpoint: 2 candidates, 2 seed lists, 2 limits, 2 days, 2 program versions, one kill at any point, two errors of loads, refreshes, fetches, flushes and finishes, one failed family. Lane: 3 calls of up to 3 attempts, 2 permits, a bucket of 2 tokens refilled every 2 ticks, cool-downs of 3 to 6 ticks with and without a `Retry-After` | `AnalyzedWithinBounds`, `AnalyzedPricesCurrent`, `CheckpointComplete`; `GrantsWithinRate`, `CoolDownHonoured`, `CallsEnd` |
| `deep_fetch` | any 2 incomplete answers; 2 EVM candidates that share a quote, a query and two receipts, 4 single keys; or 2 Solana candidates, a collection of 5 rows, 2 of them no NFTs, on pages of at most 3, and a single NFT without collection sold in the same transaction; or by itself an NFT without collection whose evidence can be complete, a token that is no NFT, alone or beside an NFT that claims another collection, or a collection that reaches the limit of 4 | `RequestedOnce`, `FailuresForgotten`, `CompleteMeansWhole`, `SolanaCompleteMeansWhole`, `EnrichmentEnds` |
| `sampling` | the search: 6 pairs in 3 buckets, two of which share a pool, target 2, 2 downloads in flight; the threads: 4 left profiles with up to 2 partners, batches of 2, a pool of 3 threads | `WaitsOnlyForDownloads`, `NoEarlierSuccessPassedOver`, `RoundsEnd`; `EveryMatchTried`, `ThreadsJoin` |
| `sample_command` | 2 pairs that share an image, 2 image workers, queue and ready cache of 1, 2 attempts, 2 runs, one crash, one file error | `OneJobPerUri`, `PublishedWhole`, `SessionIsSink`, `EveryPairAnswered`, `ClosingEnds` |
| `dedup_run` | 6 NFTs of 4 contracts on 3 chains; names: 6 and an unusable one, thresholds 0, 80 and 90, 2 lanes (symmetry), chunks of 2, 2 marks; URIs: two in each dimension, 3 tasks; load: three rows over one to three files and one to three row groups, 2 chunks per file, with and without a chain filter, one anchor or all; metadata: 7 documents of up to 4 terms, thresholds 20, 40 and 80 | `LoadedExactly`, `DuplicatesExact` |
| `analysis` | Queries: 2 seeds (one on Solana) and 3 further contracts on 3 chains, 9 NFTs, 2 lanes (symmetry), 2 marks; four families of inputs: 2 token and 2 image URIs over 6 NFTs; 6 names and an unusable one at thresholds 0, 80, 90 and above 100; 6 documents of up to 4 terms at 0, 40, 80 and above 100; 3 rows in two layouts of files and row groups, with and without a chain filter, rows of the providers complete, double, none or offline. Gate: 2 candidates on ethereum and one on solana, 2 seeds, three registries of relations; a license, owners, a slug, controllers and each probe there or not, failed or not; with and without an identity row of an earlier run. Events: a candidate with an operator, a partner and 3 buyers, all sets of ten pieces of history (sales in a circle, an exit, a star and what it hands on, a resale, two mints in one transaction, funding and withdrawal), holder lists complete or truncated, a rate known or not. Report: 3 candidates, 3 registries, seeds with or without an open license, transactions shared by candidates or not, both orders of the kinds. Pool: 3 candidates, 2 threads, a channel of one, a failing write, a cancellation | `SeedHitsExact`; `GateSkipsOnlyLegit`; `BehaviorsExact`, `EconomicsAddUp`; `ProjectionExact`, `SummaryCountsOnce`; `WrittenBeforeReported` |
| `blacklist_race` | 2 workers, the NFTs of `fetcher_safety`, no fault, no stop | `MainHonoursBlacklist` is violated, see section 4 |
| `sample_never_ends` | one pair in each of the 3 buckets, target 2 | `SearchEnds` is violated, see section 4 |
| `sample_recovery_twice` | 1 pair, 3 runs, one crash in a commit and one in the recovery | `PublishedWhole` is violated, see section 4 |

Why the bounds suffice. Two workers are the smallest number that races; two NFTs
of one contract show a sweep hitting another worker's row; that it spares other
contracts is left to the theorems, which take any contracts. Two inserts let a
row be deleted and staged again, the case in which an id and a key differ. A
window of two over two ranges gives every order of completion; a key that moves
in both ranges exercises `seen`; a range of two blocks makes an off-by-one at
its edges visible. One fault of each kind at every point covers each window
between two commits; more faults repeat it. Two candidates are the fewest for
which a flush, a kill or a seed list treats one shard and not the other. The
batch of two in `evidence_lane` equals the number of candidates, so all
refreshed bundles reach one flush, and a flush can break off between them; one
of the two seed lists relates only one of the candidates, so a run can pass the
other over; two errors let one run fail and the next one, too. In
`fetcher_safety` the ordinary NFT is what a worker may insert while the other
lists its contract for the inline one; a contract listed from the start is the
entry an append may lose. A silent provider is left to `collector`, where
`unanswered` is the excuse the properties name. Several faults are left to the
theorems about the same properties, which take any number. In the lane three
calls are one more than the permits, so a call waits for a permit with its token
already taken; the hint of 6 ticks outlasts every adaptive delay, which gives
pauses noted in both orders of length; two calls share a cache identity, one
does not use the cache. In the deep fetch the candidates share a transaction in
which one is minted and the other sold, so each may lead a receipt the other
joins, and the flows return a receipt that the activity of one already has; two
incomplete answers let a call fail, be repeated by the other candidate, and fail
again. The Solana collection has its last NFT on a page that is asked for with a
smaller limit than the one before, so whoever took that page for the last would
miss it; a limit of 4 is reached by one collection and not by the other; a
history of three signatures is at the limit, so it may go on; one transaction is
bare, so a row whose transaction came is not yet complete. In the sampler a
bucket has more pairs than its target, so a success can come too late, and fewer
than it can be given, so targets move in both directions; two slots for six
pairs make the collector defer and wait. Two pairs that share an image give one
URI several consumers and a retry that finds its URI already wanted; a queue of
one makes the session keep unsent jobs. A file error and a crash at every
operation reach each half-done commit and roll-back; a crash inside a recovery
is left to `sample_recovery_twice`. Three pool threads leave one free while one
forwards and one probes; four profiles make two batches. In `dedup_run` three
row groups make two chunks of a file, so a row can be first or second in its
chunk, its file or the input; three tasks over up to five postings put a border
inside a group. The names of `dedup_run` are equal, equal in length, in tokens,
in beginning, or in none; the thresholds make the overlap bound void, weak and
strict; more names than `2 * Chunk` let the lanes claim in every order, and more
names per lane than `Generations` let the mark wrap. Of the documents two have
no terms, two have the same ones, and each of the others extends the one before;
the thresholds let a prefix be a whole document, all but one of its terms, or
one. The second contract's NFT has the token id of the first contract's lesser
NFT, so the documents compared are not always the last ones; a third chain puts
several chains into one word of hits. In the queries of `analysis` two lanes for
two seeds let one lane take both, with the buffers of the first still filled, or
each take one; two marks wrap within one query of a seed with several names; a
contract on the seed's own chain and one on another take both branches of a URI
query, and one contract has no token id in common with the seed. A gate with two
EVM candidates fills a batch, which may fail as a whole, and of the two seeds
one may be official while the other is not; an owner list that is not whole
calls for the request that may fail. The ten pieces of history make every
behavior present or absent, by itself and with each other one: three targets are
what a star needs, the partner closes the smallest cycle, three hops give a
layered path two ways to go at one address, and two mints in one transaction
have one payment to share. Three candidates are the fewest of which two share a
transaction and a third, on another chain, has one of the same number; the three
registries let a scope see all, some or one of a candidate's relations. In the
pool three candidates for two threads and a channel of one make a worker wait
for room.

Deadlock is checked except where the program comes to an end: the sampler, the
command, a probing round, a deduplication, a seed analysis and a deep fetch stop
when they are done.

Fairness.  `FetchFairness`: the event loop and the database serve every live
worker's next step, and time passes (`Aging`).  No fault, signal, rerun or
insert is ever obliged.  `ScanFairness` adds that a request ends (they have a
timeout) and that the operator starts the scanner again until it says that the
scan is complete, which is what the README of the collector describes.  The
fairness of `SolanaCollector` is the same for its two programs.  `LaneFairness`:
tasks are polled, the clock advances, and every request ends, by its timeout
(`DEFAULT_TIMEOUT`) at the latest.  `FairSpec` of `SolanaEnrichment`: as long as
a task of the stream (`buffer_unordered`) can go on, one that can is polled, and
every request ends, which `CallsEnd` shows of a lane.  No fairness among the
tasks is needed: each takes finitely many steps.  A task for which the stream
has no slot yet leads nothing that others wait for, so the number of slots is
left out.  `SampleFairSpec`: the collector's thread runs, and the sink answers
every submitted pair, which is what `EveryPairAnswered` shows of the session.
`CommandFairSpec`: worker threads and the main thread run, downloads end (HTTP
timeouts), the sampler polls while pairs are pending (`RoundsEnd` depends on
nothing else), and a retry whose time has come is taken up by one of the polls:
strong fairness, because `RetryDue` is disabled while a poll handles a result.
`ProbeFairSpec`: each thread that can go on does.

## 4. Where code and documentation disagree

In three runs TLC shows a promise of the documentation broken by the code.

* `blacklist_race`.  The README of the collector (32-33): "Inline `data:image`
  media cause EVM contracts to be blacklisted and removed from both tables".  A
  worker loads the blacklist; another appends the contract and sweeps both
  tables; then the first inserts an NFT of the contract
  (`metadata_fetcher.py:345`), and nothing sweeps the contract again.
  `OnlyRacesEscapeBlacklist` says what else can leave such an NFT in the asset
  table: the truncated `.env` line read while it is rewritten, two appends that
  overlap, and a worker that ends between its append and its sweep.  Nothing else
  does, for any number of workers (section 5).
* `sample_never_ends`.  The README of dedup (31-32): "Insufficient complete
  pairs return an error and preserve existing outputs."  Two buckets of a pool
  that cannot fill their targets hand the deficit to each other: each transfer
  (`direct.rs:3032`) resets the count of stagnant rounds, so the search neither
  ends nor fails.  `RoundsEnd` shows that each single round does end.
* `sample_recovery_twice`.  The same sentence, and the test
  `next_session_recovers_a_crashed_partial_sample_commit`.  Recovery renames
  the backup of an item into place; interrupted after that, the next recovery
  finds neither a backup nor a staged copy of that item and removes what is
  published (`sample_images.rs:1121`): the output it had restored.
  `PublishedWhole` shows that with an uninterrupted recovery the outputs are
  always those of one run.

The modules show further cases, which the checked properties exclude by name or
by the instance.  Each can be reproduced by the change in parentheses.

* An `.env` entry is lost when two workers append at once, or when a worker ends
  between truncating the file and writing it (`torn`).  (`EnvKeepsListed` without
  the hypothesis.)
* Transfers passed over after a failed `eth_getLogs` (`missed`), and NFTs whose
  metadata request failed for good, which are deleted like those without a token
  URI (`unanswered`).
* A Solana pass that was stopped and resumed saves the slot read at the
  resumption; accounts on earlier pages that changed in between are never
  returned again.  (`NoChangeMissed` in `SolanaSafety.cfg`; `ChangesSeen` shows
  that nothing else is missed.)  A mint staged again while a worker still holds
  its row keeps the older metadata (`overlooked`).
* An SQL error leaves the Solana worker's connection in an aborted transaction
  that nothing rolls back; its batches are released "for retry" and fail for
  ever.  (`EveryRowLeaves` of `SolanaCollector` under its `FairSpec`.  That
  PostgreSQL and psycopg2 behave so is an assumption about code outside this
  repository.)
* The README of the analysis (58-59) says "Prices are fetched again on each run",
  and `evidence_cache.rs:11-12` "A stale pricing day triggers a price-only
  refresh."  One pricing day stands for all shards; `finish` stamps it although
  only the candidates of the run's own registry were refreshed, and the next run
  of that day takes the prices of the others for current.  The same happens to a
  shard the run would have fetched when its fetch fails before the candidate's
  turn, and to one that a failing flush inside `on_bundle` drops.
  (`PricesAreOfTheDay` in `EvidenceLane.cfg`, with no fault allowed, too;
  `AnalyzedPricesCurrent` names these shards (`passedOver`) and shows that there
  are no others.)
* When `finish` fails, "final cache flush failed" is printed and the run goes on
  to its reports; what it collected since the last flush, or the stamp, is
  missing on the disk.  (`CheckpointComplete` with `unsaved` for `analyze`.)
* Default relation signals are made durable by an early flush before the
  relation refresh, which may then fail; the next run finds the relation
  present.  (`RelationsRequested` with `BatchSize = 1`.)
* Shards left without their meta file by a kill inside
  `clear_evidence_artifacts` or between the two renames of the meta file, or by a
  rename that fails together with its roll-back, which the next run adopts under its own limits (`metaLost`); a shard that a kill
  leaves only under its backup name; and a cache of an older program version,
  which the loader ignores and `EvidenceCacheSink::create` refuses
  (`CreateRefused`).
* A pool of one thread deadlocks in a probing round: the only thread forwards
  matches and waits for tasks that no thread is left to run. (`PoolThreads =
  {t1}` in `Sampling.cfg`; `--threads 1` is accepted by `main.rs`.)
* A complete pair that was downloaded ahead for a bucket which is full when its
  turn comes is dropped and counts as seen, so a target that moves to this
  bucket later cannot use it.  In a pool of three or more buckets a bucket can
  give targets away and get some back, so `NoEarlierSuccessPassedOver` speaks of
  the buckets whose target was never raised (`raised`): the proof attempt for
  all buckets failed at this step.
* Pass 2 keeps, by its comment (`pass2.rs:46-53`), the "exact subset needed by
  the seed-scoped metadata alignment algorithm".  The tokens of a seed are those
  of all its NFTs, also of those without metadata; when a candidate's greatest
  shared token is such a one, the lesser token both have metadata for is pruned,
  and the comparison is made with other documents than without the pruning.
  (`SeedHitsExact` without the hypothesis `~Undocumented(s)`.)
* A relation found in two dimensions counts all its NFTs under each
  (`build_scope_duplicate_scale_for_chains`, `rebuild_seed_duplicate_scale`),
  while an edge by URI is one of "that NFT only" (`hits.rs:27`).
* The identity cache of the gate never expires: a row of an earlier run answers
  for the controllers of a contract that has changed hands since
  (`legit_detect.rs:83`).  `GateSkipsOnlyLegit` judges by the row.
* The signals the gate knows without a request compare addresses of different
  chains (`offline_relation_signals`), so equal EVM addresses on two chains
  count as an interaction.
* Two sales of a token to one buyer in one transaction at different prices are
  two losses of the candidate; the summary of a run keeps the first
  (`or_insert`, `run.rs:1203`).
* A royalty that is known in dollars only is revenue of an operator in the value
  flow facts (`lifecycle.rs:279`) and nothing in the economics
  (`economics.rs:355`).
* The tenth of the contracts whose gas is reported as concentrated is the
  ceiling of a product of binary fractions: of 70 contracts it is 8
  (`run.rs:1333`); the model has the integer ceiling.

## 5. What is proved

`CollectorProofs`, of the workers, for any sets of NFTs, contracts and workers,
any batch size and any number of faults, from the named assumptions on the
constants:

* `TypeCorrect`: `Spec => []TypeOK`.
* `NothingIsLost`: `Spec => []NothingVanishes`.
* `ClaimsAreHeld`: `Spec => []NoLeakedClaim`.

`TypeOK` is inductive by itself.  `NothingVanishes` is not: when a worker
deletes the rows of its batch, each must already be kept or excused, which the
tables alone do not show.  `VanishInv` adds what every worker knows at each of
its steps: after processing, a row of its batch is accepted, or has no token
URI, was not answered or belongs to a contract being blacklisted
(`BatchAccounted`); once the append is written those contracts are in `listed`
(`FreshListed`); whatever a worker takes for the blacklist is in `listed`
(`BlacklistListed`); and after its insert every accepted, allowed row is in
`main`.  The only actions that remove rows are `DropOwn`, `Sweep` and
`DeleteProcessed`; the only one that removes assets is `Sweep`, whose contracts
are listed.  The proof has one step per action.

`NoLeakedClaim` needs to know that the final delete, which spares the
blacklisted tickets of the batch, spares none with a row: `LeakInv` adds that
from the sweep on such a ticket has no row any more (`CleanedUp`), and that it
never gets one back, because every row and every ticket is older than the next
id (`IdsOld`), so that a key staged again is another row.

* `YoungRowsAreSafe`: `Spec => YoungClaimsAreExclusive`, an action property: a
  row whose claim never outlived the limit leaves the staging table only by the
  worker that claimed it, or by a sweep of its contract.  `YoungInv` adds to
  `LeakInv` that a row marked old is remembered as such (`AgedRemembered`) and
  that a ticket of a batch, if its row is there and was never old, is a ticket
  of its claimant (`YoungOwned`).
* `EnvIsKept`: `Spec => []EnvKeepsListed`, and `BlacklistIsHonoured`:
  `Spec => []OnlyRacesEscapeBlacklist`, for any number of workers, aborts, kills
  and reruns.  `HonourInv` says of the line: of two workers that rewrite it none
  disturbs the other unless the append is torn, whoever rewrites it has read all
  that was listed, and while nobody is between truncation and write the line
  holds exactly that (`EnvIntact`).  So a load finds what it can learn
  (`atLoad`), and what a worker is about to insert is of no contract it could
  learn of (`InsertsHonour`).  A contract that gets listed while its NFTs are in
  main was found by the batch that lists it, and has its sweep still to come
  (`FreshOfBatches`).

And for the scanner and any number of workers over the same
tables, for any chain, batch size and window, from the assumptions of their
modules:

* `ScannerTypes`: `CollectorSpec => []ScannerTypeOK`.
* `ScanIsCovered`: `CollectorSpec => []CheckpointCoversScan`.
* `NothingIsLostDeployed`: `CollectorSpec => []NothingVanishes`.
* `TransfersAreAccounted`: `CollectorSpec => []EveryTransferAccounted`, which
  follows from the two before it.
* `BlacklistIsHonouredDeployed`: the same as `BlacklistIsHonoured` with the
  scanner at work, whose own blacklist is the one it read when it started.

`ScanInv` says why the checkpoint may move to `batch.from`: from the block below
the checkpoint to the block above `cur_block`, the popped range and the window
follow each other without a gap (`NoGap`); what the popped range was answered is
staged or blacklisted before the second commit (`BatchStaged`), because a key is
left out only if it is known or on the list read at start, and both were staged
or listed before (`KnownStaged`).  That needs the workers: what they hold,
accept and insert was staged (`WorkersStaged`), so a scanner that starts finds
in the two tables only keys that were.  The scanner in turn keeps the workers'
`VanishInv`, since it only inserts rows and moves the checkpoint
(`ScannerWrites`).

`RequestLaneProofs`, for any number of calls, retries and permits, any bucket
and any delays, provided that a cool-down is no shorter than one refill
(`RateAssumption`; 1 s against 300 ms or 1 ms in the code):

* `LaneTypeCorrect`: `Spec => []TypeOK`, and `PermitsAreConserved`:
  `Spec => []PermitsConserved`.  The two are proved together: that `free` never
  exceeds `Permits` follows from the permits in use.
* `GrantsStayWithinRate`: `Spec => []GrantsWithinRate`.
* `CoolDownIsHonoured`: `Spec => CoolDownHonoured`.

`GrantsWithinRate` compares the lane's bucket with one that is never drained.
The first call after a cool-down gets a token that no refill paid for;
`RateInv` says why the other bucket covers it: it holds at least what the
lane's bucket would hold once refilled, and the end of a cool-down is at least
`Refill` ticks after the last pause was noted.  Its third conjunct, that the
noted pauses end no later than the cool-down, gives `CoolDownHonoured`.

`SampleCommandProofs`, for any pairs, images, numbers of workers, attempts and
runs, from the assumptions of the two modules:

* `SessionImplementsSink`: `CommandSpec => SessionIsSink`, the download session
  implements `DownloadSink` under the mapping that reads a pair's state off
  `pending`, `completed`, `staged` and `outcome`.  Every step of the session is
  a step of the sink or a stutter, every step of the bundle and every crash a
  stutter or the start of a new sink.  The invariant is `PendingUnanswered`: a
  pending pair has no answer yet, which makes each answer the first.

Of the bundle, for any list of outputs, any number of runs, crashes and file
errors, but with no crash inside a recovery (`MaxRecoveryCrashes = 0`; with one
it is false, section 4):

* `BundlesStayWhole`: `BundleSpec => []PublishedWhole`.  `BundleInv` says at
  each position of the loops what is published, what is kept as a backup and
  what is still staged: items before the position are of the new run, those
  after it of the last complete one, and a backup is always of the last
  complete one.

Of the session, from the same assumptions:

* `OneJobEach`: `CommandSpec => []OneJobPerUri`.  `JobsInv` counts the jobs of
  every URI over the four places one can be: queued or not yet sent, held by a
  worker, in a result, delayed for a retry.  A URI that is loading has one job in
  one of them, every other URI none (`OnePlace`); the ready list names ready URIs
  only.  A step moves a job from one place to the next, and the sum stays.

`SamplingProofs`, of the search, for any buckets, pools, pairs, targets, limits
and order of answers, from `SampleAssumption`:

* `SamplerWaitsForDownloads`: `SampleSpec => []WaitsOnlyForDownloads`.
* `PoolsKeepTheirTarget`: `SampleSpec => []PoolTargetsConserved`.
* `VisitOrderDecides`: `SampleSpec => []NoEarlierSuccessPassedOver`.
* `SamplerUsesSink`: `SampleSpec => SinkSpec`, the search uses the sink as
  `DownloadSink` allows; with `SessionImplementsSink` both sides of the trait are
  held to the same contract.

`SampleInv` relates three views of a bucket: the order of its visits, the
committed prefix of it and the answers of the sink.  Decided pairs are reported,
the first undecided one is not (`DecidedReported`); `viable` is the number of
visited pairs that may still succeed (`ViableExact`); and in a bucket that was
never raised a success left out means that it is full (`TakenInOrder`), so no
later one is taken.  The sums over the buckets of a pool are first-order
functions, and what is needed of them is proved by induction over finite sets,
from the library's theorem that strict inclusion among finite sets is well
founded.

Of the threads that feed it, for any profiles, partners, batch size and pool:

* `RoundTriesEveryMatch`: `ProbeSpec => []EveryMatchTried`, a round that ends
  without an error or a met target has tried every partner of every match.
  `RoundInv` is a conservation law: every profile is in exactly one place,
  waiting, in a batch, in one of the channels, in a buffer or done (`Unique`,
  `Conserved`), a profile in the consumer's buffer has partners left
  (`PartnersLeft`), and the forwarder and the consumer leave only when the
  channel they read is closed and empty (`ForwardInv`, `ConsumerInv`).  One
  lemma per action.

`EnrichmentProofs`, for any candidates of both kinds, keys, collections, pages,
histories and limits, and any number of incomplete answers, from the assumptions
of `RequestCache`, `EvmEnrichment` and `SolanaEnrichment`:

* `RequestsAreMadeOnce`: `Spec => []RequestedOnce`.
* `FailuresAreForgotten`: `Spec => []FailuresForgotten`.
* `CompleteEvidenceIsWhole`: `Spec => []CompleteMeansWhole`.
* `SolanaEvidenceIsWhole`: `Spec => []SolanaCompleteMeansWhole`.

`EnrichmentInv` has four parts.  `CacheInv` speaks of the caches: every cell but
the one in the map was answered incompletely (`Retired`), whoever asks is alone
with its cell (`SinglesLed`, `BatchesLed`), and a candidate has no call but
those of its stage (`CallsOfStage`), so none of them holds a cell when the stage
is over.  `RequestedOnce` counts the cells that are neither, and `Retired`
leaves one.  `StatusesEarned` says of each status of an EVM candidate what it
promises from the stage on in which it is set; a step proves it from
`CallsOfStage`, which relates the rows of a receipt call to the receipts the
stage wants.  One lemma per step of the caches and of a task; since candidates
of both kinds share the caches, each step of one kind is shown to keep what is
known of the other (`OthersKept`).

`ListingsTyped` and `EvidenceEarned` are about Solana candidates.  The code asks
for page n of size `limit`, but lets `limit` shrink with what is still wanted,
so a later page starts before the earlier ones ended.  That this skips nothing
is `NothingSkipped`: every row before the start of the page was found, or is no
NFT.  It is inductive because pages only shrink (`PagesShrink`): what lies
before the next page lies before this one or on it (`NextPage`), and a page
with fewer rows than wanted ends the listing (`AllListed`).  `WellListed` adds
that another listing than the first is made only if the first was empty although
the database has NFTs (`Strayed`), and `Outcome` what the statuses promise from
the stage on in which they are set: a population among `Populations`, every
signature of its histories (`HistoriesComplete`), and for each of them a
transaction that shows what its row needs.

`SolanaProofs`, for any mints, pages, slots, `GPA_SINCE_SLOT` settings, workers
and any number of faults:

* `ScanMissesNothing`: `Spec => []ChangesSeen`.  `ScanInv` says of each page up
  to which slot its accounts were seen: to the start of the present pass if the
  pass is beyond it (`PassSeen`), to the start of the saved pass if the saved
  cursor is (`CursorSeen`), to `since` in any case (`SavedSeen`); and what an
  answered page holds is as old as its pass at most (`Holds`).  The first attempt
  failed for a good reason.  The start of the pass was then kept once, for the
  running and for the saved pass; a fresh run with a later `GPA_SINCE_SLOT` that
  dies before its first page is saved leaves the older cursor with the start of
  its own pass, and TLC, with two faults, found slots unseen that nothing
  excused.  Both starts are history variables now (`passBegan`, `savedBegan`),
  and the excuse is exactly the slots between the two (`gaps`).
* `SeenReachesAssets`: `Spec => []AssetCoversSeen`.  `WorkInv`: an unshared
  ticket is for the row as it is and nobody else has it (`TicketsHeld`,
  `OneHolder`), what was fetched under it is as new as what the scanner had seen
  (`AnswersFresh`), and before the delete it is in the asset table
  (`StoredFresh`).  A claim that outlives the limit is shared from then on
  (`AgedShared`).

`EvidenceCacheProofs`, for any candidates, seeds, seed lists, bounds, versions,
batch size and number of faults:

* `CheckpointKept`: `Spec => []CheckpointComplete`, with loads, refreshes,
  fetches, flushes and finishes that fail and kills anywhere.  A run that reaches
  the analysis has every candidate; unless its last flush or stamp failed, which
  it reports, it leaves the checkpoint complete.  `CheckInv` says at each
  stage of a run what is in memory, in the sink's buffer and on the disk: what a
  run does not fetch again is on the disk, or is going to be pushed
  (`KeptOnDisk`), what it fetched is on the disk or in the buffer
  (`FetchedOnDisk`), and each held bundle has signals for the seeds of the list
  and no others (`Aligned`).
* `RunKeepsBounds`: `Spec => []AnalyzedWithinBounds`.  While nothing has
  separated the shards from their meta file, the shards were all collected under
  its bounds, and what is in memory under the bounds of the run (`BoundsKept`).
* `RunHasCurrentPrices`: `Spec => []AnalyzedPricesCurrent`, for any seed lists.
  `DaysKept` says which shards may be older than the day of the meta file: on
  that day, those that the run which stamped it had neither renewed nor planned
  to (`passedOver`, `ShardDays`).  A run of another day plans a new price for all
  it keeps (`PlannedDays`), and has new ones in memory, in the buffer or on the
  disk once it has got them (`RunDays`, `BufferDays`).

`AnalysisProofs`, of `RunSpec`, for any candidates, seeds and answers of the
providers, any identity rows of an earlier run, threads and channel.  The
theorems assume of the world what its types say (`Sensible`): a relation is a
pair, and the answers to yes-or-no questions are Booleans; and the third one
that the events of a candidate have the fields of an `EvidenceBundle`
(`Bundled`).

* `GateIsSound`: `RunSpec => []GateSkipsOnlyLegit`.  `GateInv` says what each
  phase of the gate knows: seeds are read once and as they are (`SeedsRead`),
  open candidates are those no signal without a request settles (`PhasesKept`);
  nobody is taken for a controller who is none, and nobody is missed unless a
  request failed (`ControllersKnown`); identities and signals are what the
  earlier phases make them (`IdentitiesKnown`, `RelationsKnown`).  The first
  attempt failed for a reason: a seed whose snapshot of owners is whole is never
  asked about a holder, so an official relation that only this request would
  show stays unknown with no request failed.  TLC finds the case once a registry
  relates the candidates so; `TrulyOfficial` now says that a whole snapshot is
  believed, and the run has that registry.
* `ReportedIsWritten`: `RunSpec => []WrittenBeforeReported`.  `PoolInv` follows
  a candidate from hand to hand: it is still to be taken, with a worker, or has
  a result (`Accounted`); one that was sent is in the channel or on the disk as
  long as the writer lives, and a refused one means that it does not
  (`Delivered`); the stage passes its phases in order, with idle workers once
  the sender is dropped and an empty channel once the writer has ended
  (`InOrderClosed`).  `RunSteps` splits a step of the run into one of the gate
  and one of the pool.
* `ProjectionIsExact`: `RunSpec => []ProjectionExact`.  The run analyses a
  candidate once, for all of its seeds, and each scope of the report sees a
  projection of that.  `EvidenceKept` says that what the gate, the enrichment
  and the report have of a candidate are bundles with the relations the registry
  gives it, and that the report tells the analyses of just these.  The rest is
  about the analysis itself.  Two bundles that differ only in their relations
  have the same roles, attribution, lifecycle, value flow, instances and
  economics (`SameEvents`, and a lemma for each detector up to
  `SameExplanation`): no detector reads a relation, however deep it calls.
  `ProjectedIsAnalysed` then splits three cases.  A candidate that is legitimate
  for all seeds is so for the scope's, and nothing was looked for; one that is
  legitimate for the scope's seeds only has all that was found cleared, down to
  what the analysis would have begun with; and for one that is not, setting the
  signals commutes with telling the details and with what the summaries keep.
  TLC shows that the middle case happens: one seed with an open license and one
  without.

Together these theorems state all invariants and action properties of the runs
but those that compare data, for every value of the constants.

Only model-checked:

* All liveness properties (`CollectionFinishes`, `CallsEnd`, `RoundsEnd`,
  `ThreadsJoin`, `EveryPairAnswered`, `ClosingEnds`, `EnrichmentEnds`): fairness
  and `ENABLED` are out of the reach of the proof system.
* `LoadedExactly`, `DuplicatesExact`, `SeedHitsExact`,
  `BehaviorsExact`, `EconomicsAddUp` and `SummaryCountsOnce`.  They say what a
  fold over rows, a tree of merges, a sort or a walk along an index computes;
  the library defines these by recursion with an operator as a parameter, and
  its theorems about them take that operator as a parameter, too, which no
  installed prover instantiates.  Inductions over
  first-order data, as over the finite sets of `SamplingProofs`, are possible
  and were done where a property needed them.

## 6. Not modelled

Of enrichment: the owners of the listed NFTs, the parsing of transactions into
parties, owner changes and flows, and the collection's authorities on Solana; on
EVM chains holders and royalty recipients; and the refreshes of older bundles
beyond what `EvidenceCache` says of them.  Controllers that could not be looked
up, queries of the payers of mints and lookups of royalties lower no status in
the code, so `has_complete_evidence` may hold although they fell short;
`CompleteMeansWhole` speaks of the rest.

The legacy `jsonl` and `json` layouts of the evidence cache and the offline
`enrich_override`; disk errors in the recovery and removal of files that the
modules take as one step; the `{id}`
placeholder repair at worker start; the request rate of a lane (the code bounds
tokens: a call takes its token before it waits for a permit, so requests may
leave in a burst or after a pause was noted); column migrations; two scanners of
one chain at the same time; blocks above the first start (the code never scans
them); two `sample-metadata` commands on one output directory.  The rounding of
scores to floating point, and so which pairs on the very threshold match.  Of
the seed analysis: the choice of seeds from NFTScan pages, bounded metadata
anchors and the text of the reports.  Provider clients are requests, parsing and
layout without state between calls; `PROJECT.json` lists what is not modelled of
each part with the reason.  The seed downloader disagrees with its documentation
at one point: when a Solana seed reaches the cap of 50,000 NFTs inside its last,
short page, the rest of the page is dropped and the population is not marked
(`seed_nft.rs:569-576`), while the README of the analysis (52-53) has "capped
populations ... marked explicitly".

## 7. Plan

1. The files of the success cache, their migration, and
   `atomic_replace`; the seed and dedup caches as file transactions.
2. Matching by metadata without an index (threshold zero) and the samples of
   pairs drawn while it is scored.
3. An abstract collector (an NFT is discovered, then kept or excluded) that
   `EvmCollector` implements.
4. Proofs: that the lanes of `NameMatching` and `MetadataMatching` claim
   disjoint chunks and leave none unclaimed, apart from what they compute.
