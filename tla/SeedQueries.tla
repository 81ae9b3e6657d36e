----------------------------- MODULE SeedQueries -----------------------------
(***************************************************************************)
(* Finding the contracts that repeat a seed (run-dedup).  The URIs, the    *)
(* names and the metadata of the seeds are queried one dimension after the *)
(* other, so that the index of each is dropped before the next is built;   *)
(* within a dimension threads take the seeds in any order and reuse their  *)
(* buffers.  Each hit is an edge from a seed to an NFT or a contract.      *)
(***************************************************************************)
EXTENDS SeedStore

CONSTANTS
    Unusable,        \* a name that says null
    NoNames,         \* no --name-threshold
    DocumentTerms,   \* [documents -> sets of terms], both are numbers
    Lanes,           \* threads of the pool
    Generations      \* 2^16 in the code

ASSUME SeedQueriesAssumption == Generations \in Nat \ {0, 1}

VARIABLES
    active,    \* seeds that were found in the store
    pending,   \* seeds that are still to be queried in this stage
    scratch,   \* buffers of each lane
    edges,     \* per seed: its hits
    reports    \* per seed: what is written of it

queryVars == <<active, pending, scratch, edges, reports>>

SeedNfts(s) == store.ofContract[s]

Edge(c, n, dimension) == [contract |-> c, nft |-> n, dimension |-> dimension]

NftEdges(nfts, dimension) == {Edge(ContractOf[n], n, dimension) : n \in nfts}

\* Names and metadata hit whole contracts.
ContractEdges(contracts, dimension) == {Edge(c, NoNft, dimension) : c \in contracts}

ChainOfNft(n) == ChainOf[ContractOf[n]]

----------------------------------------------------------------------------
(* URIs                                                                    *)

UriScratch == [scopes |-> {}, candidates |-> {}]

Sharing(kind, uri) == {x[2] : x \in {y \in store.index[kind] : y[1] = uri}}

\* emit_uri_hits on one chain: on the seed's own another contract has to
\* have the URI, on another one the seed's chain has to.
UriHits(s, members, chain, excluded) ==
    LET left == {n \in members \ excluded : ChainOfNft(n) = chain}
        others == {n \in left : ContractOf[n] # s}
        here == IF chain = ChainOf[s] THEN left
                ELSE {n \in members : ChainOfNft(n) = ChainOf[s]}
    IN IF chain = ChainOf[s] /\ \A n \in here : ContractOf[n] # s THEN {}
       ELSE IF here = {} THEN {}
       ELSE others

\* Mutant: what the lane's last seed left behind is kept.
ClearedNot(buffers) == buffers

Cleared(buffers) == UriScratch

\* Token URIs first; images then only find, chain by chain, what no token URI
\* found, for seed NFTs of which one has no duplicate by its token URI.
UriQuery(s, buffers) ==
    LET with(kind) == {m \in SeedNfts(s) : store[kind][m] # Absent}
        found(m, chain) == UriHits(s, Sharing("token", store.token[m]), chain, {})
        hit(chain) == {m \in with("token") : found(m, chain) # {}}
        byToken == UNION {found(m, chain) : m \in with("token"), chain \in Chains}
        after == [scopes |-> Cleared(buffers).scopes
                                \union UNION {hit(chain) \X {chain} : chain \in Chains},
                  candidates |-> Cleared(buffers).candidates \union byToken]
        skipped(uri, chain) ==
            \A m \in with("image") : store.image[m] = uri => <<m, chain>> \in after.scopes
        images(chain) == {u \in {store.image[m] : m \in with("image")} : ~skipped(u, chain)}
        byImage == UNION {UNION {UriHits(s, Sharing("image", u), chain, after.candidates) :
                                    u \in images(chain)} : chain \in Chains}
    IN [scratch |-> after,
        edges |-> NftEdges(byToken, "token_uri") \union NftEdges(byImage, "image_uri")]

----------------------------------------------------------------------------
(* Names                                                                   *)

UsableName(n) == store.name[n] \notin {Absent, Unusable}

UsableNames(c) == {store.name[n] : n \in {m \in store.ofContract[c] : UsableName(m)}}

\* The name most NFTs of an EVM contract carry, the smallest of those.
Representative(c) ==
    LET count(s) == Cardinality({n \in store.ofContract[c] : store.name[n] = s})
    IN CHOOSE s \in UsableNames(c) :
        \A t \in UsableNames(c) \ {s} :
            count(s) > count(t) \/ (count(s) = count(t) /\ StringBefore(s, t))

\* Collections on Solana have the names of all their NFTs.
NamesOf(c) ==
    IF c \notin store.contracts THEN {}
    ELSE IF Evm(c) /\ UsableNames(c) # {} THEN {Representative(c)}
    ELSE UsableNames(c)

NameKeys == UNION {NamesOf(c) : c \in Contracts}

NameScratch == [generation |-> 0, seen |-> [k \in NameKeys |-> 0]]

\* begin_query: a fresh mark; when the marks run out all of them are cleared.
BeginQuery(buffers) ==
    LET next == (buffers.generation + 1) % Generations
    IN IF next # 0 THEN [buffers EXCEPT !.generation = next]
       ELSE [generation |-> 1, seen |-> [k \in DOMAIN buffers.seen |-> 0]]

\* Tokens of a name, the rarest first.
RankedTokens(name) ==
    LET frequency(t) == Cardinality({k \in NameKeys : t \in Tokens(k)})
    IN SetToSortSeq(Tokens(name),
        LAMBDA a, b : \/ frequency(a) < frequency(b)
                      \/ frequency(a) = frequency(b) /\ TokenBefore(a, b))

\* Names that may resemble the query: of a length that can, and sharing one
\* of its rare tokens with it.  Names the index yields are marked.
Proposed(query, buffers) ==
    LET lengths == {l \in {Len(k) : k \in NameKeys} :
                        l = Len(query) \/ LengthsCanReach(Len(query), l, input.threshold)}
        required(l) == MinimumOverlap(Len(query), l, input.threshold)
        ranked == RankedTokens(query)
        prefix(l) == ToSet(SubSeq(ranked, 1,
            MinOf(Len(query) - MinOf(required(l), Len(query)) + 1, Len(ranked))))
        ofLength(l) == {k \in NameKeys : Len(k) = l}
        indexed == {k \in NameKeys : /\ Len(k) \in lengths /\ required(Len(k)) # 0
                                     /\ Tokens(k) \intersect prefix(Len(k)) # {}
                                     /\ buffers.seen[k] # buffers.generation}
    IN [names |-> indexed \union UNION {ofLength(l) : l \in {m \in lengths : required(m) = 0}},
        scratch |-> [buffers EXCEPT !.seen = [k \in DOMAIN @ |->
                        IF k \in indexed THEN buffers.generation ELSE @[k]]]]

\* emit_for_query: equal names, then similar ones.
Resembling(query, buffers) ==
    IF input.threshold > 100 THEN [names |-> {query}, scratch |-> buffers]
    ELSE LET proposed == Proposed(query, BeginQuery(buffers))
             enough(k) == Cardinality(Tokens(query) \intersect Tokens(k))
                            >= MinimumOverlap(Len(query), Len(k), input.threshold)
         IN [names |-> {query} \union {k \in proposed.names :
                            enough(k) /\ Reaches(JaroWinkler(query, k), input.threshold)},
             scratch |-> proposed.scratch]

NameQuery(s, buffers) ==
    LET result == FoldSet(LAMBDA query, sofar :
                        LET found == Resembling(query, sofar.scratch)
                        IN [names |-> sofar.names \union found.names, scratch |-> found.scratch],
                    [names |-> {}, scratch |-> buffers], NamesOf(s))
    IN [scratch |-> result.scratch,
        edges |-> ContractEdges({c \in Contracts \ {s} : NamesOf(c) \intersect result.names # {}},
                                "name")]

----------------------------------------------------------------------------
(* Metadata                                                                *)

\* Bits mark the contracts that are listed as candidates.
MetadataScratch == [marked |-> {}, output |-> {}]

DocumentsOf(c) == {store.anchors[c][i].doc : i \in DOMAIN store.anchors[c]}

IndexedDocuments == UNION {DocumentsOf(c) : c \in Contracts}

\* The rarest terms of a document, enough of them to meet every match.
PrefixTerms(d) ==
    LET frequency(t) == Cardinality({e \in IndexedDocuments : t \in DocumentTerms[e]})
        ranked == SetToSortSeq(DocumentTerms[d], LAMBDA t, u :
                    frequency(t) < frequency(u) \/ (frequency(t) = frequency(u) /\ t < u))
    IN IF ranked = <<>> THEN {}
       ELSE ToSet(SubSeq(ranked, 1, PrefixLength(Len(ranked), input.similarity)))

\* collect_candidates
MetadataCandidates(s) ==
    LET linked(d) == {e \in IndexedDocuments :
                        \/ e = d
                        \/ input.similarity = 0
                        \/ /\ input.similarity <= 100
                           /\ PrefixTerms(d) \intersect DocumentTerms[e] # {}}
        documents == UNION {linked(d) : d \in DocumentsOf(s)}
    IN {c \in Contracts \ {s} : DocumentsOf(c) \intersect documents # {}}

\* begin_candidates: the bits of the last seed's candidates are cleared.
BeginCandidates(buffers) == [marked |-> buffers.marked \ buffers.output, output |-> {}]

\* Mutant: the list is emptied, the bits stay.
BeginCandidatesMarked(buffers) == [buffers EXCEPT !.output = {}]

\* mark_candidate
Mark(buffers, contracts) ==
    [marked |-> buffers.marked \union contracts,
     output |-> buffers.output \union (contracts \ buffers.marked)]

\* select_documents: of the greatest token both have, if both are of EVM
\* chains, otherwise of the greatest token of each.
SelectedDocuments(s, left, c, right) ==
    LET shared == {i \in DOMAIN left : \E j \in DOMAIN right : Number(left[i]) = Number(right[j])}
    IN IF Evm(s) /\ Evm(c) /\ shared # {}
       THEN LET i == Min(shared)
                j == CHOOSE k \in DOMAIN right : Number(left[i]) = Number(right[k])
            IN <<left[i].doc, right[j].doc>>
       ELSE <<left[1].doc, right[1].doc>>

DocumentsAlike(d, e) ==
    \/ d = e
    \/ input.similarity = 0
    \/ /\ input.similarity <= 100
       /\ CosineReaches(DocumentTerms[d], DocumentTerms[e], input.similarity)

\* edge_for_candidate
MetadataAlike(s, left, c, right) ==
    LET documents == SelectedDocuments(s, left, c, right)
    IN DocumentsAlike(documents[1], documents[2])

MetadataQuery(s, buffers) ==
    LET after == Mark(BeginCandidates(buffers), MetadataCandidates(s))
    IN IF store.anchors[s] = <<>> THEN [scratch |-> buffers, edges |-> {}]
       ELSE [scratch |-> after,
             edges |-> ContractEdges({c \in after.output :
                            MetadataAlike(s, store.anchors[s], c, store.anchors[c])}, "metadata")]

----------------------------------------------------------------------------
(* Reports                                                                 *)

Dimensions == {"token_uri", "image_uri", "metadata", "name"}

\* expand_edge_nfts
Expanded(e) == IF e.nft = NoNft THEN store.ofContract[e.contract] ELSE {e.nft}

NftsOf(hits) == UNION {Expanded(e) : e \in hits}

ContractsOf(nfts) == {ContractOf[n] : n \in nfts}

ScaleRow(nfts) ==
    [nfts |-> Cardinality(nfts), contracts |-> Cardinality(ContractsOf(nfts))]

\* rows_from_dimension_sets: hits on some chains, over all that is there.
ScaleRows(hits, chains) ==
    LET inScope == {e \in hits : ChainOf[e.contract] \in chains}
        of(d) == NftsOf({e \in inScope : e.dimension = d})
        counted(d) == IF d = "image_uri" THEN of(d) \ of("token_uri") ELSE of(d)
        total(field) == MapThenSumSet(LAMBDA chain : store.totals[chain][field], chains)
    IN [rows |-> [d \in Dimensions |-> ScaleRow(counted(d))],
        total |-> ScaleRow(UNION {counted(d) : d \in Dimensions}),
        of |-> [nfts |-> total("nfts"), contracts |-> total("contracts")]]

\* CandidateRegistry: one relation per candidate.
Relations(hits) ==
    [c \in {e.contract : e \in hits} |->
        LET own == {e \in hits : e.contract = c}
        IN [dimensions |-> {e.dimension : e \in own}, nfts |-> NftsOf(own)]]

\* build_seed_dedup_report
SeedReport(s) ==
    LET others == Chains \ {ChainOf[s]}
    IN [relations |-> Relations(edges[s]),
        intra |-> ScaleRows(edges[s], {ChainOf[s]}),
        matrix |-> [chain \in others |-> ScaleRows(edges[s], {chain})],
        cross |-> ScaleRows(edges[s], others)]

----------------------------------------------------------------------------
QueryInit ==
    /\ StoreInit
    /\ active = {} /\ pending = {}
    /\ scratch = [w \in Lanes |-> UriScratch]
    /\ edges = [s \in input.seeds |-> {}]
    /\ reports = [s \in {} |-> {}]

Abort(failure) ==
    /\ stage' = failure
    /\ UNCHANGED <<input, store, queryVars>>

\* With downloads every seed has to be of a chain that is loaded.
Refused ==
    /\ Downloads /\ input.chains # {}
    /\ \E s \in input.seeds : ChainOf[s] \notin input.chains

LoadError(s) ==
    IF Refused THEN "refused"
    ELSE IF s.conflict THEN "conflict"
    ELSE IF input.chains # {} /\ s.contracts = {} THEN "absent"
    ELSE "none"

\* The files are read while the seeds are downloaded; what is wrong with the
\* files is reported first.
LoadFails == stage = "load" /\ LoadError(Pass1) # "none" /\ Abort(LoadError(Pass1))

DownloadFails ==
    /\ stage = "load" /\ Downloads /\ LoadError(Pass1) = "none"
    /\ Abort("download_failed")

\* Without downloads the indexes are those of pass 1.
Load ==
    /\ stage = "load" /\ LoadError(Pass1) = "none"
    /\ LET overlaid == Overlaid(Pass1)
       IN IF overlaid.conflict THEN Abort("conflict")
          ELSE /\ store' = overlaid
               /\ active' = input.seeds \intersect overlaid.contracts
               /\ pending' = active'
               /\ stage' = "uri"
               /\ UNCHANGED <<input, scratch, edges, reports>>

\* A thread takes a seed and adds what it finds to the seed's graph.
Query(w, s, result) ==
    /\ s \in pending
    /\ pending' = pending \ {s}
    /\ scratch' = [scratch EXCEPT ![w] = result.scratch]
    /\ edges' = [edges EXCEPT ![s] = @ \union result.edges]
    /\ UNCHANGED <<input, stage, store, active, reports>>

QueryUris(w) == stage = "uri" /\ \E s \in pending : Query(w, s, UriQuery(s, scratch[w]))

QueryNames(w) == stage = "name" /\ \E s \in pending : Query(w, s, NameQuery(s, scratch[w]))

QueryMetadata(w) ==
    stage = "metadata" /\ \E s \in pending : Query(w, s, MetadataQuery(s, scratch[w]))

\* All seeds have passed this stage; the next one starts with fresh buffers.
NextStage(next, buffers) ==
    /\ pending = {}
    /\ stage' = next
    /\ pending' = active
    /\ scratch' = [w \in Lanes |-> buffers]
    /\ UNCHANGED <<input, active, edges, reports>>

\* The URI indexes are dropped before the metadata is read.
FinishUris ==
    /\ stage = "uri"
    /\ store' = [WithMetadata(store, Pass2(active)) EXCEPT !.index = EmptyStore.index]
    /\ IF input.threshold = NoNames THEN NextStage("metadata", MetadataScratch)
       ELSE NextStage("name", NameScratch)

FinishNames ==
    /\ stage = "name"
    /\ NextStage("metadata", MetadataScratch)
    /\ UNCHANGED store

\* Seeds that were not found are reported as failures.
WriteReports ==
    /\ stage = "metadata" /\ pending = {}
    /\ stage' = "done"
    /\ reports' = [s \in input.seeds |-> IF s \in active THEN SeedReport(s) ELSE "resolve_seed"]
    /\ UNCHANGED <<input, store, active, pending, scratch, edges>>

\* check_cancelled
Cancel == stage \in {"load", "uri", "name", "metadata"} /\ Abort("cancelled")

QueryNext ==
    \/ LoadFails \/ DownloadFails \/ Load \/ Cancel
    \/ \E w \in Lanes : QueryUris(w) \/ QueryNames(w) \/ QueryMetadata(w)
    \/ FinishUris \/ FinishNames \/ WriteReports

----------------------------------------------------------------------------
(* What the reports are about, by a look at every row and every pair       *)

FileRows == SelectSeq(FlattenSeq([f \in DOMAIN input.files |-> FlattenSeq(input.files[f])]), Wanted)

RowsOf(n) ==
    SelectSeq(IF ContractOf[n] \in Provided THEN input.provided[ContractOf[n]] ELSE FileRows,
              LAMBDA row : row.nft = n)

Known == {n \in Nfts : RowsOf(n) # <<>>}

KnownOf(c) == {n \in Known : ContractOf[n] = c}

Value(n, field) ==
    LET given == SelectSeq(RowsOf(n), LAMBDA row : row[field] # Absent)
    IN IF given = <<>> THEN Absent ELSE given[1][field]

SameValue(field, m, n) == Value(m, field) # Absent /\ Value(m, field) = Value(n, field)

Strangers(s) == {n \in Known : ContractOf[n] # s}

TokenTwins(s) == {n \in Strangers(s) : \E m \in KnownOf(s) : SameValue("token", m, n)}

\* A duplicate by image only counts for a seed NFT that has none by token
\* URI on that chain.
ImageTwins(s) ==
    {n \in Strangers(s) \ TokenTwins(s) :
        \E m \in KnownOf(s) :
            /\ SameValue("image", m, n)
            /\ \A k \in TokenTwins(s) :
                ChainOfNft(k) = ChainOfNft(n) => ~SameValue("token", m, k)}

\* Names a contract is known by.
ExpectedNames(c) ==
    LET values == {Value(n, "name") : n \in KnownOf(c)} \ {Absent, Unusable}
        count(v) == Cardinality({n \in KnownOf(c) : Value(n, "name") = v})
    IN IF ~Evm(c) THEN values
       ELSE {v \in values : \A u \in values \ {v} :
                count(v) > count(u) \/ (count(v) = count(u) /\ StringBefore(v, u))}

NameTwins(s) ==
    {c \in Contracts \ {s} :
        /\ input.threshold # NoNames
        /\ \E a \in ExpectedNames(s), b \in ExpectedNames(c) :
            a = b \/ (input.threshold <= 100 /\ Reaches(JaroWinkler(a, b), input.threshold))}

\* All documents of a contract, those of greater tokens first.
AllRecords(c) ==
    SetToSortSeq({[nft |-> n, doc |-> Value(n, "meta")] :
                    n \in {m \in KnownOf(c) : Value(m, "meta") # Absent}},
                 LAMBDA r, q : Number(r) > Number(q))

MetadataTwins(s) ==
    {c \in Contracts \ {s} : /\ AllRecords(s) # <<>> /\ AllRecords(c) # <<>>
                             /\ MetadataAlike(s, AllRecords(s), c, AllRecords(c))}

Found(s, dimension) == {e \in edges[s] : e.dimension = dimension}

\* A token of an EVM seed has no metadata: then pass 2 may drop the records
\* that the comparison should be made with.
Undocumented(s) == Evm(s) /\ \E n \in KnownOf(s) : Value(n, "meta") = Absent

\* However the files are cut into chunks, and whichever thread asks for a
\* seed with whatever its last seed left in the buffers: indexes, prefixes
\* and windows find exactly what comparing every pair finds.
SeedHitsExact ==
    stage = "done" =>
        \A s \in active :
            /\ Found(s, "token_uri") = NftEdges(TokenTwins(s), "token_uri")
            /\ Found(s, "image_uri") = NftEdges(ImageTwins(s), "image_uri")
            /\ Found(s, "name") = ContractEdges(NameTwins(s), "name")
            /\ ~Undocumented(s) => Found(s, "metadata") = ContractEdges(MetadataTwins(s), "metadata")
=============================================================================
