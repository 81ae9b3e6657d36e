----------------------------- MODULE EntityStore -----------------------------
(***************************************************************************)
(* Loading the inputs of a deduplication (load_entities_with_options).     *)
(* Row groups of the Parquet files are scanned in chunks by threads of the *)
(* pool, each chunk into a shard of its own; the shards are merged in the  *)
(* order of the input, two neighbours at a time.  Rows of one NFT may come *)
(* from several chunks and files and are joined into one entity.           *)
(***************************************************************************)
EXTENDS Naturals, Sequences, FiniteSets, SequencesExt, FiniteSetsExt

CONSTANTS
    Nfts,
    ContractOf,      \* [Nfts -> contracts]
    ChainOf,         \* the chain of a contract
    SolanaChains,    \* chains whose NFTs are members themselves
    NoChain,
    Lanes,           \* threads of the pool that match
    TokenNumber,     \* [Nfts -> Nat]: token ids as compare_token_ids orders them
    NoNft,           \* the key of a row without chain, contract or token id
    Absent,          \* a blank column
    Inputs,          \* families of what the program may be started with
    TargetChunks,    \* chunks per file: twice the threads
    NoLimit          \* no --metadata-anchors

ASSUME StoreAssumption ==
    /\ ContractOf \in [Nfts -> DOMAIN ChainOf]
    /\ TokenNumber \in [Nfts -> Nat]
    /\ \A m, n \in Nfts :
        m # n /\ ContractOf[m] = ContractOf[n] => TokenNumber[m] # TokenNumber[n]
    /\ NoNft \notin Nfts
    /\ NoChain \notin {ChainOf[c] : c \in DOMAIN ChainOf}
    /\ TargetChunks \in Nat \ {0}
    /\ NoLimit \notin Nat

VARIABLES
    input,      \* files, columns to load, chains to keep, anchor limit, threshold
    stage,      \* how far the program is, or how it failed
    shards,     \* per file: the chunks scanned so far and what came of them
    noticed,    \* a thread of this phase has seen the interrupt
    store       \* the merged shard

loadVars == <<input, shards, store>>

Contracts == {ContractOf[n] : n \in Nfts}

\* A scope of a chain: its own chain, all others, or one other.
Scope(kind, primary, secondary) == [kind |-> kind, primary |-> primary, secondary |-> secondary]

----------------------------------------------------------------------------
(* Metadata anchors of a contract                                          *)

\* Records are in the order of their token ids, one per token id, the first
\* that came, and only the limit's smallest.  Without a limit a shard only
\* collects them.
InsertAnchor(s, record) ==
    LET c == ContractOf[record.nft]
        anchors == s.anchors[c]
        at == Cardinality({i \in DOMAIN anchors :
                            TokenNumber[anchors[i].nft] < TokenNumber[record.nft]})
        full == input.limit # NoLimit /\ Len(anchors) >= input.limit
    IN IF input.limit = 0 THEN s
       ELSE IF s.deferred THEN [s EXCEPT !.anchors[c] = Append(anchors, record)]
       ELSE IF \E i \in DOMAIN anchors : anchors[i].nft = record.nft THEN s
       ELSE IF full /\ at >= input.limit THEN s
       ELSE LET grown == InsertAt(anchors, at + 1, record)
            IN [s EXCEPT !.anchors[c] = IF full THEN Front(grown) ELSE grown]

OrderBefore(o, p) == o[1] < p[1] \/ (o[1] = p[1] /\ o[2] < p[2])

\* finalize_metadata_anchors: sort what was collected and keep the first
\* record of each token id.
FinalAnchors(anchors) ==
    LET sorted == SortSeq(anchors,
            LAMBDA r, q : \/ TokenNumber[r.nft] < TokenNumber[q.nft]
                          \/ r.nft = q.nft /\ OrderBefore(r.order, q.order))
    IN FoldLeft(LAMBDA kept, r :
                    IF kept # <<>> /\ Last(kept).nft = r.nft THEN kept ELSE Append(kept, r),
                <<>>, sorted)

Finalized(s) ==
    IF s.deferred THEN [s EXCEPT !.anchors = [c \in Contracts |-> FinalAnchors(@[c])],
                                 !.deferred = FALSE]
    ELSE s

----------------------------------------------------------------------------
(* Rows and shards                                                         *)

EmptyStore(deferred) ==
    [error |-> "none", contracts |-> <<>>, nfts |-> <<>>, uris |-> <<>>,
     name |-> [n \in Nfts |-> Absent],
     token |-> [n \in Nfts |-> Absent], image |-> [n \in Nfts |-> Absent],
     anchors |-> [c \in Contracts |-> <<>>], deferred |-> deferred,
     postings |-> [token |-> <<>>, image |-> <<>>]]

\* An error takes the place of a shard.
Failure(error) == [EmptyStore(FALSE) EXCEPT !.error = error]

Failed(s) == s.error # "none"

\* Contracts, NFTs and URIs are numbered in the order in which they come.
Listed(list, x) == IF Contains(list, x) THEN list ELSE Append(list, x)

Interned(uris, u) == IF u = Absent THEN uris ELSE Listed(uris, u)

\* The first name stays; a URI may be missing but not differ.
FirstOf(known, incoming) == IF known = Absent THEN incoming ELSE known

Conflicts(known, incoming) ==
    known # Absent /\ incoming # Absent /\ known # incoming

\* An NFT that is new, or another row of one that is known.
JoinNft(s, n, name, token, image) ==
    IF Conflicts(s.token[n], token) \/ Conflicts(s.image[n], image) THEN Failure("conflict")
    ELSE [s EXCEPT !.nfts = Listed(@, n),
                   !.uris = Interned(Interned(@, token), image),
                   !.name[n] = FirstOf(@, name),
                   !.token[n] = FirstOf(@, token),
                   !.image[n] = FirstOf(@, image)]

\* A column that is not projected reads as blank.
Column(row, c) == IF c \in input.columns THEN row[c] ELSE Absent

Allowed(row) ==
    /\ row.nft # NoNft
    /\ input.chains = {} \/ ChainOf[ContractOf[row.nft]] \in input.chains

\* try_ingest_row
Ingest(s, row, order) ==
    IF Failed(s) \/ ~Allowed(row) THEN s
    ELSE LET n == row.nft
             known == [s EXCEPT !.contracts = Listed(@, ContractOf[n])]
             anchored == IF Column(row, "meta") = Absent THEN known
                         ELSE InsertAnchor(known, [nft |-> n, order |-> order, doc |-> row.meta])
         IN JoinNft(anchored, n, Column(row, "name"), Column(row, "token"),
                    Column(row, "image"))

\* merge_shard: what the shard of later rows adds to the one of earlier rows.
MergeShard(s, shard) ==
    LET uris == FoldLeft(Interned, s.uris, shard.uris)
        contracts == FoldLeft(Listed, s.contracts, shard.contracts)
        known == [s EXCEPT !.uris = uris, !.contracts = contracts]
        anchored == FoldLeft(LAMBDA t, c : FoldLeft(InsertAnchor, t, shard.anchors[c]),
                             known, shard.contracts)
        join(t, n) == IF Failed(t) THEN t
                      ELSE JoinNft(t, n, shard.name[n], shard.token[n], shard.image[n])
    IN FoldLeft(join, anchored, shard.nfts)

\* Of two errors the left one is reported.
Joined(left, right) ==
    IF Failed(left) THEN left
    ELSE IF Failed(right) THEN right
    ELSE MergeShard(left, right)

\* merge_shards_ordered: halves are merged first.
MergeOrdered(list) ==
    LET merged[from \in 1..Len(list), to \in 1..Len(list)] ==
            IF from = to THEN list[from]
            ELSE LET middle == from + (to - from + 1) \div 2
                 IN Joined(merged[from, middle - 1], merged[middle, to])
    IN IF list = <<>> THEN EmptyStore(FALSE) ELSE merged[1, Len(list)]

\* build_uri_postings: the NFTs of one URI and contract, ordered by both.
Postings(s, uriOf) ==
    LET position(list, x) == CHOOSE i \in DOMAIN list : list[i] = x
        keys == {<<uriOf[n], ContractOf[n]>> :
                    n \in {m \in ToSet(s.nfts) : uriOf[m] # Absent}}
        sorted == SetToSortSeq(keys, LAMBDA k, l :
            \/ position(s.uris, k[1]) < position(s.uris, l[1])
            \/ k[1] = l[1] /\ position(s.contracts, k[2]) < position(s.contracts, l[2]))
    IN [i \in DOMAIN sorted |->
            [uri |-> sorted[i][1], contract |-> sorted[i][2], chain |-> ChainOf[sorted[i][2]],
             nfts |-> {n \in ToSet(s.nfts) : /\ uriOf[n] = sorted[i][1]
                                             /\ ContractOf[n] = sorted[i][2]}]]

\* What load_entities returns of a merged shard.
Loaded(s) ==
    LET final == Finalized(s)
    IN [final EXCEPT !.postings.token = Postings(final, final.token),
                     !.postings.image = Postings(final, final.image)]

----------------------------------------------------------------------------
(* Chunks                                                                  *)

CeilDiv(k, l) == (k + l - 1) \div l

GroupsPerChunk(file) == Max({1, CeilDiv(Len(file), TargetChunks)})

ChunkCount(file) == CeilDiv(Len(file), GroupsPerChunk(file))

RowsOf(groups) == FlattenSeq(groups)

\* The rows of a chunk and how many rows of the file come before them.
ChunkRows(file, c) ==
    RowsOf(SubSeq(file, (c - 1) * GroupsPerChunk(file) + 1,
                  Min({c * GroupsPerChunk(file), Len(file)})))

\* Mutant: rows of a chunk are numbered from the start of the chunk.
RowStartOfChunk(file, c) == 0

RowStart(file, c) == Len(RowsOf(SubSeq(file, 1, (c - 1) * GroupsPerChunk(file))))

\* scan_row_groups_to_shard
ScanShard(f, c) ==
    LET file == input.files[f]
        rows == ChunkRows(file, c)
    IN FoldLeft(LAMBDA s, i : Ingest(s, rows[i], <<f, RowStart(file, c) + i>>),
                EmptyStore(input.limit = NoLimit), [i \in 1..Len(rows) |-> i])

----------------------------------------------------------------------------
StoreInit ==
    /\ \E i \in DOMAIN Inputs : input \in Inputs[i]
    /\ stage = "load"
    /\ shards = [f \in DOMAIN input.files |-> <<>>]
    /\ noticed = FALSE
    /\ store = EmptyStore(FALSE)

Unscanned(f) == 1..ChunkCount(input.files[f]) \ DOMAIN shards[f]

\* A thread scans a chunk, unless it notices an interrupt before; once one
\* has noticed it, so does everyone who looks.
Scan(f, c) ==
    /\ stage = "load" /\ c \in Unscanned(f)
    /\ \/ ~noticed /\ shards' = [shards EXCEPT ![f] = @ @@ (c :> ScanShard(f, c))]
                    /\ UNCHANGED noticed
       \/ noticed' = TRUE /\ shards' = [shards EXCEPT ![f] = @ @@ (c :> Failure("interrupted"))]
    /\ UNCHANGED <<input, stage, store>>

FileShard(f) == MergeOrdered([c \in 1..ChunkCount(input.files[f]) |-> shards[f][c]])

MergedShard == MergeOrdered([f \in DOMAIN shards |-> FileShard(f)])

\* All chunks are scanned: merge, sort the anchors and check the chains.
Merge ==
    /\ stage = "load" /\ \A f \in DOMAIN shards : Unscanned(f) = {}
    /\ \/ /\ ~noticed
          /\ IF Failed(MergedShard) THEN stage' = MergedShard.error /\ UNCHANGED store
             ELSE /\ store' = Loaded(MergedShard)
                  /\ stage' = IF input.chains # {} /\ MergedShard.contracts = <<>> THEN "absent"
                              ELSE "loaded"
       \/ stage' = "interrupted" /\ UNCHANGED store
    /\ shards' = [f \in DOMAIN shards |-> <<>>]
    /\ noticed' = FALSE
    /\ UNCHANGED input

StoreNext == (\E f \in DOMAIN shards : \E c \in Unscanned(f) : Scan(f, c)) \/ Merge

----------------------------------------------------------------------------
(* What was loaded does not depend on how the input was cut into chunks:   *)
(* it is what one pass over all rows in order finds.  An NFT has its first *)
(* name, its only URIs, and a contract the records of its smallest token   *)
(* ids, each the first of its token.  Loading fails exactly when two rows  *)
(* of an NFT differ in a URI or no requested chain occurs.                 *)
AllRows ==
    FlattenSeq([f \in DOMAIN input.files |->
        LET rows == RowsOf(input.files[f])
        IN [i \in DOMAIN rows |-> [row |-> rows[i], order |-> <<f, i>>]]])

WantedRows == SelectSeq(AllRows, LAMBDA r : Allowed(r.row))

InOrder(list) == FoldLeft(Listed, <<>>, list)

ValuesOf(n, column) ==
    SelectSeq([i \in DOMAIN WantedRows |->
                    IF WantedRows[i].row.nft = n THEN Column(WantedRows[i].row, column)
                    ELSE Absent],
              LAMBDA v : v # Absent)

FirstValue(n, column) ==
    IF ValuesOf(n, column) = <<>> THEN Absent ELSE Head(ValuesOf(n, column))

Conflict ==
    \E n \in Nfts : \E column \in {"token", "image"} :
        Cardinality(ToSet(ValuesOf(n, column))) > 1

\* The first record with metadata of each NFT of a contract.
Records(c) ==
    {[nft |-> WantedRows[i].row.nft, order |-> WantedRows[i].order,
      doc |-> WantedRows[i].row.meta] :
        i \in {j \in DOMAIN WantedRows :
                 /\ ContractOf[WantedRows[j].row.nft] = c
                 /\ Column(WantedRows[j].row, "meta") # Absent
                 /\ \A k \in 1..j - 1 :
                      \/ WantedRows[k].row.nft # WantedRows[j].row.nft
                      \/ Column(WantedRows[k].row, "meta") = Absent}}

Anchors(c) ==
    LET sorted == SetToSortSeq(Records(c),
                        LAMBDA r, q : TokenNumber[r.nft] < TokenNumber[q.nft])
    IN IF input.limit = NoLimit THEN sorted
       ELSE SubSeq(sorted, 1, Min({input.limit, Len(sorted)}))

Expected ==
    [contracts |-> InOrder([i \in DOMAIN WantedRows |-> ContractOf[WantedRows[i].row.nft]]),
     nfts |-> InOrder([i \in DOMAIN WantedRows |-> WantedRows[i].row.nft]),
     name |-> [n \in Nfts |-> FirstValue(n, "name")],
     token |-> [n \in Nfts |-> FirstValue(n, "token")],
     image |-> [n \in Nfts |-> FirstValue(n, "image")],
     anchors |-> [c \in Contracts |-> Anchors(c)]]

LoadedExactly ==
    /\ stage = "conflict" => Conflict
    /\ stage = "absent" => ~Conflict /\ input.chains # {} /\ WantedRows = <<>>
    /\ stage = "loaded" =>
        /\ ~Conflict
        /\ input.chains # {} => WantedRows # <<>>
        /\ \A field \in DOMAIN Expected : store[field] = Expected[field]
=============================================================================
