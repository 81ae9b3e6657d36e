------------------------------ MODULE SeedStore ------------------------------
(***************************************************************************)
(* The entities an analysis works on (ResidentStore).  Pass 1 reads the    *)
(* identities, names and URIs of all NFTs; what the providers say of the   *)
(* seed contracts replaces the rows of those.  After the URI queries pass  *)
(* 2 reads the metadata, but keeps only what the seeds may be compared     *)
(* with.  Both passes scan chunks of row groups in parallel, each into a   *)
(* shard, and merge the shards in the order of the input.                  *)
(***************************************************************************)
EXTENDS Similarity

CONSTANTS
    Nfts,
    ContractOf,      \* [Nfts -> contracts]
    ChainOf,         \* the chain of a contract
    EvmChains,
    TokenNumber,     \* [Nfts -> Nat]: token ids as compare_token_ids orders them
    NoNft,           \* the key of a row without chain, contract or token id
    Absent,          \* a blank column, or metadata that is no document
    Inputs,          \* families of what the program may be started with
    TargetChunks,    \* chunks per file: twice the threads
    Offline          \* no provider keys: nothing is downloaded

ASSUME SeedStoreAssumption ==
    /\ ContractOf \in [Nfts -> DOMAIN ChainOf]
    /\ TokenNumber \in [Nfts -> Nat]
    /\ \A m, n \in Nfts :
        m # n /\ ContractOf[m] = ContractOf[n] => TokenNumber[m] # TokenNumber[n]
    /\ NoNft \notin Nfts
    /\ TargetChunks \in Nat \ {0}

VARIABLES
    input,   \* files, chains to keep, seeds, what providers say of them, thresholds
    stage,   \* how far the program is, or how it failed
    store    \* the resident store

Contracts == DOMAIN ChainOf

Chains == {ChainOf[c] : c \in Contracts}

Evm(c) == ChainOf[c] \in EvmChains

Row(n, name, token, image, meta) ==
    [nft |-> n, name |-> name, token |-> token, image |-> image, meta |-> meta]

Downloads == input.provided # Offline

\* The seeds whose rows come from the providers.
Provided == IF Downloads THEN DOMAIN input.provided ELSE {}

----------------------------------------------------------------------------
(* Chunks and trees of shards                                              *)

\* Contiguous row groups, about TargetChunks of them per file.
Chunks(file) ==
    LET size == Max({1, (Len(file) + TargetChunks - 1) \div TargetChunks})
    IN [k \in 1..((Len(file) + size - 1) \div size) |->
            FlattenSeq(SubSeq(file, (k - 1) * size + 1, MinOf(k * size, Len(file))))]

\* Halves are merged first.
MergeTree(shards, Join(_, _), empty) ==
    LET merged[from \in DOMAIN shards, to \in DOMAIN shards] ==
            IF from = to THEN shards[from]
            ELSE LET right == from + (to - from + 1) \div 2
                 IN Join(merged[from, right - 1], merged[right, to])
    IN IF shards = <<>> THEN empty ELSE merged[1, Len(shards)]

\* Every chunk of every file, merged file by file.
Scanned(ScanChunk(_), Join(_, _), empty) ==
    MergeTree([f \in DOMAIN input.files |->
                  LET chunks == Chunks(input.files[f])
                  IN MergeTree([k \in DOMAIN chunks |-> ScanChunk(chunks[k])], Join, empty)],
              Join, empty)

Wanted(row) ==
    /\ row.nft # NoNft
    /\ input.chains = {} \/ ChainOf[ContractOf[row.nft]] \in input.chains

----------------------------------------------------------------------------
(* Identities                                                              *)

EmptyStore ==
    [conflict |-> FALSE, contracts |-> {}, nfts |-> {},
     name |-> [n \in Nfts |-> Absent],
     token |-> [n \in Nfts |-> Absent], image |-> [n \in Nfts |-> Absent],
     totals |-> [chain \in Chains |-> [contracts |-> 0, nfts |-> 0]],
     anchors |-> [c \in Contracts |-> <<>>],
     index |-> [token |-> {}, image |-> {}],
     ofContract |-> [c \in Contracts |-> {}]]

WithContract(s, c) ==
    IF c \in s.contracts THEN s
    ELSE [s EXCEPT !.contracts = @ \union {c}, !.totals[ChainOf[c]].contracts = @ + 1]

\* The first name stays; a URI may be missing but not differ.
FirstOf(known, incoming) == IF known = Absent THEN incoming ELSE known

Conflicts(known, incoming) ==
    known # Absent /\ incoming # Absent /\ known # incoming

\* An NFT that is new, or another row of one that is known.
JoinNft(s, r) ==
    LET n == r.nft
    IN IF s.conflict \/ Conflicts(s.token[n], r.token) \/ Conflicts(s.image[n], r.image)
       THEN [s EXCEPT !.conflict = TRUE]
       ELSE [s EXCEPT !.nfts = @ \union {n},
                      !.name[n] = FirstOf(@, r.name),
                      !.token[n] = FirstOf(@, r.token),
                      !.image[n] = FirstOf(@, r.image),
                      !.totals[ChainOf[ContractOf[n]]].nfts = IF n \in s.nfts THEN @ ELSE @ + 1]

\* ingest_identity_strs
Ingest(s, row) == JoinNft(WithContract(s, ContractOf[row.nft]), row)

\* merge_shard: what the shard of later rows adds to that of earlier rows.
MergeShard(s, shard) ==
    LET known == FoldSet(LAMBDA c, t : WithContract(t, c), s, shard.contracts)
        joined == FoldSet(LAMBDA n, t : JoinNft(t, Row(n, shard.name[n], shard.token[n],
                                                       shard.image[n], Absent)),
                          known, shard.nfts)
    IN [joined EXCEPT !.conflict = @ \/ shard.conflict]

\* The URI indexes and the NFTs of each contract.
Indexed(s) ==
    [s EXCEPT !.index = [token |-> {<<s.token[n], n>> : n \in {m \in s.nfts : s.token[m] # Absent}},
                         image |-> {<<s.image[n], n>> : n \in {m \in s.nfts : s.image[m] # Absent}}],
              !.ofContract = [c \in Contracts |-> {n \in s.nfts : ContractOf[n] = c}]]

Pass1 ==
    Scanned(LAMBDA rows : FoldLeft(Ingest, EmptyStore, SelectSeq(rows, Wanted)),
            MergeShard, EmptyStore)

\* remove_seed_contract_nfts: the NFTs of the contracts go, and all NFTs are
\* counted again.
WithoutNftsOf(s, contracts) ==
    LET kept == {n \in s.nfts : ContractOf[n] \notin contracts}
        keep(values) == [n \in Nfts |-> IF n \in kept THEN values[n] ELSE Absent]
    IN IF contracts \intersect s.contracts = {} THEN s
       ELSE [s EXCEPT !.nfts = kept, !.name = keep(@), !.token = keep(@), !.image = keep(@),
                      !.totals = [chain \in Chains |-> [@[chain] EXCEPT !.nfts =
                            Cardinality({n \in kept : ChainOf[ContractOf[n]] = chain})]],
                      !.ofContract = [c \in Contracts |-> {n \in kept : ContractOf[n] = c}]]

\* apply_seed_nft_identities: the providers' rows replace those of the files.
Overlaid(s) ==
    Indexed(FoldSet(LAMBDA c, t : FoldLeft(Ingest, t, input.provided[c]),
                    WithoutNftsOf(s, Provided), Provided))

----------------------------------------------------------------------------
(* Metadata                                                                *)

Record(row) == [nft |-> row.nft, doc |-> row.meta]

Number(record) == TokenNumber[record.nft]

\* Records of a contract are in descending order of their token ids.
Descending(records) == SortSeq(records, LAMBDA r, q : Number(r) > Number(q))

FirstOfEachToken(records) ==
    FoldLeft(LAMBDA kept, r : IF \E i \in DOMAIN kept : kept[i].nft = r.nft THEN kept
                              ELSE Append(kept, r),
             <<>>, records)

\* MetadataQuerySelection: all tokens of an EVM seed.
SeedTokens(s) == {TokenNumber[n] : n \in store.ofContract[s]}

SharedToken(number, seeds) ==
    \E s \in seeds : Evm(s) /\ number \in SeedTokens(s)

\* A record of no seed and of no token a seed has counts only if its token
\* is the greatest of its contract.
Unshared(r, seeds) ==
    LET c == ContractOf[r.nft]
    IN c \notin seeds /\ ~(Evm(c) /\ SharedToken(Number(r), seeds))

PriorUnshared(anchors, seeds) == {i \in DOMAIN anchors : Unshared(anchors[i], seeds)}

\* The gate before a document is parsed.
CouldAccept(shard, r, seeds) ==
    LET anchors == shard[ContractOf[r.nft]]
        prior == PriorUnshared(anchors, seeds)
    IN IF Unshared(r, seeds) /\ prior # {} THEN Number(r) > Number(anchors[Min(prior)])
       ELSE \A i \in DOMAIN anchors : anchors[i].nft # r.nft

InsertRecord(shard, r, seeds) ==
    LET c == ContractOf[r.nft]
        anchors == shard[c]
        prior == PriorUnshared(anchors, seeds)
    IN IF Unshared(r, seeds) /\ prior # {}
       THEN IF Number(r) > Number(anchors[Min(prior)])
            THEN [shard EXCEPT ![c] = Descending(ReplaceAt(@, Min(prior), r))]
            ELSE shard
       ELSE IF \E i \in DOMAIN anchors : anchors[i].nft = r.nft THEN shard
       ELSE [shard EXCEPT ![c] = Descending(Append(@, r))]

\* Of an EVM contract that is no seed: its greatest token, and for each EVM
\* seed the greatest token the seed has, too.
Pruned(anchors, c, seeds) ==
    LET evmSeeds == {s \in seeds : Evm(s)}
        step(kept, r) ==
            LET resolves == {s \in kept.open : Number(r) \in SeedTokens(s)}
            IN IF kept.done THEN kept
               ELSE [records |-> IF kept.records = <<>> \/ resolves # {}
                                 THEN Append(kept.records, r) ELSE kept.records,
                     open |-> kept.open \ resolves,
                     done |-> kept.open \ resolves = {}]
    IN IF c \in seeds \/ ~Evm(c) \/ Len(anchors) <= 1 THEN anchors
       ELSE FoldLeft(step, [records |-> <<>>, open |-> evmSeeds, done |-> FALSE], anchors).records

\* collect_pass2_anchors
Pass2(seeds) ==
    LET none == [c \in Contracts |-> <<>>]
        offer(shard, row) ==
            IF row.meta # Absent /\ CouldAccept(shard, Record(row), seeds)
            THEN InsertRecord(shard, Record(row), seeds) ELSE shard
        join(left, right) ==
            FoldSet(LAMBDA c, shard : FoldLeft(LAMBDA t, r : InsertRecord(t, r, seeds),
                                               shard, right[c]),
                    left, Contracts)
        merged == Scanned(LAMBDA rows : FoldLeft(offer, none, SelectSeq(rows, Wanted)),
                          join, none)
    IN [c \in Contracts |-> Pruned(merged[c], c, seeds)]

\* apply_pass2_anchors and apply_seed_nft_metadata: what the providers say of
\* a seed replaces its records.
WithMetadata(s, collected) ==
    LET given(c) == FirstOfEachToken(SelectSeq([i \in DOMAIN input.provided[c] |->
                                                    Record(input.provided[c][i])],
                                               LAMBDA r : r.doc # Absent))
    IN [s EXCEPT !.anchors = [c \in Contracts |->
            IF c \notin s.contracts THEN <<>>
            ELSE IF c \in Provided THEN Descending(given(c))
            ELSE collected[c]]]

----------------------------------------------------------------------------
StoreInit ==
    /\ \E i \in DOMAIN Inputs : input \in Inputs[i]
    /\ stage = "load"
    /\ store = EmptyStore
=============================================================================
