----------------------------- MODULE MCAnalysis -----------------------------
(* The analysis command on instances of its own: the queries of the seeds,  *)
(* the gate, the events of one candidate, the report on several, and the    *)
(* pool of threads.                                                         *)
EXTENDS SeedQueries, CandidateRun

CONSTANTS n1, n2, n3, n4, n5, n6, n7, n8, n9, c1, c2, c3, c4, c5, ethereum, solana, polygon

VARIABLE part  \* which of the instances

ThreadSymmetry == Permutations(Lanes \union Workers)

-----------------------------------------------------------------------------
(* The queries.  Two EVM contracts on ethereum, one of them a seed with two *)
(* NFTs, a collection on solana that is the other seed, and contracts on    *)
(* polygon and solana.                                                      *)
MCContractOf ==
    [n \in Nfts |-> CASE n \in {n1, n2} -> c1 [] n = n3 -> c2 [] n \in {n4, n5, n9} -> c3
                      [] n \in {n6, n8} -> c4 [] n = n7 -> c5]

MCChainOf ==
    [c \in {c1, c2, c3, c4, c5} |->
        CASE c \in {c1, c3} -> ethereum [] c \in {c2, c5} -> solana [] c = c4 -> polygon]

\* The contracts on ethereum have their smallest token in common, the one on
\* polygon has none in common with the seed.
MCTokenNumber ==
    [n \in Nfts |-> CASE n \in {n2, n3, n5, n7} -> 1 [] n \in {n1, n9} -> 2 [] n \in {n4, n6} -> 3
                       [] n = n8 -> 4]


OneChunk(rows) == <<<<rows>>>>

Plain(rows, chains, threshold, similarity) ==
    [files |-> OneChunk(rows), chains |-> chains, seeds |-> {c1, c2}, provided |-> Offline,
     threshold |-> threshold, similarity |-> similarity]

UriInputs ==
    {Plain(<<Row(n1, Absent, t[n1], 1, Absent), Row(n2, Absent, t[n2], i[n2], Absent),
             Row(n3, Absent, t[n3], 1, Absent), Row(n4, Absent, t[n4], i[n4], Absent),
             Row(n6, Absent, t[n6], i[n6], Absent), Row(n7, Absent, t[n7], 1, Absent)>>,
           {}, NoNames, 101) :
        t \in {g \in [{n1, n2, n3, n4, n6, n7} -> {Absent, 1, 2}] :
                g[n1] # 2 /\ g[n3] \in {Absent, 1} /\ g[n7] \in {Absent, 1}},
        i \in {g \in [{n2, n4, n6} -> {1, 2}] : g[n6] = 1}}

MCStrings ==
    {<<3, 3>>, <<1, 2, 1>>, <<1, 1, 2>>, <<1, 2, 1, 2>>, <<1, 2, 2, 1>>, <<1, 2, 1, 2, 1>>}

NameInputs ==
    {Plain(<<Row(n1, f[n1], Absent, Absent, Absent), Row(n2, f[n2], Absent, Absent, Absent),
             Row(n3, f[n3], Absent, Absent, Absent), Row(n4, f[n4], Absent, Absent, Absent),
             Row(n7, f[n7], Absent, Absent, Absent)>>,
           {}, threshold, 101) :
        f \in {g \in [{n1, n2, n3, n4, n7} -> MCStrings \union {Unusable}] :
                /\ g[n1] # Unusable /\ g[n2] \in {g[n1], <<1, 2, 1>>}
                /\ g[n3] \in {<<1, 2, 1>>, <<1, 2, 1, 2>>}
                /\ g[n7] \in {<<1, 2, 1>>, <<1, 2, 1, 2, 1>>, Unusable}},
        threshold \in {0, 80, 90, 101}}

MCDocumentTerms ==
    [d \in 1..6 |-> CASE d = 1 -> {} [] d = 2 -> {1} [] d = 3 -> {1, 2}
                       [] d = 4 -> {1, 2, 3} [] d \in {5, 6} -> {1, 2, 3, 4}]

MetaInputs ==
    {Plain(<<Row(n1, Absent, Absent, Absent, f[n1]), Row(n2, Absent, Absent, Absent, f[n2]),
             Row(n3, Absent, Absent, Absent, f[n3]), Row(n4, Absent, Absent, Absent, f[n4]),
             Row(n5, Absent, Absent, Absent, f[n5]), Row(n6, Absent, Absent, Absent, f[n6]),
             Row(n8, Absent, Absent, Absent, 2), Row(n9, Absent, Absent, Absent, 1)>>,
           {}, NoNames, similarity) :
        f \in {g \in [{n1, n2, n3, n4, n5, n6} -> {Absent} \union 1..6] :
                /\ g[n1] \in {Absent, 1, 5} /\ g[n2] \in {2, 4} /\ g[n3] \in {1, 3}
                /\ g[n5] \in {1, 4} /\ g[n6] \in {Absent, 4}},
        similarity \in {0, 40, 80, 101}}

LoadRows ==
    {Row(n4, <<1, 2>>, 1, Absent, 4), Row(n4, Unusable, Absent, 1, 2),
     Row(n4, <<3, 3>>, 2, Absent, Absent), Row(n5, Absent, 1, 1, 3),
     Row(n1, <<1, 2>>, 1, 2, 1), Row(NoNft, <<1, 2>>, 1, 2, 1)}

Shapes(r) ==
    {<< <<<<r[1]>>, <<r[2]>>, <<r[3]>>>> >>, << <<>>, <<<<r[1]>>>>, <<<<r[2], r[3]>>>> >>}

Downloaded ==
    {[s \in {c1} |-> <<Row(n1, <<1, 2>>, 1, 1, 4), Row(n2, Absent, 2, 1, 3)>>],
     [s \in {c1} |-> <<Row(n1, <<1, 2>>, 1, 1, 4), Row(n1, Absent, 2, 1, 3)>>],
     [s \in {c1} |-> <<>>]}

LoadInputs ==
    UNION {{[files |-> shape, chains |-> chains, seeds |-> {c1}, provided |-> provided,
             threshold |-> 90, similarity |-> 40] :
                shape \in Shapes(r), chains \in {{}, {ethereum}, {solana}},
                provided \in Downloaded \union {Offline}} :
            r \in [1..3 -> LoadRows]}

MCInputs == <<UriInputs, NameInputs, MetaInputs, LoadInputs>>

-----------------------------------------------------------------------------
(* The run after them.                                                      *)
\* Candidates 1 and 2 are on ethereum and 5 on solana; of the seeds 3 is on
\* ethereum and 4 on solana.
MCContractChain == <<"ethereum", "ethereum", "ethereum", "solana", "solana">>
MCResidentNfts == <<3, 1, 9, 9, 2>>
MCKindOrders == {KindOrder, Reverse(KindOrder)}


-----------------------------------------------------------------------------
\* What the providers may say.
QuietSeed == [license |-> FALSE, controllers |-> {}, keyed |-> TRUE,
              slug |-> Missing, owners |-> {}, whole |-> TRUE,
              counterparties |-> {}]
QuietCandidate == [metadata |-> <<{}>>, owner |-> Missing,
                   fallback |-> Missing, admins |-> {}, storage |-> TRUE,
                   rpc |-> TRUE, slug |-> Missing]

Operator == 11

\* Two EVM candidates and one on solana, two seeds.
GateRegistries ==
    {{<<1, 3>>, <<2, 3>>, <<5, 3>>, <<1, 4>>, <<5, 4>>}, {<<1, 3>>, <<1, 4>>, <<2, 4>>},
     {<<1, 3>>, <<2, 3>>, <<2, 4>>}}

GateAnswers(registered) ==
    {[seed |-> 3 :> [QuietSeed EXCEPT !.license = license, !.controllers = {Operator},
                        !.slug = 51, !.owners = owners, !.whole = whole,
                        !.counterparties = {2}]
              @@ 4 :> [QuietSeed EXCEPT !.keyed = keyed,
                          !.controllers = IF keyed THEN {Operator} ELSE {}],
      candidate |-> 1 :> [QuietCandidate EXCEPT !.metadata = metadata, !.owner = owner,
                             !.storage = storage, !.rpc = rpc, !.slug = slug]
              @@ 2 :> [QuietCandidate EXCEPT !.owner = IF owner = Missing THEN Operator ELSE Missing]
              @@ 5 :> [QuietCandidate EXCEPT !.metadata = <<IF slug = 51 THEN {} ELSE {owner} \ {Missing}>>,
                                             !.slug = slug],
      batch |-> batch,
      holds |-> [r \in registered |-> IF r = <<1, 3>> THEN holds ELSE "no"]] :
        license \in BOOLEAN, owners \in {{}, {1}}, whole \in BOOLEAN, keyed \in BOOLEAN,
        metadata \in {<<>>, <<{}>>}, owner \in {Missing, Operator},
        storage \in BOOLEAN, rpc \in BOOLEAN, slug \in {Missing, 51},
        batch \in BOOLEAN, holds \in {"yes", "no", "fail"}}

GateWorlds ==
    UNION {{[registry |-> registered, answers |-> a, hits |-> <<>>, events |-> <<>>] :
               a \in {a \in GateAnswers(registered) :
                        a.candidate[1].rpc \/ (a.candidate[1].storage /\ ~ a.batch)}} :
           registered \in GateRegistries}

NoRows == <<>>
GateRows == {NoRows, 1 :> [controllers |-> {Operator}, truncated |-> FALSE]}

-----------------------------------------------------------------------------
\* One candidate and the events its seed's copy may have seen: an operator,
\* its partner and three buyers.
Partner == 12
Buyers == {13, 14, 15}

Moved(tx, token, from, to, block) ==
    [ATransfer EXCEPT !.tx_hash = tx, !.token_id = token, !.from = from, !.to = to,
                      !.block_number = block, !.timestamp = 100 * block,
                      !.is_mint = from = Zero]

\* A sale whose payment is known in parts: two of proceeds, one of royalty.
Sold(tx, token, from, to, block, proceeds) ==
    [ASale EXCEPT !.tx_hash = tx, !.token_id = token, !.seller = from, !.buyer = to,
                  !.block_number = block, !.timestamp = 100 * block,
                  !.native_amount = proceeds + 1,
                  !.seller_proceeds_native = proceeds, !.marketplace_fee_native = 0,
                  !.royalty_fee_native = 1, !.royalty_recipient = Operator]

Sent(tx, id, from, to, block, value) ==
    [ANative EXCEPT !.tx_hash = tx, !.event_id = id, !.from = from, !.to = to,
                    !.block_number = block, !.value_native = value,
                    !.timestamp = 100 * block]

\* What may have happened, in pieces that come or do not come.
Pieces ==
    {[id |-> 1, transfers |-> <<>>, native |-> <<>>,
      sales |-> <<Sold(31, 1, Operator, Partner, 20, 2)>>],
     [id |-> 2, transfers |-> <<>>, native |-> <<>>,
      sales |-> <<Sold(32, 1, Partner, Operator, 21, 2)>>],
     [id |-> 3, transfers |-> <<>>, native |-> <<>>,
      sales |-> <<Sold(33, 1, Operator, 10, 22, 4)>>],
     [id |-> 4, transfers |-> <<>>, native |-> <<>>,
      sales |-> <<Sold(34, 1, 10, 13, 23, 4)>>],
     [id |-> 5, native |-> <<>>, sales |-> <<>>,
      transfers |-> <<Moved(35, 2, Operator, 13, 30), Moved(35, 3, Operator, 14, 30),
                      Moved(35, 4, Operator, 15, 30)>>],
     [id |-> 6, native |-> <<>>, sales |-> <<>>,
      transfers |-> <<Moved(36, 2, 13, 14, 31), Moved(37, 2, 14, 15, 32)>>],
     [id |-> 7, native |-> <<>>, sales |-> <<>>,
      transfers |-> <<Moved(38, 2, 13, 15, 31)>>],
     [id |-> 8, native |-> <<>>, sales |-> <<>>,
      transfers |-> <<Moved(39, 4, 15, Operator, 33)>>],
     [id |-> 9, sales |-> <<>>,
      transfers |-> <<Moved(22, 5, Zero, 14, 12), Moved(22, 6, Zero, 14, 12)>>,
      native |-> <<Sent(22, 1, 14, 1, 12, 10)>>],
     [id |-> 10, sales |-> <<>>, transfers |-> <<>>,
      native |-> <<Sent(23, 1, 15, Operator, 8, 5), Sent(35, 2, Operator, 16, 34, 7)>>]}

Told(pieces, Field(_)) ==
    LET order == Sorted(pieces, LAMBDA p, q : p.id < q.id)
    IN  FlattenSeq([i \in DOMAIN order |-> Field(order[i])])

Receipts(transfers, sales, native, payer) ==
    [tx \in {e.tx_hash : e \in ToSet(transfers) \cup ToSet(sales) \cup ToSet(native)} |->
        [gas_native |-> 1 + (tx % 3), fee_payer |-> payer]]

HoldersOf(owner) ==
    <<[AHolder EXCEPT !.token_id = 1, !.owner = owner],
      [AHolder EXCEPT !.token_id = 5, !.owner = 14]>>

EventsFor(pieces, owner, status, rate) ==
    LET transfers == Told(pieces, LAMBDA p : p.transfers)
        sales == Told(pieces, LAMBDA p : p.sales)
        native == Told(pieces, LAMBDA p : p.native)
    IN  [bundle |-> [ABundle EXCEPT !.transfers = transfers, !.sales = sales,
                                    !.holders = HoldersOf(owner),
                                    !.quotes.native = rate,
                                    !.quality.holders = status],
         native |-> native,
         receipts |-> Receipts(transfers, sales, native, Operator)]

CalmAnswers ==
    [seed |-> 3 :> QuietSeed @@ 4 :> [QuietSeed EXCEPT !.slug = 52],
     candidate |-> 1 :> [QuietCandidate EXCEPT !.owner = Operator]
                   @@ 2 :> [QuietCandidate EXCEPT !.owner = Operator]
                   @@ 5 :> QuietCandidate,
     batch |-> TRUE, holds |-> [r \in {1, 2, 5} \X {3, 4} |-> "no"]]

EventWorlds ==
    {[registry |-> {<<1, 3>>}, answers |-> CalmAnswers, hits |-> (<<1, 3>> :> {1}),
      events |-> 1 :> EventsFor(pieces, v[1], v[2], v[3])] :
        pieces \in SUBSET Pieces,
        v \in {<<13, "Complete", 2>>, <<10, "Truncated", Missing>>}}

-----------------------------------------------------------------------------
(* Several candidates: 1 and 2 may have sold in one transaction, an operator *)
(* of both was funded once, and on solana a transaction has the same number. *)
SharedNative == <<Sent(43, 1, 15, Operator, 18, 5), Sent(42, 2, 14, 2, 19, 6)>>

ReportOf1(rate) ==
    [EventsFor({}, 13, "Complete", rate) EXCEPT
        !.bundle.sales = <<Sold(41, 1, Operator, 13, 20, 2)>>,
        !.native = SharedNative,
        !.receipts = [tx \in {41, 43} |-> [gas_native |-> tx % 3, fee_payer |-> Operator]]]

ReportOf2(rate, tx, seller, excluded) ==
    [EventsFor({}, 14, "Complete", rate) EXCEPT
        !.bundle.sales = <<Sold(tx, 1, seller, 14, 20, 3)>>,
        !.bundle.transfers = <<Moved(42, 5, Zero, 14, 19)>>,
        !.bundle.quality.excluded_non_nft = excluded,
        !.native = SharedNative,
        !.receipts = [t \in {tx, 42, 43} |-> [gas_native |-> t % 3, fee_payer |-> Operator]]]

SolanaSale == [Sold(41, 1, 21, 23, 7, 2) EXCEPT !.gas_native = 1, !.fee_payer = 21,
                   !.usd_amount = 9, !.seller_proceeds_usd = 6,
                   !.marketplace_fee_usd = 0, !.royalty_fee_usd = 3]

SolanaFlow == [AFlow EXCEPT !.tx_hash = 45, !.from = 21, !.to = 22, !.kind = "Withdrawal",
                            !.native_amount = 4, !.usd_amount = 12, !.gas_native = 2,
                            !.fee_payer = 21]

ReportOf5 ==
    [EventsFor({}, 23, "Complete", 3) EXCEPT
        !.bundle.sales = <<SolanaSale>>, !.bundle.flows = <<SolanaFlow>>,
        !.receipts = 41 :> [gas_native |-> 1, fee_payer |-> 21]
                     @@ 45 :> [gas_native |-> 2, fee_payer |-> 21]]

ReportAnswers(open) ==
    [CalmAnswers EXCEPT !.seed = [s \in {3, 4} |-> [@[s] EXCEPT !.license = s \in open]]]

ReportRegistries ==
    {{<<1, 3>>, <<2, 3>>, <<5, 3>>, <<2, 4>>, <<5, 4>>}, {<<1, 3>>, <<2, 4>>, <<5, 4>>},
     {<<1, 3>>, <<2, 3>>, <<1, 4>>, <<5, 4>>}}

ReportWorlds ==
    {[registry |-> registered, answers |-> ReportAnswers(open),
      hits |-> [r \in registered |-> IF r[2] = 3 THEN {1} ELSE {1, 2}],
      events |-> 1 :> ReportOf1(rate) @@ 2 :> ReportOf2(rate, tx, seller, excluded)
                 @@ 5 :> ReportOf5] :
        registered \in ReportRegistries, open \in {{}, {3}, {4}}, rate \in {2, Missing},
        tx \in {41, 44}, seller \in {Operator, Partner}, excluded \in BOOLEAN}

\* Three candidates whose files the threads write, whoever fails or cancels.
PoolWorlds ==
    {[registry |-> {<<1, 3>>, <<2, 3>>, <<5, 3>>}, answers |-> CalmAnswers,
      hits |-> [r \in {<<1, 3>>, <<2, 3>>, <<5, 3>>} |-> {1}],
      events |-> [c \in {1, 2, 5} |-> EventsFor({}, 13, "Complete", 2)]]}

-----------------------------------------------------------------------------
(* The instances together, each with the other components at rest.          *)
QueriesAtRest ==
    /\ input = CHOOSE i \in LoadInputs : i.provided = Offline
    /\ stage = "done" /\ store = EmptyStore
    /\ active = {} /\ pending = {} /\ reports = <<>> /\ edges = <<>>
    /\ scratch = [w \in Lanes |-> UriScratch]

EmptyWorld == [registry |-> {}, answers |-> CalmAnswers, hits |-> <<>>, events |-> <<>>]

AnalysisInit ==
    \/ part = "queries" /\ QueryInit /\ RunInit(EmptyWorld, NoRows)
    \/ /\ QueriesAtRest
       /\ \/ part = "gate" /\ \E w \in GateWorlds, rows \in GateRows : RunInit(w, rows)
          \/ part = "events" /\ \E w \in EventWorlds : RunInit(w, NoRows)
          \/ part = "report" /\ \E w \in ReportWorlds : RunInit(w, NoRows)
          \/ part = "pool" /\ \E w \in PoolWorlds : RunInit(w, NoRows)

Undisturbed == cancelled' = FALSE /\ writer' # "dead"

AnalysisNext ==
    /\ UNCHANGED part
    /\ \/ /\ part = "queries" /\ QueryNext
          /\ UNCHANGED <<gateVars, poolVars, runVars>>
       \/ /\ part # "queries" /\ (part = "gate" => gate # "done")
          /\ RunNext /\ (part # "pool" => Undisturbed)
          /\ UNCHANGED <<input, stage, store, queryVars>>
=============================================================================
