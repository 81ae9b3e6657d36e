------------------------- MODULE CandidateEvidence --------------------------
(***************************************************************************)
(* The evidence one candidate is analysed from and who is who in it: the   *)
(* bundle (enrich/types.rs of analysis/crates/core), the graph of its      *)
(* addresses with Tarjan's components (analysis/graph.rs), the victims     *)
(* (enrich/roles.rs), the role and the evidence of every address           *)
(* (analysis/attribution.rs), the lifecycle (analysis/lifecycle.rs), and   *)
(* how an EVM candidate's native transfers become evidence                 *)
(* (enrich/value_flow.rs, mint_payment.rs).  EvmEnrichment models the      *)
(* requests; here every request was answered.                              *)
(*                                                                         *)
(* Addresses are integers in the order of their normalised text: Empty is  *)
(* the empty string and Zero the zero address, which is a nobody on an EVM *)
(* chain and an ordinary key on Solana.  Amounts, times, blocks and        *)
(* optional fields are integers and Missing stands for None.  Tokens and   *)
(* transactions are naturals, of which 0 is the empty text.                *)
(***************************************************************************)
EXTENDS Integers, Sequences, FiniteSets, FiniteSetsExt, SequencesExt

CONSTANT BoundaryBlocks  \* VALUE_FLOW_BOUNDARY_BLOCKS

ASSUME BoundaryAssumption == BoundaryBlocks \in Nat

Missing == -1
Empty == -1
Zero == 0

ATransfer == [tx_hash |-> 1, token_id |-> 1, from |-> Empty, to |-> Empty,
              timestamp |-> Missing, block_number |-> Missing,
              is_mint |-> FALSE, gas_native |-> Missing, fee_payer |-> Empty,
              mint_payment_native |-> Missing, mint_payment_usd |-> Missing,
              mint_payment_receiver |-> Empty]

\* currency: "native", "stable" (a dollar stablecoin) or "other"; the parts of
\* a payment are in the currency of the sale.
ASale == [tx_hash |-> 1, token_id |-> 1, seller |-> Empty, buyer |-> Empty,
          timestamp |-> Missing, block_number |-> Missing,
          native_amount |-> Missing, usd_amount |-> Missing,
          currency |-> "native",
          seller_proceeds_native |-> Missing, seller_proceeds_usd |-> Missing,
          marketplace_fee_native |-> Missing, marketplace_fee_usd |-> Missing,
          royalty_fee_native |-> Missing, royalty_fee_usd |-> Missing,
          royalty_recipient |-> Empty,
          gas_native |-> Missing, fee_payer |-> Empty]

AFlow == [tx_hash |-> 1, event_id |-> Missing, from |-> Empty, to |-> Empty,
          kind |-> "Funding", native_amount |-> Missing,
          usd_amount |-> Missing, timestamp |-> Missing,
          gas_native |-> Missing, fee_payer |-> Empty]

ADeployment == [tx_hash |-> 1, timestamp |-> Missing, gas_native |-> Missing,
                fee_payer |-> Empty]

AHolder == [token_id |-> 1, owner |-> Empty, balance |-> Missing]

AQuality == [transfers |-> "Complete", sales |-> "Complete",
             holders |-> "Complete", prices |-> "Complete",
             assets |-> "Complete", histories |-> "Complete",
             gas |-> "Complete", value_flows |-> "Complete",
             excluded_non_nft |-> FALSE]

NothingRequested ==
    [f \in DOMAIN AQuality |-> IF f = "excluded_non_nft" THEN FALSE
                               ELSE "NotRequested"]

SignalKinds == {"seed_open_license", "verified_migration",
                "authorized_reissue", "official_controller_continuity",
                "official_collection_relation", "seed_nft_interaction"}

\* LegitSignals: which flags are set, the evidence keys, and whether the
\* verification ran to completion.
NoSignals == [flags |-> {}, keys |-> {}, verification_complete |-> FALSE]

IsLegitDuplicate(signals) == signals.flags # {}

\* merge_or of the signals of all relations, whose order does not count.
Merged(relations) ==
    [flags |-> UNION {relations[seed].flags : seed \in DOMAIN relations},
     keys |-> UNION {relations[seed].keys : seed \in DOMAIN relations},
     verification_complete |->
        \E seed \in DOMAIN relations : relations[seed].verification_complete]

\* finalize_legit_signals: the relations' signals merged, or the signals the
\* bundle had when no relation was probed.
FinalizeLegit(legit, relations) ==
    IF DOMAIN relations # {}
    THEN [Merged(relations) EXCEPT
             !.verification_complete = @ \/ Merged(relations).flags # {}]
    ELSE [legit EXCEPT !.verification_complete = legit.flags # {}]

\* relations is a function from the seeds that were probed; quotes are the
\* rates, in dollars, of the currencies the sales name.
NoQuotes == [native |-> Missing, stable |-> Missing, other |-> Missing]

ABundle == [contract |-> 1, chain |-> "ethereum", address |-> Empty,
            transfers |-> <<>>, sales |-> <<>>, holders |-> <<>>,
            flows |-> <<>>, quotes |-> NoQuotes, quality |-> AQuality,
            controllers |-> {}, deployment |-> <<>>,
            deployment_timestamp |-> Missing,
            collection_nft_count |-> Missing,
            collection_nft_count_complete |-> FALSE,
            legit |-> NoSignals, relations |-> <<>>]

\* filtered_for_analysis: a scope keeps its own seeds' relations only.
FilteredForAnalysis(bundle, seeds) ==
    LET kept == [seed \in DOMAIN bundle.relations \cap seeds |->
                    bundle.relations[seed]]
    IN  [bundle EXCEPT !.relations = kept,
                       !.legit = FinalizeLegit(NoSignals, kept)]

IsEvm(bundle) == bundle.chain # "solana"

\* unwrap_or(0.0).max(0.0)
OrZero(amount) == IF amount < 0 THEN 0 ELSE amount

\* The run-time rate of the chain's coin, if there is one.
SpotRate(bundle) == OrZero(bundle.quotes.native)

Settled(status) == status \in {"Complete", "Empty"}

\* norm_addr of the analyses: the zero address of an EVM chain is nobody.
Norm(bundle, address) ==
    IF IsEvm(bundle) /\ address = Zero THEN Empty ELSE address

Usable(bundle, address) == Norm(bundle, address) # Empty

MintPaid(t) == t.mint_payment_native > 0 \/ t.mint_payment_usd > 0
SalePaid(s) == s.native_amount > 0 \/ s.usd_amount > 0

Held(bundle) ==
    {h \in ToSet(bundle.holders) : h.balance = Missing \/ h.balance > 0}

Earliest(times) ==
    LET known == times \ {Missing}
    IN  IF known = {} THEN Missing ELSE Min(known)

\* A finite set in a strict order of its elements.
Sorted(S, Before(_, _)) ==
    [i \in 1..Cardinality(S) |->
        CHOOSE x \in S : Cardinality({y \in S : Before(y, x)}) = i - 1]

SumOf(indexes, Amount(_)) ==
    FoldSet(LAMBDA i, total : total + Amount(i), 0, indexes)

-----------------------------------------------------------------------------
(* The graph of addresses: its sorted addresses and, for each vertex (its  *)
(* place in them), the vertices it points to, in order.                   *)

\* AddressGraph::build, from the set of <<from, to>> pairs the callers keep.
BuildGraph(pairs) ==
    LET addresses == Sorted({p[1] : p \in pairs} \cup
                                  {p[2] : p \in pairs}, <)
    IN  [addresses |-> addresses,
         edges |-> [v \in DOMAIN addresses |->
            Sorted({w \in DOMAIN addresses :
                             <<addresses[v], addresses[w]>> \in pairs}, <)]]

Linked(from, to) == from # Empty /\ to # Empty /\ from # to

FromTransfers(transfers) ==
    BuildGraph({<<t.from, t.to>> :
                t \in {t \in ToSet(transfers) : Linked(t.from, t.to)}})

FromSales(sales) ==
    BuildGraph({<<s.seller, s.buyer>> :
                s \in {s \in ToSet(sales) : Linked(s.seller, s.buyer)}})

Vertices(graph) == DOMAIN graph.addresses

VertexOf(graph, address) ==
    {v \in Vertices(graph) : graph.addresses[v] = address}

-----------------------------------------------------------------------------
(* Tarjan                                                                  *)

TarjanNew(graph) ==
    [next |-> 0, indices |-> [v \in Vertices(graph) |-> Missing],
     lowlink |-> [v \in Vertices(graph) |-> 0], stack |-> <<>>,
     components |-> <<>>, frames |-> <<>>]

\* Mutant: what was ever discovered counts as on the stack.
EverDiscovered(t, vertex) == t.indices[vertex] # Missing

OnStack(t, vertex) == vertex \in ToSet(t.stack)

\* discover and the frame that walks the vertex's edges.
Discover(t, vertex, parent) ==
    [t EXCEPT !.next = @ + 1, !.indices[vertex] = t.next,
              !.lowlink[vertex] = t.next, !.stack = Append(@, vertex),
              !.frames = Append(@, [vertex |-> vertex, edge |-> 1,
                                    parent |-> parent])]

Lower(t, vertex, bound) ==
    [t EXCEPT !.lowlink[vertex] = IF bound < @ THEN bound ELSE @]

\* An edge to a vertex that left the stack belongs to a finished component.
FollowEdge(graph, t) ==
    LET frame == Last(t.frames)
        next == graph.edges[frame.vertex][frame.edge]
        moved == [t EXCEPT !.frames[Len(t.frames)].edge = @ + 1]
    IN  IF t.indices[next] = Missing
        THEN Discover(moved, next, frame.vertex)
        ELSE IF OnStack(t, next)
        THEN Lower(moved, frame.vertex, t.indices[next])
        ELSE moved

\* The frame is done: its parent learns its lowlink, and a root takes its
\* component off the stack.
Complete(t) ==
    LET frame == Last(t.frames)
        v == frame.vertex
        popped == [t EXCEPT !.frames = Front(@)]
        told == IF frame.parent = Missing THEN popped
                ELSE Lower(popped, frame.parent, t.lowlink[v])
        at == CHOOSE i \in DOMAIN t.stack : t.stack[i] = v
        members == {t.stack[i] : i \in at..Len(t.stack)}
    IN  IF told.lowlink[v] # told.indices[v] THEN told
        ELSE [told EXCEPT !.stack = SubSeq(@, 1, at - 1),
                          !.components = Append(@, Sorted(members, <))]

\* The loop of visit_iterative, until no frame is left: an edge is followed
\* once and a frame completed once, which bounds its rounds.
RunFrames(graph, start) ==
    LET walk(t) ==
            LET frame == Last(t.frames)
            IN  IF frame.edge <= Len(graph.edges[frame.vertex])
                THEN FollowEdge(graph, t) ELSE Complete(t)
        vertices == Cardinality(Vertices(graph))
    IN  FoldLeft(LAMBDA t, round : IF t.frames = <<>> THEN t ELSE walk(t),
                 start, [round \in 1..(vertices * vertices + vertices) |-> round])

\* strongly_connected_components: in the order Tarjan finishes them.
Components(graph) ==
    FoldLeft(LAMBDA t, v : IF t.indices[v] # Missing THEN t
                           ELSE RunFrames(graph, Discover(t, v, Missing)),
             TarjanNew(graph), [v \in Vertices(graph) |-> v]).components

-----------------------------------------------------------------------------
(* roles.rs                                                                *)

PaidAcquisitions(bundle) ==
    {<<Norm(bundle, t.to), t.token_id>> :
        t \in {t \in ToSet(bundle.transfers) : t.is_mint /\ MintPaid(t)}}
    \cup {<<Norm(bundle, s.buyer), s.token_id>> :
        s \in {s \in ToSet(bundle.sales) : SalePaid(s)}}

Holdings(bundle) ==
    {<<Norm(bundle, h.owner), h.token_id>> : h \in Held(bundle)}

\* The paid buyers that still hold what they paid for; nobody, when the
\* snapshot of the holders is not whole.
Victims(bundle) ==
    IF ~ Settled(bundle.quality.holders) THEN {}
    ELSE {p[1] : p \in {p \in PaidAcquisitions(bundle) \cap Holdings(bundle) :
                            p[1] # Empty /\ p[2] # 0}}

-----------------------------------------------------------------------------
(* attribution.rs                                                          *)

Controllers(bundle) ==
    {Norm(bundle, a) : a \in bundle.controllers} \ {Empty}

DeploymentPayer(bundle) ==
    {Norm(bundle, bundle.deployment[i].fee_payer) :
        i \in DOMAIN bundle.deployment} \ {Empty}

HighVolumeSellers(bundle) ==
    {a \in {Norm(bundle, s.seller) : s \in ToSet(bundle.sales)} \ {Empty} :
        Cardinality({i \in DOMAIN bundle.sales :
                        Norm(bundle, bundle.sales[i].seller) = a}) >= 3}

StarDistributors(bundle, graph) ==
    {Norm(bundle, graph.addresses[v]) :
        v \in {v \in Vertices(graph) : Len(graph.edges[v]) >= 3}} \ {Empty}

OperatorEvidence(bundle, graph) ==
    Controllers(bundle) \cup DeploymentPayer(bundle)
    \cup HighVolumeSellers(bundle) \cup StarDistributors(bundle, graph)
    \cup ({Norm(bundle, f.to) :
            f \in {f \in ToSet(bundle.flows) : f.kind = "Withdrawal"}}
          \ {Empty})

\* Every address the evidence names.  (A token-less holder or buyer is named
\* by nothing else here.)
Attributed(bundle) ==
    (Controllers(bundle) \cup DeploymentPayer(bundle)
     \cup {h[1] : h \in {h \in Holdings(bundle) : h[2] # 0}}
     \cup {p[1] : p \in {p \in PaidAcquisitions(bundle) : p[2] # 0}}
     \cup UNION {{Norm(bundle, s.seller), Norm(bundle, s.buyer)} :
                    s \in ToSet(bundle.sales)}
     \cup UNION {{Norm(bundle, t.from), Norm(bundle, t.to)} :
                    t \in ToSet(bundle.transfers)}
     \cup UNION {{Norm(bundle, f.from), Norm(bundle, f.to)} :
                    f \in ToSet(bundle.flows)}) \ {Empty}

Roles(bundle) ==
    LET victims == Victims(bundle)
    IN  [a \in Attributed(bundle) |->
            IF a \in victims THEN "LikelyVictim" ELSE "SuspectedOperator"]

HasRole(roles, address, role) ==
    address \in DOMAIN roles /\ roles[address] = role

EvidenceRow(kind, token, tx) == [evidence_type |-> kind, token |-> token, tx |-> tx]

\* The addresses of the sale cycles an operator takes part in, each cycle
\* with its members.
MaliciousSaleCycles(bundle, graph) ==
    LET sales == FromSales(bundle.sales)
        operators == OperatorEvidence(bundle, graph)
        members == {{Norm(bundle, sales.addresses[v]) : v \in ToSet(c)} :
                        c \in {c \in ToSet(Components(sales)) : Len(c) >= 2}}
    IN  {c \in members : c \cap operators # {}}

\* push_evidence drops a row of no address; a kind is told once per token
\* and transaction.
EvidenceRows(bundle, graph) ==
    LET cycles == MaliciousSaleCycles(bundle, graph)
        pushed ==
            {<<a, EvidenceRow("ControllerOrAuthority", 0, 0)>> :
                a \in bundle.controllers}
            \cup {<<d.fee_payer, EvidenceRow("DeploymentFeePayer", 0, d.tx_hash)>> :
                d \in ToSet(bundle.deployment)}
            \cup {<<h.owner, EvidenceRow("CurrentHolder", h.token_id, 0)>> :
                h \in Held(bundle)}
            \cup {<<a, EvidenceRow("HighVolumeSeller", 0, 0)>> :
                a \in HighVolumeSellers(bundle)}
            \cup {<<a, EvidenceRow("StarDistributor", 0, 0)>> :
                a \in StarDistributors(bundle, graph)}
            \cup {<<f.to, EvidenceRow("WithdrawalRecipient", 0, f.tx_hash)>> :
                f \in {f \in ToSet(bundle.flows) : f.kind = "Withdrawal"}}
            \cup {<<f.to, EvidenceRow("CashoutParticipant", 0, f.tx_hash)>> :
                f \in {f \in ToSet(bundle.flows) : f.kind = "Cashout"}}
            \cup UNION {
                {<<t.from, EvidenceRow("EventSender", t.token_id, t.tx_hash)>>,
                 <<t.to, EvidenceRow("EventRecipient", t.token_id, t.tx_hash)>>,
                 IF t.is_mint
                 THEN <<t.to, EvidenceRow("MintRecipient", t.token_id, t.tx_hash)>>
                 ELSE <<t.from, EvidenceRow("SubsequentPropagation",
                                    t.token_id, t.tx_hash)>>} :
                t \in ToSet(bundle.transfers)}
            \cup UNION {
                {<<s.seller, EvidenceRow("EventSender", s.token_id, s.tx_hash)>>,
                 <<s.buyer, EvidenceRow("EventRecipient", s.token_id, s.tx_hash)>>,
                 <<s.seller, EvidenceRow("SubsequentPropagation",
                                 s.token_id, s.tx_hash)>>} :
                s \in ToSet(bundle.sales)}
            \cup {<<s.buyer, EvidenceRow("PaidAcquisition", s.token_id, s.tx_hash)>> :
                s \in {s \in ToSet(bundle.sales) : SalePaid(s)}}
            \cup UNION {
                {<<a, EvidenceRow("MaliciousSaleCycle", s.token_id, s.tx_hash)>> :
                    a \in {s.seller, s.buyer}} :
                s \in {s \in ToSet(bundle.sales) : \E c \in cycles :
                          {Norm(bundle, s.seller), Norm(bundle, s.buyer)}
                          \subseteq c}}
    IN  {<<Norm(bundle, r[1]), r[2]>> :
            r \in {r \in pushed : Usable(bundle, r[1])}}

Attribution(bundle, graph, roles) ==
    LET rows == EvidenceRows(bundle, graph)
    IN  [a \in DOMAIN roles |->
            [role |-> roles[a],
             evidence |-> {r[2] : r \in {r \in rows : r[1] = a}}]]

-----------------------------------------------------------------------------
(* lifecycle.rs                                                            *)

Elapsed(start, end) ==
    IF start = Missing \/ end = Missing \/ end < start THEN Missing
    ELSE end - start

VictimTokens(bundle, roles) ==
    {<<h.owner, h.token_id>> :
        h \in {h \in Held(bundle) : HasRole(roles, h.owner, "LikelyVictim")}}

\* How long the first victim held what it bought: the first sale at that
\* moment whose buyer holds the token now, paid or not, before the first
\* paid mint; until it moved on, or until the analysis.
HoldingSeconds(bundle, tokens, acquired, now) ==
    LET bought == SelectInSeq(bundle.sales, LAMBDA s :
            s.timestamp = acquired /\ <<s.buyer, s.token_id>> \in tokens)
        minted == SelectInSeq(bundle.transfers, LAMBDA t :
            t.is_mint /\ t.timestamp = acquired /\ MintPaid(t)
            /\ <<t.to, t.token_id>> \in tokens)
        first == IF bought # 0
                 THEN <<bundle.sales[bought].buyer,
                        bundle.sales[bought].token_id>>
                 ELSE <<bundle.transfers[minted].to,
                        bundle.transfers[minted].token_id>>
        disposed == Earliest(
            {t.timestamp : t \in {t \in ToSet(bundle.transfers) :
                t.timestamp > acquired /\ <<t.from, t.token_id>> = first}}
            \cup {s.timestamp : s \in {s \in ToSet(bundle.sales) :
                s.timestamp > acquired /\ <<s.seller, s.token_id>> = first}})
        stillHolds == \E h \in Held(bundle) : <<h.owner, h.token_id>> = first
    IN  IF bought = 0 /\ minted = 0 THEN Missing
        ELSE IF disposed # Missing THEN disposed - acquired
        ELSE IF stillHolds /\ now >= acquired THEN now - acquired
        ELSE Missing

Lifecycle(bundle, roles, now) ==
    LET tokens == VictimTokens(bundle, roles)
        mints == {t \in ToSet(bundle.transfers) : t.is_mint}
        moves == ToSet(bundle.transfers) \ mints
        sales == ToSet(bundle.sales)
        times == {t.timestamp : t \in ToSet(bundle.transfers)}
        firstActivity == Earliest(times \cup {s.timestamp : s \in sales})
        firstTransfer == Earliest({t.timestamp : t \in moves})
        firstSale == Earliest({s.timestamp : s \in sales})
        firstVictim == Earliest(
            {t.timestamp : t \in {t \in mints :
                MintPaid(t) /\ <<t.to, t.token_id>> \in tokens}}
            \cup {s.timestamp : s \in {s \in sales :
                SalePaid(s) /\ <<s.buyer, s.token_id>> \in tokens}})
        deployed == bundle.deployment_timestamp
    IN  [deployment |-> deployed, firstActivity |-> firstActivity,
         firstMint |-> Earliest({t.timestamp : t \in mints}),
         firstTransfer |-> firstTransfer, firstSale |-> firstSale,
         firstVictim |-> firstVictim,
         deploymentToTransfer |-> Elapsed(deployed, firstTransfer),
         deploymentToSale |-> Elapsed(deployed, firstSale),
         deploymentToVictim |-> Elapsed(deployed, firstVictim),
         activityToVictim |-> Elapsed(firstActivity, firstVictim),
         holding |-> IF firstVictim = Missing THEN Missing
                     ELSE HoldingSeconds(bundle, tokens, firstVictim, now)]

\* What each malicious address received, in dollars: its proceeds as a
\* seller and its royalties.
ReceivedUsd(bundle, roles, address) ==
    LET sale(i) == bundle.sales[i]
    IN  SumOf({i \in DOMAIN bundle.sales : sale(i).seller = address},
              LAMBDA i : OrZero(sale(i).seller_proceeds_usd))
        + SumOf({i \in DOMAIN bundle.sales :
                    sale(i).royalty_recipient = address},
                LAMBDA i : OrZero(sale(i).royalty_fee_usd))

ValueFlow(bundle, roles) ==
    LET sales == DOMAIN bundle.sales
        sale(i) == bundle.sales[i]
        malicious == {a \in DOMAIN roles : roles[a] = "SuspectedOperator"}
        victims == DOMAIN roles \ malicious
        byOperator == {i \in sales : sale(i).seller \in malicious}
        toOperator == {i \in sales : sale(i).royalty_recipient \in malicious}
        receivers == {sale(i).seller :
                        i \in {i \in byOperator :
                                  sale(i).seller_proceeds_usd >= 0}}
                     \cup {sale(i).royalty_recipient : i \in toOperator}
        received(a) == ReceivedUsd(bundle, roles, a)
        most == Max({received(a) : a \in receivers})
        revenue == SumOf(byOperator, LAMBDA i :
                            OrZero(sale(i).seller_proceeds_usd))
        royalty == SumOf(toOperator, LAMBDA i :
                            OrZero(sale(i).royalty_fee_usd))
        tokens == {e.token_id : e \in ToSet(bundle.transfers)
                                      \cup ToSet(bundle.sales)
                                      \cup Held(bundle)} \ {0}
        addresses ==
            UNION ({{t.from, t.to} : t \in ToSet(bundle.transfers)}
                   \cup {{s.seller, s.buyer} : s \in ToSet(bundle.sales)}
                   \cup {{h.owner} : h \in Held(bundle)})
    IN  [mints |-> Cardinality({i \in DOMAIN bundle.transfers :
                                   bundle.transfers[i].is_mint}),
         transfers |-> Cardinality({i \in DOMAIN bundle.transfers :
                                       ~ bundle.transfers[i].is_mint}),
         sales |-> Len(bundle.sales),
         nfts |-> Cardinality(tokens),
         addresses |-> Cardinality({a \in addresses : Usable(bundle, a)}),
         grossUsd |-> SumOf(sales, LAMBDA i : OrZero(sale(i).usd_amount)),
         marketplaceFeeUsd |-> SumOf(sales, LAMBDA i :
                                  OrZero(sale(i).marketplace_fee_usd)),
         royaltyFeeUsd |-> SumOf(sales, LAMBDA i :
                                  OrZero(sale(i).royalty_fee_usd)),
         operatorUsd |-> revenue + royalty, operatorRoyaltyUsd |-> royalty,
         malicious |-> Cardinality(malicious),
         victims |-> Cardinality(victims),
         holdingVictims |-> Cardinality(victims \cap
                               {h.owner : h \in Held(bundle)}),
         \* of equals, the first address
         maxReceiver |-> IF receivers = {} THEN Empty
                         ELSE Min({a \in receivers : received(a) = most}),
         maxReceiverUsd |-> IF receivers = {} THEN 0 ELSE most]

-----------------------------------------------------------------------------
(* legit.rs                                                                *)

Classify(signals) ==
    [legit |-> IsLegitDuplicate(signals),
     verification_complete |-> signals.verification_complete,
     keys |-> signals.keys, reasons |-> signals.flags]

\* A row of alchemy_getAssetTransfers.
ANative == [tx_hash |-> 1, event_id |-> Missing, from |-> Empty,
            to |-> Empty, block_number |-> Missing, value_native |-> Missing,
            timestamp |-> Missing]

-----------------------------------------------------------------------------
(* Prices                                                                  *)

\* runtime_currency_rate: a stablecoin without a quote is taken at one
\* dollar, any other currency without one is not priced.
CurrencyRate(quotes, currency) ==
    IF quotes[currency] > 0 THEN quotes[currency]
    ELSE IF currency = "stable" THEN 1 ELSE Missing

Priced(amount, rate) ==
    IF amount = Missing \/ rate = Missing THEN Missing ELSE amount * rate

\* apply_prices_to_sales: with all three parts of a payment known its amount
\* is their sum.
PriceSale(quotes, sale) ==
    LET rate == CurrencyRate(quotes, sale.currency)
        parts == <<sale.seller_proceeds_native, sale.marketplace_fee_native,
                   sale.royalty_fee_native>>
        usd(i) == Priced(parts[i], rate)
    IN  [sale EXCEPT
            !.seller_proceeds_usd = usd(1), !.marketplace_fee_usd = usd(2),
            !.royalty_fee_usd = usd(3),
            !.usd_amount = IF Missing \in ToSet(parts)
                           THEN Priced(sale.native_amount, rate)
                           ELSE IF rate = Missing THEN Missing
                           ELSE usd(1) + usd(2) + usd(3)]

\* apply_runtime_price_to_value_flows
PriceFlow(quotes, edge) ==
    [edge EXCEPT !.usd_amount = Priced(edge.native_amount,
                                       CurrencyRate(quotes, "native"))]

-----------------------------------------------------------------------------
(* The operators asked for                                                 *)

\* insert_addr: nobody and the zero address are never asked for.
Askable(addresses) == {a \in addresses : a > Zero}

\* The seeds of the pass that looks for mint payments.
PreliminarySeeds(bundle) ==
    Askable(bundle.controllers \cup {bundle.address}
            \cup {d.fee_payer : d \in ToSet(bundle.deployment)})

\* derive_operator_seeds
DeriveOperatorSeeds(bundle) ==
    LET moves == {t \in ToSet(bundle.transfers) :
                     ~ t.is_mint /\ t.from # t.to}
        distributors == {a \in {t.from : t \in moves} :
            Cardinality(Askable({t.to : t \in {t \in moves : t.from = a}}))
            >= 3}
    IN  (PreliminarySeeds(bundle)
         \cup Askable(HighVolumeSellers(bundle) \cup distributors))
        \ Victims(bundle)

-----------------------------------------------------------------------------
(* The flows tied to the candidate's activity                              *)

ActivityBlocks(bundle) ==
    {e.block_number : e \in ToSet(bundle.transfers) \cup ToSet(bundle.sales)}
    \ {Missing}

\* activity_related_transfers: what happened while the candidate was active,
\* and on either side of it the nearest block at which somebody funded an
\* operator or an operator paid somebody.
Nearby(bundle, operators, native) ==
    LET lo == Min(ActivityBlocks(bundle))
        hi == Max(ActivityBlocks(bundle))
        funds(n) == /\ n.from \notin operators /\ n.to \in operators
                    /\ n.block_number \in (lo - BoundaryBlocks)..(lo - 1)
        drains(n) == /\ n.from \in operators /\ n.to \notin operators
                     /\ n.block_number \in (hi + 1)..(hi + BoundaryBlocks)
        funding(op) == {n.block_number : n \in
                           {n \in ToSet(native) : funds(n) /\ n.to = op}}
        draining(op) == {n.block_number : n \in
                            {n \in ToSet(native) : drains(n) /\ n.from = op}}
    IN  SelectSeq(native, LAMBDA n :
            /\ n.block_number # Missing
            /\ \/ n.block_number \in lo..hi
               \/ funds(n) /\ n.block_number = Max(funding(n.to))
               \/ drains(n) /\ n.block_number = Min(draining(n.from)))

\* classify_native_edge
FlowKind(operators, n) ==
    IF n.from \notin operators THEN "Funding"
    ELSE IF n.to \notin operators THEN "Withdrawal" ELSE "RevenueBackflow"

FlowEdge(operators, n) ==
    [AFlow EXCEPT !.tx_hash = n.tx_hash, !.event_id = n.event_id,
                  !.from = n.from, !.to = n.to,
                  !.kind = FlowKind(operators, n),
                  !.native_amount = n.value_native,
                  !.timestamp = n.timestamp]

Repeated(edges, i) ==
    \E j \in 1..(i - 1) :
        [edges[j] EXCEPT !.timestamp = edges[i].timestamp] = edges[i]

OnceEach(edges) ==
    LET first == SelectSeq([i \in DOMAIN edges |-> i],
                           LAMBDA i : ~ Repeated(edges, i))
    IN  [i \in DOMAIN first |-> edges[first[i]]]

FlowAnswer(flows, unplaced) ==
    [flows |-> flows,
     status |-> IF unplaced THEN "Truncated"
                ELSE IF flows = <<>> THEN "Empty" ELSE "Complete"]

\* fetch_evm_value_flows over all native transfers: those that touch an
\* operator, related to the activity, classified, each told once.
FetchFlows(bundle, operators, native) ==
    LET answered == SelectSeq(native, LAMBDA n :
                       n.from \in operators \/ n.to \in operators)
        kept == SelectSeq(Nearby(bundle, operators, answered),
                          LAMBDA n : n.from # n.to /\ n.tx_hash # 0)
        edges == [i \in DOMAIN kept |-> FlowEdge(operators, kept[i])]
        unplaced == \E n \in ToSet(answered) : n.block_number = Missing
    IN  IF operators = {} \/ bundle.transfers \o bundle.sales = <<>>
        THEN [flows |-> <<>>, status |-> "Empty"]
        ELSE IF ActivityBlocks(bundle) = {}
        THEN [flows |-> <<>>, status |-> "Truncated"]
        ELSE FlowAnswer(OnceEach(edges), unplaced)

-----------------------------------------------------------------------------
(* The payments of mints                                                   *)

\* The outflows of a mint's buyer in the mint's transaction, as amount and
\* receiver, when they have one receiver; <<>> if not.
PaymentOf(buyer, outflows) ==
    LET total == SumOf(DOMAIN outflows, LAMBDA i : outflows[i][1])
        receivers == {o[2] : o \in ToSet(outflows)} \ {Empty, buyer}
    IN  IF total > 0 /\ Cardinality(receivers) = 1
        THEN <<total, CHOOSE r \in receivers : TRUE>> ELSE <<>>

\* payment_from_value_flows
PaymentFromFlows(mint, flows) ==
    LET paid == SelectSeq(flows, LAMBDA e :
            /\ e.tx_hash = mint.tx_hash /\ e.from = mint.to
            /\ e.native_amount > 0)
    IN  IF mint.to = Empty \/ mint.tx_hash = 0 THEN <<>>
        ELSE PaymentOf(mint.to, [i \in DOMAIN paid |->
                           <<paid[i].native_amount, paid[i].to>>])

MintedTo(bundle) == {t \in ToSet(bundle.transfers) : t.is_mint}

\* collect_evm_mint_payment_extras: what somebody who minted paid in the
\* transaction of a mint, asked for between the candidate's first and last
\* transfer.
BuyerOutflows(bundle, tx, payer, native) ==
    LET blocks == {t.block_number : t \in ToSet(bundle.transfers)} \ {Missing}
    IN  SelectSeq(native, LAMBDA n :
            /\ n.tx_hash = tx /\ tx # 0 /\ n.from = payer /\ payer > Zero
            /\ n.value_native > 0 /\ n.to \notin {Empty, payer}
            /\ blocks = {} \/ n.block_number \in Min(blocks)..Max(blocks))

PaymentFromBuyer(bundle, mint, native) ==
    LET paid == BuyerOutflows(bundle, mint.tx_hash, mint.to, native)
    IN  PaymentOf(mint.to, [i \in DOMAIN paid |->
                               <<paid[i].value_native, paid[i].to>>])

\* Several receivers: nobody can tell what was for the mint.  The buyer of
\* one mint counts also in the transaction of another's.
AmbiguousMint(bundle, native) ==
    \E tx \in {t.tx_hash : t \in MintedTo(bundle)},
       payer \in {t.to : t \in MintedTo(bundle)} :
        Cardinality({n.to : n \in
            ToSet(BuyerOutflows(bundle, tx, payer, native))}) > 1

\* Mutant: each mint costs all that was paid.
WholePayment(payment, mints) == payment

\* A payment is shared by the mints of one buyer in one transaction.
PaymentShare(payment, mints) == payment \div mints

\* attach_mint_payments, retain_controlled_mint_payments: the largest of the
\* payments observed, shared by the mints of the buyer in the transaction,
\* if it went to the candidate or its controllers.  (Of equals the last.)
AttachMintPayment(bundle, native, flows, mint) ==
    LET stated == IF mint.mint_payment_native > 0
                     /\ mint.mint_payment_receiver # Missing
                  THEN <<mint.mint_payment_native,
                         mint.mint_payment_receiver>> ELSE <<>>
        seen == SelectSeq(<<PaymentFromFlows(mint, flows), stated,
                            PaymentFromBuyer(bundle, mint, native)>>,
                          LAMBDA o : o # <<>>)
        most == Max({o[1] : o \in ToSet(seen)})
        best == SelectLastInSeq(seen, LAMBDA o : o[1] = most)
        mints == Cardinality({i \in DOMAIN bundle.transfers :
            LET t == bundle.transfers[i]
            IN  t.is_mint /\ t.tx_hash = mint.tx_hash /\ t.to = mint.to})
        share == PaymentShare(most, mints)
        controlled == (bundle.controllers \cup {bundle.address}) \ {Empty}
    IN  IF ~ mint.is_mint THEN mint
        ELSE IF seen = <<>> THEN
            [mint EXCEPT !.mint_payment_native = Missing,
                         !.mint_payment_usd = Missing,
                         !.mint_payment_receiver = Missing]
        ELSE IF seen[best][2] \notin controlled THEN
            [mint EXCEPT !.mint_payment_native = Missing,
                         !.mint_payment_usd = Missing,
                         !.mint_payment_receiver = Missing]
        ELSE [mint EXCEPT
                !.mint_payment_native = share,
                !.mint_payment_usd =
                    Priced(share, CurrencyRate(bundle.quotes, "native")),
                !.mint_payment_receiver = seen[best][2]]

-----------------------------------------------------------------------------
(* enrich_evm, once every request was answered                             *)

\* attach_sale_receipt_gas and attach_value_flow_receipt_gas: receipts is a
\* function from transactions to [gas_native, fee_payer].
WithReceipt(receipts, event) ==
    IF event.tx_hash \notin DOMAIN receipts THEN event
    ELSE [event EXCEPT !.gas_native = receipts[event.tx_hash].gas_native,
                       !.fee_payer = receipts[event.tx_hash].fee_payer]

\* attach_receipt_gas: a transfer keeps what it has.
TransferWithReceipt(receipts, transfer) ==
    LET told == WithReceipt(receipts, transfer)
    IN  [transfer EXCEPT
            !.gas_native = IF @ = Missing THEN told.gas_native ELSE @,
            !.fee_payer = IF @ = Empty THEN told.fee_payer ELSE @]

\* Its stages, each of the last one's result: the flows of the preliminary
\* operators, the payments of the mints, the flows of the operators those
\* reveal.
WithPayments(base, native, flows) ==
    [base EXCEPT !.transfers = [i \in DOMAIN @ |->
        AttachMintPayment(base, native, flows, @[i])]]

\* A transfer search that was cut off, or a mint with several receivers,
\* leaves the transfers incomplete.
WithFlows(paid, base, found, preliminary, native, receipts) ==
    [paid EXCEPT
        !.flows = [i \in DOMAIN found.flows |->
            WithReceipt(receipts, PriceFlow(base.quotes, found.flows[i]))],
        !.quality.value_flows = found.status,
        !.quality.transfers =
            IF Settled(@)
               /\ \/ MintedTo(base) # {} /\ preliminary.status = "Truncated"
                  \/ AmbiguousMint(base, native)
            THEN "Truncated" ELSE @]

Refetched(paid, base, preliminary, native, receipts) ==
    WithFlows(paid, base, FetchFlows(paid, DeriveOperatorSeeds(paid), native),
              preliminary, native, receipts)

Paid(base, preliminary, native, receipts) ==
    Refetched(WithPayments(base, native, preliminary.flows), base, preliminary,
              native, receipts)

Fetched(base, native, receipts) ==
    Paid(base, FetchFlows(base, PreliminarySeeds(base), native), native, receipts)

EnrichEvm(bundle, native, receipts) ==
    LET sold == [i \in DOMAIN bundle.sales |->
                    WithReceipt(receipts,
                                PriceSale(bundle.quotes, bundle.sales[i]))]
        moved == [i \in DOMAIN bundle.transfers |->
                     TransferWithReceipt(receipts, bundle.transfers[i])]
    IN  Fetched([bundle EXCEPT !.sales = sold, !.transfers = moved],
                native, receipts)
=============================================================================
