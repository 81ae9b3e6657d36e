------------------------- MODULE CandidateAnalysis --------------------------
(***************************************************************************)
(* The analysis of one candidate (analysis/crates/core/src/analysis): the  *)
(* detectors of wash trading, pump and exit, stars (Sybil distribution,    *)
(* fraud revenue, poisoning), layered transfers and inventory              *)
(* concentration (behavior.rs), what its operators spent, took in and cost *)
(* their honest buyers (economics.rs), and the projection of the analysis  *)
(* to the relations of one scope of the report (mod.rs).  Figures are in   *)
(* dollars; native amounts are kept where a dollar figure or a count       *)
(* depends on them.  A ratio is a pair <<numerator, denominator>>, <<>>    *)
(* when the code has none.                                                 *)
(***************************************************************************)
EXTENDS CandidateEvidence

CONSTANTS
    MinCycleSize,          \* PaperConfig.min_cycle_size
    LayeredPathAddresses,  \* PaperConfig.layered_path_addresses
    FanOut                 \* PaperConfig.fan_out

ASSUME AnalysisAssumption ==
    {MinCycleSize, LayeredPathAddresses, FanOut} \subseteq Nat \ {0}

KindOrder == <<"WashTrading", "PumpAndExit", "SybilDistribution",
               "FraudRevenue", "Poisoning", "LayeredTransfer",
               "InventoryConcentration">>

\* A PropEvent: the place of a transfer or of a sale in the evidence.
TransferAt(i) == [sale |-> FALSE, at |-> i]
SaleAt(i) == [sale |-> TRUE, at |-> i]

\* What it tells and between whom.
BodyOf(transfers, sales, e) == IF e.sale THEN sales[e.at] ELSE transfers[e.at]
FromOf(body, e) == IF e.sale THEN body.seller ELSE body.from
ToOf(body, e) == IF e.sale THEN body.buyer ELSE body.to

EventBody(bundle, e) == BodyOf(bundle.transfers, bundle.sales, e)
EventFrom(bundle, e) == FromOf(EventBody(bundle, e), e)
EventTo(bundle, e) == ToOf(EventBody(bundle, e), e)

\* The transfers that satisfy the test and then the sales that do, in order.
EventsWhere(bundle, Test(_)) ==
    SelectSeq([i \in DOMAIN bundle.transfers |-> TransferAt(i)], Test)
    \o SelectSeq([i \in DOMAIN bundle.sales |-> SaleAt(i)], Test)

MaliciousAddresses(roles) ==
    {a \in DOMAIN roles : roles[a] = "SuspectedOperator"}
HonestAddresses(roles) == {a \in DOMAIN roles : roles[a] = "LikelyVictim"}

-----------------------------------------------------------------------------
(* Instances                                                               *)

\* instance_from_prop_events and instance_from_sales, before the detector
\* adds what it found out.
InstanceOf(kind, bundle, events) ==
    LET bodies == {EventBody(bundle, e) : e \in ToSet(events)}
        latest(times) == IF times \ {Missing} = {} THEN Missing
                         ELSE Max(times)
    IN  [kind |-> kind,
         addresses |-> Sorted(
            UNION {{EventFrom(bundle, e), EventTo(bundle, e)} :
                      e \in ToSet(events)}, <),
         nfts |-> {b.token_id : b \in bodies},
         transactions |-> Sorted({b.tx_hash : b \in bodies}, <),
         buyers |-> {}, edges |-> Len(events),
         start_timestamp |-> Earliest({b.timestamp : b \in bodies}),
         end_timestamp |-> latest({b.timestamp : b \in bodies}),
         start_block |-> Earliest({b.block_number : b \in bodies}),
         end_block |-> latest({b.block_number : b \in bodies}),
         usd_value |-> SumOf({i \in DOMAIN events : events[i].sale},
            LAMBDA i : OrZero(bundle.sales[events[i].at].usd_amount)),
         loss_usd |-> 0, losses |-> <<>>,
         gini |-> <<<<>>, <<>>>>, fan_out |-> Missing,
         low_value_hops |-> Missing, sources |-> Missing,
         nft_share |-> <<>>, value_share |-> <<>>, exit_delay |-> Missing,
         price_ratio |-> <<>>, nft_ratio |-> <<>>]

Loss(sale) == [tx_hash |-> sale.tx_hash, buyer |-> sale.buyer,
               token_id |-> sale.token_id, usd |-> sale.usd_amount]

LossesOf(bundle, events) ==
    LET priced == SelectSeq(events, LAMBDA e :
                               bundle.sales[e.at].usd_amount > 0)
    IN  [i \in DOMAIN priced |-> Loss(bundle.sales[priced[i].at])]

LossUsd(losses) == SumOf(DOMAIN losses, LAMBDA i : losses[i].usd)

-----------------------------------------------------------------------------
(* Wash trading and pump and exit                                          *)

\* The strong components of all sales, operators' or not, as sets of
\* addresses; a cycle is large enough and an operator belongs to it.
SaleCycles(bundle) ==
    LET graph == FromSales(bundle.sales)
        components == Components(graph)
        members(c) == {graph.addresses[v] : v \in ToSet(c)}
    IN  [i \in DOMAIN components |-> members(components[i])]

IsWash(cycle, roles) ==
    /\ Cardinality(cycle) >= MinCycleSize
    /\ cycle \cap MaliciousAddresses(roles) # {}

WashComponents(bundle, roles) ==
    SelectSeq(SaleCycles(bundle), LAMBDA c : IsWash(c, roles))

InternalSales(bundle, cycle) ==
    EventsWhere(bundle, LAMBDA e :
        e.sale /\ {EventFrom(bundle, e), EventTo(bundle, e)} \subseteq cycle)

CycleEnd(bundle, cycle) ==
    LET times == {EventBody(bundle, e).timestamp :
                    e \in ToSet(InternalSales(bundle, cycle))} \ {Missing}
    IN  IF times = {} THEN Missing ELSE Max(times)

\* The sales out of the cycle to an honest buyer after the cycle's last sale.
ExitSales(bundle, roles, cycle) ==
    LET end == CycleEnd(bundle, cycle)
    IN  EventsWhere(bundle, LAMBDA e :
            /\ e.sale
            /\ EventFrom(bundle, e) \in cycle
            /\ EventTo(bundle, e) \in HonestAddresses(roles) \ cycle
            /\ end # Missing
            /\ EventBody(bundle, e).timestamp > end)

UsdOf(bundle, events) ==
    SumOf(DOMAIN events, LAMBDA i :
             OrZero(bundle.sales[events[i].at].usd_amount))

AllPriced(bundle, events) ==
    events # <<>> /\ \A e \in ToSet(events) : bundle.sales[e.at].usd_amount >= 0

\* The average exit over the average inside, when every price is known.
Comparable(bundle, inside, exits) ==
    AllPriced(bundle, inside) /\ AllPriced(bundle, exits)

ExitPriceExceedsInternal(bundle, inside, exits) ==
    /\ Comparable(bundle, inside, exits)
    /\ UsdOf(bundle, exits) * Len(inside) > UsdOf(bundle, inside) * Len(exits)

\* gini of the participants' counts.
Gini(count) ==
    LET sorted == Sorted(DOMAIN count, LAMBDA a, b :
                     count[a] < count[b] \/ (count[a] = count[b] /\ a < b))
        n == Len(sorted)
        sum == SumOf(1..n, LAMBDA i : count[sorted[i]])
    IN  IF sum = 0 THEN <<>>
        ELSE <<2 * SumOf(1..n, LAMBDA i : i * count[sorted[i]])
               - (n + 1) * sum, n * sum>>

CycleInstance(bundle, cycle) ==
    LET inside == InternalSales(bundle, cycle)
        sides(a) ==
            Cardinality({i \in DOMAIN inside :
                            EventFrom(bundle, inside[i]) = a})
            + Cardinality({i \in DOMAIN inside :
                              EventTo(bundle, inside[i]) = a})
        nfts(a) == {EventBody(bundle, e).token_id :
                       e \in {e \in ToSet(inside) :
                          a \in {EventFrom(bundle, e), EventTo(bundle, e)}}}
    IN  [InstanceOf("WashTrading", bundle, inside) EXCEPT
            !.addresses = Sorted(cycle, <),
            !.gini = <<Gini([a \in cycle |-> Cardinality(nfts(a))]),
                       Gini([a \in cycle |-> sides(a)])>>]

PumpInstance(bundle, roles, cycle) ==
    LET inside == InternalSales(bundle, cycle)
        exits == ExitSales(bundle, roles, cycle)
        plain == InstanceOf("PumpAndExit", bundle, exits)
        cycleNfts == {EventBody(bundle, e).token_id : e \in ToSet(inside)}
    IN  [plain EXCEPT
            !.addresses = Sorted(ToSet(plain.addresses) \cup cycle, <),
            !.buyers = {EventTo(bundle, e) : e \in ToSet(exits)},
            !.losses = LossesOf(bundle, exits),
            !.loss_usd = UsdOf(bundle, exits),
            !.price_ratio = IF UsdOf(bundle, inside) = 0 THEN <<>>
                            ELSE <<UsdOf(bundle, exits) * Len(inside),
                                   UsdOf(bundle, inside) * Len(exits)>>,
            !.nft_ratio = <<Cardinality(plain.nfts),
                            Cardinality(cycleNfts)>>,
            !.exit_delay = plain.start_timestamp - CycleEnd(bundle, cycle)]

Pumps(bundle, roles) ==
    SelectSeq(WashComponents(bundle, roles), LAMBDA c :
        ExitPriceExceedsInternal(bundle, InternalSales(bundle, c),
                                 ExitSales(bundle, roles, c)))

-----------------------------------------------------------------------------
(* Stars over the components of the transfer graph                         *)

\* The component of an address, by its place, or 0 for an address no
\* transfer links.
ComponentOf(graph, components, address) ==
    SelectInSeq(components, LAMBDA c :
        \E v \in ToSet(c) : graph.addresses[v] = address)

\* What leaves a component for another one: transfers, and sales between
\* addresses of the transfer graph.
OutgoingEvents(bundle, graph, components, c) ==
    EventsWhere(bundle, LAMBDA e :
        LET to == ComponentOf(graph, components, EventTo(bundle, e))
        IN  /\ ComponentOf(graph, components, EventFrom(bundle, e)) = c
            /\ to \notin {0, c})

DagTargets(bundle, graph, components, c) ==
    {ComponentOf(graph, components, EventTo(bundle, e)) :
        e \in ToSet(OutgoingEvents(bundle, graph, components, c))}

IsStar(bundle, graph, components, roles, c) ==
    /\ \E v \in ToSet(components[c]) :
          graph.addresses[v] \in MaliciousAddresses(roles)
    /\ Cardinality(DagTargets(bundle, graph, components, c)) >= FanOut

StarKind(bundle, graph, components, c) ==
    IF \E target \in DagTargets(bundle, graph, components, c) :
          DagTargets(bundle, graph, components, target) # {}
    THEN "SybilDistribution"
    ELSE IF \E e \in ToSet(OutgoingEvents(bundle, graph, components, c)) :
               e.sale /\ SalePaid(bundle.sales[e.at])
    THEN "FraudRevenue"
    ELSE "Poisoning"

StarInstance(bundle, graph, components, roles, c) ==
    LET events == OutgoingEvents(bundle, graph, components, c)
        toHonest == SelectSeq(events, LAMBDA e :
            e.sale /\ EventTo(bundle, e) \in HonestAddresses(roles))
        losses == LossesOf(bundle, toHonest)
    IN  [InstanceOf(StarKind(bundle, graph, components, c), bundle, events)
         EXCEPT !.fan_out =
                    Cardinality(DagTargets(bundle, graph, components, c)),
                !.buyers = {EventTo(bundle, e) : e \in ToSet(toHonest)},
                !.losses = losses, !.loss_usd = LossUsd(losses)]

Stars(bundle, graph, components, roles) ==
    LET centers == SelectSeq([c \in DOMAIN components |-> c], LAMBDA c :
                      IsStar(bundle, graph, components, roles, c))
    IN  [i \in DOMAIN centers |->
            StarInstance(bundle, graph, components, roles, centers[i])]

-----------------------------------------------------------------------------
(* Layered transfers                                                       *)

Precedes(bundle, previous, next) ==
    LET p == EventBody(bundle, previous)
        n == EventBody(bundle, next)
    IN  IF p.block_number # Missing /\ n.block_number # Missing
        THEN p.block_number < n.block_number
        ELSE /\ p.timestamp # Missing /\ n.timestamp # Missing
             /\ p.timestamp < n.timestamp

\* prop_event_order; equal keys keep transfers before sales.
EventBefore(bundle, left, right) ==
    LET key(e) == <<EventBody(bundle, e).block_number,
                    EventBody(bundle, e).timestamp, e.at,
                    IF e.sale THEN 1 ELSE 0>>
    IN  \E i \in 1..4 : /\ key(left)[i] < key(right)[i]
                        /\ \A j \in 1..(i - 1) : key(left)[j] = key(right)[j]

\* The events of a token that leave an address, in the order they are tried.
Outgoing(bundle, token, address) ==
    Sorted(ToSet(EventsWhere(bundle, LAMBDA e :
                    /\ EventBody(bundle, e).token_id = token
                    /\ EventFrom(bundle, e) = address
                    /\ EventTo(bundle, e) # Empty)),
                 LAMBDA l, r : EventBefore(bundle, l, r))

\* The addresses that events lead through from a start.
Visited(bundle, start, events) ==
    <<start>> \o [i \in DOMAIN events |-> EventTo(bundle, events[i])]

\* What is found before comes first; what is not tried finds nothing.
FoundOr(found, tried, next) ==
    IF found # <<>> \/ ~ tried THEN found ELSE next

\* The first path from start, depth first, through LayeredPathAddresses
\* addresses; <<>> if there is none.  The selected events determine the
\* addresses.
SearchPath(bundle, token, start) ==
    LET search[selected \in Seq([sale : BOOLEAN, at : Nat])] ==
            LET addresses == Visited(bundle, start, selected)
                follows(e) ==
                    /\ selected = <<>> \/ Precedes(bundle, Last(selected), e)
                    /\ EventTo(bundle, e) \notin ToSet(addresses)
            IN  IF Len(addresses) >= LayeredPathAddresses THEN <<selected>>
                ELSE FoldLeft(LAMBDA found, e :
                        FoundOr(found, follows(e),
                                search[Append(selected, e)]),
                        <<>>, Outgoing(bundle, token, Last(addresses)))
    IN  search[<<>>]

\* Where a path may start: the operators, by token.
LayeredStarts(bundle, roles) ==
    {<<EventBody(bundle, e).token_id, EventFrom(bundle, e)>> :
        e \in ToSet(EventsWhere(bundle, LAMBDA x :
                 /\ EventBody(bundle, x).token_id # 0
                 /\ EventTo(bundle, x) # Empty
                 /\ EventFrom(bundle, x) \in MaliciousAddresses(roles)))}

LayeredInstance(bundle, start, path) ==
    [InstanceOf("LayeredTransfer", bundle, path) EXCEPT
        !.addresses = Visited(bundle, start, path),
        !.low_value_hops = Cardinality({i \in DOMAIN path :
            ~ path[i].sale \/ bundle.sales[path[i].at].usd_amount \in 0..1})]

\* One path at most for a start; two starts differ in their first address or
\* in the token, so none repeats.
LayeredPaths(bundle, roles) ==
    LET starts == Sorted(LayeredStarts(bundle, roles), LAMBDA a, b :
                     a[1] < b[1] \/ (a[1] = b[1] /\ a[2] < b[2]))
        found == [s \in ToSet(starts) |-> SearchPath(bundle, s[1], s[2])]
        kept == SelectSeq(starts, LAMBDA s : found[s] # <<>>)
    IN  [i \in DOMAIN kept |->
            LayeredInstance(bundle, kept[i][2], found[kept[i]][1])]

-----------------------------------------------------------------------------
(* Inventory concentration                                                 *)

\* The operators that three distinct addresses transfer to.
InventoryVertices(graph, roles) ==
    SelectSeq([v \in Vertices(graph) |-> v], LAMBDA v :
        /\ graph.addresses[v] \in MaliciousAddresses(roles)
        /\ Cardinality({u \in Vertices(graph) :
                           v \in ToSet(graph.edges[u])}) >= 3)

InventoryInstance(bundle, address) ==
    LET inbound == EventsWhere(bundle, LAMBDA e :
                                  EventTo(bundle, e) = address)
        plain == InstanceOf("InventoryConcentration", bundle, inbound)
        sales == [i \in DOMAIN bundle.sales |-> SaleAt(i)]
        total == UsdOf(bundle, sales)
        nfts == {b.token_id : b \in ToSet(bundle.transfers)
                                    \cup ToSet(bundle.sales)}
    IN  [plain EXCEPT
            !.sources = Cardinality({EventFrom(bundle, e) :
                                        e \in ToSet(inbound)}),
            !.nft_share = <<Cardinality(plain.nfts), Cardinality(nfts)>>,
            !.value_share =
                IF (\A s \in ToSet(bundle.sales) : s.usd_amount # Missing)
                   /\ total > 0
                THEN <<plain.usd_value, total>> ELSE <<>>]

-----------------------------------------------------------------------------
(* detect_behaviors                                                        *)

LexLess(a, b) ==
    \/ \E i \in DOMAIN a \cap DOMAIN b :
          a[i] < b[i] /\ \A j \in 1..(i - 1) : a[j] = b[j]
    \/ Len(a) < Len(b) /\ SubSeq(b, 1, Len(a)) = a

InstanceLess(left, right) ==
    LET rank(k) == SelectInSeq(KindOrder, LAMBDA x : x = k)
        key(x) == <<rank(x.kind), x.start_timestamp, x.start_block>>
    IN  \/ LexLess(key(left), key(right))
        \/ /\ key(left) = key(right)
           /\ \/ LexLess(left.addresses, right.addresses)
              \/ /\ left.addresses = right.addresses
                 /\ LexLess(left.transactions, right.transactions)

Instances(bundle, graph, components, roles) ==
    LET cycles == WashComponents(bundle, roles)
        pumps == Pumps(bundle, roles)
        inventory == InventoryVertices(graph, roles)
    IN  [i \in DOMAIN cycles |-> CycleInstance(bundle, cycles[i])]
        \o [i \in DOMAIN pumps |-> PumpInstance(bundle, roles, pumps[i])]
        \o Stars(bundle, graph, components, roles)
        \o LayeredPaths(bundle, roles)
        \o [i \in DOMAIN inventory |->
               InventoryInstance(bundle, graph.addresses[inventory[i]])]

\* The stable sort of the instances, and how many there are of a kind.
InOrder(found) ==
    LET less(i, j) == \/ InstanceLess(found[i], found[j])
                      \/ ~ InstanceLess(found[j], found[i]) /\ i < j
        order == Sorted(DOMAIN found, less)
    IN  [i \in DOMAIN order |-> found[order[i]]]

Counted(found) ==
    [facts |-> [k \in ToSet(KindOrder) |->
                   Cardinality({i \in DOMAIN found : found[i].kind = k})],
     instances |-> InOrder(found)]

Behaviors(bundle, graph, components, roles) ==
    Counted(Instances(bundle, graph, components, roles))

-----------------------------------------------------------------------------
(* economics.rs                                                            *)

StatusUsable(status) == status \in {"Complete", "Truncated"}  \* gas_usable too

\* GasStage
Setup == 1
Lure == 2
Exit == 3

Market == -2  \* "marketplace:<name>"

OperatorsOf(roles) == {a \in DOMAIN roles : roles[a] = "SuspectedOperator"}

\* honest_buyers that hold the token now.
HonestHolds(bundle, roles, address, token) ==
    <<address, token>> \in VictimTokens(bundle, roles)

CountOf(indexes) == Cardinality(indexes)

-----------------------------------------------------------------------------
(* Gas: one figure per transaction                                         *)

Larger(a, b) == IF a > b THEN a ELSE b

\* The fees an operator paid for the deployment, the sales and the
\* transfers.  A transfer whose payer is unknown is charged to its recipient
\* if it is a mint and to its sender if not.
EventGas(bundle, roles) ==
    LET payer(t) == IF t.fee_payer # Missing THEN t.fee_payer
                    ELSE IF t.is_mint THEN t.to ELSE t.from
        all == {<<d.tx_hash, Setup, d.gas_native, d.fee_payer>> :
                   d \in ToSet(bundle.deployment)}
               \cup {<<s.tx_hash, Lure, s.gas_native, s.fee_payer>> :
                   s \in ToSet(bundle.sales)}
               \cup {<<t.tx_hash, Lure, t.gas_native, payer(t)>> :
                   t \in ToSet(bundle.transfers)}
    IN  IF ~ StatusUsable(bundle.quality.gas) THEN {}
        ELSE {g \in all : g[3] > 0 /\ g[4] \in OperatorsOf(roles)}

\* gas_by_tx before the value flows: of a transaction's fees the largest,
\* under its latest stage.
GasByEvent(bundle, roles) ==
    LET fees == EventGas(bundle, roles)
    IN  [tx \in {g[1] : g \in fees} |->
            [stage |-> Max({g[2] : g \in {g \in fees : g[1] = tx}}),
             native |-> Max({g[3] : g \in {g \in fees : g[1] = tx}})]]

FlowStage(kind) == IF kind = "Funding" THEN Setup
                   ELSE IF kind = "RevenueBackflow" THEN Lure ELSE Exit

\* One flow: its own fee raises the stage, a funding flow takes the events'
\* fee of its transaction back to Setup and a withdrawal moves it to Exit.
ApplyFlow(usable, roles, byEvent, gas, edge) ==
    LET stage == FlowStage(edge.kind)
        tx == edge.tx_hash
        own == /\ usable
               /\ edge.gas_native > 0
               /\ edge.fee_payer \in OperatorsOf(roles)
        before == IF tx \in DOMAIN gas THEN gas[tx]
                  ELSE [stage |-> stage, native |-> 0]
        paid == IF own THEN [stage |-> Larger(before.stage, stage),
                             native |-> Larger(before.native, edge.gas_native)]
                ELSE before
        placed == IF tx \notin DOMAIN byEvent THEN paid
                  ELSE IF edge.kind = "Funding"
                  THEN [paid EXCEPT !.stage = Setup]
                  ELSE [paid EXCEPT !.stage = IF stage = Exit THEN Exit
                                              ELSE @]
    IN  IF ~ own /\ tx \notin DOMAIN byEvent THEN gas
        ELSE [t \in DOMAIN gas \cup {tx} |->
                IF t = tx THEN placed ELSE gas[t]]

GasByTx(bundle, roles) ==
    LET byEvent == GasByEvent(bundle, roles)
    IN  IF ~ StatusUsable(bundle.quality.value_flows) THEN byEvent
        ELSE FoldLeft(LAMBDA gas, edge :
                         ApplyFlow(StatusUsable(bundle.quality.gas), roles,
                                   byEvent, gas, edge),
                      byEvent, bundle.flows)

StageGas(gas, stages) ==
    SumOf({tx \in DOMAIN gas : gas[tx].stage \in stages},
          LAMBDA tx : gas[tx].native)

\* With no spot rate of the chain nothing is priced.
PricedGas(bundle, gas) ==
    IF SpotRate(bundle) = 0 THEN {}
    ELSE {[tx_hash |-> tx, stage |-> gas[tx].stage,
           usd |-> gas[tx].native * SpotRate(bundle)] : tx \in DOMAIN gas}

-----------------------------------------------------------------------------
(* Sales and mints                                                         *)

Contribution(kind, event, from, to, usd) ==
    [kind |-> kind, tx_hash |-> event.tx_hash, token_id |-> event.token_id,
     from |-> from, to |-> to, usd |-> usd]

OptContribution(cond, c) == IF cond THEN <<c>> ELSE <<>>

ByOperator(roles, s) == s.seller \in OperatorsOf(roles)

RoyaltyToOperator(roles, s) ==
    s.royalty_fee_native > 0 /\ s.royalty_recipient \in OperatorsOf(roles)

PricedProceeds(roles, s) ==
    /\ ByOperator(roles, s)
    /\ s.seller_proceeds_native >= 0 /\ s.seller_proceeds_usd >= 0

HonestSale(bundle, roles, s) ==
    SalePaid(s) /\ HonestHolds(bundle, roles, s.buyer, s.token_id)

SaleContributions(bundle, roles, s) ==
    OptContribution(s.usd_amount > 0,
        Contribution("GrossSale", s, s.buyer, s.seller, s.usd_amount))
    \o OptContribution(s.marketplace_fee_usd > 0,
        Contribution("MarketplaceFee", s, s.buyer, Market,
                     s.marketplace_fee_usd))
    \o OptContribution(s.royalty_fee_usd > 0,
        Contribution("RoyaltyFee", s, s.buyer, s.royalty_recipient,
                     s.royalty_fee_usd))
    \o OptContribution(PricedProceeds(roles, s) /\ s.seller_proceeds_usd > 0,
        Contribution("OperatorSaleProceeds", s, s.buyer, s.seller,
                     s.seller_proceeds_usd))
    \o OptContribution(RoyaltyToOperator(roles, s) /\ s.royalty_fee_usd > 0,
        Contribution("OperatorRoyalty", s, s.buyer, s.royalty_recipient,
                     s.royalty_fee_usd))
    \o OptContribution(HonestSale(bundle, roles, s) /\ s.usd_amount > 0,
        Contribution("HonestSecondaryExposure", s, s.buyer, s.seller,
                     s.usd_amount))

\* The payment of a mint reached the operators, the candidate contract or
\* one of its controllers.
MintToOperator(bundle, roles, t) ==
    t.mint_payment_receiver \in (OperatorsOf(roles) \cup bundle.controllers
                                 \cup {bundle.address}) \ {Missing}

HonestMint(bundle, roles, t) == HonestHolds(bundle, roles, t.to, t.token_id)

MintContributions(bundle, roles, t) ==
    OptContribution(MintToOperator(bundle, roles, t) /\ t.mint_payment_usd > 0,
        Contribution("OperatorMintPayment", t, t.to,
                     t.mint_payment_receiver, t.mint_payment_usd))
    \o OptContribution(HonestMint(bundle, roles, t) /\ t.mint_payment_usd > 0,
        Contribution("HonestMintExposure", t, t.to,
                     t.mint_payment_receiver, t.mint_payment_usd))

PaidMints(bundle) ==
    {i \in DOMAIN bundle.transfers :
        bundle.transfers[i].is_mint /\ MintPaid(bundle.transfers[i])}

\* Those of the sales, then those of the mints that were paid for.
Contributions(bundle, roles) ==
    LET minted(t) == MintContributions(bundle, roles, t)
        paid == PaidMints(bundle)
    IN  FlattenSeq([i \in DOMAIN bundle.sales |->
                       SaleContributions(bundle, roles, bundle.sales[i])])
        \o FlattenSeq([i \in DOMAIN bundle.transfers |->
                          IF i \in paid THEN minted(bundle.transfers[i])
                          ELSE <<>>])

FlowContributions(bundle) ==
    LET counted == SelectSeq(bundle.flows, LAMBDA e :
                       e.usd_amount >= 0 \/ e.native_amount > 0)
    IN  IF ~ StatusUsable(bundle.quality.value_flows) THEN <<>>
        ELSE [i \in DOMAIN counted |->
                [tx_hash |-> counted[i].tx_hash,
                 event_id |-> counted[i].event_id, from |-> counted[i].from,
                 to |-> counted[i].to, kind |-> counted[i].kind,
                 usd |-> counted[i].usd_amount]]

-----------------------------------------------------------------------------
(* compute_economics                                                       *)

NoEconomics ==
    [gross_usd |-> 0, marketplace_fee_usd |-> 0, royalty_fee_usd |-> 0,
     operator_output_usd |-> 0, operator_royalty_usd |-> 0,
     secondary_loss_usd |-> 0, mint_loss_usd |-> 0, honest_loss_usd |-> 0,
     stuck_nfts |-> 0, funding_usd |-> 0, backflow_usd |-> 0,
     withdrawal_usd |-> 0, priced_flows |-> 0, unpriced_flows |-> 0,
     sales |-> 0, priced_sales |-> 0, unpriced_sales |-> 0,
     amountless_sales |-> 0, pegged_sales |-> 0, operator_sales |-> 0,
     priced_proceeds |-> 0, unpriced_proceeds |-> 0, unknown_proceeds |-> 0,
     unknown_royalty |-> 0, paid_mints |-> 0, operator_mints |-> 0,
     priced_operator_mints |-> 0, unpriced_operator_mints |-> 0,
     unknown_mint_receivers |-> 0, honest_mints |-> 0,
     unpriced_honest_mints |-> 0,
     setup_gas_usd |-> 0, lure_gas_usd |-> 0, exit_gas_usd |-> 0,
     total_gas_usd |-> 0, gas_observed |-> FALSE, gas_priced |-> FALSE,
     attacker_input_usd |-> Missing, output_input_ratio |-> <<>>,
     flow_contributions |-> <<>>, gas_contributions |-> {},
     contributions |-> <<>>]

\* An operator's output is whole when no proceeds, royalty or mint payment
\* of unknown owner or price is missing from it.
OutputComplete(f) ==
    /\ f.unknown_proceeds = 0 /\ f.unpriced_proceeds = 0
    /\ f.unknown_royalty = 0 /\ f.unknown_mint_receivers = 0
    /\ f.unpriced_operator_mints = 0

WithRatio(facts) ==
    [facts EXCEPT !.output_input_ratio =
        IF OutputComplete(facts) /\ facts.gas_priced
        THEN <<facts.operator_output_usd, facts.total_gas_usd>> ELSE <<>>]

EconomicsOf(bundle, roles) ==
    LET sales == DOMAIN bundle.sales
        sale(i) == bundle.sales[i]
        mint(i) == bundle.transfers[i]
        operatorSales == {i \in sales : ByOperator(roles, sale(i))}
        known == {i \in operatorSales : sale(i).seller_proceeds_native >= 0}
        priced == {i \in sales : sale(i).usd_amount >= 0}
        royaltied == {i \in sales : sale(i).royalty_fee_native > 0}
        stuckSales == {i \in sales : HonestSale(bundle, roles, sale(i))}
        mints == PaidMints(bundle)
        operatorMints == {i \in mints : MintToOperator(bundle, roles, mint(i))}
        honestMints == {i \in mints : HonestMint(bundle, roles, mint(i))}
        flows == IF StatusUsable(bundle.quality.value_flows)
                 THEN DOMAIN bundle.flows ELSE {}
        flow(i) == bundle.flows[i]
        flowUsd(kinds) == SumOf({i \in flows : flow(i).kind \in kinds},
                                LAMBDA i : OrZero(flow(i).usd_amount))
        royalty == SumOf({i \in sales : RoyaltyToOperator(roles, sale(i))},
                         LAMBDA i : OrZero(sale(i).royalty_fee_usd))
        proceeds == SumOf({i \in sales : PricedProceeds(roles, sale(i))},
                          LAMBDA i : sale(i).seller_proceeds_usd)
        minted == SumOf(operatorMints,
                        LAMBDA i : OrZero(mint(i).mint_payment_usd))
        secondary == SumOf(stuckSales, LAMBDA i : OrZero(sale(i).usd_amount))
        mintLoss == SumOf(honestMints,
                          LAMBDA i : OrZero(mint(i).mint_payment_usd))
        gas == GasByTx(bundle, roles)
        spent == StageGas(gas, {Setup, Lure, Exit})
        rate == SpotRate(bundle)
    IN  WithRatio([NoEconomics EXCEPT
         !.gross_usd = SumOf(sales, LAMBDA i : OrZero(sale(i).usd_amount)),
         !.marketplace_fee_usd =
            SumOf(sales, LAMBDA i : OrZero(sale(i).marketplace_fee_usd)),
         !.royalty_fee_usd =
            SumOf(sales, LAMBDA i : OrZero(sale(i).royalty_fee_usd)),
         !.operator_output_usd = proceeds + royalty + minted,
         !.operator_royalty_usd = royalty,
         !.secondary_loss_usd = secondary,
         !.mint_loss_usd = mintLoss,
         !.honest_loss_usd = secondary + mintLoss,
         !.stuck_nfts = Cardinality(
            {sale(i).token_id : i \in stuckSales}
            \cup {mint(i).token_id : i \in honestMints}),
         !.funding_usd = flowUsd({"Funding"}),
         !.backflow_usd = flowUsd({"RevenueBackflow"}),
         !.withdrawal_usd = flowUsd({"Withdrawal", "Cashout"}),
         !.priced_flows = CountOf({i \in flows : flow(i).usd_amount >= 0}),
         !.unpriced_flows = CountOf({i \in flows :
            flow(i).usd_amount < 0 /\ flow(i).native_amount > 0}),
         !.sales = Len(bundle.sales),
         !.priced_sales = CountOf(priced),
         !.unpriced_sales =
            CountOf({i \in sales \ priced : sale(i).native_amount > 0}),
         !.amountless_sales =
            CountOf({i \in sales \ priced : sale(i).native_amount <= 0}),
         !.pegged_sales =
            CountOf({i \in priced : /\ sale(i).currency = "stable"
                                    /\ bundle.quotes.stable <= 0}),
         !.operator_sales = CountOf(operatorSales),
         !.priced_proceeds =
            CountOf({i \in sales : PricedProceeds(roles, sale(i))}),
         !.unpriced_proceeds =
            CountOf({i \in known : sale(i).seller_proceeds_usd < 0}),
         !.unknown_proceeds = CountOf(operatorSales \ known),
         !.unknown_royalty =
            CountOf({i \in royaltied : sale(i).royalty_recipient = Empty}),
         !.paid_mints = CountOf(mints),
         !.unknown_mint_receivers = CountOf({i \in mints :
            mint(i).mint_payment_receiver = Missing}),
         !.operator_mints = CountOf(operatorMints),
         !.priced_operator_mints = CountOf({i \in operatorMints :
            mint(i).mint_payment_usd # Missing}),
         !.unpriced_operator_mints = CountOf({i \in operatorMints :
            mint(i).mint_payment_usd = Missing}),
         !.honest_mints = CountOf(honestMints),
         !.unpriced_honest_mints = CountOf({i \in honestMints :
            mint(i).mint_payment_usd = Missing}),
         !.setup_gas_usd = StageGas(gas, {Setup}) * rate,
         !.lure_gas_usd = StageGas(gas, {Lure}) * rate,
         !.exit_gas_usd = StageGas(gas, {Exit}) * rate,
         !.total_gas_usd = spent * rate,
         !.gas_observed = spent > 0,
         !.gas_priced = spent > 0 /\ rate > 0,
         !.attacker_input_usd =
            IF spent > 0 /\ rate > 0 THEN spent * rate ELSE Missing,
         !.flow_contributions = FlowContributions(bundle),
         !.gas_contributions = PricedGas(bundle, gas),
         !.contributions = Contributions(bundle, roles)])

\* The evidence families whose figures are withheld (EconomicsQuality.notes).
Withheld(bundle) ==
    {f \in {"gas", "value_flows"} :
        bundle.quality[f] \in {"NotRequested", "Failed"}}

-----------------------------------------------------------------------------
(* mod.rs                                                                  *)

NoAnalysis ==
    [contract |-> 0, chain |-> "", legit |-> Classify(NoSignals),
     legit_by_seed |-> <<>>, attribution |-> <<>>, lifecycle |-> <<>>,
     value_flow |-> <<>>,
     behaviors |-> [k \in ToSet(KindOrder) |-> 0],
     instances |-> <<>>, economics |-> NoEconomics, withheld |-> {},
     quality |-> AQuality, population |-> Missing]

FullyLegit(bySeed) ==
    /\ DOMAIN bySeed # {}
    /\ \A seed \in DOMAIN bySeed : bySeed[seed].legit

\* What both the analysis and the projection say of a candidate first.
Classified(analysis, legit, relations) ==
    [analysis EXCEPT
        !.legit = Classify(legit),
        !.legit_by_seed = [seed \in DOMAIN relations |->
                              Classify(relations[seed])]]

\* What is found in the events, once the roles and the instances are known.
Detailed(base, bundle, graph, roles, found, now) ==
    [base EXCEPT !.attribution = Attribution(bundle, graph, roles),
                 !.lifecycle = Lifecycle(bundle, roles, now),
                 !.value_flow = ValueFlow(bundle, roles),
                 !.behaviors = found.facts,
                 !.instances = found.instances,
                 !.economics = EconomicsOf(bundle, roles),
                 !.withheld = Withheld(bundle)]

Explained(base, bundle, graph, roles, now) ==
    Detailed(base, bundle, graph, roles,
             Behaviors(bundle, graph, Components(graph), roles), now)

\* analyze_candidate: nothing is looked for in the events of a candidate
\* whose every relation is legitimate.
Analyze(bundle, now) ==
    LET base == Classified([NoAnalysis EXCEPT !.contract = bundle.contract,
                                              !.chain = bundle.chain,
                                              !.quality = bundle.quality,
                                              !.population =
            IF bundle.collection_nft_count_complete
            THEN bundle.collection_nft_count ELSE Missing],
                           bundle.legit, bundle.relations)
    IN  IF FullyLegit(base.legit_by_seed) THEN base
        ELSE Explained(base, bundle, FromTransfers(bundle.transfers),
                       Roles(bundle), now)

\* Mutant: a scope that is fully legitimate keeps the figures.
ProjectKeepingFigures(analysis, relations) ==
    Classified(analysis, Merged(relations), relations)

\* project_relation_signals: the same candidate seen from some of its seeds.
\* relations are the signals of the bundle for those seeds.
Project(analysis, relations) ==
    LET legit == [Merged(relations) EXCEPT !.verification_complete =
                                    @ \/ Merged(relations).flags # {}]
        projected == Classified(analysis, legit, relations)
    IN  IF ~ FullyLegit(projected.legit_by_seed) THEN projected
        ELSE [projected EXCEPT !.attribution = <<>>, !.lifecycle = <<>>,
                               !.value_flow = <<>>,
                               !.behaviors = NoAnalysis.behaviors,
                               !.instances = <<>>,
                               !.economics = NoEconomics, !.withheld = {}]

\* has_complete_evidence
HasCompleteEvidence(analysis) ==
    LET q == analysis.quality
        e == analysis.economics
        bySeed == analysis.legit_by_seed
    IN  \/ q.excluded_non_nft
        \/ /\ FullyLegit(bySeed)
           /\ \A seed \in DOMAIN bySeed : bySeed[seed].verification_complete
        \/ /\ ~ FullyLegit(bySeed)
           /\ {q.transfers, q.sales, q.holders, q.prices, q.gas,
               q.value_flows} \subseteq {"Complete", "Empty"}
           /\ analysis.chain = "solana" =>
                 {q.assets, q.histories} \subseteq {"Complete", "Empty"}
           /\ OutputComplete(e)
           /\ e.unpriced_sales = 0 /\ e.amountless_sales = 0
           /\ e.pegged_sales = 0 /\ e.unpriced_honest_mints = 0
           /\ e.unpriced_flows = 0

\* shrink_for_summary_memory: what stays of an analysis once its file is on
\* its way to the disk; of an instance only what the summaries read.
Shrink(analysis) ==
    [analysis EXCEPT
        !.attribution = [a \in DOMAIN analysis.attribution |->
                            [@[a] EXCEPT !.evidence = {}]],
        !.lifecycle = <<>>, !.value_flow = <<>>,
        !.instances = [i \in DOMAIN analysis.instances |->
            [kind |-> @[i].kind, addresses |-> @[i].addresses,
             nfts |-> @[i].nfts, buyers |-> @[i].buyers,
             losses |-> @[i].losses]]]

=============================================================================
