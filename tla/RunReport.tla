------------------------------ MODULE RunReport ------------------------------
(***************************************************************************)
(* analysis/crates/core/src/reporting/run.rs and the end of run_inner      *)
(* (cli/src/pipeline.rs): the analyses of the candidates, projected to     *)
(* every scope of the report, summed per seed and per scope.  What several *)
(* candidates share (a transaction's fee, a native transfer, an address)   *)
(* counts once.  Contracts are numbered in the order of "chain:address"    *)
(* and stand for that key.  A ratio is a pair, <<>> when undefined.        *)
(***************************************************************************)
EXTENDS CandidateAnalysis

CONSTANTS
    ReportChains,  \* store.chains
    ContractChain,       \* contract -> chain
    ResidentNfts   \* contract -> its NFTs in the store

(***************************************************************************)
(* A seed's dedup report is [seed, relations]; a relation is [candidate,   *)
(* nfts]: the candidate's NFTs it hits.  (A relation the dedup stage made  *)
(* lists them; the counts kept for reports without the list are left out.) *)
(***************************************************************************)

-----------------------------------------------------------------------------
(* Scopes                                                                  *)

ReportScope(kind, primary, secondary) ==
    [kind |-> kind, primary |-> primary, secondary |-> secondary]

AllScope == ReportScope("All", "", "")

Scopes ==
    {AllScope, ReportScope("Intra", "", ""), ReportScope("Cross", "", "")}
    \cup {ReportScope(kind, chain, "") : kind \in {"IntraChain", "CrossPrimary"},
                                   chain \in ReportChains}
    \cup {ReportScope("Matrix", p[1], p[2]) :
            p \in {p \in ReportChains \X ReportChains : p[1] # p[2]}}

SeedMatches(scope, chain) ==
    scope.kind \in {"IntraChain", "CrossPrimary", "Matrix"} =>
        chain = scope.primary

RelationMatches(scope, seedChain, candidateChain) ==
    LET same == seedChain = candidateChain
        primary == seedChain = scope.primary
    IN  CASE scope.kind = "All" -> TRUE
          [] scope.kind = "Intra" -> same
          [] scope.kind = "IntraChain" -> same /\ primary
          [] scope.kind = "Cross" -> ~ same
          [] scope.kind = "CrossPrimary" -> ~ same /\ primary
          [] scope.kind = "Matrix" ->
                ~ same /\ primary /\ candidateChain = scope.secondary

\* build_scope_selectors: the seeds whose relations a scope sees.
ScopeSeeds(relations, scope, c) ==
    {r[2] : r \in {r \in relations :
        r[1] = c /\ RelationMatches(scope, ContractChain[r[2]], ContractChain[c])}}

\* ScopeEvidenceSelector::relation_signals
RelationSignalsFor(bundle, seeds) ==
    [s \in DOMAIN bundle.relations \cap seeds |-> bundle.relations[s]]

\* The analyses of a scope: every candidate that one of its relations names,
\* projected to those relations.
ScopeAnalyses(relations, bundles, analyses, scope) ==
    LET related == {c \in DOMAIN analyses :
                       ScopeSeeds(relations, scope, c) # {}}
    IN  [c \in related |->
            Project(analyses[c],
                    RelationSignalsFor(bundles[c],
                                       ScopeSeeds(relations, scope, c)))]

SeedAnalyses(relations, bundles, analyses, seed) ==
    [c \in {c \in DOMAIN analyses : <<c, seed>> \in relations} |->
        Project(analyses[c], RelationSignalsFor(bundles[c], {seed}))]

-----------------------------------------------------------------------------
(* Dollars: what the analyses add up to                                    *)

CarriedFields ==
    {"gross_usd", "marketplace_fee_usd", "royalty_fee_usd",
     "operator_output_usd", "operator_royalty_usd", "secondary_loss_usd",
     "mint_loss_usd", "honest_loss_usd", "stuck_nfts", "funding_usd",
     "backflow_usd", "withdrawal_usd", "priced_flows", "unpriced_flows",
     "sales", "priced_sales", "unpriced_sales", "amountless_sales",
     "pegged_sales", "operator_sales", "priced_proceeds",
     "unpriced_proceeds", "unknown_proceeds", "unknown_royalty",
     "paid_mints", "operator_mints", "priced_operator_mints",
     "unpriced_operator_mints", "unknown_mint_receivers", "honest_mints",
     "unpriced_honest_mints", "setup_gas_usd", "lure_gas_usd",
     "exit_gas_usd", "total_gas_usd"}

HasRatio(analysis) == analysis.economics.output_input_ratio # <<>>

HasCompleteRatio(analysis) ==
    HasRatio(analysis) /\ HasCompleteEvidence(analysis)

RatioPart(analysis, counted) ==
    LET e == analysis.economics
    IN  [ratio_output_usd |-> IF counted THEN e.operator_output_usd ELSE 0,
         ratio_input_usd |-> IF counted THEN e.attacker_input_usd ELSE 0,
         ratios |-> IF counted THEN 1 ELSE 0,
         ratios_ge1 |->
            IF counted /\ e.operator_output_usd >= e.attacker_input_usd
            THEN 1 ELSE 0]

\* economics_usd_from
UsdFrom(analysis) ==
    LET e == analysis.economics
    IN  [sums |-> [f \in CarriedFields |-> e[f]],
         attacker_input_usd |-> OrZero(e.attacker_input_usd),
         gas_contracts |-> IF e.gas_observed THEN 1 ELSE 0,
         unpriced_gas_contracts |->
            IF e.gas_observed /\ ~ e.gas_priced THEN 1 ELSE 0,
         observed |-> RatioPart(analysis, HasRatio(analysis)),
         complete |-> RatioPart(analysis, HasCompleteRatio(analysis))]

AddFields(a, b) == [f \in DOMAIN a |-> a[f] + b[f]]

\* merge_usd
MergeUsd(a, b) ==
    [sums |-> AddFields(a.sums, b.sums),
     attacker_input_usd |-> a.attacker_input_usd + b.attacker_input_usd,
     gas_contracts |-> a.gas_contracts + b.gas_contracts,
     unpriced_gas_contracts |->
        a.unpriced_gas_contracts + b.unpriced_gas_contracts,
     observed |-> AddFields(a.observed, b.observed),
     complete |-> AddFields(a.complete, b.complete)]

\* collect_economic_events: the contributions of an analysis, by contract,
\* token, transaction, parties, kind and amount.  One without a transaction
\* is told apart by its place.
EconomicEvents(analysis) ==
    LET told == analysis.economics.contributions
    IN  {[contract |-> analysis.contract, kind |-> told[i].kind,
          tx_hash |-> IF told[i].tx_hash = 0 THEN - i ELSE told[i].tx_hash,
          token_id |-> told[i].token_id, from |-> told[i].from,
          to |-> told[i].to, usd |-> told[i].usd] : i \in DOMAIN told}

EventsOf(analyses) ==
    UNION {EconomicEvents(analyses[c]) : c \in DOMAIN analyses}

KindsUsd(events, kinds) ==
    SumOf({e \in events : e.kind \in kinds}, LAMBDA e : e.usd)

OutputKinds ==
    {"OperatorSaleProceeds", "OperatorRoyalty", "OperatorMintPayment"}

\* apply_deduped_economic_events
ApplyEvents(sums, events) ==
    IF events = {} THEN sums
    ELSE [sums EXCEPT
            !.gross_usd = KindsUsd(events, {"GrossSale"}),
            !.marketplace_fee_usd = KindsUsd(events, {"MarketplaceFee"}),
            !.royalty_fee_usd = KindsUsd(events, {"RoyaltyFee"}),
            !.operator_output_usd = KindsUsd(events, OutputKinds),
            !.operator_royalty_usd = KindsUsd(events, {"OperatorRoyalty"}),
            !.secondary_loss_usd =
                KindsUsd(events, {"HonestSecondaryExposure"}),
            !.mint_loss_usd = KindsUsd(events, {"HonestMintExposure"}),
            !.honest_loss_usd =
                KindsUsd(events, {"HonestSecondaryExposure",
                                  "HonestMintExposure"})]

\* The fees, as <<<<chain, tx>>, stage, usd, contract>>.
GasEvents(analyses) ==
    UNION {{<<<<analyses[c].chain, g.tx_hash>>, g.stage, g.usd, c>> :
               g \in analyses[c].economics.gas_contributions} :
           c \in DOMAIN analyses}

\* Mutant: a fee counts for every candidate its transaction served.
GasPerCandidate(events) ==
    [k \in {<<g[1], g[4]>> : g \in events} |->
        LET same == {g \in events : <<g[1], g[4]>> = k}
        IN  [stage |-> Max({g[2] : g \in same}),
             usd |-> Max({g[3] : g \in same}),
             owner |-> Min({g[4] : g \in same})]]

\* One fee per transaction: the latest stage, the largest amount, and the
\* first of its candidates.
GasByTransaction(events) ==
    [tx \in {g[1] : g \in events} |->
        LET same == {g \in events : g[1] = tx}
        IN  [stage |-> Max({g[2] : g \in same}),
             usd |-> Max({g[3] : g \in same}),
             owner |-> Min({g[4] : g \in same})]]

GasUsd(gas, stages) ==
    SumOf({tx \in DOMAIN gas : gas[tx].stage \in stages},
          LAMBDA tx : gas[tx].usd)

ApplyGas(roll, gas) ==
    IF DOMAIN gas = {} THEN roll
    ELSE [roll EXCEPT
            !.sums.setup_gas_usd = GasUsd(gas, {Setup}),
            !.sums.lure_gas_usd = GasUsd(gas, {Lure}),
            !.sums.exit_gas_usd = GasUsd(gas, {Exit}),
            !.sums.total_gas_usd = GasUsd(gas, {Setup, Lure, Exit}),
            !.attacker_input_usd = GasUsd(gas, {Setup, Lure, Exit})]

\* The native transfers, keyed; one without an event id by its amount.
FlowEvents(analyses) ==
    UNION {{[key |-> <<analyses[c].chain, f.tx_hash,
                       IF f.event_id # Missing THEN <<"id", f.event_id>>
                       ELSE <<"legacy", OrZero(f.usd)>>, f.from, f.to>>,
             usd |-> f.usd, kind |-> f.kind] :
               f \in ToSet(analyses[c].economics.flow_contributions)} :
           c \in DOMAIN analyses}

\* A transfer that funds one candidate and is withdrawn from another, or
\* that a candidate sees as backflow, is backflow.
FlowKindOf(kinds) ==
    LET withdrawn == kinds \cap {"Withdrawal", "Cashout"} # {}
    IN  IF "RevenueBackflow" \in kinds \/ ("Funding" \in kinds /\ withdrawn)
        THEN "RevenueBackflow"
        ELSE IF "Funding" \in kinds THEN "Funding" ELSE "Withdrawal"

ApplyFlows(sums, events) ==
    LET keys == {f.key : f \in events}
        usd(k) == Max({f.usd : f \in {f \in events : f.key = k}})
        kind(k) == FlowKindOf({f.kind : f \in {f \in events : f.key = k}})
        total(kd) == SumOf({k \in keys : kind(k) = kd},
                           LAMBDA k : OrZero(usd(k)))
        priced == {k \in keys : usd(k) # Missing}
    IN  IF events = {} THEN sums
        ELSE [sums EXCEPT !.funding_usd = total("Funding"),
                          !.backflow_usd = total("RevenueBackflow"),
                          !.withdrawal_usd = total("Withdrawal"),
                          !.priced_flows = Cardinality(priced),
                          !.unpriced_flows = Cardinality(keys \ priced)]

Restricted(analyses, Test(_)) ==
    [c \in {c \in DOMAIN analyses : Test(analyses[c])} |-> analyses[c]]

\* The ratio's output and input over the candidates that have one.
ApplyRatio(part, analyses) ==
    LET gas == GasByTransaction(GasEvents(analyses))
    IN  IF part.ratios = 0 THEN part
        ELSE [part EXCEPT
                !.ratio_output_usd = KindsUsd(EventsOf(analyses), OutputKinds),
                !.ratio_input_usd = GasUsd(gas, {Setup, Lure, Exit})]

\* The totals over some candidates, each counted with what it contributed.
Totals(analyses) ==
    LET merged == FoldSet(LAMBDA c, acc : MergeUsd(acc, UsdFrom(analyses[c])),
                          UsdFrom(NoAnalysis), DOMAIN analyses)
        rolled == [merged EXCEPT
            !.sums = ApplyFlows(ApplyEvents(@, EventsOf(analyses)),
                                FlowEvents(analyses)),
            !.observed = ApplyRatio(@, Restricted(analyses, HasRatio)),
            !.complete = ApplyRatio(@, Restricted(analyses,
                                                  HasCompleteRatio))]
    IN  ApplyGas(rolled, GasByTransaction(GasEvents(analyses)))

-----------------------------------------------------------------------------
(* One seed                                                                *)

\* classification_for_seed, or what the whole candidate is taken for.
LegitFor(analysis, seed) ==
    IF seed \in DOMAIN analysis.legit_by_seed
    THEN analysis.legit_by_seed[seed].legit ELSE analysis.legit.legit

\* The addresses of a role, on their chain.
WithRole(analyses, role) ==
    UNION {{<<analyses[c].chain, a>> :
               a \in {a \in DOMAIN analyses[c].attribution :
                         analyses[c].attribution[a].role = role}} :
           c \in DOMAIN analyses}

\* build_seed_analysis_rollup, and whether the seed's analysis is complete.
SeedRollup(report, analyses) ==
    LET present == {r \in report.relations : r.candidate \in DOMAIN analyses}
        counted == {r \in present :
                       ~ analyses[r.candidate].quality.excluded_non_nft}
        legit == {r \in counted :
                     LegitFor(analyses[r.candidate], report.seed)}
        suspect == counted \ legit
        suspects == [c \in {r.candidate : r \in suspect} |-> analyses[c]]
        malicious == WithRole(suspects, "SuspectedOperator")
        honest == WithRole(suspects, "LikelyVictim")
    IN  [analyzed |-> Cardinality(counted),
         suspected |-> Cardinality(suspect), legit |-> Cardinality(legit),
         infringing_nfts |-> SumOf(suspect, LAMBDA r : Cardinality(r.nfts)),
         malicious |-> Cardinality(malicious),
         honest |-> Cardinality(honest \ malicious),
         overlapping |-> Cardinality(honest \cap malicious),
         economics |-> Totals(suspects),
         refs |-> {r.candidate : r \in counted},
         analysis_complete |->
            /\ present = report.relations
            /\ \A r \in present : HasCompleteEvidence(analyses[r.candidate])]

-----------------------------------------------------------------------------
(* One scope                                                               *)

\* The scope's relations as <<seed, relation>>, without candidates that are
\* no NFT contracts.
ScopeRelations(scope, reports, analyses) ==
    UNION {{<<rep.seed, r>> : r \in {r \in rep.relations :
                /\ SeedMatches(scope, ContractChain[rep.seed])
                /\ RelationMatches(scope, ContractChain[rep.seed],
                                   ContractChain[r.candidate])
                /\ r.candidate \in DOMAIN analyses =>
                      ~ analyses[r.candidate].quality.excluded_non_nft}} :
           rep \in reports}

\* A candidate whose analysis is missing is suspected.
IsSuspicious(analyses, sr) ==
    sr[2].candidate \in DOMAIN analyses =>
        ~ LegitFor(analyses[sr[2].candidate], sr[1])

Verified(analyses, sr) ==
    /\ sr[2].candidate \in DOMAIN analyses
    /\ sr[1] \in DOMAIN analyses[sr[2].candidate].legit_by_seed
    /\ analyses[sr[2].candidate].legit_by_seed[sr[1]].verification_complete

HitNfts(relations) == UNION {sr[2].nfts : sr \in relations}

\* The NFTs of a suspected contract: what a provider says when it saw them
\* all, else what the store holds, and never fewer than the hits.
ContractNfts(analyses, relations, c) ==
    LET hits == {sr \in relations : sr[2].candidate = c}
        fallback == Cardinality(HitNfts(hits))
        known == IF c \notin DOMAIN analyses THEN Missing
                 ELSE IF analyses[c].population # Missing
                 THEN analyses[c].population ELSE ResidentNfts[c]
    IN  [count |-> Larger(known, fallback), complete |-> known >= fallback]

BehaviorSettled(analysis) ==
    {analysis.quality[f] : f \in {"transfers", "sales", "holders", "prices"}}
        \subseteq {"Complete", "Empty"}

\* The instances of some kinds, as <<contract, instance>>.
InstancesOf(analyses, kinds) ==
    UNION {{<<c, analyses[c].instances[i], i>> :
               i \in {i \in DOMAIN analyses[c].instances :
                         analyses[c].instances[i].kind \in kinds}} :
           c \in DOMAIN analyses}

\* The paid exposure linked to a kind: of the losses of a buyer, token and
\* transaction the first is kept.
LinkedLosses(analyses, kind) ==
    LET told(c) == FlattenSeq([i \in DOMAIN analyses[c].instances |->
                      IF analyses[c].instances[i].kind = kind
                      THEN analyses[c].instances[i].losses ELSE <<>>])
        key(c, l) == <<c, l.tx_hash, l.buyer, l.token_id>>
        keys == UNION {{key(c, l) : l \in ToSet(told(c))} :
                       c \in DOMAIN analyses}
    IN  [k \in keys |->
            told(k[1])[SelectInSeq(told(k[1]),
                                   LAMBDA l : key(k[1], l) = k)].usd]

\* Over all kinds, in the order the map of the kinds happens to have.
AllLosses(analyses, order) ==
    FoldLeft(LAMBDA acc, kind : acc @@ LinkedLosses(analyses, kind),
             <<>>, order)

LossSum(losses) == SumOf(DOMAIN losses, LAMBDA k : losses[k])

BehaviorRow(analyses, kinds, losses) ==
    LET settled == Restricted(analyses, BehaviorSettled)
        found == InstancesOf(analyses, kinds)
        whole == InstancesOf(settled, kinds)
        across(Part(_)) == UNION {{<<analyses[x[1]].chain, p>> :
                                      p \in Part(x[2])} : x \in found}
    IN  [contracts |-> Cardinality({x[1] : x \in found}),
         complete_contracts |-> Cardinality({x[1] : x \in whole}),
         analyzable |-> Cardinality(DOMAIN settled),
         instances |-> Cardinality(found),
         complete_instances |-> Cardinality(whole),
         addresses |-> Cardinality(across(LAMBDA x : ToSet(x.addresses))),
         nfts |-> Cardinality(UNION {{<<x[1], n>> : n \in x[2].nfts} :
                                        x \in found}),
         buyers |-> Cardinality(across(LAMBDA x : x.buyers)),
         exposure_usd |-> LossSum(losses)]

CycleSizes(analyses) ==
    LET cycles == InstancesOf(analyses, {"WashTrading"})
        size(x) == Len(x[2].addresses)
    IN  [n \in 2..5 |-> Cardinality({x \in cycles :
            IF n < 5 THEN size(x) = n ELSE size(x) >= 5})]

\* Which share of the fees the tenth of the suspected contracts with the
\* largest fees paid.
TopGas(suspected, gas) ==
    LET owners == {gas[tx].owner : tx \in DOMAIN gas}
        paid(c) == SumOf({tx \in DOMAIN gas : gas[tx].owner = c},
                         LAMBDA tx : gas[tx].usd)
        byGas == Sorted(owners, LAMBDA a, b :
                    paid(a) > paid(b) \/ (paid(a) = paid(b) /\ a < b))
        top == (suspected + 9) \div 10
    IN  [top |-> SumOf({byGas[i] : i \in 1..Min({top, Len(byGas)})}, paid),
         total |-> SumOf(owners, paid)]

\* Every suspected candidate was analysed, and every one settled the family.
AllSettled(suspects, suspected, families) ==
    /\ DOMAIN suspects = suspected
    /\ \A c \in suspected, f \in families :
          suspects[c].quality[f] \in {"Complete", "Empty"}

Quality(suspects, suspected, totals) ==
    LET e == totals.sums
        evidence == AllSettled(suspects, suspected,
                               {"transfers", "sales", "holders", "prices",
                                "gas", "value_flows"})
        priced == /\ e.unpriced_sales = 0 /\ e.amountless_sales = 0
                  /\ e.pegged_sales = 0 /\ e.unpriced_flows = 0
                  /\ e.unpriced_proceeds = 0 /\ e.unpriced_operator_mints = 0
                  /\ e.unpriced_honest_mints = 0
                  /\ totals.unpriced_gas_contracts = 0
        output == evidence /\ OutputComplete(e)
        covered == /\ suspected # {}
                   /\ totals.observed.ratios = Cardinality(suspected)
    IN  [evidence |-> evidence, usd |-> evidence /\ priced, output |-> output,
         ratio |-> covered /\ output,
         observed_only |-> totals.observed.ratios > 0 /\ ~ (covered /\ output)]

\* build_run_summary_for_scope_with_store
Summary(scope, reports, analyses, order) ==
    LET relations == ScopeRelations(scope, reports, analyses)
        suspicious == {sr \in relations : IsSuspicious(analyses, sr)}
        contracts == {sr[2].candidate : sr \in relations}
        suspected == {sr[2].candidate : sr \in suspicious}
        suspects == [c \in suspected \cap DOMAIN analyses |-> analyses[c]]
        malicious == WithRole(suspects, "SuspectedOperator")
        honest == WithRole(suspects, "LikelyVictim")
        servedBy(a) == {c \in DOMAIN suspects :
                          a \in WithRole([x \in {c} |-> suspects[x]],
                                         "SuspectedOperator")}
        totals == Totals(suspects)
        gas == TopGas(Cardinality(suspected),
                      GasByTransaction(GasEvents(suspects)))
        nfts(c) == ContractNfts(analyses, relations, c)
        population == SumOf(suspected, LAMBDA c : nfts(c).count)
        whole == /\ \A c \in suspected : nfts(c).complete
                 /\ totals.sums.stuck_nfts <= population
        kinds == ToSet(KindOrder)
    IN  [seeds |-> {rep.seed : rep \in {rep \in reports :
                                  SeedMatches(scope, ContractChain[rep.seed])}},
         seeds_with_duplicate |-> {sr[1] : sr \in relations},
         contracts |-> contracts, suspected |-> suspected,
         legit |-> contracts \ suspected,
         missing |-> Cardinality(suspected \ DOMAIN analyses),
         verified |-> Cardinality({sr \in relations : Verified(analyses, sr)}),
         unverified |->
            Cardinality({sr \in relations : ~ Verified(analyses, sr)}),
         representative_nfts |-> Cardinality(HitNfts(relations)),
         infringing_nfts |-> Cardinality(HitNfts(suspicious)),
         contract_nfts |-> population, contract_nfts_complete |-> whole,
         malicious |-> Cardinality(malicious),
         repeat_malicious |-> Cardinality({a \in malicious :
                                 Cardinality(servedBy(a)) >= 2}),
         honest |-> Cardinality(honest \ malicious),
         overlapping |-> Cardinality(honest \cap malicious),
         behaviors |-> [k \in kinds |->
            BehaviorRow(suspects, {k}, LinkedLosses(suspects, k))],
         all_behaviors |->
            BehaviorRow(suspects, kinds, AllLosses(suspects, order)),
         cycle_sizes |-> CycleSizes(suspects),
         economics |-> totals,
         output_input_ratio |->
            IF totals.observed.ratio_input_usd > 0
            THEN <<totals.observed.ratio_output_usd,
                   totals.observed.ratio_input_usd>> ELSE <<>>,
         complete_ratio |->
            IF totals.complete.ratio_input_usd > 0
            THEN <<totals.complete.ratio_output_usd,
                   totals.complete.ratio_input_usd>> ELSE <<>>,
         stuck_ratio |->
            IF whole /\ population > 0
            THEN <<totals.sums.stuck_nfts, population>> ELSE <<>>,
         top_gas |-> gas,
         gas_concentration |->
            IF gas.total > 0 /\ totals.unpriced_gas_contracts = 0
            THEN <<gas.top, gas.total>> ELSE <<>>,
         quality |-> Quality(suspects, suspected, totals)]

-----------------------------------------------------------------------------
(* The run's report                                                        *)

\* filter_non_nft_report: the relations of contracts that are no NFT
\* contracts leave the written reports.
FilterNonNft(report, analyses) ==
    [report EXCEPT !.relations = {r \in @ : r.candidate \in DOMAIN analyses =>
        ~ analyses[r.candidate].quality.excluded_non_nft}]

\* The aggregation of run_inner and write_run_outputs: a rollup for every
\* seed that was deduplicated and a summary for every scope.
WriteRunOutputs(relations, reports, bundles, analyses, order) ==
    LET written == {FilterNonNft(rep, analyses) : rep \in reports}
    IN  [seeds |-> [s \in {rep.seed : rep \in reports} |->
            SeedRollup(CHOOSE rep \in reports : rep.seed = s,
                       SeedAnalyses(relations, bundles, analyses, s))],
         summaries |-> [scope \in Scopes |->
            Summary(scope, written,
                    ScopeAnalyses(relations, bundles, analyses, scope),
                    order)]]

=============================================================================
