---------------------------- MODULE CandidateRun ----------------------------
(***************************************************************************)
(* The second half of the run command (run_inner in                        *)
(* analysis/crates/cli/src/pipeline.rs), from the registry of hits to the  *)
(* summaries: the gate decides who is worth the requests, the enrichment   *)
(* turns what the chain says into evidence, the pool analyses and writes   *)
(* the candidates, and the report adds them up.  The requests of the       *)
(* enrichment are those of EvmEnrichment and the checkpoint is that of     *)
(* EvidenceCache; this run starts without one and every request of the     *)
(* enrichment is answered.                                                 *)
(*                                                                         *)
(* In the pool Rayon workers take the candidates in any order, analyse     *)
(* them and send the JSON to a writer thread over a bounded channel.  The  *)
(* stage drops the sender, joins the writer, and reports only what it then *)
(* finds.                                                                  *)
(***************************************************************************)
EXTENDS LegitGate, RunReport

CONSTANTS
    KindOrders,     \* the orders the map of the behaviors may have
    Now,            \* when the analysis runs
    Jobs,           \* the contracts that may be candidates
    NoJob,          \* none of them
    Workers,        \* the pool's threads
    QueueCapacity   \* of the sync_channel

ASSUME PoolAssumption == NoJob \notin Jobs /\ QueueCapacity \in Nat \ {0}

-----------------------------------------------------------------------------
(* The pool.                                                               *)

VARIABLES
    pool,       \* "waiting", "analysing", "joining", "reporting", "failed",
                \* "cancelled"
    jobs,       \* the registry's candidates
    todo,       \* those no worker took yet
    working,    \* worker -> its candidate, or NoJob
    result,     \* candidate -> "none", "ok", "failed", "cancelled"
    queue,      \* the channel
    files,      \* the candidates whose file is written
    writer,     \* "running", "dead" (a write failed), "ended"
    cancelled   \* the progress observer's flag

poolVars == <<pool, jobs, todo, working, result, queue, files, writer,
              cancelled>>

PoolTypeOK ==
    /\ pool \in {"waiting", "analysing", "joining", "reporting", "failed",
                 "cancelled"}
    /\ jobs \subseteq Jobs /\ todo \subseteq jobs /\ files \subseteq jobs
    /\ working \in [Workers -> Jobs \cup {NoJob}]
    /\ result \in [Jobs -> {"none", "ok", "failed", "cancelled"}]
    /\ queue \in Seq(Jobs)
    /\ writer \in {"running", "dead", "ended"}
    /\ cancelled \in BOOLEAN

PoolInit ==
    /\ pool = "waiting"
    /\ jobs = {} /\ todo = {} /\ files = {}
    /\ working = [w \in Workers |-> NoJob]
    /\ result = [c \in Jobs |-> "none"]
    /\ queue = <<>>
    /\ writer = "running"
    /\ cancelled = FALSE

\* The candidates are handed over and the writer is spawned, unless the
\* user cancelled before.
StartPool(candidates) ==
    /\ pool = "waiting"
    /\ IF cancelled THEN /\ pool' = "cancelled" /\ UNCHANGED <<jobs, todo>>
       ELSE /\ pool' = "analysing" /\ jobs' = candidates /\ todo' = candidates
    /\ UNCHANGED <<working, result, queue, files, writer, cancelled>>

\* The user may cancel at any moment.
CancelRun ==
    /\ pool \in {"waiting", "analysing", "joining"}
    /\ ~ cancelled
    /\ cancelled' = TRUE
    /\ UNCHANGED <<pool, jobs, todo, working, result, queue, files, writer>>

\* A free worker takes a candidate; cancelled, it does not analyse it.
Take(w, c) ==
    /\ pool = "analysing"
    /\ working[w] = NoJob /\ c \in todo
    /\ todo' = todo \ {c}
    /\ IF cancelled
       THEN /\ result' = [result EXCEPT ![c] = "cancelled"]
            /\ UNCHANGED working
       ELSE /\ working' = [working EXCEPT ![w] = c]
            /\ UNCHANGED result
    /\ UNCHANGED <<pool, jobs, queue, files, writer, cancelled>>

\* The analysis is done: the worker sends its file, waiting for room.  A
\* channel without a receiver refuses it.
Send(w) ==
    /\ working[w] # NoJob
    /\ IF writer = "dead"
       THEN /\ result' = [result EXCEPT ![working[w]] = "failed"]
            /\ UNCHANGED queue
       ELSE /\ Len(queue) < QueueCapacity
            /\ queue' = Append(queue, working[w])
            /\ result' = [result EXCEPT ![working[w]] = "ok"]
    /\ working' = [working EXCEPT ![w] = NoJob]
    /\ UNCHANGED <<pool, jobs, todo, files, writer, cancelled>>

\* The writer writes the file, or fails, which ends it and the channel.
Write(ok) ==
    /\ writer = "running" /\ queue # <<>>
    /\ IF ok THEN /\ files' = files \cup {Head(queue)}
                  /\ queue' = Tail(queue)
                  /\ UNCHANGED writer
       ELSE /\ writer' = "dead" /\ queue' = <<>>
            /\ UNCHANGED files
    /\ UNCHANGED <<pool, jobs, todo, working, result, cancelled>>

\* Every candidate has a result: the sender is dropped.
Close ==
    /\ pool = "analysing" /\ todo = {}
    /\ \A w \in Workers : working[w] = NoJob
    /\ pool' = "joining"
    /\ UNCHANGED <<jobs, todo, working, result, queue, files, writer,
                   cancelled>>

\* The channel closed and empty, the writer ends.
EndWriter ==
    /\ pool = "joining" /\ writer = "running" /\ queue = <<>>
    /\ writer' = "ended"
    /\ UNCHANGED <<pool, jobs, todo, working, result, queue, files, cancelled>>

\* Mutant: the stage goes on without waiting for the writer.
JoinDetached ==
    /\ pool = "joining"
    /\ pool' = IF writer = "dead" THEN "failed"
               ELSE IF \E c \in jobs : result[c] = "cancelled"
               THEN "cancelled" ELSE "reporting"
    /\ UNCHANGED <<jobs, todo, working, result, queue, files, writer,
                   cancelled>>

\* The join: a failed write fails the run, a candidate that was cancelled
\* cancels it, and only then the results are reported.
JoinWriter ==
    /\ pool = "joining" /\ writer # "running"
    /\ pool' = IF writer = "dead" THEN "failed"
               ELSE IF \E c \in jobs : result[c] = "cancelled"
               THEN "cancelled" ELSE "reporting"
    /\ UNCHANGED <<jobs, todo, working, result, queue, files, writer,
                   cancelled>>

PoolSteps ==
    \/ CancelRun
    \/ \E w \in Workers, c \in Jobs : Take(w, c)
    \/ \E w \in Workers : Send(w)
    \/ \E ok \in BOOLEAN : Write(ok)
    \/ Close
    \/ EndWriter
    \/ JoinWriter

PoolNext == PoolSteps \/ \E candidates \in SUBSET Jobs : StartPool(candidates)

-----------------------------------------------------------------------------
(* The run.                                                                *)

VARIABLES
    hits,      \* relation -> the candidate's NFTs it hits: never changes
    events,    \* candidate -> [bundle, native, receipts]: never changes
    evidence,  \* candidate -> its bundle, once enriched
    report     \* [details, outputs] once written

runVars == <<hits, events, evidence, report>>

NoReport == [details |-> <<>>, outputs |-> <<>>]

\* The dedup stage's reports of the seeds.
SeedReports ==
    {[seed |-> s,
      relations |-> {[candidate |-> r[1], nfts |-> hits[r]] :
                        r \in {r \in registry : r[2] = s}}] : s \in SeedIds}

GateStep == GateNext /\ UNCHANGED <<poolVars, runVars>>

\* What the gate knows of a candidate, and the chain's events.
Enriched(c) ==
    LET named == [bundles[c] EXCEPT !.contract = c, !.address = c,
                                    !.chain = ContractChain[c]]
        raw == events[c]
        fetched == [raw.bundle EXCEPT !.contract = c, !.address = c,
                                      !.chain = ContractChain[c],
                                      !.controllers = named.controllers,
                                      !.relations = named.relations,
                                      !.legit = named.legit]
    IN  IF c \notin toEnrich THEN named
        ELSE IF c \in EvmContracts
        THEN EnrichEvm(fetched, raw.native, raw.receipts)
        ELSE fetched

EnrichAll ==
    /\ gate = "done" /\ evidence = <<>>
    /\ evidence' = [c \in CandidateIds |-> Enriched(c)]
    /\ UNCHANGED <<gateVars, poolVars, hits, events, report>>

AnalyseAll ==
    /\ evidence # <<>>
    /\ StartPool(CandidateIds)
    /\ UNCHANGED <<gateVars, runVars>>

PoolStep == PoolSteps /\ UNCHANGED <<gateVars, runVars>>

\* The candidates' files have the whole analysis, the summaries are made of
\* what shrink_for_summary_memory keeps of it.
Reported(details, order) ==
    [details |-> details,
     outputs |-> WriteRunOutputs(registry, SeedReports, evidence,
                                 [c \in DOMAIN details |-> Shrink(details[c])],
                                 order)]

Report ==
    /\ pool = "reporting" /\ report = NoReport
    /\ \E order \in KindOrders :
          report' = Reported([c \in CandidateIds |-> Analyze(evidence[c], Now)],
                             order)
    /\ UNCHANGED <<gateVars, poolVars, hits, events, evidence>>

Ended == pool \in {"cancelled", "failed"} \/ report # NoReport

\* The command ended.
End == Ended /\ UNCHANGED <<gateVars, poolVars, runVars>>

RunInit(world, rows) ==
    /\ GateInit(world, rows)
    /\ PoolInit
    /\ hits = world.hits
    /\ events = world.events
    /\ evidence = <<>>
    /\ report = NoReport

RunNext ==
    \/ GateStep
    \/ EnrichAll
    \/ AnalyseAll
    \/ PoolStep
    \/ Report
    \/ End

RunSpec(world, rows) ==
    RunInit(world, rows) /\ [][RunNext]_<<gateVars, poolVars, runVars>>

-----------------------------------------------------------------------------
(* Properties                                                              *)

Analysed == IF report = NoReport THEN {}
            ELSE {c \in DOMAIN report.details :
                    ~ FullyLegit(report.details[c].legit_by_seed)}

\* What can be reached along some links: the least set closed under them.
ReachableFrom(address, links) ==
    LET all == {address} \cup {l[1] : l \in links} \cup {l[2] : l \in links}
        closed == {S \in SUBSET all : /\ address \in S
                       /\ \A l \in links : l[1] \in S => l[2] \in S}
    IN  {a \in all : \A S \in closed : a \in S}

Links(pairs) == {p \in pairs : Linked(p[1], p[2])}

\* The sets of addresses that reach each other.
StrongSets(links) ==
    LET all == {l[1] : l \in links} \cup {l[2] : l \in links}
        reach == [a \in all |-> ReachableFrom(a, links)]
    IN  {{b \in reach[a] : a \in reach[b]} : a \in all}

InstancesSaid(c, kinds) ==
    {x \in ToSet(report.details[c].instances) : x.kind \in kinds}

\* Moves of tokens: [token, from, to, block, time, paid].
Moves(b) ==
    {[token |-> t.token_id, from |-> t.from, to |-> t.to,
      block |-> t.block_number, time |-> t.timestamp, paid |-> FALSE] :
        t \in ToSet(b.transfers)}
    \cup {[token |-> s.token_id, from |-> s.seller, to |-> s.buyer,
           block |-> s.block_number, time |-> s.timestamp,
           paid |-> SalePaid(s)] : s \in ToSet(b.sales)}

Later(m, n) == IF m.block # Missing /\ n.block # Missing THEN m.block < n.block
               ELSE m.time # Missing /\ m.time < n.time

\* A token passes from an address through others, one after the other.
HandedOn(b, token, start, path) ==
    /\ \A i \in DOMAIN path : path[i].token = token /\ path[i].to # Empty
    /\ path[1].from = start
    /\ \A i \in 2..Len(path) : /\ path[i].from = path[i - 1].to
                              /\ Later(path[i - 1], path[i])
    /\ Cardinality({start} \cup {path[i].to : i \in DOMAIN path})
          = Len(path) + 1

WashExact(c, b, operators) ==
    LET cycles == {S \in StrongSets(Links({<<s.seller, s.buyer>> :
                                             s \in ToSet(b.sales)})) :
                      /\ Cardinality(S) >= MinCycleSize
                      /\ S \cap operators # {}}
        told == InstancesSaid(c, {"WashTrading"})
    IN  /\ {ToSet(x.addresses) : x \in told} = cycles
        /\ report.details[c].behaviors["WashTrading"] = Cardinality(cycles)
        /\ \A x \in InstancesSaid(c, {"PumpAndExit"}) :
              \E S \in cycles : /\ S \subseteq ToSet(x.addresses)
                                /\ x.exit_delay > 0
                                /\ x.buyers \cap (S \cup operators) = {}

StarsExact(c, b, operators) ==
    LET sets == StrongSets(Links({<<t.from, t.to>> :
                                    t \in ToSet(b.transfers)}))
        out(S) == {m \in Moves(b) : m.from \in S /\ m.to \notin S
                                    /\ \E T \in sets : m.to \in T}
        targets(S) == {T \in sets : \E m \in out(S) : m.to \in T}
        stars == {S \in sets : /\ S \cap operators # {}
                               /\ Cardinality(targets(S)) >= FanOut}
        spread == {S \in stars : \E T \in targets(S) : out(T) # {}}
        sold == {S \in stars \ spread : \E m \in out(S) : m.paid}
        count(kind) == report.details[c].behaviors[kind]
    IN  /\ count("SybilDistribution") = Cardinality(spread)
        /\ count("FraudRevenue") = Cardinality(sold)
        /\ count("Poisoning") = Cardinality(stars \ (spread \cup sold))

LayersExact(c, b, operators) ==
    LET paths == [1..(LayeredPathAddresses - 1) -> Moves(b)]
        starts == {<<m.token, m.from>> : m \in {m \in Moves(b) :
                      m.token # 0 /\ m.from \in operators}}
        layered == {s \in starts :
                      \E path \in paths : HandedOn(b, s[1], s[2], path)}
    IN  /\ {<<CHOOSE t \in x.nfts : TRUE, x.addresses[1]>> :
              x \in InstancesSaid(c, {"LayeredTransfer"})} = layered
        /\ report.details[c].behaviors["LayeredTransfer"]
              = Cardinality(layered)

\* The detectors find what their definitions say, neither less nor more:
\* the wash cycles are the sets of addresses that sell to each other in a
\* circle and hold an operator, the stars the operators' groups that hand
\* out to FanOut others, and a layered transfer is reported for an operator
\* and a token exactly if the token can be followed through enough distinct
\* addresses in the order of time, although the search tries one path at a
\* time and Tarjan's stack and lowlinks are shared by all components.
BehaviorsExact ==
    \A c \in Analysed :
        LET b == evidence[c]
            operators == MaliciousAddresses(Roles(b))
        IN  /\ WashExact(c, b, operators)
            /\ StarsExact(c, b, operators)
            /\ LayersExact(c, b, operators)

\* What a buyer paid in a transaction, besides what it sent to itself.
PaidOut(c, tx, buyer) ==
    SumOf({i \in DOMAIN events[c].native :
              LET n == events[c].native[i]
              IN  n.tx_hash = tx /\ n.from = buyer /\ n.to # buyer},
          LAMBDA i : OrZero(events[c].native[i].value_native))

KindUsd(e, kinds) ==
    SumOf({i \in DOMAIN e.contributions : e.contributions[i].kind \in kinds},
          LAMBDA i : e.contributions[i].usd)

\* A candidate's figures agree with what they are made of: every dollar of
\* the totals is in one contribution; a transaction's fee counts once and in
\* one stage, whatever events of the candidate it carried; the mints of a
\* transaction never cost more than the buyer paid in it; and what honest
\* holders lost is part of what was paid.
EconomicsAddUp ==
    \A c \in Analysed :
        LET e == report.details[c].economics
            gas == e.gas_contributions
            mints == {i \in DOMAIN evidence[c].transfers :
                        evidence[c].transfers[i].is_mint}
            mint(i) == evidence[c].transfers[i]
            shared(i) == {j \in mints : /\ mint(j).tx_hash = mint(i).tx_hash
                                        /\ mint(j).to = mint(i).to}
        IN  /\ KindUsd(e, {"GrossSale"}) = e.gross_usd
            /\ KindUsd(e, OutputKinds) = e.operator_output_usd
            /\ KindUsd(e, {"HonestSecondaryExposure",
                           "HonestMintExposure"}) = e.honest_loss_usd
            /\ e.honest_loss_usd <= e.gross_usd
                  + SumOf(mints, LAMBDA i : OrZero(mint(i).mint_payment_usd))
            /\ Cardinality({g.tx_hash : g \in gas}) = Cardinality(gas)
            /\ SumOf(gas, LAMBDA g : g.usd) = e.total_gas_usd
            /\ e.setup_gas_usd + e.lure_gas_usd + e.exit_gas_usd
                  = e.total_gas_usd
            /\ c \in EvmContracts => \A i \in mints :
                  SumOf(shared(i), LAMBDA j : OrZero(mint(j).mint_payment_native))
                  <= PaidOut(c, mint(i).tx_hash, mint(i).to)

\* A scope sees a candidate as the analysis of the evidence of the scope's
\* own relations would: the projection of the one analysis that is made
\* leaves nothing of another seed behind and loses nothing of its own.
ProjectionExact ==
    report # NoReport =>
        \A scope \in Scopes, c \in DOMAIN report.details :
            LET seeds == ScopeSeeds(registry, scope, c)
                b == FilteredForAnalysis(evidence[c], seeds)
            IN  seeds # {} =>
                    Project(Shrink(report.details[c]),
                            RelationSignalsFor(evidence[c], seeds))
                    = Shrink(Analyze(b, Now))

\* The transactions an operator of the candidate paid for.
OperatorFees(c) ==
    {<<ContractChain[c], g.tx_hash>> :
        g \in report.details[c].economics.gas_contributions}

\* What the receipt of such a transaction says, in dollars.
Fee(tx) ==
    LET c == CHOOSE c \in DOMAIN report.details : tx \in OperatorFees(c)
    IN  events[c].receipts[tx[2]].gas_native * SpotRate(evidence[c])

\* The summaries count what candidates share once, and the cuts of the
\* report agree: a fee is counted once for a run although its transaction
\* served several candidates, at the amount of its receipt; the fees by
\* contract add up to the total; a scope's candidates are those of its parts;
\* and a scope that sees the relations of one seed only says the same as
\* that seed's own report.
SummaryCountsOnce ==
    report # NoReport =>
        LET said == report.outputs.summaries
            all == said[AllScope]
            part(kind, p, s) == said[ReportScope(kind, p, s)]
            seen(scope) == {r \in registry : ScopeSeeds({r}, scope, r[1]) # {}}
        IN  /\ \A scope \in Scopes :
                  LET summary == said[scope]
                  IN  /\ summary.top_gas.total
                            = summary.economics.sums.total_gas_usd
                      /\ summary.economics.sums.total_gas_usd =
                            SumOf(UNION {OperatorFees(c) : c \in summary.suspected},
                                  LAMBDA tx : Fee(tx))
            /\ all.suspected = part("Intra", "", "").suspected
                              \cup part("Cross", "", "").suspected
            /\ part("Cross", "", "").suspected =
                  UNION {said[scope].suspected :
                            scope \in {s \in Scopes : s.kind = "Matrix"}}
            /\ \A s \in SeedIds, scope \in Scopes :
                  seen(scope) = {r \in registry : r[2] = s} =>
                    LET own == report.outputs.seeds[s]
                    IN  /\ own.economics = said[scope].economics
                        /\ own.suspected = Cardinality(said[scope].suspected)
                        /\ own.malicious = said[scope].malicious
                        /\ own.honest = said[scope].honest

\* The summaries are made of candidates whose file is on the disk: when the
\* results are reported every candidate was analysed and its file written,
\* and no write failed or was dropped from the channel, however the workers
\* and the writer interleaved and whenever the user cancelled.
WrittenBeforeReported ==
    pool = "reporting" =>
        /\ \A c \in jobs : result[c] = "ok"
        /\ files = jobs
        /\ queue = <<>>
=============================================================================
