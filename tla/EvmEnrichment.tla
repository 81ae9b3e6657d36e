---------------------------- MODULE EvmEnrichment ----------------------------
(***************************************************************************)
(* The deep fetch of an EVM candidate, enrich_evm in                       *)
(* enrich/orchestrator.rs, with the status of each evidence family in its  *)
(* bundle.  SolanaEnrichment has the other kind of candidate and the       *)
(* stream in which both run.                                               *)
(*                                                                         *)
(* A request that no other candidate shares is reduced to its outcome; so  *)
(* are the queries of the payers of mints, which show in no status.  The   *)
(* outcomes Empty and Complete are one: there is no more to get.  A run    *)
(* without an Alchemy key requests none of this.                           *)
(***************************************************************************)
EXTENDS RequestCache

CONSTANTS
    EvmCandidates,  \* the others are Solana collections
    Jobs,           \* the sets of candidates a run may enrich
    TransferTxs,    \* the transactions of a candidate's NFT transfers,
    MintTxs,        \* of its mints among them,
    SaleTxs,        \* and of its sales,
    Undated,        \* which come without a block number if among these
    Native,         \* the native quote, which all candidates of a chain ask for
    TokenQuotes,    \* the quotes of a candidate's payment tokens
    Controlled,     \* queries of its controllers, deployer and contract
    Active,         \* queries of the operators only its activity shows
    FlowTxs         \* the transactions each query returns

ASSUME JobsAssumption ==
    EvmCandidates \subseteq Candidates /\ Jobs \subseteq SUBSET Candidates
ASSUME ActivityAssumption ==
    /\ TransferTxs \in [Candidates -> SUBSET Receipts]
    /\ SaleTxs \in [Candidates -> SUBSET Receipts]
    /\ Undated \subseteq Receipts
    /\ \A c \in Candidates : MintTxs[c] \subseteq TransferTxs[c]
ASSUME SinglesAssumption ==
    /\ Native \in Singles
    /\ TokenQuotes \in [Candidates -> SUBSET Singles]
    /\ \A c \in Candidates : SaleTxs[c] = {} => TokenQuotes[c] = {}
    /\ Controlled \in [Candidates -> SUBSET Singles]
    /\ Active \in [Candidates -> SUBSET Singles]
    /\ FlowTxs \in [Singles -> SUBSET Receipts]

Statuses == {"complete", "truncated", "failed", "skipped"}

VARIABLES
    pc,             \* the stage of each candidate's task, if it has one
    quality,        \* the status of each evidence family
    transfers, sales,   \* transactions of the transfers and sales it got
    quotes,         \* the quotes it got
    controlFlows,   \* queries answered in full when mints were attributed
    operators,      \* queries of the operators it derived in the end,
    operatorFlows,  \* those of them answered in full,
    flows,          \* and the transactions of the flows they returned
    gas             \* transactions whose receipt it got

bundleVars == <<quality, transfers, sales, quotes, controlFlows, operators,
                operatorFlows, flows, gas>>
vars == <<cacheVars, pc, bundleVars>>

Families == {"transfers", "sales", "prices", "gas", "valueFlows"}

Nothing == [c \in Candidates |-> {}]

\* The candidates that passed the legitimacy gate get a task each.
BundleInit ==
    /\ \E job \in Jobs : pc = [c \in Candidates |-> IF c \in job THEN "queued" ELSE "absent"]
    /\ quality = [c \in Candidates |-> [f \in Families |-> "skipped"]]
    /\ transfers = Nothing /\ sales = Nothing
    /\ quotes = Nothing
    /\ controlFlows = Nothing
    /\ operators = Nothing /\ operatorFlows = Nothing
    /\ flows = Nothing
    /\ gas = Nothing

GoTo(c, stage) == pc' = [pc EXCEPT ![c] = stage]

Put(f, c, v) == [f EXCEPT ![c] = v]

Short(status) == IF status = "complete" THEN 0 ELSE 1

\* combine_required_status
Combined(a, b) ==
    CASE "failed" \in {a, b} -> "failed"
      [] "failed" \notin {a, b} /\ "skipped" \in {a, b} -> "skipped"
      [] {a, b} \subseteq {"complete", "truncated"} /\ a # b -> "truncated"
      [] OTHER -> a

-----------------------------------------------------------------------------
(* The first join: transfers and sales, each with the provider it falls    *)
(* back to.  Holders and controllers are fetched beside them; what they    *)
(* found shows in the operators that are derived later.                    *)

\* Etherscan is asked when Alchemy failed, and believed if it was asked.
TransferStatus(alchemy, etherscan) ==
    IF alchemy = "failed" /\ etherscan # "skipped" THEN etherscan ELSE alchemy

\* fetch_evm_sales
SaleStatus(alchemy, opensea) ==
    IF alchemy = "failed" THEN opensea ELSE alchemy

\* The rows a request of this status may have brought.
Brought(status, all) ==
    CASE status = "complete" -> {all}
      [] status = "truncated" -> SUBSET all
      [] OTHER -> {{}}

FetchBase(c) ==
    /\ pc[c] = "queued"
    /\ \E at, as \in Statuses \ {"skipped"}, et, os \in Statuses :
          LET ts == TransferStatus(at, et)
              ss == SaleStatus(as, os)
          IN  /\ FallShort(Short(ts) + Short(ss))
              /\ quality' = Put(quality, c, [quality[c] EXCEPT
                                !["transfers"] = ts, !["sales"] = ss])
              /\ \E rows \in Brought(ts, TransferTxs[c]) : transfers' = Put(transfers, c, rows)
              /\ \E rows \in Brought(ss, SaleTxs[c]) : sales' = Put(sales, c, rows)
    /\ GoTo(c, "join")
    /\ UNCHANGED <<current, cells, single, batch, quotes, controlFlows,
                   operators, operatorFlows, flows, gas>>

-----------------------------------------------------------------------------
(* The second join: quotes, receipts of the activity, and the deployment.  *)

\* The quotes of the tokens the sales were paid in.
PaidIn(c) == IF sales[c] = {} THEN {} ELSE TokenQuotes[c]

\* The native quote is awaited before the others are asked for.
QuotesWanted(c) ==
    {Native} \union IF single[c][Native].at = "returned" THEN PaidIn(c) ELSE {}

Activity(c) == transfers[c] \union sales[c]

\* activity_block_window
Dated(c) == transfers[c] \union (sales[c] \ Undated)

\* Queries cover the blocks around the activity; without blocks there are none.
ControlledWanted(c) == IF Dated(c) = {} THEN {} ELSE Controlled[c]

ActivityKnown(c) ==
    quality[c]["transfers"] = "complete" /\ quality[c]["sales"] = "complete"

MintsSeen(c) == transfers[c] \intersect MintTxs[c] # {}

SinglesWanted(c) ==
    CASE pc[c] = "join" -> QuotesWanted(c)
      [] pc[c] = "flows" -> ControlledWanted(c)
      [] pc[c] = "final" -> operators[c]
      [] OTHER -> {}

CallSingle(c, k) ==
    /\ k \in SinglesWanted(c)
    /\ LookUp(c, k)
    /\ UNCHANGED <<pc, bundleVars>>

\* The receipts a stage asks for: those of the activity, then those of the
\* flows that are still lacking.
ReceiptsWanted(c) ==
    CASE pc[c] = "join" -> Activity(c)
      [] pc[c] = "gas" -> flows[c] \ gas[c]
      [] OTHER -> {}

CallReceipts(c) ==
    /\ ReceiptsWanted(c) # {}
    /\ LookUpAll(c, ReceiptsWanted(c))
    /\ UNCHANGED <<pc, bundleVars>>

ReceiptsDone(c) == ReceiptsWanted(c) = {} \/ batch[c].at = "returned"

ReceiptStatus(c) ==
    CASE ReceiptsWanted(c) = {} -> "complete"
      [] ReceiptsWanted(c) # {} /\ Delivered(c) = {} -> "failed"
      [] Delivered(c) # {} /\ Delivered(c) # Rows(c) -> "truncated"
      [] OTHER -> "complete"

\* combine_price_outcomes, and the status of a set of queries
SinglesStatus(c, ks) ==
    CASE AnsweredWith(c, ks, "good") = ks -> "complete"
      [] ks # {} /\ AnsweredWith(c, ks, "fail") = ks -> "failed"
      [] OTHER -> "truncated"

QuoteStatus(c) ==
    LET ks == {Native} \union PaidIn(c)
    IN  IF PaidIn(c) # {} /\ AnsweredWith(c, ks, "good") = {} THEN "failed"
        ELSE SinglesStatus(c, ks)

CallsOver(c) ==
    /\ single' = [single EXCEPT ![c] = [k \in Singles |-> NoCall]]
    /\ batch' = [batch EXCEPT ![c] = NoBatch]
    /\ UNCHANGED <<current, cells>>

JoinDone(c) ==
    /\ pc[c] = "join"
    /\ Returned(c, {Native} \union PaidIn(c))
    /\ ReceiptsDone(c)
    /\ \E deployment \in Statuses \ {"skipped"} :
          /\ FallShort(Short(deployment))
          /\ quality' = Put(quality, c, [quality[c] EXCEPT
                 !["prices"] = QuoteStatus(c),
                 !["gas"] = Combined(ReceiptStatus(c), deployment)])
    /\ quotes' = Put(quotes, c, AnsweredWith(c, {Native} \union PaidIn(c), "good"))
    /\ gas' = Put(gas, c, Delivered(c))
    /\ CallsOver(c)
    /\ GoTo(c, "flows")
    /\ UNCHANGED <<transfers, sales, controlFlows, operators, operatorFlows, flows>>

-----------------------------------------------------------------------------
(* The value flows of the controllers, from which mint payments are        *)
(* attributed, and those of all operators.                                 *)

FlowsOf(c, ks) == UNION {FlowTxs[k] : k \in ks \ AnsweredWith(c, ks, "fail")}

\* derive_operator_seeds: those its controllers and its activity show, all of
\* them if all the activity is known, without the ones that prove victims.
DerivedOperators(c) ==
    LET shown == CASE Dated(c) = {} -> {{}}
                   [] Dated(c) # {} /\ ActivityKnown(c) -> {Active[c]}
                   [] OTHER -> SUBSET Active[c]
    IN  {(ControlledWanted(c) \ victims) \union more :
            victims \in SUBSET ControlledWanted(c), more \in shown}

\* A flow without a block number cannot be related to the activity.
FlowStatus(c, ks, unrelated) ==
    IF \/ Activity(c) # {} /\ Dated(c) = {}
       \/ unrelated /\ SinglesStatus(c, ks) = "complete"
    THEN "truncated" ELSE SinglesStatus(c, ks)

\* Mutant: mints count as attributed whatever the controllers' queries gave.
AttributedRegardless(c, status) == quality[c]["transfers"]

\* Mints whose payments could not all be looked up make the transfers partial.
Attributed(c, status) ==
    IF MintsSeen(c) /\ status # "complete" /\ quality[c]["transfers"] = "complete"
    THEN "truncated" ELSE quality[c]["transfers"]

FlowsDone(c) ==
    LET asked == ControlledWanted(c)
    IN  /\ pc[c] = "flows"
        /\ Returned(c, asked)
        /\ controlFlows' = Put(controlFlows, c, AnsweredWith(c, asked, "good"))
        /\ \E derived \in DerivedOperators(c), unrelated \in {FALSE} \union {asked # {}} :
              LET status == FlowStatus(c, asked, unrelated)
              IN  /\ FallShort(IF unrelated THEN 1 ELSE 0)
                  /\ operators' = Put(operators, c, derived)
                  /\ quality' = Put(quality, c, [quality[c] EXCEPT
                         !["transfers"] = Attributed(c, status), !["valueFlows"] = status])
                  /\ IF derived = asked
                     THEN /\ operatorFlows' = Put(operatorFlows, c, AnsweredWith(c, asked, "good"))
                          /\ flows' = Put(flows, c, FlowsOf(c, asked))
                          /\ GoTo(c, "gas")
                     ELSE /\ UNCHANGED <<operatorFlows, flows>>
                          /\ GoTo(c, "final")
        /\ CallsOver(c)
        /\ UNCHANGED <<transfers, sales, quotes, gas>>

FinalDone(c) ==
    /\ pc[c] = "final"
    /\ Returned(c, operators[c])
    /\ \E unrelated \in {FALSE} \union {operators[c] # {}} :
          /\ FallShort(IF unrelated THEN 1 ELSE 0)
          /\ quality' = Put(quality, c, [quality[c] EXCEPT
                 !["valueFlows"] = FlowStatus(c, operators[c], unrelated)])
    /\ operatorFlows' = Put(operatorFlows, c, AnsweredWith(c, operators[c], "good"))
    /\ flows' = Put(flows, c, FlowsOf(c, operators[c]))
    /\ CallsOver(c)
    /\ GoTo(c, "gas")
    /\ UNCHANGED <<transfers, sales, quotes, controlFlows, operators, gas>>

\* Mutant: the receipts of the flows do not count.
GasStatusOfActivity(c) == quality[c]["gas"]

GasStatus(c) == Combined(quality[c]["gas"], ReceiptStatus(c))

\* collect_evm_mint_payment_extras: a payer of a mint may turn out to have paid
\* several receivers in its transaction.
Ambiguity(c) == {FALSE} \union {MintsSeen(c)}

GasDone(c) ==
    /\ pc[c] = "gas"
    /\ ReceiptsDone(c)
    /\ \E ambiguous \in Ambiguity(c) :
          quality' = Put(quality, c, [quality[c] EXCEPT
              !["gas"] = GasStatus(c),
              !["transfers"] = IF ambiguous /\ @ = "complete" THEN "truncated" ELSE @])
    /\ gas' = Put(gas, c, gas[c] \union Delivered(c))
    /\ CallsOver(c)
    /\ GoTo(c, "done")
    /\ UNCHANGED <<shortfalls, transfers, sales, quotes, controlFlows, operators,
                   operatorFlows, flows>>

CacheStep(c) ==
    /\ BatchStep(c) \/ \E k \in Singles : SingleStep(c, k)
    /\ UNCHANGED <<pc, bundleVars>>

EvmStep(c) ==
    \/ FetchBase(c)
    \/ CallReceipts(c)
    \/ \E k \in Singles : CallSingle(c, k)
    \/ CacheStep(c)
    \/ JoinDone(c)
    \/ FlowsDone(c)
    \/ FinalDone(c)
    \/ GasDone(c)

-----------------------------------------------------------------------------
\* has_complete_evidence, as far as the families here decide it.  A Solana
\* candidate needs more.
HasCompleteEvidence(c) == \A f \in Families : quality[c][f] = "complete"

(* "Whether every required evidence family is complete enough to interpret *)
(* the observed USD/behavior values as complete": a bundle that says so    *)
(* has every transfer and sale, both kinds of quotes, the receipt of every *)
(* transaction in it and every flow of its operators, and its mints were   *)
(* attributed from all the flows of its controllers.                       *)
CompleteMeansWhole ==
    \A c \in EvmCandidates :
        pc[c] = "done" /\ HasCompleteEvidence(c) =>
            /\ transfers[c] = TransferTxs[c] /\ sales[c] = SaleTxs[c]
            /\ {Native} \union TokenQuotes[c] \subseteq quotes[c]
            /\ Activity(c) # {} => Active[c] \subseteq operators[c]
            /\ operators[c] = operatorFlows[c]
            /\ Activity(c) \union UNION {FlowTxs[k] : k \in operatorFlows[c]} \subseteq gas[c]
            /\ MintsSeen(c) => Controlled[c] \subseteq controlFlows[c]
=============================================================================
