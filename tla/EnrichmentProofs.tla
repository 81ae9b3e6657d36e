------------------------- MODULE EnrichmentProofs -------------------------
(***************************************************************************)
(* Proofs about the deep fetch and the request caches its candidates share *)
(* (src/analysis/crates/core/src/enrich), for any candidates, keys and     *)
(* number of incomplete answers: no request is repeated after it succeeded, *)
(* no failure outlives the calls that saw it, and evidence that counts as  *)
(* complete lacks nothing, whether it is that of a contract or of a Solana *)
(* collection listed on shrinking pages.                                   *)
(***************************************************************************)
EXTENDS SolanaEnrichment, FiniteSetTheorems, TLAPS

Bad == {"part", "fail"}
CellStates == Answers \union {"asked"}
CallStages == {"idle", "wait", "asking", "evict", "returned"}

SingleCalls == [at : CallStages, cell : Nat]
BatchCalls == [at : CallStages, rows : UNION {[S -> Nat] : S \in SUBSET Receipts},
               led : SUBSET Receipts]

(* Every cell and every call has its shape, and a call that was begun      *)
(* refers to a cell its key had.                                           *)
CellsTyped ==
    /\ current \in [Keys -> Nat]
    /\ cells \in [Keys -> Seq(CellStates)]
    /\ \A k \in Keys : current[k] <= Len(cells[k])

SinglesTyped ==
    /\ single \in [Candidates -> [Singles -> SingleCalls]]
    /\ \A c \in Candidates : \A k \in Singles :
          single[c][k].at # "idle" => single[c][k].cell \in 1..Len(cells[k])

BatchesTyped ==
    /\ batch \in [Candidates -> BatchCalls]
    /\ \A c \in Candidates :
          /\ batch[c].led \subseteq Rows(c)
          /\ \A k \in Rows(c) : batch[c].rows[k] \in 1..Len(cells[k])

Stages == {"absent", "queued", "join", "flows", "final", "gas",
           "list", "resolve", "direct", "history", "decode", "done"}

BundlesTyped ==
    /\ pc \in [Candidates -> Stages]
    /\ quality \in [Candidates -> [Families -> Statuses]]
    /\ transfers \in [Candidates -> SUBSET Receipts]
    /\ sales \in [Candidates -> SUBSET Receipts]
    /\ quotes \in [Candidates -> SUBSET Singles]
    /\ controlFlows \in [Candidates -> SUBSET Singles]
    /\ operators \in [Candidates -> SUBSET Singles]
    /\ operatorFlows \in [Candidates -> SUBSET Singles]
    /\ flows \in [Candidates -> SUBSET Receipts]
    /\ gas \in [Candidates -> SUBSET Receipts]

(* A listing is of a collection and has some of its NFTs.                  *)
Listings == [group : Collections, unverified : BOOLEAN, page : Nat \ {0}, found : SUBSET Nfts]

ListingsTyped ==
    /\ listing \in [Candidates -> Listings]
    /\ nfts \in [Candidates -> SUBSET Nfts]
    /\ assets \in [Candidates -> Statuses]
    /\ histories \in [Candidates -> Statuses]
    /\ excluded \in [Candidates -> BOOLEAN]

(* A cell that left the map was answered, and not in full.                 *)
Retired ==
    \A k \in Keys : \A i \in 1..Len(cells[k]) :
        i # current[k] => cells[k][i] \in Bad

(* Whoever asks is alone with its cell, which nobody has answered; only    *)
(* incomplete answers are taken out of the map.                            *)
SinglesLed ==
    \A c \in Candidates : \A k \in Singles :
        /\ single[c][k].at = "asking" =>
              /\ CellOf(c, k) = "asked"
              /\ \A d \in Candidates : single[d][k].at = "asking" => d = c
        /\ single[c][k].at = "evict" => CellOf(c, k) \in Bad

BatchesLed ==
    \A c \in Candidates :
        /\ batch[c].at = "asking" =>
              /\ \A k \in batch[c].led : RowCell(c, k) = "asked"
              /\ \A d \in Candidates \ {c} :
                    batch[d].at = "asking" => batch[d].led \intersect batch[c].led = {}
        /\ batch[c].at = "evict" => \A k \in Rows(c) : RowCell(c, k) \in Answers

(* A candidate has no call but those of its stage.                         *)
SinglesOf(c) == SinglesWanted(c) \union SolanaQuotes(c)
BatchOf(c) == ReceiptsWanted(c) \union Signatures(c)

CallsOfStage ==
    \A c \in Candidates :
        /\ \A k \in Singles : single[c][k].at # "idle" => k \in SinglesOf(c)
        /\ IF batch[c].at = "idle" THEN Rows(c) = {}
           ELSE BatchOf(c) # {} /\ Rows(c) = BatchOf(c)

CacheInv ==
    /\ CellsTyped /\ SinglesTyped /\ BatchesTyped /\ BundlesTyped
    /\ Retired /\ SinglesLed /\ BatchesLed /\ CallsOfStage
    /\ FailuresForgotten

(* What a status promises from the stage on in which it is set.            *)
StatusEarned(c) ==
    LET q == quality[c] IN
    /\ pc[c] # "queued" =>
          /\ q["transfers"] = "complete" => transfers[c] = TransferTxs[c]
          /\ q["sales"] = "complete" => sales[c] = SaleTxs[c]
    /\ pc[c] \notin {"queued", "join"} =>
          /\ q["prices"] = "complete" => {Native} \union PaidIn(c) \subseteq quotes[c]
          /\ q["gas"] = "complete" => Activity(c) \subseteq gas[c]
    /\ pc[c] \in {"final", "gas", "done"} =>
          /\ q["transfers"] = "complete" /\ MintsSeen(c) =>
                ControlledWanted(c) \subseteq controlFlows[c]
          /\ ActivityKnown(c) /\ Dated(c) # {} => Active[c] \subseteq operators[c]
    /\ pc[c] \in {"gas", "done"} /\ q["valueFlows"] = "complete" =>
          /\ Activity(c) # {} => Dated(c) # {}
          /\ operators[c] = operatorFlows[c]
          /\ flows[c] = UNION {FlowTxs[k] : k \in operators[c]}
    /\ pc[c] = "done" /\ q["gas"] = "complete" => flows[c] \subseteq gas[c]

StatusesEarned == \A c \in EvmCandidates : StatusEarned(c)

-----------------------------------------------------------------------------
(* How the updates of the cache change a call, and what they leave alone.  *)

LEMMA SetCallEffect ==
    ASSUME single \in [Candidates -> [Singles -> SingleCalls]],
           NEW c \in Candidates, NEW k \in Singles, NEW call \in SingleCalls,
           SetCall(c, k, call)
    PROVE  /\ single' \in [Candidates -> [Singles -> SingleCalls]]
           /\ single'[c][k] = call
           /\ \A d \in Candidates, j \in Singles :
                 d # c \/ j # k => single'[d][j] = single[d][j]
BY DEF SetCall

LEMMA SetBatchEffect ==
    ASSUME batch \in [Candidates -> BatchCalls],
           NEW c \in Candidates, NEW call \in BatchCalls, SetBatch(c, call)
    PROVE  /\ batch' \in [Candidates -> BatchCalls]
           /\ batch'[c] = call
           /\ \A d \in Candidates \ {c} : batch'[d] = batch[d]
BY DEF SetBatch

LEMMA Appended ==
    ASSUME NEW S, NEW s \in Seq(S), NEW e \in S
    PROVE  /\ Append(s, e) \in Seq(S)
           /\ Len(Append(s, e)) = Len(s) + 1
           /\ Append(s, e)[Len(s) + 1] = e
           /\ \A i \in 1..Len(s) : Append(s, e)[i] = s[i]
OBVIOUS

(* Keys without a cell get one that is asked for; no older cell changes.   *)
LEMMA OpenCellsEffect ==
    ASSUME CellsTyped, Retired, NEW ks \in SUBSET Keys, OpenCells(ks)
    PROVE  /\ CellsTyped' /\ Retired'
           /\ \A k \in Keys : /\ Len(cells[k]) <= Len(cells'[k])
                               /\ \A i \in 1..Len(cells[k]) : cells'[k][i] = cells[k][i]
           /\ \A k \in ks : current'[k] \in 1..Len(cells'[k])
           /\ \A k \in Missing(ks) :
                 /\ current'[k] = Len(cells[k]) + 1
                 /\ cells'[k][current'[k]] = "asked"
           /\ \A k \in Keys \ Missing(ks) :
                 current'[k] = current[k] /\ cells'[k] = cells[k]
<1> USE DEF CellsTyped
<1>1. \A k \in Missing(ks) : /\ k \in Keys /\ current[k] = 0
                             /\ current'[k] = Len(cells[k]) + 1
                             /\ cells'[k] = Append(cells[k], "asked")
  BY DEF OpenCells, Missing
<1>2. \A k \in Keys \ Missing(ks) : current'[k] = current[k] /\ cells'[k] = cells[k]
  BY DEF OpenCells
<1>3. \A k \in Keys : cells[k] \in Seq(CellStates) /\ Len(cells[k]) \in Nat
  OBVIOUS
<1>4. "asked" \in CellStates
  BY DEF CellStates
<1>5. \A k \in Missing(ks) : /\ cells'[k] \in Seq(CellStates)
                             /\ Len(cells'[k]) = Len(cells[k]) + 1
                             /\ cells'[k][Len(cells[k]) + 1] = "asked"
                             /\ \A i \in 1..Len(cells[k]) : cells'[k][i] = cells[k][i]
  <2> TAKE k \in Missing(ks)
  <2>1. cells[k] \in Seq(CellStates) /\ cells'[k] = Append(cells[k], "asked")
    BY <1>1, <1>3
  <2> QED BY <2>1, <1>4, Appended
<1>6. CellsTyped'
  <2>1. DOMAIN current' = Keys /\ DOMAIN cells' = Keys
    BY DEF OpenCells
  <2>2. \A k \in Keys : /\ current'[k] \in Nat /\ cells'[k] \in Seq(CellStates)
                        /\ current'[k] <= Len(cells'[k])
    BY <1>1, <1>2, <1>3, <1>5
  <2>3. current' = [k \in Keys |-> current'[k]] /\ cells' = [k \in Keys |-> cells'[k]]
    BY DEF OpenCells
  <2> QED BY <2>2, <2>3
<1>7. Retired'
  <2> SUFFICES ASSUME NEW k \in Keys, NEW i \in 1..Len(cells'[k]), i # current'[k]
               PROVE  cells'[k][i] \in Bad
    BY DEF Retired
  <2>1. CASE k \in Missing(ks)
    <3>1. i \in 1..Len(cells[k])
      BY <1>1, <1>3, <1>5, <2>1
    <3>2. i # current[k]
      BY <1>1, <2>1, <3>1
    <3> QED BY <1>5, <2>1, <3>1, <3>2 DEF Retired
  <2>2. CASE k \notin Missing(ks)
    BY <1>2, <2>2 DEF Retired
  <2> QED BY <2>1, <2>2
<1>8. \A k \in ks : current'[k] \in 1..Len(cells'[k])
  <2> SUFFICES ASSUME NEW k \in ks PROVE current'[k] \in 1..Len(cells'[k])
    OBVIOUS
  <2>1. CASE k \in Missing(ks)
    BY <1>1, <1>3, <1>5, <2>1
  <2>2. CASE k \notin Missing(ks)
    BY <1>2, <1>3, <2>2 DEF Missing
  <2> QED BY <2>1, <2>2
<1> QED BY <1>1, <1>2, <1>3, <1>5, <1>6, <1>7, <1>8

(* The one cell of a key that may still be asked for, or was answered in   *)
(* full, is the one in the map.                                            *)
LEMMA OthersRetired ==
    ASSUME CellsTyped, Retired, NEW k \in Keys, NEW i \in 1..Len(cells[k]),
           cells[k][i] \in {"asked", "good"}
    PROVE  i = current[k]
BY DEF Retired, Bad

-----------------------------------------------------------------------------
(* What a step of the cache does not disturb.                              *)

(* Only cells that are asked for change.                                   *)
CellsKept ==
    \A k \in Keys :
        /\ Len(cells[k]) <= Len(cells'[k])
        /\ \A i \in 1..Len(cells[k]) :
              cells[k][i] # "asked" => cells'[k][i] = cells[k][i]

LEMMA WantedKept ==
    ASSUME UNCHANGED <<pc, bundleVars>>,
           NEW c \in Candidates,
           single[c][Native].at = "returned" => single'[c][Native].at = "returned"
    PROVE  /\ SinglesOf(c) \subseteq SinglesOf(c)'
           /\ BatchOf(c)' = BatchOf(c)
BY DEF SinglesOf, SinglesWanted, SolanaQuotes, QuotesWanted, PaidIn, ControlledWanted,
       Dated, BatchOf, ReceiptsWanted, Signatures, Activity, bundleVars

(* A call on one key by one candidate: the other calls keep their shape    *)
(* and stage.                                                              *)
LEMMA SingleFrame ==
    ASSUME CellsTyped, CellsTyped', CellsKept, SinglesTyped, BatchesTyped, BundlesTyped,
           CallsOfStage, UNCHANGED <<batch, pc, bundleVars>>,
           NEW c \in Candidates, NEW k \in Singles, NEW call \in SingleCalls,
           SetCall(c, k, call),
           k \in SinglesOf(c), single[c][k].at # "returned",
           call.cell \in 1..Len(cells'[k])
    PROVE  SinglesTyped' /\ BatchesTyped' /\ BundlesTyped' /\ CallsOfStage'
<1>1. /\ single' \in [Candidates -> [Singles -> SingleCalls]]
      /\ single'[c][k] = call
      /\ \A d \in Candidates, j \in Singles :
            d # c \/ j # k => single'[d][j] = single[d][j]
  BY SetCallEffect DEF SinglesTyped
<1>2. \A j \in Keys, i \in Nat : i \in 1..Len(cells[j]) => i \in 1..Len(cells'[j])
  <2> SUFFICES ASSUME NEW j \in Keys, NEW i \in 1..Len(cells[j])
               PROVE  i \in 1..Len(cells'[j])
    OBVIOUS
  <2>1. cells[j] \in Seq(CellStates) /\ cells'[j] \in Seq(CellStates)
    BY DEF CellsTyped
  <2> QED BY <2>1 DEF CellsKept
<1>3. SinglesTyped'
  <2> SUFFICES ASSUME NEW d \in Candidates, NEW j \in Singles, single'[d][j].at # "idle"
               PROVE  single'[d][j].cell \in 1..Len(cells'[j])
    BY <1>1 DEF SinglesTyped
  <2>1. CASE d = c /\ j = k
    BY <1>1, <2>1
  <2>2. CASE d # c \/ j # k
    <3>1. single'[d][j] = single[d][j] /\ single[d][j] \in SingleCalls
      BY <1>1, <2>2 DEF SinglesTyped
    <3> QED BY <3>1, <1>2 DEF SinglesTyped, SingleCalls, Keys
  <2> QED BY <2>1, <2>2
<1>4. BatchesTyped'
  <2> SUFFICES ASSUME NEW d \in Candidates, NEW j \in DOMAIN batch[d].rows
               PROVE  batch[d].rows[j] \in 1..Len(cells'[j])
    BY DEF BatchesTyped, Rows
  <2>1. batch[d].rows[j] \in 1..Len(cells[j]) /\ j \in Keys
    BY DEF BatchesTyped, BatchCalls, Rows, Keys
  <2> QED BY <1>2, <2>1
<1>5. BundlesTyped'
  BY DEF BundlesTyped, bundleVars
<1>6. CallsOfStage'
  <2> SUFFICES ASSUME NEW d \in Candidates
               PROVE  /\ \A j \in Singles : single'[d][j].at # "idle" => j \in SinglesOf(d)'
                      /\ IF batch[d].at = "idle" THEN Rows(d) = {}
                         ELSE BatchOf(d)' # {} /\ Rows(d) = BatchOf(d)'
    BY DEF CallsOfStage, Rows
  <2>1. single[d][Native].at = "returned" => single'[d][Native].at = "returned"
    BY <1>1, SinglesAssumption
  <2>2. SinglesOf(d) \subseteq SinglesOf(d)' /\ BatchOf(d)' = BatchOf(d)
    BY <2>1, WantedKept
  <2> QED BY <1>1, <2>2 DEF CallsOfStage
<1> QED BY <1>3, <1>4, <1>5, <1>6

(* The same for a call on receipts.                                        *)
LEMMA BatchFrame ==
    ASSUME CellsTyped, CellsTyped', CellsKept, SinglesTyped, BatchesTyped, BundlesTyped,
           CallsOfStage, UNCHANGED <<single, pc, bundleVars>>,
           NEW c \in Candidates, NEW call \in BatchCalls, SetBatch(c, call),
           call.at # "idle", BatchOf(c) # {}, DOMAIN call.rows = BatchOf(c),
           call.led \subseteq DOMAIN call.rows,
           \A k \in DOMAIN call.rows : call.rows[k] \in 1..Len(cells'[k])
    PROVE  SinglesTyped' /\ BatchesTyped' /\ BundlesTyped' /\ CallsOfStage'
<1>1. /\ batch' \in [Candidates -> BatchCalls]
      /\ batch'[c] = call
      /\ \A d \in Candidates \ {c} : batch'[d] = batch[d]
  BY SetBatchEffect DEF BatchesTyped
<1>2. \A j \in Keys, i \in Nat : i \in 1..Len(cells[j]) => i \in 1..Len(cells'[j])
  <2> SUFFICES ASSUME NEW j \in Keys, NEW i \in 1..Len(cells[j])
               PROVE  i \in 1..Len(cells'[j])
    OBVIOUS
  <2>1. cells[j] \in Seq(CellStates) /\ cells'[j] \in Seq(CellStates)
    BY DEF CellsTyped
  <2> QED BY <2>1 DEF CellsKept
<1>3. SinglesTyped'
  <2> SUFFICES ASSUME NEW d \in Candidates, NEW j \in Singles, single[d][j].at # "idle"
               PROVE  single[d][j].cell \in 1..Len(cells'[j])
    BY DEF SinglesTyped
  <2> QED BY <1>2 DEF SinglesTyped, SingleCalls, Keys
<1>4. BatchesTyped'
  <2> SUFFICES ASSUME NEW d \in Candidates
               PROVE  /\ batch'[d].led \subseteq DOMAIN batch'[d].rows
                      /\ \A j \in DOMAIN batch'[d].rows :
                            batch'[d].rows[j] \in 1..Len(cells'[j])
    BY <1>1 DEF BatchesTyped, Rows
  <2>1. CASE d = c
    BY <1>1, <2>1
  <2>2. CASE d # c
    <3>1. batch'[d] = batch[d]
      BY <1>1, <2>2
    <3>2. \A j \in DOMAIN batch[d].rows : j \in Keys /\ batch[d].rows[j] \in 1..Len(cells[j])
      BY DEF BatchesTyped, BatchCalls, Rows, Keys
    <3> QED BY <1>2, <3>1, <3>2 DEF BatchesTyped, Rows
  <2> QED BY <2>1, <2>2
<1>5. BundlesTyped'
  BY DEF BundlesTyped, bundleVars
<1>6. CallsOfStage'
  <2> SUFFICES ASSUME NEW d \in Candidates
               PROVE  /\ \A j \in Singles : single[d][j].at # "idle" => j \in SinglesOf(d)'
                      /\ IF batch'[d].at = "idle" THEN DOMAIN batch'[d].rows = {}
                         ELSE /\ BatchOf(d)' # {}
                              /\ DOMAIN batch'[d].rows = BatchOf(d)'
    BY DEF CallsOfStage, Rows
  <2>1. SinglesOf(d) \subseteq SinglesOf(d)' /\ BatchOf(d)' = BatchOf(d)
    BY WantedKept
  <2>2. CASE d = c
    BY <1>1, <2>1, <2>2 DEF CallsOfStage
  <2>3. CASE d # c
    BY <1>1, <2>1, <2>3 DEF CallsOfStage, Rows
  <2> QED BY <2>2, <2>3
<1> QED BY <1>3, <1>4, <1>5, <1>6

-----------------------------------------------------------------------------
(* Each step of the caches keeps CacheInv.                                 *)

LEMMA KeyKinds ==
    \A k \in Singles : k \in Keys /\ k \notin Receipts
BY KeysAssumption DEF Keys

LEMMA RowsAreReceipts ==
    ASSUME BatchesTyped, NEW c \in Candidates
    PROVE  /\ Rows(c) \subseteq Receipts /\ batch[c].led \subseteq Rows(c)
           /\ batch[c].rows \in [Rows(c) -> Nat]
           /\ batch[c] \in BatchCalls
BY DEF BatchesTyped, BatchCalls, Rows

LEMMA LookUpKeeps ==
    ASSUME CacheInv, NEW c \in Candidates, NEW k \in Singles, k \in SinglesOf(c),
           LookUp(c, k), UNCHANGED <<pc, bundleVars>>
    PROVE  CacheInv'
<1> DEFINE call == [at |-> IF k \in Missing({k}) THEN "asking" ELSE "wait",
                    cell |-> current'[k]]
<1> USE DEF CacheInv
<1>0. k \in Keys /\ k \notin Receipts
  BY KeyKinds
<1>1. /\ CellsTyped' /\ Retired'
      /\ \A j \in Keys : /\ Len(cells[j]) <= Len(cells'[j])
                          /\ \A i \in 1..Len(cells[j]) : cells'[j][i] = cells[j][i]
      /\ current'[k] \in 1..Len(cells'[k])
      /\ k \in Missing({k}) => cells'[k][current'[k]] = "asked"
      /\ \A j \in Keys \ Missing({k}) : current'[j] = current[j] /\ cells'[j] = cells[j]
  <2>1. {k} \in SUBSET Keys /\ OpenCells({k})
    BY <1>0 DEF LookUp
  <2> HIDE DEF CacheInv
  <2> QED BY <2>1, OpenCellsEffect DEF CacheInv
<1>2. call \in SingleCalls /\ SetCall(c, k, call)
  BY <1>0, <1>1 DEF SingleCalls, CallStages, CellsTyped, LookUp
<1>3. CellsKept
  BY <1>1 DEF CellsKept
<1>4. SinglesTyped' /\ BatchesTyped' /\ BundlesTyped' /\ CallsOfStage'
  BY <1>1, <1>2, <1>3, SingleFrame DEF LookUp
<1>5. /\ single'[c][k] = call
      /\ \A d \in Candidates, j \in Singles :
            d # c \/ j # k => single'[d][j] = single[d][j]
  BY <1>2, SetCallEffect DEF SinglesTyped
<1>6. \A d \in Candidates, j \in Singles : (d # c \/ j # k) /\ single[d][j].at # "idle" =>
          CellOf(d, j)' = CellOf(d, j)
  BY <1>1, <1>5, KeyKinds DEF CellOf, SinglesTyped
<1>7. SinglesLed'
  <2> SUFFICES ASSUME NEW d \in Candidates, NEW j \in Singles
               PROVE  /\ single'[d][j].at = "asking" =>
                            /\ CellOf(d, j)' = "asked"
                            /\ \A e \in Candidates : single'[e][j].at = "asking" => e = d
                      /\ single'[d][j].at = "evict" => CellOf(d, j)' \in Bad
    BY DEF SinglesLed
  <2>0. k \in Missing({k}) => \A e \in Candidates : single[e][k].at # "asking"
    <3> SUFFICES ASSUME k \in Missing({k}), NEW e \in Candidates, single[e][k].at = "asking"
                 PROVE  FALSE
      OBVIOUS
    <3>1. cells[k][single[e][k].cell] = "asked" /\ single[e][k].cell \in 1..Len(cells[k])
      BY DEF SinglesLed, CellOf, SinglesTyped
    <3>2. single[e][k].cell = current[k]
      BY <1>0, <3>1, OthersRetired
    <3> QED BY <3>1, <3>2 DEF Missing
  <2>1. CASE d = c /\ j = k
    <3>1. CellOf(d, j)' = cells'[k][current'[k]]
      BY <1>5, <2>1 DEF CellOf
    <3>2. \A e \in Candidates \ {c} : single'[e][k] = single[e][k]
      BY <1>5
    <3>3. CASE k \in Missing({k})
      <4>1. single'[d][j].at = "asking" /\ CellOf(d, j)' = "asked"
        BY <1>1, <1>5, <2>1, <3>1, <3>3
      <4> QED BY <2>0, <2>1, <3>2, <3>3, <4>1
    <3>4. CASE k \notin Missing({k})
      BY <1>5, <2>1, <3>4
    <3> QED BY <3>3, <3>4
  <2>2. CASE d # c \/ j # k
    <3>1. single'[d][j] = single[d][j]
      BY <1>5, <2>2
    <3>2. single[d][j].at = "asking" /\ j = k => ~ (k \in Missing({k}))
      BY <2>0
    <3> QED BY <1>5, <1>6, <2>2, <3>1, <3>2 DEF SinglesLed
  <2> QED BY <2>1, <2>2
<1>8. BatchesLed'
  <2>1. \A d \in Candidates : \A j \in Rows(d) : RowCell(d, j)' = RowCell(d, j)
    BY <1>1, RowsAreReceipts DEF RowCell, LookUp, BatchesTyped, Keys
  <2> QED BY <2>1, RowsAreReceipts DEF BatchesLed, LookUp, Rows
<1>9. FailuresForgotten'
  <2> SUFFICES ASSUME NEW j \in Keys, current'[j] # 0, cells'[j][current'[j]] \in Bad
               PROVE  \E d \in Candidates : Holds(d, j)'
    BY DEF FailuresForgotten, Bad
  <2>1. j \notin Missing({k})
    BY <1>1 DEF Missing, Bad
  <2>2. PICK d \in Candidates : Holds(d, j)
    BY <1>1, <2>1 DEF FailuresForgotten, Bad
  <2>3. Holds(d, j)'
    BY <1>1, <1>5, <2>1, <2>2 DEF Holds, Rows, LookUp
  <2> QED BY <2>3
<1> QED BY <1>1, <1>4, <1>7, <1>8, <1>9

(* A request for a key ends: its cell, the one in the map, has the answer. *)
LEMMA AnswerKeeps ==
    ASSUME CacheInv, NEW c \in Candidates, NEW k \in Singles,
           Answer(c, k), UNCHANGED <<pc, bundleVars>>
    PROVE  CacheInv'
<1> USE DEF CacheInv
<1> DEFINE i == single[c][k].cell
<1>0. k \in Keys /\ k \notin Receipts
  BY KeyKinds
<1>1. PICK answer \in Answers :
          /\ cells' = [cells EXCEPT ![k][i] = answer]
          /\ HaveAnswer(c, k, answer)
  BY DEF Answer
<1>2. /\ i \in 1..Len(cells[k]) /\ cells[k][i] = "asked" /\ i = current[k]
      /\ single[c][k].at = "asking" /\ single[c][k] \in SingleCalls
      /\ cells[k] \in Seq(CellStates)
  <2>1. single[c][k].at = "asking" /\ i \in 1..Len(cells[k]) /\ cells[k][i] = "asked"
    BY DEF Answer, SinglesTyped, SinglesLed, CellOf
  <2>2. i = current[k]
    BY <1>0, <2>1, OthersRetired
  <2> QED BY <1>0, <2>1, <2>2 DEF SinglesTyped, CellsTyped
<1>3. /\ \A j \in Keys \ {k} : cells'[j] = cells[j]
      /\ cells'[k] \in Seq(CellStates)
      /\ Len(cells'[k]) = Len(cells[k]) /\ cells'[k][i] = answer
      /\ \A j \in 1..Len(cells[k]) : j # i => cells'[k][j] = cells[k][j]
  <2>1. cells'[k] = [cells[k] EXCEPT ![i] = answer] /\ answer \in CellStates
    BY <1>0, <1>1 DEF CellsTyped, CellStates
  <2> QED BY <1>0, <1>1, <1>2, <2>1 DEF CellsTyped
<1>4. CellsTyped'
  BY <1>0, <1>1, <1>2, <1>3 DEF CellsTyped, Answer
<1>5. CellsKept
  <2>1. \A j \in Keys : Len(cells[j]) \in Nat
    BY DEF CellsTyped
  <2> QED BY <1>2, <1>3, <2>1 DEF CellsKept
<1>6. Retired'
  BY <1>2, <1>3 DEF Retired, Answer
<1> DEFINE call == [single[c][k] EXCEPT !.at = IF answer = "good" THEN "returned" ELSE "evict"]
<1>7. /\ call \in SingleCalls /\ SetCall(c, k, call)
      /\ call.at = (IF answer = "good" THEN "returned" ELSE "evict") /\ call.cell = i
  BY <1>1, <1>2 DEF SingleCalls, CallStages, HaveAnswer
<1>8. k \in SinglesOf(c)
  BY <1>2 DEF CallsOfStage
<1>9. SinglesTyped' /\ BatchesTyped' /\ BundlesTyped' /\ CallsOfStage'
  BY <1>2, <1>3, <1>4, <1>5, <1>7, <1>8, SingleFrame DEF Answer
<1>10. /\ single'[c][k] = call
       /\ \A d \in Candidates, j \in Singles :
             d # c \/ j # k => single'[d][j] = single[d][j]
  BY <1>7, SetCallEffect DEF SinglesTyped
<1>11. SinglesLed'
  <2> SUFFICES ASSUME NEW d \in Candidates, NEW j \in Singles
               PROVE  /\ single'[d][j].at = "asking" =>
                            /\ CellOf(d, j)' = "asked"
                            /\ \A e \in Candidates : single'[e][j].at = "asking" => e = d
                      /\ single'[d][j].at = "evict" => CellOf(d, j)' \in Bad
    BY DEF SinglesLed
  <2>1. CASE d = c /\ j = k
    <3>1. single'[d][j].at = (IF answer = "good" THEN "returned" ELSE "evict")
      BY <1>7, <1>10, <2>1
    <3>2. CellOf(d, j)' = answer
      BY <1>3, <1>7, <1>10, <2>1 DEF CellOf
    <3> QED BY <3>1, <3>2 DEF Answers, Bad
  <2>2. CASE d # c /\ j = k
    <3>1. single'[d][j] = single[d][j] /\ single[d][j].at # "asking"
      BY <1>2, <1>10, <2>2 DEF SinglesLed
    <3>2. single[d][j].at = "evict" => CellOf(d, j)' = CellOf(d, j)
      BY <1>0, <1>5, <1>10, <2>2 DEF CellOf, CellsKept, SinglesLed, SinglesTyped, Bad
    <3> QED BY <3>1, <3>2 DEF SinglesLed
  <2>3. CASE j # k
    <3>1. \A e \in Candidates : single'[e][j] = single[e][j]
      BY <1>10, <2>3
    <3>2. CellOf(d, j)' = CellOf(d, j)
      BY <1>3, <2>3, <3>1, KeyKinds DEF CellOf
    <3> QED BY <3>1, <3>2 DEF SinglesLed
  <2> QED BY <2>1, <2>2, <2>3
<1>12. BatchesLed'
  <2>1. \A d \in Candidates : \A j \in Rows(d) : RowCell(d, j)' = RowCell(d, j)
    BY <1>0, <1>3, RowsAreReceipts DEF RowCell, Answer, Keys
  <2> QED BY <2>1, RowsAreReceipts DEF BatchesLed, Answer, Rows
<1>13. FailuresForgotten'
  <2> SUFFICES ASSUME NEW j \in Keys, current'[j] # 0, cells'[j][current'[j]] \in Bad
               PROVE  \E d \in Candidates : Holds(d, j)'
    BY DEF FailuresForgotten, Bad
  <2>0. current' = current /\ batch' = batch
    BY DEF Answer
  <2>1. CASE j = k
    <3>1. answer # "good"
      BY <1>2, <1>3, <2>0, <2>1 DEF Bad
    <3> QED BY <1>2, <1>7, <1>10, <2>0, <2>1, <3>1 DEF Holds
  <2>2. CASE j # k
    <3>1. PICK d \in Candidates : Holds(d, j)
      BY <1>3, <2>0, <2>2 DEF FailuresForgotten, Bad
    <3>2. Holds(d, j)'
      BY <1>10, <2>0, <2>2, <3>1 DEF Holds, Rows
    <3> QED BY <3>2
  <2> QED BY <2>1, <2>2
<1> QED BY <1>4, <1>6, <1>9, <1>11, <1>12, <1>13

(* A caller takes the answer of the cell it waited for.                    *)
LEMMA TakeKeeps ==
    ASSUME CacheInv, NEW c \in Candidates, NEW k \in Singles,
           Take(c, k), UNCHANGED <<pc, bundleVars>>
    PROVE  CacheInv'
<1> USE DEF CacheInv
<1> DEFINE answer == CellOf(c, k)
           call == [single[c][k] EXCEPT !.at = IF answer = "good" THEN "returned" ELSE "evict"]
<1>0. k \in Keys /\ k \notin Receipts
  BY KeyKinds
<1>1. /\ single[c][k].at = "wait" /\ single[c][k] \in SingleCalls
      /\ single[c][k].cell \in 1..Len(cells[k]) /\ answer \in Answers
  BY DEF Take, SinglesTyped
<1>2. CellsTyped' /\ CellsKept /\ Retired'
  <2>1. \A j \in Keys : Len(cells[j]) \in Nat
    BY DEF CellsTyped
  <2> QED BY <2>1 DEF Take, CellsTyped, CellsKept, Retired
<1>3. /\ call \in SingleCalls /\ SetCall(c, k, call)
      /\ call.at = (IF answer = "good" THEN "returned" ELSE "evict")
      /\ call.cell = single[c][k].cell
  BY <1>1 DEF SingleCalls, CallStages, HaveAnswer, Take
<1>4. k \in SinglesOf(c)
  BY <1>1 DEF CallsOfStage
<1>5. SinglesTyped' /\ BatchesTyped' /\ BundlesTyped' /\ CallsOfStage'
  BY <1>1, <1>2, <1>3, <1>4, SingleFrame DEF Take
<1>6. /\ single'[c][k] = call
      /\ \A d \in Candidates, j \in Singles :
            d # c \/ j # k => single'[d][j] = single[d][j]
  BY <1>3, SetCallEffect DEF SinglesTyped
<1>7. SinglesLed'
  <2> SUFFICES ASSUME NEW d \in Candidates, NEW j \in Singles
               PROVE  /\ single'[d][j].at = "asking" =>
                            /\ CellOf(d, j)' = "asked"
                            /\ \A e \in Candidates : single'[e][j].at = "asking" => e = d
                      /\ single'[d][j].at = "evict" => CellOf(d, j)' \in Bad
    BY DEF SinglesLed
  <2>1. single'[c][k].at # "asking"
    BY <1>3, <1>6
  <2>2. CASE d = c /\ j = k
    <3>1. single'[d][j].at = (IF answer = "good" THEN "returned" ELSE "evict")
      BY <1>3, <1>6, <2>2
    <3>2. CellOf(d, j)' = answer
      BY <1>3, <1>6, <2>2 DEF CellOf, Take
    <3> QED BY <1>1, <3>1, <3>2 DEF Answers, Bad
  <2>3. CASE d # c \/ j # k
    <3>1. single'[d][j] = single[d][j] /\ CellOf(d, j)' = CellOf(d, j)
      BY <1>6, <2>3 DEF CellOf, Take
    <3>2. \A e \in Candidates : single'[e][j].at = "asking" => single[e][j].at = "asking"
      BY <1>6, <2>1
    <3> QED BY <3>1, <3>2 DEF SinglesLed
  <2> QED BY <2>2, <2>3
<1>8. BatchesLed'
  BY DEF BatchesLed, Take, Rows, RowCell
<1>9. FailuresForgotten'
  <2> SUFFICES ASSUME NEW j \in Keys, current[j] # 0, cells[j][current[j]] \in Bad
               PROVE  \E d \in Candidates : Holds(d, j)'
    BY DEF FailuresForgotten, Bad, Take
  <2>0. current' = current /\ batch' = batch
    BY DEF Take
  <2>1. PICK d \in Candidates : Holds(d, j)
    BY DEF FailuresForgotten, Bad
  <2>2. CASE d = c /\ j = k
    <3>1. single[c][k].cell = current[k]
      BY <1>0, <2>1, <2>2, RowsAreReceipts DEF Holds
    <3>2. answer # "good"
      BY <2>2, <3>1 DEF CellOf, Bad
    <3> QED BY <1>3, <1>6, <2>0, <2>2, <3>1, <3>2 DEF Holds
  <2>3. CASE d # c \/ j # k
    <3>1. Holds(d, j)'
      BY <1>6, <2>0, <2>1, <2>3 DEF Holds, Rows
    <3> QED BY <3>1
  <2> QED BY <2>2, <2>3
<1> QED BY <1>2, <1>5, <1>7, <1>8, <1>9

(* The cell of an incomplete answer is taken out of the map, if it is      *)
(* still there.                                                            *)
LEMMA EvictKeeps ==
    ASSUME CacheInv, NEW c \in Candidates, NEW k \in Singles,
           Evict(c, k), UNCHANGED <<pc, bundleVars>>
    PROVE  CacheInv'
<1> USE DEF CacheInv
<1> DEFINE call == [single[c][k] EXCEPT !.at = "returned"]
<1>0. k \in Keys /\ k \notin Receipts
  BY KeyKinds
<1>1. /\ single[c][k].at = "evict" /\ single[c][k] \in SingleCalls
      /\ single[c][k].cell \in 1..Len(cells[k]) /\ CellOf(c, k) \in Bad
  BY DEF Evict, SinglesTyped, SinglesLed
<1>2. /\ current' \in [Keys -> Nat]
      /\ \A j \in Keys : current'[j] # current[j] =>
            j = k /\ current'[j] = 0 /\ current[j] = single[c][k].cell
      /\ current'[k] # single[c][k].cell
  BY <1>0, <1>1 DEF Evict, CellsTyped
<1>3. CellsTyped' /\ CellsKept
  <2>1. \A j \in Keys : Len(cells[j]) \in Nat
    BY DEF CellsTyped
  <2> QED BY <1>2, <2>1 DEF Evict, CellsTyped, CellsKept
<1>4. Retired'
  <2> SUFFICES ASSUME NEW j \in Keys, NEW i \in 1..Len(cells[j]), i # current'[j]
               PROVE  cells[j][i] \in Bad
    BY DEF Retired, Evict
  <2>1. CASE i # current[j]
    BY <2>1 DEF Retired
  <2>2. CASE i = current[j]
    BY <1>1, <1>2, <2>2 DEF CellOf
  <2> QED BY <2>1, <2>2
<1>5. /\ call \in SingleCalls /\ SetCall(c, k, call)
      /\ call.at = "returned" /\ call.cell = single[c][k].cell
  BY <1>1 DEF SingleCalls, CallStages, Evict
<1>6. k \in SinglesOf(c)
  BY <1>1 DEF CallsOfStage
<1>7. SinglesTyped' /\ BatchesTyped' /\ BundlesTyped' /\ CallsOfStage'
  BY <1>1, <1>3, <1>5, <1>6, SingleFrame DEF Evict
<1>8. /\ single'[c][k] = call
      /\ \A d \in Candidates, j \in Singles :
            d # c \/ j # k => single'[d][j] = single[d][j]
  BY <1>5, SetCallEffect DEF SinglesTyped
<1>9. SinglesLed'
  <2> SUFFICES ASSUME NEW d \in Candidates, NEW j \in Singles
               PROVE  /\ single'[d][j].at = "asking" =>
                            /\ CellOf(d, j)' = "asked"
                            /\ \A e \in Candidates : single'[e][j].at = "asking" => e = d
                      /\ single'[d][j].at = "evict" => CellOf(d, j)' \in Bad
    BY DEF SinglesLed
  <2>1. single'[c][k].at = "returned"
    BY <1>5, <1>8
  <2>2. \A e \in Candidates : single'[e][j].at = "asking" => single[e][j].at = "asking"
    BY <1>8, <2>1
  <2>3. CASE d # c \/ j # k
    <3>1. single'[d][j] = single[d][j] /\ CellOf(d, j)' = CellOf(d, j)
      BY <1>8, <2>3 DEF CellOf, Evict
    <3> QED BY <2>2, <3>1 DEF SinglesLed
  <2> QED BY <2>1, <2>3
<1>10. BatchesLed'
  BY DEF BatchesLed, Evict, Rows, RowCell
<1>11. FailuresForgotten'
  <2> SUFFICES ASSUME NEW j \in Keys, current'[j] # 0, cells[j][current'[j]] \in Bad
               PROVE  \E d \in Candidates : Holds(d, j)'
    BY DEF FailuresForgotten, Bad, Evict
  <2>0. current'[j] = current[j] /\ batch' = batch
    BY <1>2 DEF Evict
  <2>1. PICK d \in Candidates : Holds(d, j)
    BY <2>0 DEF FailuresForgotten, Bad
  <2>2. ~ (d = c /\ j = k)
    BY <1>0, <1>2, <2>0, <2>1, RowsAreReceipts DEF Holds
  <2>3. Holds(d, j)'
    BY <1>8, <2>0, <2>1, <2>2 DEF Holds, Rows
  <2> QED BY <2>3
<1> QED BY <1>3, <1>4, <1>7, <1>9, <1>10, <1>11

LEMMA BatchOfTyped ==
    ASSUME BundlesTyped, NEW c \in Candidates
    PROVE  BatchOf(c) \subseteq Receipts /\ BatchOf(c) \subseteq Keys
BY DEF BatchOf, ReceiptsWanted, Signatures, Activity, BundlesTyped, Keys

LEMMA LookUpAllKeeps ==
    ASSUME CacheInv, NEW c \in Candidates, BatchOf(c) # {},
           LookUpAll(c, BatchOf(c)), UNCHANGED <<pc, bundleVars>>
    PROVE  CacheInv'
<1> DEFINE ks == BatchOf(c)
           call == [at |-> IF Missing(ks) = {} THEN "wait" ELSE "asking",
                    rows |-> [k \in ks |-> current'[k]], led |-> Missing(ks)]
<1>0. ks \in SUBSET Receipts /\ ks \in SUBSET Keys
  BY BatchOfTyped DEF CacheInv
<1>1. /\ CellsTyped' /\ Retired'
      /\ \A j \in Keys : /\ Len(cells[j]) <= Len(cells'[j])
                          /\ \A i \in 1..Len(cells[j]) : cells'[j][i] = cells[j][i]
      /\ \A k \in ks : current'[k] \in 1..Len(cells'[k])
      /\ \A k \in Missing(ks) : cells'[k][current'[k]] = "asked"
      /\ \A j \in Keys \ Missing(ks) : current'[j] = current[j] /\ cells'[j] = cells[j]
  <2>1. ks \in SUBSET Keys /\ OpenCells(ks)
    BY <1>0 DEF LookUpAll
  <2> HIDE DEF ks
  <2> QED BY <2>1, OpenCellsEffect DEF CacheInv
<1> USE DEF CacheInv
<1>2. /\ Missing(ks) \subseteq ks /\ batch[c].at = "idle"
      /\ call \in BatchCalls /\ SetBatch(c, call)
  <2>1. \A k \in ks : current'[k] \in Nat
    BY <1>0, <1>1 DEF CellsTyped
  <2>2. call.rows \in [ks -> Nat] /\ Missing(ks) \subseteq ks
    BY <2>1 DEF Missing
  <2> QED BY <1>0, <2>2 DEF BatchCalls, CallStages, LookUpAll
<1>3. CellsKept
  BY <1>1 DEF CellsKept
<1>4. SinglesTyped' /\ BatchesTyped' /\ BundlesTyped' /\ CallsOfStage'
  <2>1. /\ call.at # "idle" /\ DOMAIN call.rows = BatchOf(c)
        /\ call.led \subseteq DOMAIN call.rows
        /\ \A k \in DOMAIN call.rows : call.rows[k] \in 1..Len(cells'[k])
    BY <1>1, <1>2
  <2> HIDE DEF call, ks
  <2> QED BY <1>1, <1>2, <1>3, <2>1, BatchFrame DEF LookUpAll
<1>5. /\ batch'[c] = call
      /\ \A d \in Candidates \ {c} : batch'[d] = batch[d]
  BY <1>2, SetBatchEffect DEF BatchesTyped
<1>6. SinglesLed'
  <2>1. \A d \in Candidates, j \in Singles : single[d][j].at # "idle" =>
            CellOf(d, j)' = CellOf(d, j)
    BY <1>1, KeyKinds DEF CellOf, SinglesTyped, LookUpAll
  <2> QED BY <2>1 DEF SinglesLed, LookUpAll
<1>7. \A d \in Candidates \ {c} : \A j \in Rows(d) : RowCell(d, j)' = RowCell(d, j)
  <2> TAKE d \in Candidates \ {c}
  <2> TAKE j \in Rows(d)
  <2>1. batch[d].rows[j] \in 1..Len(cells[j]) /\ j \in Keys
    BY RowsAreReceipts DEF BatchesTyped, Keys
  <2> QED BY <1>1, <1>5, <2>1 DEF RowCell
<1>8. \A d \in Candidates : batch[d].at = "asking" => batch[d].led \intersect Missing(ks) = {}
  <2> SUFFICES ASSUME NEW d \in Candidates, batch[d].at = "asking",
                      NEW k \in batch[d].led, k \in Missing(ks)
               PROVE  FALSE
    OBVIOUS
  <2>1. /\ k \in Keys /\ batch[d].rows[k] \in 1..Len(cells[k])
        /\ cells[k][batch[d].rows[k]] = "asked"
    BY RowsAreReceipts DEF BatchesTyped, BatchesLed, RowCell, Keys
  <2>2. batch[d].rows[k] = current[k]
    BY <2>1, OthersRetired
  <2> QED BY <2>1, <2>2 DEF Missing
<1>9. BatchesLed'
  <2> SUFFICES ASSUME NEW d \in Candidates
               PROVE  /\ batch'[d].at = "asking" =>
                            /\ \A k \in batch'[d].led : RowCell(d, k)' = "asked"
                            /\ \A e \in Candidates \ {d} : batch'[e].at = "asking" =>
                                  batch'[e].led \intersect batch'[d].led = {}
                      /\ batch'[d].at = "evict" =>
                            \A k \in Rows(d)' : RowCell(d, k)' \in Answers
    BY DEF BatchesLed
  <2>1. CASE d = c
    <3>1. \A k \in Missing(ks) : RowCell(c, k)' = "asked"
      BY <1>1, <1>2, <1>5 DEF RowCell
    <3>2. \A e \in Candidates \ {c} : batch'[e].at = "asking" =>
              batch'[e].led \intersect Missing(ks) = {}
      BY <1>5, <1>8
    <3>3. batch'[c].led = Missing(ks) /\ batch'[c].at # "evict"
      BY <1>5
    <3> HIDE DEF ks
    <3> QED BY <2>1, <3>1, <3>2, <3>3
  <2>2. CASE d # c
    <3>1. batch'[d] = batch[d] /\ Rows(d)' = Rows(d)
      BY <1>5, <2>2 DEF Rows
    <3>2. \A k \in Rows(d) : RowCell(d, k)' = RowCell(d, k)
      BY <1>7, <2>2
    <3>3. batch[d].at = "asking" => \A k \in batch'[d].led : RowCell(d, k)' = "asked"
      BY <3>1, <3>2, RowsAreReceipts DEF BatchesLed
    <3>4. batch[d].at = "asking" => \A e \in Candidates \ {d} : batch'[e].at = "asking" =>
              batch'[e].led \intersect batch'[d].led = {}
      <4> SUFFICES ASSUME batch[d].at = "asking", NEW e \in Candidates \ {d},
                          batch'[e].at = "asking"
                   PROVE  batch'[e].led \intersect batch[d].led = {}
        BY <3>1
      <4>1. CASE e = c
        <5>1. batch'[e].led = Missing(ks)
          BY <1>5, <4>1
        <5> HIDE DEF ks
        <5> QED BY <1>8, <5>1
      <4>2. CASE e # c
        BY <1>5, <4>2 DEF BatchesLed
      <4> QED BY <4>1, <4>2
    <3> QED BY <3>1, <3>2, <3>3, <3>4 DEF BatchesLed
  <2> QED BY <2>1, <2>2
<1>10. FailuresForgotten'
  <2> SUFFICES ASSUME NEW j \in Keys, current'[j] # 0, cells'[j][current'[j]] \in Bad
               PROVE  \E d \in Candidates : Holds(d, j)'
    BY DEF FailuresForgotten, Bad
  <2>1. j \notin Missing(ks)
    BY <1>1 DEF Bad
  <2>2. PICK d \in Candidates : Holds(d, j)
    BY <1>1, <2>1 DEF FailuresForgotten, Bad
  <2>3. current'[j] = current[j] /\ single' = single
    BY <1>1, <2>1 DEF LookUpAll
  <2>4. Holds(d, j)'
    BY <1>2, <1>5, <2>2, <2>3 DEF Holds, Rows
  <2> QED BY <2>4
<1> QED BY <1>1, <1>4, <1>6, <1>9, <1>10

(* A request for a set of keys ends: every cell it leads is answered.      *)
LEMMA AnswerWithKeeps ==
    ASSUME CacheInv, NEW c \in Candidates, NEW nulls, NEW bad, AnswerWith(c, nulls, bad),
           UNCHANGED <<pc, bundleVars>>
    PROVE  CacheInv'
<1> DEFINE call == [batch[c] EXCEPT !.at = "wait"]
           led == batch[c].led
           row(k) == batch[c].rows[k]
<1> USE DEF CacheInv
<1> DEFINE answered(k) == IF k \in bad THEN "fail" ELSE IF k \in nulls THEN "part" ELSE "good"
<1>0. cells' = [k \in Keys |-> IF k \in led THEN [cells[k] EXCEPT ![row(k)] = answered(k)]
                               ELSE cells[k]]
  BY DEF AnswerWith
<1>1. /\ batch[c].at = "asking" /\ batch[c] \in BatchCalls
      /\ Rows(c) \subseteq Receipts /\ led \subseteq Rows(c) /\ led \subseteq Keys
      /\ current' = current /\ single' = single
  BY RowsAreReceipts DEF AnswerWith, Keys
<1>2. \A k \in led : /\ row(k) \in 1..Len(cells[k]) /\ cells[k][row(k)] = "asked"
                     /\ row(k) = current[k] /\ cells[k] \in Seq(CellStates)
  <2> TAKE k \in led
  <2>1. row(k) \in 1..Len(cells[k]) /\ cells[k][row(k)] = "asked" /\ k \in Keys
    BY <1>1 DEF BatchesTyped, BatchesLed, RowCell
  <2>2. row(k) = current[k]
    BY <2>1, OthersRetired
  <2> QED BY <2>1, <2>2 DEF CellsTyped
<1>3. /\ \A j \in Keys \ led : cells'[j] = cells[j]
      /\ \A k \in led :
            /\ cells'[k] \in Seq(CellStates) /\ Len(cells'[k]) = Len(cells[k])
            /\ cells'[k][row(k)] \in {"fail", "part", "good"}
            /\ \A i \in 1..Len(cells[k]) : i # row(k) => cells'[k][i] = cells[k][i]
  <2>1. \A j \in Keys \ led : cells'[j] = cells[j]
    BY <1>0
  <2>2. ASSUME NEW k \in led
        PROVE  /\ cells'[k] \in Seq(CellStates) /\ Len(cells'[k]) = Len(cells[k])
               /\ cells'[k][row(k)] \in {"fail", "part", "good"}
               /\ \A i \in 1..Len(cells[k]) : i # row(k) => cells'[k][i] = cells[k][i]
    <3>1. PICK answer \in {"fail", "part", "good"} : cells'[k] = [cells[k] EXCEPT ![row(k)] = answer]
      BY <1>0, <1>1
    <3>2. answer \in CellStates
      BY DEF CellStates, Answers
    <3> HIDE DEF row
    <3> QED BY <1>2, <3>1, <3>2
  <2> QED BY <2>1, <2>2
<1>4. CellsTyped'
  <2>1. \A j \in Keys : cells'[j] \in Seq(CellStates) /\ current[j] <= Len(cells'[j])
    BY <1>1, <1>3 DEF CellsTyped
  <2>2. cells' = [j \in Keys |-> cells'[j]]
    BY <1>0
  <2> QED BY <1>1, <2>1, <2>2 DEF CellsTyped
<1>5. CellsKept
  <2>1. \A j \in Keys : Len(cells[j]) \in Nat
    BY DEF CellsTyped
  <2> QED BY <1>2, <1>3, <2>1 DEF CellsKept
<1>6. Retired'
  <2> SUFFICES ASSUME NEW j \in Keys, NEW i \in 1..Len(cells'[j]), i # current[j]
               PROVE  cells'[j][i] \in Bad
    BY <1>1 DEF Retired
  <2>1. i \in 1..Len(cells[j]) /\ cells'[j][i] = cells[j][i]
    BY <1>2, <1>3
  <2> QED BY <2>1 DEF Retired
<1>7. /\ call \in BatchCalls /\ SetBatch(c, call) /\ call.at = "wait"
      /\ call.rows = batch[c].rows /\ call.led = led
  BY <1>1 DEF BatchCalls, CallStages, AnswerWith
<1>8. SinglesTyped' /\ BatchesTyped' /\ BundlesTyped' /\ CallsOfStage'
  <2>1. BatchOf(c) # {} /\ DOMAIN call.rows = BatchOf(c)
    BY <1>1, <1>7 DEF CallsOfStage, Rows
  <2>2. \A k \in DOMAIN call.rows : call.rows[k] \in 1..Len(cells'[k])
    <3> SUFFICES ASSUME NEW k \in Rows(c) PROVE batch[c].rows[k] \in 1..Len(cells'[k])
      BY <1>7 DEF Rows
    <3>1. batch[c].rows[k] \in 1..Len(cells[k]) /\ k \in Keys
      BY <1>1 DEF BatchesTyped, Keys
    <3> QED BY <1>3, <3>1
  <2>3. call.led \subseteq DOMAIN call.rows
    BY <1>1, <1>7 DEF Rows
  <2> HIDE DEF call, led
  <2> QED BY <1>1, <1>4, <1>5, <1>7, <2>1, <2>2, <2>3, BatchFrame
<1>9. /\ batch'[c] = call
      /\ \A d \in Candidates \ {c} : batch'[d] = batch[d]
  BY <1>7, SetBatchEffect DEF BatchesTyped
<1>10. SinglesLed'
  <2>1. \A d \in Candidates, j \in Singles : CellOf(d, j)' = CellOf(d, j)
    BY <1>1, <1>3, KeyKinds DEF CellOf
  <2> QED BY <1>1, <2>1 DEF SinglesLed
<1>11. BatchesLed'
  <2> SUFFICES ASSUME NEW d \in Candidates \ {c}
               PROVE  /\ batch[d].at = "asking" =>
                            /\ \A k \in batch[d].led : RowCell(d, k)' = "asked"
                            /\ \A e \in Candidates \ {d} : batch'[e].at = "asking" =>
                                  batch'[e].led \intersect batch[d].led = {}
                      /\ batch[d].at = "evict" =>
                            \A k \in Rows(d) : RowCell(d, k)' \in Answers
    BY <1>7, <1>9 DEF BatchesLed, Rows
  <2>1. batch'[d] = batch[d] /\ Rows(d) \subseteq Receipts /\ batch[d].led \subseteq Rows(d)
    BY <1>9, RowsAreReceipts
  <2>2. ASSUME batch[d].at = "asking", NEW k \in batch[d].led
        PROVE  RowCell(d, k)' = "asked"
    <3>1. k \in Keys \ led
      BY <1>1, <2>1, <2>2 DEF BatchesLed, Keys
    <3> QED BY <1>3, <2>1, <2>2, <3>1 DEF RowCell, BatchesLed
  <2>3. ASSUME batch[d].at = "asking", NEW e \in Candidates \ {d}, batch'[e].at = "asking"
        PROVE  batch'[e].led \intersect batch[d].led = {}
    BY <1>7, <1>9, <2>3 DEF BatchesLed
  <2>4. ASSUME batch[d].at = "evict", NEW k \in Rows(d)
        PROVE  RowCell(d, k)' \in Answers
    <3>1. /\ k \in Keys /\ RowCell(d, k) \in Answers
          /\ batch[d].rows[k] \in 1..Len(cells[k])
      BY <2>1, <2>4 DEF BatchesLed, BatchesTyped, Keys
    <3> QED BY <1>5, <2>1, <3>1 DEF CellsKept, RowCell, Answers
  <2> QED BY <2>2, <2>3, <2>4
<1>12. FailuresForgotten'
  <2> SUFFICES ASSUME NEW j \in Keys, current[j] # 0, cells'[j][current[j]] \in Bad
               PROVE  \E d \in Candidates : Holds(d, j)'
    BY <1>1 DEF FailuresForgotten, Bad
  <2>1. CASE j \in led
    <3>1. j \in DOMAIN batch[c].rows /\ batch[c].rows[j] = current[j]
      BY <1>1, <1>2, <2>1 DEF Rows
    <3>2. Holds(c, j)'
      BY <1>1, <1>7, <1>9, <3>1 DEF Holds, Rows
    <3> QED BY <3>2
  <2>2. CASE j \notin led
    <3>1. PICK d \in Candidates : Holds(d, j)
      BY <1>3, <2>2 DEF FailuresForgotten, Bad
    <3>2. Holds(d, j)'
      BY <1>1, <1>9, <3>1 DEF Holds, Rows
    <3> QED BY <3>2
  <2> QED BY <2>1, <2>2
<1> QED BY <1>4, <1>6, <1>8, <1>10, <1>11, <1>12

(* A call collects the answers of all its rows.                            *)
LEMMA CollectRowsKeeps ==
    ASSUME CacheInv, NEW c \in Candidates, CollectRows(c), UNCHANGED <<pc, bundleVars>>
    PROVE  CacheInv'
<1> DEFINE call == [batch[c] EXCEPT !.at = IF Delivered(c) = Rows(c) THEN "returned"
                                                                   ELSE "evict"]
<1> USE DEF CacheInv
<1>1. /\ batch[c].at = "wait" /\ batch[c] \in BatchCalls
      /\ \A k \in Rows(c) : RowCell(c, k) \in Answers
      /\ current' = current /\ cells' = cells /\ single' = single
  BY RowsAreReceipts DEF CollectRows
<1>2. CellsTyped' /\ CellsKept /\ Retired'
  <2>1. \A j \in Keys : Len(cells[j]) \in Nat
    BY DEF CellsTyped
  <2> QED BY <1>1, <2>1 DEF CellsTyped, CellsKept, Retired
<1>3. /\ call \in BatchCalls /\ SetBatch(c, call)
      /\ call.at = (IF Delivered(c) = Rows(c) THEN "returned" ELSE "evict")
      /\ call.rows = batch[c].rows /\ call.led = batch[c].led
  BY <1>1 DEF BatchCalls, CallStages, CollectRows
<1>4. SinglesTyped' /\ BatchesTyped' /\ BundlesTyped' /\ CallsOfStage'
  <2>1. BatchOf(c) # {} /\ DOMAIN call.rows = BatchOf(c)
    BY <1>1, <1>3 DEF CallsOfStage, Rows
  <2>2. /\ \A k \in DOMAIN call.rows : call.rows[k] \in 1..Len(cells'[k])
        /\ call.led \subseteq DOMAIN call.rows /\ call.at # "idle"
    BY <1>1, <1>3 DEF BatchesTyped, Rows
  <2> HIDE DEF call
  <2> QED BY <1>1, <1>2, <1>3, <2>1, <2>2, BatchFrame
<1>5. /\ batch'[c] = call
      /\ \A d \in Candidates \ {c} : batch'[d] = batch[d]
  BY <1>3, SetBatchEffect DEF BatchesTyped
<1>6. SinglesLed'
  BY <1>1 DEF SinglesLed, CellOf
<1>7. BatchesLed'
  <2> HIDE DEF call
  <2>1. \A d \in Candidates : batch'[d].rows = batch[d].rows /\ batch'[d].led = batch[d].led
    BY <1>3, <1>5
  <2>2. \A d \in Candidates : batch'[d].at = "asking" => batch[d].at = "asking"
    BY <1>3, <1>5
  <2>3. \A d \in Candidates : batch'[d].at = "evict" =>
            \A k \in Rows(d) : RowCell(d, k) \in Answers
    BY <1>1, <1>5 DEF BatchesLed
  <2> QED BY <1>1, <2>1, <2>2, <2>3 DEF BatchesLed, RowCell, Rows
<1>8. FailuresForgotten'
  <2> SUFFICES ASSUME NEW j \in Keys, current[j] # 0, cells[j][current[j]] \in Bad
               PROVE  \E d \in Candidates : Holds(d, j)'
    BY <1>1 DEF FailuresForgotten, Bad
  <2>1. PICK d \in Candidates : Holds(d, j)
    BY DEF FailuresForgotten, Bad
  <2>2. CASE d = c /\ j \in Rows(c) /\ batch[c].rows[j] = current[j]
    <3>1. j \notin Delivered(c)
      BY <2>2 DEF Delivered, RowCell, Bad
    <3>2. batch'[c].at = "evict" /\ batch'[c].rows = batch[c].rows
      BY <1>3, <1>5, <2>2, <3>1
    <3>3. Holds(c, j)'
      BY <1>1, <2>2, <3>2 DEF Holds, Rows
    <3> QED BY <3>3
  <2>3. CASE ~ (d = c /\ j \in Rows(c) /\ batch[c].rows[j] = current[j])
    <3>1. Holds(d, j)'
      BY <1>1, <1>5, <2>1, <2>3 DEF Holds, Rows
    <3> QED BY <3>1
  <2> QED BY <2>2, <2>3
<1> QED BY <1>2, <1>4, <1>6, <1>7, <1>8

(* The cells of the receipts that did not come are taken out of the map.   *)
LEMMA EvictFailedKeeps ==
    ASSUME CacheInv, NEW c \in Candidates, EvictFailed(c), UNCHANGED <<pc, bundleVars>>
    PROVE  CacheInv'
<1> DEFINE call == [batch[c] EXCEPT !.at = "returned"]
<1> USE DEF CacheInv
<1>1. /\ batch[c].at = "evict" /\ batch[c] \in BatchCalls
      /\ \A k \in Rows(c) : RowCell(c, k) \in Answers
      /\ cells' = cells /\ single' = single
  BY RowsAreReceipts DEF EvictFailed, BatchesLed
<1>2. /\ current' \in [Keys -> Nat]
      /\ \A j \in Keys : current'[j] # current[j] =>
            /\ current'[j] = 0
            /\ j \in Rows(c) \ Delivered(c) /\ current[j] = batch[c].rows[j]
      /\ \A j \in Keys \intersect (Rows(c) \ Delivered(c)) :
            current'[j] # 0 => current'[j] # batch[c].rows[j]
  BY DEF EvictFailed, CellsTyped
<1>3. CellsTyped' /\ CellsKept
  <2>1. \A j \in Keys : Len(cells[j]) \in Nat
    BY DEF CellsTyped
  <2> QED BY <1>1, <1>2, <2>1 DEF CellsTyped, CellsKept
<1>4. Retired'
  <2> SUFFICES ASSUME NEW j \in Keys, NEW i \in 1..Len(cells[j]), i # current'[j]
               PROVE  cells[j][i] \in Bad
    BY <1>1 DEF Retired
  <2>1. CASE i # current[j]
    BY <2>1 DEF Retired
  <2>2. CASE i = current[j]
    <3>1. j \in Rows(c) \ Delivered(c) /\ RowCell(c, j) = cells[j][i]
      BY <1>2, <2>2 DEF RowCell
    <3> QED BY <1>1, <3>1 DEF Delivered, Answers, Bad
  <2> QED BY <2>1, <2>2
<1>5. /\ call \in BatchCalls /\ SetBatch(c, call) /\ call.at = "returned"
      /\ call.rows = batch[c].rows /\ call.led = batch[c].led
  BY <1>1 DEF BatchCalls, CallStages, EvictFailed
<1>6. SinglesTyped' /\ BatchesTyped' /\ BundlesTyped' /\ CallsOfStage'
  <2>1. BatchOf(c) # {} /\ DOMAIN call.rows = BatchOf(c)
    BY <1>1, <1>5 DEF CallsOfStage, Rows
  <2>2. /\ \A k \in DOMAIN call.rows : call.rows[k] \in 1..Len(cells'[k])
        /\ call.led \subseteq DOMAIN call.rows /\ call.at # "idle"
    BY <1>1, <1>5 DEF BatchesTyped, Rows
  <2> HIDE DEF call
  <2> QED BY <1>1, <1>3, <1>5, <2>1, <2>2, BatchFrame
<1>7. /\ batch'[c] = call
      /\ \A d \in Candidates \ {c} : batch'[d] = batch[d]
  BY <1>5, SetBatchEffect DEF BatchesTyped
<1>8. SinglesLed'
  BY <1>1 DEF SinglesLed, CellOf
<1>9. BatchesLed'
  <2>1. \A d \in Candidates : batch'[d].rows = batch[d].rows /\ batch'[d].led = batch[d].led
    BY <1>5, <1>7
  <2>2. \A d \in Candidates : /\ batch'[d].at = "asking" => batch[d].at = "asking"
                              /\ batch'[d].at = "evict" => batch[d].at = "evict"
    BY <1>5, <1>7
  <2> QED BY <1>1, <2>1, <2>2 DEF BatchesLed, RowCell, Rows
<1>10. FailuresForgotten'
  <2> SUFFICES ASSUME NEW j \in Keys, current'[j] # 0, cells[j][current'[j]] \in Bad
               PROVE  \E d \in Candidates : Holds(d, j)'
    BY <1>1 DEF FailuresForgotten, Bad
  <2>0. current'[j] = current[j]
    BY <1>2
  <2>1. PICK d \in Candidates : Holds(d, j)
    BY <2>0 DEF FailuresForgotten, Bad
  <2>2. ~ (d = c /\ j \in Rows(c) /\ batch[c].rows[j] = current[j])
    <3> SUFFICES ASSUME j \in Rows(c), batch[c].rows[j] = current[j] PROVE FALSE
      OBVIOUS
    <3>1. j \notin Delivered(c)
      BY <2>0 DEF Delivered, RowCell, Bad
    <3> QED BY <1>2, <2>0, <3>1
  <2>3. Holds(d, j)'
    BY <1>1, <1>7, <2>0, <2>1, <2>2 DEF Holds, Rows
  <2> QED BY <2>3
<1> QED BY <1>3, <1>4, <1>6, <1>8, <1>9, <1>10

-----------------------------------------------------------------------------
(* The steps of a task.  What they put into its bundle has its type.       *)

LEMMA PutEffect ==
    ASSUME NEW S, NEW f \in [Candidates -> S], NEW c \in Candidates, NEW v \in S
    PROVE  /\ Put(f, c, v) \in [Candidates -> S]
           /\ Put(f, c, v)[c] = v
           /\ \A d \in Candidates \ {c} : Put(f, c, v)[d] = f[d]
BY DEF Put

LEMMA CombinedStatus ==
    ASSUME NEW a \in Statuses, NEW b \in Statuses
    PROVE  /\ Combined(a, b) \in Statuses
           /\ Combined(a, b) = "complete" => a = "complete" /\ b = "complete"
BY DEF Combined, Statuses

LEMMA StatusTypes ==
    ASSUME NEW c \in Candidates, BundlesTyped
    PROVE  /\ ReceiptStatus(c) \in Statuses /\ QuoteStatus(c) \in Statuses
           /\ \A ks : SinglesStatus(c, ks) \in Statuses
           /\ \A ks, u : FlowStatus(c, ks, u) \in Statuses
           /\ \A s : Attributed(c, s) \in Statuses
<1>1. \A ks : SinglesStatus(c, ks) \in Statuses
  BY DEF SinglesStatus, Statuses
<1>2. \A ks, u : FlowStatus(c, ks, u) \in Statuses
  BY <1>1 DEF FlowStatus, Statuses
<1>3. QuoteStatus(c) \in Statuses
  BY <1>1 DEF QuoteStatus, Statuses
<1>4. ReceiptStatus(c) \in Statuses
  BY DEF ReceiptStatus, Statuses
<1>5. \A s : Attributed(c, s) \in Statuses
  BY DEF Attributed, Statuses, BundlesTyped, Families
<1> QED BY <1>1, <1>2, <1>3, <1>4, <1>5

LEMMA BundleTypes ==
    ASSUME BundlesTyped, BatchesTyped, NEW c \in Candidates
    PROVE  /\ {Native} \union PaidIn(c) \subseteq Singles
           /\ ControlledWanted(c) \subseteq Singles
           /\ operators[c] \subseteq Singles
           /\ Delivered(c) \subseteq Receipts
           /\ \A ks, answer : AnsweredWith(c, ks, answer) \subseteq ks
           /\ \A ks \in SUBSET Singles : FlowsOf(c, ks) \subseteq Receipts
           /\ DerivedOperators(c) \subseteq SUBSET Singles
<1>1. {Native} \union PaidIn(c) \subseteq Singles /\ ControlledWanted(c) \subseteq Singles
  BY SinglesAssumption DEF PaidIn, ControlledWanted
<1>2. operators[c] \subseteq Singles
  BY DEF BundlesTyped
<1>3. Delivered(c) \subseteq Receipts
  BY RowsAreReceipts DEF Delivered
<1>4. \A ks, answer : AnsweredWith(c, ks, answer) \subseteq ks
  BY DEF AnsweredWith
<1>5. \A ks \in SUBSET Singles : FlowsOf(c, ks) \subseteq Receipts
  BY SinglesAssumption DEF FlowsOf
<1>6. DerivedOperators(c) \subseteq SUBSET Singles
  <2>1. Active[c] \in SUBSET Singles
    BY SinglesAssumption
  <2> QED BY <1>1, <2>1 DEF DerivedOperators
<1> QED BY <1>1, <1>2, <1>3, <1>4, <1>5, <1>6

LEMMA FetchBaseTyped ==
    ASSUME BundlesTyped, NEW c \in Candidates, FetchBase(c)
    PROVE  BundlesTyped'
<1>1. PICK at \in Statuses, as \in Statuses, et \in Statuses, os \in Statuses :
          LET ts == TransferStatus(at, et)
              ss == SaleStatus(as, os)
          IN  /\ quality' = Put(quality, c, [quality[c] EXCEPT
                                !["transfers"] = ts, !["sales"] = ss])
              /\ \E rows \in Brought(ts, TransferTxs[c]) : transfers' = Put(transfers, c, rows)
              /\ \E rows \in Brought(ss, SaleTxs[c]) : sales' = Put(sales, c, rows)
  BY DEF FetchBase
<1>2. \A s \in Statuses : \A all \in SUBSET Receipts : Brought(s, all) \subseteq SUBSET Receipts
  BY DEF Brought
<1>3. TransferStatus(at, et) \in Statuses /\ SaleStatus(as, os) \in Statuses
  BY DEF TransferStatus, SaleStatus
<1>4. quality' \in [Candidates -> [Families -> Statuses]]
  BY <1>1, <1>3 DEF BundlesTyped, Put
<1>5. transfers' \in [Candidates -> SUBSET Receipts] /\ sales' \in [Candidates -> SUBSET Receipts]
  <2>1. TransferTxs[c] \in SUBSET Receipts /\ SaleTxs[c] \in SUBSET Receipts
    BY ActivityAssumption
  <2>2. PICK rows \in SUBSET Receipts : transfers' = Put(transfers, c, rows)
    BY <1>1, <1>2, <1>3, <2>1
  <2>3. PICK rows2 \in SUBSET Receipts : sales' = Put(sales, c, rows2)
    BY <1>1, <1>2, <1>3, <2>1
  <2> QED BY <2>2, <2>3 DEF BundlesTyped, Put
<1>6. pc' \in [Candidates -> Stages]
  BY DEF FetchBase, GoTo, BundlesTyped, Stages
<1> QED BY <1>4, <1>5, <1>6 DEF BundlesTyped, FetchBase

LEMMA JoinDoneTyped ==
    ASSUME BundlesTyped, BatchesTyped, NEW c \in Candidates, JoinDone(c)
    PROVE  BundlesTyped'
<1>1. PICK deployment \in Statuses :
          quality' = Put(quality, c, [quality[c] EXCEPT
              !["prices"] = QuoteStatus(c),
              !["gas"] = Combined(ReceiptStatus(c), deployment)])
  BY DEF JoinDone
<1>2. QuoteStatus(c) \in Statuses /\ Combined(ReceiptStatus(c), deployment) \in Statuses
  BY StatusTypes, CombinedStatus
<1>3. quality' \in [Candidates -> [Families -> Statuses]]
  BY <1>1, <1>2 DEF BundlesTyped, Put
<1>4. quotes' \in [Candidates -> SUBSET Singles] /\ gas' \in [Candidates -> SUBSET Receipts]
  <2>1. /\ AnsweredWith(c, {Native} \union PaidIn(c), "good") \in SUBSET Singles
        /\ Delivered(c) \in SUBSET Receipts
    BY BundleTypes
  <2> QED BY <2>1, PutEffect DEF BundlesTyped, JoinDone
<1>5. pc' \in [Candidates -> Stages]
  BY DEF JoinDone, GoTo, BundlesTyped, Stages
<1> QED BY <1>3, <1>4, <1>5 DEF BundlesTyped, JoinDone

LEMMA FlowsDoneTyped ==
    ASSUME BundlesTyped, BatchesTyped, NEW c \in Candidates, FlowsDone(c)
    PROVE  BundlesTyped'
<1> DEFINE asked == ControlledWanted(c)
<1>1. PICK derived \in DerivedOperators(c), unrelated \in BOOLEAN :
          LET status == FlowStatus(c, asked, unrelated)
          IN  /\ operators' = Put(operators, c, derived)
              /\ quality' = Put(quality, c, [quality[c] EXCEPT
                     !["transfers"] = Attributed(c, status), !["valueFlows"] = status])
              /\ IF derived = asked
                 THEN /\ operatorFlows' = Put(operatorFlows, c, AnsweredWith(c, asked, "good"))
                      /\ flows' = Put(flows, c, FlowsOf(c, asked))
                      /\ GoTo(c, "gas")
                 ELSE /\ UNCHANGED <<operatorFlows, flows>>
                      /\ GoTo(c, "final")
  BY DEF FlowsDone
<1>2. /\ asked \in SUBSET Singles /\ derived \in SUBSET Singles
      /\ AnsweredWith(c, asked, "good") \in SUBSET Singles
      /\ FlowsOf(c, asked) \in SUBSET Receipts
  BY BundleTypes
<1>3. quality' \in [Candidates -> [Families -> Statuses]]
  <2>1. /\ FlowStatus(c, asked, unrelated) \in Statuses
        /\ Attributed(c, FlowStatus(c, asked, unrelated)) \in Statuses
    BY StatusTypes
  <2> QED BY <1>1, <2>1 DEF BundlesTyped, Put
<1>4. /\ operators' \in [Candidates -> SUBSET Singles]
      /\ controlFlows' \in [Candidates -> SUBSET Singles]
  BY <1>1, <1>2, PutEffect DEF BundlesTyped, FlowsDone
<1>5. /\ operatorFlows' \in [Candidates -> SUBSET Singles]
      /\ flows' \in [Candidates -> SUBSET Receipts]
      /\ pc' \in [Candidates -> Stages]
  <2>1. CASE derived = asked
    <3>1. /\ operatorFlows' = Put(operatorFlows, c, AnsweredWith(c, asked, "good"))
          /\ flows' = Put(flows, c, FlowsOf(c, asked))
          /\ GoTo(c, "gas")
      BY <1>1, <2>1
    <3> HIDE DEF asked
    <3>2. /\ operatorFlows' \in [Candidates -> SUBSET Singles]
          /\ flows' \in [Candidates -> SUBSET Receipts]
      BY <1>2, <3>1, PutEffect DEF BundlesTyped
    <3>3. pc' \in [Candidates -> Stages]
      BY <3>1 DEF BundlesTyped, GoTo, Stages
    <3> QED BY <3>2, <3>3
  <2>2. CASE derived # asked
    BY <1>1, <2>2 DEF BundlesTyped, GoTo, Stages
  <2> QED BY <2>1, <2>2
<1> QED BY <1>3, <1>4, <1>5 DEF BundlesTyped, FlowsDone

LEMMA FinalDoneTyped ==
    ASSUME BundlesTyped, BatchesTyped, NEW c \in Candidates, FinalDone(c)
    PROVE  BundlesTyped'
<1>1. PICK unrelated \in BOOLEAN :
          quality' = Put(quality, c, [quality[c] EXCEPT
              !["valueFlows"] = FlowStatus(c, operators[c], unrelated)])
  BY DEF FinalDone
<1>2. quality' \in [Candidates -> [Families -> Statuses]]
  <2>1. FlowStatus(c, operators[c], unrelated) \in Statuses
    BY StatusTypes
  <2> QED BY <1>1, <2>1 DEF BundlesTyped, Put
<1>3. /\ operatorFlows' \in [Candidates -> SUBSET Singles]
      /\ flows' \in [Candidates -> SUBSET Receipts]
  <2>1. /\ AnsweredWith(c, operators[c], "good") \in SUBSET Singles
        /\ FlowsOf(c, operators[c]) \in SUBSET Receipts
    BY BundleTypes
  <2> QED BY <2>1, PutEffect DEF BundlesTyped, FinalDone
<1>4. pc' \in [Candidates -> Stages]
  BY DEF FinalDone, GoTo, BundlesTyped, Stages
<1> QED BY <1>2, <1>3, <1>4 DEF BundlesTyped, FinalDone

LEMMA GasDoneTyped ==
    ASSUME BundlesTyped, BatchesTyped, NEW c \in Candidates, GasDone(c)
    PROVE  BundlesTyped'
<1>1. PICK ambiguous \in BOOLEAN :
          quality' = Put(quality, c, [quality[c] EXCEPT
              !["gas"] = GasStatus(c),
              !["transfers"] = IF ambiguous /\ @ = "complete" THEN "truncated" ELSE @])
  BY DEF GasDone, Ambiguity, MintsSeen
<1>2. quality' \in [Candidates -> [Families -> Statuses]]
  <2>1. GasStatus(c) \in Statuses
    BY StatusTypes, CombinedStatus DEF GasStatus, BundlesTyped, Families
  <2> QED BY <1>1, <2>1 DEF BundlesTyped, Put, Statuses, Families
<1>3. gas' \in [Candidates -> SUBSET Receipts]
  <2>1. gas[c] \union Delivered(c) \in SUBSET Receipts
    BY BundleTypes DEF BundlesTyped
  <2> QED BY <2>1, PutEffect DEF BundlesTyped, GasDone
<1>4. pc' \in [Candidates -> Stages]
  BY DEF GasDone, GoTo, BundlesTyped, Stages
<1> QED BY <1>2, <1>3, <1>4 DEF BundlesTyped, GasDone

-----------------------------------------------------------------------------
(* When a stage is over none of its calls holds anything in the caches.    *)

BatchDone(c) == BatchOf(c) = {} \/ batch[c].at = "returned"

LEMMA CallsEnded ==
    ASSUME CacheInv, NEW c \in Candidates, NEW ks, SinglesOf(c) \subseteq ks,
           Returned(c, ks), BatchDone(c)
    PROVE  /\ \A k \in Singles : single[c][k].at \in {"idle", "returned"}
           /\ batch[c].at \in {"idle", "returned"}
BY DEF CacheInv, CallsOfStage, Returned, BatchDone

(* What the other candidates want does not depend on the one that moves.   *)
SameBundle(d) ==
    /\ pc'[d] = pc[d] /\ transfers'[d] = transfers[d] /\ sales'[d] = sales[d]
    /\ operators'[d] = operators[d] /\ flows'[d] = flows[d] /\ gas'[d] = gas[d]

SameEvidence(d) ==
    /\ SameBundle(d) /\ quality'[d] = quality[d] /\ quotes'[d] = quotes[d]
    /\ controlFlows'[d] = controlFlows[d] /\ operatorFlows'[d] = operatorFlows[d]

LEMMA SameWants ==
    ASSUME NEW d \in Candidates, SameBundle(d), single'[d] = single[d]
    PROVE  SinglesOf(d)' = SinglesOf(d) /\ BatchOf(d)' = BatchOf(d)
BY DEF SameBundle, SinglesOf, SinglesWanted, SolanaQuotes, QuotesWanted, PaidIn,
       ControlledWanted, Dated, BatchOf, ReceiptsWanted, Signatures, Activity

LEMMA CallsOverKeeps ==
    ASSUME CacheInv, BundlesTyped', NEW c \in Candidates, CallsOver(c),
           \A k \in Singles : single[c][k].at \in {"idle", "returned"},
           batch[c].at \in {"idle", "returned"},
           \A d \in Candidates \ {c} : SameBundle(d)
    PROVE  CacheInv'
<1> USE DEF CacheInv
<1>1. /\ current' = current /\ cells' = cells
      /\ single' \in [Candidates -> [Singles -> SingleCalls]]
      /\ \A k \in Singles : single'[c][k] = NoCall
      /\ \A d \in Candidates \ {c} : single'[d] = single[d]
  <2>1. NoCall \in SingleCalls
    BY DEF NoCall, SingleCalls, CallStages
  <2> QED BY <2>1 DEF CallsOver, SinglesTyped
<1>2. /\ batch' \in [Candidates -> BatchCalls]
      /\ batch'[c] = NoBatch
      /\ \A d \in Candidates \ {c} : batch'[d] = batch[d]
  <2>1. NoBatch \in BatchCalls
    <3>1. [k \in {} |-> 0] \in [{} -> Nat] /\ {} \in SUBSET Receipts
      OBVIOUS
    <3> QED BY <3>1 DEF NoBatch, BatchCalls, CallStages
  <2> QED BY <2>1 DEF CallsOver, BatchesTyped
<1>3. NoCall.at = "idle" /\ NoBatch.at = "idle" /\ DOMAIN NoBatch.rows = {} /\ NoBatch.led = {}
  BY DEF NoCall, NoBatch
<1>4. CellsTyped' /\ Retired'
  BY <1>1 DEF CellsTyped, Retired
<1>5. SinglesTyped'
  <2> SUFFICES ASSUME NEW d \in Candidates, NEW j \in Singles, single'[d][j].at # "idle"
               PROVE  single'[d][j].cell \in 1..Len(cells[j])
    BY <1>1 DEF SinglesTyped
  <2>1. d # c
    BY <1>1, <1>3
  <2> QED BY <1>1, <2>1 DEF SinglesTyped
<1>6. BatchesTyped'
  <2> SUFFICES ASSUME NEW d \in Candidates
               PROVE  /\ batch'[d].led \subseteq DOMAIN batch'[d].rows
                      /\ \A j \in DOMAIN batch'[d].rows :
                            batch'[d].rows[j] \in 1..Len(cells[j])
    BY <1>1, <1>2 DEF BatchesTyped, Rows
  <2>1. CASE d = c
    BY <1>2, <1>3, <2>1
  <2>2. CASE d # c
    BY <1>2, <2>2 DEF BatchesTyped, Rows
  <2> QED BY <2>1, <2>2
<1>7. SinglesLed'
  <2>1. \A d \in Candidates, j \in Singles : single'[d][j].at \in {"asking", "evict"} =>
            d # c /\ single'[d] = single[d]
    BY <1>1, <1>3
  <2> QED BY <1>1, <2>1 DEF SinglesLed, CellOf
<1>8. BatchesLed'
  <2>1. \A d \in Candidates : batch'[d].at \in {"asking", "evict"} =>
            d # c /\ batch'[d] = batch[d]
    BY <1>2, <1>3
  <2> QED BY <1>1, <2>1 DEF BatchesLed, RowCell, Rows
<1>9. CallsOfStage'
  <2> SUFFICES ASSUME NEW d \in Candidates
               PROVE  /\ \A k \in Singles : single'[d][k].at # "idle" => k \in SinglesOf(d)'
                      /\ IF batch'[d].at = "idle" THEN DOMAIN batch'[d].rows = {}
                         ELSE /\ BatchOf(d)' # {}
                              /\ DOMAIN batch'[d].rows = BatchOf(d)'
    BY DEF CallsOfStage, Rows
  <2>1. CASE d = c
    BY <1>1, <1>2, <1>3, <2>1
  <2>2. CASE d # c
    <3>1. /\ single'[d] = single[d] /\ batch'[d] = batch[d]
          /\ SinglesOf(d)' = SinglesOf(d) /\ BatchOf(d)' = BatchOf(d)
      BY <1>1, <1>2, <2>2, SameWants
    <3> QED BY <3>1 DEF CallsOfStage, Rows
  <2> QED BY <2>1, <2>2
<1>10. FailuresForgotten'
  <2> SUFFICES ASSUME NEW j \in Keys, current[j] # 0, cells[j][current[j]] \in Bad
               PROVE  \E d \in Candidates : Holds(d, j)'
    BY <1>1 DEF FailuresForgotten, Bad
  <2>1. PICK d \in Candidates : Holds(d, j)
    BY DEF FailuresForgotten, Bad
  <2>2. d # c
    BY <2>1 DEF Holds
  <2>3. Holds(d, j)'
    BY <1>1, <1>2, <2>1, <2>2 DEF Holds, Rows
  <2> QED BY <2>3
<1> QED BY <1>4, <1>5, <1>6, <1>7, <1>8, <1>9, <1>10

LEMMA PutFrame ==
    ASSUME NEW f, DOMAIN f = Candidates, NEW c \in Candidates, NEW v,
           NEW d \in Candidates \ {c}
    PROVE  Put(f, c, v)[d] = f[d]
BY DEF Put

(* A step that uses no cache, from a stage that uses none.                 *)
LEMMA QuietKeeps ==
    ASSUME CacheInv, BundlesTyped', NEW c \in Candidates,
           UNCHANGED <<current, cells, single, batch>>,
           SinglesOf(c) = {}, BatchOf(c) = {},
           \A d \in Candidates \ {c} : SameBundle(d)
    PROVE  CacheInv'
<1> USE DEF CacheInv
<1>1. /\ \A k \in Singles : single[c][k].at = "idle"
      /\ batch[c].at = "idle" /\ Rows(c) = {}
  BY DEF CallsOfStage
<1>2. CallsOfStage'
  <2> SUFFICES ASSUME NEW d \in Candidates
               PROVE  /\ \A k \in Singles : single[d][k].at # "idle" => k \in SinglesOf(d)'
                      /\ IF batch[d].at = "idle" THEN Rows(d) = {}
                         ELSE BatchOf(d)' # {} /\ Rows(d) = BatchOf(d)'
    BY DEF CallsOfStage, Rows
  <2>1. CASE d = c
    BY <1>1, <2>1
  <2>2. CASE d # c
    <3>1. SinglesOf(d)' = SinglesOf(d) /\ BatchOf(d)' = BatchOf(d)
      BY <2>2, SameWants
    <3> QED BY <3>1 DEF CallsOfStage
  <2> QED BY <2>1, <2>2
<1>3. CellsTyped' /\ SinglesTyped' /\ BatchesTyped' /\ Retired' /\ SinglesLed' /\ BatchesLed'
  BY DEF CellsTyped, SinglesTyped, BatchesTyped, Retired, SinglesLed, BatchesLed,
              CellOf, RowCell, Rows
<1>4. FailuresForgotten'
  BY DEF FailuresForgotten, Holds, Rows
<1> QED BY <1>2, <1>3, <1>4

LEMMA FetchBaseKeeps ==
    ASSUME CacheInv, NEW c \in Candidates, FetchBase(c)
    PROVE  CacheInv'
<1> USE DEF CacheInv
<1>1. BundlesTyped'
  BY FetchBaseTyped
<1>2. /\ pc[c] = "queued" /\ UNCHANGED <<current, cells, single, batch>>
      /\ UNCHANGED <<operators, flows, gas>> /\ GoTo(c, "join")
  BY DEF FetchBase
<1>3. \A d \in Candidates \ {c} : SameBundle(d)
  <2>1. (\E v : transfers' = Put(transfers, c, v)) /\ (\E v : sales' = Put(sales, c, v))
    BY DEF FetchBase
  <2>2. \A d \in Candidates \ {c} :
            transfers'[d] = transfers[d] /\ sales'[d] = sales[d] /\ pc'[d] = pc[d]
    <3>1. DOMAIN transfers = Candidates /\ DOMAIN sales = Candidates
      BY DEF BundlesTyped
    <3>2. \A d \in Candidates \ {c} : pc'[d] = pc[d]
      BY <1>2 DEF BundlesTyped, GoTo
    <3> QED BY <2>1, <3>1, <3>2, PutFrame
  <2> QED BY <1>2, <2>2 DEF SameBundle
<1>4. SinglesOf(c) = {} /\ BatchOf(c) = {}
  BY <1>2 DEF SinglesOf, SinglesWanted, SolanaQuotes, BatchOf, ReceiptsWanted, Signatures
<1> QED BY <1>1, <1>2, <1>3, <1>4, QuietKeeps

LEMMA TaskKeeps ==
    ASSUME CacheInv, NEW c \in Candidates,
           JoinDone(c) \/ FlowsDone(c) \/ FinalDone(c) \/ GasDone(c)
    PROVE  CacheInv'
<1> USE DEF CacheInv
<1>1. BundlesTyped'
  BY JoinDoneTyped, FlowsDoneTyped, FinalDoneTyped, GasDoneTyped
<1>2. CallsOver(c)
  BY DEF JoinDone, FlowsDone, FinalDone, GasDone
<1>3. \A d \in Candidates \ {c} : SameBundle(d)
  <2>1. DOMAIN operators = Candidates /\ DOMAIN flows = Candidates /\ DOMAIN gas = Candidates
    BY DEF BundlesTyped
  <2>2. \A d \in Candidates \ {c} : pc'[d] = pc[d]
    BY DEF JoinDone, FlowsDone, FinalDone, GasDone, GoTo, BundlesTyped
  <2>3. UNCHANGED <<transfers, sales>>
    BY DEF JoinDone, FlowsDone, FinalDone, GasDone
  <2>4. operators' = operators \/ \E v : operators' = Put(operators, c, v)
    BY DEF JoinDone, FlowsDone, FinalDone, GasDone
  <2>5. flows' = flows \/ \E v : flows' = Put(flows, c, v)
    BY DEF JoinDone, FlowsDone, FinalDone, GasDone
  <2>6. gas' = gas \/ \E v : gas' = Put(gas, c, v)
    BY DEF JoinDone, FlowsDone, FinalDone, GasDone
  <2> QED BY <2>1, <2>2, <2>3, <2>4, <2>5, <2>6, PutFrame DEF SameBundle
<1>4. \E ks : SinglesOf(c) \subseteq ks /\ Returned(c, ks) /\ BatchDone(c)
  <2>1. CASE JoinDone(c)
    <3>1. /\ SinglesOf(c) \subseteq {Native} \union PaidIn(c)
          /\ Returned(c, {Native} \union PaidIn(c)) /\ BatchDone(c)
      BY <2>1 DEF JoinDone, SinglesOf, SinglesWanted, SolanaQuotes, QuotesWanted, BatchDone,
                 BatchOf, ReceiptsDone, Signatures
    <3> QED BY <3>1
  <2>2. CASE FlowsDone(c)
    BY <2>2 DEF FlowsDone, SinglesWanted, SinglesOf, SolanaQuotes, BatchDone, BatchOf, ReceiptsWanted, Signatures
  <2>3. CASE FinalDone(c)
    BY <2>3 DEF FinalDone, SinglesWanted, SinglesOf, SolanaQuotes, BatchDone, BatchOf, ReceiptsWanted, Signatures
  <2>4. CASE GasDone(c)
    <3>1. SinglesOf(c) = {} /\ Returned(c, {}) /\ BatchDone(c)
      BY <2>4 DEF GasDone, SinglesOf, SinglesWanted, SolanaQuotes, Returned, BatchDone, BatchOf,
                 ReceiptsDone, Signatures
    <3> QED BY <3>1
  <2> QED BY <2>1, <2>2, <2>3, <2>4
<1>5. /\ \A k \in Singles : single[c][k].at \in {"idle", "returned"}
      /\ batch[c].at \in {"idle", "returned"}
  BY <1>4, CallsEnded
<1> QED BY <1>1, <1>2, <1>3, <1>5, CallsOverKeeps

-----------------------------------------------------------------------------
(* The steps of a Solana candidate.                                        *)

LEMMA ListingSteps ==
    ASSUME NEW l \in Listings
    PROVE  /\ RowsOf(l) \in Seq(Nfts)
           /\ Limit(l) \in Nat \ {0}
           /\ PageOf(l) \subseteq Nfts /\ Found(l) \subseteq Nfts
<1>1. RowsOf(l) \in Seq(Nfts)
  BY ListingAssumption DEF RowsOf, Listings
<1>2. Cardinality(l.found) \in Nat
  BY ListingAssumption, FS_Subset, FS_CardinalityType DEF Listings
<1>3. Limit(l) \in Nat \ {0}
  BY <1>2, LimitsAssumption DEF Limit, Smaller, Larger
<1>4. PageOf(l) \subseteq Nfts
  BY <1>1 DEF PageOf
<1> QED BY <1>1, <1>3, <1>4 DEF Found, Listings

LEMMA PageSet ==
    ASSUME NEW l \in Listings, NEW page \in Nat \ {0}
    PROVE  /\ [l EXCEPT !.page = page] \in Listings
           /\ [l EXCEPT !.page = page].group = l.group
           /\ [l EXCEPT !.page = page].unverified = l.unverified
           /\ [l EXCEPT !.page = page].page = page
BY DEF Listings

LEMMA FoundSet ==
    ASSUME NEW l \in Listings, NEW found \in SUBSET Nfts
    PROVE  /\ [l EXCEPT !.found = found] \in Listings
           /\ [l EXCEPT !.found = found].group = l.group
           /\ [l EXCEPT !.found = found].unverified = l.unverified
           /\ [l EXCEPT !.found = found].page = l.page
           /\ [l EXCEPT !.found = found].found = found
BY DEF Listings

LEMMA PageTurned ==
    ASSUME NEW l \in Listings, NEW found \in SUBSET Nfts
    PROVE  LET m == [l EXCEPT !.page = @ + 1, !.found = found]
           IN  /\ m \in Listings /\ m.group = l.group /\ m.unverified = l.unverified
               /\ m.page = l.page + 1 /\ m.found = found
<1> DEFINE q == [l EXCEPT !.page = l.page + 1]
           m == [q EXCEPT !.found = found]
<1>1. l.page + 1 \in Nat \ {0}
  BY DEF Listings
<1>2. /\ q \in Listings /\ q.group = l.group /\ q.unverified = l.unverified
      /\ q.page = l.page + 1
  BY <1>1, PageSet
<1> HIDE DEF q
<1>3. /\ m \in Listings /\ m.group = q.group /\ m.unverified = q.unverified
      /\ m.page = q.page /\ m.found = found
  BY <1>2, FoundSet
<1> HIDE DEF m
<1>4. /\ m \in Listings /\ m.group = l.group /\ m.unverified = l.unverified
      /\ m.page = l.page + 1 /\ m.found = found
  BY <1>2, <1>3
<1> QED BY <1>4, Zenon DEF m, q

LEMMA Settled ==
    ASSUME ListingsTyped, BundlesTyped, NEW c \in Candidates,
           NEW status \in Statuses, NEW found \in SUBSET Nfts, Settle(c, status, found)
    PROVE  /\ nfts' \in [Candidates -> SUBSET Nfts] /\ assets' \in [Candidates -> Statuses]
           /\ pc' \in [Candidates -> Stages]
           /\ nfts'[c] = found /\ assets'[c] = status /\ pc'[c] = "history"
BY DEF Settle, Put, GoTo, ListingsTyped, BundlesTyped, Stages

LEMMA GroupListed ==
    ASSUME ListingsTyped, BundlesTyped, NEW c \in Candidates,
           NEW group \in Collections, NEW unverified \in BOOLEAN,
           ListGroup(c, group, unverified)
    PROVE  /\ listing' \in [Candidates -> Listings] /\ pc' \in [Candidates -> Stages]
           /\ listing'[c] = [group |-> group, unverified |-> unverified, page |-> 1, found |-> {}]
           /\ pc'[c] = "list"
BY DEF ListGroup, SetListing, Put, GoTo, ListingsTyped, BundlesTyped, Stages, Listings

(* Every step keeps the shape of bundles and listings.                     *)
ShapeKept == BundlesTyped' /\ ListingsTyped'

LEMMA CutListingTyped ==
    ASSUME ListingsTyped, BundlesTyped, NEW c \in Candidates, CutListing(c)
    PROVE  ShapeKept
<1>1. PICK status \in Statuses : Settle(c, status, listing[c].found)
  BY DEF CutListing, Statuses
<1>2. listing[c].found \in SUBSET Nfts
  BY DEF ListingsTyped, Listings
<1>3. /\ nfts' \in [Candidates -> SUBSET Nfts] /\ assets' \in [Candidates -> Statuses]
      /\ pc' \in [Candidates -> Stages]
  BY <1>1, <1>2, Settled
<1> QED BY <1>3 DEF ShapeKept, BundlesTyped, ListingsTyped, CutListing, bundleVars

LEMMA EndListingTyped ==
    ASSUME ListingsTyped, BundlesTyped, NEW c \in Candidates, NEW found \in SUBSET Nfts,
           EndListing(c, found)
    PROVE  /\ listing' \in [Candidates -> Listings]
           /\ nfts' \in [Candidates -> SUBSET Nfts] /\ assets' \in [Candidates -> Statuses]
           /\ pc' \in [Candidates -> Stages]
<1>1. listing[c].group \in Collections
  BY DEF ListingsTyped, Listings
<1>2. CASE \E s \in {"resolve", "direct"} : GoTo(c, s) /\ UNCHANGED <<listing, nfts, assets>>
  BY <1>2 DEF GoTo, BundlesTyped, ListingsTyped, Stages
<1>3. CASE ListGroup(c, listing[c].group, TRUE) /\ UNCHANGED <<nfts, assets>>
  BY <1>1, <1>3, GroupListed DEF ListingsTyped
<1>4. CASE (\E status \in {"truncated", "complete"} : Settle(c, status, found)) /\ UNCHANGED listing
  <2>1. {"truncated", "complete"} \subseteq Statuses
    BY DEF Statuses
  <2> QED BY <1>4, <2>1, Settled DEF ListingsTyped
<1> QED BY <1>2, <1>3, <1>4 DEF EndListing

LEMMA ListPageTyped ==
    ASSUME ListingsTyped, BundlesTyped, NEW c \in Candidates, ListPage(c)
    PROVE  ShapeKept
<1> DEFINE l == listing[c]
<1>1. l \in Listings /\ Found(l) \in SUBSET Nfts
  BY ListingSteps DEF ListingsTyped
<1>2. UNCHANGED <<bundleVars, histories, excluded>>
  BY DEF ListPage
<1>3. /\ listing' \in [Candidates -> Listings]
      /\ nfts' \in [Candidates -> SUBSET Nfts] /\ assets' \in [Candidates -> Statuses]
      /\ pc' \in [Candidates -> Stages]
  <2>1. CASE Settle(c, "truncated", Found(l)) /\ UNCHANGED listing
    BY <1>1, <2>1, Settled DEF ListingsTyped, Statuses
  <2>2. CASE EndListing(c, Found(l))
    BY <1>1, <2>2, EndListingTyped
  <2>3. CASE /\ SetListing(c, [l EXCEPT !.page = @ + 1, !.found = Found(l)])
             /\ GoTo(c, "list") /\ UNCHANGED <<nfts, assets>>
    <3>1. [l EXCEPT !.page = @ + 1, !.found = Found(l)] \in Listings
      <4> HIDE DEF l
      <4> QED BY <1>1, PageTurned
    <3> HIDE DEF l
    <3>2. listing' \in [Candidates -> Listings]
      BY <2>3, <3>1, PutEffect DEF SetListing, ListingsTyped
    <3> QED BY <2>3, <3>2 DEF ListingsTyped, GoTo, BundlesTyped, Stages
  <2> QED BY <2>1, <2>2, <2>3 DEF ListPage
<1> QED BY <1>2, <1>3 DEF ShapeKept, BundlesTyped, ListingsTyped, bundleVars

LEMMA ResolveTyped ==
    ASSUME ListingsTyped, BundlesTyped, NEW c \in Candidates, Resolve(c)
    PROVE  ShapeKept
<1>1. PICK group \in {Address[c]} \union ({GroupOf[n] : n \in Resident[c]} \ {NoGroup}) :
          ListGroup(c, group, group = Address[c])
  BY DEF Resolve
<1>2. group \in Collections /\ (group = Address[c]) \in BOOLEAN
  BY ListingAssumption
<1>3. listing' \in [Candidates -> Listings] /\ pc' \in [Candidates -> Stages]
  BY <1>1, <1>2, GroupListed
<1> QED BY <1>3 DEF ShapeKept, BundlesTyped, ListingsTyped, Resolve, bundleVars

LEMMA FetchDirectTyped ==
    ASSUME ListingsTyped, BundlesTyped, NEW c \in Candidates, FetchDirect(c)
    PROVE  ShapeKept
<1>1. UNCHANGED <<transfers, sales, quotes, controlFlows, operators, operatorFlows, flows, gas,
                  listing>>
  BY DEF FetchDirect
<1>2. PICK asked \in SUBSET Resident[c], lost \in SUBSET Resident[c] :
          LET found == asked \ (lost \union NonNfts)
          IN  \/ /\ Settle(c, DirectStatus(c, found), found)
                 /\ UNCHANGED <<quality, histories, excluded>>
              \/ Exclude(c)
              \/ /\ Settle(c, "failed", {})
                 /\ UNCHANGED <<quality, histories, excluded>>
  BY DEF FetchDirect
<1> DEFINE found == asked \ (lost \union NonNfts)
<1>3. found \in SUBSET Nfts /\ DirectStatus(c, found) \in Statuses
  BY ListingAssumption DEF DirectStatus, Statuses
<1>4. CASE (\E status \in Statuses, some \in SUBSET Nfts : Settle(c, status, some))
           /\ UNCHANGED <<quality, histories, excluded>>
  BY <1>1, <1>4, Settled DEF ShapeKept, BundlesTyped, ListingsTyped
<1>5. CASE Exclude(c)
  <2>1. quality' \in [Candidates -> [Families -> Statuses]]
    BY <1>5 DEF Exclude, Put, BundlesTyped, Statuses
  <2>2. /\ assets' \in [Candidates -> Statuses] /\ histories' \in [Candidates -> Statuses]
        /\ excluded' \in [Candidates -> BOOLEAN] /\ pc' \in [Candidates -> Stages]
        /\ nfts' = nfts
    BY <1>5 DEF Exclude, Put, GoTo, ListingsTyped, BundlesTyped, Statuses, Stages
  <2> QED BY <1>1, <2>1, <2>2 DEF ShapeKept, BundlesTyped, ListingsTyped
<1>6. "failed" \in Statuses
  BY DEF Statuses
<1> HIDE DEF found
<1> QED BY <1>2, <1>3, <1>4, <1>5, <1>6 DEF found

LEMMA FetchHistoriesTyped ==
    ASSUME ListingsTyped, BundlesTyped, NEW c \in Candidates, FetchHistories(c)
    PROVE  ShapeKept
<1>1. /\ UNCHANGED <<quality, quotes, controlFlows, operators, operatorFlows, flows, gas>>
      /\ UNCHANGED <<listing, nfts, assets, excluded>>
      /\ pc' \in [Candidates -> Stages]
  BY DEF FetchHistories, GoTo, BundlesTyped, Stages
<1>2. CASE histories' = Put(histories, c, "failed") /\ UNCHANGED <<transfers, sales>>
  BY <1>1, <1>2 DEF ShapeKept, BundlesTyped, ListingsTyped, Put, Statuses
<1>3. ASSUME NEW whole \in SUBSET nfts[c], NEW cut \in SUBSET nfts[c], NEW failed,
             NEW some \in SUBSET UNION {History[n] : n \in cut},
             histories' = Put(histories, c, HistoryStatus(c, whole, cut, failed)),
             SetEvents(c, some \union UNION {History[n] : n \in whole})
      PROVE  ShapeKept
  <2>1. nfts[c] \subseteq Nfts
    BY DEF ListingsTyped
  <2>2. \A n \in Nfts : History[n] \subseteq Receipts
    BY ListingAssumption
  <2>3. some \union UNION {History[n] : n \in whole} \in SUBSET Receipts
    BY <2>1, <2>2
  <2>4. /\ transfers' \in [Candidates -> SUBSET Receipts]
        /\ sales' \in [Candidates -> SUBSET Receipts]
    BY <1>3, <2>3 DEF SetEvents, Put, BundlesTyped
  <2>5. histories' \in [Candidates -> Statuses]
    BY <1>3 DEF HistoryStatus, Put, ListingsTyped, Statuses
  <2> QED BY <1>1, <2>4, <2>5 DEF ShapeKept, BundlesTyped, ListingsTyped
<1> QED BY <1>2, <1>3 DEF FetchHistories

LEMMA ListingStepTyped ==
    ASSUME ListingsTyped, BundlesTyped, NEW c \in Candidates,
           CutListing(c) \/ ListPage(c) \/ Resolve(c) \/ FetchDirect(c) \/ FetchHistories(c)
    PROVE  BundlesTyped' /\ ListingsTyped'
BY CutListingTyped, ListPageTyped, ResolveTyped, FetchDirectTyped, FetchHistoriesTyped
   DEF ShapeKept

LEMMA DecodeDoneTyped ==
    ASSUME ListingsTyped, BundlesTyped, BatchesTyped, NEW c \in Candidates, DecodeDone(c)
    PROVE  BundlesTyped' /\ ListingsTyped'
<1> DEFINE known(status) == IF histories[c] = "failed" THEN "failed" ELSE status
<1>1. /\ quality' = Put(quality, c, [f \in Families |->
             CASE f = "transfers" -> known(FieldStatus(c, transfers[c]))
               [] f = "sales" -> known(FieldStatus(c, sales[c]))
               [] f = "gas" -> known(FetchStatus(c, FeesKnown(c)))
               [] f = "valueFlows" -> known(FetchStatus(c, TRUE))
               [] f = "prices" -> SinglesStatus(c, {SolanaNative})])
      /\ histories' = Put(histories, c, known(FieldStatus(c, Activity(c))))
      /\ quotes' = Put(quotes, c, AnsweredWith(c, {SolanaNative}, "good"))
      /\ gas' = Put(gas, c, Delivered(c))
      /\ GoTo(c, "done")
      /\ UNCHANGED <<transfers, sales, controlFlows, operators, operatorFlows, flows>>
      /\ UNCHANGED <<listing, nfts, assets, excluded>>
  BY DEF DecodeDone
<1>2. /\ \A rows : known(FieldStatus(c, rows)) \in Statuses
      /\ \A whole : known(FetchStatus(c, whole)) \in Statuses
      /\ SinglesStatus(c, {SolanaNative}) \in Statuses
  BY DEF FieldStatus, FetchStatus, SinglesStatus, Statuses
<1> HIDE DEF known
<1>3. quality' \in [Candidates -> [Families -> Statuses]]
  <2>1. [f \in Families |->
             CASE f = "transfers" -> known(FieldStatus(c, transfers[c]))
               [] f = "sales" -> known(FieldStatus(c, sales[c]))
               [] f = "gas" -> known(FetchStatus(c, FeesKnown(c)))
               [] f = "valueFlows" -> known(FetchStatus(c, TRUE))
               [] f = "prices" -> SinglesStatus(c, {SolanaNative})] \in [Families -> Statuses]
    BY <1>2 DEF Families
  <2> QED BY <1>1, <2>1, PutEffect DEF BundlesTyped
<1>4. histories' \in [Candidates -> Statuses]
  BY <1>1, <1>2, PutEffect DEF ListingsTyped
<1>5. /\ quotes' \in [Candidates -> SUBSET Singles] /\ gas' \in [Candidates -> SUBSET Receipts]
  <2>1. /\ AnsweredWith(c, {SolanaNative}, "good") \in SUBSET Singles
        /\ Delivered(c) \in SUBSET Receipts
    BY BundleTypes, ListingAssumption
  <2> QED BY <1>1, <2>1, PutEffect DEF BundlesTyped
<1>6. pc' \in [Candidates -> Stages]
  BY <1>1 DEF GoTo, BundlesTyped, Stages
<1> QED BY <1>1, <1>3, <1>4, <1>5, <1>6 DEF BundlesTyped, ListingsTyped

(* A step of one task leaves the bundles and listings of the others alone. *)
SameListing(d) ==
    /\ listing'[d] = listing[d] /\ nfts'[d] = nfts[d] /\ assets'[d] = assets[d]
    /\ histories'[d] = histories[d] /\ excluded'[d] = excluded[d]

PutOrKept(f, new, c) == new = f \/ \E v : new = Put(f, c, v)

LEMMA PutOrKeptFrame ==
    ASSUME NEW f, DOMAIN f = Candidates, NEW c \in Candidates, NEW new, PutOrKept(f, new, c),
           NEW d \in Candidates \ {c}
    PROVE  new[d] = f[d]
BY PutFrame DEF PutOrKept

LEMMA StageFrame ==
    ASSUME BundlesTyped, NEW c \in Candidates, NEW stage, GoTo(c, stage)
    PROVE  PutOrKept(pc, pc', c)
BY DEF GoTo, PutOrKept, Put

LEMMA SettleFrame ==
    ASSUME BundlesTyped, NEW c \in Candidates, NEW status, NEW found, Settle(c, status, found)
    PROVE  PutOrKept(nfts, nfts', c) /\ PutOrKept(assets, assets', c) /\ PutOrKept(pc, pc', c)
<1>1. GoTo(c, "history")
  BY DEF Settle
<1> QED BY <1>1, StageFrame DEF Settle, PutOrKept

LEMMA GroupFrame ==
    ASSUME BundlesTyped, NEW c \in Candidates, NEW group, NEW unverified,
           ListGroup(c, group, unverified)
    PROVE  PutOrKept(listing, listing', c) /\ PutOrKept(pc, pc', c)
<1>1. GoTo(c, "list")
  BY DEF ListGroup
<1> QED BY <1>1, StageFrame DEF ListGroup, SetListing, PutOrKept

LEMMA EndFrame ==
    ASSUME BundlesTyped, NEW c \in Candidates, NEW found, EndListing(c, found)
    PROVE  /\ PutOrKept(listing, listing', c) /\ PutOrKept(nfts, nfts', c)
           /\ PutOrKept(assets, assets', c) /\ PutOrKept(pc, pc', c)
<1>1. CASE (\E s : GoTo(c, s)) /\ UNCHANGED <<listing, nfts, assets>>
  BY <1>1, StageFrame DEF PutOrKept
<1>2. CASE (\E g, u : ListGroup(c, g, u)) /\ UNCHANGED <<nfts, assets>>
  BY <1>2, GroupFrame DEF PutOrKept
<1>3. CASE (\E s, f : Settle(c, s, f)) /\ UNCHANGED listing
  BY <1>3, SettleFrame DEF PutOrKept
<1> QED BY <1>1, <1>2, <1>3 DEF EndListing

(* The variables a step of a Solana candidate may set, for itself.         *)
OwnOnly(c) ==
    /\ PutOrKept(pc, pc', c) /\ PutOrKept(quality, quality', c)
    /\ PutOrKept(transfers, transfers', c) /\ PutOrKept(sales, sales', c)
    /\ PutOrKept(quotes, quotes', c) /\ PutOrKept(gas, gas', c)
    /\ PutOrKept(listing, listing', c) /\ PutOrKept(nfts, nfts', c)
    /\ PutOrKept(assets, assets', c) /\ PutOrKept(histories, histories', c)
    /\ PutOrKept(excluded, excluded', c)
    /\ UNCHANGED <<controlFlows, operators, operatorFlows, flows>>

LEMMA StepOwnOnly ==
    ASSUME BundlesTyped, ListingsTyped, NEW c \in Candidates, SolanaStep(c)
    PROVE  OwnOnly(c)
<1>1. CASE CutListing(c)
  <2>1. \E s, f : Settle(c, s, f)
    BY <1>1 DEF CutListing
  <2> QED BY <1>1, <2>1, SettleFrame DEF CutListing, OwnOnly, PutOrKept, bundleVars
<1>2. CASE ListPage(c)
  <2>1. UNCHANGED <<bundleVars, histories, excluded>>
    BY <1>2 DEF ListPage
  <2>2. /\ PutOrKept(listing, listing', c) /\ PutOrKept(nfts, nfts', c)
        /\ PutOrKept(assets, assets', c) /\ PutOrKept(pc, pc', c)
    <3>1. CASE (\E s, f : Settle(c, s, f)) /\ UNCHANGED listing
      BY <3>1, SettleFrame DEF PutOrKept
    <3>2. CASE \E f : EndListing(c, f)
      BY <3>2, EndFrame
    <3>3. CASE (\E l : SetListing(c, l)) /\ GoTo(c, "list") /\ UNCHANGED <<nfts, assets>>
      BY <3>3, StageFrame DEF SetListing, PutOrKept
    <3> QED BY <1>2, <3>1, <3>2, <3>3 DEF ListPage
  <2> QED BY <2>1, <2>2 DEF OwnOnly, PutOrKept, bundleVars
<1>3. CASE Resolve(c)
  <2>1. \E g, u : ListGroup(c, g, u)
    BY <1>3 DEF Resolve
  <2> QED BY <1>3, <2>1, GroupFrame DEF Resolve, OwnOnly, PutOrKept, bundleVars
<1>4. CASE FetchDirect(c)
  <2>1. UNCHANGED <<transfers, sales, quotes, controlFlows, operators, operatorFlows, flows, gas,
                    listing>>
    BY <1>4 DEF FetchDirect
  <2>2. CASE (\E s, f : Settle(c, s, f)) /\ UNCHANGED <<quality, histories, excluded>>
    BY <2>1, <2>2, SettleFrame DEF OwnOnly, PutOrKept
  <2>3. CASE Exclude(c)
    BY <2>1, <2>3, StageFrame DEF Exclude, OwnOnly, PutOrKept
  <2> QED BY <1>4, <2>2, <2>3 DEF FetchDirect
<1>5. CASE FetchHistories(c)
  <2>1. /\ UNCHANGED <<quality, quotes, controlFlows, operators, operatorFlows, flows, gas>>
        /\ UNCHANGED <<listing, nfts, assets, excluded>> /\ GoTo(c, "decode")
        /\ \E v : histories' = Put(histories, c, v)
    BY <1>5 DEF FetchHistories
  <2>2. PutOrKept(transfers, transfers', c) /\ PutOrKept(sales, sales', c)
    BY <1>5 DEF FetchHistories, SetEvents, PutOrKept
  <2> QED BY <2>1, <2>2, StageFrame DEF OwnOnly, PutOrKept
<1>6. CASE CallQuote(c) \/ CallTransactions(c) \/ SolanaCacheStep(c)
  BY <1>6 DEF CallQuote, CallTransactions, SolanaCacheStep, OwnOnly, PutOrKept, bundleVars,
              solanaVars
<1>7. CASE DecodeDone(c)
  <2>1. /\ \E v : quality' = Put(quality, c, v)
        /\ \E v : histories' = Put(histories, c, v)
        /\ \E v : quotes' = Put(quotes, c, v)
        /\ \E v : gas' = Put(gas, c, v)
        /\ GoTo(c, "done")
        /\ UNCHANGED <<transfers, sales, controlFlows, operators, operatorFlows, flows>>
        /\ UNCHANGED <<listing, nfts, assets, excluded>>
    BY <1>7 DEF DecodeDone
  <2> QED BY <2>1, StageFrame DEF OwnOnly, PutOrKept
<1> QED BY <1>1, <1>2, <1>3, <1>4, <1>5, <1>6, <1>7 DEF SolanaStep

LEMMA OthersKept ==
    ASSUME BundlesTyped, ListingsTyped, NEW c \in Candidates, SolanaStep(c),
           NEW d \in Candidates \ {c}
    PROVE  SameEvidence(d) /\ SameListing(d)
<1>1. OwnOnly(c)
  BY StepOwnOnly
<1> QED BY <1>1, PutOrKeptFrame DEF OwnOnly, BundlesTyped, ListingsTyped, SameEvidence,
           SameBundle, SameListing

-----------------------------------------------------------------------------
LEMMA CacheInvInit ==
    Init => CacheInv
<1> SUFFICES ASSUME Init PROVE CacheInv
  OBVIOUS
<1> USE DEF Init, CacheInit, BundleInit
<1>1. CellsTyped
  <2>1. <<>> \in Seq(CellStates) /\ Len(<<>>) = 0
    OBVIOUS
  <2> QED BY <2>1 DEF CellsTyped
<1>2. SinglesTyped /\ SinglesLed
  BY DEF SinglesTyped, SinglesLed, SingleCalls, CallStages, NoCall
<1>3. NoBatch \in BatchCalls
  <2>1. [k \in {} |-> 0] \in [{} -> Nat] /\ {} \in SUBSET Receipts
    OBVIOUS
  <2> QED BY <2>1 DEF NoBatch, BatchCalls, CallStages
<1>4. BatchesTyped /\ BatchesLed
  BY <1>3 DEF BatchesTyped, BatchesLed, NoBatch, Rows
<1>5. BundlesTyped
  <2>1. pc \in [Candidates -> Stages]
    BY DEF Stages
  <2> QED BY <2>1 DEF BundlesTyped, Nothing, Statuses
<1>6. Retired /\ FailuresForgotten
  BY DEF Retired, FailuresForgotten
<1>7. CallsOfStage
  BY DEF CallsOfStage, NoCall, NoBatch, Rows
<1> QED BY <1>1, <1>2, <1>4, <1>5, <1>6, <1>7 DEF CacheInv

LEMMA EvmStepKeeps ==
    ASSUME CacheInv, NEW c \in Candidates, EvmStep(c)
    PROVE  CacheInv'
<1>1. CASE FetchBase(c)
  BY <1>1, FetchBaseKeeps
<1>2. CASE CallReceipts(c)
  <2>1. ReceiptsWanted(c) # {} /\ BatchOf(c) = ReceiptsWanted(c)
    BY <1>2 DEF CallReceipts, BatchOf, ReceiptsWanted, Signatures
  <2> QED BY <1>2, <2>1, LookUpAllKeeps DEF CallReceipts
<1>3. ASSUME NEW k \in Singles, CallSingle(c, k) PROVE CacheInv'
  BY <1>3, LookUpKeeps DEF CallSingle, SinglesOf
<1>4. CASE CacheStep(c)
  <2>1. CASE AnswerAll(c)
    BY <1>4, <2>1, AnswerWithKeeps DEF CacheStep, AnswerAll
  <2>2. CASE BatchEnd(c)
    BY <1>4, <2>2, CollectRowsKeeps, EvictFailedKeeps DEF CacheStep, BatchEnd
  <2>3. ASSUME NEW k \in Singles, SingleStep(c, k) PROVE CacheInv'
    BY <1>4, <2>3, AnswerKeeps, TakeKeeps, EvictKeeps DEF CacheStep, SingleStep
  <2> QED BY <1>4, <2>1, <2>2, <2>3 DEF CacheStep, BatchStep
<1>5. CASE JoinDone(c) \/ FlowsDone(c) \/ FinalDone(c) \/ GasDone(c)
  BY <1>5, TaskKeeps
<1> QED BY <1>1, <1>2, <1>3, <1>4, <1>5 DEF EvmStep

LEMMA SolanaStepKeeps ==
    ASSUME CacheInv, ListingsTyped, NEW c \in Candidates, SolanaStep(c)
    PROVE  CacheInv'
<1>1. CASE CutListing(c) \/ ListPage(c) \/ Resolve(c) \/ FetchDirect(c) \/ FetchHistories(c)
  <2>1. /\ pc[c] \in {"queued", "list", "resolve", "direct", "history"}
        /\ UNCHANGED <<current, cells, single, batch>>
    BY <1>1 DEF CutListing, ListPage, Resolve, FetchDirect, FetchHistories, cacheVars
  <2>2. SinglesOf(c) = {} /\ BatchOf(c) = {}
    BY <2>1 DEF SinglesOf, SinglesWanted, SolanaQuotes, BatchOf, ReceiptsWanted, Signatures
  <2>3. BundlesTyped' /\ \A d \in Candidates \ {c} : SameBundle(d)
    BY <1>1, ListingStepTyped, OthersKept DEF CacheInv, SameEvidence, SolanaStep
  <2> QED BY <2>1, <2>2, <2>3, QuietKeeps
<1>2. CASE CallQuote(c)
  <2>1. PICK k \in SolanaQuotes(c) : LookUp(c, k)
    BY <1>2 DEF CallQuote
  <2>2. k \in Singles /\ k \in SinglesOf(c)
    BY ListingAssumption DEF SolanaQuotes, SinglesOf
  <2> QED BY <1>2, <2>1, <2>2, LookUpKeeps DEF CallQuote
<1>3. CASE CallTransactions(c)
  <2>1. Signatures(c) # {} /\ BatchOf(c) = Signatures(c)
    BY <1>3 DEF CallTransactions, BatchOf, ReceiptsWanted, Signatures
  <2> QED BY <1>3, <2>1, LookUpAllKeeps DEF CallTransactions
<1>4. CASE SolanaCacheStep(c)
  <2>1. CASE AnswerTransactions(c)
    BY <1>4, <2>1, AnswerWithKeeps DEF SolanaCacheStep, AnswerTransactions
  <2>2. CASE BatchEnd(c)
    BY <1>4, <2>2, CollectRowsKeeps, EvictFailedKeeps DEF SolanaCacheStep, BatchEnd
  <2>3. ASSUME NEW k \in Singles, SingleStep(c, k) PROVE CacheInv'
    BY <1>4, <2>3, AnswerKeeps, TakeKeeps, EvictKeeps DEF SolanaCacheStep, SingleStep
  <2> QED BY <1>4, <2>1, <2>2, <2>3 DEF SolanaCacheStep
<1>5. CASE DecodeDone(c)
  <2>1. CallsOver(c) /\ pc[c] = "decode"
    BY <1>5 DEF DecodeDone
  <2>2. /\ \A k \in Singles : single[c][k].at \in {"idle", "returned"}
        /\ batch[c].at \in {"idle", "returned"}
    <3>1. SinglesOf(c) \subseteq {SolanaNative} /\ Returned(c, {SolanaNative}) /\ BatchDone(c)
      BY <1>5 DEF DecodeDone, SinglesOf, SinglesWanted, SolanaQuotes, BatchDone, BatchOf,
                  ReceiptsWanted, Signatures
    <3> QED BY <3>1, CallsEnded
  <2>3. BundlesTyped' /\ \A d \in Candidates \ {c} : SameBundle(d)
    BY <1>5, DecodeDoneTyped, OthersKept DEF CacheInv, SameEvidence, SolanaStep
  <2> QED BY <2>1, <2>2, <2>3, CallsOverKeeps
<1> QED BY <1>1, <1>2, <1>3, <1>4, <1>5 DEF SolanaStep

LEMMA CacheInvStep ==
    CacheInv /\ ListingsTyped /\ [Next]_allVars => CacheInv'
<1> SUFFICES ASSUME CacheInv, ListingsTyped, [Next]_allVars PROVE CacheInv'
  OBVIOUS
<1>1. CASE UNCHANGED allVars
  <2>1. /\ UNCHANGED <<current, cells, single, batch, pc, quality, transfers, sales>>
        /\ UNCHANGED <<quotes, controlFlows, operators, operatorFlows, flows, gas>>
    BY <1>1 DEF allVars, vars, cacheVars, bundleVars
  <2>2. CellsTyped' /\ SinglesTyped' /\ BatchesTyped' /\ BundlesTyped'
    BY <2>1 DEF CacheInv, CellsTyped, SinglesTyped, BatchesTyped, BundlesTyped, Rows
  <2>3. Retired' /\ SinglesLed' /\ BatchesLed' /\ FailuresForgotten'
    BY <2>1 DEF CacheInv, Retired, SinglesLed, BatchesLed, FailuresForgotten, Holds,
                CellOf, RowCell, Rows
  <2>4. \A c \in Candidates : SinglesOf(c)' = SinglesOf(c) /\ BatchOf(c)' = BatchOf(c)
    BY <2>1, SameWants DEF SameBundle
  <2>5. CallsOfStage'
    BY <2>1, <2>4 DEF CacheInv, CallsOfStage, Rows
  <2> QED BY <2>2, <2>3, <2>5 DEF CacheInv
<1>2. ASSUME NEW c \in Candidates, TaskStep(c) PROVE CacheInv'
  BY <1>2, EvmStepKeeps, SolanaStepKeeps DEF TaskStep
<1> QED BY <1>1, <1>2 DEF Next

-----------------------------------------------------------------------------
(* What a status promises, and why it is kept.                             *)

LEMMA SinglesComplete ==
    ASSUME NEW c \in Candidates, NEW ks, SinglesStatus(c, ks) = "complete"
    PROVE  /\ AnsweredWith(c, ks, "good") = ks
           /\ AnsweredWith(c, ks, "fail") = {}
<1>1. AnsweredWith(c, ks, "good") = ks
  BY DEF SinglesStatus
<1>2. \A k \in ks : CellOf(c, k) = "good"
  BY <1>1 DEF AnsweredWith
<1> QED BY <1>1, <1>2 DEF AnsweredWith

LEMMA FlowsComplete ==
    ASSUME NEW c \in Candidates, NEW ks, NEW unrelated,
           FlowStatus(c, ks, unrelated) = "complete"
    PROVE  /\ AnsweredWith(c, ks, "good") = ks
           /\ FlowsOf(c, ks) = UNION {FlowTxs[k] : k \in ks}
           /\ Activity(c) # {} => Dated(c) # {}
<1>1. SinglesStatus(c, ks) = "complete" /\ (Activity(c) # {} => Dated(c) # {})
  BY DEF FlowStatus
<1>2. AnsweredWith(c, ks, "good") = ks /\ AnsweredWith(c, ks, "fail") = {}
  BY <1>1, SinglesComplete
<1> QED BY <1>1, <1>2 DEF FlowsOf

LEMMA QuotesComplete ==
    ASSUME NEW c \in Candidates, QuoteStatus(c) = "complete"
    PROVE  AnsweredWith(c, {Native} \union PaidIn(c), "good") = {Native} \union PaidIn(c)
<1>1. SinglesStatus(c, {Native} \union PaidIn(c)) = "complete"
  BY DEF QuoteStatus
<1> QED BY <1>1, SinglesComplete

LEMMA ReceiptsComplete ==
    ASSUME CacheInv, NEW c \in Candidates, pc[c] # "decode", ReceiptsDone(c),
           ReceiptStatus(c) = "complete"
    PROVE  Delivered(c) = ReceiptsWanted(c)
<1>0. BatchOf(c) = ReceiptsWanted(c)
  BY DEF BatchOf, Signatures
<1>1. CASE ReceiptsWanted(c) = {}
  BY <1>0, <1>1 DEF CacheInv, CallsOfStage, Delivered
<1>2. CASE ReceiptsWanted(c) # {}
  <2>1. Rows(c) = ReceiptsWanted(c)
    BY <1>0, <1>2 DEF CacheInv, CallsOfStage, ReceiptsDone
  <2>2. Delivered(c) # {}
    BY <1>2 DEF ReceiptStatus
  <2>3. Delivered(c) = Rows(c)
    BY <1>2, <2>2 DEF ReceiptStatus
  <2> QED BY <2>1, <2>3
<1> QED BY <1>1, <1>2

LEMMA StatusKept ==
    ASSUME NEW d \in Candidates, SameEvidence(d), StatusEarned(d)
    PROVE  StatusEarned(d)'
BY DEF SameEvidence, SameBundle, StatusEarned, PaidIn, Activity, Dated, ControlledWanted,
       ActivityKnown, MintsSeen

(* A step of one task leaves the bundles of the others alone.              *)
LEMMA OthersEvidence ==
    ASSUME BundlesTyped, NEW c \in Candidates, NEW d \in Candidates \ {c},
           FetchBase(c) \/ JoinDone(c) \/ FlowsDone(c) \/ FinalDone(c) \/ GasDone(c)
    PROVE  SameEvidence(d)
<1> USE DEF BundlesTyped
<1>1. CASE FetchBase(c)
  <2>1. /\ \E v : quality' = Put(quality, c, v)
        /\ \E v : transfers' = Put(transfers, c, v)
        /\ \E v : sales' = Put(sales, c, v)
        /\ UNCHANGED <<quotes, controlFlows, operators, operatorFlows, flows, gas>>
        /\ GoTo(c, "join")
    BY <1>1 DEF FetchBase
  <2> QED BY <2>1, PutFrame DEF SameEvidence, SameBundle, GoTo
<1>2. CASE JoinDone(c)
  <2>1. /\ \E v : quality' = Put(quality, c, v)
        /\ \E v : quotes' = Put(quotes, c, v)
        /\ \E v : gas' = Put(gas, c, v)
        /\ UNCHANGED <<transfers, sales, controlFlows, operators, operatorFlows, flows>>
        /\ GoTo(c, "flows")
    BY <1>2 DEF JoinDone
  <2> QED BY <2>1, PutFrame DEF SameEvidence, SameBundle, GoTo
<1>3. CASE FlowsDone(c)
  <2>1. /\ \E v : quality' = Put(quality, c, v)
        /\ \E v : controlFlows' = Put(controlFlows, c, v)
        /\ \E v : operators' = Put(operators, c, v)
        /\ operatorFlows' = operatorFlows \/ \E v : operatorFlows' = Put(operatorFlows, c, v)
        /\ flows' = flows \/ \E v : flows' = Put(flows, c, v)
        /\ UNCHANGED <<transfers, sales, quotes, gas>>
        /\ \E s : GoTo(c, s)
    BY <1>3 DEF FlowsDone
  <2> QED BY <2>1, PutFrame DEF SameEvidence, SameBundle, GoTo
<1>4. CASE FinalDone(c)
  <2>1. /\ \E v : quality' = Put(quality, c, v)
        /\ \E v : operatorFlows' = Put(operatorFlows, c, v)
        /\ \E v : flows' = Put(flows, c, v)
        /\ UNCHANGED <<transfers, sales, quotes, controlFlows, operators, gas>>
        /\ GoTo(c, "gas")
    BY <1>4 DEF FinalDone
  <2> QED BY <2>1, PutFrame DEF SameEvidence, SameBundle, GoTo
<1>5. CASE GasDone(c)
  <2>1. /\ \E v : quality' = Put(quality, c, v)
        /\ \E v : gas' = Put(gas, c, v)
        /\ UNCHANGED <<transfers, sales, quotes, controlFlows, operators, operatorFlows, flows>>
        /\ GoTo(c, "done")
    BY <1>5 DEF GasDone
  <2> QED BY <2>1, PutFrame DEF SameEvidence, SameBundle, GoTo
<1> QED BY <1>1, <1>2, <1>3, <1>4, <1>5

(* The bundle of the candidate that moves, stage by stage.                 *)

LEMMA FetchBaseEarns ==
    ASSUME CacheInv, NEW c \in Candidates, FetchBase(c)
    PROVE  StatusEarned(c)'
<1>1. PICK at \in Statuses, as \in Statuses, et \in Statuses, os \in Statuses :
          LET ts == TransferStatus(at, et)
              ss == SaleStatus(as, os)
          IN  /\ quality' = Put(quality, c, [quality[c] EXCEPT
                                !["transfers"] = ts, !["sales"] = ss])
              /\ \E rows \in Brought(ts, TransferTxs[c]) : transfers' = Put(transfers, c, rows)
              /\ \E rows \in Brought(ss, SaleTxs[c]) : sales' = Put(sales, c, rows)
  BY DEF FetchBase
<1> DEFINE ts == TransferStatus(at, et)
           ss == SaleStatus(as, os)
<1>2. quality'[c]["transfers"] = ts /\ quality'[c]["sales"] = ss
  <2>1. quality[c] \in [Families -> Statuses] /\ DOMAIN quality = Candidates
    BY DEF CacheInv, BundlesTyped
  <2>2. quality'[c] = [quality[c] EXCEPT !["transfers"] = ts, !["sales"] = ss]
    BY <1>1, <2>1 DEF Put
  <2> HIDE DEF ts, ss
  <2> QED BY <2>1, <2>2 DEF Families
<1>3. ts = "complete" => transfers'[c] = TransferTxs[c]
  <2> HIDE DEF ts
  <2>1. PICK rows \in Brought(ts, TransferTxs[c]) : transfers' = Put(transfers, c, rows)
    BY <1>1 DEF ts
  <2> QED BY <2>1 DEF Put, Brought, CacheInv, BundlesTyped
<1>4. ss = "complete" => sales'[c] = SaleTxs[c]
  <2> HIDE DEF ss
  <2>1. PICK rows \in Brought(ss, SaleTxs[c]) : sales' = Put(sales, c, rows)
    BY <1>1 DEF ss
  <2> QED BY <2>1 DEF Put, Brought, CacheInv, BundlesTyped
<1>5. pc'[c] = "join"
  BY DEF FetchBase, GoTo, CacheInv, BundlesTyped
<1> QED BY <1>2, <1>3, <1>4, <1>5 DEF StatusEarned

LEMMA JoinDoneEarns ==
    ASSUME CacheInv, NEW c \in Candidates, StatusEarned(c), JoinDone(c)
    PROVE  StatusEarned(c)'
<1> DEFINE wanted == {Native} \union PaidIn(c)
<1>1. PICK deployment \in Statuses :
          quality' = Put(quality, c, [quality[c] EXCEPT
              !["prices"] = QuoteStatus(c),
              !["gas"] = Combined(ReceiptStatus(c), deployment)])
  BY DEF JoinDone
<1>2. /\ quality'[c]["transfers"] = quality[c]["transfers"]
      /\ quality'[c]["sales"] = quality[c]["sales"]
      /\ quality'[c]["prices"] = QuoteStatus(c)
      /\ quality'[c]["gas"] = Combined(ReceiptStatus(c), deployment)
  BY <1>1 DEF Put, CacheInv, BundlesTyped, Families
<1>3. /\ pc[c] = "join" /\ pc'[c] = "flows" /\ ReceiptsDone(c)
      /\ UNCHANGED <<transfers, sales>>
      /\ quotes'[c] = AnsweredWith(c, wanted, "good") /\ gas'[c] = Delivered(c)
  BY DEF JoinDone, GoTo, Put, CacheInv, BundlesTyped
<1>4. QuoteStatus(c) = "complete" => {Native} \union PaidIn(c)' \subseteq quotes'[c]
  BY <1>3, QuotesComplete DEF PaidIn
<1>5. Combined(ReceiptStatus(c), deployment) = "complete" => Activity(c)' \subseteq gas'[c]
  <2> SUFFICES ASSUME Combined(ReceiptStatus(c), deployment) = "complete"
               PROVE  Activity(c)' \subseteq gas'[c]
    OBVIOUS
  <2>1. ReceiptStatus(c) = "complete"
    BY CombinedStatus, StatusTypes DEF CacheInv
  <2>2. Delivered(c) = Activity(c)
    BY <1>3, <2>1, ReceiptsComplete DEF ReceiptsWanted
  <2> QED BY <1>3, <2>2 DEF Activity
<1> QED BY <1>2, <1>3, <1>4, <1>5 DEF StatusEarned

LEMMA FlowsDoneEarns ==
    ASSUME CacheInv, NEW c \in Candidates, StatusEarned(c), FlowsDone(c)
    PROVE  StatusEarned(c)'
<1> DEFINE asked == ControlledWanted(c)
<1>1. PICK derived \in DerivedOperators(c), unrelated \in BOOLEAN :
          LET status == FlowStatus(c, asked, unrelated)
          IN  /\ operators' = Put(operators, c, derived)
              /\ quality' = Put(quality, c, [quality[c] EXCEPT
                     !["transfers"] = Attributed(c, status), !["valueFlows"] = status])
              /\ IF derived = asked
                 THEN /\ operatorFlows' = Put(operatorFlows, c, AnsweredWith(c, asked, "good"))
                      /\ flows' = Put(flows, c, FlowsOf(c, asked))
                      /\ GoTo(c, "gas")
                 ELSE /\ UNCHANGED <<operatorFlows, flows>>
                      /\ GoTo(c, "final")
  BY DEF FlowsDone
<1> DEFINE status == FlowStatus(c, asked, unrelated)
<1>2. /\ quality'[c]["transfers"] = Attributed(c, status)
      /\ quality'[c]["valueFlows"] = status
      /\ quality'[c]["sales"] = quality[c]["sales"]
      /\ quality'[c]["prices"] = quality[c]["prices"]
      /\ quality'[c]["gas"] = quality[c]["gas"]
  BY <1>1 DEF Put, CacheInv, BundlesTyped, Families
<1>3. /\ pc[c] = "flows" /\ operators'[c] = derived
      /\ UNCHANGED <<transfers, sales, quotes, gas>>
      /\ controlFlows'[c] = AnsweredWith(c, asked, "good")
  BY <1>1 DEF FlowsDone, Put, CacheInv, BundlesTyped
<1>4. /\ PaidIn(c)' = PaidIn(c) /\ Activity(c)' = Activity(c) /\ Dated(c)' = Dated(c)
      /\ ControlledWanted(c)' = asked /\ MintsSeen(c)' = MintsSeen(c)
  BY <1>3 DEF PaidIn, Activity, Dated, ControlledWanted, MintsSeen
<1>5. Attributed(c, status) = "complete" =>
          /\ quality[c]["transfers"] = "complete"
          /\ MintsSeen(c) => status = "complete"
  BY DEF Attributed
<1>6. status = "complete" => /\ AnsweredWith(c, asked, "good") = asked
                             /\ FlowsOf(c, asked) = UNION {FlowTxs[k] : k \in asked}
                             /\ Activity(c) # {} => Dated(c) # {}
  BY FlowsComplete
<1>7. ActivityKnown(c) /\ Dated(c) # {} => Active[c] \subseteq derived
  <2> SUFFICES ASSUME ActivityKnown(c), Dated(c) # {} PROVE Active[c] \subseteq derived
    OBVIOUS
  <2>1. derived \in {(asked \ victims) \union more :
                        victims \in SUBSET asked, more \in {Active[c]}}
    BY <1>1 DEF DerivedOperators
  <2> QED BY <2>1
<1>8. ActivityKnown(c)' => ActivityKnown(c)
  BY <1>2, <1>5 DEF ActivityKnown
<1>9. pc'[c] \in {"gas", "final"} /\ (pc'[c] = "gas" =>
          /\ derived = asked
          /\ operatorFlows'[c] = AnsweredWith(c, asked, "good")
          /\ flows'[c] = FlowsOf(c, asked))
  <2>1. CASE derived = asked
    <3>1. /\ operatorFlows' = Put(operatorFlows, c, AnsweredWith(c, asked, "good"))
          /\ flows' = Put(flows, c, FlowsOf(c, asked))
          /\ GoTo(c, "gas")
      BY <1>1, <2>1
    <3> QED BY <2>1, <3>1 DEF Put, GoTo, CacheInv, BundlesTyped
  <2>2. CASE derived # asked
    BY <1>1, <2>2 DEF GoTo, CacheInv, BundlesTyped
  <2> QED BY <2>1, <2>2
<1> HIDE DEF status, asked
<1> QED
  <2>1. /\ quality'[c]["transfers"] = "complete" => transfers'[c] = TransferTxs[c]
        /\ quality'[c]["sales"] = "complete" => sales'[c] = SaleTxs[c]
    BY <1>2, <1>3, <1>5 DEF StatusEarned
  <2>2. /\ quality'[c]["prices"] = "complete" => {Native} \union PaidIn(c)' \subseteq quotes'[c]
        /\ quality'[c]["gas"] = "complete" => Activity(c)' \subseteq gas'[c]
    BY <1>2, <1>3, <1>4 DEF StatusEarned
  <2>3. /\ quality'[c]["transfers"] = "complete" /\ MintsSeen(c)' =>
              ControlledWanted(c)' \subseteq controlFlows'[c]
        /\ ActivityKnown(c)' /\ Dated(c)' # {} => Active[c] \subseteq operators'[c]
    BY <1>2, <1>3, <1>4, <1>5, <1>6, <1>7, <1>8
  <2>4. pc'[c] = "gas" /\ quality'[c]["valueFlows"] = "complete" =>
            /\ Activity(c)' # {} => Dated(c)' # {}
            /\ operators'[c] = operatorFlows'[c]
            /\ flows'[c] = UNION {FlowTxs[k] : k \in operators'[c]}
    BY <1>2, <1>3, <1>4, <1>6, <1>9
  <2> QED BY <1>9, <2>1, <2>2, <2>3, <2>4 DEF StatusEarned

LEMMA FinalDoneEarns ==
    ASSUME CacheInv, NEW c \in Candidates, StatusEarned(c), FinalDone(c)
    PROVE  StatusEarned(c)'
<1> DEFINE ks == operators[c]
<1>1. PICK unrelated \in BOOLEAN :
          quality' = Put(quality, c, [quality[c] EXCEPT
              !["valueFlows"] = FlowStatus(c, ks, unrelated)])
  BY DEF FinalDone
<1>2. /\ quality'[c]["transfers"] = quality[c]["transfers"]
      /\ quality'[c]["valueFlows"] = FlowStatus(c, ks, unrelated)
      /\ quality'[c]["sales"] = quality[c]["sales"]
      /\ quality'[c]["prices"] = quality[c]["prices"]
      /\ quality'[c]["gas"] = quality[c]["gas"]
  BY <1>1 DEF Put, CacheInv, BundlesTyped, Families
<1>3. /\ pc[c] = "final" /\ pc'[c] = "gas"
      /\ UNCHANGED <<transfers, sales, quotes, controlFlows, operators, gas>>
      /\ operatorFlows'[c] = AnsweredWith(c, ks, "good")
      /\ flows'[c] = FlowsOf(c, ks)
  BY DEF FinalDone, Put, GoTo, CacheInv, BundlesTyped
<1>4. /\ PaidIn(c)' = PaidIn(c) /\ Activity(c)' = Activity(c) /\ Dated(c)' = Dated(c)
      /\ ControlledWanted(c)' = ControlledWanted(c) /\ MintsSeen(c)' = MintsSeen(c)
      /\ ActivityKnown(c)' = ActivityKnown(c)
  BY <1>2, <1>3 DEF PaidIn, Activity, Dated, ControlledWanted, MintsSeen, ActivityKnown
<1>5. FlowStatus(c, ks, unrelated) = "complete" =>
          /\ AnsweredWith(c, ks, "good") = ks
          /\ FlowsOf(c, ks) = UNION {FlowTxs[k] : k \in ks}
          /\ Activity(c) # {} => Dated(c) # {}
  BY FlowsComplete
<1> QED BY <1>2, <1>3, <1>4, <1>5 DEF StatusEarned

LEMMA GasDoneEarns ==
    ASSUME CacheInv, NEW c \in Candidates, StatusEarned(c), GasDone(c)
    PROVE  StatusEarned(c)'
<1>1. PICK ambiguous \in BOOLEAN :
          quality' = Put(quality, c, [quality[c] EXCEPT
              !["gas"] = GasStatus(c),
              !["transfers"] = IF ambiguous /\ @ = "complete" THEN "truncated" ELSE @])
  BY DEF GasDone, Ambiguity, MintsSeen
<1>2. /\ quality'[c]["transfers"] = "complete" => quality[c]["transfers"] = "complete"
      /\ quality'[c]["gas"] = GasStatus(c)
      /\ quality'[c]["sales"] = quality[c]["sales"]
      /\ quality'[c]["prices"] = quality[c]["prices"]
      /\ quality'[c]["valueFlows"] = quality[c]["valueFlows"]
  <2>1. quality[c] \in [Families -> Statuses] /\ DOMAIN quality = Candidates
    BY DEF CacheInv, BundlesTyped
  <2>2. quality'[c] = [quality[c] EXCEPT
            !["gas"] = GasStatus(c),
            !["transfers"] = IF ambiguous /\ @ = "complete" THEN "truncated" ELSE @]
    BY <1>1, <2>1 DEF Put
  <2>3. CASE ambiguous
    BY <2>1, <2>2, <2>3 DEF Families
  <2>4. CASE ~ ambiguous
    BY <2>1, <2>2, <2>4 DEF Families
  <2> QED BY <2>3, <2>4
<1>3. /\ pc[c] = "gas" /\ pc'[c] = "done" /\ ReceiptsDone(c)
      /\ UNCHANGED <<transfers, sales, quotes, controlFlows, operators, operatorFlows, flows>>
      /\ gas'[c] = gas[c] \union Delivered(c)
  BY DEF GasDone, Put, GoTo, CacheInv, BundlesTyped
<1>4. /\ PaidIn(c)' = PaidIn(c) /\ Activity(c)' = Activity(c) /\ Dated(c)' = Dated(c)
      /\ ControlledWanted(c)' = ControlledWanted(c) /\ MintsSeen(c)' = MintsSeen(c)
      /\ ActivityKnown(c)' => ActivityKnown(c)
  BY <1>2, <1>3 DEF PaidIn, Activity, Dated, ControlledWanted, MintsSeen, ActivityKnown
<1>5. GasStatus(c) = "complete" =>
          quality[c]["gas"] = "complete" /\ flows[c] \subseteq gas'[c]
  <2> SUFFICES ASSUME GasStatus(c) = "complete"
               PROVE  quality[c]["gas"] = "complete" /\ flows[c] \subseteq gas'[c]
    OBVIOUS
  <2>1. quality[c]["gas"] \in Statuses
    BY DEF CacheInv, BundlesTyped, Families
  <2>2. quality[c]["gas"] = "complete" /\ ReceiptStatus(c) = "complete"
    BY <2>1, CombinedStatus, StatusTypes DEF CacheInv, GasStatus
  <2>3. Delivered(c) = flows[c] \ gas[c]
    BY <1>3, <2>2, ReceiptsComplete DEF ReceiptsWanted
  <2> QED BY <1>3, <2>2, <2>3
<1> QED BY <1>2, <1>3, <1>4, <1>5 DEF StatusEarned

-----------------------------------------------------------------------------
LEMMA StatusesStep ==
    CacheInv /\ ListingsTyped /\ StatusesEarned /\ [Next]_allVars => StatusesEarned'
<1> SUFFICES ASSUME CacheInv, ListingsTyped, StatusesEarned, [Next]_allVars,
                    NEW d \in EvmCandidates
             PROVE  StatusEarned(d)'
  BY DEF StatusesEarned
<1>0. d \in Candidates
  BY JobsAssumption
<1>1. CASE UNCHANGED <<pc, bundleVars>>
  BY <1>0, <1>1, StatusKept DEF SameEvidence, SameBundle, bundleVars, StatusesEarned
<1>2. ASSUME NEW c \in Candidates,
             FetchBase(c) \/ JoinDone(c) \/ FlowsDone(c) \/ FinalDone(c) \/ GasDone(c)
      PROVE  StatusEarned(d)'
  <2>1. CASE d = c
    BY <1>2, <2>1, FetchBaseEarns, JoinDoneEarns, FlowsDoneEarns, FinalDoneEarns, GasDoneEarns
       DEF StatusesEarned
  <2>2. CASE d # c
    <3>1. SameEvidence(d)
      BY <1>0, <1>2, <2>2, OthersEvidence DEF CacheInv
    <3> QED BY <1>0, <3>1, StatusKept DEF StatusesEarned
  <2> QED BY <2>1, <2>2
<1>3. ASSUME NEW c \in SolanaCandidates, SolanaStep(c) PROVE StatusEarned(d)'
  <2>1. c \in Candidates /\ d # c
    BY DEF SolanaCandidates
  <2>2. SameEvidence(d)
    BY <1>0, <1>3, <2>1, OthersKept DEF CacheInv
  <2> QED BY <1>0, <2>2, StatusKept DEF StatusesEarned
<1>4. UNCHANGED allVars => UNCHANGED <<pc, bundleVars>>
  BY DEF allVars, vars
<1>5. ASSUME NEW c \in Candidates, EvmStep(c)
      PROVE  \/ UNCHANGED <<pc, bundleVars>>
             \/ FetchBase(c) \/ JoinDone(c) \/ FlowsDone(c) \/ FinalDone(c) \/ GasDone(c)
  BY <1>5 DEF EvmStep, CallReceipts, CallSingle, CacheStep
<1> QED BY <1>1, <1>2, <1>3, <1>4, <1>5 DEF Next, TaskStep

LEMMA StatusesInit ==
    Init => StatusesEarned
<1> SUFFICES ASSUME Init, NEW c \in EvmCandidates PROVE StatusEarned(c)
  BY DEF StatusesEarned
<1>1. c \in Candidates /\ quality[c] = [f \in Families |-> "skipped"]
  BY JobsAssumption DEF Init, BundleInit
<1>2. pc[c] \in {"queued", "absent"}
  BY <1>1 DEF Init, BundleInit
<1> QED BY <1>1, <1>2 DEF StatusEarned, Families, ActivityKnown

-----------------------------------------------------------------------------
(* What is known of the evidence of a Solana candidate, stage by stage.    *)

(* What was listed belongs to the group, and the rows of the pages so far  *)
(* were all listed: however the pages shrink, none is passed over.         *)
NothingSkipped(l) ==
    /\ l.found \subseteq {RowsOf(l)[i] : i \in 1..Len(RowsOf(l))} \ NonNfts
    /\ \A i \in 1..Len(RowsOf(l)) :
          i <= (l.page - 1) * Limit(l) => RowsOf(l)[i] \in l.found \union NonNfts

(* Another listing than the first means that the residents contradict it.  *)
Strayed(c) ==
    \/ listing[c].group # Address[c]
    \/ listing[c].unverified
    \/ pc[c] \in {"resolve", "direct"}

WellListed(c) ==
    /\ NothingSkipped(listing[c])
    /\ listing[c].group \in {Address[c]} \union ResidentGroups(c)
    /\ Strayed(c) => Members(Address[c]) = {} /\ Resident[c] # {}

Outcome(c) ==
    /\ excluded[c] => Resident[c] # {} /\ Resident[c] \subseteq NonNfts
    /\ pc[c] \in {"history", "decode", "done"} /\ ~ excluded[c] /\ assets[c] = "complete" =>
          nfts[c] \in Populations(c)
    /\ pc[c] \in {"decode", "done"} /\ ~ excluded[c] =>
          /\ histories[c] # "skipped"
          /\ assets[c] = "complete" /\ histories[c] = "complete" =>
                Activity(c) = UNION {History[n] : n \in nfts[c]}
    /\ pc[c] = "done" /\ ~ excluded[c] =>
          /\ histories[c] = "complete" =>
                Activity(c) \subseteq gas[c] \ Bare /\ transfers[c] \intersect Feeless = {}
          /\ quality[c]["prices"] = "complete" => SolanaNative \in quotes[c]

SolanaEarned(c) == WellListed(c) /\ Outcome(c)

EvidenceEarned == \A c \in SolanaCandidates : SolanaEarned(c)

LEMMA EvidenceKept ==
    ASSUME NEW d \in Candidates, SameEvidence(d), SameListing(d), SolanaEarned(d)
    PROVE  SolanaEarned(d)'
<1>1. WellListed(d)'
  BY DEF SameEvidence, SameBundle, SameListing, SolanaEarned, WellListed, Strayed, ResidentGroups
<1>2. Outcome(d)'
  BY DEF SameEvidence, SameBundle, SameListing, SolanaEarned, Outcome, Populations, Members,
         ResidentGroups, Activity
<1> QED BY <1>1, <1>2 DEF SolanaEarned

(* The more was found, the smaller the pages.                              *)
LEMMA PagesShrink ==
    ASSUME NEW l \in Listings, NEW m \in Listings, l.found \subseteq m.found
    PROVE  Limit(m) <= Limit(l)
<1>1. /\ Cardinality(l.found) \in Nat /\ Cardinality(m.found) \in Nat
      /\ Cardinality(l.found) <= Cardinality(m.found)
  <2>1. l.found \in SUBSET m.found /\ m.found \in SUBSET Nfts /\ l.found \in SUBSET Nfts
    BY DEF Listings
  <2>2. IsFiniteSet(m.found) /\ IsFiniteSet(l.found)
    BY <2>1, ListingAssumption, FS_Subset
  <2> QED BY <2>1, <2>2, FS_Subset, FS_CardinalityType
<1> QED BY <1>1, LimitsAssumption DEF Limit, Smaller, Larger

LEMMA Scaled ==
    ASSUME NEW p \in Nat, NEW a \in Nat, NEW b \in Nat, a <= b
    PROVE  p * a <= p * b /\ p * a \in Nat
<1>1. PICK e \in Nat : b = a + e
  BY b - a \in Nat
<1>2. p * b = p * a + p * e /\ p * e \in Nat
  BY <1>1
<1> QED BY <1>2

(* The rows up to the end of this page.                                    *)
LEMMA ThisPage ==
    ASSUME NEW l \in Listings, NothingSkipped(l)
    PROVE  /\ \A i \in 1..Len(RowsOf(l)) :
                 i <= l.page * Limit(l) => RowsOf(l)[i] \in Found(l) \union NonNfts
           /\ Found(l) \subseteq {RowsOf(l)[i] : i \in 1..Len(RowsOf(l))} \ NonNfts
<1>1. RowsOf(l) \in Seq(Nfts) /\ Limit(l) \in Nat /\ l.page \in Nat
  BY ListingSteps DEF Listings
<1>2. \A i \in 1..Len(RowsOf(l)) :
          i <= l.page * Limit(l) => RowsOf(l)[i] \in Found(l) \union NonNfts
  <2> SUFFICES ASSUME NEW i \in 1..Len(RowsOf(l)), i <= l.page * Limit(l)
               PROVE  RowsOf(l)[i] \in Found(l) \union NonNfts
    OBVIOUS
  <2>1. CASE i <= (l.page - 1) * Limit(l)
    BY <2>1 DEF NothingSkipped, Found
  <2>2. CASE ~ (i <= (l.page - 1) * Limit(l))
    <3>1. (l.page - 1) * Limit(l) \in Int /\ i \in Int
      BY <1>1
    <3>2. (l.page - 1) * Limit(l) < i
      BY <2>2, <3>1
    <3> QED BY <3>2 DEF PageOf, Found
  <2> QED BY <2>1, <2>2
<1>3. Found(l) \subseteq {RowsOf(l)[i] : i \in 1..Len(RowsOf(l))} \ NonNfts
  BY DEF Found, PageOf, NothingSkipped
<1> QED BY <1>2, <1>3

(* After its last page a listing has everything there is.                  *)
LEMMA AllListed ==
    ASSUME NEW l \in Listings, NothingSkipped(l), LastPage(l)
    PROVE  Found(l) = {RowsOf(l)[i] : i \in 1..Len(RowsOf(l))} \ NonNfts
<1>1. Len(RowsOf(l)) \in Nat /\ l.page * Limit(l) \in Nat
  BY ListingSteps DEF Listings
<1>2. \A i \in 1..Len(RowsOf(l)) : i <= l.page * Limit(l)
  BY <1>1 DEF LastPage
<1> QED BY <1>2, ThisPage

LEMMA NextPage ==
    ASSUME NEW l \in Listings, NothingSkipped(l)
    PROVE  NothingSkipped([l EXCEPT !.page = @ + 1, !.found = Found(l)])
<1> DEFINE m == [l EXCEPT !.page = @ + 1, !.found = Found(l)]
<1>1. /\ m \in Listings /\ m.group = l.group /\ m.unverified = l.unverified
      /\ m.page - 1 = l.page /\ m.found = Found(l) /\ l.found \subseteq m.found
  <2>1. Found(l) \in SUBSET Nfts /\ l.page \in Nat /\ l.found \subseteq Found(l)
    BY ListingSteps DEF Listings, Found
  <2>2. /\ m \in Listings /\ m.group = l.group /\ m.unverified = l.unverified
        /\ m.page = l.page + 1 /\ m.found = Found(l)
    BY <2>1, PageTurned
  <2> HIDE DEF m
  <2> QED BY <2>1, <2>2
<1>2. RowsOf(m) = RowsOf(l)
  BY <1>1 DEF RowsOf
<1>3. Limit(m) <= Limit(l) /\ Limit(m) \in Nat /\ Limit(l) \in Nat
  <2> HIDE DEF m
  <2> QED BY <1>1, PagesShrink, ListingSteps
<1>4. l.page * Limit(m) <= l.page * Limit(l) /\ l.page * Limit(m) \in Int /\ l.page * Limit(l) \in Int
  <2>1. l.page \in Nat
    BY DEF Listings
  <2> HIDE DEF m
  <2> QED BY <1>3, <2>1, Scaled
<1>5. Len(RowsOf(l)) \in Nat
  BY ListingSteps
<1> HIDE DEF m
<1>6. ASSUME NEW i \in 1..Len(RowsOf(l)), i <= (m.page - 1) * Limit(m)
      PROVE  RowsOf(l)[i] \in Found(l) \union NonNfts
  <2>1. i <= l.page * Limit(m)
    BY <1>1, <1>6
  <2>2. i <= l.page * Limit(l)
    BY <1>4, <1>5, <2>1
  <2> QED BY <2>2, ThisPage
<1>7. NothingSkipped(m)
  BY <1>1, <1>2, <1>6, ThisPage DEF NothingSkipped
<1> QED BY <1>7 DEF m

LEMMA NewListing ==
    ASSUME NEW group \in Collections, NEW unverified \in BOOLEAN
    PROVE  NothingSkipped([group |-> group, unverified |-> unverified, page |-> 1, found |-> {}])
<1> DEFINE l == [group |-> group, unverified |-> unverified, page |-> 1, found |-> {}]
<1>1. l \in Listings /\ l.page = 1 /\ l.found = {}
  BY DEF Listings
<1> HIDE DEF l
<1>2. Limit(l) \in Nat /\ Len(RowsOf(l)) \in Nat
  BY <1>1, ListingSteps
<1>3. (l.page - 1) * Limit(l) = 0
  BY <1>1, <1>2
<1>4. NothingSkipped(l)
  BY <1>1, <1>2, <1>3 DEF NothingSkipped
<1> QED BY <1>4 DEF l

-----------------------------------------------------------------------------
(* The candidate that moves, step by step.                                 *)

(* NFTs that are settled may be taken for the whole collection if they are *)
(* called complete.                                                        *)
LEMMA SettleEarns ==
    ASSUME CacheInv, ListingsTyped, NEW c \in Candidates, SolanaEarned(c),
           pc[c] \in {"queued", "list", "direct"},
           NEW status \in Statuses, NEW found \in SUBSET Nfts, Settle(c, status, found),
           status = "complete" => found \in Populations(c),
           UNCHANGED <<listing, excluded>>
    PROVE  SolanaEarned(c)'
<1>1. nfts'[c] = found /\ assets'[c] = status /\ pc'[c] = "history"
  BY Settled DEF CacheInv
<1>2. WellListed(c)'
  BY <1>1 DEF SolanaEarned, WellListed, Strayed, ResidentGroups
<1>3. Populations(c)' = Populations(c)
  BY DEF Populations, Members, ResidentGroups
<1>4. Outcome(c)'
  BY <1>1, <1>3 DEF SolanaEarned, Outcome
<1> QED BY <1>2, <1>4 DEF SolanaEarned

(* Until then only the listing counts.                                     *)
LEMMA ListingEarns ==
    ASSUME NEW c \in Candidates, SolanaEarned(c), WellListed(c)',
           pc'[c] \in {"list", "resolve", "direct"}, UNCHANGED excluded
    PROVE  SolanaEarned(c)'
BY DEF SolanaEarned, Outcome

LEMMA EndListingEarns ==
    ASSUME CacheInv, ListingsTyped, NEW c \in Candidates, SolanaEarned(c),
           pc[c] \in {"queued", "list"}, LastPage(listing[c]),
           EndListing(c, Found(listing[c])), UNCHANGED excluded
    PROVE  SolanaEarned(c)'
<1> DEFINE l == listing[c]
           found == Found(l)
<1>1. /\ l \in Listings /\ found \in SUBSET Nfts /\ NothingSkipped(l)
      /\ l.group \in Collections /\ l.group \in {Address[c]} \union ResidentGroups(c)
      /\ Strayed(c) => Members(Address[c]) = {} /\ Resident[c] # {}
  BY ListingSteps DEF ListingsTyped, Listings, SolanaEarned, WellListed
<1>2. ~ l.unverified => found = Members(l.group)
  <2>1. found = {RowsOf(l)[i] : i \in 1..Len(RowsOf(l))} \ NonNfts
    BY <1>1, AllListed
  <2> QED BY <1>1, <2>1 DEF RowsOf, Members, Listings
<1>3. Contradicted(c, found) => Members(Address[c]) = {} /\ Resident[c] # {}
  <2>1. CASE Strayed(c)
    BY <1>1, <2>1
  <2>2. CASE ~ Strayed(c)
    BY <1>2, <2>2 DEF Strayed, Contradicted
  <2> QED BY <2>1, <2>2
<1> HIDE DEF found
<1>4. ASSUME Contradicted(c, found), NEW s \in {"resolve", "direct"}, GoTo(c, s),
             UNCHANGED listing
      PROVE  SolanaEarned(c)'
  <2>1. pc'[c] = s
    BY <1>4 DEF GoTo, CacheInv, BundlesTyped
  <2>2. WellListed(c)'
    BY <1>1, <1>3, <1>4 DEF WellListed, ResidentGroups
  <2> QED BY <2>1, <2>2, ListingEarns
<1>5. ASSUME Contradicted(c, found), ListGroup(c, l.group, TRUE) PROVE SolanaEarned(c)'
  <2> DEFINE m == [group |-> l.group, unverified |-> TRUE, page |-> 1, found |-> {}]
  <2>1. listing'[c] = m /\ pc'[c] = "list" /\ NothingSkipped(m) /\ m.group = l.group
    BY <1>1, <1>5, GroupListed, NewListing DEF CacheInv
  <2> HIDE DEF m
  <2>2. WellListed(c)'
    BY <1>1, <1>3, <1>5, <2>1 DEF WellListed, ResidentGroups
  <2> QED BY <2>1, <2>2, ListingEarns
<1>6. ASSUME ~ Contradicted(c, found), UNCHANGED listing,
             Settle(c, IF l.unverified /\ found # {} THEN "truncated" ELSE "complete", found)
      PROVE  SolanaEarned(c)'
  <2> DEFINE status == IF l.unverified /\ found # {} THEN "truncated" ELSE "complete"
  <2>1. status \in Statuses
    BY DEF Statuses
  <2>2. ASSUME status = "complete" PROVE found \in Populations(c)
    <3>1. ~ l.unverified
      BY <1>1, <1>6, <2>2 DEF Strayed, Contradicted
    <3>2. found = Members(l.group) /\ (found = {} => Resident[c] = {})
      BY <1>2, <1>6, <3>1 DEF Contradicted
    <3>3. CASE l.group = Address[c]
      <4>1. CASE Members(Address[c]) # {} \/ Resident[c] = {}
        BY <3>2, <3>3, <4>1 DEF Populations
      <4>2. CASE ~ (Members(Address[c]) # {} \/ Resident[c] = {})
        BY <3>2, <3>3, <4>2
      <4> QED BY <4>1, <4>2
    <3>4. CASE l.group # Address[c]
      <4>1. Members(Address[c]) = {} /\ Resident[c] # {} /\ l.group \in ResidentGroups(c)
        BY <1>1, <3>4 DEF Strayed
      <4> QED BY <3>2, <4>1 DEF Populations
    <3> QED BY <3>3, <3>4
  <2> HIDE DEF l
  <2> QED BY <1>1, <1>6, <2>1, <2>2, SettleEarns DEF status
<1> QED BY <1>4, <1>5, <1>6 DEF EndListing, found

LEMMA CutListingEarns ==
    ASSUME CacheInv, ListingsTyped, NEW c \in Candidates, SolanaEarned(c), CutListing(c)
    PROVE  SolanaEarned(c)'
<1>1. PICK status \in {"failed", "truncated"} : Settle(c, status, listing[c].found)
  BY DEF CutListing
<1>2. listing[c].found \in SUBSET Nfts /\ status \in Statuses /\ status # "complete"
  BY DEF ListingsTyped, Listings, Statuses
<1>3. pc[c] \in {"queued", "list"} /\ UNCHANGED <<listing, excluded>>
  BY DEF CutListing
<1> QED BY <1>1, <1>2, <1>3, SettleEarns

LEMMA ListPageEarns ==
    ASSUME CacheInv, ListingsTyped, NEW c \in Candidates, SolanaEarned(c), ListPage(c)
    PROVE  SolanaEarned(c)'
<1> DEFINE l == listing[c]
<1>1. /\ l \in Listings /\ Found(l) \in SUBSET Nfts /\ NothingSkipped(l)
      /\ pc[c] \in {"queued", "list"} /\ UNCHANGED excluded
  BY ListingSteps DEF ListingsTyped, SolanaEarned, WellListed, ListPage
<1>2. CASE Settle(c, "truncated", Found(l)) /\ UNCHANGED listing
  <2>1. "truncated" \in Statuses
    BY DEF Statuses
  <2> HIDE DEF l
  <2> QED BY <1>1, <1>2, <2>1, SettleEarns
<1>3. CASE LastPage(l) /\ EndListing(c, Found(l))
  BY <1>1, <1>3, EndListingEarns
<1>4. CASE /\ SetListing(c, [l EXCEPT !.page = @ + 1, !.found = Found(l)])
           /\ GoTo(c, "list")
  <2> DEFINE m == [l EXCEPT !.page = @ + 1, !.found = Found(l)]
  <2>1. pc'[c] = "list" /\ listing'[c] = m
    BY <1>4 DEF GoTo, SetListing, Put, CacheInv, BundlesTyped, ListingsTyped
  <2>2. m.group = l.group /\ m.unverified = l.unverified
    BY <1>1 DEF Listings
  <2>3. NothingSkipped(m)
    <3> HIDE DEF l
    <3> QED BY <1>1, NextPage
  <2> HIDE DEF m
  <2>4. WellListed(c)'
    BY <2>1, <2>2, <2>3 DEF SolanaEarned, WellListed, Strayed, ResidentGroups
  <2> QED BY <1>1, <2>1, <2>4, ListingEarns
<1> QED BY <1>2, <1>3, <1>4 DEF ListPage

LEMMA ResolveEarns ==
    ASSUME CacheInv, ListingsTyped, NEW c \in Candidates, SolanaEarned(c), Resolve(c)
    PROVE  SolanaEarned(c)'
<1>1. PICK group \in {Address[c]} \union ({GroupOf[n] : n \in Resident[c]} \ {NoGroup}) :
          ListGroup(c, group, group = Address[c])
  BY DEF Resolve
<1> DEFINE m == [group |-> group, unverified |-> (group = Address[c]), page |-> 1, found |-> {}]
<1>2. /\ group \in Collections /\ (group = Address[c]) \in BOOLEAN
      /\ group \in {Address[c]} \union ResidentGroups(c)
  BY ListingAssumption DEF ResidentGroups
<1>3. /\ listing'[c] = m /\ pc'[c] = "list" /\ NothingSkipped(m) /\ m.group = group
  BY <1>1, <1>2, GroupListed, NewListing DEF CacheInv
<1>4. Members(Address[c]) = {} /\ Resident[c] # {} /\ UNCHANGED excluded
  BY DEF Resolve, SolanaEarned, WellListed, Strayed
<1> HIDE DEF m
<1>5. WellListed(c)'
  BY <1>2, <1>3, <1>4 DEF WellListed, ResidentGroups
<1> QED BY <1>3, <1>4, <1>5, ListingEarns

LEMMA FetchDirectEarns ==
    ASSUME CacheInv, ListingsTyped, NEW c \in Candidates, SolanaEarned(c), FetchDirect(c)
    PROVE  SolanaEarned(c)'
<1>1. /\ pc[c] = "direct" /\ UNCHANGED listing
      /\ Members(Address[c]) = {} /\ Resident[c] # {}
  BY DEF FetchDirect, SolanaEarned, WellListed, Strayed
<1>2. PICK asked \in SUBSET Resident[c], lost \in SUBSET Resident[c] :
          LET found == asked \ (lost \union NonNfts)
              rejected == (asked \intersect NonNfts) \ lost
          IN  \/ /\ found # {} /\ Settle(c, DirectStatus(c, found), found)
                 /\ UNCHANGED excluded
              \/ AllRejected(c, rejected) /\ Exclude(c)
              \/ Settle(c, "failed", {}) /\ UNCHANGED excluded
  BY DEF FetchDirect
<1> DEFINE found == asked \ (lost \union NonNfts)
           rejected == (asked \intersect NonNfts) \ lost
<1>3. found \in SUBSET Nfts
  BY ListingAssumption
<1>4. CASE /\ found # {} /\ Settle(c, DirectStatus(c, found), found)
           /\ UNCHANGED excluded
  <2>1. DirectStatus(c, found) = "complete" => found = Resident[c]
    BY DEF DirectStatus
  <2>2. Resident[c] \in Populations(c)
    BY <1>1 DEF Populations
  <2>3. DirectStatus(c, found) \in Statuses
    BY DEF DirectStatus, Statuses
  <2> HIDE DEF found
  <2> QED BY <1>1, <1>3, <1>4, <2>1, <2>2, <2>3, SettleEarns
<1>5. CASE AllRejected(c, rejected) /\ Exclude(c)
  <2>1. Resident[c] \subseteq NonNfts
    BY <1>5 DEF AllRejected
  <2>2. /\ excluded'[c] = TRUE /\ pc'[c] = "done" /\ listing' = listing
    BY <1>1, <1>5 DEF Exclude, Put, GoTo, ListingsTyped, CacheInv, BundlesTyped
  <2>3. WellListed(c)'
    BY <1>1, <2>2 DEF SolanaEarned, WellListed, ResidentGroups
  <2> QED BY <1>1, <2>1, <2>2, <2>3 DEF SolanaEarned, Outcome
<1>6. CASE Settle(c, "failed", {}) /\ UNCHANGED excluded
  <2>1. "failed" \in Statuses /\ {} \in SUBSET Nfts
    BY DEF Statuses
  <2> QED BY <1>1, <1>6, <2>1, SettleEarns
<1> QED BY <1>2, <1>4, <1>5, <1>6

(* Histories that are called complete are those of all the NFTs.           *)
LEMMA HistoriesComplete ==
    ASSUME ListingsTyped, NEW c \in Candidates,
           NEW asked \in SUBSET nfts[c],
           Cardinality(asked) = Smaller(Cardinality(nfts[c]), Larger(MaxHistory, 1)),
           NEW whole \in SUBSET asked, NEW failed \in SUBSET asked,
           HistoryStatus(c, whole, asked \ (whole \union failed), failed) = "complete"
    PROVE  whole = nfts[c] /\ asked \ (whole \union failed) = {}
<1>1. /\ failed = {} /\ asked \ (whole \union failed) = {}
      /\ Cardinality(nfts[c]) <= MaxHistory
  BY DEF HistoryStatus
<1>2. IsFiniteSet(nfts[c]) /\ Cardinality(nfts[c]) \in Nat
  BY ListingAssumption, FS_Subset, FS_CardinalityType DEF ListingsTyped
<1>3. Cardinality(asked) = Cardinality(nfts[c])
  BY <1>1, <1>2, LimitsAssumption DEF Smaller, Larger
<1>4. asked = nfts[c]
  BY <1>2, <1>3, FS_Subset
<1> QED BY <1>1, <1>4

LEMMA FetchHistoriesEarns ==
    ASSUME CacheInv, ListingsTyped, NEW c \in Candidates, SolanaEarned(c), FetchHistories(c)
    PROVE  SolanaEarned(c)'
<1>1. /\ pc[c] = "history" /\ pc'[c] = "decode"
      /\ UNCHANGED <<listing, nfts, assets, excluded>>
  BY DEF FetchHistories, GoTo, CacheInv, BundlesTyped
<1>2. WellListed(c)'
  BY <1>1 DEF SolanaEarned, WellListed, Strayed, ResidentGroups
<1>3. /\ histories'[c] # "skipped"
      /\ histories'[c] = "complete" => Activity(c)' = UNION {History[n] : n \in nfts[c]}
  <2>1. CASE histories' = Put(histories, c, "failed")
    BY <2>1 DEF Put, ListingsTyped
  <2>2. ASSUME NEW asked \in SUBSET nfts[c],
               Cardinality(asked) = Smaller(Cardinality(nfts[c]), Larger(MaxHistory, 1)),
               NEW whole \in SUBSET asked, NEW failed \in SUBSET asked,
               histories' = Put(histories, c,
                   HistoryStatus(c, whole, asked \ (whole \union failed), failed)),
               NEW some \in SUBSET UNION {History[n] : n \in asked \ (whole \union failed)},
               SetEvents(c, some \union UNION {History[n] : n \in whole})
        PROVE  /\ histories'[c] # "skipped"
               /\ histories'[c] = "complete" =>
                     Activity(c)' = UNION {History[n] : n \in nfts[c]}
    <3>1. histories'[c] = HistoryStatus(c, whole, asked \ (whole \union failed), failed)
      BY <2>2, PutEffect DEF ListingsTyped, HistoryStatus, Statuses, Put
    <3>2. Activity(c)' = some \union UNION {History[n] : n \in whole}
      BY <2>2 DEF SetEvents, Put, Activity, CacheInv, BundlesTyped
    <3>3. ASSUME histories'[c] = "complete"
          PROVE  Activity(c)' = UNION {History[n] : n \in nfts[c]}
      <4>1. whole = nfts[c] /\ asked \ (whole \union failed) = {}
        BY <2>2, <3>1, <3>3, HistoriesComplete
      <4>2. some = {}
        BY <4>1
      <4> QED BY <3>2, <4>1, <4>2
    <3>4. histories'[c] # "skipped"
      BY <3>1 DEF HistoryStatus
    <3> QED BY <3>3, <3>4
  <2>3. \/ histories' = Put(histories, c, "failed")
        \/ \E asked \in SUBSET nfts[c] :
              /\ Cardinality(asked) = Smaller(Cardinality(nfts[c]), Larger(MaxHistory, 1))
              /\ \E whole \in SUBSET asked, failed \in SUBSET asked :
                    /\ histories' = Put(histories, c,
                           HistoryStatus(c, whole, asked \ (whole \union failed), failed))
                    /\ \E some \in SUBSET UNION {History[n] : n \in asked \ (whole \union failed)} :
                          SetEvents(c, some \union UNION {History[n] : n \in whole})
    <3>1. CASE assets[c] = "failed"
      BY <3>1 DEF FetchHistories
    <3>2. CASE assets[c] # "failed"
      <4>1. PICK asked \in SUBSET nfts[c] :
                /\ Cardinality(asked) = Smaller(Cardinality(nfts[c]), Larger(MaxHistory, 1))
                /\ \E whole \in SUBSET {n \in asked : ~ LongHistory(n)}, failed \in SUBSET asked :
                      LET cut == asked \ (whole \union failed) IN
                      /\ histories' = Put(histories, c, HistoryStatus(c, whole, cut, failed))
                      /\ \E some \in SUBSET UNION {History[n] : n \in cut} :
                            SetEvents(c, some \union UNION {History[n] : n \in whole})
        BY <3>2 DEF FetchHistories
      <4>2. PICK whole \in SUBSET {n \in asked : ~ LongHistory(n)}, failed \in SUBSET asked :
                /\ histories' = Put(histories, c,
                       HistoryStatus(c, whole, asked \ (whole \union failed), failed))
                /\ \E some \in SUBSET UNION {History[n] : n \in asked \ (whole \union failed)} :
                      SetEvents(c, some \union UNION {History[n] : n \in whole})
        BY <4>1
      <4>3. whole \in SUBSET asked
        OBVIOUS
      <4> QED BY <4>1, <4>2, <4>3
    <3> QED BY <3>1, <3>2
  <2> QED BY <2>1, <2>2, <2>3
<1>4. Populations(c)' = Populations(c)
  BY DEF Populations, Members, ResidentGroups
<1>5. Outcome(c)'
  BY <1>1, <1>3, <1>4 DEF SolanaEarned, Outcome
<1> QED BY <1>2, <1>5 DEF SolanaEarned

LEMMA DecodeDoneEarns ==
    ASSUME CacheInv, ListingsTyped, NEW c \in Candidates, SolanaEarned(c), DecodeDone(c)
    PROVE  SolanaEarned(c)'
<1> DEFINE known(status) == IF histories[c] = "failed" THEN "failed" ELSE status
<1>1. /\ pc[c] = "decode" /\ pc'[c] = "done"
      /\ UNCHANGED <<listing, nfts, assets, excluded, transfers, sales>>
      /\ histories'[c] = known(FieldStatus(c, Activity(c)))
      /\ quality'[c]["prices"] = SinglesStatus(c, {SolanaNative})
      /\ quotes'[c] = AnsweredWith(c, {SolanaNative}, "good")
      /\ gas'[c] = Delivered(c)
  BY DEF DecodeDone, GoTo, Put, CacheInv, BundlesTyped, ListingsTyped, Families
<1>2. WellListed(c)'
  BY <1>1 DEF SolanaEarned, WellListed, Strayed, ResidentGroups
<1>3. ASSUME FieldStatus(c, Activity(c)) = "complete"
      PROVE  ~ Partial(c) /\ Activity(c) \subseteq Decoded(c)
  BY <1>3 DEF FieldStatus
<1>4. ASSUME histories'[c] = "complete"
      PROVE  /\ histories[c] \notin {"failed", "truncated"}
             /\ Activity(c) \subseteq Decoded(c)
  BY <1>1, <1>3, <1>4 DEF Partial
<1>5. histories'[c] = "complete" =>
          Activity(c)' \subseteq gas'[c] \ Bare /\ transfers'[c] \intersect Feeless = {}
  BY <1>1, <1>4 DEF Decoded, Activity
<1>6. quality'[c]["prices"] = "complete" => SolanaNative \in quotes'[c]
  BY <1>1, SinglesComplete
<1>7. Activity(c)' = Activity(c) /\ Populations(c)' = Populations(c)
  BY <1>1 DEF Activity, Populations, Members, ResidentGroups
<1>8. histories'[c] = "complete" => histories[c] \in Statuses \ {"failed", "truncated"}
  BY <1>4 DEF ListingsTyped
<1>9. histories'[c] # "skipped"
  BY <1>1 DEF FieldStatus
<1> HIDE DEF known
<1>10. Outcome(c)'
  BY <1>1, <1>5, <1>6, <1>7, <1>8, <1>9 DEF SolanaEarned, Outcome, Statuses
<1> QED BY <1>2, <1>10 DEF SolanaEarned

LEMMA ListingsInit ==
    Init => ListingsTyped
BY ListingAssumption DEF Init, SolanaInit, Nothing, ListingsTyped, Listings, Statuses

LEMMA ListingsStep ==
    CacheInv /\ ListingsTyped /\ [Next]_allVars => ListingsTyped'
<1> SUFFICES ASSUME CacheInv, ListingsTyped, [Next]_allVars PROVE ListingsTyped'
  OBVIOUS
<1>1. CASE UNCHANGED solanaVars
  BY <1>1 DEF solanaVars, ListingsTyped
<1>2. ASSUME NEW c \in Candidates, SolanaStep(c) PROVE ListingsTyped'
  <2>1. CASE CallQuote(c) \/ CallTransactions(c) \/ SolanaCacheStep(c)
    BY <1>1, <2>1 DEF CallQuote, CallTransactions, SolanaCacheStep
  <2> QED BY <1>2, <2>1, ListingStepTyped, DecodeDoneTyped DEF SolanaStep, CacheInv
<1> QED BY <1>1, <1>2 DEF Next, TaskStep, allVars

LEMMA EvidenceInit ==
    Init => EvidenceEarned
<1> SUFFICES ASSUME Init, NEW c \in SolanaCandidates PROVE SolanaEarned(c)
  BY DEF EvidenceEarned
<1> DEFINE l == [group |-> Address[c], unverified |-> FALSE, page |-> 1, found |-> {}]
<1>1. /\ c \in Candidates /\ pc[c] \in {"queued", "absent"} /\ listing[c] = l
      /\ excluded[c] = FALSE
  BY DEF Init, BundleInit, SolanaInit, SolanaCandidates
<1>2. Address[c] \in Collections
  BY <1>1, ListingAssumption
<1>3. NothingSkipped(l) /\ l.group = Address[c] /\ l.unverified = FALSE
  BY <1>2, NewListing
<1> HIDE DEF l
<1> QED BY <1>1, <1>3 DEF SolanaEarned, WellListed, Strayed, Outcome

LEMMA EvidenceStep ==
    CacheInv /\ ListingsTyped /\ EvidenceEarned /\ [Next]_allVars => EvidenceEarned'
<1> SUFFICES ASSUME CacheInv, ListingsTyped, EvidenceEarned, [Next]_allVars,
                    NEW d \in SolanaCandidates
             PROVE  SolanaEarned(d)'
  BY DEF EvidenceEarned
<1>0. d \in Candidates /\ SolanaEarned(d)
  BY DEF SolanaCandidates, EvidenceEarned
<1>1. CASE UNCHANGED <<pc, bundleVars, solanaVars>>
  BY <1>0, <1>1, EvidenceKept DEF SameEvidence, SameBundle, SameListing, bundleVars, solanaVars
<1>2. ASSUME NEW c \in EvmCandidates, EvmStep(c), UNCHANGED solanaVars PROVE SolanaEarned(d)'
  <2>1. c \in Candidates /\ d # c
    BY JobsAssumption DEF SolanaCandidates
  <2>2. CASE UNCHANGED <<pc, bundleVars>>
    BY <1>1, <1>2, <2>2
  <2>3. CASE FetchBase(c) \/ JoinDone(c) \/ FlowsDone(c) \/ FinalDone(c) \/ GasDone(c)
    <3>1. SameEvidence(d)
      BY <1>0, <2>1, <2>3, OthersEvidence DEF CacheInv
    <3>2. SameListing(d)
      BY <1>2 DEF SameListing, solanaVars
    <3> QED BY <1>0, <3>1, <3>2, EvidenceKept
  <2> QED BY <1>2, <2>2, <2>3 DEF EvmStep, CallReceipts, CallSingle, CacheStep
<1>3. ASSUME NEW c \in SolanaCandidates, SolanaStep(c) PROVE SolanaEarned(d)'
  <2>0. c \in Candidates
    BY DEF SolanaCandidates
  <2>1. CASE d # c
    <3>1. SameEvidence(d) /\ SameListing(d)
      BY <1>0, <1>3, <2>0, <2>1, OthersKept DEF CacheInv
    <3> QED BY <1>0, <3>1, EvidenceKept
  <2>2. CASE d = c
    <3>1. CASE CallQuote(c) \/ CallTransactions(c) \/ SolanaCacheStep(c)
      BY <1>1, <3>1 DEF CallQuote, CallTransactions, SolanaCacheStep
    <3> QED BY <1>0, <1>3, <2>2, <3>1, CutListingEarns, ListPageEarns, ResolveEarns,
               FetchDirectEarns, FetchHistoriesEarns, DecodeDoneEarns DEF SolanaStep
  <2> QED BY <2>1, <2>2
<1> QED BY <1>1, <1>2, <1>3 DEF Next, TaskStep, allVars, vars

-----------------------------------------------------------------------------
(* The invariant from which the theorems follow.                           *)
EnrichmentInv == CacheInv /\ ListingsTyped /\ StatusesEarned /\ EvidenceEarned

LEMMA EnrichmentInvariant ==
    Spec => []EnrichmentInv
<1>1. Init => EnrichmentInv
  BY CacheInvInit, ListingsInit, StatusesInit, EvidenceInit DEF EnrichmentInv
<1>2. EnrichmentInv /\ [Next]_allVars => EnrichmentInv'
  BY CacheInvStep, ListingsStep, StatusesStep, EvidenceStep DEF EnrichmentInv
<1> QED BY <1>1, <1>2, PTL DEF Spec

(* A request is not repeated once it succeeded, and never made twice at    *)
(* the same time.                                                          *)
THEOREM RequestsAreMadeOnce ==
    Spec => []RequestedOnce
<1>1. EnrichmentInv => RequestedOnce
  <2> SUFFICES ASSUME EnrichmentInv, NEW k \in Keys
               PROVE  Cardinality({i \in 1..Len(cells[k]) :
                                      cells[k][i] \in {"asked", "good"}}) <= 1
    BY DEF RequestedOnce
  <2> DEFINE S == {i \in 1..Len(cells[k]) : cells[k][i] \in {"asked", "good"}}
  <2>1. S \subseteq {current[k]}
    BY OthersRetired DEF EnrichmentInv, CacheInv
  <2>2. IsFiniteSet({current[k]}) /\ Cardinality({current[k]}) = 1
    BY FS_Singleton
  <2>3. Cardinality(S) <= Cardinality({current[k]})
    <3> HIDE DEF S
    <3> QED BY <2>1, <2>2, FS_Subset
  <2> QED BY <2>2, <2>3
<1> QED BY <1>1, EnrichmentInvariant, PTL

(* A failure stays in the caches no longer than the calls that saw it.     *)
THEOREM FailuresAreForgotten ==
    Spec => []FailuresForgotten
<1>1. EnrichmentInv => FailuresForgotten
  BY DEF EnrichmentInv, CacheInv
<1> QED BY <1>1, EnrichmentInvariant, PTL

(* Evidence that is called complete lacks nothing.                         *)
THEOREM CompleteEvidenceIsWhole ==
    Spec => []CompleteMeansWhole
<1>1. EnrichmentInv => CompleteMeansWhole
  <2> SUFFICES ASSUME EnrichmentInv, NEW c \in EvmCandidates, pc[c] = "done",
                      HasCompleteEvidence(c)
               PROVE  /\ transfers[c] = TransferTxs[c] /\ sales[c] = SaleTxs[c]
                      /\ {Native} \union TokenQuotes[c] \subseteq quotes[c]
                      /\ Activity(c) # {} => Active[c] \subseteq operators[c]
                      /\ operators[c] = operatorFlows[c]
                      /\ Activity(c) \union UNION {FlowTxs[k] : k \in operatorFlows[c]}
                            \subseteq gas[c]
                      /\ MintsSeen(c) => Controlled[c] \subseteq controlFlows[c]
    BY DEF CompleteMeansWhole
  <2>1. StatusEarned(c) /\ \A f \in Families : quality[c][f] = "complete"
    BY DEF EnrichmentInv, StatusesEarned, HasCompleteEvidence
  <2>2. /\ transfers[c] = TransferTxs[c] /\ sales[c] = SaleTxs[c]
        /\ {Native} \union PaidIn(c) \subseteq quotes[c]
        /\ Activity(c) \subseteq gas[c] /\ flows[c] \subseteq gas[c]
        /\ MintsSeen(c) => ControlledWanted(c) \subseteq controlFlows[c]
        /\ Dated(c) # {} => Active[c] \subseteq operators[c]
        /\ Activity(c) # {} => Dated(c) # {}
        /\ operators[c] = operatorFlows[c]
        /\ flows[c] = UNION {FlowTxs[k] : k \in operators[c]}
    BY <2>1 DEF StatusEarned, Families, ActivityKnown
  <2>3. TokenQuotes[c] \subseteq {Native} \union PaidIn(c)
    BY <2>2, SinglesAssumption, JobsAssumption DEF PaidIn
  <2>4. MintsSeen(c) => ControlledWanted(c) = Controlled[c]
    BY <2>2 DEF MintsSeen, ControlledWanted, Activity
  <2> QED BY <2>2, <2>3, <2>4
<1> QED BY <1>1, EnrichmentInvariant, PTL

(* Solana evidence that is called complete lacks nothing, and who is        *)
(* excluded has no NFT.                                                    *)
THEOREM SolanaEvidenceIsWhole ==
    Spec => []SolanaCompleteMeansWhole
<1>1. EnrichmentInv => SolanaCompleteMeansWhole
  <2> SUFFICES ASSUME EnrichmentInv, NEW c \in SolanaCandidates, pc[c] = "done",
                      HasCompleteSolanaEvidence(c)
               PROVE  IF excluded[c] THEN Resident[c] # {} /\ Resident[c] \subseteq NonNfts
                      ELSE /\ nfts[c] \in Populations(c)
                           /\ Activity(c) = UNION {History[n] : n \in nfts[c]}
                           /\ Activity(c) \subseteq gas[c] \ Bare
                           /\ transfers[c] \intersect Feeless = {}
                           /\ SolanaNative \in quotes[c]
    BY DEF SolanaCompleteMeansWhole
  <2>1. Outcome(c)
    BY DEF EnrichmentInv, EvidenceEarned, SolanaEarned
  <2>2. CASE excluded[c]
    BY <2>1, <2>2 DEF Outcome
  <2>3. CASE ~ excluded[c]
    <3>1. /\ assets[c] = "complete" /\ histories[c] = "complete"
          /\ quality[c]["prices"] = "complete"
      BY <2>3 DEF HasCompleteSolanaEvidence, HasCompleteEvidence, Families
    <3> QED BY <2>1, <2>3, <3>1 DEF Outcome
  <2> QED BY <2>2, <2>3
<1> QED BY <1>1, EnrichmentInvariant, PTL
=============================================================================
