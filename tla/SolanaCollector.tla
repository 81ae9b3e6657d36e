--------------------------- MODULE SolanaCollector ---------------------------
(***************************************************************************)
(* The Solana collector as it is deployed: the scanner of SolanaScanner    *)
(* and the metadata workers of src/fetch/solana/metadata_fetcher.py.  A    *)
(* worker claims rows, asks Helius for their metadata, upserts what is     *)
(* usable into nft_assets_solana on one connection and deletes the rows on *)
(* another.  The asset of a mint is reduced to the slot whose state of the *)
(* account its metadata shows.                                             *)
(***************************************************************************)
EXTENDS SolanaScanner

CONSTANTS
    Usable,         \* mints with a token URI and an image that are no data URL
    ClaimBatch      \* FETCH_CLAIM_BATCH_SIZE

ASSUME UsableType == Usable \subseteq Mints
ASSUME ClaimBatchAssumption == ClaimBatch \in Nat \ {0}

VARIABLES
    main,           \* nft_assets_solana: mint -> slot of its metadata, 0: no asset
    pc,             \* where each worker is
    pending,        \* pending_ids with their mints
    inserts,        \* all_inserts, with the slot the provider answered for
    failed,         \* connections whose transaction PostgreSQL has aborted
    stop,           \* the workers' stop event
    unanswered,     \* history: mints whose request failed
    shared,         \* history: mints whose claim once outlived the limit
    killed          \* history: workers that died holding claims

workerVars == <<main, pc, pending, inserts, failed, stop, unanswered, shared, killed>>
vars == <<scannerVars, workerVars>>

Ticket == [id : Nat, mint : Mints]
Connections == {"insert", "delete"}

TicketOf(m) == [id |-> temp[m].id, mint |-> m]
TicketOn(ts, m) == HasRow(m) /\ TicketOf(m) \in ts

Alive == {w \in Workers : pc[w] # "down"}

GoTo(w, l) == pc' = [pc EXCEPT ![w] = l]

Init ==
    /\ ScanInit
    /\ main = [m \in Mints |-> 0]
    /\ pc = [w \in Workers |-> "claim"]
    /\ pending = [w \in Workers |-> {}]
    /\ inserts = [w \in Workers |-> {}]
    /\ failed = [w \in Workers |-> {}]
    /\ stop = FALSE
    /\ unanswered = {} /\ shared = {} /\ killed = {}

----------------------------------------------------------------------------
(* claim_pending_nfts: a row is claimable when its claim is absent or old. *)
Claimable(m) == HasRow(m) /\ (temp[m].by = NoWorker \/ temp[m].aged)

(* Rows another worker's transaction may have locked at this moment.       *)
LockableByOthers(w) ==
    {m \in Rows : \E v \in Alive \ {w} : Claimable(m) \/ TicketOn(pending[v], m)}

(* The oldest claimable rows that are not locked, at most a batch.         *)
Oldest(ms, chosen) ==
    /\ chosen \subseteq ms
    /\ Cardinality(chosen) <= ClaimBatch
    /\ chosen # ms => Cardinality(chosen) = ClaimBatch
    /\ \A c \in chosen, r \in ms \ chosen : temp[c].id <= temp[r].id

Claim(w) ==
    /\ pc[w] = "claim"
    /\ ~stop
    /\ \E locked \in SUBSET LockableByOthers(w) : \E ms \in SUBSET Rows :
          /\ ms # {}
          /\ Oldest({m \in Rows : Claimable(m)} \ locked, ms)
          /\ temp' = [m \in Mints |->
                        IF m \in ms THEN [temp[m] EXCEPT !.by = w, !.aged = FALSE]
                                    ELSE temp[m]]
          /\ pending' = [pending EXCEPT ![w] = {TicketOf(m) : m \in ms}]
    /\ GoTo(w, "fetch")
    /\ UNCHANGED <<chainVars, nextId, scanVars, faults, main, inserts, failed,
                   stop, unanswered, shared, killed>>

(* _fetch_all: the usable answers become inserts; every row of the batch,  *)
(* also one whose request exhausted its attempts, will be deleted.         *)
FetchAll(w) ==
    LET mints == {t.mint : t \in pending[w]} IN
    /\ pc[w] = "fetch"
    /\ \E silent \in SUBSET mints :
          /\ IF silent = {} THEN UNCHANGED faults ELSE Fault
          /\ inserts' = [inserts EXCEPT ![w] =
                {[mint |-> m, at |-> changed[m]] : m \in (mints \ silent) \intersect Usable}]
          /\ unanswered' = unanswered \union silent
    /\ GoTo(w, "insert")
    /\ UNCHANGED <<chainVars, stagingVars, scanVars, main, pending, failed, stop,
                   shared, killed>>

\* Mutant: an error of the upsert is swallowed.
InsertMainUnchecked(w) ==
    /\ pc[w] = "insert"
    /\ main' \in {main, [m \in Mints |->
                           IF \E r \in inserts[w] : r.mint = m
                           THEN (CHOOSE r \in inserts[w] : r.mint = m).at
                           ELSE main[m]]}
    /\ inserts' = [inserts EXCEPT ![w] = {}]
    /\ GoTo(w, "delete")
    /\ UNCHANGED <<scannerVars, pending, failed, stop, unanswered, shared, killed>>

(* batch_insert_main: ON CONFLICT DO UPDATE, one transaction; without      *)
(* records it does not touch the connection.                               *)
InsertMain(w) ==
    /\ pc[w] = "insert"
    /\ inserts[w] = {} \/ "insert" \notin failed[w]
    /\ main' = [m \in Mints |->
                  IF \E r \in inserts[w] : r.mint = m
                  THEN (CHOOSE r \in inserts[w] : r.mint = m).at
                  ELSE main[m]]
    /\ inserts' = [inserts EXCEPT ![w] = {}]
    /\ GoTo(w, "delete")
    /\ UNCHANGED <<scannerVars, pending, failed, stop, unanswered, shared, killed>>

(* delete_temp_nfts: by id, whoever holds the claim. *)
DeleteRows(w) ==
    /\ pc[w] = "delete"
    /\ "delete" \notin failed[w]
    /\ temp' = [m \in Mints |-> IF TicketOn(pending[w], m) THEN NoRow ELSE temp[m]]
    /\ pending' = [pending EXCEPT ![w] = {}]
    /\ GoTo(w, "claim")
    /\ UNCHANGED <<chainVars, nextId, scanVars, faults, main, inserts, failed,
                   stop, unanswered, shared, killed>>

(* release_temp_claims: rows of the batch that the worker still holds.     *)
Release(w, l) ==
    /\ temp' = [m \in Mints |->
                  IF TicketOn(pending[w], m) /\ temp[m].by = w
                  THEN [temp[m] EXCEPT !.by = NoWorker, !.aged = FALSE]
                  ELSE temp[m]]
    /\ pending' = [pending EXCEPT ![w] = {}]
    /\ inserts' = [inserts EXCEPT ![w] = {}]
    /\ GoTo(w, l)

(* The except branch.  An SQL error leaves the connection inside an        *)
(* aborted transaction; nothing rolls it back, so every later statement on *)
(* it fails as well, until the process is started again.                   *)
BatchFails(w) ==
    /\ \/ pc[w] = "fetch" /\ Fault /\ UNCHANGED failed
       \/ /\ pc[w] = "insert" /\ inserts[w] # {}
          /\ IF "insert" \in failed[w] THEN UNCHANGED faults ELSE Fault
          /\ failed' = [failed EXCEPT ![w] = @ \union {"insert"}]
       \/ /\ pc[w] = "delete"
          /\ IF "delete" \in failed[w] THEN UNCHANGED faults ELSE Fault
          /\ failed' = [failed EXCEPT ![w] = @ \union {"delete"}]
    /\ Release(w, "claim")
    /\ UNCHANGED <<chainVars, nextId, scanVars, main, stop, unanswered, shared,
                   killed>>

(* The stop event is looked at before a claim and right after it; an error *)
(* of claim_pending_nfts leaves the same way.                              *)
Leave(w) ==
    /\ \/ stop /\ pc[w] \in {"claim", "fetch"} /\ UNCHANGED faults
       \/ pc[w] = "claim" /\ Fault
    /\ Release(w, "down")
    /\ failed' = [failed EXCEPT ![w] = {}]
    /\ UNCHANGED <<chainVars, nextId, scanVars, main, stop, unanswered, shared,
                   killed>>

(* proc.terminate() after the grace period, or any kill. *)
Kill(w) ==
    /\ pc[w] # "down"
    /\ Fault
    /\ killed' = killed \union {w}
    /\ pending' = [pending EXCEPT ![w] = {}]
    /\ inserts' = [inserts EXCEPT ![w] = {}]
    /\ failed' = [failed EXCEPT ![w] = {}]
    /\ GoTo(w, "down")
    /\ UNCHANGED <<chainVars, stagingVars, scanVars, main, stop, unanswered, shared>>

RequestStop ==
    /\ ~stop
    /\ Fault
    /\ stop' = TRUE
    /\ UNCHANGED <<chainVars, stagingVars, scanVars, main, pc, pending, inserts,
                   failed, unanswered, shared, killed>>

(* main() waits for every worker, so a new set starts when all are gone.   *)
Rerun ==
    /\ Alive = {}
    /\ pc' = [w \in Workers |-> "claim"]
    /\ stop' = FALSE
    /\ UNCHANGED <<scannerVars, main, pending, inserts, failed, unanswered,
                   shared, killed>>

(* A claim grows older than CLAIM_RETRY_AFTER_SECONDS. *)
Aging(m) ==
    /\ HasRow(m)
    /\ temp[m].by # NoWorker
    /\ ~temp[m].aged
    /\ temp' = [temp EXCEPT ![m].aged = TRUE]
    /\ shared' = shared \union {m}
    /\ UNCHANGED <<chainVars, nextId, scanVars, faults, main, pc, pending,
                   inserts, failed, stop, unanswered, killed>>

Next ==
    \/ \E m \in Mints : Touch(m) /\ UNCHANGED workerVars
    \/ ScanStart /\ UNCHANGED workerVars
    \/ GetSlot /\ UNCHANGED workerVars
    \/ PageAnswered /\ UNCHANGED workerVars
    \/ TakePage /\ UNCHANGED workerVars
    \/ InsertPage /\ UNCHANGED workerVars
    \/ SaveProgress /\ UNCHANGED workerVars
    \/ RequestScanStop /\ UNCHANGED workerVars
    \/ ScanCrash /\ UNCHANGED workerVars
    \/ \E w \in Workers :
          \/ Claim(w)
          \/ FetchAll(w)
          \/ InsertMain(w)
          \/ DeleteRows(w)
          \/ BatchFails(w)
          \/ Leave(w)
          \/ Kill(w)
    \/ RequestStop
    \/ Rerun
    \/ \E m \in Mints : Aging(m)

Spec == Init /\ [][Next]_vars

\* Both programs go on, the operator starts them again, claims grow old.
Fairness ==
    /\ ScanFairness
    /\ \A w \in Workers :
          /\ WF_vars(Claim(w))
          /\ WF_vars(FetchAll(w))
          /\ WF_vars(InsertMain(w) \/ BatchFails(w))
          /\ WF_vars(DeleteRows(w) \/ BatchFails(w))
          /\ WF_vars(stop /\ Leave(w))
    /\ WF_vars(Rerun)
    /\ \A m \in Mints : WF_vars(Aging(m))

FairSpec == Spec /\ Fairness

----------------------------------------------------------------------------
(* Every variable keeps its type; a worker without a batch has no rows, a  *)
(* scanner that is down no page.                                           *)
TypeOK ==
    /\ slot \in Slots /\ changed \in [Mints -> Slots]
    /\ temp \in [Mints -> RowType \union {NoRow}] /\ nextId \in Nat
    /\ cursor \in Pages /\ since \in Nat
    /\ scanPc \in {"down", "slot", "await", "insert", "save"}
    /\ runSince \in Nat /\ latest \in Slots
    /\ task \in PageType /\ page \in PageType
    /\ scanStop \in BOOLEAN /\ stop \in BOOLEAN /\ faults \in 0..MaxFaults
    /\ seenAt \in [Mints -> Slots] /\ passBegan \in Slots /\ savedBegan \in Slots
    /\ gaps \subseteq Slots /\ waived \subseteq Nat
    /\ overlooked \union unanswered \union shared \subseteq Mints
    /\ killed \subseteq Workers
    /\ main \in [Mints -> Slots]
    /\ pc \in [Workers -> {"claim", "fetch", "insert", "delete", "down"}]
    /\ pending \in [Workers -> SUBSET Ticket]
    /\ inserts \in [Workers -> SUBSET [mint : Mints, at : Slots]]
    /\ failed \in [Workers -> SUBSET Connections]
    /\ \A w \in Workers : pc[w] \in {"claim", "down"} => pending[w] = {}
    /\ scanPc = "down" => task = NoPage /\ page = NoPage

(* "Checkpoint pagination and changedSinceSlot for resumable incremental   *)
(* scans": every account that changed up to the slot the next pass starts  *)
(* from was staged as it is, unless the operator chose a later slot.       *)
NoChangeMissed ==
    \A m \in Mints :
        changed[m] \in 1..since => seenAt[m] = changed[m] \/ changed[m] \in waived

(* The same, except for the slots that a resumed pass skips because it     *)
(* saves the slot at which it was resumed and not the one at which it      *)
(* began: wherever the scanner dies or stops, nothing else is missed.      *)
ChangesSeen ==
    \A m \in Mints :
        changed[m] \in 1..since =>
            seenAt[m] = changed[m] \/ changed[m] \in waived \union gaps

(* From the chain to the asset table: a mint the scanner has seen is       *)
(* staged, or its asset is at least as new as what the scanner saw, unless *)
(* the mint is unusable, the provider failed, a worker already held its    *)
(* row when it was seen again, or two workers shared its row.              *)
AssetCoversSeen ==
    \A m \in Mints :
        seenAt[m] # 0 =>
            \/ HasRow(m)
            \/ main[m] >= seenAt[m]
            \/ m \notin Usable \/ m \in unanswered \union overlooked \union shared

(* "released %d claims for retry": after an error of a batch its rows are  *)
(* eventually processed by somebody, as long as the programs are running.  *)
EveryRowLeaves == \A m \in Mints : HasRow(m) ~> ~HasRow(m)
=============================================================================
