---------------------------- MODULE EvmCollector ----------------------------
(***************************************************************************)
(* The EVM collector as it is deployed: the log scanner of                 *)
(* src/fetch/evm/log_scanner.py in one terminal, the metadata workers in   *)
(* another, meeting only in the PostgreSQL tables and the .env file.       *)
(*                                                                         *)
(* The scanner walks the chain downwards in ranges of BlockBatchSize       *)
(* blocks.  eth_getLogs requests for the next ScanWindow ranges run ahead  *)
(* as asyncio tasks and finish in any order; their results are persisted   *)
(* strictly in the order they were enqueued, each by two commits: the      *)
(* staging rows, then the checkpoint.                                      *)
(***************************************************************************)
EXTENDS MetadataFetcher, Sequences

CONSTANTS
    Topics,         \* the NFT event topics, one request each per range
    Transfers,      \* the chain: records of a block, a topic and an NFT
    TopBlock,       \* END_BLOCK, or the latest block of the first start
    StopBlock,      \* max(START_BLOCK, 0)
    BlockBatchSize, \* BLOCK_BATCH_SIZE
    ScanWindow,     \* SCAN_WINDOW
    MaxOutages,     \* bound: ranges for which some topic request fails
    MaxCrashes      \* bound: crashes, kills and stop requests of the scanner

ASSUME BlocksAssumption == StopBlock \in Nat /\ TopBlock \in Nat
ASSUME NoBlockAssumption == NoBlock \notin Int
ASSUME TransfersType ==
    Transfers \subseteq [block : StopBlock..TopBlock, topic : Topics, nft : NFTs]
ASSUME WindowAssumption ==
    BlockBatchSize \in Nat \ {0} /\ ScanWindow \in Nat \ {0}
ASSUME ScanBounds == MaxOutages \in Nat /\ MaxCrashes \in Nat

VARIABLES
    scanPc,         \* where the scanner is
    curBlock,       \* cur_block: the highest block not yet enqueued
    window,         \* enqueued ranges and their tasks, oldest first
    batch,          \* the range popped last
    seen,           \* keys known at start or staged since
    banList,        \* the blacklist, read once at start
    scanStop,       \* the scanner's stop event
    outages,        \* ranges with a failed request so far
    crashes,        \* crashes and stop requests so far
    missed          \* history: transfers of persisted ranges whose topic
                    \* request failed

scanVars == <<scanPc, curBlock, window, batch, seen, banList, scanStop, outages,
              crashes, missed>>
scannerVars == <<tableVars, scanVars>>

\* A range with its task: whether it is done, and the topics whose request
\* succeeded (a failed request answers with an empty list).
RangeType == [from : Int, to : Int, done : BOOLEAN, ok : SUBSET Topics]

\* Before the first range is popped.
NoRange == [from |-> 0, to |-> 0, done |-> FALSE, ok |-> {}]

MaxOf(a, b) == IF a >= b THEN a ELSE b

TransfersIn(r) == {t \in Transfers : t.block \in r.from..r.to}

Answered(r) == {t \in TransfersIn(r) : t.topic \in r.ok}

\* _next_range: the range that ends at block b, and its task just created.
RangeAt(b) == [from |-> MaxOf(b - BlockBatchSize + 1, StopBlock), to |-> b,
               done |-> FALSE, ok |-> {}]

\* How many ranges are left at and below block b.
RangesLeft(b) == IF b < StopBlock THEN 0
                 ELSE (b - StopBlock) \div BlockBatchSize + 1

MinOf(a, b) == IF a <= b THEN a ELSE b

\* The window after the initial fill from block b.
FirstWindow(b) ==
    [i \in 1..MinOf(ScanWindow, RangesLeft(b)) |->
        RangeAt(b - (i - 1) * BlockBatchSize)]

----------------------------------------------------------------------------
ScanInit ==
    /\ scanPc = "down"
    /\ curBlock = 0
    /\ window = <<>>
    /\ batch = NoRange
    /\ seen = {}
    /\ banList = {}
    /\ scanStop = FALSE
    /\ outages = 0
    /\ crashes = 0
    /\ missed = {}

ResumeBlock == IF checkpoint = NoBlock THEN TopBlock ELSE checkpoint - 1

(* main() up to the loop: resume below the checkpoint, load the known keys *)
(* and the blacklist, fill the window.  A scan that is complete exits      *)
(* here without changing anything.                                         *)
ScanStart ==
    LET first == FirstWindow(ResumeBlock) IN
    /\ scanPc = "down"
    /\ ResumeBlock >= StopBlock
    /\ window' = first
    /\ curBlock' = first[Len(first)].from - 1
    /\ seen' = Rows \union main
    /\ banList' = env
    /\ scanStop' = FALSE
    /\ scanPc' = "next"
    /\ UNCHANGED <<tableVars, batch, outages, crashes, missed>>

(* fetch_logs_http: the three requests of a range end, in no order between *)
(* ranges; a failed one only leaves its topic out.                         *)
Finished(r, ok) ==
    /\ ~r.done
    /\ outages' = IF ok = Topics THEN outages ELSE outages + 1
    /\ outages' <= MaxOutages

TaskDone(i) ==
    /\ i \in 1..Len(window)
    /\ \E ok \in SUBSET Topics :
          /\ Finished(window[i], ok)
          /\ window' = [window EXCEPT ![i].done = TRUE, ![i].ok = ok]
    /\ UNCHANGED <<tableVars, scanPc, curBlock, batch, seen, banList, scanStop,
                   crashes, missed>>

BatchDone ==
    /\ scanPc = "await"
    /\ \E ok \in SUBSET Topics :
          /\ Finished(batch, ok)
          /\ batch' = [batch EXCEPT !.done = TRUE, !.ok = ok]
    /\ UNCHANGED <<tableVars, scanPc, curBlock, window, seen, banList, scanStop,
                   crashes, missed>>

(* window.popleft(), and one range is enqueued in its place unless a stop  *)
(* was requested or the lower bound is reached.                            *)
PopBatch ==
    /\ scanPc = "next"
    /\ window # <<>>
    /\ batch' = Head(window)
    /\ IF ~scanStop /\ curBlock >= StopBlock
       THEN /\ window' = Append(Tail(window), RangeAt(curBlock))
            /\ curBlock' = RangeAt(curBlock).from - 1
       ELSE /\ window' = Tail(window)
            /\ UNCHANGED curBlock
    /\ scanPc' = "await"
    /\ UNCHANGED <<tableVars, seen, banList, scanStop, outages, crashes, missed>>

(* _extract_records over the awaited logs and the first commit of          *)
(* _persist_batch: keys that are new and not blacklisted are staged.       *)
Candidates == {t.nft : t \in Answered(batch)} \ (seen \union OfContracts(banList))

StageBatch ==
    /\ scanPc = "await"
    /\ batch.done
    /\ seen' = seen \union Candidates
    /\ InsertTemp(Candidates)
    /\ scanPc' = "save"
    /\ UNCHANGED <<main, checkpoint, env, listed, curBlock, window, batch,
                   banList, scanStop, outages, crashes, missed>>

\* Mutant: the checkpoint is taken from the newest range of the window.
SaveWindowProgress ==
    /\ scanPc = "save"
    /\ checkpoint' = curBlock + 1
    /\ missed' = missed \union (TransfersIn(batch) \ Answered(batch))
    /\ batch' = NoRange
    /\ scanPc' = "next"
    /\ UNCHANGED <<temp, nextId, main, env, staged, listed, curBlock, window,
                   seen, banList, scanStop, outages, crashes>>

(* The second commit of _persist_batch. *)
SaveProgress ==
    /\ scanPc = "save"
    /\ checkpoint' = batch.from
    /\ missed' = missed \union (TransfersIn(batch) \ Answered(batch))
    /\ batch' = NoRange
    /\ scanPc' = "next"
    /\ UNCHANGED <<temp, nextId, main, env, staged, listed, curBlock, window,
                   seen, banList, scanStop, outages, crashes>>

\* Mutant: a restarted scanner finds the old window.
VanishKeepingWindow ==
    /\ scanPc' = "down"
    /\ UNCHANGED window
    /\ curBlock' = 0
    /\ batch' = NoRange
    /\ seen' = {}
    /\ banList' = {}
    /\ scanStop' = FALSE

Vanish ==
    /\ scanPc' = "down"
    /\ curBlock' = 0
    /\ window' = <<>>
    /\ batch' = NoRange
    /\ seen' = {}
    /\ banList' = {}
    /\ scanStop' = FALSE

(* The window is drained: the scan is complete or was interrupted. *)
ScanExit ==
    /\ scanPc = "next"
    /\ window = <<>>
    /\ Vanish
    /\ UNCHANGED <<tableVars, outages, crashes, missed>>

(* SIGINT or SIGTERM: no new range is enqueued. *)
RequestScanStop ==
    /\ scanPc # "down"
    /\ ~scanStop
    /\ crashes < MaxCrashes
    /\ crashes' = crashes + 1
    /\ scanStop' = TRUE
    /\ UNCHANGED <<tableVars, scanPc, curBlock, window, batch, seen, banList,
                   outages, missed>>

(* A kill, or a database error that leaves main() through finally. *)
ScanCrash ==
    /\ scanPc # "down"
    /\ crashes < MaxCrashes
    /\ crashes' = crashes + 1
    /\ Vanish
    /\ UNCHANGED <<tableVars, outages, missed>>

ScanNext ==
    \/ ScanStart
    \/ \E i \in 1..ScanWindow : TaskDone(i)
    \/ BatchDone
    \/ PopBatch
    \/ StageBatch
    \/ SaveProgress
    \/ ScanExit
    \/ RequestScanStop
    \/ ScanCrash

\* The operator runs the scanner again until it reports completion; the
\* event loop ends every request and goes on.
ScanFairness ==
    /\ WF_scannerVars(ScanStart)
    /\ \A i \in 1..ScanWindow : WF_scannerVars(TaskDone(i))
    /\ WF_scannerVars(BatchDone)
    /\ WF_scannerVars(PopBatch)
    /\ WF_scannerVars(StageBatch)
    /\ WF_scannerVars(SaveProgress)
    /\ WF_scannerVars(ScanExit)

----------------------------------------------------------------------------
(* The scanner's variables keep their types, the window its size, and a    *)
(* scanner that is down has none.                                          *)
ScannerTypeOK ==
    /\ TablesTypeOK
    /\ scanPc \in {"down", "next", "await", "save"}
    /\ curBlock \in Int
    /\ window \in Seq(RangeType)
    /\ batch \in RangeType
    /\ seen \subseteq NFTs
    /\ banList \subseteq Contracts
    /\ scanStop \in BOOLEAN
    /\ outages \in Nat
    /\ crashes \in Nat
    /\ missed \subseteq Transfers
    /\ Len(window) <= ScanWindow
    /\ scanPc = "down" => window = <<>> /\ batch = NoRange

(* "Scan NFT Transfer events into the staging table and checkpoint block   *)
(* progress": the checkpoint never passes a transfer that was not staged,  *)
(* but for a blacklisted contract or a failed eth_getLogs request, however *)
(* requests finish and wherever the scanner dies between its two commits.  *)
CheckpointCoversScan ==
    checkpoint # NoBlock =>
        \A t \in Transfers :
            t.block >= checkpoint =>
                \/ t.nft \in staged
                \/ ContractOf[t.nft] \in listed
                \/ t \in missed

----------------------------------------------------------------------------
(* The scanner and the workers: a step of the system is a step of one.     *)

collectorVars == <<tableVars, fetchVars, scanVars>>

CollectorInit == TablesInit /\ FetchInit /\ ScanInit

CollectorNext ==
    \/ ScanNext /\ UNCHANGED fetchVars
    \/ FetchNext /\ UNCHANGED scanVars

CollectorSpec == CollectorInit /\ [][CollectorNext]_collectorVars

\* Both programs run, with the fairness of their own modules.
CollectorFairSpec == CollectorSpec /\ FetchFairness /\ ScanFairness

----------------------------------------------------------------------------
(* From the chain to the asset table: a transfer in a range the checkpoint *)
(* has passed is waiting in the staging table, has become an asset, or was *)
(* left out because of its token URI, the blacklist or a failed request of *)
(* one of the two providers.  Nothing is lost in the hand-over, whoever    *)
(* crashes between whichever commits.                                      *)
EveryTransferAccounted ==
    checkpoint # NoBlock =>
        \A t \in Transfers :
            t.block >= checkpoint =>
                \/ HasRow(t.nft)
                \/ t.nft \in main
                \/ KindOf[t.nft] = "nouri"
                \/ ContractOf[t.nft] \in listed
                \/ t.nft \in unanswered
                \/ t \in missed

(* Once nobody asks to stop any more and a worker lives on, the whole      *)
(* range is scanned and the staging table drained, also of the rows of a   *)
(* worker that died with its claims, and it stays so.                      *)
CollectionFinishes ==
    <>[](Alive # {} /\ ~stop) => <>[](ResumeBlock < StopBlock /\ Rows = {})
=============================================================================
