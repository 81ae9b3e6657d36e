---------------------------- MODULE SolanaScanner ----------------------------
(***************************************************************************)
(* The Solana discovery program, src/fetch/solana/tx_scanner.py, over the  *)
(* staging table and the scan_progress_gpa row.  It pages through the      *)
(* Metaplex accounts that changed after a slot, always fetching one page   *)
(* ahead, and commits each page twice: the staging rows, then the cursor   *)
(* with the slot the next pass starts from.                                *)
(*                                                                         *)
(* The chain is external: accounts appear and change while a pass runs.    *)
(* Accounts are listed in a fixed key order, cut into pages; page 1 is     *)
(* what a NULL pagination_key asks for.                                    *)
(***************************************************************************)
EXTENDS Integers, FiniteSets

CONSTANTS
    Mints,          \* Metaplex mints
    LastPage,       \* pages of the account listing
    PageOf,         \* the page a mint is listed on
    Workers,        \* metadata worker processes
    NoWorker,       \* claimed_by IS NULL
    NoRow,          \* the mint has no staging row
    SinceSettings,  \* values of GPA_SINCE_SLOT an operator runs with
    MaxSlot,        \* bound: slots of the chain
    MaxFaults       \* bound: errors, kills and stop requests of all programs

ASSUME PagesType == LastPage \in Nat \ {0} /\ PageOf \in [Mints -> 1..LastPage]
ASSUME NoWorkerAssumption == NoWorker \notin Workers
ASSUME SolanaBounds ==
    MaxSlot \in Nat /\ MaxFaults \in Nat /\ SinceSettings \subseteq Nat

VARIABLES
    slot, changed,  \* the chain: its slot, when each mint last changed (0: never)
    temp,           \* temp_solana: mint -> staging row or NoRow
    nextId,         \* the sequence of temp_solana.id
    cursor, since,  \* scan_progress_gpa: pagination_key (1: NULL), since_slot
    scanPc,         \* where the scanner is
    runSince,       \* since_slot of this run
    latest,         \* latest_slot, read once per run; 0 if that failed
    task,           \* the prefetched page
    page,           \* the page being persisted
    scanStop,       \* the scanner's stop event
    faults,         \* faults so far
    seenAt,         \* history: when staged last, the mint had changed at this slot
    overlooked,     \* history: mints staged again while a worker held their row
    passBegan,      \* history: the slot at which this run's pass began
    savedBegan,     \* history: the slot at which the pass of the cursor began
    gaps,           \* history: slots a resumed pass skipped
    waived          \* history: slots the operator chose to skip

stagingVars == <<temp, nextId>>
chainVars == <<slot, changed>>
scanVars == <<cursor, since, scanPc, runSince, latest, task, page, scanStop,
              seenAt, overlooked, passBegan, savedBegan, gaps, waived>>
scannerVars == <<chainVars, stagingVars, scanVars, faults>>

Claimant == Workers \union {NoWorker}
RowType == [id : Nat, by : Claimant, aged : BOOLEAN]

ASSUME NoRowAssumption == NoRow \notin RowType

Pages == 1..LastPage
Slots == 0..MaxSlot

\* A page request: its key, whether it was answered, and the mints found
\* (with the slot they had last changed at, which the program never sees).
PageType == [key : 0..LastPage, done : BOOLEAN,
             found : SUBSET [mint : Mints, at : Slots]]

NoPage == [key |-> 0, done |-> FALSE, found |-> {}]
Request(k) == [key |-> k, done |-> FALSE, found |-> {}]

Fault == faults < MaxFaults /\ faults' = faults + 1

HasRow(m) == temp[m] # NoRow
Rows == {m \in Mints : HasRow(m)}
MintsOf(found) == {f.mint : f \in found}

----------------------------------------------------------------------------
ScanInit ==
    /\ slot = 1
    /\ changed \in [Mints -> {0, 1}]
    /\ temp = [m \in Mints |-> NoRow]
    /\ nextId = 1
    /\ cursor = 1 /\ since = 0
    /\ scanPc = "down"
    /\ runSince = 0 /\ latest = 0
    /\ task = NoPage /\ page = NoPage
    /\ scanStop = FALSE
    /\ faults = 0
    /\ seenAt = [m \in Mints |-> 0]
    /\ overlooked = {}
    /\ passBegan = 0 /\ savedBegan = 0
    /\ gaps = {} /\ waived = {}

(* The chain: the next slot creates or changes one account. *)
Touch(m) ==
    /\ slot < MaxSlot
    /\ slot' = slot + 1
    /\ changed' = [changed EXCEPT ![m] = slot + 1]
    /\ UNCHANGED <<stagingVars, scanVars, faults>>

(* _resolve_scan_state: an older or equal GPA_SINCE_SLOT changes nothing;  *)
(* a newer one starts a new pass from that slot.                           *)
Resolved(env) ==
    IF since >= env THEN [since |-> since, key |-> cursor]
                    ELSE [since |-> env, key |-> 1]

(* main() up to getSlot. *)
ScanStart ==
    /\ scanPc = "down"
    /\ \E env \in SinceSettings :
          /\ runSince' = Resolved(env).since
          /\ task' = Request(Resolved(env).key)
          /\ waived' = waived \union (since + 1)..env
    /\ scanStop' = FALSE
    /\ scanPc' = "slot"
    /\ UNCHANGED <<chainVars, stagingVars, cursor, since, latest, page, faults,
                   seenAt, overlooked, passBegan, savedBegan, gaps>>

(* get_latest_slot answers 0 on any error; the first page is requested     *)
(* after it.                                                               *)
GetSlot ==
    /\ scanPc = "slot"
    /\ \/ latest' = slot /\ UNCHANGED faults
       \/ latest' = 0 /\ Fault
    /\ passBegan' = IF task.key = 1 THEN slot ELSE savedBegan
    /\ scanPc' = "await"
    /\ UNCHANGED <<chainVars, stagingVars, cursor, since, runSince, task, page,
                   scanStop, seenAt, overlooked, savedBegan, gaps, waived>>

(* fetch_gpa_page is answered: the accounts of the page that changed after *)
(* the slot, as they are at this moment.                                   *)
PageAnswered ==
    /\ scanPc \notin {"down", "slot"}
    /\ task.key # 0
    /\ ~task.done
    /\ task' = [task EXCEPT
          !.done = TRUE,
          !.found = {[mint |-> m, at |-> changed[m]] :
                        m \in {n \in Mints : /\ PageOf[n] = task.key
                                             /\ changed[n] > runSince}}]
    /\ UNCHANGED <<chainVars, stagingVars, cursor, since, scanPc, runSince,
                   latest, page, scanStop, faults, seenAt, overlooked,
                   passBegan, savedBegan, gaps, waived>>

(* The awaited page; the request for the page behind it starts at once.    *)
TakePage ==
    /\ scanPc = "await"
    /\ task.done
    /\ page' = task
    /\ task' = IF task.key < LastPage THEN Request(task.key + 1) ELSE NoPage
    /\ scanPc' = "insert"
    /\ UNCHANGED <<chainVars, stagingVars, cursor, since, runSince, latest,
                   scanStop, faults, seenAt, overlooked, passBegan,
                   savedBegan, gaps, waived>>

(* batch_insert_temp: INSERT ... ON CONFLICT (mint_address) DO NOTHING.    *)
InsertTemp(ms) ==
    /\ temp' = [m \in Mints |->
                  IF m \in ms \ Rows
                  THEN [id |-> nextId, by |-> NoWorker, aged |-> FALSE]
                  ELSE temp[m]]
    /\ nextId' = IF ms \ Rows = {} THEN nextId ELSE nextId + 1

InsertPage ==
    /\ scanPc = "insert"
    /\ InsertTemp(MintsOf(page.found))
    /\ seenAt' = [m \in Mints |->
                    IF \E f \in page.found : f.mint = m
                    THEN (CHOOSE f \in page.found : f.mint = m).at
                    ELSE seenAt[m]]
    /\ overlooked' = (overlooked \ MintsOf(page.found)) \union
          {m \in MintsOf(page.found) : HasRow(m) /\ temp[m].by # NoWorker}
    /\ scanPc' = "save"
    /\ UNCHANGED <<chainVars, cursor, since, runSince, latest, task, page,
                   scanStop, faults, passBegan, savedBegan, gaps, waived>>

\* Mutant: the prefetched page is not dropped.
ScannerGoneKeepingTask ==
    /\ scanPc' = "down"
    /\ runSince' = 0 /\ latest' = 0
    /\ page' = NoPage
    /\ scanStop' = FALSE
    /\ UNCHANGED task

(* The scanner is gone with its memory. *)
ScannerGone ==
    /\ scanPc' = "down"
    /\ runSince' = 0 /\ latest' = 0
    /\ task' = NoPage /\ page' = NoPage
    /\ scanStop' = FALSE

\* Mutant: the observed slot is saved with every page.
SaveProgressEarly ==
    LET last == page.key = LastPage IN
    /\ scanPc = "save"
    /\ cursor' = IF last THEN 1 ELSE page.key + 1
    /\ since' = IF latest > 0 THEN latest ELSE runSince
    /\ gaps' = IF last /\ latest > 0 THEN gaps \union (passBegan + 1)..latest
                                     ELSE gaps
    /\ IF last \/ scanStop
       THEN ScannerGone
       ELSE /\ scanPc' = "await"
            /\ page' = NoPage
            /\ UNCHANGED <<runSince, latest, task, scanStop>>
    /\ savedBegan' = passBegan
    /\ UNCHANGED <<chainVars, stagingVars, faults, seenAt, overlooked, passBegan,
                   waived>>

(* save_gpa_progress with _progress_since_slot: while paging, the slot of  *)
(* the pass; after the last page, the slot this run observed at its start. *)
SaveProgress ==
    LET last == page.key = LastPage IN
    /\ scanPc = "save"
    /\ cursor' = IF last THEN 1 ELSE page.key + 1
    /\ since' = IF last /\ latest > 0 THEN latest ELSE runSince
    /\ gaps' = IF last /\ latest > 0 THEN gaps \union (passBegan + 1)..latest
                                     ELSE gaps
    /\ IF last \/ scanStop
       THEN ScannerGone
       ELSE /\ scanPc' = "await"
            /\ page' = NoPage
            /\ UNCHANGED <<runSince, latest, task, scanStop>>
    /\ savedBegan' = passBegan
    /\ UNCHANGED <<chainVars, stagingVars, faults, seenAt, overlooked, passBegan,
                   waived>>

(* A stop signal; the page being persisted is finished first. *)
RequestScanStop ==
    /\ scanPc # "down"
    /\ ~scanStop
    /\ Fault
    /\ scanStop' = TRUE
    /\ UNCHANGED <<chainVars, stagingVars, cursor, since, scanPc, runSince,
                   latest, task, page, seenAt, overlooked, passBegan, savedBegan,
                   gaps, waived>>

(* A kill, a database error, or a page that exhausted its attempts         *)
(* (GpaPageFetchError): main() ends without another checkpoint.            *)
ScanCrash ==
    /\ scanPc # "down"
    /\ Fault
    /\ ScannerGone
    /\ UNCHANGED <<chainVars, stagingVars, cursor, since, seenAt, overlooked,
                   passBegan, savedBegan, gaps, waived>>

\* The operator runs the scanner again and again; requests end.
ScanFairness ==
    /\ WF_scannerVars(ScanStart)
    /\ WF_scannerVars(GetSlot)
    /\ WF_scannerVars(PageAnswered)
    /\ WF_scannerVars(TakePage)
    /\ WF_scannerVars(InsertPage)
    /\ WF_scannerVars(SaveProgress)
=============================================================================
