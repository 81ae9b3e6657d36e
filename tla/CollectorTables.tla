-------------------------- MODULE CollectorTables --------------------------
(***************************************************************************)
(* What the two EVM collector programs share: the PostgreSQL tables        *)
(* nft_assets_<chain> (main) and temp_<chain> (temp), the scan_progress    *)
(* row (checkpoint) and the DEFI_BLACKLIST entry of the .env file (env).   *)
(* Each operator below is one committed SQL transaction of                 *)
(* src/fetch/evm/common.py, so it is atomic; everything that happens       *)
(* between two transactions is an interleaving point.                      *)
(*                                                                         *)
(* A staging row is the pair of its id and its NFT: UNIQUE                 *)
(* (contract_address, token_id) makes temp a function of the NFT.  Rows of *)
(* one INSERT share one id here, so "ORDER BY id" leaves their order open. *)
(* claimed_at is reduced to what the code compares it with: NULL (by =     *)
(* NoWorker), young, or older than CLAIM_RETRY_AFTER_SECONDS (aged).       *)
(***************************************************************************)
EXTENDS Integers, FiniteSets

CONSTANTS
    NFTs,           \* (contract_address, token_id) keys
    Contracts,      \* contract addresses
    ContractOf,     \* the contract of each NFT
    Workers,        \* metadata worker processes
    NoWorker,       \* claimed_by IS NULL
    NoRow,          \* the NFT has no staging row
    NoBlock,        \* no scan_progress row yet
    StartBlacklist  \* DEFI_BLACKLIST before anything ran

ASSUME ContractOfType == ContractOf \in [NFTs -> Contracts]
ASSUME NoWorkerAssumption == NoWorker \notin Workers
ASSUME StartBlacklistType == StartBlacklist \subseteq Contracts

VARIABLES
    temp,           \* temp_<chain>: NFT -> staging row or NoRow
    nextId,         \* the sequence of temp_<chain>.id
    main,           \* keys of nft_assets_<chain>
    checkpoint,     \* scan_progress.last_scanned_block
    env,            \* contracts in the DEFI_BLACKLIST line of .env
    staged,         \* history: NFTs that ever had a staging row
    listed          \* history: contracts that were ever written to .env

tableVars == <<temp, nextId, main, checkpoint, env, staged, listed>>

Claimant == Workers \union {NoWorker}

RowType == [id : Nat, by : Claimant, aged : BOOLEAN]

ASSUME NoRowAssumption == NoRow \notin RowType

\* What a worker remembers of a claimed row: enough to tell a row from a
\* later row of the same NFT.
Ticket == [id : Nat, nft : NFTs]

HasRow(n) == temp[n] # NoRow

Rows == {n \in NFTs : HasRow(n)}

TicketOf(n) == [id |-> temp[n].id, nft |-> n]

\* The ticket's row still exists under the ticket's id.
Current(t) == HasRow(t.nft) /\ temp[t.nft].id = t.id

TicketOn(tickets, n) == HasRow(n) /\ TicketOf(n) \in tickets

OfContracts(cs) == {n \in NFTs : ContractOf[n] \in cs}

----------------------------------------------------------------------------
TablesInit ==
    /\ temp = [n \in NFTs |-> NoRow]
    /\ nextId = 1
    /\ main = {}
    /\ checkpoint = NoBlock
    /\ env = StartBlacklist
    /\ staged = {}
    /\ listed = StartBlacklist

(* batch_insert_temp: INSERT ... ON CONFLICT DO NOTHING. *)
InsertTemp(ns) ==
    LET fresh == ns \ Rows IN
    /\ temp' = [n \in NFTs |->
                  IF n \in fresh
                  THEN [id |-> nextId, by |-> NoWorker, aged |-> FALSE]
                  ELSE temp[n]]
    /\ nextId' = IF ns = {} THEN nextId ELSE nextId + 1
    /\ staged' = staged \union fresh

\* Mutant: a claim never expires.
ClaimableOnlyIfFree(n) == HasRow(n) /\ temp[n].by = NoWorker

(* claim_pending_nfts: a row is claimable when its claim is absent or old. *)
Claimable(n) == HasRow(n) /\ (temp[n].by = NoWorker \/ temp[n].aged)

(* ORDER BY id LIMIT batch over the rows no other transaction has locked:  *)
(* the rows chosen are the oldest of those left.                           *)
OldestOf(ns, chosen, limit) ==
    /\ chosen \subseteq ns
    /\ Cardinality(chosen) <= limit
    /\ chosen # ns => Cardinality(chosen) = limit
    /\ \A c \in chosen, r \in ns \ chosen : temp[c].id <= temp[r].id

MarkClaimed(w, ns) ==
    temp' = [n \in NFTs |->
               IF n \in ns THEN [temp[n] EXCEPT !.by = w, !.aged = FALSE]
                           ELSE temp[n]]

\* Mutant: delete by key instead of by id.
DeleteTempByKey(tickets) ==
    temp' = [n \in NFTs |-> IF n \in {t.nft : t \in tickets} THEN NoRow ELSE temp[n]]

(* delete_temp_nfts: by id, whoever holds the claim. *)
DeleteTemp(tickets) ==
    temp' = [n \in NFTs |-> IF TicketOn(tickets, n) THEN NoRow ELSE temp[n]]

(* release_temp_claims: by id, and only rows still claimed by the worker. *)
ReleaseTemp(w, tickets) ==
    temp' = [n \in NFTs |->
               IF TicketOn(tickets, n) /\ temp[n].by = w
               THEN [temp[n] EXCEPT !.by = NoWorker, !.aged = FALSE]
               ELSE temp[n]]

(* delete_contract_nfts: main and staging rows of the contracts in one     *)
(* transaction, except the caller's own tickets and the rows another       *)
(* transaction has locked (FOR UPDATE SKIP LOCKED).                        *)
DeleteContracts(cs, skip, locked) ==
    /\ main' = main \ OfContracts(cs)
    /\ temp' = [n \in NFTs |->
                  IF /\ ContractOf[n] \in cs
                     /\ ~TicketOn(skip, n)
                     /\ n \notin locked
                  THEN NoRow
                  ELSE temp[n]]

(* A claim grows older than the reclaim limit: time passes. *)
AgeClaim(n) ==
    /\ HasRow(n)
    /\ temp[n].by # NoWorker
    /\ ~temp[n].aged
    /\ temp' = [temp EXCEPT ![n].aged = TRUE]
    /\ UNCHANGED <<nextId, main, checkpoint, env, staged, listed>>

TablesTypeOK ==
    /\ temp \in [NFTs -> RowType \union {NoRow}]
    /\ nextId \in Nat \ {0}
    /\ main \subseteq NFTs
    /\ checkpoint \in Int \union {NoBlock}
    /\ env \subseteq Contracts
    /\ staged \subseteq NFTs
    /\ listed \subseteq Contracts
=============================================================================
