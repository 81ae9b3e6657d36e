-------------------------- MODULE MetadataFetcher --------------------------
(***************************************************************************)
(* The metadata workers of src/fetch/evm/metadata_fetcher.py over the      *)
(* tables of CollectorTables.  Each worker loops: claim staging rows, ask  *)
(* the provider, append inline-image contracts to .env, load the           *)
(* blacklist, delete its own blacklisted rows, sweep the new contracts     *)
(* from both tables, insert what is valid into main, delete what is left.  *)
(* Every arrow is a separate commit (or file operation), so other workers, *)
(* the scanner, an error, a kill or the reclaim limit may come in between. *)
(***************************************************************************)
EXTENDS CollectorTables

CONSTANTS
    KindOf,         \* what the provider knows: "media", "nouri" or "inline"
    ClaimBatch,     \* FETCH_CLAIM_BATCH_SIZE
    MaxRaises,      \* bound: batches whose processing raises
    MaxSilences,    \* bound: batches in which the provider fails for some row
    MaxAborts,      \* bound: workers that leave on an error (finally runs)
    MaxFaults,      \* bound: faults of these kinds together
    MaxKills,       \* bound: workers terminated or killed (finally does not run)
    StopAllowed,    \* a stop signal and a rerun may happen
    MaxDiscoveries  \* bound: INSERTs of the scanner

ASSUME KindOfType == KindOf \in [NFTs -> {"media", "nouri", "inline"}]
ASSUME ClaimBatchAssumption == ClaimBatch \in Nat \ {0}
ASSUME FaultBounds ==
    /\ MaxRaises \in Nat /\ MaxSilences \in Nat
    /\ MaxAborts \in Nat /\ MaxKills \in Nat /\ MaxFaults \in Nat
    /\ StopAllowed \in BOOLEAN
    /\ MaxDiscoveries \in Nat

VARIABLES
    pc,             \* where each worker is
    pending,        \* pending_ids with their NFTs
    inserts,        \* NFTs _process_batch accepted
    fresh,          \* newly_blacklisted_contracts
    effective,      \* effective_blacklist
    envRead,        \* append_blacklist_env: what it read before truncating
    startEnv,       \* DEFI_BLACKLIST_ENV: the line at program start
    stop,           \* the stop event
    faults,         \* how often each bounded fault happened
    unanswered,     \* history: NFTs skipped because the provider failed
    everAged,       \* history: rows whose claim once outlived the limit
    killed,         \* history: workers that died holding their claims
    atLoad,         \* history: what a worker could learn from the blacklist
                    \* when it loaded it
    late,           \* history: NFTs inserted for a listed contract of which
                    \* their worker could not learn
    unswept,        \* history: contracts whose worker ended before its sweep
    torn            \* history: two appends to .env overlapped, or a worker
                    \* ended in the middle of one

localVars == <<pc, pending, inserts, fresh, effective, envRead, atLoad>>
blacklistHistory == <<late, unswept, torn>>
fetchVars == <<localVars, startEnv, stop, faults, unanswered, everAged, killed,
               blacklistHistory>>
vars == <<tableVars, fetchVars>>

PcType == {"claim", "process", "appendRead", "appendTruncate",
           "appendWrite", "load", "dropOwn", "sweep", "insert", "delete",
           "down"}

FaultKinds == {"raise", "silence", "abort", "kill"}

FaultLimit == [raise |-> MaxRaises, silence |-> MaxSilences,
               abort |-> MaxAborts, kill |-> MaxKills]

Fault(k) ==
    /\ faults[k] < FaultLimit[k]
    /\ faults["raise"] + faults["silence"] + faults["abort"] + faults["kill"]
         < MaxFaults
    /\ faults' = [faults EXCEPT ![k] = @ + 1]

NFTsOf(tickets) == {t.nft : t \in tickets}

Alive == {w \in Workers : pc[w] # "down"}

\* Rows that a transaction of another worker can have locked at this moment:
\* those it may be claiming, deleting or releasing.
LockableByOthers(w) ==
    {n \in Rows : \E v \in Alive \ {w} :
                     Claimable(n) \/ TicketOn(pending[v], n)}

GoTo(w, l) == pc' = [pc EXCEPT ![w] = l]

\* The worker has no batch any more and is at label l.
\* Mutant: pending_ids is not reset.
ForgetAllButPending(w, l) ==
    /\ GoTo(w, l)
    /\ UNCHANGED pending
    /\ inserts' = [inserts EXCEPT ![w] = {}]
    /\ fresh' = [fresh EXCEPT ![w] = {}]
    /\ effective' = [effective EXCEPT ![w] = {}]
    /\ envRead' = [envRead EXCEPT ![w] = {}]
    /\ atLoad' = [atLoad EXCEPT ![w] = {}]

Forget(w, l) ==
    /\ GoTo(w, l)
    /\ pending' = [pending EXCEPT ![w] = {}]
    /\ inserts' = [inserts EXCEPT ![w] = {}]
    /\ fresh' = [fresh EXCEPT ![w] = {}]
    /\ effective' = [effective EXCEPT ![w] = {}]
    /\ envRead' = [envRead EXCEPT ![w] = {}]
    /\ atLoad' = [atLoad EXCEPT ![w] = {}]

----------------------------------------------------------------------------
FetchInit ==
    /\ pc = [w \in Workers |-> "claim"]
    /\ pending = [w \in Workers |-> {}]
    /\ inserts = [w \in Workers |-> {}]
    /\ fresh = [w \in Workers |-> {}]
    /\ effective = [w \in Workers |-> {}]
    /\ envRead = [w \in Workers |-> {}]
    /\ atLoad = [w \in Workers |-> {}]
    /\ startEnv = StartBlacklist
    /\ stop = FALSE
    /\ faults = [k \in FaultKinds |-> 0]
    /\ unanswered = {}
    /\ everAged = {}
    /\ killed = {}
    /\ late = {}
    /\ unswept = {}
    /\ torn = FALSE

(* claim_pending_nfts *)
Claim(w) ==
    /\ pc[w] = "claim"
    /\ ~stop
    /\ \E locked \in SUBSET LockableByOthers(w) :
       \E ns \in SUBSET Rows :
          /\ ns # {}
          /\ OldestOf({n \in Rows : Claimable(n)} \ locked, ns, ClaimBatch)
          /\ MarkClaimed(w, ns)
          /\ pending' = [pending EXCEPT ![w] = {TicketOf(n) : n \in ns}]
    /\ GoTo(w, "process")
    /\ UNCHANGED <<nextId, main, checkpoint, env, staged, listed, inserts, fresh,
                   effective, envRead, atLoad, startEnv, stop, faults,
                   unanswered, everAged, killed, blacklistHistory>>

(* A claim that finds no row that is free and unlocked sleeps and comes    *)
(* back.                                                                   *)
ClaimNothing(w) ==
    /\ pc[w] = "claim"
    /\ ~stop
    /\ {n \in Rows : Claimable(n)} \subseteq LockableByOthers(w)
    /\ UNCHANGED vars

(* _process_batch over the provider's answers.  A request that exhausted   *)
(* its attempts answers five Nones for its rows (silent), which            *)
(* _process_batch cannot tell from an NFT without a token URI.             *)
InlineContracts(answered) ==
    {ContractOf[n] : n \in {m \in answered : KindOf[m] = "inline"}}

Accepted(answered) ==
    {n \in answered : KindOf[n] # "nouri"}
        \ OfContracts(InlineContracts(answered))

ProcessBatch(w) ==
    /\ pc[w] = "process"
    /\ \E silent \in SUBSET NFTsOf(pending[w]) :
          LET answered == NFTsOf(pending[w]) \ silent IN
          /\ IF silent = {} THEN UNCHANGED faults ELSE Fault("silence")
          /\ inserts' = [inserts EXCEPT ![w] = Accepted(answered)]
          /\ fresh' = [fresh EXCEPT ![w] = InlineContracts(answered)]
          /\ unanswered' = unanswered \union silent
          /\ GoTo(w, IF InlineContracts(answered) = {} THEN "load"
                                                       ELSE "appendRead")
    /\ UNCHANGED <<tableVars, pending, effective, envRead, atLoad, startEnv, stop,
                   everAged, killed, blacklistHistory>>

(* The except branch: processing raised, the claims are released and the   *)
(* loop goes on.                                                           *)
ProcessRaises(w) ==
    /\ pc[w] = "process"
    /\ Fault("raise")
    /\ ReleaseTemp(w, pending[w])
    /\ Forget(w, "claim")
    /\ UNCHANGED <<nextId, main, checkpoint, env, staged, listed, startEnv, stop,
                   unanswered, everAged, killed, blacklistHistory>>

(* append_blacklist_env, without any lock: read the lines, reopen the file *)
(* with "w", which truncates it, and write what was read and the new       *)
(* contracts.  The last writer's line is the one that stays.               *)
AppendRead(w) ==
    /\ pc[w] = "appendRead"
    /\ envRead' = [envRead EXCEPT ![w] = env]
    /\ torn' = (torn \/ \E v \in Workers : pc[v] \in {"appendTruncate", "appendWrite"})
    /\ GoTo(w, "appendTruncate")
    /\ UNCHANGED <<tableVars, pending, inserts, fresh, effective, atLoad, startEnv,
                   stop, faults, unanswered, everAged, killed, late, unswept>>

AppendTruncate(w) ==
    /\ pc[w] = "appendTruncate"
    /\ env' = {}
    /\ GoTo(w, "appendWrite")
    /\ UNCHANGED <<temp, nextId, main, checkpoint, staged, listed, pending,
                   inserts, fresh, effective, envRead, atLoad, startEnv, stop,
                   faults, unanswered, everAged, killed, blacklistHistory>>

\* Mutant: the entries that were there are not written back.
AppendWriteNewOnly(w) ==
    /\ pc[w] = "appendWrite"
    /\ env' = fresh[w]
    /\ listed' = listed \union env'
    /\ envRead' = [envRead EXCEPT ![w] = {}]
    /\ GoTo(w, "load")
    /\ UNCHANGED <<temp, nextId, main, checkpoint, staged, pending, inserts,
                   fresh, effective, atLoad, startEnv, stop, faults, unanswered,
                   everAged, killed, blacklistHistory>>

AppendWrite(w) ==
    /\ pc[w] = "appendWrite"
    /\ env' = envRead[w] \union fresh[w]
    /\ listed' = listed \union env'
    /\ envRead' = [envRead EXCEPT ![w] = {}]
    /\ GoTo(w, "load")
    /\ UNCHANGED <<temp, nextId, main, checkpoint, staged, pending, inserts,
                   fresh, effective, atLoad, startEnv, stop, faults, unanswered,
                   everAged, killed, blacklistHistory>>

(* load_blacklist, then the filter over the accepted records.  The next    *)
(* step depends on which of the cleanup's transactions have work to do.    *)
Blacklisted(w) == {t \in pending[w] : ContractOf[t.nft] \in effective[w]}

AfterCleanup(w) == {t \in pending[w] : ContractOf[t.nft] \notin effective[w]}

\* What a load at this moment has to find: all that was ever listed, unless
\* the file is being rewritten or an append was torn.
Learnable(w) ==
    IF torn \/ \E v \in Workers : pc[v] = "appendWrite"
    THEN startEnv \union env \union fresh[w]
    ELSE listed

\* Mutant: the .env file is read at program start only.
LoadBlacklistOfStart(w) ==
    LET banned == startEnv \union fresh[w]
        own == OfContracts(banned) \intersect NFTsOf(pending[w])
    IN
    /\ pc[w] = "load"
    /\ effective' = [effective EXCEPT ![w] = banned]
    /\ atLoad' = [atLoad EXCEPT ![w] = Learnable(w)]
    /\ inserts' = [inserts EXCEPT ![w] = @ \ OfContracts(banned)]
    /\ GoTo(w, IF own = {} THEN "insert" ELSE "dropOwn")
    /\ UNCHANGED <<tableVars, pending, fresh, envRead, startEnv, stop, faults,
                   unanswered, everAged, killed, blacklistHistory>>

LoadBlacklist(w) ==
    LET banned == startEnv \union env \union fresh[w]
        own == OfContracts(banned) \intersect NFTsOf(pending[w])
    IN
    /\ pc[w] = "load"
    /\ effective' = [effective EXCEPT ![w] = banned]
    /\ atLoad' = [atLoad EXCEPT ![w] = Learnable(w)]
    /\ inserts' = [inserts EXCEPT ![w] = @ \ OfContracts(banned)]
    /\ GoTo(w, IF own = {} THEN "insert" ELSE "dropOwn")
    /\ UNCHANGED <<tableVars, pending, fresh, envRead, startEnv, stop, faults,
                   unanswered, everAged, killed, blacklistHistory>>

(* _cleanup_blacklisted_pending: delete the batch's own blacklisted rows,  *)
(* then sweep the newly blacklisted contracts.                             *)
DropOwn(w) ==
    /\ pc[w] = "dropOwn"
    /\ DeleteTemp(Blacklisted(w))
    /\ GoTo(w, IF fresh[w] = {} THEN "insert" ELSE "sweep")
    /\ UNCHANGED <<nextId, main, checkpoint, env, staged, listed, pending,
                   inserts, fresh, effective, envRead, atLoad, startEnv, stop,
                   faults, unanswered, everAged, killed, blacklistHistory>>

Sweep(w) ==
    /\ pc[w] = "sweep"
    /\ \E locked \in SUBSET LockableByOthers(w) :
          DeleteContracts(fresh[w], Blacklisted(w), locked)
    /\ late' = late \ OfContracts(fresh[w])
    /\ unswept' = unswept \ fresh[w]
    /\ GoTo(w, "insert")
    /\ UNCHANGED <<nextId, checkpoint, env, staged, listed, pending, inserts,
                   fresh, effective, envRead, atLoad, startEnv, stop, faults,
                   unanswered, everAged, killed, torn>>

\* Mutant: an error of the insert is swallowed.
InsertMainUnchecked(w) ==
    /\ pc[w] = "insert"
    /\ main' \in {main, main \union inserts[w]}
    /\ GoTo(w, "delete")
    /\ UNCHANGED <<temp, nextId, checkpoint, env, staged, listed, pending,
                   inserts, fresh, effective, envRead, atLoad, startEnv, stop,
                   faults, unanswered, everAged, killed, blacklistHistory>>

(* batch_insert_main: one transaction, ON CONFLICT DO NOTHING. *)
InsertMain(w) ==
    /\ pc[w] = "insert"
    /\ main' = main \union inserts[w]
    /\ late' = late \union
                  {n \in inserts[w] : ContractOf[n] \in listed \ atLoad[w]}
    /\ GoTo(w, "delete")
    /\ UNCHANGED <<temp, nextId, checkpoint, env, staged, listed, pending,
                   inserts, fresh, effective, envRead, atLoad, startEnv, stop,
                   faults, unanswered, everAged, killed, unswept, torn>>

(* delete_temp_nfts over every row of the batch that the cleanup left,     *)
(* the discarded ones included; the batch is over.                         *)
DeleteProcessed(w) ==
    /\ pc[w] = "delete"
    /\ DeleteTemp(AfterCleanup(w))
    /\ Forget(w, "claim")
    /\ UNCHANGED <<nextId, main, checkpoint, env, staged, listed, startEnv, stop,
                   faults, unanswered, everAged, killed, blacklistHistory>>

----------------------------------------------------------------------------
\* Mutant: the worker leaves without releasing.
ReleaseNothing(w) ==
    /\ Forget(w, "down")
    /\ UNCHANGED <<tableVars, startEnv, stop, unanswered, everAged, killed>>

(* The finally block: release what is pending and leave. *)
Release(w) ==
    /\ ReleaseTemp(w, pending[w])
    /\ Forget(w, "down")
    /\ UNCHANGED <<nextId, main, checkpoint, env, staged, listed, startEnv, stop,
                   unanswered, everAged, killed>>

\* The worker ends at a label where it still owed .env a line or the tables a
\* sweep.
CutShort(w) ==
    /\ unswept' = unswept \union
                     (IF pc[w] \in {"load", "dropOwn", "sweep"} THEN fresh[w] ELSE {})
    /\ torn' = (torn \/ pc[w] = "appendWrite")
    /\ UNCHANGED late

(* The stop event is looked at before a claim and right after it. *)
Leave(w) ==
    /\ stop
    /\ pc[w] \in {"claim", "process"}
    /\ Release(w)
    /\ UNCHANGED <<faults, blacklistHistory>>

(* A database or file error outside the inner try, or the cancellation     *)
(* test_worker_releases_claimed_rows_when_interrupted_mid_batch sends.     *)
Abort(w) ==
    /\ pc[w] # "down"
    /\ Fault("abort")
    /\ Release(w)
    /\ CutShort(w)

(* proc.terminate() after the grace period, a kill, a lost machine, or an  *)
(* error whose release fails too (the finally block only logs it).         *)
Kill(w) ==
    /\ pc[w] # "down"
    /\ Fault("kill")
    /\ killed' = killed \union {w}
    /\ Forget(w, "down")
    /\ CutShort(w)
    /\ UNCHANGED <<tableVars, startEnv, stop, unanswered, everAged>>

(* SIGINT or SIGTERM sets the event all workers share. *)
RequestStop ==
    /\ StopAllowed
    /\ ~stop
    /\ stop' = TRUE
    /\ UNCHANGED <<tableVars, localVars, startEnv, faults, unanswered, everAged,
                   killed, blacklistHistory>>

(* main() waits for all workers, so a new set starts only when all are     *)
(* gone; load_dotenv reads the .env line of that moment.                   *)
Rerun ==
    /\ StopAllowed
    /\ Alive = {}
    /\ pc' = [w \in Workers |-> "claim"]
    /\ stop' = FALSE
    /\ startEnv' = env
    /\ UNCHANGED <<tableVars, pending, inserts, fresh, effective, envRead, atLoad,
                   faults, unanswered, everAged, killed, blacklistHistory>>

Aging(n) ==
    /\ AgeClaim(n)
    /\ everAged' = everAged \union {TicketOf(n)}
    /\ UNCHANGED <<localVars, startEnv, stop, faults, unanswered, killed,
                   blacklistHistory>>

WorkerStep(w) ==
    \/ Claim(w)
    \/ ClaimNothing(w)
    \/ ProcessBatch(w)
    \/ ProcessRaises(w)
    \/ AppendRead(w)
    \/ AppendTruncate(w)
    \/ AppendWrite(w)
    \/ LoadBlacklist(w)
    \/ DropOwn(w)
    \/ Sweep(w)
    \/ InsertMain(w)
    \/ DeleteProcessed(w)
    \/ Leave(w)
    \/ Abort(w)
    \/ Kill(w)

FetchNext ==
    \/ \E w \in Workers : WorkerStep(w)
    \/ \E n \in NFTs : Aging(n)
    \/ RequestStop
    \/ Rerun

----------------------------------------------------------------------------
(* The scanner as the workers see it: one batch_insert_temp.  Any key may  *)
(* come back, because a restarted scanner rescans its last batch.          *)
Discover(ns) ==
    /\ ns # {}
    /\ nextId <= MaxDiscoveries
    /\ InsertTemp(ns)
    /\ UNCHANGED <<main, checkpoint, env, listed, fetchVars>>

Init == TablesInit /\ FetchInit

Next == FetchNext \/ \E ns \in SUBSET NFTs : Discover(ns)

\* The event loop and the database serve every live worker; claims grow old
\* with time.  Nothing obliges an error, a signal, a rerun or the scanner.
FetchFairness ==
    /\ \A w \in Workers :
          /\ WF_vars(Claim(w))
          /\ WF_vars(ProcessBatch(w))
          /\ WF_vars(AppendRead(w))
          /\ WF_vars(AppendTruncate(w))
          /\ WF_vars(AppendWrite(w))
          /\ WF_vars(LoadBlacklist(w))
          /\ WF_vars(DropOwn(w))
          /\ WF_vars(Sweep(w))
          /\ WF_vars(InsertMain(w))
          /\ WF_vars(DeleteProcessed(w))
          /\ WF_vars(Leave(w))
    /\ \A n \in NFTs : WF_vars(Aging(n))

Spec == Init /\ [][Next]_vars

FairSpec == Spec /\ FetchFairness

----------------------------------------------------------------------------
(* Every variable keeps the type the programs give it, and a worker that   *)
(* is between batches or gone remembers no rows.                           *)
TypeOK ==
    /\ TablesTypeOK
    /\ pc \in [Workers -> PcType]
    /\ pending \in [Workers -> SUBSET Ticket]
    /\ inserts \in [Workers -> SUBSET NFTs]
    /\ fresh \in [Workers -> SUBSET Contracts]
    /\ effective \in [Workers -> SUBSET Contracts]
    /\ envRead \in [Workers -> SUBSET Contracts]
    /\ atLoad \in [Workers -> SUBSET Contracts]
    /\ startEnv \subseteq Contracts
    /\ stop \in BOOLEAN
    /\ faults \in [FaultKinds -> Nat]
    /\ unanswered \subseteq NFTs
    /\ everAged \subseteq Ticket
    /\ killed \subseteq Workers
    /\ late \subseteq NFTs
    /\ unswept \subseteq Contracts
    /\ torn \in BOOLEAN
    /\ \A w \in Workers : pc[w] \in {"claim", "down"} => pending[w] = {}

(* "Persist valid records before deleting processed rows": an NFT that was *)
(* staged is still staged, or is in main, or was left out for a reason the *)
(* code documents: no usable token URI, a contract whose address reached   *)
(* the .env file, or no answer from the provider.  Whatever the workers'   *)
(* interleaving, errors and kills, no other row disappears.                *)
NothingVanishes ==
    \A n \in staged :
        \/ HasRow(n)
        \/ n \in main
        \/ KindOf[n] = "nouri"
        \/ ContractOf[n] \in listed
        \/ n \in unanswered

(* A claim always has someone who will end it: the worker that made it     *)
(* still has the row in its batch, or was killed, and then only the        *)
(* reclaim limit frees the row.  No error or stop path leaks a claim.      *)
NoLeakedClaim ==
    \A n \in Rows :
        \/ temp[n].by = NoWorker
        \/ temp[n].by \in killed
        \/ TicketOf(n) \in pending[temp[n].by]

(* While a worker that has not died works on a row whose claim is young,   *)
(* only that worker, or a sweep of the row's contract, removes the row.    *)
YoungClaimsAreExclusive ==
    [][\A n \in NFTs, w \in Workers :
          (/\ HasRow(n) /\ ~HasRow(n)'
           /\ temp[n].by = w
           /\ TicketOf(n) \notin everAged)
          => \/ pc[w] \in {"dropOwn", "delete"} /\ pc'[w] # pc[w]
             \/ \E v \in Workers : /\ pc[v] = "sweep" /\ pc'[v] # "sweep"
                                    /\ ContractOf[n] \in fresh[v]]_vars

(* "Updated .env ... preserving existing entries": the line holds every     *)
(* contract that was ever listed, or is just being rewritten with all of    *)
(* them.  Only two appends at the same time, or a worker that ends between  *)
(* truncation and write, make it forget one.                                *)
EnvKeepsListed ==
    ~torn => \/ env = listed
             \/ \E w \in Workers : /\ pc[w] = "appendWrite"
                                   /\ listed \subseteq envRead[w]

(* "Blacklisted and removed from both tables", with any number of workers,   *)
(* errors, kills and reruns.  The asset table holds an NFT of a contract    *)
(* that was ever listed only while the worker that listed it has its sweep  *)
(* still before it, or, until a worker sweeps the contract again, after the *)
(* end of a worker before its sweep, or when the NFT's own worker loaded    *)
(* the blacklist before the listing, during an append or after a torn one.  *)
(* Whatever a worker could learn from the blacklist it never inserts.       *)
OnlyRacesEscapeBlacklist ==
    \A n \in main :
        ContractOf[n] \in listed =>
            \/ n \in late
            \/ ContractOf[n] \in unswept
            \/ \E w \in Workers : /\ pc[w] \in {"load", "dropOwn", "sweep"}
                                  /\ ContractOf[n] \in fresh[w]

(* Without errors or kills: whenever the workers are between batches, main  *)
(* holds no NFT of a contract the .env file lists.                          *)
BetweenBatches == \A w \in Workers : pc[w] \in {"claim", "down"}

MainHonoursBlacklist ==
    BetweenBatches => main \intersect OfContracts(env) = {}
=============================================================================
