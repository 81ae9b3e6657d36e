-------------------------- MODULE SolanaEnrichment --------------------------
(***************************************************************************)
(* The deep fetch of a Solana candidate (enrich_solana in                  *)
(* enrich/orchestrator.rs, with enrich/helius.rs), and the stream of       *)
(* enrich_candidates_with_hook, in which candidates of both kinds run at   *)
(* the same time, in any order and at any speed, and meet only in the      *)
(* request caches.                                                         *)
(*                                                                         *)
(* The NFTs of the collection are listed page by page; if there are none   *)
(* although the database has some, the collection is resolved from those,  *)
(* listed with its unverified members, and at last they are asked for one  *)
(* by one.  Then come the signatures of their histories, and then the      *)
(* transactions behind those, from the cache.  The bundle variables are    *)
(* those of EvmEnrichment: gas holds the transactions that were fetched.   *)
(* As there, Empty and Complete are one status, and all keys are given.    *)
(***************************************************************************)
EXTENDS EvmEnrichment

CONSTANTS
    Nfts,           \* the rows the provider may list
    NonNfts,        \* those that say they are no NFT
    Collections,    \* collection addresses
    Address,        \* that of each candidate
    Resident,       \* the NFTs the database has of each candidate
    NoGroup,
    GroupOf,        \* the collection the provider puts an NFT in, or NoGroup
    Listed,         \* the rows of a collection, in order, with and without the
                    \* unverified ones
    History,        \* the signatures of an NFT
    SoldIn,         \* signatures of sales; the others are of transfers
    Bare,           \* transactions that do not show what a row needs: the parties,
                    \* an owner change and a time
    Feeless,        \* transactions without a fee
    SolanaNative,   \* the native quote
    PageSize, MaxAssets,            \* limits of a listing,
    MaxHistory, MaxSignatures       \* and of the histories

ASSUME ListingAssumption ==
    /\ IsFiniteSet(Nfts)
    /\ Address \in [Candidates -> Collections]
    /\ Resident \in [Candidates -> SUBSET Nfts]
    /\ NoGroup \notin Collections
    /\ GroupOf \in [Nfts -> Collections \union {NoGroup}]
    /\ Listed \in [Collections -> [BOOLEAN -> Seq(Nfts)]]
    /\ History \in [Nfts -> SUBSET Receipts]
    /\ SolanaNative \in Singles
ASSUME LimitsAssumption ==
    /\ PageSize \in Nat \ {0} /\ MaxAssets \in Nat \ {0}
    /\ MaxHistory \in Nat /\ MaxSignatures \in Nat

SolanaCandidates == Candidates \ EvmCandidates

VARIABLES
    listing,    \* the listing of each candidate: of which group, with unverified
                \* members or without, the next page, and the NFTs so far
    nfts,       \* the NFTs it got in the end
    assets,     \* the status of those, which is that of their holders too,
    histories,  \* and of their histories
    excluded    \* whether it turned out to be no NFT collection

solanaVars == <<listing, nfts, assets, histories, excluded>>
allVars == <<vars, solanaVars>>

SolanaInit ==
    /\ listing = [c \in Candidates |-> [group |-> Address[c], unverified |-> FALSE,
                                        page |-> 1, found |-> {}]]
    /\ nfts = Nothing
    /\ assets = [c \in Candidates |-> "skipped"]
    /\ histories = [c \in Candidates |-> "skipped"]
    /\ excluded = [c \in Candidates |-> FALSE]

Smaller(i, j) == IF i < j THEN i ELSE j
Larger(i, j) == IF i > j THEN i ELSE j

-----------------------------------------------------------------------------
(* fetch_collection_assets_with_visibility.                                *)

\* What is still wanted, at most a page of the provider: later pages may be
\* smaller, and then overlap with earlier ones.
Limit(l) == Smaller(Smaller(PageSize, MaxAssets),
                    Larger(MaxAssets - Cardinality(l.found), 1))

RowsOf(l) == Listed[l.group][l.unverified]

\* The rows of the page.
PageOf(l) ==
    {RowsOf(l)[i] : i \in {j \in 1..Len(RowsOf(l)) :
                              /\ (l.page - 1) * Limit(l) < j
                              /\ j <= l.page * Limit(l)}}

Found(l) == l.found \union (PageOf(l) \ NonNfts)

\* Mutant: a page is taken for the last if it is smaller than the provider's.
ShortPage(l) == Cardinality(PageOf(l)) < PageSize

\* The page has fewer rows than were wanted.
LastPage(l) == Len(RowsOf(l)) < l.page * Limit(l)

SetListing(c, l) == listing' = Put(listing, c, l)

ListGroup(c, group, unverified) ==
    /\ SetListing(c, [group |-> group, unverified |-> unverified,
                      page |-> 1, found |-> {}])
    /\ GoTo(c, "list")

\* The NFTs of a candidate are settled.
Settle(c, status, found) ==
    /\ assets' = Put(assets, c, status)
    /\ nfts' = Put(nfts, c, found)
    /\ GoTo(c, "history")

\* Nothing was found although the database has NFTs.
Contradicted(c, found) == found = {} /\ Resident[c] # {}

\* The group was listed to its end.  If that contradicts the residents, the
\* listing of the candidate's own address is followed by their resolution, that
\* of the group they are in by one with its unverified members, which prove no
\* membership.
EndListing(c, found) ==
    LET l == listing[c] IN
    \/ /\ Contradicted(c, found) /\ ~ l.unverified /\ l.group = Address[c]
       /\ GoTo(c, "resolve")
       /\ UNCHANGED <<listing, nfts, assets>>
    \/ /\ Contradicted(c, found) /\ ~ l.unverified /\ l.group # Address[c]
       /\ ListGroup(c, l.group, TRUE)
       /\ UNCHANGED <<nfts, assets>>
    \/ /\ Contradicted(c, found) /\ l.unverified
       /\ GoTo(c, "direct")
       /\ UNCHANGED <<listing, nfts, assets>>
    \/ /\ ~ Contradicted(c, found)
       /\ Settle(c, IF l.unverified /\ found # {} THEN "truncated" ELSE "complete", found)
       /\ UNCHANGED listing

\* No answer; or, which the provider may do, a page it sent before.
CutListing(c) ==
    /\ pc[c] \in {"queued", "list"}
    /\ FallShort(1)
    /\ LET found == listing[c].found IN
       \/ Settle(c, IF found = {} THEN "failed" ELSE "truncated", found)
       \/ listing[c].page > 1 /\ Settle(c, "truncated", found)
    /\ UNCHANGED <<current, cells, single, batch, bundleVars, listing, histories, excluded>>

Capped(found) == Cardinality(found) >= MaxAssets

ListPage(c) ==
    /\ pc[c] \in {"queued", "list"}
    /\ LET l == listing[c] IN
       \/ /\ Capped(Found(l))
          /\ Settle(c, "truncated", Found(l))
          /\ UNCHANGED listing
       \/ /\ ~ Capped(Found(l)) /\ LastPage(l)
          /\ EndListing(c, Found(l))
       \/ /\ ~ Capped(Found(l)) /\ ~ LastPage(l)
          /\ SetListing(c, [l EXCEPT !.page = @ + 1, !.found = Found(l)])
          /\ GoTo(c, "list")
          /\ UNCHANGED <<nfts, assets>>
    /\ UNCHANGED <<cacheVars, bundleVars, histories, excluded>>

\* resolve_collection_address for one resident NFT after the other, until one
\* answers with its group.
Resolve(c) ==
    /\ pc[c] = "resolve"
    /\ \E group \in {Address[c]} \union ({GroupOf[n] : n \in Resident[c]} \ {NoGroup}) :
          ListGroup(c, group, group = Address[c])
    /\ UNCHANGED <<cacheVars, bundleVars, nfts, assets, histories, excluded>>

-----------------------------------------------------------------------------
(* fetch_assets_by_ids, and what enrich_solana makes of it.                *)

\* Known not to be an NFT collection: nothing else is asked for.
Exclude(c) ==
    /\ quality' = Put(quality, c, [quality[c] EXCEPT !["transfers"] = "complete",
                                                     !["sales"] = "complete"])
    /\ assets' = Put(assets, c, "complete")
    /\ histories' = Put(histories, c, "complete")
    /\ excluded' = Put(excluded, c, TRUE)
    /\ GoTo(c, "done")
    /\ UNCHANGED nfts

\* Mutant: a rejected mint is enough.
ExcludedAlready(c, rejected) == rejected # {}

AllRejected(c, rejected) == rejected = Resident[c]

\* NFTs asked for directly are the whole collection if they are all there is
\* and belong to no group.
DirectStatus(c, found) ==
    IF found = Resident[c] /\ \A n \in found : GroupOf[n] = NoGroup
    THEN "complete" ELSE "truncated"

FetchDirect(c) ==
    /\ pc[c] = "direct"
    /\ \E asked \in SUBSET Resident[c] :
          /\ Cardinality(asked) = Smaller(Cardinality(Resident[c]), MaxAssets)
          /\ \E lost \in SUBSET asked :     \* unknown, ambiguous or failed
                LET found == asked \ (lost \union NonNfts)
                    rejected == (asked \intersect NonNfts) \ lost
                IN  /\ FallShort(Cardinality(lost))
                    /\ \/ /\ found # {}
                          /\ Settle(c, DirectStatus(c, found), found)
                          /\ UNCHANGED <<quality, histories, excluded>>
                       \/ /\ found = {} /\ AllRejected(c, rejected)
                          /\ Exclude(c)
                       \/ /\ found = {} /\ ~ AllRejected(c, rejected)
                          /\ Settle(c, "failed", {})
                          /\ UNCHANGED <<quality, histories, excluded>>
    /\ UNCHANGED <<current, cells, single, batch, transfers, sales, quotes, controlFlows,
                   operators, operatorFlows, flows, gas, listing>>

-----------------------------------------------------------------------------
(* fetch_asset_histories.                                                  *)

\* A history this long may go on.
LongHistory(n) == Cardinality(History[n]) >= Larger(MaxSignatures, 1)

\* Whole histories, partial ones (the fallback by address is always partial),
\* and none.
HistoryStatus(c, whole, cut, failed) ==
    CASE failed # {} /\ whole \union cut = {} -> "failed"
      [] failed = {} /\ cut = {} /\ Cardinality(nfts[c]) <= MaxHistory -> "complete"
      [] OTHER -> "truncated"

SetEvents(c, signatures) ==
    /\ transfers' = Put(transfers, c, signatures \ SoldIn)
    /\ sales' = Put(sales, c, signatures \intersect SoldIn)

FetchHistories(c) ==
    /\ pc[c] = "history"
    /\ \/ /\ assets[c] = "failed"
          /\ histories' = Put(histories, c, "failed")
          /\ UNCHANGED <<shortfalls, transfers, sales>>
       \/ /\ assets[c] # "failed"
          /\ \E asked \in SUBSET nfts[c] :
                /\ Cardinality(asked) = Smaller(Cardinality(nfts[c]), Larger(MaxHistory, 1))
                /\ \E whole \in SUBSET {n \in asked : ~ LongHistory(n)},
                      failed \in SUBSET asked :
                      LET cut == asked \ (whole \union failed) IN
                      /\ whole \intersect failed = {}
                      /\ FallShort(Cardinality(failed
                                       \union {n \in cut : ~ LongHistory(n)}))
                      /\ histories' = Put(histories, c, HistoryStatus(c, whole, cut, failed))
                      /\ \E some \in SUBSET UNION {History[n] : n \in cut} :
                            SetEvents(c, some \union UNION {History[n] : n \in whole})
    /\ GoTo(c, "decode")
    /\ UNCHANGED <<current, cells, single, batch, quality, quotes, controlFlows, operators,
                   operatorFlows, flows, gas, listing, nfts, assets, excluded>>

-----------------------------------------------------------------------------
(* The join of decode_and_attach_transactions and the native quote.        *)

SolanaQuotes(c) == IF pc[c] = "decode" THEN {SolanaNative} ELSE {}
Signatures(c) == IF pc[c] = "decode" THEN Activity(c) ELSE {}

CallQuote(c) ==
    /\ \E k \in SolanaQuotes(c) : LookUp(c, k)
    /\ UNCHANGED <<pc, bundleVars, solanaVars>>

CallTransactions(c) ==
    /\ Signatures(c) # {}
    /\ LookUpAll(c, Signatures(c))
    /\ UNCHANGED <<pc, bundleVars, solanaVars>>

AllFailed(c) == Rows(c) # {} /\ \A k \in Rows(c) : RowCell(c, k) = "fail"

\* The rows whose transaction came and shows all that is needed of it.
Decoded(c) ==
    {k \in Delivered(c) : k \notin Bare /\ (k \in transfers[c] => k \notin Feeless)}

\* page_trunc
Partial(c) == "truncated" \in {assets[c], histories[c]}

\* Mutant: rows are taken for complete as their transactions came.
StubStatus(c, rows) ==
    CASE rows = {} /\ ~ Partial(c) -> "complete"
      [] AllFailed(c) /\ (rows # {} \/ Partial(c)) -> "failed"
      [] ~ Partial(c) /\ rows # {} /\ rows \subseteq Delivered(c) -> "complete"
      [] OTHER -> "truncated"

\* field_status_after_decode
FieldStatus(c, rows) ==
    IF rows = {} /\ ~ Partial(c) THEN "complete"
    ELSE IF AllFailed(c) THEN "failed"
    ELSE IF Partial(c) \/ ~ rows \subseteq Decoded(c) THEN "truncated"
    ELSE "complete"

\* gas_outcome_from_stats counts fees of transfers, value_flow_outcome none.
FetchStatus(c, whole) ==
    IF Activity(c) = {} THEN "complete"
    ELSE IF AllFailed(c) THEN "failed"
    ELSE IF Delivered(c) = Rows(c) /\ whole THEN "complete" ELSE "truncated"

FeesKnown(c) == transfers[c] # {} /\ transfers[c] \intersect Feeless = {}

DecodeDone(c) ==
    /\ pc[c] = "decode"
    /\ Returned(c, {SolanaNative})
    /\ Signatures(c) = {} \/ batch[c].at = "returned"
    /\ LET known(status) == IF histories[c] = "failed" THEN "failed" ELSE status IN
       /\ quality' = Put(quality, c, [f \in Families |->
              CASE f = "transfers" -> known(FieldStatus(c, transfers[c]))
                [] f = "sales" -> known(FieldStatus(c, sales[c]))
                [] f = "gas" -> known(FetchStatus(c, FeesKnown(c)))
                [] f = "valueFlows" -> known(FetchStatus(c, TRUE))
                [] f = "prices" -> SinglesStatus(c, {SolanaNative})])
       /\ histories' = Put(histories, c, known(FieldStatus(c, Activity(c))))
    /\ quotes' = Put(quotes, c, AnsweredWith(c, {SolanaNative}, "good"))
    /\ gas' = Put(gas, c, Delivered(c))
    /\ CallsOver(c)
    /\ GoTo(c, "done")
    /\ UNCHANGED <<shortfalls, transfers, sales, controlFlows, operators, operatorFlows,
                   flows, listing, nfts, assets, excluded>>

SolanaCacheStep(c) ==
    /\ AnswerTransactions(c) \/ BatchEnd(c) \/ \E k \in Singles : SingleStep(c, k)
    /\ UNCHANGED <<pc, bundleVars, solanaVars>>

SolanaStep(c) ==
    \/ CutListing(c)
    \/ ListPage(c)
    \/ Resolve(c)
    \/ FetchDirect(c)
    \/ FetchHistories(c)
    \/ CallQuote(c)
    \/ CallTransactions(c)
    \/ SolanaCacheStep(c)
    \/ DecodeDone(c)

-----------------------------------------------------------------------------
(* The stream of candidates.                                               *)

Init == CacheInit /\ BundleInit /\ SolanaInit

\* enrich_candidate
TaskStep(c) ==
    \/ c \in EvmCandidates /\ EvmStep(c) /\ UNCHANGED solanaVars
    \/ c \in SolanaCandidates /\ SolanaStep(c)

Next == \E c \in Candidates : TaskStep(c)

Spec == Init /\ [][Next]_allVars

\* As long as a task can go on, the runtime polls one that can; every request
\* ends, by its timeout and its retries at the latest.
FairSpec == Spec /\ WF_allVars(Next)

-----------------------------------------------------------------------------
\* has_complete_evidence of a Solana candidate.
HasCompleteSolanaEvidence(c) ==
    \/ excluded[c]
    \/ HasCompleteEvidence(c) /\ assets[c] = "complete" /\ histories[c] = "complete"

\* The verified NFTs of a collection.
Members(group) ==
    {Listed[group][FALSE][i] : i \in 1..Len(Listed[group][FALSE])} \ NonNfts

\* The groups its residents are in.
ResidentGroups(c) == {GroupOf[n] : n \in Resident[c]} \ {NoGroup}

(* The NFTs a candidate may take for its whole collection: the verified    *)
(* ones of its address; if there are none, of a group its residents are    *)
(* in; and if there are none of those either, its residents themselves.    *)
Populations(c) ==
    IF Members(Address[c]) # {} \/ Resident[c] = {} THEN {Members(Address[c])}
    ELSE ({Resident[c]} \union {Members(g) : g \in ResidentGroups(c)}) \ {{}}

(* "A resident candidate with known NFT mints cannot truthfully have an    *)
(* authoritative Empty collection snapshot", and "signature-only stubs     *)
(* never become Complete": Solana evidence that is called complete has     *)
(* every NFT of the collection, though the pages shrink while they are     *)
(* counted on, every signature of their histories, and for each of them a  *)
(* transaction that shows what its row needs; and a candidate is excluded  *)
(* only if every resident said it is no NFT.                               *)
SolanaCompleteMeansWhole ==
    \A c \in SolanaCandidates :
        pc[c] = "done" /\ HasCompleteSolanaEvidence(c) =>
            IF excluded[c] THEN Resident[c] # {} /\ Resident[c] \subseteq NonNfts
            ELSE /\ nfts[c] \in Populations(c)
                 /\ Activity(c) = UNION {History[n] : n \in nfts[c]}
                 /\ Activity(c) \subseteq gas[c] \ Bare
                 /\ transfers[c] \intersect Feeless = {}
                 /\ SolanaNative \in quotes[c]

(* Every candidate gets its bundle, whoever leads the requests it needs,   *)
(* and however many of them fail.                                          *)
EnrichmentEnds == <>(\A c \in Candidates : pc[c] \in {"absent", "done"})
=============================================================================
