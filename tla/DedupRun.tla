------------------------------ MODULE DedupRun ------------------------------
(***************************************************************************)
(* A run of the deduplication (run in the pipeline of the command line):   *)
(* the inputs are loaded, then the names, the URIs and the metadata of the  *)
(* store are matched, one after the other, as far as the command asks.     *)
(* An error or an interrupt ends the run.                                  *)
(*                                                                         *)
(* The phase of the URIs (run_uri) is here: NFTs of different contracts    *)
(* with the same token URI are duplicates, then those with the same image  *)
(* URI that are not duplicates by token URI already.  The postings of a    *)
(* dimension are cut into chunks for the tasks of the pool; a group of     *)
(* postings with one URI may lie across the border of two chunks.          *)
(***************************************************************************)
EXTENDS NameMatching, MetadataMatching

CONSTANTS
    UriTasks    \* tasks aimed at: eight per thread

ASSUME UriAssumption == UriTasks \in Nat \ {0}

VARIABLES
    tasks,       \* of the tasks that have ended: the hits of their groups
    tokenHits,   \* what is a duplicate by token URI, scope by scope
    uriCounts    \* per dimension and scope: contracts and NFTs

uriVars == <<tasks, tokenHits, uriCounts>>

----------------------------------------------------------------------------
(* Tasks                                                                   *)

TaskSize(dimension) == Max({1, CeilDiv(Len(store.postings[dimension]), UriTasks)})

TaskCount(dimension) == CeilDiv(Len(store.postings[dimension]), TaskSize(dimension))

\* Mutant: the part of a group in the chunk counts as a group.
GroupStartsOfChunk(dimension, t) ==
    LET postings == store.postings[dimension]
        chunk == (t - 1) * TaskSize(dimension) + 1
                    .. Min({t * TaskSize(dimension), Len(postings)})
    IN {i \in chunk : i = Min(chunk) \/ postings[i - 1].uri # postings[i].uri}

\* A task takes the groups that begin in its chunk, to their ends.
GroupStarts(dimension, t) ==
    LET postings == store.postings[dimension]
        chunk == (t - 1) * TaskSize(dimension) + 1
                    .. Min({t * TaskSize(dimension), Len(postings)})
    IN {i \in chunk : i = 1 \/ postings[i - 1].uri # postings[i].uri}

Group(dimension, start) ==
    LET postings == store.postings[dimension]
    IN {postings[i] : i \in {j \in start..Len(postings) : postings[j].uri = postings[start].uri}}

----------------------------------------------------------------------------
(* The hits of a group                                                     *)

ScopesOf(chain, others) ==
    {Scope("intra", chain, NoChain), Scope("cross", chain, NoChain)}
        \union {Scope("matrix", chain, other) : other \in others}

Hit(scope, posting, nfts) == [scope |-> scope, contract |-> posting.contract, nfts |-> nfts]

ChainsIn(group) == {p.chain : p \in group}

\* accumulate_token_scope_hits
TokenGroupHits(group) ==
    LET others(p) == ChainsIn(group) \ {p.chain}
        inScope(p, scope) ==
            IF scope.kind = "intra" THEN Cardinality({q \in group : q.chain = p.chain}) >= 2
            ELSE others(p) # {}
    IN UNION {{Hit(scope, p, p.nfts) :
                scope \in {s \in ScopesOf(p.chain, others(p)) : inScope(p, s)}} : p \in group}

\* What of a posting is not a duplicate by token URI in a scope.
Remaining(p, scope) == {n \in p.nfts : <<n, scope>> \notin tokenHits}

\* The postings of a chain that have anything left in a scope.
Left(group, scope) ==
    {p \in group : p.chain = scope.primary /\ Remaining(p, scope) # {}}

\* accumulate_image_scope_hits
ImageGroupHits(group) ==
    LET others(chain) == ChainsIn(group) \ {chain}
        matched(scope) ==
            CASE scope.kind = "intra" -> Cardinality(Left(group, scope)) >= 2
              [] scope.kind = "cross" ->
                    \E other \in others(scope.primary) :
                        Left(group, [scope EXCEPT !.primary = other]) # {}
              [] scope.kind = "matrix" ->
                    Left(group, Scope("matrix", scope.secondary, scope.primary)) # {}
    IN UNION {{Hit(scope, p, Remaining(p, scope)) : p \in Left(group, scope)} :
                scope \in {s \in UNION {ScopesOf(c, others(c)) : c \in ChainsIn(group)} :
                                matched(s)}}

GroupHits(dimension, start) ==
    LET group == Group(dimension, start)
    IN IF Cardinality(group) < 2 THEN {}
       ELSE IF dimension = "token" THEN TokenGroupHits(group)
       ELSE ImageGroupHits(group)

\* What a task returns: the hits of its groups, one after another.
TaskHits(dimension, t) ==
    LET starts == SetToSortSeq(GroupStarts(dimension, t), <)
    IN [i \in DOMAIN starts |-> GroupHits(dimension, starts[i])]

\* The workers are reduced to one: contracts are joined, NFT rows are added.
Reduced(results) ==
    LET groups == FlattenSeq(results)
        found == UNION ToSet(groups)
        rows(scope, group) ==
            MapThenSumSet(LAMBDA h : Cardinality(h.nfts), {h \in group : h.scope = scope})
    IN [scope \in {h.scope : h \in found} |->
            [contracts |-> Cardinality({h.contract : h \in {g \in found : g.scope = scope}}),
             nfts |-> FoldLeft(LAMBDA sum, group : sum + rows(scope, group), 0, groups)]]
----------------------------------------------------------------------------
UriInit ==
    /\ tasks = <<>>
    /\ tokenHits = {}
    /\ uriCounts = [token |-> <<>>, image |-> <<>>]

Dimension == IF stage = "tokens" THEN "token" ELSE "image"

Unfinished == 1..TaskCount(Dimension) \ DOMAIN tasks

\* The command wants URIs; names, if it wants them too, have been matched.
BeginUris ==
    /\ {"token", "image"} \subseteq input.columns
    /\ stage = IF "name" \in input.columns THEN "named" ELSE "loaded"
    /\ stage' = "tokens"
    /\ UNCHANGED <<loadVars, noticed, uriVars>>

\* A task handles its groups, unless it notices an interrupt: what it returns
\* then is not used.
RunTask(t) ==
    /\ stage \in {"tokens", "images"} /\ t \in Unfinished
    /\ \/ ~noticed /\ UNCHANGED noticed
       \/ noticed' = TRUE
    /\ tasks' = tasks @@ (t :> TaskHits(Dimension, t))
    /\ UNCHANGED <<loadVars, stage, tokenHits, uriCounts>>

TaskResults == [t \in 1..TaskCount(Dimension) |-> tasks[t]]

\* All tasks have ended: their hits are counted.
EndTasks ==
    /\ stage \in {"tokens", "images"}
    /\ Unfinished = {}
    /\ tasks' = <<>>
    /\ IF noticed THEN stage' = "interrupted" /\ UNCHANGED <<tokenHits, uriCounts>>
       ELSE /\ uriCounts' = [uriCounts EXCEPT ![Dimension] = Reduced(TaskResults)]
            /\ IF stage = "tokens"
               THEN /\ tokenHits' = UNION {{<<n, h.scope>> : n \in h.nfts} :
                                            h \in UNION ToSet(FlattenSeq(TaskResults))}
                    /\ stage' = "images"
               ELSE stage' = "matched" /\ UNCHANGED tokenHits
    /\ UNCHANGED <<loadVars, noticed>>

UriNext == BeginUris \/ (\E t \in Unfinished : RunTask(t)) \/ EndTasks

----------------------------------------------------------------------------
(* However the postings are cut, an NFT is counted in a scope exactly if an *)
(* NFT of another contract in that scope has its URI; for images, only NFTs *)
(* that are not duplicates by token URI in the same scope are considered,   *)
(* on both sides.                                                           *)
InScope(n, m, scope) ==
    /\ ContractOf[m] # ContractOf[n]
    /\ ChainOf[ContractOf[n]] = scope.primary
    /\ CASE scope.kind = "intra" -> ChainOf[ContractOf[m]] = scope.primary
         [] scope.kind = "cross" -> ChainOf[ContractOf[m]] # scope.primary
         [] scope.kind = "matrix" -> ChainOf[ContractOf[m]] = scope.secondary

AllChains == {ChainOf[c] : c \in Contracts}

AllScopes == UNION {ScopesOf(c, AllChains \ {c}) : c \in AllChains}

\* The scope as an NFT of the other side sees it.
Seen(scope, m) ==
    IF scope.kind = "matrix" THEN Scope("matrix", scope.secondary, scope.primary)
    ELSE [scope EXCEPT !.primary = ChainOf[ContractOf[m]]]

Same(uriOf, n, m) == uriOf[n] # Absent /\ uriOf[n] = uriOf[m]

TokenTwins(n, scope) == {m \in Nfts : InScope(n, m, scope) /\ Same(store.token, n, m)}

ImageTwins(n, scope) ==
    IF TokenTwins(n, scope) # {} THEN {}
    ELSE {m \in Nfts : /\ InScope(n, m, scope) /\ Same(store.image, n, m)
                       /\ TokenTwins(m, Seen(scope, m)) = {}}

ExpectedCounts(Twins(_, _)) ==
    LET duplicates(scope) == {n \in Nfts : Twins(n, scope) # {}}
    IN [scope \in {s \in AllScopes : duplicates(s) # {}} |->
            [contracts |-> Cardinality({ContractOf[n] : n \in duplicates(scope)}),
             nfts |-> Cardinality(duplicates(scope))]]

UrisExact ==
    stage = "matched" =>
        /\ uriCounts.token = ExpectedCounts(TokenTwins)
        /\ uriCounts.image = ExpectedCounts(ImageTwins)

----------------------------------------------------------------------------
(* The run                                                                 *)

dedupVars == <<input, stage, shards, noticed, store, nameVars, uriVars, metaVars>>

DedupInit == StoreInit /\ NameInit /\ UriInit /\ MetaInit

Load == StoreNext /\ UNCHANGED <<nameVars, uriVars, metaVars>>

MatchNames == NameNext /\ UNCHANGED <<uriVars, metaVars>>

MatchUris == UriNext /\ UNCHANGED <<nameVars, metaVars>>

MatchMetadata == MetaNext /\ UNCHANGED <<nameVars, uriVars>>

DedupNext == Load \/ MatchNames \/ MatchUris \/ MatchMetadata

DedupSpec == DedupInit /\ [][DedupNext]_dedupVars

----------------------------------------------------------------------------
(* The lanes and tasks of a phase begin with nothing of an earlier one: no *)
(* interrupt noticed, no name claimed twice, no mark of another name.      *)
DedupTypeOK ==
    /\ stage \in {"load", "loaded", "score", "named", "tokens", "images", "matched",
                  "direct", "done", "conflict", "absent", "interrupted"}
    /\ stage \in {"loaded", "named", "matched", "done"} => ~noticed
    /\ stage # "load" => \A f \in DOMAIN shards : shards[f] = <<>>
    /\ NamesTypeOK

(* What a finished run reports is what comparing all pairs would find.    *)
DuplicatesExact == NamesExact /\ UrisExact /\ MetadataExact
=============================================================================
