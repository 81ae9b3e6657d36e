---------------------------- MODULE RequestCache ----------------------------
(***************************************************************************)
(* The request caches that the candidates of one enrichment run share      *)
(* (src/analysis/crates/core/src/enrich): the OnceCell caches of price     *)
(* quotes and external transfers, which serve one key per call, and the    *)
(* caches of receipts and of Solana transactions, which serve a set of     *)
(* keys per call and ask for all those it leads at once.  A cell is shared *)
(* by whoever looked its key up while it was in the map; taking it out of  *)
(* the map ends that.                                                      *)
(***************************************************************************)
EXTENDS Integers, Sequences, FiniteSets

CONSTANTS
    Candidates,     \* candidate contracts, each a task of its own
    Receipts,       \* transactions, keys of the receipt and transaction caches
    Singles,        \* keys of the price and external transfer caches
    MaxShortfalls   \* bound: answers that are not complete

ASSUME KeysAssumption ==
    /\ IsFiniteSet(Receipts)
    /\ Receipts \intersect Singles = {}
    /\ MaxShortfalls \in Nat

Keys == Receipts \union Singles

\* A whole answer; a cut page, a missing quote or an unknown transaction; none.
Answers == {"good", "part", "fail"}

VARIABLES
    current,    \* the cell the map has for a key, 0 if none
    cells,      \* every cell a key ever had, oldest first
    single,     \* the call of each candidate for each single key
    batch,      \* the call of each candidate for a set of keys
    shortfalls  \* incomplete answers so far

cacheVars == <<current, cells, single, batch, shortfalls>>

NoCall == [at |-> "idle", cell |-> 0]
NoBatch == [at |-> "idle", rows |-> [k \in {} |-> 0], led |-> {}]

CacheInit ==
    /\ current = [k \in Keys |-> 0]
    /\ cells = [k \in Keys |-> <<>>]
    /\ single = [c \in Candidates |-> [k \in Singles |-> NoCall]]
    /\ batch = [c \in Candidates |-> NoBatch]
    /\ shortfalls = 0

FallShort(n) ==
    /\ shortfalls + n <= MaxShortfalls
    /\ shortfalls' = shortfalls + n

Missing(ks) == {k \in ks : current[k] = 0}

\* The keys of ks without a cell in the map get one; who put it there asks.
OpenCells(ks) ==
    /\ cells' = [k \in Keys |-> IF k \in Missing(ks) THEN Append(cells[k], "asked")
                                                    ELSE cells[k]]
    /\ current' = [k \in Keys |-> IF k \in Missing(ks) THEN Len(cells[k]) + 1
                                                      ELSE current[k]]

-----------------------------------------------------------------------------
(* fetch_subset and ExternalTransferCache::fetch.                          *)

SetCall(c, k, call) == single' = [single EXCEPT ![c][k] = call]

CellOf(c, k) == cells[k][single[c][k].cell]

\* get_or_init runs the request of the first caller; the others wait for it.
LookUp(c, k) ==
    /\ single[c][k].at = "idle"
    /\ OpenCells({k})
    /\ SetCall(c, k, [at |-> IF k \in Missing({k}) THEN "asking" ELSE "wait",
                      cell |-> current'[k]])
    /\ UNCHANGED <<batch, shortfalls>>

\* Only a complete answer may stay in the map.
HaveAnswer(c, k, answer) ==
    SetCall(c, k, [single[c][k] EXCEPT !.at = IF answer = "good" THEN "returned"
                                                              ELSE "evict"])

Answer(c, k) ==
    /\ single[c][k].at = "asking"
    /\ \E answer \in Answers :
          /\ FallShort(IF answer = "good" THEN 0 ELSE 1)
          /\ cells' = [cells EXCEPT ![k][single[c][k].cell] = answer]
          /\ HaveAnswer(c, k, answer)
    /\ UNCHANGED <<current, batch>>

Take(c, k) ==
    /\ single[c][k].at = "wait"
    /\ CellOf(c, k) \in Answers
    /\ HaveAnswer(c, k, CellOf(c, k))
    /\ UNCHANGED <<current, cells, batch, shortfalls>>

\* Mutant: whatever cell the map has for the key is removed.
EvictAny(c, k) ==
    /\ single[c][k].at = "evict"
    /\ current' = [current EXCEPT ![k] = 0]
    /\ SetCall(c, k, [single[c][k] EXCEPT !.at = "returned"])
    /\ UNCHANGED <<cells, batch, shortfalls>>

\* Arc::ptr_eq: a cell is taken out of the map, never its successor.
Evict(c, k) ==
    /\ single[c][k].at = "evict"
    /\ current' = [current EXCEPT ![k] = IF @ = single[c][k].cell THEN 0 ELSE @]
    /\ SetCall(c, k, [single[c][k] EXCEPT !.at = "returned"])
    /\ UNCHANGED <<cells, batch, shortfalls>>

SingleStep(c, k) == Answer(c, k) \/ Take(c, k) \/ Evict(c, k)

Returned(c, ks) == \A k \in ks : single[c][k].at = "returned"

\* Of the keys asked for, those with the given answer.
AnsweredWith(c, ks, answer) == {k \in ks : CellOf(c, k) = answer}

-----------------------------------------------------------------------------
(* ReceiptRequestCache::fetch and TransactionRequestCache::fetch_many.      *)

SetBatch(c, call) == batch' = [batch EXCEPT ![c] = call]

RowCell(c, k) == cells[k][batch[c].rows[k]]

\* Under one lock: the call joins the cells there are and leads the others,
\* which nobody else will ask for.
LookUpAll(c, ks) ==
    /\ batch[c].at = "idle"
    /\ OpenCells(ks)
    /\ SetBatch(c, [at |-> IF Missing(ks) = {} THEN "wait" ELSE "asking",
                    rows |-> [k \in ks |-> current'[k]], led |-> Missing(ks)])
    /\ UNCHANGED <<single, shortfalls>>

\* Mutant: only the receipts that came are handed on.
AnswerOnlyGood(c) ==
    /\ batch[c].at = "asking"
    /\ \E bad \in SUBSET batch[c].led :
          /\ FallShort(Cardinality(bad))
          /\ cells' = [k \in Keys |->
                          IF k \in batch[c].led \ bad
                          THEN [cells[k] EXCEPT ![batch[c].rows[k]] = "good"]
                          ELSE cells[k]]
    /\ SetBatch(c, [batch[c] EXCEPT !.at = "wait"])
    /\ UNCHANGED <<current, single>>

\* The answers of the keys the call leads: those in bad failed, those in nulls
\* are not known to the provider.
AnswerWith(c, nulls, bad) ==
    /\ batch[c].at = "asking"
    /\ FallShort(Cardinality(nulls \union bad))
    /\ cells' = [k \in Keys |->
                    IF k \in batch[c].led
                    THEN [cells[k] EXCEPT ![batch[c].rows[k]] =
                             IF k \in bad THEN "fail" ELSE IF k \in nulls THEN "part" ELSE "good"]
                    ELSE cells[k]]
    /\ SetBatch(c, [batch[c] EXCEPT !.at = "wait"])
    /\ UNCHANGED <<current, single>>

\* A receipt that lacks an answer failed; a transaction may also be null.
AnswerAll(c) == \E bad \in SUBSET batch[c].led : AnswerWith(c, {}, bad)

AnswerTransactions(c) ==
    \E bad, nulls \in SUBSET batch[c].led :
        nulls \intersect bad = {} /\ AnswerWith(c, nulls, bad)

Rows(c) == DOMAIN batch[c].rows
Delivered(c) == {k \in Rows(c) : RowCell(c, k) = "good"}

\* The call has waited for every row, also those that others lead.
CollectRows(c) ==
    /\ batch[c].at = "wait"
    /\ \A k \in Rows(c) : RowCell(c, k) \in Answers
    /\ SetBatch(c, [batch[c] EXCEPT !.at = IF Delivered(c) = Rows(c) THEN "returned"
                                                                  ELSE "evict"])
    /\ UNCHANGED <<current, cells, single, shortfalls>>

\* Mutant: failed receipts stay in the map.
EvictNone(c) ==
    /\ batch[c].at = "evict"
    /\ SetBatch(c, [batch[c] EXCEPT !.at = "returned"])
    /\ UNCHANGED <<current, cells, single, shortfalls>>

EvictFailed(c) ==
    /\ batch[c].at = "evict"
    /\ current' = [k \in Keys |-> IF /\ k \in Rows(c) \ Delivered(c)
                                     /\ current[k] = batch[c].rows[k]
                                  THEN 0 ELSE current[k]]
    /\ SetBatch(c, [batch[c] EXCEPT !.at = "returned"])
    /\ UNCHANGED <<cells, single, shortfalls>>

BatchEnd(c) == CollectRows(c) \/ EvictFailed(c)

BatchStep(c) == AnswerAll(c) \/ BatchEnd(c)

-----------------------------------------------------------------------------
(* "Overlapping candidate and value-flow transaction sets fetch each       *)
(* receipt at most once after a successful result": of all the requests    *)
(* ever made for a key, at most one is under way or was answered in full.  *)
RequestedOnce ==
    \A k \in Keys :
        Cardinality({i \in 1..Len(cells[k]) : cells[k][i] \in {"asked", "good"}}) <= 1

(* The call of c has the cell of k that is in the map, waits for it or for *)
(* other rows beside it, or is going to take it out.                       *)
Holds(c, k) ==
    \/ /\ k \in Singles
       /\ single[c][k].at \in {"wait", "evict"} /\ single[c][k].cell = current[k]
    \/ /\ k \in Rows(c)
       /\ batch[c].at \in {"wait", "evict"} /\ batch[c].rows[k] = current[k]

(* "Incomplete outcomes are evicted so a later candidate can retry": the   *)
(* map keeps an incomplete answer only as long as some call holds it.      *)
FailuresForgotten ==
    \A k \in Keys :
        current[k] # 0 /\ cells[k][current[k]] \in {"part", "fail"} =>
            \E c \in Candidates : Holds(c, k)
=============================================================================
