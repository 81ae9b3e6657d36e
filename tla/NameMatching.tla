---------------------------- MODULE NameMatching ----------------------------
(***************************************************************************)
(* Deduplication by name (dedup core, name::run_name): the names of the    *)
(* members, EVM contracts and Solana NFTs, are compared by Jaro-Winkler    *)
(* similarity.  Not every pair is compared: an index over occurrence       *)
(* tokens proposes candidates, and bounds on the similarity discard them.  *)
(* Lanes of the Rayon pool claim the names in chunks.                      *)
(***************************************************************************)
EXTENDS EntityStore, Similarity

CONSTANTS
    Unusable,        \* a name that says null
    Chunk,           \* SCORE_SCHEDULING_CHUNK
    Generations      \* 2^16 in the code

ASSUME MatchingAssumption ==
    /\ Chunk \in Nat \ {0}
    /\ Generations \in Nat \ {0, 1}

VARIABLES
    names,       \* the distinct names, shorter ones first
    nextLeft,    \* the atomic counter the lanes claim from
    todo,        \* per lane: what is left of its chunk, <<first, end>>
    generation,  \* per lane: the current mark of CandidateSeen
    seen,        \* per lane: the mark of each name
    laneHits,    \* per lane: hits it has found
    laneEnded,   \* lanes that have left the loop
    hits         \* <<member, peer chain>>: what the summary counts

laneVars == <<nextLeft, todo, generation, seen, laneHits, laneEnded>>

nameVars == <<names, laneVars, hits>>

----------------------------------------------------------------------------
(* Members and their names                                                 *)

OnSolana(n) == ChainOf[ContractOf[n]] \in SolanaChains

\* Per cent, --name-threshold.
threshold == input.threshold

Named == {n \in Nfts : store.name[n] \notin {Absent, Unusable}}

\* A member is a contract, or an NFT on Solana.
MemberOf(n) == IF OnSolana(n) THEN n ELSE ContractOf[n]

Members == {MemberOf(n) : n \in Named}

MemberNfts(m) == {n \in Named : MemberOf(n) = m}

MemberChain(m) == ChainOf[ContractOf[CHOOSE n \in Named : MemberOf(n) = m]]

\* How many NFTs of a contract carry the name s.
Count(m, s) == Cardinality({n \in MemberNfts(m) : store.name[n] = s})

\* The name most NFTs of a contract carry, the smaller of two equally common.
MemberName(m) ==
    CHOOSE s \in {store.name[n] : n \in MemberNfts(m)} :
        \A t \in {store.name[n] : n \in MemberNfts(m)} \ {s} :
            \/ Count(m, s) > Count(m, t)
            \/ Count(m, s) = Count(m, t) /\ StringBefore(s, t)

\* atomize
Names ==
    SetToSortSeq({MemberName(m) : m \in Members},
        LAMBDA s, t : Len(s) < Len(t) \/ (Len(s) = Len(t) /\ StringBefore(s, t)))

LeftCount == Len(names) - 1

----------------------------------------------------------------------------
(* The index                                                               *)

Posting(token) == {i \in 1..Len(names) : token \in Tokens(names[i])}

\* Tokens of a name, the rarest first.
Prefix(left) ==
    SetToSortSeq(Tokens(names[left]),
        LAMBDA a, b : LET na == Cardinality(Posting(a))
                          nb == Cardinality(Posting(b))
                      IN na < nb \/ (na = nb /\ TokenBefore(a, b)))

\* build_right_name_range_ends: the ends never move back.
RightEnd ==
    LET ends[left \in 0..LeftCount] ==
            IF left = 0 THEN 1
            ELSE LET from == MaxOf(ends[left - 1], left)
                     beyond == {r \in from + 1..Len(names) :
                                    ~LengthsCanReach(Len(names[left]), Len(names[r]), threshold)}
                 IN IF beyond = {} THEN Len(names) ELSE Min(beyond) - 1
    IN [left \in 1..LeftCount |-> ends[left]]

----------------------------------------------------------------------------
(* Scoring one name                                                        *)

\* begin_name: a fresh mark; when the marks run out all of them are cleared.
BeginName(w) ==
    LET next == (generation[w] + 1) % Generations
    IN IF next # 0 THEN [mark |-> next, marks |-> seen[w]]
       ELSE [mark |-> 1, marks |-> [i \in DOMAIN seen[w] |-> 0]]

\* Names after left that share one of its rare tokens: names that share
\* none of them have too few tokens in common.
Probed(left) ==
    LET overlap == MinimumOverlap(Len(names[left]), Len(names[left + 1]), threshold)
        prefix == Prefix(left)
        length == IF overlap = 0 THEN Len(prefix)
                  ELSE MinOf(Len(prefix) - MinOf(overlap, Len(prefix)) + 1, Len(prefix))
        range == left + 1..RightEnd[left]
    IN IF range = {} THEN {}
       ELSE IF overlap = 0 THEN range
       ELSE range \intersect UNION {Posting(prefix[i]) : i \in 1..length}

\* Candidates come from the index once: those marked already are skipped.
\* Without a least overlap the marks are not consulted.
Candidates(left, begun) ==
    IF MinimumOverlap(Len(names[left]), Len(names[left + 1]), threshold) = 0 THEN Probed(left)
    ELSE {r \in Probed(left) : begun.marks[r] # begun.mark}

\* resident_candidate_passes_overlap
PassesOverlap(left, right) ==
    LET s == names[left]
        t == names[right]
        required == MinimumOverlap(Len(s), Len(t), threshold)
    IN /\ required <= MinOf(Len(s), Len(t))
       /\ Cardinality(Tokens(s) \intersect Tokens(t)) >= required

\* record_pair_hits: both names hit the chains of the other's members.
PairHits(s, t) ==
    UNION {{<<m, MemberChain(n)>>, <<n, MemberChain(m)>>} :
            <<m, n>> \in {x \in Members \X Members :
                            MemberName(x[1]) = s /\ MemberName(x[2]) = t}}

\* emit_identical: the members of one name hit each other.
IdenticalHits ==
    UNION {{<<m, MemberChain(n)>>, <<n, MemberChain(m)>>} :
            <<m, n>> \in {x \in Members \X Members :
                            x[1] # x[2] /\ MemberName(x[1]) = MemberName(x[2])}}

----------------------------------------------------------------------------
NameInit ==
    /\ names = <<>>
    /\ nextLeft = 1
    /\ todo = [w \in Lanes |-> <<1, 1>>]
    /\ generation = [w \in Lanes |-> 0]
    /\ seen = [w \in Lanes |-> <<>>]
    /\ laneHits = [w \in Lanes |-> {}]
    /\ laneEnded = {}
    /\ hits = {}

\* The names are collected and their members recorded; then lanes compare
\* different names.
BeginNames ==
    /\ stage = "loaded" /\ "name" \in input.columns
    /\ names' = Names
    /\ hits' = IdenticalHits
    /\ seen' = [w \in Lanes |-> [i \in 1..Len(Names) |-> 0]]
    /\ stage' = IF Len(Names) < 2 THEN "named" ELSE "score"
    /\ UNCHANGED <<loadVars, noticed, nextLeft, todo, generation, laneHits, laneEnded>>

Idle(w) == todo[w][1] >= todo[w][2]

\* Mutant: a claim moves the counter by one name only.
ClaimOverlapping(w) ==
    /\ stage = "score" /\ w \notin laneEnded /\ Idle(w)
    /\ nextLeft' = nextLeft + 1
    /\ IF nextLeft > LeftCount \/ noticed
       THEN laneEnded' = laneEnded \union {w} /\ UNCHANGED todo
       ELSE /\ todo' = [todo EXCEPT ![w] =
                            <<nextLeft, MinOf(nextLeft + Chunk, LeftCount + 1)>>]
            /\ UNCHANGED laneEnded
    /\ UNCHANGED <<loadVars, names, stage, generation, seen, laneHits, noticed, hits>>

\* fetch_add hands out chunks; a lane without one ends.
Claim(w) ==
    /\ stage = "score" /\ w \notin laneEnded /\ Idle(w)
    /\ nextLeft' = nextLeft + Chunk
    /\ IF nextLeft > LeftCount \/ noticed
       THEN laneEnded' = laneEnded \union {w} /\ UNCHANGED todo
       ELSE /\ todo' = [todo EXCEPT ![w] =
                            <<nextLeft, MinOf(nextLeft + Chunk, LeftCount + 1)>>]
            /\ UNCHANGED laneEnded
    /\ UNCHANGED <<loadVars, names, stage, generation, seen, laneHits, noticed, hits>>

\* Compare the next name of the chunk with its candidates.
ScoreName(w) ==
    /\ stage = "score" /\ ~Idle(w)
    /\ LET left == todo[w][1]
           begun == BeginName(w)
           fresh == Candidates(left, begun)
           marked == MinimumOverlap(Len(names[left]), Len(names[left + 1]), threshold) # 0
           similar == {r \in fresh : /\ PassesOverlap(left, r)
                                     /\ Reaches(JaroWinkler(names[left], names[r]), threshold)}
       IN /\ generation' = [generation EXCEPT ![w] = begun.mark]
          /\ seen' = [seen EXCEPT ![w] = [i \in DOMAIN @ |->
                        IF marked /\ i \in fresh THEN begun.mark ELSE begun.marks[i]]]
          /\ laneHits' = [laneHits EXCEPT ![w] =
                            @ \union UNION {PairHits(names[left], names[r]) : r \in similar}]
    /\ todo' = [todo EXCEPT ![w][1] = @ + 1]
    /\ UNCHANGED <<loadVars, names, stage, nextLeft, laneEnded, noticed, hits>>

\* A lane that reports its progress learns of an interrupt.
Interrupt(w) ==
    /\ stage = "score" /\ w \notin laneEnded /\ generation[w] # 0
    /\ ~noticed
    /\ noticed' = TRUE
    /\ UNCHANGED <<loadVars, names, stage, laneVars, hits>>

\* All lanes have ended: their hits are joined, or the run is interrupted.
Join ==
    /\ stage = "score" /\ laneEnded = Lanes
    /\ IF noticed THEN stage' = "interrupted" /\ UNCHANGED hits
       ELSE stage' = "named" /\ hits' = hits \union UNION {laneHits[w] : w \in Lanes}
    /\ UNCHANGED <<loadVars, names, laneVars, noticed>>

NameNext ==
    \/ BeginNames
    \/ \E w \in Lanes : Claim(w) \/ ScoreName(w) \/ Interrupt(w)
    \/ Join

----------------------------------------------------------------------------
(* Two lanes never hold the same name, and when a lane begins a name no    *)
(* name carries the mark it is going to use.                               *)
NamesTypeOK ==
    /\ \A w \in Lanes :
        /\ todo[w][1] <= todo[w][2] /\ todo[w][2] <= nextLeft
        /\ seen[w] \in [1..Len(names) -> 0..Generations - 1]
        /\ \A i \in DOMAIN seen[w] : BeginName(w).marks[i] # BeginName(w).mark
    /\ \A w, x \in Lanes :
        w # x => \A i \in todo[w][1]..todo[w][2] - 1 : i \notin todo[x][1]..todo[x][2] - 1

(* Neither the length window nor the rare prefix nor the overlap filter    *)
(* nor the marks lose a pair: a member counts as a duplicate on a chain    *)
(* exactly when another member on that chain has a name as similar as the  *)
(* threshold asks, as if all pairs had been compared.                      *)
NamesExact ==
    stage = "named" =>
        hits = {<<m, MemberChain(n)>> : <<m, n>> \in
                    {x \in Members \X Members :
                        /\ x[1] # x[2]
                        /\ \/ MemberName(x[1]) = MemberName(x[2])
                           \/ Reaches(JaroWinkler(MemberName(x[1]), MemberName(x[2])), threshold)}}
=============================================================================
