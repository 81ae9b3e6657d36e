----------------------------- MODULE Similarity -----------------------------
(***************************************************************************)
(* The measures by which names and documents are compared, and the bounds  *)
(* that discard pairs without computing them.  The deduplication and the   *)
(* analysis carry one copy each of this arithmetic.  Similarities are      *)
(* fractions <<numerator, denominator>>, thresholds are per cent, names    *)
(* are sequences of numbers and documents sets of terms.                   *)
(***************************************************************************)
EXTENDS Naturals, Sequences, FiniteSets, SequencesExt, FiniteSetsExt

MinOf(i, j) == IF i < j THEN i ELSE j

MaxOf(i, j) == IF i < j THEN j ELSE i

\* The order of two strings of a store.
StringBefore(s, t) ==
    \/ IsStrictPrefix(s, t)
    \/ \E i \in 1..MinOf(Len(s), Len(t)) :
        s[i] < t[i] /\ \A j \in 1..i - 1 : s[j] = t[j]

Reaches(f, threshold) == 100 * f[1] >= threshold * f[2]

----------------------------------------------------------------------------
(* Jaro-Winkler similarity of names (rapidfuzz)                            *)

\* Jaro-Winkler adds a tenth of the gap per common leading character.
Boost(f, prefix) == <<10 * f[1] + prefix * (f[2] - f[1]), 10 * f[2]>>

BoostLikely(f, prefix) == IF 10 * f[1] > 7 * f[2] THEN Boost(f, prefix) ELSE f

\* Positions of t, each character of s taking the first free equal one within
\* the window: Matching(s, t)[i] is where s[i] went, 0 for nowhere.
Matching(s, t) ==
    LET half == MaxOf(Len(s), Len(t)) \div 2
        window == IF half = 0 THEN 0 ELSE half - 1
        free(i, taken) == {j \in 1..Len(t) : /\ j <= i + window /\ i <= j + window
                                             /\ s[i] = t[j] /\ j \notin taken}
    IN FoldLeft(LAMBDA at, i :
                    LET options == free(i, ToSet(at))
                    IN Append(at, IF options = {} THEN 0 ELSE Min(options)),
                <<>>, [i \in 1..Len(s) |-> i])

CommonPrefix(s, t) ==
    Max({k \in 0..MinOf(4, MinOf(Len(s), Len(t))) : \A i \in 1..k : s[i] = t[i]})

JaroWinkler(s, t) ==
    LET at == SelectSeq(Matching(s, t), LAMBDA j : j # 0)
        inOrder == SetToSortSeq(ToSet(at), <)
        m == Len(at)
        swaps == Cardinality({i \in 1..m : t[at[i]] # t[inOrder[i]]}) \div 2
        jaro == <<m * m * (Len(s) + Len(t)) + (m - swaps) * Len(s) * Len(t),
                  3 * m * Len(s) * Len(t)>>
    IN IF m = 0 THEN <<0, 1>> ELSE BoostLikely(jaro, CommonPrefix(s, t))

----------------------------------------------------------------------------
(* Bounds on the similarity of names                                       *)

\* upper_bound_from_lengths
LengthsCanReach(k, l, threshold) ==
    LET shorter == MinOf(k, l)
        longer == MaxOf(k, l)
    IN Reaches(Boost(<<2 * longer + shorter, 3 * longer>>, MinOf(shorter, 4)), threshold)

OptimisticFromOverlap(k, l, overlap) ==
    IF overlap = 0 THEN <<0, 1>>
    ELSE BoostLikely(<<overlap * (k + l) + k * l, 3 * k * l>>, MinOf(overlap, 4))

\* The fewest shared tokens with which lengths k and l can reach the threshold.
MinimumOverlap(k, l, threshold) ==
    IF threshold = 0 THEN 0
    ELSE Min({o \in 0..MinOf(k, l) : Reaches(OptimisticFromOverlap(k, l, o), threshold)}
             \union {MinOf(k, l) + 1})

\* A token is a character and the number of its earlier occurrences.
Tokens(s) ==
    {<<s[i], Cardinality({j \in 1..i - 1 : s[j] = s[i]})>> : i \in 1..Len(s)}

TokenBefore(a, b) == a[1] < b[1] \/ (a[1] = b[1] /\ a[2] < b[2])

----------------------------------------------------------------------------
(* BM25 cosine of documents whose terms occur once, which cancels their    *)
(* lengths                                                                 *)

\* A term weighs IDF_ONCE, a shared one IDF_SHARED: squared as 100 to 7.
Weight(shared, others) == 7 * shared + 100 * others

CosineReaches(d, e, percent) ==
    LET shared == Cardinality(d \intersect e)
        weight(f) == Weight(shared, Cardinality(f) - shared)
    IN /\ shared # 0
       /\ 49 * shared * shared * 10000 >= percent * percent * weight(d) * weight(e)

\* The most the cosine can be if the first unique terms are not shared and
\* the others are; weights at MIN_LENGTH_NORM and MAX_LENGTH_NORM.
CannotReach(unique, rest, percent) ==
    10000 * 95 * rest < percent * percent * (242 * unique + 95 * rest)

\* lossless_prefix_len
PrefixLength(terms, percent) ==
    Min({i \in 1..terms : CannotReach(i, terms - i, percent)} \union {terms})
=============================================================================
