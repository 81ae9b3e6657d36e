----------------------------- MODULE MCDedupRun -----------------------------
(* Two EVM contracts of one chain, one of them with two NFTs, a Solana      *)
(* collection with two NFTs and a contract on a third chain.                *)
EXTENDS DedupRun

CONSTANTS n1, n2, n3, n4, n5, n6, c1, c2, c3, c4, ethereum, solana, polygon

MCContractOf ==
    [n \in Nfts |-> CASE n \in {n1, n2} -> c1 [] n = n3 -> c2 [] n \in {n4, n5} -> c3 [] n = n6 -> c4]

MCChainOf ==
    [c \in {c1, c2, c3, c4} |-> CASE c \in {c1, c2} -> ethereum [] c = c3 -> solana [] c = c4 -> polygon]

\* The second NFT of a collection has the smaller token id, which is also
\* that of the second contract's NFT.
MCTokenNumber == [n \in Nfts |-> IF n \in {n2, n3, n5} THEN 1 ELSE 2]

LaneSymmetry == Permutations(Lanes)

Row(n, name, token, image, meta) ==
    [nft |-> n, name |-> name, token |-> token, image |-> image, meta |-> meta]

OneChunk(rows) == <<<<rows>>>>

----------------------------------------------------------------------------
(* Names that are alike in tokens, in length or in their beginning.        *)
MCStrings ==
    {<<3, 3>>, <<1, 2, 1>>, <<1, 1, 2>>, <<1, 2, 1, 2>>, <<1, 2, 2, 1>>, <<1, 2, 1, 2, 1>>}

\* The second NFT of the first contract repeats the first one's name or has
\* one of two others.
NameInputs ==
    {[files |-> OneChunk(<<Row(n1, f[n1], Absent, Absent, Absent),
                           Row(n2, f[n2], Absent, Absent, Absent),
                           Row(n3, f[n3], Absent, Absent, Absent),
                           Row(n4, f[n4], Absent, Absent, Absent),
                           Row(n5, f[n5], Absent, Absent, Absent)>>),
      columns |-> {"name"}, chains |-> {}, limit |-> 0,
      threshold |-> threshold100, similarity |-> 0] :
        f \in {g \in [{n1, n2, n3, n4, n5} -> MCStrings \union {Unusable}] :
                /\ g[n1] # Unusable /\ g[n2] \in {g[n1], <<1, 2>>, Unusable}
                /\ g[n5] \in {<<1, 2, 1>>, <<1, 2, 1, 2, 1>>, Unusable}},
        threshold100 \in {0, 80, 90}}

\* Two URIs in each dimension; the first NFT has the first image.
UriInputs ==
    {[files |-> OneChunk(<<Row(n1, Absent, t[n1], 1, Absent),
                           Row(n2, Absent, t[n2], i[n2], Absent),
                           Row(n3, Absent, t[n3], i[n3], Absent),
                           Row(n4, Absent, t[n4], i[n4], Absent),
                           Row(n6, Absent, t[n6], i[n6], Absent)>>),
      columns |-> {"token", "image"}, chains |-> {}, limit |-> 0,
      threshold |-> 0, similarity |-> 0] :
        t \in {g \in [{n1, n2, n3, n4, n6} -> {Absent, 1, 2}] : g[n1] # 2},
        i \in [{n2, n3, n4, n6} -> {1, 2}]}

----------------------------------------------------------------------------
(* Documents with and without terms, some alike by many terms or few, two  *)
(* of the same terms.                                                      *)
MCDocumentTerms ==
    [d \in 1..7 |-> CASE d \in {1, 2} -> {} [] d = 3 -> {1} [] d = 4 -> {1, 2}
                       [] d = 5 -> {1, 2, 3} [] d \in {6, 7} -> {1, 2, 3, 4}]

MetaInputs ==
    {[files |-> OneChunk(<<Row(n1, Absent, Absent, Absent, f[n1]),
                           Row(n2, Absent, Absent, Absent, f[n2]),
                           Row(n3, Absent, Absent, Absent, f[n3]),
                           Row(n4, Absent, Absent, Absent, f[n4]),
                           Row(n5, Absent, Absent, Absent, f[n5]),
                           Row(n6, Absent, Absent, Absent, f[n6])>>),
      columns |-> {"meta"}, chains |-> {}, limit |-> NoLimit,
      threshold |-> 0, similarity |-> similarity100] :
        f \in {g \in [{n1, n2, n3, n4, n5, n6} -> {Absent} \union 1..7] :
                /\ g[n1] # Absent /\ g[n2] \in {Absent, 1, 5} /\ g[n3] # Absent
                /\ g[n4] = 3 /\ g[n5] \in {Absent, 1, 6} /\ g[n6] \in {1, 5}},
        similarity100 \in {20, 40, 80}}

----------------------------------------------------------------------------
(* Rows of NFTs that occur more than once, over several files and groups.  *)
LoadRows ==
    {Row(n1, <<1, 2>>, 1, Absent, 1), Row(n1, Unusable, Absent, 1, 2),
     Row(n1, <<3, 3>>, 2, Absent, Absent), Row(n2, Absent, 1, 1, 1),
     Row(n4, <<1, 2>>, 1, 2, 1), Row(NoNft, <<1, 2>>, 1, 2, 1)}

\* A file is a sequence of row groups; three groups make two chunks.
Shapes(r) ==
    {<< <<<<r[1]>>, <<r[2]>>, <<r[3]>>>> >>,
     << <<<<r[1]>>, <<r[2]>>>>, <<<<r[3]>>>> >>,
     << <<>>, <<<<r[1]>>>>, <<<<r[2], r[3]>>>> >>}

LoadInputs ==
    UNION {{[files |-> shape, columns |-> {"name", "token", "image", "meta"},
             chains |-> chains, limit |-> limit,
             threshold |-> 90, similarity |-> 40] :
                shape \in Shapes(r), chains \in {{}, {solana}}, limit \in {1, NoLimit}} :
            r \in [1..3 -> LoadRows]}

MCInputs == <<NameInputs, UriInputs, LoadInputs, MetaInputs>>
=============================================================================
