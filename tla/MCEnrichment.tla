---------------------------- MODULE MCEnrichment ----------------------------
(* Two clones of one deployer, minted in one block: they share the native  *)
(* quote, the query of the deployer and a transaction in which one is      *)
(* minted and the other sold.  A Solana collection whose last NFT comes on *)
(* a page smaller than the first ones, and a single NFT without collection *)
(* sold in the same transaction.  By themselves, an NFT without collection *)
(* whose evidence can be complete, a token that is no NFT, one beside an   *)
(* NFT that claims another collection, and a collection that reaches the   *)
(* limit.                                                                  *)
EXTENDS SolanaEnrichment, TLC

CONSTANTS a, b, t1, t2, eth, deployer, seller, token,
          s, u, v, w, x, y, gs, gnone, gw, gy, gother,
          n1, n2, n3, alone, lone, long, coin, other, moved, s1, s2, s3, sol

MCJobs == {{a, b}, {s, u}, {v}, {w}, {x}, {y}}
MCEvm(e) == [c \in Candidates |-> IF c = a THEN e[1] ELSE IF c = b THEN e[2] ELSE {}]
MCTransferTxs == MCEvm(<<{t1}, {t2}>>)
MCMintTxs == MCEvm(<<{t1}, {}>>)
MCSaleTxs == MCEvm(<<{}, {t1}>>)
MCTokenQuotes == MCEvm(<<{}, {token}>>)
MCControlled == MCEvm(<<{deployer}, {deployer}>>)
MCActive == MCEvm(<<{seller}, {seller}>>)
MCFlowTxs == [k \in Singles |-> CASE k = deployer -> {t2} [] k = seller -> {t1} [] OTHER -> {}]

MCAddress == [c \in Candidates |-> CASE c = s -> gs [] c = w -> gw [] c = y -> gy
                                     [] OTHER -> gnone]
MCResident == [c \in Candidates |-> CASE c = s -> {n1} [] c = u -> {alone} [] c = v -> {lone}
                                      [] c = w -> {coin, moved}
                                      [] c = x -> {coin}
                                      [] OTHER -> {}]
MCGroupOf == [n \in Nfts |-> CASE n = moved -> gother [] n \in {n1, n2, n3} -> gs
                               [] OTHER -> NoGroup]
MCListed == [g \in Collections |-> [unverified \in BOOLEAN |->
                CASE g = gs -> <<n1, n2, coin, other, n3>>
                  [] g = gy -> <<n1, n2, n3, long>>
                  [] g = gother /\ unverified -> <<moved>>
                  [] OTHER -> <<>>]]
MCHistory == [n \in Nfts |-> CASE n = n1 -> {s1} [] n = n2 -> {s2}
                               [] n = alone -> {s1, s3} [] n = lone -> {s2}
                               [] n = moved -> {s1, s2} [] n = long -> {s1, s2, s3}
                               [] OTHER -> {}]
=============================================================================
