--------------------------- MODULE MCEvmCollector ---------------------------
(* The collector, and its workers alone while any key may be staged again. *)
(* a1 is an ordinary NFT and a2, of the same contract, has an inline image; *)
(* c2 is a contract blacklisted before.  The chain is blocks 1 to 4, in     *)
(* ranges of two: a1 moves in the upper and again in the lower range.       *)
EXTENDS EvmCollector, TLC

CONSTANTS a1, a2, c1, c2, erc721, erc1155

MCContractOf == [n \in NFTs |-> c1]

MCKindOf == [n \in NFTs |-> IF n = a2 THEN "inline" ELSE "media"]

Log(b, t, n) == [block |-> b, topic |-> t, nft |-> n]

MCTransfers == {Log(4, erc721, a1), Log(2, erc721, a1), Log(1, erc721, a2)}

\* The workers without the scanner, which stays as it starts.
WorkersSpec == CollectorInit /\ [][Next /\ UNCHANGED scanVars]_collectorVars

\* Workers differ only in their name, and no liveness is checked with this.
WorkerSymmetry == Permutations(Workers)
=============================================================================
