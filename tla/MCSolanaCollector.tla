------------------------- MODULE MCSolanaCollector -------------------------
(* Two pages: m1 is listed on the first, m2 on the second. *)
EXTENDS SolanaCollector, TLC

CONSTANTS m1, m2

MCPageOf == [m \in Mints |-> IF m = m1 THEN 1 ELSE 2]

WorkerSymmetry == Permutations(Workers)
=============================================================================
