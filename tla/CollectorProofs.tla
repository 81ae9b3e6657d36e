-------------------------- MODULE CollectorProofs --------------------------
(***************************************************************************)
(* Theorems about MetadataFetcher for any set of NFTs, contracts and       *)
(* workers, any number of faults and any .env file, and about EvmCollector *)
(* for any transfers, pages, blocks and faults besides.                    *)
(***************************************************************************)
EXTENDS EvmCollector, SequenceTheorems, TLAPS

USE DEF tableVars, fetchVars, localVars, blacklistHistory, vars

(* A row that exists is a record, and its ticket a ticket.                 *)
LEMMA RowFacts ==
    ASSUME TablesTypeOK, NEW n \in NFTs, HasRow(n)
    PROVE  temp[n] \in RowType /\ TicketOf(n) \in Ticket
BY DEF TablesTypeOK, HasRow, TicketOf, RowType, Ticket

(* Dropping a batch keeps the types of a worker's memory.                  *)
LEMMA ForgetType ==
    ASSUME TypeOK, NEW w \in Workers, NEW l \in PcType, Forget(w, l)
    PROVE  /\ pc' \in [Workers -> PcType]
           /\ pending' \in [Workers -> SUBSET Ticket]
           /\ inserts' \in [Workers -> SUBSET NFTs]
           /\ fresh' \in [Workers -> SUBSET Contracts]
           /\ effective' \in [Workers -> SUBSET Contracts]
           /\ envRead' \in [Workers -> SUBSET Contracts]
           /\ atLoad' \in [Workers -> SUBSET Contracts]
           /\ \A v \in Workers : pc'[v] \in {"claim", "down"} => pending'[v] = {}
BY DEF TypeOK, Forget, GoTo

LEMMA CutShortType ==
    ASSUME TypeOK, NEW w \in Workers, CutShort(w)
    PROVE  /\ late' \subseteq NFTs
           /\ unswept' \subseteq Contracts
           /\ torn' \in BOOLEAN
BY DEF TypeOK, CutShort

LEMMA FaultType ==
    ASSUME TypeOK, NEW k \in FaultKinds, Fault(k)
    PROVE  faults' \in [FaultKinds -> Nat]
BY DEF TypeOK, Fault

LEMMA ReleaseTempType ==
    ASSUME TablesTypeOK, NEW w \in Workers, NEW ts, ReleaseTemp(w, ts)
    PROVE  temp' \in [NFTs -> RowType \union {NoRow}]
BY DEF TablesTypeOK, ReleaseTemp, RowType, TicketOn, HasRow, Claimant

LEMMA DeleteTempType ==
    ASSUME TablesTypeOK, NEW ts, DeleteTemp(ts)
    PROVE  temp' \in [NFTs -> RowType \union {NoRow}]
BY DEF TablesTypeOK, DeleteTemp

LEMMA GoToType ==
    ASSUME TypeOK, NEW w \in Workers, NEW l \in PcType \ {"claim", "down"},
           GoTo(w, l), UNCHANGED pending
    PROVE  /\ pc' \in [Workers -> PcType]
           /\ \A v \in Workers : pc'[v] \in {"claim", "down"} => pending'[v] = {}
BY DEF TypeOK, GoTo

(* The initial states are well typed.                                      *)
LEMMA TypeInit == Init => TypeOK
<1> SUFFICES ASSUME Init PROVE TypeOK
  OBVIOUS
<1>1. TablesTypeOK
  BY StartBlacklistType DEF Init, TablesInit, TablesTypeOK
<1>2. /\ pc \in [Workers -> PcType]
      /\ pending \in [Workers -> SUBSET Ticket]
      /\ inserts \in [Workers -> SUBSET NFTs]
      /\ \A w \in Workers : pc[w] \in {"claim", "down"} => pending[w] = {}
  BY DEF Init, FetchInit, PcType
<1>3. /\ fresh \in [Workers -> SUBSET Contracts]
      /\ effective \in [Workers -> SUBSET Contracts]
      /\ envRead \in [Workers -> SUBSET Contracts]
      /\ atLoad \in [Workers -> SUBSET Contracts]
  BY DEF Init, FetchInit
<1>4. /\ startEnv \subseteq Contracts
      /\ stop \in BOOLEAN
      /\ faults \in [FaultKinds -> Nat]
      /\ unanswered \subseteq NFTs
      /\ everAged \subseteq Ticket
      /\ killed \subseteq Workers
      /\ late \subseteq NFTs
      /\ unswept \subseteq Contracts
      /\ torn \in BOOLEAN
  BY StartBlacklistType DEF Init, FetchInit
<1> QED BY <1>1, <1>2, <1>3, <1>4 DEF TypeOK

(* Every step keeps the types.                                             *)
LEMMA TypeStep == TypeOK /\ [Next]_vars => TypeOK'
<1> SUFFICES ASSUME TypeOK, [Next]_vars PROVE TypeOK'
  OBVIOUS
<1> USE DEF TypeOK, TablesTypeOK
<1>1. CASE UNCHANGED vars
  BY <1>1
<1>2. ASSUME NEW w \in Workers, Claim(w) PROVE TypeOK'
  <2>1. PICK locked \in SUBSET LockableByOthers(w), ns \in SUBSET Rows :
          /\ MarkClaimed(w, ns)
          /\ pending' = [pending EXCEPT ![w] = {TicketOf(n) : n \in ns}]
    BY <1>2 DEF Claim
  <2>2. \A n \in ns : n \in NFTs /\ temp[n] \in RowType /\ TicketOf(n) \in Ticket
    BY <2>1, RowFacts DEF Rows
  <2>3. temp' \in [NFTs -> RowType \union {NoRow}]
    BY <2>1, <2>2 DEF MarkClaimed, RowType, Claimant
  <2>4. pending' \in [Workers -> SUBSET Ticket]
    BY <2>1, <2>2
  <2>5. pc' = [pc EXCEPT ![w] = "process"]
    BY <1>2 DEF Claim, GoTo
  <2>6. \A v \in Workers : pc'[v] \in {"claim", "down"} => pending'[v] = {}
    BY <2>1, <2>5
  <2> QED BY <1>2, <2>3, <2>4, <2>5, <2>6 DEF Claim, PcType
<1>3. ASSUME NEW w \in Workers, ProcessBatch(w) PROVE TypeOK'
  <2>1. PICK silent \in SUBSET NFTsOf(pending[w]) :
          LET answered == NFTsOf(pending[w]) \ silent IN
          /\ IF silent = {} THEN UNCHANGED faults ELSE Fault("silence")
          /\ inserts' = [inserts EXCEPT ![w] = Accepted(answered)]
          /\ fresh' = [fresh EXCEPT ![w] = InlineContracts(answered)]
          /\ unanswered' = unanswered \union silent
          /\ GoTo(w, IF InlineContracts(answered) = {} THEN "load"
                                                       ELSE "appendRead")
    BY <1>3 DEF ProcessBatch
  <2> DEFINE answered == NFTsOf(pending[w]) \ silent
  <2>2. answered \subseteq NFTs /\ silent \subseteq NFTs
    BY <2>1 DEF NFTsOf, Ticket
  <2>3. Accepted(answered) \subseteq NFTs
    BY <2>2 DEF Accepted
  <2>4. InlineContracts(answered) \subseteq Contracts
    BY <2>2, ContractOfType DEF InlineContracts
  <2>5. faults' \in [FaultKinds -> Nat]
    BY <2>1, FaultType DEF FaultKinds
  <2>6. /\ pc' \in [Workers -> PcType]
        /\ \A v \in Workers : pc'[v] \in {"claim", "down"} => pending'[v] = {}
    BY <1>3, <2>1, GoToType DEF PcType, ProcessBatch
  <2> QED BY <1>3, <2>1, <2>2, <2>3, <2>4, <2>5, <2>6 DEF ProcessBatch
<1>4. ASSUME NEW w \in Workers, ProcessRaises(w) PROVE TypeOK'
  BY <1>4, ForgetType, FaultType, ReleaseTempType
     DEF ProcessRaises, PcType, FaultKinds
<1>5. ASSUME NEW w \in Workers, AppendRead(w) PROVE TypeOK'
  <2>1. /\ pc' \in [Workers -> PcType]
        /\ \A v \in Workers : pc'[v] \in {"claim", "down"} => pending'[v] = {}
    BY <1>5, GoToType DEF AppendRead, PcType
  <2> QED BY <1>5, <2>1 DEF AppendRead
<1>6. ASSUME NEW w \in Workers, AppendTruncate(w) PROVE TypeOK'
  <2>1. /\ pc' \in [Workers -> PcType]
        /\ \A v \in Workers : pc'[v] \in {"claim", "down"} => pending'[v] = {}
    BY <1>6, GoToType DEF AppendTruncate, PcType
  <2> QED BY <1>6, <2>1 DEF AppendTruncate
<1>7. ASSUME NEW w \in Workers, AppendWrite(w) PROVE TypeOK'
  <2>1. /\ pc' \in [Workers -> PcType]
        /\ \A v \in Workers : pc'[v] \in {"claim", "down"} => pending'[v] = {}
    BY <1>7, GoToType DEF AppendWrite, PcType
  <2> QED BY <1>7, <2>1 DEF AppendWrite
<1>8. ASSUME NEW w \in Workers, LoadBlacklist(w) PROVE TypeOK'
  <2>1. /\ pc' \in [Workers -> PcType]
        /\ \A v \in Workers : pc'[v] \in {"claim", "down"} => pending'[v] = {}
    BY <1>8, GoToType DEF LoadBlacklist, PcType
  <2>2. Learnable(w) \subseteq Contracts
    BY DEF Learnable
  <2> QED BY <1>8, <2>1, <2>2 DEF LoadBlacklist
<1>9. ASSUME NEW w \in Workers, DropOwn(w) PROVE TypeOK'
  <2>1. /\ pc' \in [Workers -> PcType]
        /\ \A v \in Workers : pc'[v] \in {"claim", "down"} => pending'[v] = {}
    BY <1>9, GoToType DEF DropOwn, PcType
  <2> QED BY <1>9, <2>1, DeleteTempType DEF DropOwn
<1>10. ASSUME NEW w \in Workers, Sweep(w) PROVE TypeOK'
  <2>1. /\ pc' \in [Workers -> PcType]
        /\ \A v \in Workers : pc'[v] \in {"claim", "down"} => pending'[v] = {}
    BY <1>10, GoToType DEF Sweep, PcType
  <2> QED BY <1>10, <2>1 DEF Sweep, DeleteContracts
<1>11. ASSUME NEW w \in Workers, InsertMain(w) PROVE TypeOK'
  <2>1. /\ pc' \in [Workers -> PcType]
        /\ \A v \in Workers : pc'[v] \in {"claim", "down"} => pending'[v] = {}
    BY <1>11, GoToType DEF InsertMain, PcType
  <2> QED BY <1>11, <2>1 DEF InsertMain
<1>12. ASSUME NEW w \in Workers, DeleteProcessed(w) PROVE TypeOK'
  BY <1>12, ForgetType, DeleteTempType DEF DeleteProcessed, PcType
<1>13. ASSUME NEW w \in Workers, Leave(w) \/ Abort(w) PROVE TypeOK'
  <2>1. /\ late' \subseteq NFTs
        /\ unswept' \subseteq Contracts
        /\ torn' \in BOOLEAN
    BY <1>13, CutShortType DEF Leave, Abort
  <2> QED
    BY <1>13, <2>1, ForgetType, FaultType, ReleaseTempType
       DEF Leave, Abort, Release, PcType, FaultKinds
<1>14. ASSUME NEW w \in Workers, Kill(w) PROVE TypeOK'
  BY <1>14, ForgetType, FaultType, CutShortType DEF Kill, PcType, FaultKinds
<1>15. CASE RequestStop
  BY <1>15 DEF RequestStop
<1>16. CASE Rerun
  <2>1. \A v \in Workers : pending[v] = {}
    BY <1>16 DEF Rerun, Alive
  <2> QED BY <1>16, <2>1 DEF Rerun, PcType
<1>17. ASSUME NEW n \in NFTs, Aging(n) PROVE TypeOK'
  <2>1. temp[n] \in RowType /\ TicketOf(n) \in Ticket
    BY <1>17, RowFacts DEF Aging, AgeClaim
  <2>2. temp' \in [NFTs -> RowType \union {NoRow}]
    BY <1>17, <2>1 DEF Aging, AgeClaim, RowType
  <2> QED BY <1>17, <2>1, <2>2 DEF Aging, AgeClaim
<1>18. ASSUME NEW ns \in SUBSET NFTs, Discover(ns) PROVE TypeOK'
  BY <1>18 DEF Discover, InsertTemp, RowType, Claimant
<1> QED
  BY <1>1, <1>2, <1>3, <1>4, <1>5, <1>6, <1>7, <1>8, <1>9, <1>10, <1>11,
     <1>12, <1>13, <1>14, <1>15, <1>16, <1>17, <1>18
     DEF Next, FetchNext, WorkerStep, ClaimNothing

(* Every variable keeps the type the programs give it.                     *)
THEOREM TypeCorrect == Spec => []TypeOK
BY TypeInit, TypeStep, PTL DEF Spec

----------------------------------------------------------------------------
(***************************************************************************)
(* NothingVanishes.  A row is removed by the cleanup (because of the       *)
(* effective blacklist), by a sweep (because of fresh contracts) or by the *)
(* final delete (because it was inserted or rejected), so the invariant    *)
(* follows a batch from processing to its delete, and says that whatever   *)
(* a worker believes to be blacklisted was written to .env before it acts. *)
(***************************************************************************)
Excused(n) ==
    KindOf[n] = "nouri" \/ ContractOf[n] \in listed \/ n \in unanswered

BlacklistListed ==
    /\ env \subseteq listed
    /\ startEnv \subseteq listed
    /\ \A w \in Workers : effective[w] \subseteq listed

FreshListed ==
    \A w \in Workers :
        pc[w] \in {"load", "dropOwn", "sweep", "insert", "delete"}
        => fresh[w] \subseteq listed

TicketAccounted(w, t) ==
    /\ pc[w] \in {"appendRead", "appendTruncate", "appendWrite", "load"}
       => \/ t.nft \in inserts[w] \/ Excused(t.nft)
          \/ ContractOf[t.nft] \in fresh[w]
    /\ pc[w] \in {"dropOwn", "sweep", "insert"}
       => t.nft \in inserts[w] \/ Excused(t.nft)
    /\ pc[w] = "delete" => t.nft \in main \/ Excused(t.nft)

BatchAccounted ==
    \A w \in Workers : \A t \in pending[w] : TicketAccounted(w, t)

VanishInv ==
    TypeOK /\ NothingVanishes /\ BlacklistListed /\ FreshListed /\ BatchAccounted

LEMMA VanishInit == Init => VanishInv
<1> SUFFICES ASSUME Init PROVE VanishInv
  OBVIOUS
<1>1. TypeOK
  BY TypeInit
<1>2. NothingVanishes /\ BlacklistListed
  BY DEF Init, TablesInit, FetchInit, NothingVanishes, BlacklistListed
<1>3. FreshListed /\ BatchAccounted
  BY DEF Init, FetchInit, FreshListed, BatchAccounted, TicketAccounted
<1> QED BY <1>1, <1>2, <1>3 DEF VanishInv

(* Deleting rows by ticket loses nothing when each of them is kept in main *)
(* or excused.                                                             *)
LEMMA DeleteLosesNothing ==
    ASSUME TypeOK, NothingVanishes, NEW ts, DeleteTemp(ts),
           \A t \in ts : t.nft \in main \/ Excused(t.nft),
           UNCHANGED <<main, staged, listed, unanswered>>
    PROVE  NothingVanishes'
BY DEF TypeOK, TablesTypeOK, NothingVanishes, DeleteTemp, TicketOn, TicketOf,
       HasRow, Excused

(* A step that touches neither the staging rows, nor main, nor the history *)
(* and moves no worker's batch forward.                                    *)
LEMMA ForgetAccounted ==
    ASSUME VanishInv, NEW w \in Workers, NEW l \in {"claim", "down"},
           Forget(w, l), UNCHANGED <<main, env, startEnv, listed, unanswered>>
    PROVE  BlacklistListed' /\ FreshListed' /\ BatchAccounted'
<1> USE DEF VanishInv, TypeOK, Forget, GoTo
<1>1. BlacklistListed'
  BY DEF BlacklistListed
<1>2. FreshListed'
  BY DEF FreshListed
<1>3. BatchAccounted'
  BY DEF BatchAccounted, TicketAccounted, Excused
<1> QED BY <1>1, <1>2, <1>3

(* Releasing a claim keeps the row.                                        *)
LEMMA ReleaseKeepsRows ==
    ASSUME TablesTypeOK, NEW w \in Workers, NEW ts, ReleaseTemp(w, ts),
           NEW n \in NFTs
    PROVE  HasRow(n)' <=> HasRow(n)
<1>1. CASE TicketOn(ts, n) /\ temp[n].by = w
  <2>1. temp[n] \in RowType
    BY <1>1, RowFacts DEF TicketOn
  <2>2. [temp[n] EXCEPT !.by = NoWorker, !.aged = FALSE] \in RowType
    BY <2>1 DEF RowType, Claimant
  <2> QED BY <1>1, <2>1, <2>2, NoRowAssumption DEF ReleaseTemp, HasRow, TicketOn
<1>2. CASE ~(TicketOn(ts, n) /\ temp[n].by = w)
  BY <1>2 DEF ReleaseTemp, HasRow
<1> QED BY <1>1, <1>2

LEMMA ReleaseLosesNothing ==
    ASSUME VanishInv, NEW w \in Workers, ReleaseTemp(w, pending[w]),
           UNCHANGED <<main, staged, listed, unanswered>>
    PROVE  NothingVanishes'
BY ReleaseKeepsRows DEF VanishInv, TypeOK, TablesTypeOK, NothingVanishes

LEMMA VanishStep == VanishInv /\ [Next]_vars => VanishInv'
<1> SUFFICES ASSUME VanishInv, [Next]_vars PROVE VanishInv'
  OBVIOUS
<1> USE DEF VanishInv
<1>0. TypeOK'
  BY TypeStep
<1> DEFINE Rest == /\ NothingVanishes' /\ BlacklistListed'
                   /\ FreshListed' /\ BatchAccounted'
<1> SUFFICES Rest
  BY <1>0
<1>a. staged \subseteq NFTs
  BY DEF TypeOK, TablesTypeOK
<1>1. CASE UNCHANGED vars
  BY <1>1 DEF NothingVanishes, BlacklistListed, FreshListed, BatchAccounted, TicketAccounted,
              HasRow, Excused
<1>2. ASSUME NEW w \in Workers, Claim(w) PROVE Rest
  <2>1. PICK ns \in SUBSET Rows : MarkClaimed(w, ns)
    BY <1>2 DEF Claim
  <2>2. \A n \in NFTs : HasRow(n)' <=> HasRow(n)
    <3> SUFFICES ASSUME NEW n \in NFTs PROVE HasRow(n)' <=> HasRow(n)
      OBVIOUS
    <3>1. CASE n \in ns
      <4>1. HasRow(n) /\ temp[n] \in RowType
        BY <2>1, <3>1, RowFacts DEF Rows, TypeOK
      <4>2. [temp[n] EXCEPT !.by = w, !.aged = FALSE] \in RowType
        BY <4>1 DEF RowType, Claimant
      <4> QED BY <2>1, <3>1, <4>1, <4>2, NoRowAssumption DEF MarkClaimed, HasRow
    <3>2. CASE n \notin ns
      BY <2>1, <3>2 DEF MarkClaimed, HasRow
    <3> QED BY <3>1, <3>2
  <2>3. NothingVanishes'
    BY <1>2, <1>a, <2>2 DEF Claim, NothingVanishes
  <2>4. BlacklistListed' /\ FreshListed'
    BY <1>2 DEF Claim, GoTo, TypeOK, BlacklistListed, FreshListed
  <2>5. BatchAccounted'
    BY <1>2 DEF Claim, GoTo, TypeOK, BatchAccounted, TicketAccounted, Excused
  <2> QED BY <2>3, <2>4, <2>5
<1>3. ASSUME NEW w \in Workers, ProcessBatch(w) PROVE Rest
  <2>1. PICK silent \in SUBSET NFTsOf(pending[w]) :
          LET answered == NFTsOf(pending[w]) \ silent IN
          /\ inserts' = [inserts EXCEPT ![w] = Accepted(answered)]
          /\ fresh' = [fresh EXCEPT ![w] = InlineContracts(answered)]
          /\ unanswered' = unanswered \union silent
          /\ GoTo(w, IF InlineContracts(answered) = {} THEN "load"
                                                       ELSE "appendRead")
    BY <1>3 DEF ProcessBatch
  <2> DEFINE answered == NFTsOf(pending[w]) \ silent
  <2>2. NothingVanishes'
    BY <1>3, <2>1 DEF ProcessBatch, NothingVanishes, HasRow
  <2>3. BlacklistListed'
    BY <1>3 DEF ProcessBatch, BlacklistListed
  <2>4. FreshListed'
    BY <1>3, <2>1 DEF ProcessBatch, FreshListed, GoTo, TypeOK
  <2>5. ASSUME NEW v \in Workers, NEW t \in pending'[v], v # w
        PROVE  TicketAccounted(v, t)'
    BY <1>3, <2>1, <2>5
       DEF ProcessBatch, BatchAccounted, TicketAccounted, Excused, GoTo, TypeOK
  <2>6. ASSUME NEW t \in pending[w]
        PROVE  \/ t.nft \in inserts'[w]
               \/ Excused(t.nft)'
               \/ ContractOf[t.nft] \in fresh'[w]
    <3>1. t.nft \in NFTsOf(pending[w])
      BY <2>6 DEF NFTsOf
    <3>2. CASE t.nft \in silent
      BY <2>1, <3>2 DEF Excused
    <3>3. CASE t.nft \in answered
      <4>1. inserts'[w] = Accepted(answered) /\ fresh'[w] = InlineContracts(answered)
        BY <2>1 DEF TypeOK
      <4>2. t.nft \in NFTs
        BY <2>6 DEF TypeOK, Ticket
      <4> QED BY <3>3, <4>1, <4>2 DEF Accepted, OfContracts, Excused
    <3> QED BY <3>1, <3>2, <3>3
  <2>7. BatchAccounted'
    BY <1>3, <2>1, <2>5, <2>6
       DEF ProcessBatch, BatchAccounted, TicketAccounted, GoTo, TypeOK
  <2> QED BY <2>2, <2>3, <2>4, <2>7
<1>4. ASSUME NEW w \in Workers, ProcessRaises(w) PROVE Rest
  BY <1>4, ForgetAccounted, ReleaseLosesNothing DEF ProcessRaises
<1>5. ASSUME NEW w \in Workers, AppendRead(w) PROVE Rest
  BY <1>5 DEF AppendRead, GoTo, TypeOK, NothingVanishes, HasRow,
              BlacklistListed, FreshListed, BatchAccounted, TicketAccounted, Excused
<1>6. ASSUME NEW w \in Workers, AppendTruncate(w) PROVE Rest
  BY <1>6 DEF AppendTruncate, GoTo, TypeOK, NothingVanishes, HasRow,
              BlacklistListed, FreshListed, BatchAccounted, TicketAccounted, Excused
<1>7. ASSUME NEW w \in Workers, AppendWrite(w) PROVE Rest
  <2>1. listed \subseteq listed' /\ env' \subseteq listed' /\ fresh[w] \subseteq listed'
    BY <1>7 DEF AppendWrite
  <2>2. NothingVanishes' /\ BlacklistListed'
    BY <1>7, <2>1 DEF AppendWrite, NothingVanishes, HasRow, BlacklistListed
  <2>3. FreshListed'
    BY <1>7, <2>1 DEF AppendWrite, FreshListed, GoTo, TypeOK
  <2>4. BatchAccounted'
    BY <1>7, <2>1
       DEF AppendWrite, BatchAccounted, TicketAccounted, Excused, GoTo, TypeOK
  <2> QED BY <2>2, <2>3, <2>4
<1>8. ASSUME NEW w \in Workers, LoadBlacklist(w) PROVE Rest
  <2> DEFINE banned == startEnv \union env \union fresh[w]
  <2>1. banned \subseteq listed
    BY <1>8 DEF LoadBlacklist, BlacklistListed, FreshListed
  <2>2. NothingVanishes' /\ BlacklistListed'
    BY <1>8, <2>1 DEF LoadBlacklist, NothingVanishes, HasRow, BlacklistListed, TypeOK
  <2>3. FreshListed'
    BY <1>8 DEF LoadBlacklist, FreshListed, GoTo, TypeOK
  <2>4. ASSUME NEW t \in pending[w]
        PROVE  t.nft \in inserts'[w] \/ Excused(t.nft)'
    <3>1. \/ t.nft \in inserts[w] \/ Excused(t.nft)
          \/ ContractOf[t.nft] \in fresh[w]
      BY <1>8 DEF LoadBlacklist, BatchAccounted, TicketAccounted
    <3>2. inserts'[w] = inserts[w] \ OfContracts(banned)
      BY <1>8 DEF LoadBlacklist, TypeOK
    <3> QED BY <1>8, <2>1, <3>1, <3>2 DEF LoadBlacklist, OfContracts, Excused
  <2>5. BatchAccounted'
    BY <1>8, <2>4
       DEF LoadBlacklist, BatchAccounted, TicketAccounted, Excused, GoTo, TypeOK
  <2> QED BY <2>2, <2>3, <2>5
<1>9. ASSUME NEW w \in Workers, DropOwn(w) PROVE Rest
  <2>1. \A t \in Blacklisted(w) : Excused(t.nft)
    BY DEF Blacklisted, BlacklistListed, Excused
  <2>2. NothingVanishes'
    BY <1>9, <2>1, DeleteLosesNothing DEF DropOwn
  <2>3. BlacklistListed' /\ FreshListed' /\ BatchAccounted'
    BY <1>9 DEF DropOwn, GoTo, TypeOK, BlacklistListed, FreshListed,
                BatchAccounted, TicketAccounted, Excused
  <2> QED BY <2>2, <2>3
<1>10. ASSUME NEW w \in Workers, Sweep(w) PROVE Rest
  <2>1. fresh[w] \subseteq listed
    BY <1>10 DEF Sweep, FreshListed
  <2>2. \A n \in NFTs : n \in main /\ n \notin main' => ContractOf[n] \in listed
    BY <1>10, <2>1 DEF Sweep, DeleteContracts, OfContracts
  <2>3. \A n \in NFTs : HasRow(n) /\ ~HasRow(n)' => ContractOf[n] \in listed
    BY <1>10, <2>1 DEF Sweep, DeleteContracts, HasRow
  <2>4. NothingVanishes' /\ BlacklistListed' /\ FreshListed'
    BY <1>10, <1>a, <2>2, <2>3 DEF Sweep, GoTo, TypeOK, NothingVanishes,
                              BlacklistListed, FreshListed
  <2>5. \A v \in Workers : \A t \in pending[v] : t.nft \in NFTs
    BY DEF TypeOK, Ticket
  <2>6. BatchAccounted'
    BY <1>10, <2>2, <2>5
       DEF Sweep, GoTo, TypeOK, BatchAccounted, TicketAccounted, Excused
  <2> QED BY <2>4, <2>6
<1>11. ASSUME NEW w \in Workers, InsertMain(w) PROVE Rest
  BY <1>11 DEF InsertMain, GoTo, TypeOK, NothingVanishes, HasRow,
               BlacklistListed, FreshListed, BatchAccounted, TicketAccounted, Excused
<1>12. ASSUME NEW w \in Workers, DeleteProcessed(w) PROVE Rest
  <2>1. \A t \in AfterCleanup(w) : t.nft \in main \/ Excused(t.nft)
    BY <1>12 DEF DeleteProcessed, AfterCleanup, BatchAccounted, TicketAccounted
  <2>2. NothingVanishes'
    BY <1>12, <2>1, DeleteLosesNothing DEF DeleteProcessed
  <2> QED BY <1>12, <2>2, ForgetAccounted DEF DeleteProcessed
<1>13. ASSUME NEW w \in Workers, Leave(w) \/ Abort(w) PROVE Rest
  BY <1>13, ForgetAccounted, ReleaseLosesNothing DEF Leave, Abort, Release
<1>14. ASSUME NEW w \in Workers, Kill(w) PROVE Rest
  BY <1>14, ForgetAccounted DEF Kill, NothingVanishes, HasRow
<1>15. CASE RequestStop
  BY <1>15 DEF RequestStop, NothingVanishes, HasRow, BlacklistListed, FreshListed,
               BatchAccounted, TicketAccounted, Excused
<1>16. CASE Rerun
  BY <1>16 DEF Rerun, TypeOK, NothingVanishes, HasRow, BlacklistListed,
               FreshListed, BatchAccounted, TicketAccounted, Excused
<1>17. ASSUME NEW n \in NFTs, Aging(n) PROVE Rest
  <2>1. temp[n] \in RowType
    BY <1>17, RowFacts DEF Aging, AgeClaim, TypeOK
  <2>2. [temp[n] EXCEPT !.aged = TRUE] \in RowType
    BY <2>1 DEF RowType
  <2>3. \A m \in NFTs : HasRow(m)' <=> HasRow(m)
    BY <1>17, <2>1, <2>2, NoRowAssumption
       DEF Aging, AgeClaim, HasRow, TypeOK, TablesTypeOK
  <2> QED BY <1>17, <1>a, <2>3 DEF Aging, AgeClaim, NothingVanishes,
               BlacklistListed, FreshListed, BatchAccounted, TicketAccounted, Excused
<1>18. ASSUME NEW ns \in SUBSET NFTs, Discover(ns) PROVE Rest
  <2>1. [id |-> nextId, by |-> NoWorker, aged |-> FALSE] \in RowType
    BY DEF RowType, Claimant, TypeOK, TablesTypeOK
  <2> DEFINE new == [id |-> nextId, by |-> NoWorker, aged |-> FALSE]
  <2>3. new # NoRow
    BY <2>1, NoRowAssumption
  <2>4. ASSUME NEW n \in NFTs, HasRow(n) \/ n \in ns PROVE HasRow(n)'
    <3>1. temp'[n] = IF n \in ns \ Rows THEN new ELSE temp[n]
      BY <1>18 DEF Discover, InsertTemp
    <3> QED BY <2>3, <2>4, <3>1 DEF HasRow, Rows
  <2>2. NothingVanishes'
    BY <1>18, <1>a, <2>4 DEF Discover, InsertTemp, NothingVanishes
  <2> QED BY <1>18, <2>2 DEF Discover, InsertTemp, BlacklistListed, FreshListed,
                             BatchAccounted, TicketAccounted, Excused
<1> QED
  BY <1>1, <1>2, <1>3, <1>4, <1>5, <1>6, <1>7, <1>8, <1>9, <1>10, <1>11,
     <1>12, <1>13, <1>14, <1>15, <1>16, <1>17, <1>18
     DEF Next, FetchNext, WorkerStep, ClaimNothing

(* A staged NFT never disappears without having been kept, rejected,       *)
(* blacklisted or left unanswered.                                         *)
THEOREM NothingIsLost == Spec => []NothingVanishes
<1>1. Init => VanishInv
  BY VanishInit
<1>2. VanishInv /\ [Next]_vars => VanishInv'
  BY VanishStep
<1>3. VanishInv => NothingVanishes
  BY DEF VanishInv
<1> QED BY <1>1, <1>2, <1>3, PTL DEF Spec

----------------------------------------------------------------------------
(***************************************************************************)
(* NoLeakedClaim.  The final delete spares the tickets the cleanup is      *)
(* supposed to have deleted, so the invariant says that it has: from the   *)
(* sweep on, a blacklisted ticket of the batch has no row any more.  It    *)
(* gets none back, because a key that is staged again gets a new id.       *)
(***************************************************************************)
CleanedUp ==
    \A w \in Workers :
        pc[w] \in {"sweep", "insert", "delete"}
        => \A t \in Blacklisted(w) : ~Current(t)

IdsOld ==
    /\ \A n \in Rows : temp[n].id < nextId
    /\ \A w \in Workers : \A t \in pending[w] : t.id < nextId

LeakInv == TypeOK /\ NoLeakedClaim /\ CleanedUp /\ IdsOld

\* What every step does to the rows: a row keeps its id, and a new row gets
\* the next one.
RowsEvolve ==
    /\ nextId <= nextId'
    /\ \A n \in NFTs :
          temp'[n] # NoRow =>
              \/ HasRow(n) /\ temp'[n].id = temp[n].id
              \/ temp'[n].id = nextId /\ nextId < nextId'

\* A row that is still there is still somebody's.
RowsHeld ==
    \A n \in NFTs :
        temp'[n] # NoRow =>
            \/ temp'[n].by = NoWorker
            \/ temp'[n].by \in killed'
            \/ [id |-> temp'[n].id, nft |-> n] \in pending'[temp'[n].by]

\* A batch has no more blacklisted rows than it had, unless it is new.
BatchesEvolve ==
    \A w \in Workers : \A t \in pending'[w] :
        /\ t \in Ticket
        /\ t \in pending[w] \/ (Current(t) /\ pc'[w] = "process")

(* A ticket whose row is gone never gets it back.                          *)
LEMMA StaleStays ==
    ASSUME TypeOK, RowsEvolve, NEW t \in Ticket, t.id < nextId, ~Current(t)
    PROVE  ~Current(t)'
BY DEF TypeOK, TablesTypeOK, RowsEvolve, Current, HasRow, Ticket

LEMMA IdsStayOld ==
    ASSUME LeakInv, TypeOK', RowsEvolve, BatchesEvolve
    PROVE  IdsOld'
<1> USE DEF LeakInv
<1>1. nextId \in Nat /\ nextId' \in Nat /\ nextId <= nextId'
  BY DEF TypeOK, TablesTypeOK, RowsEvolve
<1>2. ASSUME NEW n \in NFTs, temp'[n] # NoRow PROVE temp'[n].id < nextId'
  <2>1. temp'[n] \in RowType
    BY <1>2 DEF TypeOK, TablesTypeOK
  <2>2. CASE HasRow(n) /\ temp'[n].id = temp[n].id
    <3>1. temp[n].id < nextId
      BY <2>2 DEF IdsOld, Rows
    <3> QED BY <1>1, <2>1, <2>2, <3>1 DEF RowType
  <2>3. CASE temp'[n].id = nextId /\ nextId < nextId'
    BY <2>3
  <2> QED BY <1>2, <2>2, <2>3 DEF RowsEvolve
<1>3. ASSUME NEW w \in Workers, NEW t \in pending'[w] PROVE t.id < nextId'
  <2>1. t \in Ticket
    BY <1>3 DEF BatchesEvolve
  <2>2. t.id < nextId
    BY <1>3, <2>1 DEF BatchesEvolve, IdsOld, Current, Rows, Ticket
  <2> QED BY <1>1, <2>1, <2>2 DEF Ticket
<1> QED BY <1>2, <1>3 DEF IdsOld, Rows, HasRow

(* A step that evolves rows and batches so, and whose cleaned workers      *)
(* stay cleaned, keeps the invariant.                                      *)
LEMMA LeakRule ==
    ASSUME LeakInv, TypeOK', RowsEvolve, RowsHeld, BatchesEvolve,
           \A w \in Workers :
              pc'[w] \in {"sweep", "insert", "delete"} =>
                 \/ pc[w] \in {"sweep", "insert", "delete"} /\ effective'[w] = effective[w]
                 \/ \A t \in pending'[w] : ContractOf[t.nft] \in effective'[w]
                                             => ~Current(t)'
    PROVE  LeakInv'
<1> USE DEF LeakInv
<1>1. IdsOld'
  BY IdsStayOld
<1>2. NoLeakedClaim'
  BY DEF RowsHeld, NoLeakedClaim, Rows, HasRow, TicketOf
<1>3. CleanedUp'
  <2> SUFFICES ASSUME NEW w \in Workers, pc'[w] \in {"sweep", "insert", "delete"},
                      NEW t \in pending'[w], ContractOf[t.nft] \in effective'[w]
               PROVE  ~Current(t)'
    BY DEF CleanedUp, Blacklisted
  <2>1. CASE pc[w] \in {"sweep", "insert", "delete"} /\ effective'[w] = effective[w]
    <3>1. t \in pending[w] /\ t \in Ticket
      BY DEF BatchesEvolve
    <3>2. ~Current(t) /\ t.id < nextId
      BY <2>1, <3>1 DEF CleanedUp, Blacklisted, IdsOld
    <3> QED BY <3>1, <3>2, StaleStays
  <2> QED BY <2>1
<1> QED BY <1>1, <1>2, <1>3

(* Steps that leave the staging rows and the batches alone.                *)
LEMMA IdleStep ==
    ASSUME LeakInv, UNCHANGED <<temp, nextId, pending, killed>>
    PROVE  RowsEvolve /\ RowsHeld /\ BatchesEvolve
<1> USE DEF LeakInv
<1>1. RowsEvolve
  BY DEF RowsEvolve, TypeOK, TablesTypeOK, HasRow
<1>2. RowsHeld
  BY DEF RowsHeld, NoLeakedClaim, Rows, HasRow, TicketOf
<1>3. BatchesEvolve
  BY DEF BatchesEvolve, TypeOK
<1> QED BY <1>1, <1>2, <1>3

(* Steps that only remove rows.                                            *)
LEMMA RemoveStep ==
    ASSUME LeakInv, UNCHANGED <<nextId, pending, killed>>,
           \A n \in NFTs : temp'[n] = NoRow \/ temp'[n] = temp[n]
    PROVE  RowsEvolve /\ RowsHeld /\ BatchesEvolve
<1> USE DEF LeakInv
<1>1. RowsEvolve
  BY DEF RowsEvolve, TypeOK, TablesTypeOK, HasRow
<1>2. RowsHeld
  BY DEF RowsHeld, NoLeakedClaim, Rows, HasRow, TicketOf
<1>3. BatchesEvolve
  BY DEF BatchesEvolve, TypeOK
<1> QED BY <1>1, <1>2, <1>3

(* A worker that forgets its batch leaves no claim behind, if every row    *)
(* it claimed is released or gone, or if it counts as killed.              *)
LEMMA ForgetStep ==
    ASSUME LeakInv, NEW w \in Workers, NEW l \in {"claim", "down"}, Forget(w, l),
           UNCHANGED nextId, killed \subseteq killed',
           \A n \in NFTs :
              \/ temp'[n] = NoRow
              \/ /\ temp'[n] = temp[n]
                 /\ temp[n].by = w => w \in killed'
              \/ /\ HasRow(n)
                 /\ temp'[n].id = temp[n].id
                 /\ temp'[n].by \in {temp[n].by, NoWorker}
                 /\ temp'[n].by # w,
           TypeOK'
    PROVE  LeakInv'
<1> USE DEF LeakInv
<1>1. RowsEvolve
  BY DEF RowsEvolve, TypeOK, TablesTypeOK, HasRow
<1>2. /\ pc' = [pc EXCEPT ![w] = l]
      /\ pending' = [pending EXCEPT ![w] = {}]
      /\ effective' = [effective EXCEPT ![w] = {}]
  BY DEF Forget, GoTo
<1>3. RowsHeld
  <2> SUFFICES ASSUME NEW n \in NFTs, temp'[n] # NoRow,
                      temp'[n].by # NoWorker, temp'[n].by \notin killed'
               PROVE  [id |-> temp'[n].id, nft |-> n] \in pending'[temp'[n].by]
    BY DEF RowsHeld
  <2>1. HasRow(n) /\ temp'[n].id = temp[n].id /\ temp'[n].by = temp[n].by /\ temp[n].by # w
    BY DEF HasRow
  <2>2. temp[n].by \in Workers
    BY <2>1, RowFacts DEF TypeOK, RowType, Claimant
  <2>3. [id |-> temp[n].id, nft |-> n] \in pending[temp[n].by]
    BY <2>1 DEF NoLeakedClaim, Rows, TicketOf
  <2> QED BY <1>2, <2>1, <2>2, <2>3 DEF TypeOK
<1>4. BatchesEvolve
  BY <1>2 DEF BatchesEvolve, TypeOK
<1>5. \A v \in Workers :
        pc'[v] \in {"sweep", "insert", "delete"}
        => pc[v] \in {"sweep", "insert", "delete"} /\ effective'[v] = effective[v]
  BY <1>2 DEF TypeOK
<1> QED BY <1>1, <1>3, <1>4, <1>5, LeakRule

(* Releasing the batch leaves no row of it to the worker.                  *)
LEMMA ReleaseLeavesNone ==
    ASSUME LeakInv, NEW w \in Workers, ReleaseTemp(w, pending[w]),
           UNCHANGED killed, NEW n \in NFTs
    PROVE  \/ temp'[n] = NoRow
           \/ /\ temp'[n] = temp[n]
              /\ temp[n].by = w => w \in killed'
           \/ /\ HasRow(n)
              /\ temp'[n].id = temp[n].id
              /\ temp'[n].by \in {temp[n].by, NoWorker}
              /\ temp'[n].by # w
<1> USE DEF LeakInv
<1>1. temp'[n] = IF TicketOn(pending[w], n) /\ temp[n].by = w
                 THEN [temp[n] EXCEPT !.by = NoWorker, !.aged = FALSE]
                 ELSE temp[n]
  BY DEF ReleaseTemp
<1>2. CASE TicketOn(pending[w], n) /\ temp[n].by = w
  <2>1. temp[n] \in RowType
    BY <1>2, RowFacts DEF TicketOn, TypeOK
  <2> QED BY <1>1, <1>2, <2>1, NoWorkerAssumption DEF RowType, TicketOn
<1>3. CASE ~(TicketOn(pending[w], n) /\ temp[n].by = w)
  <2>1. temp'[n] = temp[n]
    BY <1>1, <1>3
  <2>2. HasRow(n) /\ temp[n].by = w => w \in killed
    BY <1>3, NoWorkerAssumption DEF NoLeakedClaim, Rows, TicketOn
  <2> QED BY <2>1, <2>2 DEF HasRow
<1> QED BY <1>2, <1>3

LEMMA ClaimHolds ==
    ASSUME LeakInv, TypeOK', NEW w \in Workers, Claim(w)
    PROVE  LeakInv'
<1> USE DEF LeakInv
<1>1. PICK ns \in SUBSET Rows :
        /\ MarkClaimed(w, ns)
        /\ pending' = [pending EXCEPT ![w] = {TicketOf(n) : n \in ns}]
  BY DEF Claim
<1>2. pending[w] = {}
  BY DEF Claim, TypeOK
<1>3. ASSUME NEW n \in NFTs, temp'[n] # NoRow
      PROVE  /\ HasRow(n)
             /\ temp'[n].id = temp[n].id
             /\ temp'[n].by = IF n \in ns THEN w ELSE temp[n].by
  <2>1. n \in ns => HasRow(n) /\ temp[n] \in RowType
    BY RowFacts DEF Rows, TypeOK
  <2>2. temp'[n] = IF n \in ns THEN [temp[n] EXCEPT !.by = w, !.aged = FALSE] ELSE temp[n]
    BY <1>1 DEF MarkClaimed
  <2>3. CASE n \in ns
    BY <2>1, <2>2, <2>3 DEF RowType
  <2>4. CASE n \notin ns
    BY <1>3, <2>2, <2>4 DEF HasRow
  <2> QED BY <2>3, <2>4
<1>4. RowsEvolve
  BY <1>3 DEF Claim, RowsEvolve, TypeOK, TablesTypeOK
<1>5. RowsHeld
  <2> SUFFICES ASSUME NEW n \in NFTs, temp'[n] # NoRow,
                      temp'[n].by # NoWorker, temp'[n].by \notin killed
               PROVE  [id |-> temp'[n].id, nft |-> n] \in pending'[temp'[n].by]
    BY DEF RowsHeld, Claim
  <2>1. CASE n \in ns
    <3>1. TicketOf(n) \in pending'[w]
      BY <1>1, <2>1 DEF TypeOK
    <3> QED BY <1>3, <2>1, <3>1 DEF TicketOf
  <2>2. CASE n \notin ns
    <3>1. temp[n].by \in Workers
      BY <1>3, <2>2, RowFacts DEF TypeOK, RowType, Claimant
    <3>2. TicketOf(n) \in pending[temp[n].by] /\ temp[n].by # w
      BY <1>2, <1>3, <2>2 DEF NoLeakedClaim, Rows
    <3> QED BY <1>1, <1>3, <2>2, <3>1, <3>2 DEF TicketOf, TypeOK
  <2> QED BY <2>1, <2>2
<1>6. pc' = [pc EXCEPT ![w] = "process"] /\ effective' = effective
  BY DEF Claim, GoTo
<1>7. BatchesEvolve
  <2> SUFFICES ASSUME NEW v \in Workers, NEW t \in pending'[v]
               PROVE  t \in Ticket /\ (t \in pending[v] \/ (Current(t) /\ pc'[v] = "process"))
    BY DEF BatchesEvolve
  <2>1. t \in Ticket
    BY DEF TypeOK
  <2>2. CASE v = w
    <3>1. PICK n \in ns : t = TicketOf(n)
      BY <1>1, <2>2 DEF TypeOK
    <3> QED BY <1>6, <2>1, <2>2, <3>1 DEF Current, TicketOf, Rows, TypeOK
  <2>3. CASE v # w
    BY <1>1, <2>1, <2>3 DEF TypeOK
  <2> QED BY <2>2, <2>3
<1>8. \A v \in Workers :
        pc'[v] \in {"sweep", "insert", "delete"}
        => pc[v] \in {"sweep", "insert", "delete"} /\ effective'[v] = effective[v]
  BY <1>6 DEF TypeOK
<1> QED BY <1>4, <1>5, <1>7, <1>8, LeakRule

LEMMA LeakInit == Init => LeakInv
<1> SUFFICES ASSUME Init PROVE LeakInv
  OBVIOUS
<1>1. TypeOK
  BY TypeInit
<1>2. NoLeakedClaim /\ CleanedUp /\ IdsOld
  BY DEF Init, TablesInit, FetchInit, NoLeakedClaim, CleanedUp, IdsOld, Rows, HasRow
<1> QED BY <1>1, <1>2 DEF LeakInv

LEMMA LeakStep == LeakInv /\ [Next]_vars => LeakInv'
<1> SUFFICES ASSUME LeakInv, [Next]_vars PROVE LeakInv'
  OBVIOUS
<1>0. TypeOK /\ TypeOK'
  BY TypeStep DEF LeakInv
<1> DEFINE Cleaned == {"sweep", "insert", "delete"}
<1>1. ASSUME NEW w \in Workers, NEW l \in PcType \ Cleaned, GoTo(w, l),
             UNCHANGED <<temp, nextId, pending, killed, effective>>
      PROVE  LeakInv'
  <2>1. RowsEvolve /\ RowsHeld /\ BatchesEvolve
    BY <1>1, IdleStep
  <2>2. \A v \in Workers :
          pc'[v] \in Cleaned => pc[v] \in Cleaned /\ effective'[v] = effective[v]
    BY <1>0, <1>1 DEF GoTo, TypeOK
  <2> QED BY <1>0, <2>1, <2>2, LeakRule
<1>2. ASSUME NEW w \in Workers, Claim(w) PROVE LeakInv'
  BY <1>0, <1>2, ClaimHolds
<1>3. ASSUME NEW w \in Workers, ProcessBatch(w) PROVE LeakInv'
  <2>1. PICK l \in {"load", "appendRead"} : GoTo(w, l)
    BY <1>3 DEF ProcessBatch
  <2> QED BY <1>1, <1>3, <2>1 DEF ProcessBatch, PcType
<1>4. ASSUME NEW w \in Workers, AppendRead(w) \/ AppendTruncate(w) \/ AppendWrite(w)
      PROVE  LeakInv'
  BY <1>1, <1>4 DEF AppendRead, AppendTruncate, AppendWrite, PcType
<1>5. ASSUME NEW w \in Workers, LoadBlacklist(w) PROVE LeakInv'
  <2> DEFINE banned == startEnv \union env \union fresh[w]
             own == OfContracts(banned) \intersect NFTsOf(pending[w])
  <2>1. RowsEvolve /\ RowsHeld /\ BatchesEvolve
    BY <1>5, IdleStep DEF LoadBlacklist
  <2>2. pc' = [pc EXCEPT ![w] = IF own = {} THEN "insert" ELSE "dropOwn"]
    BY <1>5 DEF LoadBlacklist, GoTo
  <2>3. effective' = [effective EXCEPT ![w] = banned] /\ pending' = pending
    BY <1>5 DEF LoadBlacklist
  <2>4. \A t \in pending[w] : t.nft \in NFTs
    BY <1>0 DEF TypeOK, Ticket
  <2>5. own = {} => \A t \in pending[w] : ContractOf[t.nft] \notin banned
    BY <2>4 DEF OfContracts, NFTsOf
  <2>6. \A v \in Workers :
          pc'[v] \in Cleaned =>
             \/ pc[v] \in Cleaned /\ effective'[v] = effective[v]
             \/ \A t \in pending'[v] : ContractOf[t.nft] \in effective'[v] => ~Current(t)'
    <3> SUFFICES ASSUME NEW v \in Workers, pc'[v] \in Cleaned
                 PROVE  \/ pc[v] \in Cleaned /\ effective'[v] = effective[v]
                        \/ \A t \in pending'[v] : ContractOf[t.nft] \notin effective'[v]
      OBVIOUS
    <3>1. CASE v = w
      BY <1>0, <2>2, <2>3, <2>5, <3>1 DEF TypeOK
    <3>2. CASE v # w
      BY <1>0, <2>2, <2>3, <3>2 DEF TypeOK
    <3> QED BY <3>1, <3>2
  <2> QED BY <1>0, <2>1, <2>6, LeakRule
<1>6. ASSUME NEW w \in Workers, DropOwn(w) PROVE LeakInv'
  <2>1. \A n \in NFTs :
          temp'[n] = IF TicketOn(Blacklisted(w), n) THEN NoRow ELSE temp[n]
    BY <1>6 DEF DropOwn, DeleteTemp
  <2>2. RowsEvolve /\ RowsHeld /\ BatchesEvolve
    BY <1>6, <2>1, RemoveStep DEF DropOwn
  <2>3. \E l \in {"insert", "sweep"} : pc' = [pc EXCEPT ![w] = l]
    BY <1>6 DEF DropOwn, GoTo
  <2>4. effective' = effective /\ pending' = pending
    BY <1>6 DEF DropOwn
  <2>5. ASSUME NEW t \in pending[w], ContractOf[t.nft] \in effective[w]
        PROVE  ~Current(t)'
    <3>1. t \in Ticket /\ t \in Blacklisted(w)
      BY <1>0, <2>5 DEF TypeOK, Blacklisted
    <3>2. CASE Current(t)
      <4>1. TicketOf(t.nft) = t
        BY <3>1, <3>2 DEF Current, TicketOf, Ticket
      <4> QED BY <2>1, <3>1, <3>2, <4>1 DEF TicketOn, Current, HasRow, Ticket
    <3>3. CASE ~Current(t)
      BY <2>1, <3>1, <3>3 DEF Current, HasRow, Ticket
    <3> QED BY <3>2, <3>3
  <2>6. \A v \in Workers :
          pc'[v] \in Cleaned =>
             \/ pc[v] \in Cleaned /\ effective'[v] = effective[v]
             \/ \A t \in pending'[v] : ContractOf[t.nft] \in effective'[v] => ~Current(t)'
    BY <1>0, <2>3, <2>4, <2>5 DEF TypeOK
  <2> QED BY <1>0, <2>2, <2>6, LeakRule
<1>7. ASSUME NEW w \in Workers, Sweep(w) \/ InsertMain(w) PROVE LeakInv'
  <2>1. \A n \in NFTs : temp'[n] = NoRow \/ temp'[n] = temp[n]
    BY <1>7 DEF Sweep, DeleteContracts, InsertMain
  <2>2. RowsEvolve /\ RowsHeld /\ BatchesEvolve
    BY <1>7, <2>1, RemoveStep DEF Sweep, InsertMain, LeakInv
  <2>3. \A v \in Workers :
          pc'[v] \in Cleaned => pc[v] \in Cleaned /\ effective'[v] = effective[v]
    BY <1>0, <1>7 DEF Sweep, InsertMain, GoTo, TypeOK
  <2> QED BY <1>0, <2>2, <2>3, LeakRule
<1>8. ASSUME NEW w \in Workers, DeleteProcessed(w) PROVE LeakInv'
  <2> SUFFICES ASSUME NEW n \in NFTs
               PROVE  \/ temp'[n] = NoRow
                      \/ /\ temp'[n] = temp[n]
                         /\ temp[n].by = w => w \in killed'
    BY <1>0, <1>8, ForgetStep DEF DeleteProcessed
  <2>1. temp'[n] = IF TicketOn(AfterCleanup(w), n) THEN NoRow ELSE temp[n]
    BY <1>8 DEF DeleteProcessed, DeleteTemp
  <2>2. ASSUME HasRow(n), temp[n].by = w, w \notin killed
        PROVE  TicketOn(AfterCleanup(w), n)
    <3>1. TicketOf(n) \in pending[w]
      BY <2>2, NoWorkerAssumption DEF LeakInv, NoLeakedClaim, Rows
    <3>2. Current(TicketOf(n)) /\ TicketOf(n).nft = n
      BY <2>2 DEF Current, TicketOf
    <3>3. TicketOf(n) \notin Blacklisted(w)
      BY <1>8, <3>2 DEF DeleteProcessed, LeakInv, CleanedUp
    <3> QED BY <2>2, <3>1, <3>3 DEF AfterCleanup, Blacklisted, TicketOn
  <2> QED BY <1>8, <2>1, <2>2 DEF DeleteProcessed, HasRow
<1>9. ASSUME NEW w \in Workers, ProcessRaises(w) \/ Leave(w) \/ Abort(w) PROVE LeakInv'
  <2>1. /\ \E l \in {"claim", "down"} : Forget(w, l)
        /\ ReleaseTemp(w, pending[w])
        /\ UNCHANGED <<nextId, killed>>
    BY <1>9 DEF ProcessRaises, Leave, Abort, Release
  <2> QED BY <1>0, <2>1, ReleaseLeavesNone, ForgetStep
<1>10. ASSUME NEW w \in Workers, Kill(w) PROVE LeakInv'
  BY <1>0, <1>10, ForgetStep DEF Kill
<1>11. CASE RequestStop \/ Rerun
  <2>1. RowsEvolve /\ RowsHeld /\ BatchesEvolve
    BY <1>11, IdleStep DEF RequestStop, Rerun
  <2>2. \A v \in Workers :
          pc'[v] \in Cleaned => pc[v] \in Cleaned /\ effective'[v] = effective[v]
    BY <1>11 DEF RequestStop, Rerun
  <2> QED BY <1>0, <2>1, <2>2, LeakRule
<1>12. ASSUME NEW m \in NFTs, Aging(m) PROVE LeakInv'
  <2>1. \A n \in NFTs : temp'[n] # NoRow =>
          HasRow(n) /\ temp'[n].id = temp[n].id /\ temp'[n].by = temp[n].by
    <3>1. temp[m] \in RowType /\ temp' = [temp EXCEPT ![m].aged = TRUE]
      BY <1>0, <1>12, RowFacts DEF Aging, AgeClaim, TypeOK
    <3> QED BY <1>0, <1>12, <3>1 DEF Aging, AgeClaim, RowType, HasRow, TypeOK, TablesTypeOK
  <2>2. UNCHANGED <<nextId, pending, killed, pc, effective>>
    BY <1>12 DEF Aging, AgeClaim
  <2>3. RowsEvolve
    BY <1>0, <2>1, <2>2 DEF RowsEvolve, TypeOK, TablesTypeOK
  <2>4. RowsHeld
    BY <2>1, <2>2 DEF RowsHeld, LeakInv, NoLeakedClaim, Rows, TicketOf
  <2>5. BatchesEvolve
    BY <1>0, <2>2 DEF BatchesEvolve, TypeOK
  <2> QED BY <1>0, <2>2, <2>3, <2>4, <2>5, LeakRule
<1>13. ASSUME NEW ns \in SUBSET NFTs, Discover(ns) PROVE LeakInv'
  <2> DEFINE new == [id |-> nextId, by |-> NoWorker, aged |-> FALSE]
  <2>1. \A n \in NFTs : temp'[n] = IF n \in ns \ Rows THEN new ELSE temp[n]
    BY <1>13 DEF Discover, InsertTemp
  <2>2. nextId' = nextId + 1 /\ UNCHANGED <<pending, killed, pc, effective>>
    BY <1>13 DEF Discover, InsertTemp
  <2>3. RowsEvolve
    BY <1>0, <2>1, <2>2 DEF RowsEvolve, TypeOK, TablesTypeOK, HasRow
  <2>4. RowsHeld
    BY <2>1, <2>2 DEF RowsHeld, LeakInv, NoLeakedClaim, Rows, HasRow, TicketOf
  <2>5. BatchesEvolve
    BY <1>0, <2>2 DEF BatchesEvolve, TypeOK
  <2> QED BY <1>0, <2>2, <2>3, <2>4, <2>5, LeakRule
<1>14. CASE UNCHANGED vars
  <2>1. RowsEvolve /\ RowsHeld /\ BatchesEvolve
    BY <1>14, IdleStep
  <2> QED BY <1>0, <1>14, <2>1, LeakRule
<1> QED
  BY <1>2, <1>3, <1>4, <1>5, <1>6, <1>7, <1>8, <1>9, <1>10, <1>11, <1>12, <1>13, <1>14
     DEF Next, FetchNext, WorkerStep, ClaimNothing

(* Every claim has someone who will end it: a worker that still has the    *)
(* row in its batch, or one that was killed.                               *)
THEOREM ClaimsAreHeld == Spec => []NoLeakedClaim
<1>1. LeakInv => NoLeakedClaim
  BY DEF LeakInv
<1> QED BY <1>1, LeakInit, LeakStep, PTL DEF Spec
----------------------------------------------------------------------------
(***************************************************************************)
(* EnvKeepsListed and OnlyRacesEscapeBlacklist.  An append that nothing    *)
(* disturbs has read all that is listed when it truncates the line; a      *)
(* load that nothing disturbs finds it there; and what a worker inserts    *)
(* it has compared with what it could learn.                               *)
(***************************************************************************)
ReadListed == \A w \in Workers : envRead[w] \subseteq listed

FreshOfBatches ==
    \A w \in Workers : fresh[w] \subseteq {ContractOf[t.nft] : t \in pending[w]}

Rewriting(w) == pc[w] \in {"appendTruncate", "appendWrite"}

EnvIntact ==
    ~torn =>
        /\ \A v, w \in Workers : Rewriting(v) /\ Rewriting(w) => v = w
        /\ \A w \in Workers : Rewriting(w) => envRead[w] = listed
        /\ (\A w \in Workers : pc[w] # "appendWrite") => env = listed

InsertsHonour ==
    \A w \in Workers :
        pc[w] \in {"dropOwn", "sweep", "insert"}
        => inserts[w] \intersect OfContracts(atLoad[w]) = {}

HonourInv ==
    /\ ReadListed
    /\ FreshOfBatches
    /\ EnvIntact
    /\ InsertsHonour
    /\ OnlyRacesEscapeBlacklist

LEMMA HonourInit == Init => HonourInv
<1> SUFFICES ASSUME Init PROVE HonourInv
  OBVIOUS
<1>1. /\ pc = [w \in Workers |-> "claim"] /\ main = {} /\ env = listed
      /\ envRead = [w \in Workers |-> {}] /\ fresh = [w \in Workers |-> {}]
  BY DEF Init, TablesInit, FetchInit
<1>2. ReadListed /\ FreshOfBatches /\ EnvIntact
  BY <1>1 DEF ReadListed, FreshOfBatches, EnvIntact, Rewriting
<1>3. InsertsHonour /\ OnlyRacesEscapeBlacklist
  BY <1>1 DEF InsertsHonour, OnlyRacesEscapeBlacklist
<1> QED BY <1>2, <1>3 DEF HonourInv

LEMMA HonourHolds == HonourInv => EnvKeepsListed /\ OnlyRacesEscapeBlacklist
BY DEF HonourInv, EnvIntact, Rewriting, EnvKeepsListed

(* A step that leaves alone all that the invariant speaks of.              *)
LEMMA HonourSame ==
    ASSUME HonourInv,
           UNCHANGED <<main, env, listed, pc, pending, inserts, fresh, envRead,
                       atLoad, late, unswept, torn>>
    PROVE  HonourInv'
BY DEF HonourInv, ReadListed, FreshOfBatches, EnvIntact, Rewriting, InsertsHonour,
       OnlyRacesEscapeBlacklist

(* The end of a batch or of a worker, cut short or not.                    *)
LEMMA HonourForget ==
    ASSUME TypeOK, HonourInv, NEW w \in Workers, NEW l \in {"claim", "down"},
           Forget(w, l), CutShort(w), UNCHANGED <<main, env, listed>>
    PROVE  HonourInv'
<1> USE DEF HonourInv, Forget, GoTo, TypeOK
<1>1. ReadListed' /\ FreshOfBatches'
  BY DEF ReadListed, FreshOfBatches
<1>2. EnvIntact'
  <2> SUFFICES ASSUME ~torn' PROVE EnvIntact'
    BY DEF EnvIntact
  <2>1. ~torn /\ pc[w] # "appendWrite"
    BY DEF CutShort
  <2>2. \A v \in Workers : v # w => pc'[v] = pc[v] /\ envRead'[v] = envRead[v]
    OBVIOUS
  <2>3. pc'[w] \notin {"appendTruncate", "appendWrite"}
    OBVIOUS
  <2> QED BY <2>1, <2>2, <2>3 DEF EnvIntact, Rewriting
<1>3. InsertsHonour'
  BY DEF InsertsHonour
<1>4. OnlyRacesEscapeBlacklist'
  <2> SUFFICES ASSUME NEW n \in main, ContractOf[n] \in listed, n \notin late,
                      ContractOf[n] \notin unswept'
               PROVE  \E v \in Workers : /\ pc'[v] \in {"load", "dropOwn", "sweep"}
                                         /\ ContractOf[n] \in fresh'[v]
    BY DEF OnlyRacesEscapeBlacklist, CutShort
  <2>1. PICK v \in Workers : /\ pc[v] \in {"load", "dropOwn", "sweep"}
                             /\ ContractOf[n] \in fresh[v]
    BY DEF OnlyRacesEscapeBlacklist, CutShort
  <2>2. v # w
    BY <2>1 DEF CutShort
  <2> QED BY <2>1, <2>2
<1> QED BY <1>1, <1>2, <1>3, <1>4

(* A worker that moves on and changes only what it is about to insert.     *)
LEMMA HonourMoves ==
    ASSUME TypeOK, HonourInv, NEW w \in Workers, NEW l \in PcType, GoTo(w, l),
           ~Rewriting(w), l \notin {"appendTruncate", "appendWrite"},
           FreshOfBatches', InsertsHonour',
           UNCHANGED <<main, env, listed, envRead, late, unswept, torn>>,
           \A v \in Workers \ {w} : fresh'[v] = fresh[v],
           \/ pc[w] \notin {"load", "dropOwn", "sweep"}
           \/ fresh'[w] = fresh[w] /\ (l \in {"dropOwn", "sweep"} \/ fresh[w] = {})
    PROVE  HonourInv'
<1> USE DEF HonourInv, GoTo, TypeOK
<1>1. ReadListed'
  BY DEF ReadListed
<1>2. EnvIntact'
  BY DEF EnvIntact, Rewriting
<1>3. OnlyRacesEscapeBlacklist'
  BY DEF OnlyRacesEscapeBlacklist
<1> QED BY <1>1, <1>2, <1>3

LEMMA HonourStep ==
    ASSUME VanishInv, HonourInv, FetchNext
    PROVE  HonourInv'
<1>0. TypeOK /\ BlacklistListed
  BY DEF VanishInv
<1>1. ASSUME NEW w \in Workers, Claim(w) PROVE HonourInv'
  <2>1. /\ pc[w] = "claim" /\ GoTo(w, "process")
        /\ UNCHANGED <<main, env, listed, inserts, fresh, envRead, atLoad, late,
                       unswept, torn>>
        /\ \A v \in Workers \ {w} : pending'[v] = pending[v]
    BY <1>0, <1>1 DEF Claim, TypeOK
  <2>2. pending[w] = {}
    BY <1>0, <2>1 DEF TypeOK
  <2>3. fresh[w] = {}
    BY <2>2 DEF HonourInv, FreshOfBatches
  <2>4. FreshOfBatches'
    BY <2>1, <2>3 DEF HonourInv, FreshOfBatches
  <2>5. InsertsHonour'
    BY <1>0, <2>1 DEF HonourInv, InsertsHonour, GoTo, TypeOK, OfContracts
  <2> QED BY <1>0, <2>1, <2>4, <2>5, HonourMoves DEF PcType, Rewriting
<1>2. ASSUME NEW w \in Workers, ProcessBatch(w) PROVE HonourInv'
  <2>1. PICK silent \in SUBSET NFTsOf(pending[w]) :
          LET answered == NFTsOf(pending[w]) \ silent IN
          /\ fresh' = [fresh EXCEPT ![w] = InlineContracts(answered)]
          /\ GoTo(w, IF InlineContracts(answered) = {} THEN "load"
                                                       ELSE "appendRead")
    BY <1>2 DEF ProcessBatch
  <2> DEFINE answered == NFTsOf(pending[w]) \ silent
             l == IF InlineContracts(answered) = {} THEN "load" ELSE "appendRead"
  <2>2. /\ pc[w] = "process" /\ GoTo(w, l)
        /\ UNCHANGED <<main, env, listed, pending, envRead, atLoad, late, unswept, torn>>
        /\ fresh'[w] = InlineContracts(answered)
        /\ \A v \in Workers \ {w} : fresh'[v] = fresh[v] /\ inserts'[v] = inserts[v]
    BY <1>0, <1>2, <2>1 DEF ProcessBatch, TypeOK
  <2>3. InlineContracts(answered) \subseteq {ContractOf[t.nft] : t \in pending[w]}
    BY DEF InlineContracts, NFTsOf
  <2>4. l \in {"load", "appendRead"}
    OBVIOUS
  <2> HIDE DEF answered, l
  <2>5. FreshOfBatches'
    BY <2>2, <2>3 DEF HonourInv, FreshOfBatches
  <2>6. InsertsHonour'
    BY <1>0, <2>2, <2>4 DEF HonourInv, InsertsHonour, GoTo, TypeOK, OfContracts
  <2> QED BY <1>0, <2>2, <2>4, <2>5, <2>6, HonourMoves DEF PcType, Rewriting
<1>3. ASSUME NEW w \in Workers, AppendRead(w) PROVE HonourInv'
  <2>1. /\ pc' = [pc EXCEPT ![w] = "appendTruncate"]
        /\ envRead' = [envRead EXCEPT ![w] = env]
        /\ torn' = (torn \/ \E v \in Workers : Rewriting(v))
        /\ pc[w] = "appendRead"
        /\ UNCHANGED <<main, env, listed, pending, inserts, fresh, atLoad, late, unswept>>
    BY <1>3 DEF AppendRead, GoTo, Rewriting
  <2>2. ReadListed' /\ FreshOfBatches'
    BY <1>0, <2>1 DEF HonourInv, ReadListed, FreshOfBatches, BlacklistListed, TypeOK
  <2>3. EnvIntact'
    <3> SUFFICES ASSUME ~torn' PROVE EnvIntact'
      BY DEF EnvIntact
    <3>1. ~torn /\ \A v \in Workers : ~Rewriting(v)
      BY <2>1
    <3>2. env = listed
      BY <3>1 DEF HonourInv, EnvIntact, Rewriting
    <3>3. \A v \in Workers : Rewriting(v)' => v = w
      BY <1>0, <2>1, <3>1 DEF Rewriting, TypeOK
    <3>4. envRead'[w] = listed
      BY <1>0, <2>1, <3>2 DEF TypeOK
    <3> QED BY <2>1, <3>2, <3>3, <3>4 DEF EnvIntact
  <2>4. InsertsHonour' /\ OnlyRacesEscapeBlacklist'
    BY <1>0, <2>1 DEF HonourInv, InsertsHonour, OnlyRacesEscapeBlacklist, TypeOK,
                      OfContracts
  <2> QED BY <2>2, <2>3, <2>4 DEF HonourInv
<1>4. ASSUME NEW w \in Workers, AppendTruncate(w) PROVE HonourInv'
  <2>1. /\ pc' = [pc EXCEPT ![w] = "appendWrite"]
        /\ pc[w] = "appendTruncate"
        /\ UNCHANGED <<main, listed, pending, inserts, fresh, envRead, atLoad, late,
                       unswept, torn>>
    BY <1>4 DEF AppendTruncate, GoTo
  <2>2. ReadListed' /\ FreshOfBatches'
    BY <2>1 DEF HonourInv, ReadListed, FreshOfBatches
  <2>3. EnvIntact'
    <3>1. \A v \in Workers : Rewriting(v)' <=> Rewriting(v)
      BY <1>0, <2>1 DEF Rewriting, TypeOK
    <3>2. pc'[w] = "appendWrite"
      BY <1>0, <2>1 DEF TypeOK
    <3> QED BY <2>1, <3>1, <3>2 DEF HonourInv, EnvIntact
  <2>4. InsertsHonour' /\ OnlyRacesEscapeBlacklist'
    BY <1>0, <2>1 DEF HonourInv, InsertsHonour, OnlyRacesEscapeBlacklist, TypeOK,
                      OfContracts
  <2> QED BY <2>2, <2>3, <2>4 DEF HonourInv
<1>5. ASSUME NEW w \in Workers, AppendWrite(w) PROVE HonourInv'
  <2>1. /\ pc' = [pc EXCEPT ![w] = "load"]
        /\ pc[w] = "appendWrite"
        /\ env' = envRead[w] \union fresh[w]
        /\ listed' = listed \union envRead[w] \union fresh[w]
        /\ envRead' = [envRead EXCEPT ![w] = {}]
        /\ UNCHANGED <<main, pending, inserts, fresh, atLoad, late, unswept, torn>>
    BY <1>5 DEF AppendWrite, GoTo
  <2>2. ReadListed' /\ FreshOfBatches'
    BY <1>0, <2>1 DEF HonourInv, ReadListed, FreshOfBatches, TypeOK
  <2>3. EnvIntact'
    <3> SUFFICES ASSUME ~torn' PROVE EnvIntact'
      BY DEF EnvIntact
    <3>1. ~torn /\ Rewriting(w) /\ envRead[w] = listed
      BY <2>1 DEF HonourInv, EnvIntact, Rewriting
    <3>2. \A v \in Workers : ~Rewriting(v)'
      BY <1>0, <2>1, <3>1 DEF HonourInv, EnvIntact, Rewriting, TypeOK
    <3> QED BY <2>1, <3>1, <3>2 DEF EnvIntact
  <2>4. InsertsHonour'
    BY <1>0, <2>1 DEF HonourInv, InsertsHonour, TypeOK, OfContracts
  \* What is listed only now is what the worker found and has yet to sweep.
  <2>5. OnlyRacesEscapeBlacklist'
    <3> SUFFICES ASSUME NEW n \in main, ContractOf[n] \in listed', n \notin late,
                        ContractOf[n] \notin unswept
                 PROVE  \E v \in Workers : /\ pc'[v] \in {"load", "dropOwn", "sweep"}
                                           /\ ContractOf[n] \in fresh'[v]
      BY <2>1 DEF OnlyRacesEscapeBlacklist
    <3>1. CASE ContractOf[n] \in fresh[w]
      BY <1>0, <2>1, <3>1 DEF TypeOK
    <3>2. CASE ContractOf[n] \notin fresh[w]
      <4>1. ContractOf[n] \in listed
        BY <2>1, <3>2 DEF HonourInv, ReadListed
      <4>2. PICK v \in Workers : /\ pc[v] \in {"load", "dropOwn", "sweep"}
                                 /\ ContractOf[n] \in fresh[v]
        BY <4>1 DEF HonourInv, OnlyRacesEscapeBlacklist
      <4> QED BY <1>0, <2>1, <4>2 DEF TypeOK
    <3> QED BY <3>1, <3>2
  <2> QED BY <2>2, <2>3, <2>4, <2>5 DEF HonourInv
<1>6. ASSUME NEW w \in Workers, LoadBlacklist(w) PROVE HonourInv'
  <2> DEFINE banned == startEnv \union env \union fresh[w]
             own == OfContracts(banned) \intersect NFTsOf(pending[w])
             l == IF own = {} THEN "insert" ELSE "dropOwn"
  <2>1. /\ pc[w] = "load" /\ GoTo(w, l)
        /\ inserts'[w] = inserts[w] \ OfContracts(banned)
        /\ atLoad'[w] = Learnable(w)
        /\ \A v \in Workers \ {w} : inserts'[v] = inserts[v] /\ atLoad'[v] = atLoad[v]
        /\ UNCHANGED <<main, env, listed, pending, fresh, envRead, late, unswept, torn>>
    BY <1>0, <1>6 DEF LoadBlacklist, TypeOK
  \* A contract the worker added is one of its own rows' contracts.
  <2>2. own = {} => fresh[w] = {}
    <3> SUFFICES ASSUME NEW c \in fresh[w] PROVE own # {}
      OBVIOUS
    <3>1. PICK t \in pending[w] : c = ContractOf[t.nft]
      BY DEF HonourInv, FreshOfBatches
    <3>2. t.nft \in NFTs
      BY <1>0 DEF TypeOK, Ticket
    <3> QED BY <3>1, <3>2 DEF OfContracts, NFTsOf
  <2>3. Learnable(w) \subseteq banned
    BY DEF Learnable, HonourInv, EnvIntact
  <2>4. l \in {"insert", "dropOwn"} /\ (l = "insert" => fresh[w] = {})
    BY <2>2
  <2> HIDE DEF own, l, banned
  <2>5. FreshOfBatches'
    BY <2>1 DEF HonourInv, FreshOfBatches
  <2>6. InsertsHonour'
    BY <1>0, <2>1, <2>3, <2>4 DEF HonourInv, InsertsHonour, GoTo, TypeOK, OfContracts
  <2> QED BY <1>0, <2>1, <2>4, <2>5, <2>6, HonourMoves DEF PcType, Rewriting
<1>7. ASSUME NEW w \in Workers, DropOwn(w) PROVE HonourInv'
  <2> DEFINE l == IF fresh[w] = {} THEN "insert" ELSE "sweep"
  <2>1. /\ pc[w] = "dropOwn" /\ GoTo(w, l)
        /\ UNCHANGED <<main, env, listed, pending, inserts, fresh, envRead, atLoad,
                       late, unswept, torn>>
    BY <1>7 DEF DropOwn
  <2>2. l \in {"insert", "sweep"} /\ (l = "insert" => fresh[w] = {})
    OBVIOUS
  <2> HIDE DEF l
  <2>3. FreshOfBatches'
    BY <2>1 DEF HonourInv, FreshOfBatches
  <2>4. InsertsHonour'
    BY <1>0, <2>1, <2>2 DEF HonourInv, InsertsHonour, GoTo, TypeOK, OfContracts
  <2> QED BY <1>0, <2>1, <2>2, <2>3, <2>4, HonourMoves DEF PcType, Rewriting
<1>8. ASSUME NEW w \in Workers, Sweep(w) PROVE HonourInv'
  <2>1. /\ pc' = [pc EXCEPT ![w] = "insert"]
        /\ pc[w] = "sweep"
        /\ main' = main \ OfContracts(fresh[w])
        /\ late' = late \ OfContracts(fresh[w])
        /\ unswept' = unswept \ fresh[w]
        /\ UNCHANGED <<env, listed, pending, inserts, fresh, envRead, atLoad, torn>>
    BY <1>8 DEF Sweep, DeleteContracts, GoTo
  <2>2. ReadListed' /\ FreshOfBatches'
    BY <2>1 DEF HonourInv, ReadListed, FreshOfBatches
  <2>3. EnvIntact'
    BY <1>0, <2>1 DEF HonourInv, EnvIntact, Rewriting, TypeOK
  <2>4. InsertsHonour'
    BY <1>0, <2>1 DEF HonourInv, InsertsHonour, TypeOK, OfContracts
  \* What is left in main is of contracts this worker did not sweep.
  <2>5. OnlyRacesEscapeBlacklist'
    <3> SUFFICES ASSUME NEW n \in main', ContractOf[n] \in listed, n \notin late',
                        ContractOf[n] \notin unswept'
                 PROVE  \E v \in Workers : /\ pc'[v] \in {"load", "dropOwn", "sweep"}
                                           /\ ContractOf[n] \in fresh'[v]
      BY <2>1 DEF OnlyRacesEscapeBlacklist
    <3>1. n \in NFTs
      BY <1>0, <2>1 DEF TypeOK, TablesTypeOK
    <3>2. ContractOf[n] \notin fresh[w]
      BY <2>1, <3>1 DEF OfContracts
    <3>3. n \in main /\ n \notin late /\ ContractOf[n] \notin unswept
      BY <2>1, <3>2 DEF OfContracts
    <3>4. PICK v \in Workers : /\ pc[v] \in {"load", "dropOwn", "sweep"}
                               /\ ContractOf[n] \in fresh[v]
      BY <3>3 DEF HonourInv, OnlyRacesEscapeBlacklist
    <3> QED BY <1>0, <2>1, <3>2, <3>4 DEF TypeOK
  <2> QED BY <2>2, <2>3, <2>4, <2>5 DEF HonourInv
<1>9. ASSUME NEW w \in Workers, InsertMain(w) PROVE HonourInv'
  <2>1. /\ pc' = [pc EXCEPT ![w] = "delete"]
        /\ pc[w] = "insert"
        /\ main' = main \union inserts[w]
        /\ late' = late \union {n \in inserts[w] : ContractOf[n] \in listed \ atLoad[w]}
        /\ UNCHANGED <<env, listed, pending, inserts, fresh, envRead, atLoad, unswept,
                       torn>>
    BY <1>9 DEF InsertMain, GoTo
  <2>2. ReadListed' /\ FreshOfBatches'
    BY <2>1 DEF HonourInv, ReadListed, FreshOfBatches
  <2>3. EnvIntact'
    BY <1>0, <2>1 DEF HonourInv, EnvIntact, Rewriting, TypeOK
  <2>4. InsertsHonour'
    BY <1>0, <2>1 DEF HonourInv, InsertsHonour, TypeOK, OfContracts
  <2>5. OnlyRacesEscapeBlacklist'
    <3> SUFFICES ASSUME NEW n \in main', ContractOf[n] \in listed, n \notin late',
                        ContractOf[n] \notin unswept
                 PROVE  \E v \in Workers : /\ pc'[v] \in {"load", "dropOwn", "sweep"}
                                           /\ ContractOf[n] \in fresh'[v]
      BY <2>1 DEF OnlyRacesEscapeBlacklist
    <3>1. n \notin inserts[w]
      <4> SUFFICES ASSUME n \in inserts[w] PROVE FALSE
        OBVIOUS
      <4>1. n \in NFTs
        BY <1>0 DEF TypeOK
      <4>2. ContractOf[n] \notin atLoad[w]
        BY <2>1, <4>1 DEF HonourInv, InsertsHonour, OfContracts
      <4> QED BY <2>1, <4>2
    <3>2. PICK v \in Workers : /\ pc[v] \in {"load", "dropOwn", "sweep"}
                               /\ ContractOf[n] \in fresh[v]
      BY <2>1, <3>1 DEF HonourInv, OnlyRacesEscapeBlacklist
    <3> QED BY <1>0, <2>1, <3>2 DEF TypeOK
  <2> QED BY <2>2, <2>3, <2>4, <2>5 DEF HonourInv
<1>10. ASSUME NEW w \in Workers, DeleteProcessed(w) \/ ProcessRaises(w) \/ Leave(w)
       PROVE  HonourInv'
  <2>1. /\ pc[w] \in {"claim", "process", "delete"}
        /\ UNCHANGED <<main, env, listed, late, unswept, torn>>
        /\ \E l \in {"claim", "down"} : Forget(w, l)
    BY <1>10 DEF DeleteProcessed, ProcessRaises, Leave, Release
  <2>2. CutShort(w)
    BY <1>0, <2>1 DEF CutShort, TypeOK
  <2> QED BY <1>0, <2>1, <2>2, HonourForget
<1>11. ASSUME NEW w \in Workers, Abort(w) \/ Kill(w) PROVE HonourInv'
  BY <1>0, <1>11, HonourForget DEF Abort, Kill, Release
<1>12. CASE Rerun
  <2>1. /\ \A w \in Workers : pc[w] = "down" /\ pc'[w] = "claim"
        /\ UNCHANGED <<main, env, listed, pending, inserts, fresh, envRead, atLoad,
                       late, unswept, torn>>
    BY <1>12 DEF Rerun, Alive
  <2> QED
    BY <2>1 DEF HonourInv, ReadListed, FreshOfBatches, EnvIntact, Rewriting,
                InsertsHonour, OnlyRacesEscapeBlacklist
<1>13. CASE (\E w \in Workers : ClaimNothing(w)) \/ RequestStop \/ \E n \in NFTs : Aging(n)
  BY <1>13, HonourSame DEF ClaimNothing, RequestStop, Aging, AgeClaim
<1> QED
  BY <1>1, <1>2, <1>3, <1>4, <1>5, <1>6, <1>7, <1>8, <1>9, <1>10, <1>11, <1>12, <1>13
     DEF FetchNext, WorkerStep

LEMMA HonourInvariant == Spec => []HonourInv
<1>1. VanishInv /\ HonourInv /\ [Next]_vars => HonourInv'
  <2> SUFFICES ASSUME VanishInv, HonourInv, [Next]_vars PROVE HonourInv'
    OBVIOUS
  <2>1. CASE FetchNext
    BY <2>1, HonourStep
  <2>2. CASE UNCHANGED vars \/ \E ns \in SUBSET NFTs : Discover(ns)
    BY <2>2, HonourSame DEF Discover
  <2> QED BY <2>1, <2>2 DEF Next
<1> QED BY <1>1, VanishInit, VanishStep, HonourInit, PTL DEF Spec

(* The .env line keeps every contract it ever listed, for any number of    *)
(* workers, errors, kills and reruns, unless two appends overlapped or one *)
(* was interrupted.                                                        *)
THEOREM EnvIsKept == Spec => []EnvKeepsListed
<1> QED BY HonourInvariant, HonourHolds, PTL

(* Whatever the number of workers, errors, kills and reruns: no worker     *)
(* inserts what it could learn to be blacklisted, and what was inserted    *)
(* before stays in main only as long as the sweep of the contract is still *)
(* to come or was cut off.                                                 *)
THEOREM BlacklistIsHonoured == Spec => []OnlyRacesEscapeBlacklist
<1> QED BY HonourInvariant, HonourHolds, PTL

----------------------------------------------------------------------------
(***************************************************************************)
(* YoungClaimsAreExclusive.  A row whose claim never outlived the limit is *)
(* in the batch of no worker but its claimant: claiming takes free or aged *)
(* rows only, and a key that is staged again gets an id no batch has.      *)
(***************************************************************************)
AgedRemembered == \A n \in NFTs : HasRow(n) /\ temp[n].aged => TicketOf(n) \in everAged

YoungOwned ==
    \A w \in Workers : \A t \in pending[w] :
        Current(t) /\ t \notin everAged => temp[t.nft].by = w

YoungInv == LeakInv /\ AgedRemembered /\ YoungOwned

LEMMA YoungInit == Init => YoungInv
<1> SUFFICES ASSUME Init PROVE YoungInv
  OBVIOUS
<1>1. LeakInv
  BY LeakInit
<1>2. AgedRemembered /\ YoungOwned
  BY DEF Init, TablesInit, FetchInit, AgedRemembered, YoungOwned, HasRow
<1> QED BY <1>1, <1>2 DEF YoungInv

(* Steps that at most remove rows and forget batches.                      *)
LEMMA YoungKept ==
    ASSUME YoungInv, LeakInv', UNCHANGED everAged,
           \A n \in NFTs : temp'[n] = NoRow \/ temp'[n] = temp[n],
           \A w \in Workers : pending'[w] = {} \/ pending'[w] = pending[w]
    PROVE  YoungInv'
<1>1. AgedRemembered'
  BY DEF YoungInv, AgedRemembered, HasRow, TicketOf
<1>2. YoungOwned'
  <2> SUFFICES ASSUME NEW w \in Workers, NEW t \in pending'[w], Current(t)', t \notin everAged
               PROVE  temp'[t.nft].by = w
    BY DEF YoungOwned
  <2>1. t \in pending[w] /\ t.nft \in NFTs
    BY DEF YoungInv, LeakInv, TypeOK, Ticket
  <2>2. temp'[t.nft] = temp[t.nft] /\ Current(t)
    BY <2>1 DEF Current, HasRow
  <2> QED BY <2>1, <2>2 DEF YoungInv, YoungOwned
<1> QED BY <1>1, <1>2 DEF YoungInv

LEMMA YoungStep == YoungInv /\ [Next]_vars => YoungInv'
<1> SUFFICES ASSUME YoungInv, [Next]_vars PROVE YoungInv'
  OBVIOUS
<1>0. LeakInv /\ LeakInv' /\ TypeOK /\ TypeOK'
  BY LeakStep DEF YoungInv, LeakInv
<1>1. ASSUME NEW w \in Workers, Claim(w) PROVE YoungInv'
  <2>1. PICK ns \in SUBSET Rows :
          /\ \A n \in ns : Claimable(n)
          /\ MarkClaimed(w, ns)
          /\ pending' = [pending EXCEPT ![w] = {TicketOf(n) : n \in ns}]
    BY <1>1 DEF Claim, OldestOf
  <2>2. everAged' = everAged
    BY <1>1 DEF Claim
  <2>3. \A n \in NFTs :
          IF n \in ns
          THEN /\ HasRow(n) /\ temp'[n].id = temp[n].id /\ temp'[n].by = w /\ ~temp'[n].aged
               /\ temp[n].by = NoWorker \/ temp[n].aged
          ELSE temp'[n] = temp[n]
    <3> SUFFICES ASSUME NEW n \in ns
                 PROVE  /\ HasRow(n) /\ temp'[n].id = temp[n].id /\ temp'[n].by = w
                        /\ ~temp'[n].aged
                        /\ temp[n].by = NoWorker \/ temp[n].aged
      BY <2>1 DEF MarkClaimed
    <3>1. n \in NFTs /\ HasRow(n) /\ temp[n] \in RowType
      BY <1>0, <2>1, RowFacts DEF Rows, TypeOK
    <3>2. temp'[n] = [temp[n] EXCEPT !.by = w, !.aged = FALSE]
      BY <2>1, <3>1 DEF MarkClaimed
    <3> QED BY <2>1, <3>1, <3>2 DEF RowType, Claimable
  <2>4. AgedRemembered'
    BY <2>2, <2>3 DEF YoungInv, AgedRemembered, HasRow, TicketOf
  <2>5. YoungOwned'
    <3> SUFFICES ASSUME NEW v \in Workers, NEW t \in pending'[v], Current(t)', t \notin everAged
                 PROVE  temp'[t.nft].by = v
      BY <2>2 DEF YoungOwned
    <3>1. t \in Ticket /\ t.nft \in NFTs
      BY <1>0 DEF TypeOK, Ticket
    <3>2. CASE v = w
      <4>1. PICK n \in ns : t = TicketOf(n)
        BY <1>0, <2>1, <3>2 DEF TypeOK
      <4> QED BY <2>1, <2>3, <3>2, <4>1 DEF TicketOf, Rows
    <3>3. CASE v # w
      <4>1. t \in pending[v]
        BY <1>0, <2>1, <3>3 DEF TypeOK
      <4>2. t.nft \notin ns
        <5> SUFFICES ASSUME t.nft \in ns PROVE FALSE
          OBVIOUS
        <5>1. Current(t)
          BY <2>3, <3>1 DEF Current, HasRow
        <5>2. temp[t.nft].by = v
          BY <4>1, <5>1 DEF YoungInv, YoungOwned
        <5>3. temp[t.nft].aged
          BY <2>3, <3>1, <5>2, NoWorkerAssumption
        <5>4. TicketOf(t.nft) = t
          BY <3>1, <5>1 DEF Current, TicketOf, Ticket
        <5> QED BY <3>1, <5>1, <5>3, <5>4 DEF YoungInv, AgedRemembered, Current
      <4> QED BY <2>3, <3>1, <4>1, <4>2 DEF YoungInv, YoungOwned, Current, HasRow
    <3> QED BY <3>2, <3>3
  <2> QED BY <1>0, <2>4, <2>5 DEF YoungInv
<1>2. ASSUME NEW w \in Workers, ProcessRaises(w) \/ Leave(w) \/ Abort(w) PROVE YoungInv'
  <2>1. /\ ReleaseTemp(w, pending[w])
        /\ pending' = [pending EXCEPT ![w] = {}]
        /\ UNCHANGED everAged
    BY <1>2 DEF ProcessRaises, Leave, Abort, Release, Forget
  <2>2. \A n \in NFTs :
          \/ temp'[n] = temp[n]
          \/ HasRow(n) /\ temp[n].by = w /\ ~temp'[n].aged
    <3> SUFFICES ASSUME NEW n \in NFTs, TicketOn(pending[w], n), temp[n].by = w
                 PROVE  HasRow(n) /\ ~temp'[n].aged
      BY <2>1 DEF ReleaseTemp
    <3>1. HasRow(n) /\ temp[n] \in RowType
      BY <1>0, RowFacts DEF TicketOn, TypeOK
    <3>2. temp'[n] = [temp[n] EXCEPT !.by = NoWorker, !.aged = FALSE]
      BY <2>1 DEF ReleaseTemp
    <3> QED BY <3>1, <3>2 DEF RowType
  <2>3. AgedRemembered'
    BY <2>1, <2>2 DEF YoungInv, AgedRemembered, HasRow, TicketOf
  <2>4. YoungOwned'
    <3> SUFFICES ASSUME NEW v \in Workers, NEW t \in pending'[v], Current(t)', t \notin everAged
                 PROVE  temp'[t.nft].by = v
      BY <2>1 DEF YoungOwned
    <3>1. v # w /\ t \in pending[v] /\ t \in Ticket /\ t.nft \in NFTs
      BY <1>0, <2>1 DEF TypeOK, Ticket
    <3>2. HasRow(t.nft)' <=> HasRow(t.nft)
      BY <1>0, <2>1, <3>1, ReleaseKeepsRows DEF TypeOK
    <3>3. temp'[t.nft].id = temp[t.nft].id
      <4>1. CASE TicketOn(pending[w], t.nft) /\ temp[t.nft].by = w
        <5>1. temp[t.nft] \in RowType
          BY <1>0, <3>1, <4>1, RowFacts DEF TicketOn, TypeOK
        <5> QED BY <2>1, <3>1, <4>1, <5>1 DEF ReleaseTemp, RowType
      <4>2. CASE ~(TicketOn(pending[w], t.nft) /\ temp[t.nft].by = w)
        BY <2>1, <3>1, <4>2 DEF ReleaseTemp
      <4> QED BY <4>1, <4>2
    <3>4. Current(t)
      BY <3>2, <3>3 DEF Current
    <3>5. temp[t.nft].by = v
      BY <3>1, <3>4 DEF YoungInv, YoungOwned
    <3> QED BY <2>2, <3>1, <3>5
  <2> QED BY <1>0, <2>3, <2>4 DEF YoungInv
<1>3. ASSUME NEW w \in Workers,
             \/ ClaimNothing(w) \/ ProcessBatch(w) \/ AppendRead(w) \/ AppendTruncate(w)
             \/ AppendWrite(w) \/ LoadBlacklist(w) \/ DropOwn(w) \/ Sweep(w) \/ InsertMain(w)
             \/ DeleteProcessed(w) \/ Kill(w)
      PROVE YoungInv'
  <2>1. \A n \in NFTs : temp'[n] = NoRow \/ temp'[n] = temp[n]
    BY <1>3 DEF ClaimNothing, ProcessBatch, AppendRead, AppendTruncate, AppendWrite,
       LoadBlacklist, DropOwn, Sweep, InsertMain, DeleteProcessed, Kill, DeleteTemp,
       DeleteContracts
  <2>2. UNCHANGED everAged
        /\ (UNCHANGED pending \/ pending' = [pending EXCEPT ![w] = {}])
    BY <1>3 DEF ClaimNothing, ProcessBatch, AppendRead, AppendTruncate, AppendWrite,
       LoadBlacklist, DropOwn, Sweep, InsertMain, DeleteProcessed, Kill, Forget
  <2>3. \A v \in Workers : pending'[v] = {} \/ pending'[v] = pending[v]
    BY <1>0, <2>2 DEF TypeOK
  <2> QED BY <1>0, <2>1, <2>2, <2>3, YoungKept
<1>4. CASE RequestStop \/ Rerun \/ UNCHANGED vars
  BY <1>0, <1>4, YoungKept DEF RequestStop, Rerun
<1>5. ASSUME NEW m \in NFTs, Aging(m) PROVE YoungInv'
  <2>1. /\ HasRow(m) /\ temp' = [temp EXCEPT ![m].aged = TRUE]
        /\ everAged' = everAged \union {TicketOf(m)}
        /\ pending' = pending
    BY <1>5 DEF Aging, AgeClaim
  <2>2. temp[m] \in RowType
    BY <1>0, <2>1, RowFacts DEF TypeOK
  <2>3. /\ \A n \in NFTs : n # m => temp'[n] = temp[n]
        /\ temp'[m].id = temp[m].id /\ temp'[m].by = temp[m].by
    BY <1>0, <2>1, <2>2 DEF RowType, TypeOK, TablesTypeOK
  <2>4. AgedRemembered'
    BY <2>1, <2>3 DEF YoungInv, AgedRemembered, HasRow, TicketOf
  <2>5. YoungOwned'
    BY <1>0, <2>1, <2>3 DEF YoungInv, YoungOwned, Current, HasRow, TypeOK, Ticket
  <2> QED BY <1>0, <2>4, <2>5 DEF YoungInv
<1>6. ASSUME NEW ns \in SUBSET NFTs, Discover(ns) PROVE YoungInv'
  <2> DEFINE new == [id |-> nextId, by |-> NoWorker, aged |-> FALSE]
  <2>1. /\ \A n \in NFTs : temp'[n] = IF n \in ns \ Rows THEN new ELSE temp[n]
        /\ UNCHANGED <<everAged, pending>>
    BY <1>6 DEF Discover, InsertTemp
  <2>2. AgedRemembered'
    BY <2>1 DEF YoungInv, AgedRemembered, HasRow, TicketOf
  <2>3. YoungOwned'
    <3> SUFFICES ASSUME NEW v \in Workers, NEW t \in pending[v], Current(t)', t \notin everAged
                 PROVE  temp'[t.nft].by = v
      BY <2>1 DEF YoungOwned
    <3>1. t \in Ticket /\ t.nft \in NFTs
      BY <1>0 DEF TypeOK, Ticket
    <3>2. t.id < nextId /\ nextId \in Nat
      BY <1>0 DEF LeakInv, IdsOld, TypeOK, TablesTypeOK
    <3>3. t.nft \notin ns \ Rows
      BY <2>1, <3>1, <3>2 DEF Current, Ticket
    <3>4. temp'[t.nft] = temp[t.nft]
      BY <2>1, <3>1, <3>3
    <3> QED BY <3>4 DEF YoungInv, YoungOwned, Current, HasRow
  <2> QED BY <1>0, <2>2, <2>3 DEF YoungInv
<1> QED
  BY <1>1, <1>2, <1>3, <1>4, <1>5, <1>6 DEF Next, FetchNext, WorkerStep

(* The row of a young claim is removed by its claimant or by a sweep of    *)
(* its contract.                                                           *)
LEMMA YoungRemoval ==
    ASSUME YoungInv, TypeOK', [Next]_vars, NEW n \in NFTs, NEW w \in Workers,
           HasRow(n), ~HasRow(n)', temp[n].by = w, TicketOf(n) \notin everAged
    PROVE  \/ pc[w] \in {"dropOwn", "delete"} /\ pc'[w] # pc[w]
           \/ \E v \in Workers : /\ pc[v] = "sweep" /\ pc'[v] # "sweep"
                                  /\ ContractOf[n] \in fresh[v]
<1>0. TypeOK /\ TablesTypeOK /\ TicketOf(n).nft = n /\ Current(TicketOf(n))
  BY DEF YoungInv, LeakInv, TypeOK, Current, TicketOf
<1>1. ASSUME NEW v \in Workers, DropOwn(v) \/ DeleteProcessed(v)
      PROVE  pc[w] \in {"dropOwn", "delete"} /\ pc'[w] # pc[w]
  <2>1. TicketOf(n) \in pending[v]
    BY <1>1 DEF DropOwn, DeleteProcessed, DeleteTemp, TicketOn, Blacklisted, AfterCleanup, HasRow
  <2>2. v = w
    BY <1>0, <2>1 DEF YoungInv, YoungOwned
  <2> QED BY <1>0, <1>1, <2>2 DEF DropOwn, DeleteProcessed, Forget, GoTo, TypeOK
<1>2. ASSUME NEW v \in Workers, Sweep(v)
      PROVE  pc[v] = "sweep" /\ pc'[v] # "sweep" /\ ContractOf[n] \in fresh[v]
  <2>1. ContractOf[n] \in fresh[v]
    BY <1>2 DEF Sweep, DeleteContracts, HasRow
  <2> QED BY <1>0, <1>2, <2>1 DEF Sweep, GoTo, TypeOK
<1>3. ASSUME NEW v \in Workers, Claim(v) PROVE FALSE
  <2>1. PICK ns \in SUBSET Rows : MarkClaimed(v, ns)
    BY <1>3 DEF Claim
  <2>2. temp[n] \in RowType
    BY <1>0, RowFacts
  <2>3. [temp[n] EXCEPT !.by = v, !.aged = FALSE] \in RowType
    BY <2>2 DEF RowType, Claimant
  <2> QED BY <2>1, <2>2, <2>3, NoRowAssumption DEF MarkClaimed, HasRow
<1>4. ASSUME NEW v \in Workers, ProcessRaises(v) \/ Leave(v) \/ Abort(v) PROVE FALSE
  BY <1>0, <1>4, ReleaseKeepsRows DEF ProcessRaises, Leave, Abort, Release
<1>5. ASSUME NEW m \in NFTs, Aging(m) PROVE FALSE
  <2>1. temp[m] \in RowType /\ temp' = [temp EXCEPT ![m].aged = TRUE]
    BY <1>0, <1>5, RowFacts DEF Aging, AgeClaim
  <2>2. [temp[m] EXCEPT !.aged = TRUE] \in RowType
    BY <2>1 DEF RowType
  <2>3. temp'[n] = temp[n] \/ temp'[n] \in RowType
    BY <1>0, <2>1, <2>2 DEF TablesTypeOK
  <2> QED BY <2>3, NoRowAssumption DEF HasRow
<1>6. ASSUME NEW ns \in SUBSET NFTs, Discover(ns) PROVE FALSE
  BY <1>6 DEF Discover, InsertTemp, Rows, HasRow
<1>7. ASSUME \/ UNCHANGED vars \/ RequestStop \/ Rerun
             \/ \E v \in Workers :
                   \/ ClaimNothing(v) \/ ProcessBatch(v) \/ AppendRead(v) \/ AppendTruncate(v)
                   \/ AppendWrite(v) \/ LoadBlacklist(v) \/ InsertMain(v) \/ Kill(v)
      PROVE  FALSE
  <2>1. temp' = temp
    BY <1>7 DEF RequestStop, Rerun, ClaimNothing, ProcessBatch, AppendRead, AppendTruncate,
       AppendWrite, LoadBlacklist, InsertMain, Kill
  <2> QED BY <2>1 DEF HasRow
<1> QED
  BY <1>1, <1>2, <1>3, <1>4, <1>5, <1>6, <1>7 DEF Next, FetchNext, WorkerStep

(* While a worker that has not died works on a row whose claim is young,   *)
(* only that worker, or a sweep of the row's contract, removes the row.    *)
THEOREM YoungRowsAreSafe == Spec => YoungClaimsAreExclusive
<1>1. YoungInv /\ [Next]_vars =>
        [\A n \in NFTs, w \in Workers :
          (/\ HasRow(n) /\ ~HasRow(n)'
           /\ temp[n].by = w
           /\ TicketOf(n) \notin everAged)
          => \/ pc[w] \in {"dropOwn", "delete"} /\ pc'[w] # pc[w]
             \/ \E v \in Workers : /\ pc[v] = "sweep" /\ pc'[v] # "sweep"
                                    /\ ContractOf[n] \in fresh[v]]_vars
  <2>1. YoungInv /\ [Next]_vars => TypeOK'
    BY TypeStep DEF YoungInv, LeakInv
  <2> QED BY <2>1, YoungRemoval
<1> QED BY <1>1, YoungInit, YoungStep, PTL DEF Spec, YoungClaimsAreExclusive
-----------------------------------------------------------------------------
(* The fetcher and the scanner together.                                   *)

USE DEF scanVars, scannerVars, collectorVars

----------------------------------------------------------------------------
(***************************************************************************)
(* What the workers hold was staged, so the keys the scanner knows when it *)
(* starts (those of both tables) were staged too.                          *)
(***************************************************************************)
TablesStaged == Rows \subseteq staged /\ main \subseteq staged

BatchesStaged ==
    \A w \in Workers :
        inserts[w] \subseteq staged /\ \A t \in pending[w] : t.nft \in staged

WorkersStaged == TablesStaged /\ BatchesStaged

(* No step of the workers adds a row, moves the checkpoint or forgets what *)
(* was staged or blacklisted.                                              *)
LEMMA WorkersKeepTables ==
    ASSUME TypeOK, FetchNext
    PROVE  /\ Rows' \subseteq Rows
           /\ UNCHANGED <<staged, checkpoint>>
           /\ listed \subseteq listed'
<1> DEFINE Kept == /\ Rows' \subseteq Rows
                   /\ UNCHANGED <<staged, checkpoint>>
                   /\ listed \subseteq listed'
<1> USE DEF Rows, HasRow
<1>1. ASSUME NEW w \in Workers, Claim(w) PROVE Kept
  BY <1>1 DEF Claim, MarkClaimed
<1>2. ASSUME NEW w \in Workers, ProcessRaises(w) \/ Leave(w) \/ Abort(w) PROVE Kept
  BY <1>2 DEF ProcessRaises, Leave, Abort, Release, ReleaseTemp, TicketOn
<1>3. ASSUME NEW w \in Workers, DropOwn(w) \/ DeleteProcessed(w) PROVE Kept
  BY <1>3 DEF DropOwn, DeleteProcessed, DeleteTemp
<1>4. ASSUME NEW w \in Workers, Sweep(w) PROVE Kept
  BY <1>4 DEF Sweep, DeleteContracts
<1>5. ASSUME NEW w \in Workers, AppendWrite(w) PROVE Kept
  BY <1>5 DEF AppendWrite
<1>6. ASSUME NEW w \in Workers,
             \/ ClaimNothing(w) \/ ProcessBatch(w) \/ AppendRead(w)
             \/ AppendTruncate(w) \/ LoadBlacklist(w) \/ InsertMain(w) \/ Kill(w)
      PROVE Kept
  BY <1>6 DEF ClaimNothing, ProcessBatch, AppendRead, AppendTruncate, LoadBlacklist,
              InsertMain, Kill
<1>7. ASSUME NEW n \in NFTs, Aging(n) PROVE Kept
  BY <1>7 DEF Aging, AgeClaim, TypeOK, TablesTypeOK
<1>8. CASE RequestStop \/ Rerun
  BY <1>8 DEF RequestStop, Rerun
<1> QED BY <1>1, <1>2, <1>3, <1>4, <1>5, <1>6, <1>7, <1>8 DEF FetchNext, WorkerStep

(* What a worker accepts, inserts and holds was staged.                    *)
LEMMA WorkersStagedStep ==
    ASSUME TypeOK, WorkersStaged, FetchNext
    PROVE  WorkersStaged'
<1>1. /\ Rows' \subseteq Rows
      /\ UNCHANGED <<staged, checkpoint>>
      /\ listed \subseteq listed'
  BY WorkersKeepTables
<1> USE <1>1 DEF WorkersStaged, TablesStaged, BatchesStaged
<1>2. ASSUME NEW w \in Workers, Claim(w) PROVE WorkersStaged'
  <2>1. PICK ns \in SUBSET Rows : pending' = [pending EXCEPT ![w] = {TicketOf(n) : n \in ns}]
    BY <1>2 DEF Claim
  <2>2. \A t \in {TicketOf(n) : n \in ns} : t.nft \in staged
    BY DEF TicketOf, Rows
  <2> QED BY <1>2, <2>1, <2>2 DEF Claim, TypeOK
<1>3. ASSUME NEW w \in Workers, ProcessBatch(w) PROVE WorkersStaged'
  <2>1. PICK answered \in SUBSET NFTsOf(pending[w]) :
          inserts' = [inserts EXCEPT ![w] = Accepted(answered)]
    BY <1>3 DEF ProcessBatch
  <2>2. Accepted(answered) \subseteq staged
    BY <2>1 DEF Accepted, NFTsOf
  <2> QED BY <1>3, <2>1, <2>2 DEF ProcessBatch, TypeOK
<1>4. ASSUME NEW w \in Workers, InsertMain(w) PROVE WorkersStaged'
  BY <1>4 DEF InsertMain
<1>5. ASSUME NEW w \in Workers, LoadBlacklist(w) PROVE WorkersStaged'
  BY <1>5 DEF LoadBlacklist, TypeOK
<1>6. ASSUME NEW w \in Workers, Sweep(w) PROVE WorkersStaged'
  BY <1>6 DEF Sweep, DeleteContracts
<1>7. ASSUME NEW w \in Workers, NEW l \in PcType, Forget(w, l), UNCHANGED main
      PROVE  WorkersStaged'
  BY <1>7 DEF Forget, TypeOK
<1>8. ASSUME UNCHANGED <<main, pending, inserts>> PROVE WorkersStaged'
  BY <1>8
<1>9. ASSUME NEW w \in Workers,
             ProcessRaises(w) \/ DeleteProcessed(w) \/ Leave(w) \/ Abort(w) \/ Kill(w)
      PROVE WorkersStaged'
  BY <1>7, <1>9 DEF ProcessRaises, DeleteProcessed, Leave, Abort, Kill, Release, PcType
<1>10. ASSUME NEW w \in Workers,
              \/ ClaimNothing(w) \/ AppendRead(w) \/ AppendTruncate(w)
              \/ AppendWrite(w) \/ DropOwn(w)
       PROVE WorkersStaged'
  BY <1>8, <1>10 DEF ClaimNothing, AppendRead, AppendTruncate, AppendWrite, DropOwn
<1>11. ASSUME NEW n \in NFTs, Aging(n) PROVE WorkersStaged'
  BY <1>8, <1>11 DEF Aging, AgeClaim
<1>12. CASE RequestStop \/ Rerun
  BY <1>8, <1>12 DEF RequestStop, Rerun
<1> QED BY <1>2, <1>3, <1>4, <1>5, <1>6, <1>9, <1>10, <1>11, <1>12
           DEF FetchNext, WorkerStep

----------------------------------------------------------------------------
(***************************************************************************)
(* The scanner and the workers' invariants: the scanner inserts rows and   *)
(* moves the checkpoint, and touches nothing else of theirs.               *)
(***************************************************************************)
ScannerWrites ==
    /\ UNCHANGED fetchVars
    /\ UNCHANGED <<main, env, listed>>
    /\ checkpoint' \in Int \union {NoBlock}
    /\ \/ UNCHANGED <<temp, nextId, staged>>
       \/ \E ns \in SUBSET NFTs : InsertTemp(ns)

(* An insert keeps the rows there are and adds the ones it names.          *)
LEMMA InsertFacts ==
    ASSUME TablesTypeOK, NEW ns \in SUBSET NFTs, InsertTemp(ns)
    PROVE  /\ temp' \in [NFTs -> RowType \union {NoRow}]
           /\ nextId' \in Nat \ {0}
           /\ Rows' = Rows \union ns
           /\ staged' = staged \union (ns \ Rows)
<1> DEFINE new == [id |-> nextId, by |-> NoWorker, aged |-> FALSE]
<1>1. new \in RowType
  BY DEF RowType, Claimant, TablesTypeOK
<1>2. new # NoRow
  BY <1>1, NoRowAssumption
<1> HIDE DEF new
<1>3. temp' = [n \in NFTs |-> IF n \in ns \ Rows THEN new ELSE temp[n]]
  BY DEF InsertTemp, new
<1>4. temp' \in [NFTs -> RowType \union {NoRow}]
  BY <1>1, <1>3 DEF TablesTypeOK
<1>5. nextId' \in Nat \ {0}
  BY DEF InsertTemp, TablesTypeOK
<1>6. Rows' = Rows \union ns
  BY <1>2, <1>3 DEF Rows, HasRow
<1> QED BY <1>4, <1>5, <1>6 DEF InsertTemp

LEMMA ScannerKeepsVanish ==
    ASSUME VanishInv, ScannerWrites
    PROVE  VanishInv'
<1> USE DEF VanishInv
<1>1. /\ temp' \in [NFTs -> RowType \union {NoRow}]
      /\ nextId' \in Nat \ {0}
      /\ staged' \subseteq NFTs
      /\ \A n \in NFTs :
            /\ n \in staged' => n \in staged \/ temp'[n] # NoRow
            /\ HasRow(n) => temp'[n] # NoRow
  <2>1. CASE UNCHANGED <<temp, nextId, staged>>
    BY <2>1 DEF TypeOK, TablesTypeOK, HasRow
  <2>2. CASE \E ns \in SUBSET NFTs : InsertTemp(ns)
    <3>1. PICK ns \in SUBSET NFTs : InsertTemp(ns)
      BY <2>2
    <3>2. /\ temp' \in [NFTs -> RowType \union {NoRow}]
          /\ nextId' \in Nat \ {0}
          /\ Rows' = Rows \union ns
          /\ staged' = staged \union (ns \ Rows)
      BY <3>1, InsertFacts DEF TypeOK
    <3> QED BY <3>2 DEF TypeOK, TablesTypeOK, Rows, HasRow
  <2> QED BY <2>1, <2>2 DEF ScannerWrites
<1>2. TypeOK'
  BY <1>1 DEF ScannerWrites, TypeOK, TablesTypeOK
<1>3. NothingVanishes'
  BY <1>1 DEF ScannerWrites, NothingVanishes, HasRow
<1>4. BlacklistListed' /\ FreshListed' /\ BatchAccounted'
  BY DEF ScannerWrites, BlacklistListed, FreshListed, BatchAccounted, TicketAccounted,
         Excused
<1> QED BY <1>2, <1>3, <1>4

LEMMA ScannerKeepsStaged ==
    ASSUME TypeOK, WorkersStaged, ScannerWrites
    PROVE  WorkersStaged' /\ staged \subseteq staged'
<1>1. Rows' \subseteq staged' /\ staged \subseteq staged'
  <2>1. CASE UNCHANGED <<temp, nextId, staged>>
    BY <2>1 DEF WorkersStaged, TablesStaged, Rows, HasRow
  <2>2. CASE \E ns \in SUBSET NFTs : InsertTemp(ns)
    <3>1. PICK ns \in SUBSET NFTs : InsertTemp(ns)
      BY <2>2
    <3>2. Rows' = Rows \union ns /\ staged' = staged \union (ns \ Rows)
      BY <3>1, InsertFacts DEF TypeOK
    <3> QED BY <3>2 DEF WorkersStaged, TablesStaged
  <2> QED BY <2>1, <2>2 DEF ScannerWrites
<1> QED BY <1>1 DEF ScannerWrites, WorkersStaged, TablesStaged, BatchesStaged

----------------------------------------------------------------------------
(***************************************************************************)
(* CheckpointCoversScan.  The popped range and the window follow each      *)
(* other downwards without a gap, from the block below the checkpoint to   *)
(* the block above the next one to be enqueued; and what the popped range  *)
(* was answered is staged or blacklisted before the checkpoint moves.      *)
(***************************************************************************)
Popped == scanPc \in {"await", "save"}

\* The block where the window begins.
WindowTop == IF Popped THEN batch.from - 1 ELSE ResumeBlock

NoGap ==
    /\ Popped => batch.to = ResumeBlock
    /\ scanPc # "down" =>
          /\ window # <<>> => window[1].to = WindowTop
          /\ \A i \in 1..Len(window) - 1 : window[i + 1].to = window[i].from - 1
          /\ curBlock = IF window = <<>> THEN WindowTop ELSE window[Len(window)].from - 1

KnownStaged == seen \subseteq staged /\ banList \subseteq listed

BatchStaged ==
    scanPc = "save" =>
        \A t \in Answered(batch) : t.nft \in staged \/ ContractOf[t.nft] \in listed

ScanInv ==
    /\ ScannerTypeOK
    /\ NoGap
    /\ KnownStaged
    /\ BatchStaged
    /\ CheckpointCoversScan

CollectorInv == VanishInv /\ WorkersStaged /\ ScanInv

(* Every step of the scanner writes as ScannerWrites says.                 *)
LEMMA ScanWrites ==
    ASSUME ScannerTypeOK, ScanNext, UNCHANGED fetchVars
    PROVE  ScannerWrites
<1> USE DEF ScannerWrites, ScannerTypeOK, TablesTypeOK
<1>1. ASSUME UNCHANGED tableVars PROVE ScannerWrites
  BY <1>1
<1>2. CASE StageBatch
  <2>1. Candidates \in SUBSET NFTs
    BY TransfersType DEF Candidates, Answered, TransfersIn
  <2> QED BY <1>2, <2>1 DEF StageBatch
<1>3. CASE SaveProgress
  BY <1>3 DEF SaveProgress, RangeType
<1>4. CASE ScanStart \/ BatchDone \/ PopBatch \/ ScanExit \/ RequestScanStop \/ ScanCrash
  BY <1>1, <1>4 DEF ScanStart, BatchDone, PopBatch, ScanExit, RequestScanStop, ScanCrash
<1>5. ASSUME NEW i \in 1..ScanWindow, TaskDone(i) PROVE ScannerWrites
  BY <1>1, <1>5 DEF TaskDone
<1> QED BY <1>2, <1>3, <1>4, <1>5 DEF ScanNext

----------------------------------------------------------------------------
(* The ranges of the first window: each ends just below the one before.    *)
LEMMA FirstWindowFacts ==
    ASSUME NEW b \in Int, b >= StopBlock
    PROVE  /\ FirstWindow(b) \in Seq(RangeType)
           /\ Len(FirstWindow(b)) \in 1..ScanWindow
           /\ FirstWindow(b)[1].to = b
           /\ \A i \in 1..Len(FirstWindow(b)) - 1 :
                FirstWindow(b)[i + 1].to = FirstWindow(b)[i].from - 1
<1> DEFINE n == MinOf(ScanWindow, RangesLeft(b))
<1> USE BlocksAssumption, WindowAssumption
<1>1. n \in Nat /\ n \in 1..ScanWindow /\ n - 1 <= (b - StopBlock) \div BlockBatchSize
  BY DEF MinOf, RangesLeft
<1>2. \A i \in Int : RangeAt(b - (i - 1) * BlockBatchSize) \in RangeType
  BY DEF RangeAt, RangeType, MaxOf
<1>3. \A i \in 1..n - 1 : i * BlockBatchSize <= b - StopBlock
  <2>1. ASSUME NEW i \in Nat, i <= (b - StopBlock) \div BlockBatchSize
        PROVE  i * BlockBatchSize <= b - StopBlock
    BY <2>1, SMTT(30)
  <2> QED BY <1>1, <2>1
<1>4. \A i \in 1..n - 1 :
        RangeAt(b - i * BlockBatchSize).to
          = RangeAt(b - (i - 1) * BlockBatchSize).from - 1
  <2>1. ASSUME NEW i \in 1..n - 1
        PROVE  b - (i - 1) * BlockBatchSize - BlockBatchSize = b - i * BlockBatchSize
    BY <1>1
  <2> QED BY <1>1, <1>3, <2>1 DEF RangeAt, MaxOf
<1>5. FirstWindow(b) = [i \in 1..n |-> RangeAt(b - (i - 1) * BlockBatchSize)]
  BY DEF FirstWindow
<1> HIDE DEF n
<1>6. FirstWindow(b) \in Seq(RangeType) /\ Len(FirstWindow(b)) = n
  <2>1. ASSUME NEW f \in [1..n -> RangeType] PROVE f \in Seq(RangeType) /\ Len(f) = n
    BY <1>1
  <2>2. FirstWindow(b) \in [1..n -> RangeType]
    <3>1. \A i \in 1..n : RangeAt(b - (i - 1) * BlockBatchSize) \in RangeType
      BY <1>1, <1>2
    <3> QED BY <1>5, <3>1, Zenon
  <2> QED BY <2>1, <2>2
<1>7. FirstWindow(b)[1].to = b
  BY <1>1, <1>5 DEF RangeAt
<1>8. \A i \in 1..n - 1 : /\ FirstWindow(b)[i] = RangeAt(b - (i - 1) * BlockBatchSize)
                          /\ FirstWindow(b)[i + 1] = RangeAt(b - i * BlockBatchSize)
  <2>1. ASSUME NEW i \in 1..n - 1 PROVE i \in 1..n /\ i + 1 \in 1..n /\ i + 1 - 1 = i
    BY <1>1
  <2> QED BY <1>5, <2>1
<1> QED BY <1>1, <1>4, <1>6, <1>7, <1>8

----------------------------------------------------------------------------
(***************************************************************************)
(* Every step of the scanner, and every step of the workers, preserves     *)
(* ScanInv.                                                                *)
(***************************************************************************)

(* The scan, with no window yet, is covered as far as the tables go.       *)
LEMMA DownScan ==
    ASSUME ScanInv, ScannerTypeOK', Vanish, UNCHANGED <<tableVars, missed>>
    PROVE  ScanInv'
<1> USE DEF ScanInv, Vanish
<1>1. NoGap'
  BY DEF NoGap, Popped
<1>2. KnownStaged' /\ BatchStaged'
  BY DEF KnownStaged, BatchStaged
<1>3. CheckpointCoversScan'
  BY DEF CheckpointCoversScan
<1> QED BY <1>1, <1>2, <1>3

(* A request that ends leaves the ranges of the window as they are.        *)
LEMMA FinishedKeepsRanges ==
    ASSUME ScannerTypeOK, NEW i \in 1..ScanWindow, TaskDone(i)
    PROVE  /\ window' \in Seq(RangeType)
           /\ Len(window') = Len(window)
           /\ outages' \in Nat
           /\ \A j \in 1..Len(window) : /\ window'[j].from = window[j].from
                                        /\ window'[j].to = window[j].to
<1> USE DEF ScannerTypeOK
<1>1. PICK ok \in SUBSET Topics :
        /\ i \in 1..Len(window)
        /\ Finished(window[i], ok)
        /\ window' = [window EXCEPT ![i].done = TRUE, ![i].ok = ok]
  BY DEF TaskDone
<1> DEFINE new == [window[i] EXCEPT !.done = TRUE, !.ok = ok]
<1>2. window[i] \in RangeType
  BY <1>1
<1>3. new \in RangeType /\ new.from = window[i].from /\ new.to = window[i].to
  BY <1>2 DEF RangeType
<1>4. window' = [window EXCEPT ![i] = new]
  BY <1>1
<1>5. outages' \in Nat
  BY <1>1 DEF Finished
<1> HIDE DEF new
<1>6. /\ window' \in Seq(RangeType)
      /\ Len(window') = Len(window)
      /\ \A j \in 1..Len(window) : window'[j] = IF j = i THEN new ELSE window[j]
  <2>1. window \in Seq(RangeType) /\ i \in 1..Len(window) /\ new \in RangeType
    BY <1>1, <1>3
  <2> QED BY <1>4, <2>1, ExceptSeq
<1> QED BY <1>3, <1>5, <1>6

LEMMA StartKeepsScan ==
    ASSUME TypeOK, TablesStaged, BlacklistListed, ScanInv, ScanStart
    PROVE  ScanInv'
<1> DEFINE first == FirstWindow(ResumeBlock)
<1> USE DEF ScanStart, ScanInv
<1>1. ResumeBlock \in Int /\ ResumeBlock >= StopBlock
  BY BlocksAssumption DEF ResumeBlock, TypeOK, TablesTypeOK
<1>2. /\ first \in Seq(RangeType)
      /\ Len(first) \in 1..ScanWindow
      /\ first[1].to = ResumeBlock
      /\ \A i \in 1..Len(first) - 1 : first[i + 1].to = first[i].from - 1
  BY <1>1, FirstWindowFacts
<1>3. window' = first /\ curBlock' = first[Len(first)].from - 1 /\ ResumeBlock' = ResumeBlock
  BY DEF ResumeBlock
<1> HIDE DEF first
<1>4. ScannerTypeOK'
  <2>1. first[Len(first)] \in RangeType /\ Len(first) <= ScanWindow
    BY <1>2, WindowAssumption
  <2>2. curBlock' \in Int
    BY <1>3, <2>1 DEF RangeType
  <2>3. seen' \subseteq NFTs /\ banList' \subseteq Contracts
    BY DEF TypeOK, TablesTypeOK, Rows
  <2>4. window' \in Seq(RangeType) /\ Len(window') <= ScanWindow
    BY <1>2, <1>3, <2>1
  <2> QED BY <2>2, <2>3, <2>4 DEF ScannerTypeOK, TablesTypeOK
<1>5. NoGap'
  BY <1>2, <1>3 DEF NoGap, Popped, WindowTop
<1>6. KnownStaged'
  BY DEF KnownStaged, TablesStaged, BlacklistListed
<1>7. BatchStaged' /\ CheckpointCoversScan'
  BY DEF BatchStaged, CheckpointCoversScan
<1> QED BY <1>4, <1>5, <1>6, <1>7

LEMMA TaskDoneKeepsScan ==
    ASSUME ScanInv, NEW i \in 1..ScanWindow, TaskDone(i)
    PROVE  ScanInv'
<1> USE DEF TaskDone, ScanInv
<1>1. /\ window' \in Seq(RangeType)
      /\ Len(window') = Len(window)
      /\ outages' \in Nat
      /\ \A j \in 1..Len(window) : /\ window'[j].from = window[j].from
                                   /\ window'[j].to = window[j].to
  BY FinishedKeepsRanges
<1>2. Len(window) \in Nat /\ (window' = <<>> <=> window = <<>>)
  BY <1>1 DEF ScannerTypeOK
<1>3. ScannerTypeOK'
  BY <1>1, <1>2 DEF ScannerTypeOK, TablesTypeOK
<1>4. NoGap'
  <2>1. WindowTop' = WindowTop /\ ResumeBlock' = ResumeBlock /\ Popped' = Popped
    BY DEF WindowTop, ResumeBlock, Popped
  <2> QED BY <1>1, <1>2, <2>1 DEF NoGap, ScannerTypeOK
<1>5. KnownStaged' /\ CheckpointCoversScan'
  BY DEF KnownStaged, CheckpointCoversScan
<1>6. BatchStaged'
  BY DEF BatchStaged, Answered, TransfersIn
<1> QED BY <1>3, <1>4, <1>5, <1>6

LEMMA BatchDoneKeepsScan ==
    ASSUME ScanInv, BatchDone
    PROVE  ScanInv'
<1> USE DEF BatchDone, ScanInv
<1>1. PICK ok \in SUBSET Topics :
        /\ Finished(batch, ok)
        /\ batch' = [batch EXCEPT !.done = TRUE, !.ok = ok]
  BY DEF BatchDone
<1>2. batch' \in RangeType /\ batch'.from = batch.from /\ batch'.to = batch.to
  BY <1>1 DEF ScannerTypeOK, RangeType
<1>3. ScannerTypeOK'
  BY <1>1, <1>2 DEF ScannerTypeOK, TablesTypeOK, Finished
<1>4. NoGap'
  <2>1. WindowTop' = WindowTop /\ ResumeBlock' = ResumeBlock /\ Popped' = Popped
    BY <1>2 DEF WindowTop, ResumeBlock, Popped
  <2> QED BY <1>2, <2>1 DEF NoGap
<1>5. KnownStaged' /\ CheckpointCoversScan' /\ BatchStaged'
  BY DEF KnownStaged, CheckpointCoversScan, BatchStaged
<1> QED BY <1>3, <1>4, <1>5

(* The window slides: its head is popped, and the next range follows its   *)
(* last one.                                                               *)
LEMMA PopKeepsScan ==
    ASSUME ScanInv, PopBatch
    PROVE  ScanInv'
<1> DEFINE rest == Tail(window)
           top == window[1].from - 1
<1> USE DEF PopBatch, ScanInv
<1>1. window \in Seq(RangeType) /\ window # <<>> /\ curBlock \in Int
  BY DEF ScannerTypeOK
<1>2. window[1] \in RangeType /\ batch' = window[1] /\ top \in Int
  <2>1. Head(window) = window[1] /\ window[1] \in RangeType
    BY <1>1
  <2> QED BY <2>1 DEF RangeType
<1>3. /\ rest \in Seq(RangeType)
      /\ Len(rest) = Len(window) - 1
      /\ \A i \in 1..Len(rest) : rest[i] = window[i + 1]
  BY <1>1, HeadTailProperties
<1>4. Len(rest) \in Nat /\ (rest = <<>> <=> Len(rest) = 0)
  BY <1>3, EmptySeq, LenProperties
<1>5. /\ window[1].to = ResumeBlock
      /\ \A i \in 1..Len(window) - 1 : window[i + 1].to = window[i].from - 1
      /\ curBlock = window[Len(window)].from - 1
  BY <1>1 DEF NoGap, Popped, WindowTop
<1>6. /\ rest # <<>> => rest[1].to = top
      /\ \A i \in 1..Len(rest) - 1 : rest[i + 1].to = rest[i].from - 1
      /\ curBlock = IF rest = <<>> THEN top ELSE rest[Len(rest)].from - 1
  <2> HIDE DEF rest
  <2>1. rest # <<>> => rest[1].to = top
    BY <1>3, <1>4, <1>5
  <2>2. \A i \in 1..Len(rest) - 1 : rest[i + 1].to = rest[i].from - 1
    BY <1>3, <1>4, <1>5
  <2>3. curBlock = IF rest = <<>> THEN top ELSE rest[Len(rest)].from - 1
    BY <1>3, <1>4, <1>5
  <2> QED BY <2>1, <2>2, <2>3
<1>7. batch'.to = ResumeBlock' /\ WindowTop' = top /\ Popped'
  BY <1>1, <1>2 DEF NoGap, Popped, WindowTop, ResumeBlock
<1> HIDE DEF rest, top
<1>8. CASE ~scanStop /\ curBlock >= StopBlock
  <2> DEFINE next == RangeAt(curBlock)
  <2>1. next \in RangeType /\ next.to = curBlock
    BY <1>1, BlocksAssumption, WindowAssumption DEF RangeAt, RangeType, MaxOf
  <2>2. window' = Append(rest, next) /\ curBlock' = next.from - 1
    BY <1>8 DEF rest
  <2> HIDE DEF next
  <2>3. /\ window' \in Seq(RangeType)
        /\ Len(window') = Len(rest) + 1
        /\ window'[Len(rest) + 1] = next
        /\ \A i \in 1..Len(rest) : window'[i] = rest[i]
    BY <1>3, <2>1, <2>2, AppendProperties
  <2>4. ScannerTypeOK'
    BY <1>2, <1>3, <2>1, <2>2, <2>3 DEF ScannerTypeOK, TablesTypeOK, RangeType
  <2>5. NoGap'
    <3>1. window' # <<>> /\ curBlock' = window'[Len(window')].from - 1
      BY <1>3, <2>2, <2>3
    <3>2. window'[1].to = top
      BY <1>3, <1>6, <2>1, <2>3
    <3>3. \A i \in 1..Len(window') - 1 : window'[i + 1].to = window'[i].from - 1
      <4> SUFFICES ASSUME NEW i \in 1..Len(rest)
                   PROVE  window'[i + 1].to = window'[i].from - 1
        BY <1>3, <2>3
      <4>1. CASE i = Len(rest)
        BY <4>1, <1>3, <1>6, <2>1, <2>3
      <4>2. CASE i # Len(rest)
        <5>1. i \in 1..Len(rest) - 1 /\ i + 1 \in 1..Len(rest)
          BY <4>2, <1>4
        <5> QED BY <5>1, <1>6, <2>3
      <4> QED BY <4>1, <4>2
    <3> QED BY <1>7, <3>1, <3>2, <3>3 DEF NoGap
  <2> QED BY <2>4, <2>5 DEF KnownStaged, BatchStaged, CheckpointCoversScan
<1>9. CASE ~(~scanStop /\ curBlock >= StopBlock)
  <2>1. window' = rest /\ curBlock' = curBlock
    BY <1>9 DEF rest
  <2>2. ScannerTypeOK'
    BY <1>2, <1>3, <2>1, WindowAssumption DEF ScannerTypeOK, TablesTypeOK
  <2>3. NoGap'
    BY <1>6, <1>7, <2>1 DEF NoGap
  <2> QED BY <2>2, <2>3 DEF KnownStaged, BatchStaged, CheckpointCoversScan
<1> QED BY <1>8, <1>9

(* What the awaited range was answered is staged, or was already known.    *)
LEMMA StageKeepsScan ==
    ASSUME TypeOK, TablesStaged, ScanInv, StageBatch
    PROVE  ScanInv'
<1> USE DEF StageBatch, ScanInv
<1>1. Candidates \in SUBSET NFTs
  BY TransfersType DEF Candidates, Answered, TransfersIn
<1>2. /\ temp' \in [NFTs -> RowType \union {NoRow}]
      /\ nextId' \in Nat \ {0}
      /\ staged' = staged \union (Candidates \ Rows)
  BY <1>1, InsertFacts DEF TypeOK
<1>3. Candidates \subseteq staged' /\ staged \subseteq staged'
  BY <1>2 DEF TablesStaged
<1>4. ScannerTypeOK'
  BY <1>1, <1>2 DEF ScannerTypeOK, TablesTypeOK
<1>5. NoGap'
  BY DEF NoGap, Popped, WindowTop, ResumeBlock
<1>6. KnownStaged'
  BY <1>3 DEF KnownStaged
<1>7. BatchStaged'
  <2> SUFFICES ASSUME NEW t \in Answered(batch)
               PROVE  t.nft \in staged' \/ ContractOf[t.nft] \in listed
    BY DEF BatchStaged, Answered, TransfersIn
  <2>1. t.nft \in NFTs
    BY TransfersType DEF Answered, TransfersIn
  <2> QED BY <1>3, <2>1 DEF Candidates, KnownStaged, OfContracts
<1>8. CheckpointCoversScan'
  BY <1>3 DEF CheckpointCoversScan
<1> QED BY <1>4, <1>5, <1>6, <1>7, <1>8

(* The checkpoint moves down by the popped range, which has no gap to it.  *)
LEMMA SaveKeepsScan ==
    ASSUME ScanInv, SaveProgress
    PROVE  ScanInv'
<1> USE DEF SaveProgress, ScanInv
<1>1. /\ batch \in RangeType
      /\ batch.to = ResumeBlock
      /\ checkpoint' = batch.from
      /\ batch.from \in Int /\ batch.to \in Int
  BY DEF NoGap, Popped, ScannerTypeOK, RangeType
<1>2. ScannerTypeOK'
  <2>1. NoRange \in RangeType
    BY DEF NoRange, RangeType
  <2>2. missed' \subseteq Transfers
    BY DEF ScannerTypeOK, TransfersIn
  <2> QED BY <1>1, <2>1, <2>2 DEF ScannerTypeOK, TablesTypeOK
<1>3. NoGap'
  <2>1. ResumeBlock' = batch.from - 1 /\ ~Popped'
    BY <1>1, NoBlockAssumption DEF ResumeBlock, Popped
  <2>2. WindowTop' = WindowTop
    BY <2>1 DEF WindowTop, Popped
  <2> QED BY <2>1, <2>2 DEF NoGap
<1>4. KnownStaged' /\ BatchStaged'
  BY DEF KnownStaged, BatchStaged
<1>5. CheckpointCoversScan'
  <2> SUFFICES ASSUME NEW t \in Transfers, t.block >= batch.from
               PROVE  \/ t.nft \in staged
                      \/ ContractOf[t.nft] \in listed
                      \/ t \in missed'
    BY <1>1 DEF CheckpointCoversScan
  <2>1. t.block \in StopBlock..TopBlock /\ t.block \in Int
    BY TransfersType, BlocksAssumption
  <2>2. CASE t.block <= ResumeBlock
    <3>1. t \in TransfersIn(batch)
      BY <1>1, <2>1, <2>2 DEF TransfersIn
    <3> QED BY <3>1 DEF BatchStaged
  <2>3. CASE t.block > ResumeBlock
    <3>1. checkpoint # NoBlock /\ t.block >= checkpoint
      BY <2>1, <2>3, BlocksAssumption DEF ResumeBlock, ScannerTypeOK, TablesTypeOK
    <3> QED BY <3>1 DEF CheckpointCoversScan
  <2> QED BY <1>1, <2>1, <2>2, <2>3
<1> QED BY <1>2, <1>3, <1>4, <1>5

LEMMA ScannerKeepsScan ==
    ASSUME TypeOK, TablesStaged, BlacklistListed, ScanInv, ScanNext
    PROVE  ScanInv'
<1>1. CASE ScanStart
  BY <1>1, StartKeepsScan
<1>2. ASSUME NEW i \in 1..ScanWindow, TaskDone(i) PROVE ScanInv'
  BY <1>2, TaskDoneKeepsScan
<1>3. CASE BatchDone
  BY <1>3, BatchDoneKeepsScan
<1>4. CASE PopBatch
  BY <1>4, PopKeepsScan
<1>5. CASE StageBatch
  BY <1>5, StageKeepsScan
<1>6. CASE SaveProgress
  BY <1>6, SaveKeepsScan
<1>7. CASE ScanExit \/ ScanCrash
  <2>1. Vanish /\ UNCHANGED <<tableVars, missed>> /\ outages' = outages /\ crashes' \in Nat
    BY <1>7 DEF ScanExit, ScanCrash, ScanInv, ScannerTypeOK
  <2>2. ScannerTypeOK'
    <3>1. NoRange \in RangeType
      BY DEF NoRange, RangeType
    <3>2. window' \in Seq(RangeType) /\ Len(window') <= ScanWindow
      BY <2>1, WindowAssumption, EmptySeq DEF Vanish
    <3>3. TablesTypeOK' /\ seen' \subseteq NFTs /\ banList' \subseteq Contracts
      BY <2>1 DEF Vanish, ScanInv, ScannerTypeOK, TablesTypeOK
    <3>4. outages' \in Nat /\ missed' \subseteq Transfers
      BY <2>1 DEF ScanInv, ScannerTypeOK
    <3>5. scanPc' \in {"down", "next", "await", "save"} /\ curBlock' \in Int
      BY <2>1 DEF Vanish
    <3>6. /\ window' = <<>> /\ batch' = NoRange
          /\ scanStop' = FALSE /\ scanStop' \in BOOLEAN
      BY <2>1, Zenon DEF Vanish
    <3> QED BY <2>1, <3>1, <3>2, <3>3, <3>4, <3>5, <3>6, Zenon DEF ScannerTypeOK
  <2> QED BY <2>1, <2>2, DownScan
<1>8. CASE RequestScanStop
  BY <1>8 DEF RequestScanStop, ScanInv, ScannerTypeOK, TablesTypeOK, NoGap, Popped,
              WindowTop, ResumeBlock, KnownStaged, BatchStaged, Answered, TransfersIn,
              CheckpointCoversScan
<1> QED BY <1>1, <1>2, <1>3, <1>4, <1>5, <1>6, <1>7, <1>8 DEF ScanNext

(* The workers leave the scanner's variables and the checkpoint alone.     *)
LEMMA WorkersKeepScan ==
    ASSUME TypeOK, TypeOK', ScanInv, FetchNext, UNCHANGED scanVars
    PROVE  ScanInv'
<1>1. UNCHANGED <<staged, checkpoint>> /\ listed \subseteq listed'
  BY WorkersKeepTables
<1> USE <1>1 DEF ScanInv
<1>2. ScannerTypeOK'
  BY DEF ScannerTypeOK, TypeOK
<1>3. NoGap'
  BY DEF NoGap, Popped, WindowTop, ResumeBlock
<1>4. KnownStaged' /\ BatchStaged'
  BY DEF KnownStaged, BatchStaged, Answered, TransfersIn
<1>5. CheckpointCoversScan'
  BY DEF CheckpointCoversScan
<1> QED BY <1>2, <1>3, <1>4, <1>5

----------------------------------------------------------------------------
(***************************************************************************)
(* The collector.                                                          *)
(***************************************************************************)
LEMMA CollectorStart == CollectorInit => CollectorInv
<1> SUFFICES ASSUME CollectorInit PROVE CollectorInv
  OBVIOUS
<1> USE DEF CollectorInit
<1>1. VanishInv
  BY VanishInit DEF Init
<1>2. WorkersStaged
  BY DEF TablesInit, FetchInit, WorkersStaged, TablesStaged, BatchesStaged, Rows, HasRow
<1>3. ScanInv
  <2>1. NoRange \in RangeType
    BY DEF NoRange, RangeType
  <2>2. window \in Seq(RangeType) /\ Len(window) <= ScanWindow
    BY WindowAssumption, EmptySeq DEF ScanInit
  <2>3. TablesTypeOK /\ batch \in RangeType /\ curBlock \in Int /\ outages \in Nat
        /\ crashes \in Nat
    BY <1>1, <2>1 DEF ScanInit, VanishInv, TypeOK
  <2>4. scanPc \in {"down", "next", "await", "save"} /\ scanStop \in BOOLEAN
    BY DEF ScanInit
  <2>5. ScannerTypeOK
    BY <2>2, <2>3, <2>4, Zenon DEF ScanInit, ScannerTypeOK
  <2>6. NoGap /\ KnownStaged /\ BatchStaged
    BY DEF ScanInit, NoGap, Popped, KnownStaged, BatchStaged
  <2>7. CheckpointCoversScan
    BY DEF TablesInit, CheckpointCoversScan
  <2> QED BY <2>5, <2>6, <2>7 DEF ScanInv
<1> QED BY <1>1, <1>2, <1>3 DEF CollectorInv

LEMMA CollectorStep == CollectorInv /\ [CollectorNext]_collectorVars => CollectorInv'
<1> SUFFICES ASSUME CollectorInv, [CollectorNext]_collectorVars PROVE CollectorInv'
  OBVIOUS
<1> USE DEF CollectorInv
<1>1. CASE ScanNext /\ UNCHANGED fetchVars
  <2>1. ScannerWrites
    BY <1>1, ScanWrites DEF ScanInv
  <2>2. VanishInv'
    BY <2>1, ScannerKeepsVanish
  <2>3. WorkersStaged'
    BY <2>1, ScannerKeepsStaged DEF VanishInv
  <2>4. ScanInv'
    BY <1>1, ScannerKeepsScan DEF VanishInv, WorkersStaged
  <2> QED BY <2>2, <2>3, <2>4
<1>2. CASE FetchNext /\ UNCHANGED scanVars
  <2>1. VanishInv'
    BY <1>2, VanishStep DEF Next
  <2>2. WorkersStaged'
    BY <1>2, WorkersStagedStep DEF VanishInv
  <2>3. ScanInv'
    BY <1>2, <2>1, WorkersKeepScan DEF VanishInv
  <2> QED BY <2>1, <2>2, <2>3
<1>3. CASE UNCHANGED collectorVars
  <2>1. VanishInv'
    BY <1>3, VanishStep
  <2>2. WorkersStaged'
    BY <1>3 DEF WorkersStaged, TablesStaged, BatchesStaged, Rows, HasRow
  <2>3. ScanInv'
    BY <1>3 DEF ScanInv, ScannerTypeOK, TablesTypeOK, NoGap, Popped, WindowTop,
                ResumeBlock, KnownStaged, BatchStaged, Answered, TransfersIn,
                CheckpointCoversScan
  <2> QED BY <2>1, <2>2, <2>3
<1> QED BY <1>1, <1>2, <1>3 DEF CollectorNext

LEMMA CollectorInvariant == CollectorSpec => []CollectorInv
BY CollectorStart, CollectorStep, PTL DEF CollectorSpec

(* The scanner's variables, the tables' and the window's bound keep their  *)
(* types in the deployed system.                                           *)
THEOREM ScannerTypes == CollectorSpec => []ScannerTypeOK
<1>1. CollectorInv => ScannerTypeOK
  BY DEF CollectorInv, ScanInv
<1> QED BY <1>1, CollectorInvariant, PTL

(* The checkpoint never passes a transfer that was not staged, for any     *)
(* chain, batch size, window and order of answers, whoever crashes.        *)
THEOREM ScanIsCovered == CollectorSpec => []CheckpointCoversScan
<1>1. CollectorInv => CheckpointCoversScan
  BY DEF CollectorInv, ScanInv
<1> QED BY <1>1, CollectorInvariant, PTL

(* No row the workers were given disappears, also with the real scanner    *)
(* inserting rows while they work.                                         *)
THEOREM NothingIsLostDeployed == CollectorSpec => []NothingVanishes
<1>1. CollectorInv => NothingVanishes
  BY DEF CollectorInv, VanishInv
<1> QED BY <1>1, CollectorInvariant, PTL

(* From the chain to the asset table: what the checkpoint has passed is    *)
(* staged, an asset, or left out for a documented reason.                  *)
THEOREM TransfersAreAccounted == CollectorSpec => []EveryTransferAccounted
<1>1. CollectorInv => EveryTransferAccounted
  <2>1. CheckpointCoversScan /\ NothingVanishes => EveryTransferAccounted
    BY DEF CheckpointCoversScan, NothingVanishes, EveryTransferAccounted
  <2> QED BY <2>1 DEF CollectorInv, ScanInv, VanishInv
<1> QED BY <1>1, CollectorInvariant, PTL

(* The same two in the deployed system: the scanner writes neither main    *)
(* nor the .env line.                                                      *)
LEMMA CollectorHonours == CollectorSpec => []HonourInv
<1>1. CollectorInit => HonourInv
  BY HonourInit DEF CollectorInit, Init
<1>2. CollectorInv /\ HonourInv /\ [CollectorNext]_collectorVars => HonourInv'
  <2> SUFFICES ASSUME CollectorInv, HonourInv, [CollectorNext]_collectorVars
               PROVE  HonourInv'
    OBVIOUS
  <2>1. CASE FetchNext
    BY <2>1, HonourStep DEF CollectorInv
  <2>2. CASE (ScanNext /\ UNCHANGED fetchVars) \/ UNCHANGED collectorVars
    <3>1. UNCHANGED <<main, env, listed>>
      BY <2>2, ScanWrites DEF CollectorInv, ScanInv, ScannerWrites
    <3> QED BY <2>2, <3>1, HonourSame
  <2> QED BY <2>1, <2>2 DEF CollectorNext
<1> QED BY <1>1, <1>2, CollectorInvariant, PTL DEF CollectorSpec

(* With the real scanner staging rows, any number of workers, and errors   *)
(* and kills of every program: the blacklist is escaped only by the races  *)
(* that OnlyRacesEscapeBlacklist names.                                    *)
THEOREM BlacklistIsHonouredDeployed == CollectorSpec => []OnlyRacesEscapeBlacklist
<1> QED BY CollectorHonours, HonourHolds, PTL
=============================================================================
