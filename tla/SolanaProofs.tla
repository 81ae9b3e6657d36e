---------------------------- MODULE SolanaProofs ----------------------------
(***************************************************************************)
(* Proofs about SolanaCollector, for any mints, pages, workers, slots and  *)
(* number of faults: what the scanner saves as scanned it has staged, and  *)
(* what it staged reaches the asset table.                                 *)
(***************************************************************************)
EXTENDS SolanaCollector, TLAPS

-----------------------------------------------------------------------------
(* The scanner.                                                            *)

ScanTypes ==
    /\ slot \in Nat /\ changed \in [Mints -> Nat] /\ seenAt \in [Mints -> Nat]
    /\ \A m \in Mints : seenAt[m] <= changed[m] /\ changed[m] <= slot
    /\ cursor \in 1..LastPage /\ since \in Nat
    /\ scanPc \in {"down", "slot", "await", "insert", "save"}
    /\ runSince \in Nat /\ latest \in Nat
    /\ passBegan \in Nat /\ savedBegan \in Nat /\ savedBegan <= slot
    /\ waived \subseteq Nat /\ gaps \subseteq Nat

ScanPage == [key : Nat, done : BOOLEAN, found : SUBSET [mint : Mints, at : Nat]]

PageTypes == task \in ScanPage /\ page \in ScanPage

\* The scanner has read the slot of its run.
Passing == scanPc \in {"await", "insert", "save"}

\* Where the scanner is in the listing.
PageOrder ==
    /\ scanPc = "slot" => task.key \in {1, cursor} /\ ~task.done /\ task.found = {}
    /\ scanPc = "await" => task.key \in 1..LastPage
    /\ scanPc \in {"insert", "save"} =>
          /\ page.key \in 1..LastPage
          /\ task.key = IF page.key < LastPage THEN page.key + 1 ELSE 0

\* The first page whose accounts this pass has not staged.
Frontier == CASE scanPc = "await" -> task.key
              [] scanPc = "insert" -> page.key
              [] OTHER -> page.key + 1

\* The account is staged as it is, if it changed in 1..n.
SeenTo(m, n) ==
    changed[m] \in 1..n => seenAt[m] = changed[m] \/ changed[m] \in waived \union gaps

\* Slots the operator chose to skip in this run count as waived.
RunSince ==
    scanPc # "down" => \A n \in since + 1..runSince : n \in waived

\* Up to since, a slot lies before the saved pass or is excused.
SinceKnown == \A n \in 1..since : n <= savedBegan \/ n \in waived \union gaps

PassBegan == Passing => savedBegan <= passBegan /\ passBegan <= slot

SavedSeen == \A m \in Mints : SeenTo(m, since)

\* The pages before the cursor, up to the slot at which their pass began.
CursorSeen == \A m \in Mints : PageOf[m] < cursor => SeenTo(m, savedBegan)

PassSeen == Passing => \A m \in Mints : PageOf[m] < Frontier => SeenTo(m, passBegan)

\* An answered page has the accounts as they were when it was answered,
\* which was after the pass began.
Holds(found, key) ==
    /\ \A m \in Mints :
          PageOf[m] = key =>
              \/ changed[m] > passBegan \/ changed[m] <= runSince
              \/ \E f \in found : f.mint = m /\ f.at = changed[m]
    /\ \A f \in found :
          /\ PageOf[f.mint] = key
          /\ f.at <= changed[f.mint]
          /\ f.at = changed[f.mint] \/ changed[f.mint] > passBegan
    /\ \A f, g \in found : f.mint = g.mint => f.at = g.at

TaskHolds == Passing /\ task.done => Holds(task.found, task.key)

PageHolds == scanPc = "insert" => Holds(page.found, page.key)

ScanInv ==
    /\ ScanTypes /\ PageTypes /\ PageOrder
    /\ RunSince /\ SinceKnown /\ PassBegan
    /\ SavedSeen /\ CursorSeen /\ PassSeen
    /\ TaskHolds /\ PageHolds

ScanSide == <<slot, changed, cursor, since, scanPc, runSince, latest, task, page, seenAt,
              passBegan, savedBegan, gaps, waived>>

LEMMA ScanUnchanged == ASSUME ScanInv, UNCHANGED ScanSide PROVE ScanInv'
  BY DEF ScanSide, ScanInv, ScanTypes, ScanPage, PageTypes, Passing, PageOrder, Frontier, SeenTo,
         RunSince, SinceKnown, PassBegan, SavedSeen, CursorSeen, PassSeen, Holds, TaskHolds,
         PageHolds

LEMMA ScanStarts == ASSUME Init PROVE ScanInv
  <1>1. /\ slot = 1 /\ changed \in [Mints -> {0, 1}] /\ cursor = 1 /\ since = 0
        /\ scanPc = "down" /\ runSince = 0 /\ latest = 0
        /\ task = NoPage /\ page = NoPage
        /\ seenAt = [m \in Mints |-> 0]
        /\ passBegan = 0 /\ savedBegan = 0 /\ gaps = {} /\ waived = {}
    BY DEF Init, ScanInit
  <1>2. \A m \in Mints : PageOf[m] \in 1..LastPage
    BY PagesType
  <1>3. ScanTypes
    BY <1>1, PagesType DEF ScanTypes
  <1>4. PageTypes
    BY <1>1 DEF PageTypes, ScanPage, NoPage
  <1>5. SavedSeen /\ CursorSeen
    BY <1>1, <1>2, PagesType DEF SavedSeen, CursorSeen, SeenTo
  <1> QED
    BY <1>1, <1>3, <1>4, <1>5
       DEF ScanInv, Passing, PageOrder, RunSince, SinceKnown, PassBegan, PassSeen,
           TaskHolds, PageHolds

LEMMA TouchScans == ASSUME ScanInv, NEW m \in Mints, Touch(m) PROVE ScanInv'
  <1>1. /\ slot' = slot + 1 /\ changed' = [changed EXCEPT ![m] = slot + 1]
        /\ UNCHANGED <<cursor, since, scanPc, runSince, latest, task, page, seenAt,
                       passBegan, savedBegan, gaps, waived>>
    BY DEF Touch, scanVars
  <1>2. ScanTypes
    BY DEF ScanInv
  <1>3. /\ \A x \in Mints : x # m => changed'[x] = changed[x]
        /\ changed'[m] = slot + 1
        /\ changed' \in [Mints -> Nat]
    BY <1>1, <1>2 DEF ScanTypes
  <1>4. ScanTypes'
    BY <1>1, <1>2, <1>3 DEF ScanTypes
  <1>5. PageTypes' /\ PageOrder' /\ RunSince' /\ SinceKnown' /\ PassBegan'
    BY <1>1, <1>2 DEF ScanInv, PageTypes, PageOrder, RunSince, SinceKnown, PassBegan, Passing,
                      ScanTypes
  <1>6. SavedSeen'
    <2> SUFFICES ASSUME NEW x \in Mints PROVE SeenTo(x, since)'
      BY DEF SavedSeen
    <2>1. CASE x # m
      BY <1>1, <1>3, <2>1 DEF ScanInv, SavedSeen, SeenTo
    <2>2. CASE x = m
      BY <1>1, <1>2, <1>3, <2>2 DEF ScanInv, ScanTypes, SinceKnown, SeenTo
    <2> QED
      BY <2>1, <2>2
  <1>7. CursorSeen'
    <2> SUFFICES ASSUME NEW x \in Mints, PageOf[x] < cursor PROVE SeenTo(x, savedBegan)'
      BY <1>1 DEF CursorSeen
    <2>1. CASE x # m
      BY <1>1, <1>3, <2>1 DEF ScanInv, CursorSeen, SeenTo
    <2>2. CASE x = m
      BY <1>1, <1>2, <1>3, <2>2 DEF ScanInv, ScanTypes, SeenTo
    <2> QED
      BY <2>1, <2>2
  <1>8. PassSeen'
    <2> SUFFICES ASSUME Passing, NEW x \in Mints, PageOf[x] < Frontier
                 PROVE  SeenTo(x, passBegan)'
      BY <1>1 DEF PassSeen, Passing, Frontier
    <2>1. CASE x # m
      BY <1>1, <1>3, <2>1 DEF ScanInv, PassSeen, SeenTo
    <2>2. CASE x = m
      BY <1>1, <1>2, <1>3, <2>2 DEF ScanInv, ScanTypes, PassBegan, SeenTo
    <2> QED
      BY <2>1, <2>2
  <1>9. ASSUME NEW found \in SUBSET [mint : Mints, at : Nat], NEW key, Passing, Holds(found, key)
        PROVE  Holds(found, key)'
    <2>1. changed'[m] > passBegan /\ \A x \in Mints : changed[x] <= changed'[x]
      BY <1>1, <1>2, <1>3, <1>9 DEF ScanInv, ScanTypes, PassBegan
    <2>2. passBegan \in Nat /\ \A f \in found : f.mint \in Mints /\ f.at \in Nat
      BY <1>2 DEF ScanTypes
    <2>3. changed \in [Mints -> Nat] /\ changed' \in [Mints -> Nat]
      BY <1>2, <1>3 DEF ScanTypes
    <2> QED
      BY <1>1, <1>3, <1>9, <2>1, <2>2, <2>3 DEF Holds
  <1>10. TaskHolds' /\ PageHolds'
    <2>1. task.found \in SUBSET [mint : Mints, at : Nat]
          /\ page.found \in SUBSET [mint : Mints, at : Nat]
      BY DEF ScanInv, PageTypes, ScanPage
    <2>2. Passing /\ task.done => Holds(task.found, task.key)'
      BY <1>1, <1>9, <2>1 DEF ScanInv, TaskHolds
    <2>3. scanPc = "insert" => Holds(page.found, page.key)'
      BY <1>1, <1>9, <2>1 DEF ScanInv, PageHolds, Passing
    <2> QED
      BY <1>1, <2>2, <2>3 DEF TaskHolds, PageHolds, Passing, Holds
  <1> QED
    BY <1>4, <1>5, <1>6, <1>7, <1>8, <1>10 DEF ScanInv

LEMMA ScannerStarts == ASSUME ScanInv, ScanStart PROVE ScanInv'
  <1>1. PICK env \in SinceSettings :
          /\ runSince' = Resolved(env).since
          /\ task' = Request(Resolved(env).key)
          /\ waived' = waived \union (since + 1)..env
    BY DEF ScanStart
  <1>2. /\ scanPc' = "slot" /\ scanPc = "down"
        /\ UNCHANGED <<slot, changed, cursor, since, latest, page, seenAt,
                       passBegan, savedBegan, gaps>>
    BY DEF ScanStart, chainVars
  <1>3. ScanTypes /\ PageTypes
    BY DEF ScanInv
  <1>4. env \in Nat
    BY SolanaBounds
  <1>5. /\ Resolved(env).since \in {since, env} /\ Resolved(env).key \in {cursor, 1}
        /\ Resolved(env).since = since \/ Resolved(env).since = env
        /\ \A n \in since + 1..Resolved(env).since : n \in since + 1..env
    BY <1>3, <1>4 DEF Resolved, ScanTypes
  <1>6. ScanTypes'
    BY <1>1, <1>2, <1>3, <1>4, <1>5 DEF ScanTypes
  <1>7. PageTypes' /\ PageOrder'
    BY <1>1, <1>2, <1>3, <1>5 DEF PageTypes, PageOrder, ScanPage, ScanTypes, Request
  <1>8. RunSince'
    BY <1>1, <1>2, <1>5 DEF RunSince
  <1>9. SinceKnown' /\ SavedSeen' /\ CursorSeen'
    BY <1>1, <1>2 DEF ScanInv, SinceKnown, SavedSeen, CursorSeen, SeenTo
  <1> QED
    BY <1>2, <1>6, <1>7, <1>8, <1>9
       DEF ScanInv, PassBegan, PassSeen, TaskHolds, PageHolds, Passing

LEMMA SlotRead == ASSUME ScanInv, GetSlot PROVE ScanInv'
  <1>1. /\ scanPc = "slot" /\ scanPc' = "await"
        /\ latest' = slot \/ latest' = 0
        /\ passBegan' = IF task.key = 1 THEN slot ELSE savedBegan
        /\ UNCHANGED <<slot, changed, cursor, since, runSince, task, page, seenAt,
                       savedBegan, gaps, waived>>
    BY DEF GetSlot, chainVars
  <1>2. ScanTypes
    BY DEF ScanInv
  <1>3. task.key \in {1, cursor} /\ ~task.done
    BY <1>1 DEF ScanInv, PageOrder
  <1>4. passBegan' \in Nat /\ savedBegan <= passBegan' /\ passBegan' <= slot
    BY <1>1, <1>2 DEF ScanTypes
  <1>5. ScanTypes' /\ PageTypes' /\ PageOrder' /\ PassBegan' /\ RunSince'
    BY <1>1, <1>2, <1>3, <1>4, PagesType
       DEF ScanInv, ScanTypes, PageTypes, PageOrder, PassBegan, RunSince
  <1>6. SinceKnown' /\ SavedSeen' /\ CursorSeen'
    BY <1>1 DEF ScanInv, SinceKnown, SavedSeen, CursorSeen, SeenTo
  <1>7. PassSeen'
    <2> SUFFICES ASSUME NEW m \in Mints, PageOf[m] < task.key
                 PROVE  SeenTo(m, passBegan)'
      BY <1>1 DEF PassSeen, Frontier
    <2>1. PageOf[m] \in 1..LastPage
      BY PagesType
    <2>2. task.key # 1
      BY <2>1
    <2>3. passBegan' = savedBegan /\ task.key = cursor
      BY <1>1, <1>3, <2>2
    <2> QED
      BY <1>1, <2>3 DEF ScanInv, CursorSeen, SeenTo
  <1> QED
    BY <1>1, <1>3, <1>5, <1>6, <1>7 DEF ScanInv, TaskHolds, PageHolds

LEMMA AnswerScans == ASSUME ScanInv, PageAnswered PROVE ScanInv'
  <1> DEFINE listed == {n \in Mints : PageOf[n] = task.key /\ changed[n] > runSince}
             found == {[mint |-> m, at |-> changed[m]] : m \in listed}
  <1>1. /\ scanPc \notin {"down", "slot"} /\ ~task.done
        /\ task' = [task EXCEPT !.done = TRUE, !.found = found]
        /\ UNCHANGED <<slot, changed, cursor, since, scanPc, runSince, latest, page, seenAt,
                       passBegan, savedBegan, gaps, waived>>
    BY DEF PageAnswered, chainVars
  <1>2. ScanTypes /\ PageTypes
    BY DEF ScanInv
  <1>3. found \subseteq [mint : Mints, at : Nat]
    BY <1>2 DEF ScanTypes
  <1>4. /\ \A m \in listed : \E f \in found : f.mint = m /\ f.at = changed[m]
        /\ \A f \in found : f.mint \in listed /\ f.at = changed[f.mint]
    <2>1. ASSUME NEW m \in listed
          PROVE  \E f \in found : f.mint = m /\ f.at = changed[m]
      <3>1. [mint |-> m, at |-> changed[m]] \in found
        OBVIOUS
      <3> QED
        BY <3>1
    <2>2. ASSUME NEW f \in found
          PROVE  f.mint \in listed /\ f.at = changed[f.mint]
      <3>1. PICK m \in listed : f = [mint |-> m, at |-> changed[m]]
        OBVIOUS
      <3> HIDE DEF listed
      <3> QED
        BY <3>1
    <2> HIDE DEF listed, found
    <2> QED
      BY <2>1, <2>2
  <1>5. /\ task' \in ScanPage /\ task'.key = task.key /\ task'.found = found
    <2> HIDE DEF found
    <2> QED
      BY <1>1, <1>2, <1>3 DEF PageTypes, ScanPage
  <1>6. Holds(found, task.key)
    <2>1. \A m \in Mints : changed[m] \in Nat
      BY <1>2 DEF ScanTypes
    <2>2. runSince \in Nat
      BY <1>2 DEF ScanTypes
    <2>3. \A m \in Mints : PageOf[m] = task.key /\ ~(changed[m] <= runSince) => m \in listed
      BY <2>1, <2>2
    <2>4. \A m \in listed : m \in Mints /\ PageOf[m] = task.key
      OBVIOUS
    <2> HIDE DEF listed, found
    <2> QED
      BY <1>4, <2>1, <2>3, <2>4 DEF Holds
  <1> HIDE DEF found
  <1>7. Holds(task.found, task.key)'
    BY <1>1, <1>5, <1>6 DEF Holds
  <1>8. TaskHolds' /\ PageHolds'
    BY <1>1, <1>7 DEF ScanInv, TaskHolds, PageHolds, Holds
  <1>9. ScanTypes' /\ PageTypes' /\ PageOrder'
    BY <1>1, <1>2, <1>5 DEF ScanInv, ScanTypes, PageTypes, PageOrder
  <1> QED
    BY <1>1, <1>5, <1>8, <1>9
       DEF ScanInv, RunSince, SinceKnown, PassBegan, Passing, SavedSeen, CursorSeen, PassSeen,
           Frontier, SeenTo

LEMMA PageTaken == ASSUME ScanInv, TakePage PROVE ScanInv'
  <1>1. /\ scanPc = "await" /\ task.done /\ page' = task
        /\ task' = IF task.key < LastPage THEN Request(task.key + 1) ELSE NoPage
        /\ scanPc' = "insert"
        /\ UNCHANGED <<slot, changed, cursor, since, runSince, latest, seenAt,
                       passBegan, savedBegan, gaps, waived>>
    BY DEF TakePage, chainVars
  <1>2. ScanTypes /\ PageTypes /\ task.key \in 1..LastPage
    BY <1>1 DEF ScanInv, PageOrder
  <1>3. /\ task' \in ScanPage /\ ~task'.done
        /\ task'.key = IF task.key < LastPage THEN task.key + 1 ELSE 0
    BY <1>1, <1>2, PagesType DEF ScanPage, Request, NoPage
  <1>4. ScanTypes' /\ PageTypes' /\ PageOrder'
    BY <1>1, <1>2, <1>3 DEF ScanTypes, PageTypes, PageOrder
  <1>5. TaskHolds' /\ PageHolds'
    <2>1. Holds(task.found, task.key)
      BY <1>1 DEF ScanInv, TaskHolds, Passing
    <2> QED
      BY <1>1, <1>3, <2>1 DEF TaskHolds, PageHolds, Holds
  <1> QED
    BY <1>1, <1>4, <1>5
       DEF ScanInv, RunSince, SinceKnown, PassBegan, Passing, SavedSeen, CursorSeen, PassSeen,
           Frontier, SeenTo

LEMMA PageInserted == ASSUME ScanInv, InsertPage PROVE ScanInv'
  <1>1. /\ scanPc = "insert" /\ scanPc' = "save"
        /\ seenAt' = [m \in Mints |->
                        IF \E f \in page.found : f.mint = m
                        THEN (CHOOSE f \in page.found : f.mint = m).at
                        ELSE seenAt[m]]
        /\ UNCHANGED <<slot, changed, cursor, since, runSince, latest, task, page,
                       passBegan, savedBegan, gaps, waived>>
    BY DEF InsertPage, chainVars
  <1>2. ScanTypes /\ PageTypes /\ Holds(page.found, page.key)
    BY <1>1 DEF ScanInv, PageHolds
  <1>3. savedBegan <= passBegan
    BY <1>1 DEF ScanInv, PassBegan, Passing
  <1>4. page.found \subseteq [mint : Mints, at : Nat]
    BY <1>2 DEF PageTypes, ScanPage
  <1>5. \A m \in Mints :
          \/ seenAt'[m] = seenAt[m] /\ ~\E f \in page.found : f.mint = m
          \/ \E f \in page.found : f.mint = m /\ seenAt'[m] = f.at
    BY <1>1
  <1>6. \A m \in Mints : \A f \in page.found : f.mint = m => seenAt'[m] = f.at
    BY <1>2, <1>5 DEF Holds
  <1>7. /\ seenAt' \in [Mints -> Nat]
        /\ \A m \in Mints : seenAt'[m] <= changed[m]
    <2>1. \A m \in Mints : seenAt'[m] \in Nat
      BY <1>2, <1>4, <1>5 DEF ScanTypes
    <2>2. \A m \in Mints : seenAt'[m] <= changed[m]
      BY <1>2, <1>4, <1>5 DEF ScanTypes, Holds
    <2> QED
      BY <1>1, <2>1, <2>2
  <1>8. ScanTypes'
    BY <1>1, <1>2, <1>7 DEF ScanTypes
  \* A mint of the page is staged as it is, or has changed after the pass began.
  <1>9. \A m \in Mints : \/ seenAt'[m] = seenAt[m] \/ seenAt'[m] = changed[m]
                         \/ changed[m] > passBegan
    BY <1>2, <1>5 DEF Holds
  <1>10. SavedSeen'
    <2> SUFFICES ASSUME NEW m \in Mints, changed[m] \in 1..since
                 PROVE  seenAt'[m] = changed[m] \/ changed[m] \in waived \union gaps
      BY <1>1 DEF SavedSeen, SeenTo
    <2>1. CASE seenAt'[m] = seenAt[m]
      BY <2>1 DEF ScanInv, SavedSeen, SeenTo
    <2>2. CASE changed[m] > passBegan
      BY <1>2, <1>3, <2>2 DEF ScanInv, SinceKnown, ScanTypes
    <2> QED
      BY <1>9, <2>1, <2>2
  <1>11. CursorSeen'
    <2> SUFFICES ASSUME NEW m \in Mints, PageOf[m] < cursor, changed[m] \in 1..savedBegan
                 PROVE  seenAt'[m] = changed[m] \/ changed[m] \in waived \union gaps
      BY <1>1 DEF CursorSeen, SeenTo
    <2>1. CASE seenAt'[m] = seenAt[m]
      BY <2>1 DEF ScanInv, CursorSeen, SeenTo
    <2>2. CASE changed[m] > passBegan
      BY <1>2, <1>3, <2>2 DEF ScanTypes
    <2> QED
      BY <1>9, <2>1, <2>2
  <1>12. PassSeen'
    <2> SUFFICES ASSUME NEW m \in Mints, PageOf[m] < page.key + 1, changed[m] \in 1..passBegan
                 PROVE  seenAt'[m] = changed[m] \/ changed[m] \in waived \union gaps
      BY <1>1 DEF PassSeen, SeenTo, Frontier
    <2>1. ~(changed[m] > passBegan) /\ changed[m] \in Nat
      BY <1>2 DEF ScanTypes
    <2>2. CASE PageOf[m] < page.key
      <3>1. seenAt[m] = changed[m] \/ changed[m] \in waived \union gaps
        BY <1>1, <2>2 DEF ScanInv, PassSeen, Passing, Frontier, SeenTo
      <3> QED
        BY <1>9, <2>1, <3>1
    <2>3. CASE ~(PageOf[m] < page.key)
      <3>1. PageOf[m] = page.key
        <4>1. PageOf[m] \in Nat /\ page.key \in Nat
          BY <1>2, PagesType DEF PageTypes, ScanPage
        <4> QED
          BY <2>3, <4>1
      <3>2. CASE changed[m] <= runSince
        <4>1. changed[m] \in 1..since \/ changed[m] \in since + 1..runSince
          BY <1>2, <2>1, <3>2 DEF ScanTypes
        <4>2. changed[m] \in since + 1..runSince => changed[m] \in waived
          BY <1>1 DEF ScanInv, RunSince
        <4>3. changed[m] \in 1..since =>
                seenAt[m] = changed[m] \/ changed[m] \in waived \union gaps
          BY DEF ScanInv, SavedSeen, SeenTo
        <4> QED
          BY <1>9, <2>1, <4>1, <4>2, <4>3
      <3>3. CASE \E f \in page.found : f.mint = m /\ f.at = changed[m]
        BY <1>6, <3>3
      <3> QED
        BY <1>2, <2>1, <3>1, <3>2, <3>3 DEF Holds
    <2> QED
      BY <2>2, <2>3
  <1>13. TaskHolds' /\ PageHolds'
    BY <1>1 DEF ScanInv, TaskHolds, PageHolds, Passing, Holds
  <1> QED
    BY <1>1, <1>8, <1>10, <1>11, <1>12, <1>13
       DEF ScanInv, PageTypes, PageOrder, RunSince, SinceKnown, PassBegan, Passing

LEMMA ProgressSaved == ASSUME ScanInv, SaveProgress PROVE ScanInv'
  <1> DEFINE last == page.key = LastPage
  <1>1. /\ scanPc = "save"
        /\ cursor' = IF last THEN 1 ELSE page.key + 1
        /\ since' = IF last /\ latest > 0 THEN latest ELSE runSince
        /\ gaps' = IF last /\ latest > 0 THEN gaps \union (passBegan + 1)..latest ELSE gaps
        /\ savedBegan' = passBegan
        /\ UNCHANGED <<slot, changed, seenAt, passBegan, waived>>
    BY DEF SaveProgress, chainVars
  <1>2. \/ /\ scanPc' = "down" /\ runSince' = 0 /\ latest' = 0
           /\ task' = NoPage /\ page' = NoPage
        \/ /\ scanPc' = "await" /\ ~last /\ page' = NoPage
           /\ UNCHANGED <<runSince, latest, task>>
    BY DEF SaveProgress, ScannerGone
  <1>3. ScanTypes /\ PageTypes
    BY DEF ScanInv
  <1>4. /\ page.key \in 1..LastPage
        /\ task.key = IF page.key < LastPage THEN page.key + 1 ELSE 0
    BY <1>1 DEF ScanInv, PageOrder
  <1>5. savedBegan <= passBegan /\ passBegan <= slot
    BY <1>1 DEF ScanInv, PassBegan, Passing
  <1>6. cursor' \in 1..LastPage
    BY <1>1, <1>4, PagesType
  <1>7. since' \in Nat /\ gaps' \subseteq Nat /\ gaps \subseteq gaps'
    BY <1>1, <1>3 DEF ScanTypes
  <1>8. ScanTypes'
    <2>1. runSince' \in Nat /\ latest' \in Nat
      BY <1>2, <1>3 DEF ScanTypes
    <2>2. scanPc' \in {"down", "slot", "await", "insert", "save"}
      BY <1>2
    <2>3. savedBegan' \in Nat /\ savedBegan' <= slot'
      BY <1>1, <1>3, <1>5 DEF ScanTypes
    <2>4. UNCHANGED <<slot, changed, seenAt, passBegan, waived>>
      BY <1>1
    <2>5. \A m \in Mints : seenAt'[m] <= changed'[m] /\ changed'[m] <= slot'
      BY <1>3, <2>4 DEF ScanTypes
    <2> HIDE DEF last
    <2> QED
      BY <1>3, <1>6, <1>7, <2>1, <2>2, <2>3, <2>4, <2>5 DEF ScanTypes
  <1>9. PageTypes'
    <2>1. NoPage \in ScanPage
      BY DEF ScanPage, NoPage
    <2> QED
      BY <1>2, <1>3, <2>1 DEF PageTypes
  <1>10. PageOrder'
    <2>1. scanPc' = "await" => task'.key \in 1..LastPage
      BY <1>2, <1>4, PagesType
    <2> QED
      BY <1>2, <2>1 DEF PageOrder
  \* A slot up to the new since lies before the pass or is excused.
  <1>11. \A n \in 1..since' : n <= passBegan \/ n \in waived \union gaps'
    <2> SUFFICES ASSUME NEW n \in 1..since'
                 PROVE  n <= passBegan \/ n \in waived \union gaps'
      OBVIOUS
    <2>1. CASE last /\ latest > 0
      BY <1>1, <1>3, <2>1 DEF ScanTypes
    <2>2. CASE ~(last /\ latest > 0)
      <3>1. n \in 1..since \/ n \in since + 1..runSince
        BY <1>1, <1>3, <2>2 DEF ScanTypes
      <3>2. n \in since + 1..runSince => n \in waived
        BY <1>1 DEF ScanInv, RunSince
      <3>3. n \in 1..since => n <= savedBegan \/ n \in waived \union gaps
        BY DEF ScanInv, SinceKnown
      <3> QED
        BY <1>3, <1>5, <1>7, <3>1, <3>2, <3>3 DEF ScanTypes
    <2> QED
      BY <2>1, <2>2
  <1>12. SinceKnown'
    BY <1>1, <1>11 DEF SinceKnown
  <1>13. RunSince'
    <2>1. CASE scanPc' = "down"
      BY <2>1 DEF RunSince
    <2>2. CASE scanPc' = "await" /\ ~last /\ runSince' = runSince
      <3>1. since' = runSince
        BY <1>1, <2>2
      <3>2. \A n \in since' + 1..runSince' : FALSE
        BY <1>3, <2>2, <3>1 DEF ScanTypes
      <3> QED
        BY <3>2 DEF RunSince
    <2> QED
      BY <1>2, <2>1, <2>2
  <1>14. PassBegan'
    BY <1>1, <1>3, <1>5 DEF PassBegan, ScanTypes
  <1>15. \A m \in Mints : PageOf[m] < page.key + 1 =>
           (changed[m] \in 1..passBegan =>
              seenAt[m] = changed[m] \/ changed[m] \in waived \union gaps)
    BY <1>1 DEF ScanInv, PassSeen, Passing, Frontier, SeenTo
  <1>16. CursorSeen'
    <2> SUFFICES ASSUME NEW m \in Mints, PageOf[m] < cursor', changed[m] \in 1..passBegan
                 PROVE  seenAt[m] = changed[m] \/ changed[m] \in waived \union gaps'
      BY <1>1 DEF CursorSeen, SeenTo
    <2>1. PageOf[m] \in 1..LastPage
      BY PagesType
    <2>2. PageOf[m] < page.key + 1
      BY <1>1, <2>1
    <2> QED
      BY <1>7, <1>15, <2>2
  <1>17. SavedSeen'
    <2> SUFFICES ASSUME NEW m \in Mints, changed[m] \in 1..since'
                 PROVE  seenAt[m] = changed[m] \/ changed[m] \in waived \union gaps'
      BY <1>1 DEF SavedSeen, SeenTo
    <2>1. CASE last /\ latest > 0
      <3>1. changed[m] <= passBegan \/ changed[m] \in waived \union gaps'
        BY <1>11
      <3>2. PageOf[m] < page.key + 1
        <4>1. PageOf[m] \in 1..LastPage
          BY PagesType
        <4> QED
          BY <2>1, <4>1, PagesType
      <3>3. changed[m] \in Nat /\ passBegan \in Nat /\ since' \in Nat
        BY <1>3, <1>7 DEF ScanTypes
      <3> QED
        BY <1>7, <1>15, <3>1, <3>2, <3>3
    <2>2. CASE ~(last /\ latest > 0)
      <3>1. changed[m] \in 1..since \/ changed[m] \in since + 1..runSince
        BY <1>1, <1>3, <2>2 DEF ScanTypes
      <3>2. changed[m] \in since + 1..runSince => changed[m] \in waived
        BY <1>1 DEF ScanInv, RunSince
      <3>3. changed[m] \in 1..since =>
              seenAt[m] = changed[m] \/ changed[m] \in waived \union gaps
        BY DEF ScanInv, SavedSeen, SeenTo
      <3> QED
        BY <1>7, <3>1, <3>2, <3>3
    <2> QED
      BY <2>1, <2>2
  <1>18. PassSeen' /\ TaskHolds' /\ PageHolds'
    <2>1. CASE scanPc' = "down"
      BY <2>1 DEF PassSeen, TaskHolds, PageHolds, Passing
    <2>2. CASE scanPc' = "await" /\ ~last /\ UNCHANGED <<runSince, task>>
      <3>1. task.key = page.key + 1
        BY <1>4, <2>2, PagesType
      <3>2. PassSeen'
        <4> SUFFICES ASSUME NEW m \in Mints, PageOf[m] < page.key + 1,
                            changed[m] \in 1..passBegan
                     PROVE  seenAt[m] = changed[m] \/ changed[m] \in waived \union gaps'
          BY <1>1, <2>2, <3>1 DEF PassSeen, Frontier, SeenTo
        <4> QED
          BY <1>7, <1>15
      <3>3. TaskHolds'
        BY <1>1, <2>2 DEF ScanInv, TaskHolds, Passing, Holds
      <3> QED
        BY <2>2, <3>2, <3>3 DEF PageHolds
    <2> QED
      BY <1>2, <2>1, <2>2
  <1> QED
    BY <1>8, <1>9, <1>10, <1>12, <1>13, <1>14, <1>16, <1>17, <1>18 DEF ScanInv

LEMMA ScannerDies == ASSUME ScanInv, ScanCrash PROVE ScanInv'
  <1>1. /\ scanPc' = "down" /\ runSince' = 0 /\ latest' = 0
        /\ task' = NoPage /\ page' = NoPage
        /\ UNCHANGED <<slot, changed, cursor, since, seenAt, passBegan, savedBegan, gaps, waived>>
    BY DEF ScanCrash, ScannerGone, chainVars
  <1>2. ScanTypes' /\ PageTypes'
    BY <1>1 DEF ScanInv, ScanTypes, PageTypes, ScanPage, NoPage
  <1> QED
    BY <1>1, <1>2
       DEF ScanInv, PageOrder, RunSince, SinceKnown, PassBegan, Passing, SavedSeen, CursorSeen,
           PassSeen, SeenTo, TaskHolds, PageHolds

LEMMA ScanStep == ASSUME ScanInv, [Next]_vars PROVE ScanInv'
  <1>1. ASSUME NEW m \in Mints, Touch(m)
        PROVE  ScanInv'
    BY <1>1, TouchScans
  <1>2. CASE ScanStart \/ GetSlot \/ PageAnswered \/ TakePage \/ InsertPage \/ SaveProgress
             \/ ScanCrash
    BY <1>2, ScannerStarts, SlotRead, AnswerScans, PageTaken, PageInserted, ProgressSaved,
       ScannerDies
  <1>3. CASE RequestScanStop
    BY <1>3, ScanUnchanged DEF RequestScanStop, ScanSide, chainVars
  <1>4. ASSUME NEW w \in Workers,
               Claim(w) \/ FetchAll(w) \/ InsertMain(w) \/ DeleteRows(w) \/ BatchFails(w)
                 \/ Leave(w) \/ Kill(w)
        PROVE  ScanInv'
    <2>1. UNCHANGED ScanSide
      BY <1>4 DEF Claim, FetchAll, InsertMain, DeleteRows, BatchFails, Leave, Kill, scannerVars,
                  chainVars, scanVars, ScanSide
    <2> QED
      BY <2>1, ScanUnchanged
  <1>5. ASSUME RequestStop \/ Rerun \/ UNCHANGED vars \/ \E m \in Mints : Aging(m)
        PROVE  ScanInv'
    <2>1. UNCHANGED ScanSide
      BY <1>5 DEF RequestStop, Rerun, Aging, vars, scannerVars, chainVars, scanVars, ScanSide
    <2> QED
      BY <2>1, ScanUnchanged
  <1> QED
    BY <1>1, <1>2, <1>3, <1>4, <1>5 DEF Next

\* Wherever the scanner stops, dies or resumes, and however the chain changes
\* under it: an account that changed up to the saved slot was staged as it
\* is, but for the slots the operator chose to skip and those between the
\* start of a pass and its resumption.
THEOREM ScanMissesNothing == Spec => []ChangesSeen
  <1>1. Init => ScanInv
    BY ScanStarts
  <1>2. ScanInv /\ [Next]_vars => ScanInv'
    BY ScanStep
  <1>3. ScanInv => ChangesSeen
    BY DEF ScanInv, SavedSeen, SeenTo, ChangesSeen
  <1> QED
    BY <1>1, <1>2, <1>3, PTL DEF Spec
-----------------------------------------------------------------------------
(* The workers.                                                            *)

WorkTypes ==
    /\ temp \in [Mints -> RowType \union {NoRow}]
    /\ nextId \in Nat
    /\ main \in [Mints -> Nat]
    /\ pc \in [Workers -> {"claim", "fetch", "insert", "delete", "down"}]
    /\ pending \in [Workers -> SUBSET Ticket]
    /\ inserts \in [Workers -> SUBSET [mint : Mints, at : Nat]]

\* The excuses of AssetCoversSeen.
Pardoned(m) == m \notin Usable \/ m \in unanswered \union overlooked \union shared

\* Only claims that outlived the limit are shared.
AgedShared == \A m \in Mints : HasRow(m) /\ temp[m].aged => m \in shared

\* A worker's ticket is for the row as it is, and the row is the worker's.
TicketsHeld ==
    \A w \in Workers : \A t \in pending[w] :
        \/ t.mint \in shared
        \/ HasRow(t.mint) /\ TicketOf(t.mint) = t /\ temp[t.mint].by = w

\* Records wait for the upsert, one for a mint, under a ticket of the batch.
InsertsOfBatch ==
    \A w \in Workers :
        /\ \A r \in inserts[w] : pc[w] = "insert" /\ \E t \in pending[w] : t.mint = r.mint
        /\ \A r, q \in inserts[w] : r.mint = q.mint => r = q

\* What was fetched is at least as new as what the scanner saw.
AnswersFresh ==
    \A w \in Workers : \A t \in pending[w] :
        pc[w] = "insert" =>
            \/ Pardoned(t.mint)
            \/ \E r \in inserts[w] : r.mint = t.mint /\ r.at >= seenAt[t.mint]

StoredFresh ==
    \A w \in Workers : \A t \in pending[w] :
        pc[w] = "delete" => Pardoned(t.mint) \/ main[t.mint] >= seenAt[t.mint]

WorkInv ==
    /\ WorkTypes /\ AgedShared /\ TicketsHeld /\ InsertsOfBatch
    /\ AnswersFresh /\ StoredFresh /\ AssetCoversSeen

LEMMA OneHolder ==
  ASSUME WorkInv, NEW v \in Workers, NEW w \in Workers, NEW t \in pending[v], NEW u \in pending[w],
         t.mint = u.mint, t.mint \notin shared
  PROVE  v = w
  BY DEF WorkInv, TicketsHeld

LEMMA WorkUnchanged ==
  ASSUME WorkInv,
         UNCHANGED <<stagingVars, main, pc, pending, inserts, seenAt, overlooked, unanswered,
                     shared>>
  PROVE  WorkInv'
  BY DEF WorkInv, stagingVars, WorkTypes, Pardoned, AgedShared, TicketsHeld, TicketOf, HasRow,
         InsertsOfBatch, AnswersFresh, StoredFresh, AssetCoversSeen

LEMMA WorkStarts == ASSUME Init PROVE WorkInv
  <1>1. /\ temp = [m \in Mints |-> NoRow] /\ nextId = 1
        /\ seenAt = [m \in Mints |-> 0]
        /\ main = [m \in Mints |-> 0]
        /\ pc = [w \in Workers |-> "claim"]
        /\ pending = [w \in Workers |-> {}]
        /\ inserts = [w \in Workers |-> {}]
    BY DEF Init, ScanInit
  <1> QED
    BY <1>1 DEF WorkInv, WorkTypes, AgedShared, HasRow, TicketsHeld, InsertsOfBatch, AnswersFresh,
                StoredFresh, AssetCoversSeen

LEMMA PageStaged ==
  ASSUME WorkInv, ScanInv, InsertPage, UNCHANGED workerVars
  PROVE  WorkInv'
  <1> DEFINE ms == MintsOf(page.found)
  <1>1. /\ temp' = [m \in Mints |-> IF m \in ms \ Rows
                                    THEN [id |-> nextId, by |-> NoWorker, aged |-> FALSE]
                                    ELSE temp[m]]
        /\ nextId' = IF ms \ Rows = {} THEN nextId ELSE nextId + 1
        /\ overlooked' = (overlooked \ ms)
                            \union {m \in ms : HasRow(m) /\ temp[m].by # NoWorker}
        /\ UNCHANGED <<main, pc, pending, inserts, unanswered, shared>>
    BY DEF InsertPage, InsertTemp, workerVars
  <1>2. \A m \in Mints : m \notin ms => seenAt'[m] = seenAt[m]
    BY DEF InsertPage, MintsOf
  <1>3. WorkTypes
    BY DEF WorkInv
  <1>4. \A m \in Mints : m \in Rows <=> temp[m] # NoRow
    BY DEF Rows, HasRow
  <1> HIDE DEF ms
  <1>5. \A m \in Mints :
          /\ temp[m] # NoRow => temp'[m] = temp[m]
          /\ temp[m] = NoRow /\ m \notin ms => temp'[m] = NoRow
          /\ temp[m] = NoRow /\ m \in ms =>
                temp'[m] = [id |-> nextId, by |-> NoWorker, aged |-> FALSE]
    BY <1>1, <1>4
  <1>6. [id |-> nextId, by |-> NoWorker, aged |-> FALSE] \in RowType
    BY <1>3 DEF WorkTypes, RowType, Claimant
  <1>7. WorkTypes'
    BY <1>1, <1>3, <1>6 DEF WorkTypes
  <1>8. AgedShared'
    BY <1>1, <1>5 DEF WorkInv, AgedShared, HasRow
  <1>9. TicketsHeld' /\ InsertsOfBatch'
    <2>1. \A w \in Workers : \A t \in pending[w] : t.mint \in Mints
      BY <1>3 DEF WorkTypes, Ticket
    <2>2. TicketsHeld'
      <3> SUFFICES ASSUME NEW w \in Workers, NEW t \in pending[w], t.mint \notin shared
                   PROVE  HasRow(t.mint)' /\ TicketOf(t.mint)' = t /\ temp'[t.mint].by = w
        BY <1>1 DEF TicketsHeld
      <3>1. HasRow(t.mint) /\ TicketOf(t.mint) = t /\ temp[t.mint].by = w
        BY DEF WorkInv, TicketsHeld
      <3>2. temp'[t.mint] = temp[t.mint]
        BY <1>5, <2>1, <3>1 DEF HasRow
      <3> QED
        BY <3>1, <3>2 DEF HasRow, TicketOf
    <2> QED
      BY <1>1, <2>2 DEF WorkInv, InsertsOfBatch
  \* A mint that a worker holds is overlooked, or seen as before.
  <1>10. ASSUME NEW w \in Workers, NEW t \in pending[w]
         PROVE  \/ t.mint \in overlooked' \union shared
                \/ /\ seenAt'[t.mint] = seenAt[t.mint]
                   /\ t.mint \in overlooked => t.mint \in overlooked'
    <2>1. t.mint \in Mints
      BY <1>3 DEF WorkTypes, Ticket
    <2>2. \/ t.mint \in shared
          \/ HasRow(t.mint) /\ temp[t.mint].by = w
      BY DEF WorkInv, TicketsHeld
    <2>3. w # NoWorker
      BY NoWorkerAssumption
    <2>4. t.mint \in ms /\ HasRow(t.mint) /\ temp[t.mint].by # NoWorker => t.mint \in overlooked'
      BY <1>1 DEF HasRow
    <2>5. t.mint \notin ms /\ t.mint \in overlooked => t.mint \in overlooked'
      BY <1>1
    <2> QED
      BY <1>2, <2>1, <2>2, <2>3, <2>4, <2>5
  <1>11. AnswersFresh'
    <2> SUFFICES ASSUME NEW w \in Workers, NEW t \in pending[w], pc[w] = "insert"
                 PROVE  \/ Pardoned(t.mint)'
                        \/ \E r \in inserts[w] : r.mint = t.mint /\ r.at >= seenAt'[t.mint]
      BY <1>1 DEF AnswersFresh, Pardoned
    <2>1. \/ Pardoned(t.mint)
          \/ \E r \in inserts[w] : r.mint = t.mint /\ r.at >= seenAt[t.mint]
      BY DEF WorkInv, AnswersFresh, Pardoned
    <2> QED
      BY <1>1, <1>10, <2>1 DEF Pardoned
  <1>12. StoredFresh'
    <2> SUFFICES ASSUME NEW w \in Workers, NEW t \in pending[w], pc[w] = "delete"
                 PROVE  Pardoned(t.mint)' \/ main[t.mint] >= seenAt'[t.mint]
      BY <1>1 DEF StoredFresh, Pardoned
    <2>1. Pardoned(t.mint) \/ main[t.mint] >= seenAt[t.mint]
      BY DEF WorkInv, StoredFresh, Pardoned
    <2> QED
      BY <1>1, <1>10, <2>1 DEF Pardoned
  <1>13. AssetCoversSeen'
    <2> SUFFICES ASSUME NEW m \in Mints, seenAt'[m] # 0
                 PROVE  HasRow(m)' \/ main[m] >= seenAt'[m] \/ Pardoned(m)'
      BY <1>1 DEF AssetCoversSeen, Pardoned
    <2>1. CASE m \in ms
      BY <1>5, <1>6, <2>1, NoRowAssumption DEF HasRow
    <2>2. CASE m \notin ms
      <3>1. HasRow(m) \/ main[m] >= seenAt[m] \/ Pardoned(m)
        BY <1>2, <2>2 DEF WorkInv, AssetCoversSeen, Pardoned
      <3>2. m \in overlooked => m \in overlooked'
        BY <1>1, <2>2
      <3> QED
        BY <1>1, <1>2, <1>5, <2>2, <3>1, <3>2 DEF HasRow, Pardoned
    <2> QED
      BY <2>1, <2>2
  <1> QED
    BY <1>7, <1>8, <1>9, <1>11, <1>12, <1>13 DEF WorkInv

LEMMA Claimed ==
  ASSUME WorkInv, NEW w \in Workers, Claim(w)
  PROVE  WorkInv'
  <1>1. PICK ms \in SUBSET Rows :
          /\ ms \subseteq {m \in Rows : Claimable(m)}
          /\ temp' = [m \in Mints |->
                        IF m \in ms THEN [temp[m] EXCEPT !.by = w, !.aged = FALSE]
                                    ELSE temp[m]]
          /\ pending' = [pending EXCEPT ![w] = {TicketOf(m) : m \in ms}]
    BY DEF Claim, Oldest
  <1>2. /\ pc[w] = "claim" /\ pc' = [pc EXCEPT ![w] = "fetch"]
        /\ UNCHANGED <<nextId, main, inserts, seenAt, overlooked, unanswered, shared>>
    BY DEF Claim, GoTo, scanVars
  <1>3. WorkTypes
    BY DEF WorkInv
  <1>4. \A m \in ms : /\ m \in Mints /\ temp[m] # NoRow /\ temp[m] \in RowType
                      /\ temp[m].by = NoWorker \/ temp[m].aged
    BY <1>1, <1>3 DEF Rows, HasRow, Claimable, WorkTypes
  <1>5. \A m \in Mints :
          /\ m \notin ms => temp'[m] = temp[m]
          /\ m \in ms => /\ temp'[m] \in RowType
                         /\ temp'[m].id = temp[m].id
                         /\ temp'[m].by = w
                         /\ ~temp'[m].aged
    <2> SUFFICES ASSUME NEW m \in Mints
                 PROVE  /\ m \notin ms => temp'[m] = temp[m]
                        /\ m \in ms => /\ temp'[m] \in RowType
                                       /\ temp'[m].id = temp[m].id
                                       /\ temp'[m].by = w
                                       /\ ~temp'[m].aged
      OBVIOUS
    <2>1. m \in ms => temp'[m] = [temp[m] EXCEPT !.by = w, !.aged = FALSE]
      BY <1>1
    <2> QED
      BY <1>1, <1>4, <2>1 DEF RowType, Claimant
  <1>6. \A m \in Mints : temp'[m] # NoRow <=> temp[m] # NoRow
    BY <1>4, <1>5, NoRowAssumption
  <1>7. /\ \A v \in Workers : v # w => pending'[v] = pending[v] /\ pc'[v] = pc[v]
        /\ pc'[w] = "fetch"
        /\ \A t \in pending'[w] : \E m \in ms : t = TicketOf(m)
    BY <1>1, <1>2, <1>3 DEF WorkTypes
  <1>8. inserts[w] = {}
    BY <1>2 DEF WorkInv, InsertsOfBatch
  <1>9. WorkTypes'
    <2>1. temp' \in [Mints -> RowType \union {NoRow}]
      BY <1>1, <1>3, <1>5 DEF WorkTypes
    <2>2. {TicketOf(m) : m \in ms} \subseteq Ticket
      BY <1>4 DEF TicketOf, Ticket, RowType
    <2>3. pending' \in [Workers -> SUBSET Ticket]
      BY <1>1, <1>3, <2>2 DEF WorkTypes
    <2> QED
      BY <1>2, <1>3, <2>1, <2>3 DEF WorkTypes
  <1>10. AgedShared'
    BY <1>2, <1>5, <1>6 DEF WorkInv, AgedShared, HasRow
  <1>11. TicketsHeld'
    <2> SUFFICES ASSUME NEW v \in Workers, NEW t \in pending'[v], t.mint \notin shared
                 PROVE  HasRow(t.mint)' /\ TicketOf(t.mint)' = t /\ temp'[t.mint].by = v
      BY <1>2 DEF TicketsHeld
    <2>1. CASE v = w
      <3>1. PICK m \in ms : t = TicketOf(m)
        BY <1>7, <2>1
      <3>2. t.mint = m /\ t = [id |-> temp[m].id, mint |-> m]
        BY <3>1 DEF TicketOf
      <3> QED
        BY <1>4, <1>5, <1>6, <2>1, <3>2 DEF HasRow, TicketOf
    <2>2. CASE v # w
      <3>1. t \in pending[v] /\ t.mint \in Mints
        BY <1>3, <1>7, <2>2 DEF WorkTypes, Ticket
      <3>2. /\ temp[t.mint] # NoRow /\ temp[t.mint].by = v
            /\ t = [id |-> temp[t.mint].id, mint |-> t.mint]
        BY <3>1 DEF WorkInv, TicketsHeld, HasRow, TicketOf
      <3>3. v # NoWorker
        BY NoWorkerAssumption
      <3>4. ~temp[t.mint].aged
        BY <3>1, <3>2 DEF WorkInv, AgedShared, HasRow
      <3>5. t.mint \notin ms
        BY <1>4, <3>2, <3>3, <3>4
      <3> QED
        BY <1>5, <3>1, <3>2, <3>5 DEF HasRow, TicketOf
    <2> QED
      BY <2>1, <2>2
  <1>12. InsertsOfBatch'
    BY <1>2, <1>7, <1>8 DEF WorkInv, InsertsOfBatch
  <1>13. AnswersFresh' /\ StoredFresh'
    BY <1>2, <1>7 DEF WorkInv, AnswersFresh, StoredFresh, Pardoned
  <1>14. AssetCoversSeen'
    BY <1>2, <1>6 DEF WorkInv, AssetCoversSeen, HasRow
  <1> QED
    BY <1>9, <1>10, <1>11, <1>12, <1>13, <1>14 DEF WorkInv

LEMMA Fetched ==
  ASSUME WorkInv, ScanInv, NEW w \in Workers, FetchAll(w)
  PROVE  WorkInv'
  <1> DEFINE mints == {t.mint : t \in pending[w]}
  <1>1. PICK silent \in SUBSET mints :
          /\ inserts' = [inserts EXCEPT ![w] =
                {[mint |-> m, at |-> changed[m]] : m \in (mints \ silent) \intersect Usable}]
          /\ unanswered' = unanswered \union silent
    BY DEF FetchAll
  <1>2. /\ pc' = [pc EXCEPT ![w] = "insert"]
        /\ UNCHANGED <<temp, nextId, main, pending, seenAt, overlooked, shared>>
    BY DEF FetchAll, GoTo, stagingVars, scanVars
  <1>3. WorkTypes /\ ScanTypes
    BY DEF WorkInv, ScanInv
  <1> DEFINE answers == {[mint |-> m, at |-> changed[m]] :
                            m \in (mints \ silent) \intersect Usable}
  <1>4. /\ \A v \in Workers : v # w => inserts'[v] = inserts[v] /\ pc'[v] = pc[v]
        /\ inserts'[w] = answers /\ pc'[w] = "insert"
    BY <1>1, <1>2, <1>3 DEF WorkTypes
  <1>5. \A t \in pending[w] : t.mint \in Mints /\ t.mint \in mints
    BY <1>3 DEF WorkTypes, Ticket
  <1>6. \A m \in mints : m \in Mints /\ \E t \in pending[w] : t.mint = m
    BY <1>5
  <1>7. \A r \in answers : r.mint \in mints /\ r.at = changed[r.mint]
                           /\ r = [mint |-> r.mint, at |-> r.at]
    <2> SUFFICES ASSUME NEW r \in answers
                 PROVE  r.mint \in mints /\ r.at = changed[r.mint]
                        /\ r = [mint |-> r.mint, at |-> r.at]
      OBVIOUS
    <2>1. PICK m \in mints : r = [mint |-> m, at |-> changed[m]]
      OBVIOUS
    <2> HIDE DEF mints
    <2> QED
      BY <2>1
  <1>8. \A m \in mints : m \notin silent /\ m \in Usable =>
          \E r \in answers : r.mint = m /\ r.at = changed[m]
    <2> SUFFICES ASSUME NEW m \in mints, m \notin silent, m \in Usable
                 PROVE  \E r \in answers : r.mint = m /\ r.at = changed[m]
      OBVIOUS
    <2>1. [mint |-> m, at |-> changed[m]] \in answers
      OBVIOUS
    <2> HIDE DEF mints, answers
    <2> QED
      BY <2>1
  <1> HIDE DEF mints, answers
  <1>9. answers \subseteq [mint : Mints, at : Nat]
    BY <1>3, <1>6, <1>7 DEF ScanTypes
  <1>10. WorkTypes'
    <2>1. inserts' = [inserts EXCEPT ![w] = answers]
      BY <1>1 DEF answers
    <2> QED
      BY <1>2, <1>3, <1>9, <2>1 DEF WorkTypes
  <1>11. AgedShared' /\ TicketsHeld'
    BY <1>2 DEF WorkInv, AgedShared, TicketsHeld, HasRow, TicketOf
  <1>12. InsertsOfBatch'
    <2> SUFFICES ASSUME NEW v \in Workers
                 PROVE  /\ \A r \in inserts'[v] :
                             pc'[v] = "insert" /\ \E t \in pending[v] : t.mint = r.mint
                        /\ \A r, q \in inserts'[v] : r.mint = q.mint => r = q
      BY <1>2 DEF InsertsOfBatch
    <2>1. CASE v = w
      BY <1>4, <1>6, <1>7, <2>1
    <2>2. CASE v # w
      BY <1>4, <2>2 DEF WorkInv, InsertsOfBatch
    <2> QED
      BY <2>1, <2>2
  <1>13. AnswersFresh'
    <2> SUFFICES ASSUME NEW v \in Workers, NEW t \in pending[v], pc'[v] = "insert"
                 PROVE  \/ Pardoned(t.mint)'
                        \/ \E r \in inserts'[v] : r.mint = t.mint /\ r.at >= seenAt[t.mint]
      BY <1>2 DEF AnswersFresh
    <2>1. CASE v = w
      <3>1. t.mint \in mints /\ t.mint \in Mints
        BY <1>5, <2>1
      <3>2. changed[t.mint] >= seenAt[t.mint]
        BY <1>3, <3>1 DEF ScanTypes
      <3> QED
        BY <1>1, <1>4, <1>8, <2>1, <3>1, <3>2 DEF Pardoned
    <2>2. CASE v # w
      <3>1. \/ Pardoned(t.mint)
            \/ \E r \in inserts[v] : r.mint = t.mint /\ r.at >= seenAt[t.mint]
        BY <1>4, <2>2 DEF WorkInv, AnswersFresh, Pardoned
      <3> QED
        BY <1>1, <1>2, <1>4, <2>2, <3>1 DEF Pardoned
    <2> QED
      BY <2>1, <2>2
  <1>14. StoredFresh'
    BY <1>1, <1>2, <1>4 DEF WorkInv, StoredFresh, Pardoned
  <1>15. AssetCoversSeen'
    BY <1>1, <1>2 DEF WorkInv, AssetCoversSeen, HasRow
  <1> QED
    BY <1>10, <1>11, <1>12, <1>13, <1>14, <1>15 DEF WorkInv

LEMMA Upserted ==
  ASSUME WorkInv, ScanInv, NEW w \in Workers, InsertMain(w)
  PROVE  WorkInv'
  <1>1. /\ pc[w] = "insert" /\ pc' = [pc EXCEPT ![w] = "delete"]
        /\ main' = [m \in Mints |->
                      IF \E r \in inserts[w] : r.mint = m
                      THEN (CHOOSE r \in inserts[w] : r.mint = m).at
                      ELSE main[m]]
        /\ inserts' = [inserts EXCEPT ![w] = {}]
        /\ UNCHANGED <<temp, nextId, pending, seenAt, overlooked, unanswered, shared>>
    BY DEF InsertMain, GoTo, scannerVars, stagingVars, scanVars
  <1>2. WorkTypes /\ ScanTypes
    BY DEF WorkInv, ScanInv
  <1>3. /\ \A v \in Workers : v # w => inserts'[v] = inserts[v] /\ pc'[v] = pc[v]
        /\ inserts'[w] = {} /\ pc'[w] = "delete"
    BY <1>1, <1>2 DEF WorkTypes
  <1>4. \A m \in Mints :
          \/ main'[m] = main[m] /\ ~\E r \in inserts[w] : r.mint = m
          \/ \E r \in inserts[w] : r.mint = m /\ main'[m] = r.at
    BY <1>1
  <1>5. \A m \in Mints : \A r \in inserts[w] : r.mint = m => main'[m] = r.at
    BY <1>4 DEF WorkInv, InsertsOfBatch
  <1>6. WorkTypes'
    <2>1. \A r \in inserts[w] : r.at \in Nat
      BY <1>2 DEF WorkTypes
    <2>2. \A m \in Mints : main'[m] \in Nat
      BY <1>2, <1>4, <2>1 DEF WorkTypes
    <2>3. main' \in [Mints -> Nat]
      BY <1>1, <2>2
    <2> QED
      BY <1>1, <1>2, <2>3 DEF WorkTypes
  <1>7. AgedShared' /\ TicketsHeld'
    BY <1>1 DEF WorkInv, AgedShared, TicketsHeld, HasRow, TicketOf
  <1>8. InsertsOfBatch' /\ AnswersFresh'
    BY <1>1, <1>3 DEF WorkInv, InsertsOfBatch, AnswersFresh, Pardoned
  \* Nobody else's ticket is for a mint that is upserted, unless it is shared.
  <1>9. ASSUME NEW m \in Mints, main'[m] # main[m], m \notin shared
        PROVE  \E u \in pending[w] : u.mint = m
    BY <1>4, <1>9 DEF WorkInv, InsertsOfBatch
  <1>10. StoredFresh'
    <2> SUFFICES ASSUME NEW v \in Workers, NEW t \in pending[v], pc'[v] = "delete"
                 PROVE  Pardoned(t.mint) \/ main'[t.mint] >= seenAt[t.mint]
      BY <1>1 DEF StoredFresh, Pardoned
    <2>1. t.mint \in Mints
      BY <1>2 DEF WorkTypes, Ticket
    <2>2. CASE v = w
      <3>1. \/ Pardoned(t.mint)
            \/ \E r \in inserts[w] : r.mint = t.mint /\ r.at >= seenAt[t.mint]
        BY <1>1, <2>2 DEF WorkInv, AnswersFresh, Pardoned
      <3> QED
        BY <1>5, <2>1, <3>1
    <2>3. CASE v # w
      <3>1. Pardoned(t.mint) \/ main[t.mint] >= seenAt[t.mint]
        BY <1>3, <2>3 DEF WorkInv, StoredFresh, Pardoned
      <3>2. CASE main'[t.mint] = main[t.mint]
        BY <3>1, <3>2
      <3>3. CASE main'[t.mint] # main[t.mint] /\ t.mint \notin shared
        BY <1>9, <2>1, <2>3, <3>3, OneHolder
      <3> QED
        BY <3>2, <3>3 DEF Pardoned
    <2> QED
      BY <2>2, <2>3
  <1>11. AssetCoversSeen'
    <2> SUFFICES ASSUME NEW m \in Mints, seenAt[m] # 0
                 PROVE  HasRow(m) \/ main'[m] >= seenAt[m] \/ Pardoned(m)
      BY <1>1 DEF AssetCoversSeen, Pardoned, HasRow
    <2>1. CASE main'[m] = main[m]
      BY <2>1 DEF WorkInv, AssetCoversSeen, Pardoned
    <2>2. CASE main'[m] # main[m] /\ m \notin shared
      <3>1. PICK u \in pending[w] : u.mint = m
        BY <1>9, <2>2
      <3> QED
        BY <2>2, <3>1 DEF WorkInv, TicketsHeld
    <2> QED
      BY <2>1, <2>2 DEF Pardoned
  <1> QED
    BY <1>6, <1>7, <1>8, <1>10, <1>11 DEF WorkInv

LEMMA RowsDeleted ==
  ASSUME WorkInv, NEW w \in Workers, DeleteRows(w)
  PROVE  WorkInv'
  <1>1. /\ pc[w] = "delete" /\ pc' = [pc EXCEPT ![w] = "claim"]
        /\ temp' = [m \in Mints |-> IF TicketOn(pending[w], m) THEN NoRow ELSE temp[m]]
        /\ pending' = [pending EXCEPT ![w] = {}]
        /\ UNCHANGED <<nextId, main, inserts, seenAt, overlooked, unanswered, shared>>
    BY DEF DeleteRows, GoTo, scanVars
  <1>2. WorkTypes
    BY DEF WorkInv
  <1>3. /\ \A v \in Workers : v # w => pending'[v] = pending[v] /\ pc'[v] = pc[v]
        /\ pending'[w] = {} /\ pc'[w] = "claim"
    BY <1>1, <1>2 DEF WorkTypes
  <1>4. \A m \in Mints :
          \/ temp'[m] = temp[m]
          \/ /\ temp'[m] = NoRow
             /\ \E t \in pending[w] : t.mint = m
    BY <1>1 DEF TicketOn, TicketOf
  <1>5. WorkTypes'
    <2>1. temp' \in [Mints -> RowType \union {NoRow}]
      BY <1>1, <1>2 DEF WorkTypes
    <2> QED
      BY <1>1, <1>2, <2>1 DEF WorkTypes
  <1>6. AgedShared'
    BY <1>1, <1>4 DEF WorkInv, AgedShared, HasRow
  <1>7. TicketsHeld'
    <2> SUFFICES ASSUME NEW v \in Workers, NEW t \in pending'[v], t.mint \notin shared
                 PROVE  HasRow(t.mint)' /\ TicketOf(t.mint)' = t /\ temp'[t.mint].by = v
      BY <1>1 DEF TicketsHeld
    <2>1. v # w /\ t \in pending[v]
      BY <1>3
    <2>2. t.mint \in Mints
      BY <1>2, <2>1 DEF WorkTypes, Ticket
    <2>3. HasRow(t.mint) /\ TicketOf(t.mint) = t /\ temp[t.mint].by = v
      BY <2>1 DEF WorkInv, TicketsHeld
    <2>4. ~\E u \in pending[w] : u.mint = t.mint
      BY <2>1, OneHolder
    <2>5. temp'[t.mint] = temp[t.mint]
      BY <1>4, <2>2, <2>4
    <2> QED
      BY <2>3, <2>5 DEF HasRow, TicketOf
  <1>8. InsertsOfBatch' /\ AnswersFresh' /\ StoredFresh'
    BY <1>1, <1>3 DEF WorkInv, InsertsOfBatch, AnswersFresh, StoredFresh, Pardoned
  <1>9. AssetCoversSeen'
    <2> SUFFICES ASSUME NEW m \in Mints, seenAt[m] # 0
                 PROVE  HasRow(m)' \/ main[m] >= seenAt[m] \/ Pardoned(m)
      BY <1>1 DEF AssetCoversSeen, Pardoned
    <2>1. CASE temp'[m] = temp[m]
      BY <2>1 DEF WorkInv, AssetCoversSeen, Pardoned, HasRow
    <2>2. CASE \E t \in pending[w] : t.mint = m
      BY <1>1, <2>2 DEF WorkInv, StoredFresh, Pardoned
    <2> QED
      BY <1>4, <2>1, <2>2
  <1> QED
    BY <1>5, <1>6, <1>7, <1>8, <1>9 DEF WorkInv

LEMMA Released ==
  ASSUME WorkInv, NEW w \in Workers, NEW l \in {"claim", "down"}, Release(w, l),
         UNCHANGED <<nextId, main, seenAt, overlooked, unanswered, shared>>
  PROVE  WorkInv'
  <1>1. /\ temp' = [m \in Mints |->
                      IF TicketOn(pending[w], m) /\ temp[m].by = w
                      THEN [temp[m] EXCEPT !.by = NoWorker, !.aged = FALSE]
                      ELSE temp[m]]
        /\ pending' = [pending EXCEPT ![w] = {}]
        /\ inserts' = [inserts EXCEPT ![w] = {}]
        /\ pc' = [pc EXCEPT ![w] = l]
    BY DEF Release, GoTo
  <1>2. WorkTypes
    BY DEF WorkInv
  <1>3. /\ \A v \in Workers : v # w => /\ pending'[v] = pending[v] /\ pc'[v] = pc[v]
                                       /\ inserts'[v] = inserts[v]
        /\ pending'[w] = {} /\ inserts'[w] = {} /\ pc'[w] = l
    BY <1>1, <1>2 DEF WorkTypes
  <1>4. \A m \in Mints :
          \/ temp'[m] = temp[m]
          \/ /\ temp[m] # NoRow /\ temp[m].by = w
             /\ temp'[m] = [temp[m] EXCEPT !.by = NoWorker, !.aged = FALSE]
    BY <1>1 DEF TicketOn, HasRow
  <1>5. \A m \in Mints : /\ temp'[m] \in RowType \union {NoRow}
                         /\ temp'[m] # NoRow <=> temp[m] # NoRow
                         /\ temp'[m] # temp[m] => temp[m].by = w /\ ~temp'[m].aged
    <2> SUFFICES ASSUME NEW m \in Mints
                 PROVE  /\ temp'[m] \in RowType \union {NoRow}
                        /\ temp'[m] # NoRow <=> temp[m] # NoRow
                        /\ temp'[m] # temp[m] => temp[m].by = w /\ ~temp'[m].aged
      OBVIOUS
    <2>1. CASE temp'[m] = temp[m]
      BY <1>2, <2>1 DEF WorkTypes
    <2>2. CASE /\ temp[m] # NoRow /\ temp[m].by = w
               /\ temp'[m] = [temp[m] EXCEPT !.by = NoWorker, !.aged = FALSE]
      <3>1. temp[m] \in RowType
        BY <1>2, <2>2 DEF WorkTypes
      <3>2. temp'[m] \in RowType /\ ~temp'[m].aged
        BY <2>2, <3>1 DEF RowType, Claimant
      <3> QED
        BY <2>2, <3>2, NoRowAssumption
    <2> QED
      BY <1>4, <2>1, <2>2
  <1>6. WorkTypes'
    <2>1. temp' \in [Mints -> RowType \union {NoRow}]
      BY <1>1, <1>5
    <2> QED
      BY <1>1, <1>2, <2>1 DEF WorkTypes
  <1>7. AgedShared'
    <2> SUFFICES ASSUME NEW m \in Mints, temp'[m] # NoRow, temp'[m].aged
                 PROVE  m \in shared
      BY DEF AgedShared, HasRow
    <2> QED
      BY <1>5 DEF WorkInv, AgedShared, HasRow
  <1>8. TicketsHeld'
    <2> SUFFICES ASSUME NEW v \in Workers, NEW t \in pending'[v], t.mint \notin shared
                 PROVE  HasRow(t.mint)' /\ TicketOf(t.mint)' = t /\ temp'[t.mint].by = v
      BY DEF TicketsHeld
    <2>1. v # w /\ t \in pending[v]
      BY <1>3
    <2>2. t.mint \in Mints
      BY <1>2, <2>1 DEF WorkTypes, Ticket
    <2>3. HasRow(t.mint) /\ TicketOf(t.mint) = t /\ temp[t.mint].by = v
      BY <2>1 DEF WorkInv, TicketsHeld
    <2>4. temp'[t.mint] = temp[t.mint]
      BY <1>5, <2>1, <2>2, <2>3
    <2> QED
      BY <2>3, <2>4 DEF HasRow, TicketOf
  <1>9. InsertsOfBatch' /\ AnswersFresh' /\ StoredFresh'
    BY <1>3 DEF WorkInv, InsertsOfBatch, AnswersFresh, StoredFresh, Pardoned
  <1>10. AssetCoversSeen'
    BY <1>5 DEF WorkInv, AssetCoversSeen, HasRow
  <1> QED
    BY <1>6, <1>7, <1>8, <1>9, <1>10 DEF WorkInv

LEMMA Killed ==
  ASSUME WorkInv, NEW w \in Workers, Kill(w)
  PROVE  WorkInv'
  <1>1. /\ pending' = [pending EXCEPT ![w] = {}]
        /\ inserts' = [inserts EXCEPT ![w] = {}]
        /\ pc' = [pc EXCEPT ![w] = "down"]
        /\ UNCHANGED <<temp, nextId, main, seenAt, overlooked, unanswered, shared>>
    BY DEF Kill, GoTo, stagingVars, scanVars
  <1>2. WorkTypes
    BY DEF WorkInv
  <1>3. /\ \A v \in Workers : v # w => /\ pending'[v] = pending[v] /\ pc'[v] = pc[v]
                                       /\ inserts'[v] = inserts[v]
        /\ pending'[w] = {} /\ inserts'[w] = {} /\ pc'[w] = "down"
    BY <1>1, <1>2 DEF WorkTypes
  <1>4. WorkTypes'
    BY <1>1, <1>2 DEF WorkTypes
  <1> QED
    BY <1>1, <1>3, <1>4 DEF WorkInv, AgedShared, TicketsHeld, InsertsOfBatch, AnswersFresh,
       StoredFresh, AssetCoversSeen, HasRow, TicketOf, Pardoned

LEMMA StartedAgain ==
  ASSUME WorkInv, Rerun
  PROVE  WorkInv'
  <1>1. /\ pc' = [w \in Workers |-> "claim"]
        /\ \A w \in Workers : pc[w] = "down"
        /\ UNCHANGED <<temp, nextId, main, pending, inserts, seenAt, overlooked, unanswered,
                       shared>>
    BY DEF Rerun, Alive, scannerVars, stagingVars, scanVars
  <1>2. \A w \in Workers : inserts[w] = {}
    BY <1>1 DEF WorkInv, InsertsOfBatch
  <1> QED
    BY <1>1, <1>2 DEF WorkInv, WorkTypes, AgedShared, TicketsHeld, InsertsOfBatch, AnswersFresh,
       StoredFresh, AssetCoversSeen, HasRow, TicketOf, Pardoned

LEMMA GrownOld ==
  ASSUME WorkInv, NEW m \in Mints, Aging(m)
  PROVE  WorkInv'
  <1>1. /\ temp[m] # NoRow
        /\ temp' = [temp EXCEPT ![m].aged = TRUE]
        /\ shared' = shared \union {m}
        /\ UNCHANGED <<nextId, main, pc, pending, inserts, seenAt, overlooked, unanswered>>
    BY DEF Aging, HasRow, scanVars
  <1>2. WorkTypes
    BY DEF WorkInv
  <1>3. /\ \A x \in Mints : x # m => temp'[x] = temp[x]
        /\ temp'[m] = [temp[m] EXCEPT !.aged = TRUE]
        /\ temp[m] \in RowType
    BY <1>1, <1>2 DEF WorkTypes
  <1>4. temp'[m] \in RowType /\ temp'[m] # NoRow
    BY <1>3, NoRowAssumption DEF RowType
  <1>5. WorkTypes'
    <2>1. temp' \in [Mints -> RowType \union {NoRow}]
      BY <1>1, <1>2, <1>3, <1>4 DEF WorkTypes
    <2> QED
      BY <1>1, <1>2, <2>1 DEF WorkTypes
  <1>6. AgedShared'
    BY <1>1, <1>3 DEF WorkInv, AgedShared, HasRow
  <1>7. TicketsHeld'
    <2> SUFFICES ASSUME NEW v \in Workers, NEW t \in pending[v], t.mint \notin shared, t.mint # m
                 PROVE  HasRow(t.mint)' /\ TicketOf(t.mint)' = t /\ temp'[t.mint].by = v
      BY <1>1 DEF TicketsHeld
    <2>1. t.mint \in Mints
      BY <1>2 DEF WorkTypes, Ticket
    <2>2. HasRow(t.mint) /\ TicketOf(t.mint) = t /\ temp[t.mint].by = v
      BY DEF WorkInv, TicketsHeld
    <2> QED
      BY <1>3, <2>1, <2>2 DEF HasRow, TicketOf
  <1>8. InsertsOfBatch' /\ AnswersFresh' /\ StoredFresh'
    BY <1>1 DEF WorkInv, InsertsOfBatch, AnswersFresh, StoredFresh, Pardoned
  <1>9. AssetCoversSeen'
    BY <1>1, <1>3, <1>4 DEF WorkInv, AssetCoversSeen, HasRow
  <1> QED
    BY <1>5, <1>6, <1>7, <1>8, <1>9 DEF WorkInv

LEMMA WorkStep == ASSUME WorkInv, ScanInv, [Next]_vars PROVE WorkInv'
  <1>1. ASSUME NEW m \in Mints, Touch(m), UNCHANGED workerVars
        PROVE  WorkInv'
    BY <1>1, WorkUnchanged DEF Touch, workerVars, scanVars
  <1>2. ASSUME ScanStart \/ GetSlot \/ PageAnswered \/ TakePage \/ SaveProgress
                 \/ RequestScanStop \/ ScanCrash,
               UNCHANGED workerVars
        PROVE  WorkInv'
    <2>1. UNCHANGED <<stagingVars, seenAt, overlooked>>
      BY <1>2 DEF ScanStart, GetSlot, PageAnswered, TakePage, SaveProgress, RequestScanStop,
                  ScanCrash
    <2> QED
      BY <1>2, <2>1, WorkUnchanged DEF workerVars
  <1>3. CASE InsertPage /\ UNCHANGED workerVars
    BY <1>3, PageStaged
  <1>4. ASSUME NEW w \in Workers,
               Claim(w) \/ FetchAll(w) \/ InsertMain(w) \/ DeleteRows(w) \/ Kill(w)
        PROVE  WorkInv'
    BY <1>4, Claimed, Fetched, Upserted, RowsDeleted, Killed
  <1>5. ASSUME NEW w \in Workers, BatchFails(w)
        PROVE  WorkInv'
    <2>1. Release(w, "claim")
          /\ UNCHANGED <<nextId, main, seenAt, overlooked, unanswered, shared>>
      BY <1>5 DEF BatchFails, scanVars
    <2> QED
      BY <2>1, Released
  <1>6. ASSUME NEW w \in Workers, Leave(w)
        PROVE  WorkInv'
    <2>1. Release(w, "down")
          /\ UNCHANGED <<nextId, main, seenAt, overlooked, unanswered, shared>>
      BY <1>6 DEF Leave, scanVars
    <2> QED
      BY <2>1, Released
  <1>7. CASE RequestStop
    BY <1>7, WorkUnchanged DEF RequestStop, scanVars
  <1>8. CASE UNCHANGED vars
    BY <1>8, WorkUnchanged DEF vars, scannerVars, workerVars, scanVars
  <1>9. CASE Rerun
    BY <1>9, StartedAgain
  <1>10. ASSUME NEW m \in Mints, Aging(m)
         PROVE  WorkInv'
    BY <1>10, GrownOld
  <1> QED
    BY <1>1, <1>2, <1>3, <1>4, <1>5, <1>6, <1>7, <1>8, <1>9, <1>10 DEF Next

\* However workers claim, fail, are killed and take over old claims while the
\* scanner stages mints again: a usable mint the scanner has seen is staged or
\* has an asset at least as new, unless a request failed, its row was held when
\* it was staged again, or its claim outlived the limit.
THEOREM SeenReachesAssets == Spec => []AssetCoversSeen
  <1>1. Init => ScanInv /\ WorkInv
    BY ScanStarts, WorkStarts
  <1>2. ScanInv /\ WorkInv /\ [Next]_vars => ScanInv' /\ WorkInv'
    BY ScanStep, WorkStep
  <1>3. WorkInv => AssetCoversSeen
    BY DEF WorkInv
  <1> QED
    BY <1>1, <1>2, <1>3, PTL DEF Spec
=============================================================================
