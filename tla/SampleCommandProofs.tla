------------------------ MODULE SampleCommandProofs ------------------------
(***************************************************************************)
(* Proofs about SampleCommand, for any pairs, images, workers, queue and   *)
(* cache sizes, any number of runs, crashes and failed file operations:    *)
(* the image session implements the download sink the sampler relies on,   *)
(* a bundle is published whole unless a recovery itself is cut short, and  *)
(* every image that is loading has exactly one job.                        *)
(***************************************************************************)
EXTENDS SampleCommand, FiniteSetTheorems, TLAPS

-----------------------------------------------------------------------------
(* The session is a download sink.                                         *)

Answers == {"none", "success", "failure"}

\* A pair is pending or answered, never both.
PendingUnanswered ==
    /\ pending \subseteq Candidates
    /\ outcome \in [Candidates -> Answers]
    /\ \A c \in pending : outcome[c] = "none"
    /\ staged \subseteq Candidates

\* A delivery answers some pending pairs, or none, whichever copies fail.
LEMMA DeliveryAnswers ==
    ASSUME PendingUnanswered, NEW S, NEW bad, Deliver(S, bad, pending)
    PROVE  /\ PendingUnanswered'
           /\ Sink!AnswerSome \/ UNCHANGED Sink!sinkVars
  <1> DEFINE have == [c \in pending |-> got[c] \union SidesOf(S \ bad, c)]
             refused == {c \in pending : SidesOf(bad, c) # {}}
             complete == {c \in pending \ refused :
                            SidesOf(S, c) # {} /\ have[c] = Sides}
             answered == refused \union complete
             answer == [c \in answered |-> IF c \in refused THEN "failure" ELSE "success"]
  <1>1. /\ pending' = pending \ answered
        /\ outcome' = [c \in Candidates |-> IF c \in refused THEN "failure"
                                            ELSE IF c \in complete THEN "success"
                                            ELSE outcome[c]]
        /\ completed' = (completed \union refused) \union complete
        /\ staged' = staged \union complete
    BY DEF Deliver
  <1>a. /\ refused \subseteq pending /\ complete \subseteq pending
        /\ refused \intersect complete = {}
    OBVIOUS
  <1> HIDE DEF refused, complete
  <1>2. answered \subseteq pending
    BY <1>a
  <1>3. PendingUnanswered'
    BY <1>1, <1>a DEF PendingUnanswered, Answers
  <1>4. CASE answered = {}
    <2>1. pending' = pending /\ outcome' = outcome /\ completed' = completed
          /\ staged' = staged
      BY <1>1, <1>4 DEF PendingUnanswered
    <2> QED
      BY <1>3, <2>1 DEF Sink!sinkVars
  <1>5. CASE answered # {}
    <2>1. answered \in (SUBSET Sink!Requested) \ {{}}
      BY <1>2, <1>5 DEF Sink!Requested, PendingUnanswered
    <2>2. PICK T, f : T = answered /\ f = answer
      OBVIOUS
    <2>3. f \in [T -> Sink!Outcomes]
      BY <2>2 DEF Sink!Outcomes
    <2>4. Sink!Answer(f)
      BY <1>1, <1>a, <2>2 DEF Sink!Answer, PendingUnanswered, Answers
    <2> QED
      BY <1>3, <2>1, <2>2, <2>3, <2>4 DEF Sink!AnswerSome
  <1> QED
    BY <1>4, <1>5

\* What a request delivers belongs to the submitted pair.
LEMMA RequestedOfPair ==
    ASSUME NEW s, NEW c, NEW x \in Sides,
           s = [state |-> s.state, consumers |-> s.consumers, order |-> s.order,
                delivered |-> s.delivered, jobs |-> s.jobs],
           s.delivered \subseteq {c} \X Sides
    PROVE  LET r == Request(s, c, x)
           IN /\ r = [state |-> r.state, consumers |-> r.consumers, order |-> r.order,
                      delivered |-> r.delivered, jobs |-> r.jobs]
              /\ r.delivered \subseteq {c} \X Sides
  <1> DEFINE u == UriOf[c][x]
             r == Request(s, c, x)
  <1>1. CASE s.state[u] = "loading"
    <2>1. r = [s EXCEPT !.consumers[u] = @ \union {<<c, x>>}]
      BY <1>1 DEF Request
    <2> QED
      BY <2>1
  <1>2. CASE s.state[u] = "ready"
    <2>1. r = [s EXCEPT !.delivered = @ \union {<<c, x>>}]
      BY <1>2 DEF Request
    <2> QED
      BY <2>1
  <1>3. CASE s.state[u] = "none" /\ u \in cached
    <2>1. r = [Remember(s, u) EXCEPT !.delivered = @ \union {<<c, x>>}]
      BY <1>3 DEF Request
    <2>2. PICK order, state : Remember(s, u) = [s EXCEPT !.order = order, !.state = state]
      BY DEF Remember
    <2>3. /\ r = [state |-> state, consumers |-> s.consumers, order |-> order,
                  delivered |-> r.delivered, jobs |-> s.jobs]
          /\ r.delivered = s.delivered \union {<<c, x>>}
      BY <2>1, <2>2
    <2> QED
      BY <2>3
  <1>4. CASE s.state[u] # "loading" /\ s.state[u] # "ready"
             /\ ~(s.state[u] = "none" /\ u \in cached)
    <2>1. r = [s EXCEPT !.state[u] = "loading",
                        !.consumers[u] = {<<c, x>>},
                        !.jobs = Append(@, [uri |-> u, attempt |-> 0])]
      BY <1>4 DEF Request
    <2> QED
      BY <2>1
  <1> QED
    BY <1>1, <1>2, <1>3, <1>4

\* A submitted pair becomes pending, or is answered on the spot.
LEMMA SubmissionAccepted ==
    ASSUME PendingUnanswered, NEW c \in Candidates, Submit(c)
    PROVE  /\ PendingUnanswered'
           /\ Sink!Submit(c) \/ Sink!SubmitKnown(c)
  <1> DEFINE s == [state |-> uriState, consumers |-> consumers, order |-> readyOrder,
                   delivered |-> {}, jobs |-> unsent]
             first == Request(s, c, "A")
             r == Request(first, c, "B")
             P == pending \union {c}
  <1>1. r.delivered \subseteq {c} \X Sides
    <2>1. /\ first = [state |-> first.state, consumers |-> first.consumers,
                      order |-> first.order, delivered |-> first.delivered,
                      jobs |-> first.jobs]
          /\ first.delivered \subseteq {c} \X Sides
      BY RequestedOfPair DEF Sides
    <2> HIDE DEF first
    <2> QED
      BY <2>1, RequestedOfPair DEF Sides
  <1>2. PICK bad \in SUBSET r.delivered : Deliver(r.delivered, bad, P)
    BY DEF Submit
  <1> HIDE DEF r
  <1> DEFINE have == [d \in P |-> got[d] \union SidesOf(r.delivered \ bad, d)]
             refused == {d \in P : SidesOf(bad, d) # {}}
             complete == {d \in P \ refused : SidesOf(r.delivered, d) # {} /\ have[d] = Sides}
             answered == refused \union complete
  <1>3. /\ pending' = P \ answered
        /\ outcome' = [d \in Candidates |-> IF d \in refused THEN "failure"
                                            ELSE IF d \in complete THEN "success"
                                            ELSE outcome[d]]
        /\ completed' = (completed \union refused) \union complete
        /\ staged' = staged \union complete
    BY <1>2 DEF Deliver
  <1>4. refused \subseteq {c} /\ complete \subseteq {c} /\ refused \intersect complete = {}
    BY <1>1 DEF SidesOf
  <1>5. c \notin pending /\ outcome[c] = "none"
    BY DEF Submit
  <1> HIDE DEF refused, complete
  <1>6. PendingUnanswered'
    BY <1>3, <1>4, <1>5 DEF PendingUnanswered, Answers
  <1>7. CASE answered = {}
    BY <1>3, <1>5, <1>6, <1>7 DEF Sink!Submit, PendingUnanswered
  <1>8. CASE refused = {c}
    <2>1. complete = {}
      BY <1>4, <1>8
    <2>2. Sink!Answer([d \in {c} |-> "failure"])
      BY <1>3, <1>5, <1>8, <2>1 DEF Sink!Answer, PendingUnanswered, Answers
    <2> QED
      BY <1>5, <1>6, <2>2 DEF Sink!SubmitKnown, Sink!Outcomes
  <1>9. CASE complete = {c}
    <2>1. refused = {}
      BY <1>4, <1>9
    <2>2. Sink!Answer([d \in {c} |-> "success"])
      BY <1>3, <1>5, <1>9, <2>1 DEF Sink!Answer, PendingUnanswered, Answers
    <2> QED
      BY <1>5, <1>6, <2>2 DEF Sink!SubmitKnown, Sink!Outcomes
  <1> QED
    BY <1>4, <1>7, <1>8, <1>9

\* Processing a result answers pairs or none.
LEMMA ResultAnswers ==
    ASSUME PendingUnanswered, NEW due, Receive(due)
    PROVE  PendingUnanswered' /\ (Sink!AnswerSome \/ UNCHANGED Sink!sinkVars)
  <1> DEFINE r == Head(results)
             u == r.job.uri
  <1>1. CASE /\ r.kind \in {"ok", "failed"}
             /\ uriState[u] = "loading"
             /\ \E bad \in IF r.kind = "ok" THEN SUBSET consumers[u]
                           ELSE {consumers[u]} :
                  Deliver(consumers[u], bad, pending)
    BY <1>1, DeliveryAnswers
  <1>2. CASE UNCHANGED <<pending, outcome, completed, staged>>
    BY <1>2 DEF PendingUnanswered, Sink!sinkVars
  <1> QED
    BY <1>1, <1>2 DEF Receive, ProcessResult, KeepSession

\* A poll that returns reports every answer.
LEMMA ReturnReports ==
    ASSUME PendingUnanswered, NEW due, ReceiveNothing(due)
    PROVE  PendingUnanswered' /\ (Sink!Report \/ UNCHANGED Sink!sinkVars)
  <1>1. CASE main = "waiting"
    BY <1>1 DEF ReceiveNothing, PendingUnanswered, Sink!sinkVars
  <1>2. CASE main # "waiting"
    <2>1. /\ completed' = {}
          /\ UNCHANGED <<pending, outcome, staged>>
      BY <1>2 DEF ReceiveNothing
    <2>2. Sink!Answered = {c \in Candidates : outcome[c] # "none"}
      BY DEF Sink!Answered, Sink!Outcomes, PendingUnanswered, Answers
    <2> QED
      BY <2>1, <2>2 DEF PendingUnanswered, Sink!Report
  <1> QED
    BY <1>1, <1>2

\* Every step of the session is a step of the sink or none of its business.
LEMMA SessionStep ==
    ASSUME PendingUnanswered, SessionNext
    PROVE  PendingUnanswered' /\ (Sink!SinkNext \/ UNCHANGED Sink!sinkVars)
  <1>1. ASSUME NEW c \in Candidates, Submit(c)
        PROVE  PendingUnanswered' /\ Sink!SinkNext
    BY <1>1, SubmissionAccepted DEF Sink!SinkNext
  <1>2. ASSUME NEW due, Receive(due) \/ ReceiveNothing(due)
        PROVE  PendingUnanswered' /\ (Sink!SinkNext \/ UNCHANGED Sink!sinkVars)
    BY <1>2, ResultAnswers, ReturnReports DEF Sink!SinkNext
  <1>3. ASSUME NEW S \in SUBSET staged, Retain(S)
        PROVE  PendingUnanswered' /\ Sink!SinkNext
    <2>1. /\ S \subseteq staged /\ staged' = S
          /\ UNCHANGED <<pending, outcome, completed>>
      BY <1>3 DEF Retain
    <2>2. S \in SUBSET Candidates /\ Sink!Retain(S)
      BY <2>1 DEF Sink!Retain, PendingUnanswered
    <2> QED
      BY <2>1, <2>2 DEF Sink!SinkNext, PendingUnanswered
  <1>4. CASE UNCHANGED <<pending, outcome, completed, staged>>
    BY <1>4 DEF PendingUnanswered, Sink!sinkVars
  <1>5. ASSUME NEW wait, StartPoll(wait)
        PROVE  UNCHANGED <<pending, outcome, completed, staged>>
    BY <1>5 DEF StartPoll
  <1>6. ASSUME Close \/ Joined \/ Cancel
        PROVE  UNCHANGED <<pending, outcome, completed, staged>>
    BY <1>6 DEF Close, Joined, Cancel, mainVars
  <1>7. ASSUME NEW w \in ImageWorkers, WorkerStep(w)
        PROVE  UNCHANGED <<pending, outcome, completed, staged>>
    BY <1>7 DEF WorkerStep, TakeJob, WorkerEnds, FetchImage, FetchFails, FetchLater,
                FetchInterrupted, mainVars
  <1> QED
    BY <1>1, <1>2, <1>3, <1>4, <1>5, <1>6, <1>7
       DEF SessionNext, SamplerCall, PollTurn

LEMMA ResetReopens ==
    ASSUME SessionReset
    PROVE  PendingUnanswered' /\ Sink!Reopen
  BY DEF SessionReset, PendingUnanswered, Answers, Sink!Reopen

LEMMA CommandStepOfSink ==
    ASSUME PendingUnanswered, [CommandNext]_commandVars
    PROVE  PendingUnanswered' /\ [Sink!SinkNext]_Sink!sinkVars
  <1>1. CASE InSession
    BY <1>1, SessionStep DEF InSession
  <1>2. CASE SessionReset
    BY <1>2, ResetReopens DEF Sink!SinkNext
  <1>3. CASE UNCHANGED sessionVars
    BY <1>3 DEF sessionVars, mainVars, PendingUnanswered, Sink!sinkVars
  <1> QED
    BY <1>1, <1>2, <1>3
       DEF CommandNext, Publish, GiveUp, OnDisk, Crashes, Restart, SessionGone, commandVars

\* The sampler may rely on the session, run after run and across crashes, as
\* on a DownloadSink: one lasting answer per submitted pair, each reported
\* once, and exactly the successes kept.
THEOREM SessionImplementsSink == CommandSpec => SessionIsSink
  <1>1. CommandInit => PendingUnanswered /\ Sink!SinkInit
    BY DEF CommandInit, SessionInit, PendingUnanswered, Answers, Sink!SinkInit
  <1>2. PendingUnanswered /\ [CommandNext]_commandVars
        => PendingUnanswered' /\ [Sink!SinkNext]_Sink!sinkVars
    BY CommandStepOfSink
  <1> QED
    BY <1>1, <1>2, PTL DEF CommandSpec, SessionIsSink, Sink!SinkSpec

-----------------------------------------------------------------------------
(* A bundle is published whole, for any list of outputs and any number of  *)
(* runs, crashes and failed file operations, as long as no crash hits a    *)
(* recovery that undoes a commit.                                          *)

TxRecord == [state: {"none", "committing", "committed"}, items: BOOLEAN,
             staged: SUBSET Names, backup: [Names -> Versions]]

BundleTypes ==
    /\ stage \in {"start", "undo", "clean", "session", "prepared", "backup", "install",
                  "rollback", "tidy", "ended"}
    /\ run \in Runs /\ idx \in Nat
    /\ out \in [Names -> Versions]
    /\ tx \in [Runs -> TxRecord]
    /\ dirs \subseteq Runs
    /\ expected \in Versions
    /\ recoveryCrashes \in Nat

\* Stages in which the running program works on its own transaction.
Publishing == {"backup", "install", "rollback"}

Own == {"session", "prepared", "tidy"} \union Publishing

\* What the next recovery would do to item n brings back the expected version.
Undoable(r, n) ==
    IF tx[r].backup[n] # NoFile THEN tx[r].backup[n] = expected
    ELSE IF n \in tx[r].staged THEN out[n] = expected
    ELSE expected = NoFile

Whole == \A n \in Names : out[n] = expected

\* Later runs have left no trace, nor has this one before its session ends.
NothingAhead ==
    \A r \in Runs :
        r > run \/ (r = run /\ stage \in {"start", "undo", "clean", "session"})
            => tx[r] = EmptyTx

\* The newest bundle is of this run only once it has been committed.
ExpectedBehind ==
    /\ expected # NoFile => expected <= run
    /\ expected = run => stage \in {"tidy", "ended"}

\* At most one transaction is open, it has a directory, and is not the
\* expected version.
OneOpen ==
    /\ \A r, s \in Runs : tx[r].state # "none" /\ tx[s].state # "none" => r = s
    /\ \A r \in Runs : tx[r].state # "none" => r \in dirs
    /\ \A r \in Runs : tx[r].state = "committing" => expected # r
    /\ \A r \in Runs : tx[r].state = "committing" /\ stage # "clean" => tx[r].items

\* Between commits: the bundle is whole, or one open transaction can undo it.
AtRest ==
    stage \in {"start", "ended"} =>
        \/ Whole /\ \A r \in Runs : tx[r].state # "committing"
        \/ \E r \in Runs : tx[r].state = "committing" /\ \A n \in Names : Undoable(r, n)

\* During a recovery: what is behind idx is restored, the rest can be.
InUndo ==
    stage = "undo" =>
        /\ rec \in Runs /\ rec < run /\ tx[rec].state = "committing"
        /\ idx <= Len(Items)
        /\ \A i \in DOMAIN Items :
            IF i <= idx THEN Undoable(rec, Items[i]) ELSE out[Items[i]] = expected

InClean ==
    stage = "clean" =>
        /\ rec \in dirs /\ rec < run
        /\ Whole
        /\ \A r \in Runs \ {rec} : tx[r].state = "none"

\* A run that has started its session has no other transaction beside it.
Alone ==
    stage \in Own =>
        /\ run \in dirs
        /\ \A r \in Runs \ {run} : tx[r].state = "none"
        /\ stage \in Publishing <=> tx[run].state = "committing"

InSessionWhole == stage \in {"session", "prepared", "tidy"} => Whole

Prepared ==
    stage = "prepared" =>
        /\ tx[run].staged = Names /\ tx[run].items
        /\ \A n \in Names : tx[run].backup[n] = NoFile

InBackup ==
    stage = "backup" =>
        /\ idx >= 1
        /\ tx[run].staged = Names
        /\ \A i \in DOMAIN Items :
            IF i < idx THEN out[Items[i]] = NoFile /\ tx[run].backup[Items[i]] = expected
            ELSE out[Items[i]] = expected /\ tx[run].backup[Items[i]] = NoFile

InInstall ==
    stage = "install" =>
        /\ idx >= 1
        /\ \A n \in Names : tx[run].backup[n] = expected
        /\ \A i \in DOMAIN Items :
            IF i < idx THEN out[Items[i]] = run /\ Items[i] \notin tx[run].staged
            ELSE out[Items[i]] = NoFile /\ Items[i] \in tx[run].staged

InRollback ==
    stage = "rollback" =>
        \A n \in Names : /\ Undoable(run, n)
                         /\ n \notin tx[run].staged => out[n] = run

BundleInv ==
    /\ BundleTypes /\ NothingAhead /\ ExpectedBehind /\ OneOpen
    /\ AtRest /\ InUndo /\ InClean /\ Alone /\ InSessionWhole /\ Prepared
    /\ InBackup /\ InInstall /\ InRollback

\* The outputs are numbered without repetition, and NoFile is no version.
LEMMA ItemFacts ==
    /\ Items \in Seq(Names) /\ Len(Items) \in Nat /\ DOMAIN Items = 1..Len(Items)
    /\ \A i \in DOMAIN Items : Items[i] \in Names
    /\ \A n \in Names : \E i \in DOMAIN Items : Items[i] = n
    /\ \A i, j \in DOMAIN Items : Items[i] = Items[j] => i = j
    /\ Runs = 1..MaxRuns /\ MaxRuns \in Nat \ {0}
    /\ Versions = 0..MaxRuns \union {NoFile} /\ NoFile \notin 0..MaxRuns
  BY BundleAssumption DEF Names, Runs, Versions

\* One field of one transaction changes.
TxChanges(r, state, items, files, backup) ==
    /\ tx' \in [Runs -> TxRecord]
    /\ tx'[r] = [state |-> state, items |-> items, staged |-> files, backup |-> backup]
    /\ \A s \in Runs \ {r} : tx'[s] = tx[s]

\* What an assignment to one field of a transaction does.
LEMMA StateChanges ==
    ASSUME BundleTypes, NEW r \in Runs, NEW v \in {"none", "committing", "committed"},
           tx' = [tx EXCEPT ![r].state = v]
    PROVE  TxChanges(r, v, tx[r].items, tx[r].staged, tx[r].backup)
  <1>1. tx[r] \in TxRecord
    BY DEF BundleTypes
  <1> DEFINE t == [tx[r] EXCEPT !.state = v]
  <1>2. t \in TxRecord /\ t = [state |-> v, items |-> tx[r].items, staged |-> tx[r].staged,
                               backup |-> tx[r].backup]
    BY <1>1 DEF TxRecord
  <1>3. tx' = [tx EXCEPT ![r] = t]
    OBVIOUS
  <1> HIDE DEF t
  <1> QED
    BY <1>2, <1>3 DEF BundleTypes, TxChanges

LEMMA StagedChanges ==
    ASSUME BundleTypes, NEW r \in Runs, NEW v \in SUBSET Names,
           tx' = [tx EXCEPT ![r].staged = v]
    PROVE  TxChanges(r, tx[r].state, tx[r].items, v, tx[r].backup)
  <1>1. tx[r] \in TxRecord
    BY DEF BundleTypes
  <1> DEFINE t == [tx[r] EXCEPT !.staged = v]
  <1>2. t \in TxRecord /\ t = [state |-> tx[r].state, items |-> tx[r].items, staged |-> v,
                               backup |-> tx[r].backup]
    BY <1>1 DEF TxRecord
  <1>3. tx' = [tx EXCEPT ![r] = t]
    OBVIOUS
  <1> HIDE DEF t
  <1> QED
    BY <1>2, <1>3 DEF BundleTypes, TxChanges

LEMMA BackupChanges ==
    ASSUME BundleTypes, NEW r \in Runs, NEW n \in Names, NEW v \in Versions,
           tx' = [tx EXCEPT ![r].backup[n] = v]
    PROVE  TxChanges(r, tx[r].state, tx[r].items, tx[r].staged,
                     [tx[r].backup EXCEPT ![n] = v])
  <1>1. tx[r] \in TxRecord
    BY DEF BundleTypes
  <1> DEFINE t == [tx[r] EXCEPT !.backup[n] = v]
  <1>2. t \in TxRecord /\ t = [state |-> tx[r].state, items |-> tx[r].items,
                               staged |-> tx[r].staged,
                               backup |-> [tx[r].backup EXCEPT ![n] = v]]
    BY <1>1 DEF TxRecord
  <1>3. tx' = [tx EXCEPT ![r] = t]
    OBVIOUS
  <1> HIDE DEF t
  <1> QED
    BY <1>2, <1>3 DEF BundleTypes, TxChanges

LEMMA ItemsDropped ==
    ASSUME NEW x \in TxRecord, NEW v \in BOOLEAN
    PROVE  /\ [x EXCEPT !.items = v] \in TxRecord
           /\ [x EXCEPT !.items = v]
                = [state |-> x.state, items |-> v, staged |-> x.staged, backup |-> x.backup]
  BY DEF TxRecord

\* Removing an entry of a directory changes its transaction only, whose state
\* stays or goes.
LEMMA EntryGoes ==
    ASSUME BundleTypes, NEW r \in Runs, RemoveEntry(r)
    PROVE  \E state \in {"none", tx[r].state}, items \in BOOLEAN,
              files \in SUBSET Names, backup \in [Names -> Versions] :
                TxChanges(r, state, items, files, backup)
  <1>1. tx[r] \in TxRecord
    BY DEF BundleTypes
  <1>2. CASE tx' = [tx EXCEPT ![r].state = "none"]
    BY <1>1, <1>2, StateChanges DEF TxRecord
  <1>3. CASE tx' = [tx EXCEPT ![r].items = FALSE]
    <2> DEFINE t == [tx[r] EXCEPT !.items = FALSE]
    <2>1. t \in TxRecord /\ t = [state |-> tx[r].state, items |-> FALSE,
                                 staged |-> tx[r].staged, backup |-> tx[r].backup]
      BY <1>1, ItemsDropped
    <2>2. tx' = [tx EXCEPT ![r] = t]
      BY <1>3
    <2>3. tx[r].state \in {"none", tx[r].state} /\ tx[r].staged \in SUBSET Names
          /\ tx[r].backup \in [Names -> Versions]
      BY <1>1 DEF TxRecord
    <2> HIDE DEF t
    <2>4. TxChanges(r, tx[r].state, FALSE, tx[r].staged, tx[r].backup)
      BY <2>1, <2>2 DEF BundleTypes, TxChanges
    <2> QED
      BY <2>3, <2>4
  <1>4. ASSUME NEW n \in tx[r].staged, tx' = [tx EXCEPT ![r].staged = @ \ {n}]
        PROVE  TxChanges(r, tx[r].state, tx[r].items, tx[r].staged \ {n}, tx[r].backup)
    BY <1>1, <1>4, StagedChanges DEF TxRecord
  <1>5. ASSUME NEW n \in Names, tx' = [tx EXCEPT ![r].backup[n] = NoFile]
        PROVE  TxChanges(r, tx[r].state, tx[r].items, tx[r].staged,
                         [tx[r].backup EXCEPT ![n] = NoFile])
    BY <1>5, BackupChanges DEF Versions
  <1> QED
    BY <1>1, <1>2, <1>3, <1>4, <1>5 DEF RemoveEntry, TxRecord, Versions

-----------------------------------------------------------------------------
(* One lemma per action.                                                   *)

LEMMA StartRecoveryKeeps ==
    ASSUME BundleInv, StartRecovery
    PROVE  BundleInv'
  <1>1. PICK r \in Transactions :
            /\ rec' = r /\ idx' = Len(Items)
            /\ stage' = IF tx[r].state = "committed" THEN "clean"
                        ELSE IF tx[r].items THEN "undo" ELSE "ended"
    BY DEF StartRecovery
  <1>2. /\ stage = "start"
        /\ UNCHANGED <<run, out, tx, dirs, expected, recoveryCrashes>>
    BY DEF StartRecovery
  <1>3. r \in Runs /\ r \in dirs /\ tx[r].state \in {"committing", "committed"} /\ r < run
    BY <1>2, ItemFacts
       DEF BundleInv, BundleTypes, Transactions, TxRecord, NothingAhead, EmptyTx
  <1>4. BundleTypes' /\ NothingAhead' /\ ExpectedBehind'
    BY <1>1, <1>2, ItemFacts
       DEF BundleInv, BundleTypes, NothingAhead, ExpectedBehind
  <1>5. \A s \in Runs \ {r} : tx[s].state = "none"
    BY <1>3 DEF BundleInv, OneOpen
  <1>6. CASE tx[r].state = "committing"
    <2>1. stage' = "undo" /\ \A n \in Names : Undoable(r, n)
      BY <1>1, <1>2, <1>3, <1>5, <1>6 DEF BundleInv, OneOpen, AtRest
    <2>2. OneOpen'
      BY <1>2, <2>1 DEF BundleInv, OneOpen
    <2>3. InUndo'
      BY <1>1, <1>2, <1>3, <1>6, <2>1, ItemFacts DEF InUndo, Undoable
    <2> QED
      BY <1>4, <2>1, <2>2, <2>3
         DEF BundleInv, AtRest, InClean, Alone, Own, Publishing, InSessionWhole, Prepared,
             InBackup, InInstall, InRollback
  <1>7. CASE tx[r].state = "committed"
    <2>1. stage' = "clean" /\ Whole
      BY <1>1, <1>2, <1>5, <1>7 DEF BundleInv, AtRest
    <2>2. OneOpen' /\ InClean'
      BY <1>1, <1>2, <1>3, <1>5, <2>1 DEF BundleInv, OneOpen, InClean, Whole
    <2> QED
      BY <1>4, <2>1, <2>2
         DEF BundleInv, AtRest, InUndo, Alone, Own, Publishing, InSessionWhole, Prepared,
             InBackup, InInstall, InRollback
  <1> QED
    BY <1>3, <1>6, <1>7

LEMMA UndoItemKeeps ==
    ASSUME BundleInv, UndoItem
    PROVE  BundleInv'
  <1>1. rec \in Runs /\ rec < run /\ idx \in DOMAIN Items /\ Items[idx] \in Names
    BY ItemFacts DEF BundleInv, BundleTypes, InUndo, UndoItem
  <1>2. TxChanges(rec, tx[rec].state, tx[rec].items, tx[rec].staged,
                  [tx[rec].backup EXCEPT ![Items[idx]] = NoFile])
    BY <1>1, BackupChanges DEF BundleInv, UndoItem, Versions
  <1>3. /\ stage = "undo" /\ idx' = idx - 1
        /\ UNCHANGED <<stage, run, rec, dirs, expected, recoveryCrashes>>
    BY DEF UndoItem
  <1>4. out' \in [Names -> Versions] /\ out'[Items[idx]] = expected
        /\ \A n \in Names : n # Items[idx] => out'[n] = out[n]
    <2>1. Undoable(rec, Items[idx])
      BY <1>1, <1>3, ItemFacts DEF BundleInv, InUndo
    <2> QED
      BY <1>1, <2>1 DEF UndoItem, Undoable, BundleInv, BundleTypes, TxRecord, Versions
  <1>5. BundleTypes'
    BY <1>1, <1>2, <1>3, <1>4, ItemFacts DEF BundleInv, BundleTypes, TxChanges
  <1>6. NothingAhead' /\ ExpectedBehind'
    BY <1>1, <1>2, <1>3, ItemFacts
       DEF BundleInv, BundleTypes, NothingAhead, ExpectedBehind, TxChanges
  <1>7. OneOpen'
    BY <1>1, <1>2, <1>3 DEF BundleInv, OneOpen, TxChanges
  <1>8. InUndo'
    <2>1. tx[rec].backup \in [Names -> Versions]
      BY <1>1 DEF BundleInv, BundleTypes, TxRecord
    <2>2. ASSUME NEW i \in DOMAIN Items, i <= idx'
          PROVE  Undoable(rec, Items[i])'
      <3>1. i # idx /\ Items[i] # Items[idx] /\ Items[i] \in Names /\ Undoable(rec, Items[i])
        BY <1>1, <1>3, <2>2, ItemFacts DEF BundleInv, InUndo
      <3> QED
        BY <1>1, <1>2, <1>3, <1>4, <2>1, <3>1 DEF Undoable, TxChanges
    <2>3. ASSUME NEW i \in DOMAIN Items, ~(i <= idx')
          PROVE  out'[Items[i]] = expected'
      BY <1>1, <1>3, <1>4, <2>3, ItemFacts DEF BundleInv, InUndo
    <2> QED
      BY <1>1, <1>2, <1>3, <2>2, <2>3, ItemFacts DEF BundleInv, InUndo, TxChanges
  <1> QED
    BY <1>3, <1>5, <1>6, <1>7, <1>8
       DEF BundleInv, AtRest, InClean, Alone, Own, Publishing, InSessionWhole, Prepared,
           InBackup, InInstall, InRollback

LEMMA UndoEndsKeeps ==
    ASSUME BundleInv, UndoEnds
    PROVE  BundleInv'
  <1>1. Whole
    BY ItemFacts DEF BundleInv, InUndo, UndoEnds, Whole
  <1>2. InClean'
    BY <1>1 DEF BundleInv, InUndo, UndoEnds, InClean, Whole, OneOpen
  <1>3. BundleTypes' /\ NothingAhead' /\ ExpectedBehind' /\ OneOpen'
    BY DEF BundleInv, UndoEnds, BundleTypes, NothingAhead, ExpectedBehind, OneOpen
  <1> QED
    BY <1>2, <1>3
       DEF BundleInv, UndoEnds, AtRest, InUndo, Alone, Own, Publishing, InSessionWhole,
           Prepared, InBackup, InInstall, InRollback

LEMMA CleanKeeps ==
    ASSUME BundleInv, Clean
    PROVE  BundleInv'
  <1>1. /\ stage = "clean" /\ rec \in Runs /\ rec < run /\ rec \in dirs
        /\ UNCHANGED <<run, idx, rec, out, expected, recoveryCrashes>>
    BY DEF BundleInv, BundleTypes, InClean, Clean
  <1>2. Whole /\ Whole' /\ \A r \in Runs \ {rec} : tx[r].state = "none"
    BY <1>1 DEF BundleInv, InClean, Whole
  <1>3. CASE RemoveEntry(rec) /\ UNCHANGED <<stage, dirs>>
    <2>1. PICK state \in {"none", tx[rec].state}, items \in BOOLEAN,
               files \in SUBSET Names, backup \in [Names -> Versions] :
                    TxChanges(rec, state, items, files, backup)
      BY <1>1, <1>3, EntryGoes DEF BundleInv
    <2>2. BundleTypes'
      BY <1>1, <1>3, <2>1 DEF BundleInv, BundleTypes, TxChanges
    <2>3. NothingAhead' /\ ExpectedBehind'
      BY <1>1, <1>3, <2>1, ItemFacts
         DEF BundleInv, BundleTypes, NothingAhead, ExpectedBehind, TxChanges
    <2>4. OneOpen' /\ InClean'
      BY <1>1, <1>2, <1>3, <2>1 DEF BundleInv, OneOpen, InClean, TxChanges
    <2> QED
      BY <1>1, <1>3, <2>2, <2>3, <2>4
         DEF BundleInv, AtRest, InUndo, Alone, Own, Publishing, InSessionWhole, Prepared,
             InBackup, InInstall, InRollback
  <1>4. CASE tx[rec] = EmptyTx /\ dirs' = dirs \ {rec} /\ stage' = "start" /\ tx' = tx
    <2>1. \A r \in Runs : tx[r].state = "none"
      BY <1>2, <1>4 DEF EmptyTx
    <2>2. BundleTypes' /\ NothingAhead' /\ ExpectedBehind'
      BY <1>1, <1>4, ItemFacts DEF BundleInv, BundleTypes, NothingAhead, ExpectedBehind
    <2>3. OneOpen' /\ AtRest'
      BY <1>2, <1>4, <2>1 DEF OneOpen, AtRest
    <2> QED
      BY <1>4, <2>2, <2>3
         DEF BundleInv, InUndo, InClean, Alone, Own, Publishing, InSessionWhole, Prepared,
             InBackup, InInstall, InRollback
  <1> QED
    BY <1>3, <1>4 DEF Clean, RemoveDir

LEMMA OpenStagingKeeps ==
    ASSUME BundleInv, OpenStaging
    PROVE  BundleInv'
  <1>1. /\ stage = "start" /\ stage' = "session" /\ dirs' = dirs \union {run}
        /\ UNCHANGED <<run, idx, rec, out, tx, expected, recoveryCrashes>>
    BY DEF OpenStaging
  <1>2. \A r \in Runs : tx[r].state = "none"
    BY DEF BundleInv, OneOpen, OpenStaging, Transactions
  <1>3. Whole'
    BY <1>1, <1>2 DEF BundleInv, AtRest, Whole
  <1>4. BundleTypes' /\ NothingAhead' /\ ExpectedBehind' /\ OneOpen'
    BY <1>1, <1>2, ItemFacts
       DEF BundleInv, BundleTypes, NothingAhead, ExpectedBehind, OneOpen
  <1>5. Alone'
    BY <1>1, <1>2 DEF BundleInv, BundleTypes, Alone, Own, Publishing
  <1> QED
    BY <1>1, <1>3, <1>4, <1>5
       DEF BundleInv, AtRest, InUndo, InClean, InSessionWhole, Prepared, InBackup,
           InInstall, InRollback

LEMMA StageOutputsKeeps ==
    ASSUME BundleInv, stage = "session", StageOutputs
    PROVE  BundleInv'
  <1>1. /\ stage' = "prepared" /\ run \in Runs /\ tx[run] = EmptyTx
        /\ UNCHANGED <<run, out, dirs, expected, idx, recoveryCrashes>>
    BY ItemFacts DEF BundleInv, BundleTypes, NothingAhead, StageOutputs
  <1>2. TxChanges(run, "none", TRUE, Names, tx[run].backup)
    <2> DEFINE e == tx[run]
               laid == [e EXCEPT !.staged = Names]
               t == [laid EXCEPT !.items = TRUE]
    <2>1. e \in TxRecord
      BY <1>1 DEF BundleInv, BundleTypes
    <2>2. /\ laid \in TxRecord
          /\ laid = [state |-> e.state, items |-> e.items, staged |-> Names,
                     backup |-> e.backup]
      BY <2>1 DEF TxRecord
    <2>3. /\ t \in TxRecord
          /\ t = [state |-> e.state, items |-> TRUE, staged |-> Names, backup |-> e.backup]
      <3>1. PICK yes \in BOOLEAN : yes = TRUE
        OBVIOUS
      <3> HIDE DEF laid, e
      <3> DEFINE listed == [laid EXCEPT !.items = yes]
      <3>2. /\ listed \in TxRecord
            /\ listed = [state |-> e.state, items |-> yes, staged |-> Names,
                         backup |-> e.backup]
        BY <2>2 DEF TxRecord
      <3> QED
        BY <3>1, <3>2
    <2>5. e.state = "none"
      BY <1>1 DEF EmptyTx
    <2>4. tx' = [tx EXCEPT ![run] = t]
      BY <1>1, <2>1 DEF StageOutputs, BundleInv, BundleTypes, TxRecord
    <2> HIDE DEF t
    <2> QED
      BY <1>1, <2>3, <2>4, <2>5 DEF BundleInv, BundleTypes, TxChanges
  <1>3. BundleTypes' /\ NothingAhead' /\ ExpectedBehind'
    BY <1>1, <1>2, ItemFacts
       DEF BundleInv, BundleTypes, NothingAhead, ExpectedBehind, TxChanges
  <1>4. OneOpen' /\ Alone'
    BY <1>1, <1>2 DEF BundleInv, OneOpen, Alone, Own, Publishing, TxChanges
  <1>5. InSessionWhole' /\ Prepared'
    BY <1>1, <1>2 DEF BundleInv, InSessionWhole, Whole, Prepared, TxChanges, EmptyTx
  <1> QED
    BY <1>1, <1>3, <1>4, <1>5
       DEF BundleInv, AtRest, InUndo, InClean, InBackup, InInstall, InRollback

LEMMA BeginCommitKeeps ==
    ASSUME BundleInv, BeginCommit
    PROVE  BundleInv'
  <1>1. /\ stage = "prepared" /\ stage' = "backup" /\ idx' = 1 /\ run \in Runs
        /\ UNCHANGED <<run, rec, out, dirs, expected, recoveryCrashes>>
    BY DEF BundleInv, BundleTypes, BeginCommit
  <1>2. TxChanges(run, "committing", tx[run].items, tx[run].staged, tx[run].backup)
    BY <1>1, StateChanges DEF BundleInv, BeginCommit
  <1>3. BundleTypes' /\ NothingAhead' /\ ExpectedBehind'
    BY <1>1, <1>2, ItemFacts
       DEF BundleInv, BundleTypes, NothingAhead, ExpectedBehind, TxChanges
  <1>4. OneOpen' /\ Alone'
    BY <1>1, <1>2
       DEF BundleInv, OneOpen, Alone, Own, Publishing, Prepared, ExpectedBehind, TxChanges
  <1>5. InBackup'
    BY <1>1, <1>2, ItemFacts
       DEF BundleInv, InSessionWhole, Whole, Prepared, InBackup, TxChanges
  <1> QED
    BY <1>1, <1>3, <1>4, <1>5
       DEF BundleInv, AtRest, InUndo, InClean, InSessionWhole, Prepared, InInstall,
           InRollback

LEMMA BackupKeeps ==
    ASSUME BundleInv, Backup
    PROVE  BundleInv'
  <1>1. run \in Runs /\ idx \in DOMAIN Items /\ Items[idx] \in Names
        /\ out[Items[idx]] \in Versions
    BY ItemFacts DEF BundleInv, BundleTypes, InBackup, Backup
  <1>2. TxChanges(run, tx[run].state, tx[run].items, tx[run].staged,
                  [tx[run].backup EXCEPT ![Items[idx]] = out[Items[idx]]])
    BY <1>1, BackupChanges DEF BundleInv, Backup
  <1>3. /\ stage = "backup" /\ out' = [out EXCEPT ![Items[idx]] = NoFile]
        /\ idx' = idx + 1 /\ idx \in Nat
        /\ UNCHANGED <<stage, run, rec, dirs, expected, recoveryCrashes>>
    BY DEF Backup, BundleInv, BundleTypes
  <1>4. BundleTypes' /\ NothingAhead' /\ ExpectedBehind'
    BY <1>1, <1>2, <1>3, ItemFacts
       DEF BundleInv, BundleTypes, NothingAhead, ExpectedBehind, TxChanges
  <1>5. OneOpen' /\ Alone'
    BY <1>1, <1>2, <1>3 DEF BundleInv, OneOpen, Alone, Own, Publishing, TxChanges
  <1>6. InBackup'
    <2>1. \A i \in DOMAIN Items : Items[i] = Items[idx] => i = idx
      BY <1>1, ItemFacts
    <2>2. tx[run].backup \in [Names -> Versions]
      BY <1>1 DEF BundleInv, BundleTypes, TxRecord
    <2> QED
      BY <1>1, <1>2, <1>3, <2>1, <2>2, ItemFacts
         DEF BundleInv, BundleTypes, InBackup, TxChanges
  <1> QED
    BY <1>3, <1>4, <1>5, <1>6
       DEF BundleInv, AtRest, InUndo, InClean, InSessionWhole, Prepared, InInstall,
           InRollback

LEMMA BackupEndsKeeps ==
    ASSUME BundleInv, BackupEnds
    PROVE  BundleInv'
  <1>1. /\ stage = "backup" /\ stage' = "install" /\ idx > Len(Items) /\ idx' = 1
        /\ UNCHANGED <<run, rec, out, tx, dirs, expected, recoveryCrashes>>
    BY DEF BackupEnds
  <1>2. BundleTypes' /\ NothingAhead' /\ ExpectedBehind' /\ OneOpen' /\ Alone'
    BY <1>1 DEF BundleInv, BundleTypes, NothingAhead, ExpectedBehind, OneOpen, Alone, Own,
                Publishing
  <1>3. InInstall'
    BY <1>1, ItemFacts DEF BundleInv, BundleTypes, InBackup, InInstall
  <1> QED
    BY <1>1, <1>2, <1>3
       DEF BundleInv, AtRest, InUndo, InClean, InSessionWhole, Prepared, InBackup,
           InRollback

LEMMA InstallKeeps ==
    ASSUME BundleInv, Install
    PROVE  BundleInv'
  <1>1. run \in Runs /\ idx \in DOMAIN Items /\ Items[idx] \in Names
    BY ItemFacts DEF BundleInv, BundleTypes, InInstall, Install
  <1>2. tx[run].staged \ {Items[idx]} \in SUBSET Names
    BY <1>1 DEF BundleInv, BundleTypes, TxRecord
  <1>3. TxChanges(run, tx[run].state, tx[run].items, tx[run].staged \ {Items[idx]},
                  tx[run].backup)
    BY <1>1, <1>2, StagedChanges DEF BundleInv, Install
  <1>4. /\ stage = "install" /\ out' = [out EXCEPT ![Items[idx]] = run]
        /\ idx' = idx + 1 /\ idx \in Nat
        /\ UNCHANGED <<stage, run, rec, dirs, expected, recoveryCrashes>>
    BY DEF Install, BundleInv, BundleTypes
  <1>5. BundleTypes' /\ NothingAhead' /\ ExpectedBehind'
    BY <1>1, <1>3, <1>4, ItemFacts
       DEF BundleInv, BundleTypes, NothingAhead, ExpectedBehind, TxChanges
  <1>6. OneOpen' /\ Alone'
    BY <1>1, <1>3, <1>4 DEF BundleInv, OneOpen, Alone, Own, Publishing, TxChanges
  <1>7. InInstall'
    <2>1. \A i \in DOMAIN Items : Items[i] = Items[idx] => i = idx
      BY <1>1, ItemFacts
    <2>2. ASSUME NEW i \in DOMAIN Items
          PROVE  IF i < idx + 1 THEN out'[Items[i]] = run /\ Items[i] \notin tx'[run].staged
                 ELSE out'[Items[i]] = NoFile /\ Items[i] \in tx'[run].staged
      <3>1. Items[i] \in Names /\ i \in Nat
        BY ItemFacts
      <3>2. IF i < idx THEN out[Items[i]] = run /\ Items[i] \notin tx[run].staged
            ELSE out[Items[i]] = NoFile /\ Items[i] \in tx[run].staged
        BY <1>4 DEF BundleInv, InInstall
      <3>3. tx'[run].staged = tx[run].staged \ {Items[idx]}
        BY <1>3 DEF TxChanges
      <3>4. out \in [Names -> Versions]
        BY DEF BundleInv, BundleTypes
      <3>5. CASE i = idx
        BY <1>1, <1>4, <3>1, <3>3, <3>4, <3>5
      <3>6. CASE i # idx
        <4>1. i < idx + 1 <=> i < idx
          BY <1>4, <3>1, <3>6
        <4> QED
          BY <1>1, <1>4, <2>1, <3>1, <3>2, <3>3, <3>4, <3>6, <4>1
      <3> QED
        BY <3>5, <3>6
    <2>3. \A n \in Names : tx'[run].backup[n] = expected
      BY <1>3, <1>4 DEF BundleInv, InInstall, TxChanges
    <2> QED
      BY <1>1, <1>4, <2>2, <2>3 DEF BundleInv, InInstall
  <1> QED
    BY <1>4, <1>5, <1>6, <1>7
       DEF BundleInv, AtRest, InUndo, InClean, InSessionWhole, Prepared, InBackup,
           InRollback

LEMMA CommittedKeeps ==
    ASSUME BundleInv, Committed
    PROVE  BundleInv'
  <1>1. /\ stage = "install" /\ stage' = "tidy" /\ idx > Len(Items) /\ expected' = run
        /\ run \in Runs
        /\ UNCHANGED <<run, idx, rec, out, dirs, recoveryCrashes>>
    BY DEF BundleInv, BundleTypes, Committed
  <1>2. TxChanges(run, "committed", tx[run].items, tx[run].staged, tx[run].backup)
    BY <1>1, StateChanges DEF BundleInv, Committed
  <1>3. BundleTypes' /\ NothingAhead' /\ ExpectedBehind'
    BY <1>1, <1>2, ItemFacts
       DEF BundleInv, BundleTypes, NothingAhead, ExpectedBehind, TxChanges
  <1>4. OneOpen' /\ Alone'
    BY <1>1, <1>2 DEF BundleInv, OneOpen, Alone, Own, Publishing, TxChanges
  <1>5. InSessionWhole'
    BY <1>1, ItemFacts DEF BundleInv, BundleTypes, InInstall, InSessionWhole, Whole
  <1> QED
    BY <1>1, <1>3, <1>4, <1>5
       DEF BundleInv, AtRest, InUndo, InClean, Prepared, InBackup, InInstall, InRollback

LEMMA FileErrorKeeps ==
    ASSUME BundleInv, FileError
    PROVE  BundleInv'
  <1>1. /\ stage \in {"backup", "install"} /\ stage' = "rollback"
        /\ UNCHANGED <<run, idx, rec, out, tx, dirs, expected, recoveryCrashes>>
    BY DEF FileError
  <1>2. BundleTypes' /\ NothingAhead' /\ ExpectedBehind' /\ OneOpen' /\ Alone'
    BY <1>1 DEF BundleInv, BundleTypes, NothingAhead, ExpectedBehind, OneOpen, Alone, Own,
                Publishing
  <1>3. InRollback'
    <2>1. CASE stage = "backup"
      BY <1>1, <2>1, ItemFacts DEF BundleInv, InBackup, InRollback, Undoable
    <2>2. CASE stage = "install"
      BY <1>1, <2>2, ItemFacts DEF BundleInv, InInstall, InRollback, Undoable
    <2> QED
      BY <1>1, <2>1, <2>2
  <1> QED
    BY <1>1, <1>2, <1>3
       DEF BundleInv, AtRest, InUndo, InClean, InSessionWhole, Prepared, InBackup, InInstall

LEMMA RestoreKeeps ==
    ASSUME BundleInv, Restore
    PROVE  BundleInv'
  <1>1. /\ stage = "rollback" /\ run \in Runs /\ tx[run] \in TxRecord
        /\ UNCHANGED <<stage, run, idx, rec, dirs, expected, recoveryCrashes>>
    BY DEF BundleInv, BundleTypes, Restore
  <1>2. ASSUME NEW n \in Names, NEW files \in SUBSET Names,
               NEW backup \in [Names -> Versions], out' \in [Names -> Versions],
               \A m \in Names \ {n} :
                    /\ out'[m] = out[m] /\ backup[m] = tx[run].backup[m]
                    /\ m \in files <=> m \in tx[run].staged,
               TxChanges(run, tx[run].state, tx[run].items, files, backup),
               n \in files,
               IF backup[n] # NoFile THEN backup[n] = expected ELSE out'[n] = expected
        PROVE  BundleInv'
    <2>1. BundleTypes' /\ NothingAhead' /\ ExpectedBehind'
      BY <1>1, <1>2, ItemFacts
         DEF BundleInv, BundleTypes, NothingAhead, ExpectedBehind, TxChanges
    <2>2. OneOpen' /\ Alone'
      BY <1>1, <1>2 DEF BundleInv, OneOpen, Alone, Own, Publishing, TxChanges
    <2>3. InRollback'
      <3>1. /\ tx'[run].backup = backup /\ tx'[run].staged = files
        BY <1>2 DEF TxChanges
      <3> QED
        BY <1>1, <1>2, <3>1 DEF BundleInv, InRollback, Undoable
    <2> QED
      BY <1>1, <2>1, <2>2, <2>3
         DEF BundleInv, AtRest, InUndo, InClean, InSessionWhole, Prepared, InBackup,
             InInstall
  <1>3. ASSUME NEW n \in Installed, out' = [out EXCEPT ![n] = NoFile],
               tx' = [tx EXCEPT ![run].staged = @ \union {n}]
        PROVE  BundleInv'
    <2>1. n \in Names /\ out[n] = run /\ expected # run /\ run # NoFile
      BY <1>1, <1>3, ItemFacts DEF BundleInv, ExpectedBehind, Installed
    <2>2. TxChanges(run, tx[run].state, tx[run].items, tx[run].staged \union {n},
                    tx[run].backup)
      BY <1>1, <1>3, <2>1, StagedChanges DEF BundleInv, TxRecord
    <2>3. IF tx[run].backup[n] # NoFile THEN tx[run].backup[n] = expected
          ELSE out'[n] = expected
      BY <1>1, <1>3, <2>1 DEF BundleInv, BundleTypes, InRollback, Undoable
    <2>4. /\ tx[run].staged \union {n} \in SUBSET Names
          /\ tx[run].backup \in [Names -> Versions]
      BY <1>1, <2>1 DEF TxRecord
    <2>5. out' \in [Names -> Versions]
      BY <1>3 DEF BundleInv, BundleTypes, Versions
    <2>6. \A m \in Names \ {n} :
            out'[m] = out[m] /\ (m \in tx[run].staged \union {n} <=> m \in tx[run].staged)
      BY <1>3 DEF BundleInv, BundleTypes
    <2> QED
      BY <1>2, <2>1, <2>2, <2>3, <2>4, <2>5, <2>6
  <1>4. ASSUME NEW n \in BackedUp, Installed = {},
               out' = [out EXCEPT ![n] = tx[run].backup[n]],
               tx' = [tx EXCEPT ![run].backup[n] = NoFile]
        PROVE  BundleInv'
    <2>1. n \in Names /\ tx[run].backup[n] = expected
      BY <1>1, <1>4 DEF BundleInv, InRollback, Undoable, BackedUp
    <2>2. n \in tx[run].staged
      BY <1>1, <1>4, <2>1 DEF BundleInv, InRollback, Installed
    <2>3. TxChanges(run, tx[run].state, tx[run].items, tx[run].staged,
                    [tx[run].backup EXCEPT ![n] = NoFile])
      BY <1>1, <1>4, <2>1, BackupChanges DEF BundleInv, Versions
    <2>4. tx[run].backup \in [Names -> Versions] /\ tx[run].staged \in SUBSET Names
      BY <1>1 DEF TxRecord
    <2>5. [tx[run].backup EXCEPT ![n] = NoFile] \in [Names -> Versions]
      BY <2>4 DEF Versions
    <2>6. out' \in [Names -> Versions] /\ out'[n] = expected
      BY <1>4, <2>1, <2>4 DEF BundleInv, BundleTypes
    <2> QED
      BY <1>2, <1>4, <2>1, <2>2, <2>3, <2>4, <2>5, <2>6, SMTT(30) DEF BundleInv, BundleTypes
  <1> QED
    BY <1>3, <1>4 DEF Restore

LEMMA RestoreEndsKeeps ==
    ASSUME BundleInv, RestoreEnds
    PROVE  BundleInv'
  <1>1. /\ stage = "rollback" /\ stage' = "ended"
        /\ UNCHANGED <<run, idx, rec, out, tx, dirs, expected, recoveryCrashes>>
    BY DEF RestoreEnds
  <1>2. BundleTypes' /\ NothingAhead' /\ ExpectedBehind' /\ OneOpen'
    BY <1>1 DEF BundleInv, BundleTypes, NothingAhead, ExpectedBehind, OneOpen
  <1>3. AtRest'
    BY <1>1 DEF BundleInv, BundleTypes, Alone, Own, Publishing, InRollback, AtRest, Undoable
  <1> QED
    BY <1>1, <1>2, <1>3
       DEF BundleInv, InUndo, InClean, Alone, Own, Publishing, InSessionWhole, Prepared,
           InBackup, InInstall, InRollback

LEMMA GiveUpKeeps ==
    ASSUME BundleInv, GiveUp
    PROVE  BundleInv'
  <1>1. /\ stage = "session" /\ stage' = "tidy"
        /\ UNCHANGED <<run, idx, rec, out, tx, dirs, expected, recoveryCrashes>>
    BY DEF GiveUp
  <1>2. BundleTypes' /\ NothingAhead' /\ ExpectedBehind' /\ OneOpen'
    BY <1>1 DEF BundleInv, BundleTypes, NothingAhead, ExpectedBehind, OneOpen
  <1>3. Alone' /\ InSessionWhole'
    BY <1>1 DEF BundleInv, Alone, Own, Publishing, InSessionWhole, Whole
  <1> QED
    BY <1>1, <1>2, <1>3
       DEF BundleInv, AtRest, InUndo, InClean, Prepared, InBackup, InInstall, InRollback

LEMMA TidyKeeps ==
    ASSUME BundleInv, Tidy
    PROVE  BundleInv'
  <1>1. /\ stage = "tidy" /\ run \in Runs /\ run \in dirs
        /\ UNCHANGED <<run, idx, rec, out, expected, recoveryCrashes>>
    BY DEF BundleInv, BundleTypes, Alone, Own, Tidy
  <1>2. /\ Whole /\ Whole' /\ tx[run].state # "committing"
        /\ \A r \in Runs \ {run} : tx[r].state = "none"
    BY <1>1 DEF BundleInv, InSessionWhole, Alone, Own, Publishing, Whole
  <1>3. CASE RemoveEntry(run) /\ UNCHANGED <<stage, dirs>>
    <2>1. PICK state \in {"none", tx[run].state}, items \in BOOLEAN,
               files \in SUBSET Names, backup \in [Names -> Versions] :
                    TxChanges(run, state, items, files, backup)
      BY <1>1, <1>3, EntryGoes DEF BundleInv
    <2>2. BundleTypes'
      BY <1>1, <1>3, <2>1 DEF BundleInv, BundleTypes, TxChanges
    <2>3. NothingAhead' /\ ExpectedBehind'
      BY <1>1, <1>3, <2>1, ItemFacts
         DEF BundleInv, BundleTypes, NothingAhead, ExpectedBehind, TxChanges
    <2>4. OneOpen' /\ Alone' /\ InSessionWhole'
      BY <1>1, <1>2, <1>3, <2>1
         DEF BundleInv, OneOpen, Alone, Own, Publishing, InSessionWhole, TxChanges
    <2> QED
      BY <1>1, <1>3, <2>2, <2>3, <2>4
         DEF BundleInv, AtRest, InUndo, InClean, Prepared, InBackup, InInstall, InRollback
  <1>4. CASE tx[run] = EmptyTx /\ dirs' = dirs \ {run} /\ stage' = "ended" /\ tx' = tx
    <2>1. \A r \in Runs : tx[r].state = "none"
      BY <1>2, <1>4 DEF EmptyTx
    <2>2. BundleTypes' /\ NothingAhead' /\ ExpectedBehind'
      BY <1>1, <1>4, ItemFacts DEF BundleInv, BundleTypes, NothingAhead, ExpectedBehind
    <2>3. OneOpen' /\ AtRest'
      BY <1>2, <1>4, <2>1 DEF OneOpen, AtRest
    <2> QED
      BY <1>4, <2>2, <2>3
         DEF BundleInv, InUndo, InClean, Alone, Own, Publishing, InSessionWhole, Prepared,
             InBackup, InInstall, InRollback
  <1> QED
    BY <1>3, <1>4 DEF Tidy, RemoveDir

\* Wherever a run dies outside the undoing of a commit, the next one can
\* undo what it left.
LEMMA CrashKeeps ==
    ASSUME BundleInv, MaxRecoveryCrashes = 0, Crash
    PROVE  BundleInv'
  <1>1. /\ stage # "ended" /\ stage' = "ended" /\ ~Undoing
        /\ UNCHANGED <<run, idx, rec, out, tx, dirs, expected>>
        /\ recoveryCrashes' = recoveryCrashes
    <2>1. ~(recoveryCrashes < MaxRecoveryCrashes)
      BY DEF BundleInv, BundleTypes
    <2> QED
      BY <2>1 DEF Crash
  <1>2. stage = "clean" => \A r \in Runs : tx[r].state # "committing"
    BY <1>1 DEF BundleInv, InClean, OneOpen, Undoing
  <1>3. BundleTypes' /\ NothingAhead' /\ ExpectedBehind'
    BY <1>1 DEF BundleInv, BundleTypes, NothingAhead, ExpectedBehind
  <1>4. OneOpen'
    BY <1>1, <1>2 DEF BundleInv, OneOpen
  <1>5. AtRest'
    <2>1. CASE stage \in {"start", "clean"}
      BY <1>1, <1>2, <2>1 DEF BundleInv, InClean, AtRest, Whole, Undoable
    <2>2. CASE stage \in {"session", "prepared", "tidy"}
      BY <1>1, <2>2 DEF BundleInv, Alone, Own, Publishing, InSessionWhole, AtRest, Whole
    <2>3. CASE stage \in Publishing
      <3>1. run \in Runs /\ tx[run].state = "committing"
        BY <2>3 DEF BundleInv, BundleTypes, Alone, Own
      <3>2. ASSUME NEW n \in Names PROVE Undoable(run, n)
        BY <2>3, ItemFacts
           DEF BundleInv, InBackup, InInstall, InRollback, Undoable, Publishing
      <3> QED
        BY <1>1, <3>1, <3>2 DEF AtRest, Undoable
    <2> QED
      BY <1>1, <2>1, <2>2, <2>3 DEF BundleInv, BundleTypes, Undoing, Publishing
  <1> QED
    BY <1>1, <1>3, <1>4, <1>5
       DEF BundleInv, InUndo, InClean, Alone, Own, Publishing, InSessionWhole, Prepared,
           InBackup, InInstall, InRollback

LEMMA NextRunKeeps ==
    ASSUME BundleInv, NextRun
    PROVE  BundleInv'
  <1>1. /\ stage = "ended" /\ run < MaxRuns /\ run' = run + 1 /\ stage' = "start"
        /\ idx' = 0 /\ run \in Runs
        /\ UNCHANGED <<out, tx, dirs, expected, recoveryCrashes>>
    BY DEF BundleInv, BundleTypes, NextRun
  <1>2. BundleTypes' /\ ExpectedBehind'
    BY <1>1, ItemFacts DEF BundleInv, BundleTypes, ExpectedBehind
  <1>3. NothingAhead' /\ OneOpen'
    <2>1. NothingAhead'
      BY <1>1, ItemFacts DEF BundleInv, NothingAhead
    <2>2. OneOpen'
      BY <1>1, ItemFacts DEF BundleInv, OneOpen
    <2> QED
      BY <2>1, <2>2
  <1>4. AtRest'
    BY <1>1 DEF BundleInv, AtRest, Whole, Undoable
  <1> QED
    BY <1>1, <1>2, <1>3, <1>4
       DEF BundleInv, InUndo, InClean, Alone, Own, Publishing, InSessionWhole, Prepared,
           InBackup, InInstall, InRollback

-----------------------------------------------------------------------------
(* The invariant and what follows from it.                                 *)

LEMMA BundleInvInit == CommandInit => BundleInv
  <1> SUFFICES ASSUME CommandInit PROVE BundleInv
    OBVIOUS
  <1>1. BundleTypes
    BY ItemFacts DEF CommandInit, BundleInit, BundleTypes, TxRecord, EmptyTx
  <1>2. /\ stage = "start" /\ run = 1 /\ expected \in {0, NoFile} /\ Whole
        /\ \A r \in Runs : tx[r] = EmptyTx
    BY DEF CommandInit, BundleInit, Whole
  <1>3. \A r \in Runs : tx[r].state = "none"
    BY <1>2 DEF EmptyTx
  <1>4. NothingAhead /\ OneOpen /\ AtRest
    BY <1>2, <1>3 DEF NothingAhead, OneOpen, AtRest
  <1>5. ExpectedBehind
    BY <1>2, ItemFacts DEF ExpectedBehind
  <1> QED
    BY <1>1, <1>2, <1>4, <1>5
       DEF BundleInv, InUndo, InClean, Alone, Own, Publishing, InSessionWhole, Prepared,
           InBackup, InInstall, InRollback

LEMMA BundleInvStep ==
    ASSUME BundleInv, MaxRecoveryCrashes = 0, [CommandNext]_commandVars
    PROVE  BundleInv'
  <1>1. CASE UNCHANGED bundleVars
    BY <1>1 DEF bundleVars, BundleInv, BundleTypes, NothingAhead, ExpectedBehind, OneOpen,
                AtRest, InUndo, InClean, Alone, InSessionWhole, Prepared, InBackup,
                InInstall, InRollback, Whole, Undoable
  <1>2. CASE BundleStep
    BY <1>2, StartRecoveryKeeps, UndoItemKeeps, UndoEndsKeeps, CleanKeeps,
       OpenStagingKeeps, BeginCommitKeeps, BackupKeeps, BackupEndsKeeps, InstallKeeps,
       CommittedKeeps, FileErrorKeeps, RestoreKeeps, RestoreEndsKeeps, TidyKeeps
       DEF BundleStep
  <1>3. CASE Publish
    BY <1>3, StageOutputsKeeps DEF Publish
  <1> QED
    BY <1>1, <1>2, <1>3, GiveUpKeeps, CrashKeeps, NextRunKeeps
       DEF CommandNext, InSession, OnDisk, Crashes, Restart, commandVars

\* Whatever fails or crashes, a run that has recovered what it found, or has
\* published, shows the outputs of the last completed commit and nothing
\* else.  The run sample_recovery_twice shows why the assumption is needed.
THEOREM BundlesStayWhole ==
    ASSUME MaxRecoveryCrashes = 0
    PROVE  CommandSpec => []PublishedWhole
  <1>1. BundleInv /\ [CommandNext]_commandVars => BundleInv'
    BY BundleInvStep
  <1>2. BundleInv => PublishedWhole
    BY DEF BundleInv, InSessionWhole, Whole, PublishedWhole
  <1> QED
    BY <1>1, <1>2, BundleInvInit, PTL DEF CommandSpec

-----------------------------------------------------------------------------
(* Every URI that is loading has one job.                                  *)

\* The jobs not with a worker yet, b; with the workers, h; on their way back,
\* r; and waiting for their time, d.
Busy(h) == {w \in ImageWorkers : h[w] # NoJob}

PlaceTypes(b, h, r, d) ==
    /\ b \in Seq(Job)
    /\ h \in [ImageWorkers -> Job \union {NoJob}]
    /\ r \in Seq(Result)
    /\ d \subseteq Job

\* No two places hold jobs of the same URI.
Distinct(b, h, r, d) ==
    /\ \A i, j \in DOMAIN b : b[i].uri = b[j].uri => i = j
    /\ \A v, w \in Busy(h) : h[v].uri = h[w].uri => v = w
    /\ \A i, j \in DOMAIN r : r[i].job.uri = r[j].job.uri => i = j
    /\ \A j, k \in d : j.uri = k.uri => j = k

Apart(b, h, r, d) ==
    /\ \A i \in DOMAIN b : \A w \in Busy(h) : b[i].uri # h[w].uri
    /\ \A i \in DOMAIN b : \A j \in DOMAIN r : b[i].uri # r[j].job.uri
    /\ \A i \in DOMAIN b : \A j \in d : b[i].uri # j.uri
    /\ \A w \in Busy(h) : \A j \in DOMAIN r : h[w].uri # r[j].job.uri
    /\ \A w \in Busy(h) : \A j \in d : h[w].uri # j.uri
    /\ \A i \in DOMAIN r : \A j \in d : r[i].job.uri # j.uri

\* Some place holds a job of u.
Placed(u, b, h, r, d) ==
    \/ \E i \in DOMAIN b : b[i].uri = u
    \/ \E w \in Busy(h) : h[w].uri = u
    \/ \E i \in DOMAIN r : r[i].job.uri = u
    \/ \E j \in d : j.uri = u

OnePlace(L, b, h, r, d) ==
    /\ PlaceTypes(b, h, r, d)
    /\ Distinct(b, h, r, d) /\ Apart(b, h, r, d)
    /\ \A u \in Uris : u \in L <=> Placed(u, b, h, r, d)

LEMMA JobAppended ==
    ASSUME NEW L, NEW b, NEW h, NEW r, NEW d, OnePlace(L, b, h, r, d),
           NEW u \in Uris \ L, NEW a \in 0..MaxAttempts - 1
    PROVE  OnePlace(L \union {u}, Append(b, [uri |-> u, attempt |-> a]), h, r, d)
  <1> DEFINE job == [uri |-> u, attempt |-> a]
             c == Append(b, job)
  <1>1. job \in Job /\ job.uri = u
    BY DEF Job
  <1>2. b \in Seq(Job)
    BY DEF OnePlace, PlaceTypes
  <1> HIDE DEF job
  <1>3. /\ c \in Seq(Job) /\ DOMAIN c = DOMAIN b \union {Len(b) + 1}
        /\ \A i \in DOMAIN b : c[i] = b[i]
        /\ c[Len(b) + 1] = job
        /\ Len(b) + 1 \notin DOMAIN b
    BY <1>1, <1>2
  <1>4. ~Placed(u, b, h, r, d)
    BY DEF OnePlace
  <1> HIDE DEF c
  <1>5. PlaceTypes(c, h, r, d)
    BY <1>3 DEF OnePlace, PlaceTypes
  <1>6. Distinct(c, h, r, d)
    BY <1>1, <1>3, <1>4 DEF OnePlace, Distinct, Placed
  <1>7. Apart(c, h, r, d)
    BY <1>1, <1>3, <1>4 DEF OnePlace, Apart, Placed
  <1>8. \A v \in Uris : v \in L \union {u} <=> Placed(v, c, h, r, d)
    BY <1>1, <1>3 DEF OnePlace, Placed
  <1> QED
    BY <1>5, <1>6, <1>7, <1>8 DEF OnePlace, c, job

\* A sequence of some of the delayed jobs.
LEMMA DueOnce ==
    ASSUME NEW d, IsFiniteSet(d), NEW due \in SetToAllKPermutations(d)
    PROVE  /\ due \in Seq(d)
           /\ \A i, j \in DOMAIN due : due[i] = due[j] => i = j
           /\ \A i \in DOMAIN due : due[i] \in d
           /\ ToSet(due) = {due[i] : i \in DOMAIN due}
  <1>1. PICK s \in SUBSET d : due \in SetToSeqs(s)
    BY DEF SetToAllKPermutations
  <1>2. Cardinality(s) \in Nat
    BY FS_Subset, FS_CardinalityType
  <1>3. /\ due \in [1..Cardinality(s) -> s]
        /\ \A i, j \in 1..Cardinality(s) : i # j => due[i] # due[j]
    BY <1>1 DEF SetToSeqs
  <1>4. due \in Seq(d)
    BY <1>1, <1>2, <1>3
  <1>5. ToSet(due) = {due[i] : i \in DOMAIN due}
    BY DEF ToSet
  <1> QED
    BY <1>3, <1>4, <1>5

LEMMA JobsSentAgain ==
    ASSUME NEW L, NEW b, NEW h, NEW r, NEW d, OnePlace(L, b, h, r, d), IsFiniteSet(d),
           NEW due \in SetToAllKPermutations(d)
    PROVE  OnePlace(L, b \o due, h, r, d \ ToSet(due))
  <1> DEFINE c == b \o due
             e == d \ ToSet(due)
  <1>1. /\ due \in Seq(d)
        /\ \A i, j \in DOMAIN due : due[i] = due[j] => i = j
        /\ \A i \in DOMAIN due : due[i] \in d
        /\ \A j \in d : j \in e <=> ~\E i \in DOMAIN due : due[i] = j
        /\ e \subseteq d
    BY DueOnce
  <1>2. b \in Seq(Job) /\ d \subseteq Job
    BY DEF OnePlace, PlaceTypes
  <1>3. due \in Seq(Job)
    BY <1>1, <1>2
  <1>4. /\ c \in Seq(Job) /\ Len(c) = Len(b) + Len(due)
        /\ \A i \in DOMAIN c : /\ i \in DOMAIN b => c[i] = b[i]
                               /\ i \notin DOMAIN b => /\ i - Len(b) \in DOMAIN due
                                                       /\ c[i] = due[i - Len(b)]
        /\ \A i \in DOMAIN b : i \in DOMAIN c
        /\ \A i \in DOMAIN due : i + Len(b) \in DOMAIN c /\ c[i + Len(b)] = due[i]
        /\ DOMAIN c \subseteq Nat /\ Len(b) \in Nat
    BY <1>2, <1>3
  <1> HIDE DEF c, e
  <1>5. PlaceTypes(c, h, r, e)
    BY <1>1, <1>4 DEF OnePlace, PlaceTypes
  <1>6. Distinct(c, h, r, e)
    <2>1. \A i, j \in DOMAIN c : c[i].uri = c[j].uri => i = j
      <3> SUFFICES ASSUME NEW i \in DOMAIN c, NEW j \in DOMAIN c, c[i].uri = c[j].uri
                   PROVE  i = j
        OBVIOUS
      <3>1. CASE i \in DOMAIN b /\ j \in DOMAIN b
        BY <1>4, <3>1 DEF OnePlace, Distinct
      <3>2. CASE i \in DOMAIN b /\ j \notin DOMAIN b
        BY <1>1, <1>4, <3>2 DEF OnePlace, Apart
      <3>3. CASE i \notin DOMAIN b /\ j \in DOMAIN b
        BY <1>1, <1>4, <3>3 DEF OnePlace, Apart
      <3>4. CASE i \notin DOMAIN b /\ j \notin DOMAIN b
        <4>1. /\ i - Len(b) \in DOMAIN due /\ c[i] = due[i - Len(b)]
              /\ j - Len(b) \in DOMAIN due /\ c[j] = due[j - Len(b)]
          BY <1>4, <3>4
        <4>2. c[i] = c[j]
          BY <1>1, <4>1 DEF OnePlace, Distinct
        <4>3. i - Len(b) = j - Len(b)
          BY <1>1, <4>1, <4>2
        <4> QED
          BY <1>4, <4>3
      <3> QED
        BY <3>1, <3>2, <3>3, <3>4
    <2> QED
      BY <1>1, <2>1 DEF OnePlace, Distinct
  <1>7. Apart(c, h, r, e)
    <2>1. \A i \in DOMAIN c : \A w \in Busy(h) : c[i].uri # h[w].uri
      BY <1>1, <1>4 DEF OnePlace, Apart
    <2>2. \A i \in DOMAIN c : \A j \in DOMAIN r : c[i].uri # r[j].job.uri
      BY <1>1, <1>4 DEF OnePlace, Apart
    <2>3. \A i \in DOMAIN c : \A j \in e : c[i].uri # j.uri
      <3> SUFFICES ASSUME NEW i \in DOMAIN c, NEW j \in e PROVE c[i].uri # j.uri
        OBVIOUS
      <3>1. CASE i \in DOMAIN b
        BY <1>1, <1>4, <3>1 DEF OnePlace, Apart
      <3>2. CASE i \notin DOMAIN b
        BY <1>1, <1>4, <3>2 DEF OnePlace, Distinct
      <3> QED
        BY <3>1, <3>2
    <2> QED
      BY <1>1, <2>1, <2>2, <2>3 DEF OnePlace, Apart
  <1>8. \A u \in Uris : u \in L <=> Placed(u, c, h, r, e)
    <2> SUFFICES ASSUME NEW u \in Uris
                 PROVE  Placed(u, b, h, r, d) <=> Placed(u, c, h, r, e)
      BY DEF OnePlace
    <2>1. (\E i \in DOMAIN c : c[i].uri = u)
          <=> (\E i \in DOMAIN b : b[i].uri = u) \/ (\E i \in DOMAIN due : due[i].uri = u)
      BY <1>4
    <2>2. (\E j \in d : j.uri = u)
          <=> (\E j \in e : j.uri = u) \/ (\E i \in DOMAIN due : due[i].uri = u)
      BY <1>1
    <2> QED
      BY <2>1, <2>2 DEF Placed
  <1> QED
    BY <1>5, <1>6, <1>7, <1>8 DEF OnePlace, c, e

\* What stays of a sequence without its head.
LEMMA TailOf ==
    ASSUME NEW T, NEW s \in Seq(T), s # <<>>
    PROVE  /\ Tail(s) \in Seq(T) /\ Head(s) = s[1] /\ Head(s) \in T
           /\ DOMAIN s \subseteq Nat /\ 1 \in DOMAIN s
           /\ \A i \in DOMAIN Tail(s) : i + 1 \in DOMAIN s /\ Tail(s)[i] = s[i + 1]
                                        /\ i + 1 # 1 /\ i \in Nat
           /\ \A i \in DOMAIN s : i # 1 => i - 1 \in DOMAIN Tail(s) /\ s[i] = Tail(s)[i - 1]
  OBVIOUS

LEMMA Appended ==
    ASSUME NEW T, NEW s \in Seq(T), NEW x \in T
    PROVE  /\ Append(s, x) \in Seq(T)
           /\ DOMAIN Append(s, x) = DOMAIN s \union {Len(s) + 1}
           /\ \A i \in DOMAIN s : Append(s, x)[i] = s[i]
           /\ Append(s, x)[Len(s) + 1] = x
           /\ Len(s) + 1 \notin DOMAIN s
  OBVIOUS

\* A worker takes the first job.
LEMMA JobTaken ==
    ASSUME NEW L, NEW b, NEW h, NEW r, NEW d, OnePlace(L, b, h, r, d), b # <<>>,
           NEW w \in ImageWorkers, h[w] = NoJob
    PROVE  OnePlace(L, Tail(b), [h EXCEPT ![w] = Head(b)], r, d)
  <1> DEFINE c == Tail(b)
             g == [h EXCEPT ![w] = Head(b)]
  <1>1. b \in Seq(Job) /\ h \in [ImageWorkers -> Job \union {NoJob}]
    BY DEF OnePlace, PlaceTypes
  <1>2. /\ c \in Seq(Job) /\ Head(b) = b[1] /\ Head(b) \in Job
        /\ DOMAIN b \subseteq Nat /\ 1 \in DOMAIN b
        /\ \A i \in DOMAIN c : i + 1 \in DOMAIN b /\ c[i] = b[i + 1] /\ i + 1 # 1
                               /\ i \in Nat
        /\ \A i \in DOMAIN b : i # 1 => i - 1 \in DOMAIN c /\ b[i] = c[i - 1]
    BY <1>1, TailOf
  <1>3. /\ g \in [ImageWorkers -> Job \union {NoJob}]
        /\ g[w] = b[1] /\ \A v \in ImageWorkers : v # w => g[v] = h[v]
    BY <1>1, <1>2
  <1>4. Busy(g) = Busy(h) \union {w} /\ w \notin Busy(h)
    BY <1>2, <1>3, SessionAssumption DEF Busy
  <1> HIDE DEF c, g
  <1>5. PlaceTypes(c, g, r, d)
    BY <1>2, <1>3 DEF OnePlace, PlaceTypes
  <1>6. Distinct(c, g, r, d)
    <2>1. \A i, j \in DOMAIN c : c[i].uri = c[j].uri => i = j
      <3> SUFFICES ASSUME NEW i \in DOMAIN c, NEW j \in DOMAIN c, c[i].uri = c[j].uri
                   PROVE  i = j
        OBVIOUS
      <3>1. i + 1 = j + 1
        BY <1>2 DEF OnePlace, Distinct
      <3> QED
        BY <1>2, <3>1
    <2>2. \A v \in Busy(h) : v \in ImageWorkers /\ v # w
      BY <1>4 DEF Busy
    <2>3. \A v, x \in Busy(g) : g[v].uri = g[x].uri => v = x
      BY <1>2, <1>3, <1>4, <2>2 DEF OnePlace, Distinct, Apart
    <2> QED
      BY <2>1, <2>3 DEF OnePlace, Distinct
  <1>7. Apart(c, g, r, d)
    <2>1. \A i \in DOMAIN c : c[i].uri # b[1].uri
      BY <1>2 DEF OnePlace, Distinct
    <2>2. \A v \in Busy(g) : (v \in Busy(h) /\ g[v] = h[v]) \/ g[v] = b[1]
      BY <1>3, <1>4 DEF Busy
    <2>3. \A i \in DOMAIN c : \E k \in DOMAIN b : c[i] = b[k]
      BY <1>2
    <2>4. \A i \in DOMAIN c : \A v \in Busy(g) : c[i].uri # g[v].uri
      BY <2>1, <2>2, <2>3 DEF OnePlace, Apart
    <2>5. 1 \in DOMAIN b
      BY <1>2
    <2>7. /\ \A v \in Busy(g) : \A j \in DOMAIN r : g[v].uri # r[j].job.uri
          /\ \A v \in Busy(g) : \A j \in d : g[v].uri # j.uri
      BY <2>2, <2>5 DEF OnePlace, Apart
    <2>6. /\ \A i \in DOMAIN c : \A j \in DOMAIN r : c[i].uri # r[j].job.uri
          /\ \A i \in DOMAIN c : \A j \in d : c[i].uri # j.uri
          /\ \A i \in DOMAIN r : \A j \in d : r[i].job.uri # j.uri
      BY <2>3 DEF OnePlace, Apart
    <2> QED
      BY <2>4, <2>6, <2>7 DEF Apart
  <1>8. \A u \in Uris : u \in L <=> Placed(u, c, g, r, d)
    <2> SUFFICES ASSUME NEW u \in Uris
                 PROVE  Placed(u, b, h, r, d) <=> Placed(u, c, g, r, d)
      BY DEF OnePlace
    <2>1. (\E i \in DOMAIN b : b[i].uri = u)
          <=> (\E i \in DOMAIN c : c[i].uri = u) \/ b[1].uri = u
      BY <1>2
    <2>2. (\E v \in Busy(g) : g[v].uri = u)
          <=> (\E v \in Busy(h) : h[v].uri = u) \/ b[1].uri = u
      BY <1>3, <1>4 DEF Busy
    <2> QED
      BY <2>1, <2>2 DEF Placed
  <1> QED
    BY <1>5, <1>6, <1>7, <1>8 DEF OnePlace, c, g

\* A cached image is answered without a request.
LEMMA JobAnswered ==
    ASSUME NEW L, NEW b, NEW h, NEW r, NEW d, OnePlace(L, b, h, r, d), b # <<>>,
           NEW x \in Result, x.job = Head(b)
    PROVE  OnePlace(L, Tail(b), h, Append(r, x), d)
  <1> DEFINE c == Tail(b)
             s == Append(r, x)
  <1>1. b \in Seq(Job) /\ r \in Seq(Result)
    BY DEF OnePlace, PlaceTypes
  <1>2. /\ c \in Seq(Job) /\ Head(b) = b[1] /\ Head(b) \in Job
        /\ DOMAIN b \subseteq Nat /\ 1 \in DOMAIN b
        /\ \A i \in DOMAIN c : i + 1 \in DOMAIN b /\ c[i] = b[i + 1] /\ i + 1 # 1
                               /\ i \in Nat
        /\ \A i \in DOMAIN b : i # 1 => i - 1 \in DOMAIN c /\ b[i] = c[i - 1]
    BY <1>1, TailOf
  <1>3. /\ s \in Seq(Result) /\ DOMAIN s = DOMAIN r \union {Len(r) + 1}
        /\ \A i \in DOMAIN r : s[i] = r[i]
        /\ s[Len(r) + 1] = x /\ Len(r) + 1 \notin DOMAIN r
    BY <1>1, Appended
  <1> HIDE DEF c, s
  <1>4. \A i \in DOMAIN s : \/ i \in DOMAIN r /\ s[i] = r[i]
                            \/ i = Len(r) + 1 /\ s[i].job = b[1]
    BY <1>2, <1>3
  <1>5. PlaceTypes(c, h, s, d)
    BY <1>2, <1>3 DEF OnePlace, PlaceTypes
  <1>6. Distinct(c, h, s, d)
    <2>1. \A i, j \in DOMAIN c : c[i].uri = c[j].uri => i = j
      <3> SUFFICES ASSUME NEW i \in DOMAIN c, NEW j \in DOMAIN c, c[i].uri = c[j].uri
                   PROVE  i = j
        OBVIOUS
      <3>1. i + 1 = j + 1
        BY <1>2 DEF OnePlace, Distinct
      <3> QED
        BY <1>2, <3>1
    <2>2. 1 \in DOMAIN b
      BY <1>2
    <2>3. \A i, j \in DOMAIN s : s[i].job.uri = s[j].job.uri => i = j
      BY <1>4, <2>2 DEF OnePlace, Distinct, Apart
    <2> QED
      BY <2>1, <2>3 DEF OnePlace, Distinct
  <1>7. Apart(c, h, s, d)
    <2>1. \A i \in DOMAIN c : c[i].uri # b[1].uri /\ \E k \in DOMAIN b : c[i] = b[k]
      BY <1>2 DEF OnePlace, Distinct
    <2>2. 1 \in DOMAIN b
      BY <1>2
    <2> QED
      BY <1>4, <2>1, <2>2 DEF OnePlace, Apart
  <1>8. \A u \in Uris : u \in L <=> Placed(u, c, h, s, d)
    <2> SUFFICES ASSUME NEW u \in Uris
                 PROVE  Placed(u, b, h, r, d) <=> Placed(u, c, h, s, d)
      BY DEF OnePlace
    <2>1. (\E i \in DOMAIN b : b[i].uri = u)
          <=> (\E i \in DOMAIN c : c[i].uri = u) \/ b[1].uri = u
      BY <1>2
    <2>2. (\E i \in DOMAIN s : s[i].job.uri = u)
          <=> (\E i \in DOMAIN r : r[i].job.uri = u) \/ b[1].uri = u
      BY <1>2, <1>3
    <2> QED
      BY <2>1, <2>2 DEF Placed
  <1> QED
    BY <1>5, <1>6, <1>7, <1>8 DEF OnePlace, c, s

\* A worker sends a job back.
LEMMA JobReturned ==
    ASSUME NEW L, NEW b, NEW h, NEW r, NEW d, OnePlace(L, b, h, r, d),
           NEW w \in ImageWorkers, h[w] # NoJob,
           NEW x \in Result, x.job.uri = h[w].uri
    PROVE  OnePlace(L, b, [h EXCEPT ![w] = NoJob], Append(r, x), d)
  <1> DEFINE g == [h EXCEPT ![w] = NoJob]
             s == Append(r, x)
  <1>1. r \in Seq(Result) /\ h \in [ImageWorkers -> Job \union {NoJob}]
    BY DEF OnePlace, PlaceTypes
  <1>2. /\ g \in [ImageWorkers -> Job \union {NoJob}]
        /\ g[w] = NoJob /\ \A v \in ImageWorkers : v # w => g[v] = h[v]
    BY <1>1
  <1>3. /\ s \in Seq(Result) /\ DOMAIN s = DOMAIN r \union {Len(r) + 1}
        /\ \A i \in DOMAIN r : s[i] = r[i]
        /\ s[Len(r) + 1] = x /\ Len(r) + 1 \notin DOMAIN r
    BY <1>1, Appended
  <1>4. w \in Busy(h) /\ Busy(g) = Busy(h) \ {w} /\ \A v \in Busy(g) : g[v] = h[v]
    BY <1>2 DEF Busy
  <1> HIDE DEF g, s
  <1>5. \A i \in DOMAIN s : \/ i \in DOMAIN r /\ s[i] = r[i]
                            \/ i = Len(r) + 1 /\ s[i].job.uri = h[w].uri
    BY <1>3
  <1>6. PlaceTypes(b, g, s, d)
    BY <1>2, <1>3 DEF OnePlace, PlaceTypes
  <1>7. Distinct(b, g, s, d)
    <2>1. \A i, j \in DOMAIN s : s[i].job.uri = s[j].job.uri => i = j
      BY <1>4, <1>5 DEF OnePlace, Distinct, Apart
    <2>2. \A v, y \in Busy(g) : g[v].uri = g[y].uri => v = y
      BY <1>4 DEF OnePlace, Distinct
    <2> QED
      BY <2>1, <2>2 DEF OnePlace, Distinct
  <1>8. Apart(b, g, s, d)
    <2>1. \A v \in Busy(g) : g[v].uri # h[w].uri
      BY <1>4 DEF OnePlace, Distinct
    <2> QED
      BY <1>4, <1>5, <2>1 DEF OnePlace, Apart
  <1>9. \A u \in Uris : u \in L <=> Placed(u, b, g, s, d)
    <2> SUFFICES ASSUME NEW u \in Uris
                 PROVE  Placed(u, b, h, r, d) <=> Placed(u, b, g, s, d)
      BY DEF OnePlace
    <2>1. (\E v \in Busy(h) : h[v].uri = u)
          <=> (\E v \in Busy(g) : g[v].uri = u) \/ h[w].uri = u
      BY <1>4
    <2>2. (\E i \in DOMAIN s : s[i].job.uri = u)
          <=> (\E i \in DOMAIN r : r[i].job.uri = u) \/ h[w].uri = u
      BY <1>3
    <2> QED
      BY <2>1, <2>2 DEF Placed
  <1> QED
    BY <1>6, <1>7, <1>8, <1>9 DEF OnePlace, g, s

\* The first result is a retry that has to wait.
LEMMA JobDelayed ==
    ASSUME NEW L, NEW b, NEW h, NEW r, NEW d, OnePlace(L, b, h, r, d), r # <<>>
    PROVE  OnePlace(L, b, h, Tail(r), d \union {Head(r).job})
  <1> DEFINE s == Tail(r)
             e == d \union {Head(r).job}
  <1>1. r \in Seq(Result)
    BY DEF OnePlace, PlaceTypes
  <1>2. /\ s \in Seq(Result) /\ Head(r) = r[1] /\ Head(r) \in Result
        /\ DOMAIN r \subseteq Nat /\ 1 \in DOMAIN r
        /\ \A i \in DOMAIN s : i + 1 \in DOMAIN r /\ s[i] = r[i + 1] /\ i + 1 # 1
                               /\ i \in Nat
        /\ \A i \in DOMAIN r : i # 1 => i - 1 \in DOMAIN s /\ r[i] = s[i - 1]
    BY <1>1, TailOf
  <1>3. e = d \union {r[1].job} /\ r[1].job \in Job
    BY <1>2 DEF Result
  <1> HIDE DEF s, e
  <1>4. PlaceTypes(b, h, s, e)
    BY <1>2, <1>3 DEF OnePlace, PlaceTypes
  <1>5. Distinct(b, h, s, e)
    <2>1. \A i, j \in DOMAIN s : s[i].job.uri = s[j].job.uri => i = j
      <3> SUFFICES ASSUME NEW i \in DOMAIN s, NEW j \in DOMAIN s,
                          s[i].job.uri = s[j].job.uri
                   PROVE  i = j
        OBVIOUS
      <3>1. i + 1 = j + 1
        BY <1>2 DEF OnePlace, Distinct
      <3> QED
        BY <1>2, <3>1
    <2>2. \A j, k \in e : j.uri = k.uri => j = k
      BY <1>2, <1>3 DEF OnePlace, Distinct, Apart
    <2> QED
      BY <2>1, <2>2 DEF OnePlace, Distinct
  <1>6. Apart(b, h, s, e)
    <2>1. \A i \in DOMAIN s : s[i].job.uri # r[1].job.uri
      BY <1>2 DEF OnePlace, Distinct
    <2> QED
      BY <1>2, <1>3, <2>1 DEF OnePlace, Apart
  <1>7. \A u \in Uris : u \in L <=> Placed(u, b, h, s, e)
    <2> SUFFICES ASSUME NEW u \in Uris
                 PROVE  Placed(u, b, h, r, d) <=> Placed(u, b, h, s, e)
      BY DEF OnePlace
    <2>1. (\E i \in DOMAIN r : r[i].job.uri = u)
          <=> (\E i \in DOMAIN s : s[i].job.uri = u) \/ r[1].job.uri = u
      BY <1>2
    <2>2. (\E j \in e : j.uri = u) <=> (\E j \in d : j.uri = u) \/ r[1].job.uri = u
      BY <1>3
    <2> QED
      BY <2>1, <2>2 DEF Placed
  <1> QED
    BY <1>4, <1>5, <1>6, <1>7 DEF OnePlace, s, e

\* The first result answers its URI.
LEMMA JobDone ==
    ASSUME NEW L, NEW b, NEW h, NEW r, NEW d, OnePlace(L, b, h, r, d), r # <<>>
    PROVE  /\ Head(r).job.uri \in Uris /\ Head(r).job.uri \in L
           /\ OnePlace(L \ {Head(r).job.uri}, b, h, Tail(r), d)
  <1> DEFINE s == Tail(r)
             v == Head(r).job.uri
  <1>1. r \in Seq(Result)
    BY DEF OnePlace, PlaceTypes
  <1>2. /\ s \in Seq(Result) /\ Head(r) = r[1] /\ Head(r) \in Result
        /\ DOMAIN r \subseteq Nat /\ 1 \in DOMAIN r
        /\ \A i \in DOMAIN s : i + 1 \in DOMAIN r /\ s[i] = r[i + 1] /\ i + 1 # 1
                               /\ i \in Nat
        /\ \A i \in DOMAIN r : i # 1 => i - 1 \in DOMAIN s /\ r[i] = s[i - 1]
    BY <1>1, TailOf
  <1>3. v = r[1].job.uri /\ v \in Uris
    BY <1>2 DEF Result, Job
  <1> HIDE DEF s, v
  <1>4. PlaceTypes(b, h, s, d)
    BY <1>2 DEF OnePlace, PlaceTypes
  <1>5. Distinct(b, h, s, d)
    <2>1. \A i, j \in DOMAIN s : s[i].job.uri = s[j].job.uri => i = j
      <3> SUFFICES ASSUME NEW i \in DOMAIN s, NEW j \in DOMAIN s,
                          s[i].job.uri = s[j].job.uri
                   PROVE  i = j
        OBVIOUS
      <3>1. i + 1 = j + 1
        BY <1>2 DEF OnePlace, Distinct
      <3> QED
        BY <1>2, <3>1
    <2> QED
      BY <2>1 DEF OnePlace, Distinct
  <1>6. Apart(b, h, s, d)
    BY <1>2 DEF OnePlace, Apart
  <1>7. \A u \in Uris : u \in L \ {v} <=> Placed(u, b, h, s, d)
    <2> SUFFICES ASSUME NEW u \in Uris
                 PROVE  Placed(u, b, h, r, d) /\ u # v <=> Placed(u, b, h, s, d)
      BY DEF OnePlace
    <2>1. (\E i \in DOMAIN r : r[i].job.uri = u)
          <=> (\E i \in DOMAIN s : s[i].job.uri = u) \/ v = u
      BY <1>2, <1>3
    <2>2. ~Placed(v, b, h, s, d)
      BY <1>2, <1>3 DEF OnePlace, Distinct, Apart, Placed
    <2> QED
      BY <2>1, <2>2 DEF Placed
  <1>8. v \in L
    BY <1>2, <1>3 DEF OnePlace, Placed
  <1> QED
    BY <1>3, <1>4, <1>5, <1>6, <1>7, <1>8 DEF OnePlace, s, v

LEMMA TwoJoined ==
    ASSUME NEW T, NEW s \in Seq(T), NEW t \in Seq(T)
    PROVE  /\ s \o t \in Seq(T) /\ Len(s \o t) = Len(s) + Len(t)
           /\ \A i \in 1..Len(s) : (s \o t)[i] = s[i]
           /\ \A i \in 1..Len(t) : (s \o t)[Len(s) + i] = t[i]
  OBVIOUS

LEMMA SameSequence ==
    ASSUME NEW T, NEW s \in Seq(T), NEW t \in Seq(T), Len(s) = Len(t),
           \A i \in 1..Len(s) : s[i] = t[i]
    PROVE  s = t
  OBVIOUS

\* The two halves of a backlog.
LEMMA Pumped ==
    ASSUME queue \in Seq(Job), NEW jobs \in Seq(Job), Len(queue) <= QueueCapacity,
           Pump(jobs)
    PROVE  /\ queue' \in Seq(Job) /\ unsent' \in Seq(Job)
           /\ Len(queue') <= QueueCapacity
           /\ queue' \o unsent' = queue \o jobs
  <1> DEFINE n == IF Len(jobs) < QueueCapacity - Len(queue)
                  THEN Len(jobs) ELSE QueueCapacity - Len(queue)
             first == SubSeq(jobs, 1, n)
             rest == SubSeq(jobs, n + 1, Len(jobs))
  <1>1. n \in 0..Len(jobs) /\ n <= QueueCapacity - Len(queue)
    BY SessionAssumption
  <1>2. queue' = queue \o first /\ unsent' = rest
    BY DEF Pump
  <1> HIDE DEF n
  <1>3. /\ first \in Seq(Job) /\ Len(first) = n
        /\ \A i \in 1..n : first[i] = jobs[i]
    BY <1>1
  <1>4. /\ rest \in Seq(Job) /\ Len(rest) = Len(jobs) - n
        /\ \A i \in 1..Len(jobs) - n : rest[i] = jobs[i + n]
    BY <1>1
  <1> HIDE DEF first, rest
  <1>5. /\ queue \o first \in Seq(Job)
        /\ Len(queue \o first) = Len(queue) + n
        /\ \A i \in 1..Len(queue) : (queue \o first)[i] = queue[i]
        /\ \A i \in 1..n : (queue \o first)[Len(queue) + i] = jobs[i]
    BY <1>1, <1>3
  <1> DEFINE head == queue \o first
             all == head \o rest
             goal == queue \o jobs
  <1> HIDE DEF head
  <1>6. /\ all \in Seq(Job) /\ Len(all) = Len(queue) + Len(jobs)
        /\ \A i \in 1..Len(queue) : all[i] = queue[i]
        /\ \A i \in 1..n : all[Len(queue) + i] = jobs[i]
        /\ \A i \in n + 1..Len(jobs) : all[Len(queue) + i] = jobs[i]
    <2>1. /\ head \in Seq(Job) /\ Len(head) = Len(queue) + n
          /\ \A i \in 1..Len(queue) : head[i] = queue[i]
          /\ \A i \in 1..n : head[Len(queue) + i] = jobs[i]
      BY <1>5 DEF head
    <2>2. /\ all \in Seq(Job) /\ Len(all) = Len(head) + Len(rest)
          /\ \A i \in 1..Len(head) : all[i] = head[i]
          /\ \A i \in 1..Len(rest) : all[Len(head) + i] = rest[i]
      <3>1. head \in Seq(Job) /\ rest \in Seq(Job)
        BY <1>4, <2>1
      <3> QED
        BY <3>1, TwoJoined
    <2>3. \A i \in n + 1..Len(jobs) :
            /\ i - n \in 1..Len(rest)
            /\ Len(head) + (i - n) = Len(queue) + i
            /\ rest[i - n] = jobs[i]
      BY <1>1, <1>4, <2>1
    <2> HIDE DEF all
    <2>4. \A i \in 1..Len(queue) : i \in 1..Len(head)
      BY <1>1, <2>1
    <2>5. \A i \in 1..n : Len(queue) + i \in 1..Len(head)
      BY <1>1, <2>1
    <2>6. \A i \in n + 1..Len(jobs) : all[Len(queue) + i] = jobs[i]
      <3> TAKE i \in n + 1..Len(jobs)
      <3>1. all[Len(head) + (i - n)] = rest[i - n]
        BY <2>2, <2>3
      <3> QED
        BY <2>3, <3>1
    <2> QED
      BY <1>1, <1>4, <2>1, <2>2, <2>4, <2>5, <2>6
  <1>7. /\ goal \in Seq(Job) /\ Len(goal) = Len(queue) + Len(jobs)
        /\ \A i \in 1..Len(queue) : goal[i] = queue[i]
        /\ \A i \in 1..Len(jobs) : goal[Len(queue) + i] = jobs[i]
    OBVIOUS
  <1> HIDE DEF all, goal
  <1>8. \A k \in 1..Len(all) : all[k] = goal[k]
    <2> TAKE k \in 1..Len(all)
    <2>1. CASE k \in 1..Len(queue)
      BY <1>6, <1>7, <2>1
    <2>2. CASE k \notin 1..Len(queue)
      <3> DEFINE i == k - Len(queue)
      <3>1. i \in 1..Len(jobs) /\ k = Len(queue) + i
        BY <1>6, <2>2
      <3> HIDE DEF i
      <3>2. i \in 1..n \/ i \in n + 1..Len(jobs)
        BY <1>1, <3>1
      <3> QED
        BY <1>6, <1>7, <3>1, <3>2
    <2> QED
      BY <2>1, <2>2
  <1>9. all = goal
    BY <1>6, <1>7, <1>8, SameSequence
  <1>10. queue' = head /\ unsent' = rest
    BY <1>2 DEF head
  <1>11. head \o rest = queue \o jobs
    BY <1>9 DEF all, goal
  <1>12. head \in Seq(Job) /\ Len(head) = Len(queue) + n
    BY <1>5 DEF head
  <1>13. Len(queue) + n <= QueueCapacity
    BY <1>1, SessionAssumption
  <1> QED
    BY <1>4, <1>10, <1>11, <1>12, <1>13

-----------------------------------------------------------------------------
(* The places of a session that is at work.                                *)

Live == Open /\ ~cancelled

Loads(state) == {u \in Uris : state[u] = "loading"}

\* Only ready URIs are in the list of ready ones.
Listed(state, order) ==
    /\ state \in [Uris -> {"none", "loading", "ready"}]
    /\ order \in Seq(Uris)
    /\ \A i \in DOMAIN order : state[order[i]] = "ready"

WorkersHold ==
    /\ step \in [ImageWorkers -> {"idle", "fetching", "ended"}]
    /\ \A w \in ImageWorkers : step[w] = "fetching" <=> held[w] # NoJob

LiveJobs ==
    /\ Listed(uriState, readyOrder)
    /\ queue \in Seq(Job) /\ unsent \in Seq(Job) /\ Len(queue) <= QueueCapacity
    /\ WorkersHold
    /\ IsFiniteSet(delayed)
    /\ OnePlace(Loads(uriState), queue \o unsent, held, results, delayed)

JobsInv == Live => LiveJobs

\* What a place adds to the count of the jobs of u.
LEMMA CountOfOne ==
    ASSUME NEW S, NEW P, P \subseteq S, \A x, y \in P : x = y
    PROVE  /\ P = {} => Cardinality(P) = 0
           /\ P # {} => Cardinality(P) = 1
  <1>1. CASE P = {}
    BY <1>1, FS_EmptySet
  <1>2. CASE P # {}
    <2>1. PICK x : P = {x}
      BY <1>2
    <2> QED
      BY <1>2, <2>1, FS_Singleton
  <1> QED
    BY <1>1, <1>2

LEMMA LiveJobsCount ==
    ASSUME LiveJobs, NEW u \in Uris
    PROVE  JobsOf(u) = IF uriState[u] = "loading" THEN 1 ELSE 0
  <1> DEFINE b == queue \o unsent
             P1 == {i \in DOMAIN unsent : unsent[i].uri = u}
             P2 == {i \in DOMAIN queue : queue[i].uri = u}
             P3 == {w \in ImageWorkers : held[w] # NoJob /\ held[w].uri = u}
             P4 == {i \in DOMAIN results : results[i].job.uri = u}
             P5 == {j \in delayed : j.uri = u}
  <1>1. OnePlace(Loads(uriState), b, held, results, delayed)
    BY DEF LiveJobs
  <1>2. /\ \A i \in DOMAIN queue : i \in DOMAIN b /\ b[i] = queue[i]
        /\ \A i \in DOMAIN unsent : Len(queue) + i \in DOMAIN b /\ b[Len(queue) + i] = unsent[i]
        /\ \A i \in DOMAIN unsent : i \in Nat
        /\ Len(queue) \in Nat
        /\ \A i \in DOMAIN queue : \A j \in DOMAIN unsent : i # Len(queue) + j
        /\ \A k \in DOMAIN b : \/ k \in DOMAIN queue
                               \/ k - Len(queue) \in DOMAIN unsent
                                  /\ b[k] = unsent[k - Len(queue)]
    BY DEF LiveJobs
  <1> HIDE DEF b
  <1>3. /\ \A x, y \in P1 : x = y
        /\ \A x, y \in P2 : x = y
        /\ P1 = {} \/ P2 = {}
    <2>1. \A x, y \in P1 : x = y
      <3> TAKE x, y \in P1
      <3>1. Len(queue) + x = Len(queue) + y
        BY <1>1, <1>2 DEF OnePlace, Distinct
      <3> QED
        BY <1>2, <3>1
    <2>2. \A x, y \in P2 : x = y
      BY <1>1, <1>2 DEF OnePlace, Distinct
    <2>3. ASSUME NEW x \in P1, NEW y \in P2
          PROVE  FALSE
      <3>1. Len(queue) + x = y
        BY <1>1, <1>2 DEF OnePlace, Distinct
      <3> QED
        BY <1>2, <3>1
    <2> QED
      BY <2>1, <2>2, <2>3
  <1>4. /\ \A x, y \in P3 : x = y
        /\ \A x, y \in P4 : x = y
        /\ \A x, y \in P5 : x = y
    BY <1>1 DEF OnePlace, Distinct, Busy
  <1> DEFINE B == P1 # {} \/ P2 # {}
  <1>5. B <=> \E i \in DOMAIN b : b[i].uri = u
    BY <1>2
  <1>6. /\ P3 # {} <=> \E w \in Busy(held) : held[w].uri = u
        /\ P4 # {} <=> \E i \in DOMAIN results : results[i].job.uri = u
        /\ P5 # {} <=> \E j \in delayed : j.uri = u
    BY DEF Busy
  <1>7. /\ ~(B /\ P3 # {}) /\ ~(B /\ P4 # {}) /\ ~(B /\ P5 # {})
        /\ ~(P3 # {} /\ P4 # {}) /\ ~(P3 # {} /\ P5 # {}) /\ ~(P4 # {} /\ P5 # {})
    <2> HIDE DEF B, P3, P4, P5
    <2> QED
      BY <1>1, <1>5, <1>6 DEF OnePlace, Apart
  <1>8. uriState[u] = "loading" <=> B \/ P3 # {} \/ P4 # {} \/ P5 # {}
    <2> HIDE DEF B, P3, P4, P5
    <2> QED
      BY <1>1, <1>5, <1>6 DEF OnePlace, Placed, Loads
  <1>9. /\ Cardinality(P1) = IF P1 = {} THEN 0 ELSE 1
        /\ Cardinality(P2) = IF P2 = {} THEN 0 ELSE 1
        /\ Cardinality(P3) = IF P3 = {} THEN 0 ELSE 1
        /\ Cardinality(P4) = IF P4 = {} THEN 0 ELSE 1
        /\ Cardinality(P5) = IF P5 = {} THEN 0 ELSE 1
    <2> HIDE DEF P1, P2, P3, P4, P5
    <2> QED
      BY <1>3, <1>4, CountOfOne
  <1>10. JobsOf(u) = Cardinality(P1) + Cardinality(P2) + Cardinality(P3)
                     + Cardinality(P4) + Cardinality(P5)
    BY DEF JobsOf
  <1> HIDE DEF P1, P2, P3, P4, P5
  <1> QED
    BY <1>3, <1>7, <1>8, <1>9, <1>10

LEMMA LiveJobsSuffice == JobsInv => OneJobPerUri
  BY LiveJobsCount DEF JobsInv, Live, OneJobPerUri

-----------------------------------------------------------------------------
(* Steps of a session keep one job per URI.                                *)

\* What a request of the sampler works on.
Working(state, order, jobs, q, h, r, d) ==
    /\ Listed(state, order)
    /\ jobs \in Seq(Job)
    /\ OnePlace(Loads(state), q \o jobs, h, r, d)

Shaped(s, state, order) ==
    \/ s = [state |-> state, order |-> order]
    \/ \E con, delivered, jobs :
          s = [state |-> state, consumers |-> con, order |-> order,
               delivered |-> delivered, jobs |-> jobs]

LEMMA RememberedReady ==
    ASSUME NEW state, NEW order, Listed(state, order), NEW u \in Uris,
           NEW s, Shaped(s, state, order)
    PROVE  /\ Listed(Remember(s, u).state, Remember(s, u).order)
           /\ Loads(Remember(s, u).state) = Loads(state) \ {u}
  <1> DEFINE long == Append(order, u)
             kept == IF Len(long) > ReadyCapacity THEN Tail(long) ELSE long
             new == [v \in Uris |-> IF v \in ToSet(kept) THEN "ready"
                                   ELSE IF v = u \/ state[v] = "ready" THEN "none"
                                   ELSE state[v]]
             r == Remember(s, u)
  <1>0. s.order = order /\ s.state = state
    BY DEF Shaped
  <1>1. r = [s EXCEPT !.order = kept, !.state = new]
    BY <1>0 DEF Remember
  <1>2. r.order = kept /\ r.state = new
    <2> HIDE DEF kept, new
    <2> QED
      BY <1>1 DEF Shaped
  <1>3. order \in Seq(Uris)
    BY DEF Listed
  <1>4. /\ long \in Seq(Uris) /\ long # <<>>
        /\ \A i \in DOMAIN long : (\E j \in DOMAIN order : long[i] = order[j]) \/ long[i] = u
    <2>1. /\ long \in Seq(Uris)
          /\ DOMAIN long = DOMAIN order \union {Len(order) + 1}
          /\ \A i \in DOMAIN order : long[i] = order[i]
          /\ long[Len(order) + 1] = u
      BY <1>3, Appended
    <2>2. long # <<>>
      <3>1. Len(long) = Len(order) + 1 /\ Len(order) \in Nat
        BY <1>3
      <3> HIDE DEF long
      <3> QED
        BY <3>1
    <2> HIDE DEF long
    <2> QED
      BY <2>1, <2>2
  <1>5. /\ kept \in Seq(Uris)
        /\ \A i \in DOMAIN kept : (\E j \in DOMAIN order : kept[i] = order[j]) \/ kept[i] = u
    <2> HIDE DEF long
    <2>1. CASE Len(long) > ReadyCapacity
      <3>1. kept = Tail(long)
        BY <2>1
      <3>2. /\ Tail(long) \in Seq(Uris)
            /\ \A i \in DOMAIN Tail(long) : i + 1 \in DOMAIN long
                                            /\ Tail(long)[i] = long[i + 1]
        BY <1>4, TailOf
      <3> HIDE DEF kept
      <3> QED
        BY <1>4, <3>1, <3>2
    <2>2. CASE ~(Len(long) > ReadyCapacity)
      BY <1>4, <2>2
    <2> QED
      BY <2>1, <2>2
  <1>6. ToSet(kept) = {kept[i] : i \in DOMAIN kept}
    BY DEF ToSet
  <1> HIDE DEF kept
  <1>7. \A i \in DOMAIN kept : kept[i] \in Uris /\ kept[i] \in ToSet(kept)
    BY <1>5, <1>6
  <1>8. Listed(new, kept)
    BY <1>5, <1>7 DEF Listed
  <1>9. \A v \in Uris : new[v] = "loading" <=> state[v] = "loading" /\ v # u
    <2> TAKE v \in Uris
    <2>1. v \in ToSet(kept) => v = u \/ state[v] = "ready"
      BY <1>5, <1>6 DEF Listed
    <2> QED
      BY <2>1 DEF Listed
  <1> HIDE DEF new
  <1> QED
    BY <1>2, <1>8, <1>9 DEF Loads

Asked(s, q, h, r, d) ==
    \E state, con, order, delivered, jobs :
        /\ s = [state |-> state, consumers |-> con, order |-> order,
                delivered |-> delivered, jobs |-> jobs]
        /\ Working(state, order, jobs, q, h, r, d)

LEMMA RequestPlaces ==
    ASSUME NEW q \in Seq(Job), NEW h, NEW r, NEW d, NEW s, Asked(s, q, h, r, d),
           NEW c \in Candidates, NEW x \in Sides
    PROVE  Asked(Request(s, c, x), q, h, r, d)
  <1> DEFINE u == UriOf[c][x]
             t == Request(s, c, x)
  <1>1. u \in Uris
    BY SessionAssumption DEF Sides
  <1>0. PICK state, con, order, delivered, jobs :
              /\ s = [state |-> state, consumers |-> con, order |-> order,
                      delivered |-> delivered, jobs |-> jobs]
              /\ Working(state, order, jobs, q, h, r, d)
    BY DEF Asked
  <1>2. s.state = state /\ s.order = order /\ s.jobs = jobs
    BY <1>0
  <1>3. CASE state[u] = "loading"
    <2>1. t = [s EXCEPT !.consumers[u] = @ \union {<<c, x>>}]
      BY <1>2, <1>3 DEF Request
    <2>2. PICK con2 : t = [state |-> state, consumers |-> con2, order |-> order,
                           delivered |-> delivered, jobs |-> jobs]
      BY <1>0, <2>1
    <2> QED
      BY <1>0, <2>2 DEF Asked
  <1>4. CASE state[u] = "ready"
    <2>1. t = [s EXCEPT !.delivered = @ \union {<<c, x>>}]
      BY <1>2, <1>4 DEF Request
    <2>2. PICK del2 : t = [state |-> state, consumers |-> con, order |-> order,
                           delivered |-> del2, jobs |-> jobs]
      BY <1>0, <2>1
    <2> QED
      BY <1>0, <2>2 DEF Asked
  <1>5. CASE state[u] = "none" /\ u \in cached
    <2> DEFINE m == Remember(s, u)
    <2>1. t = [m EXCEPT !.delivered = @ \union {<<c, x>>}]
      BY <1>2, <1>5 DEF Request
    <2>2. PICK order2, state2 : m = [s EXCEPT !.order = order2, !.state = state2]
      BY DEF Remember
    <2>3. m = [state |-> state2, consumers |-> con, order |-> order2,
               delivered |-> delivered, jobs |-> jobs]
      BY <1>0, <2>2
    <2>4. Listed(m.state, m.order) /\ Loads(m.state) = Loads(state) \ {u}
      <3>1. Listed(state, order)
        BY <1>0 DEF Working
      <3> HIDE DEF m
      <3> QED
        <4>1. Shaped(s, state, order)
          BY <1>0 DEF Shaped
        <4> QED
          BY <1>1, <3>1, <4>1, RememberedReady DEF m
    <2> HIDE DEF m
    <2>5. m.state = state2 /\ m.order = order2
      BY <2>3
    <2>6. u \notin Loads(state)
      BY <1>5 DEF Loads
    <2>7. Loads(state2) = Loads(state)
      BY <2>4, <2>5, <2>6
    <2>8. Working(state2, order2, jobs, q, h, r, d)
      BY <1>0, <2>4, <2>5, <2>7 DEF Working
    <2>9. PICK del2 : t = [state |-> state2, consumers |-> con, order |-> order2,
                           delivered |-> del2, jobs |-> jobs]
      BY <2>1, <2>3
    <2> QED
      BY <2>8, <2>9 DEF Asked
  <1>6. CASE state[u] # "loading" /\ state[u] # "ready" /\ ~(state[u] = "none" /\ u \in cached)
    <2> DEFINE job == [uri |-> u, attempt |-> 0]
               state2 == [state EXCEPT ![u] = "loading"]
               jobs2 == Append(jobs, job)
    <2>1. t = [s EXCEPT !.state[u] = "loading",
                        !.consumers[u] = {<<c, x>>},
                        !.jobs = Append(@, job)]
      BY <1>2, <1>6 DEF Request
    <2>2. PICK con2 : t = [state |-> state2, consumers |-> con2, order |-> order,
                           delivered |-> delivered, jobs |-> jobs2]
      BY <1>0, <2>1
    <2>3. state \in [Uris -> {"none", "loading", "ready"}]
      BY <1>0 DEF Working, Listed
    <2>4. /\ state2 \in [Uris -> {"none", "loading", "ready"}]
          /\ Loads(state2) = Loads(state) \union {u}
          /\ u \notin Loads(state)
      BY <1>1, <1>6, <2>3 DEF Loads
    <2>5. Listed(state2, order)
      BY <1>0, <1>1, <1>6, <2>3 DEF Working, Listed
    <2>6. jobs \in Seq(Job) /\ 0 \in 0..MaxAttempts - 1 /\ job \in Job
      BY <1>0, <1>1, SessionAssumption DEF Working, Job
    <2> HIDE DEF state2
    <2>7. OnePlace(Loads(state2), Append(q \o jobs, job), h, r, d)
      <3>1. OnePlace(Loads(state) \union {u}, Append(q \o jobs, job), h, r, d)
        BY <1>0, <1>1, <2>4, <2>6, JobAppended DEF Working
      <3> QED
        BY <2>4, <3>1
    <2>8. Append(q \o jobs, job) = q \o jobs2 /\ jobs2 \in Seq(Job)
      <3> HIDE DEF job
      <3> QED
        BY <2>6
    <2>9. Working(state2, order, jobs2, q, h, r, d)
      BY <2>5, <2>7, <2>8 DEF Working
    <2> QED
      BY <2>2, <2>9 DEF Asked
  <1> QED
    BY <1>3, <1>4, <1>5, <1>6

LEMMA SubmitPlaces ==
    ASSUME LiveJobs, NEW c \in Candidates, Submit(c)
    PROVE  LiveJobs'
  <1> DEFINE s == [state |-> uriState, consumers |-> consumers, order |-> readyOrder,
                   delivered |-> {}, jobs |-> unsent]
             t == Request(s, c, "A")
             r == Request(t, c, "B")
  <1>1. Working(uriState, readyOrder, unsent, queue, held, results, delayed)
        /\ queue \in Seq(Job)
    BY DEF LiveJobs, Working
  <1>2. Asked(s, queue, held, results, delayed)
    BY <1>1 DEF Asked
  <1>3. PICK st2, co2, or2, de2, jo2 :
              /\ r = [state |-> st2, consumers |-> co2, order |-> or2,
                      delivered |-> de2, jobs |-> jo2]
              /\ Working(st2, or2, jo2, queue, held, results, delayed)
    <2> HIDE DEF s
    <2>1. Asked(t, queue, held, results, delayed)
      BY <1>1, <1>2, RequestPlaces DEF Sides
    <2> HIDE DEF t
    <2>2. Asked(r, queue, held, results, delayed)
      BY <1>1, <2>1, RequestPlaces DEF Sides
    <2> HIDE DEF r
    <2> QED
      BY <2>2 DEF Asked
  <1>4. /\ uriState' = r.state /\ readyOrder' = r.order
        /\ Pump(r.jobs)
        /\ UNCHANGED <<delayed, results, workerVars>>
    BY DEF Submit
  <1> HIDE DEF r
  <1>5. uriState' = st2 /\ readyOrder' = or2 /\ Pump(jo2)
    BY <1>3, <1>4
  <1>6. /\ Listed(st2, or2) /\ jo2 \in Seq(Job)
        /\ OnePlace(Loads(st2), queue \o jo2, held, results, delayed)
    BY <1>3 DEF Working
  <1>7. /\ queue' \in Seq(Job) /\ unsent' \in Seq(Job)
        /\ Len(queue') <= QueueCapacity
        /\ queue' \o unsent' = queue \o jo2
    BY <1>5, <1>6, Pumped DEF LiveJobs
  <1>8. held' = held /\ step' = step /\ results' = results /\ delayed' = delayed
    BY <1>4 DEF workerVars
  <1>9. OnePlace(Loads(uriState'), queue' \o unsent', held', results', delayed')
    BY <1>5, <1>6, <1>7, <1>8
  <1>10. WorkersHold'
    BY <1>8 DEF LiveJobs, WorkersHold
  <1> QED
    BY <1>5, <1>6, <1>7, <1>8, <1>9, <1>10 DEF LiveJobs

\* A poll sends the retries that are due.
LEMMA DuePlaces ==
    ASSUME LiveJobs, NEW due \in DueRetries, Pump(unsent \o due)
    PROVE  /\ queue' \in Seq(Job) /\ unsent' \in Seq(Job) /\ Len(queue') <= QueueCapacity
           /\ IsFiniteSet(delayed \ ToSet(due))
           /\ OnePlace(Loads(uriState), queue' \o unsent', held, results,
                       delayed \ ToSet(due))
  <1>1. /\ queue \in Seq(Job) /\ unsent \in Seq(Job) /\ Len(queue) <= QueueCapacity
        /\ IsFiniteSet(delayed) /\ delayed \subseteq Job
        /\ OnePlace(Loads(uriState), queue \o unsent, held, results, delayed)
    BY DEF LiveJobs, OnePlace, PlaceTypes
  <1>2. due \in Seq(Job)
    <2>1. due \in Seq(delayed)
      BY <1>1, DueOnce DEF DueRetries
    <2> QED
      BY <1>1, <2>1
  <1>3. unsent \o due \in Seq(Job)
    BY <1>1, <1>2
  <1>4. /\ queue' \in Seq(Job) /\ unsent' \in Seq(Job) /\ Len(queue') <= QueueCapacity
        /\ queue' \o unsent' = queue \o (unsent \o due)
    BY <1>1, <1>3, Pumped
  <1>5. queue \o (unsent \o due) = (queue \o unsent) \o due
    BY <1>1, <1>2
  <1>6. OnePlace(Loads(uriState), (queue \o unsent) \o due, held, results,
                 delayed \ ToSet(due))
    BY <1>1, JobsSentAgain DEF DueRetries
  <1>7. IsFiniteSet(delayed \ ToSet(due))
    BY <1>1, FS_Subset
  <1> QED
    BY <1>4, <1>5, <1>6, <1>7

LEMMA ReceivePlaces ==
    ASSUME LiveJobs, NEW due \in DueRetries, Receive(due), main' # "closing"
    PROVE  LiveJobs'
  <1> DEFINE r == Head(results)
             u == r.job.uri
             e == delayed \ ToSet(due)
             L == Loads(uriState)
             c == queue' \o unsent'
  <1>1. /\ results # <<>> /\ results' = Tail(results)
        /\ Pump(unsent \o due) /\ ProcessResult(r, due)
        /\ held' = held /\ step' = step
    BY DEF Receive, workerVars
  <1>2. /\ queue' \in Seq(Job) /\ unsent' \in Seq(Job) /\ Len(queue') <= QueueCapacity
        /\ IsFiniteSet(e)
        /\ OnePlace(L, c, held, results, e)
    BY <1>1, DuePlaces
  <1> HIDE DEF c, e
  <1>3. /\ u \in Uris /\ u \in L
        /\ OnePlace(L \ {u}, c, held, results', e)
        /\ OnePlace(L, c, held, results', e \union {r.job})
    BY <1>1, <1>2, JobDone, JobDelayed
  <1>4. uriState[u] = "loading"
    BY <1>3 DEF Loads
  <1>5. WorkersHold'
    BY <1>1 DEF LiveJobs, WorkersHold
  <1>6. Listed(uriState, readyOrder)
    BY DEF LiveJobs
  <1> SUFFICES /\ Listed(uriState', readyOrder')
               /\ IsFiniteSet(delayed')
               /\ OnePlace(Loads(uriState'), c, held, results', delayed')
    BY <1>1, <1>2, <1>5 DEF LiveJobs, c
  <1>7. CASE r.kind = "retry"
    <2>1. /\ uriState' = uriState /\ readyOrder' = readyOrder
          /\ delayed' = e \union {r.job}
      <3> HIDE DEF r
      <3> QED
        BY <1>1, <1>4, <1>7 DEF ProcessResult, KeepSession, e
    <2>2. IsFiniteSet(delayed')
      BY <1>2, <2>1, FS_AddElement
    <2> HIDE DEF r
    <2> QED
      BY <1>3, <1>6, <2>1, <2>2
  <1>8. CASE r.kind \in {"ok", "failed"}
    <2> DEFINE none == [uriState EXCEPT ![u] = "none"]
               s == [state |-> none, order |-> readyOrder]
               t == IF r.kind = "ok" THEN Remember(s, u) ELSE s
    <2>1. uriState' = t.state /\ readyOrder' = t.order /\ delayed' = e
      <3> HIDE DEF r
      <3> QED
        BY <1>1, <1>4, <1>8 DEF ProcessResult, e
    <2>2. Listed(none, readyOrder)
      BY <1>3, <1>4, <1>6 DEF Listed
    <2>3. Loads(none) = L \ {u}
      BY <1>3, <1>6 DEF Loads, Listed
    <2> HIDE DEF none
    <2>4. Listed(t.state, t.order) /\ Loads(t.state) = L \ {u}
      <3>1. CASE r.kind = "ok"
        <4>1. Shaped(s, none, readyOrder)
          BY DEF Shaped
        <4>2. t = Remember(s, u)
          BY <3>1
        <4> HIDE DEF t, s
        <4> QED
          BY <1>3, <2>2, <2>3, <4>1, <4>2, RememberedReady
      <3>2. CASE r.kind # "ok"
        BY <2>2, <2>3, <3>2
      <3> QED
        BY <3>1, <3>2
    <2> HIDE DEF t, r
    <2> QED
      BY <1>2, <1>3, <2>1, <2>4
  <1>9. CASE r.kind = "interrupted"
    <2> HIDE DEF r
    <2> QED
      BY <1>1, <1>9 DEF ProcessResult
  <1>10. r.kind \in {"retry", "ok", "failed", "interrupted"}
    <2> HIDE DEF r
    <2> QED
      BY <1>1 DEF ProcessResult
  <1> QED
    BY <1>7, <1>8, <1>9, <1>10

LEMMA QuietPollPlaces ==
    ASSUME LiveJobs, NEW due \in DueRetries, ReceiveNothing(due)
    PROVE  LiveJobs'
  <1>1. /\ Pump(unsent \o due) /\ delayed' = delayed \ ToSet(due)
        /\ uriState' = uriState /\ readyOrder' = readyOrder
        /\ results' = results /\ held' = held /\ step' = step
    BY DEF ReceiveNothing, workerVars
  <1>2. WorkersHold'
    BY <1>1 DEF LiveJobs, WorkersHold
  <1>3. OnePlace(Loads(uriState'), queue' \o unsent', held', results', delayed')
    BY <1>1, DuePlaces
  <1> QED
    BY <1>1, <1>2, <1>3, DuePlaces DEF LiveJobs

LEMMA WorkerPlaces ==
    ASSUME LiveJobs, Live, NEW w \in ImageWorkers, WorkerStep(w)
    PROVE  LiveJobs'
  <1> DEFINE L == Loads(uriState)
             b == queue \o unsent
  <1>1. /\ Listed(uriState, readyOrder)
        /\ queue \in Seq(Job) /\ unsent \in Seq(Job) /\ Len(queue) <= QueueCapacity
        /\ IsFiniteSet(delayed)
        /\ step \in [ImageWorkers -> {"idle", "fetching", "ended"}]
        /\ \A v \in ImageWorkers : step[v] = "fetching" <=> held[v] # NoJob
        /\ OnePlace(L, b, held, results, delayed)
        /\ held \in [ImageWorkers -> Job \union {NoJob}]
    BY DEF LiveJobs, WorkersHold, OnePlace, PlaceTypes
  <1>2. ~Stopping
    BY DEF Live, Stopping
  <1>3. /\ uriState' = uriState /\ readyOrder' = readyOrder /\ delayed' = delayed
        /\ unsent' = unsent
    BY DEF WorkerStep, TakeJob, WorkerEnds, FetchImage, FetchFails, FetchLater,
           FetchInterrupted, mainVars, channelVars
  <1>4. CASE TakeJob(w)
    <2>1. /\ queue # <<>> /\ queue' = Tail(queue) /\ step[w] = "idle"
      BY <1>4 DEF TakeJob
    <2>2. /\ queue' \in Seq(Job) /\ Len(queue') <= QueueCapacity
          /\ b # <<>> /\ Head(b) = Head(queue) /\ Tail(b) = queue' \o unsent
          /\ Head(queue) \in Job
      BY <1>1, <2>1, SessionAssumption
    <2> HIDE DEF b
    <2>3. CASE Head(queue).uri \in cached
      <3> DEFINE x == [job |-> Head(queue), kind |-> "ok"]
      <3>1. results' = Append(results, x) /\ held' = held /\ step' = step
        BY <1>2, <1>4, <2>3 DEF TakeJob, workerVars
      <3>2. x \in Result /\ x.job = Head(b)
        BY <2>2 DEF Result
      <3> HIDE DEF x
      <3>3. OnePlace(L, queue' \o unsent, held, results', delayed)
        BY <1>1, <2>2, <3>1, <3>2, JobAnswered
      <3>4. WorkersHold'
        BY <1>1, <3>1 DEF WorkersHold
      <3> QED
        BY <1>1, <1>3, <2>2, <3>1, <3>3, <3>4 DEF LiveJobs
    <2>4. CASE Head(queue).uri \notin cached
      <3>1. /\ held' = [held EXCEPT ![w] = Head(queue)]
            /\ step' = [step EXCEPT ![w] = "fetching"]
            /\ results' = results
        BY <1>2, <1>4, <2>4 DEF TakeJob
      <3>2. held[w] = NoJob
        BY <1>1, <2>1
      <3>3. OnePlace(L, queue' \o unsent, held', results', delayed)
        <4> HIDE DEF L
        <4>1. OnePlace(L, Tail(b), [held EXCEPT ![w] = Head(b)], results, delayed)
          BY <1>1, <2>2, <3>2, JobTaken
        <4> QED
          BY <2>2, <3>1, <4>1
      <3>4. WorkersHold'
        BY <1>1, <2>2, <3>1, SessionAssumption DEF WorkersHold
      <3> QED
        BY <1>1, <1>3, <2>2, <3>1, <3>3, <3>4 DEF LiveJobs
    <2> QED
      BY <2>3, <2>4
  <1>5. ASSUME NEW x \in Result, x.job.uri = held[w].uri, held[w] # NoJob,
               results' = Append(results, x),
               held' = [held EXCEPT ![w] = NoJob],
               step' = [step EXCEPT ![w] = "idle"],
               queue' = queue
        PROVE  LiveJobs'
    <2> HIDE DEF b, L
    <2>1. OnePlace(L, b, held', results', delayed)
      BY <1>1, <1>5, JobReturned
    <2>2. WorkersHold'
      BY <1>1, <1>5 DEF WorkersHold
    <2> QED
      BY <1>1, <1>3, <1>5, <2>1, <2>2 DEF LiveJobs, b, L
  <1>6. step[w] = "fetching" => held[w] \in Job /\ held[w] # NoJob
    BY <1>1
  <1>7. ASSUME NEW kind \in {"ok", "failed", "interrupted"}, Send(w, kind),
               step[w] = "fetching", queue' = queue
        PROVE  LiveJobs'
    <2> DEFINE x == [job |-> held[w], kind |-> kind]
    <2>1. x \in Result /\ x.job.uri = held[w].uri
      BY <1>6, <1>7 DEF Result
    <2>2. /\ results' = Append(results, x)
          /\ held' = [held EXCEPT ![w] = NoJob]
          /\ step' = [step EXCEPT ![w] = "idle"]
      BY <1>7 DEF Send
    <2> HIDE DEF x
    <2> QED
      BY <1>5, <1>6, <1>7, <2>1, <2>2
  <1>8. CASE FetchLater(w)
    <2> DEFINE again == [held[w] EXCEPT !.attempt = @ + 1]
               x == [job |-> again, kind |-> "retry"]
    <2>1. /\ step[w] = "fetching" /\ held[w].attempt + 1 < MaxAttempts
          /\ results' = Append(results, x)
          /\ held' = [held EXCEPT ![w] = NoJob]
          /\ step' = [step EXCEPT ![w] = "idle"]
          /\ queue' = queue
      BY <1>8 DEF FetchLater
    <2>2. held[w] \in Job /\ held[w] # NoJob
      BY <1>6, <2>1
    <2>3. again \in Job /\ again.uri = held[w].uri
      <3>1. held[w].uri \in Uris /\ held[w].attempt \in 0..MaxAttempts - 1
        BY <2>2 DEF Job
      <3>2. MaxAttempts \in Nat
        BY SessionAssumption
      <3>3. held[w].attempt + 1 \in 0..MaxAttempts - 1
        BY <2>1, <3>1, <3>2
      <3>4. again = [uri |-> held[w].uri, attempt |-> held[w].attempt + 1]
        BY <2>2 DEF Job
      <3> QED
        BY <3>1, <3>3, <3>4 DEF Job
    <2>4. x \in Result /\ x.job.uri = held[w].uri
      BY <2>3 DEF Result
    <2> HIDE DEF x
    <2> QED
      BY <1>5, <2>1, <2>2, <2>4
  <1>9. CASE WorkerEnds(w)
    BY <1>2, <1>9 DEF WorkerEnds, Stopping
  <1>10. CASE FetchImage(w) \/ FetchFails(w)
    <2>1. /\ step[w] = "fetching" /\ queue' = queue
          /\ Send(w, "ok") \/ Send(w, "failed")
      BY <1>10 DEF FetchImage, FetchFails
    <2> QED
      BY <1>7, <2>1
  <1>11. CASE FetchInterrupted(w)
    BY <1>2, <1>11 DEF FetchInterrupted
  <1> QED
    BY <1>4, <1>8, <1>9, <1>10, <1>11 DEF WorkerStep

LEMMA SessionKeepsJobs ==
    ASSUME JobsInv, SessionNext
    PROVE  JobsInv'
  <1> SUFFICES ASSUME Live'
               PROVE  LiveJobs'
    BY DEF JobsInv
  <1>1. Live
    <2>1. ASSUME NEW c \in Candidates, Submit(c)
          PROVE  Live
      BY <2>1 DEF Live, Open, Submit
    <2>2. ASSUME NEW wait, StartPoll(wait)
          PROVE  Live
      BY <2>2 DEF Live, Open, StartPoll
    <2>3. ASSUME NEW S, Retain(S)
          PROVE  Live
      BY <2>3 DEF Live, Open, Retain
    <2>4. ASSUME NEW due, Receive(due) \/ ReceiveNothing(due)
          PROVE  Live
      BY <2>4 DEF Live, Open, Receive, ReceiveNothing
    <2>5. ASSUME Close \/ Joined \/ Cancel
          PROVE  Live
      BY <2>5 DEF Live, Open, Close, Joined, Cancel
    <2>6. ASSUME NEW w \in ImageWorkers, WorkerStep(w)
          PROVE  Live
      BY <2>6 DEF Live, Open, WorkerStep, TakeJob, WorkerEnds, FetchImage, FetchFails,
                  FetchLater, FetchInterrupted, mainVars
    <2> QED
      BY <2>1, <2>2, <2>3, <2>4, <2>5, <2>6 DEF SessionNext, SamplerCall, PollTurn
  <1>2. LiveJobs
    BY <1>1 DEF JobsInv
  <1>3. ASSUME UNCHANGED <<uriState, readyOrder, queue, unsent, held, step, results, delayed>>
        PROVE  LiveJobs'
    BY <1>2, <1>3 DEF LiveJobs, WorkersHold
  <1>4. main' # "closing"
    BY DEF Live, Open
  <1>5. ASSUME \/ \E wait \in BOOLEAN : StartPoll(wait)
               \/ \E S \in SUBSET staged : Retain(S)
               \/ Close \/ Joined \/ Cancel
        PROVE  LiveJobs'
    <2>1. UNCHANGED <<uriState, readyOrder, queue, unsent, held, step, results, delayed>>
      BY <1>5 DEF StartPoll, Retain, Close, Joined, Cancel, mainVars, workerVars, channelVars
    <2> QED
      BY <1>3, <2>1
  <1>6. ASSUME PollTurn
        PROVE  LiveJobs'
    BY <1>2, <1>4, <1>6, ReceivePlaces, QuietPollPlaces DEF PollTurn
  <1> QED
    BY <1>1, <1>2, <1>5, <1>6, SubmitPlaces, WorkerPlaces DEF SessionNext, SamplerCall

LEMMA ResetHasNoJobs ==
    ASSUME SessionReset
    PROVE  JobsInv'
  <1>1. /\ Listed(uriState', readyOrder') /\ Loads(uriState') = {}
        /\ queue' = <<>> /\ unsent' = <<>> /\ results' = <<>> /\ delayed' = {}
        /\ held' = [w \in ImageWorkers |-> NoJob]
        /\ step' = [w \in ImageWorkers |-> "idle"]
    BY DEF SessionReset, Listed, Loads
  <1>2. <<>> \o <<>> = <<>> /\ <<>> \in Seq(Job) /\ <<>> \in Seq(Result) /\ Len(<<>>) = 0
    OBVIOUS
  <1>3. OnePlace({}, <<>>, held', <<>>, {})
    BY <1>1 DEF OnePlace, PlaceTypes, Distinct, Apart, Placed, Busy
  <1>4. WorkersHold'
    BY <1>1 DEF WorkersHold
  <1>5. IsFiniteSet(delayed')
    BY <1>1, FS_EmptySet
  <1> QED
    BY <1>1, <1>2, <1>3, <1>4, <1>5, SessionAssumption DEF JobsInv, LiveJobs

LEMMA StartHasNoJobs ==
    ASSUME SessionInit
    PROVE  JobsInv
  <1>1. /\ Listed(uriState, readyOrder) /\ Loads(uriState) = {}
        /\ queue = <<>> /\ unsent = <<>> /\ results = <<>> /\ delayed = {}
        /\ held = [w \in ImageWorkers |-> NoJob]
        /\ step = [w \in ImageWorkers |-> "idle"]
    BY DEF SessionInit, Listed, Loads
  <1>2. <<>> \o <<>> = <<>> /\ <<>> \in Seq(Job) /\ <<>> \in Seq(Result) /\ Len(<<>>) = 0
    OBVIOUS
  <1>3. OnePlace({}, <<>>, held, <<>>, {})
    BY <1>1 DEF OnePlace, PlaceTypes, Distinct, Apart, Placed, Busy
  <1>4. WorkersHold
    BY <1>1 DEF WorkersHold
  <1>5. IsFiniteSet(delayed)
    BY <1>1, FS_EmptySet
  <1> QED
    BY <1>1, <1>2, <1>3, <1>4, <1>5, SessionAssumption DEF JobsInv, LiveJobs

\* An image is never fetched by two workers at once, and no pair waits for a
\* job that nobody holds: through queue, workers, results and retries, every
\* URI that is loading has exactly one job, and no other URI has one.
THEOREM OneJobEach == CommandSpec => []OneJobPerUri
  <1>1. CommandInit => JobsInv
    BY StartHasNoJobs DEF CommandInit
  <1>2. JobsInv /\ [CommandNext]_commandVars => JobsInv'
    <2> SUFFICES ASSUME JobsInv, [CommandNext]_commandVars
                 PROVE  JobsInv'
      OBVIOUS
    <2>1. CASE InSession
      BY <2>1, SessionKeepsJobs DEF InSession
    <2>2. CASE SessionReset
      BY <2>2, ResetHasNoJobs
    <2>3. CASE UNCHANGED sessionVars
      BY <2>3 DEF sessionVars, mainVars, workerVars, channelVars, JobsInv, Live, Open,
                  LiveJobs, WorkersHold
    <2> QED
      BY <2>1, <2>2, <2>3
         DEF CommandNext, Publish, GiveUp, OnDisk, Crashes, Restart, SessionGone, commandVars
  <1> QED
    BY <1>1, <1>2, LiveJobsSuffice, PTL DEF CommandSpec
=============================================================================
