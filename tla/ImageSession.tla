---------------------------- MODULE ImageSession ----------------------------
(***************************************************************************)
(* The streaming image downloader of sample-metadata.  The main thread     *)
(* owns the state of every image URI, the pairs waiting for their two      *)
(* images and the retries that wait for their time; worker threads take    *)
(* jobs from a bounded queue and send results back over an unbounded one.  *)
(* Fetched images stay in a cache directory.                               *)
(***************************************************************************)
EXTENDS Naturals, Sequences, FiniteSets, SequencesExt

CONSTANTS
    Candidates,      \* contract pairs whose two images are wanted
    Uris,
    UriOf,           \* [Candidates -> [{"A", "B"} -> Uris]]
    ImageWorkers,
    QueueCapacity,   \* DOWNLOAD_QUEUE_CAPACITY
    ReadyCapacity,   \* READY_URI_CACHE_CAPACITY
    MaxAttempts,     \* attempts per job
    NoJob

Job == [uri: Uris, attempt: 0..MaxAttempts - 1]

ASSUME SessionAssumption ==
    /\ UriOf \in [Candidates -> [{"A", "B"} -> Uris]]
    /\ QueueCapacity \in Nat \ {0}
    /\ ReadyCapacity \in Nat \ {0}
    /\ MaxAttempts \in Nat \ {0}
    /\ NoJob \notin Job

VARIABLES
    main,         \* what the thread that owns the session does
    uriState,     \* per URI: none, loading or ready
    consumers,    \* per loading URI: the sides of candidates that wait for it
    readyOrder,   \* ready URIs, oldest first
    pending,      \* candidates without an answer
    got,          \* per pending candidate: the sides delivered
    outcome,      \* per candidate: its answer (history)
    completed,    \* answered candidates no poll has returned
    staged,       \* candidates whose two files lie in the staging directory
    unsent,       \* jobs not yet in the queue
    queue,        \* the bounded channel to the workers
    held,         \* per worker: its job
    step,         \* per worker: what it does with it
    results,      \* the channel back
    delayed,      \* jobs to retry later
    cancelled,    \* the user has interrupted the program
    cached        \* URIs with both files, media and record, in the cache

mainVars == <<main, uriState, consumers, readyOrder, pending, got, outcome,
              completed, staged, delayed>>

workerVars == <<held, step>>

channelVars == <<unsent, queue, results>>

sessionVars == <<mainVars, workerVars, channelVars, cancelled, cached>>

Sides == {"A", "B"}

Result == [job: Job, kind: {"ok", "failed", "interrupted", "retry"}]

Open == main \in {"idle", "waiting", "draining"}

SessionInit ==
    /\ main = "idle"
    /\ uriState = [u \in Uris |-> "none"]
    /\ consumers = [u \in Uris |-> {}]
    /\ readyOrder = <<>>
    /\ pending = {}
    /\ got = [c \in Candidates |-> {}]
    /\ outcome = [c \in Candidates |-> "none"]
    /\ completed = {}
    /\ staged = {}
    /\ unsent = <<>>
    /\ queue = <<>>
    /\ held = [w \in ImageWorkers |-> NoJob]
    /\ step = [w \in ImageWorkers |-> "idle"]
    /\ results = <<>>
    /\ delayed = {}
    /\ cancelled = FALSE

\* The session is over.
SessionReset ==
    /\ main' = "idle"
    /\ uriState' = [u \in Uris |-> "none"]
    /\ consumers' = [u \in Uris |-> {}]
    /\ readyOrder' = <<>>
    /\ pending' = {}
    /\ got' = [c \in Candidates |-> {}]
    /\ outcome' = [c \in Candidates |-> "none"]
    /\ completed' = {}
    /\ staged' = {}
    /\ unsent' = <<>>
    /\ queue' = <<>>
    /\ held' = [w \in ImageWorkers |-> NoJob]
    /\ step' = [w \in ImageWorkers |-> "idle"]
    /\ results' = <<>>
    /\ delayed' = {}
    /\ cancelled' = FALSE

----------------------------------------------------------------------------
(* Delivering images                                                       *)

\* deliver_image for the consumers in S, P being the pending pairs: one in bad
\* has no image, or its copy in the staging directory cannot be made, and its
\* pair is answered at once; a pair is complete with its second side, and pairs
\* answered before are passed over.
SidesOf(S, c) == {s \in Sides : <<c, s>> \in S}

\* Mutant: a failed image answers its pair and leaves it pending.
DeliverAgain(S, bad, P) ==
    LET have == [c \in P |-> got[c] \union SidesOf(S \ bad, c)]
        refused == {c \in P : SidesOf(bad, c) # {}}
        complete == {c \in P \ refused : SidesOf(S, c) # {} /\ have[c] = Sides}
    IN /\ pending' = P \ complete
       /\ got' = [c \in Candidates |->
                    IF c \in P \ (refused \union complete) THEN have[c] ELSE {}]
       /\ outcome' = [c \in Candidates |-> IF c \in refused THEN "failure"
                                           ELSE IF c \in complete THEN "success"
                                           ELSE outcome[c]]
       /\ completed' = completed \union refused \union complete
       /\ staged' = staged \union complete

Deliver(S, bad, P) ==
    LET have == [c \in P |-> got[c] \union SidesOf(S \ bad, c)]
        refused == {c \in P : SidesOf(bad, c) # {}}
        complete == {c \in P \ refused : SidesOf(S, c) # {} /\ have[c] = Sides}
    IN /\ pending' = P \ (refused \union complete)
       /\ got' = [c \in Candidates |->
                    IF c \in P \ (refused \union complete) THEN have[c] ELSE {}]
       /\ outcome' = [c \in Candidates |-> IF c \in refused THEN "failure"
                                           ELSE IF c \in complete THEN "success"
                                           ELSE outcome[c]]
       /\ completed' = completed \union refused \union complete
       /\ staged' = staged \union complete

\* Mutant: a URI forgotten as ready keeps its state.
RememberState(s, u) ==
    LET order == Append(s.order, u)
    IN [s EXCEPT !.order = IF Len(order) > ReadyCapacity THEN Tail(order) ELSE order,
                 !.state[u] = "ready"]

\* remember_ready_uri: beyond the capacity the oldest ready URI is forgotten.
Remember(s, u) ==
    LET order == Append(s.order, u)
        kept == IF Len(order) > ReadyCapacity THEN Tail(order) ELSE order
    IN [s EXCEPT !.order = kept,
                 !.state = [v \in Uris |-> IF v \in ToSet(kept) THEN "ready"
                                          ELSE IF v = u \/ s.state[v] = "ready" THEN "none"
                                          ELSE s.state[v]]]

----------------------------------------------------------------------------
(* Calls of the sampler                                                    *)

\* pump_jobs: jobs enter the queue as long as it has room.
Pump(jobs) ==
    LET n == IF Len(jobs) < QueueCapacity - Len(queue)
             THEN Len(jobs) ELSE QueueCapacity - Len(queue)
    IN /\ queue' = queue \o SubSeq(jobs, 1, n)
       /\ unsent' = SubSeq(jobs, n + 1, Len(jobs))

\* Mutant: a URI that is loading is fetched once more for the next consumer.
RequestAgain(s, c, x) ==
    LET u == UriOf[c][x]
    IN IF s.state[u] = "ready" THEN [s EXCEPT !.delivered = @ \union {<<c, x>>}]
       ELSE [s EXCEPT !.state[u] = "loading",
                      !.consumers[u] = @ \union {<<c, x>>},
                      !.jobs = Append(@, [uri |-> u, attempt |-> 0])]

\* request_image for side x of c: a URI that is loading gets one more
\* consumer, a ready or cached one delivers at once, any other starts a job.
Request(s, c, x) ==
    LET u == UriOf[c][x]
    IN CASE s.state[u] = "loading" ->
              [s EXCEPT !.consumers[u] = @ \union {<<c, x>>}]
         [] s.state[u] = "ready" ->
              [s EXCEPT !.delivered = @ \union {<<c, x>>}]
         [] s.state[u] = "none" /\ u \in cached ->
              [Remember(s, u) EXCEPT !.delivered = @ \union {<<c, x>>}]
         [] OTHER ->
              [s EXCEPT !.state[u] = "loading",
                        !.consumers[u] = {<<c, x>>},
                        !.jobs = Append(@, [uri |-> u, attempt |-> 0])]

\* submit_candidate for one pair, both sides, then pump_jobs.
Submit(c) ==
    LET s == [state |-> uriState, consumers |-> consumers, order |-> readyOrder,
              delivered |-> {}, jobs |-> unsent]
        r == Request(Request(s, c, "A"), c, "B")
    IN /\ main = "idle" /\ ~cancelled
       /\ c \notin pending /\ outcome[c] = "none"
       /\ uriState' = r.state
       /\ consumers' = r.consumers
       /\ readyOrder' = r.order
       /\ \E bad \in SUBSET r.delivered :
             Deliver(r.delivered, bad, pending \union {c})
       /\ Pump(r.jobs)
       /\ UNCHANGED <<main, delayed, results, workerVars, cancelled, cached>>

\* poll(wait): without an answer at hand it waits for one result, then takes
\* what else has come and returns every answer.
StartPoll(wait) ==
    /\ main = "idle" /\ ~cancelled
    /\ main' = IF wait /\ completed = {} THEN "waiting" ELSE "draining"
    /\ UNCHANGED <<uriState, consumers, readyOrder, pending, got, outcome, completed,
                   staged, delayed, channelVars, workerVars, cancelled, cached>>

\* submit_due_retries: some of the retries are due, in the order of their times.
DueRetries == SetToAllKPermutations(delayed)

KeepSession ==
    UNCHANGED <<uriState, consumers, readyOrder, pending, got, outcome, completed, staged>>

\* process_worker_result.  A stale retry, of a URI that is not loading any
\* more, is dropped.
ProcessResult(r, due) ==
    LET u == r.job.uri
    IN \/ /\ r.kind = "retry"
          /\ delayed' = IF uriState[u] = "loading" THEN (delayed \ ToSet(due)) \union {r.job}
                        ELSE delayed \ ToSet(due)
          /\ main' = "draining"
          /\ KeepSession
       \/ /\ r.kind \in {"ok", "failed"}
          /\ IF uriState[u] = "loading"
             THEN LET s == [state |-> [uriState EXCEPT ![u] = "none"], order |-> readyOrder]
                      t == IF r.kind = "ok" THEN Remember(s, u) ELSE s
                  IN /\ uriState' = t.state
                     /\ readyOrder' = t.order
                     /\ consumers' = [consumers EXCEPT ![u] = {}]
                     /\ \E bad \in IF r.kind = "ok" THEN SUBSET consumers[u]
                                                     ELSE {consumers[u]} :
                           Deliver(consumers[u], bad, pending)
             ELSE KeepSession
          /\ delayed' = delayed \ ToSet(due)
          /\ main' = "draining"
       \/ /\ r.kind = "interrupted"
          /\ main' = "closing"
          /\ uriState' = [uriState EXCEPT ![u] = "none"]
          /\ consumers' = [consumers EXCEPT ![u] = {}]
          /\ delayed' = delayed \ ToSet(due)
          /\ UNCHANGED <<readyOrder, pending, got, outcome, completed, staged>>

\* One turn of receive_worker_result with a result to process.  The user may
\* have interrupted after the turn looked.
Receive(due) ==
    /\ main \in {"waiting", "draining"}
    /\ results # <<>>
    /\ Pump(unsent \o due)
    /\ results' = Tail(results)
    /\ ProcessResult(Head(results), due)
    /\ UNCHANGED <<workerVars, cancelled, cached>>

\* Mutant: a retry that is due is taken out and not sent.
DueRetryLost(due) ==
    /\ main \in {"waiting", "draining"} /\ ~cancelled
    /\ results = <<>>
    /\ Pump(unsent)
    /\ delayed' = delayed \ ToSet(due)
    /\ IF main = "waiting"
       THEN UNCHANGED <<main, completed>>
       ELSE main' = "idle" /\ completed' = {}
    /\ UNCHANGED <<uriState, consumers, readyOrder, pending, got, outcome, staged, results,
                   workerVars, cancelled, cached>>

\* A turn without a result: a waiting poll goes on, another one returns.
ReceiveNothing(due) ==
    /\ main \in {"waiting", "draining"} /\ ~cancelled
    /\ results = <<>>
    /\ Pump(unsent \o due)
    /\ delayed' = delayed \ ToSet(due)
    /\ IF main = "waiting"
       THEN UNCHANGED <<main, completed>>
       ELSE main' = "idle" /\ completed' = {}
    /\ UNCHANGED <<uriState, consumers, readyOrder, pending, got, outcome, staged, results,
                   workerVars, cancelled, cached>>

\* A turn in which a retry is due.
RetryDue == \E j \in delayed : Receive(<<j>>) \/ ReceiveNothing(<<j>>)

PollTurn == \E due \in DueRetries : Receive(due) \/ ReceiveNothing(due)

\* retain_candidates: the staged pairs that were not selected are removed.
Retain(selected) ==
    /\ main = "idle"
    /\ selected \subseteq staged
    /\ staged' = selected
    /\ UNCHANGED <<main, uriState, consumers, readyOrder, pending, got, outcome,
                   completed, delayed, channelVars, workerVars, cancelled, cached>>

\* finish(), an error of the sampler, or the Drop of an interrupted session:
\* the shutdown flag is set, the job channel closed and the workers joined.
Close ==
    /\ main = "idle" \/ (Open /\ cancelled)
    /\ main' = "closing"
    /\ UNCHANGED <<uriState, consumers, readyOrder, pending, got, outcome, completed,
                   staged, delayed, channelVars, workerVars, cancelled, cached>>

Joined ==
    /\ main = "closing"
    /\ \A w \in ImageWorkers : step[w] = "ended"
    /\ main' = "closed"
    /\ UNCHANGED <<uriState, consumers, readyOrder, pending, got, outcome, completed,
                   staged, delayed, channelVars, workerVars, cancelled, cached>>

Cancel ==
    /\ Open /\ ~cancelled
    /\ cancelled' = TRUE
    /\ UNCHANGED <<mainVars, workerVars, channelVars, cached>>

----------------------------------------------------------------------------
(* Workers                                                                 *)

Stopping == cancelled \/ ~Open

Send(w, kind) ==
    /\ results' = Append(results, [job |-> held[w], kind |-> kind])
    /\ held' = [held EXCEPT ![w] = NoJob]
    /\ step' = [step EXCEPT ![w] = "idle"]

\* The worker that holds the receiver takes a job; a cancelled one ends, and
\* its job with it.  The cache is consulted before the network.
TakeJob(w) ==
    /\ step[w] = "idle" /\ queue # <<>>
    /\ queue' = Tail(queue)
    /\ LET job == Head(queue)
       IN IF Stopping
          THEN step' = [step EXCEPT ![w] = "ended"] /\ UNCHANGED <<held, results>>
          ELSE IF job.uri \in cached
          THEN /\ results' = Append(results, [job |-> job, kind |-> "ok"])
               /\ UNCHANGED workerVars
          ELSE /\ held' = [held EXCEPT ![w] = job]
               /\ step' = [step EXCEPT ![w] = "fetching"]
               /\ UNCHANGED results
    /\ UNCHANGED <<mainVars, unsent, cancelled, cached>>

\* Mutant: only an interrupted worker ends.
WorkerEndsCancelled(w) ==
    /\ step[w] = "idle" /\ queue = <<>> /\ cancelled
    /\ step' = [step EXCEPT ![w] = "ended"]
    /\ UNCHANGED <<mainVars, held, channelVars, cancelled, cached>>

\* The channel is closed and empty.
WorkerEnds(w) ==
    /\ step[w] = "idle" /\ queue = <<>> /\ ~Open
    /\ step' = [step EXCEPT ![w] = "ended"]
    /\ UNCHANGED <<mainVars, held, channelVars, cancelled, cached>>

\* The media file is written first and the record second; a worker that dies
\* in between has cached nothing.
FetchImage(w) ==
    /\ step[w] = "fetching"
    /\ cached' = cached \union {held[w].uri}
    /\ Send(w, "ok")
    /\ UNCHANGED <<mainVars, unsent, queue, cancelled>>

\* An answer that cannot be used, the deadline of the job, or a file that
\* cannot be written.
FetchFails(w) ==
    /\ step[w] = "fetching"
    /\ Send(w, "failed")
    /\ UNCHANGED <<mainVars, unsent, queue, cancelled, cached>>

\* A throttled or failed request is retried while attempts are left.
FetchLater(w) ==
    /\ step[w] = "fetching" /\ held[w].attempt + 1 < MaxAttempts
    /\ results' = Append(results, [job |-> [held[w] EXCEPT !.attempt = @ + 1],
                                   kind |-> "retry"])
    /\ held' = [held EXCEPT ![w] = NoJob]
    /\ step' = [step EXCEPT ![w] = "idle"]
    /\ UNCHANGED <<mainVars, unsent, queue, cancelled, cached>>

FetchInterrupted(w) ==
    /\ step[w] = "fetching" /\ Stopping
    /\ Send(w, "interrupted")
    /\ UNCHANGED <<mainVars, unsent, queue, cancelled, cached>>

WorkerStep(w) ==
    \/ TakeJob(w) \/ WorkerEnds(w) \/ FetchImage(w)
    \/ FetchFails(w) \/ FetchLater(w) \/ FetchInterrupted(w)

SamplerCall ==
    \/ \E c \in Candidates : Submit(c)
    \/ \E wait \in BOOLEAN : StartPoll(wait)
    \/ \E S \in SUBSET staged : Retain(S)

SessionNext ==
    \/ SamplerCall \/ PollTurn \/ Close \/ Joined \/ Cancel
    \/ \E w \in ImageWorkers : WorkerStep(w)

----------------------------------------------------------------------------
(* The session's own tables agree: a URI is ready exactly when it is in the *)
(* bounded list of ready ones and then has its two cache files, consumers  *)
(* wait for loading URIs only, and only answered pairs are handed out or   *)
(* staged.                                                                 *)
SessionTypeOK ==
    /\ main \in {"idle", "waiting", "draining", "closing", "closed"}
    /\ uriState \in [Uris -> {"none", "loading", "ready"}]
    /\ \A x \in Uris : uriState[x] = "ready" <=> x \in ToSet(readyOrder)
    /\ \A x \in Uris : uriState[x] = "ready" => x \in cached
    /\ \A x \in Uris : uriState[x] = "loading" <=> consumers[x] # {}
    /\ Len(readyOrder) <= ReadyCapacity /\ Len(queue) <= QueueCapacity
    /\ completed \union staged \subseteq {c \in Candidates \ pending : outcome[c] # "none"}
    /\ \A w \in ImageWorkers : held[w] = NoJob <=> step[w] \in {"idle", "ended"}
    /\ ToSet(unsent) \union ToSet(queue) \union delayed \subseteq Job
    /\ ToSet(results) \subseteq Result

(* Every URI that is loading has exactly one job in the program: not yet   *)
(* sent, queued, with a worker, on its way back or waiting for its retry;  *)
(* and no other URI has one.  So an image is never fetched by two workers  *)
(* at once, and no pair waits for a job that nobody holds.                 *)
JobsOf(u) ==
    Cardinality({i \in DOMAIN unsent : unsent[i].uri = u})
    + Cardinality({i \in DOMAIN queue : queue[i].uri = u})
    + Cardinality({w \in ImageWorkers : held[w] # NoJob /\ held[w].uri = u})
    + Cardinality({i \in DOMAIN results : results[i].job.uri = u})
    + Cardinality({j \in delayed : j.uri = u})

OneJobPerUri ==
    Open /\ ~cancelled =>
        \A u \in Uris : JobsOf(u) = IF uriState[u] = "loading" THEN 1 ELSE 0

(* The sampler may rely on the session as on a DownloadSink: a pair is     *)
(* answered once, for good and only after it was submitted, an answer is   *)
(* reported once, and exactly the successes not refused are kept.          *)
Sink == INSTANCE DownloadSink WITH
    media <- [c \in Candidates |-> IF c \in pending THEN "requested"
                                   ELSE IF outcome[c] = "none" THEN "new"
                                   ELSE outcome[c]],
    reported <- {c \in Candidates : outcome[c] # "none"} \ completed,
    kept <- staged

SessionIsSink == Sink!SinkSpec
=============================================================================
