----------------------------- MODULE ProbeRound -----------------------------
(***************************************************************************)
(* The threads of one round of the sample search.  A producer thread takes *)
(* the left profiles in batches; each batch is a scope of the Rayon pool   *)
(* in which one pool thread forwards the matches that tasks of the same    *)
(* pool find.  Matches go through a channel of one slot to the consumer,   *)
(* the thread of the collector, which tries the partners of each match in  *)
(* turn.  Whoever ends first sets a stop flag and drops its channel.       *)
(***************************************************************************)
EXTENDS Naturals, Sequences, FiniteSets

CONSTANTS
    Lefts,          \* left profiles of the round
    PoolThreads,    \* threads of the pool (--threads)
    Batch,          \* left profiles per scope
    Partners,       \* [Lefts -> Nat]: partners to try, the profile itself included
    NoLeft

ASSUME ProbeAssumption ==
    /\ PoolThreads # {}
    /\ Batch \in Nat \ {0}
    /\ Partners \in [Lefts -> Nat \ {0}]
    /\ {NoLeft, "free", "forward"} \intersect Lefts = {}

VARIABLES
    prod,       \* the producer thread
    left,       \* profiles of no batch yet
    tasks,      \* spawned tasks no thread has taken
    thread,     \* per pool thread: free, forward, or the profile it probes
    found,      \* the channel from the tasks to the forwarder
    fwd,        \* what the forwarder does
    ready,      \* matches it holds
    sending,    \* the match it sends
    matches,    \* the channel to the consumer
    con,        \* what the consumer does
    buffer,     \* matches the consumer holds
    drained,    \* the consumer has seen the channel closed
    stop,       \* producer_stop
    complete,   \* all targets are met
    failed,     \* an error reached the consumer
    tried       \* per profile: partners tried (history)

producerVars == <<prod, left>>

poolVars == <<tasks, thread, found>>

forwardVars == <<fwd, ready, sending>>

consumerVars == <<con, buffer, drained, complete, failed, tried>>

probeVars == <<producerVars, poolVars, forwardVars, matches, consumerVars, stop>>

Capacity == 2 * Batch

Error == NoLeft

Probing == {thread[t] : t \in PoolThreads} \ {"free", "forward"}

FreeThreads == {t \in PoolThreads : thread[t] = "free"}

ProbeInit ==
    /\ prod = "next"
    /\ left = Lefts
    /\ tasks = {}
    /\ thread = [t \in PoolThreads |-> "free"]
    /\ found = <<>>
    /\ fwd = "idle"
    /\ ready = {}
    /\ sending = NoLeft
    /\ matches = <<>>
    /\ con = "receive"
    /\ buffer = <<>>
    /\ drained = FALSE
    /\ stop = FALSE
    /\ complete = FALSE
    /\ failed = FALSE
    /\ tried = [l \in Lefts |-> 0]

----------------------------------------------------------------------------
(* The producer                                                            *)

\* Enter a scope for the next batch; its first code runs in the pool too.
NextBatch ==
    /\ prod = "next" /\ ~stop /\ left # {}
    /\ \E t \in FreeThreads, B \in SUBSET left :
        /\ Cardinality(B) = IF Cardinality(left) < Batch THEN Cardinality(left) ELSE Batch
        /\ left' = left \ B
        /\ tasks' = B
        /\ thread' = [thread EXCEPT ![t] = "forward"]
    /\ prod' = "scope"
    /\ fwd' = "head"
    /\ UNCHANGED <<found, ready, sending, matches, consumerVars, stop>>

\* A scope ends when its code and all its tasks have ended.
ScopeEnds ==
    /\ prod = "scope" /\ fwd = "joining"
    /\ tasks = {} /\ Probing = {}
    /\ prod' = "next"
    /\ fwd' = "idle"
    /\ found' = <<>>
    /\ ready' = {}
    /\ UNCHANGED <<left, tasks, thread, sending, matches, consumerVars, stop>>

ProducerEnds ==
    /\ prod = "next"
    /\ stop \/ left = {}
    /\ prod' = "done"
    /\ UNCHANGED <<left, poolVars, forwardVars, matches, consumerVars, stop>>

\* The user has interrupted the program: an error is sent and no batch begun.
ProducerCancelled ==
    /\ prod = "next" /\ ~stop /\ left # {}
    /\ IF con = "ended" THEN UNCHANGED matches
       ELSE matches = <<>> /\ matches' = <<Error>>
    /\ prod' = "done"
    /\ UNCHANGED <<left, poolVars, forwardVars, consumerVars, stop>>

ProducerStep == NextBatch \/ ScopeEnds \/ ProducerEnds \/ ProducerCancelled

----------------------------------------------------------------------------
(* Tasks of the pool                                                       *)

StartProbe(t) ==
    /\ thread[t] = "free"
    /\ \E l \in tasks :
        /\ tasks' = tasks \ {l}
        /\ thread' = [thread EXCEPT ![t] = l]
    /\ UNCHANGED <<producerVars, found, forwardVars, matches, consumerVars, stop>>

\* The forwarder has dropped its end: what a task sends is lost.
SendFound(m) ==
    IF fwd = "joining" THEN UNCHANGED found
    ELSE Len(found) < Capacity /\ found' = Append(found, m)

\* probe_fast_sample_profile_matches: the match of a profile, or an error.
ProbeFinds(t) ==
    /\ thread[t] \in Lefts
    /\ SendFound(thread[t])
    /\ thread' = [thread EXCEPT ![t] = "free"]
    /\ UNCHANGED <<producerVars, tasks, forwardVars, matches, consumerVars, stop>>

ProbeFails(t) ==
    /\ thread[t] \in Lefts /\ ~stop
    /\ SendFound(Error)
    /\ thread' = [thread EXCEPT ![t] = "free"]
    /\ UNCHANGED <<producerVars, tasks, forwardVars, matches, consumerVars, stop>>

\* The round is stopping, or no bucket is active any more.
ProbeSkips(t) ==
    /\ thread[t] \in Lefts
    /\ stop \/ complete
    /\ thread' = [thread EXCEPT ![t] = "free"]
    /\ UNCHANGED <<producerVars, tasks, found, forwardVars, matches, consumerVars, stop>>

PoolStep(t) == StartProbe(t) \/ ProbeFinds(t) \/ ProbeFails(t) \/ ProbeSkips(t)

----------------------------------------------------------------------------
(* The forwarder                                                           *)

\* The loop ends; its thread is free for the tasks of the scope.
LeaveForward ==
    /\ fwd' = "joining"
    /\ thread' = [t \in PoolThreads |-> IF thread[t] = "forward" THEN "free" ELSE thread[t]]

ForwardHead ==
    /\ fwd = "head"
    /\ IF stop THEN LeaveForward ELSE fwd' = "receive" /\ UNCHANGED thread
    /\ UNCHANGED <<producerVars, tasks, found, ready, sending, matches, consumerVars, stop>>

\* Take what has been found, up to the capacity, and pick one to send; an
\* error goes first and stops the round.
ForwardReceive ==
    /\ fwd = "receive"
    /\ ready # {} \/ found # <<>>
    /\ LET room == Capacity - Cardinality(ready)
           n == IF Len(found) < room THEN Len(found) ELSE room
           taken == ready \union {found[i] : i \in 1..n}
       IN /\ found' = SubSeq(found, n + 1, Len(found))
          /\ IF Error \in taken
             THEN ready' = taken \ {Error} /\ sending' = Error
             ELSE \E l \in taken : ready' = taken \ {l} /\ sending' = l
    /\ fwd' = "send"
    /\ UNCHANGED <<producerVars, tasks, thread, matches, consumerVars, stop>>

\* Mutant: the forwarder ends with its tasks, whatever it still holds.
EndsWithTasks ==
    /\ fwd = "receive"
    /\ found = <<>> /\ tasks = {} /\ Probing = {}
    /\ LeaveForward
    /\ UNCHANGED <<producerVars, tasks, found, ready, sending, matches, consumerVars, stop>>

\* Every task has ended and nothing is left to forward.
ForwardEnds ==
    /\ fwd = "receive"
    /\ ready = {} /\ found = <<>> /\ tasks = {} /\ Probing = {}
    /\ LeaveForward
    /\ UNCHANGED <<producerVars, tasks, found, ready, sending, matches, consumerVars, stop>>

\* Mutant: a forwarder whose consumer has ended tries again.
SendRetried ==
    /\ fwd = "send"
    /\ IF con = "ended" THEN UNCHANGED <<matches, stop, thread, fwd, sending>>
       ELSE /\ matches = <<>>
            /\ matches' = <<sending>>
            /\ fwd' = "head"
            /\ sending' = NoLeft
            /\ UNCHANGED <<stop, thread>>
    /\ UNCHANGED <<producerVars, tasks, found, ready, consumerVars>>

\* The channel has one slot; sending to a consumer that has ended fails.
ForwardSend ==
    /\ fwd = "send"
    /\ IF con = "ended"
       THEN stop' = TRUE /\ LeaveForward /\ UNCHANGED matches
       ELSE /\ matches = <<>>
            /\ matches' = <<sending>>
            /\ IF sending = Error
               THEN stop' = TRUE /\ LeaveForward
               ELSE fwd' = "head" /\ UNCHANGED <<stop, thread>>
    /\ sending' = NoLeft
    /\ UNCHANGED <<producerVars, tasks, found, ready, consumerVars>>

ForwardStep == ForwardHead \/ ForwardReceive \/ ForwardEnds \/ ForwardSend

----------------------------------------------------------------------------
(* The consumer                                                            *)

ConsumerEnds ==
    /\ con' = "ended"
    /\ stop' = TRUE
    /\ matches' = <<>>

\* One match from the channel into the buffer; an error ends the search.
TakeMatch(next) ==
    /\ matches # <<>>
    /\ IF Head(matches) = Error
       THEN failed' = TRUE /\ ConsumerEnds /\ UNCHANGED buffer
       ELSE /\ buffer' = Append(buffer, Head(matches))
            /\ matches' = Tail(matches)
            /\ con' = next
            /\ UNCHANGED <<failed, stop>>

\* An empty-handed consumer waits for a match or for the end of the channel.
ConsumerReceives ==
    /\ con = "receive" /\ ~complete
    /\ \/ /\ buffer # <<>> \/ drained
          /\ con' = "try"
          /\ UNCHANGED <<buffer, matches, drained, failed, stop>>
       \/ /\ buffer = <<>> /\ ~drained
          /\ TakeMatch("try")
          /\ UNCHANGED drained
       \/ /\ buffer = <<>> /\ ~drained
          /\ matches = <<>> /\ prod = "done"
          /\ drained' = TRUE
          /\ con' = "try"
          /\ UNCHANGED <<buffer, matches, failed, stop>>
    /\ UNCHANGED <<producerVars, poolVars, forwardVars, complete, tried>>

\* Mutant: a match is copied into the buffer while the buffer has room.
TriesCopy ==
    /\ con = "try"
    /\ IF buffer # <<>> /\ Len(buffer) < Capacity
       THEN buffer' = Append(buffer, Head(buffer)) ELSE UNCHANGED buffer
    /\ con' = "work"
    /\ UNCHANGED <<matches, failed, stop>>
    /\ UNCHANGED <<producerVars, poolVars, forwardVars, drained, complete, tried>>

\* A further match is taken if there is one and the buffer has room.
ConsumerTries ==
    /\ con = "try"
    /\ IF Len(buffer) < Capacity /\ matches # <<>>
       THEN TakeMatch("work")
       ELSE con' = "work" /\ UNCHANGED <<buffer, matches, failed, stop>>
    /\ UNCHANGED <<producerVars, poolVars, forwardVars, drained, complete, tried>>

\* Try the next partner of the first match, then put it last.
ConsumerWorks ==
    /\ con = "work" /\ buffer # <<>>
    /\ LET l == Head(buffer)
       IN /\ tried' = [tried EXCEPT ![l] = @ + 1]
          /\ complete' \in BOOLEAN
          /\ buffer' = IF tried'[l] < Partners[l] /\ ~complete'
                       THEN Append(Tail(buffer), l) ELSE Tail(buffer)
    /\ con' = "receive"
    /\ UNCHANGED <<producerVars, poolVars, forwardVars, matches, drained, failed, stop>>

\* Collecting or submitting pairs ends in an error.
ConsumerFails ==
    /\ con = "work" /\ buffer # <<>>
    /\ failed' = TRUE
    /\ ConsumerEnds
    /\ UNCHANGED <<producerVars, poolVars, forwardVars, buffer, drained, complete, tried>>

ConsumerLeaves ==
    /\ \/ con = "receive" /\ complete
       \/ con = "work" /\ buffer = <<>> /\ drained
    /\ ConsumerEnds
    /\ UNCHANGED <<producerVars, poolVars, forwardVars, buffer, drained, complete, failed,
                   tried>>

ConsumerStep ==
    ConsumerReceives \/ ConsumerTries \/ ConsumerWorks
    \/ ConsumerFails \/ ConsumerLeaves

ProbeNext ==
    \/ ProducerStep
    \/ \E t \in PoolThreads : PoolStep(t)
    \/ ForwardStep
    \/ ConsumerStep

ProbeSpec == ProbeInit /\ [][ProbeNext]_probeVars

\* Every thread that can go on does.
ProbeFairSpec ==
    /\ ProbeSpec
    /\ WF_probeVars(ProducerStep)
    /\ \A t \in PoolThreads : WF_probeVars(PoolStep(t))
    /\ WF_probeVars(ForwardStep)
    /\ WF_probeVars(ConsumerStep)

----------------------------------------------------------------------------
(* The buffers keep to the bound the consumer asserts and a task never     *)
(* blocks on a full channel: every match is in one place.                  *)
ProbeTypeOK ==
    /\ Len(buffer) <= Capacity /\ Len(matches) <= 1
    /\ Len(found) + Cardinality(tasks \union Probing) <= Batch
    /\ \A l \in Lefts :
        Cardinality({i \in DOMAIN found : found[i] = l})
        + Cardinality({i \in DOMAIN matches : matches[i] = l})
        + Cardinality({i \in DOMAIN buffer : buffer[i] = l})
        + Cardinality({x \in {left, tasks, Probing, ready, {sending}} : l \in x}) <= 1
    /\ tried \in [Lefts -> Nat] /\ \A l \in Lefts : tried[l] <= Partners[l]
    /\ con \in {"receive", "try", "work", "ended"}
    /\ fwd \in {"idle", "head", "receive", "send", "joining"}
    /\ prod \in {"next", "scope", "done"}

(* A round that ends short of its targets has tried every partner of every *)
(* match the probes found: nothing is lost between the threads.            *)
EveryMatchTried ==
    con = "ended" /\ ~complete /\ ~failed => tried = Partners

(* All threads of a round end, whichever of them ends first: nobody waits  *)
(* for a message that will not come or for a slot that will not be freed.  *)
ThreadsJoin == <>(con = "ended" /\ prod = "done")
=============================================================================
