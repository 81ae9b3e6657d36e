---------------------------- MODULE DownloadSink ----------------------------
(***************************************************************************)
(* What a media download sink promises to the sampler (the trait           *)
(* MetadataSampleDownloadSink): a submitted candidate is answered once,    *)
(* at any time and in any order, each answer is reported once, and the     *)
(* media of a success is kept until the sampler says which it retains.     *)
(***************************************************************************)
EXTENDS FiniteSets

CONSTANT Candidates

VARIABLES
    media,      \* per candidate: what the sink knows of its two images
    reported,   \* the candidates whose answer a poll has returned
    kept        \* the candidates whose media the sink holds

sinkVars == <<media, reported, kept>>

Outcomes == {"success", "failure"}

SinkTypeOK ==
    /\ media \in [Candidates -> {"new", "requested"} \union Outcomes]
    /\ reported \subseteq Candidates
    /\ kept \subseteq Candidates

Requested == {c \in Candidates : media[c] = "requested"}

Answered == {c \in Candidates : media[c] \in Outcomes}

SinkInit ==
    /\ media = [c \in Candidates |-> "new"]
    /\ reported = {}
    /\ kept = {}

\* The sink learns the outcome of some candidates at once: two may share an
\* image.
Answer(answers) ==
    /\ media' = [c \in Candidates |->
                    IF c \in DOMAIN answers THEN answers[c] ELSE media[c]]
    /\ kept' = kept \union {c \in DOMAIN answers : answers[c] = "success"}
    /\ UNCHANGED reported

AnswerSome ==
    \E S \in (SUBSET Requested) \ {{}} : \E answers \in [S -> Outcomes] : Answer(answers)

Submit(c) ==
    /\ media[c] = "new"
    /\ media' = [media EXCEPT ![c] = "requested"]
    /\ UNCHANGED <<reported, kept>>

\* The candidate is answered while submitted: both images are known already, or
\* one known cannot be copied.
SubmitKnown(c) ==
    /\ media[c] = "new"
    /\ \E o \in Outcomes : Answer([x \in {c} |-> o])

\* A poll returns every answer not returned before.
Report ==
    /\ reported' = Answered
    /\ UNCHANGED <<media, kept>>

\* Only the selected pairs stay, and all of them must be there.
Retain(selected) ==
    /\ selected \subseteq kept
    /\ kept' = selected
    /\ UNCHANGED <<media, reported>>

\* The session ends; the next one starts with nothing.
Reopen ==
    /\ media' = [c \in Candidates |-> "new"]
    /\ reported' = {}
    /\ kept' = {}

SinkNext ==
    \/ AnswerSome
    \/ \E c \in Candidates : Submit(c) \/ SubmitKnown(c)
    \/ Report
    \/ \E S \in SUBSET Candidates : Retain(S)
    \/ Reopen

SinkSpec == SinkInit /\ [][SinkNext]_sinkVars
=============================================================================
