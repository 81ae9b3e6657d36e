--------------------------- MODULE MCEvidenceLane ---------------------------
(* What spares the analysis requests and what paces them, each on an       *)
(* instance of its own: the checkpoint for two candidates of two seeds,    *)
(* and a lane on which the calls k1 and k2 ask for the same thing and k3   *)
(* for a price, uncached.                                                  *)
EXTENDS EvidenceCache, RequestLane, TLC

CONSTANTS c1, c2, s1, s2, more, fewer, k1, k2, k3

VARIABLE part  \* which of the instances

\* "fewer" has no relation of one candidate and more of the other.
MCRelationsOf ==
    [l \in SeedLists |->
        CASE l = more  -> (c1 :> {s1, s2} @@ c2 :> {s2})
          [] l = fewer -> (c1 :> {} @@ c2 :> {s1, s2})]

TwoVersions == {14, 15}

MCIdentities == {{k1, k2}, {k3}}

\* All calls have returned and the bucket is full: time changes nothing.
LaneAtRest ==
    /\ phase = [c \in Callers |-> "returned"]
    /\ attempt = [c \in Callers |-> 0] /\ sleep = [c \in Callers |-> 0]
    /\ free = Permits /\ tokens = Capacity /\ elapsed = Capacity
    /\ coolDown = NoCoolDown /\ cached = {} /\ allowance = Capacity /\ hush = 0

\* The analysis has not been run yet.
CheckpointAtRest ==
    /\ Init
    /\ version = CHOOSE v \in Versions : TRUE
    /\ bounds = CHOOSE b \in Bounds : TRUE
    /\ list = CHOOSE l \in SeedLists : TRUE

EvidenceLaneInit ==
    \/ part = "checkpoint" /\ Init /\ LaneAtRest
    \/ part = "lane" /\ CheckpointAtRest /\ LaneInit

EvidenceLaneNext ==
    /\ UNCHANGED part
    /\ \/ part = "checkpoint" /\ Next /\ UNCHANGED laneVars
       \/ part = "lane" /\ LaneNext /\ UNCHANGED vars

EvidenceLaneFairSpec ==
    /\ EvidenceLaneInit /\ [][EvidenceLaneNext]_<<part, vars, laneVars>>
    /\ LaneFairness
=============================================================================
