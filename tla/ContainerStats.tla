--------------------------- MODULE ContainerStats ---------------------------
(***************************************************************************)
(* The container statistics (src/components/prophet/statistics/util.go):  *)
(* a containerStatisticsMap is created for a round of metric collection,  *)
(* Observe is called for every cached container and Collect publishes the *)
(* counters; Reset clears the three gauge vectors.                        *)
(*                                                                         *)
(* The collection job is not under src/: following the spec, a round      *)
(* observes every container once and then collects. A container's state  *)
(* is Up, Offline or Tombstone, and Tombstone is final. Of the derived    *)
(* states only the first that holds matters to Observe's switch, so a     *)
(* container's health is one of "ok", "down", "unhealthy",               *)
(* "disconnected". Per-container gauges are grouped by how Observe and   *)
(* resetContainerStatistics treat them.                                   *)
(***************************************************************************)
EXTENDS Naturals, FiniteSets

CONSTANTS
    Containers,   \* cached container ids
    Zones,        \* values of the one location label; "" when unset
    MaxRounds     \* bound on collection rounds

States  == {"Up", "Offline", "Tombstone"}
Healths == {"ok", "down", "unhealthy", "disconnected"}
Buckets == {"Up", "Disconnect", "Unhealthy", "Down", "Offline", "Tombstone", "LowSpace"}

(* "" is counted as "unknown". *)
LabelKey(z) == IF z = "" THEN "unknown" ELSE z
LabelKeys   == {LabelKey(z) : z \in Zones}

(* Gauge groups: base (available, used, capacity, scores, sizes, counts)   *)
(* and rate (the four *_rate_bytes/_keys) are deleted by                  *)
(* resetContainerStatistics; avg (available_avg, available_deviation) and *)
(* extra (cpu, disk rates, the four *_instant) are not.                   *)
Groups      == {"base", "avg", "rate", "extra"}
ResetGroups == {"base", "rate"}
FlowGroups  == {"rate", "extra"}

VARIABLES
    meta,       \* the cached container as last observed: [state, health, lowSpace, flow, zone]
    round,      \* "idle" | "observing"
    rounds,     \* rounds begun
    seen,       \* the containers observed this round, as Observe saw them
    counts,     \* containerStatistics: Up ... LowSpace
    labels,     \* containerStatistics.LabelCounter (0: key absent)
    gauges,     \* containerStatusGauge: <<container, group>> label sets
    cluster,    \* clusterStatusGauge: the buckets set so far, with their values
    placement   \* placementStatusGauge: the label keys set so far, with their values

vars == <<meta, round, rounds, seen, counts, labels, gauges, cluster, placement>>

Meta == [state : States, health : Healths, lowSpace : BOOLEAN, flow : BOOLEAN, zone : Zones]

Zero == [b \in Buckets |-> 0]

Init ==
    /\ \E z \in [Containers -> Zones] :
         meta = [c \in Containers |-> [state |-> "Up", health |-> "ok", lowSpace |-> FALSE,
                                       flow |-> FALSE, zone |-> z[c]]]
    /\ round = "idle" /\ rounds = 0
    /\ seen = [c \in {} |-> CHOOSE m \in Meta : TRUE]
    /\ counts = Zero /\ labels = [k \in LabelKeys |-> 0]
    /\ gauges = {}
    /\ cluster = [b \in {} |-> 0]
    /\ placement = [k \in {} |-> 0]

----------------------------------------------------------------------------
(* The cluster as Observe finds it. A cached container changes between  *)
(* Up and Offline and gets new heartbeat data any number of times before  *)
(* it is observed again; Tombstone is final and the label is fixed.       *)
Cached(m) ==
    IF m.state = "Tombstone" THEN {m}
    ELSE {x \in Meta : x.zone = m.zone}

----------------------------------------------------------------------------
(* Statistics *)

(* A round that reuses the previous round's counters. *)
NewRoundKeepCounts ==
    /\ round = "idle" /\ rounds < MaxRounds
    /\ round' = "observing" /\ rounds' = rounds + 1
    /\ seen' = [c \in {} |-> CHOOSE m \in Meta : TRUE]
    /\ labels' = [k \in LabelKeys |-> 0]
    /\ UNCHANGED <<meta, counts, gauges, cluster, placement>>

(* NewContainerStatisticsMap: fresh counters for a round. *)
NewRound ==
    /\ round = "idle" /\ rounds < MaxRounds
    /\ round' = "observing" /\ rounds' = rounds + 1
    /\ seen' = [c \in {} |-> CHOOSE m \in Meta : TRUE]
    /\ counts' = Zero /\ labels' = [k \in LabelKeys |-> 0]
    /\ UNCHANGED <<meta, gauges, cluster, placement>>

(* The state switch of Observe: Up splits by the first derived state. *)
StateBucket(m) ==
    CASE m.state = "Offline"   -> "Offline"
      [] m.state = "Tombstone" -> "Tombstone"
      [] m.health = "down"         -> "Down"
      [] m.health = "unhealthy"    -> "Unhealthy"
      [] m.health = "disconnected" -> "Disconnect"
      [] OTHER                     -> "Up"

(* Observe whose label loop counts tombstones too. *)
ObserveLabelTombstones(c) ==
    \E m \in Cached(meta[c]) :
    LET b == StateBucket(m) IN
    /\ meta' = [meta EXCEPT ![c] = m]
    /\ round = "observing" /\ c \notin DOMAIN seen
    /\ seen' = [x \in DOMAIN seen \cup {c} |-> IF x = c THEN m ELSE seen[x]]
    /\ labels' = [labels EXCEPT ![LabelKey(m.zone)] = @ + 1]
    /\ IF m.state = "Tombstone"
         THEN /\ counts' = [counts EXCEPT ![b] = @ + 1]
              /\ gauges' = gauges \ ({c} \X ResetGroups)
         ELSE /\ counts' = [counts EXCEPT ![b] = @ + 1,
                                          !["LowSpace"] = IF m.lowSpace THEN @ + 1 ELSE @]
              /\ gauges' = gauges \cup ({c} \X ({"base", "avg"} \cup
                                                 IF m.flow THEN FlowGroups ELSE {}))
    /\ UNCHANGED <<round, rounds, cluster, placement>>

(* Observe(container): the label counter skips tombstones; the state      *)
(* switch counts the container; a tombstone deletes its reset gauges and  *)
(* returns; otherwise LowSpace is counted and the gauges are set, the     *)
(* flow gauges only when the container has rolling flow stats.           *)
Observe(c) ==
    \E m \in Cached(meta[c]) :
    LET b == StateBucket(m) IN
    /\ meta' = [meta EXCEPT ![c] = m]
    /\ round = "observing" /\ c \notin DOMAIN seen
    /\ seen' = [x \in DOMAIN seen \cup {c} |-> IF x = c THEN m ELSE seen[x]]
    /\ labels' = IF m.state # "Tombstone"
                   THEN [labels EXCEPT ![LabelKey(m.zone)] = @ + 1] ELSE labels
    /\ IF m.state = "Tombstone"
         THEN /\ counts' = [counts EXCEPT ![b] = @ + 1]
              /\ gauges' = gauges \ ({c} \X ResetGroups)
         ELSE /\ counts' = [counts EXCEPT ![b] = @ + 1,
                                          !["LowSpace"] = IF m.lowSpace THEN @ + 1 ELSE @]
              /\ gauges' = gauges \cup ({c} \X ({"base", "avg"} \cup
                                                 IF m.flow THEN FlowGroups ELSE {}))
    /\ UNCHANGED <<round, rounds, cluster, placement>>

(* Collect: every counter is published; a placement gauge is set for     *)
(* each key the LabelCounter holds.                                        *)
Collect ==
    /\ round = "observing" /\ DOMAIN seen = Containers
    /\ round' = "idle"
    /\ cluster' = counts
    /\ LET set == {k \in LabelKeys : labels[k] > 0}
       IN placement' = [k \in DOMAIN placement \cup set |->
                          IF k \in set THEN labels[k] ELSE placement[k]]
    /\ UNCHANGED <<meta, rounds, seen, counts, labels, gauges>>

(* containerStatisticsMap.Reset: the three gauge vectors are cleared. *)
Reset ==
    /\ round = "idle"
    /\ gauges' = {}
    /\ cluster' = [b \in {} |-> 0]
    /\ placement' = [k \in {} |-> 0]
    /\ UNCHANGED <<meta, round, rounds, seen, counts, labels>>

Next ==
    \/ NewRound \/ Collect \/ Reset
    \/ \E c \in Containers : Observe(c)

Spec == Init /\ [][Next]_vars

----------------------------------------------------------------------------
(* Properties *)

TypeOK ==
    /\ meta \in [Containers -> Meta]
    /\ round \in {"idle", "observing"} /\ rounds \in 0..MaxRounds
    /\ DOMAIN seen \subseteq Containers /\ \A c \in DOMAIN seen : seen[c] \in Meta
    /\ counts \in [Buckets -> 0..Cardinality(Containers)]
    /\ labels \in [LabelKeys -> 0..Cardinality(Containers)]
    /\ gauges \subseteq Containers \X Groups
    /\ DOMAIN cluster \in {{}, Buckets} /\ \A b \in DOMAIN cluster : cluster[b] \in Nat
    /\ DOMAIN placement \subseteq LabelKeys /\ \A k \in DOMAIN placement : placement[k] \in Nat

(* The containers observed in the last round whose observed state falls   *)
(* in bucket b, by the spec's derived states (Down before Unhealthy       *)
(* before Disconnected), and the live ones that were low on space or      *)
(* carried label key k.                                                   *)
SeenIn(b) ==
    {c \in DOMAIN seen :
        \/ seen[c].state \in {"Offline", "Tombstone"} /\ b = seen[c].state
        \/ seen[c].state = "Up" /\ b = CASE seen[c].health = "down" -> "Down"
                                          [] seen[c].health = "unhealthy" -> "Unhealthy"
                                          [] seen[c].health = "disconnected" -> "Disconnect"
                                          [] OTHER -> "Up"}
Live == {c \in DOMAIN seen : seen[c].state # "Tombstone"}
SeenLowSpace == {c \in Live : seen[c].lowSpace}
SeenWithKey(k) == {c \in Live : LabelKey(seen[c].zone) = k}

(* After Collect, clusterStatusGauge holds, for every state bucket, the   *)
(* number of containers the round observed in it; LowSpace and the        *)
(* placement gauges count live containers only, because Observe returns   *)
(* right after a tombstone's reset and its label loop skips tombstones.   *)
CollectedCountsMatch ==
    (round = "idle" /\ DOMAIN cluster = Buckets) =>
        /\ \A b \in Buckets \ {"LowSpace"} : cluster[b] = Cardinality(SeenIn(b))
        /\ cluster["LowSpace"] = Cardinality(SeenLowSpace)
        /\ \A k \in LabelKeys : SeenWithKey(k) # {} =>
                                k \in DOMAIN placement /\ placement[k] = Cardinality(SeenWithKey(k))
=============================================================================
