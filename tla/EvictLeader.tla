---------------------------- MODULE EvictLeader ----------------------------
(***************************************************************************)
(* The evict-leader scheduler (src/components/prophet/schedulers/          *)
(* evict_leader.go) driving the operator controller, which is not under    *)
(* src/ and follows the spec (C7): one operator per resource, a higher     *)
(* priority replaces a lower one, and leader operators are admitted while  *)
(* their count is below LeaderScheduleLimit.                               *)
(*                                                                         *)
(* Every resource has a peer on every container, so a resource's follower  *)
(* containers are all containers but its leader's. Key ranges are the      *)
(* whole key space and every resource is healthy. A balance scheduler      *)
(* proposes a bounded number of normal-priority leader transfers.          *)
(***************************************************************************)
EXTENDS Naturals, FiniteSets, Sequences, SequencesExt

CONSTANTS
    Containers,           \* container ids
    NResources,           \* resources are 1..NResources
    Evictable,            \* container ids BuildWithArgs may be given
    LeaderScheduleLimit,  \* cluster.GetOpts().GetLeaderScheduleLimit()
    MaxOtherOps,          \* bound on balance-scheduler proposals
    MaxCancels            \* bound on operators cancelled by timeout

ASSUME /\ NResources \in Nat \ {0} /\ Evictable \subseteq Containers
       /\ LeaderScheduleLimit \in Nat \ {0}
       /\ MaxOtherOps \in Nat /\ MaxCancels \in Nat

EvictLeaderBatchSize == 3

Resources == 1..NResources

VARIABLES
    leader,     \* resource -> container holding its leader
    ops,        \* the operator controller: resource -> operator
    conf,       \* keys of conf.ContainerIDWithRanges
    paused,     \* containers with leader transfer paused (PauseLeaderTransfer)
    running,    \* the scheduler is prepared and being ticked
    lastBatch,  \* history: [ops, resources] counted in the last Schedule's batch
    otherOps,   \* balance proposals made
    cancels     \* operators cancelled

vars == <<leader, ops, conf, paused, running, lastBatch, otherOps, cancels>>

Operators == [res : Resources, from : Containers, to : Containers,
              prio : {"normal", "high"}]
PrioRank(p) == IF p = "high" THEN 1 ELSE 0

----------------------------------------------------------------------------
(* Operator controller (spec C7) *)

LeaderOpCount(ctrl) == Cardinality(DOMAIN ctrl)

(* AddOperator: a new resource needs a free slot below the limit; a higher *)
(* priority operator replaces the resource's current one.                  *)
Admit(ctrl, o) ==
    IF \/ o.res \notin DOMAIN ctrl /\ LeaderOpCount(ctrl) < LeaderScheduleLimit
       \/ o.res \in DOMAIN ctrl /\ PrioRank(o.prio) > PrioRank(ctrl[o.res].prio)
      THEN [x \in DOMAIN ctrl \cup {o.res} |-> IF x = o.res THEN o ELSE ctrl[x]]
      ELSE ctrl

(* The batch reaches the controller in resource order. *)
AddOperators(batch) ==
    LET AddFor(ctrl, r) ==
            IF \E o \in batch : o.res = r
              THEN Admit(ctrl, CHOOSE o \in batch : o.res = r) ELSE ctrl
    IN  FoldLeft(AddFor, ops, [i \in 1..NResources |-> i])

----------------------------------------------------------------------------
(* Scheduler *)

(* IsScheduleAllowed: leader operators in flight below the limit. *)
IsScheduleAllowed == LeaderOpCount(ops) < LeaderScheduleLimit

(* RandLeaderResource(id, ranges, HealthResource). *)
LeaderResources(id) == {r \in Resources : leader[r] = id}

(* Follower containers without the ContainerStateFilter. *)
TargetsUnfiltered(r) == Containers \ {leader[r]}

(* Follower containers that pass ContainerStateFilter{TransferLeader}. *)
Targets(r) == {t \in Containers \ {leader[r]} : t \notin paused}

(* What scheduleOnce may append for container id: nothing when it has no  *)
(* leader or the picked resource has no target, else one transfer out.     *)
Picks(id) ==
    LET moves == UNION {{{[res |-> r, from |-> id, to |-> t, prio |-> "high"]} :
                            t \in Targets(r)} : r \in LeaderResources(id)}
        skip  == IF \E r \in LeaderResources(id) : Targets(r) = {}
                   THEN {{}} ELSE {}
    IN  IF LeaderResources(id) = {} THEN {{}} ELSE moves \cup skip

(* scheduleOnce: the results of the loop over the configured containers. *)
RECURSIVE OnceOver(_)
OnceOver(ids) ==
    IF ids = {} THEN {{}}
    ELSE LET id == CHOOSE x \in ids : TRUE
         IN  {p \cup q : p \in Picks(id), q \in OnceOver(ids \ {id})}

ScheduleOnce == OnceOver(conf)

(* A uniqueAppend that appends everything. *)
UniqueAppendAll(dst, src) == dst \cup src

(* uniqueAppend: operators for resources already in dst are dropped. *)
UniqueAppend(dst, src) ==
    dst \cup {o \in src : o.res \notin {d.res : d \in dst}}

(* Schedule's loop from iteration i: stop on an empty scheduleOnce or once *)
(* the batch holds more than EvictLeaderBatchSize operators.               *)
(* onces is what scheduleOnce may return on the unchanged cluster view.    *)
RECURSIVE Batches(_, _, _)
Batches(i, acc, onces) ==
    IF i >= EvictLeaderBatchSize THEN {acc}
    ELSE UNION {IF once = {} THEN {acc}
                ELSE LET n == UniqueAppend(acc, once)
                     IN  IF Cardinality(n) > EvictLeaderBatchSize THEN {n}
                         ELSE Batches(i + 1, n, onces) : once \in onces}

----------------------------------------------------------------------------
(* The decoder built the scheduler for one container; Prepare ran. *)
Init ==
    /\ leader \in [Resources -> Containers]
    /\ ops = [r \in {} |-> CHOOSE o \in Operators : TRUE]
    /\ \E c \in Evictable : conf = {c} /\ paused = {c}
    /\ running = TRUE
    /\ lastBatch = [ops |-> 0, resources |-> 0] /\ otherOps = 0 /\ cancels = 0

(* The coordinator ticks the scheduler: IsScheduleAllowed, Schedule, and  *)
(* the batch is added to the operator controller.                          *)
Schedule ==
    /\ running /\ IsScheduleAllowed
    /\ \E batch \in Batches(0, {}, ScheduleOnce) :
         /\ ops' = AddOperators(batch)
         /\ lastBatch' = [ops |-> Cardinality(batch),
                           resources |-> Cardinality({o.res : o \in batch})]
    /\ UNCHANGED <<leader, conf, paused, running, otherOps, cancels>>

(* Prepare: pause leader transfer to every configured container. *)
Prepare ==
    /\ ~running
    /\ running' = TRUE /\ paused' = paused \cup conf
    /\ UNCHANGED <<leader, ops, conf, lastBatch, otherOps, cancels>>

(* Cleanup: resume leader transfer to every configured container. *)
Cleanup ==
    /\ running
    /\ running' = FALSE /\ paused' = paused \ conf
    /\ UNCHANGED <<leader, ops, conf, lastBatch, otherOps, cancels>>

(* BuildWithArgs: add a container to the configuration. *)
BuildWithArgs(id) ==
    /\ conf' = conf \cup {id}
    /\ UNCHANGED <<leader, ops, paused, running, lastBatch, otherOps, cancels>>

(* The shard leader executes the transfer and reports it by heartbeat. *)
OpFinish(r) ==
    /\ r \in DOMAIN ops
    /\ leader' = [leader EXCEPT ![r] = ops[r].to]
    /\ ops' = [x \in DOMAIN ops \ {r} |-> ops[x]]
    /\ UNCHANGED <<conf, paused, running, lastBatch, otherOps, cancels>>

(* The step times out and the controller cancels the operator. *)
OpCancel(r) ==
    /\ r \in DOMAIN ops /\ cancels < MaxCancels
    /\ ops' = [x \in DOMAIN ops \ {r} |-> ops[x]]
    /\ cancels' = cancels + 1
    /\ UNCHANGED <<leader, conf, paused, running, lastBatch, otherOps>>

(* The balance-leader scheduler proposes a transfer to an unpaused         *)
(* follower container, under the same limit.                               *)
OtherTransfer(r, t) ==
    /\ otherOps < MaxOtherOps /\ LeaderOpCount(ops) < LeaderScheduleLimit
    /\ t \in Targets(r)
    /\ ops' = Admit(ops, [res |-> r, from |-> leader[r], to |-> t, prio |-> "normal"])
    /\ otherOps' = otherOps + 1
    /\ UNCHANGED <<leader, conf, paused, running, lastBatch, cancels>>

Next ==
    \/ Schedule \/ Prepare \/ Cleanup
    \/ \E id \in Evictable : BuildWithArgs(id)
    \/ \E r \in Resources : OpFinish(r) \/ OpCancel(r)
    \/ \E r \in Resources, t \in Containers : OtherTransfer(r, t)

(* The scheduler is ticked while it can schedule, and a started transfer   *)
(* to a healthy follower completes.                                        *)
Fairness ==
    /\ WF_vars(Schedule)
    /\ \A r \in Resources : WF_vars(OpFinish(r))

Spec == Init /\ [][Next]_vars /\ Fairness

----------------------------------------------------------------------------
(* Properties *)

(* The spec (C6) and EvictLeaderBatchSize's comment: one Schedule call     *)
(* returns at most EvictLeaderBatchSize operators.                         *)
BatchWithinSize == lastBatch.ops <= EvictLeaderBatchSize

(* uniqueAppend: a batch never holds two operators for one resource,     *)
(* although scheduleOnce runs three times over the same cluster view and  *)
(* may pick the same resource with different targets.                     *)
UniqueBatch == lastBatch.resources = lastBatch.ops

(* A configured container whose leader transfer is paused eventually      *)
(* holds no leader while the scheduler keeps running.                     *)
EvictionCompletes ==
    \A c \in Evictable :
        (running /\ c \in conf /\ c \in paused)
            ~> (LeaderResources(c) = {} \/ ~running)
=============================================================================
