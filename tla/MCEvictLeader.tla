---------------------------- MODULE MCEvictLeader ---------------------------
(* Three containers and two resources; two containers may be configured   *)
(* for eviction, so the third is always a target. A leader schedule limit *)
(* of 1 is below a two-operator batch, the balance scheduler makes at     *)
(* most two proposals and one operator times out. The batch-size run uses *)
(* four resources, the fewest one Schedule can overfill.                   *)
EXTENDS EvictLeader

CONSTANTS c1, c2, c3

MCContainers == {c1, c2, c3}
MCNResources == 2
MCNResourcesBatch == 4
MCEvictable  == {c1, c2}
MCLeaderScheduleLimit == 1
MCMaxOtherOps == 2
MCMaxCancels  == 1
=============================================================================
