---------------------------- MODULE MCMemStorage ----------------------------
(* Three keys, values of length 0..2, a ttl of 1 over three seconds (a row *)
(* written at second 1 with ttl 1 is gone at second 3), at most two write  *)
(* calls (BatchSet and Write touch several keys in one call) and one       *)
(* ApplySnapshot, so a write can fall between a snapshot and its apply,   *)
(* and a split size of 3 bytes (one long row or two short rows fill a     *)
(* chunk).                                                                 *)
EXTENDS MemStorage

MCNKeys    == 3
MCValLens  == {0, 2}
MCTTLs     == {1}
MCMaxTime  == 3
MCMaxOps   == 2
MCMaxApplies == 1
MCSplitSize == 3

(* SplitCheck over every tree the writes can leave behind: any set of      *)
(* stored keys, any encoded value, at any time; no further writes. Values  *)
(* of length 1 make 2-byte rows, so two rows can overshoot a 3-byte chunk. *)
MCNoOps == 0
MCSplitValLens == 0..2

MCSplitInit ==
    /\ kv \in UNION {[S -> Entries] : S \in SUBSET Keys}
    /\ now \in 1..MaxTime
    /\ writtenKeys = 0 /\ writtenBytes = 0 /\ ops = 0 /\ applies = 0
    /\ snap = <<>> /\ snapKV = [k \in {} |-> [exp |-> 0, val |-> 0]]
    /\ tail = "nofile" /\ restored = FALSE
    /\ lastApply = [res |-> "none", whole |-> TRUE]

MCSplitSpec == MCSplitInit /\ [][Next]_vars
=============================================================================
