----------------------------- MODULE MemStorage -----------------------------
(***************************************************************************)
(* The in-memory data storage (src/storage/mem/storage.go): a KV tree of   *)
(* encoded values (an 8-byte expireAt header before the value), the        *)
(* written-keys/bytes statistics, snapshots of a key range written to and  *)
(* applied from a length-prefixed file, and SplitCheck.                    *)
(*                                                                         *)
(* Keys are 1..NKeys (their order is the tree's order, each key is one     *)
(* byte); a value is abstracted to its length; time is Unix seconds.       *)
(*                                                                         *)
(* Fault model (FaultSpec): db.data may be left cut short, as a write of   *)
(* CreateSnapshot that fails partway leaves it; it keeps the whole fields *)
(* written before the cut and possibly part of the next one.              *)
(***************************************************************************)
EXTENDS Naturals, Sequences, FiniteSets, SequencesExt, Functions

CONSTANTS
    NKeys,      \* number of distinct keys
    ValLens,    \* lengths of the values callers write (0 = empty value)
    TTLs,       \* ttl arguments of SetWithTTL / WriteBatch (0 = no ttl)
    MaxTime,    \* bound on the clock
    MaxOps,     \* bound on the number of write calls
    MaxApplies, \* bound on the number of ApplySnapshot calls
    SplitSize   \* the size argument of SplitCheck

ASSUME /\ NKeys \in Nat \ {0} /\ ValLens \subseteq Nat /\ TTLs \subseteq Nat
       /\ MaxTime \in Nat /\ MaxOps \in Nat /\ MaxApplies \in Nat /\ SplitSize \in Nat \ {0}

Keys    == 1..NKeys
Bounds  == 1..NKeys + 1                   \* start/end keys of a range
KeyLen  == 1
\* encodeValue(value, expireAt): the header and the value.
Entries == [exp : 0..MaxTime + Max(TTLs \cup {0}), val : ValLens]

VARIABLES
    kv,          \* s.kv: stored key -> encoded value
    now,         \* time.Now().Unix()
    writtenKeys, \* s.stats.WrittenKeys
    writtenBytes,\* s.stats.WrittenBytes
    ops,         \* write calls so far (<= MaxOps)
    applies,     \* ApplySnapshot calls so far (<= MaxApplies)
    snap,        \* the db.data file of the last CreateSnapshot (<<>> if none)
    snapKV,      \* history: the range contents when the snapshot was taken
    tail,        \* what follows snap's whole fields: "nofile" | "eof" | "header" | "data"
    restored,    \* history: ApplySnapshot ran and nothing was written since
    lastApply    \* history: result of the last ApplySnapshot, and whether its file was whole

vars == <<kv, now, writtenKeys, writtenBytes, ops, applies, snap, snapKV,
          tail, restored, lastApply>>

----------------------------------------------------------------------------
(* Tree helpers *)

Put(f, k, e) == [x \in DOMAIN f \cup {k} |-> IF x = k THEN e ELSE f[x]]
InRange(k, s, e) == s <= k /\ k < e
RangeKeys(f, s, e) == {k \in DOMAIN f : InRange(k, s, e)}
SortedKeys(S) ==
    LET In(k) == k \in S IN SelectSeq([i \in 1..NKeys |-> i], In)

(* decodeValue: the value, or nothing once expireAt has passed. *)
DecodeLen(x) == IF x.exp # 0 /\ x.exp < now THEN 0 ELSE x.val

(* What Scan/PrefixScan hand to their handler for [s, e): rows whose      *)
(* decoded value is empty are skipped.                                     *)
Visible(f, s, e) ==
    LET ks == {k \in RangeKeys(f, s, e) : DecodeLen(f[k]) > 0}
    IN  [k \in ks |-> DecodeLen(f[k])]

(* A SetWithTTL that takes the ttl in milliseconds. *)
EncodeMs(v, ttl) == [exp |-> IF ttl > 0 THEN now + 1000 * ttl ELSE 0, val |-> v]

(* SetWithTTL's encoded value. *)
Encode(v, ttl) == [exp |-> IF ttl > 0 THEN now + ttl ELSE 0, val |-> v]

Init ==
    /\ kv = [k \in {} |-> [exp |-> 0, val |-> 0]]
    /\ now = 1
    /\ writtenKeys = 0 /\ writtenBytes = 0 /\ ops = 0 /\ applies = 0
    /\ snap = <<>> /\ snapKV = kv /\ tail = "nofile" /\ restored = FALSE
    /\ lastApply = [res |-> "none", whole |-> TRUE]

(* Common frame of a write call; none runs once an apply spins forever. *)
WriteCall ==
    /\ ops < MaxOps /\ lastApply.res # "hang"
    /\ ops' = ops + 1
    /\ restored' = FALSE
    /\ UNCHANGED <<applies, now, snap, snapKV, tail, lastApply>>

----------------------------------------------------------------------------
(* Write operations *)

(* Set: counts the key and bytes, then calls SetWithTTL(key, value, 0),   *)
(* which counts them again.                                                *)
Set(k, v) ==
    /\ WriteCall
    /\ writtenKeys' = writtenKeys + 2
    /\ writtenBytes' = writtenBytes + 2 * (v + KeyLen)
    /\ kv' = Put(kv, k, Encode(v, 0))

SetWithTTL(k, v, ttl) ==
    /\ WriteCall
    /\ writtenKeys' = writtenKeys + 1
    /\ writtenBytes' = writtenBytes + v + KeyLen
    /\ kv' = Put(kv, k, Encode(v, ttl))

(* BatchSet: len(pairs)/2 keys, then Set and the bytes again per pair. *)
BatchSet(pairs) ==
    LET S == DOMAIN pairs
        bytes == FoldFunction(LAMBDA v, acc : acc + v + KeyLen, 0, pairs)
    IN
    /\ WriteCall
    /\ writtenKeys' = writtenKeys + 3 * Cardinality(S)
    /\ writtenBytes' = writtenBytes + 3 * bytes
    /\ kv' = [x \in DOMAIN kv \cup S |-> IF x \in S THEN Encode(pairs[x], 0) ELSE kv[x]]

Delete(k) ==
    /\ WriteCall
    /\ writtenKeys' = writtenKeys + 1
    /\ writtenBytes' = writtenBytes + KeyLen
    /\ kv' = Restrict(kv, DOMAIN kv \ {k})

BatchDelete(S) ==
    /\ WriteCall
    /\ writtenKeys' = writtenKeys + Cardinality(S)
    /\ writtenBytes' = writtenBytes + Cardinality(S) * KeyLen
    /\ kv' = Restrict(kv, DOMAIN kv \ S)

(* RangeDelete (and RemoveShardData): always 2 keys and both bound keys'  *)
(* bytes, however many keys the range holds.                               *)
RangeDelete(s, e) ==
    /\ WriteCall
    /\ writtenKeys' = writtenKeys + 2
    /\ writtenBytes' = writtenBytes + 2 * KeyLen
    /\ kv' = Restrict(kv, DOMAIN kv \ RangeKeys(kv, s, e))

(* Write(wb): each OpDelete is a Delete, each OpSet a SetWithTTL. *)
WriteOps ==
    [op : {"set"}, key : Keys, val : ValLens, ttl : TTLs] \cup
    [op : {"delete"}, key : Keys]

ApplyWriteOp(st, o) ==
    IF o.op = "delete"
      THEN [kv |-> Restrict(st.kv, DOMAIN st.kv \ {o.key}),
            keys |-> st.keys + 1, bytes |-> st.bytes + KeyLen]
      ELSE [kv |-> Put(st.kv, o.key, Encode(o.val, o.ttl)),
            keys |-> st.keys + 1, bytes |-> st.bytes + o.val + KeyLen]

Write(wb) ==
    /\ wb # <<>>
    /\ LET st == FoldLeft(ApplyWriteOp,
                          [kv |-> kv, keys |-> writtenKeys, bytes |-> writtenBytes], wb)
       IN  /\ WriteCall
           /\ kv' = st.kv /\ writtenKeys' = st.keys /\ writtenBytes' = st.bytes

Tick ==
    /\ now < MaxTime
    /\ now' = now + 1
    /\ UNCHANGED <<kv, writtenKeys, writtenBytes, ops, applies, snap, snapKV, tail,
                   restored, lastApply>>

----------------------------------------------------------------------------
(* Snapshots *)

(* CreateSnapshot: writeBytes(start), writeBytes(end), then every stored  *)
(* row of [start, end) in key order, the encoded value as stored (rows    *)
(* that decode to nothing included).                                      *)
SnapshotFile(s, e) ==
    LET ks == SortedKeys(RangeKeys(kv, s, e))
    IN  <<s, e>> \o FlattenSeq([i \in 1..Len(ks) |-> <<ks[i], kv[ks[i]]>>])

CreateSnapshot(s, e) ==
    /\ snap' = SnapshotFile(s, e) /\ tail' = "eof"
    /\ snapKV' = [k \in RangeKeys(kv, s, e) |-> kv[k]]
    /\ UNCHANGED <<kv, now, writtenKeys, writtenBytes, ops, applies, restored, lastApply>>

(* A writeBytes of CreateSnapshot fails partway (the disk fills, the      *)
(* process stops): CreateSnapshot returns the error and db.data keeps the *)
(* first n fields, then nothing, part of the next field's 4-byte length,  *)
(* or its length and part of its bytes.                                    *)
CreateSnapshotCut(s, e) ==
    LET file == SnapshotFile(s, e) IN
    /\ \E n \in 0..Len(file) - 1, t \in {"eof", "header", "data"} :
         snap' = SubSeq(file, 1, n) /\ tail' = t
    /\ snapKV' = [k \in RangeKeys(kv, s, e) |-> kv[k]]
    /\ UNCHANGED <<kv, now, writtenKeys, writtenBytes, ops, applies, restored, lastApply>>

(* db.data is all of what CreateSnapshot writes. *)
SnapWhole == tail = "eof" /\ Len(snap) = 2 + 2 * Cardinality(DOMAIN snapKV)

(* An ApplySnapshot that puts the decoded value, without its expiry. *)
StoredFromSnapshotDecoded(x) == [exp |-> 0, val |-> DecodeLen(x)]

(* What ApplySnapshot puts for a row read from the file. *)
StoredFromSnapshot(x) == x

(* readBytes of field i: past the end, Read returns 0 and EOF and the    *)
(* field is empty; a length cut short reads as 0 (the bytes present are   *)
(* the high-order zeros), so the field is empty too; a field whose bytes  *)
(* are cut short never fills, and the loop keeps reading 0 bytes at EOF.  *)
ReadField(file, i) ==
    CASE i <= Len(file)                      -> "field"
      [] i = Len(file) + 1 /\ tail = "data" -> "hang"
      [] OTHER                               -> "empty"

(* ApplySnapshot's loop from field i: an empty key ends the loop, a key    *)
(* without its value is a format error, a read that never returns hangs.  *)
RECURSIVE ReadRows(_, _, _)
ReadRows(file, i, acc) ==
    CASE ReadField(file, i) = "hang"      -> [acc EXCEPT !.res = "hang"]
      [] ReadField(file, i) = "empty"     -> acc
      [] ReadField(file, i + 1) = "hang"  -> [acc EXCEPT !.res = "hang"]
      [] ReadField(file, i + 1) = "empty" -> [acc EXCEPT !.res = "error"]
      [] OTHER ->
           ReadRows(file, i + 2,
                    [acc EXCEPT !.kv = Put(@, file[i], StoredFromSnapshot(file[i + 1])),
                                !.keys = @ + 1,
                                !.bytes = @ + KeyLen + file[i + 1].val + 8])

(* ApplySnapshot: read start and end (an empty one is a format error),    *)
(* RangeDelete [start, end) on the tree directly, then Put every row,     *)
(* counting each.                                                          *)
ApplySnapshot ==
    /\ tail # "nofile" /\ lastApply.res # "hang"
    /\ applies < MaxApplies
    /\ applies' = applies + 1
    /\ LET start == ReadField(snap, 1)
           end   == ReadField(snap, 2)
           r == IF start = "field" /\ end = "field"
                THEN ReadRows(snap, 3,
                        [res |-> "ok",
                         kv |-> Restrict(kv, DOMAIN kv \ RangeKeys(kv, snap[1], snap[2])),
                         keys |-> writtenKeys, bytes |-> writtenBytes])
                ELSE [res |-> IF "hang" \in {start, end} THEN "hang" ELSE "error",
                      kv |-> kv, keys |-> writtenKeys, bytes |-> writtenBytes]
       IN  /\ kv' = r.kv /\ writtenKeys' = r.keys /\ writtenBytes' = r.bytes
           /\ restored' = (r.res = "ok")
           /\ lastApply' = [res |-> r.res, whole |-> SnapWhole]
    /\ UNCHANGED <<ops, now, snap, snapKV, tail>>

----------------------------------------------------------------------------
(* SplitCheck *)

(* One row of SplitCheck's Scan handler. *)
SplitStep(acc, row) ==
    LET n   == KeyLen + row.len
        app == acc.app
        sum == (IF app THEN 0 ELSE acc.sum) + n
    IN [total |-> acc.total + n, keys |-> acc.keys + 1, sum |-> sum,
        app |-> sum >= acc.size,
        splits |-> IF app THEN Append(acc.splits, row.key) ELSE acc.splits,
        size |-> acc.size]

(* SplitCheck(start, end, size): total bytes, keys and split keys of the  *)
(* rows of [start, end) whose value decodes to something.                  *)
ScanRows(s, e) ==
    LET vis == Visible(kv, s, e)
        ks  == SortedKeys(DOMAIN vis)
    IN [i \in 1..Len(ks) |-> [key |-> ks[i], len |-> vis[ks[i]]]]

SplitCheck(s, e, size) ==
    FoldLeft(SplitStep, [total |-> 0, keys |-> 0, sum |-> 0, app |-> FALSE,
                         splits |-> <<>>, size |-> size], ScanRows(s, e))

----------------------------------------------------------------------------
Next ==
    \/ \E k \in Keys, v \in ValLens : Set(k, v)
    \/ \E k \in Keys, v \in ValLens, ttl \in TTLs : SetWithTTL(k, v, ttl)
    \/ \E S \in SUBSET Keys \ {{}} : \E pairs \in [S -> ValLens] : BatchSet(pairs)
    \/ \E k \in Keys : Delete(k)
    \/ \E S \in SUBSET Keys \ {{}} : BatchDelete(S)
    \/ \E s, e \in Bounds : s < e /\ RangeDelete(s, e)
    \/ \E wb \in SeqOf(WriteOps, 2) : Write(wb)
    \/ Tick
    \/ \E s, e \in Bounds : s < e /\ CreateSnapshot(s, e)
    \/ ApplySnapshot

Spec == Init /\ [][Next]_vars

(* The storage with db.data cut short by a failed CreateSnapshot. *)
FaultNext == Next \/ \E s, e \in Bounds : s < e /\ CreateSnapshotCut(s, e)

FaultSpec == Init /\ [][FaultNext]_vars

----------------------------------------------------------------------------
(* Properties *)

TypeOK ==
    /\ DOMAIN kv \subseteq Keys /\ \A k \in DOMAIN kv : kv[k] \in Entries
    /\ now \in 1..MaxTime /\ ops \in 0..MaxOps /\ applies \in 0..MaxApplies
    /\ writtenKeys \in Nat /\ writtenBytes \in Nat
    /\ tail \in {"nofile", "eof", "header", "data"} /\ restored \in BOOLEAN
    /\ lastApply \in [res : {"none", "ok", "error", "hang"}, whole : BOOLEAN]

(* S6: a snapshot of [start, end) applied to the engine gives back exactly *)
(* what Scan enumerated over that range when the snapshot was taken, at    *)
(* any later time (rows carry their expiry through the file).             *)
SnapshotRestores ==
    restored => Visible(kv, snap[1], snap[2]) = Visible(snapKV, snap[1], snap[2])

(* The comment on SplitCheck: it finds a key such that the bytes of the  *)
(* visible rows of [start, key) are at most size. With several split      *)
(* keys, every chunk the returned keys cut, from start or the previous    *)
(* split key up to a split key, holds at most size bytes.                 *)
RowBytes(row) == KeyLen + row.len
SumBytes(rows) == FoldLeft(LAMBDA acc, row : acc + RowBytes(row), 0, rows)

ChunkBytes(rows, s, splits) ==
    LET cuts == <<s>> \o splits
        chunk(j) == LET In(row) == cuts[j] <= row.key /\ row.key < cuts[j + 1]
                    IN  SelectSeq(rows, In)
    IN [j \in 1..Len(splits) |-> SumBytes(chunk(j))]

SplitKeysWithinSize ==
    \A s, e \in Bounds : s < e =>
        LET r == SplitCheck(s, e, SplitSize)
        IN  \A j \in 1..Len(r.splits) :
                ChunkBytes(ScanRows(s, e), s, r.splits)[j] <= SplitSize

(* ApplySnapshot of a db.data that CreateSnapshot did not finish writing *)
(* returns an error: corrupted persistent state is reported, neither      *)
(* applied as if the range had fewer rows nor left spinning in readBytes. *)
SnapshotCutReported == lastApply.whole \/ lastApply.res = "error"

=============================================================================
