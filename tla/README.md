# TLA+ models of matrixcube

This directory holds TLA+ models of parts of matrixcube. TLC checks them. Each
module is translated from the Go source under `src/`. `PROJECT.json` maps every
definition to the source lines it models, and it lists the runs, the mutants, the
findings and the hazards.

## 1. The system and its parts

| Part | Source | State | Operations | Interacts with |
|---|---|---|---|---|
| Prophet async client | `src/unnamed/part_006` (options in `part_003`) | `mu.state`, the `contexts` sync.Map, `writeC` (cap 128), `resetReadC` (cap 1), the unbuffered `resetLeaderConnC`, `resourceHeartbeatRspC` (cap 128), `leaderConn`, the id counter, the stopper | The sync API (`AllocID`, `PutContainer`, ... through `syncDo`/`do`), `AsyncAdd/RemoveResources` (also through `syncDo`), `ResourceHeartbeat` (through `asyncDo`, with no callback), `GetResourceHeartbeatRspNotifier`, `timeout`, `writeLoop`, `readLoop`, `scheduleResetLeaderConn`, `initLeaderConn`, `Close` | The prophet leader over one TCP session; the timeout wheel; caller goroutines; the application receiving operator steps |
| In-memory data storage | `src/storage/mem/storage.go` | The KV tree of encoded values (8-byte `expireAt` + value), `stats.WrittenKeys/WrittenBytes`, the snapshot file in the vfs | `Set`, `SetWithTTL`, `BatchSet`, `Delete`, `BatchDelete`, `RangeDelete`, `RemoveShardData`, `Write`, `Get/MGet/Scan/PrefixScan/Seek`, `SplitCheck`, `CreateSnapshot`, `ApplySnapshot` | The raftstore applies writes and snapshots; the split checker calls `SplitCheck` |
| Cube request client | `src/client/client.go` | `inflights` sync.Map (request id -> future + request) | `exec` (store, then Dispatch), `Retry`, the `done` and `doneError` callbacks | The shards proxy calls back from its own goroutines |
| Evict-leader scheduler | `src/components/prophet/schedulers/evict_leader.go` | Config map container -> key ranges | `Prepare/Cleanup` (pause/resume leader transfer), `IsScheduleAllowed`, `Schedule` (`scheduleOnce` + `uniqueAppend`) | The operator controller and the leader schedule limit |
| Operator steps | tests only, `src/unnamed/part_004` | — | `DemoteFollower`, `ChangePeerV2Enter/Leave` | Resource heartbeats |
| RangeCluster | `src/unnamed/part_005` | — (a view) | `updateCachedContainer` rescales sizes by amplification | Scheduling in a sub-cluster |
| Container statistics | `src/components/prophet/statistics/util.go` | `containerStatistics` counters and `LabelCounter`; the container, cluster and placement gauge vectors | `NewContainerStatisticsMap`, `Observe` (with `resetContainerStatistics`), `Collect`, `Reset` | The collection job observes every cached container once per round |
| System-time monitor | `src/unnamed/part_002` (`StartMonitor`) | `last`, the 100 ms ticker | The loop: sample `last`, then on a tick compare `now()` with it and call `systimeErrHandler` | The wall clock; the handler makes the leader step down |
| Hot-resource config | `hot_resource_config.go` | Config | Getters | Metrics only |

### What makes each part correct

**Async client.**
- Every synchronous call returns. It returns with a reply, with ErrTimeout, or with ErrClosed once the client is closed.
- `Close` stops both loops and returns.
- The read loop reads only from a connection the write loop has finished initialising.
- A NotLeader retry never executes a request twice.
- Operator steps from heartbeat responses reach the application. The spec says the channel is unbounded. The code's channel holds 128 and the read loop blocks on it when it is full.

The hard parts:
- `do()` spins under the read lock while `writeC` is full.
- A timeout can fire before the write.
- The unbuffered hand-off between the read loop and the write loop races `Close`.
- `scheduleResetLeaderConn` ends in `logger.Fatal` after 10 s when no write loop is left to take the hand-off.
- While the read loop is blocked on `resourceHeartbeatRspC`, it delivers no response and does not see `stopCtx`.

**Storage.**
- A snapshot of a range, once applied, reproduces the range, expiries included.
- A snapshot file that was not completely written is reported as an error. It is neither applied as a shorter range nor left spinning in `readBytes`.
- The split keys `SplitCheck` returns leave at most `size` bytes before each of them (its comment). The code does not keep this (a finding).

**Cube client.**
- Every Future returned by `exec` resolves.
- Every inflight entry is removed once its Future is done.

**Container statistics.**
- After `Collect`, the cluster gauges count the containers the round observed, by state, and LowSpace and the placement gauges count the live ones only.

**Evict leader.**
- At most `EvictLeaderBatchSize` operators per `Schedule`.
- One operator per resource.

**System-time monitor.**
- Every backward step of the clock that the monitor's readings show is reported to the handler, so a leader whose lease depends on the clock steps down.

## 2. Plan

Modules, in the order they are built:

1. `AsyncClient`: callers, timeout wheel, write loop, read loop, Close (done).
2. `MemStorage`: writes, TTL, snapshots, `SplitCheck` (done).
3. `CubeClient`: `exec`/`Retry`/`done`/`doneError` over `inflights`. The Future and the shards proxy are not under `src/`, so they are modelled from the spec (done).
4. `EvictLeader`: `Schedule` against an operator controller modelled from the spec (done).
5. `AsyncClient` extended with `ResourceHeartbeat` and `resourceHeartbeatRspC` (done).
6. `RangeCluster`: not modelled (see section 5).
7. `ContainerStats`: the container statistics (`statistics/util.go`): `Observe`, `Collect`, `Reset` and the reset of a tombstoned container's gauges (done).
8. `TimeMonitor`: `StartMonitor` against a clock that can step backward (done).

Each module `M` has an `MCM` module that gives its constants values.

## 3. Modules

### AsyncClient (`AsyncClient.tla`, `MCAsyncClient.tla`)

**State.** `state` is `c.mu.state`. `cancelled` is the stopper's context. `closer` is the progress of `Close`. `nextId` is `c.id`. `contexts` holds the keys of `c.contexts`. `timers` are the wheel's pending timeouts. `ctxRes` is the outcome won by `ctx.done`'s CAS. `writeC` and `resetReadC` are the channels. `conn` is the leader session, and `inbox`/`resps` are the requests and responses on it. The loop positions are `rl` (readLoop) and `wl` (writeLoop). Each caller has a position `pc` and a ctx id `cid`. `hbC` is the number of operator steps buffered in `resourceHeartbeatRspC` (capacity `HbCap`). `hbIds` are the ids of `ResourceHeartbeat` requests, whose responses are `ResourceHeartbeatRsp`. The callers in `HbCallers` call `ResourceHeartbeat`. The others make synchronous calls.

**Actions.**
- `Call`: a sync API method or `ResourceHeartbeat` passes `running()`.
- `DoStep`: one pass of `do()`'s loop under the read lock. On the first pass it assigns the id. For a sync ctx it also stores the ctx and schedules the timeout. The async ctx of `ResourceHeartbeat` has no callback, so it is neither stored nor timed. The pass then makes the non-blocking send. `asyncDo` returns once the send is made.
- `Wait`: `ctx.wait()` returns. On NotLeader `syncDo` retries with a new ctx.
- `Timeout`: the wheel's callback.
- `WriteReq`, `ResetHandoff`, `WriteLoopStop`: the write loop's three select cases.
- `Connect`, `ConnectClosed`: `initLeaderConn`.
- Read loop:
  - `ReadActivate` and `ReadStop` are its select cases.
  - `ReadError` and `ReadResp` are the inner `Read()` loop. Both go through `scheduleResetLeaderConn`, which is the operator `ScheduleReset`.
  - `RetryDone` is `requestDoneWithRetry`.
  - `ResetTimeout` is the 10 s `logger.Fatal`. It can fire only after the write loop has exited: the read loop is activated only after the write loop has connected, and the write loop's select takes the hand-off whenever it is running.
  - In `ReadResp`, a successful response to a heartbeat goes through `maybeAddResourceHeartbeatResp` (`HbSend`). It enters the channel if there is room. Otherwise the read loop blocks (`rl = "hbsend"`) until `HbSendDone`.
- `HbConsume`: the application receives from `GetResourceHeartbeatRspNotifier()`.
- `CloseBegin`, `CloseFinish`: `Close` and `doClose`.
- `ServerReply` and `ConnBreak` are the environment. The leader may answer any received request with ok, error or NotLeader, in any order, or never. The session may break at any time, which loses what was in flight.

**Fairness.**
- Strong fairness on `DoStep` and `WriteReq`. Go's `select` picks at random among ready cases, and `do()` retries without blocking, so a step that is enabled infinitely often is eventually taken.
- Weak fairness on the loops' other steps, on `Wait` and on the wheel's `Timeout`. These are goroutines that keep running while they can.
- No fairness on the environment, which includes the application's `HbConsume`. The application may stop receiving, and that is the case the bounded channel makes dangerous.

### MemStorage (`MemStorage.tla`, `MCMemStorage.tla`)

**Abstraction.** Keys are `1..NKeys`, one byte each, and their numeric order is the tree's order. A value is abstracted to its length. An entry is the record `[exp, val]`, the encoded `expireAt` header plus the value. `now` is `time.Now().Unix()`.

**Write actions.** Each write call is one action: `Set`, `SetWithTTL`, `BatchSet`, `Delete`, `BatchDelete`, `RangeDelete` (also `RemoveShardData`) and `Write`. Each includes its statistics increments exactly as coded. `Write` folds its batch with `ApplyWriteOp`.

**Snapshots.**
- `CreateSnapshot` produces the file as the sequence of its length-prefixed fields: start, end, then key and raw value for each row of the range. The row order is the tree's order.
- `ApplySnapshot` reads start and end, deletes the range, and reads rows with the recursive `ReadRows` until EOF. EOF is the empty read. A key without a value is a format error, which stops the loop after the rows already put.
- `Visible` is what `Scan` shows: decoded and non-empty.

**Fault model.** `CreateSnapshot` writes `db.data` with a sequence of `writeBytes` calls. A crash, or a failed write, can leave the file holding only a prefix of its fields. `CreateSnapshotCut` models this. It is in `FaultNext` only, and only the `storage_snapshot_cut` run uses it. `tail` records how the prefix ends, and `ReadField` turns it into what `readBytes` returns:
- `"eof"`: at a field boundary. `readBytes` returns nil at EOF, an empty field.
- `"header"`: inside a length header. The high-order length bytes are zero, so the field reads as empty.
- `"data"`: inside the data. `Read` keeps returning 0 with `io.EOF`, and `readBytes` loops forever, which is the result `"hang"`. A hung `ApplySnapshot` blocks the raftstore, so the model then takes no more calls.

`lastApply` records the outcome of the last `ApplySnapshot`, and whether the file it read was whole (`SnapWhole`).

**SplitCheck.** `SplitCheck` is a `FoldLeft` of its scan handler `SplitStep`.

**History variables.**
- `snapKV` is the range at snapshot time.
- `restored` says that `ApplySnapshot` ran and nothing was written since.

The storage has no concurrency of its own, since callers serialise on the raftstore, so it has no fairness.

**SplitCheck comment.** The function's comment says `[start, splitKey)` holds at most `size` bytes. The code sets `appendSplitKey` once the sum reaches `size`, and appends the next visible key. So the chunk before a split key includes the row that crossed `size`. `SplitKeysWithinSize` states the comment, and the run `storage_split_overshoot` finds it violated: with size 3, three rows of 2 bytes give a first chunk of 4 bytes.

**SplitCheck run.** `MCSplitSpec` in `MCMemStorage.tla` starts from every tree contents and every clock value, with no writes (`MaxOps` is 0). Each state then evaluates `SplitCheck` over every range, so the comment's bound is checked over all inputs of the bounded size. This run allows values of length 0..2, so two rows of 2 bytes can overshoot a 3-byte chunk.

### EvictLeader (`EvictLeader.tla`, `MCEvictLeader.tla`)

**Abstraction.** Every resource has a peer on every container, so a resource's followers are all the containers except its leader's. Every key range is the whole key space, and every resource is healthy. An operator is a record `[res, from, to, prio]`.

**Operator controller.** It is not under `src/` and follows the spec (C7). `ops` maps a resource to its operator. `Admit` admits an operator for a new resource while the count is below `LeaderScheduleLimit`, and lets a higher priority replace the current one. `AddOperators` adds a batch in resource order.

**Scheduler.**
- `Picks(id)` is what one pass of `scheduleOnce` may append for container `id`. It appends nothing when the container has no leader, or when the picked resource has no target. Otherwise it appends one high-priority transfer to a follower that passes the `ContainerStateFilter` (not paused).
- `OnceOver` combines the picks over the configured containers.
- `Batches` is `Schedule`'s loop: at most three iterations, `uniqueAppend`, a stop on an empty pass, and a stop once the batch exceeds `EvictLeaderBatchSize`.
- `Schedule` runs only when `IsScheduleAllowed`.
- `Prepare`/`Cleanup` pause and resume leader transfer to the configured containers. `BuildWithArgs` adds a container.

**Environment.**
- `OpFinish` is the shard executing the transfer.
- `OpCancel` is a step timeout, bounded by `MaxCancels`.
- `OtherTransfer` is the balance-leader scheduler, bounded by `MaxOtherOps`.

**Fairness.** Weak fairness on `Schedule`, because the coordinator ticks every scheduler while it is allowed. Weak fairness on `OpFinish`, because a transfer to a healthy follower completes. Nothing else is fair.

### CubeClient (`CubeClient.tla`, `MCCubeClient.tla`)

**State.**
- `inflights` is the set of keys of `s.inflights`.
- `fut` is each request's Future.
- `deadline` records whether the caller's ctx has a deadline.
- `phase` is the caller's position.
- `proxy` counts the copies the shards proxy holds.
- `cbs` are the `done`/`doneError` callbacks in progress, each split into its `Load` (`CbLoad`) and its `Delete` plus `Future.done` (`CbFinish`). Another callback may run between these two steps.

**Actions.**
- `Exec` is the whole of `exec`: the store, the deadline check (a ctx without a deadline ends in `logger.Fatal`, so `ExecContexts` holds only contexts with one), then `Dispatch`. A Dispatch error completes the Future.
- `ProxyRetry` is the proxy calling `Retry`. It resends while the entry exists and the Future can retry. Otherwise it gives up through `doneError`.
- `ProxyResolve` is the proxy, which is not under `src/` and is modelled from the spec, answering a copy by calling the `done` or `doneError` callback that `Start` set.
- `ProxyLose` loses a copy.
- `Deadline` and `Get` are the Future, modelled from the spec: the first completion wins.

**Fairness.** Weak fairness on the callbacks, the deadline and the caller's `Get`. The proxy and the shards get none, so a request may never be answered.

### ContainerStats (`ContainerStats.tla`, `MCContainerStats.tla`)

**Abstraction.**
- A container is the record `[state, health, lowSpace, flow, zone]`. `health` is the first derived state that holds (down, unhealthy, disconnected, or ok), which is all `Observe`'s switch reads. `flow` says whether rolling flow stats exist. `zone` is the value of the one location label, `""` when unset.
- The gauges of `containerStatusGauge` are grouped by how the code treats them:
  - `base`: storage, scores and counts, set always and deleted by `resetContainerStatistics`;
  - `avg`: `available_avg` and `_deviation`, set always and not deleted;
  - `rate`: the four `*_rate_bytes/_keys`, set with flow stats and deleted;
  - `extra`: cpu, disk and `*_instant`, set with flow stats and not deleted.
- An unset gauge of `clusterStatusGauge` or `placementStatusGauge` is outside its function's domain.

**Actions.**
- `NewRound` is `NewContainerStatisticsMap`.
- `Observe(c)` is the whole of `containerStatistics.Observe`: the label loop, the state switch, the tombstone's reset and return, LowSpace, and the gauges.
- `Collect` publishes the counters and a placement gauge for every key the `LabelCounter` holds.
- `Reset` clears the three gauge vectors.

**Environment.** The collection job is not under `src/`. Following the spec, a round observes every container once and then collects. `Observe` reads the cached container as it is now: `Cached` lets it have changed between Up and Offline and received any heartbeat data since its last observation. Tombstone is final and the label is fixed. Changes during a round need no action of their own, since `Observe` reads a snapshot. `seen` records each container as the round observed it. No fairness is assumed, and the model stops after its last round.

### TimeMonitor (`TimeMonitor.tla`, `MCTimeMonitor.tla`)

**State.** `clk` is what `now()` returns, in units of which `Tick` make the 100 ms period. `tickC` is the ticker's channel. It has capacity 1, so a tick that arrives while the channel is full is dropped. `pc` is the monitor's place in its loop, and `last` is its `last`. `handled` counts the calls of `systimeErrHandler`.

**Actions.**
- `Sample` is `last := now().UnixNano()` at the top of the loop.
- `TickCase` is the tick case of the select. It reads `now()` again, and calls the handler when that reading is smaller than `last`.
- `DoneCase` is the `ctx.Done()` case, which returns.
- The environment:
  - `Elapse` advances real time and the clock together, and fills `tick.C` every `Tick` units.
  - `JumpBack` steps the clock back by a size in `JumpSizes`.
  - `Cancel` cancels the ctx.

**History.** `prev` is the monitor's previous reading of `now()`. `Read` records each reading. It sets `unreported` when a reading is below the previous one and the step calling `Read` does not call the handler. The model has no fairness, because its one question is a safety question.

## 4. Runs

| Run | Cfg | Expect | Shows |
|---|---|---|---|
| client_safety | `AsyncClient.cfg` | pass | The read loop is idle while the write loop reconnects. No request id of one call is executed twice by the leader across NotLeader retries. Every started call returns, or the process dies in Fatal. This holds even while the read loop is blocked on a full `resourceHeartbeatRspC`, because the timeout wheel still ends waiting calls. |
| client_close_hang | `AsyncClient_CloseCompletes.cfg` | violation | `Close` never returns. A read error leaves the read loop blocked on `resetLeaderConnC` after the write loop has stopped, and `logger.Fatal` follows 10 s later. |
| client_close_pending | `AsyncClient_ExitResolvesPending.cfg` | violation | The read loop can exit with stored contexts unresolved. They then get ErrTimeout instead of ErrClosed. |
| storage_snapshot | `MemStorage.cfg` | pass | The snapshot round trip restores the range's visible contents at every later time. |
| storage_split_overshoot | `MemStorage_SplitKeysWithinSize.cfg` | violation | `SplitCheck`'s comment bounds the bytes before a split key by `size`; the code's chunk includes the row that crossed `size`, so three 2-byte rows with size 3 give a 4-byte chunk. |
| storage_snapshot_cut | `MemStorage_SnapshotCutReported.cfg` | violation | Under the fault model, `CreateSnapshot` can stop part-way through `db.data`. `ApplySnapshot` then returns success with the range missing rows: a cut between fields reads as EOF. A cut inside a length header reads as an empty field. A cut inside the data makes `readBytes` loop forever. |
| evict_safety | `EvictLeader.cfg` | pass | One operator per resource per batch. A paused, configured container is eventually drained of leaders while the scheduler runs. |
| evict_batch | `EvictLeader_BatchWithinSize.cfg` | violation | With four resources led by configured containers, one `Schedule` returns four operators, more than `EvictLeaderBatchSize`. The loop checks the size only after `uniqueAppend`. |
| cube_futures | `CubeClient.cfg` | pass | Every Future resolves, even when the shard never answers, because `exec` demands a deadline. |
| cube_inflight_leak | `CubeClient_InflightReleased.cfg` | violation | An entry stays in `inflights` forever after a Dispatch error, or after a deadline when the shard never answers. |
| monitor_backward_jump | `TimeMonitor_BackwardJumpReported.cfg` | violation | A step of the clock back by 3 units, more than a tick of 2, goes unreported forever. It happens between the reading at a tick and the next pass's `last := now()`. No pass compares that pair of readings, and every later tick compares against the new, smaller `last`. |
| stats_round | `ContainerStats.cfg` | pass | The published counts match what the round observed, over two containers and two rounds. |

### Bounds and why they are enough

**AsyncClient.**
- Two callers, enough for one to fill `writeC` while the other spins.
- Two request ids (`MCMaxId`), enough for one NotLeader retry or for two callers. The one run checks the safety invariants and `CallsReturn` together.
- A `writeC` capacity of 1, so the full-channel spin of `do()` happens.
- c2 is the heartbeat sender. A `resourceHeartbeatRspC` capacity of 1 means a second operator step blocks the read loop. Making both callers able to send heartbeats grows the run to 3 minutes, and adds no path through the read loop.

**MemStorage.**
- Three keys, values of length 0 or 2, and a TTL of 1. Length 0 is the empty value `Get` treats as absent; a value of length 1 adds nothing to the snapshot cases and makes the run nine minutes long.
- A clock running from 1 to 3. A TTL-1 row written at second 1 expires at second 3.
- At most two write calls and, separately, one `ApplySnapshot`. `BatchSet` and `Write` write up to three keys in one call. So a write can come before the snapshot and another between the snapshot and its apply.
- A split size of 3. The split run alone allows values of length 0 to 2, so two 2-byte rows overshoot a chunk.
- These bounds cover the following:
  - a row expiring after it was snapshotted;
  - a row rewritten after the snapshot and replaced by `ApplySnapshot`;
  - a chunk that overshoots `size` by one row;
  - empty rows skipped.

**EvictLeader.**
- Three containers, two of them evictable, and two resources. The batch run uses four resources, the fewest that can exceed a batch of three.
- A leader schedule limit of 1. A batch of two operators then exceeds it unless the controller refuses the second.
- Two balance proposals and one cancellation.

**CubeClient.**
- Two requests, enough for one to leak while the other resolves.
- Two resends, enough for a resend followed by a give-up after the deadline.

**ContainerStats.**
- Two containers with symmetry, so two containers can share a bucket.
- Two zones, one of them the unset label (`unknown`).
- Two rounds. In these, a container can be observed live with flow stats and then as a tombstone, and a label key can lose all its live containers.
- All four health values, and both values of lowSpace and flow.

**TimeMonitor.**
- A tick every 2 units.
- Six units of real time, which is three ticks.
- One backward step of 3 units. A step larger than a tick is one the tick comparison catches when it happens while the monitor waits. That makes the missed case the window between the two reads, not the step's size.

## 5. Not modelled

- The watcher. `newWatcher` is not in the repository.
- `RangeCluster.updateCachedContainer`. It rescales the used size by float64 division and truncates the result with `uint64()`. TLC cannot reproduce that rounding, nor the platform-dependent conversion of an infinite or NaN quotient when the group size is 0. `GenRangeCluster` has no caller in the repository. The underflow of `Available` when cached sizes are stale is listed as a hazard.
- The Future and the shards proxy behind the cube client. They are not under `src/`, so they are modelled from the spec as the environment.
- The configuration getters (`hot_resource_config.go`), which have no control behaviour.
- The `WrittenKeys`/`WrittenBytes` accounting is in every write action, but no run checks it. `Set` counts a key twice, and `BatchSet` three times. This only skews a metric, and `PROJECT.json` lists it as a hazard.
- A backward clock step smaller than the time since `last` leaves the tick's reading above `last`, so it is not reported. The spec asks only for steps the monitor observes, so no property bounds the size of the step it must catch. It is listed as a hazard.
- The sums of sizes, scores and counts, and the config gauges of `Collect`. They are data that `Collect` only copies.
- Which gauges a tombstoned container keeps. `Observe` deletes the `base` and `rate` groups and leaves `avg` and `extra`; the model reaches both, but the spec does not say which a tombstone should keep, so no property states it. The same holds for the stale placement gauge of a label key with no live container. `PROJECT.json` lists both as hazards.
- The protobuf schemas, the leak test and the test script.
