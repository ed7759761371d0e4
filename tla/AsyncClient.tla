---------------------------- MODULE AsyncClient ----------------------------
(***************************************************************************)
(* The prophet asyncClient (src/unnamed/part_006): synchronous callers    *)
(* (syncDo/do) and ResourceHeartbeat (asyncDo), the write loop, the read  *)
(* loop with resourceHeartbeatRspC and the application draining it, the   *)
(* timeout wheel and Close, over one TCP session to the prophet leader.   *)
(*                                                                         *)
(* A request context is identified by its 64-bit request id (nextID).      *)
(* The leader's connection is "open" or "down"; the server answers a       *)
(* request it received on the current connection with "ok", "error" or     *)
(* "notLeader", in any order, or never.                                    *)
(***************************************************************************)
EXTENDS Naturals, Sequences, FiniteSets

CONSTANTS
    Callers,    \* goroutines calling AllocID, PutContainer, ... (syncDo)
    MaxId,      \* bound on c.id, the request ids handed out by nextID
    WriteCap,   \* capacity of writeC (128 in NewClient)
    HbCap,      \* capacity of resourceHeartbeatRspC (128 in NewClient)
    HbCallers   \* the goroutines that call ResourceHeartbeat; the others syncDo

ASSUME MaxId \in Nat \ {0} /\ WriteCap \in Nat \ {0} /\ HbCap \in Nat \ {0}
       /\ HbCallers \subseteq Callers

Ids      == 1..MaxId
NoId     == 0
Replies  == {"ok", "error", "notLeader"}
Results  == Replies \cup {"timeout", "closed"}
IsSync(c) == c \notin HbCallers

VARIABLES
    state,       \* c.mu.state: "running" | "stopped"
    cancelled,   \* stopper context cancelled (stopper.Stop)
    closer,      \* progress of Close(): "none" | "stopping" | "done"
    nextId,      \* c.id
    contexts,    \* keys of c.contexts (sync.Map id -> ctx)
    timers,      \* ids scheduled on the timeout wheel, not fired yet
    ctxRes,      \* ctx.state/err: "none" until done() wins the CAS
    writeC,      \* c.writeC
    resetReadC,  \* number of leader addresses buffered in c.resetReadC (cap 1)
    conn,        \* c.leaderConn: "open" | "down"
    inbox,       \* requests the leader received on the current connection
    resps,       \* responses on the wire of the current connection
    hbC,         \* responses buffered in c.resourceHeartbeatRspC
    hbIds,       \* ids of ResourceHeartbeat requests (their responses carry an operator step)
    rl,          \* readLoop: "idle" | "reading" | "hbsend" | "sched" | "retry" | "exited" | "fatal"
    rlRetry,     \* resp.ID kept by readLoop for requestDoneWithRetry
    wl,          \* writeLoop: "select" | "connecting" | "exited"
    pc,          \* caller: "idle" | "do" | "wait"
    cid,         \* caller's current ctx id (NoId before do() adds it)
    attempts,    \* history: ids of the caller's current call (all retries)
    executed     \* history: ids the leader executed (answered ok/error)

vars == <<state, cancelled, closer, nextId, contexts, timers, ctxRes, writeC,
          resetReadC, conn, inbox, resps, hbC, hbIds, rl, rlRetry, wl, pc,
          cid, attempts, executed>>
callerVars == <<pc, cid, attempts>>
netVars    == <<conn, inbox, resps, executed>>

----------------------------------------------------------------------------
(* NewClient has returned: start() ran both loops and its                  *)
(* scheduleResetLeaderConn was taken by the write loop, which is now in    *)
(* resetLeaderConn/initLeaderConn.                                          *)
Init ==
    /\ state = "running" /\ cancelled = FALSE /\ closer = "none"
    /\ nextId = 0 /\ contexts = {} /\ timers = {}
    /\ ctxRes = [i \in Ids |-> "none"]
    /\ writeC = <<>> /\ resetReadC = 0
    /\ conn = "down" /\ inbox = {} /\ resps = {} /\ hbC = 0 /\ hbIds = {}
    /\ rl = "idle" /\ rlRetry = NoId /\ wl = "connecting"
    /\ pc = [c \in Callers |-> "idle"]
    /\ cid = [c \in Callers |-> NoId]
    /\ attempts = [c \in Callers |-> {}] /\ executed = {}

(* ctx.done: only the first completion wins the CAS on ctx.state. *)
Done(id, r) ==
    ctxRes' = IF ctxRes[id] = "none" THEN [ctxRes EXCEPT ![id] = r] ELSE ctxRes

(* Defect variant: the ctx is stored but no timeout is scheduled. *)
StoreContextNoTimeout(id) ==
    /\ contexts' = contexts \cup {id}
    /\ UNCHANGED timers

(* The !added block of do(): store the ctx and schedule its timeout. *)
StoreContext(id) ==
    /\ contexts' = contexts \cup {id}
    /\ timers' = timers \cup {id}

(* Defect variant: off-by-one capacity test. *)
HasRoomOffByOne == Len(writeC) <= WriteCap

(* The non-blocking send on writeC can proceed. *)
HasRoom == Len(writeC) < WriteCap

(* A leader-connection close drops what was in flight on it. *)
DropConn == conn' = "down" /\ inbox' = {} /\ resps' = {}

----------------------------------------------------------------------------
(* Callers *)

(* AllocID/PutContainer/AsyncAddResources/...: the running() check passes, *)
(* syncDo builds a fresh sync ctx and enters do(); ResourceHeartbeat:      *)
(* asyncDo enters do() with an async ctx without callback.                 *)
Call(c) ==
    /\ pc[c] = "idle" /\ state = "running"
    /\ pc' = [pc EXCEPT ![c] = "do"]
    /\ cid' = [cid EXCEPT ![c] = NoId]
    /\ attempts' = [attempts EXCEPT ![c] = {}]
    /\ UNCHANGED <<state, cancelled, closer, nextId, contexts, timers, ctxRes,
                   writeC, resetReadC, netVars, hbC, hbIds, rl, rlRetry, wl>>

(* One pass of do()'s loop under mu.RLock: ErrClosed when stopped; else    *)
(* the first pass assigns the id, stores a sync ctx and schedules its       *)
(* timeout (an async ctx without callback is neither stored nor timed),     *)
(* and the ctx is sent on writeC if it has room (otherwise the loop spins). *)
(* asyncDo, and so ResourceHeartbeat, returns once the ctx is sent.         *)
DoStep(c) ==
    /\ pc[c] = "do"
    /\ \/ /\ state = "stopped"
          /\ pc' = [pc EXCEPT ![c] = "idle"]
          /\ UNCHANGED <<nextId, contexts, timers, hbIds, writeC, cid, attempts>>
       \/ /\ state = "running"
          /\ cid[c] = NoId \/ HasRoom
          /\ cid[c] # NoId \/ nextId < MaxId
          /\ LET id == IF cid[c] = NoId THEN nextId + 1 ELSE cid[c] IN
             /\ IF cid[c] = NoId
                  THEN /\ nextId' = id
                       /\ IF IsSync(c)
                            THEN StoreContext(id) /\ UNCHANGED hbIds
                            ELSE hbIds' = hbIds \cup {id} /\ UNCHANGED <<contexts, timers>>
                       /\ cid' = [cid EXCEPT ![c] = id]
                       /\ attempts' = [attempts EXCEPT ![c] = @ \cup {id}]
                  ELSE UNCHANGED <<nextId, contexts, timers, hbIds, cid, attempts>>
             /\ IF HasRoom
                  THEN /\ writeC' = Append(writeC, id)
                       /\ pc' = [pc EXCEPT ![c] = IF IsSync(c) THEN "wait" ELSE "idle"]
                  ELSE UNCHANGED <<writeC, pc>>
    /\ UNCHANGED <<state, cancelled, closer, ctxRes, resetReadC, netVars,
                   hbC, rl, rlRetry, wl>>

(* Defect variant: syncDo also retries after ErrTimeout. *)
WaitRetryOnTimeout(c) ==
    /\ pc[c] = "wait"
    /\ ctxRes[cid[c]] # "none"
    /\ pc' = [pc EXCEPT ![c] = IF ctxRes[cid[c]] \in {"notLeader", "timeout"}
                                 THEN "do" ELSE "idle"]
    /\ cid' = [cid EXCEPT ![c] = NoId]
    /\ UNCHANGED <<hbC, hbIds, state, cancelled, closer, nextId, contexts, timers, ctxRes,
                   writeC, resetReadC, netVars, rl, rlRetry, wl, attempts>>

(* ctx.wait() returns; syncDo sleeps and retries with a new ctx on          *)
(* ErrNotLeader, and returns on any other outcome.                          *)
Wait(c) ==
    /\ pc[c] = "wait"
    /\ ctxRes[cid[c]] # "none"
    /\ pc' = [pc EXCEPT ![c] = IF ctxRes[cid[c]] = "notLeader" THEN "do" ELSE "idle"]
    /\ cid' = [cid EXCEPT ![c] = NoId]
    /\ UNCHANGED <<hbC, hbIds, state, cancelled, closer, nextId, contexts, timers, ctxRes,
                   writeC, resetReadC, netVars, rl, rlRetry, wl, attempts>>

----------------------------------------------------------------------------
(* Timeout wheel: c.timeout(id) *)
Timeout(id) ==
    /\ id \in timers
    /\ timers' = timers \ {id}
    /\ IF id \in contexts
         THEN contexts' = contexts \ {id} /\ Done(id, "timeout")
         ELSE UNCHANGED <<contexts, ctxRes>>
    /\ UNCHANGED <<hbC, hbIds, state, cancelled, closer, nextId, writeC, resetReadC,
                   netVars, rl, rlRetry, wl, callerVars>>

----------------------------------------------------------------------------
(* writeLoop *)

(* case ctx := <-writeC: doWrite; a write on a closed connection fails and *)
(* is only logged.                                                          *)
WriteReq ==
    /\ wl = "select" /\ writeC # <<>>
    /\ writeC' = Tail(writeC)
    /\ inbox' = IF conn = "open" THEN inbox \cup {Head(writeC)} ELSE inbox
    /\ UNCHANGED <<hbC, hbIds, state, cancelled, closer, nextId, contexts, timers, ctxRes,
                   resetReadC, conn, resps, executed, rl, rlRetry, wl, callerVars>>

(* Defect variant: after a failed Read the read loop continues its inner *)
(* loop instead of OUTER.                                                  *)
ResetHandoffInnerContinue ==
    /\ wl = "select" /\ rl = "sched"
    /\ wl' = "connecting"
    /\ DropConn
    /\ rl' = IF rlRetry # NoId THEN "retry" ELSE "reading"
    /\ UNCHANGED <<hbC, hbIds, state, cancelled, closer, nextId, contexts, timers, ctxRes,
                   writeC, resetReadC, executed, rlRetry, callerVars>>

(* case <-resetLeaderConnC: the read loop's scheduleResetLeaderConn send   *)
(* is taken; resetLeaderConn closes the connection and enters               *)
(* initLeaderConn. The read loop continues OUTER (after                     *)
(* requestDoneWithRetry when the reset came from a NotLeader response).    *)
ResetHandoff ==
    /\ wl = "select" /\ rl = "sched"
    /\ wl' = "connecting"
    /\ DropConn
    /\ rl' = IF rlRetry # NoId THEN "retry" ELSE "idle"
    /\ UNCHANGED <<hbC, hbIds, state, cancelled, closer, nextId, contexts, timers, ctxRes,
                   writeC, resetReadC, executed, rlRetry, callerVars>>

(* case <-stopCtx.Done(): close the connection and return. *)
WriteLoopStop ==
    /\ wl = "select" /\ cancelled
    /\ wl' = "exited"
    /\ DropConn
    /\ UNCHANGED <<hbC, hbIds, state, cancelled, closer, nextId, contexts, timers, ctxRes,
                   writeC, resetReadC, executed, rl, rlRetry, callerVars>>

(* initLeaderConn: returns ErrClosed once the client is stopped. *)
ConnectClosed ==
    /\ wl = "connecting" /\ state = "stopped"
    /\ wl' = "select"
    /\ UNCHANGED <<hbC, hbIds, state, cancelled, closer, nextId, contexts, timers, ctxRes,
                   writeC, resetReadC, netVars, rl, rlRetry, callerVars>>

(* initLeaderConn: connected to the leader returned by leaderGetter;       *)
(* maybeRegisterContainer, then a non-blocking send of the address on      *)
(* resetReadC. A failed attempt sleeps and loops (a stuttering step).      *)
Connect ==
    /\ wl = "connecting" /\ state = "running"
    /\ conn' = "open"
    /\ resetReadC' = 1
    /\ wl' = "select"
    /\ UNCHANGED <<hbC, hbIds, state, cancelled, closer, nextId, contexts, timers, ctxRes,
                   writeC, inbox, resps, executed, rl, rlRetry, callerVars>>

----------------------------------------------------------------------------
(* readLoop *)

(* scheduleResetLeaderConn: false when stopped (the read loop returns);    *)
(* otherwise the read loop blocks on the unbuffered resetLeaderConnC.      *)
ScheduleReset(rid) ==
    IF state = "running"
      THEN rl' = "sched" /\ rlRetry' = rid
      ELSE rl' = "exited" /\ UNCHANGED rlRetry

(* case leader := <-resetReadC: start reading from the leader. *)
ReadActivate ==
    /\ rl = "idle" /\ resetReadC = 1
    /\ resetReadC' = 0
    /\ rl' = "reading"
    /\ UNCHANGED <<hbC, hbIds, state, cancelled, closer, nextId, contexts, timers, ctxRes,
                   writeC, netVars, rlRetry, wl, callerVars>>

(* case <-stopCtx.Done(): every stored ctx is done with ErrClosed. *)
ReadStop ==
    /\ rl = "idle" /\ cancelled
    /\ rl' = "exited"
    /\ ctxRes' = [i \in Ids |-> IF i \in contexts /\ ctxRes[i] = "none"
                                  THEN "closed" ELSE ctxRes[i]]
    /\ UNCHANGED <<hbC, hbIds, state, cancelled, closer, nextId, contexts, timers, writeC,
                   resetReadC, netVars, rlRetry, wl, callerVars>>

(* leaderConn.Read() fails. *)
ReadError ==
    /\ rl = "reading" /\ conn = "down"
    /\ ScheduleReset(NoId)
    /\ UNCHANGED <<hbC, hbIds, state, cancelled, closer, nextId, contexts, timers, ctxRes,
                   writeC, resetReadC, netVars, wl, callerVars>>

(* requestDone: a stored ctx is deleted and done with the response. *)
RequestDone(r) ==
    IF r.id \in contexts
      THEN contexts' = contexts \ {r.id} /\ Done(r.id, r.err)
      ELSE UNCHANGED <<contexts, ctxRes>>

(* maybeAddResourceHeartbeatResp: a successful ResourceHeartbeatRsp is    *)
(* sent on resourceHeartbeatRspC; the send blocks the read loop while the  *)
(* channel is full.                                                        *)
IsHbStep(r) == r.id \in hbIds /\ r.err = "ok"
HbSend ==
    IF hbC < HbCap THEN hbC' = hbC + 1 /\ UNCHANGED rl
                   ELSE rl' = "hbsend" /\ UNCHANGED hbC

(* leaderConn.Read() returns a response: NotLeader schedules a reset (and  *)
(* requestDoneWithRetry), a heartbeat step goes to the application, and    *)
(* anything else completes its ctx.                                        *)
ReadResp ==
    /\ rl = "reading" /\ conn = "open"
    /\ \E r \in resps :
         /\ resps' = resps \ {r}
         /\ CASE r.err = "notLeader" ->
                    ScheduleReset(r.id) /\ UNCHANGED <<contexts, ctxRes, hbC>>
              [] IsHbStep(r) ->
                    HbSend /\ UNCHANGED <<contexts, ctxRes, rlRetry>>
              [] OTHER ->
                    RequestDone(r) /\ UNCHANGED <<rl, rlRetry, hbC>>
    /\ UNCHANGED <<state, cancelled, closer, nextId, timers, writeC, resetReadC,
                   conn, inbox, executed, hbIds, wl, callerVars>>

(* The blocked send on resourceHeartbeatRspC completes. *)
HbSendDone ==
    /\ rl = "hbsend" /\ hbC < HbCap
    /\ hbC' = hbC + 1 /\ rl' = "reading"
    /\ UNCHANGED <<state, cancelled, closer, nextId, contexts, timers, ctxRes,
                   writeC, resetReadC, netVars, hbIds, rlRetry, wl, callerVars>>

(* The application receives from GetResourceHeartbeatRspNotifier(). *)
HbConsume ==
    /\ hbC > 0
    /\ hbC' = hbC - 1
    /\ UNCHANGED <<state, cancelled, closer, nextId, contexts, timers, ctxRes,
                   writeC, resetReadC, netVars, hbIds, rl, rlRetry, wl, callerVars>>

(* requestDoneWithRetry: done(ErrNotLeader) without deleting the ctx. *)
RetryDone ==
    /\ rl = "retry"
    /\ rl' = "idle" /\ rlRetry' = NoId
    /\ IF rlRetry \in contexts THEN Done(rlRetry, "notLeader") ELSE UNCHANGED ctxRes
    /\ UNCHANGED <<hbC, hbIds, state, cancelled, closer, nextId, contexts, timers, writeC,
                   resetReadC, netVars, wl, callerVars>>

(* scheduleResetLeaderConn's 10 s timer fires while no write loop takes    *)
(* the send, which happens only once the write loop has stopped (the read  *)
(* loop is activated only after a connect): logger.Fatal ends the process. *)
ResetTimeout ==
    /\ rl = "sched" /\ wl = "exited"
    /\ rl' = "fatal"
    /\ UNCHANGED <<hbC, hbIds, state, cancelled, closer, nextId, contexts, timers, ctxRes,
                   writeC, resetReadC, netVars, rlRetry, wl, callerVars>>

----------------------------------------------------------------------------
(* The prophet leader and the network *)

(* The leader answers a request it received; ok/error mean it executed it. *)
ServerReply ==
    \E id \in inbox, e \in Replies :
        /\ inbox' = inbox \ {id}
        /\ resps' = resps \cup {[id |-> id, err |-> e]}
        /\ executed' = IF e = "notLeader" THEN executed ELSE executed \cup {id}
        /\ UNCHANGED <<hbC, hbIds, state, cancelled, closer, nextId, contexts, timers, ctxRes,
                       writeC, resetReadC, conn, rl, rlRetry, wl, callerVars>>

(* The TCP session breaks. *)
ConnBreak ==
    /\ conn = "open"
    /\ DropConn
    /\ UNCHANGED <<hbC, hbIds, state, cancelled, closer, nextId, contexts, timers, ctxRes,
                   writeC, resetReadC, executed, rl, rlRetry, wl, callerVars>>

----------------------------------------------------------------------------
(* Close *)

(* mu.Lock; state = Stopped; mu.Unlock; stopper.Stop() cancels the loops. *)
CloseBegin ==
    /\ closer = "none" /\ state = "running"
    /\ state' = "stopped" /\ cancelled' = TRUE /\ closer' = "stopping"
    /\ UNCHANGED <<hbC, hbIds, nextId, contexts, timers, ctxRes, writeC, resetReadC,
                   netVars, rl, rlRetry, wl, callerVars>>

(* stopper.Stop() returns once both loops have returned; doClose closes    *)
(* the channels and the connection.                                        *)
CloseFinish ==
    /\ closer = "stopping" /\ rl = "exited" /\ wl = "exited"
    /\ closer' = "done"
    /\ UNCHANGED <<hbC, hbIds, state, cancelled, nextId, contexts, timers, ctxRes, writeC,
                   resetReadC, netVars, rl, rlRetry, wl, callerVars>>

(* The client is closed, or the process has exited: nothing runs. *)
Halted == (closer = "done" \/ rl = "fatal") /\ UNCHANGED vars

Next ==
    \/ /\ rl # "fatal"
       /\ \/ \E c \in Callers : Call(c) \/ DoStep(c) \/ Wait(c)
          \/ \E id \in Ids : Timeout(id)
          \/ WriteReq \/ ResetHandoff \/ WriteLoopStop \/ ConnectClosed \/ Connect
          \/ ReadActivate \/ ReadStop \/ ReadError \/ ReadResp \/ RetryDone
          \/ ResetTimeout \/ HbSendDone \/ HbConsume
          \/ ServerReply \/ ConnBreak
          \/ CloseBegin \/ CloseFinish
    \/ Halted

(* Goroutines are scheduled (WF); the timeout wheel fires (WF); Go's       *)
(* select picks among ready cases at random, so a spinning do() and the    *)
(* write loop's writeC case are strongly fair; a leader eventually becomes *)
(* reachable (WF Connect). The leader's answers, breaks of the connection, *)
(* new calls, Close and the application's receives from                    *)
(* resourceHeartbeatRspC are not assumed to happen; a read loop blocked on *)
(* a full channel moves on once it has room (WF HbSendDone).               *)
Fairness ==
    /\ \A c \in Callers : SF_vars(DoStep(c)) /\ WF_vars(Wait(c))
    /\ \A id \in Ids : WF_vars(Timeout(id))
    /\ SF_vars(WriteReq) /\ WF_vars(ResetHandoff) /\ WF_vars(WriteLoopStop)
    /\ WF_vars(ConnectClosed) /\ WF_vars(Connect)
    /\ WF_vars(ReadActivate) /\ WF_vars(ReadStop) /\ WF_vars(ReadError)
    /\ WF_vars(ReadResp) /\ WF_vars(RetryDone) /\ WF_vars(ResetTimeout)
    /\ WF_vars(HbSendDone)
    /\ WF_vars(CloseFinish)

Spec == Init /\ [][Next]_vars /\ Fairness

----------------------------------------------------------------------------
(* Properties *)

TypeOK ==
    /\ state \in {"running", "stopped"} /\ cancelled \in BOOLEAN
    /\ closer \in {"none", "stopping", "done"}
    /\ nextId \in 0..MaxId
    /\ contexts \subseteq Ids /\ timers \subseteq Ids
    /\ ctxRes \in [Ids -> Results \cup {"none"}]
    /\ writeC \in Seq(Ids) /\ Len(writeC) <= WriteCap
    /\ resetReadC \in 0..1
    /\ conn \in {"open", "down"} /\ inbox \subseteq Ids
    /\ resps \subseteq [id : Ids, err : Replies]
    /\ hbC \in 0..HbCap /\ hbIds \subseteq Ids
    /\ rl \in {"idle", "reading", "hbsend", "sched", "retry", "exited", "fatal"}
    /\ rlRetry \in Ids \cup {NoId}
    /\ wl \in {"select", "connecting", "exited"}
    /\ pc \in [Callers -> {"idle", "do", "wait"}]
    /\ cid \in [Callers -> Ids \cup {NoId}]
    /\ attempts \in [Callers -> SUBSET Ids] /\ executed \subseteq Ids

(* The read loop never reads from the leader connection while the write   *)
(* loop is re-establishing it (resetLeaderConn/initLeaderConn): the reset  *)
(* handshake over resetLeaderConnC and resetReadC hands the connection     *)
(* from one loop to the other.                                             *)
ReaderIdleWhileReconnecting == wl = "connecting" => rl # "reading"

(* syncDo retries only on ErrNotLeader, so the leader executes each call   *)
(* (AllocID, CreateResources, ...) at most once, even when a timeout races *)
(* a late answer or the connection is reset under it.                     *)
AtMostOnceExecution ==
    \A c \in Callers : Cardinality(attempts[c] \cap executed) <= 1

(* Every attempt of a synchronous call returns to its caller: do() stops   *)
(* spinning and ctx.wait() is woken (by a response, the timeout wheel or   *)
(* Close), unless the process has exited.                                  *)
Busy(c) == pc[c] = "wait" \/ (pc[c] = "do" /\ cid[c] # NoId)
CallsReturn ==
    \A c \in Callers : Busy(c) ~> (~Busy(c) \/ rl = "fatal")

(* Close() returns: stopper.Stop() sees both loops return. *)
CloseCompletes == closer = "stopping" ~> closer = "done"

(* When the read loop returns after Close, no stored ctx is left waiting   *)
(* for the timeout wheel: pending requests are resolved with ErrClosed.    *)
ExitResolvesPending ==
    rl = "exited" => \A i \in contexts : ctxRes[i] # "none"

=============================================================================
