----------------------------- MODULE CubeClient -----------------------------
(***************************************************************************)
(* The cube request client (src/client/client.go): exec stores each       *)
(* request in the inflights sync.Map and dispatches it to the shards      *)
(* proxy; the proxy asks Retry whether to resend and reports the outcome  *)
(* through the done and doneError callbacks, each run on the proxy's own  *)
(* goroutine as a Load followed by a Delete and Future.done.              *)
(*                                                                         *)
(* The Future is not under src/; following the spec it completes once,   *)
(* with the first of a response, an error or its context's deadline.      *)
(***************************************************************************)
EXTENDS Naturals, FiniteSets

CONSTANTS
    Reqs,        \* requests issued through Write/Read/Admin/Txn
    MaxRetries   \* bound on the proxy's resends

VARIABLES
    phase,       \* caller: "idle" | "waiting" (holds the Future) | "done"
    fut,         \* Future: "pending" | "resp" | "error" | "timeout"
    deadline,    \* the caller's ctx has a deadline
    inflights,   \* keys of s.inflights
    proxy,       \* request -> dispatched copies the proxy has not resolved
    cbs,         \* callbacks running: [id, kind, stage]
    retries      \* resends so far

vars == <<phase, fut, deadline, inflights, proxy, cbs, retries>>

Callbacks == [id : Reqs, kind : {"resp", "error"}, stage : {"load", "finish"}]

Init ==
    /\ phase = [r \in Reqs |-> "idle"]
    /\ fut = [r \in Reqs |-> "pending"]
    /\ deadline = [r \in Reqs |-> FALSE]
    /\ inflights = {}
    /\ proxy = [r \in Reqs |-> 0]
    /\ cbs = {}
    /\ retries = 0

(* Future.done: the first completion wins. *)
FutureDone(r, res) ==
    fut' = IF fut[r] = "pending" THEN [fut EXCEPT ![r] = res] ELSE fut

(* A caller's ctx: any, including one without a deadline. *)
AnyContexts == {TRUE, FALSE}

(* The contexts exec accepts: one without a deadline ends in logger.Fatal. *)
ExecContexts == {TRUE}

(* exec: newFuture, Store, the deadline check, then Dispatch; a Dispatch  *)
(* error completes the Future and leaves the entry in inflights.          *)
Exec(r) ==
    /\ phase[r] = "idle"
    /\ \E d \in ExecContexts :
         /\ deadline' = [deadline EXCEPT ![r] = d]
         /\ phase' = [phase EXCEPT ![r] = "waiting"]
         /\ inflights' = inflights \cup {r}
         /\ \/ /\ proxy' = [proxy EXCEPT ![r] = 1]
               /\ UNCHANGED fut
            \/ /\ FutureDone(r, "error")
               /\ UNCHANGED proxy
    /\ UNCHANGED <<cbs, retries>>

(* Future.canRetry: the caller's ctx is not done. *)
CanRetry(r) == fut[r] = "pending"

(* A Retry whose resend adds a copy next to the failed one. *)
ProxyRetryResend(r) ==
    /\ proxy[r] > 0 /\ retries < MaxRetries
    /\ retries' = retries + 1
    /\ IF r \in inflights /\ CanRetry(r)
         THEN /\ proxy' = [proxy EXCEPT ![r] = @ + 1]
              /\ UNCHANGED cbs
         ELSE /\ proxy' = [proxy EXCEPT ![r] = @ - 1]
              /\ cbs' = cbs \cup {[id |-> r, kind |-> "error", stage |-> "load"]}
    /\ UNCHANGED <<phase, fut, deadline, inflights>>

(* The proxy hits a retryable error and calls Retry: a request still in   *)
(* inflights that can retry is resent; otherwise the proxy gives up and    *)
(* reports the error through doneError.                                    *)
ProxyRetry(r) ==
    /\ proxy[r] > 0 /\ retries < MaxRetries
    /\ retries' = retries + 1
    /\ IF r \in inflights /\ CanRetry(r)
         THEN UNCHANGED <<proxy, cbs>>
         ELSE /\ proxy' = [proxy EXCEPT ![r] = @ - 1]
              /\ cbs' = cbs \cup {[id |-> r, kind |-> "error", stage |-> "load"]}
    /\ UNCHANGED <<phase, fut, deadline, inflights>>

(* The shard never answers the copy (a lost message or a dead store). *)
ProxyLose(r) ==
    /\ proxy[r] > 0
    /\ proxy' = [proxy EXCEPT ![r] = @ - 1]
    /\ UNCHANGED <<phase, fut, deadline, inflights, cbs, retries>>

(* The proxy resolves a copy with a response (done) or an error (doneError). *)
ProxyResolve(r) ==
    /\ proxy[r] > 0
    /\ proxy' = [proxy EXCEPT ![r] = @ - 1]
    /\ \E k \in {"resp", "error"} :
         cbs' = cbs \cup {[id |-> r, kind |-> k, stage |-> "load"]}
    /\ UNCHANGED <<phase, fut, deadline, inflights, retries>>

(* done/doneError: inflights.Load; a missing entry is skipped. *)
CbLoad(cb) ==
    /\ cb \in cbs /\ cb.stage = "load"
    /\ cbs' = (cbs \ {cb}) \cup
              (IF cb.id \in inflights THEN {[cb EXCEPT !.stage = "finish"]} ELSE {})
    /\ UNCHANGED <<phase, fut, deadline, inflights, proxy, retries>>

(* done/doneError: inflights.Delete, then Future.done. *)
CbFinish(cb) ==
    /\ cb \in cbs /\ cb.stage = "finish"
    /\ cbs' = cbs \ {cb}
    /\ inflights' = inflights \ {cb.id}
    /\ FutureDone(cb.id, cb.kind)
    /\ UNCHANGED <<phase, deadline, proxy, retries>>

(* The caller's ctx reaches its deadline: the Future returns ctx.Err(). *)
Deadline(r) ==
    /\ phase[r] = "waiting" /\ deadline[r]
    /\ fut[r] = "pending"
    /\ FutureDone(r, "timeout")
    /\ UNCHANGED <<phase, deadline, inflights, proxy, cbs, retries>>

(* Future.Get returns. *)
Get(r) ==
    /\ phase[r] = "waiting" /\ fut[r] # "pending"
    /\ phase' = [phase EXCEPT ![r] = "done"]
    /\ UNCHANGED <<fut, deadline, inflights, proxy, cbs, retries>>

Next ==
    \/ \E r \in Reqs : Exec(r) \/ ProxyRetry(r) \/ ProxyResolve(r)
                       \/ ProxyLose(r) \/ Deadline(r) \/ Get(r)
    \/ \E cb \in cbs : CbLoad(cb) \/ CbFinish(cb)

(* Callbacks run to their end, deadlines fire and callers collect their   *)
(* Future. The proxy and the shards are given no fairness: a copy may be   *)
(* lost, and only the caller's deadline then ends the wait.                *)
Fairness ==
    /\ \A r \in Reqs : WF_vars(Deadline(r)) /\ WF_vars(Get(r))
    /\ \A cb \in Callbacks : WF_vars(CbLoad(cb)) /\ WF_vars(CbFinish(cb))

Spec == Init /\ [][Next]_vars /\ Fairness

----------------------------------------------------------------------------
(* Properties *)

TypeOK ==
    /\ phase \in [Reqs -> {"idle", "waiting", "done"}]
    /\ fut \in [Reqs -> {"pending", "resp", "error", "timeout"}]
    /\ deadline \in [Reqs -> BOOLEAN]
    /\ inflights \subseteq Reqs
    /\ proxy \in [Reqs -> 0..1]
    /\ cbs \subseteq Callbacks
    /\ retries \in 0..MaxRetries

(* Every call to Write/Read/Admin/Txn returns a Future that resolves,     *)
(* whether the proxy answers, fails, resends or loses the request: exec   *)
(* insists on a ctx with a deadline.                                       *)
FutureResolves == \A r \in Reqs : phase[r] = "waiting" ~> phase[r] = "done"

(* Every request stored in inflights is eventually removed from it, so    *)
(* the map does not grow with requests whose Future has resolved.         *)
InflightReleased == \A r \in Reqs : r \in inflights ~> r \notin inflights
=============================================================================
