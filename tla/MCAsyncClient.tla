--------------------------- MODULE MCAsyncClient ---------------------------
(* Model-checking instance of AsyncClient: two calling goroutines, c1     *)
(* making synchronous calls and c2 the resource-heartbeat sender, two     *)
(* request ids (one call and its NotLeader retry, or one call each), and  *)
(* a writeC of capacity 1 so that do() spins, and a                      *)
(* resourceHeartbeatRspC of capacity 1 so that a second heartbeat step    *)
(* blocks the read loop while the application does not receive.          *)
EXTENDS AsyncClient

CONSTANTS c1, c2

MCCallers == {c1, c2}
MCMaxId == 2
MCWriteCap == 1
MCHbCap == 1
MCHbCallers == {c2}

=============================================================================
