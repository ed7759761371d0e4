--------------------------- MODULE MCTimeMonitor ---------------------------
(* Model-checking instance of TimeMonitor: a tick every two clock units,  *)
(* three ticks of real time, and one backward step of three units, more *)
(* than a tick, so that a step inside a tick interval is detected.        *)
EXTENDS TimeMonitor

MCTick == 2
MCMaxElapse == 6
MCMaxJumps == 1
MCJumpSizes == {3}
=============================================================================
