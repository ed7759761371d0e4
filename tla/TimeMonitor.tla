---------------------------- MODULE TimeMonitor ----------------------------
(***************************************************************************)
(* The prophet system-time monitor, StartMonitor (src/unnamed/part_002):   *)
(* a goroutine that, on every 100 ms tick, compares now() with the value   *)
(* it read at the top of the loop and calls systimeErrHandler when the     *)
(* clock went backward.                                                    *)
(*                                                                         *)
(* now() is the integer clk; Tick of its units make the 100 ms period.    *)
(* The environment advances it with real time, steps it backward (an NTP  *)
(* step or an operator setting the clock), fires the ticker and cancels   *)
(* the ctx.                                                                *)
(***************************************************************************)
EXTENDS Integers

CONSTANTS
    Tick,        \* ticker period in clock units (100 ms)
    MaxElapse,   \* bound on the real time that passes
    MaxJumps,    \* bound on the backward steps of the clock
    JumpSizes    \* sizes of those steps

ASSUME Tick \in Nat \ {0} /\ MaxElapse \in Nat /\ MaxJumps \in Nat
       /\ JumpSizes \subseteq Nat \ {0}

VARIABLES
    clk,         \* the wall clock now() reads
    elapsed,     \* real time passed
    jumps,       \* backward steps taken
    tickC,       \* values buffered in tick.C (capacity 1; a late tick is dropped)
    cancelled,   \* ctx is done
    pc,          \* monitor: "top" | "select" | "exited"
    last,        \* last := now().UnixNano() at the top of the loop
    handled,     \* calls of systimeErrHandler
    prev,        \* history: the monitor's previous reading of now() (<<>> before the first)
    unreported   \* history: two consecutive readings went backward with no handler call

vars == <<clk, elapsed, jumps, tickC, cancelled, pc, last, handled, prev, unreported>>

Init ==
    /\ clk = 0 /\ elapsed = 0 /\ jumps = 0
    /\ tickC = 0 /\ cancelled = FALSE
    /\ pc = "top" /\ last = 0 /\ handled = 0
    /\ prev = <<>> /\ unreported = FALSE

(* The monitor reads now(); report says whether this step calls the       *)
(* handler.                                                                *)
Read(v, report) ==
    /\ prev' = <<v>>
    /\ unreported' = (unreported \/ (prev # <<>> /\ v < prev[1] /\ ~report))

----------------------------------------------------------------------------
(* The monitor goroutine *)

(* for { last := now().UnixNano(); select ... } *)
Sample ==
    /\ pc = "top"
    /\ last' = clk
    /\ pc' = "select"
    /\ Read(clk, FALSE)
    /\ UNCHANGED <<clk, elapsed, jumps, tickC, cancelled, handled>>

(* case <-tick.C: now() is compared with last; systimeErrHandler() runs   *)
(* on the monitor's goroutine when it is smaller.                          *)
TickCase ==
    /\ pc = "select" /\ tickC = 1
    /\ tickC' = 0
    /\ handled' = IF clk < last THEN handled + 1 ELSE handled
    /\ pc' = "top"
    /\ Read(clk, clk < last)
    /\ UNCHANGED <<clk, elapsed, jumps, cancelled, last>>

(* case <-ctx.Done(): return (defer tick.Stop()). *)
DoneCase ==
    /\ pc = "select" /\ cancelled
    /\ pc' = "exited"
    /\ UNCHANGED <<clk, elapsed, jumps, tickC, cancelled, last, handled, prev, unreported>>

----------------------------------------------------------------------------
(* The environment *)

(* Real time passes and the clock with it; every Tick units the ticker    *)
(* sends on tick.C, dropping the tick when the channel is full.           *)
Elapse ==
    /\ elapsed < MaxElapse /\ pc # "exited"
    /\ clk' = clk + 1 /\ elapsed' = elapsed + 1
    /\ tickC' = IF (elapsed + 1) % Tick = 0 THEN 1 ELSE tickC
    /\ UNCHANGED <<jumps, cancelled, pc, last, handled, prev, unreported>>

(* The system clock is stepped backward. *)
JumpBack ==
    /\ jumps < MaxJumps
    /\ \E d \in JumpSizes : clk' = clk - d
    /\ jumps' = jumps + 1
    /\ UNCHANGED <<elapsed, tickC, cancelled, pc, last, handled, prev, unreported>>

(* The owner cancels ctx. *)
Cancel ==
    /\ ~cancelled
    /\ cancelled' = TRUE
    /\ UNCHANGED <<clk, elapsed, jumps, tickC, pc, last, handled, prev, unreported>>

Next == Sample \/ TickCase \/ DoneCase \/ Elapse \/ JumpBack \/ Cancel

Spec == Init /\ [][Next]_vars

----------------------------------------------------------------------------
(* Properties *)

TypeOK ==
    /\ clk \in Int /\ elapsed \in 0..MaxElapse /\ jumps \in 0..MaxJumps
    /\ tickC \in 0..1 /\ cancelled \in BOOLEAN
    /\ pc \in {"top", "select", "exited"} /\ last \in Int /\ handled \in Nat
    /\ unreported \in BOOLEAN

(* The spec: the monitor samples the clock, and on observing time going   *)
(* backward it invokes the handler (the leader steps down). Whenever two  *)
(* consecutive readings of now() by StartMonitor decrease, the handler is *)
(* called at the second one: a backward step is not missed because it    *)
(* fell between the reading at a tick and the next loop's last := now().  *)
BackwardJumpReported == ~unreported
=============================================================================
