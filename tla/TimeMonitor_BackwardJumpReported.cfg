\* StartMonitor misses a backward step of the clock that falls between the
\* reading at a tick and the next loop's last := now().
CONSTANTS
    Tick <- MCTick
    MaxElapse <- MCMaxElapse
    MaxJumps <- MCMaxJumps
    JumpSizes <- MCJumpSizes
SPECIFICATION Spec
INVARIANT BackwardJumpReported
\* The monitor returns on ctx.Done and real time is bounded: it may stop.
CHECK_DEADLOCK FALSE
