---------------------------- MODULE MCTimerWheel ----------------------------
(* Constants for TLC: one one-shot and two periodic timers on a ring of    *)
(* three slots.                                                            *)
EXTENDS TimerWheel

CONSTANTS p1, p2

MCPeriodics == {p1, p2}
MCPeriod == [p \in MCPeriodics |-> IF p = p1 THEN 1 ELSE 3]
=============================================================================
