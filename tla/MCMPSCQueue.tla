---------------------------- MODULE MCMPSCQueue ----------------------------
(* Three producers with two pushes each: every order of three exchanges    *)
(* against every order of their links, with a second push behind them.     *)
EXTENDS MPSCQueue

ASSUME QueueAssumption == MPSCAssumption
=============================================================================
