---------------------------- MODULE MCLobbyCalls ----------------------------
(* Four calls, which may be pings, registrations and log-ins in any mix;   *)
(* nothing tells one call from another.                                    *)
EXTENDS LobbyCalls, TLC

CallSymmetry == Permutations(Call)
=============================================================================
