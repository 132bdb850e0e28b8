-------------------------------- MODULE Timers --------------------------------
(***************************************************************************)
(* What a timer service promises: what was reserved waits, and leaves one  *)
(* at a time, each after its time has passed.                              *)
(***************************************************************************)
EXTENDS Integers

VARIABLES now, waiting   \* waiting: [timer, target] of each reserved timer

Clock == now' > now /\ UNCHANGED waiting

Reserve ==
    \E item \in waiting' \ waiting :
        /\ \A other \in waiting : other.timer # item.timer
        /\ waiting' = waiting \cup {item}
        /\ UNCHANGED now

Expire ==
    \E item \in waiting :
        /\ item.target < now
        /\ waiting' = waiting \ {item}
        /\ UNCHANGED now

Spec == waiting = {} /\ [][Clock \/ Reserve \/ Expire]_<<now, waiting>>
===============================================================================
