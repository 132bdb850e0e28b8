--------------------------- MODULE MCLobbyLogin ---------------------------
(* One user logs in twice, the log-ins interchangeable; each of two lobbies*)
(* has a session.  One character belongs to another user, one can be made. *)
EXTENDS LobbyLogin, TLC

CONSTANTS u1, u2, t1, t2, l1, l2, s1, s2, c1, c2

MCUserOf == t1 :> u1 @@ t2 :> u1
MCLobbyOf == s1 :> l1 @@ s2 :> l2
MCOwned == c1 :> u2 @@ c2 :> None
Symmetry == Permutations({t1, t2})
===========================================================================
