--------------------------- MODULE MCWorldSection ---------------------------
(* Three sessions, two of which may play the same character (a client that *)
(* reconnects before its old connection is found dead), and sections of    *)
(* two slots, so that one of them can be full.                             *)
EXTENDS WorldSection, TLC

CONSTANTS s1, s2, s3, c1, c2, c3

MCSessions == {s1, s2, s3}
MCReconnected == s1 :> {c1} @@ s2 :> {c2} @@ s3 :> {c1, c2}
MCDistinct == s1 :> {c1} @@ s2 :> {c2} @@ s3 :> {c3}
=============================================================================
