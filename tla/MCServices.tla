----------------------------- MODULE MCServices -----------------------------
(* A small instance of each of the five services.                          *)
EXTENDS Services, TLC
CONSTANTS q1, q2, q3, nA, nB, d1, d2

(* The newest report carries the name of the oldest one again.             *)
ByAge == q1 :> 1 @@ q2 :> 2 @@ q3 :> 3
Renamed == q1 :> nA @@ q2 :> nB @@ q3 :> nA

Sizes == d1 :> 1 @@ d2 :> 2
OneRetry == <<0, 1, 0>>

(* The instances are given the same names (two for sessions, relay workers  *)
(* and receivers, two for threads and readers), so that these permutations  *)
(* serve every part.                                                        *)
Alike == Permutations(Session) \cup Permutations(Thread)
=============================================================================
