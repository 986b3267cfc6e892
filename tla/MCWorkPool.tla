----------------------------- MODULE MCWorkPool -----------------------------
(* Three workers share three jobs of two pushers; the limit moves between 1  *)
(* and 3, and beyond the bounds that setLimit clamps.                        *)
EXTENDS WorkPool, TLC

CONSTANTS p1, p2, j1, j2, j3

MCJobsOf == p1 :> {j1, j2} @@ p2 :> {j3}
=============================================================================
