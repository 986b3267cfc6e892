----------------------------- MODULE MCConnPool -----------------------------
(* Two copies within the host, which hold two connections each, and one that *)
(* needs one, in a pool of at most three connections.                        *)
EXTENDS ConnPool, TLC

CONSTANTS t1, t2, t3

MCFilesOf == t1 :> 2 @@ t2 :> 2 @@ t3 :> 1
=============================================================================
