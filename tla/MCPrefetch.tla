---------------------------- MODULE MCPrefetch -----------------------------
(* A root with three subdirectories, the first of which has one of its own,  *)
(* given twice; two goroutines, so the look-ahead is two siblings.           *)
EXTENDS Prefetch, TLC

CONSTANTS a, b, c, d, e

MCKids == a :> <<b, c, d>> @@ b :> <<e>> @@ c :> <<>> @@ d :> <<>> @@ e :> <<>>
MCRoots == <<a, a>>
=============================================================================
