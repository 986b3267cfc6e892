---------------------------- MODULE MCTransfer -----------------------------
(* Instances of Transfer for TLC.  A source is named by its path: "a/x" is  *)
(* the file x of directory root a.                                          *)
EXTENDS Transfer, TLC

\* Directory root d and file root e; d/x and e are hardlinks, and something at
\* the destination of d is in no root.
MixRoots == <<"d", "e">>
MixRootFiles == [d |-> {"d/x", "d/z"}, e |-> {"e"}]
MixInode == "d/x" :> "i1" @@ "d/z" :> "i2" @@ "e" :> "i1"
MixDstOf == "d/x" :> "t/d/x" @@ "d/z" :> "t/d/z" @@ "e" :> "t/e"
MixDsts == {"t/d/x", "t/d/z", "t/d/extra", "t/e"}
MixUnder == [d |-> {"t/d/x", "t/d/z", "t/d/extra"}, e |-> {}]
MixBefore == "t/d/x" :> {"absent", "stale", "i1"} @@ "t/d/z" :> {"absent", "i2"}
             @@ "t/d/extra" :> {"absent", "stale"} @@ "t/e" :> {"absent", "stale", "i1"}

\* One directory root with two hardlinks.
PairRoots == <<"d">>
PairRootFiles == [d |-> {"d/x", "d/y"}]
PairInode == "d/x" :> "i1" @@ "d/y" :> "i1"
PairDstOf == "d/x" :> "t/d/x" @@ "d/y" :> "t/d/y"
PairDsts == {"t/d/x", "t/d/y"}
PairUnder == [d |-> PairDsts]
PairBefore == "t/d/x" :> {"absent", "stale"} @@ "t/d/y" :> {"absent", "stale"}
=============================================================================
