----------------------------- MODULE MCDirMeta -----------------------------
(* Instances of DirMeta for TLC: a source directory d1 that holds a file, a *)
(* symlink and a subdirectory d2, which holds two deferred entries.         *)
EXTENDS DirMeta, TLC

CONSTANTS d1, d2, f1, f2, l1, s1, target

\* A tree two levels deep; a hardlink deferred next to a file.
TreeParent == d1 :> target @@ d2 :> d1 @@ f1 :> d1 @@ s1 :> d1 @@ f2 :> d2 @@ l1 :> d2
TreeAnc == target :> {} @@ d1 :> {d1} @@ d2 :> {d1, d2}

\* One directory with two files.
FlatParent == d1 :> target @@ f1 :> d1 @@ f2 :> d1
FlatAnc == target :> {} @@ d1 :> {d1}
=============================================================================
