------------------------------ MODULE DirLife ------------------------------
(***************************************************************************)
(* What the engine promises about the destination directories of one run,  *)
(* without saying how: the walk opens a directory inside an open parent,   *)
(* leaves it after every directory it opened below it, and the directory's *)
(* own metadata (mode, owner, times, xattrs) is applied once, after that.  *)
(* Every directory the walk opens is stamped in the end.  DirMeta shows    *)
(* that the counters and flags of internal/engine/dirmeta.go keep it.      *)
(***************************************************************************)

CONSTANTS Dirs,      \* the directories of the source trees
          ParentOf,  \* ParentOf[d]: the directory that holds d, or the target
          Top        \* the target directory, never stamped itself

VARIABLE life        \* life[d]: how far the run is with directory d

Init == life = [d \in Dirs |-> "unseen"]

\* The walk enters d: its destination exists and its source is listed.
Open(d) ==
    /\ life[d] = "unseen"
    /\ ParentOf[d] = Top \/ life[ParentOf[d]] = "open"
    /\ life' = [life EXCEPT ![d] = "open"]

\* The walk leaves d, after the directories it entered below d.
Close(d) ==
    /\ life[d] = "open"
    /\ \A c \in Dirs : ParentOf[c] = d => life[c] # "open"
    /\ life' = [life EXCEPT ![d] = "closed"]

\* d's own metadata is applied.
Stamp(d) ==
    /\ life[d] = "closed"
    /\ life' = [life EXCEPT ![d] = "stamped"]

Next == \E d \in Dirs : Open(d) \/ Close(d) \/ Stamp(d)

Spec == /\ Init /\ [][Next]_life
        /\ \A d \in Dirs : WF_life(Close(d)) /\ WF_life(Stamp(d))

=============================================================================
