------------------------------ MODULE MCDedup ------------------------------
(* Instances of Dedup for TLC.  A byte is the number of its block.            *)
EXTENDS Dedup, TLC

CONSTANTS fa, fb, fc

Ext(log, phys, len, shared) == [log |-> log, phys |-> phys, len |-> len, shared |-> shared]

\* File fa is an extent, of which fc is the second half.  fb is a block of its own
\* and an extent; it is written anew, and shorter, and fc may move to its old place.
MCVersions ==
    fa :> <<[bytes |-> <<1, 2>>, mtime |-> 1, exts |-> <<Ext(0, 1, 2, TRUE)>>]>>
 @@ fb :> <<[bytes |-> <<9, 3>>, mtime |-> 1, exts |-> <<Ext(0, 9, 1, FALSE), Ext(1, 3, 1, TRUE)>>],
           [bytes |-> <<5>>, mtime |-> 2, exts |-> <<Ext(0, 5, 1, TRUE)>>]>>
 @@ fc :> <<[bytes |-> <<2>>, mtime |-> 1, exts |-> <<Ext(0, 2, 1, TRUE)>>],
           [bytes |-> <<8>>, mtime |-> 2, exts |-> <<Ext(0, 3, 1, TRUE)>>]>>

\* One copy may be unable to clone, and may not be renamed into place.
MCFaults == {<<fb, "clone">>, <<fb, "publish">>}
MCDstOf == fa :> "p" @@ fb :> "p" @@ fc :> "q"

\* File fa leaves its block, and fb is written anew, where fa was.
ReuseVersions ==
    fa :> <<[bytes |-> <<1>>, mtime |-> 1, exts |-> <<Ext(0, 1, 1, TRUE)>>],
           [bytes |-> <<3>>, mtime |-> 2, exts |-> <<Ext(0, 3, 1, TRUE)>>]>>
 @@ fb :> <<[bytes |-> <<9>>, mtime |-> 1, exts |-> <<Ext(0, 9, 1, TRUE)>>],
           [bytes |-> <<4>>, mtime |-> 2, exts |-> <<Ext(0, 1, 1, TRUE)>>]>>
ReuseDstOf == fa :> "p" @@ fb :> "q"

\* Both instances are of the kind that the theorems are about.
ASSUME InstanceAssumption == NoReturn
=============================================================================
