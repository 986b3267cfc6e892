------------------------------ MODULE ConnPool ------------------------------
(***************************************************************************)
(* The SSH connection pool of one remote host (internal/vfs/pool.go and    *)
(* sftp.go).  A copy opens one file on the host, or two when source and    *)
(* target are both there; each open file reserves a connection until it is *)
(* closed, so a copy may hold one connection while it waits for another.   *)
(* The pool dials one connection at a time, up to MaxConnections, and      *)
(* gives up dialing after the first failure.                               *)
(*                                                                         *)
(* Every method but the dial itself is one critical section; release and   *)
(* Close unlock before they signal (see Queue for sync.Cond).  Which of    *)
(* the connections is least loaded depends on the requests in flight and   *)
(* is left open.                                                           *)
(***************************************************************************)
EXTENDS Naturals, Sequences, FiniteSets

CONSTANTS Copies,            \* the goroutines that copy
          FilesOf,           \* FilesOf[t]: how many files copy t opens
          MaxConnections

ASSUME ConnAssumption ==
    /\ MaxConnections \in Nat \ {0}
    /\ IsFiniteSet(Copies) /\ FilesOf \in [Copies -> Nat]

VARIABLES
    conns,        \* connections 1..conns are open; 1 is the first
    load,         \* load[c]: c.transfers
    dialing, frozen, closed,
    waiting, woken,        \* the notify list of free, and who was woken
    signalling,   \* copies between release's Unlock and its Signal
    broadcasting, \* Close is between its Unlock and its Broadcast
    stage,        \* stage[t]: copy t is "opening" or "closing" its files
    files         \* files[t]: the connections of t's open files, in order

poolVars == <<conns, dialing, frozen, closed>>
vars == <<conns, load, dialing, frozen, closed, waiting, woken, signalling, broadcasting, stage, files>>

Conns == 1..MaxConnections

Init ==
    /\ conns = 1 /\ load = [c \in Conns |-> 0]
    /\ dialing = FALSE /\ frozen = FALSE /\ closed = FALSE
    /\ waiting = {} /\ woken = {} /\ signalling = {} /\ broadcasting = FALSE
    /\ stage = [t \in Copies |-> "opening"] /\ files = [t \in Copies |-> <<>>]

-----------------------------------------------------------------------------
\* freeConnLocked: the connections it tries, and those of them that are free.
TransferConns == IF conns > 1 THEN 2..conns ELSE {1}
Free == {c \in TransferConns : load[c] = 0}

\* Mutant: the size of the pool is not bounded.
CanGrowAlways == ~frozen /\ ~closed

\* The dial function, which pool.go looks for as well, is there in every pool but
\* a test's (ssh.go:150).
CanGrow == ~frozen /\ ~closed /\ conns < MaxConnections

\* Copy t is at the top of acquire's loop.
Acquiring(t) ==
    /\ stage[t] = "opening" /\ Len(files[t]) < FilesOf[t]
    /\ t \notin waiting /\ t \notin signalling

Reserve(t, c) ==
    /\ load' = [load EXCEPT ![c] = @ + 1]
    /\ files' = [files EXCEPT ![t] = Append(@, c)]
    /\ woken' = woken \ {t}
    /\ UNCHANGED <<poolVars, waiting, signalling, broadcasting, stage>>

TakeFree(t) ==
    /\ Acquiring(t)
    /\ \E c \in Free : (\A d \in Free : c <= d) /\ Reserve(t, c)

\* Mutant: a connection is shared although another could be dialed.
ShareSoon(t) ==
    /\ Acquiring(t) /\ Free = {}
    /\ \E c \in 1..conns : Reserve(t, c)

\* leastLoadedLocked, when the pool can no longer grow.
Share(t) ==
    /\ Acquiring(t) /\ Free = {} /\ ~CanGrow
    /\ \E c \in 1..conns : Reserve(t, c)

\* Mutant: every wait, not only the first, counts on a dial already started.
DialAndWaitOnce(t) ==
    /\ Acquiring(t) /\ Free = {} /\ CanGrow
    /\ dialing' = (dialing \/ t \notin woken)
    /\ waiting' = waiting \cup {t} /\ woken' = woken \ {t}
    /\ UNCHANGED <<conns, load, frozen, closed, signalling, broadcasting, stage, files>>

\* startDialLocked, and Wait.
DialAndWait(t) ==
    /\ Acquiring(t) /\ Free = {} /\ CanGrow
    /\ dialing' = TRUE
    /\ waiting' = waiting \cup {t} /\ woken' = woken \ {t}
    /\ UNCHANGED <<conns, load, frozen, closed, signalling, broadcasting, stage, files>>

\* Mutant: a failed dial wakes nobody.
DialledSilent ==
    /\ dialing /\ dialing' = FALSE
    /\ \/ /\ conns' = conns + 1 /\ UNCHANGED frozen
          /\ waiting' = {} /\ woken' = woken \cup waiting
       \/ frozen' = TRUE /\ UNCHANGED <<conns, waiting, woken>>
    /\ UNCHANGED <<load, closed, signalling, broadcasting, stage, files>>

\* The dial returns; both outcomes wake every waiter.
Dialled ==
    /\ dialing /\ dialing' = FALSE
    /\ \/ conns' = conns + 1 /\ UNCHANGED frozen
       \/ frozen' = TRUE /\ UNCHANGED conns
    /\ waiting' = {} /\ woken' = woken \cup waiting
    /\ UNCHANGED <<load, closed, signalling, broadcasting, stage, files>>

-----------------------------------------------------------------------------
\* The copy is over, or an Open or CreateTemp has failed: it closes its files.
EndCopy(t) ==
    /\ stage[t] = "opening" /\ t \notin waiting \cup woken
    /\ Len(files[t]) = FilesOf[t] \/ files[t] # <<>>
    /\ stage' = [stage EXCEPT ![t] = "closing"]
    /\ UNCHANGED <<poolVars, load, waiting, woken, signalling, broadcasting, files>>

\* Mutant: closing a file gives back the copy's first connection.
CloseWrongFile(t) ==
    /\ stage[t] = "closing" /\ files[t] # <<>> /\ t \notin signalling
    /\ load' = [load EXCEPT ![Head(files[t])] = IF @ > 0 THEN @ - 1 ELSE @]
    /\ files' = [files EXCEPT ![t] = SubSeq(@, 1, Len(@) - 1)]
    /\ signalling' = signalling \cup {t}
    /\ UNCHANGED <<poolVars, waiting, woken, broadcasting, stage>>

\* remoteFile.Close (or a failed Open): release up to its Unlock.
CloseFile(t) ==
    /\ stage[t] = "closing" /\ files[t] # <<>> /\ t \notin signalling
    /\ LET c == files[t][Len(files[t])]
       IN load' = [load EXCEPT ![c] = IF @ > 0 THEN @ - 1 ELSE @]
    /\ files' = [files EXCEPT ![t] = SubSeq(@, 1, Len(@) - 1)]
    /\ signalling' = signalling \cup {t}
    /\ UNCHANGED <<poolVars, waiting, woken, broadcasting, stage>>

SignalFree(t) ==
    /\ t \in signalling /\ signalling' = signalling \ {t}
    /\ \/ waiting = {} /\ UNCHANGED <<waiting, woken>>
       \/ \E u \in waiting : waiting' = waiting \ {u} /\ woken' = woken \cup {u}
    /\ UNCHANGED <<poolVars, load, broadcasting, stage, files>>

\* remoteFS.Close: no more dialing; the copies that wait are woken.
ClosePool ==
    /\ ~closed /\ closed' = TRUE /\ broadcasting' = TRUE
    /\ UNCHANGED <<conns, load, dialing, frozen, waiting, woken, signalling, stage, files>>

BroadcastFree ==
    /\ broadcasting /\ broadcasting' = FALSE
    /\ waiting' = {} /\ woken' = woken \cup waiting
    /\ UNCHANGED <<poolVars, load, signalling, stage, files>>

CopyStep(t) == TakeFree(t) \/ Share(t) \/ DialAndWait(t) \/ EndCopy(t) \/ CloseFile(t) \/ SignalFree(t)

Ended(t) == stage[t] = "closing" /\ files[t] = <<>> /\ t \notin signalling
AllEnded == (\A t \in Copies : Ended(t)) /\ UNCHANGED vars

Next == Dialled \/ ClosePool \/ BroadcastFree \/ AllEnded \/ \E t \in Copies : CopyStep(t)

\* A dial returns: its connection runs with BatchMode and ConnectTimeout.
Spec == /\ Init /\ [][Next]_vars
        /\ WF_vars(Dialled) /\ WF_vars(BroadcastFree)
        /\ \A t \in Copies : WF_vars(CopyStep(t))

-----------------------------------------------------------------------------
\* Its first conjunct is the bound on ssh processes: one dial at a time is
\* enough for conns never to pass MaxConnections.
TypeOK ==
    /\ conns \in Conns /\ load \in [Conns -> Nat]
    /\ dialing \in BOOLEAN /\ frozen \in BOOLEAN /\ closed \in BOOLEAN /\ broadcasting \in BOOLEAN
    /\ waiting \subseteq Copies /\ woken \subseteq Copies /\ signalling \subseteq Copies
    /\ stage \in [Copies -> {"opening", "closing"}]
    /\ files \in [Copies -> Seq(Conns)]
    /\ \A t \in Copies : \A i \in 1..Len(files[t]) : files[t][i] <= conns

\* A copy that waits for a connection has a dial under way for it, so it never
\* depends on another copy, which may itself be waiting, to close a file.
WaitersHaveDial == waiting # {} => dialing

\* transfers counts the open files of a connection: the guard in release that
\* keeps it from going below zero never hides a wrong count.
Users(c) == UNION {{t} \X {i \in 1..Len(files[t]) : files[t][i] = c} : t \in Copies}
LoadsHonest == \A c \in Conns : load[c] = Cardinality(Users(c))

\* acquire dials before it shares: two files are on one connection only in a pool
\* that is full, frozen or closed.  Of the two things that docs/ssh.md says of this,
\* it is line 41 ("One connection per file being transferred") that the code keeps.
\* Line 52 ("Failing that, it takes one that carries a transfer but has nothing
\* outstanding right now") and line 57 ("usually stays on one") say the opposite,
\* and the code does not do that: acquire never asks what is outstanding.
SharedOnlyWhenFull ==
    (\E c \in Conns : load[c] > 1) => conns = MaxConnections \/ frozen \/ closed

\* Every copy gets its connections and ends, though copies hold one while they
\* wait for the other, dials fail, and the pool is closed under them.
CopiesEnd == \A t \in Copies : <>Ended(t)
=============================================================================
