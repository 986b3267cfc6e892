------------------------------- MODULE Queue --------------------------------
(***************************************************************************)
(* internal/engine/queue.go: the unbounded FIFO behind jobs and metaJobs.  *)
(* A call holds the mutex from its first step to the step that unlocks it  *)
(* or waits, so such a stretch is one action.  push and close unlock before*)
(* they signal, so the signal is an action of its own.                     *)
(*                                                                         *)
(* sync.Cond (external): Wait joins the notify list before it unlocks,     *)
(* Signal wakes one goroutine of the list if there is one, Broadcast all;  *)
(* no goroutine wakes by itself.  A woken goroutine has yet to get the     *)
(* mutex back and to test again.                                           *)
(***************************************************************************)
EXTENDS Naturals, Sequences, FiniteSets

CONSTANTS Pushers, Poppers, Values

ASSUME QueueAssumption == IsFiniteSet(Pushers) /\ IsFiniteSet(Poppers)

VARIABLES
    items, closed,
    signalling,    \* pushers between their Unlock and their Signal
    broadcasting,  \* close is between its Unlock and its Broadcast
    popWaiting,    \* poppers in the notify list
    popWoken       \* poppers that were woken and have not tested again

queueVars == <<items, closed, signalling, broadcasting, popWaiting, popWoken>>

QueueInit ==
    /\ items = <<>> /\ closed = FALSE
    /\ signalling = {} /\ broadcasting = FALSE
    /\ popWaiting = {} /\ popWoken = {}

Push(p, v) ==
    /\ p \notin signalling
    /\ items' = Append(items, v)
    /\ signalling' = signalling \cup {p}
    /\ UNCHANGED <<closed, broadcasting, popWaiting, popWoken>>

SignalPop(p) ==
    /\ p \in signalling
    /\ signalling' = signalling \ {p}
    /\ \/ popWaiting = {} /\ UNCHANGED <<popWaiting, popWoken>>
       \/ \E c \in popWaiting : popWaiting' = popWaiting \ {c} /\ popWoken' = popWoken \cup {c}
    /\ UNCHANGED <<items, closed, broadcasting>>

Close ==
    /\ ~closed
    /\ closed' = TRUE /\ broadcasting' = TRUE
    /\ UNCHANGED <<items, signalling, popWaiting, popWoken>>

\* Mutant: close wakes one popper.
BroadcastOne ==
    /\ broadcasting /\ broadcasting' = FALSE
    /\ \/ popWaiting = {} /\ UNCHANGED <<popWaiting, popWoken>>
       \/ \E c \in popWaiting : popWaiting' = popWaiting \ {c} /\ popWoken' = popWoken \cup {c}
    /\ UNCHANGED <<items, closed, signalling>>

BroadcastPop ==
    /\ broadcasting /\ broadcasting' = FALSE
    /\ popWaiting' = {} /\ popWoken' = popWoken \cup popWaiting
    /\ UNCHANGED <<items, closed, signalling>>

\* pop's loop test, and what follows it under the same lock.
PopWait(c) ==
    /\ c \notin popWaiting
    /\ items = <<>> /\ ~closed
    /\ popWaiting' = popWaiting \cup {c} /\ popWoken' = popWoken \ {c}
    /\ UNCHANGED <<items, closed, signalling, broadcasting>>

PopItem(c) ==
    /\ c \notin popWaiting
    /\ items # <<>>
    /\ items' = Tail(items)
    /\ popWoken' = popWoken \ {c}
    /\ UNCHANGED <<closed, signalling, broadcasting, popWaiting>>

PopClosed(c) ==
    /\ c \notin popWaiting
    /\ items = <<>> /\ closed
    /\ popWoken' = popWoken \ {c}
    /\ UNCHANGED <<items, closed, signalling, broadcasting, popWaiting>>

QueueNext ==
    \/ \E p \in Pushers : SignalPop(p) \/ \E v \in Values : Push(p, v)
    \/ Close \/ BroadcastPop
    \/ \E c \in Poppers : PopWait(c) \/ PopItem(c) \/ PopClosed(c)

QueueSpec == QueueInit /\ [][QueueNext]_queueVars

QueueTypeOK ==
    /\ items \in Seq(Values)
    /\ closed \in BOOLEAN /\ broadcasting \in BOOLEAN
    /\ signalling \subseteq Pushers
    /\ popWaiting \subseteq Poppers /\ popWoken \subseteq Poppers
    /\ popWaiting \cap popWoken = {}

\* No wake-up is lost.  While a popper sleeps, every queued item has a popper
\* on its way to it: one that was woken, or one that a pusher's Signal will
\* wake; and once the queue is closed, the Broadcast is still to come.
NoPopLost ==
    popWaiting # {} =>
        /\ Len(items) <= Cardinality(popWoken) + Cardinality(signalling)
        /\ closed => broadcasting
=============================================================================
