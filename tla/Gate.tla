-------------------------------- MODULE Gate --------------------------------
(***************************************************************************)
(* internal/engine/gate.go: the concurrency limiter whose limit the        *)
(* controller changes while it is in use.  Every call signals under its    *)
(* mutex, so a call is one action but for acquire's wait (see Queue for    *)
(* sync.Cond).                                                             *)
(***************************************************************************)
EXTENDS Integers, FiniteSets

CONSTANTS Holders, Max, Initial

ASSUME GateAssumption == IsFiniteSet(Holders) /\ Max \in Int /\ Initial \in Int

VARIABLES
    limit, inUse,
    gateWaiting,   \* goroutines in acquire's notify list
    gateWoken      \* those that were woken and have not tested again

gateVars == <<limit, inUse, gateWaiting, gateWoken>>

AtLeast1(n) == IF n < 1 THEN 1 ELSE n
Ceiling == AtLeast1(Max)
Unclamped(n) == n      \* mutant of Clamp
Clamp(n) == IF AtLeast1(n) > Ceiling THEN Ceiling ELSE AtLeast1(n)

GateInit ==
    /\ limit = Clamp(Initial) /\ inUse = 0
    /\ gateWaiting = {} /\ gateWoken = {}

\* acquire's loop test and what follows it under the same lock.
AcquireWait(h) ==
    /\ h \notin gateWaiting
    /\ inUse >= limit
    /\ gateWaiting' = gateWaiting \cup {h} /\ gateWoken' = gateWoken \ {h}
    /\ UNCHANGED <<limit, inUse>>

Acquire(h) ==
    /\ h \notin gateWaiting
    /\ inUse < limit
    /\ inUse' = inUse + 1
    /\ gateWoken' = gateWoken \ {h}
    /\ UNCHANGED <<limit, gateWaiting>>

\* release, which only a holder calls.
Release ==
    /\ inUse > 0
    /\ inUse' = inUse - 1
    /\ \/ gateWaiting = {} /\ UNCHANGED <<gateWaiting, gateWoken>>
       \/ \E h \in gateWaiting : gateWaiting' = gateWaiting \ {h} /\ gateWoken' = gateWoken \cup {h}
    /\ UNCHANGED limit

\* Mutant: setLimit wakes one goroutine, however much the limit grows.
SetLimitOne(n) ==
    /\ limit' = Clamp(n)
    /\ \/ gateWaiting = {} /\ UNCHANGED <<gateWaiting, gateWoken>>
       \/ \E h \in gateWaiting : gateWaiting' = gateWaiting \ {h} /\ gateWoken' = gateWoken \cup {h}
    /\ UNCHANGED inUse

SetLimit(n) ==
    /\ limit' = Clamp(n)
    /\ gateWaiting' = {} /\ gateWoken' = gateWoken \cup gateWaiting
    /\ UNCHANGED inUse

GateNext ==
    \/ Release
    \/ \E n \in Int : SetLimit(n)
    \/ \E h \in Holders : AcquireWait(h) \/ Acquire(h)

GateSpec == GateInit /\ [][GateNext]_gateVars

GateTypeOK ==
    /\ limit \in 1..Ceiling /\ inUse \in 0..Ceiling
    /\ gateWaiting \subseteq Holders /\ gateWoken \subseteq Holders
    /\ gateWaiting \cap gateWoken = {}

\* No slot is lost.  While a goroutine sleeps in acquire, every free slot has
\* a woken goroutine on its way to it, also after the limit shrank below the
\* slots in use and grew again.
NoSlotLost == gateWaiting # {} => limit - inUse <= Cardinality(gateWoken)
=============================================================================
