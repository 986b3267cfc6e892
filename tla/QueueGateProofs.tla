-------------------------- MODULE QueueGateProofs --------------------------
(* Proofs about the two parts that WorkPool composes.  Queue: types, and     *)
(* that no wake-up is lost (see NoPopLost).  Gate: types, and that no slot   *)
(* is lost (see NoSlotLost).                                                 *)
EXTENDS Queue, Gate, FiniteSetTheorems, SequenceTheorems, TLAPS

-----------------------------------------------------------------------------
(* Queue.                                                                    *)

LEMMA QueueTypeStep == ASSUME QueueTypeOK, [QueueNext]_queueVars PROVE QueueTypeOK'
<1> USE DEF QueueTypeOK
<1>1. ASSUME NEW p \in Pushers, SignalPop(p) PROVE QueueTypeOK'
  BY <1>1 DEF SignalPop
<1>2. ASSUME NEW p \in Pushers, NEW v \in Values, Push(p, v) PROVE QueueTypeOK'
  BY <1>2 DEF Push
<1>3. CASE Close
  BY <1>3 DEF Close
<1>4. CASE BroadcastPop
  BY <1>4 DEF BroadcastPop
<1>5. ASSUME NEW c \in Poppers, PopWait(c) PROVE QueueTypeOK'
  BY <1>5 DEF PopWait
<1>6. ASSUME NEW c \in Poppers, PopItem(c) PROVE QueueTypeOK'
  BY <1>6 DEF PopItem
<1>7. ASSUME NEW c \in Poppers, PopClosed(c) PROVE QueueTypeOK'
  BY <1>7 DEF PopClosed
<1>8. CASE UNCHANGED queueVars
  BY <1>8 DEF queueVars
<1> QED BY <1>1, <1>2, <1>3, <1>4, <1>5, <1>6, <1>7, <1>8 DEF QueueNext

LEMMA QueueTypeInit == ASSUME QueueInit PROVE QueueTypeOK
<1>1. items \in Seq(Values)
  BY EmptySeq DEF QueueInit
<1> QED BY <1>1 DEF QueueInit, QueueTypeOK

\* The queue's variables keep their types.
THEOREM QueueTypeCorrect == QueueSpec => []QueueTypeOK
<1> QED BY QueueTypeInit, QueueTypeStep, PTL DEF QueueSpec

-----------------------------------------------------------------------------
LEMMA QueueFinite ==
    ASSUME QueueTypeOK
    PROVE  /\ IsFiniteSet(popWoken) /\ Cardinality(popWoken) \in Nat
           /\ IsFiniteSet(signalling) /\ Cardinality(signalling) \in Nat
           /\ Len(items) \in Nat
BY QueueAssumption, FS_Subset, FS_CardinalityType DEF QueueTypeOK

\* Every step keeps a popper on its way to each queued item while another one
\* sleeps: push brings its signal along, a signal becomes a woken popper, and a
\* popper that goes to sleep has seen an empty, open queue.
LEMMA NoPopLostStep == ASSUME QueueTypeOK, NoPopLost, [QueueNext]_queueVars PROVE NoPopLost'
<1> DEFINE Bound == Len(items) <= Cardinality(popWoken) + Cardinality(signalling)
<1> SUFFICES ASSUME popWaiting' # {} PROVE Bound' /\ (closed' => broadcasting')
  BY DEF NoPopLost
<1>f. /\ IsFiniteSet(popWoken) /\ Cardinality(popWoken) \in Nat
      /\ IsFiniteSet(signalling) /\ Cardinality(signalling) \in Nat
      /\ Len(items) \in Nat
  BY QueueFinite
<1>g. /\ Cardinality(popWoken') \in Nat /\ Cardinality(signalling') \in Nat
  <2>1. QueueTypeOK'
    BY QueueTypeStep
  <2> QED BY <2>1, QueueAssumption, FS_Subset, FS_CardinalityType DEF QueueTypeOK
<1>1. ASSUME NEW p \in Pushers, SignalPop(p) PROVE Bound' /\ (closed' => broadcasting')
  <2>1. PICK c \in popWaiting : popWoken' = popWoken \cup {c}
    BY <1>1 DEF SignalPop
  <2>2. c \notin popWoken
    BY DEF QueueTypeOK
  <2>3. Cardinality(popWoken') = Cardinality(popWoken) + 1
    BY <2>1, <2>2, <1>f, FS_AddElement
  <2>4. Cardinality(signalling') = Cardinality(signalling) - 1
    BY <1>1, <1>f, FS_RemoveElement DEF SignalPop
  <2>5. Bound /\ (closed => broadcasting)
    BY <2>1 DEF NoPopLost
  <2> QED BY <1>1, <1>f, <2>3, <2>4, <2>5 DEF SignalPop
<1>2. ASSUME NEW p \in Pushers, NEW v \in Values, Push(p, v) PROVE Bound' /\ (closed' => broadcasting')
  <2>1. Cardinality(signalling') = Cardinality(signalling) + 1
    BY <1>2, <1>f, FS_AddElement DEF Push
  <2>2. Len(items') = Len(items) + 1
    BY <1>2 DEF Push, QueueTypeOK
  <2>3. Bound /\ (closed => broadcasting)
    BY <1>2 DEF Push, NoPopLost
  <2> QED BY <1>2, <1>f, <2>1, <2>2, <2>3 DEF Push
<1>3. CASE Close
  BY <1>3 DEF Close, NoPopLost
<1>4. CASE BroadcastPop
  BY <1>4 DEF BroadcastPop
<1>5. ASSUME NEW c \in Poppers, PopWait(c) PROVE Bound' /\ (closed' => broadcasting')
  <2>1. Len(items') = 0 /\ ~closed'
    BY <1>5 DEF PopWait
  <2> QED BY <1>g, <2>1
<1>6. ASSUME NEW c \in Poppers, PopItem(c) PROVE Bound' /\ (closed' => broadcasting')
  <2>0. popWoken' = popWoken \ {c}
    BY <1>6 DEF PopItem
  <2>1. Cardinality(popWoken') >= Cardinality(popWoken) - 1
    <3>1. Cardinality(popWoken \ {c}) =
             IF c \in popWoken THEN Cardinality(popWoken) - 1 ELSE Cardinality(popWoken)
      BY <1>f, FS_RemoveElement
    <3> QED BY <2>0, <3>1, <1>f
  <2>2. Len(items') = Len(items) - 1
    BY <1>6 DEF PopItem, QueueTypeOK
  <2>3. Bound /\ (closed => broadcasting)
    BY <1>6 DEF PopItem, NoPopLost
  <2> QED BY <1>6, <1>f, <1>g, <2>1, <2>2, <2>3 DEF PopItem
<1>7. ASSUME NEW c \in Poppers, PopClosed(c) PROVE Bound' /\ (closed' => broadcasting')
  <2>1. Len(items') = 0 /\ (closed' => broadcasting')
    BY <1>7 DEF PopClosed, NoPopLost
  <2> QED BY <1>g, <2>1
<1>8. CASE UNCHANGED queueVars
  BY <1>8 DEF queueVars, NoPopLost
<1> QED BY <1>1, <1>2, <1>3, <1>4, <1>5, <1>6, <1>7, <1>8 DEF QueueNext

\* No wake-up of the queue is lost, for any number of pushers and poppers:
\* while a popper sleeps, every queued item has a popper on its way to it, and a
\* closed queue still has its broadcast to come.
THEOREM NoPopLostCorrect == QueueSpec => []NoPopLost
<1>1. QueueInit => NoPopLost
  BY DEF QueueInit, NoPopLost
<1> QED BY <1>1, QueueTypeCorrect, NoPopLostStep, PTL DEF QueueSpec

-----------------------------------------------------------------------------
(* Gate.                                                                     *)

LEMMA ClampBounds == \A n \in Int : Clamp(n) \in 1..Ceiling
BY GateAssumption DEF Clamp, AtLeast1, Ceiling

\* Every step leaves the gate's variables of their types; at most Ceiling slots
\* are in use, as acquire waits at the limit and setLimit clamps it.
LEMMA GateTypeStep == ASSUME GateTypeOK, [GateNext]_gateVars PROVE GateTypeOK'
<1> USE GateAssumption DEF GateTypeOK, gateVars
<1> DEFINE C == Ceiling
<1>0. Ceiling \in Int
  BY DEF Ceiling, AtLeast1
<1>1. CASE Release
  BY <1>0, <1>1 DEF Release
<1>2. ASSUME NEW n \in Int, SetLimit(n) PROVE GateTypeOK'
  <2>1. limit' \in 1..Ceiling
    BY <1>2, ClampBounds DEF SetLimit
  <2> QED BY <1>2, <2>1 DEF SetLimit
<1>3. ASSUME NEW h \in Holders, AcquireWait(h) PROVE GateTypeOK'
  BY <1>3 DEF AcquireWait
<1>4. ASSUME NEW h \in Holders, Acquire(h) PROVE GateTypeOK'
  BY <1>0, <1>4 DEF Acquire
<1>5. CASE UNCHANGED gateVars
  BY <1>5
<1> QED BY <1>1, <1>2, <1>3, <1>4, <1>5 DEF GateNext

LEMMA GateTypeInit == GateInit => GateTypeOK
BY ClampBounds, GateAssumption DEF GateInit, GateTypeOK, Ceiling, AtLeast1

\* The limiter's variables keep their types, whatever the ceiling, the initial
\* limit and the limits the controller asks for.
THEOREM GateTypeCorrect == GateSpec => []GateTypeOK
<1> QED BY GateTypeInit, GateTypeStep, PTL DEF GateSpec

-----------------------------------------------------------------------------
LEMMA WokenFinite == ASSUME GateTypeOK PROVE IsFiniteSet(gateWoken) /\ Cardinality(gateWoken) \in Nat
BY GateAssumption, FS_Subset, FS_CardinalityType DEF GateTypeOK

\* Every step keeps as many woken goroutines as there are free slots while
\* somebody sleeps: a release adds one slot and wakes one, a goroutine that
\* takes a slot was counted at most once, and one that goes back to sleep has
\* seen no free slot.
LEMMA NoSlotLostStep == ASSUME GateTypeOK, NoSlotLost, [GateNext]_gateVars PROVE NoSlotLost'
<1> SUFFICES ASSUME gateWaiting' # {} PROVE limit' - inUse' <= Cardinality(gateWoken')
  BY DEF NoSlotLost
<1>t. GateTypeOK'
  BY GateTypeStep
<1>f. /\ IsFiniteSet(gateWoken) /\ Cardinality(gateWoken) \in Nat
      /\ IsFiniteSet(gateWoken') /\ Cardinality(gateWoken') \in Nat
  BY <1>t, WokenFinite, GateAssumption, FS_Subset, FS_CardinalityType DEF GateTypeOK
<1>i. limit \in Int /\ inUse \in Int /\ limit' \in Int /\ inUse' \in Int
  BY <1>t DEF GateTypeOK
<1>1. CASE Release
  <2>1. PICK h \in gateWaiting : gateWoken' = gateWoken \cup {h}
    BY <1>1 DEF Release
  <2>2. h \notin gateWoken
    BY DEF GateTypeOK
  <2>3. Cardinality(gateWoken') = Cardinality(gateWoken) + 1
    BY <2>1, <2>2, <1>f, FS_AddElement
  <2>4. limit - inUse <= Cardinality(gateWoken)
    BY <2>1 DEF NoSlotLost
  <2> QED BY <1>1, <1>f, <1>i, <2>3, <2>4 DEF Release
<1>2. ASSUME NEW n \in Int, SetLimit(n) PROVE FALSE
  BY <1>2 DEF SetLimit
<1>3. ASSUME NEW h \in Holders, AcquireWait(h) PROVE limit' - inUse' <= Cardinality(gateWoken')
  BY <1>3, <1>f, <1>i DEF AcquireWait
<1>4. ASSUME NEW h \in Holders, Acquire(h) PROVE limit' - inUse' <= Cardinality(gateWoken')
  <2>1. limit - inUse <= Cardinality(gateWoken)
    BY <1>4 DEF Acquire, NoSlotLost
  <2>2. Cardinality(gateWoken') >= Cardinality(gateWoken) - 1
    BY <1>4, <1>f, FS_RemoveElement DEF Acquire
  <2> QED BY <1>4, <1>f, <1>i, <2>1, <2>2 DEF Acquire
<1>5. CASE UNCHANGED gateVars
  BY <1>5 DEF gateVars, NoSlotLost
<1> QED BY <1>1, <1>2, <1>3, <1>4, <1>5 DEF GateNext

\* No slot of the limiter is lost, for any number of goroutines and any sequence
\* of limits: while somebody sleeps in acquire, each free slot has a goroutine
\* that was woken for it.
THEOREM NoSlotLostCorrect == GateSpec => []NoSlotLost
<1>1. GateInit => NoSlotLost
  BY DEF GateInit, NoSlotLost
<1> QED BY <1>1, GateTypeCorrect, NoSlotLostStep, PTL DEF GateSpec
=============================================================================
