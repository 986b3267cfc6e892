--------------------------- MODULE WorkPoolProofs ---------------------------
(* The pool keeps the promises of its queue and of its gate, and the gate's  *)
(* count is the number of running workers.                                   *)
EXTENDS WorkPool, QueueGateProofs

\* A step of the pool is a step of its queue and a step of its gate, or leaves
\* them alone: pushers and workers use both only through their methods.
LEMMA PoolStep ==
    ASSUME PoolTypeOK, [Next]_vars
    PROVE  [QueueNext]_queueVars /\ [GateNext]_gateVars
<1> DEFINE Goal == [QueueNext]_queueVars /\ [GateNext]_gateVars
<1>1. ASSUME NEW p \in Pushers, PushJob(p) PROVE Goal
  BY <1>1 DEF PushJob, QueueNext, PoolTypeOK
<1>2. ASSUME NEW p \in Pushers, Signal(p) PROVE Goal
  BY <1>2 DEF Signal, QueueNext
<1>3. CASE CloseJobs
  BY <1>3 DEF CloseJobs, QueueNext
<1>4. CASE Broadcast
  BY <1>4 DEF Broadcast, QueueNext
<1>5. CASE Resize
  BY <1>5, PoolAssumption DEF Resize, GateNext
<1>6. CASE Abort
  BY <1>6 DEF Abort
<1>7. ASSUME NEW w \in Poppers, WaitForJob(w) PROVE Goal
  BY <1>7 DEF WaitForJob, QueueNext
<1>8. ASSUME NEW w \in Poppers, TakeJob(w) PROVE Goal
  BY <1>8 DEF TakeJob, QueueNext
<1>9. ASSUME NEW w \in Poppers, Leave(w) PROVE Goal
  BY <1>9 DEF Leave, QueueNext
<1>10. ASSUME NEW w \in Poppers, WaitForSlot(w) PROVE Goal
  BY <1>10, PoolAssumption DEF WaitForSlot, GateNext
<1>11. ASSUME NEW w \in Poppers, TakeSlot(w) PROVE Goal
  BY <1>11, PoolAssumption DEF TakeSlot, GateNext
<1>12. ASSUME NEW w \in Poppers, RunJob(w) PROVE Goal
  BY <1>12 DEF RunJob, GateNext
<1>13. CASE UNCHANGED vars
  BY <1>13 DEF vars
<1> QED
  BY <1>1, <1>2, <1>3, <1>4, <1>5, <1>6, <1>7, <1>8, <1>9, <1>10, <1>11, <1>12, <1>13
  DEF Next, MainStep, PusherStep, WorkerStep

-----------------------------------------------------------------------------
\* A worker past pop has a job: what RunJob adds to over is a job.
BusyHasJob == \A w \in Poppers : pc[w] \in {"acquire", "run"} => job[w] \in Values

PoolInv == PoolTypeOK /\ BusyHasJob

\* The variables of the pool itself keep their types.
LEMMA PoolInvStep == ASSUME QueueTypeOK, PoolInv, [Next]_vars PROVE PoolInv'
<1> USE DEF PoolInv, PoolTypeOK, BusyHasJob
<1>1. ASSUME NEW p \in Pushers, PushJob(p) PROVE PoolInv'
  BY <1>1 DEF PushJob
<1>2. ASSUME NEW w \in Poppers, TakeJob(w) PROVE PoolInv'
  <2>1. Head(items) \in Values
    BY <1>2, HeadTailProperties DEF TakeJob, PopItem, QueueTypeOK
  <2>2. CASE aborted
    BY <1>2, <2>1, <2>2 DEF TakeJob, Step
  <2>3. CASE ~aborted
    BY <1>2, <2>1, <2>3 DEF TakeJob, Step
  <2> QED BY <2>2, <2>3
<1>3. ASSUME NEW w \in Poppers, Leave(w) PROVE PoolInv'
  BY <1>3 DEF Leave, Step
<1>4. ASSUME NEW w \in Poppers, TakeSlot(w) PROVE PoolInv'
  BY <1>4 DEF TakeSlot, Step
<1>5. ASSUME NEW w \in Poppers, RunJob(w) PROVE PoolInv'
  BY <1>5 DEF RunJob, Step
<1>6. ASSUME UNCHANGED <<toPush, pc, job, over>> PROVE PoolInv'
  BY <1>6
<1> QED
  BY <1>1, <1>2, <1>3, <1>4, <1>5, <1>6
  DEF Next, MainStep, PusherStep, WorkerStep, Signal, CloseJobs, Broadcast, Resize, Abort,
      WaitForJob, WaitForSlot, vars, poolVars

LEMMA PoolInvariant == Spec => [](QueueTypeOK /\ GateTypeOK /\ PoolInv)
<1>1. Init => QueueTypeOK /\ GateTypeOK /\ PoolInv
  <2> SUFFICES ASSUME Init PROVE QueueTypeOK /\ GateTypeOK /\ PoolInv
    OBVIOUS
  <2>1. QueueTypeOK
    BY QueueTypeInit DEF Init
  <2>2. GateTypeOK
    BY GateTypeInit DEF Init
  <2>3. PoolInv
    BY PoolAssumption DEF Init, PoolInv, PoolTypeOK, BusyHasJob
  <2> QED BY <2>1, <2>2, <2>3
<1>2. QueueTypeOK /\ GateTypeOK /\ PoolInv /\ [Next]_vars => (QueueTypeOK /\ GateTypeOK /\ PoolInv)'
  BY PoolStep, QueueTypeStep, GateTypeStep, PoolInvStep DEF PoolInv
<1> QED BY <1>1, <1>2, PTL DEF Spec

\* The pool's variables keep their types.
THEOREM PoolTypeCorrect == Spec => []TypeOK
BY PoolInvariant, PTL DEF TypeOK, PoolInv

\* The pool loses no wake-up of its queue, for any number of pushers, workers
\* and jobs: a worker sleeps in pop only while the others can take every item.
THEOREM PoolLosesNoPop == Spec => []NoPopLost
<1>1. Init => NoPopLost
  BY DEF Init, QueueInit, NoPopLost
<1>2. QueueTypeOK /\ PoolInv /\ NoPopLost /\ [Next]_vars => NoPopLost'
  BY PoolStep, NoPopLostStep DEF PoolInv
<1> QED BY <1>1, <1>2, PoolInvariant, PTL DEF Spec

\* The pool loses no slot of its gate, whatever limits the controller sets.
THEOREM PoolLosesNoSlot == Spec => []NoSlotLost
<1>1. Init => NoSlotLost
  BY DEF Init, GateInit, NoSlotLost
<1>2. GateTypeOK /\ PoolInv /\ NoSlotLost /\ [Next]_vars => NoSlotLost'
  BY PoolStep, NoSlotLostStep DEF PoolInv
<1> QED BY <1>1, <1>2, PoolInvariant, PTL DEF Spec

-----------------------------------------------------------------------------
\* Only TakeSlot and RunJob change who runs, by one worker each, with the gate.
LEMMA SlotsCountedStep ==
    ASSUME GateTypeOK, PoolInv, SlotsCounted, [Next]_vars
    PROVE  SlotsCounted'
<1> USE DEF SlotsCounted, PoolInv, PoolTypeOK
<1>f. IsFiniteSet(Running) /\ Cardinality(Running) \in Nat
  BY GateAssumption, PoolAssumption, FS_Subset, FS_CardinalityType DEF Running
<1>1. ASSUME NEW w \in Poppers, TakeSlot(w) PROVE SlotsCounted'
  <2>1. Running' = Running \cup {w} /\ w \notin Running
    BY <1>1 DEF TakeSlot, Step, Running
  <2>2. Cardinality(Running') = Cardinality(Running) + 1
    BY <2>1, <1>f, FS_AddElement
  <2> QED BY <1>1, <2>2 DEF TakeSlot, Acquire
<1>2. ASSUME NEW w \in Poppers, RunJob(w) PROVE SlotsCounted'
  <2>1. Running' = Running \ {w} /\ w \in Running
    BY <1>2 DEF RunJob, Step, Running
  <2>2. Cardinality(Running \ {w}) = Cardinality(Running) - 1
    BY <2>1, <1>f, FS_RemoveElement
  <2> QED BY <1>2, <2>1, <2>2 DEF RunJob, Release
<1>3. ASSUME NEW w \in Poppers, TakeJob(w) PROVE SlotsCounted'
  <2>1. Running' = Running
    BY <1>3 DEF TakeJob, Step, Running
  <2> QED BY <1>3, <2>1 DEF TakeJob, gateVars
<1>4. ASSUME NEW w \in Poppers, Leave(w) PROVE SlotsCounted'
  <2>1. Running' = Running
    BY <1>4 DEF Leave, Step, Running
  <2> QED BY <1>4, <2>1 DEF Leave, gateVars
<1>5. ASSUME UNCHANGED <<pc, inUse>> PROVE SlotsCounted'
  BY <1>5 DEF Running
<1> QED
  BY <1>1, <1>2, <1>3, <1>4, <1>5
  DEF Next, MainStep, PusherStep, WorkerStep, PushJob, Signal, CloseJobs, Broadcast, Resize, SetLimit,
      Abort, WaitForJob, WaitForSlot, AcquireWait, vars, poolVars, gateVars

\* The gate's inUse is the number of workers that run a job, so the limit that
\* the controller sets is a limit on running copies.
THEOREM SlotsCountedCorrect == Spec => []SlotsCounted
<1>1. Init => SlotsCounted
  <2>1. Init => Running = {}
    BY DEF Init, Running
  <2> QED BY <2>1, FS_EmptySet DEF Init, GateInit, SlotsCounted
<1>2. GateTypeOK /\ PoolInv /\ SlotsCounted /\ [Next]_vars => SlotsCounted'
  BY SlotsCountedStep
<1> QED BY <1>1, <1>2, PoolInvariant, PTL DEF Spec

-----------------------------------------------------------------------------
(* The pool implements Jobs, step by step.                                   *)

Unpushed == {v \in Values : \E p \in Pushers : v \in toPush[p]}
InQueue == {v \in Values : \E k \in DOMAIN items : items[k] = v}
Held == {v \in Values : \E w \in Poppers : job[w] = v}

\* Every job is in one place, once.
JobPlaces ==
    /\ Values = Unpushed \cup InQueue \cup Held \cup over
    /\ Unpushed \cap (InQueue \cup Held \cup over) = {}
    /\ InQueue \cap (Held \cup over) = {} /\ Held \cap over = {}
    /\ \A p \in Pushers : toPush[p] \subseteq JobsOf[p]
    /\ closed => Unpushed = {}
    /\ \A k, l \in DOMAIN items : items[k] = items[l] => k = l
    /\ \A v, w \in Poppers : job[v] = job[w] /\ job[v] # NoJob => v = w
    /\ \A w \in Poppers : pc[w] \in {"pop", "left"} => job[w] = NoJob

\* A push moves a job from its pusher to the end of the queue.
LEMMA PushEffect ==
    ASSUME QueueTypeOK, PoolTypeOK, JobPlaces, NEW p \in Pushers, NEW j \in toPush[p],
           items' = Append(items, j), toPush' = [toPush EXCEPT ![p] = @ \ {j}]
    PROVE  /\ j \in Unpushed /\ Unpushed' = Unpushed \ {j} /\ InQueue' = InQueue \cup {j}
           /\ \A k, l \in DOMAIN items' : items'[k] = items'[l] => k = l
           /\ \A q \in Pushers : toPush'[q] \subseteq JobsOf[q]
<1>1. j \in Values /\ j \in Unpushed /\ j \notin InQueue
  BY DEF PoolTypeOK, Unpushed, JobPlaces
<1>2. \A q \in Pushers : toPush'[q] = IF q = p THEN toPush[p] \ {j} ELSE toPush[q]
  BY DEF PoolTypeOK
<1>3. \A q \in Pushers \ {p} : j \notin toPush[q]
  BY PoolAssumption DEF JobPlaces
<1>4. Unpushed' = Unpushed \ {j}
  BY <1>1, <1>2, <1>3 DEF Unpushed
<1>5. /\ DOMAIN items = 1..Len(items) /\ Len(items) \in Nat
      /\ DOMAIN items' = 1..(Len(items) + 1) /\ items'[Len(items) + 1] = j
      /\ \A k \in 1..Len(items) : items'[k] = items[k]
  BY <1>1, AppendProperties, LenProperties DEF QueueTypeOK
<1>6. InQueue' = InQueue \cup {j}
  <2>1. ASSUME NEW v \in Values, v \in InQueue' PROVE v \in InQueue \cup {j}
    BY <1>5, <2>1 DEF InQueue
  <2>2. ASSUME NEW v \in InQueue \cup {j} PROVE v \in InQueue'
    BY <1>1, <1>5, <2>2 DEF InQueue
  <2> QED BY <2>1, <2>2 DEF InQueue
<1>7. \A k, l \in DOMAIN items' : items'[k] = items'[l] => k = l
  <2>1. \A k \in 1..Len(items) : items[k] # j
    BY <1>1, <1>5 DEF InQueue
  <2> QED BY <1>5, <2>1 DEF JobPlaces
<1> QED BY <1>1, <1>2, <1>4, <1>6, <1>7 DEF JobPlaces

\* A pop takes the first job of the queue, which is there once.
LEMMA PopEffect ==
    ASSUME QueueTypeOK, JobPlaces, items # <<>>, items' = Tail(items)
    PROVE  /\ Head(items) \in InQueue /\ InQueue' = InQueue \ {Head(items)}
           /\ \A k, l \in DOMAIN items' : items'[k] = items'[l] => k = l
<1>1. /\ DOMAIN items = 1..Len(items) /\ Len(items) \in Nat \ {0} /\ Head(items) = items[1]
      /\ DOMAIN items' = 1..(Len(items) - 1)
      /\ \A k \in 1..(Len(items) - 1) : items'[k] = items[k + 1]
  BY HeadTailProperties, LenProperties, EmptySeq DEF QueueTypeOK
<1>2. \A k \in 1..Len(items) : items[k] \in Values
  BY <1>1, ElementOfSeq DEF QueueTypeOK
<1>3. Head(items) \in InQueue
  BY <1>1, <1>2 DEF InQueue
<1>4. \A k \in 2..Len(items) : items[k] # Head(items) /\ k - 1 \in DOMAIN items' /\ items'[k - 1] = items[k]
  BY <1>1 DEF JobPlaces
<1>5. ASSUME NEW v \in InQueue' PROVE v \in InQueue \ {Head(items)}
  <2>1. PICK k \in DOMAIN items' : items'[k] = v
    BY <1>5 DEF InQueue
  <2>2. k + 1 \in 2..Len(items) /\ items[k + 1] = v
    BY <1>1, <2>1
  <2> QED BY <1>1, <1>2, <1>4, <2>2 DEF InQueue
<1>6. ASSUME NEW v \in InQueue \ {Head(items)} PROVE v \in InQueue'
  <2>1. PICK k \in DOMAIN items : items[k] = v
    BY <1>6 DEF InQueue
  <2>2. k \in 2..Len(items)
    BY <1>1, <1>6, <2>1
  <2> QED BY <1>4, <1>6, <2>1, <2>2 DEF InQueue
<1>7. \A k, l \in DOMAIN items' : items'[k] = items'[l] => k = l
  BY <1>1 DEF JobPlaces
<1> QED BY <1>3, <1>5, <1>6, <1>7

\* Unless they appear in the step, the places stay as they are.
LEMMA SameJobs ==
    /\ UNCHANGED toPush => Unpushed' = Unpushed
    /\ UNCHANGED items => InQueue' = InQueue
    /\ UNCHANGED job => Held' = Held
BY DEF Unpushed, InQueue, Held

LEMMA JobPlacesStep == ASSUME QueueTypeOK, PoolInv, JobPlaces, [Next]_vars PROVE JobPlaces'
<1> USE DEF PoolInv
<1>1. ASSUME NEW p \in Pushers, PushJob(p) PROVE JobPlaces'
  <2>1. PICK j \in toPush[p] : /\ Push(p, j) /\ toPush' = [toPush EXCEPT ![p] = @ \ {j}] /\ ~closed
    <3>1. PICK j \in toPush[p] : Push(p, j) /\ toPush' = [toPush EXCEPT ![p] = @ \ {j}]
      BY <1>1 DEF PushJob
    <3>2. j \in Unpushed
      BY DEF Unpushed, PoolTypeOK
    <3> QED BY <3>1, <3>2 DEF JobPlaces
  <2>2. /\ j \in Unpushed /\ Unpushed' = Unpushed \ {j} /\ InQueue' = InQueue \cup {j}
        /\ \A k, l \in DOMAIN items' : items'[k] = items'[l] => k = l
        /\ \A q \in Pushers : toPush'[q] \subseteq JobsOf[q]
    BY <2>1, PushEffect DEF Push
  <2>3. ~closed' /\ UNCHANGED <<job, pc, over>> /\ Held' = Held
    BY <1>1, <2>1, SameJobs DEF PushJob, Push
  <2> QED BY <2>2, <2>3 DEF JobPlaces
<1>2. ASSUME NEW w \in Poppers, TakeJob(w) PROVE JobPlaces'
  <2>1. /\ Head(items) \in InQueue /\ InQueue' = InQueue \ {Head(items)}
        /\ \A k, l \in DOMAIN items' : items'[k] = items'[l] => k = l
    BY <1>2, PopEffect DEF TakeJob, PopItem
  <2>2. Unpushed' = Unpushed /\ UNCHANGED <<toPush, closed>> /\ pc[w] = "pop" /\ job[w] = NoJob /\ Head(items) \in Values
    BY <1>2, <2>1, SameJobs DEF TakeJob, PopItem, Step, JobPlaces, InQueue
  <2>3. CASE aborted
    <3>1. over' = over \cup {Head(items)} /\ job' = job /\ pc' = pc
      BY <1>2, <2>3 DEF TakeJob, Step, PoolTypeOK
    <3> QED BY <2>1, <2>2, <3>1, SameJobs DEF JobPlaces
  <2>4. CASE ~aborted
    <3>1. over' = over /\ job' = [job EXCEPT ![w] = Head(items)] /\ pc' = [pc EXCEPT ![w] = "acquire"]
      BY <1>2, <2>4 DEF TakeJob, Step
    <3>2. \A v \in Poppers : job'[v] = IF v = w THEN Head(items) ELSE job[v]
      BY <3>1 DEF PoolTypeOK
    <3>3. Held' = Held \cup {Head(items)}
      BY <2>2, <3>2, PoolAssumption DEF Held
    <3>4. \A v \in Poppers \ {w} : job[v] # Head(items)
      BY <2>1, <2>2 DEF JobPlaces, Held
    <3>5. \A u, v \in Poppers : job'[u] = job'[v] /\ job'[u] # NoJob => u = v
      BY <3>2, <3>4 DEF JobPlaces
    <3>6. \A v \in Poppers : pc'[v] \in {"pop", "left"} => job'[v] = NoJob
      BY <3>1, <3>2 DEF JobPlaces, PoolTypeOK
    <3> QED BY <2>1, <2>2, <3>1, <3>3, <3>5, <3>6 DEF JobPlaces
  <2> QED BY <2>3, <2>4
<1>3. ASSUME NEW w \in Poppers, RunJob(w) PROVE JobPlaces'
  <2>1. job[w] \in Values /\ over' = over \cup {job[w]} /\ job' = [job EXCEPT ![w] = NoJob] /\ pc' = [pc EXCEPT ![w] = "pop"]
    BY <1>3 DEF RunJob, Step, BusyHasJob
  <2>2. \A v \in Poppers : job'[v] = IF v = w THEN NoJob ELSE job[v]
    BY <2>1 DEF PoolTypeOK
  <2>3. \A v \in Poppers \ {w} : job[v] # job[w]
    BY <2>1, PoolAssumption DEF JobPlaces
  <2>4. Held' = Held \ {job[w]} /\ job[w] \in Held
    BY <2>1, <2>2, <2>3, PoolAssumption DEF Held
  <2>5. UNCHANGED <<toPush, items, closed>> /\ Unpushed' = Unpushed /\ InQueue' = InQueue
    BY <1>3, SameJobs DEF RunJob, queueVars
  <2>6. \A v \in Poppers : pc'[v] \in {"pop", "left"} => job'[v] = NoJob
    BY <2>1, <2>2 DEF JobPlaces, PoolTypeOK
  <2>7. \A u, v \in Poppers : job'[u] = job'[v] /\ job'[u] # NoJob => u = v
    BY <2>2 DEF JobPlaces
  <2> QED BY <2>1, <2>4, <2>5, <2>6, <2>7 DEF JobPlaces
<1>4. ASSUME NEW w \in Poppers, Leave(w) \/ TakeSlot(w) PROVE JobPlaces'
  <2>1. UNCHANGED <<toPush, items, job, over, closed>>
    BY <1>4 DEF Leave, TakeSlot, PopClosed, queueVars
  <2>2. \A v \in Poppers : pc'[v] \in {"pop", "left"} => pc[v] \in {"pop", "left"}
    BY <1>4 DEF Leave, TakeSlot, Step, PoolTypeOK
  <2> QED BY <2>1, <2>2, SameJobs DEF JobPlaces
<1>5. CASE CloseJobs
  <2>1. UNCHANGED <<toPush, items, job, over, pc>> /\ \A p \in Pushers : toPush[p] = {}
    BY <1>5 DEF CloseJobs, Close, poolVars
  <2>2. Unpushed = {}
    BY <2>1 DEF Unpushed
  <2> QED BY <2>1, <2>2, SameJobs DEF JobPlaces
<1>6. ASSUME UNCHANGED <<toPush, items, job, over, closed, pc>> PROVE JobPlaces'
  BY <1>6, SameJobs DEF JobPlaces
<1> QED
  BY <1>1, <1>2, <1>3, <1>4, <1>5, <1>6
  DEF Next, MainStep, PusherStep, WorkerStep, Signal, SignalPop, Broadcast, BroadcastPop, Resize, Abort,
      WaitForJob, PopWait, WaitForSlot, queueVars, vars, poolVars

LEMMA JobPlacesInit == Init => JobPlaces
<1> SUFFICES ASSUME Init PROVE JobPlaces
  OBVIOUS
<1>1. InQueue = {} /\ Held = {} /\ over = {} /\ DOMAIN items = {} /\ ~closed
  BY PoolAssumption DEF Init, QueueInit, InQueue, Held
<1>2. Unpushed = Values
  BY PoolAssumption DEF Init, Unpushed
<1> QED BY <1>1, <1>2 DEF Init, JobPlaces

\* What the refinement mapping says of each place, before and after a step.
StateIn(u, h, o) == [j \in Values |-> IF j \in o THEN "over" ELSE IF j \in h THEN "running" ELSE IF j \in u THEN "new" ELSE "queued"]

LEMMA StateOfPlaces ==
    /\ jobState = StateIn(Unpushed, Held, over)
    /\ jobState' = StateIn(Unpushed', Held', over')
BY DEF jobState, StateIn, Unpushed, Held

LEMMA RefineStep ==
    ASSUME QueueTypeOK, PoolInv, JobPlaces, JobPlaces', [Next]_vars
    PROVE  [Abstract!Next]_(Abstract!vars)
<1> USE DEF PoolInv
<1>1. ASSUME NEW p \in Pushers, PushJob(p) PROVE \E j \in Values : Abstract!HandIn(j)
  <2>1. PICK j \in toPush[p] : Push(p, j) /\ toPush' = [toPush EXCEPT ![p] = @ \ {j}]
    BY <1>1 DEF PushJob
  <2>2. j \in Unpushed /\ Unpushed' = Unpushed \ {j} /\ j \in Values
    BY <2>1, PushEffect DEF Push, Unpushed
  <2>3. UNCHANGED <<job, pc, over, closed>> /\ Held' = Held /\ ~closed
    BY <1>1, <2>1, <2>2, SameJobs DEF PushJob, Push, JobPlaces
  <2>4. jobState[j] = "new" /\ jobState' = [jobState EXCEPT ![j] = "queued"]
    BY <2>2, <2>3, StateOfPlaces DEF StateIn, JobPlaces
  <2> QED BY <2>2, <2>3, <2>4 DEF Abstract!HandIn, Abstract!Move
<1>2. ASSUME NEW w \in Poppers, TakeJob(w) PROVE \E j \in Values : Abstract!Take(j) \/ Abstract!Drop(j)
  <2> DEFINE j == Head(items)
  <2>1. j \in InQueue /\ j \in Values
    BY <1>2, PopEffect DEF TakeJob, PopItem, InQueue
  <2>2. Unpushed' = Unpushed /\ UNCHANGED closed /\ pc[w] = "pop"
    BY <1>2, SameJobs DEF TakeJob, PopItem, Step
  <2>3. jobState[j] = "queued"
    BY <2>1, StateOfPlaces DEF StateIn, JobPlaces
  <2>4. CASE aborted
    <3>1. over' = over \cup {j} /\ Held' = Held /\ pc' = pc
      BY <1>2, <2>4, SameJobs DEF TakeJob, Step, PoolTypeOK
    <3>2. jobState' = [jobState EXCEPT ![j] = "over"]
      BY <2>1, <2>2, <3>1, StateOfPlaces DEF StateIn, JobPlaces
    <3> QED BY <2>1, <2>2, <2>3, <3>1, <3>2 DEF Abstract!Drop, Abstract!Move
  <2>5. CASE ~aborted
    <3>1. over' = over /\ job' = [job EXCEPT ![w] = j] /\ pc' = [pc EXCEPT ![w] = "acquire"] /\ job[w] = NoJob
      BY <1>2, <2>2, <2>5 DEF TakeJob, Step, JobPlaces
    <3>2. Held' = Held \cup {j}
      <4>1. \A v \in Poppers : job'[v] = IF v = w THEN j ELSE job[v]
        BY <3>1 DEF PoolTypeOK
      <4> HIDE DEF j
      <4> QED BY <2>1, <3>1, <4>1, PoolAssumption DEF Held
    <3>3. jobState' = [jobState EXCEPT ![j] = "running"]
      BY <2>1, <2>2, <3>1, <3>2, StateOfPlaces DEF StateIn, JobPlaces
    <3>4. {v \in Poppers : pc'[v] # "left"} = {v \in Poppers : pc[v] # "left"}
      BY <2>2, <3>1 DEF PoolTypeOK
    <3> HIDE DEF j
    <3> QED BY <2>1, <2>2, <2>3, <3>3, <3>4 DEF Abstract!Take, Abstract!Move
  <2> QED BY <2>4, <2>5
<1>3. ASSUME NEW w \in Poppers, RunJob(w) PROVE \E j \in Values : Abstract!Finish(j)
  <2> DEFINE j == job[w]
  <2>1. j \in Values /\ over' = over \cup {j} /\ job' = [job EXCEPT ![w] = NoJob] /\ pc[w] = "run" /\ pc' = [pc EXCEPT ![w] = "pop"]
        /\ UNCHANGED <<toPush, closed>>
    BY <1>3 DEF RunJob, Step, BusyHasJob, queueVars
  <2>2. j \in Held /\ Held' \subseteq Held /\ Held \subseteq Held' \cup {j}
    <3>1. \A v \in Poppers : job'[v] = IF v = w THEN NoJob ELSE job[v]
      BY <2>1 DEF PoolTypeOK
    <3> QED BY <2>1, <3>1, PoolAssumption DEF Held
  <2>3. jobState[j] = "running"
    BY <2>1, <2>2, StateOfPlaces DEF StateIn, JobPlaces
  <2>4. jobState' = [jobState EXCEPT ![j] = "over"]
    BY <2>1, <2>2, StateOfPlaces, SameJobs DEF StateIn, JobPlaces
  <2>5. {v \in Poppers : pc'[v] # "left"} = {v \in Poppers : pc[v] # "left"}
    BY <2>1 DEF PoolTypeOK
  <2> QED BY <2>1, <2>3, <2>4, <2>5 DEF Abstract!Finish, Abstract!Move
<1>4. ASSUME NEW w \in Poppers, Leave(w) PROVE Abstract!Leave(w)
  <2>1. items = <<>> /\ closed /\ pc[w] = "pop" /\ pc' = [pc EXCEPT ![w] = "left"] /\ UNCHANGED <<toPush, job, over, closed>>
    BY <1>4 DEF Leave, PopClosed, Step
  <2>2. InQueue = {} /\ jobState' = jobState
    BY <2>1 DEF InQueue, jobState
  <2>3. \A j \in Values : jobState[j] # "queued"
    BY <2>2, StateOfPlaces DEF StateIn, JobPlaces
  <2>4. {v \in Poppers : pc'[v] # "left"} = {v \in Poppers : pc[v] # "left"} \ {w}
    BY <2>1 DEF PoolTypeOK
  <2> QED BY <2>1, <2>2, <2>3, <2>4 DEF Abstract!Leave
<1>5. ASSUME CloseJobs PROVE Abstract!CloseQueue
  <2>1. ~closed /\ closed' = TRUE /\ UNCHANGED <<toPush, job, over, pc>>
    BY <1>5 DEF CloseJobs, Close, poolVars
  <2>2. jobState' = jobState
    BY <2>1 DEF jobState
  <2> QED BY <2>1, <2>2 DEF Abstract!CloseQueue
<1>6. ASSUME NEW w \in Poppers, TakeSlot(w) PROVE UNCHANGED Abstract!vars
  <2>1. pc[w] = "acquire" /\ pc' = [pc EXCEPT ![w] = "run"] /\ UNCHANGED <<toPush, job, over, closed>>
    BY <1>6 DEF TakeSlot, Step, queueVars
  <2>2. {v \in Poppers : pc'[v] # "left"} = {v \in Poppers : pc[v] # "left"}
    BY <2>1 DEF PoolTypeOK
  <2> QED BY <2>1, <2>2 DEF Abstract!vars, jobState
<1>7. ASSUME UNCHANGED <<toPush, job, over, closed, pc>> PROVE UNCHANGED Abstract!vars
  BY <1>7 DEF Abstract!vars, jobState
<1> QED
  BY <1>1, <1>2, <1>3, <1>4, <1>5, <1>6, <1>7
  DEF Next, MainStep, PusherStep, WorkerStep, Signal, SignalPop, Broadcast, BroadcastPop, Resize, Abort, Abstract!Next,
      WaitForJob, PopWait, WaitForSlot, queueVars, vars, poolVars

\* The pool implements Jobs but for its fairness: a job that is handed in is
\* taken once, by one worker, and run or dropped, and workers leave a closed
\* queue only when nothing is left in it.
THEOREM PoolImplementsJobs == Spec => Abstract!Init /\ [][Abstract!Next]_(Abstract!vars)
<1>1. Init => Abstract!Init
  <2> SUFFICES ASSUME Init PROVE Abstract!Init
    OBVIOUS
  <2>1. over = {} /\ Held = {} /\ Unpushed = Values
    BY PoolAssumption DEF Init, Held, Unpushed
  <2>2. jobState = [j \in Values |-> "new"]
    BY <2>1, StateOfPlaces DEF StateIn
  <2> QED BY <2>2 DEF Init, QueueInit, Abstract!Init
<1>2. QueueTypeOK /\ PoolInv /\ JobPlaces /\ [Next]_vars => JobPlaces' /\ [Abstract!Next]_(Abstract!vars)
  BY JobPlacesStep, RefineStep
<1> QED BY <1>1, <1>2, JobPlacesInit, PoolInvariant, PTL DEF Spec

=============================================================================
