------------------------------ MODULE WorkPool ------------------------------
(***************************************************************************)
(* The engine's worker pool (internal/engine): goroutines that share a     *)
(* Queue, run each job under a Gate whose limit the controller changes,    *)
(* and leave when the queue is closed.  The pushers are the walk for the   *)
(* copy jobs, and the walk and the copy workers for metaJobs; Run closes   *)
(* the queue when they are through.                                        *)
(***************************************************************************)
EXTENDS Queue, Gate

CONSTANTS JobsOf,     \* JobsOf[p]: the jobs pusher p hands in
          Limits      \* the limits the controller tries

VARIABLES
    toPush,           \* toPush[p]: jobs p has not pushed yet
    pc, job,          \* each worker's step and its job
    over,             \* jobs that were run or dropped
    aborted

poolVars == <<toPush, pc, job, over, aborted>>
vars == <<queueVars, gateVars, poolVars>>

NoJob == "none"

ASSUME PoolAssumption ==
    /\ Holders = Poppers /\ Limits \subseteq Int
    /\ Values = UNION {JobsOf[p] : p \in Pushers} /\ NoJob \notin Values
    /\ \A p, q \in Pushers : p # q => JobsOf[p] \cap JobsOf[q] = {}

Init ==
    /\ QueueInit /\ GateInit
    /\ toPush = [p \in Pushers |-> JobsOf[p]]
    /\ pc = [w \in Poppers |-> "pop"] /\ job = [w \in Poppers |-> NoJob]
    /\ over = {} /\ aborted = FALSE

Step(w, from, to) == pc[w] = from /\ pc' = [pc EXCEPT ![w] = to]

PushJob(p) ==
    /\ \E j \in toPush[p] : Push(p, j) /\ toPush' = [toPush EXCEPT ![p] = @ \ {j}]
    /\ UNCHANGED <<gateVars, pc, job, over, aborted>>

Signal(p) == SignalPop(p) /\ UNCHANGED <<gateVars, poolVars>>

CloseJobs ==
    /\ \A p \in Pushers : toPush[p] = {} /\ p \notin signalling
    /\ Close
    /\ UNCHANGED <<gateVars, poolVars>>

Broadcast == BroadcastPop /\ UNCHANGED <<gateVars, poolVars>>

\* worker: pop waits, returns a job, or tells that the queue is closed.
WaitForJob(w) == pc[w] = "pop" /\ PopWait(w) /\ UNCHANGED <<gateVars, poolVars>>

TakeJob(w) ==
    /\ PopItem(w)
    /\ IF aborted
       THEN Step(w, "pop", "pop") /\ over' = over \cup {Head(items)} /\ UNCHANGED job
       ELSE Step(w, "pop", "acquire") /\ job' = [job EXCEPT ![w] = Head(items)] /\ UNCHANGED over
    /\ UNCHANGED <<gateVars, toPush, aborted>>

\* Mutant: a worker leaves when it finds the queue closed, items or not.
LeaveEarly(w) ==
    /\ Step(w, "pop", "left") /\ w \notin popWaiting
    /\ closed
    /\ popWoken' = popWoken \ {w}
    /\ UNCHANGED <<items, closed, signalling, broadcasting, popWaiting, gateVars, toPush, job, over, aborted>>

Leave(w) == Step(w, "pop", "left") /\ PopClosed(w) /\ UNCHANGED <<gateVars, toPush, job, over, aborted>>

\* gate.acquire, copyOne, gate.release.
WaitForSlot(w) == pc[w] = "acquire" /\ AcquireWait(w) /\ UNCHANGED <<queueVars, poolVars>>
TakeSlot(w) == Step(w, "acquire", "run") /\ Acquire(w) /\ UNCHANGED <<queueVars, toPush, job, over, aborted>>

\* Mutant: an aborted copy returns without the release.
RunJobLeaks(w) ==
    /\ Step(w, "run", "pop")
    /\ IF aborted THEN UNCHANGED gateVars ELSE Release
    /\ over' = over \cup {job[w]} /\ job' = [job EXCEPT ![w] = NoJob]
    /\ UNCHANGED <<queueVars, toPush, aborted>>

RunJob(w) ==
    /\ Step(w, "run", "pop") /\ Release
    /\ over' = over \cup {job[w]} /\ job' = [job EXCEPT ![w] = NoJob]
    /\ UNCHANGED <<queueVars, toPush, aborted>>

Resize == (\E n \in Limits : SetLimit(n)) /\ UNCHANGED <<queueVars, poolVars>>

Abort == ~aborted /\ aborted' = TRUE /\ UNCHANGED <<queueVars, gateVars, toPush, pc, job, over>>

PusherStep(p) == PushJob(p) \/ Signal(p)
MainStep == CloseJobs \/ Broadcast
WorkerStep(w) == WaitForJob(w) \/ TakeJob(w) \/ Leave(w) \/ WaitForSlot(w) \/ TakeSlot(w) \/ RunJob(w)

Next == \/ MainStep \/ Resize \/ Abort
        \/ \E p \in Pushers : PusherStep(p)
        \/ \E w \in Poppers : WorkerStep(w)

Spec == /\ Init /\ [][Next]_vars
        /\ WF_vars(MainStep)
        /\ \A p \in Pushers : WF_vars(PusherStep(p))
        /\ \A w \in Poppers : WF_vars(WorkerStep(w))

-----------------------------------------------------------------------------
PoolTypeOK ==
    /\ toPush \in [Pushers -> SUBSET Values] /\ over \subseteq Values
    /\ pc \in [Poppers -> {"pop", "acquire", "run", "left"}]
    /\ job \in [Poppers -> Values \cup {NoJob}]

TypeOK == QueueTypeOK /\ GateTypeOK /\ PoolTypeOK

Running == {w \in Poppers : pc[w] = "run"}

\* The gate's count is the number of workers between acquire and release, on
\* every path through a job.
SlotsCounted == inUse = Cardinality(Running)

\* The pool implements Jobs: no job is lost, run twice or left behind, and the
\* workers leave, however the signals, the limit and an abort interleave.
jobState == [j \in Values |->
                IF j \in over THEN "over"
                ELSE IF \E w \in Poppers : job[w] = j THEN "running"
                ELSE IF \E p \in Pushers : j \in toPush[p] THEN "new" ELSE "queued"]
Abstract == INSTANCE Jobs WITH
    JobSet <- Values, Workers <- Poppers, open <- ~closed,
    present <- {w \in Poppers : pc[w] # "left"}
JobsSpec == Abstract!Spec
=============================================================================
