-------------------------------- MODULE Jobs --------------------------------
(***************************************************************************)
(* What a queue and its workers promise to the rest of the engine: a job   *)
(* that is handed in is taken once, by one worker, and run or (after an    *)
(* abort) dropped; the workers leave when the queue is closed and only     *)
(* after the last job.  DirMeta and Transfer build on this promise.        *)
(***************************************************************************)
CONSTANTS JobSet, Workers

VARIABLES jobState,   \* "new", "queued", "running" or "over"
          open,       \* jobs may still be handed in
          present     \* the workers that have not left

vars == <<jobState, open, present>>

Init ==
    /\ jobState = [j \in JobSet |-> "new"]
    /\ open = TRUE
    /\ present = Workers

Move(j, from, to) == jobState[j] = from /\ jobState' = [jobState EXCEPT ![j] = to]

HandIn(j) == open /\ Move(j, "new", "queued") /\ UNCHANGED <<open, present>>
Take(j) == present # {} /\ Move(j, "queued", "running") /\ UNCHANGED <<open, present>>
Drop(j) == present # {} /\ Move(j, "queued", "over") /\ UNCHANGED <<open, present>>
Finish(j) == Move(j, "running", "over") /\ UNCHANGED <<open, present>>
CloseQueue == open /\ open' = FALSE /\ UNCHANGED <<jobState, present>>

Leave(w) ==
    /\ ~open /\ w \in present
    /\ \A j \in JobSet : jobState[j] # "queued"
    /\ present' = present \ {w}
    /\ UNCHANGED <<jobState, open>>

Next ==
    \/ \E j \in JobSet : HandIn(j) \/ Take(j) \/ Drop(j) \/ Finish(j)
    \/ CloseQueue
    \/ \E w \in Workers : Leave(w)

\* Every job that was handed in is finished; the workers of a closed queue leave.
Spec ==
    /\ Init /\ [][Next]_vars
    /\ \A j \in JobSet : WF_vars(Take(j) \/ Drop(j)) /\ WF_vars(Finish(j))
    /\ \A w \in Workers : WF_vars(Leave(w))
=============================================================================
