------------------------------ MODULE Prefetch ------------------------------
(***************************************************************************)
(* The directory listings of the walk (internal/engine/walk.go).  The walk *)
(* is a depth-first descent of the source trees; while it is in a directory*)
(* it has the listings of the next Ahead siblings made by a pool of        *)
(* goroutines, and takes each when it gets there.                          *)
(*                                                                         *)
(* Entries are the directories the walk descends into: files take no part. *)
(* A listing is a token, "wanted" until the goroutine closes its channel   *)
(* and "ready" from then on.  Every critical section of listingPrefetcher  *)
(* is one action; schedule signals under its mutex (see Queue for          *)
(* sync.Cond).                                                             *)
(***************************************************************************)
EXTENDS Naturals, Sequences, FiniteSets

CONSTANTS Dirs,      \* the directories, by display path: the keys of results
          Kids,      \* Kids[d]: the subdirectories of d, in the order listed
          Roots,     \* the source arguments; one may be given twice
          Listers,   \* the goroutines of the pool
          None

ASSUME PrefetchAssumption ==
    /\ IsFiniteSet(Listers) /\ None \notin Dirs
    /\ Kids \in [Dirs -> Seq(Dirs)] /\ Roots \in Seq(Dirs)

VARIABLES
    rest,         \* the roots still to be walked
    frames,       \* visitDir's call stack: [dir, next, sched]
    visiting,     \* the directory being entered, or None
    pc,           \* the walk's step
    stack,        \* the tasks no goroutine has taken
    results,      \* results[d]: "wanted" or "ready", for the scheduled d
    closed,
    task,         \* task[l]: the directory l is listing, or None
    waiting, woken,      \* the notify list, and who was woken
    left,         \* the goroutines that returned
    unmade,       \* directories whose destination could not be made
    aborted, cancelled

walkVars == <<rest, frames, visiting, pc, unmade>>
listVars == <<stack, results, closed, task, waiting, woken, left>>
vars == <<walkVars, listVars, aborted, cancelled>>

Ahead == Cardinality(Listers)        \* listingPrefetchWorkers
Halted == aborted \/ cancelled

Init ==
    /\ rest = Roots /\ frames = <<>> /\ visiting = None /\ pc = "roots"
    /\ stack = <<>> /\ results = [d \in {} |-> "wanted"] /\ closed = FALSE
    /\ task = [l \in Listers |-> None]
    /\ waiting = {} /\ woken = {} /\ left = {} /\ unmade = {}
    /\ aborted = FALSE /\ cancelled = FALSE

-----------------------------------------------------------------------------
(* The walk.                                                                *)

Without(d) == [k \in DOMAIN results \ {d} |-> results[k]]

\* visitDir has its listing: the loop over the entries begins.
Enter(d) ==
    /\ frames' = Append(frames, [dir |-> d, next |-> 1, sched |-> 0])
    /\ visiting' = None /\ pc' = "loop"

\* visitDir returns early.
Skip ==
    /\ visiting' = None /\ pc' = IF frames = <<>> THEN "roots" ELSE "loop"
    /\ UNCHANGED frames

OpenRoot ==
    /\ pc = "roots" /\ rest # <<>> /\ ~Halted
    /\ visiting' = Head(rest) /\ rest' = Tail(rest) /\ pc' = "enter"
    /\ UNCHANGED <<frames, unmade, listVars, aborted, cancelled>>

EndWalk ==
    /\ pc = "roots" /\ (rest = <<>> \/ Halted)
    /\ pc' = "close"
    /\ UNCHANGED <<rest, frames, visiting, unmade, listVars, aborted, cancelled>>

MakeDir ==
    /\ pc = "enter"
    /\ \/ pc' = "take" /\ UNCHANGED <<frames, visiting, unmade>>
       \/ Skip /\ unmade' = unmade \cup {visiting}
    /\ UNCHANGED <<rest, listVars, aborted, cancelled>>

\* Mutant: take removes the result before it waits for it.
TakeDeletes ==
    /\ pc = "take"
    /\ pc' = IF visiting \in DOMAIN results THEN "await" ELSE "list"
    /\ results' = Without(visiting)
    /\ UNCHANGED <<rest, frames, visiting, unmade, stack, closed, task, waiting, woken, left, aborted, cancelled>>

\* take looks its key up: a listing that was not scheduled is made inline.
Take ==
    /\ pc = "take"
    /\ pc' = IF visiting \in DOMAIN results THEN "await" ELSE "list"
    /\ UNCHANGED <<rest, frames, visiting, unmade, listVars, aborted, cancelled>>

\* Mutant: take leaves the result in the map.
TakeReadyKeeps ==
    /\ pc = "await" /\ results[visiting] = "ready"
    /\ Enter(visiting) \/ Skip
    /\ UNCHANGED <<rest, unmade, listVars, aborted, cancelled>>

\* The channel is closed: the listing, or its error.
TakeReady ==
    /\ pc = "await" /\ results[visiting] = "ready"
    /\ results' = Without(visiting)
    /\ Enter(visiting) \/ Skip
    /\ UNCHANGED <<rest, unmade, stack, closed, task, waiting, woken, left, aborted, cancelled>>

\* The run's context is cancelled first; an abort does not end the wait.
TakeCancelled ==
    /\ pc = "await" /\ cancelled
    /\ pc' = "list"
    /\ UNCHANGED <<rest, frames, visiting, unmade, listVars, aborted, cancelled>>

ListInline ==
    /\ pc = "list"
    /\ Skip \/ (~Halted /\ Enter(visiting))
    /\ UNCHANGED <<rest, unmade, listVars, aborted, cancelled>>

-----------------------------------------------------------------------------
(* The loop over the entries of a directory.                                *)

Top == frames[Len(frames)]
TopKids == Kids[Top.dir]
SetTop(f) == frames' = [frames EXCEPT ![Len(frames)] = f]

\* The Ahead first entries are scheduled at once, then one with every visit.
ToSchedule == Top.sched < Len(TopKids) /\ Top.sched < Ahead + Top.next

Signal ==
    \/ waiting = {} /\ UNCHANGED <<waiting, woken>>
    \/ \E l \in waiting : waiting' = waiting \ {l} /\ woken' = woken \cup {l}

\* Mutant: schedule does not look for an earlier result.
ScheduleAgain(d) ==
    /\ results' = [k \in DOMAIN results \cup {d} |-> IF k = d THEN "wanted" ELSE results[k]]
    /\ stack' = Append(stack, d)
    /\ Signal

\* schedule does nothing once the run is closing, or where a result exists.
Schedule(d) ==
    \/ (closed \/ d \in DOMAIN results) /\ UNCHANGED <<results, stack, waiting, woken>>
    \/ /\ ~closed /\ d \notin DOMAIN results
       /\ results' = [k \in DOMAIN results \cup {d} |-> IF k = d THEN "wanted" ELSE results[k]]
       /\ stack' = Append(stack, d)
       /\ Signal

PrefetchNext ==
    /\ pc = "loop" /\ ~Halted /\ ToSchedule
    /\ Schedule(TopKids[Top.sched + 1])
    /\ SetTop([Top EXCEPT !.sched = @ + 1])
    /\ UNCHANGED <<rest, visiting, pc, unmade, closed, task, left, aborted, cancelled>>

VisitNext ==
    /\ pc = "loop" /\ ~Halted /\ ~ToSchedule /\ Top.next <= Len(TopKids)
    /\ visiting' = TopKids[Top.next] /\ pc' = "enter"
    /\ SetTop([Top EXCEPT !.next = @ + 1])
    /\ UNCHANGED <<rest, unmade, listVars, aborted, cancelled>>

LeaveDir ==
    /\ pc = "loop" /\ (Halted \/ Top.next > Len(TopKids))
    /\ frames' = SubSeq(frames, 1, Len(frames) - 1)
    /\ pc' = IF Len(frames) = 1 THEN "roots" ELSE "loop"
    /\ UNCHANGED <<rest, visiting, unmade, listVars, aborted, cancelled>>

-----------------------------------------------------------------------------
(* close, which the walk's goroutine calls once the walk is over.           *)

StopListing ==
    /\ pc = "close" /\ pc' = "broadcast"
    /\ closed' = TRUE /\ stack' = <<>>
    /\ UNCHANGED <<rest, frames, visiting, unmade, results, task, waiting, woken, left, aborted, cancelled>>

\* Mutant: close wakes one goroutine.
WakeOne ==
    /\ pc = "broadcast" /\ pc' = "join"
    /\ Signal
    /\ UNCHANGED <<rest, frames, visiting, unmade, stack, results, closed, task, left, aborted, cancelled>>

WakeAll ==
    /\ pc = "broadcast" /\ pc' = "join"
    /\ waiting' = {} /\ woken' = woken \cup waiting
    /\ UNCHANGED <<rest, frames, visiting, unmade, stack, results, closed, task, left, aborted, cancelled>>

JoinListers ==
    /\ pc = "join" /\ left = Listers
    /\ pc' = "done" /\ results' = [d \in {} |-> "wanted"]
    /\ UNCHANGED <<rest, frames, visiting, unmade, stack, closed, task, waiting, woken, left, aborted, cancelled>>

-----------------------------------------------------------------------------
(* The goroutines that list.                                                *)

Free(l) == task[l] = None /\ l \notin waiting \cup left

WaitForTask(l) ==
    /\ Free(l) /\ stack = <<>> /\ ~closed
    /\ waiting' = waiting \cup {l} /\ woken' = woken \ {l}
    /\ UNCHANGED <<walkVars, stack, results, closed, task, left, aborted, cancelled>>

PopTask(l) ==
    /\ Free(l) /\ stack # <<>>
    /\ task' = [task EXCEPT ![l] = stack[Len(stack)]]
    /\ stack' = SubSeq(stack, 1, Len(stack) - 1)
    /\ woken' = woken \ {l}
    /\ UNCHANGED <<walkVars, results, closed, waiting, left, aborted, cancelled>>

Return(l) ==
    /\ Free(l) /\ stack = <<>> /\ closed
    /\ left' = left \cup {l} /\ woken' = woken \ {l}
    /\ UNCHANGED <<walkVars, stack, results, closed, task, waiting, aborted, cancelled>>

\* Mutant: a listing is dropped once the run has aborted.
FinishListingAborted(l) ==
    /\ task[l] # None /\ task' = [task EXCEPT ![l] = None]
    /\ results' = [d \in DOMAIN results |-> IF d = task[l] /\ ~aborted THEN "ready" ELSE results[d]]
    /\ UNCHANGED <<walkVars, stack, closed, waiting, woken, left, aborted, cancelled>>

\* ReadDir returns; the result, if it is still in the map, gets it.
FinishListing(l) ==
    /\ task[l] # None /\ task' = [task EXCEPT ![l] = None]
    /\ results' = [d \in DOMAIN results |-> IF d = task[l] THEN "ready" ELSE results[d]]
    /\ UNCHANGED <<walkVars, stack, closed, waiting, woken, left, aborted, cancelled>>

-----------------------------------------------------------------------------
Interrupt == ~cancelled /\ cancelled' = TRUE /\ UNCHANGED <<walkVars, listVars, aborted>>
Abort == ~aborted /\ aborted' = TRUE /\ UNCHANGED <<walkVars, listVars, cancelled>>
Finished == pc = "done" /\ UNCHANGED vars

WalkStep == OpenRoot \/ EndWalk \/ MakeDir \/ Take \/ TakeReady \/ TakeCancelled \/ ListInline
            \/ PrefetchNext \/ VisitNext \/ LeaveDir \/ StopListing \/ WakeAll \/ JoinListers
ListerStep(l) == WaitForTask(l) \/ PopTask(l) \/ Return(l) \/ FinishListing(l)

Next == WalkStep \/ Interrupt \/ Abort \/ Finished \/ \E l \in Listers : ListerStep(l)

Spec == Init /\ [][Next]_vars /\ WF_vars(WalkStep) /\ \A l \in Listers : WF_vars(ListerStep(l))

-----------------------------------------------------------------------------
\* The walk only waits for a listing that is in the map.
TypeOK ==
    /\ rest \in Seq(Dirs) /\ visiting \in Dirs \cup {None} /\ unmade \subseteq Dirs
    /\ pc \in {"roots", "enter", "take", "await", "list", "loop", "close", "broadcast", "join", "done"}
    /\ pc \in {"enter", "take", "await", "list"} <=> visiting # None
    /\ pc = "await" => visiting \in DOMAIN results
    /\ stack \in Seq(Dirs) /\ task \in [Listers -> Dirs \cup {None}]
    /\ DOMAIN results \subseteq Dirs /\ \A d \in DOMAIN results : results[d] \in {"wanted", "ready"}
    /\ waiting \subseteq Listers /\ woken \subseteq Listers /\ left \subseteq Listers
    /\ waiting \cap (woken \cup left) = {}
    /\ closed \in BOOLEAN /\ aborted \in BOOLEAN /\ cancelled \in BOOLEAN

Queued(d) == {i \in 1..Len(stack) : stack[i] = d}
Listing(d) == {l \in Listers : task[l] = d}

\* Each result has one task for as long as it is wanted, and none once it is
\* ready: no channel is closed twice (which would panic), and none that the
\* walk may wait on is never closed, also when a directory is scheduled again
\* because its root was given twice.  close drops tasks, never adds any.
OneTaskPerResult ==
    \A d \in Dirs :
        LET tasks == Cardinality(Queued(d)) + Cardinality(Listing(d)) IN
        IF d \in DOMAIN results /\ results[d] = "wanted"
        THEN tasks = 1 \/ (closed /\ tasks = 0)
        ELSE tasks = 0

\* No wake-up is lost: while a goroutine sleeps, each queued task has a woken
\* goroutine on its way, and after close the broadcast is still to come.
NoTaskLost ==
    waiting # {} => Len(stack) <= Cardinality(woken) /\ (closed => pc = "broadcast")

\* A result stays in the map only for a directory the walk is still to visit,
\* or has failed to make at the destination.
StillToVisit == UNION {{Kids[frames[i].dir][k] : k \in frames[i].next..Len(Kids[frames[i].dir])} : i \in 1..Len(frames)}
NothingLeftBehind ==
    Halted \/ DOMAIN results \subseteq StillToVisit \cup {visiting} \cup unmade

\* The walk gets every listing it waits for, and close returns, also when the
\* run is interrupted or aborted while listings are in flight.
WalkEnds == <>(pc = "done")
=============================================================================
