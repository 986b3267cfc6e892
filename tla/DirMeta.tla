------------------------------ MODULE DirMeta ------------------------------
(***************************************************************************)
(* The directory-metadata protocol of one copy run (internal/engine).      *)
(*                                                                         *)
(* Copying a file into a directory changes the directory's own mtime, so   *)
(* the engine applies a directory's metadata only when nothing will be     *)
(* written into it any more.  Three kinds of goroutine decide when that is:*)
(*   - the walk (Main), which descends the source trees, queues one job    *)
(*     per regular file, defers secondary hardlinks, and closes a          *)
(*     directory when it leaves it; Main later creates the hardlinks;      *)
(*   - the copy workers, which run the jobs;                               *)
(*   - the metadata workers, which apply what is queued on metaJobs.       *)
(* A directory's dirState has three atomics: pending counts the jobs and   *)
(* hardlinks that will still write into it, closed says that the walk left *)
(* it, queued elects the goroutine that pushes it on metaJobs.  Each atomic*)
(* operation is a step of its own here.                                    *)
(*                                                                         *)
(* The model covers a real run with metadata preservation (without it or   *)
(* on a dry run newDirState returns nil and none of this happens).  A      *)
(* queue is a set: its order does not matter here (see Queue).             *)
(***************************************************************************)
EXTENDS Integers, FiniteSets

CONSTANTS
    Dirs,         \* directories of the source trees
    Files,        \* regular files the walk queues as copy jobs
    Links,        \* later paths of a multiply-linked inode
    Others,       \* entries the walk finishes itself: symlinks, special files,
                  \* first paths of an inode whose destination is up to date
    Top,          \* the target directory; it has no dirState (parent == nil)
    ParentOf,     \* ParentOf[e]: the directory that holds entry e
    Anc,          \* Anc[d]: d and the directories above it, Top excluded
    Workers, MetaWorkers, Main,
    None,
    FatalErrors   \* --fatal-errors: the first failure aborts the run

Entries == Dirs \cup Files \cup Links \cup Others
Deferred == Files \cup Links        \* what addDirWork counts
Procs == {Main} \cup Workers        \* the goroutines that call dirmeta.go

ASSUME EntryAssumption ==
    /\ IsFiniteSet(Deferred)
    /\ Dirs \cap Files = {} /\ Dirs \cap Links = {} /\ Dirs \cap Others = {}
    /\ Files \cap Links = {} /\ Others \cap Deferred = {}
    /\ Top \notin Entries /\ None \notin Entries \cup {Top}

ASSUME TreeAssumption ==
    /\ ParentOf \in [Entries -> Dirs \cup {Top}]
    /\ Anc \in [Dirs \cup {Top} -> SUBSET Dirs]
    /\ Anc[Top] = {}
    /\ \A d \in Dirs : Anc[d] = {d} \cup Anc[ParentOf[d]] /\ d \notin Anc[ParentOf[d]]

ASSUME ProcAssumption == Main \notin Workers /\ FatalErrors \in BOOLEAN

VARIABLES
    phase,        \* stage of Run: "walk", "drain", "links", "meta" or "done"
    cur,          \* the directory the walk is in; its stack is Anc[cur]
    left,         \* left[d]: the entries of d the walk has not picked yet
    pc, held,     \* control and current entry of Main and of each copy worker
    jobs,         \* the job queue
    hardlinks,    \* deferred secondary hardlinks
    recorded,     \* directories with a dirState (dirMetaTotal counts them)
    pending, closed, queued,    \* the three atomics of each dirState
    metaq, mheld, \* the metaJobs queue, and what each metadata worker popped
    applied,      \* directories whose metadata has been applied (dirMetaDone)
    drifted,      \* directories written into after their metadata was applied
    ran,          \* jobs and links on which the copy or the link was tried
    aborted,      \* r.aborted # nil
    cancelled     \* the run's context is cancelled (first Ctrl-C)

mainVars == <<phase, cur, left>>
stateVars == <<recorded, pending, closed, queued>>
metaVars == <<metaq, mheld, applied>>
vars == <<phase, cur, left, pc, held, jobs, hardlinks, recorded, pending, closed, queued,
          metaq, mheld, applied, drifted, ran, aborted, cancelled>>

PCs == {"idle", "loop", "visit", "list", "enqueue", "copy", "dec",
        "store", "chkPending", "chkClosed", "cas", "push"}

Init ==
    /\ phase = "walk" /\ cur = Top
    /\ left = [d \in Dirs \cup {Top} |-> {e \in Entries : ParentOf[e] = d}]
    /\ pc = [p \in Procs |-> IF p = Main THEN "loop" ELSE "idle"]
    /\ held = [p \in Procs |-> None]
    /\ jobs = {} /\ hardlinks = {} /\ recorded = {}
    /\ pending = [d \in Dirs |-> 0]
    /\ closed = [d \in Dirs |-> FALSE] /\ queued = [d \in Dirs |-> FALSE]
    /\ metaq = {} /\ mheld = [m \in MetaWorkers |-> None]
    /\ applied = {} /\ drifted = {} /\ ran = {}
    /\ aborted = FALSE /\ cancelled = FALSE

-----------------------------------------------------------------------------
Halted == aborted \/ cancelled

Goto(p, l) == pc' = [pc EXCEPT ![p] = l]
Drop(p) == held' = [held EXCEPT ![p] = None]

\* A write into the directories of S shows only after their metadata is applied.
Touch(S) == drifted' = drifted \cup (S \cap applied)

\* fail: an ENOSPC error aborts the run, any other error only under --fatal-errors.
Fail == aborted' \in (IF FatalErrors THEN {TRUE} ELSE {aborted, TRUE})

\* An operation that can go well or fail.
MayFail == UNCHANGED aborted \/ Fail

AddDirWork(d) ==
    pending' = IF d = Top THEN pending ELSE [pending EXCEPT ![d] = @ + 1]

-----------------------------------------------------------------------------
(* completeDirWork, closeDir and queueDirMeta, run by p on directory        *)
(* DirOf(p).                                                                *)

DirOf(p) == IF p = Main /\ phase = "walk" THEN cur ELSE ParentOf[held[p]]

\* p returns from dirmeta.go: a worker to its loop, the walk to the parent
\* directory's loop, the hardlink pass to its loop.
Return(p) ==
    /\ Goto(p, IF p \in Workers THEN "idle" ELSE "loop")
    /\ Drop(p)
    /\ cur' = IF p = Main /\ phase = "walk" THEN ParentOf[cur] ELSE cur
    /\ UNCHANGED <<phase, left>>

\* pending.Add(-1), and the test of its result.
DecPending(p) ==
    /\ pc[p] = "dec"
    /\ \/ /\ DirOf(p) = Top
          /\ Return(p) /\ UNCHANGED pending
       \/ /\ DirOf(p) # Top
          /\ pending' = [pending EXCEPT ![DirOf(p)] = @ - 1]
          /\ IF pending'[DirOf(p)] = 0
             THEN Goto(p, "chkClosed") /\ UNCHANGED <<held, mainVars>>
             ELSE Return(p)
    /\ UNCHANGED <<jobs, hardlinks, recorded, closed, queued, metaVars, drifted, ran, aborted, cancelled>>

\* Mutant: completeDirWork queues the directory without reading closed.
CheckClosedNever(p) ==
    /\ pc[p] = "chkClosed"
    /\ Goto(p, "cas")
    /\ UNCHANGED <<held, mainVars, jobs, hardlinks, stateVars, metaVars, drifted, ran, aborted, cancelled>>

\* closed.Load(), after pending.Add(-1) returned zero.
CheckClosed(p) ==
    /\ pc[p] = "chkClosed"
    /\ IF closed[DirOf(p)]
       THEN Goto(p, "cas") /\ UNCHANGED <<held, mainVars>>
       ELSE Return(p)
    /\ UNCHANGED <<jobs, hardlinks, stateVars, metaVars, drifted, ran, aborted, cancelled>>

\* closeDir's closed.Store(true).
StoreClosed ==
    /\ pc[Main] = "store"
    /\ closed' = [closed EXCEPT ![cur] = TRUE]
    /\ Goto(Main, "chkPending")
    /\ UNCHANGED <<mainVars, held, jobs, hardlinks, recorded, pending, queued, metaVars, drifted, ran, aborted, cancelled>>

\* Mutant: closeDir leaves the queueing to completeDirWork.
CheckPendingNever ==
    /\ pc[Main] = "chkPending"
    /\ Return(Main)
    /\ UNCHANGED <<jobs, hardlinks, stateVars, metaVars, drifted, ran, aborted, cancelled>>

\* closeDir's pending.Load().
CheckPending ==
    /\ pc[Main] = "chkPending"
    /\ IF pending[cur] = 0
       THEN Goto(Main, "cas") /\ UNCHANGED <<held, mainVars>>
       ELSE Return(Main)
    /\ UNCHANGED <<jobs, hardlinks, stateVars, metaVars, drifted, ran, aborted, cancelled>>

\* Mutant: a Store in place of the CompareAndSwap.
SwapQueuedBlind(p) ==
    /\ pc[p] = "cas"
    /\ queued' = [queued EXCEPT ![DirOf(p)] = TRUE]
    /\ Goto(p, "push")
    /\ UNCHANGED <<held, mainVars, jobs, hardlinks, recorded, pending, closed, metaVars, drifted, ran, aborted, cancelled>>

\* queueDirMeta's CompareAndSwap.
SwapQueued(p) ==
    /\ pc[p] = "cas"
    /\ IF queued[DirOf(p)]
       THEN Return(p) /\ UNCHANGED queued
       ELSE /\ queued' = [queued EXCEPT ![DirOf(p)] = TRUE]
            /\ Goto(p, "push") /\ UNCHANGED <<held, mainVars>>
    /\ UNCHANGED <<jobs, hardlinks, recorded, pending, closed, metaVars, drifted, ran, aborted, cancelled>>

\* queueDirMeta's push.
PushMeta(p) ==
    /\ pc[p] = "push"
    /\ metaq' = metaq \cup {DirOf(p)}
    /\ Return(p)
    /\ UNCHANGED <<jobs, hardlinks, stateVars, mheld, applied, drifted, ran, aborted, cancelled>>

DirSteps(p) == DecPending(p) \/ CheckClosed(p) \/ SwapQueued(p) \/ PushMeta(p)

-----------------------------------------------------------------------------
(* The walk.                                                                *)

\* Picks the next entry of the current directory unless the run is halted.
PickEntry ==
    /\ phase = "walk" /\ pc[Main] = "loop" /\ ~Halted
    /\ \E e \in left[cur] :
          /\ left' = [left EXCEPT ![cur] = @ \ {e}]
          /\ held' = [held EXCEPT ![Main] = e]
    /\ Goto(Main, "visit")
    /\ UNCHANGED <<phase, cur, jobs, hardlinks, stateVars, metaVars, drifted, ran, aborted, cancelled>>

Visiting(S) == phase = "walk" /\ pc[Main] = "visit" /\ held[Main] \in S
ToLoop == Goto(Main, "loop") /\ Drop(Main)

\* A symlink recreated, a special file skipped, an up-to-date inode adopted.
VisitOther ==
    /\ Visiting(Others)
    /\ \E S \in SUBSET {cur} : Touch(S)
    /\ MayFail
    /\ ToLoop
    /\ UNCHANGED <<mainVars, jobs, hardlinks, stateVars, metaVars, ran, cancelled>>

\* Mutant: enqueueFile does not count the job.
CountFileNever ==
    /\ Visiting(Files)
    /\ Goto(Main, "enqueue")
    /\ UNCHANGED <<mainVars, held, jobs, hardlinks, stateVars, metaVars, drifted, ran, aborted, cancelled>>

\* enqueueFile, first half: the job is counted before workers can see it.
CountFile ==
    /\ Visiting(Files)
    /\ AddDirWork(cur)
    /\ Goto(Main, "enqueue")
    /\ UNCHANGED <<mainVars, held, jobs, hardlinks, recorded, closed, queued, metaVars, drifted, ran, aborted, cancelled>>

\* enqueueFile, second half.
PushJob ==
    /\ pc[Main] = "enqueue"
    /\ jobs' = jobs \cup {held[Main]}
    /\ ToLoop
    /\ UNCHANGED <<mainVars, hardlinks, stateVars, metaVars, drifted, ran, aborted, cancelled>>

\* Mutant: a later path is copied like a file.
VisitLinkAsJob ==
    /\ Visiting(Links)
    /\ AddDirWork(cur) /\ jobs' = jobs \cup {held[Main]}
    /\ ToLoop
    /\ UNCHANGED <<mainVars, hardlinks, recorded, closed, queued, metaVars, drifted, ran, aborted, cancelled>>

\* Mutant: a deferred hardlink is not counted.
VisitLinkUncounted ==
    /\ Visiting(Links)
    /\ hardlinks' = hardlinks \cup {held[Main]}
    /\ ToLoop
    /\ UNCHANGED <<mainVars, jobs, stateVars, metaVars, drifted, ran, aborted, cancelled>>

\* A later path of an inode: already the adopted destination, or deferred.
VisitLink ==
    /\ Visiting(Links)
    /\ \/ UNCHANGED <<pending, hardlinks>>
       \/ AddDirWork(cur) /\ hardlinks' = hardlinks \cup {held[Main]}
    /\ ToLoop
    /\ UNCHANGED <<mainVars, jobs, recorded, closed, queued, metaVars, drifted, ran, aborted, cancelled>>

\* visitDir's MkdirAll, which writes into the parent when the directory is new.
MakeDir ==
    /\ Visiting(Dirs)
    /\ \/ /\ \E S \in SUBSET {cur} : Touch(S)
          /\ Goto(Main, "list") /\ UNCHANGED <<held, aborted>>
       \/ /\ Fail
          /\ ToLoop /\ UNCHANGED drifted
    /\ UNCHANGED <<mainVars, jobs, hardlinks, stateVars, metaVars, ran, cancelled>>

\* visitDir's listing failed, or was not prefetched and the run is halted.
ListFails ==
    /\ pc[Main] = "list"
    /\ Fail \/ (Halted /\ UNCHANGED aborted)
    /\ ToLoop
    /\ UNCHANGED <<mainVars, jobs, hardlinks, stateVars, metaVars, drifted, ran, cancelled>>

\* visitDir got the listing: newDirState, then the loop over its entries.
EnterDir ==
    /\ pc[Main] = "list"
    /\ recorded' = recorded \cup {held[Main]}
    /\ cur' = held[Main]
    /\ ToLoop
    /\ UNCHANGED <<phase, left, jobs, hardlinks, pending, closed, queued, metaVars, drifted, ran, aborted, cancelled>>

\* Mutant: the loop of a halted walk waits for entries it no longer picks.
LeaveDirWhenEmpty ==
    /\ phase = "walk" /\ pc[Main] = "loop" /\ cur \in Dirs
    /\ left[cur] = {}
    /\ Goto(Main, "store")
    /\ UNCHANGED <<mainVars, held, jobs, hardlinks, stateVars, metaVars, drifted, ran, aborted, cancelled>>

\* visitDir returns, through its deferred closeDir.
LeaveDir ==
    /\ phase = "walk" /\ pc[Main] = "loop" /\ cur \in Dirs
    /\ Halted \/ left[cur] = {}
    /\ Goto(Main, "store")
    /\ UNCHANGED <<mainVars, held, jobs, hardlinks, stateVars, metaVars, drifted, ran, aborted, cancelled>>

\* walk returns: no source left, the run halted, or a source or the target
\* root cannot be reached.  Run then closes the job queue.
EndWalk ==
    /\ phase = "walk" /\ pc[Main] = "loop" /\ cur = Top
    /\ phase' = "drain"
    /\ UNCHANGED <<cur, left, pc, held, jobs, hardlinks, stateVars, metaVars, drifted, ran, aborted, cancelled>>

Walk == PickEntry \/ VisitOther \/ CountFile \/ PushJob \/ VisitLink \/ MakeDir
        \/ ListFails \/ EnterDir \/ LeaveDir \/ StoreClosed \/ CheckPending \/ EndWalk

-----------------------------------------------------------------------------
(* The copy workers.                                                        *)

\* Mutant: an interrupt drops the queue like an abort.
PopJobHalted(w) ==
    /\ pc[w] = "idle"
    /\ \E j \in jobs : jobs' = jobs \ {j} /\ held' = [held EXCEPT ![w] = j]
    /\ Goto(w, IF Halted THEN "dec" ELSE "copy")
    /\ UNCHANGED <<mainVars, hardlinks, stateVars, metaVars, drifted, ran, aborted, cancelled>>

\* jobs.pop, and the abort test that drops the job.
PopJob(w) ==
    /\ pc[w] = "idle"
    /\ \E j \in jobs : jobs' = jobs \ {j} /\ held' = [held EXCEPT ![w] = j]
    /\ Goto(w, IF aborted THEN "dec" ELSE "copy")
    /\ UNCHANGED <<mainVars, hardlinks, stateVars, metaVars, drifted, ran, aborted, cancelled>>

\* copyOne under the gate: unchanged, copied, cancelled or failed.
CopyOne(w) ==
    /\ pc[w] = "copy"
    /\ ran' = ran \cup {held[w]}
    /\ \E S \in SUBSET {ParentOf[held[w]]} : Touch(S)
    /\ MayFail
    /\ Goto(w, "dec")
    /\ UNCHANGED <<mainVars, held, jobs, hardlinks, stateVars, metaVars, cancelled>>

WorkerStep(w) == PopJob(w) \/ CopyOne(w) \/ DirSteps(w)

-----------------------------------------------------------------------------
(* The rest of Run, and the metadata workers.  A worker returns when its    *)
(* queue is closed and empty, so the wait on all of them is a wait for an   *)
(* empty queue and idle workers.                                            *)

\* Mutant: Run goes on when the queue is empty.
JoinWorkersEarly ==
    /\ phase = "drain" /\ jobs = {}
    /\ phase' = "links"
    /\ UNCHANGED <<cur, left, pc, held, jobs, hardlinks, stateVars, metaVars, drifted, ran, aborted, cancelled>>

JoinWorkers ==
    /\ phase = "drain" /\ jobs = {} /\ \A w \in Workers : pc[w] = "idle"
    /\ phase' = "links"
    /\ UNCHANGED <<cur, left, pc, held, jobs, hardlinks, stateVars, metaVars, drifted, ran, aborted, cancelled>>

\* One deferred hardlink: dropped after an abort, else linked (or not).
ApplyHardlink ==
    /\ phase = "links" /\ pc[Main] = "loop"
    /\ \E l \in hardlinks :
          /\ hardlinks' = hardlinks \ {l}
          /\ held' = [held EXCEPT ![Main] = l]
          /\ \/ aborted /\ UNCHANGED <<drifted, ran, aborted>>
             \/ /\ ~aborted
                /\ ran' = ran \cup {l}
                /\ \E S \in SUBSET {ParentOf[l]} : Touch(S)
                /\ MayFail
    /\ Goto(Main, "dec")
    /\ UNCHANGED <<mainVars, jobs, stateVars, metaVars, cancelled>>

CloseMeta ==
    /\ phase = "links" /\ pc[Main] = "loop" /\ hardlinks = {}
    /\ phase' = "meta"
    /\ UNCHANGED <<cur, left, pc, held, jobs, hardlinks, stateVars, metaVars, drifted, ran, aborted, cancelled>>

JoinMeta ==
    /\ phase = "meta" /\ metaq = {} /\ \A m \in MetaWorkers : mheld[m] = None
    /\ phase' = "done"
    /\ UNCHANGED <<cur, left, pc, held, jobs, hardlinks, stateVars, metaVars, drifted, ran, aborted, cancelled>>

PopMeta(m) ==
    /\ mheld[m] = None
    /\ \E d \in metaq : metaq' = metaq \ {d} /\ mheld' = [mheld EXCEPT ![m] = d]
    /\ UNCHANGED <<mainVars, pc, held, jobs, hardlinks, stateVars, applied, drifted, ran, aborted, cancelled>>

\* ApplyMeta is best-effort: a failure is a warning, and counts as done.
ApplyMeta(m) ==
    /\ mheld[m] # None
    /\ applied' = applied \cup {mheld[m]}
    /\ drifted' = drifted \ {mheld[m]}
    /\ mheld' = [mheld EXCEPT ![m] = None]
    /\ UNCHANGED <<mainVars, pc, held, jobs, hardlinks, stateVars, metaq, ran, aborted, cancelled>>

-----------------------------------------------------------------------------
MainStep == Walk \/ DirSteps(Main) \/ JoinWorkers \/ ApplyHardlink \/ CloseMeta \/ JoinMeta
MetaStep(m) == PopMeta(m) \/ ApplyMeta(m)

\* The first Ctrl-C, and the stall watchdog's abort, at any time.
Interrupt ==
    /\ phase # "done" /\ ~cancelled /\ cancelled' = TRUE
    /\ UNCHANGED <<mainVars, pc, held, jobs, hardlinks, stateVars, metaVars, drifted, ran, aborted>>

WatchdogAbort ==
    /\ phase # "done" /\ ~aborted /\ aborted' = TRUE
    /\ UNCHANGED <<mainVars, pc, held, jobs, hardlinks, stateVars, metaVars, drifted, ran, cancelled>>

Finished == phase = "done" /\ UNCHANGED vars

Next == \/ MainStep \/ Interrupt \/ WatchdogAbort \/ Finished
        \/ \E w \in Workers : WorkerStep(w)
        \/ \E m \in MetaWorkers : MetaStep(m)

Fairness == /\ WF_vars(MainStep)
            /\ \A w \in Workers : WF_vars(WorkerStep(w))
            /\ \A m \in MetaWorkers : WF_vars(MetaStep(m))

Spec == Init /\ [][Next]_vars /\ Fairness

-----------------------------------------------------------------------------
(* Properties.                                                              *)

TypeOK ==
    /\ phase \in {"walk", "drain", "links", "meta", "done"}
    /\ cur \in Dirs \cup {Top}
    /\ left \in [Dirs \cup {Top} -> SUBSET Entries]
    /\ pc \in [Procs -> PCs]
    /\ held \in [Procs -> Entries \cup {None}]
    /\ jobs \subseteq Files /\ hardlinks \subseteq Links /\ recorded \subseteq Dirs
    /\ pending \in [Dirs -> Int]
    /\ closed \in [Dirs -> BOOLEAN] /\ queued \in [Dirs -> BOOLEAN]
    /\ metaq \subseteq Dirs /\ mheld \in [MetaWorkers -> Dirs \cup {None}]
    /\ applied \subseteq Dirs /\ drifted \subseteq applied /\ ran \subseteq Deferred
    /\ aborted \in BOOLEAN /\ cancelled \in BOOLEAN

\* The entries that were counted and not yet discounted, all directories together.
Owing == {"enqueue", "copy", "dec"}
AllOwed == jobs \cup hardlinks \cup {held[p] : p \in {q \in Procs : pc[q] \in Owing}}
Owed(d) == {e \in AllOwed : ParentOf[e] = d}

\* A dirState's pending counter is the number of entries of that directory
\* that are queued, being copied, being discounted, or deferred as hardlinks:
\* no path through the workers and the passes, aborted or not, loses or
\* repeats a completeDirWork.
PendingCounts == \A d \in Dirs : pending[d] = Cardinality(Owed(d))

\* The directories queueDirMeta has elected a pusher for and not applied yet.
Pushers(d) == {p \in Procs : pc[p] = "push" /\ DirOf(p) = d}
Holders(d) == {m \in MetaWorkers : mheld[m] = d}

\* A directory is handed to the metadata workers once: while one goroutine is
\* about to push it nobody else is, and it is neither queued, nor being
\* applied, nor applied already, however closeDir and completeDirWork race.
PushedOnce ==
    \A p \in Procs : pc[p] = "push" =>
        /\ DirOf(p) \in recorded \ (metaq \cup applied)
        /\ Pushers(DirOf(p)) = {p} /\ Holders(DirOf(p)) = {}

\* No directory is forgotten: when Run has joined the metadata workers, every
\* directory the walk recorded has had its metadata applied, also after an
\* abort or an interrupt.
AllApplied == phase = "done" => applied = recorded

\* The copy pool has drained when the hardlink pass starts, which needs the
\* primaries at the destination: no job is queued or at work, and unless the
\* run aborts every file the walk has picked was tried, an interrupt or not.
QueueDrained ==
    phase \in {"links", "meta", "done"} =>
        /\ jobs = {} /\ \A w \in Workers : pc[w] = "idle"
        /\ aborted \/ \A f \in Files : f \in ran \cup left[ParentOf[f]]

\* A directory that holds a single deferred entry keeps the times it was given.
LoneEntryKept ==
    \A d \in drifted : Cardinality({e \in Deferred : ParentOf[e] = d}) > 1

\* dirmeta.go:1 "queueDirMeta fires a single time this directory can no longer
\* gain children from copies or deferred hardlinks": nothing is written into a
\* directory after its metadata was applied.
NothingAfterMeta == drifted = {}

\* The run ends, whatever is aborted or interrupted on the way.
Terminates == <>(phase = "done")

\* The run implements the life cycle of directories (DirLife).
life == [d \in Dirs |-> IF d \in applied THEN "stamped"
                        ELSE IF closed[d] THEN "closed"
                        ELSE IF d \in recorded THEN "open" ELSE "unseen"]
Life == INSTANCE DirLife
LifeSpec == Life!Spec

=============================================================================
