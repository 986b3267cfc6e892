------------------------------ MODULE Transfer ------------------------------
(***************************************************************************)
(* What one run of the engine does to the files: which destination holds   *)
(* what, which sources are gone.  Main visits the roots in command-line    *)
(* order and queues copy jobs; workers compare and copy them; Main then    *)
(* creates the deferred hardlinks, runs the --mirror pass and removes the  *)
(* sources of a --move.  A run may be killed at any time, and the command  *)
(* given again: only what is on the disks stays (Rerun).                   *)
(*                                                                         *)
(* A file is a record of its identity and its content; the content of a    *)
(* source is named by its inode.  Directories, and the metadata of files,  *)
(* are left out (see DirMeta), and so is the listing (see Prefetch): a     *)
(* root is the set of regular files below it.  Sources are local.          *)
(* Temporary files are left out: a copy that fails on its way leaves the   *)
(* destination as it was.  Compare takes equal size and mtime (or hash) as *)
(* equal content.                                                          *)
(***************************************************************************)
EXTENDS Naturals, FiniteSets, Sequences

CONSTANTS
    Roots,        \* the source arguments, a sequence
    RootFiles,    \* RootFiles[r]: the regular files of root r
    Inode,        \* Inode[s]: the identity of source file s, shared by hardlinks
    DstOf,        \* DstOf[s]: the destination path of s
    Dsts,         \* the destination paths
    Under,        \* Under[r]: those inside directory root r's destination
    Workers,
    Move, FatalErrors,   \* --move, --fatal-errors
    MirrorRuns,   \* the runs that are given --mirror
    MaxRuns,      \* bound: how often the command is given
    Targets,      \* where the target may be: "local", or on a host whose SFTP
                  \* server has posix-rename ("posix") or has not ("plain")
    CanRename,    \* a local target shares the source's filesystem, nothing is filtered
    Faults,       \* what may go wrong: "target", "open", "copy", "space", "link", "remove", "lstat", "delete"
    Before,       \* Before[n]: the contents that may lie at n before the run
    Aliased       \* the sources whose destination may be a hardlink of them before the run

Srcs == UNION {RootFiles[r] : r \in DOMAIN RootFiles}
Inodes == {Inode[s] : s \in Srcs}
Absent == [id |-> <<"absent", 0>>, content |-> "absent"]
Stale == "stale"          \* the content of an older version
\* A file from before is a link of one old inode, or a file of its own.
OldFiles == {Absent} \cup [id : (Dsts \cup {"old"}) \X {0}, content : Inodes \cup {Stale}]

ASSUME OptionAssumption ==
    /\ {Move, FatalErrors, CanRename} \subseteq BOOLEAN
    /\ MaxRuns \in Nat \ {0} /\ MirrorRuns \subseteq 1..MaxRuns
    /\ Targets \subseteq {"local", "posix", "plain"}
    /\ Before \in [Dsts -> SUBSET (Inodes \cup {"absent", Stale})]
    /\ \A s \in Srcs : DstOf[s] \in Dsts
    /\ Inodes \cap (Dsts \cup {"old", "absent", Stale}) = {} /\ "absent" \notin Dsts
    /\ Aliased \subseteq Srcs

ASSUME RootAssumption ==
    /\ Roots \in Seq(DOMAIN RootFiles) /\ \A r \in DOMAIN RootFiles : \E k \in DOMAIN Roots : Roots[k] = r
    /\ DOMAIN Under = DOMAIN RootFiles /\ \A r \in DOMAIN Under : Under[r] \subseteq Dsts

VARIABLES
    run, target,  \* how often the command was given; where the target is
    tree,         \* tree[r], of a directory root: "fresh", "made" at the target, or "gone"
    phase,        \* "walk", "drain", "links", "mirror", "remove" or "done"
    roots,        \* the roots still to be walked; the first is being walked
    todo,         \* its files still to be visited; {} before it is opened
    opened,       \* the root at the head of roots has been opened
    walkErr,      \* the walk returned an error: the target cannot be made
    jobs,         \* queued jobs: [src, check]
    worker,       \* worker[w]: its job and stage
    primary,      \* hardlinkMap: inode -> destination and adopted flag
    links,        \* deferred hardlinks, in order: [src, target, unlinked]
    mirrorRoots,  \* roots for the mirror pass
    moved,        \* movedFiles: sources recorded for removal
    movedDirs,    \* the directory roots recorded for removal
    removing,     \* those handed to a removal goroutine
    src,          \* the sources that are still there
    dst,          \* dst[n]: the file at destination path n
    undeleted,    \* destination paths that --mirror failed to delete
    outcome,      \* outcome[s]: how the run's summary counts s
    aborted, cancelled

walkVars == <<roots, todo, opened, walkErr, primary, mirrorRoots, movedDirs, tree>>
runVars == <<run, target>>
vars == <<runVars, phase, walkVars, jobs, worker, links, moved, removing, src, dst, undeleted,
          outcome, aborted, cancelled>>

\* The files that a rename and a copy put at a destination: the source's own
\* inode, and one that each run's copy makes anew.
Original(s) == [id |-> <<Inode[s], 0>>, content |-> Inode[s]]
CopyOf(s) == [id |-> <<s, run>>, content |-> Inode[s]]

\* What may lie at n before the run.
MayLie(n, f) ==
    /\ f.content \in Before[n]
    /\ \/ f.id \in {"absent", "old", n} \X {0}
       \/ target = "local" /\ \E s \in Aliased : DstOf[s] = n /\ f = Original(s)

Init ==
    /\ run = 1 /\ target \in Targets /\ tree = [r \in DOMAIN Under |-> "fresh"]
    /\ phase = "walk" /\ roots = Roots /\ todo = {} /\ opened = FALSE /\ walkErr = FALSE
    /\ jobs = {} /\ worker = [w \in Workers |-> [stage |-> "idle"]]
    /\ primary = [i \in {} |-> {}] /\ links = <<>> /\ mirrorRoots = <<>>
    /\ moved = {} /\ movedDirs = {} /\ removing = {} /\ src = Srcs
    /\ dst \in {f \in [Dsts -> OldFiles \cup {Original(s) : s \in Aliased}] : \A n \in Dsts :
                   MayLie(n, f[n]) /\ \A k \in Dsts : f[k].id = f[n].id => f[k] = f[n]}
    /\ undeleted = {} /\ outcome = [s \in Srcs |-> "none"]
    /\ aborted = FALSE /\ cancelled = FALSE

-----------------------------------------------------------------------------
Halted == aborted \/ cancelled
Mirror == run \in MirrorRuns

\* st_nlink > 1: paths in the source, and paths at the target that came there by
\* a rename, have the identity of s.
SharesInode(s) ==
    (\E t \in src \ {s} : Inode[t] = Inode[s]) \/ \E n \in Dsts : dst[n].id = Original(s).id

\* fail: counts the files of S as failed; an ENOSPC error aborts (a copy or a
\* link may meet one), any other error only under --fatal-errors.
Fail(S, noSpace) ==
    /\ outcome' = [s \in Srcs |-> IF s \in S THEN "failed" ELSE outcome[s]]
    /\ aborted' \in (IF FatalErrors THEN {TRUE} ELSE {aborted, aborted \/ noSpace})

\* Mutant: moveSource records the destination in place of the source.
RecordDst(s) == moved' = IF Move THEN moved \cup {DstOf[s]} ELSE moved

\* moveSource
RecordMove(s) == moved' = IF Move THEN moved \cup {s} ELSE moved

\* scan.Compare's verdict.
Unchanged(s) == dst[DstOf[s]].content = Inode[s]

\* Mutant: the deferred moveUnchanged is not there.
FinishUnchangedKeeps(s) == outcome' = [outcome EXCEPT ![s] = "unchanged"] /\ UNCHANGED moved

\* finishUnchangedFile, with its deferred moveUnchanged.
FinishUnchanged(s) ==
    /\ outcome' = [outcome EXCEPT ![s] = "unchanged"]
    /\ RecordMove(s)

-----------------------------------------------------------------------------
(* The walk.                                                                *)

NextRoot == roots' = Tail(roots) /\ UNCHANGED <<todo, opened>>

IsDir(r) == Under[r] # {}
FilesLeft(r) == RootFiles[r] \cap src
Missing(r) == IF IsDir(r) THEN tree[r] = "gone" ELSE FilesLeft(r) = {}

\* The roots of the mirror pass grow by one.
RecordRoot(r) == mirrorRoots' = IF Mirror THEN Append(mirrorRoots, r) ELSE mirrorRoots

\* renameRoot, when it can: a directory needs a free name, a file is renamed
\* over a file, if that is another one.  A failed rename is no error: the root
\* is walked.
RenameFiles(r) ==
    /\ Move /\ CanRename /\ target = "local" /\ ~Missing(r)
    /\ tree[r] = "fresh" /\ \A n \in Under[r] : dst[n] = Absent
    /\ \A s \in FilesLeft(r) : dst[DstOf[s]].id # Original(s).id
    /\ dst' = [n \in Dsts |->
                  IF \E s \in FilesLeft(r) : DstOf[s] = n
                  THEN Original(CHOOSE s \in FilesLeft(r) : DstOf[s] = n)
                  ELSE dst[n]]
    /\ src' = src \ RootFiles[r]
    /\ outcome' = [s \in Srcs |-> IF s \in FilesLeft(r) THEN "renamed" ELSE outcome[s]]
    /\ tree' = IF IsDir(r) THEN [tree EXCEPT ![r] = "gone"] ELSE tree
    /\ NextRoot
    /\ UNCHANGED aborted

\* Mutant: the root is recorded for the mirror pass before the rename is tried.
RenameRootRecorded(r) == RenameFiles(r) /\ RecordRoot(r)

\* A renamed root takes no part in the mirror pass.
RenameRoot(r) == RenameFiles(r) /\ UNCHANGED mirrorRoots

\* The root cannot be stat'ed, or has no place in the target.
FailRoot(r) ==
    /\ "open" \in Faults \/ Missing(r)
    /\ Fail(RootFiles[r], FALSE)
    /\ NextRoot
    /\ UNCHANGED <<mirrorRoots, tree, src, dst>>

\* The root is recorded for the mirror pass, then visited.
WalkRoot(r) ==
    /\ ~Missing(r) /\ todo' = FilesLeft(r) /\ opened' = TRUE
    /\ tree' = IF IsDir(r) THEN [tree EXCEPT ![r] = "made"] ELSE tree
    /\ RecordRoot(r)
    /\ UNCHANGED <<roots, src, dst, outcome, aborted>>

\* The root is recorded, but its directory cannot be made, or not be listed.
FailVisit(r) ==
    /\ "open" \in Faults /\ IsDir(r) /\ ~Missing(r)
    /\ \/ (\A n \in Under[r] : dst[n] = Absent) /\ UNCHANGED tree
       \/ tree' = [tree EXCEPT ![r] = "made"]
    /\ Fail(RootFiles[r], FALSE)
    /\ RecordRoot(r)
    /\ NextRoot
    /\ UNCHANGED <<src, dst>>

\* walkTargetDir opens the next root.
OpenRoot ==
    /\ phase = "walk" /\ roots # <<>> /\ ~opened /\ ~Halted
    /\ LET r == Head(roots) IN RenameRoot(r) \/ FailRoot(r) \/ WalkRoot(r) \/ FailVisit(r)
    /\ UNCHANGED <<runVars, phase, walkErr, primary, movedDirs, jobs, worker, links, moved, removing, undeleted, cancelled>>

\* ensureRoot fails: walkTargetDir returns the error, and Run goes on.
LoseTarget ==
    /\ phase = "walk" /\ roots # <<>> /\ ~opened /\ ~Halted
    /\ "target" \in Faults
    /\ roots' = <<>> /\ walkErr' = TRUE
    /\ UNCHANGED <<runVars, phase, todo, opened, primary, mirrorRoots, movedDirs, tree, jobs, worker, links, moved, removing, undeleted, src, dst, outcome, aborted, cancelled>>

\* visitDir ends, and a directory whose entries were all visited is recorded.
CloseRoot ==
    /\ phase = "walk" /\ opened /\ (todo = {} \/ Halted)
    /\ roots' = Tail(roots) /\ opened' = FALSE /\ todo' = {}
    /\ movedDirs' = IF Move /\ todo = {} /\ IsDir(Head(roots)) THEN movedDirs \cup {Head(roots)} ELSE movedDirs
    /\ UNCHANGED <<runVars, phase, walkErr, primary, mirrorRoots, tree, jobs, worker, links, moved, removing, undeleted, src, dst, outcome, aborted, cancelled>>

Enqueue(s, check) == jobs' = jobs \cup {[src |-> s, check |-> check]}

\* handleRegular: a single-link file is queued, compared by the worker.
VisitSingle(s) ==
    /\ ~SharesInode(s)
    /\ Enqueue(s, TRUE)
    /\ UNCHANGED <<primary, links, moved, outcome>>

\* handleMultiLink, first path of an inode: adopted when unchanged, else queued.
VisitPrimary(s) ==
    /\ SharesInode(s) /\ Inode[s] \notin DOMAIN primary
    /\ primary' = [i \in DOMAIN primary \cup {Inode[s]} |->
                      IF i = Inode[s] THEN [dst |-> DstOf[s], adopted |-> Unchanged(s)] ELSE primary[i]]
    /\ \/ Unchanged(s) /\ FinishUnchanged(s) /\ UNCHANGED jobs
       \/ ~Unchanged(s) /\ Enqueue(s, FALSE) /\ UNCHANGED <<moved, outcome>>
    /\ UNCHANGED links

\* Mutant: two paths that exist are taken for one file.
BothExist(a, b) == dst[a] # Absent /\ dst[b] # Absent

\* sameDestFile
SameDest(a, b) == target = "local" /\ dst[a] # Absent /\ dst[b] # Absent /\ dst[a].id = dst[b].id

\* handleMultiLink, later path: already the adopted file, or deferred.
VisitSecondary(s) ==
    /\ SharesInode(s) /\ Inode[s] \in DOMAIN primary
    /\ LET p == primary[Inode[s]] IN
       \/ /\ p.adopted /\ SameDest(p.dst, DstOf[s])
          /\ FinishUnchanged(s) /\ UNCHANGED links
       \/ /\ ~(p.adopted /\ SameDest(p.dst, DstOf[s]))
          /\ links' = Append(links, [src |-> s, target |-> p.dst, unlinked |-> FALSE])
          /\ UNCHANGED <<moved, outcome>>
    /\ UNCHANGED <<primary, jobs>>

Visit ==
    /\ phase = "walk" /\ opened /\ ~Halted
    /\ \E s \in todo :
          /\ todo' = todo \ {s}
          /\ VisitSingle(s) \/ VisitPrimary(s) \/ VisitSecondary(s)
    /\ UNCHANGED <<runVars, phase, roots, opened, walkErr, mirrorRoots, movedDirs, tree, worker, removing, undeleted, src, dst, aborted, cancelled>>

EndWalk ==
    /\ phase = "walk" /\ ~opened /\ (roots = <<>> \/ Halted)
    /\ phase' = "drain"
    /\ UNCHANGED <<runVars, walkVars, jobs, worker, links, moved, removing, undeleted, src, dst, outcome, aborted, cancelled>>

-----------------------------------------------------------------------------
(* The copy workers.                                                        *)

Idle(w) == worker' = [worker EXCEPT ![w] = [stage |-> "idle"]]

\* jobs.pop; after an abort the job is dropped.
PopJob(w) ==
    /\ worker[w].stage = "idle"
    /\ \E j \in jobs :
          /\ jobs' = jobs \ {j}
          /\ IF aborted THEN UNCHANGED worker
             ELSE worker' = [worker EXCEPT ![w] = [stage |-> IF j.check THEN "compare" ELSE "copy", src |-> j.src]]
    /\ UNCHANGED <<runVars, phase, walkVars, links, moved, removing, undeleted, src, dst, outcome, aborted, cancelled>>

CompareJob(w) ==
    /\ worker[w].stage = "compare"
    /\ LET s == worker[w].src IN
       IF Unchanged(s)
       THEN FinishUnchanged(s) /\ Idle(w)
       ELSE worker' = [worker EXCEPT ![w].stage = "copy"] /\ UNCHANGED <<outcome, moved>>
    /\ UNCHANGED <<runVars, phase, walkVars, jobs, links, removing, undeleted, src, dst, aborted, cancelled>>

\* reserveSpace finds no room for the file, and aborts.
NoRoom == "space" \in Faults /\ aborted' = TRUE /\ UNCHANGED <<dst, outcome, moved>>

\* Mutant: the source is recorded for removal whatever CopyFile returns.
CopyJobRecords(w) ==
    /\ worker[w].stage = "copy"
    /\ LET s == worker[w].src IN
       /\ \/ /\ dst' = [dst EXCEPT ![DstOf[s]] = CopyOf(s)]
             /\ outcome' = [outcome EXCEPT ![s] = "copied"]
             /\ UNCHANGED aborted
          \/ "copy" \in Faults /\ Fail({s}, TRUE) /\ UNCHANGED dst
       /\ RecordMove(s)
    /\ Idle(w)
    /\ UNCHANGED <<runVars, phase, walkVars, jobs, links, removing, undeleted, src, cancelled>>

\* sftp.go's Rename without posix-rename: the old file is removed, and the
\* connection is lost before the new one is renamed.
LosesOld(n) == target = "plain" /\ dst' = [dst EXCEPT ![n] = Absent]

\* fsx.CopyFile renames the finished temporary file over the destination; or
\* it is cancelled by an abort, which counts nothing; or there is no room; or
\* it fails.
CopyJob(w) ==
    /\ worker[w].stage = "copy"
    /\ LET s == worker[w].src IN
       \/ /\ dst' = [dst EXCEPT ![DstOf[s]] = CopyOf(s)]
          /\ outcome' = [outcome EXCEPT ![s] = "copied"]
          /\ RecordMove(s)
          /\ UNCHANGED aborted
       \/ aborted /\ UNCHANGED <<dst, outcome, moved, aborted>>
       \/ NoRoom
       \/ /\ "copy" \in Faults /\ Fail({s}, TRUE)
          /\ LosesOld(DstOf[s]) \/ UNCHANGED dst
          /\ UNCHANGED moved
    /\ Idle(w)
    /\ UNCHANGED <<runVars, phase, walkVars, jobs, links, removing, undeleted, src, cancelled>>

JoinWorkers ==
    /\ phase = "drain" /\ jobs = {} /\ \A w \in Workers : worker[w].stage = "idle"
    /\ phase' = "links"
    /\ UNCHANGED <<runVars, walkVars, jobs, worker, links, moved, removing, undeleted, src, dst, outcome, aborted, cancelled>>

-----------------------------------------------------------------------------
(* The hardlink pass: Remove, whose error is ignored, then Link.            *)

SkipLink ==
    /\ phase = "links" /\ links # <<>> /\ ~Head(links).unlinked /\ aborted
    /\ links' = Tail(links)
    /\ UNCHANGED <<runVars, phase, walkVars, jobs, worker, moved, removing, undeleted, src, dst, outcome, aborted, cancelled>>

RemoveLinkDst ==
    /\ phase = "links" /\ links # <<>> /\ ~Head(links).unlinked /\ ~aborted
    /\ \/ dst' = [dst EXCEPT ![DstOf[Head(links).src]] = Absent]
       \/ "link" \in Faults /\ UNCHANGED dst
    /\ links' = [links EXCEPT ![1].unlinked = TRUE]
    /\ UNCHANGED <<runVars, phase, walkVars, jobs, worker, moved, removing, undeleted, src, outcome, aborted, cancelled>>

LinkTarget ==
    /\ phase = "links" /\ links # <<>> /\ Head(links).unlinked
    /\ LET l == Head(links) IN
       \/ /\ dst[l.target] # Absent /\ dst[DstOf[l.src]] = Absent
          /\ dst' = [dst EXCEPT ![DstOf[l.src]] = dst[l.target]]
          /\ outcome' = [outcome EXCEPT ![l.src] = "linked"]
          /\ RecordMove(l.src)
          /\ UNCHANGED aborted
       \/ /\ dst[l.target] = Absent \/ dst[DstOf[l.src]] # Absent \/ "link" \in Faults
          /\ Fail({l.src}, TRUE)
          /\ UNCHANGED <<dst, moved>>
    /\ links' = Tail(links)
    /\ UNCHANGED <<runVars, phase, walkVars, jobs, worker, removing, undeleted, src, cancelled>>

\* Mutant: an aborted walk is followed by the destructive passes.
DecideInterrupted ==
    /\ phase = "links" /\ links = <<>>
    /\ phase' = IF cancelled THEN "done" ELSE "mirror"
    /\ UNCHANGED <<runVars, walkVars, jobs, worker, links, moved, removing, undeleted, src, dst, outcome, aborted, cancelled>>

\* The destructive passes run only if nothing halted the run so far.
Decide ==
    /\ phase = "links" /\ links = <<>>
    /\ phase' = IF Halted THEN "done" ELSE "mirror"
    /\ UNCHANGED <<runVars, walkVars, jobs, worker, links, moved, removing, undeleted, src, dst, outcome, aborted, cancelled>>

-----------------------------------------------------------------------------
(* The mirror pass.                                                         *)

\* The source path that mirrorDir looks for when it meets destination path n.
Counterpart(r, n) == {s \in RootFiles[r] : DstOf[s] = n}

\* mirrorDir over one root's destination: every entry whose source cannot be
\* stat'ed is removed; a removal may fail.
MirrorRoot ==
    /\ phase = "mirror" /\ mirrorRoots # <<>>
    /\ LET r == Head(mirrorRoots)
           Gone == {n \in Under[r] : dst[n] # Absent /\ Counterpart(r, n) \cap src = {}}
           Found == {n \in Under[r] : dst[n] # Absent /\ Counterpart(r, n) \cap src # {}}
       IN \E kept \in SUBSET (IF "delete" \in Faults THEN Gone ELSE {}),
             missed \in SUBSET (IF "lstat" \in Faults THEN Found ELSE {}) :
             /\ dst' = [n \in Dsts |-> IF n \in (Gone \ kept) \cup missed THEN Absent ELSE dst[n]]
             /\ undeleted' = undeleted \cup kept
             /\ aborted' = (aborted \/ (FatalErrors /\ kept # {}))
    /\ mirrorRoots' = Tail(mirrorRoots)
    /\ UNCHANGED <<runVars, phase, roots, todo, opened, walkErr, primary, movedDirs, tree, jobs, worker, links, moved, removing, src, outcome, cancelled>>

\* Mutant: the mirror pass stops before the last root.
EndMirrorEarly ==
    /\ phase = "mirror"
    /\ phase' = "remove"
    /\ UNCHANGED <<runVars, walkVars, jobs, worker, links, moved, removing, undeleted, src, dst, outcome, aborted, cancelled>>

EndMirror ==
    /\ phase = "mirror" /\ mirrorRoots = <<>>
    /\ phase' = "remove"
    /\ UNCHANGED <<runVars, walkVars, jobs, worker, links, moved, removing, undeleted, src, dst, outcome, aborted, cancelled>>

-----------------------------------------------------------------------------
(* The removal pass of --move.                                              *)

\* removeMovedSources hands out the entries.  As many goroutines as the gate
\* admits take one each; one more may be past the look at the interrupt and wait
\* to be taken.
HandOut ==
    /\ phase = "remove" /\ ~cancelled /\ Cardinality(removing) <= Cardinality(Workers)
    /\ \E s \in moved : moved' = moved \ {s} /\ removing' = removing \cup {s}
    /\ UNCHANGED <<runVars, phase, walkVars, jobs, worker, links, undeleted, src, dst, outcome, aborted, cancelled>>

\* sameEntry: the destination is the source's own inode.
SameEntry(s) == target = "local" /\ dst[DstOf[s]].id = Original(s).id

RemoveSource ==
    /\ phase = "remove"
    /\ \E s \in removing :
          /\ removing' = removing \ {s}
          /\ \/ ~SameEntry(s) /\ src' = src \ {s} /\ UNCHANGED <<outcome, aborted>>
             \/ (SameEntry(s) \/ "remove" \in Faults) /\ Fail({s}, FALSE) /\ UNCHANGED src
    /\ UNCHANGED <<runVars, phase, walkVars, jobs, worker, links, moved, dst, undeleted, cancelled>>

\* Then the directories, without an error where something is left.
RemoveDir ==
    /\ phase = "remove" /\ removing = {} /\ moved = {} /\ ~cancelled
    /\ \E r \in movedDirs :
          /\ movedDirs' = movedDirs \ {r}
          /\ \/ FilesLeft(r) = {} /\ tree' = [tree EXCEPT ![r] = "gone"] /\ UNCHANGED <<outcome, aborted>>
             \/ FilesLeft(r) # {} /\ UNCHANGED <<tree, outcome, aborted>>
             \/ "remove" \in Faults /\ Fail({}, FALSE) /\ UNCHANGED tree
    /\ UNCHANGED <<runVars, phase, roots, todo, opened, walkErr, primary, mirrorRoots, jobs, worker, links, moved, removing, src, dst, undeleted, cancelled>>

EndRemove ==
    /\ phase = "remove" /\ removing = {} /\ (cancelled \/ (moved = {} /\ movedDirs = {}))
    /\ phase' = "done"
    /\ UNCHANGED <<runVars, walkVars, jobs, worker, links, moved, removing, undeleted, src, dst, outcome, aborted, cancelled>>

-----------------------------------------------------------------------------
Interrupt ==
    /\ phase # "done" /\ ~cancelled /\ cancelled' = TRUE
    /\ UNCHANGED <<runVars, phase, walkVars, jobs, worker, links, moved, removing, undeleted, src, dst, outcome, aborted>>

\* The stall watchdog.
WatchdogAbort ==
    /\ phase # "done" /\ ~aborted /\ aborted' = TRUE
    /\ UNCHANGED <<runVars, phase, walkVars, jobs, worker, links, moved, removing, undeleted, src, dst, outcome, cancelled>>

\* The command is given again, after it ended or was killed at any point: the
\* second Ctrl-C, or the machine.  What the process held is lost.
Rerun ==
    /\ run < MaxRuns /\ run' = run + 1
    /\ phase' = "walk" /\ roots' = Roots /\ todo' = {} /\ opened' = FALSE /\ walkErr' = FALSE
    /\ jobs' = {} /\ worker' = [w \in Workers |-> [stage |-> "idle"]]
    /\ primary' = [i \in {} |-> {}] /\ links' = <<>> /\ mirrorRoots' = <<>>
    /\ moved' = {} /\ movedDirs' = {} /\ removing' = {}
    /\ undeleted' = {} /\ outcome' = [s \in Srcs |-> "none"]
    /\ aborted' = FALSE /\ cancelled' = FALSE
    /\ UNCHANGED <<target, tree, src, dst>>

Finished == phase = "done" /\ UNCHANGED vars

MainStep == OpenRoot \/ LoseTarget \/ CloseRoot \/ Visit \/ EndWalk \/ JoinWorkers \/ SkipLink \/ RemoveLinkDst
            \/ LinkTarget \/ Decide \/ MirrorRoot \/ EndMirror \/ HandOut \/ RemoveSource \/ RemoveDir \/ EndRemove
WorkerStep(w) == PopJob(w) \/ CompareJob(w) \/ CopyJob(w)

Next == MainStep \/ Interrupt \/ WatchdogAbort \/ Rerun \/ Finished \/ \E w \in Workers : WorkerStep(w)

Fairness == WF_vars(MainStep) /\ \A w \in Workers : WF_vars(WorkerStep(w))

Spec == Init /\ [][Next]_vars /\ Fairness

-----------------------------------------------------------------------------
(* Properties.                                                              *)

Files == OldFiles \cup {Original(s) : s \in Srcs} \cup [id : Srcs \X (1..MaxRuns), content : Inodes]
Outcomes == {"none", "copied", "unchanged", "linked", "renamed", "failed"}

TypeOK ==
    /\ run \in 1..MaxRuns /\ target \in Targets
    /\ tree \in [DOMAIN Under -> {"fresh", "made", "gone"}] /\ movedDirs \subseteq DOMAIN Under
    /\ phase \in {"walk", "drain", "links", "mirror", "remove", "done"}
    /\ src \subseteq Srcs /\ moved \subseteq Srcs /\ removing \subseteq Srcs /\ todo \subseteq Srcs
    /\ \A n \in Dsts : dst[n] \in Files
    /\ outcome \in [Srcs -> Outcomes]

Holds(n, s) == dst[n].content = Inode[s]

\* main.go:79 and README.md:118 "remove each source entry that is at the
\* target": a source that is gone is held by its destination path.
RemovedIsAtTarget == \A s \in Srcs : s \notin src => Holds(DstOf[s], s)

\* No content is lost: while no path to it is left in the source, some
\* destination path holds it.
NoContentLost ==
    \A s \in Srcs : (\E t \in src : Inode[t] = Inode[s]) \/ \E n \in Dsts : Holds(n, s)

\* The sources that this run has to do with.
Given == src \cup {s \in Srcs : outcome[s] # "none"}

\* A run that nobody halted, that returned no error and counted no failure leaves every source
\* at its destination, hardlinks of one inode as one file (a root that was
\* renamed takes no part in the hardlink bookkeeping), whatever earlier runs
\* had left.
CleanRunIsComplete ==
    phase \in {"mirror", "remove", "done"} /\ ~Halted /\ ~walkErr /\ (\A s \in Srcs : outcome[s] # "failed") =>
        /\ \A s \in Given : Holds(DstOf[s], s)
        /\ \A s, t \in Given : Inode[s] = Inode[t] /\ "renamed" \notin {outcome[s], outcome[t]} =>
              dst[DstOf[s]].id = dst[DstOf[t]].id

\* engine.go:147 "the passes that act on the whole tree are skipped": a source
\* is removed only after the whole tree was seen, when none is still waiting for
\* a visit, a worker or a link.  Run does not look at the walk's own error there.
RemovesAfterWholeWalk ==
    [][phase = "remove" /\ src' # src => walkErr \/ \A s \in src : outcome[s] # "none"]_vars

\* move.go:61 "The removal waits for --mirror, which reads the source": once a file
\* is counted as renamed, copied, linked or unchanged, and so perhaps recorded for
\* removal, nothing in the rest of the run touches its destination: not the other
\* workers, not the links still to be made, not the mirror pass, which must find
\* its source or pass its root by.
TransferredKept ==
    [][\A s \in Srcs : outcome[s] \in {"renamed", "copied", "linked", "unchanged"} =>
          dst'[DstOf[s]] = dst[DstOf[s]]]_vars

\* README.md:118 "removes each source entry that is at the target": a move that
\* nobody halted, that returned no error and counted no failure leaves no file in
\* the source, by whatever way each one came to the target.
CleanMoveEmptiesSource ==
    phase = "done" /\ Move /\ ~Halted /\ ~walkErr /\ (\A s \in Srcs : outcome[s] # "failed") => src = {}

\* After the mirror pass the destination of a root without a failure holds
\* the root's files and nothing else but what could not be deleted.
MirrorIsExact ==
    phase = "remove" /\ Mirror /\ ~Halted /\ ~walkErr =>
        \A r \in DOMAIN Under : (\A s \in RootFiles[r] : outcome[s] # "failed") =>
            {n \in Under[r] : dst[n] # Absent} \ undeleted
                = (Under[r] \cap {DstOf[s] : s \in RootFiles[r] \cap Given}) \ undeleted

=============================================================================
