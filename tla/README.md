# basicopy in TLA+

A verification development for `basicopy`, the parallel copy tool of this
repository: TLA+ modules for the parts where goroutines, failures and
interrupts meet, TLC runs over small instances, and TLAPS proofs for every
value of the constants.

## 1. The system

One run (`internal/engine/engine.go`, `Run`) is a fixed sequence of phases on
the main goroutine, around pools that work at the same time:

1. **walk**: the source roots are visited depth first; files become copy jobs,
   later paths of a multiply-linked inode become deferred hardlinks;
   directories are created at once and their metadata is left for later. A pool
   of *listers* reads the upcoming directories ahead of the walk.
2. **drain**: the job queue is closed and the copy workers are joined.
3. **links**: the deferred hardlinks are made.
4. **meta**: the queue of directories is closed and the metadata workers, which
   have run all along, are joined.
5. **mirror**, **remove**: only when nothing halted the run: what has no
   counterpart in the source is deleted (`--mirror`), what was moved is removed
   from the source (`--move`).

Beside them run the controller, which moves the limit of the gate the workers
pass, the watchdog, which aborts a run without progress, and the progress line.
The first Ctrl-C cancels the context: the walk stops, the queue is finished. An
*abort* (a full disk, `--fatal-errors`, the watchdog) makes the workers drop
what is queued.

### Components

| component | state | operations | shared with | what is hard | what makes it correct |
|---|---|---|---|---|---|
| run phases, directory metadata (`engine.go`, `dirmeta.go`, `hardlink.go`) | per directory: `pending`, `closed`, `queued`; two queues; the phase | count, discount, close, elect, push, apply | walk, copy workers, hardlink pass, metadata workers | lock-free election between the walk and the last worker; drops after an abort; order of joins | every directory is applied, once; the run ends |
| transfer (`walk.go`, `engine.go`, `hardlink.go`, `move.go`, `mirror.go`, the rename of `vfs/sftp.go`) | destination files, sources left, `hardlinkMap`, `movedFiles`, `mirrorRoots`; on the disks only, after a kill | rename root, compare, copy, publish, link, delete, remove files and directories; run again | walk, workers, removal goroutines, an earlier run | partial failure in front of destructive passes; a kill between two of them, and a re-run on what it left | no content is lost; a clean run is complete and a clean move empties the source; what is transferred stays; the mirror is exact |
| job queue (`queue.go`) | items, closed, a condition variable | push, pop, close | walk to workers, workers to metadata workers | signals after unlock | no wake-up is lost |
| gate (`gate.go`) | limit, slots in use | acquire, release, setLimit | workers, controller | limit below use | no slot is lost |
| SSH pool (`vfs/pool.go`, `vfs/sftp.go`) | connections, loads, dialing, frozen, closed | acquire, release, dial, close | all transfers of a host | hold one, wait for another; failing dials | no deadlock, ceiling, honest loads |
| listing prefetch (`walk.go`) | stack, results by path, closed | schedule, take, close, list | walk, listers | channels closed once; close against work in flight | each wait is answered; nothing leaks |
| single-file copy (`fsx/copy*.go`) | temp file, destination | create, fill, publish, clean up | one per worker | failure at each step | the destination is old or new |
| extent dedup (`fsx/extents*.go`) | records per device, claims in flight, handles | acquire, release, wait, insert, commit, kill | all copies | a record's file goes while it is used; copies wait for copies | clones only trusted bytes; waits end |
| controller (`control/control.go`, `autoscale.go`) | W and the W to go back to, phase, averages, dwell and probe counters | update per tick | gate, which it sets; progress, which it samples | feedback with guards and blocked samples that come in any phase | W in bounds; guards forbid growth; W finds the knee |
| watchdog and progress (`watchdog.go`, `progress.go`) | the detector's last count, window and timeout; whether it asks | tick, ask, answer, abort | everything that counts as progress | a count that leaves work out, or takes it back; a prompt that blocks the goroutine | aborts only for a reason; sees each hang |
| space guard (`space.go`) | a running estimate of the free space | reserve, refresh | workers | a store over other workers' reservations | - |
| comparison, metadata, xattrs, symlinks, excludes | none | pure or one system call each | walk, workers | - | - |
| locations, ssh dialling, registry, options, output, probes | little | parsing and I/O | - | - | - |

`PROJECT.json` lists each of them with its status, and under `hazards` what is
hard to test at the line where it bites.

## 2. The modules

| module | models | uses |
|---|---|---|
| `DirLife` | abstract: a directory is unseen, open, closed, stamped | |
| `DirMeta` | walk, copy pool, hardlink pass and metadata pool around a directory tree, each atomic access of `dirmeta.go` a step | refines `DirLife` |
| `Transfer` | what a run, its kill and its re-run do to the files of the source and of the destination | |
| `Queue`, `Gate` | the two monitors, each method's critical section a step, `sync.Cond` as it works | |
| `Jobs` | abstract: jobs go from new to over, workers leave | |
| `WorkPool` | pushers, workers, controller and abort on one queue and one gate | `Queue`, `Gate`; refines `Jobs` |
| `ConnPool` | the SSH connection pool | |
| `Prefetch` | the depth-first walk and its listers | |
| `Dedup` | concurrent `CopyFile` calls on one index of shared extents, and sources that change meanwhile | |
| `Controller` | `Controller.Update`: one action per outcome of a sample | |
| `Watchdog` | the stall detector, the prompt and its answers | |
| `Monitors` | the run as both of them see it: work of each kind, slice by slice, with its throughput and what it adds to the progress count | `Controller`, `Watchdog` |
| `*Proofs` | the inductive invariants and theorems of the module they are named for | |
| `MC*` | instances for TLC | |

How the state corresponds to the code:

- **Condition variables.** `sync.Cond` is a set of sleepers and a set of those
  woken that have not looked again. `Signal` moves any one sleeper, `Broadcast`
  all; a woken goroutine re-tests its loop condition and others may come first.
  `push`, `close` and `release` unlock before they signal, so the signal is a
  step of its own; `gate.go` and `schedule` signal under the lock, so it is not.
- **Atomics.** In `DirMeta` each of `pending.Add`, `pending.Load`,
  `closed.Store`, `closed.Load`, `queued.CompareAndSwap` is a step (`DecPending`,
  `CheckPending`, `StoreClosed`, `CheckClosed`, `SwapQueued`), and any goroutine
  may run in between.
- **Files.** In `Transfer` a destination path holds a record of an identity (the
  inode) and a content (named by the source inode it came from, or `stale`), so
  that "is a hardlink of", "has the content of" and "is what was there before"
  are three different things. An identity is a name and the run that made it, 0
  for what was there before: a renamed source keeps its own inode (`Original`),
  a copy is a new file in each run (`CopyOf`). A copy publishes by rename, so it
  is one step on a local target and on a server with posix-rename; on one
  without (`plain`) the old file goes first, and the copy may fail there. A
  destination of the sources in `Aliased` may be a hardlink of them from before
  the run (`MayLie`): `renameRoot` then walks the root, the file counts as
  unchanged, and `removeSource` refuses it as the *same entry* (`SameEntry`) and
  counts a failure.
- **Roots.** `OpenRoot` is one pass of `walkTargetDir`'s loop: the root is renamed
  (`RenameRoot`), fails before it is recorded for the mirror pass (`FailRoot`), is
  recorded and fails to be made or listed (`FailVisit`), or is recorded and
  walked (`WalkRoot`).
- **The hand-out.** `removeMovedSources` sends on a channel without a buffer: as
  many sources as it has goroutines are being removed, and one more may be past
  the look at the interrupt (`HandOut`).
- **Runs.** `Rerun` ends a run anywhere (a kill, the second Ctrl-C) or after its
  end, and gives the command again: all that is in memory starts anew, what is
  on the disks stays. `run` counts them; `MirrorRuns` says which are given
  `--mirror`.
- **Failures.** `Faults` names what may go wrong in an instance; where it is in
  the set, each such operation succeeds or fails at each use. A failure may be
  ENOSPC, which aborts.
- **Listings.** In `Prefetch` a result is `wanted` until its channel is closed;
  that a channel is closed twice is a task for a result that is ready.
- **Blocks.** In `Dedup` the unit of data is a block. A source file is a
  sequence of versions, each with its bytes, its mtime and the extents that map
  bytes to physical blocks; `Move` goes to the next version when the blocks it
  needs are free. The data of a copy is what its temporary file holds, which a
  record reaches through `ref` (`temp`: the dup'ed handle is open, `path`: the
  published file, if the destination still is that file, `dead`). Each step
  between two looks at shared state (the index under its lock, the handle under
  its lock, the source) is an action: Fstat, FIEMAP, acquire, clone, read,
  the second FIEMAP with its insert and release, the check, the rename, commit.
- **Averages.** In `Controller` throughputs are integers and the moving average
  is a quotient, rounded up so that it reaches a throughput that stays, as the
  code's floating point number does in the limit.
- **The progress count.** In `Watchdog` it is known only by its distance
  (`ahead`) from the count the detector has kept; `idle` is the age of the
  window in ticks. `Monitors.Credit` is what one step of each kind of work adds,
  read off the counters that `progressCount` sums.
- **Time.** `Monitors` cuts time into the controller's intervals. In each the run
  does work of one kind, or hangs; the watchdog ticks after at most `PerWatch`
  of them.

External (marked so in the map): the effect of a write in a directory on its
mtime, which is the kernel's, the source's file system in `Dedup`, and the
throughput curve of `Monitors`.

## 3. The runs

| run | question | bounds |
|---|---|---|
| `dirmeta` | are directories counted, elected, pushed and applied right, does the run end, does it refine `DirLife`? | a directory with a subdirectory, two files, a hardlink, a symlink; 2 workers, 1 metadata worker |
| `dirmeta_race` (violated) | is metadata applied only after the last write into the directory? | one directory, two files, one worker |
| `transfer` | is content ever lost, is a clean run complete, is the mirror exact, does a clean move empty the source, does anything touch what was transferred? | `--move`, `--mirror` in the first run; a directory root and a file root, three paths, one shared inode, every combination of absent, stale and equal destinations, one that may be a hardlink of its source, 7 kinds of fault, 2 workers, local, posix-rename and plain targets, a kill anywhere and one re-run |
| `stale_link` (violated) | is a removed source at its target? | two hardlinks, one root, failing copies |
| `interrupted_move` (violated) | does a `--move --mirror` survive a kill and a re-run of the same command? | the tree of `transfer`, no faults |
| `workpool` | does the composition of queue and gate lose wake-ups, slots or jobs? | 3 workers, 2 pushers, 3 jobs, limits 0 to 5 around a ceiling of 3 |
| `connpool` | deadlock, ceiling, accounting of the SSH pool | 3 copies, two of them with two connections each, at most 3 connections |
| `prefetch` | are listings delivered once, does everything end? | 5 directories, the root given twice, 2 listers |
| `dedup` | do clones have the right bytes, are claims always answered, are handles closed? | 3 copies, two with one destination, of 1 to 2 segments; two sources with two versions; 2 attempts; one copy with failing clones and renames |
| `dedup_reuse` (violated) | also when a recorded block is used again? | 2 copies of one block, two versions each |
| `monitors` | are verdicts of a stall right and hangs seen, does W settle at the knee and stay in bounds? | limits 1 to 5, knee at 3, average weight 2/3, margin 6 %, dwell 1, a probe every 2 samples, guards that read over or unknown, timeouts of 2 ticks, every kind of work but `takeback` |
| `false_stall` (violated) | also while `--move` removes its sources? | limits 1 to 3, no terminal |

Why these bounds are enough to meet the hard cases: the races of `dirmeta.go`
need the walk and one worker at one directory, a second worker makes two
completions race, and a subdirectory makes a parent wait for a child. In
`transfer` two hardlinks of one inode in two roots reach adoption, deferral,
and the removal of a source whose content is also elsewhere; the file root, the
one that a rename may take over a file, is the one whose destination may be the
source's own inode; a kill in the first run leaves every mixture of copied, linked and removed files for the
second, and a third would start from a mixture of the same kind. In `workpool`
more workers than slots and fewer slots than the ceiling make goroutines sleep
in both monitors at once. In `connpool` two copies that need two connections
each can fill the pool of three with one each. In `prefetch` a look-ahead of two
is smaller than the fan-out of three, so that scheduling, taking and listing
overlap, and a root given twice makes a path scheduled again. In `dedup` one
file is a part of another's extent (records and claims that cover more than is
asked for), one is written anew and shrinks while another moves to the blocks
it left (stale plans, stale reads, stale records), and two copies that publish
at one path make a record lead to a replaced file; a third copy is needed to
use that record. `ReuseRecorded = FALSE` leaves out, in `dedup` only, that a
block is used again while a live record names it: `dedup_reuse` shows that the
code does not survive it. Failing reads and opens come from a canceled run in
this instance; failing FIEMAPs are in the module and not in the instance. In
`monitors` the knee lies inside the bounds, so that the controller must climb,
overshoot, revert and trim; a window of two ticks is the least in which counting,
waiting and renewing differ. `takeback` is out of that instance: at a tick's
granularity it would let one step down cancel one step up in a window, which at
the code's timeout of minutes needs an exact cancellation at every sample of it.

**Fairness.** Weak fairness of each goroutine's steps: the Go scheduler runs
every runnable goroutine, and file operations return. A dial returns, because
`ssh` runs with a connect timeout. The controller, aborts, interrupts and kills
are never forced. `take` has no timeout of its own, so `WalkEnds` also needs
that `ReadDir` returns, which is the fairness of the lister. `Dedup` asks for
less: as long as some copy can take a step, one does (`CopiesEnd` holds then,
since the steps of the copies are bounded), while sources may change or not. In
`Monitors` time passes (a slice of work or of hanging, a tick) and goroutines
that are told to stop do; nothing forces data to flow, a stage to end or the
user to answer, so `HangSeen` and `Settles` state what they need as premises.

## 4. What is proved

For every value of the constants, from the named assumptions of the modules
(finite sets of goroutines, a tree of entries, a positive ceiling):

- **`DirMetaProofs`** — `TypeCorrect`, `PendingCorrect`, `EveryDirApplied`,
  `NoSecondPush`, `EveryFileTried`, `LoneEntryCorrect`. The properties are not
  inductive: that a directory is applied at the end depends on who will push
  it. `IInv` says where each goroutine can be in each phase (`Control`), what
  each join leaves (`Barriers`), that an entry is in one place (`Places`), that
  `pending` counts them, that the open directories are the walk's stack
  (`Stack`), and, the heart, `Responsible`: a closed directory that owes nothing
  and is not queued has some goroutine between its atomic step and its election.
  `OnTheWay` and `OnceOnTheWay` follow it to the metadata worker. `Tried` follows
  each file the same way. `LoneOver` says that a directory with one deferred
  entry is elected only when that entry is done with, so the race that
  `dirmeta_race` shows needs two. `ImplementsDirLife`: under the mapping `life`
  every step is a step of `DirLife` or a stutter.
- **`QueueGateProofs`** — no wake-up and no slot is lost, as inductive counts: items are covered by the woken plus the signals under way;
  free slots by the woken. **`WorkPoolProofs`** shows that every step of the
  pool is a step or a stutter of each monitor and so lifts both, that slots
  in use are the workers that run, and, with `JobPlaces` (a job is with its
  pusher, in the queue, with one worker, or over), that the pool implements
  `Jobs` (`PoolImplementsJobs`).
- **`ConnPoolProofs`** — the ceiling (with `DialFits`: a dial under way leaves
  room for its connection), that waiters have a dial, that sharing needs a pool
  that cannot grow, that loads are the numbers of open files.
- **`PrefetchProofs`** — all four invariants, for any graph of directories and
  any list of roots. `Tasks` says that the tasks, queued or taken, are different
  directories, each wanted, and that what is wanted has one until close;
  `Stacked` that scheduling is never behind visiting, so that a result is always
  for a directory the walk comes by.
- **`TransferProofs`** — for any number of runs, each of which may be killed
  anywhere. They rest on four invariants: `Types`, `Barriers` (what the
  joins leave), `Places` (a source is in one place: unseen, to be visited,
  queued, with a worker, deferred, or recorded for removal) and, for where it is
  while nothing is halted, `Followed`.
  - `TypeCorrect`; `RemovalsAfterWholeWalk`, from `Barriers` and `Followed`;
    `CleanMoveEmpties`, from these two and `Owed`: a source that is counted as
    transferred and is still there is recorded for removal. It needs nothing of
    the command line: sources may share a destination or an inode.
  - `TransferredStays`: what is counted as transferred is touched by no later step
    of the run. It rests on `Counted`, below: a counted source has left every
    place, so no worker and no link will come to its destination, and each root
    that the mirror pass will visit has its counted sources still in it, or never
    had them, which is why nothing may leave the source before that pass.
  - `NothingLost`, with `MirrorWhole` (the roots the mirror pass will visit are
    whole until then), `PrimaryKept` and `SomeKept`: of each content some source
    is kept, which is there and not recorded for removal, or whose destination
    has it, and links follow a kept primary. `LoneSourceKept` uses the same
    invariants for a source without hardlinks: its *own* destination has it when
    it is gone. So `RemovedAtTarget`: where there are no hardlinks the promise
    that `stale_link` refutes does hold.
  - `CleanRunComplete`. That a counted source is at its destination is not
    inductive: a later path counts because its destination is the same file as
    the first path's, which may still be about to change. `Counted` says that
    a counted source has left every place and that the mirror pass will find it
    or pass it by, so that its destination stays (`CountedKept`); `SameFile`
    that an identity determines a content, of all files that are, were or can be
    made; `Primaries` that each entry of `hardlinkMap` is the destination of a
    path that was visited, counted if it was adopted, and what each deferred
    link points to; `Settled` that the counted ones are at their destinations,
    while nothing went wrong; `Grouped` that a visited path of a shared inode is
    the first, is deferred, or is one file with the first, which from then on
    does not change. `Grouped` is also where one sees why adoption asks for the
    *adopted* flag: without it the first path might still be copied.
  - `MirrorExact`, with `Exact`: under `--mirror` a root is still to be walked,
    or to be mirrored, or has a failed file, or has at its destination only what
    it should. The other inclusion is the last part of `Counted`.

  All but `TypeCorrect`, `RemovalsAfterWholeWalk` and `CleanMoveEmpties` need
  `Distinct` (no two sources and no two roots share a destination or
  lie in one another) and an `Lstat` that does not fail on a source that is there
  (`"lstat" \notin Faults`); those about lost content also that only the first run
  mirrors (with the former, `SafeMirror`): without any of these the code does
  lose content, see section 5. `MirrorExact` also needs `NoEmptyRoot`: the model
  counts the failure of a root by its files, so that of an empty one would go
  unseen.
- **`DedupProofs`** — for any number of copies, versions of their sources and
  attempts, in three layers. `Shape`: types; the segments still to be copied
  tile the rest of the file (`Tiles`); records lie in the filled part of the file
  they name; claims are held by a copy at work on them. From it follow
  `TypeCorrect`, `ClaimsHeldCorrect` and `HandlesClosedCorrect`. `Honest`: what a
  copy read of a segment it read after the extent was seen in its place
  (`ReadSince`), so a record that the second FIEMAP lets through leads to bytes
  its blocks had (`RecordsHonestCorrect`). `Faithful`: what a copy cloned is what
  its own source has there, if the extent is still in its place, now or later
  (`Fits`), which is what the check before the rename asks for
  (`CopyIsOwnCorrect`).
  `PlanCorrect` is about the algorithm alone: `planSegments`, for every list of
  extents (overlapping, out of order, beyond the end) and every size, cuts the
  file into consecutive non-empty segments that cover it, and puts a shared one
  only where an extent does. `Plan` is a recursive function over the
  prefixes of the list, and the induction is one over a set of numbers
  (`SetInduction`), because the library's induction theorems cannot be used.
  The last two layers assume `NoReturn`: a shared block is not written in
  place, and a file that has left a block does not come back to it. A shared
  extent is copied on write, so a write moves the file elsewhere; that it never
  comes back during one copy is an assumption about the file system, which the
  two looks of the code (FIEMAP again, and the check) cannot replace.
  `CopyIsOwnCorrect` also assumes `~ReuseRecorded`, the case that `dedup_reuse`
  refutes.
- **`MonitorsProofs`** — `TypeCorrect` with `Order` (the limit to go back to is
  never above the present one while climbing, nor more than one above it while
  trimming); `GuardsForbidGrowing`; `NoFalseStallIfHonest`: with `Window` (what
  the detector counts is what was done since), and if every watched kind of work
  adds to the count and no kind takes from it, no verdict is false, for every
  timeout. `false_stall` shows that the premise is not met by removals.

Every invariant and every action property that the runs check is a theorem.
Only model-checked: liveness (`Terminates`, `WalkEnds`, `CopiesEnd`, `HangSeen`,
`Settles`) and the fairness parts of `LifeSpec` and `JobsSpec`, which are beyond
the provers.

## 5. Divergences between the code and its texts

Found while modelling, each with a run that shows it:

- `dirmeta_race`: `completeDirWork` reads `closed` after its decrement. Between
  the two the walk may add a job and close the directory; metadata is then
  applied before that job's file arrives, and the directory keeps the time of
  the copy.
- `stale_link`: after the failed copy of a primary, its old destination is
  linked in the place of the secondary and the secondary's source is removed.
- `interrupted_move`: with `--move --mirror`, a run that is stopped in its
  removal pass and given again finds no counterpart for the files whose sources
  it has removed, and the mirror pass deletes them.
- `dedup_reuse`: the index finds records by physical address for the whole run.
  When a source's blocks are freed and written anew, a copy of the new file
  clones the bytes of the old one; the check at its end compares only with its
  own plan.
- `false_stall`: removals do not count as progress, while the watchdog runs
  until they are over; a long pass is taken for a stall.

Seen in the code, without a run:

- `mirrorDir` takes any `Lstat` error for a missing source (`mirror.go:30`); two
  roots that share a destination empty each other under `--mirror`, and with
  `--move` both are removed and one content is kept (`move.go:16`); a root given
  twice with a hardlinked file is linked to itself, the old destination having
  been removed first; a remote file root is not recognised as being its own
  destination.
- `--fatal-errors` does not stop the removal pass; `renameRoot` replaces an
  existing file although the README says the name is free; a failing `Link` has
  already removed the old destination.
- `visitDir` schedules its first siblings in walk order (`walk.go:192`) on a
  stack, so the farthest is listed first, against the comment at `walk.go:476`;
  it costs time only.
- The watchdog's abort cannot end a call that hangs; `--checksum` comparisons
  read without moving the counters, so they look like blocked storage to the
  controller (`autoscale.go:71`) and like a stall to the watchdog; the
  controller's `peakT` never falls, so after a lasting slow-down every trim is
  taken back.
- `docs/ssh.md` contradicts itself and the code about sharing. `acquire` dials
  before it shares, which is what `SharedOnlyWhenFull` states and
  `SharesOnlyWhenFull` proves, and what `docs/ssh.md:41` says ("One connection per
  file being transferred"). `docs/ssh.md:52` says the opposite ("Failing that, it
  takes one that carries a transfer but has nothing outstanding right now"), and so
  does `:57` ("A copy of multiple files against a fast server usually stays on
  one"): `acquire` does not look at what is outstanding. So the passing run shows
  what the code does, not that these two lines are right. `docs/ssh.md:55` has the
  first connection "kept clear of transfers", where `leastLoadedLocked` takes any.

## 6. Not modelled, and why

Dry runs change nothing. Symlinks, excludes, mount points, comparisons,
option and location parsing are sequential and pure. xattrs, device and load
probes and dialling are system calls. Output is text. Of the single-file copy,
the way a whole file is read (FICLONE, `copy_file_range`, sparse or plain), its
metadata and the way round a read-only target are one step each or left out.
Temporary files are not on the disks of `Transfer`, and `Dedup` does not follow
their removal: that a failed copy leaves the destination alone is how publication
by rename is modelled, not a result. A destination *path* that leads to the source
itself through a symlinked directory is not in `Transfer`, whose paths are apart;
a destination that is the source's inode is, as a hardlink. That `Lstat` fails on
a source that is there (`"lstat"` in `Faults`) is in the module and in no
instance: with it the mirror pass deletes the only copy, section 5.
`Dedup` has one source and one destination device, no clone probe, no limit of
the backward scan, and inode numbers that are not used again. The space guard's
verdict is an abort that may come before any copy; its running estimate, a sum
of reservations over a measured value, is left out, because ENOSPC stands behind
it and no text says how near it must be. Of the SSH pool, requests on metadata
go to the first connection when it is free, else to the one with the
fewest requests in flight, and reserve none (`pick`, `run`), so they
change no state `acquire` depends on; the meters and the pool's statistics are
text.

## 7. Plan

Done: every module above with its proofs. What is left, in this order:

1. What the proofs leave open between the models: that a step of `WorkPool` is
   what `Transfer` and `DirMeta` take for one, as theorems about a common
   abstraction.
2. The rest of the single-file copy: the metadata errors of `CopyFile`,
   `replace` with a read-only target.
3. Algorithms checked against reference definitions over bounded inputs:
   `writeNonZero`, size parsing.
4. The space guard's estimate, if the repository comes to state a bound for it.
