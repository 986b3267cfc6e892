------------------------------- MODULE Dedup -------------------------------
(***************************************************************************)
(* Concurrent calls of fsx.CopyFile that share a Dedup index               *)
(* (internal/fsx: copy.go, copy_linux.go, extents.go, extents_linux.go).   *)
(* A file is copied into a temporary file, which is renamed into place.    *)
(* Where the source has shared extents, the copy of one file records where *)
(* they landed, and other copies clone them from there, from the temporary *)
(* file or, later, from the published one; a copy that needs an extent     *)
(* which another is copying waits for it.                                  *)
(*                                                                         *)
(* The unit of data is a block.  Source file c goes through the versions   *)
(* Versions[c] while it is copied: a version has its bytes, the extents    *)
(* that map them to physical blocks, and its mtime.  Metadata, fsync and   *)
(* close are part of Publish.  A whole-file copy is one step, by whatever  *)
(* means: FICLONE, copy_file_range, sparse or plain.  The index is that of *)
(* one source device, and the destination is one device; find's limit of   *)
(* eight records is out of reach.                                          *)
(***************************************************************************)
EXTENDS Integers, Sequences, FiniteSets, Functions

CONSTANTS Copies,        \* the calls of CopyFile, one goroutine each
          Versions,      \* Versions[c]: sequence of [bytes, exts, mtime]
          DstOf,         \* DstOf[c]: its destination path
          MaxAttempts,   \* maxRetries + 1
          Faults,        \* <<c, f>>: copy c may meet failure f, of
                         \* "open", "io", "map", "clone" and "publish"
          ReuseRecorded  \* a block that a record names may be used again

ASSUME DedupAssumption ==
    /\ MaxAttempts \in Nat \ {0}
    /\ IsFiniteSet(Copies) /\ DOMAIN DstOf = Copies /\ DOMAIN Versions = Copies
    /\ ReuseRecorded \in BOOLEAN
    /\ Faults \subseteq Copies \X {"open", "io", "map", "clone", "publish"}

-----------------------------------------------------------------------------
(* The disk of the sources.                                                 *)

Blocks == UNION {UNION {UNION {e.phys..e.phys + e.len - 1 : e \in Range(Versions[c][v].exts)}
                        : v \in DOMAIN Versions[c]} : c \in Copies}

\* The bytes of file c, at version v, that are in the physical block p.
Holds(c, v, p) ==
    {Versions[c][v].bytes[e.log + p - e.phys + 1] :
        e \in {e \in Range(Versions[c][v].exts) : e.phys <= p /\ p < e.phys + e.len}}

\* With file c at version vs[c], every block has one content.
Consistent(vs) ==
    \A p \in Blocks : \A c, d \in Copies :
        \A x \in Holds(c, vs[c], p), y \in Holds(d, vs[d], p) : x = y

\* Extents lie in the file, and the first versions are on one disk together.
ASSUME SourceAssumption ==
    /\ \A c \in Copies :
          /\ Versions[c] \in Seq([bytes : Seq(Nat), mtime : Nat,
                                exts : Seq([log : Nat, phys : Nat, len : Nat, shared : BOOLEAN])])
          /\ Versions[c] # <<>>
          /\ \A v \in DOMAIN Versions[c] : \A e \in Range(Versions[c][v].exts) :
                e.log + e.len <= Len(Versions[c][v].bytes)
    /\ Consistent([c \in Copies |-> 1])

\* Byte i of file c, counted from 0, is at version v in block p of a shared extent.
At(c, v, i, p) ==
    \E e \in Range(Versions[c][v].exts) :
        e.shared /\ e.log <= i /\ i < e.log + e.len /\ e.phys + (i - e.log) = p

\* A shared block is not written in place, and a file that has left one does not
\* come back to it.  The proofs about contents need it, the model does not.
NoReturn ==
    \A c \in Copies : \A v, w, x \in DOMAIN Versions[c] : v <= w /\ w <= x =>
        \A i \in 0..Len(Versions[c][v].bytes) - 1, p \in Blocks :
            At(c, v, i, p) /\ At(c, x, i, p) =>
                At(c, w, i, p) /\ Versions[c][w].bytes[i + 1] = Versions[c][v].bytes[i + 1]

-----------------------------------------------------------------------------
VARIABLES
    ver,        \* the version source file c is at
    canceled,   \* the run has aborted
    stage,      \* where copy c is
    try,        \* its attempt
    since,      \* the version at which the attempt opened the source
    stat,       \* the mtime copyDedup has seen first
    segs,       \* the segments still to be copied
    cloned,     \* those it has cloned
    data,       \* the contents of its temporary file, then of the published one
    ref,        \* its destRef: "temp" (a handle is open), "path", or "dead" if it has none
    found,      \* the record that acquire returned, or <<>>
    recs,       \* byDev: the records, [phys, len, off, by, try]
    claims,     \* inflight: [phys, len, by]
    waitFor,    \* the copy whose claim c waits for
    at          \* at[p]: the file at destination path p, <<copy, attempt>>, or <<>>

fileVars == <<try, since, stat, segs, cloned, data, ref>>
indexVars == <<found, recs, claims, waitFor>>
vars == <<ver, canceled, stage, fileVars, indexVars, at>>

Size(c) == Len(Versions[c][1].bytes)         \* as the walk has seen it
Now(c) == Versions[c][ver[c]]
Blank(c) == [i \in 1..Size(c) |-> 0]

Init ==
    /\ ver = [c \in Copies |-> 1] /\ canceled = FALSE
    /\ stage = [c \in Copies |-> "start"] /\ try = [c \in Copies |-> 1]
    /\ since = [c \in Copies |-> 1] /\ stat = [c \in Copies |-> 0]
    /\ segs = [c \in Copies |-> <<>>] /\ cloned = [c \in Copies |-> {}]
    /\ data = [c \in Copies |-> <<>>] /\ ref = [c \in Copies |-> "dead"]
    /\ found = [c \in Copies |-> <<>>] /\ recs = {} /\ claims = {}
    /\ waitFor = [c \in Copies |-> c]
    /\ at = [p \in {DstOf[c] : c \in Copies} |-> <<>>]

-----------------------------------------------------------------------------
(* Extents and segments.                                                    *)

Smaller(a, b) == IF a < b THEN a ELSE b
Larger(a, b) == IF a < b THEN b ELSE a

Gap(lo, hi) == IF lo < hi THEN <<[off |-> lo, len |-> hi - lo, phys |-> 0, shared |-> FALSE]>> ELSE <<>>

\* planSegments: shared extents, and the gaps between them.  One extent is added
\* to a plan that has come to position done.pos of the file.
PlanExtent(done, e, size) ==
    LET lo == Larger(e.log, done.pos)  hi == Smaller(e.log + e.len, size)
    IN IF hi <= lo \/ ~e.shared THEN done
       ELSE [segs |-> done.segs \o Gap(done.pos, lo)
                      \o <<[off |-> lo, len |-> hi - lo, phys |-> e.phys + (lo - e.log), shared |-> TRUE]>>,
             pos |-> hi]

Plan(exts, size) ==
    LET plan[k \in 0..Len(exts)] ==
            IF k = 0 THEN [segs |-> <<>>, pos |-> 0] ELSE PlanExtent(plan[k - 1], exts[k], size)
    IN plan[Len(exts)]

PlanSegments(exts, size) == LET all == Plan(exts, size) IN all.segs \o Gap(all.pos, size)

AnyShared(ss) == \E i \in 1..Len(ss) : ss[i].shared

\* One of the extents places all of segment s where s says.
Mapped(exts, s) ==
    \E i \in 1..Len(exts) :
        /\ exts[i].log <= s.off /\ s.off + s.len <= exts[i].log + exts[i].len
        /\ exts[i].shared /\ exts[i].phys + (s.off - exts[i].log) = s.phys

Covers(r, s) == r.phys <= s.phys /\ s.phys + s.len <= r.phys + r.len

\* The file of a record: not dead, and, once published, still at its path.
Live(r) == r.try = try[r.by] /\ ref[r.by] \in {"temp", "path"}
Reachable(r) == Live(r) /\ (ref[r.by] = "path" => at[DstOf[r.by]] = <<r.by, r.try>>)

\* find: the last of the live records that cover s, in the index's order.
Later(a, b) == a.phys > b.phys \/ (a.phys = b.phys /\ a.len > b.len)
Found(s) == {r \in recs : Live(r) /\ Covers(r, s)}
Best(s) == CHOOSE r \in Found(s) : \A q \in Found(s) \ {r} : Later(r, q)

-----------------------------------------------------------------------------
(* Steps of one copy.                                                       *)

Fails(c, f) == <<c, f>> \in Faults
Broken(c) == canceled \/ Fails(c, "io")

Go(c, next) == stage' = [stage EXCEPT ![c] = next]

Forget(c) ==
    /\ stat' = [stat EXCEPT ![c] = 0] /\ segs' = [segs EXCEPT ![c] = <<>>]
    /\ cloned' = [cloned EXCEPT ![c] = {}]

\* Leaves the segment at hand, which is copied or cloned.
Advance(c) == segs' = [segs EXCEPT ![c] = Tail(@)]

\* Mutant: the claim is dropped but its channel is not closed, so nobody wakes.
ReleaseQuiet(c, next) ==
    /\ claims' = {k \in claims : k.by # c}
    /\ Go(c, next)

\* release: the claim of c ends, and whoever waits for it looks again.
Release(c, next) ==
    /\ claims' = {k \in claims : k.by # c}
    /\ stage' = [x \in Copies |->
                    IF x = c THEN next
                    ELSE IF stage[x] = "waiting" /\ waitFor[x] = c THEN "shared"
                    ELSE stage[x]]

\* CopyFile opens the source and creates the temporary file.  It is copied as a
\* whole, where dedup does not apply, or copyDedup's Fstat comes first.
Begin(c) ==
    /\ stage[c] = "start"
    /\ \/ (canceled \/ Fails(c, "open")) /\ Go(c, "failed") /\ UNCHANGED <<since, stat, data>>
       \/ /\ ~canceled /\ since' = [since EXCEPT ![c] = ver[c]] /\ data' = [data EXCEPT ![c] = Blank(c)]
          /\ \/ Go(c, "whole") /\ UNCHANGED stat
             \/ Go(c, "map") /\ stat' = [stat EXCEPT ![c] = Now(c).mtime]
    /\ UNCHANGED <<ver, canceled, try, segs, cloned, ref, indexVars, at>>

\* copyData, when the extents are of no use: copy_file_range ends at the size that
\* the walk has seen, the other ways at the end of the source.
WholeCopy(c) ==
    /\ stage[c] = "whole"
    /\ \/ /\ Go(c, "publish")
          /\ \E n \in {Len(Now(c).bytes), Smaller(Size(c), Len(Now(c).bytes))} :
                data' = [data EXCEPT ![c] = SubSeq(Now(c).bytes, 1, n)]
       \/ Broken(c) /\ Go(c, "failed") /\ UNCHANGED data
    /\ UNCHANGED <<ver, canceled, try, since, stat, segs, cloned, ref, indexVars, at>>

\* FIEMAP, and the plan.
MapSource(c) ==
    /\ stage[c] = "map"
    /\ LET plan == PlanSegments(Now(c).exts, Size(c)) IN
       \/ /\ AnyShared(plan) /\ Go(c, "segment")
          /\ segs' = [segs EXCEPT ![c] = plan] /\ ref' = [ref EXCEPT ![c] = "temp"] /\ UNCHANGED <<stat, cloned>>
       \/ (~AnyShared(plan) \/ Fails(c, "map")) /\ Go(c, "whole") /\ Forget(c) /\ UNCHANGED ref
    /\ UNCHANGED <<ver, canceled, try, since, data, indexVars, at>>

\* copyRange, in full; it may also meet the end of a source that shrank, or fail.
CopyRange(c) ==
    LET s == Head(segs[c])  b == Now(c).bytes IN
    /\ s.off + s.len <= Len(b)
    /\ data' = [data EXCEPT ![c] = [i \in 1..Size(c) |-> IF i \in s.off + 1..s.off + s.len THEN b[i] ELSE @[i]]]
ReadErrors(c) ==
    (IF Head(segs[c]).off + Head(segs[c]).len > Len(Now(c).bytes) THEN {"changed"} ELSE {})
    \cup (IF Broken(c) THEN {"failed"} ELSE {})

EndSegments(c) ==
    /\ stage[c] = "segment"
    /\ \/ segs[c] = <<>> /\ Go(c, "check")
       \/ (IF segs[c] = <<>> THEN Fails(c, "io") ELSE canceled) /\ Go(c, "failed")
    /\ UNCHANGED <<ver, canceled, fileVars, indexVars, at>>

CopyUnshared(c) ==
    /\ stage[c] = "segment" /\ segs[c] # <<>> /\ ~canceled /\ ~Head(segs[c]).shared
    /\ \/ CopyRange(c) /\ Advance(c) /\ UNCHANGED stage
       \/ \E next \in ReadErrors(c) : Go(c, next) /\ UNCHANGED <<segs, data>>
    /\ UNCHANGED <<ver, canceled, try, since, stat, cloned, ref, indexVars, at>>

-----------------------------------------------------------------------------
(* copyShared.                                                              *)

Acquiring(c) ==
    /\ segs[c] # <<>> /\ Head(segs[c]).shared
    /\ stage[c] = "shared" \/ (stage[c] = "segment" /\ ~canceled)

\* acquire finds a record.
AcquireRecord(c) ==
    /\ Acquiring(c) /\ Found(Head(segs[c])) # {}
    /\ found' = [found EXCEPT ![c] = Best(Head(segs[c]))]
    /\ Go(c, "clone")
    /\ UNCHANGED <<ver, canceled, fileVars, recs, claims, waitFor, at>>

\* acquire finds a claim of another worker, to wait for.
AcquireWait(c) ==
    /\ Acquiring(c) /\ Found(Head(segs[c])) = {}
    /\ \E k \in claims : Covers(k, Head(segs[c])) /\ waitFor' = [waitFor EXCEPT ![c] = k.by]
    /\ Go(c, "waiting")
    /\ UNCHANGED <<ver, canceled, fileVars, found, recs, claims, at>>

\* Mutant: acquire does not look at the claims of others.
AcquireClaimBlind(c) ==
    /\ Acquiring(c) /\ Found(Head(segs[c])) = {}
    /\ claims' = claims \cup {[phys |-> Head(segs[c]).phys, len |-> Head(segs[c]).len, by |-> c]}
    /\ Go(c, "claimed")
    /\ UNCHANGED <<ver, canceled, fileVars, found, recs, waitFor, at>>

\* acquire makes a claim.
AcquireClaim(c) ==
    /\ Acquiring(c) /\ Found(Head(segs[c])) = {}
    /\ \A k \in claims : ~Covers(k, Head(segs[c]))
    /\ claims' = claims \cup {[phys |-> Head(segs[c]).phys, len |-> Head(segs[c]).len, by |-> c]}
    /\ Go(c, "claimed")
    /\ UNCHANGED <<ver, canceled, fileVars, found, recs, waitFor, at>>

\* wait sees that the run is canceled.
StopWaiting(c) ==
    /\ stage[c] = "waiting" /\ canceled /\ Go(c, "failed")
    /\ UNCHANGED <<ver, canceled, fileVars, indexVars, at>>

\* cloneFrom: the ioctl runs under the destRef's lock; a failed clone is copied.
Clone(c) ==
    /\ stage[c] = "clone"
    /\ LET r == found[c]  s == Head(segs[c])  from == r.off + s.phys - r.phys IN
       \/ /\ Reachable(r)
          /\ data' = [data EXCEPT ![c] = [i \in 1..Size(c) |->
                          IF i \in s.off + 1..s.off + s.len THEN data[r.by][from + i - s.off] ELSE @[i]]]
          /\ cloned' = [cloned EXCEPT ![c] = @ \cup {s}]
          /\ Advance(c) /\ Go(c, "segment")
       \/ /\ ~Reachable(r) \/ Fails(c, "clone")
          /\ Go(c, "recopy") /\ UNCHANGED <<segs, cloned, data>>
    /\ found' = [found EXCEPT ![c] = <<>>]
    /\ UNCHANGED <<ver, canceled, try, since, stat, ref, recs, claims, waitFor, at>>

\* The bytes are read, under a claim or not; a failure releases the claim.
CopyShared(c) ==
    /\ stage[c] \in {"claimed", "recopy"}
    /\ \/ CopyRange(c) /\ Go(c, "record") /\ UNCHANGED claims
       \/ \E next \in ReadErrors(c) : Release(c, next) /\ UNCHANGED data
    /\ UNCHANGED <<ver, canceled, try, since, stat, segs, cloned, ref, found, recs, waitFor, at>>

Insert(c) ==
    LET s == Head(segs[c]) IN
    recs' = {r \in recs : r.phys # s.phys \/ r.len # s.len}
            \cup {[phys |-> s.phys, len |-> s.len, off |-> s.off, by |-> c, try |-> try[c]]}

\* Mutant: the bytes are recorded without a second look at the source.
RecordBlind(c) ==
    /\ stage[c] = "record"
    /\ Insert(c)
    /\ Release(c, "segment") /\ Advance(c)
    /\ UNCHANGED <<ver, canceled, try, since, stat, cloned, data, ref, found, waitFor, at>>

\* record, and release or insert.
Record(c) ==
    /\ stage[c] = "record"
    /\ \/ Mapped(Now(c).exts, Head(segs[c])) /\ Insert(c)
       \/ (~Mapped(Now(c).exts, Head(segs[c])) \/ Fails(c, "map")) /\ UNCHANGED recs
    /\ Release(c, "segment") /\ Advance(c)
    /\ UNCHANGED <<ver, canceled, try, since, stat, cloned, data, ref, found, waitFor, at>>

-----------------------------------------------------------------------------
(* The end of a copy.                                                       *)

\* Mutant: the clones are not checked against the source.
CheckNothing(c) ==
    /\ stage[c] = "check" /\ Go(c, "publish")
    /\ Forget(c) /\ UNCHANGED <<ver, canceled, try, since, data, ref, indexVars, at>>

\* unchanged
Check(c) ==
    /\ stage[c] = "check"
    /\ LET same == /\ Now(c).mtime = stat[c] /\ Len(Now(c).bytes) = Size(c)
                   /\ \A s \in cloned[c] : Mapped(Now(c).exts, s)
       IN \/ same /\ Go(c, "publish")
          \/ (~same \/ Fails(c, "map")) /\ Go(c, "changed")
    /\ Forget(c) /\ UNCHANGED <<ver, canceled, try, since, data, ref, indexVars, at>>

\* The source changed: kill, Truncate(0), and a copy of the whole file.  A Truncate
\* that fails is one with a WholeCopy that fails.
Restart(c) ==
    /\ stage[c] = "changed" /\ Go(c, "whole")
    /\ ref' = [ref EXCEPT ![c] = "dead"]
    /\ Forget(c) /\ data' = [data EXCEPT ![c] = <<>>]
    /\ UNCHANGED <<ver, canceled, try, since, indexVars, at>>

\* The rename; or one of the steps before it fails.
Publish(c) ==
    /\ stage[c] = "publish"
    /\ \/ Go(c, "commit") /\ at' = [at EXCEPT ![DstOf[c]] = <<c, try[c]>>]
       \/ Fails(c, "publish") /\ Go(c, "failed") /\ UNCHANGED at
    /\ UNCHANGED <<ver, canceled, fileVars, indexVars>>

\* commit
Commit(c) ==
    /\ stage[c] = "commit" /\ Go(c, "done")
    /\ ref' = [ref EXCEPT ![c] = IF @ = "temp" THEN "path" ELSE @]
    /\ UNCHANGED <<ver, canceled, try, since, stat, segs, cloned, data, indexVars, at>>

\* Mutant: one attempt too many.
RetryOrEndLate(c) ==
    \/ try[c] <= MaxAttempts /\ ~canceled /\ Go(c, "start") /\ try' = [try EXCEPT ![c] = @ + 1]
    \/ Go(c, "done") /\ UNCHANGED try

\* copyOne tries again, unless the error is final or the run is canceled.
RetryOrEnd(c) ==
    \/ try[c] < MaxAttempts /\ ~canceled /\ Go(c, "start") /\ try' = [try EXCEPT ![c] = @ + 1]
    \/ Go(c, "done") /\ UNCHANGED try

\* Mutant: the temporary file is removed, its handle stays open.
CleanUpAlive(c) ==
    /\ stage[c] = "failed" /\ RetryOrEnd(c)
    /\ Forget(c) /\ data' = [data EXCEPT ![c] = <<>>]
    /\ UNCHANGED <<ver, canceled, since, ref, indexVars, at>>

\* CopyFile's deferred cleanup: kill, and the temporary file is removed.
CleanUp(c) ==
    /\ stage[c] = "failed" /\ RetryOrEnd(c)
    /\ ref' = [ref EXCEPT ![c] = "dead"]
    /\ Forget(c) /\ data' = [data EXCEPT ![c] = <<>>]
    /\ UNCHANGED <<ver, canceled, since, indexVars, at>>

-----------------------------------------------------------------------------
(* The source file system.                                                  *)

\* Somebody writes to the source, or its file system moves it.  Blocks are shared
\* by files that hold the same bytes there, and are used again when they are free.
Move(c) ==
    /\ ver[c] < Len(Versions[c]) /\ ver' = [ver EXCEPT ![c] = @ + 1]
    /\ Consistent(ver')
    /\ ~ReuseRecorded => \A p \in Blocks :
          ~(Holds(c, ver'[c], p) \subseteq Holds(c, ver[c], p))
              => \A r \in recs : Live(r) => p \notin r.phys..r.phys + r.len - 1
    /\ UNCHANGED <<canceled, stage, fileVars, indexVars, at>>

Cancel == ~canceled /\ canceled' = TRUE /\ UNCHANGED <<ver, stage, fileVars, indexVars, at>>

CopyStep(c) ==
    \/ Begin(c) \/ WholeCopy(c) \/ MapSource(c) \/ EndSegments(c) \/ CopyUnshared(c)
    \/ AcquireRecord(c) \/ AcquireWait(c) \/ AcquireClaim(c) \/ StopWaiting(c)
    \/ Clone(c) \/ CopyShared(c) \/ Record(c)
    \/ Check(c) \/ Restart(c) \/ Publish(c) \/ Commit(c) \/ CleanUp(c)

Finished == (\A c \in Copies : stage[c] = "done") /\ UNCHANGED vars

Next == Cancel \/ Finished \/ \E c \in Copies : Move(c) \/ CopyStep(c)

Spec == Init /\ [][Next]_vars /\ WF_vars(\E c \in Copies : CopyStep(c))

-----------------------------------------------------------------------------
TypeOK ==
    /\ stage \in [Copies -> {"start", "map", "segment", "shared", "waiting", "clone", "claimed", "recopy",
                             "record", "check", "changed", "whole", "publish", "commit", "failed", "done"}]
    /\ ver \in [Copies -> Nat \ {0}] /\ since \in [Copies -> Nat \ {0}] /\ canceled \in BOOLEAN
    /\ try \in [Copies -> 1..MaxAttempts] /\ ref \in [Copies -> {"temp", "path", "dead"}]
    /\ waitFor \in [Copies -> Copies]
    /\ \A r \in recs : r.by \in Copies /\ r.try \in 1..try[r.by]
    /\ \A k \in claims : k.by \in Copies
    /\ \A c \in Copies : stage[c] = "clone" => found[c] # <<>> /\ Covers(found[c], Head(segs[c]))

\* copy.go:44 "copies the regular file at src": every block of a published file
\* is one that the source had there while it was copied, also if it was cloned
\* from another copy's file, was moved, or was written to during the copy.
CopyIsOwn ==
    \A c \in Copies : at[DstOf[c]] = <<c, try[c]>> =>
        /\ Len(data[c]) \in {Size(c)} \cup {Len(Versions[c][v].bytes) : v \in since[c]..ver[c]}
        /\ \A i \in 1..Len(data[c]) : \E v \in since[c]..ver[c] :
              i <= Len(Versions[c][v].bytes) /\ data[c][i] = Versions[c][v].bytes[i]

\* The bytes that physical block p has had.
BytesAt(p) == UNION {UNION {Holds(c, v, p) : v \in 1..ver[c]} : c \in Copies}

\* Every record that can be cloned from leads to a file that holds the bytes of
\* its physical range, through retries, restarts and replaced destinations.
RecordsHonest ==
    \A r \in recs : Reachable(r) =>
        \A i \in 1..r.len : data[r.by][r.off + i] \in BytesAt(r.phys + i - 1)

\* A claim is held by a copy that is at work on it, a copy that waits does so
\* for such a claim, and no extent is copied twice at once (README.md:45 "Shared
\* source extents copied once").
ClaimsHeld ==
    /\ \A k \in claims : stage[k.by] \in {"claimed", "record"}
    /\ \A k, l \in claims : k.by = l.by \/ (k.phys = l.phys /\ k.len = l.len) => k = l
    /\ \A c \in Copies : stage[c] = "waiting" =>
          \E k \in claims : k.by = waitFor[c] /\ Covers(k, Head(segs[c]))

\* extents.go:42 "a dup of the temp file's descriptor": a copy that is over,
\* or starts again, has none open.
HandlesClosed == \A c \in Copies : stage[c] \in {"start", "done"} => ref[c] # "temp"

\* Every copy ends: waits for other copies are answered, whatever these meet.
CopiesEnd == <>(\A c \in Copies : stage[c] = "done")
=============================================================================
