--------------------------- MODULE TransferProofs ---------------------------
(*****************************************************************************)
(* Proofs about Transfer, for any roots, files, faults and number of runs:   *)
(* its type, when sources are removed and no content is lost, that what is   *)
(* transferred stays, that a run without a failure is complete and a move    *)
(* empties its sources, and what the mirror pass leaves.                     *)
(*****************************************************************************)
EXTENDS Transfer, SequenceTheorems, TLAPS

\* Where a source is: below a root that is still to be opened, in the job
\* queue, with a worker, among the deferred links, recorded for removal.
Unseen == {s \in Srcs : \E k \in DOMAIN roots : s \in RootFiles[roots[k]] /\ (k # 1 \/ ~opened)}
Queued == {s \in Srcs : \E j \in jobs : j.src = s}
Busy == {s \in Srcs : \E w \in Workers : worker[w].stage # "idle" /\ worker[w].src = s}
Linked == {s \in Srcs : \E k \in DOMAIN links : links[k].src = s}
Recorded == moved \cup removing

\* What TypeOK leaves out.
JobType == [src : Srcs, check : BOOLEAN]
StageType == [stage : {"idle"}] \cup [stage : {"compare", "copy"}, src : Srcs]
LinkType == [src : Srcs, target : Dsts, unlinked : BOOLEAN]

Types ==
    /\ TypeOK
    /\ dst \in [Dsts -> Files]
    /\ roots \in Seq(DOMAIN RootFiles) /\ mirrorRoots \in Seq(DOMAIN RootFiles)
    /\ opened => roots # <<>>
    /\ jobs \subseteq JobType
    /\ worker \in [Workers -> StageType]
    /\ links \in Seq(LinkType)
    /\ \A i \in DOMAIN primary : primary[i].dst \in Dsts

\* What Main's joins leave behind.
Barriers ==
    /\ opened => phase = "walk"
    /\ ~opened => todo = {}
    /\ phase \notin {"walk", "drain"} => Queued = {} /\ Busy = {}
    /\ phase \notin {"walk", "drain", "links"} => Linked = {}
    /\ phase \in {"remove"} => mirrorRoots = <<>>

\* A source that no step has settled is still in the hands of somebody, unless
\* the run was halted or its walk failed.
Followed ==
    ~walkErr /\ (~Halted \/ phase \in {"mirror", "remove"}) =>
        /\ phase # "walk" => roots = <<>>
        /\ \A s \in src : outcome[s] = "none" => s \in todo \cup Unseen \cup Queued \cup Busy \cup Linked

\* A source is in one place.
Places ==
    /\ todo \cap (Unseen \cup Queued \cup Busy \cup Linked \cup Recorded) = {}
    /\ Unseen \cap (Queued \cup Busy \cup Linked \cup Recorded) = {}
    /\ Queued \cap (Busy \cup Linked \cup Recorded) = {}
    /\ Busy \cap (Linked \cup Recorded) = {}
    /\ Linked \cap Recorded = {}
    /\ \A i, j \in jobs : i.src = j.src => i = j
    /\ \A v, w \in Workers : worker[v].stage # "idle" /\ worker[w].stage # "idle" /\ v # w => worker[v].src # worker[w].src
    /\ \A k, l \in DOMAIN links : k # l => links[k].src # links[l].src
    /\ todo \cup Queued \cup Busy \cup Linked \subseteq src

\* The roots still to be opened are different from one another and from those
\* that were walked.
RootsApart ==
    /\ \A k \in DOMAIN mirrorRoots : RootFiles[mirrorRoots[k]] \cap Unseen = {}
    /\ \A j, k \in DOMAIN roots : j # k => RootFiles[roots[j]] \cap RootFiles[roots[k]] = {}

\* The roots that the mirror pass will visit are whole until it has done so.
MirrorWhole ==
    /\ mirrorRoots # <<>> => run = 1
    /\ run = 1 /\ phase = "walk" => Unseen \subseteq src
    /\ \A k \in DOMAIN mirrorRoots : RootFiles[mirrorRoots[k]] \subseteq src

\* A source is counted when it is in no place any more; until the removal pass
\* it is there, unless it was renamed or has failed.
Done == {"copied", "unchanged", "linked"}
Somewhere == todo \cup Unseen \cup Queued \cup Busy \cup Linked

Counted ==
    /\ \A s \in Srcs : outcome[s] # "none" => s \notin Somewhere
    /\ \A s \in Recorded : outcome[s] # "none"
    /\ phase \notin {"remove", "done"} => \A s \in Srcs : outcome[s] \in Done => s \in src
    /\ \A s \in Srcs, k \in DOMAIN mirrorRoots : outcome[s] = "renamed" => s \notin RootFiles[mirrorRoots[k]]
    /\ \A s \in Srcs : outcome[s] \in Done \cup {"renamed"} => dst[DstOf[s]] # Absent

\* The identity of a file says what it holds, of all files that ever were.
Family == {Absent} \cup {dst[n] : n \in Dsts} \cup {Original(s) : s \in Srcs}
          \cup {[id |-> <<s, j>>, content |-> Inode[s]] : s \in Srcs, j \in 1..MaxRuns}
SameFile == \A f, g \in Family : f.id = g.id => f = g

\* The first path of an inode, and the later ones that wait for it.
Primaries ==
    /\ \A i \in DOMAIN primary : \E p \in Srcs :
          /\ Inode[p] = i /\ DstOf[p] = primary[i].dst /\ p \notin todo \cup Unseen \cup Linked
          /\ primary[i].adopted => outcome[p] # "none"
          /\ phase \notin {"remove", "done"} => p \in src
    /\ \A k \in DOMAIN links :
          Inode[links[k].src] \in DOMAIN primary /\ links[k].target = primary[Inode[links[k].src]].dst

\* Nothing went wrong in this run so far.
Clean == ~Halted /\ ~walkErr /\ \A s \in Srcs : outcome[s] # "failed"

\* Then what is counted is at its destination,
Settled == Clean => \A s \in Srcs : outcome[s] \in Done \cup {"renamed"} => Holds(DstOf[s], s)

\* and of each inode with several paths, those that were visited are the first,
\* or wait for their link, or are the same file as the first, which stays.
Present == src \cup {s \in Srcs : outcome[s] \in Done}
Grouped ==
    Clean => \A s, t \in Present : s # t /\ Inode[s] = Inode[t] /\ s \notin todo \cup Unseen =>
        /\ Inode[s] \in DOMAIN primary
        /\ LET p == primary[Inode[s]] IN
           \/ DstOf[s] = p.dst
           \/ s \in Linked
           \/ /\ dst[DstOf[s]].id = dst[p.dst].id /\ outcome[s] # "none"
              /\ p.adopted \/ phase \notin {"walk", "drain"}

\* Under --mirror a root is to be walked, or to be mirrored, or has a failure,
\* or has only what it should have.
ToWalk(r) == \E k \in DOMAIN roots : roots[k] = r /\ (k # 1 \/ ~opened)
ToMirror(r) == \E k \in DOMAIN mirrorRoots : mirrorRoots[k] = r
HasFailed(r) == \E s \in RootFiles[r] : outcome[s] = "failed"
OnlyGiven(r) ==
    \A n \in Under[r] : dst[n] # Absent => n \in undeleted \/ \E s \in RootFiles[r] \cap Given : DstOf[s] = n

Exact ==
    /\ opened /\ Mirror => ToMirror(Head(roots))
    /\ Mirror /\ ~Halted /\ ~walkErr =>
          \A r \in DOMAIN Under : ToWalk(r) \/ ToMirror(r) \/ HasFailed(r) \/ OnlyGiven(r)

\* Source p keeps its content: it is there and will stay, or its destination
\* has it.
Kept(p) == p \in src \ Recorded \/ Holds(DstOf[p], p)

PrimaryKept ==
    /\ \A i \in DOMAIN primary : \E p \in Srcs : Inode[p] = i /\ p \notin todo \cup Unseen \cup Linked /\ Kept(p)
    /\ \A s \in Linked : Inode[s] \in DOMAIN primary

SomeKept == \A s \in Srcs : \E p \in Srcs : Inode[p] = Inode[s] /\ Kept(p)

-----------------------------------------------------------------------------
(* Sequences and the sets of places.                                         *)

LEMMA TailFacts ==
    ASSUME NEW S, NEW q \in Seq(S), q # <<>>
    PROVE  /\ Head(q) \in S /\ Head(q) = q[1] /\ 1 \in DOMAIN q
           /\ Tail(q) \in Seq(S) /\ DOMAIN Tail(q) = 1..(Len(q) - 1) /\ DOMAIN q = 1..Len(q) /\ Len(q) \in Nat
           /\ \A k \in DOMAIN Tail(q) : k + 1 \in DOMAIN q /\ k + 1 # 1 /\ Tail(q)[k] = q[k + 1]
           /\ \A k \in DOMAIN q : k # 1 => k - 1 \in DOMAIN Tail(q) /\ Tail(q)[k - 1] = q[k]
OBVIOUS

LEMMA AppendFacts ==
    ASSUME NEW S, NEW q \in Seq(S), NEW e \in S
    PROVE  /\ Append(q, e) \in Seq(S) /\ Append(q, e) # <<>>
           /\ \A k \in DOMAIN q : k \in DOMAIN Append(q, e) /\ Append(q, e)[k] = q[k]
           /\ \E k \in DOMAIN Append(q, e) : Append(q, e)[k] = e
           /\ \A k \in DOMAIN Append(q, e) : k \notin DOMAIN q => Append(q, e)[k] = e
           /\ \A k, l \in DOMAIN Append(q, e) : k \notin DOMAIN q /\ l \notin DOMAIN q => k = l
<1>1. Append(q, e) \in Seq(S) /\ Append(q, e) # <<>>
  BY AppendProperties
<1>2. DOMAIN Append(q, e) = 1..(Len(q) + 1) /\ DOMAIN q = 1..Len(q) /\ Len(q) \in Nat
  OBVIOUS
<1>3. Append(q, e)[Len(q) + 1] = e
  BY AppendProperties
<1>4. \A k \in 1..Len(q) : Append(q, e)[k] = q[k]
  BY AppendProperties
<1> QED BY <1>1, <1>2, <1>3, <1>4

\* The first root is opened, or dropped: its files, and no others, leave Unseen.
LEMMA HeadSeen ==
    ASSUME Types, roots # <<>>, ~opened,
           \/ roots' = Tail(roots) /\ opened' = opened
           \/ roots' = roots /\ opened' = TRUE
    PROVE  /\ RootFiles[Head(roots)] \subseteq Unseen
           /\ Unseen' \subseteq Unseen /\ Unseen \subseteq Unseen' \cup RootFiles[Head(roots)]
           /\ RootsApart => Unseen' \cap RootFiles[Head(roots)] = {}
<1> DEFINE r == Head(roots)
<1>0. /\ r = roots[1] /\ 1 \in DOMAIN roots /\ r \in DOMAIN RootFiles
      /\ \A k \in DOMAIN Tail(roots) : k + 1 \in DOMAIN roots /\ k + 1 # 1 /\ Tail(roots)[k] = roots[k + 1]
      /\ \A k \in DOMAIN roots : k # 1 => k - 1 \in DOMAIN Tail(roots) /\ Tail(roots)[k - 1] = roots[k]
  BY TailFacts DEF Types
<1>1. Unseen = {s \in Srcs : \E k \in DOMAIN roots : s \in RootFiles[roots[k]]}
  BY DEF Unseen
<1>2. Unseen' = {s \in Srcs : \E k \in DOMAIN roots : s \in RootFiles[roots[k]] /\ k # 1}
  <2>1. CASE roots' = roots /\ opened' = TRUE
    BY <2>1 DEF Unseen
  <2>2. CASE roots' = Tail(roots) /\ opened' = opened
    <3>1. Unseen' = {s \in Srcs : \E k \in DOMAIN Tail(roots) : s \in RootFiles[Tail(roots)[k]]}
      BY <2>2 DEF Unseen
    <3> QED BY <3>1, <1>0
  <2> QED BY <2>1, <2>2
<1>3. RootFiles[r] \subseteq Srcs
  BY <1>0 DEF Srcs
<1>4. RootFiles[r] \subseteq Unseen
  BY <1>0, <1>1, <1>3
<1>5. Unseen' \subseteq Unseen
  BY <1>1, <1>2
<1>6. Unseen \subseteq Unseen' \cup RootFiles[r]
  BY <1>0, <1>1, <1>2
<1>7. ASSUME RootsApart PROVE Unseen' \cap RootFiles[r] = {}
  BY <1>0, <1>2, <1>7 DEF RootsApart
<1> QED BY <1>4, <1>5, <1>6, <1>7

\* Its files were visited already when it is closed.
LEMMA CloseUnseen ==
    ASSUME Types, roots # <<>>, opened, roots' = Tail(roots), opened' = FALSE
    PROVE  Unseen' = Unseen
<1>0. /\ \A k \in DOMAIN Tail(roots) : k + 1 \in DOMAIN roots /\ k + 1 # 1 /\ Tail(roots)[k] = roots[k + 1]
      /\ \A k \in DOMAIN roots : k # 1 => k - 1 \in DOMAIN Tail(roots) /\ Tail(roots)[k - 1] = roots[k]
  BY TailFacts DEF Types
<1>1. Unseen = {s \in Srcs : \E k \in DOMAIN roots : s \in RootFiles[roots[k]] /\ k # 1}
  BY DEF Unseen
<1>2. Unseen' = {s \in Srcs : \E k \in DOMAIN Tail(roots) : s \in RootFiles[Tail(roots)[k]]}
  BY DEF Unseen
<1> QED BY <1>0, <1>1, <1>2

LEMMA SamePlaces ==
    /\ UNCHANGED <<roots, opened>> => Unseen' = Unseen
    /\ UNCHANGED jobs => Queued' = Queued
    /\ UNCHANGED worker => Busy' = Busy
    /\ UNCHANGED links => Linked' = Linked
    /\ UNCHANGED <<moved, removing>> => Recorded' = Recorded
BY DEF Unseen, Queued, Busy, Linked, Recorded

-----------------------------------------------------------------------------
(* The type.                                                                 *)

LEMMA InitTypes == Init => Types
<1> SUFFICES ASSUME Init PROVE Types
  OBVIOUS
<1>1. dst \in [Dsts -> Files]
  <2>1. dst \in [Dsts -> OldFiles \cup {Original(s) : s \in Aliased}]
    BY DEF Init
  <2>2. OldFiles \cup {Original(s) : s \in Aliased} \subseteq Files
    BY OptionAssumption DEF Files
  <2> QED BY <2>1, <2>2
<1>2. TypeOK
  BY <1>1, OptionAssumption, RootAssumption DEF Init, TypeOK, Outcomes
<1> QED BY <1>1, <1>2, RootAssumption DEF Init, Types, StageType

\* What an action writes has its type.
LEMMA FailType == ASSUME TypeOK, NEW S, NEW b, Fail(S, b)
                  PROVE  outcome' \in [Srcs -> Outcomes]
BY DEF TypeOK, Fail, Outcomes

LEMMA FinishType == ASSUME TypeOK, NEW s \in Srcs, FinishUnchanged(s)
                    PROVE  /\ outcome' \in [Srcs -> Outcomes]
                           /\ moved' \subseteq Srcs
BY DEF TypeOK, FinishUnchanged, RecordMove, Outcomes

LEMMA CopyType == ASSUME Types, NEW s \in Srcs, NEW f \in Files
                  PROVE  [dst EXCEPT ![DstOf[s]] = f] \in [Dsts -> Files]
BY OptionAssumption DEF Types

LEMMA CopyFiles == ASSUME TypeOK
                   PROVE  Absent \in Files /\ \A s \in Srcs : Original(s) \in Files /\ CopyOf(s) \in Files
<1>0. Absent \in OldFiles
  BY DEF OldFiles
<1> SUFFICES ASSUME NEW s \in Srcs PROVE Original(s) \in Files /\ CopyOf(s) \in Files
  BY <1>0 DEF Files
<1>1. <<s, run>> \in Srcs \X (1..MaxRuns) /\ Inode[s] \in Inodes
  BY DEF TypeOK, Inodes
<1>2. CopyOf(s) \in [id : Srcs \X (1..MaxRuns), content : Inodes]
  BY <1>1 DEF CopyOf
<1> QED BY <1>2 DEF Files

\* What comes to the destination is there.
LEMMA NewFiles == \A s \in Srcs : Original(s) # Absent /\ CopyOf(s) # Absent
<1>1. \A s \in Srcs : Inode[s] # "absent"
  BY OptionAssumption DEF Inodes
<1> QED BY <1>1 DEF Original, CopyOf, Absent

LEMMA RenameType ==
    ASSUME Types, NEW r \in DOMAIN RootFiles, roots # <<>>, r = Head(roots), RenameRoot(r)
    PROVE  dst' \in [Dsts -> Files]
<1> DEFINE At(n) == CHOOSE s \in FilesLeft(r) : DstOf[s] = n
<1>1. FilesLeft(r) \subseteq Srcs
  BY DEF FilesLeft, Types, TypeOK
<1>2. \A n \in Dsts : (\E s \in FilesLeft(r) : DstOf[s] = n) => At(n) \in Srcs
  BY <1>1
<1>3. \A n \in Dsts : (\E s \in FilesLeft(r) : DstOf[s] = n) =>
                         Original(At(n)) \in Files
  <2> HIDE DEF At
  <2> QED BY <1>2, CopyFiles DEF Types
<1>4. dst' = [n \in Dsts |-> IF \E s \in FilesLeft(r) : DstOf[s] = n
                             THEN Original(At(n)) ELSE dst[n]]
  BY DEF RenameRoot, RenameFiles
<1>5. \A n \in Dsts : dst[n] \in Files
  BY DEF Types
<1> HIDE DEF At
<1> QED BY <1>3, <1>4, <1>5

LEMMA TypesStep == Types /\ [Next]_vars => Types'
<1> SUFFICES ASSUME Types, [Next]_vars PROVE Types'
  OBVIOUS
<1> USE DEF Types, TypeOK
<1>1. CASE OpenRoot
  <2> DEFINE r == Head(roots)
  <2>0. roots # <<>> /\ r \in DOMAIN RootFiles /\ r \in DOMAIN Under /\ Tail(roots) \in Seq(DOMAIN RootFiles)
    BY <1>1, TailFacts, RootAssumption DEF OpenRoot
  <2>1. CASE RenameRoot(r)
    <3>1. dst' \in [Dsts -> Files]
      BY <2>0, <2>1, RenameType
    <3>2. outcome' \in [Srcs -> Outcomes]
      BY <2>1 DEF RenameRoot, RenameFiles, Outcomes
    <3>3. tree' \in [DOMAIN Under -> {"fresh", "made", "gone"}] /\ src' \subseteq Srcs /\ roots' \in Seq(DOMAIN RootFiles)
          /\ UNCHANGED <<todo, opened, mirrorRoots>>
      BY <2>0, <2>1 DEF RenameRoot, RenameFiles, NextRoot
    <3>4. ~opened /\ UNCHANGED <<runVars, phase, primary, movedDirs, jobs, worker, links, moved, removing>>
      BY <1>1 DEF OpenRoot
    <3> HIDE DEF r
    <3> QED BY <3>1, <3>2, <3>3, <3>4 DEF runVars
  <2>2. CASE FailRoot(r)
    BY <1>1, <2>0, <2>2, FailType DEF OpenRoot, FailRoot, NextRoot, runVars
  <2>3. CASE WalkRoot(r)
    <3>1. mirrorRoots' \in Seq(DOMAIN RootFiles)
      BY <2>0, <2>3, AppendFacts DEF WalkRoot, RecordRoot
    <3> QED BY <1>1, <2>0, <2>3, <3>1 DEF OpenRoot, WalkRoot, FilesLeft, runVars
  <2>4. CASE FailVisit(r)
    <3>1. mirrorRoots' \in Seq(DOMAIN RootFiles)
      BY <2>0, <2>4, AppendFacts DEF FailVisit, RecordRoot
    <3>2. outcome' \in [Srcs -> Outcomes]
      BY <2>4, FailType DEF FailVisit
    <3>3. tree' \in [DOMAIN Under -> {"fresh", "made", "gone"}] /\ roots' \in Seq(DOMAIN RootFiles)
          /\ UNCHANGED <<todo, opened, src, dst>>
      BY <2>0, <2>4 DEF FailVisit, NextRoot
    <3>4. ~opened /\ UNCHANGED <<runVars, phase, primary, movedDirs, jobs, worker, links, moved, removing>>
      BY <1>1 DEF OpenRoot
    <3> HIDE DEF r
    <3> QED BY <3>1, <3>2, <3>3, <3>4 DEF runVars
  <2> QED BY <1>1, <2>1, <2>2, <2>3, <2>4 DEF OpenRoot
<1>2. CASE LoseTarget
  BY <1>2 DEF LoseTarget, runVars
<1>3. CASE CloseRoot
  <2>1. Head(roots) \in DOMAIN RootFiles /\ Head(roots) \in DOMAIN Under /\ Tail(roots) \in Seq(DOMAIN RootFiles)
    BY <1>3, TailFacts, RootAssumption DEF CloseRoot
  <2> QED BY <1>3, <2>1 DEF CloseRoot, runVars
<1>4. CASE Visit
  <2> PICK s \in todo : todo' = todo \ {s} /\ (VisitSingle(s) \/ VisitPrimary(s) \/ VisitSecondary(s))
    BY <1>4 DEF Visit
  <2>0. s \in Srcs /\ DstOf[s] \in Dsts
    BY OptionAssumption
  <2>a. \A b \in BOOLEAN : [src |-> s, check |-> b] \in JobType
    BY <2>0 DEF JobType
  <2>1. CASE VisitSingle(s)
    BY <1>4, <2>a, <2>1 DEF Visit, VisitSingle, Enqueue, runVars
  <2>2. CASE VisitPrimary(s)
    <3>1. \A i \in DOMAIN primary' : primary'[i].dst \in Dsts
      BY <2>0, <2>2 DEF VisitPrimary
    <3>2. jobs' \subseteq JobType
      BY <2>a, <2>2 DEF VisitPrimary, Enqueue
    <3>3. moved' \subseteq Srcs /\ outcome' \in [Srcs -> Outcomes]
      BY <2>0, <2>2, FinishType DEF VisitPrimary
    <3>4. UNCHANGED links
      BY <2>2 DEF VisitPrimary
    <3> QED BY <1>4, <3>1, <3>2, <3>3, <3>4 DEF Visit, runVars
  <2>3. CASE VisitSecondary(s)
    <3>0. Inode[s] \in DOMAIN primary
      BY <2>3 DEF VisitSecondary
    <3> DEFINE e == [src |-> s, target |-> primary[Inode[s]].dst, unlinked |-> FALSE]
    <3>1. e \in LinkType
      BY <2>0, <3>0 DEF LinkType
    <3>a. links' = links \/ links' = Append(links, e)
      BY <2>3 DEF VisitSecondary
    <3> HIDE DEF e
    <3>b. Append(links, e) \in Seq(LinkType)
      BY <3>1, AppendFacts
    <3>2. links' \in Seq(LinkType)
      BY <3>a, <3>b
    <3>3. moved' \subseteq Srcs /\ outcome' \in [Srcs -> Outcomes]
      BY <2>0, <2>3, FinishType DEF VisitSecondary
    <3>4. UNCHANGED <<primary, jobs>>
      BY <2>3 DEF VisitSecondary
    <3> QED BY <1>4, <3>2, <3>3, <3>4 DEF Visit, runVars
  <2> QED BY <2>1, <2>2, <2>3
<1>5. CASE EndWalk
  BY <1>5 DEF EndWalk, walkVars, runVars
<1>6. CASE JoinWorkers
  BY <1>6 DEF JoinWorkers, walkVars, runVars
<1>7. CASE SkipLink
  BY <1>7, TailFacts DEF SkipLink, walkVars, runVars
<1>8. CASE RemoveLinkDst
  <2>1. Head(links) = links[1] /\ 1 \in 1..Len(links) /\ links[1] \in LinkType
    BY <1>8, TailFacts DEF RemoveLinkDst
  <2>2. dst' \in [Dsts -> Files]
    <3>1. links[1].src \in Srcs /\ Absent \in Files
      BY <2>1, CopyFiles DEF LinkType
    <3>2. dst' = dst \/ dst' = [dst EXCEPT ![DstOf[links[1].src]] = Absent]
      BY <1>8, <2>1 DEF RemoveLinkDst
    <3>3. Types
      OBVIOUS
    <3> QED BY <3>1, <3>2, <3>3, CopyType
  <2>3. [links[1] EXCEPT !.unlinked = TRUE] \in LinkType
    BY <2>1 DEF LinkType
  <2>4. links' \in Seq(LinkType)
    BY <1>8, <2>1, <2>3, ExceptSeq DEF RemoveLinkDst
  <2> QED BY <1>8, <2>2, <2>4 DEF RemoveLinkDst, walkVars, runVars
<1>9. CASE LinkTarget
  <2> DEFINE l == Head(links)
  <2>1. l \in LinkType /\ Tail(links) \in Seq(LinkType)
    BY <1>9, TailFacts DEF LinkTarget
  <2>2. l.src \in Srcs /\ dst[l.target] \in Files
    BY <2>1 DEF LinkType
  <2>3. dst' \in [Dsts -> Files]
    BY <1>9, <2>2, CopyType DEF LinkTarget
  <2>4. outcome' \in [Srcs -> Outcomes]
    BY <1>9, <2>2, FailType DEF LinkTarget, Outcomes
  <2>5. moved' \subseteq Srcs
    <3>1. moved' \subseteq moved \cup {l.src}
      BY <1>9 DEF LinkTarget, RecordMove
    <3> QED BY <2>2, <3>1
  <2>6. links' = Tail(links) /\ UNCHANGED <<runVars, phase, walkVars, jobs, worker, removing, src>>
    BY <1>9 DEF LinkTarget
  <2> HIDE DEF l
  <2> QED BY <2>1, <2>3, <2>4, <2>5, <2>6 DEF walkVars, runVars
<1>10. CASE Decide
  BY <1>10 DEF Decide, walkVars, runVars
<1>11. CASE MirrorRoot
  <2>1. Tail(mirrorRoots) \in Seq(DOMAIN RootFiles)
    BY <1>11, TailFacts DEF MirrorRoot
  <2>2. dst' \in [Dsts -> Files]
    BY <1>11, CopyFiles DEF MirrorRoot
  <2> QED BY <1>11, <2>1, <2>2 DEF MirrorRoot, runVars
<1>12. CASE EndMirror
  BY <1>12 DEF EndMirror, walkVars, runVars
<1>13. CASE HandOut
  BY <1>13 DEF HandOut, walkVars, runVars
<1>14. CASE RemoveSource
  BY <1>14, FailType DEF RemoveSource, walkVars, runVars
<1>15. CASE RemoveDir
  BY <1>15, FailType DEF RemoveDir, runVars
<1>16. CASE EndRemove
  BY <1>16 DEF EndRemove, walkVars, runVars
<1>17. CASE Interrupt \/ WatchdogAbort \/ Finished \/ UNCHANGED vars
  BY <1>17 DEF Interrupt, WatchdogAbort, Finished, vars, walkVars, runVars
<1>18. CASE Rerun
  <2>1. [stage |-> "idle"] \in StageType /\ "none" \in Outcomes
    BY DEF StageType, Outcomes
  <2> QED BY <1>18, <2>1, RootAssumption, OptionAssumption DEF Rerun
<1>19. ASSUME NEW w \in Workers, WorkerStep(w) PROVE Types'
  <2>0. [stage |-> "idle"] \in StageType
    BY DEF StageType
  <2>1. CASE PopJob(w)
    <3>1. \A j \in jobs, c \in {"compare", "copy"} : [stage |-> c, src |-> j.src] \in StageType
      BY DEF JobType, StageType
    <3> QED BY <2>1, <3>1 DEF PopJob, walkVars, runVars
  <2>2. CASE CompareJob(w)
    <3>1. worker[w].src \in Srcs /\ [worker[w] EXCEPT !.stage = "copy"] \in StageType
      BY <2>2 DEF CompareJob, StageType
    <3> QED BY <2>0, <2>2, <3>1, FinishType DEF CompareJob, Idle, walkVars, runVars
  <2>3. CASE CopyJob(w)
    <3> DEFINE s == worker[w].src
    <3>1. s \in Srcs
      BY <2>3 DEF CopyJob, StageType
    <3>2. dst' \in [Dsts -> Files]
      <4>1. \/ dst' = dst
            \/ dst' = [dst EXCEPT ![DstOf[s]] = CopyOf(s)]
            \/ dst' = [dst EXCEPT ![DstOf[s]] = Absent]
        BY <2>3 DEF CopyJob, NoRoom, LosesOld
      <4>2. Absent \in Files /\ CopyOf(s) \in Files
        BY <3>1, CopyFiles
      <4> HIDE DEF s
      <4> QED BY <3>1, <4>1, <4>2, CopyType
    <3>3. moved' \subseteq Srcs /\ outcome' \in [Srcs -> Outcomes]
      BY <2>3, <3>1, FailType DEF CopyJob, RecordMove, NoRoom, Outcomes
    <3>4. worker' \in [Workers -> StageType]
      BY <2>0, <2>3 DEF CopyJob, Idle
    <3> QED BY <2>3, <3>2, <3>3, <3>4 DEF CopyJob, walkVars, runVars
  <2> QED BY <1>19, <2>1, <2>2, <2>3 DEF WorkerStep
<1> QED BY <1>1, <1>2, <1>3, <1>4, <1>5, <1>6, <1>7, <1>8, <1>9, <1>10, <1>11, <1>12, <1>13, <1>14, <1>15, <1>16, <1>17, <1>18, <1>19
        DEF Next, MainStep

\* The state keeps its type, over any number of runs.
THEOREM TypeCorrect == Spec => []TypeOK
<1>1. Types => TypeOK
  BY DEF Types
<1> QED BY <1>1, InitTypes, TypesStep, PTL DEF Spec

-----------------------------------------------------------------------------
(* Barriers, and that every source is followed.                              *)

LEMMA InitBarriers == Init => Barriers /\ Followed
<1> SUFFICES ASSUME Init PROVE Barriers /\ Followed
  OBVIOUS
<1>1. Barriers
  BY DEF Init, Barriers
<1>2. \A s \in Srcs : s \in Unseen
  BY RootAssumption DEF Init, Unseen, Srcs
<1>3. Followed
  BY <1>2 DEF Init, Followed
<1> QED BY <1>1, <1>3

\* Workers have work while the walk or the drain goes on, and then only.
LEMMA WorkersEarly ==
    ASSUME Types, Barriers, NEW w \in Workers, WorkerStep(w)
    PROVE  phase \in {"walk", "drain"}
<1>1. CASE PopJob(w)
  BY <1>1 DEF PopJob, Types, JobType, Barriers, Queued
<1>2. CASE CompareJob(w) \/ CopyJob(w)
  <2>1. worker[w].stage # "idle" /\ worker[w].src \in Srcs
    BY <1>2 DEF CompareJob, CopyJob, Types, StageType
  <2> QED BY <2>1 DEF Barriers, Busy
<1> QED BY <1>1, <1>2 DEF WorkerStep

LEMMA BarriersStep == Types /\ Barriers /\ [Next]_vars => Barriers'
<1> SUFFICES ASSUME Types, Barriers, [Next]_vars PROVE Barriers'
  OBVIOUS
<1>1. CASE OpenRoot
  <2>1. phase = "walk" /\ phase' = "walk" /\ ~opened /\ todo = {}
    BY <1>1 DEF OpenRoot, Barriers
  <2>2. opened' \/ todo' = todo
    BY <1>1 DEF OpenRoot, RenameRoot, RenameFiles, FailRoot, FailVisit, WalkRoot, RecordRoot, NextRoot
  <2> QED BY <2>1, <2>2 DEF Barriers
<1>2. CASE LoseTarget \/ CloseRoot \/ Visit
  BY <1>2 DEF LoseTarget, CloseRoot, Visit, Barriers
<1>3. CASE EndWalk
  BY <1>3 DEF EndWalk, Barriers, walkVars
<1>4. CASE JoinWorkers
  <2>1. Queued = {} /\ Busy = {}
    BY <1>4 DEF JoinWorkers, Queued, Busy
  <2> QED BY <1>4, <2>1, SamePlaces DEF JoinWorkers, Barriers, walkVars
<1>5. CASE SkipLink \/ RemoveLinkDst \/ LinkTarget
  <2>1. phase = "links" /\ phase' = "links" /\ UNCHANGED <<opened, todo, jobs, worker>>
    BY <1>5 DEF SkipLink, RemoveLinkDst, LinkTarget, walkVars
  <2> QED BY <2>1, SamePlaces DEF Barriers
<1>6. CASE Decide
  <2>1. Linked = {}
    BY <1>6 DEF Decide, Linked
  <2> QED BY <1>6, <2>1, SamePlaces DEF Decide, Barriers, walkVars
<1>7. CASE MirrorRoot
  BY <1>7, SamePlaces DEF MirrorRoot, Barriers
<1>8. CASE EndMirror
  BY <1>8, SamePlaces DEF EndMirror, Barriers, walkVars
<1>9. CASE HandOut \/ RemoveSource \/ RemoveDir \/ EndRemove
  <2>1. phase = "remove" /\ phase' \in {"remove", "done"} /\ UNCHANGED <<opened, todo, jobs, worker, links, mirrorRoots>>
    BY <1>9 DEF HandOut, RemoveSource, RemoveDir, EndRemove, walkVars
  <2> QED BY <2>1, SamePlaces DEF Barriers
<1>10. CASE Interrupt \/ WatchdogAbort \/ Finished \/ UNCHANGED vars
  <2>1. UNCHANGED <<phase, opened, todo, jobs, worker, links, mirrorRoots>>
    BY <1>10 DEF Interrupt, WatchdogAbort, Finished, vars, walkVars
  <2> QED BY <2>1, SamePlaces DEF Barriers
<1>11. CASE Rerun
  BY <1>11 DEF Rerun, Barriers
<1>12. ASSUME NEW w \in Workers, WorkerStep(w) PROVE Barriers'
  <2>1. phase \in {"walk", "drain"}
    BY <1>12, WorkersEarly
  <2>2. UNCHANGED <<phase, opened, todo, mirrorRoots>>
    BY <1>12 DEF WorkerStep, PopJob, CompareJob, CopyJob, walkVars
  <2> QED BY <2>1, <2>2 DEF Barriers
<1> QED BY <1>1, <1>2, <1>3, <1>4, <1>5, <1>6, <1>7, <1>8, <1>9, <1>10, <1>11, <1>12 DEF Next, MainStep

\* What has been halted stays halted, and what was counted stays counted.
LEMMA FailMonotone ==
    ASSUME TypeOK, NEW S, NEW b, Fail(S, b)
    PROVE  /\ aborted => aborted'
           /\ \A s \in Srcs : outcome'[s] = "none" => outcome[s] = "none" /\ s \notin S
BY DEF TypeOK, Fail

LEMMA FinishMonotone ==
    ASSUME TypeOK, NEW s \in Srcs, FinishUnchanged(s)
    PROVE  \A t \in Srcs : outcome'[t] = "none" => outcome[t] = "none" /\ t # s
BY DEF TypeOK, FinishUnchanged

\* Where sources go in the steps that move them.
LEMMA EnqueueEffect ==
    ASSUME Types, NEW s \in Srcs, NEW c, Enqueue(s, c)
    PROVE  Queued' = Queued \cup {s}
<1> DEFINE e == [src |-> s, check |-> c]
<1>1. e.src = s /\ jobs' = jobs \cup {e}
  BY DEF Enqueue
<1> HIDE DEF e
<1> QED BY <1>1 DEF Queued

LEMMA PopEffect ==
    ASSUME Types, NEW w \in Workers, NEW j \in jobs, worker[w].stage = "idle", jobs' = jobs \ {j},
           \/ worker' = worker
           \/ \E c \in {"compare", "copy"} : worker' = [worker EXCEPT ![w] = [stage |-> c, src |-> j.src]]
    PROVE  /\ j.src \in Queued /\ Queued \subseteq Queued' \cup {j.src} /\ Queued' \subseteq Queued
           /\ worker' = worker => Busy' = Busy
           /\ worker' # worker => Busy' = Busy \cup {j.src}
<1>1. j.src \in Srcs
  BY DEF Types, JobType
<1>2. j.src \in Queued /\ Queued \subseteq Queued' \cup {j.src} /\ Queued' \subseteq Queued
  BY <1>1 DEF Queued
<1>3. worker' = worker => Busy' = Busy
  BY DEF Busy
<1>4. ASSUME NEW c \in {"compare", "copy"}, worker' = [worker EXCEPT ![w] = [stage |-> c, src |-> j.src]]
      PROVE  Busy' = Busy \cup {j.src}
  <2>1. worker'[w].stage # "idle" /\ worker'[w].src = j.src /\ \A v \in Workers \ {w} : worker'[v] = worker[v]
    BY <1>4 DEF Types
  <2> QED BY <1>1, <2>1 DEF Busy
<1> QED BY <1>2, <1>3, <1>4

LEMMA IdleEffect ==
    ASSUME Types, NEW w \in Workers, worker[w].stage # "idle", Idle(w)
    PROVE  /\ worker[w].src \in Busy
           /\ Busy \subseteq Busy' \cup {worker[w].src} /\ Busy' \subseteq Busy
<1>1. worker[w].src \in Srcs
  BY DEF Types, StageType
<1>2. worker'[w].stage = "idle" /\ \A v \in Workers \ {w} : worker'[v] = worker[v]
  BY DEF Idle, Types
<1> QED BY <1>1, <1>2 DEF Busy

LEMMA DeferEffect ==
    ASSUME Types, NEW s \in Srcs, NEW e \in LinkType, e.src = s, links' = Append(links, e)
    PROVE  Linked' = Linked \cup {s}
<1>0. links \in Seq(LinkType)
  BY DEF Types
<1>1. /\ \A k \in DOMAIN links : k \in DOMAIN links' /\ links'[k] = links[k]
      /\ \E k \in DOMAIN links' : links'[k] = e
      /\ \A k \in DOMAIN links' : k \notin DOMAIN links => links'[k] = e
  BY <1>0, AppendFacts
<1>2. Linked' \subseteq Linked \cup {s}
  BY <1>1 DEF Linked
<1>3. Linked \subseteq Linked'
  BY <1>1 DEF Linked
<1>4. s \in Linked'
  BY <1>1 DEF Linked
<1> QED BY <1>2, <1>3, <1>4

LEMMA LinkEffect ==
    ASSUME Types, links # <<>>, links' = Tail(links)
    PROVE  /\ Head(links).src \in Linked
           /\ Linked \subseteq Linked' \cup {Head(links).src} /\ Linked' \subseteq Linked
<1>0. links \in Seq(LinkType)
  BY DEF Types
<1>1. /\ Head(links) \in LinkType /\ Head(links) = links[1] /\ 1 \in DOMAIN links
      /\ \A k \in DOMAIN links' : k + 1 \in DOMAIN links /\ k + 1 # 1 /\ links'[k] = links[k + 1]
      /\ \A k \in DOMAIN links : k # 1 => k - 1 \in DOMAIN links' /\ links'[k - 1] = links[k]
  BY <1>0, TailFacts
<1>2. Head(links).src \in Linked
  BY <1>1 DEF Linked, LinkType
<1>3. Linked \subseteq Linked' \cup {Head(links).src}
  BY <1>1 DEF Linked
<1>4. Linked' \subseteq Linked
  BY <1>1 DEF Linked
<1> QED BY <1>2, <1>3, <1>4

LEMMA UnlinkEffect ==
    ASSUME Types, links # <<>>, links' = [links EXCEPT ![1].unlinked = TRUE]
    PROVE  Head(links).src \in Linked /\ Linked' = Linked
<1>0. links \in Seq(LinkType)
  BY DEF Types
<1>1. Head(links) \in LinkType /\ Head(links) = links[1] /\ 1 \in DOMAIN links
  BY <1>0, TailFacts
<1>2. DOMAIN links' = DOMAIN links /\ \A k \in DOMAIN links : links'[k].src = links[k].src
  BY <1>0, <1>1 DEF LinkType
<1> QED BY <1>1, <1>2 DEF Linked, LinkType

\* An action that halts, counts and fails nothing more than this keeps what is
\* followed, if it takes nobody out of all places without counting him.
Monotone ==
    /\ walkErr' = walkErr /\ (aborted => aborted') /\ (cancelled => cancelled') /\ src' \subseteq src
    /\ \A s \in Srcs : outcome'[s] = "none" => outcome[s] = "none"

LEMMA FollowedKept ==
    ASSUME Followed, Types, Monotone,
           phase' \in {"mirror", "remove"} => phase \in {"mirror", "remove"} \/ ~Halted,
           phase' # "walk" => roots' = roots \/ roots' = <<>>,
           phase' # "walk" /\ phase = "walk" /\ ~Halted => roots' = <<>>,
           \/ Halted' /\ phase' \notin {"mirror", "remove"}
           \/ \A s \in src : outcome'[s] = "none" /\ s \in Somewhere => s \in Somewhere'
    PROVE  Followed'
<1> SUFFICES ASSUME ~walkErr', ~Halted' \/ phase' \in {"mirror", "remove"}
             PROVE  /\ phase' # "walk" => roots' = <<>>
                    /\ \A s \in src' : outcome'[s] = "none" => s \in Somewhere'
  BY DEF Followed, Somewhere
<1>1. ~walkErr /\ (~Halted \/ phase \in {"mirror", "remove"})
  BY DEF Monotone, Halted
<1>2. \A s \in src : outcome[s] = "none" => s \in Somewhere
  BY <1>1 DEF Followed, Somewhere
<1>3. phase # "walk" => roots = <<>>
  BY <1>1 DEF Followed
<1>4. \A s \in src' : s \in src /\ s \in Srcs /\ (outcome'[s] = "none" => outcome[s] = "none")
  BY DEF Monotone, Types, TypeOK
<1>5. phase' # "walk" => roots' = <<>>
  BY <1>1, <1>3 
<1> QED BY <1>2, <1>4, <1>5

LEMMA FollowedStep == Types /\ Barriers /\ Followed /\ [Next]_vars => Followed'
<1> SUFFICES ASSUME Types, Barriers, Followed, [Next]_vars PROVE Followed'
  OBVIOUS
<1>0. TypeOK
  BY DEF Types
<1>1. CASE OpenRoot
  <2> DEFINE r == Head(roots)
  <2>1. /\ phase = "walk" /\ phase' = "walk" /\ roots # <<>> /\ ~opened /\ todo = {}
        /\ UNCHANGED <<walkErr, jobs, worker, links, cancelled>>
    BY <1>1 DEF OpenRoot, Barriers
  <2>2. /\ Queued' = Queued /\ Busy' = Busy /\ Linked' = Linked
    BY <2>1, SamePlaces
  <2>3. CASE RenameRoot(r)
    <3>1. roots' = Tail(roots) /\ opened' = opened /\ todo' = todo
      BY <2>3 DEF RenameRoot, RenameFiles, NextRoot
    <3>2. Unseen \subseteq Unseen' \cup RootFiles[r]
      BY <2>1, <3>1, HeadSeen
    <3>3. \A s \in Srcs : outcome'[s] = "none" => outcome[s] = "none" /\ s \notin FilesLeft(r)
      BY <2>3 DEF RenameRoot, RenameFiles
    <3>4. Monotone
      BY <2>1, <2>3, <3>3 DEF Monotone, RenameRoot, RenameFiles
    <3>5. \A s \in src : outcome'[s] = "none" /\ s \in Somewhere => s \in Somewhere'
      BY <2>2, <3>1, <3>2, <3>3, <1>0 DEF Somewhere, FilesLeft, TypeOK
    <3> QED BY <2>1, <3>4, <3>5, FollowedKept
  <2>4. CASE FailRoot(r) \/ FailVisit(r)
    <3>1. roots' = Tail(roots) /\ opened' = opened /\ todo' = todo
      BY <2>4 DEF FailRoot, FailVisit, RecordRoot, NextRoot
    <3>2. Unseen \subseteq Unseen' \cup RootFiles[r]
      BY <2>1, <3>1, HeadSeen
    <3>3. /\ aborted => aborted'
          /\ \A s \in Srcs : outcome'[s] = "none" => outcome[s] = "none" /\ s \notin RootFiles[r]
      BY <1>0, <2>4, FailMonotone DEF FailRoot, FailVisit, RecordRoot
    <3>4. Monotone
      BY <2>1, <2>4, <3>3 DEF Monotone, FailRoot, FailVisit, RecordRoot
    <3>5. \A s \in src : outcome'[s] = "none" /\ s \in Somewhere => s \in Somewhere'
      BY <2>2, <3>1, <3>2, <3>3, <1>0 DEF Somewhere, TypeOK
    <3> QED BY <2>1, <3>4, <3>5, FollowedKept
  <2>5. CASE WalkRoot(r)
    <3>1. roots' = roots /\ opened' = TRUE /\ todo' = FilesLeft(r) /\ UNCHANGED <<src, outcome, aborted>>
      BY <2>5 DEF WalkRoot, RecordRoot
    <3>2. Unseen \subseteq Unseen' \cup RootFiles[r]
      BY <2>1, <3>1, HeadSeen
    <3>4. Monotone
      BY <2>1, <3>1 DEF Monotone
    <3>5. \A s \in src : outcome'[s] = "none" /\ s \in Somewhere => s \in Somewhere'
      BY <2>1, <2>2, <3>1, <3>2 DEF Somewhere, FilesLeft
    <3> QED BY <2>1, <3>4, <3>5, FollowedKept
  <2> QED BY <1>1, <2>3, <2>4, <2>5 DEF OpenRoot
<1>2. CASE LoseTarget
  BY <1>2 DEF LoseTarget, Followed
<1>3. CASE CloseRoot
  <2>1. Unseen' = Unseen /\ Queued' = Queued /\ Busy' = Busy /\ Linked' = Linked
    BY <1>3, CloseUnseen, SamePlaces DEF CloseRoot, Types
  <2>2. Monotone /\ phase = "walk" /\ phase' = "walk" /\ (todo = {} \/ Halted) /\ (Halted => Halted') /\ todo' = {}
    BY <1>3 DEF CloseRoot, Monotone, Halted, Barriers
  <2>3. Halted' \/ \A s \in src : outcome'[s] = "none" /\ s \in Somewhere => s \in Somewhere'
    BY <2>1, <2>2 DEF Somewhere
  <2> QED BY <2>2, <2>3, FollowedKept
<1>4. CASE Visit
  <2> PICK s \in todo : todo' = todo \ {s} /\ (VisitSingle(s) \/ VisitPrimary(s) \/ VisitSecondary(s))
    BY <1>4 DEF Visit
  <2>0. s \in Srcs
    BY <1>0 DEF TypeOK
  <2>1. Unseen' = Unseen /\ Busy' = Busy /\ phase = "walk" /\ phase' = "walk"
        /\ UNCHANGED <<walkErr, aborted, cancelled, src>>
    BY <1>4, SamePlaces DEF Visit
  <2>2. Queued \subseteq Queued' /\ Linked \subseteq Linked'
        /\ \A t \in Srcs : outcome'[t] = "none" => outcome[t] = "none" /\ (t = s => s \in Queued' \cup Linked')
    <3>1. CASE VisitSingle(s)
      BY <2>0, <3>1, EnqueueEffect, SamePlaces DEF VisitSingle
    <3>2. CASE VisitPrimary(s)
      BY <1>0, <2>0, <3>2, EnqueueEffect, SamePlaces, FinishMonotone DEF VisitPrimary
    <3>3. CASE VisitSecondary(s)
      <4> DEFINE e == [src |-> s, target |-> primary[Inode[s]].dst, unlinked |-> FALSE]
      <4>1. e \in LinkType /\ e.src = s
        BY <2>0, <3>3 DEF VisitSecondary, Types, LinkType
      <4>2. jobs' = jobs /\ \/ FinishUnchanged(s) /\ links' = links
                            \/ links' = Append(links, e) /\ outcome' = outcome
        BY <3>3 DEF VisitSecondary
      <4> HIDE DEF e
      <4> QED BY <1>0, <2>0, <4>1, <4>2, DeferEffect, SamePlaces, FinishMonotone
    <3> QED BY <3>1, <3>2, <3>3
  <2>3. Monotone
    BY <2>1, <2>2 DEF Monotone
  <2>4. \A t \in src : outcome'[t] = "none" /\ t \in Somewhere => t \in Somewhere'
    BY <1>0, <2>1, <2>2 DEF Somewhere, TypeOK
  <2> QED BY <2>1, <2>3, <2>4, FollowedKept
<1>5. CASE EndWalk \/ JoinWorkers \/ Decide \/ EndMirror \/ EndRemove
  <2>1. UNCHANGED <<todo, roots, opened, jobs, worker, links, walkErr, aborted, cancelled, src, outcome>>
    BY <1>5 DEF EndWalk, JoinWorkers, Decide, EndMirror, EndRemove, walkVars
  <2>2. Monotone /\ Somewhere' = Somewhere
    BY <2>1, SamePlaces DEF Monotone, Somewhere
  <2>3. /\ phase' \in {"mirror", "remove"} => phase \in {"mirror", "remove"} \/ ~Halted
        /\ phase = "walk" /\ ~Halted => roots' = <<>>
    BY <1>5, <2>1 DEF EndWalk, JoinWorkers, Decide, EndMirror, EndRemove
  <2> QED BY <2>1, <2>2, <2>3, FollowedKept
<1>6. CASE SkipLink \/ LinkTarget
  <2>1. /\ phase = "links" /\ phase' = "links" /\ links # <<>> /\ links' = Tail(links)
        /\ UNCHANGED <<todo, roots, opened, jobs, worker, walkErr, cancelled, src>>
    BY <1>6 DEF SkipLink, LinkTarget, walkVars
  <2>2. Head(links).src \in Srcs /\ Linked \subseteq Linked' \cup {Head(links).src}
    BY <2>1, LinkEffect DEF Linked
  <2>3. /\ aborted => aborted'
        /\ \A s \in Srcs : outcome'[s] = "none" => outcome[s] = "none"
        /\ aborted' \/ outcome'[Head(links).src] # "none"
    <3>1. CASE SkipLink
      BY <3>1 DEF SkipLink
    <3>2. CASE LinkTarget
      <4>1. \/ /\ outcome' = [outcome EXCEPT ![Head(links).src] = "linked"] /\ UNCHANGED aborted
            \/ Fail({Head(links).src}, TRUE)
        BY <3>2 DEF LinkTarget
      <4>2. CASE outcome' = [outcome EXCEPT ![Head(links).src] = "linked"] /\ UNCHANGED aborted
        <5>1. aborted => aborted'
          BY <4>2
        <5>2. outcome'[Head(links).src] # "none" /\ \A s \in Srcs : outcome'[s] = "none" => outcome[s] = "none"
          BY <1>0, <2>2, <4>2 DEF TypeOK
        <5> QED BY <5>1, <5>2
      <4>3. CASE Fail({Head(links).src}, TRUE)
        BY <1>0, <2>2, <4>3, FailMonotone
      <4> QED BY <4>1, <4>2, <4>3
    <3> QED BY <1>6, <3>1, <3>2
  <2>4. Monotone
    BY <2>1, <2>3 DEF Monotone
  <2>5. Halted' \/ \A s \in src : outcome'[s] = "none" /\ s \in Somewhere => s \in Somewhere'
    BY <2>1, <2>2, <2>3, SamePlaces DEF Somewhere, Halted
  <2> QED BY <2>1, <2>4, <2>5, FollowedKept
<1>7. CASE RemoveLinkDst
  <2>1. UNCHANGED <<phase, todo, roots, opened, jobs, worker, walkErr, aborted, cancelled, src, outcome>>
    BY <1>7 DEF RemoveLinkDst, walkVars
  <2>2. Linked' = Linked
    BY <1>7, UnlinkEffect DEF RemoveLinkDst
  <2>3. Monotone /\ Somewhere' = Somewhere /\ phase = "links"
    BY <1>7, <2>1, <2>2, SamePlaces DEF Monotone, Somewhere, RemoveLinkDst
  <2> QED BY <2>1, <2>3, FollowedKept
<1>8. CASE MirrorRoot \/ HandOut \/ RemoveSource \/ RemoveDir
  <2>1. UNCHANGED <<phase, todo, roots, opened, jobs, worker, links, walkErr, cancelled>> /\ phase # "walk"
    BY <1>8 DEF MirrorRoot, HandOut, RemoveSource, RemoveDir, walkVars
  <2>2. /\ aborted => aborted'
        /\ src' \subseteq src /\ \A s \in Srcs : outcome'[s] = "none" => outcome[s] = "none"
    <3>1. CASE MirrorRoot
      <4>1. PICK kept : aborted' = (aborted \/ (FatalErrors /\ kept # {}))
        BY <3>1 DEF MirrorRoot
      <4>2. aborted => aborted'
        BY <4>1
      <4> QED BY <3>1, <4>2 DEF MirrorRoot
    <3>2. CASE HandOut
      BY <3>2 DEF HandOut
    <3>3. CASE RemoveSource
      <4>1. PICK s \in removing : \/ src' = src \ {s} /\ UNCHANGED <<outcome, aborted>>
                                  \/ Fail({s}, FALSE) /\ UNCHANGED src
        BY <3>3 DEF RemoveSource
      <4>2. CASE src' = src \ {s} /\ UNCHANGED <<outcome, aborted>>
        BY <4>2
      <4>3. CASE Fail({s}, FALSE) /\ UNCHANGED src
        BY <1>0, <4>3, FailMonotone
      <4> QED BY <4>1, <4>2, <4>3
    <3>4. CASE RemoveDir
      <4>1. UNCHANGED <<outcome, aborted>> \/ Fail({}, FALSE)
        BY <3>4 DEF RemoveDir
      <4>2. CASE UNCHANGED <<outcome, aborted>>
        BY <3>4, <4>2 DEF RemoveDir
      <4>3. CASE Fail({}, FALSE)
        BY <1>0, <3>4, <4>3, FailMonotone DEF RemoveDir
      <4> QED BY <4>1, <4>2, <4>3
    <3> QED BY <1>8, <3>1, <3>2, <3>3, <3>4
  <2>3. Monotone /\ Somewhere' = Somewhere
    BY <2>1, <2>2, SamePlaces DEF Monotone, Somewhere
  <2> QED BY <2>1, <2>3, FollowedKept
<1>9. CASE Interrupt \/ WatchdogAbort \/ Finished \/ UNCHANGED vars
  <2>1. UNCHANGED <<phase, todo, roots, opened, jobs, worker, links, walkErr, src, outcome>>
        /\ (aborted => aborted') /\ (cancelled => cancelled')
    BY <1>9 DEF Interrupt, WatchdogAbort, Finished, vars, walkVars
  <2>2. Monotone /\ Somewhere' = Somewhere
    BY <2>1, SamePlaces DEF Monotone, Somewhere
  <2>3. phase' \in {"mirror", "remove"} => phase \in {"mirror", "remove"}
    BY <2>1
  <2> QED BY <2>1, <2>2, <2>3, FollowedKept
<1>10. CASE Rerun
  <2>1. \A s \in Srcs : s \in Unseen'
    BY <1>10, RootAssumption DEF Rerun, Unseen, Srcs
  <2>2. src' \subseteq Srcs /\ phase' = "walk"
    BY <1>0, <1>10 DEF Rerun, TypeOK
  <2> QED BY <2>1, <2>2 DEF Followed
<1>11. ASSUME NEW w \in Workers, WorkerStep(w) PROVE Followed'
  <2>1. phase \in {"walk", "drain"}
    BY <1>11, WorkersEarly
  <2>2. UNCHANGED <<phase, todo, roots, opened, links, walkErr, cancelled, src>>
    BY <1>11 DEF WorkerStep, PopJob, CompareJob, CopyJob, walkVars
  <2>3. CASE PopJob(w)
    <3>1. PICK j \in jobs : /\ jobs' = jobs \ {j} /\ worker[w].stage = "idle"
                            /\ IF aborted THEN UNCHANGED worker
                               ELSE worker' = [worker EXCEPT ![w] = [stage |-> IF j.check THEN "compare" ELSE "copy", src |-> j.src]]
      BY <2>3 DEF PopJob
    <3>2. \/ aborted /\ worker' = worker
          \/ \E c \in {"compare", "copy"} : worker' = [worker EXCEPT ![w] = [stage |-> c, src |-> j.src]]
      BY <3>1
    <3>3. Queued \subseteq Queued' \cup {j.src} /\ (worker' = worker => Busy' = Busy)
          /\ (worker' # worker => Busy' = Busy \cup {j.src})
      BY <3>1, <3>2, PopEffect
    <3>4. UNCHANGED <<aborted, outcome>>
      BY <2>3 DEF PopJob
    <3>5. Monotone
      BY <2>2, <3>4 DEF Monotone
    <3>6. worker' # worker \/ aborted'
      BY <3>1, <3>4, <3>2 DEF Types
    <3>7. Halted' \/ \A s \in src : outcome'[s] = "none" /\ s \in Somewhere => s \in Somewhere'
      BY <2>2, <3>3, <3>6, SamePlaces DEF Somewhere, Halted
    <3> QED BY <2>1, <2>2, <3>5, <3>7, FollowedKept
  <2>4. CASE CompareJob(w)
    <3> DEFINE s == worker[w].src
    <3>1. s \in Srcs /\ worker[w].stage # "idle" /\ UNCHANGED <<jobs, aborted>>
      BY <2>4 DEF CompareJob, Types, StageType
    <3>2. CASE Idle(w) /\ FinishUnchanged(s)
      <4>1. Busy \subseteq Busy' \cup {s}
        BY <3>1, <3>2, IdleEffect
      <4>2. \A t \in Srcs : outcome'[t] = "none" => outcome[t] = "none" /\ t # s
        BY <1>0, <3>1, <3>2, FinishMonotone
      <4>3. Monotone
        BY <2>2, <3>1, <4>2 DEF Monotone
      <4>4. \A t \in src : outcome'[t] = "none" /\ t \in Somewhere => t \in Somewhere'
        BY <1>0, <2>2, <3>1, <4>1, <4>2, SamePlaces DEF Somewhere, TypeOK
      <4> QED BY <2>1, <2>2, <4>3, <4>4, FollowedKept
    <3>3. CASE worker' = [worker EXCEPT ![w].stage = "copy"] /\ UNCHANGED outcome
      <4>1. \A v \in Workers : worker'[v].src = worker[v].src /\ (worker'[v].stage = "idle" <=> worker[v].stage = "idle")
        BY <3>1, <3>3 DEF Types, StageType
      <4>2. Busy' = Busy
        BY <4>1 DEF Busy
      <4>3. Monotone
        BY <2>2, <3>1, <3>3 DEF Monotone
      <4> QED BY <2>1, <2>2, <3>1, <4>2, <4>3, SamePlaces, FollowedKept DEF Somewhere
    <3> QED BY <2>4, <3>2, <3>3 DEF CompareJob
  <2>5. CASE CopyJob(w)
    <3> DEFINE s == worker[w].src
    <3>1. s \in Srcs /\ worker[w].stage # "idle" /\ UNCHANGED jobs /\ Idle(w)
      BY <2>5 DEF CopyJob, Types, StageType
    <3>2. Busy \subseteq Busy' \cup {s}
      BY <3>1, IdleEffect
    <3>3. /\ aborted => aborted'
          /\ \A t \in Srcs : outcome'[t] = "none" => outcome[t] = "none"
          /\ aborted' \/ outcome'[s] # "none"
      <4>1. \/ outcome' = [outcome EXCEPT ![s] = "copied"] /\ UNCHANGED aborted
            \/ aborted /\ UNCHANGED <<outcome, aborted>>
            \/ aborted' = TRUE /\ UNCHANGED outcome
            \/ Fail({s}, TRUE)
        BY <2>5 DEF CopyJob, NoRoom
      <4>2. CASE outcome' = [outcome EXCEPT ![s] = "copied"] /\ UNCHANGED aborted
        <5>1. aborted => aborted'
          BY <4>2
        <5>2. outcome'[s] # "none" /\ \A t \in Srcs : outcome'[t] = "none" => outcome[t] = "none"
          BY <1>0, <3>1, <4>2 DEF TypeOK
        <5> QED BY <5>1, <5>2
      <4>3. CASE Fail({s}, TRUE)
        BY <1>0, <3>1, <4>3, FailMonotone
      <4>4. CASE aborted /\ UNCHANGED <<outcome, aborted>>
        BY <4>4
      <4>5. CASE aborted' = TRUE /\ UNCHANGED outcome
        BY <4>5
      <4> QED BY <4>1, <4>2, <4>3, <4>4, <4>5
    <3>4. Monotone
      BY <2>2, <3>3 DEF Monotone
    <3>5. Halted' \/ \A t \in src : outcome'[t] = "none" /\ t \in Somewhere => t \in Somewhere'
      BY <2>2, <3>1, <3>2, <3>3, SamePlaces DEF Somewhere, Halted
    <3> QED BY <2>1, <2>2, <3>4, <3>5, FollowedKept
  <2> QED BY <1>11, <2>3, <2>4, <2>5 DEF WorkerStep
<1> QED BY <1>1, <1>2, <1>3, <1>4, <1>5, <1>6, <1>7, <1>8, <1>9, <1>10, <1>11 DEF Next, MainStep

\* In the removal pass every source was settled: nothing waits for a visit, a
\* worker or a link.
THEOREM RemovalsAfterWholeWalk == Spec => RemovesAfterWholeWalk
<1>1. Types /\ Barriers /\ Followed /\ [Next]_vars =>
         [phase = "remove" /\ src' # src => walkErr \/ \A s \in src : outcome[s] # "none"]_vars
  <2> SUFFICES ASSUME Types, Barriers, Followed, phase = "remove", ~walkErr
               PROVE  \A s \in src : outcome[s] # "none"
    OBVIOUS
  <2>1. todo = {} /\ roots = <<>> /\ Queued = {} /\ Busy = {} /\ Linked = {}
    BY DEF Barriers, Followed
  <2>2. Unseen = {}
    BY <2>1 DEF Unseen
  <2> QED BY <2>1, <2>2 DEF Followed
<1>2. Init => Types /\ Barriers /\ Followed
  BY InitTypes, InitBarriers
<1>3. Types /\ Barriers /\ Followed /\ [Next]_vars => Types' /\ Barriers' /\ Followed'
  BY TypesStep, BarriersStep, FollowedStep
<1> QED BY <1>1, <1>2, <1>3, PTL DEF Spec, RemovesAfterWholeWalk

-----------------------------------------------------------------------------
(* Places.                                                                   *)

\* What the rest needs of the command line: no two sources and no two roots
\* share a destination, and none lies below the destination of another root.
Distinct ==
    /\ \A s, t \in Srcs : DstOf[s] = DstOf[t] => s = t
    /\ \A q, r \in DOMAIN RootFiles : q # r => RootFiles[q] \cap RootFiles[r] = {}
    /\ \A k, l \in DOMAIN Roots : k # l => Roots[k] # Roots[l]
    /\ \A r \in DOMAIN Under, s \in Srcs : DstOf[s] \in Under[r] => s \in RootFiles[r]

\* Only the first run mirrors, and it can stat what is in the source.
SafeMirror == MirrorRuns \subseteq {1} /\ "lstat" \notin Faults

LEMMA InitPlaces == Distinct /\ Init => Places /\ RootsApart /\ MirrorWhole
<1> SUFFICES ASSUME Distinct, Init PROVE Places /\ RootsApart /\ MirrorWhole
  OBVIOUS
<1>1. todo = {} /\ Queued = {} /\ Busy = {} /\ Linked = {} /\ Recorded = {} /\ jobs = {} /\ DOMAIN links = {}
      /\ \A w \in Workers : worker[w].stage = "idle"
  BY DEF Init, Queued, Busy, Linked, Recorded
<1>2. Places
  BY <1>1 DEF Places
<1>3. Unseen \subseteq Srcs /\ src = Srcs /\ mirrorRoots = <<>> /\ DOMAIN mirrorRoots = {} /\ roots = Roots
  BY DEF Init, Unseen
<1>4. \A j, k \in DOMAIN Roots : j # k => RootFiles[Roots[j]] \cap RootFiles[Roots[k]] = {}
  BY RootAssumption DEF Distinct
<1> QED BY <1>2, <1>3, <1>4 DEF RootsApart, MirrorWhole

\* One place left means the others are free of the source that left it.
LEMMA PopPlaces ==
    ASSUME Types, Places, NEW w \in Workers, NEW j \in jobs, worker[w].stage = "idle", jobs' = jobs \ {j},
           \/ worker' = worker
           \/ \E c \in {"compare", "copy"} : worker' = [worker EXCEPT ![w] = [stage |-> c, src |-> j.src]]
    PROVE  /\ j.src \in Queued /\ j.src \notin Queued' /\ Queued' \subseteq Queued /\ Busy' \subseteq Busy \cup {j.src}
           /\ \A a, b \in jobs' : a.src = b.src => a = b
           /\ \A u, v \in Workers : worker'[u].stage # "idle" /\ worker'[v].stage # "idle" /\ u # v => worker'[u].src # worker'[v].src
<1>1. j.src \in Queued /\ Queued' \subseteq Queued /\ Busy' \subseteq Busy \cup {j.src}
  BY PopEffect
<1>2. j.src \notin Queued' /\ \A a, b \in jobs' : a.src = b.src => a = b
  BY DEF Places, Queued
<1>3. ASSUME NEW c \in {"compare", "copy"}, worker' = [worker EXCEPT ![w] = [stage |-> c, src |-> j.src]],
             NEW u \in Workers, NEW v \in Workers, worker'[u].stage # "idle", worker'[v].stage # "idle", u # v
      PROVE  worker'[u].src # worker'[v].src
  <2>1. worker'[w].src = j.src /\ \A x \in Workers \ {w} : worker'[x] = worker[x]
    BY <1>3 DEF Types
  <2>2. \A x \in Workers : worker[x].stage # "idle" => worker[x].src \in Busy
    BY DEF Types, StageType, Busy
  <2> QED BY <1>1, <1>3, <2>1, <2>2 DEF Places
<1> QED BY <1>1, <1>2, <1>3 DEF Places

LEMMA IdlePlaces ==
    ASSUME Types, Places, NEW w \in Workers, worker[w].stage # "idle", Idle(w)
    PROVE  /\ worker[w].src \in Busy /\ Busy' \subseteq Busy /\ worker[w].src \notin Busy'
           /\ \A u, v \in Workers : worker'[u].stage # "idle" /\ worker'[v].stage # "idle" /\ u # v => worker'[u].src # worker'[v].src
<1>1. worker[w].src \in Busy /\ Busy' \subseteq Busy
  BY IdleEffect
<1>2. worker'[w].stage = "idle" /\ \A x \in Workers \ {w} : worker'[x] = worker[x]
  BY DEF Idle, Types
<1> QED BY <1>1, <1>2 DEF Places, Busy

LEMMA LinkPlaces ==
    ASSUME Types, Places, links # <<>>, links' = Tail(links)
    PROVE  /\ Head(links).src \in Linked /\ Linked' \subseteq Linked /\ Head(links).src \notin Linked'
           /\ \A k, l \in DOMAIN links' : k # l => links'[k].src # links'[l].src
<1>0. links \in Seq(LinkType)
  BY DEF Types
<1>1. /\ Head(links) = links[1] /\ 1 \in DOMAIN links /\ DOMAIN links' \subseteq Nat
      /\ \A k \in DOMAIN links' : k + 1 \in DOMAIN links /\ k + 1 # 1 /\ links'[k] = links[k + 1]
  BY <1>0, TailFacts
<1>2. \A k, l \in DOMAIN links : k # l => links[k].src # links[l].src
  BY DEF Places
<1>3. \A k \in DOMAIN links' : links'[k].src # Head(links).src
  BY <1>1, <1>2
<1>4. \A k, l \in DOMAIN links' : k # l => links'[k].src # links'[l].src
  BY <1>1, <1>2
<1>5. Head(links).src \in Linked /\ Linked' \subseteq Linked
  BY LinkEffect
<1> QED BY <1>3, <1>4, <1>5 DEF Linked

LEMMA DeferPlaces ==
    ASSUME Types, Places, NEW s \in Srcs, s \notin Linked, NEW e \in LinkType, e.src = s, links' = Append(links, e)
    PROVE  \A k, l \in DOMAIN links' : k # l => links'[k].src # links'[l].src
<1>0. links \in Seq(LinkType)
  BY DEF Types
<1>1. /\ \A k \in DOMAIN links : k \in DOMAIN links' /\ links'[k] = links[k]
      /\ \A k \in DOMAIN links' : k \notin DOMAIN links => links'[k] = e
      /\ \A k, l \in DOMAIN links' : k \notin DOMAIN links /\ l \notin DOMAIN links => k = l
  BY <1>0, AppendFacts
<1>2. \A k \in DOMAIN links : links[k].src # s
  BY DEF Linked
<1>3. \A k, l \in DOMAIN links : k # l => links[k].src # links[l].src
  BY DEF Places
<1> QED BY <1>1, <1>2, <1>3

\* moveSource adds to what is recorded, and nothing else does.
LEMMA RecordedBy ==
    ASSUME NEW s, RecordMove(s), removing' = removing
    PROVE  Recorded' \subseteq Recorded \cup {s}
BY DEF RecordMove, Recorded

LEMMA PlacesStep == Types /\ Barriers /\ RootsApart /\ Places /\ [Next]_vars => Places'
<1> SUFFICES ASSUME Types, Barriers, RootsApart, Places, [Next]_vars PROVE Places'
  OBVIOUS
<1>1. CASE OpenRoot
  <2> DEFINE r == Head(roots)
  <2>1. /\ roots # <<>> /\ ~opened /\ todo = {} /\ UNCHANGED <<jobs, worker, links, moved, removing>>
    BY <1>1 DEF OpenRoot, Barriers
  <2>2. /\ Queued' = Queued /\ Busy' = Busy /\ Linked' = Linked /\ Recorded' = Recorded
    BY <2>1, SamePlaces
  <2>3. CASE RenameRoot(r) \/ FailRoot(r) \/ FailVisit(r)
    <3>1. roots' = Tail(roots) /\ opened' = opened /\ todo' = todo /\ src \ RootFiles[r] \subseteq src'
      BY <2>3 DEF RenameRoot, RenameFiles, FailRoot, FailVisit, RecordRoot, NextRoot
    <3>2. RootFiles[r] \subseteq Unseen /\ Unseen' \subseteq Unseen
      BY <2>1, <3>1, HeadSeen
    <3> HIDE DEF r
    <3> QED BY <2>1, <2>2, <3>1, <3>2 DEF Places
  <2>4. CASE WalkRoot(r)
    <3>1. roots' = roots /\ opened' = TRUE /\ todo' = RootFiles[r] \cap src /\ src' = src
      BY <2>4 DEF WalkRoot, RecordRoot, FilesLeft
    <3>2. RootFiles[r] \subseteq Unseen /\ Unseen' \subseteq Unseen /\ Unseen' \cap RootFiles[r] = {}
      BY <2>1, <3>1, HeadSeen
    <3> HIDE DEF r
    <3> QED BY <2>1, <2>2, <3>1, <3>2 DEF Places
  <2> QED BY <1>1, <2>3, <2>4 DEF OpenRoot
<1>2. CASE LoseTarget
  <2>1. Unseen' = {}
    BY <1>2 DEF LoseTarget, Unseen
  <2> QED BY <1>2, <2>1, SamePlaces DEF LoseTarget, Places
<1>3. CASE CloseRoot
  <2>1. Unseen' = Unseen
    BY <1>3, CloseUnseen DEF CloseRoot, Types
  <2>2. todo' = {} /\ UNCHANGED <<jobs, worker, links, moved, removing, src>>
    BY <1>3 DEF CloseRoot
  <2> QED BY <2>1, <2>2, SamePlaces DEF Places
<1>4. CASE Visit
  <2> PICK s \in todo : todo' = todo \ {s} /\ (VisitSingle(s) \/ VisitPrimary(s) \/ VisitSecondary(s))
    BY <1>4 DEF Visit
  <2>0. s \in Srcs /\ s \notin Unseen \cup Queued \cup Busy \cup Linked \cup Recorded /\ s \in src
    BY DEF Types, TypeOK, Places
  <2>1. Unseen' = Unseen /\ Busy' = Busy /\ UNCHANGED <<worker, removing, src>>
    BY <1>4, SamePlaces DEF Visit
  <2>2. CASE Enqueue(s, TRUE) \/ Enqueue(s, FALSE)
    <3>1. Queued' = Queued \cup {s}
      BY <2>0, <2>2, EnqueueEffect
    <3>2. PICK c \in BOOLEAN : Enqueue(s, c)
      BY <2>2
    <3>3. \A i, j \in jobs' : i.src = j.src => i = j
      <4> DEFINE e == [src |-> s, check |-> c]
      <4>1. jobs' = jobs \cup {e} /\ e.src = s
        BY <3>2 DEF Enqueue
      <4>2. \A j \in jobs : j.src # s
        BY <2>0 DEF Queued
      <4> HIDE DEF e
      <4> QED BY <4>1, <4>2 DEF Places
    <3>4. UNCHANGED <<links, moved>>
      BY <2>0, <2>2, <3>1 DEF VisitSingle, VisitPrimary, VisitSecondary, Queued
    <3> QED BY <2>0, <2>1, <3>1, <3>3, <3>4, SamePlaces DEF Places
  <2>3. CASE FinishUnchanged(s) /\ UNCHANGED <<jobs, links>>
    <3>1. Recorded' \subseteq Recorded \cup {s}
      BY <2>1, <2>3, RecordedBy DEF FinishUnchanged
    <3> QED BY <2>0, <2>1, <2>3, <3>1, SamePlaces DEF Places
  <2>4. CASE VisitSecondary(s) /\ UNCHANGED moved
    <3> DEFINE e == [src |-> s, target |-> primary[Inode[s]].dst, unlinked |-> FALSE]
    <3>1. e \in LinkType /\ e.src = s
      BY <2>0, <2>4 DEF VisitSecondary, Types, LinkType
    <3>2. UNCHANGED <<jobs, moved>> /\ (links' = links \/ links' = Append(links, e))
      BY <2>4 DEF VisitSecondary
    <3> HIDE DEF e
    <3>3. CASE links' = links
      BY <2>0, <2>1, <3>2, <3>3, SamePlaces DEF Places
    <3>4. CASE links' = Append(links, e)
      <4>1. Linked' = Linked \cup {s} /\ \A k, l \in DOMAIN links' : k # l => links'[k].src # links'[l].src
        BY <2>0, <3>1, <3>4, DeferEffect, DeferPlaces
      <4> QED BY <2>0, <2>1, <3>2, <4>1, SamePlaces DEF Places
    <3> QED BY <3>2, <3>3, <3>4
  <2>5. VisitSingle(s) => Enqueue(s, TRUE)
    BY DEF VisitSingle
  <2>6. VisitPrimary(s) => Enqueue(s, FALSE) \/ (FinishUnchanged(s) /\ UNCHANGED <<jobs, links>>)
    BY DEF VisitPrimary
  <2>7. VisitSecondary(s) => UNCHANGED moved \/ (FinishUnchanged(s) /\ UNCHANGED <<jobs, links>>)
    BY DEF VisitSecondary
  <2> QED BY <2>2, <2>3, <2>4, <2>5, <2>6, <2>7
<1>5. CASE EndWalk \/ JoinWorkers \/ Decide \/ EndMirror \/ EndRemove \/ MirrorRoot \/ RemoveDir
           \/ Interrupt \/ WatchdogAbort \/ Finished \/ UNCHANGED vars
  <2>1. UNCHANGED <<todo, roots, opened, jobs, worker, links, moved, removing, src>>
    BY <1>5 DEF EndWalk, JoinWorkers, Decide, EndMirror, EndRemove, MirrorRoot, RemoveDir, Interrupt, WatchdogAbort, Finished, vars, walkVars
  <2> QED BY <2>1, SamePlaces DEF Places
<1>6. CASE SkipLink \/ LinkTarget
  <2>1. links # <<>> /\ links' = Tail(links) /\ UNCHANGED <<todo, roots, opened, jobs, worker, removing, src>>
    BY <1>6 DEF SkipLink, LinkTarget, walkVars
  <2>2. Recorded' \subseteq Recorded \cup {Head(links).src}
    BY <1>6, <2>1, RecordedBy, SamePlaces DEF SkipLink, LinkTarget
  <2>3. /\ Head(links).src \in Linked /\ Linked' \subseteq Linked /\ Head(links).src \notin Linked'
        /\ \A k, l \in DOMAIN links' : k # l => links'[k].src # links'[l].src
    BY <2>1, LinkPlaces
  <2> QED BY <2>1, <2>2, <2>3, SamePlaces DEF Places
<1>7. CASE RemoveLinkDst
  <2>1. links # <<>> /\ links' = [links EXCEPT ![1].unlinked = TRUE] /\ UNCHANGED <<todo, roots, opened, jobs, worker, moved, removing, src>>
    BY <1>7 DEF RemoveLinkDst, walkVars
  <2>2. DOMAIN links' = DOMAIN links /\ \A k \in DOMAIN links : links'[k].src = links[k].src
    <3>1. links \in Seq(LinkType)
      BY DEF Types
    <3>2. 1 \in DOMAIN links /\ links[1] \in LinkType
      BY <2>1, <3>1, TailFacts
    <3> QED BY <2>1, <3>1, <3>2 DEF LinkType
  <2>3. Linked' = Linked /\ \A k, l \in DOMAIN links' : k # l => links'[k].src # links'[l].src
    BY <2>2 DEF Linked, Places
  <2> QED BY <2>1, <2>3, SamePlaces DEF Places
<1>8. CASE HandOut
  <2>1. Recorded' = Recorded
    BY <1>8 DEF HandOut, Recorded
  <2> QED BY <1>8, <2>1, SamePlaces DEF HandOut, Places, walkVars
<1>9. CASE RemoveSource
  <2>1. PICK s \in removing : removing' = removing \ {s} /\ src \ {s} \subseteq src'
    BY <1>9 DEF RemoveSource
  <2>2. s \in Recorded /\ Recorded' \subseteq Recorded
    BY <1>9, <2>1 DEF RemoveSource, Recorded
  <2>3. UNCHANGED <<todo, roots, opened, jobs, worker, links>>
    BY <1>9 DEF RemoveSource, walkVars
  <2> QED BY <2>1, <2>2, <2>3, SamePlaces DEF Places
<1>10. CASE Rerun
  <2>1. todo' = {} /\ Queued' = {} /\ Busy' = {} /\ Linked' = {} /\ Recorded' = {} /\ jobs' = {} /\ DOMAIN links' = {}
        /\ \A w \in Workers : worker'[w].stage = "idle"
    BY <1>10 DEF Rerun, Queued, Busy, Linked, Recorded
  <2> QED BY <2>1 DEF Places
<1>11. ASSUME NEW w \in Workers, WorkerStep(w) PROVE Places'
  <2>1. UNCHANGED <<todo, roots, opened, links, removing, src>>
    BY <1>11 DEF WorkerStep, PopJob, CompareJob, CopyJob, walkVars
  <2>2. CASE PopJob(w)
    <3>1. PICK j \in jobs : /\ jobs' = jobs \ {j} /\ worker[w].stage = "idle"
                            /\ IF aborted THEN UNCHANGED worker
                               ELSE worker' = [worker EXCEPT ![w] = [stage |-> IF j.check THEN "compare" ELSE "copy", src |-> j.src]]
      BY <2>2 DEF PopJob
    <3>2. \/ worker' = worker
          \/ \E c \in {"compare", "copy"} : worker' = [worker EXCEPT ![w] = [stage |-> c, src |-> j.src]]
      BY <3>1
    <3>3. /\ j.src \in Queued /\ j.src \notin Queued' /\ Queued' \subseteq Queued /\ Busy' \subseteq Busy \cup {j.src}
          /\ \A a, b \in jobs' : a.src = b.src => a = b
          /\ \A u, v \in Workers : worker'[u].stage # "idle" /\ worker'[v].stage # "idle" /\ u # v => worker'[u].src # worker'[v].src
      BY <3>1, <3>2, PopPlaces
    <3>4. UNCHANGED moved
      BY <2>2 DEF PopJob
    <3> QED BY <2>1, <3>3, <3>4, SamePlaces DEF Places
  <2>3. CASE Idle(w) /\ worker[w].stage # "idle" /\ UNCHANGED jobs /\ (RecordMove(worker[w].src) \/ UNCHANGED moved)
    <3>1. /\ worker[w].src \in Busy /\ Busy' \subseteq Busy /\ worker[w].src \notin Busy'
          /\ \A u, v \in Workers : worker'[u].stage # "idle" /\ worker'[v].stage # "idle" /\ u # v => worker'[u].src # worker'[v].src
      BY <2>3, IdlePlaces
    <3>2. Recorded' \subseteq Recorded \cup {worker[w].src}
      BY <2>1, <2>3, RecordedBy, SamePlaces
    <3> QED BY <2>1, <2>3, <3>1, <3>2, SamePlaces DEF Places
  <2>4. CASE worker' = [worker EXCEPT ![w].stage = "copy"] /\ worker[w].stage = "compare" /\ UNCHANGED <<jobs, moved>>
    <3>1. \A v \in Workers : worker'[v].src = worker[v].src /\ (worker'[v].stage = "idle" <=> worker[v].stage = "idle")
      BY <2>4 DEF Types, StageType
    <3>2. Busy' = Busy
      BY <3>1 DEF Busy
    <3> QED BY <2>1, <2>4, <3>1, <3>2, SamePlaces DEF Places
  <2>5. CASE CompareJob(w)
    BY <2>3, <2>4, <2>5 DEF CompareJob, FinishUnchanged
  <2>6. CASE CopyJob(w)
    BY <2>3, <2>6 DEF CopyJob, NoRoom
  <2> QED BY <1>11, <2>2, <2>5, <2>6 DEF WorkerStep
<1> QED BY <1>1, <1>2, <1>3, <1>4, <1>5, <1>6, <1>7, <1>8, <1>9, <1>10, <1>11 DEF Next, MainStep

-----------------------------------------------------------------------------
(* The roots of the mirror pass.                                             *)

LEMMA RootsApartStep == Distinct /\ Types /\ Barriers /\ RootsApart /\ [Next]_vars => RootsApart'
<1> SUFFICES ASSUME Distinct, Types, Barriers, RootsApart, [Next]_vars PROVE RootsApart'
  OBVIOUS
<1>t. ASSUME roots # <<>>
      PROVE  \A j, k \in DOMAIN Tail(roots) : j # k => RootFiles[Tail(roots)[j]] \cap RootFiles[Tail(roots)[k]] = {}
  <2>1. \A k \in DOMAIN Tail(roots) : k \in Nat /\ k + 1 \in DOMAIN roots /\ Tail(roots)[k] = roots[k + 1]
    BY <1>t, TailFacts DEF Types
  <2>2. \A j, k \in Nat : j # k => j + 1 # k + 1
    OBVIOUS
  <2> QED BY <2>1, <2>2 DEF RootsApart
<1>1. CASE OpenRoot
  <2> DEFINE r == Head(roots)
  <2>1. roots # <<>> /\ ~opened /\ r \in DOMAIN RootFiles
    BY <1>1, TailFacts DEF OpenRoot, Types
  <2>2. CASE RenameRoot(r) \/ FailRoot(r)
    <3>1. roots' = Tail(roots) /\ opened' = opened /\ mirrorRoots' = mirrorRoots
      BY <2>2 DEF RenameRoot, RenameFiles, FailRoot, NextRoot
    <3>2. Unseen' \subseteq Unseen
      BY <2>1, <3>1, HeadSeen
    <3> QED BY <1>t, <2>1, <3>1, <3>2 DEF RootsApart
  <2>4. CASE FailVisit(r)
    <3>1. roots' = Tail(roots) /\ opened' = opened /\ mirrorRoots' = IF Mirror THEN Append(mirrorRoots, r) ELSE mirrorRoots
      BY <2>4 DEF FailVisit, RecordRoot, NextRoot
    <3>2. Unseen' \subseteq Unseen /\ Unseen' \cap RootFiles[r] = {}
      BY <2>1, <3>1, HeadSeen DEF RootsApart
    <3>3. \A k \in DOMAIN mirrorRoots' : mirrorRoots'[k] = r \/ (k \in DOMAIN mirrorRoots /\ mirrorRoots'[k] = mirrorRoots[k])
      <4>1. mirrorRoots' = IF Mirror THEN Append(mirrorRoots, r) ELSE mirrorRoots
        BY <3>1
      <4>2. mirrorRoots \in Seq(DOMAIN RootFiles)
        BY DEF Types
      <4> HIDE DEF r
      <4> QED BY <2>1, <4>1, <4>2, AppendFacts
    <3> HIDE DEF r
    <3> QED BY <1>t, <2>1, <3>1, <3>2, <3>3 DEF RootsApart
  <2>3. CASE WalkRoot(r)
    <3>1. roots' = roots /\ opened' = TRUE /\ mirrorRoots' = IF Mirror THEN Append(mirrorRoots, r) ELSE mirrorRoots
      BY <2>3 DEF WalkRoot, RecordRoot
    <3>2. Unseen' \subseteq Unseen /\ Unseen' \cap RootFiles[r] = {}
      BY <2>1, <3>1, HeadSeen
    <3>3. \A k \in DOMAIN mirrorRoots' : mirrorRoots'[k] = r \/ (k \in DOMAIN mirrorRoots /\ mirrorRoots'[k] = mirrorRoots[k])
      <4> HIDE DEF r
      <4> QED BY <2>1, <3>1, AppendFacts DEF Types
    <3> HIDE DEF r
    <3> QED BY <3>1, <3>2, <3>3 DEF RootsApart
  <2> QED BY <1>1, <2>2, <2>3, <2>4 DEF OpenRoot
<1>2. CASE LoseTarget
  <2>1. Unseen' = {} /\ DOMAIN roots' = {}
    BY <1>2 DEF LoseTarget, Unseen
  <2> QED BY <1>2, <2>1 DEF LoseTarget, RootsApart
<1>3. CASE CloseRoot
  <2>1. Unseen' = Unseen /\ roots # <<>>
    BY <1>3, CloseUnseen DEF CloseRoot, Types
  <2> QED BY <1>3, <1>t, <2>1 DEF CloseRoot, RootsApart
<1>4. CASE MirrorRoot
  <2>1. \A k \in DOMAIN Tail(mirrorRoots) : k + 1 \in DOMAIN mirrorRoots /\ Tail(mirrorRoots)[k] = mirrorRoots[k + 1]
    BY <1>4, TailFacts DEF MirrorRoot, Types
  <2>2. UNCHANGED <<roots, opened>> /\ mirrorRoots' = Tail(mirrorRoots)
    BY <1>4 DEF MirrorRoot
  <2> QED BY <2>1, <2>2, SamePlaces DEF RootsApart
<1>5. CASE Rerun
  <2>1. roots' = Roots /\ DOMAIN mirrorRoots' = {}
    BY <1>5 DEF Rerun
  <2> QED BY <2>1, RootAssumption DEF Distinct, RootsApart
<1>6. CASE \/ Visit \/ JoinWorkers \/ SkipLink \/ RemoveLinkDst \/ LinkTarget \/ Decide \/ EndWalk
           \/ EndMirror \/ HandOut \/ RemoveSource \/ RemoveDir \/ EndRemove \/ Interrupt \/ WatchdogAbort \/ Finished \/ UNCHANGED vars
           \/ \E w \in Workers : WorkerStep(w)
  <2>1. UNCHANGED <<roots, opened, mirrorRoots>>
    BY <1>6 DEF Visit, EndWalk, JoinWorkers, SkipLink, RemoveLinkDst, LinkTarget, Decide, EndMirror, HandOut, RemoveSource, RemoveDir,
                EndRemove, Interrupt, WatchdogAbort, Finished, WorkerStep, PopJob, CompareJob, CopyJob, vars, walkVars
  <2> QED BY <2>1, SamePlaces DEF RootsApart
<1> QED BY <1>1, <1>2, <1>3, <1>4, <1>5, <1>6 DEF Next, MainStep

LEMMA MirrorWholeStep == SafeMirror /\ Types /\ Barriers /\ RootsApart /\ MirrorWhole /\ [Next]_vars => MirrorWhole'
<1> SUFFICES ASSUME SafeMirror, Types, Barriers, RootsApart, MirrorWhole, [Next]_vars PROVE MirrorWhole'
  OBVIOUS
<1>0. run \in Nat
  BY OptionAssumption DEF Types, TypeOK
<1>1. CASE OpenRoot
  <2> DEFINE r == Head(roots)
  <2>1. roots # <<>> /\ ~opened /\ run' = run /\ phase = "walk" /\ r \in DOMAIN RootFiles
    BY <1>1, TailFacts DEF OpenRoot, runVars, Types
  <2>2. CASE RenameRoot(r) \/ FailRoot(r)
    <3>1. roots' = Tail(roots) /\ opened' = opened /\ mirrorRoots' = mirrorRoots /\ src \ RootFiles[r] \subseteq src'
      BY <2>2 DEF RenameRoot, RenameFiles, FailRoot, NextRoot
    <3>2. RootFiles[r] \subseteq Unseen /\ Unseen' \subseteq Unseen /\ Unseen' \cap RootFiles[r] = {}
      BY <2>1, <3>1, HeadSeen
    <3> HIDE DEF r
    <3> QED BY <1>1, <2>1, <3>1, <3>2 DEF RootsApart, MirrorWhole, OpenRoot
  <2>3. CASE WalkRoot(r) \/ FailVisit(r)
    <3>1. /\ (roots' = roots /\ opened' = TRUE) \/ (roots' = Tail(roots) /\ opened' = opened)
          /\ src' = src
          /\ mirrorRoots' = IF Mirror THEN Append(mirrorRoots, r) ELSE mirrorRoots
      BY <2>3 DEF WalkRoot, FailVisit, RecordRoot, NextRoot
    <3>2. RootFiles[r] \subseteq Unseen /\ Unseen' \subseteq Unseen /\ Unseen' \cap RootFiles[r] = {}
      BY <2>1, <3>1, HeadSeen
    <3>3. Mirror => run = 1 /\ RootFiles[r] \subseteq src
      BY <2>1, <3>2 DEF Mirror, SafeMirror, MirrorWhole
    <3>4. /\ \A k \in DOMAIN mirrorRoots' : (mirrorRoots'[k] = r /\ Mirror) \/ (k \in DOMAIN mirrorRoots /\ mirrorRoots'[k] = mirrorRoots[k])
          /\ mirrorRoots' # <<>> => Mirror \/ mirrorRoots # <<>>
      <4> HIDE DEF r
      <4> QED BY <2>1, <3>1, AppendFacts DEF Types
    <3> HIDE DEF r
    <3> QED BY <1>1, <2>1, <3>1, <3>2, <3>3, <3>4 DEF RootsApart, MirrorWhole, OpenRoot
  <2> QED BY <1>1, <2>2, <2>3 DEF OpenRoot
<1>2. CASE LoseTarget
  <2>1. Unseen' = {} /\ DOMAIN roots' = {}
    BY <1>2 DEF LoseTarget, Unseen
  <2> QED BY <1>2, <2>1 DEF LoseTarget, MirrorWhole, runVars
<1>3. CASE CloseRoot
  <2>1. Unseen' = Unseen /\ roots # <<>>
    BY <1>3, CloseUnseen DEF CloseRoot, Types
  <2> QED BY <1>3, <2>1 DEF CloseRoot, MirrorWhole, runVars
<1>4. CASE \/ Visit \/ JoinWorkers \/ SkipLink \/ RemoveLinkDst \/ LinkTarget \/ Decide \/ EndWalk
           \/ EndMirror \/ HandOut \/ RemoveDir \/ EndRemove \/ Interrupt \/ WatchdogAbort \/ Finished \/ UNCHANGED vars
           \/ \E w \in Workers : WorkerStep(w)
  <2>1. UNCHANGED <<run, roots, opened, mirrorRoots, src>>
    BY <1>4 DEF Visit, EndWalk, JoinWorkers, SkipLink, RemoveLinkDst, LinkTarget, Decide, EndMirror, HandOut, RemoveDir, EndRemove,
                Interrupt, WatchdogAbort, Finished, WorkerStep, PopJob, CompareJob, CopyJob, vars, walkVars, runVars
  <2>2. phase' = "walk" => phase = "walk"
    BY <1>4 DEF Visit, EndWalk, JoinWorkers, SkipLink, RemoveLinkDst, LinkTarget, Decide, EndMirror, HandOut, RemoveDir, EndRemove,
                Interrupt, WatchdogAbort, Finished, WorkerStep, PopJob, CompareJob, CopyJob, vars
  <2> QED BY <2>1, <2>2, SamePlaces DEF MirrorWhole
<1>5. CASE MirrorRoot
  <2>1. /\ \A k \in DOMAIN Tail(mirrorRoots) : k + 1 \in DOMAIN mirrorRoots /\ Tail(mirrorRoots)[k] = mirrorRoots[k + 1]
    BY <1>5, TailFacts DEF MirrorRoot, Types
  <2>2. UNCHANGED <<run, phase, roots, opened, src>> /\ mirrorRoots # <<>> /\ mirrorRoots' = Tail(mirrorRoots)
    BY <1>5 DEF MirrorRoot, runVars
  <2> QED BY <2>1, <2>2, SamePlaces DEF MirrorWhole
<1>6. CASE RemoveSource
  <2>1. phase' = "remove" /\ mirrorRoots' = <<>> /\ UNCHANGED roots
    BY <1>6 DEF RemoveSource, Barriers, walkVars
  <2>2. DOMAIN mirrorRoots' = {}
    BY <2>1
  <2> QED BY <2>1, <2>2 DEF MirrorWhole
<1>7. CASE Rerun
  <2>1. mirrorRoots' = <<>> /\ run' # 1 /\ roots' = Roots /\ DOMAIN mirrorRoots' = {}
    BY <1>0, <1>7, OptionAssumption DEF Rerun, Types, TypeOK
  <2> QED BY <2>1 DEF MirrorWhole
<1> QED BY <1>1, <1>2, <1>3, <1>4, <1>5, <1>6, <1>7 DEF Next, MainStep

-----------------------------------------------------------------------------
(* Contents.                                                                 *)

LEMMA HeadLinked == ASSUME Types, links # <<>> PROVE Head(links).src \in Linked /\ Head(links).src \in Srcs
<1>1. links \in Seq(LinkType)
  BY DEF Types
<1>2. Head(links) \in LinkType /\ Head(links) = links[1] /\ 1 \in DOMAIN links
  BY <1>1, TailFacts
<1> QED BY <1>2 DEF LinkType, Linked

\* The destination of a source stays as it is, or gets the source itself, unless
\* a worker or the hardlink pass has that source in hand, or the mirror pass
\* comes by and does not find it.
LEMMA DstKept ==
    ASSUME Distinct, "lstat" \notin Faults, Types, [Next]_vars, NEW p \in Srcs, p \notin Busy \cup Linked,
           MirrorRoot => p \in src \/ p \notin RootFiles[Head(mirrorRoots)]
    PROVE  dst'[DstOf[p]] = dst[DstOf[p]] \/ (dst'[DstOf[p]] = Original(p) /\ p \in Unseen)
<1>0. DstOf[p] \in Dsts /\ dst \in [Dsts -> Files]
  BY OptionAssumption DEF Types
<1>1. CASE OpenRoot
  <2> DEFINE r == Head(roots)
             At(n) == CHOOSE s \in FilesLeft(r) : DstOf[s] = n
  <2>1. CASE RenameRoot(r)
    <3>1. dst'[DstOf[p]] = IF \E s \in FilesLeft(r) : DstOf[s] = DstOf[p] THEN Original(At(DstOf[p])) ELSE dst[DstOf[p]]
      BY <1>0, <2>1 DEF RenameRoot, RenameFiles
    <3>2. CASE \E s \in FilesLeft(r) : DstOf[s] = DstOf[p]
      <4>1. At(DstOf[p]) \in FilesLeft(r) /\ DstOf[At(DstOf[p])] = DstOf[p]
        BY <3>2
      <4>2. FilesLeft(r) \subseteq Srcs
        BY DEF FilesLeft, Types, TypeOK
      <4>3. At(DstOf[p]) = p
        <5> HIDE DEF At
        <5> QED BY <4>1, <4>2 DEF Distinct
      <4>4. dst'[DstOf[p]] = Original(p) /\ p \in RootFiles[r]
        BY <3>1, <3>2, <4>1, <4>3 DEF FilesLeft
      <4>5. RootFiles[r] \subseteq Unseen
        BY <1>1, <2>1, HeadSeen DEF OpenRoot, RenameRoot, RenameFiles, NextRoot
      <4> QED BY <4>4, <4>5
    <3> QED BY <3>1, <3>2
  <2>2. CASE FailRoot(r) \/ FailVisit(r) \/ WalkRoot(r)
    BY <2>2 DEF FailRoot, FailVisit, WalkRoot, RecordRoot
  <2> QED BY <1>1, <2>1, <2>2 DEF OpenRoot
<1>2. CASE \/ LoseTarget \/ CloseRoot \/ Visit \/ EndWalk \/ JoinWorkers \/ SkipLink \/ Decide \/ EndMirror \/ HandOut
           \/ RemoveSource \/ RemoveDir \/ EndRemove \/ Interrupt \/ WatchdogAbort \/ Finished \/ Rerun \/ UNCHANGED vars
  BY <1>2 DEF LoseTarget, CloseRoot, Visit, EndWalk, JoinWorkers, SkipLink, Decide, EndMirror, HandOut, RemoveSource, RemoveDir,
              EndRemove, Interrupt, WatchdogAbort, Finished, Rerun, vars
<1>3. CASE RemoveLinkDst \/ LinkTarget
  <2>1. links # <<>> /\ \A n \in Dsts : n # DstOf[Head(links).src] => dst'[n] = dst[n]
    BY <1>0, <1>3 DEF RemoveLinkDst, LinkTarget
  <2>2. Head(links).src \in Linked /\ Head(links).src \in Srcs
    BY <2>1, HeadLinked
  <2>3. DstOf[Head(links).src] # DstOf[p]
    BY <2>2 DEF Distinct
  <2> QED BY <1>0, <2>1, <2>3
<1>4. CASE MirrorRoot
  <2> DEFINE r == Head(mirrorRoots)
             Gone == {n \in Under[r] : dst[n] # Absent /\ Counterpart(r, n) \cap src = {}}
  <2>1. mirrorRoots # <<>> /\ \A n \in Dsts : n \notin Gone => dst'[n] = dst[n]
    BY <1>4 DEF MirrorRoot
  <2>2. r \in DOMAIN Under
    BY <2>1, TailFacts, RootAssumption DEF Types
  <2>3. DstOf[p] \notin Gone
    BY <1>4, <2>2 DEF Distinct, Counterpart
  <2> HIDE DEF Gone
  <2> QED BY <1>0, <2>1, <2>3
<1>5. ASSUME NEW w \in Workers, WorkerStep(w) PROVE dst'[DstOf[p]] = dst[DstOf[p]]
  <2>1. CASE PopJob(w) \/ CompareJob(w)
    BY <2>1 DEF PopJob, CompareJob
  <2>2. CASE CopyJob(w)
    <3> DEFINE s == worker[w].src
    <3>1. s \in Busy /\ s \in Srcs
      BY <2>2 DEF CopyJob, Types, StageType, Busy
    <3>2. DstOf[s] # DstOf[p]
      BY <3>1 DEF Distinct
    <3>3. \A n \in Dsts : n # DstOf[s] => dst'[n] = dst[n]
      BY <1>0, <2>2 DEF CopyJob, NoRoom, LosesOld
    <3> QED BY <1>0, <3>2, <3>3
  <2> QED BY <1>5, <2>1, <2>2 DEF WorkerStep
<1> QED BY <1>1, <1>2, <1>3, <1>4, <1>5 DEF Next, MainStep

\* So a destination that holds its source's content keeps it.
LEMMA HoldsStep ==
    ASSUME Distinct, SafeMirror, Types, MirrorWhole, [Next]_vars,
           NEW p \in Srcs, p \notin Busy \cup Linked, Holds(DstOf[p], p)
    PROVE  Holds(DstOf[p], p)'
<1>1. MirrorRoot => p \in src \/ p \notin RootFiles[Head(mirrorRoots)]
  BY TailFacts DEF MirrorRoot, MirrorWhole, Types
<1>2. dst'[DstOf[p]] \in {dst[DstOf[p]], Original(p)}
  BY <1>1, DstKept DEF SafeMirror
<1> QED BY <1>2 DEF Holds, Original

\* A source that nobody may remove is recorded for removal, or renamed away,
\* only by a step that finds its content at its destination or brings it there.
LEMMA SourceStep ==
    ASSUME Distinct, Types, Places, PrimaryKept, [Next]_vars,
           NEW p \in Srcs, p \in src \ Recorded, ~(p \in todo \cup Linked /\ Inode[p] \in DOMAIN primary)
    PROVE  Kept(p)'
<1>0. DstOf[p] \in Dsts /\ dst \in [Dsts -> Files]
  BY OptionAssumption DEF Types
<1>s. p \in src' /\ p \notin Recorded' => Kept(p)'
  BY DEF Kept
<1>h. Holds(DstOf[p], p)' => Kept(p)'
  BY DEF Kept
<1>1. CASE OpenRoot
  <2> DEFINE r == Head(roots)
             At(n) == CHOOSE s \in FilesLeft(r) : DstOf[s] = n
  <2>0. Recorded' = Recorded
    BY <1>1, SamePlaces DEF OpenRoot
  <2>1. CASE RenameRoot(r) /\ p \in RootFiles[r]
    <3>1. p \in FilesLeft(r) /\ FilesLeft(r) \subseteq Srcs
      BY <2>1 DEF FilesLeft, Types, TypeOK
    <3>2. dst'[DstOf[p]] = Original(At(DstOf[p]))
      BY <1>0, <2>1, <3>1 DEF RenameRoot, RenameFiles
    <3>3. At(DstOf[p]) \in FilesLeft(r) /\ DstOf[At(DstOf[p])] = DstOf[p]
      BY <3>1
    <3>4. At(DstOf[p]) = p
      <4> HIDE DEF At
      <4> QED BY <3>1, <3>3 DEF Distinct
    <3>5. dst'[DstOf[p]] = Original(p)
      BY <3>2, <3>4
    <3> QED BY <1>h, <3>5 DEF Holds, Original
  <2>2. CASE p \in src'
    BY <1>s, <2>0, <2>2
  <2> QED BY <1>1, <2>1, <2>2 DEF OpenRoot, RenameRoot, RenameFiles, FailRoot, FailVisit, WalkRoot, RecordRoot
<1>2. CASE Visit
  <2> PICK s \in todo : todo' = todo \ {s} /\ (VisitSingle(s) \/ VisitPrimary(s) \/ VisitSecondary(s))
    BY <1>2 DEF Visit
  <2>0. UNCHANGED <<src, dst, removing>>
    BY <1>2 DEF Visit
  <2>1. CASE UNCHANGED moved
    BY <1>s, <2>0, <2>1, SamePlaces
  <2>2. CASE FinishUnchanged(s)
    <3>1. Recorded' \subseteq Recorded \cup {s}
      BY <2>0, <2>2, RecordedBy DEF FinishUnchanged
    <3>2. CASE s # p
      BY <1>s, <2>0, <3>1, <3>2
    <3>3. CASE s = p
      <4>1. VisitPrimary(s) \/ UNCHANGED moved
        BY <3>3 DEF VisitSingle, VisitSecondary
      <4>2. Unchanged(s) \/ UNCHANGED moved
        BY <4>1 DEF VisitPrimary
      <4>3. Unchanged(s) => Holds(DstOf[p], p)'
        BY <2>0, <3>3 DEF Unchanged, Holds
      <4> QED BY <1>h, <2>1, <4>2, <4>3
    <3> QED BY <3>2, <3>3
  <2> QED BY <2>1, <2>2 DEF VisitSingle, VisitPrimary, VisitSecondary
<1>3. CASE \/ LoseTarget \/ CloseRoot \/ EndWalk \/ JoinWorkers \/ SkipLink \/ RemoveLinkDst \/ Decide \/ MirrorRoot \/ EndMirror
           \/ RemoveDir \/ EndRemove \/ Interrupt \/ WatchdogAbort \/ Finished \/ UNCHANGED vars
  <2>1. UNCHANGED <<src, moved, removing>>
    BY <1>3 DEF LoseTarget, CloseRoot, EndWalk, JoinWorkers, SkipLink, RemoveLinkDst, Decide, MirrorRoot, EndMirror,
                RemoveDir, EndRemove, Interrupt, WatchdogAbort, Finished, vars
  <2> QED BY <1>s, <2>1, SamePlaces
<1>4. CASE LinkTarget
  <2>1. links # <<>> /\ UNCHANGED <<src, removing>> /\ (RecordMove(Head(links).src) \/ UNCHANGED moved)
    BY <1>4 DEF LinkTarget
  <2>2. Head(links).src \in Linked
    BY <2>1, HeadLinked
  <2>3. Head(links).src # p
    BY <2>2 DEF PrimaryKept
  <2>4. Recorded' \subseteq Recorded \cup {Head(links).src}
    BY <2>1, RecordedBy, SamePlaces
  <2> QED BY <1>s, <2>1, <2>3, <2>4
<1>5. CASE HandOut
  <2>1. Recorded' = Recorded /\ UNCHANGED src
    BY <1>5 DEF HandOut, Recorded
  <2> QED BY <1>s, <2>1
<1>6. CASE RemoveSource
  <2>1. PICK s \in removing : removing' = removing \ {s} /\ src \ {s} \subseteq src'
    BY <1>6 DEF RemoveSource
  <2>2. s # p /\ Recorded' \subseteq Recorded
    BY <1>6, <2>1 DEF RemoveSource, Recorded
  <2> QED BY <1>s, <2>1, <2>2
<1>7. CASE Rerun
  BY <1>7, <1>s DEF Rerun, Recorded
<1>8. ASSUME NEW w \in Workers, WorkerStep(w) PROVE Kept(p)'
  <2>1. UNCHANGED <<src, removing>>
    BY <1>8 DEF WorkerStep, PopJob, CompareJob, CopyJob
  <2>2. CASE UNCHANGED moved
    BY <1>s, <2>1, <2>2, SamePlaces
  <2> DEFINE s == worker[w].src
  <2>3. CASE RecordMove(s) /\ s # p
    BY <1>s, <2>1, <2>3, RecordedBy
  <2>4. CASE CompareJob(w) /\ s = p
    <3>1. UNCHANGED moved \/ Unchanged(p)
      BY <2>4 DEF CompareJob
    <3>2. UNCHANGED dst
      BY <2>4 DEF CompareJob
    <3> QED BY <1>h, <2>2, <3>1, <3>2 DEF Unchanged, Holds
  <2>5. CASE CopyJob(w) /\ s = p
    <3>1. UNCHANGED moved \/ dst' = [dst EXCEPT ![DstOf[p]] = CopyOf(p)]
      BY <2>5 DEF CopyJob, NoRoom
    <3>2. dst' = [dst EXCEPT ![DstOf[p]] = CopyOf(p)] => Holds(DstOf[p], p)'
      BY <1>0 DEF Holds, CopyOf
    <3> QED BY <1>h, <2>2, <3>1, <3>2
  <2>6. UNCHANGED moved \/ RecordMove(s)
    BY <1>8 DEF WorkerStep, PopJob, CompareJob, CopyJob, FinishUnchanged, NoRoom
  <2>7. PopJob(w) => UNCHANGED moved
    BY DEF PopJob
  <2> QED BY <1>8, <2>2, <2>3, <2>4, <2>5, <2>6, <2>7 DEF WorkerStep
<1> QED BY <1>1, <1>2, <1>3, <1>4, <1>5, <1>6, <1>7, <1>8 DEF Next, MainStep

\* Both together: p keeps its content unless it is a later path of a hardlink.
LEMMA KeptStep ==
    ASSUME Distinct, SafeMirror, Types, Places, MirrorWhole, PrimaryKept, [Next]_vars,
           NEW p \in Srcs, Kept(p), ~(p \in todo \cup Linked /\ Inode[p] \in DOMAIN primary)
    PROVE  Kept(p)'
<1>1. CASE p \in src \ Recorded
  BY <1>1, SourceStep
<1>2. CASE p \notin src \ Recorded
  <2>1. p \notin Busy \cup Linked /\ Holds(DstOf[p], p)
    BY <1>2 DEF Places, Kept
  <2> QED BY <2>1, HoldsStep DEF Kept
<1> QED BY <1>1, <1>2

\* Where sources come from on the way to a visit, and to the deferred links.
LEMMA FlowStep ==
    ASSUME Types, Barriers, [Next]_vars, ~Rerun
    PROVE  /\ todo' \subseteq todo \cup Unseen
           /\ Unseen' \subseteq Unseen
           /\ \A s \in Linked' \ Linked : s \in todo /\ Inode[s] \in DOMAIN primary
           /\ DOMAIN primary \subseteq DOMAIN primary'
           /\ \A i \in DOMAIN primary' \ DOMAIN primary : \E s \in todo \cap Srcs : Inode[s] = i /\ todo' = todo \ {s} /\ Linked' = Linked
<1>1. CASE OpenRoot
  <2> DEFINE r == Head(roots)
  <2>1. roots # <<>> /\ ~opened /\ UNCHANGED <<links, primary>>
    BY <1>1 DEF OpenRoot
  <2>2. Linked' = Linked
    BY <2>1, SamePlaces
  <2>3. \/ roots' = Tail(roots) /\ opened' = opened /\ todo' = todo
        \/ roots' = roots /\ opened' = TRUE /\ todo' \subseteq RootFiles[r]
    BY <1>1 DEF OpenRoot, RenameRoot, RenameFiles, FailRoot, FailVisit, WalkRoot, RecordRoot, NextRoot, FilesLeft
  <2>4. RootFiles[r] \subseteq Unseen /\ Unseen' \subseteq Unseen
    BY <2>1, <2>3, HeadSeen
  <2> HIDE DEF r
  <2> QED BY <2>1, <2>2, <2>3, <2>4
<1>2. CASE LoseTarget \/ CloseRoot
  <2>1. UNCHANGED <<links, primary>> /\ (todo' = todo \/ todo' = {})
    BY <1>2 DEF LoseTarget, CloseRoot
  <2>2. LoseTarget => Unseen' = {}
    BY DEF LoseTarget, Unseen
  <2>3. CloseRoot => Unseen' = Unseen
    BY CloseUnseen DEF CloseRoot, Types
  <2> QED BY <1>2, <2>1, <2>2, <2>3, SamePlaces
<1>3. CASE Visit
  <2> PICK s \in todo : todo' = todo \ {s} /\ (VisitSingle(s) \/ VisitPrimary(s) \/ VisitSecondary(s))
    BY <1>3 DEF Visit
  <2>0. s \in Srcs /\ Unseen' = Unseen
    BY <1>3, SamePlaces DEF Visit, Types, TypeOK
  <2>1. CASE VisitSingle(s)
    BY <2>0, <2>1, SamePlaces DEF VisitSingle
  <2>2. CASE VisitPrimary(s)
    <3>1. Linked' = Linked /\ DOMAIN primary' = DOMAIN primary \cup {Inode[s]}
      BY <2>2, SamePlaces DEF VisitPrimary
    <3> QED BY <2>0, <3>1
  <2>3. CASE VisitSecondary(s)
    <3> DEFINE e == [src |-> s, target |-> primary[Inode[s]].dst, unlinked |-> FALSE]
    <3>1. e \in LinkType /\ e.src = s
      BY <2>0, <2>3 DEF VisitSecondary, Types, LinkType
    <3>2. UNCHANGED primary /\ Inode[s] \in DOMAIN primary /\ (links' = links \/ links' = Append(links, e))
      BY <2>3 DEF VisitSecondary
    <3> HIDE DEF e
    <3>3. Linked' \subseteq Linked \cup {s}
      BY <2>0, <3>1, <3>2, DeferEffect, SamePlaces
    <3> QED BY <2>0, <3>2, <3>3
  <2> QED BY <2>1, <2>2, <2>3
<1>4. CASE SkipLink \/ LinkTarget
  <2>1. links # <<>> /\ links' = Tail(links) /\ UNCHANGED <<todo, roots, opened, primary>>
    BY <1>4 DEF SkipLink, LinkTarget, walkVars
  <2> QED BY <2>1, LinkEffect, SamePlaces
<1>5. CASE RemoveLinkDst
  <2>1. UNCHANGED <<todo, roots, opened, primary>>
    BY <1>5 DEF RemoveLinkDst, walkVars
  <2>2. Linked' = Linked
    BY <1>5, UnlinkEffect DEF RemoveLinkDst
  <2> QED BY <2>1, <2>2, SamePlaces
<1>6. CASE \/ EndWalk \/ JoinWorkers \/ Decide \/ MirrorRoot \/ EndMirror \/ HandOut \/ RemoveSource \/ RemoveDir \/ EndRemove
           \/ Interrupt \/ WatchdogAbort \/ Finished \/ UNCHANGED vars \/ \E w \in Workers : WorkerStep(w)
  <2>1. UNCHANGED <<todo, roots, opened, primary, links>>
    BY <1>6 DEF EndWalk, JoinWorkers, Decide, MirrorRoot, EndMirror, HandOut, RemoveSource, RemoveDir, EndRemove,
                Interrupt, WatchdogAbort, Finished, WorkerStep, PopJob, CompareJob, CopyJob, vars, walkVars
  <2> QED BY <2>1, SamePlaces
<1> QED BY <1>1, <1>2, <1>3, <1>4, <1>5, <1>6 DEF Next, MainStep

LEMMA PrimaryKeptStep ==
    ASSUME Distinct, SafeMirror, Types, Barriers, Places, MirrorWhole, PrimaryKept, [Next]_vars
    PROVE  PrimaryKept'
<1>1. CASE Rerun
  <2>1. DOMAIN primary' = {} /\ Linked' = {}
    BY <1>1 DEF Rerun, Linked
  <2> QED BY <2>1 DEF PrimaryKept
<1>2. CASE ~Rerun
  <2>1. ASSUME NEW i \in DOMAIN primary'
        PROVE  \E p \in Srcs : Inode[p] = i /\ p \notin todo' \cup Unseen' \cup Linked' /\ Kept(p)'
    <3>1. CASE i \in DOMAIN primary
      <4> PICK p \in Srcs : Inode[p] = i /\ p \notin todo \cup Unseen \cup Linked /\ Kept(p)
        BY <3>1 DEF PrimaryKept
      <4>1. Kept(p)'
        BY KeptStep
      <4>2. p \notin todo' \cup Unseen' \cup Linked'
        BY <1>2, FlowStep
      <4> QED BY <4>1, <4>2
    <3>2. CASE i \notin DOMAIN primary
      <4> PICK p \in todo \cap Srcs : Inode[p] = i /\ todo' = todo \ {p} /\ Linked' = Linked
        BY <1>2, <3>2, FlowStep
      <4>1. p \in src /\ p \notin Recorded \cup Unseen \cup Linked
        BY DEF Places
      <4>2. Kept(p)'
        BY <3>2, <4>1, KeptStep DEF Kept
      <4>3. p \notin todo' \cup Unseen' \cup Linked'
        BY <1>2, <4>1, FlowStep
      <4> QED BY <4>2, <4>3
    <3> QED BY <3>1, <3>2
  <2>2. ASSUME NEW s \in Linked' PROVE Inode[s] \in DOMAIN primary'
    BY <1>2, FlowStep DEF PrimaryKept
  <2> QED BY <2>1, <2>2 DEF PrimaryKept
<1> QED BY <1>1, <1>2

\* Where a later path of a hardlink is recorded for removal, the first path
\* keeps their content.
LEMMA SomeKeptStep ==
    ASSUME Distinct, SafeMirror, Types, Barriers, Places, MirrorWhole, PrimaryKept, SomeKept, [Next]_vars
    PROVE  SomeKept'
<1> SUFFICES ASSUME NEW s \in Srcs PROVE \E q \in Srcs : Inode[q] = Inode[s] /\ Kept(q)'
  BY DEF SomeKept
<1> PICK p \in Srcs : Inode[p] = Inode[s] /\ Kept(p)
  BY DEF SomeKept
<1>1. CASE ~(p \in todo \cup Linked /\ Inode[p] \in DOMAIN primary)
  BY <1>1, KeptStep
<1>2. CASE Inode[p] \in DOMAIN primary
  <2> PICK q \in Srcs : Inode[q] = Inode[p] /\ q \notin todo \cup Unseen \cup Linked /\ Kept(q)
    BY <1>2 DEF PrimaryKept
  <2> QED BY KeptStep
<1> QED BY <1>1, <1>2

Contents == Types /\ Barriers /\ Places /\ RootsApart /\ MirrorWhole /\ PrimaryKept /\ SomeKept

LEMMA InitContents == ASSUME Distinct, Init PROVE Contents
<1>1. Linked = {} /\ Recorded = {} /\ DOMAIN primary = {} /\ src = Srcs
  BY DEF Init, Linked, Recorded
<1>2. PrimaryKept
  BY <1>1 DEF PrimaryKept
<1>3. SomeKept
  BY <1>1 DEF SomeKept, Kept
<1> QED BY <1>2, <1>3, InitTypes, InitBarriers, InitPlaces DEF Contents

LEMMA ContentsStep == ASSUME Distinct, SafeMirror, Contents, [Next]_vars PROVE Contents'
<1>1. Types' /\ Barriers' /\ Places' /\ RootsApart' /\ MirrorWhole'
  BY TypesStep, BarriersStep, PlacesStep, RootsApartStep, MirrorWholeStep DEF Contents
<1>2. PrimaryKept' /\ SomeKept'
  BY PrimaryKeptStep, SomeKeptStep DEF Contents
<1> QED BY <1>1, <1>2 DEF Contents

\* --move and --mirror, interrupts, aborts, failures, and kills with the command
\* given again: no content of a source is lost, whatever the order of the
\* workers and the removals, if no two sources share a destination, only the
\* first run mirrors, and the mirror pass can stat the source.
THEOREM NothingLost == ASSUME Distinct, SafeMirror PROVE Spec => []NoContentLost
<1>1. Init => Contents
  BY InitContents
<1>2. Contents /\ [Next]_vars => Contents'
  BY ContentsStep
<1>3. Contents => NoContentLost
  <2> SUFFICES ASSUME Contents, NEW s \in Srcs, \A t \in src : Inode[t] # Inode[s]
               PROVE  \E n \in Dsts : Holds(n, s)
    BY DEF NoContentLost
  <2> PICK p \in Srcs : Inode[p] = Inode[s] /\ Kept(p)
    BY DEF Contents, SomeKept
  <2> QED BY OptionAssumption DEF Kept, Holds
<1> QED BY <1>1, <1>2, <1>3, PTL DEF Spec

\* The only path of its inode.
Lone(s) == \A t \in Srcs : Inode[t] = Inode[s] => t = s
LoneIsAtTarget == \A s \in Srcs : Lone(s) /\ s \notin src => Holds(DstOf[s], s)

\* --move takes a source that has no hardlinks only when its own destination
\* holds it, and it stays there, through failures, kills and re-runs: what goes
\* wrong in RemovedIsAtTarget needs a second path of the same inode.
THEOREM LoneSourceKept == ASSUME Distinct, SafeMirror PROVE Spec => []LoneIsAtTarget
<1> DEFINE LoneKept == \A s \in Srcs : Lone(s) => Kept(s)
           Inv == Contents /\ LoneKept
<1>1. Init => Inv
  <2> SUFFICES ASSUME Init PROVE Inv
    OBVIOUS
  <2>1. LoneKept
    BY DEF Init, Kept, Recorded
  <2> QED BY <2>1, InitContents
<1>2. Inv /\ [Next]_vars => Inv'
  <2> SUFFICES ASSUME Inv, [Next]_vars PROVE Inv'
    OBVIOUS
  <2>1. Contents'
    BY ContentsStep
  <2>2. ASSUME NEW s \in Srcs, Lone(s) PROVE Kept(s)'
    <3>1. ~(s \in todo \cup Linked /\ Inode[s] \in DOMAIN primary)
      BY <2>2 DEF Lone, Contents, PrimaryKept
    <3> QED BY <2>2, <3>1, KeptStep DEF Contents
  <2> QED BY <2>1, <2>2 DEF Lone
<1>3. Inv => LoneIsAtTarget
  BY DEF LoneIsAtTarget, Kept
<1> QED BY <1>1, <1>2, <1>3, PTL DEF Spec

\* So where there are no hardlinks, what main.go and README.md promise holds.
THEOREM RemovedAtTarget == ASSUME Distinct, SafeMirror, \A s \in Srcs : Lone(s) PROVE Spec => []RemovedIsAtTarget
<1>1. LoneIsAtTarget => RemovedIsAtTarget
  BY DEF LoneIsAtTarget, RemovedIsAtTarget
<1> QED BY <1>1, LoneSourceKept, PTL

-----------------------------------------------------------------------------
(* What a run counts.                                                        *)

LEMMA InitCounted == Init => Counted
<1> SUFFICES ASSUME Init PROVE Counted
  OBVIOUS
<1>1. Recorded = {} /\ src = Srcs /\ \A s \in Srcs : outcome[s] = "none"
  BY DEF Init, Recorded
<1> QED BY <1>1 DEF Counted, Done

\* Sources leave the run only by a rename, until the removal pass.
LEMMA SourcesStay ==
    ASSUME Types, [Next]_vars, ~Rerun
    PROVE  /\ src' \subseteq src
           /\ \A s \in src \ src' : phase = "remove" \/ (s \in Unseen /\ outcome'[s] = "renamed")
           /\ phase \in {"remove", "done"} => phase' \in {"remove", "done"}
<1>1. CASE OpenRoot
  <2> DEFINE r == Head(roots)
  <2>1. CASE RenameRoot(r)
    <3>1. RootFiles[r] \subseteq Unseen
      BY <1>1, <2>1, HeadSeen DEF OpenRoot, RenameRoot, RenameFiles, NextRoot
    <3>2. src' = src \ RootFiles[r] /\ phase' = phase
      BY <1>1, <2>1 DEF OpenRoot, RenameRoot, RenameFiles
    <3>3. \A s \in src \ src' : s \in FilesLeft(r) /\ s \in Srcs
      BY <3>2 DEF FilesLeft, Types, TypeOK
    <3>4. \A s \in FilesLeft(r) \cap Srcs : outcome'[s] = "renamed"
      BY <2>1 DEF RenameRoot, RenameFiles
    <3> HIDE DEF r
    <3> QED BY <3>1, <3>2, <3>3, <3>4
  <2>2. CASE FailRoot(r) \/ FailVisit(r) \/ WalkRoot(r)
    BY <1>1, <2>2 DEF OpenRoot, FailRoot, FailVisit, WalkRoot, RecordRoot
  <2> QED BY <1>1, <2>1, <2>2 DEF OpenRoot
<1>2. CASE RemoveSource
  BY <1>2 DEF RemoveSource
<1>3. CASE \/ LoseTarget \/ CloseRoot \/ Visit \/ EndWalk \/ JoinWorkers \/ SkipLink \/ RemoveLinkDst \/ LinkTarget \/ Decide
           \/ MirrorRoot \/ EndMirror \/ HandOut \/ RemoveDir \/ EndRemove \/ Interrupt \/ WatchdogAbort \/ Finished \/ UNCHANGED vars
           \/ \E w \in Workers : WorkerStep(w)
  BY <1>3 DEF LoseTarget, CloseRoot, Visit, EndWalk, JoinWorkers, SkipLink, RemoveLinkDst, LinkTarget, Decide, MirrorRoot, EndMirror,
              HandOut, RemoveDir, EndRemove, Interrupt, WatchdogAbort, Finished, WorkerStep, PopJob, CompareJob, CopyJob, vars
<1> QED BY <1>1, <1>2, <1>3 DEF Next, MainStep

\* Sources never come back to a place, and what a step counts has left them all.
Left(s) ==
    /\ s \notin Somewhere' /\ outcome'[s] # "none"
    /\ \/ outcome'[s] = "failed"
       \/ s \in todo \cup Busy \cup Linked /\ outcome'[s] \in Done /\ UNCHANGED src
       \/ s \in Unseen /\ outcome'[s] = "renamed"

LEMMA OutcomeStep ==
    ASSUME Types, Barriers, RootsApart, Places, Counted, [Next]_vars, ~Rerun
    PROVE  /\ Somewhere' \subseteq Somewhere
           /\ \A s \in Srcs : outcome'[s] = outcome[s] \/ (outcome[s] = "none" /\ Left(s)) \/ (outcome[s] # "none" /\ outcome'[s] = "failed")
           /\ \A s \in Recorded' : s \in Recorded \/ outcome'[s] # "none"
<1> DEFINE Goal == /\ Somewhere' \subseteq Somewhere
                   /\ \A s \in Srcs : outcome'[s] = outcome[s] \/ (outcome[s] = "none" /\ Left(s)) \/ (outcome[s] # "none" /\ outcome'[s] = "failed")
                   /\ \A s \in Recorded' : s \in Recorded \/ outcome'[s] # "none"
<1> SUFFICES Goal
  OBVIOUS
<1>0. TypeOK
  BY DEF Types
<1>1. CASE OpenRoot
  <2> DEFINE r == Head(roots)
  <2>1. /\ roots # <<>> /\ ~opened /\ todo = {} /\ UNCHANGED <<jobs, worker, links, moved, removing>>
    BY <1>1 DEF OpenRoot, Barriers
  <2>2. /\ Queued' = Queued /\ Busy' = Busy /\ Linked' = Linked /\ Recorded' = Recorded
    BY <2>1, SamePlaces
  <2>3. CASE RenameRoot(r) \/ FailRoot(r) \/ FailVisit(r)
    <3>1. roots' = Tail(roots) /\ opened' = opened /\ todo' = todo
      BY <2>3 DEF RenameRoot, RenameFiles, FailRoot, FailVisit, RecordRoot, NextRoot
    <3>2. RootFiles[r] \subseteq Unseen /\ Unseen' \subseteq Unseen /\ Unseen' \cap RootFiles[r] = {}
      BY <2>1, <3>1, HeadSeen
    <3>3. \A s \in Srcs : outcome'[s] = outcome[s] \/ (s \in RootFiles[r] /\ outcome'[s] \in {"renamed", "failed"})
      BY <2>3, <1>0 DEF RenameRoot, RenameFiles, FailRoot, FailVisit, RecordRoot, FilesLeft, Fail, TypeOK
    <3>4. \A s \in RootFiles[r] : s \in Unseen /\ s \notin Somewhere'
      BY <2>1, <2>2, <3>1, <3>2 DEF Somewhere, Places
    <3>5. \A s \in RootFiles[r] \cap Srcs : outcome[s] = "none"
      BY <3>4 DEF Counted, Somewhere
    <3>6. Somewhere' \subseteq Somewhere
      BY <2>2, <3>1, <3>2 DEF Somewhere
    <3> HIDE DEF r
    <3> QED BY <2>2, <3>3, <3>4, <3>5, <3>6 DEF Left
  <2>4. CASE WalkRoot(r)
    <3>1. roots' = roots /\ opened' = TRUE /\ todo' \subseteq RootFiles[r] /\ UNCHANGED outcome
      BY <2>4 DEF WalkRoot, RecordRoot, FilesLeft
    <3>2. RootFiles[r] \subseteq Unseen /\ Unseen' \subseteq Unseen
      BY <2>1, <3>1, HeadSeen
    <3> HIDE DEF r
    <3> QED BY <2>2, <3>1, <3>2 DEF Somewhere
  <2> QED BY <1>1, <2>3, <2>4 DEF OpenRoot
<1>2. CASE LoseTarget \/ CloseRoot
  <2>1. UNCHANGED <<jobs, worker, links, moved, removing, outcome>> /\ todo' \subseteq todo
    BY <1>2 DEF LoseTarget, CloseRoot
  <2>2. LoseTarget => Unseen' = {}
    BY DEF LoseTarget, Unseen
  <2>3. CloseRoot => Unseen' = Unseen
    BY CloseUnseen DEF CloseRoot, Types
  <2> QED BY <1>2, <2>1, <2>2, <2>3, SamePlaces DEF Somewhere
<1>3. CASE Visit
  <2> PICK s \in todo : todo' = todo \ {s} /\ (VisitSingle(s) \/ VisitPrimary(s) \/ VisitSecondary(s))
    BY <1>3 DEF Visit
  <2>0. s \in Srcs /\ s \notin Unseen \cup Queued \cup Busy \cup Linked \cup Recorded
    BY DEF Types, TypeOK, Places
  <2>1. Unseen' = Unseen /\ Busy' = Busy /\ UNCHANGED <<worker, removing, src>>
    BY <1>3, SamePlaces DEF Visit
  <2>2. CASE Enqueue(s, TRUE) \/ Enqueue(s, FALSE)
    <3>1. Queued' = Queued \cup {s}
      BY <2>0, <2>2, EnqueueEffect
    <3>2. UNCHANGED <<links, moved, outcome>>
      BY <2>0, <2>2, <3>1 DEF VisitSingle, VisitPrimary, VisitSecondary, Queued
    <3> QED BY <2>0, <2>1, <3>1, <3>2, SamePlaces DEF Somewhere
  <2>3. CASE FinishUnchanged(s) /\ UNCHANGED <<jobs, links>>
    <3>1. Recorded' \subseteq Recorded \cup {s}
      BY <2>1, <2>3, RecordedBy DEF FinishUnchanged
    <3>2. outcome'[s] = "unchanged" /\ \A t \in Srcs \ {s} : outcome'[t] = outcome[t]
      BY <1>0, <2>0, <2>3 DEF FinishUnchanged, TypeOK
    <3>3. Queued' = Queued /\ Linked' = Linked
      BY <2>3, SamePlaces
    <3>4. s \notin Somewhere' /\ Somewhere' \subseteq Somewhere
      BY <2>0, <2>1, <3>3 DEF Somewhere
    <3>5. outcome[s] = "none"
      BY <2>0 DEF Counted, Somewhere
    <3> QED BY <2>1, <3>1, <3>2, <3>4, <3>5 DEF Left, Done
  <2>4. CASE VisitSecondary(s) /\ UNCHANGED <<moved, outcome>>
    <3> DEFINE e == [src |-> s, target |-> primary[Inode[s]].dst, unlinked |-> FALSE]
    <3>1. e \in LinkType /\ e.src = s
      BY <2>0, <2>4 DEF VisitSecondary, Types, LinkType
    <3>2. UNCHANGED jobs /\ (links' = links \/ links' = Append(links, e))
      BY <2>4 DEF VisitSecondary
    <3> HIDE DEF e
    <3>3. Linked' \subseteq Linked \cup {s}
      BY <2>0, <3>1, <3>2, DeferEffect, SamePlaces
    <3> QED BY <2>0, <2>1, <2>4, <3>2, <3>3, SamePlaces DEF Somewhere
  <2>5. VisitSingle(s) => Enqueue(s, TRUE)
    BY DEF VisitSingle
  <2>6. VisitPrimary(s) => Enqueue(s, FALSE) \/ (FinishUnchanged(s) /\ UNCHANGED <<jobs, links>>)
    BY DEF VisitPrimary
  <2>7. VisitSecondary(s) => UNCHANGED <<moved, outcome>> \/ (FinishUnchanged(s) /\ UNCHANGED <<jobs, links>>)
    BY DEF VisitSecondary
  <2> QED BY <2>2, <2>3, <2>4, <2>5, <2>6, <2>7
<1>4. CASE \/ EndWalk \/ JoinWorkers \/ Decide \/ EndMirror \/ EndRemove \/ MirrorRoot \/ RemoveDir \/ HandOut
           \/ Interrupt \/ WatchdogAbort \/ Finished \/ UNCHANGED vars
  <2>1. UNCHANGED <<todo, roots, opened, jobs, worker, links>>
    BY <1>4 DEF EndWalk, JoinWorkers, Decide, EndMirror, EndRemove, MirrorRoot, RemoveDir, HandOut, Interrupt, WatchdogAbort, Finished, vars, walkVars
  <2>2. \A s \in Srcs : outcome'[s] = outcome[s]
    BY <1>4 DEF EndWalk, JoinWorkers, Decide, EndMirror, EndRemove, MirrorRoot, RemoveDir, HandOut, Interrupt, WatchdogAbort, Finished, vars, Fail
  <2>3. Recorded' = Recorded
    BY <1>4 DEF EndWalk, JoinWorkers, Decide, EndMirror, EndRemove, MirrorRoot, RemoveDir, HandOut, Interrupt, WatchdogAbort, Finished, vars, Recorded
  <2> QED BY <2>1, <2>2, <2>3, SamePlaces DEF Somewhere
<1>5. CASE SkipLink \/ LinkTarget
  <2> DEFINE s == Head(links).src
  <2>1. links # <<>> /\ links' = Tail(links) /\ UNCHANGED <<todo, roots, opened, jobs, worker, removing, src>>
    BY <1>5 DEF SkipLink, LinkTarget, walkVars
  <2>2. s \in Linked /\ Linked' \subseteq Linked /\ s \notin Linked'
    BY <2>1, LinkPlaces
  <2>3. s \in Srcs /\ s \notin Somewhere' /\ Somewhere' \subseteq Somewhere
    BY <2>1, <2>2, HeadLinked, SamePlaces DEF Somewhere, Places
  <2>4. outcome[s] = "none"
    BY <2>2, <2>3 DEF Counted, Somewhere
  <2>5. CASE SkipLink
    BY <2>3, <2>5, SamePlaces DEF SkipLink
  <2>6. CASE LinkTarget
    <3>1. \/ RecordMove(s) /\ outcome' = [outcome EXCEPT ![s] = "linked"]
          \/ UNCHANGED moved /\ Fail({s}, TRUE)
      BY <2>6 DEF LinkTarget
    <3>2. \A t \in Srcs : outcome'[t] = outcome[t] \/ (t = s /\ outcome'[t] \in {"linked", "failed"})
      BY <1>0, <3>1 DEF Fail, TypeOK
    <3>3. Recorded' \subseteq Recorded \cup {s} /\ (Recorded' = Recorded \/ outcome'[s] # "none")
      BY <1>0, <2>1, <2>3, <3>1, RecordedBy, SamePlaces DEF TypeOK
    <3> HIDE DEF s
    <3> QED BY <2>1, <2>2, <2>3, <2>4, <3>2, <3>3 DEF Left, Done
  <2> QED BY <1>5, <2>5, <2>6
<1>6. CASE RemoveLinkDst
  <2>1. UNCHANGED <<todo, roots, opened, jobs, worker, moved, removing, outcome>>
    BY <1>6 DEF RemoveLinkDst, walkVars
  <2>2. Linked' = Linked
    BY <1>6, UnlinkEffect DEF RemoveLinkDst
  <2> QED BY <2>1, <2>2, SamePlaces DEF Somewhere
<1>7. CASE RemoveSource
  <2>1. PICK s \in removing : removing' = removing \ {s} /\ (UNCHANGED outcome \/ Fail({s}, FALSE))
    BY <1>7 DEF RemoveSource
  <2>2. s \in Recorded /\ Recorded' \subseteq Recorded /\ UNCHANGED <<todo, roots, opened, jobs, worker, links>>
    BY <1>7, <2>1 DEF RemoveSource, Recorded, walkVars
  <2>3. \A t \in Srcs : outcome'[t] = outcome[t] \/ (t = s /\ outcome'[t] = "failed")
    BY <2>1 DEF Fail
  <2>4. outcome[s] # "none"
    BY <2>2 DEF Counted
  <2> QED BY <2>2, <2>3, <2>4, SamePlaces DEF Somewhere
<1>8. ASSUME NEW w \in Workers, WorkerStep(w) PROVE Goal
  <2>1. UNCHANGED <<todo, roots, opened, links, removing, src>>
    BY <1>8 DEF WorkerStep, PopJob, CompareJob, CopyJob, walkVars
  <2>2. CASE PopJob(w)
    <3>1. PICK j \in jobs : /\ jobs' = jobs \ {j} /\ worker[w].stage = "idle"
                            /\ IF aborted THEN UNCHANGED worker
                               ELSE worker' = [worker EXCEPT ![w] = [stage |-> IF j.check THEN "compare" ELSE "copy", src |-> j.src]]
      BY <2>2 DEF PopJob
    <3>2. \/ worker' = worker
          \/ \E c \in {"compare", "copy"} : worker' = [worker EXCEPT ![w] = [stage |-> c, src |-> j.src]]
      BY <3>1
    <3>3. j.src \in Queued /\ Queued' \subseteq Queued /\ Busy' \subseteq Busy \cup {j.src}
      BY <3>1, <3>2, PopPlaces
    <3>4. UNCHANGED <<moved, outcome>>
      BY <2>2 DEF PopJob
    <3> QED BY <2>1, <3>3, <3>4, SamePlaces DEF Somewhere
  <2> DEFINE s == worker[w].src
  <2>3. CASE /\ Idle(w) /\ worker[w].stage # "idle" /\ UNCHANGED jobs
             /\ \/ UNCHANGED <<moved, outcome>>
                \/ Fail({s}, TRUE) /\ UNCHANGED moved
                \/ RecordMove(s) /\ \E o \in Done : outcome' = [outcome EXCEPT ![s] = o]
    <3>1. s \in Busy /\ Busy' \subseteq Busy /\ s \notin Busy'
      BY <2>3, IdlePlaces
    <3>2. s \in Srcs /\ s \notin Somewhere' /\ Somewhere' \subseteq Somewhere
      BY <2>1, <2>3, <3>1, SamePlaces DEF Somewhere, Places, Busy
    <3>3. outcome[s] = "none"
      BY <3>1, <3>2 DEF Counted, Somewhere
    <3>4. \A t \in Srcs : outcome'[t] = outcome[t] \/ (t = s /\ outcome'[t] \in Done \cup {"failed"})
      BY <1>0, <2>3 DEF Fail, TypeOK
    <3>5. Recorded' \subseteq Recorded \cup {s} /\ (Recorded' = Recorded \/ outcome'[s] # "none")
      BY <1>0, <2>1, <2>3, <3>2, RecordedBy, SamePlaces DEF TypeOK, Done
    <3> HIDE DEF s
    <3> QED BY <2>1, <3>1, <3>2, <3>3, <3>4, <3>5 DEF Left, Done
  <2>4. CASE worker' = [worker EXCEPT ![w].stage = "copy"] /\ worker[w].stage = "compare" /\ UNCHANGED <<jobs, moved, outcome>>
    <3>1. \A v \in Workers : worker'[v].src = worker[v].src /\ (worker'[v].stage = "idle" <=> worker[v].stage = "idle")
      BY <2>4 DEF Types, StageType
    <3>2. Busy' = Busy
      BY <3>1 DEF Busy
    <3> QED BY <2>1, <2>4, <3>2, SamePlaces DEF Somewhere
  <2>5. CASE CompareJob(w)
    BY <2>3, <2>4, <2>5 DEF CompareJob, FinishUnchanged, Done
  <2>6. CASE CopyJob(w)
    BY <2>3, <2>6 DEF CopyJob, NoRoom, Done
  <2> QED BY <1>8, <2>2, <2>5, <2>6 DEF WorkerStep
<1> QED BY <1>1, <1>2, <1>3, <1>4, <1>5, <1>6, <1>7, <1>8 DEF Next, MainStep

\* What went wrong stays wrong until the command is given again.
LEMMA HaltStep ==
    ASSUME Types, [Next]_vars, ~Rerun
    PROVE  (aborted => aborted') /\ (cancelled => cancelled') /\ (walkErr => walkErr')
<1>f. (\E S, b : Fail(S, b)) => (aborted => aborted')
  BY FailMonotone DEF Types
<1>1. CASE OpenRoot
  <2>1. aborted' = aborted \/ Fail(RootFiles[Head(roots)], FALSE)
    BY <1>1 DEF OpenRoot, RenameRoot, RenameFiles, FailRoot, FailVisit, WalkRoot
  <2>2. cancelled' = cancelled /\ walkErr' = walkErr
    BY <1>1 DEF OpenRoot
  <2>3. aborted => aborted'
    BY <1>f, <2>1, Zenon
  <2> QED BY <2>2, <2>3, Zenon
<1>2. CASE LoseTarget \/ CloseRoot \/ Visit \/ EndWalk \/ JoinWorkers \/ SkipLink \/ RemoveLinkDst \/ Decide \/ EndMirror
           \/ HandOut \/ EndRemove \/ Interrupt \/ WatchdogAbort \/ Finished \/ UNCHANGED vars
  BY <1>2 DEF LoseTarget, CloseRoot, Visit, EndWalk, JoinWorkers, SkipLink, RemoveLinkDst, Decide, EndMirror, HandOut, EndRemove,
              Interrupt, WatchdogAbort, Finished, vars, walkVars
<1>3. CASE LinkTarget \/ MirrorRoot \/ RemoveSource \/ RemoveDir
  <2>1. aborted' = aborted \/ (\E b : aborted' = (aborted \/ b)) \/ \E S, b : Fail(S, b)
    BY <1>3, Zenon DEF LinkTarget, MirrorRoot, RemoveSource, RemoveDir
  <2>2. cancelled' = cancelled /\ walkErr' = walkErr
    BY <1>3 DEF LinkTarget, MirrorRoot, RemoveSource, RemoveDir, walkVars
  <2>3. aborted => aborted'
    BY <1>f, <2>1, Zenon
  <2> QED BY <2>2, <2>3, Zenon
<1>4. ASSUME NEW w \in Workers, WorkerStep(w) PROVE (aborted => aborted') /\ (cancelled => cancelled') /\ (walkErr => walkErr')
  <2>1. aborted' = aborted \/ aborted' = TRUE \/ \E S, b : Fail(S, b)
    BY <1>4 DEF WorkerStep, PopJob, CompareJob, CopyJob, NoRoom
  <2>2. cancelled' = cancelled /\ walkErr' = walkErr
    BY <1>4 DEF WorkerStep, PopJob, CompareJob, CopyJob, walkVars
  <2>3. aborted => aborted'
    BY <1>f, <2>1, Zenon
  <2> QED BY <2>2, <2>3, Zenon
<1> QED BY <1>1, <1>2, <1>3, <1>4 DEF Next, MainStep

LEMMA CleanStep ==
    ASSUME Types, Barriers, RootsApart, Places, Counted, [Next]_vars, ~Rerun
    PROVE  Clean' => Clean
<1>1. (aborted => aborted') /\ (cancelled => cancelled') /\ (walkErr => walkErr')
  BY HaltStep
<1>2. \A s \in Srcs : outcome[s] = "failed" => outcome'[s] = "failed"
  BY OutcomeStep
<1> QED BY <1>1, <1>2 DEF Clean, Halted

\* A source is counted as done, or as renamed, by a step that finds a file at its
\* destination or brings it there: the right one, if nothing has gone wrong.
LEMMA NewlyDone ==
    ASSUME Distinct, Types, Barriers, RootsApart, Places, Counted, [Next]_vars, ~Rerun,
           NEW s \in Srcs, outcome'[s] # outcome[s], outcome'[s] \in Done \cup {"renamed"}
    PROVE  /\ dst'[DstOf[s]] # Absent
           /\ Clean' /\ Followed /\ Settled /\ SameFile /\ Primaries => Holds(DstOf[s], s)'
<1> DEFINE Right == Clean' /\ Followed /\ Settled /\ SameFile /\ Primaries => Holds(DstOf[s], s)'
           Goal == dst'[DstOf[s]] # Absent /\ Right
<1> SUFFICES Goal
  OBVIOUS
<1>0. DstOf[s] \in Dsts /\ dst \in [Dsts -> Files] /\ outcome \in [Srcs -> Outcomes]
  BY OptionAssumption DEF Types, TypeOK
<1>c. Clean' => Clean
  BY CleanStep
<1>o. dst'[DstOf[s]] \in {Original(s), CopyOf(s)} => Goal
  BY NewFiles DEF Holds, Original, CopyOf
<1>u. Unchanged(s) /\ UNCHANGED dst => Goal
  <2>1. Inode[s] # "absent"
    BY OptionAssumption DEF Inodes
  <2> QED BY <2>1 DEF Unchanged, Holds, Absent
<1>1. CASE OpenRoot
  <2> DEFINE r == Head(roots)
             At(n) == CHOOSE t \in FilesLeft(r) : DstOf[t] = n
  <2>1. CASE RenameRoot(r)
    <3>1. s \in FilesLeft(r) /\ FilesLeft(r) \subseteq Srcs
      BY <2>1 DEF RenameRoot, RenameFiles, FilesLeft, Types, TypeOK
    <3>2. dst'[DstOf[s]] = Original(At(DstOf[s]))
      BY <1>0, <2>1, <3>1 DEF RenameRoot, RenameFiles
    <3>3. At(DstOf[s]) \in FilesLeft(r) /\ DstOf[At(DstOf[s])] = DstOf[s]
      BY <3>1
    <3>4. At(DstOf[s]) = s
      <4> HIDE DEF At
      <4> QED BY <3>1, <3>3 DEF Distinct
    <3> QED BY <1>o, <3>2, <3>4
  <2>2. CASE FailRoot(r) \/ FailVisit(r) \/ WalkRoot(r)
    BY <2>2 DEF FailRoot, FailVisit, WalkRoot, RecordRoot, Fail, Done
  <2> QED BY <1>1, <2>1, <2>2 DEF OpenRoot
<1>2. CASE Visit
  <2> PICK t \in todo : todo' = todo \ {t} /\ (VisitSingle(t) \/ VisitPrimary(t) \/ VisitSecondary(t))
    BY <1>2 DEF Visit
  <2>0. UNCHANGED dst
    BY <1>2 DEF Visit
  <2>1. CASE VisitSingle(t)
    BY <2>1 DEF VisitSingle
  <2>2. CASE VisitPrimary(t)
    <3>1. FinishUnchanged(t) /\ Unchanged(t)
      BY <2>2 DEF VisitPrimary
    <3>2. t = s
      BY <1>0, <3>1 DEF FinishUnchanged
    <3> QED BY <1>u, <2>0, <3>1, <3>2
  <2>3. CASE VisitSecondary(t)
    <3> DEFINE p == primary[Inode[t]]
    <3>1. FinishUnchanged(t) /\ p.adopted /\ SameDest(p.dst, DstOf[t]) /\ Inode[t] \in DOMAIN primary
      BY <2>3 DEF VisitSecondary
    <3>2. t = s
      BY <1>0, <3>1 DEF FinishUnchanged
    <3>3. dst[DstOf[s]] # Absent /\ dst[p.dst].id = dst[DstOf[s]].id
      BY <3>1, <3>2 DEF SameDest
    <3>4. ASSUME Clean', Settled, SameFile, Primaries PROVE Holds(DstOf[s], s)'
      <4> PICK q \in Srcs : Inode[q] = Inode[t] /\ DstOf[q] = p.dst /\ outcome[q] # "none"
        BY <3>1, <3>4 DEF Primaries
      <4>1. outcome[q] \in Done \cup {"renamed"}
        BY <1>0, <1>c, <3>4 DEF Clean, Outcomes, Done
      <4>2. Holds(p.dst, q)
        BY <1>c, <3>4, <4>1 DEF Settled
      <4>3. p.dst \in Dsts
        BY OptionAssumption
      <4>4. dst[p.dst] = dst[DstOf[s]]
        BY <1>0, <3>3, <3>4, <4>3 DEF SameFile, Family
      <4> QED BY <2>0, <3>2, <4>2, <4>4 DEF Holds
    <3> QED BY <2>0, <3>3, <3>4
  <2> QED BY <2>1, <2>2, <2>3
<1>3. CASE LinkTarget
  <2> DEFINE l == Head(links)
  <2>0. phase = "links" /\ links # <<>> /\ l \in LinkType /\ 1 \in DOMAIN links /\ l = links[1]
    BY <1>3, TailFacts DEF LinkTarget, Types
  <2>1. outcome' = [outcome EXCEPT ![l.src] = "linked"] /\ dst[l.target] # Absent /\ dst' = [dst EXCEPT ![DstOf[l.src]] = dst[l.target]]
    <3>1. \/ /\ outcome' = [outcome EXCEPT ![l.src] = "linked"] /\ dst[l.target] # Absent
             /\ dst' = [dst EXCEPT ![DstOf[l.src]] = dst[l.target]]
          \/ Fail({l.src}, TRUE)
      BY <1>3 DEF LinkTarget
    <3>2. ~Fail({l.src}, TRUE)
      BY DEF Fail, Done
    <3> QED BY <3>1, <3>2
  <2>2. l.src = s /\ l.target \in Dsts
    BY <1>0, <2>0, <2>1 DEF LinkType
  <2>3. dst'[DstOf[s]] = dst[l.target]
    BY <1>0, <2>1, <2>2
  <2>4. ASSUME Clean', Followed, Settled, Primaries PROVE Holds(DstOf[s], s)'
    <3>1. Inode[s] \in DOMAIN primary /\ l.target = primary[Inode[s]].dst
      BY <2>0, <2>2, <2>4 DEF Primaries
    <3> PICK q \in Srcs : Inode[q] = Inode[s] /\ DstOf[q] = l.target /\ q \notin todo \cup Unseen \cup Linked /\ q \in src
      BY <2>0, <2>4, <3>1 DEF Primaries
    <3>2. Queued = {} /\ Busy = {}
      BY <2>0 DEF Barriers
    <3>3. outcome[q] # "none"
      BY <1>c, <2>4, <3>2 DEF Followed, Clean
    <3>4. outcome[q] \in Done \cup {"renamed"}
      BY <1>0, <1>c, <2>4, <3>3 DEF Clean, Outcomes, Done
    <3>5. Holds(l.target, q)
      BY <1>c, <2>4, <3>4 DEF Settled
    <3> QED BY <2>3, <3>5 DEF Holds
  <2> QED BY <2>1, <2>3, <2>4
<1>4. ASSUME NEW w \in Workers, WorkerStep(w) PROVE Goal
  <2> DEFINE t == worker[w].src
  <2>1. CASE PopJob(w)
    BY <2>1 DEF PopJob
  <2>2. CASE CompareJob(w)
    <3>1. FinishUnchanged(t) /\ Unchanged(t) /\ UNCHANGED dst
      BY <2>2 DEF CompareJob
    <3>2. t = s
      BY <1>0, <3>1 DEF FinishUnchanged
    <3> QED BY <1>u, <3>1, <3>2
  <2>3. CASE CopyJob(w)
    <3>1. \/ outcome' = [outcome EXCEPT ![t] = "copied"] /\ dst' = [dst EXCEPT ![DstOf[t]] = CopyOf(t)]
          \/ Fail({t}, TRUE)
      BY <2>3 DEF CopyJob, NoRoom
    <3>2. outcome' = [outcome EXCEPT ![t] = "copied"] /\ dst' = [dst EXCEPT ![DstOf[t]] = CopyOf(t)]
      BY <3>1 DEF Fail, Done
    <3>3. t = s
      BY <1>0, <3>2
    <3> HIDE DEF t
    <3> QED BY <1>0, <1>o, <3>2, <3>3
  <2> QED BY <1>4, <2>1, <2>2, <2>3 DEF WorkerStep
<1>5. CASE \/ LoseTarget \/ CloseRoot \/ EndWalk \/ JoinWorkers \/ SkipLink \/ RemoveLinkDst \/ Decide \/ MirrorRoot \/ EndMirror
           \/ HandOut \/ EndRemove \/ Interrupt \/ WatchdogAbort \/ Finished \/ UNCHANGED vars
  BY <1>5 DEF LoseTarget, CloseRoot, EndWalk, JoinWorkers, SkipLink, RemoveLinkDst, Decide, MirrorRoot, EndMirror, HandOut, EndRemove,
              Interrupt, WatchdogAbort, Finished, vars
<1>6. CASE RemoveSource \/ RemoveDir
  BY <1>6 DEF RemoveSource, RemoveDir, Fail, Done
<1> QED BY <1>1, <1>2, <1>3, <1>4, <1>5, <1>6 DEF Next, MainStep

\* Only a root that is visited is added to the roots of the mirror pass.
LEMMA MirrorRootsStep ==
    ASSUME Types, [Next]_vars, NEW k \in DOMAIN mirrorRoots'
    PROVE  \/ \E j \in DOMAIN mirrorRoots : mirrorRoots[j] = mirrorRoots'[k]
           \/ OpenRoot /\ (WalkRoot(Head(roots)) \/ FailVisit(Head(roots))) /\ mirrorRoots'[k] = Head(roots)
<1>1. CASE OpenRoot
  <2> DEFINE r == Head(roots)
  <2>1. r \in DOMAIN RootFiles
    BY <1>1, TailFacts DEF OpenRoot, Types
  <2>2. CASE RenameRoot(r) \/ FailRoot(r)
    BY <2>2 DEF RenameRoot, FailRoot
  <2>3. CASE WalkRoot(r) \/ FailVisit(r)
    <3>1. mirrorRoots' = mirrorRoots \/ mirrorRoots' = Append(mirrorRoots, r)
      BY <2>3 DEF WalkRoot, FailVisit, RecordRoot
    <3> HIDE DEF r
    <3>2. mirrorRoots'[k] = r \/ (k \in DOMAIN mirrorRoots /\ mirrorRoots'[k] = mirrorRoots[k])
      <4>1. mirrorRoots \in Seq(DOMAIN RootFiles)
        BY DEF Types
      <4>2. \A l \in DOMAIN Append(mirrorRoots, r) :
               Append(mirrorRoots, r)[l] = r \/ (l \in DOMAIN mirrorRoots /\ Append(mirrorRoots, r)[l] = mirrorRoots[l])
        BY <2>1, <4>1, AppendFacts
      <4> QED BY <3>1, <4>2
    <3> QED BY <1>1, <2>3, <3>2 DEF r
  <2> QED BY <1>1, <2>2, <2>3 DEF OpenRoot
<1>2. CASE MirrorRoot
  BY <1>2, TailFacts DEF MirrorRoot, Types
<1>3. CASE Rerun
  <2>1. DOMAIN mirrorRoots' = {}
    BY <1>3 DEF Rerun
  <2> QED BY <2>1
<1>4. CASE \/ LoseTarget \/ CloseRoot \/ Visit \/ EndWalk \/ JoinWorkers \/ SkipLink \/ RemoveLinkDst \/ LinkTarget \/ Decide
           \/ EndMirror \/ HandOut \/ RemoveSource \/ RemoveDir \/ EndRemove \/ Interrupt \/ WatchdogAbort \/ Finished \/ UNCHANGED vars
           \/ \E w \in Workers : WorkerStep(w)
  <2>1. mirrorRoots' = mirrorRoots
    BY <1>4 DEF LoseTarget, CloseRoot, Visit, EndWalk, JoinWorkers, SkipLink, RemoveLinkDst, LinkTarget, Decide,
              EndMirror, HandOut, RemoveSource, RemoveDir, EndRemove, Interrupt, WatchdogAbort, Finished, WorkerStep, PopJob, CompareJob, CopyJob, vars, walkVars
  <2> QED BY <2>1
<1> QED BY <1>1, <1>2, <1>3, <1>4 DEF Next, MainStep

\* What is counted is out of the reach of the mirror pass.
LEMMA MirrorMisses ==
    ASSUME Types, Counted, MirrorRoot, NEW s \in Srcs, outcome[s] \in Done \cup {"renamed"}
    PROVE  s \in src \/ s \notin RootFiles[Head(mirrorRoots)]
<1>1. phase = "mirror" /\ 1 \in DOMAIN mirrorRoots /\ Head(mirrorRoots) = mirrorRoots[1]
  BY TailFacts DEF MirrorRoot, Types
<1> QED BY <1>1 DEF Counted

\* So its destination stays as it is.
LEMMA CountedKept ==
    ASSUME Distinct, "lstat" \notin Faults, Types, Counted, [Next]_vars, NEW s \in Srcs, outcome[s] \in Done \cup {"renamed"}
    PROVE  dst'[DstOf[s]] = dst[DstOf[s]]
<1>1. s \notin Somewhere
  BY DEF Counted, Done
<1> QED BY <1>1, MirrorMisses, DstKept DEF Somewhere

LEMMA CountedStep ==
    ASSUME Distinct, "lstat" \notin Faults, Types, Barriers, RootsApart, Places, Counted, [Next]_vars
    PROVE  Counted'
<1>1. CASE Rerun
  <2>1. Recorded' = {} /\ \A s \in Srcs : outcome'[s] = "none"
    BY <1>1 DEF Rerun, Recorded
  <2> QED BY <2>1 DEF Counted, Done
<1>2. CASE ~Rerun
  <2>1. /\ Somewhere' \subseteq Somewhere
        /\ \A s \in Srcs : outcome'[s] = outcome[s] \/ (outcome[s] = "none" /\ Left(s)) \/ (outcome[s] # "none" /\ outcome'[s] = "failed")
        /\ \A s \in Recorded' : s \in Recorded \/ outcome'[s] # "none"
    BY <1>2, OutcomeStep
  <2>2. \A s \in Srcs : outcome'[s] # "none" => s \notin Somewhere'
    BY <2>1 DEF Counted, Left
  <2>3. \A s \in Recorded' : outcome'[s] # "none"
    <3>1. Recorded \subseteq Srcs
      BY DEF Types, TypeOK, Recorded
    <3> QED BY <2>1, <3>1 DEF Counted, Left
  <2>4. ASSUME phase' \notin {"remove", "done"}, NEW s \in Srcs, outcome'[s] \in Done PROVE s \in src'
    <3>1. s \in src
      BY <1>2, <2>1, <2>4, SourcesStay DEF Counted, Left, Done, Places
    <3> QED BY <1>2, <2>4, <3>1, SourcesStay DEF Done
  <2>5. ASSUME NEW s \in Srcs, NEW k \in DOMAIN mirrorRoots', outcome'[s] = "renamed" PROVE s \notin RootFiles[mirrorRoots'[k]]
    <3>1. outcome[s] = "renamed" \/ s \in Unseen
      BY <2>1, <2>5 DEF Left, Done
    <3>2. CASE \E j \in DOMAIN mirrorRoots : mirrorRoots[j] = mirrorRoots'[k]
      BY <3>1, <3>2 DEF Counted, RootsApart
    <3>3. CASE OpenRoot /\ (WalkRoot(Head(roots)) \/ FailVisit(Head(roots))) /\ mirrorRoots'[k] = Head(roots)
      <4>1. RootFiles[Head(roots)] \subseteq Unseen
        BY <3>3, HeadSeen DEF OpenRoot, WalkRoot, FailVisit, NextRoot
      <4>2. outcome[s] = "renamed"
        BY <2>5, <3>3 DEF WalkRoot, FailVisit, Fail
      <4> QED BY <3>3, <4>1, <4>2 DEF Counted, Somewhere
    <3> QED BY <3>2, <3>3, MirrorRootsStep
  <2>6. ASSUME NEW s \in Srcs, outcome'[s] \in Done \cup {"renamed"} PROVE dst'[DstOf[s]] # Absent
    <3>1. CASE outcome'[s] = outcome[s]
      BY <2>6, <3>1, CountedKept DEF Counted
    <3>2. CASE outcome'[s] # outcome[s]
      BY <1>2, <2>6, <3>2, NewlyDone
    <3> QED BY <3>1, <3>2
  <2> QED BY <2>2, <2>3, <2>4, <2>5, <2>6 DEF Counted
<1> QED BY <1>1, <1>2

LEMMA SettledStep ==
    ASSUME Distinct, "lstat" \notin Faults, Types, Barriers, RootsApart, Places, Counted,
           Followed, SameFile, Primaries, Settled, [Next]_vars
    PROVE  Settled'
<1>1. CASE Rerun
  <2>1. \A s \in Srcs : outcome'[s] = "none"
    BY <1>1 DEF Rerun
  <2> QED BY <2>1 DEF Settled, Done
<1>2. CASE ~Rerun
  <2> SUFFICES ASSUME Clean', NEW s \in Srcs, outcome'[s] \in Done \cup {"renamed"} PROVE Holds(DstOf[s], s)'
    BY DEF Settled
  <2>1. CASE outcome'[s] = outcome[s]
    <3>1. Clean
      BY <1>2, CleanStep
    <3>2. dst'[DstOf[s]] = dst[DstOf[s]]
      BY <2>1, CountedKept
    <3> QED BY <2>1, <3>1, <3>2 DEF Settled, Holds
  <2>2. CASE outcome'[s] # outcome[s]
    BY <1>2, <2>2, NewlyDone
  <2> QED BY <2>1, <2>2
<1> QED BY <1>1, <1>2

LEMMA InitSameFile == Init => SameFile
<1> SUFFICES ASSUME Init, NEW f \in Family, NEW g \in Family, f.id = g.id PROVE f = g
  BY DEF SameFile
<1> DEFINE Olds == {dst[n] : n \in {k \in Dsts : dst[k].id[1] \in Dsts \cup {"old"} /\ dst[k].id[2] = 0}}
<1>1. \A n \in Dsts : dst[n] = Absent \/ dst[n] \in Olds \/ dst[n] \in {Original(s) : s \in Srcs}
  <2>1. dst \in [Dsts -> OldFiles \cup {Original(s) : s \in Aliased}] /\ Aliased \subseteq Srcs
    BY OptionAssumption DEF Init
  <2>2. \A f0 \in OldFiles : f0 = Absent \/ (f0.id[1] \in Dsts \cup {"old"} /\ f0.id[2] = 0)
    BY DEF OldFiles
  <2> QED BY <2>1, <2>2
<1>2. \A n, k \in Dsts : dst[n].id = dst[k].id => dst[n] = dst[k]
  BY DEF Init
<1>3. \A s \in Srcs : Inode[s] \notin Dsts \cup {"old", "absent"}
  BY OptionAssumption DEF Inodes
<1>4. "absent" \notin Dsts \cup {"old"}
  BY OptionAssumption
<1> DEFINE Kind(h) == /\ h = Absent \/ h \in Olds \/ h \in {Original(s) : s \in Srcs}
                         \/ h \in {[id |-> <<s, j>>, content |-> Inode[s]] : s \in Srcs, j \in 1..MaxRuns}
<1>5. Kind(f) /\ Kind(g)
  BY <1>1 DEF Family
<1>6. \A h : h \in {Original(s) : s \in Srcs} => h.id[2] = 0 /\ h.id[1] = h.content /\ h.id[1] \notin Dsts \cup {"old", "absent"}
                                                 /\ h = [id |-> <<h.content, 0>>, content |-> h.content]
  BY <1>3 DEF Original
<1>7. \A h : h \in {[id |-> <<s, j>>, content |-> Inode[s]] : s \in Srcs, j \in 1..MaxRuns} =>
             h.id[2] # 0 /\ h.content = Inode[h.id[1]] /\ h = [id |-> h.id, content |-> Inode[h.id[1]]]
  OBVIOUS
<1>8. Absent.id[1] = "absent" /\ Absent.id[2] = 0
  BY DEF Absent
<1> HIDE DEF Absent
<1>9. CASE f = Absent \/ f \in Olds
  <2>1. CASE g = Absent \/ g \in Olds
    BY <1>1, <1>2, <1>4, <1>8, <1>9, <2>1
  <2>2. CASE g \in {Original(s) : s \in Srcs}
    BY <1>1, <1>6, <1>8, <1>9, <2>2
  <2>3. CASE g \in {[id |-> <<s, j>>, content |-> Inode[s]] : s \in Srcs, j \in 1..MaxRuns}
    BY <1>1, <1>7, <1>8, <1>9, <2>3
  <2> QED BY <1>5, <2>1, <2>2, <2>3
<1>10. CASE f \in {Original(s) : s \in Srcs}
  <2>1. CASE g = Absent \/ g \in Olds
    BY <1>1, <1>6, <1>8, <1>10, <2>1
  <2>2. CASE g \in {Original(s) : s \in Srcs}
    BY <1>6, <1>10, <2>2
  <2>3. CASE g \in {[id |-> <<s, j>>, content |-> Inode[s]] : s \in Srcs, j \in 1..MaxRuns}
    BY <1>6, <1>7, <1>10, <2>3
  <2> QED BY <1>5, <2>1, <2>2, <2>3
<1>11. CASE f \in {[id |-> <<s, j>>, content |-> Inode[s]] : s \in Srcs, j \in 1..MaxRuns}
  <2>1. CASE g = Absent \/ g \in Olds
    BY <1>1, <1>7, <1>8, <1>11, <2>1
  <2>2. CASE g \in {Original(s) : s \in Srcs}
    BY <1>6, <1>7, <1>11, <2>2
  <2>3. CASE g \in {[id |-> <<s, j>>, content |-> Inode[s]] : s \in Srcs, j \in 1..MaxRuns}
    BY <1>7, <1>11, <2>3
  <2> QED BY <1>5, <2>1, <2>2, <2>3
<1> QED BY <1>5, <1>9, <1>10, <1>11

\* No step brings a file to the destination that is not in the family.
LEMMA SameFileStep == ASSUME Types, SameFile, [Next]_vars PROVE SameFile'
<1>0. /\ dst \in [Dsts -> Files] /\ run \in 1..MaxRuns /\ Absent \in Family
      /\ \A n \in Dsts : dst[n] \in Family
      /\ \A s \in Srcs : Original(s) \in Family
  BY DEF Types, TypeOK, Family
<1>a. \A s \in Srcs : CopyOf(s) \in Family
  BY <1>0 DEF Family, CopyOf
<1> SUFFICES \A n \in Dsts : dst'[n] \in Family
  <2> SUFFICES ASSUME \A n \in Dsts : dst'[n] \in Family PROVE Family' \subseteq Family
    BY DEF SameFile
  <2> QED BY DEF Family, Original
<1>1. CASE OpenRoot
  <2> DEFINE r == Head(roots)
             At(n) == CHOOSE t \in FilesLeft(r) : DstOf[t] = n
  <2>1. CASE RenameRoot(r)
    <3>1. FilesLeft(r) \subseteq Srcs
      BY DEF FilesLeft, Types, TypeOK
    <3>2. ASSUME NEW n \in Dsts, \E s \in FilesLeft(r) : DstOf[s] = n PROVE At(n) \in Srcs
      BY <3>1, <3>2
    <3>3. \A n \in Dsts : dst'[n] = dst[n] \/ ((\E s \in FilesLeft(r) : DstOf[s] = n) /\ dst'[n] = Original(At(n)))
      BY <2>1 DEF RenameRoot, RenameFiles
    <3> HIDE DEF At
    <3> QED BY <1>0, <3>2, <3>3
  <2>2. CASE FailRoot(r) \/ FailVisit(r) \/ WalkRoot(r)
    BY <1>0, <2>2 DEF FailRoot, FailVisit, WalkRoot, RecordRoot
  <2> QED BY <1>1, <2>1, <2>2 DEF OpenRoot
<1>2. CASE \/ LoseTarget \/ CloseRoot \/ Visit \/ EndWalk \/ JoinWorkers \/ SkipLink \/ Decide \/ EndMirror \/ HandOut
           \/ RemoveSource \/ RemoveDir \/ EndRemove \/ Interrupt \/ WatchdogAbort \/ Finished \/ Rerun \/ UNCHANGED vars
  BY <1>0, <1>2 DEF LoseTarget, CloseRoot, Visit, EndWalk, JoinWorkers, SkipLink, Decide, EndMirror, HandOut, RemoveSource, RemoveDir,
                    EndRemove, Interrupt, WatchdogAbort, Finished, Rerun, vars
<1>3. CASE RemoveLinkDst \/ LinkTarget
  <2>1. links # <<>> /\ Head(links) \in LinkType
    BY <1>3, TailFacts DEF RemoveLinkDst, LinkTarget, Types
  <2>2. \A n \in Dsts : dst'[n] \in {dst[n], Absent, dst[Head(links).target]}
    BY <1>0, <1>3 DEF RemoveLinkDst, LinkTarget
  <2>3. Head(links).target \in Dsts
    BY <2>1 DEF LinkType
  <2> QED BY <1>0, <2>2, <2>3
<1>4. CASE MirrorRoot
  <2>1. \A n \in Dsts : dst'[n] \in {dst[n], Absent}
    BY <1>4 DEF MirrorRoot
  <2> QED BY <1>0, <2>1
<1>5. ASSUME NEW w \in Workers, WorkerStep(w) PROVE \A n \in Dsts : dst'[n] \in Family
  <2>1. CASE PopJob(w) \/ CompareJob(w)
    BY <1>0, <2>1 DEF PopJob, CompareJob
  <2>2. CASE CopyJob(w)
    <3> DEFINE s == worker[w].src
    <3>1. s \in Srcs
      BY <2>2 DEF CopyJob, Types, StageType
    <3>2. \/ dst' = dst
          \/ dst' = [dst EXCEPT ![DstOf[s]] = CopyOf(s)]
          \/ dst' = [dst EXCEPT ![DstOf[s]] = Absent]
      BY <2>2 DEF CopyJob, NoRoom, LosesOld
    <3> HIDE DEF s
    <3>3. \A n \in Dsts : dst'[n] \in {dst[n], Absent, CopyOf(s)}
      BY <1>0, <3>2
    <3> QED BY <1>0, <1>a, <3>1, <3>3
  <2> QED BY <1>5, <2>1, <2>2 DEF WorkerStep
<1> QED BY <1>1, <1>2, <1>3, <1>4, <1>5 DEF Next, MainStep

\* What comes to be a first path, or to wait for its link, was visited just now.
LEMMA PrimaryStep ==
    ASSUME Types, [Next]_vars, ~Rerun
    PROVE  /\ \A i \in DOMAIN primary : i \in DOMAIN primary' /\ primary'[i] = primary[i]
           /\ \A i \in DOMAIN primary' \ DOMAIN primary : \E s \in todo \cap Srcs :
                 /\ Inode[s] = i /\ primary'[i].dst = DstOf[s] /\ todo' = todo \ {s}
                 /\ primary'[i].adopted => outcome'[s] # "none"
           /\ \A k \in DOMAIN links' :
                 \/ \E l \in DOMAIN links : links[l].src = links'[k].src /\ links[l].target = links'[k].target
                 \/ Inode[links'[k].src] \in DOMAIN primary /\ links'[k].target = primary[Inode[links'[k].src]].dst
<1>0. links \in Seq(LinkType) /\ TypeOK
  BY DEF Types
<1>1. CASE Visit
  <2> PICK s \in todo : todo' = todo \ {s} /\ (VisitSingle(s) \/ VisitPrimary(s) \/ VisitSecondary(s))
    BY <1>1 DEF Visit
  <2>0. s \in Srcs
    BY <1>0 DEF TypeOK
  <2>1. CASE VisitSingle(s)
    BY <2>1 DEF VisitSingle
  <2>2. CASE VisitPrimary(s)
    <3>1. /\ Inode[s] \notin DOMAIN primary /\ links' = links
          /\ primary' = [i \in DOMAIN primary \cup {Inode[s]} |->
                            IF i = Inode[s] THEN [dst |-> DstOf[s], adopted |-> Unchanged(s)] ELSE primary[i]]
          /\ Unchanged(s) => FinishUnchanged(s)
      BY <2>2 DEF VisitPrimary
    <3>2. Unchanged(s) => outcome'[s] # "none"
      BY <1>0, <2>0, <3>1 DEF FinishUnchanged, TypeOK
    <3>3. \A i \in DOMAIN primary : i \in DOMAIN primary' /\ primary'[i] = primary[i]
      BY <3>1
    <3>4. \A i \in DOMAIN primary' \ DOMAIN primary : i = Inode[s]
      BY <3>1
    <3>5. primary'[Inode[s]] = [dst |-> DstOf[s], adopted |-> Unchanged(s)]
      BY <3>1
    <3>6. primary'[Inode[s]].dst = DstOf[s] /\ (primary'[Inode[s]].adopted => outcome'[s] # "none")
      BY <3>2, <3>5
    <3> QED BY <2>0, <3>1, <3>3, <3>4, <3>6
  <2>3. CASE VisitSecondary(s)
    <3> DEFINE e == [src |-> s, target |-> primary[Inode[s]].dst, unlinked |-> FALSE]
    <3>1. e \in LinkType /\ e.src = s /\ e.target = primary[Inode[s]].dst
      BY <2>0, <2>3 DEF VisitSecondary, Types, LinkType
    <3>2. UNCHANGED primary /\ Inode[s] \in DOMAIN primary /\ (links' = links \/ links' = Append(links, e))
      BY <2>3 DEF VisitSecondary
    <3> HIDE DEF e
    <3>3. /\ \A k \in DOMAIN links : k \in DOMAIN Append(links, e) /\ Append(links, e)[k] = links[k]
          /\ \A k \in DOMAIN Append(links, e) : k \notin DOMAIN links => Append(links, e)[k] = e
      BY <1>0, <3>1, AppendFacts
    <3>4. \A k \in DOMAIN links' : (k \in DOMAIN links /\ links'[k] = links[k]) \/ links'[k] = e
      BY <3>2, <3>3
    <3> QED BY <3>1, <3>2, <3>4
  <2> QED BY <2>1, <2>2, <2>3
<1>2. CASE SkipLink \/ LinkTarget
  <2>1. links # <<>> /\ links' = Tail(links) /\ UNCHANGED primary
    BY <1>2 DEF SkipLink, LinkTarget, walkVars
  <2> QED BY <1>0, <2>1, TailFacts
<1>3. CASE RemoveLinkDst
  <2>1. links # <<>> /\ links' = [links EXCEPT ![1].unlinked = TRUE] /\ UNCHANGED primary
    BY <1>3 DEF RemoveLinkDst, walkVars
  <2>2. 1 \in DOMAIN links /\ links[1] \in LinkType
    BY <1>0, <2>1, TailFacts
  <2>3. DOMAIN links' = DOMAIN links /\ \A k \in DOMAIN links : links'[k].src = links[k].src /\ links'[k].target = links[k].target
    BY <1>0, <2>1, <2>2 DEF LinkType
  <2> QED BY <2>1, <2>3
<1>4. CASE \/ OpenRoot \/ LoseTarget \/ CloseRoot \/ EndWalk \/ JoinWorkers \/ Decide \/ MirrorRoot \/ EndMirror \/ HandOut \/ RemoveSource
           \/ RemoveDir \/ EndRemove \/ Interrupt \/ WatchdogAbort \/ Finished \/ UNCHANGED vars \/ \E w \in Workers : WorkerStep(w)
  <2>1. UNCHANGED <<primary, links>>
    BY <1>4 DEF OpenRoot, LoseTarget, CloseRoot, EndWalk, JoinWorkers, Decide, MirrorRoot, EndMirror, HandOut, RemoveSource, RemoveDir,
                EndRemove, Interrupt, WatchdogAbort, Finished, WorkerStep, PopJob, CompareJob, CopyJob, vars, walkVars
  <2> QED BY <2>1
<1> QED BY <1>1, <1>2, <1>3, <1>4 DEF Next, MainStep

LEMMA PrimariesStep ==
    ASSUME Types, Barriers, RootsApart, Places, Counted, Primaries, [Next]_vars
    PROVE  Primaries'
<1>1. CASE Rerun
  <2>1. DOMAIN primary' = {} /\ DOMAIN links' = {}
    BY <1>1 DEF Rerun
  <2> QED BY <2>1 DEF Primaries
<1>2. CASE ~Rerun
  <2>0. /\ \A i \in DOMAIN primary : i \in DOMAIN primary' /\ primary'[i] = primary[i]
        /\ \A i \in DOMAIN primary' \ DOMAIN primary : \E s \in todo \cap Srcs :
              /\ Inode[s] = i /\ primary'[i].dst = DstOf[s] /\ todo' = todo \ {s}
              /\ primary'[i].adopted => outcome'[s] # "none"
        /\ \A k \in DOMAIN links' :
              \/ \E l \in DOMAIN links : links[l].src = links'[k].src /\ links[l].target = links'[k].target
              \/ Inode[links'[k].src] \in DOMAIN primary /\ links'[k].target = primary[Inode[links'[k].src]].dst
    BY <1>2, PrimaryStep
  <2>1. ASSUME NEW i \in DOMAIN primary'
        PROVE  \E p \in Srcs : /\ Inode[p] = i /\ DstOf[p] = primary'[i].dst /\ p \notin todo' \cup Unseen' \cup Linked'
                               /\ primary'[i].adopted => outcome'[p] # "none"
                               /\ phase' \notin {"remove", "done"} => p \in src'
    <3>1. CASE i \in DOMAIN primary
      <4>0. primary'[i] = primary[i]
        BY <2>0, <3>1
      <4> PICK p \in Srcs : /\ Inode[p] = i /\ DstOf[p] = primary[i].dst /\ p \notin todo \cup Unseen \cup Linked
                            /\ primary[i].adopted => outcome[p] # "none"
                            /\ phase \notin {"remove", "done"} => p \in src
        BY <3>1 DEF Primaries
      <4>1. p \notin todo' \cup Unseen' \cup Linked'
        BY <1>2, FlowStep
      <4>2. outcome[p] # "none" => outcome'[p] # "none"
        BY <1>2, OutcomeStep
      <4>3. phase' \notin {"remove", "done"} => p \in src'
        BY <1>2, SourcesStay
      <4> QED BY <4>0, <4>1, <4>2, <4>3
    <3>2. CASE i \notin DOMAIN primary
      <4> PICK p \in todo \cap Srcs : /\ Inode[p] = i /\ primary'[i].dst = DstOf[p] /\ todo' = todo \ {p}
                                      /\ primary'[i].adopted => outcome'[p] # "none"
        BY <2>0, <3>2
      <4>1. p \in src /\ p \notin Unseen \cup Linked
        BY DEF Places
      <4>2. p \notin todo' \cup Unseen' \cup Linked'
        <5>1. \E s \in todo \cap Srcs : Inode[s] = i /\ todo' = todo \ {s} /\ Linked' = Linked
          BY <1>2, <3>2, FlowStep
        <5> QED BY <1>2, <4>1, <5>1, FlowStep
      <4>3. phase' \notin {"remove", "done"} => p \in src'
        BY <1>2, <4>1, SourcesStay
      <4> QED BY <4>2, <4>3
    <3> QED BY <3>1, <3>2
  <2>2. ASSUME NEW k \in DOMAIN links'
        PROVE  Inode[links'[k].src] \in DOMAIN primary' /\ links'[k].target = primary'[Inode[links'[k].src]].dst
    <3>1. Inode[links'[k].src] \in DOMAIN primary /\ links'[k].target = primary[Inode[links'[k].src]].dst
      BY <2>0, <2>2 DEF Primaries
    <3> QED BY <2>0, <3>1
  <2> QED BY <2>1, <2>2 DEF Primaries
<1> QED BY <1>1, <1>2


\* The destination of a first path stays as it is, as soon as it is counted or
\* the workers are through.
LEMMA PrimaryDstKept ==
    ASSUME Distinct, "lstat" \notin Faults, Types, Barriers, Counted, Primaries, [Next]_vars,
           NEW i \in DOMAIN primary, primary[i].adopted \/ phase \notin {"walk", "drain"}
    PROVE  dst'[primary[i].dst] = dst[primary[i].dst]
<1> PICK p \in Srcs : /\ Inode[p] = i /\ DstOf[p] = primary[i].dst /\ p \notin todo \cup Unseen \cup Linked
                      /\ primary[i].adopted => outcome[p] # "none"
                      /\ phase \notin {"remove", "done"} => p \in src
  BY DEF Primaries
<1>1. p \notin Busy
  BY DEF Counted, Barriers, Somewhere
<1>2. MirrorRoot => p \in src
  BY DEF MirrorRoot
<1> QED BY <1>1, <1>2, DstKept

\* A source that is there, or was, is visited, unless something goes wrong.
LEMMA VisitedNow ==
    ASSUME Types, Barriers, RootsApart, Places, Counted, [Next]_vars, ~Rerun, Clean',
           NEW s \in Present', s \in Srcs, s \in todo \cup Unseen, s \notin todo' \cup Unseen'
    PROVE  Visit /\ s \in todo /\ (VisitPrimary(s) \/ VisitSecondary(s) \/ VisitSingle(s))
<1>0. outcome[s] = "none"
  BY DEF Counted, Somewhere
<1>c. ~Halted /\ ~Halted' /\ ~walkErr' /\ outcome'[s] # "failed"
  BY CleanStep DEF Clean
<1>1. CASE OpenRoot
  <2> DEFINE r == Head(roots)
  <2>1. /\ roots # <<>> /\ ~opened /\ todo = {}
    BY <1>1 DEF OpenRoot, Barriers
  <2>2. \/ roots' = Tail(roots) /\ opened' = opened
        \/ roots' = roots /\ opened' = TRUE
    BY <1>1 DEF OpenRoot, RenameRoot, RenameFiles, FailRoot, FailVisit, WalkRoot, RecordRoot, NextRoot
  <2>3. s \in RootFiles[r]
    BY <2>1, <2>2, HeadSeen
  <2>4. CASE RenameRoot(r)
    <3>1. s \notin src' /\ outcome'[s] \in {"none", "renamed"}
      BY <1>0, <2>3, <2>4 DEF RenameRoot, RenameFiles
    <3> QED BY <3>1 DEF Present, Done
  <2>5. CASE FailRoot(r) \/ FailVisit(r)
    BY <1>c, <2>3, <2>5 DEF FailRoot, FailVisit, RecordRoot, Fail
  <2>6. CASE WalkRoot(r)
    <3>1. s \in src
      BY <1>0, <2>6 DEF WalkRoot, RecordRoot, Present, Done
    <3> QED BY <2>3, <2>6, <3>1 DEF WalkRoot, RecordRoot, FilesLeft
  <2> QED BY <1>1, <2>4, <2>5, <2>6 DEF OpenRoot
<1>2. CASE LoseTarget
  BY <1>c, <1>2 DEF LoseTarget
<1>3. CASE CloseRoot
  <2>1. todo = {} /\ Unseen' = Unseen
    BY <1>c, <1>3, CloseUnseen DEF CloseRoot, Types
  <2> QED BY <2>1
<1>4. CASE Visit
  <2> PICK u \in todo : todo' = todo \ {u} /\ (VisitSingle(u) \/ VisitPrimary(u) \/ VisitSecondary(u))
    BY <1>4 DEF Visit
  <2>1. Unseen' = Unseen
    BY <1>4, SamePlaces DEF Visit
  <2>2. s = u
    BY <2>1
  <2> QED BY <1>4, <2>2
<1>5. CASE \/ EndWalk \/ JoinWorkers \/ SkipLink \/ RemoveLinkDst \/ LinkTarget \/ Decide \/ MirrorRoot \/ EndMirror \/ HandOut \/ RemoveSource
           \/ RemoveDir \/ EndRemove \/ Interrupt \/ WatchdogAbort \/ Finished \/ UNCHANGED vars \/ \E w \in Workers : WorkerStep(w)
  <2>1. UNCHANGED <<todo, roots, opened>>
    BY <1>5 DEF EndWalk, JoinWorkers, SkipLink, RemoveLinkDst, LinkTarget, Decide, MirrorRoot, EndMirror, HandOut, RemoveSource, RemoveDir,
                EndRemove, Interrupt, WatchdogAbort, Finished, WorkerStep, PopJob, CompareJob, CopyJob, vars, walkVars
  <2> QED BY <2>1, SamePlaces
<1> QED BY <1>1, <1>2, <1>3, <1>4, <1>5 DEF Next, MainStep

\* Phases do not go back to the walk.
LEMMA PhaseStep == ASSUME Barriers, Types, [Next]_vars, ~Rerun, phase \notin {"walk", "drain"} PROVE phase' \notin {"walk", "drain"}
<1>1. \A w \in Workers : ~WorkerStep(w)
  BY WorkersEarly
<1> QED BY <1>1 DEF Next, MainStep, OpenRoot, LoseTarget, CloseRoot, Visit, EndWalk, JoinWorkers, SkipLink, RemoveLinkDst, LinkTarget, Decide,
              MirrorRoot, EndMirror, HandOut, RemoveSource, RemoveDir, EndRemove, Interrupt, WatchdogAbort, Finished, vars

LEMMA GroupedStep ==
    ASSUME Distinct, "lstat" \notin Faults, Types, Barriers, RootsApart, Places, Counted, Primaries, Grouped, [Next]_vars
    PROVE  Grouped'
<1> SUFFICES ASSUME Clean', NEW s \in Present', NEW t \in Present', s # t, Inode[s] = Inode[t], s \notin todo' \cup Unseen'
             PROVE  /\ Inode[s] \in DOMAIN primary'
                    /\ \/ DstOf[s] = primary'[Inode[s]].dst
                       \/ s \in Linked'
                       \/ /\ dst'[DstOf[s]].id = dst'[primary'[Inode[s]].dst].id /\ outcome'[s] # "none"
                          /\ primary'[Inode[s]].adopted \/ phase' \notin {"walk", "drain"}
  BY DEF Grouped
<1>t. TypeOK /\ TypeOK' /\ dst \in [Dsts -> Files]
  BY TypesStep DEF Types
<1>0. s \in Srcs /\ t \in Srcs /\ DstOf[s] \in Dsts
  BY <1>t, OptionAssumption DEF Present, TypeOK
<1>1. CASE Rerun
  <2>1. s \in Unseen'
    BY <1>0, <1>1, RootAssumption DEF Rerun, Unseen, Srcs
  <2> QED BY <2>1
<1>2. CASE ~Rerun
  <2>c. Clean
    BY <1>2, CleanStep
  <2>1. s \in Present /\ t \in Present
    <3> SUFFICES ASSUME NEW u \in Present', u \in Srcs PROVE u \in Present
      BY <1>0
    <3>1. CASE u \in src'
      BY <1>2, <3>1, SourcesStay DEF Present
    <3>2. CASE outcome'[u] \in Done
      BY <1>2, <3>2, OutcomeStep DEF Present, Left, Done, Places
    <3> QED BY <3>1, <3>2 DEF Present
  <2>2. CASE s \in todo \cup Unseen
    <3>1. Visit /\ s \in todo /\ (VisitPrimary(s) \/ VisitSecondary(s) \/ VisitSingle(s))
      BY <1>0, <1>2, <2>2, VisitedNow
    <3>2. phase = "walk" /\ dst' = dst /\ t \in src
      BY <2>1, <3>1 DEF Visit, Counted, Present
    <3>3. SharesInode(s)
      BY <3>2 DEF SharesInode
    <3>4. CASE VisitPrimary(s)
      <4>1. primary' = [i \in DOMAIN primary \cup {Inode[s]} |->
                            IF i = Inode[s] THEN [dst |-> DstOf[s], adopted |-> Unchanged(s)] ELSE primary[i]]
        BY <3>4 DEF VisitPrimary
      <4>2. Inode[s] \in DOMAIN primary' /\ primary'[Inode[s]] = [dst |-> DstOf[s], adopted |-> Unchanged(s)]
        BY <4>1
      <4> QED BY <4>2
    <3>5. CASE VisitSecondary(s)
      <4> DEFINE p == primary[Inode[s]]
                 e == [src |-> s, target |-> p.dst, unlinked |-> FALSE]
      <4>1. Inode[s] \in DOMAIN primary /\ primary' = primary
        BY <3>5 DEF VisitSecondary
      <4>2. CASE p.adopted /\ SameDest(p.dst, DstOf[s]) /\ FinishUnchanged(s)
        <5>1. outcome'[s] # "none"
          BY <1>t, <1>0, <4>2 DEF FinishUnchanged, TypeOK
        <5> QED BY <3>2, <4>1, <4>2, <5>1 DEF SameDest
      <4>3. CASE links' = Append(links, e)
        <5>1. e \in LinkType /\ e.src = s
          BY <1>0, <4>1 DEF Types, LinkType
        <5>2. Linked' = Linked \cup {s}
          <6> HIDE DEF e
          <6> QED BY <1>0, <4>3, <5>1, DeferEffect
        <5> QED BY <4>1, <5>2
      <4> QED BY <3>5, <4>2, <4>3 DEF VisitSecondary
    <3> QED BY <3>1, <3>3, <3>4, <3>5 DEF VisitSingle
  <2>3. CASE s \notin todo \cup Unseen
    <3> DEFINE p == primary[Inode[s]]
    <3>0. /\ Inode[s] \in DOMAIN primary
          /\ \/ DstOf[s] = p.dst
             \/ s \in Linked
             \/ /\ dst[DstOf[s]].id = dst[p.dst].id /\ outcome[s] # "none"
                /\ p.adopted \/ phase \notin {"walk", "drain"}
      BY <2>c, <2>1, <2>3 DEF Grouped
    <3>1. Inode[s] \in DOMAIN primary' /\ primary'[Inode[s]] = p
      BY <1>2, <3>0, PrimaryStep
    <3>2. CASE DstOf[s] = p.dst
      BY <3>1, <3>2
    <3>3. CASE s \in Linked /\ s \notin Linked'
      <4>1. SkipLink \/ LinkTarget
        <5>1. UNCHANGED links => Linked' = Linked
          BY SamePlaces
        <5>2. RemoveLinkDst => Linked' = Linked
          BY UnlinkEffect DEF RemoveLinkDst
        <5>3. ~Visit
          <6> SUFFICES ASSUME Visit PROVE FALSE
            OBVIOUS
          <6> PICK u \in todo : todo' = todo \ {u} /\ (VisitSingle(u) \/ VisitPrimary(u) \/ VisitSecondary(u))
            BY DEF Visit
          <6> DEFINE e == [src |-> u, target |-> primary[Inode[u]].dst, unlinked |-> FALSE]
          <6>1. links' = links \/ (links' = Append(links, e) /\ Inode[u] \in DOMAIN primary)
            BY DEF VisitSingle, VisitPrimary, VisitSecondary
          <6>2. u \in Srcs
            BY <1>t DEF TypeOK
          <6>3. Inode[u] \in DOMAIN primary => e \in LinkType /\ e.src = u
            BY <6>2 DEF Types, LinkType
          <6> HIDE DEF e
          <6>4. Linked \subseteq Linked'
            BY <6>1, <6>2, <6>3, DeferEffect, SamePlaces
          <6> QED BY <3>3, <6>4
        <5>4. UNCHANGED links \/ RemoveLinkDst \/ Visit \/ SkipLink \/ LinkTarget
          BY <1>2 DEF Next, MainStep, OpenRoot, LoseTarget, CloseRoot, EndWalk, JoinWorkers, Decide, MirrorRoot, EndMirror, HandOut,
                      RemoveSource, RemoveDir, EndRemove, Interrupt, WatchdogAbort, Finished, WorkerStep, PopJob, CompareJob, CopyJob, vars, walkVars
        <5> QED BY <3>3, <5>1, <5>2, <5>3, <5>4
      <4>2. ~SkipLink
        BY <2>c DEF SkipLink, Clean, Halted
      <4> DEFINE l == Head(links)
      <4>3. LinkTarget /\ links # <<>> /\ links' = Tail(links)
        BY <4>1, <4>2 DEF LinkTarget
      <4>4. l.src = s
        BY <3>3, <4>3, LinkEffect
      <4>5. 1 \in DOMAIN links /\ l = links[1]
        BY <4>3, TailFacts DEF Types
      <4>6. l.target = p.dst
        BY <4>4, <4>5 DEF Primaries
      <4>7. ~Fail({l.src}, TRUE)
        BY <1>0, <4>4 DEF Fail, Clean
      <4>8. dst' = [dst EXCEPT ![DstOf[l.src]] = dst[l.target]] /\ outcome' = [outcome EXCEPT ![l.src] = "linked"] /\ phase = "links" /\ phase' = phase
        BY <4>3, <4>7 DEF LinkTarget
      <4> HIDE DEF l, p
      <4>9. dst'[DstOf[s]] = dst[p.dst] /\ outcome'[s] # "none"
        BY <1>t, <1>0, <4>4, <4>6, <4>8 DEF TypeOK
      <4>10. DstOf[s] # p.dst => dst'[p.dst] = dst[p.dst]
        BY <1>t, <4>4, <4>8
      <4> QED BY <3>1, <4>8, <4>9, <4>10
    <3>4. CASE /\ dst[DstOf[s]].id = dst[p.dst].id /\ outcome[s] # "none"
               /\ p.adopted \/ phase \notin {"walk", "drain"}
      <4>1. outcome[s] \in Done \cup {"renamed"}
        BY <1>t, <1>0, <2>c, <3>4 DEF TypeOK, Clean, Outcomes, Done
      <4>2. dst'[DstOf[s]] = dst[DstOf[s]]
        BY <1>0, <4>1, CountedKept
      <4>3. dst'[p.dst] = dst[p.dst]
        BY <3>0, <3>4, PrimaryDstKept
      <4>4. outcome'[s] # "none"
        BY <1>0, <1>2, <3>4, OutcomeStep
      <4>5. p.adopted \/ phase' \notin {"walk", "drain"}
        BY <1>2, <3>4, PhaseStep
      <4> QED BY <3>1, <3>4, <4>2, <4>3, <4>4, <4>5
    <3> QED BY <3>0, <3>1, <3>2, <3>3, <3>4
  <2> QED BY <2>2, <2>3
<1> QED BY <1>1, <1>2


-----------------------------------------------------------------------------
(* A run without a failure.                                                  *)

Bookkeeping == Types /\ Barriers /\ Followed /\ Places /\ RootsApart /\ Counted
Complete == Bookkeeping /\ SameFile /\ Primaries /\ Settled /\ Grouped

LEMMA InitBookkeeping == Distinct /\ Init => Bookkeeping
BY InitTypes, InitBarriers, InitPlaces, InitCounted DEF Bookkeeping

LEMMA BookkeepingStep ==
    ASSUME Distinct, "lstat" \notin Faults, Bookkeeping, [Next]_vars
    PROVE  Bookkeeping'
<1>1. Types' /\ Barriers' /\ Followed'
  BY TypesStep, BarriersStep, FollowedStep DEF Bookkeeping
<1>2. Places' /\ RootsApart' /\ Counted'
  BY PlacesStep, RootsApartStep, CountedStep DEF Bookkeeping
<1> QED BY <1>1, <1>2 DEF Bookkeeping

\* Behind the joins, all that the run has to do with is counted.
LEMMA AllCounted ==
    ASSUME Bookkeeping, phase \in {"mirror", "remove", "done"}, ~walkErr, ~Halted
    PROVE  /\ todo = {} /\ Unseen = {} /\ Linked = {} /\ roots = <<>>
           /\ \A s \in Given : s \in Srcs /\ outcome[s] # "none"
<1>1. todo = {} /\ Queued = {} /\ Busy = {} /\ Linked = {}
  BY DEF Bookkeeping, Barriers
<1>2. roots = <<>> /\ Unseen = {}
  BY DEF Bookkeeping, Followed, Unseen
<1>3. \A s \in src : s \in Srcs /\ outcome[s] # "none"
  BY <1>1, <1>2 DEF Bookkeeping, Followed, Types, TypeOK
<1> QED BY <1>1, <1>2, <1>3 DEF Given

\* A run that nobody halted and that counted no failure has brought every source
\* to its destination, with the paths of one inode as one file there: whatever
\* lay there before, whatever earlier runs did, in any order of the workers.
THEOREM CleanRunComplete == ASSUME Distinct, "lstat" \notin Faults PROVE Spec => []CleanRunIsComplete
<1>1. Init => Complete
  <2> SUFFICES ASSUME Init PROVE Complete
    OBVIOUS
  <2>1. DOMAIN primary = {} /\ DOMAIN links = {} /\ (\A s \in Srcs : outcome[s] = "none") /\ src = Srcs
    BY DEF Init
  <2>2. Primaries /\ Settled
    BY <2>1 DEF Primaries, Settled, Done
  <2>3. \A s \in Srcs : s \in Unseen
    BY RootAssumption DEF Init, Unseen, Srcs
  <2>4. Grouped
    BY <2>1, <2>3 DEF Grouped, Present
  <2> QED BY <2>2, <2>4, InitBookkeeping, InitSameFile DEF Complete
<1>2. Complete /\ [Next]_vars => Complete'
  <2> SUFFICES ASSUME Complete, [Next]_vars PROVE Complete'
    OBVIOUS
  <2> USE DEF Complete, Bookkeeping
  <2>1. Bookkeeping'
    BY BookkeepingStep
  <2>2. SameFile' /\ Primaries'
    BY SameFileStep, PrimariesStep
  <2>3. Settled' /\ Grouped'
    BY SettledStep, GroupedStep
  <2> QED BY <2>1, <2>2, <2>3
<1>3. Complete => CleanRunIsComplete
  <2> SUFFICES ASSUME Complete, phase \in {"mirror", "remove", "done"}, ~Halted, ~walkErr, \A s \in Srcs : outcome[s] # "failed"
               PROVE  /\ \A s \in Given : Holds(DstOf[s], s)
                      /\ \A s, t \in Given : Inode[s] = Inode[t] /\ "renamed" \notin {outcome[s], outcome[t]} =>
                            dst[DstOf[s]].id = dst[DstOf[t]].id
    BY DEF CleanRunIsComplete
  <2>1. Clean /\ todo \cup Unseen \cup Linked = {}
    BY AllCounted DEF Clean, Complete
  <2>2. \A s \in Given : s \in Srcs /\ outcome[s] \in Done \cup {"renamed"}
    BY AllCounted DEF Complete, Bookkeeping, Types, TypeOK, Outcomes, Done
  <2>3. \A s \in Given : Holds(DstOf[s], s)
    BY <2>1, <2>2 DEF Complete, Settled
  <2>4. ASSUME NEW s \in Given, NEW t \in Given, Inode[s] = Inode[t], "renamed" \notin {outcome[s], outcome[t]}
        PROVE  dst[DstOf[s]].id = dst[DstOf[t]].id
    <3>1. s \in Present /\ t \in Present
      BY <2>2, <2>4 DEF Present
    <3>2. \A u, v \in Present : u # v /\ Inode[u] = Inode[v] => dst[DstOf[u]].id = dst[primary[Inode[u]].dst].id
      BY <2>1 DEF Complete, Grouped
    <3> QED BY <2>4, <3>1, <3>2
  <2> QED BY <2>3, <2>4
<1> QED BY <1>1, <1>2, <1>3, PTL DEF Spec


\* What is counted as renamed, copied, linked or unchanged is touched by no later
\* step of the run, whatever the faults, but for a source that is there and yet
\* cannot be stat'ed.
THEOREM TransferredStays == ASSUME Distinct, "lstat" \notin Faults PROVE Spec => TransferredKept
<1>1. Bookkeeping /\ [Next]_vars =>
         [\A s \in Srcs : outcome[s] \in {"renamed", "copied", "linked", "unchanged"} => dst'[DstOf[s]] = dst[DstOf[s]]]_vars
  BY CountedKept DEF Bookkeeping, Done
<1>2. Init => Bookkeeping
  BY InitBookkeeping
<1>3. Bookkeeping /\ [Next]_vars => Bookkeeping'
  BY BookkeepingStep
<1> QED BY <1>1, <1>2, <1>3, PTL DEF Spec, TransferredKept

-----------------------------------------------------------------------------
(* A move without a failure.                                                 *)

\* A source that is counted as transferred and is still there is recorded for
\* removal; none is left recorded by a run that nobody halted.
Owed ==
    /\ Move => \A s \in src : outcome[s] \in Done => s \in Recorded
    /\ \A s \in src : outcome[s] # "renamed"
    /\ phase = "done" /\ ~Halted => Recorded = {}

\* A step that counts nothing but failures, and forgets no source.
LEMMA OwedKept ==
    ASSUME Owed, phase' # "done", src' \subseteq src, Recorded \subseteq Recorded',
           \A s \in src' : outcome'[s] \in {outcome[s], "failed"}
    PROVE  Owed'
BY DEF Owed, Done

\* A step that counts a source and records it.
LEMMA OwedBy ==
    ASSUME Types, Owed, NEW s \in Srcs, NEW o \in Done, outcome' = [outcome EXCEPT ![s] = o], RecordMove(s),
           UNCHANGED <<removing, src>>, phase' # "done"
    PROVE  Owed'
<1>1. outcome'[s] = o /\ \A t \in Srcs \ {s} : outcome'[t] = outcome[t]
  BY DEF Types, TypeOK
<1>2. Recorded \subseteq Recorded' /\ (Move => s \in Recorded')
  BY DEF RecordMove, Recorded
<1>3. src \subseteq Srcs
  BY DEF Types, TypeOK
<1> QED BY <1>1, <1>2, <1>3 DEF Owed, Done

LEMMA FailOwed == ASSUME NEW S, NEW b, Fail(S, b), src \subseteq Srcs
                  PROVE  \A s \in src : outcome'[s] \in {outcome[s], "failed"}
BY DEF Fail

LEMMA OwedStep == Types /\ Barriers /\ Owed /\ [Next]_vars => Owed'
<1> SUFFICES ASSUME Types, Barriers, Owed, [Next]_vars PROVE Owed'
  OBVIOUS
<1>0. src \subseteq Srcs /\ outcome \in [Srcs -> Outcomes]
  BY DEF Types, TypeOK
<1>1. CASE OpenRoot
  <2> DEFINE r == Head(roots)
  <2>1. phase' # "done" /\ Recorded' = Recorded
    BY <1>1, SamePlaces DEF OpenRoot
  <2>2. CASE RenameRoot(r)
    <3>1. src' \subseteq src /\ \A s \in src' : s \notin FilesLeft(r)
      BY <2>2 DEF RenameRoot, RenameFiles, FilesLeft
    <3>2. \A s \in src' : outcome'[s] = outcome[s]
      BY <1>0, <2>2, <3>1 DEF RenameRoot, RenameFiles
    <3> QED BY <2>1, <3>1, <3>2, OwedKept
  <2>3. CASE FailRoot(r) \/ FailVisit(r)
    BY <1>0, <2>1, <2>3, FailOwed, OwedKept DEF FailRoot, FailVisit
  <2>4. CASE WalkRoot(r)
    BY <2>1, <2>4, OwedKept DEF WalkRoot
  <2> QED BY <1>1, <2>2, <2>3, <2>4 DEF OpenRoot
<1>2. CASE Visit
  <2> PICK s \in todo : VisitSingle(s) \/ VisitPrimary(s) \/ VisitSecondary(s)
    BY <1>2 DEF Visit
  <2>0. s \in Srcs
    BY DEF Types, TypeOK
  <2>1. phase' # "done" /\ UNCHANGED <<removing, src>>
    BY <1>2 DEF Visit
  <2>2. FinishUnchanged(s) \/ UNCHANGED <<outcome, moved>>
    BY DEF VisitSingle, VisitPrimary, VisitSecondary
  <2>3. CASE FinishUnchanged(s)
    BY <2>0, <2>1, <2>3, OwedBy DEF FinishUnchanged, Done
  <2>4. CASE UNCHANGED <<outcome, moved>>
    BY <2>1, <2>4, OwedKept DEF Recorded
  <2> QED BY <2>2, <2>3, <2>4
<1>3. CASE LinkTarget
  <2> DEFINE s == Head(links).src
  <2>0. s \in Srcs
    BY <1>3, HeadLinked DEF LinkTarget
  <2>1. phase' # "done" /\ UNCHANGED <<removing, src>>
    BY <1>3 DEF LinkTarget
  <2>2. CASE outcome' = [outcome EXCEPT ![s] = "linked"] /\ RecordMove(s)
    <3> HIDE DEF s
    <3> QED BY <2>0, <2>1, <2>2, OwedBy DEF Done
  <2>3. CASE Fail({s}, TRUE) /\ UNCHANGED moved
    <3> HIDE DEF s
    <3> QED BY <1>0, <2>1, <2>3, FailOwed, OwedKept DEF Recorded
  <2> QED BY <1>3, <2>2, <2>3 DEF LinkTarget
<1>4. CASE HandOut
  <2>1. Recorded' = Recorded
    BY <1>4 DEF HandOut, Recorded
  <2> QED BY <1>4, <2>1, OwedKept DEF HandOut
<1>5. CASE RemoveSource
  <2> PICK s \in removing :
          /\ removing' = removing \ {s}
          /\ \/ src' = src \ {s} /\ UNCHANGED outcome
             \/ Fail({s}, FALSE) /\ UNCHANGED src
    BY <1>5 DEF RemoveSource
  <2>1. phase' # "done" /\ src' \subseteq src /\ Recorded \subseteq Recorded' \cup {s}
    BY <1>5 DEF RemoveSource, Recorded
  <2>2. \A t \in src' : outcome'[t] \in {outcome[t], "failed"} /\ (t = s => outcome'[t] = "failed")
    BY <1>0 DEF Fail
  <2> QED BY <2>1, <2>2 DEF Owed, Done
<1>6. CASE RemoveDir
  <2>1. phase' # "done" /\ src' = src /\ Recorded' = Recorded
    BY <1>6, SamePlaces DEF RemoveDir
  <2>2. outcome' = outcome \/ Fail({}, FALSE)
    BY <1>6 DEF RemoveDir
  <2> QED BY <1>0, <2>1, <2>2, FailOwed, OwedKept
<1>7. CASE Decide \/ EndRemove
  <2>1. UNCHANGED <<src, outcome>> /\ Recorded' = Recorded /\ Halted' = Halted
    BY <1>7, SamePlaces DEF Decide, EndRemove, Halted
  <2>2. phase' = "done" /\ ~Halted => Recorded = {}
    BY <1>7 DEF Decide, EndRemove, Halted, Recorded
  <2> QED BY <2>1, <2>2 DEF Owed
<1>8. CASE Interrupt \/ WatchdogAbort \/ Finished \/ UNCHANGED vars
  <2>1. UNCHANGED <<src, outcome, phase>> /\ Recorded' = Recorded /\ (Halted => Halted')
    BY <1>8, SamePlaces DEF Interrupt, WatchdogAbort, Finished, Halted, vars
  <2> QED BY <2>1 DEF Owed
<1>9. CASE Rerun
  BY <1>0, <1>9 DEF Rerun, Owed, Done
<1>10. CASE LoseTarget \/ CloseRoot \/ EndWalk \/ JoinWorkers \/ SkipLink \/ RemoveLinkDst \/ MirrorRoot \/ EndMirror
  <2>1. phase' # "done" /\ UNCHANGED <<src, outcome, moved, removing>>
    BY <1>10 DEF LoseTarget, CloseRoot, EndWalk, JoinWorkers, SkipLink, RemoveLinkDst, MirrorRoot, EndMirror
  <2> QED BY <2>1, SamePlaces, OwedKept
<1>11. ASSUME NEW w \in Workers, WorkerStep(w) PROVE Owed'
  <2> DEFINE s == worker[w].src
  <2>1. phase' # "done" /\ UNCHANGED <<removing, src>>
    BY <1>11, WorkersEarly DEF WorkerStep, PopJob, CompareJob, CopyJob
  <2>2. \/ UNCHANGED <<outcome, moved>>
        \/ s \in Srcs /\ \/ \E o \in Done : outcome' = [outcome EXCEPT ![s] = o] /\ RecordMove(s)
                         \/ Fail({s}, TRUE) /\ UNCHANGED moved
    <3>1. worker[w].stage # "idle" => s \in Srcs
      BY DEF Types, StageType
    <3>2. CASE PopJob(w)
      BY <3>2 DEF PopJob
    <3>3. CASE CompareJob(w)
      BY <3>1, <3>3 DEF CompareJob, FinishUnchanged, Done
    <3>4. CASE CopyJob(w)
      BY <3>1, <3>4 DEF CopyJob, NoRoom, Done
    <3> QED BY <1>11, <3>2, <3>3, <3>4 DEF WorkerStep
  <2> HIDE DEF s
  <2>3. CASE UNCHANGED <<outcome, moved>>
    BY <2>1, <2>3, OwedKept DEF Recorded
  <2>4. CASE s \in Srcs /\ \E o \in Done : outcome' = [outcome EXCEPT ![s] = o] /\ RecordMove(s)
    BY <2>1, <2>4, OwedBy
  <2>5. CASE Fail({s}, TRUE) /\ UNCHANGED moved
    BY <1>0, <2>1, <2>5, FailOwed, OwedKept DEF Recorded
  <2> QED BY <2>2, <2>3, <2>4, <2>5
<1> QED BY <1>1, <1>2, <1>3, <1>4, <1>5, <1>6, <1>7, <1>8, <1>9, <1>10, <1>11 DEF Next, MainStep

\* A move that nobody halted and that counted no failure leaves no file in the
\* source: for any roots, and sources that share a destination or an inode.
THEOREM CleanMoveEmpties == Spec => []CleanMoveEmptiesSource
<1> DEFINE IInv == Types /\ Barriers /\ Followed /\ Owed
<1>1. Init => IInv
  <2>1. Init => Owed
    BY DEF Init, Owed, Done
  <2> QED BY <2>1, InitTypes, InitBarriers
<1>2. IInv /\ [Next]_vars => IInv'
  BY TypesStep, BarriersStep, FollowedStep, OwedStep
<1>3. IInv => CleanMoveEmptiesSource
  <2> SUFFICES ASSUME IInv, phase = "done", Move, ~Halted, ~walkErr, \A t \in Srcs : outcome[t] # "failed", NEW s \in src
               PROVE  FALSE
    BY DEF CleanMoveEmptiesSource
  <2>1. todo = {} /\ roots = <<>> /\ Queued = {} /\ Busy = {} /\ Linked = {}
    BY DEF Barriers, Followed
  <2>2. outcome[s] # "none"
    BY <2>1 DEF Followed, Unseen
  <2>3. s \in Srcs /\ outcome[s] \in Done
    BY <2>2 DEF Types, TypeOK, Outcomes, Done, Owed
  <2> QED BY <2>3 DEF Owed
<1> QED BY <1>1, <1>2, <1>3, PTL DEF Spec

-----------------------------------------------------------------------------
(* The mirror pass.                                                          *)

\* The failure of a root is counted, in the model, by its files.
NoEmptyRoot == \A r \in DOMAIN Under : IsDir(r) => RootFiles[r] # {}

\* Who has to do with the run goes on to have.
LEMMA GivenStep ==
    ASSUME Types, Barriers, RootsApart, Places, Counted, [Next]_vars, ~Rerun
    PROVE  Given \subseteq Given'
<1> SUFFICES ASSUME NEW s \in Given, s \notin src' PROVE s \in Srcs /\ outcome'[s] # "none"
  BY DEF Given
<1>0. s \in Srcs
  BY DEF Given, Types, TypeOK
<1>1. CASE outcome[s] # "none"
  BY <1>0, <1>1, OutcomeStep
<1>2. CASE s \in src /\ phase # "remove"
  BY <1>0, <1>2, SourcesStay
<1>3. CASE s \in src /\ phase = "remove"
  <2>1. RemoveSource
    <3>1. \A w \in Workers : ~WorkerStep(w)
      BY <1>3, WorkersEarly
    <3> QED BY <1>3, <3>1 DEF Next, MainStep, OpenRoot, LoseTarget, CloseRoot, Visit, EndWalk, JoinWorkers, SkipLink, RemoveLinkDst,
               LinkTarget, Decide, MirrorRoot, EndMirror, HandOut, RemoveDir, EndRemove, Interrupt, WatchdogAbort, Finished, vars
  <2>2. s \in removing
    BY <1>3, <2>1 DEF RemoveSource
  <2>3. outcome[s] # "none"
    BY <2>2 DEF Counted, Recorded
  <2> QED BY <1>0, <2>3, OutcomeStep
<1> QED BY <1>1, <1>2, <1>3 DEF Given

\* What comes to a free destination path comes from a source that is counted.
LEMMA NewAtDst ==
    ASSUME Types, [Next]_vars, NEW n \in Dsts, dst[n] = Absent, dst'[n] # Absent
    PROVE  \E s \in Srcs : DstOf[s] = n /\ outcome'[s] # "none"
<1>0. dst \in [Dsts -> Files] /\ TypeOK
  BY DEF Types
<1>1. CASE OpenRoot
  <2> DEFINE r == Head(roots)
             At(k) == CHOOSE t \in FilesLeft(r) : DstOf[t] = k
  <2>1. CASE RenameRoot(r)
    <3>1. dst'[n] = IF \E s \in FilesLeft(r) : DstOf[s] = n THEN Original(At(n)) ELSE dst[n]
      BY <2>1 DEF RenameRoot, RenameFiles
    <3>2. PICK s \in FilesLeft(r) : DstOf[s] = n
      BY <3>1
    <3>3. s \in Srcs /\ outcome'[s] = "renamed"
      BY <1>0, <2>1 DEF RenameRoot, RenameFiles, FilesLeft, TypeOK
    <3> QED BY <3>2, <3>3
  <2>2. CASE FailRoot(r) \/ FailVisit(r) \/ WalkRoot(r)
    BY <2>2 DEF FailRoot, FailVisit, WalkRoot, RecordRoot
  <2> QED BY <1>1, <2>1, <2>2 DEF OpenRoot
<1>2. CASE LinkTarget
  <2> DEFINE l == Head(links)
  <2>1. l.src \in Srcs
    BY <1>2, HeadLinked DEF LinkTarget
  <2>2. dst' = [dst EXCEPT ![DstOf[l.src]] = dst[l.target]] /\ outcome' = [outcome EXCEPT ![l.src] = "linked"]
    BY <1>2 DEF LinkTarget
  <2> HIDE DEF l
  <2>3. n = DstOf[l.src] /\ outcome'[l.src] # "none"
    BY <1>0, <2>1, <2>2 DEF TypeOK
  <2> QED BY <2>1, <2>3
<1>3. CASE RemoveLinkDst \/ MirrorRoot
  BY <1>0, <1>3 DEF RemoveLinkDst, MirrorRoot
<1>4. ASSUME NEW w \in Workers, WorkerStep(w) PROVE \E s \in Srcs : DstOf[s] = n /\ outcome'[s] # "none"
  <2> DEFINE s == worker[w].src
  <2>1. CopyJob(w)
    BY <1>4 DEF WorkerStep, PopJob, CompareJob
  <2>2. s \in Srcs
    BY <2>1 DEF CopyJob, Types, StageType
  <2>3. dst' = [dst EXCEPT ![DstOf[s]] = CopyOf(s)] /\ outcome' = [outcome EXCEPT ![s] = "copied"]
    <3>1. \/ dst' = dst \/ dst' = [dst EXCEPT ![DstOf[s]] = Absent]
          \/ dst' = [dst EXCEPT ![DstOf[s]] = CopyOf(s)] /\ outcome' = [outcome EXCEPT ![s] = "copied"]
      BY <2>1 DEF CopyJob, NoRoom, LosesOld
    <3> HIDE DEF s
    <3> QED BY <1>0, <3>1
  <2> HIDE DEF s
  <2>4. n = DstOf[s] /\ outcome'[s] # "none"
    BY <1>0, <2>2, <2>3 DEF TypeOK
  <2> QED BY <2>2, <2>4
<1>5. CASE \/ LoseTarget \/ CloseRoot \/ Visit \/ EndWalk \/ JoinWorkers \/ SkipLink \/ Decide \/ EndMirror \/ HandOut
           \/ RemoveSource \/ RemoveDir \/ EndRemove \/ Interrupt \/ WatchdogAbort \/ Finished \/ Rerun \/ UNCHANGED vars
  BY <1>5 DEF LoseTarget, CloseRoot, Visit, EndWalk, JoinWorkers, SkipLink, Decide, EndMirror, HandOut,
              RemoveSource, RemoveDir, EndRemove, Interrupt, WatchdogAbort, Finished, Rerun, vars
<1> QED BY <1>1, <1>2, <1>3, <1>4, <1>5 DEF Next, MainStep

\* The roots' destinations are apart: what is below one belongs to its files.
LEMMA OnlyGivenStep ==
    ASSUME Distinct, Types, Barriers, RootsApart, Places, Counted, [Next]_vars, ~Rerun,
           NEW r \in DOMAIN Under, OnlyGiven(r)
    PROVE  OnlyGiven(r)'
<1>1. undeleted \subseteq undeleted'
  <2>1. CASE MirrorRoot
    BY <2>1 DEF MirrorRoot
  <2>2. CASE ~MirrorRoot
    BY <2>2 DEF Next, MainStep, OpenRoot, LoseTarget, CloseRoot, Visit, EndWalk, JoinWorkers, SkipLink, RemoveLinkDst, LinkTarget, Decide,
                EndMirror, HandOut, RemoveSource, RemoveDir, EndRemove, Interrupt, WatchdogAbort, Finished, WorkerStep, PopJob, CompareJob, CopyJob, vars
  <2> QED BY <2>1, <2>2
<1>2. Given \subseteq Given'
  BY GivenStep
<1>3. ASSUME NEW n \in Under[r], dst'[n] # Absent PROVE n \in undeleted' \/ \E s \in RootFiles[r] \cap Given' : DstOf[s] = n
  <2>1. CASE dst[n] # Absent
    BY <1>1, <1>2, <2>1 DEF OnlyGiven
  <2>2. CASE dst[n] = Absent
    <3>1. n \in Dsts
      BY RootAssumption
    <3> PICK s \in Srcs : DstOf[s] = n /\ outcome'[s] # "none"
      BY <1>3, <2>2, <3>1, NewAtDst
    <3> QED BY DEF Distinct, Given
  <2> QED BY <2>1, <2>2
<1> QED BY <1>3 DEF OnlyGiven


\* A root goes from the walk to the mirror pass, unless it is renamed or fails.
LEMMA ToWalkStep ==
    ASSUME NoEmptyRoot, Types, Barriers, Exact, [Next]_vars, ~Rerun, Mirror, ~Halted, ~walkErr', ~Halted',
           NEW r \in DOMAIN Under, ToWalk(r)
    PROVE  ToWalk(r)' \/ ToMirror(r)' \/ HasFailed(r)' \/ OnlyGiven(r)'
<1>0. PICK k \in DOMAIN roots : roots[k] = r /\ (k # 1 \/ ~opened)
  BY DEF ToWalk
<1>t. /\ roots # <<>> /\ Head(roots) = roots[1] /\ Head(roots) \in DOMAIN RootFiles
      /\ k # 1 => k - 1 \in DOMAIN Tail(roots) /\ Tail(roots)[k - 1] = roots[k]
  <2>1. roots # <<>>
    BY <1>0
  <2> QED BY <1>0, <2>1, TailFacts DEF Types
<1>1. CASE OpenRoot
  <2> DEFINE h == Head(roots)
  <2>0. ~opened /\ undeleted' = undeleted
    BY <1>1 DEF OpenRoot
  <2>1. CASE k # 1
    <3>1. \/ roots' = Tail(roots) /\ opened' = opened
          \/ roots' = roots
      BY <1>1 DEF OpenRoot, RenameRoot, RenameFiles, FailRoot, FailVisit, WalkRoot, RecordRoot, NextRoot
    <3>2. ToWalk(r)'
      BY <1>0, <1>t, <2>0, <2>1, <3>1 DEF ToWalk
    <3> QED BY <3>2
  <2>2. CASE k = 1 /\ RenameRoot(h)
    <3>1. h = r
      BY <1>0, <1>t, <2>2
    <3>2. ASSUME NEW n \in Under[r], dst'[n] # Absent PROVE \E s \in RootFiles[r] \cap Given' : DstOf[s] = n
      <4>1. n \in Dsts /\ dst[n] = Absent
        BY <2>2, <3>1, RootAssumption DEF RenameRoot, RenameFiles
      <4>2. PICK s \in FilesLeft(r) : DstOf[s] = n
        BY <2>2, <3>1, <3>2, <4>1 DEF RenameRoot, RenameFiles
      <4>3. s \in Srcs /\ s \in RootFiles[r]
        BY <4>2 DEF FilesLeft, Types, TypeOK
      <4>4. outcome'[s] = "renamed"
        BY <2>2, <3>1, <4>2, <4>3 DEF RenameRoot, RenameFiles
      <4> QED BY <4>2, <4>3, <4>4 DEF Given
    <3> QED BY <3>2 DEF OnlyGiven
  <2>3. CASE k = 1 /\ FailRoot(h)
    <3>1. h = r
      BY <1>0, <1>t, <2>3
    <3>2. CASE IsDir(r)
      <4>1. PICK s \in RootFiles[r] : TRUE
        BY <3>2 DEF NoEmptyRoot
      <4>2. s \in Srcs
        BY RootAssumption DEF Srcs
      <4>3. outcome'[s] = "failed"
        BY <2>3, <3>1, <4>2 DEF FailRoot, FailVisit, RecordRoot, Fail
      <4> QED BY <4>3 DEF HasFailed
    <3>3. CASE ~IsDir(r)
      BY <3>3 DEF IsDir, OnlyGiven
    <3> QED BY <3>2, <3>3
  <2>4. CASE k = 1 /\ (WalkRoot(h) \/ FailVisit(h))
    <3>1. mirrorRoots' = Append(mirrorRoots, r) /\ mirrorRoots \in Seq(DOMAIN RootFiles)
      BY <1>0, <1>t, <2>4 DEF WalkRoot, FailVisit, RecordRoot, Types
    <3>2. \E l \in DOMAIN mirrorRoots' : mirrorRoots'[l] = r
      BY <1>0, <1>t, <2>4, <3>1, AppendFacts
    <3> QED BY <3>2 DEF ToMirror
  <2> QED BY <1>1, <2>1, <2>2, <2>3, <2>4 DEF OpenRoot
<1>2. CASE LoseTarget
  BY <1>2 DEF LoseTarget
<1>3. CASE CloseRoot
  <2>1. ToWalk(r)'
    BY <1>0, <1>t, <1>3 DEF CloseRoot, ToWalk
  <2> QED BY <2>1
<1>4. CASE \/ Visit \/ EndWalk \/ JoinWorkers \/ SkipLink \/ RemoveLinkDst \/ LinkTarget \/ Decide \/ MirrorRoot \/ EndMirror \/ HandOut
           \/ RemoveSource \/ RemoveDir \/ EndRemove \/ Interrupt \/ WatchdogAbort \/ Finished \/ UNCHANGED vars \/ \E w \in Workers : WorkerStep(w)
  <2>1. UNCHANGED <<roots, opened>>
    BY <1>4 DEF Visit, EndWalk, JoinWorkers, SkipLink, RemoveLinkDst, LinkTarget, Decide, MirrorRoot, EndMirror, HandOut, RemoveSource,
                RemoveDir, EndRemove, Interrupt, WatchdogAbort, Finished, WorkerStep, PopJob, CompareJob, CopyJob, vars, walkVars
  <2>2. ToWalk(r)'
    BY <1>0, <2>1 DEF ToWalk
  <2> QED BY <2>2
<1> QED BY <1>1, <1>2, <1>3, <1>4 DEF Next, MainStep

\* The mirror pass leaves what has a counterpart, and what it cannot delete.
LEMMA ToMirrorStep ==
    ASSUME Types, [Next]_vars, ~Rerun, NEW r \in DOMAIN Under, ToMirror(r)
    PROVE  ToMirror(r)' \/ OnlyGiven(r)'
<1>0. PICK k \in DOMAIN mirrorRoots : mirrorRoots[k] = r
  BY DEF ToMirror
<1>s. mirrorRoots \in Seq(DOMAIN RootFiles) /\ mirrorRoots # <<>> /\ dst \in [Dsts -> Files]
  BY <1>0 DEF Types
<1>1. CASE OpenRoot
  <2>1. mirrorRoots' = mirrorRoots \/ (mirrorRoots' = Append(mirrorRoots, Head(roots)) /\ Head(roots) \in DOMAIN RootFiles)
    BY <1>1, TailFacts DEF OpenRoot, RenameRoot, RenameFiles, FailRoot, FailVisit, WalkRoot, RecordRoot, Types
  <2>2. k \in DOMAIN mirrorRoots' /\ mirrorRoots'[k] = r
    BY <1>0, <1>s, <2>1, AppendFacts
  <2> QED BY <2>2 DEF ToMirror
<1>2. CASE MirrorRoot
  <2>1. CASE k # 1
    <3>1. k - 1 \in DOMAIN mirrorRoots' /\ mirrorRoots'[k - 1] = r
      BY <1>0, <1>2, <1>s, <2>1, TailFacts DEF MirrorRoot
    <3> QED BY <3>1 DEF ToMirror
  <2>2. CASE k = 1
    <3>1. Head(mirrorRoots) = r
      BY <1>0, <1>s, <2>2, TailFacts
    <3> DEFINE h == Head(mirrorRoots)
               Gone == {n \in Under[h] : dst[n] # Absent /\ Counterpart(h, n) \cap src = {}}
               Found == {n \in Under[h] : dst[n] # Absent /\ Counterpart(h, n) \cap src # {}}
    <3>a. PICK kept \in SUBSET (IF "delete" \in Faults THEN Gone ELSE {}), missed \in SUBSET (IF "lstat" \in Faults THEN Found ELSE {}) :
             /\ dst' = [n \in Dsts |-> IF n \in (Gone \ kept) \cup missed THEN Absent ELSE dst[n]]
             /\ undeleted' = undeleted \cup kept
      BY <1>2 DEF MirrorRoot
    <3> HIDE DEF Gone, Found
    <3>2. /\ \A n \in Dsts : n \in Gone => n \in undeleted' \/ dst'[n] = Absent
          /\ \A n \in Dsts : dst'[n] \in {Absent, dst[n]}
      BY <3>a
    <3> USE DEF Gone
    <3>3. ASSUME NEW n \in Under[r], dst'[n] # Absent, n \notin undeleted'
          PROVE  \E s \in RootFiles[r] \cap Given' : DstOf[s] = n
      <4>1. n \in Dsts
        BY RootAssumption
      <4>2. n \notin Gone
        BY <3>2, <3>3, <4>1
      <4>3. dst[n] # Absent
        BY <3>2, <3>3, <4>1, <4>2
      <4>4. PICK s \in src : s \in Counterpart(r, n)
        BY <3>1, <4>2, <4>3
      <4> QED BY <1>2, <4>4 DEF Counterpart, Given, MirrorRoot
    <3> QED BY <3>3 DEF OnlyGiven
  <2> QED BY <2>1, <2>2
<1>3. CASE \/ LoseTarget \/ CloseRoot \/ Visit \/ EndWalk \/ JoinWorkers \/ SkipLink \/ RemoveLinkDst \/ LinkTarget \/ Decide
           \/ EndMirror \/ HandOut \/ RemoveSource \/ RemoveDir \/ EndRemove \/ Interrupt \/ WatchdogAbort \/ Finished \/ UNCHANGED vars
           \/ \E w \in Workers : WorkerStep(w)
  <2>1. mirrorRoots' = mirrorRoots
    BY <1>3 DEF LoseTarget, CloseRoot, Visit, EndWalk, JoinWorkers, SkipLink, RemoveLinkDst, LinkTarget, Decide,
              EndMirror, HandOut, RemoveSource, RemoveDir, EndRemove, Interrupt, WatchdogAbort, Finished, WorkerStep, PopJob, CompareJob, CopyJob, vars, walkVars
  <2> QED BY <1>0, <2>1 DEF ToMirror
<1> QED BY <1>1, <1>2, <1>3 DEF Next, MainStep

\* A root that is being walked will be mirrored.
LEMMA OpenedStep ==
    ASSUME Types, Barriers, Exact, [Next]_vars, ~Rerun, opened', Mirror'
    PROVE  ToMirror(Head(roots))'
<1>r. run' = run
  BY DEF Next, MainStep, OpenRoot, LoseTarget, CloseRoot, Visit, EndWalk, JoinWorkers, SkipLink, RemoveLinkDst, LinkTarget, Decide,
         MirrorRoot, EndMirror, HandOut, RemoveSource, RemoveDir, EndRemove, Interrupt, WatchdogAbort, Finished, WorkerStep, PopJob, CompareJob, CopyJob, vars, runVars
<1>1. CASE OpenRoot
  <2> DEFINE h == Head(roots)
  <2>1. WalkRoot(h) /\ roots # <<>> /\ mirrorRoots \in Seq(DOMAIN RootFiles) /\ Mirror
    BY <1>1, <1>r DEF OpenRoot, RenameRoot, RenameFiles, FailRoot, FailVisit, RecordRoot, NextRoot, Types, Mirror
  <2>2. mirrorRoots' = Append(mirrorRoots, h) /\ Head(roots') = h /\ h \in DOMAIN RootFiles
    BY <2>1, TailFacts DEF WalkRoot, RecordRoot, Types
  <2> HIDE DEF h
  <2>3. \E l \in DOMAIN mirrorRoots' : mirrorRoots'[l] = h
    BY <2>1, <2>2, AppendFacts
  <2> QED BY <2>2, <2>3 DEF ToMirror
<1>2. CASE CloseRoot
  BY <1>2 DEF CloseRoot
<1>3. CASE MirrorRoot
  BY <1>3 DEF MirrorRoot, Barriers
<1>4. CASE \/ LoseTarget \/ Visit \/ EndWalk \/ JoinWorkers \/ SkipLink \/ RemoveLinkDst \/ LinkTarget \/ Decide
           \/ EndMirror \/ HandOut \/ RemoveSource \/ RemoveDir \/ EndRemove \/ Interrupt \/ WatchdogAbort \/ Finished \/ UNCHANGED vars
           \/ \E w \in Workers : WorkerStep(w)
  <2>1. ~LoseTarget
    BY DEF LoseTarget
  <2>2. UNCHANGED <<roots, opened, mirrorRoots>>
    BY <1>4, <2>1 DEF Visit, EndWalk, JoinWorkers, SkipLink, RemoveLinkDst, LinkTarget, Decide,
              EndMirror, HandOut, RemoveSource, RemoveDir, EndRemove, Interrupt, WatchdogAbort, Finished, WorkerStep, PopJob, CompareJob, CopyJob, vars, walkVars
  <2> QED BY <1>r, <2>2 DEF Exact, ToMirror, Mirror
<1> QED BY <1>1, <1>2, <1>3, <1>4 DEF Next, MainStep

LEMMA ExactStep ==
    ASSUME Distinct, NoEmptyRoot, Types, Barriers, RootsApart, Places, Counted, Exact, [Next]_vars
    PROVE  Exact'
<1>1. CASE Rerun
  <2>1. ~opened' /\ roots' = Roots
    BY <1>1 DEF Rerun
  <2>2. \A r \in DOMAIN Under : \E k \in DOMAIN roots' : roots'[k] = r
    BY <2>1, RootAssumption
  <2> QED BY <2>1, <2>2 DEF Exact, ToWalk
<1>2. CASE ~Rerun
  <2>1. opened' /\ Mirror' => ToMirror(Head(roots))'
    BY <1>2, OpenedStep
  <2>2. ASSUME Mirror', ~Halted', ~walkErr', NEW r \in DOMAIN Under
        PROVE  ToWalk(r)' \/ ToMirror(r)' \/ HasFailed(r)' \/ OnlyGiven(r)'
    <3>1. ~Halted /\ ~walkErr
      BY <1>2, <2>2, HaltStep DEF Halted
    <3>2. Mirror
      BY <1>2, <2>2 DEF Mirror, Next, MainStep, OpenRoot, LoseTarget, CloseRoot, Visit, EndWalk, JoinWorkers, SkipLink, RemoveLinkDst, LinkTarget,
               Decide, MirrorRoot, EndMirror, HandOut, RemoveSource, RemoveDir, EndRemove, Interrupt, WatchdogAbort, Finished, WorkerStep, PopJob,
               CompareJob, CopyJob, vars, runVars
    <3>3. CASE HasFailed(r)
      <4>1. RootFiles[r] \subseteq Srcs
        BY RootAssumption DEF Srcs
      <4>2. HasFailed(r)'
        BY <1>2, <3>3, <4>1, OutcomeStep DEF HasFailed
      <4> QED BY <4>2
    <3>4. CASE OnlyGiven(r)
      BY <1>2, <3>4, OnlyGivenStep
    <3>5. CASE ToMirror(r)
      BY <1>2, <3>5, ToMirrorStep
    <3>6. CASE ToWalk(r)
      BY <1>2, <2>2, <3>1, <3>2, <3>6, ToWalkStep
    <3> QED BY <3>1, <3>2, <3>3, <3>4, <3>5, <3>6 DEF Exact
  <2> QED BY <2>1, <2>2 DEF Exact
<1> QED BY <1>1, <1>2

Mirrored == Bookkeeping /\ Exact

\* After the mirror pass of any run, a root's destination has the files that the
\* run had to do with, what could not be deleted, and nothing else, unless one of
\* its files has failed.
THEOREM MirrorExact == ASSUME Distinct, NoEmptyRoot, "lstat" \notin Faults PROVE Spec => []MirrorIsExact
<1>1. Init => Mirrored
  <2> SUFFICES ASSUME Init PROVE Mirrored
    OBVIOUS
  <2>1. \A r \in DOMAIN Under : \E k \in DOMAIN Roots : Roots[k] = r
    BY RootAssumption
  <2>2. ~opened /\ roots = Roots
    BY DEF Init
  <2>3. Exact
    BY <2>1, <2>2 DEF Exact, ToWalk
  <2> QED BY <2>3, InitBookkeeping DEF Mirrored
<1>2. Mirrored /\ [Next]_vars => Mirrored'
  BY BookkeepingStep, ExactStep DEF Mirrored, Bookkeeping
<1>3. Mirrored => MirrorIsExact
  <2> SUFFICES ASSUME Mirrored, phase = "remove", Mirror, ~Halted, ~walkErr,
                      NEW r \in DOMAIN Under, \A s \in RootFiles[r] : outcome[s] # "failed"
               PROVE  {n \in Under[r] : dst[n] # Absent} \ undeleted
                          = (Under[r] \cap {DstOf[s] : s \in RootFiles[r] \cap Given}) \ undeleted
    BY DEF MirrorIsExact
  <2>1. roots = <<>> /\ \A s \in Given : s \in Srcs /\ outcome[s] # "none"
    BY AllCounted DEF Mirrored
  <2>2. mirrorRoots = <<>>
    BY DEF Mirrored, Bookkeeping, Barriers
  <2>3. OnlyGiven(r)
    BY <2>1, <2>2 DEF Mirrored, Exact, ToWalk, ToMirror, HasFailed
  <2>4. ASSUME NEW s \in RootFiles[r] \cap Given PROVE dst[DstOf[s]] # Absent
    <3>1. outcome[s] \in Done \cup {"renamed"}
      BY <2>1 DEF Mirrored, Bookkeeping, Types, TypeOK, Outcomes, Done
    <3> QED BY <2>1, <3>1 DEF Mirrored, Bookkeeping, Counted
  <2> QED BY <2>3, <2>4 DEF OnlyGiven
<1> QED BY <1>1, <1>2, <1>3, PTL DEF Spec


=============================================================================
