--------------------------- MODULE DirMetaProofs ---------------------------
(***************************************************************************)
(* Proofs about DirMeta, for every source tree, any number of workers and  *)
(* every schedule.                                                         *)
(***************************************************************************)
EXTENDS DirMeta, FiniteSetTheorems, TLAPS

-----------------------------------------------------------------------------
(* The inductive invariant, in parts.                                       *)

\* Where each goroutine can be in each phase, and what it holds there.
Control ==
    /\ phase = "walk" =>
          pc[Main] \in {"loop", "visit", "list", "enqueue", "store", "chkPending", "cas", "push"}
    /\ phase = "links" => pc[Main] \in {"loop", "dec", "chkClosed", "cas", "push"}
    /\ phase \in {"drain", "meta", "done"} => pc[Main] = "loop"
    /\ phase # "walk" => cur = Top
    /\ phase = "walk" /\ pc[Main] \in {"store", "chkPending", "cas", "push"} => cur \in Dirs
    /\ pc[Main] \in {"visit", "list", "enqueue"} =>
          held[Main] \in Entries /\ ParentOf[held[Main]] = cur
    /\ \A d \in Dirs \cup {Top} : \A e \in left[d] : ParentOf[e] = d
    /\ pc[Main] = "enqueue" => held[Main] \in Files
    /\ pc[Main] = "list" => held[Main] \in Dirs
    /\ phase = "links" /\ pc[Main] # "loop" => held[Main] \in Links
    /\ \A w \in Workers :
          /\ pc[w] \in {"idle", "copy", "dec", "chkClosed", "cas", "push"}
          /\ pc[w] # "idle" => held[w] \in Files
    /\ \A p \in Procs : pc[p] \in {"chkClosed", "cas", "push"} => DirOf(p) \in Dirs

\* What each barrier of Run leaves behind.
Barriers ==
    /\ phase \in {"links", "meta", "done"} =>
          jobs = {} /\ \A w \in Workers : pc[w] = "idle"
    /\ phase \in {"meta", "done"} => hardlinks = {}
    /\ phase = "done" => metaq = {} /\ \A m \in MetaWorkers : mheld[m] = None

\* An owed entry is in one place only, and an entry still to be visited is in none.
Places ==
    /\ \A d \in Dirs \cup {Top} : \A e \in left[d] :
          /\ e \notin AllOwed
          /\ pc[Main] = "visit" => held[Main] # e
    /\ pc[Main] = "visit" => held[Main] \notin AllOwed
    /\ \A p \in Procs : pc[p] \in Owing =>
          /\ held[p] \notin jobs \cup hardlinks
          /\ \A q \in Procs : pc[q] \in Owing /\ held[q] = held[p] => q = p

\* A directory still to be visited is not recorded yet.
Fresh ==
    /\ \A d \in Dirs \cup {Top} : left[d] \cap recorded = {}
    /\ pc[Main] \in {"visit", "list"} => held[Main] \notin recorded
    /\ \A d \in Dirs \cup {Top} : \A e \in left[d] :
          pc[Main] \in {"visit", "list"} => held[Main] # e

\* The directories the walk has entered and not closed are its stack.
Closing == phase = "walk" /\ pc[Main] \in {"chkPending", "cas", "push"}
Stack ==
    /\ {d \in recorded : ~closed[d]} = Anc[cur] \ (IF Closing THEN {cur} ELSE {})
    /\ \A d \in Dirs : closed[d] => d \in recorded
    /\ \A d \in Dirs : queued[d] => closed[d]
    /\ \A p \in Procs : pc[p] \in {"chkPending", "cas", "push"} => closed[DirOf(p)]

\* A closed directory that owes nothing is queued, or some goroutine that
\* saw its counter at zero is about to look.
Responsible ==
    \A d \in Dirs : closed[d] /\ pending[d] = 0 /\ ~queued[d] =>
        \E p \in Procs : pc[p] \in {"chkPending", "chkClosed", "cas"} /\ DirOf(p) = d

\* A directory that is queued has its metadata applied, or is on the way there.
OnTheWay ==
    \A d \in Dirs : queued[d] =>
        \/ d \in metaq \cup applied
        \/ \E p \in Procs : pc[p] = "push" /\ DirOf(p) = d
        \/ \E m \in MetaWorkers : mheld[m] = d

\* It is in one of those places only, and none holds a directory that is not queued.
OnceOnTheWay ==
    /\ \A d \in metaq : queued[d] /\ d \notin applied /\ \A m \in MetaWorkers : mheld[m] # d
    /\ \A d \in applied : queued[d] /\ \A m \in MetaWorkers : mheld[m] # d
    /\ \A m \in MetaWorkers : mheld[m] # None =>
          /\ queued[mheld[m]]
          /\ \A n \in MetaWorkers : mheld[n] = mheld[m] => n = m
    /\ \A p \in Procs : pc[p] = "push" =>
          /\ queued[DirOf(p)] /\ DirOf(p) \notin metaq \cup applied
          /\ \A m \in MetaWorkers : mheld[m] # DirOf(p)
          /\ \A q \in Procs : pc[q] = "push" /\ DirOf(q) = DirOf(p) => q = p

-----------------------------------------------------------------------------
(* Type correctness.                                                        *)

LEMMA InitType == Init => TypeOK
<1> SUFFICES ASSUME Init PROVE TypeOK OBVIOUS
<1>1. phase \in {"walk", "drain", "links", "meta", "done"} /\ cur \in Dirs \cup {Top}
  BY DEF Init
<1>2. left \in [Dirs \cup {Top} -> SUBSET Entries]
  BY DEF Init
<1>3. pc \in [Procs -> PCs]
  BY DEF Init, PCs
<1>4. held \in [Procs -> Entries \cup {None}]
  BY DEF Init
<1>5. /\ jobs \subseteq Files /\ hardlinks \subseteq Links /\ recorded \subseteq Dirs
      /\ pending \in [Dirs -> Int]
      /\ closed \in [Dirs -> BOOLEAN] /\ queued \in [Dirs -> BOOLEAN]
  BY DEF Init
<1>6. /\ metaq \subseteq Dirs /\ mheld \in [MetaWorkers -> Dirs \cup {None}]
      /\ applied \subseteq Dirs /\ drifted \subseteq applied /\ ran \subseteq Deferred
      /\ aborted \in BOOLEAN /\ cancelled \in BOOLEAN
  BY DEF Init
<1> QED BY <1>1, <1>2, <1>3, <1>4, <1>5, <1>6 DEF TypeOK

\* p returns from dirmeta.go.
LEMMA ReturnType ==
  ASSUME TypeOK, NEW p \in Procs, Return(p),
         p = Main /\ phase = "walk" => cur \in Dirs
  PROVE  /\ pc' \in [Procs -> PCs] /\ held' \in [Procs -> Entries \cup {None}]
         /\ phase' = phase /\ left' = left
         /\ cur' \in Dirs \cup {Top}
<1>1. \A d \in Dirs : ParentOf[d] \in Dirs \cup {Top}
  BY TreeAssumption DEF Entries
<1> QED BY <1>1 DEF TypeOK, Return, Goto, Drop, PCs

\* Who is discounting, and from which directory.
LEMMA DecFacts ==
  ASSUME Control, NEW p \in Procs, pc[p] = "dec",
         phase \in {"walk", "drain", "links", "meta", "done"}
  PROVE  /\ held[p] \in Deferred /\ DirOf(p) = ParentOf[held[p]]
         /\ DirOf(p) \in Dirs \cup {Top}
         /\ p = Main => phase = "links"
<1>1. p = Main => phase = "links" /\ held[p] \in Links
  BY DEF Control
<1>2. p \in Workers => held[p] \in Files
  BY DEF Control
<1>3. held[p] \in Deferred /\ DirOf(p) = ParentOf[held[p]]
  BY <1>1, <1>2 DEF Procs, Deferred, DirOf
<1> QED BY <1>1, <1>3, TreeAssumption DEF Entries, Deferred

LEMMA DirStepType ==
  ASSUME TypeOK, Control, NEW p \in Procs, DirSteps(p)
  PROVE  TypeOK'
<1>1. CASE DecPending(p)
  <2>1. p = Main /\ phase = "walk" => cur \in Dirs
    BY <1>1 DEF DecPending, Control
  <2>2. CASE Return(p) /\ UNCHANGED pending
    BY <1>1, <2>1, <2>2, ReturnType DEF DecPending, TypeOK, metaVars
  <2>3. CASE /\ DirOf(p) # Top
             /\ pending' = [pending EXCEPT ![DirOf(p)] = @ - 1]
    <3>0. DirOf(p) \in Dirs
      BY <1>1, <2>3, DecFacts DEF DecPending, TypeOK
    <3>1. pending' \in [Dirs -> Int]
      BY <2>3, <3>0 DEF TypeOK
    <3>2. CASE Return(p)
      BY <1>1, <2>1, <3>1, <3>2, ReturnType DEF DecPending, TypeOK, metaVars
    <3>3. CASE Goto(p, "chkClosed") /\ UNCHANGED <<held, mainVars>>
      BY <1>1, <3>1, <3>3 DEF DecPending, TypeOK, metaVars, mainVars, Goto, PCs
    <3> QED BY <1>1, <2>3, <3>2, <3>3 DEF DecPending
  <2> QED BY <1>1, <2>2, <2>3 DEF DecPending
<1>2. CASE CheckClosed(p)
  BY <1>2, ReturnType DEF CheckClosed, Control, TypeOK, Goto, PCs, mainVars, metaVars, stateVars
<1>3. CASE SwapQueued(p)
  BY <1>3, ReturnType DEF SwapQueued, Control, TypeOK, Goto, PCs, mainVars, metaVars
<1>4. CASE PushMeta(p)
  BY <1>4, ReturnType DEF PushMeta, Control, TypeOK, Goto, PCs, mainVars, stateVars
<1> QED BY <1>1, <1>2, <1>3, <1>4 DEF DirSteps

\* Every step of the run preserves the types.
LEMMA NextType ==
  ASSUME TypeOK, Control, [Next]_vars
  PROVE  TypeOK'
<1> USE DEF mainVars, metaVars, stateVars
<1>1. CASE PickEntry
  BY <1>1 DEF PickEntry, TypeOK, Goto, PCs, Procs
<1>2. CASE VisitOther
  BY <1>2 DEF VisitOther, TypeOK, Visiting, ToLoop, Drop, Touch, Goto, PCs, MayFail, Fail
<1>3. CASE CountFile
  <2>1. pending' \in [Dirs -> Int]
    BY <1>3 DEF CountFile, AddDirWork, TypeOK
  <2> QED BY <1>3, <2>1 DEF CountFile, TypeOK, Goto, PCs
<1>4. CASE PushJob
  BY <1>4 DEF PushJob, Control, TypeOK, ToLoop, Drop, Goto, PCs
<1>5. CASE VisitLink
  <2>1. pending' \in [Dirs -> Int]
    BY <1>5 DEF VisitLink, AddDirWork, TypeOK
  <2> QED BY <1>5, <2>1 DEF VisitLink, Visiting, TypeOK, ToLoop, Drop, Goto, PCs
<1>6. CASE MakeDir
  BY <1>6 DEF MakeDir, TypeOK, Touch, ToLoop, Drop, Goto, PCs, Fail
<1>7. CASE ListFails
  BY <1>7 DEF ListFails, TypeOK, ToLoop, Drop, Goto, PCs, Fail
<1>8. CASE EnterDir
  BY <1>8 DEF EnterDir, Control, TypeOK, ToLoop, Drop, Goto, PCs
<1>9. CASE LeaveDir
  BY <1>9 DEF LeaveDir, TypeOK, Goto, PCs
<1>10. CASE StoreClosed
  BY <1>10 DEF StoreClosed, TypeOK, Goto, PCs
<1>11. CASE CheckPending
  BY <1>11, ReturnType DEF CheckPending, Control, TypeOK, Goto, PCs, Procs
<1>12. CASE EndWalk
  BY <1>12 DEF EndWalk, TypeOK
<1>13. CASE \E p \in Procs : DirSteps(p)
  BY <1>13, DirStepType
<1>14. CASE JoinWorkers \/ CloseMeta \/ JoinMeta
  BY <1>14 DEF JoinWorkers, CloseMeta, JoinMeta, TypeOK
<1>15. CASE ApplyHardlink
  BY <1>15 DEF ApplyHardlink, TypeOK, Touch, Goto, PCs, MayFail, Fail, Entries, Deferred
<1>16. ASSUME NEW w \in Workers, PopJob(w) \/ CopyOne(w) PROVE TypeOK'
  BY <1>16 DEF PopJob, CopyOne, Control, TypeOK, Touch, Goto, PCs, Procs, MayFail, Fail, Entries, Deferred
<1>17. ASSUME NEW m \in MetaWorkers, PopMeta(m) \/ ApplyMeta(m) PROVE TypeOK'
  BY <1>17 DEF PopMeta, ApplyMeta, TypeOK
<1>18. CASE Interrupt \/ WatchdogAbort \/ UNCHANGED vars
  BY <1>18 DEF Interrupt, WatchdogAbort, TypeOK, vars
<1> QED
  BY <1>1, <1>2, <1>3, <1>4, <1>5, <1>6, <1>7, <1>8, <1>9, <1>10, <1>11, <1>12, <1>13,
     <1>14, <1>15, <1>16, <1>17, <1>18
     DEF Next, MainStep, Walk, WorkerStep, MetaStep, Finished, Procs

-----------------------------------------------------------------------------
(* Control and barriers.                                                    *)

LEMMA InitControl == Init => Control /\ Barriers
  BY ProcAssumption DEF Init, Control, Barriers, Procs, DirOf

\* dirmeta.go leaves p where it may be, and the others where they are.
LEMMA DirStepControl ==
  ASSUME TypeOK, Control, NEW p \in Procs, DirSteps(p)
  PROVE  Control'
<1> USE DEF mainVars, metaVars, stateVars
<1>1. CASE p = Main
  <2>1. Main \notin Workers BY ProcAssumption
  <2>2. CASE pc[p] \in {"dec", "chkClosed"}
    <3>1. phase = "links"
      BY <1>1, <2>2 DEF Control, TypeOK
    <3> QED BY <1>1, <2>1, <2>2, <3>1, DecFacts
      DEF DirSteps, DecPending, CheckClosed, SwapQueued, PushMeta, Return, Goto, Drop, Control, TypeOK, DirOf, Procs
  <2>3. CASE pc[p] \in {"cas", "push"}
    BY <1>1, <2>1, <2>3
      DEF DirSteps, DecPending, CheckClosed, SwapQueued, PushMeta, Return, Goto, Drop, Control, TypeOK, DirOf, Procs
  <2> QED BY <2>2, <2>3 DEF DirSteps, DecPending, CheckClosed, SwapQueued, PushMeta
<1>2. CASE p \in Workers
  <2>1. p # Main BY <1>2, ProcAssumption
  <2>2. CASE DecPending(p)
    BY <1>2, <2>1, <2>2, DecFacts DEF DecPending, Return, Goto, Drop, Control, TypeOK, DirOf, Procs
  <2>3. CASE CheckClosed(p) \/ SwapQueued(p) \/ PushMeta(p)
    BY <1>2, <2>1, <2>3
      DEF CheckClosed, SwapQueued, PushMeta, Return, Goto, Drop, Control, TypeOK, DirOf, Procs
  <2> QED BY <2>2, <2>3 DEF DirSteps
<1> QED BY <1>1, <1>2 DEF Procs


LEMMA NextControl ==
  ASSUME TypeOK, Control, Barriers, [Next]_vars
  PROVE  Control'
<1> USE DEF mainVars, metaVars, stateVars
<1>0. Main \notin Workers BY ProcAssumption
<1>1. CASE PickEntry
  BY <1>0, <1>1 DEF PickEntry, Control, TypeOK, Goto, DirOf, Procs
<1>2. CASE VisitOther
  BY <1>0, <1>2 DEF VisitOther, Control, TypeOK, Visiting, ToLoop, Drop, Goto, DirOf, Procs
<1>3. CASE CountFile
  BY <1>0, <1>3 DEF CountFile, Visiting, Control, TypeOK, Goto, DirOf, Procs
<1>4. CASE PushJob
  BY <1>0, <1>4 DEF PushJob, Control, TypeOK, ToLoop, Drop, Goto, DirOf, Procs
<1>5. CASE VisitLink
  BY <1>0, <1>5 DEF VisitLink, Visiting, Control, TypeOK, ToLoop, Drop, Goto, DirOf, Procs
<1>6. CASE MakeDir
  BY <1>0, <1>6 DEF MakeDir, Visiting, Control, TypeOK, ToLoop, Drop, Goto, DirOf, Procs
<1>7. CASE ListFails
  BY <1>0, <1>7 DEF ListFails, Control, TypeOK, ToLoop, Drop, Goto, DirOf, Procs
<1>8. CASE EnterDir
  BY <1>0, <1>8 DEF EnterDir, Control, TypeOK, ToLoop, Drop, Goto, DirOf, Procs
<1>9. CASE LeaveDir
  BY <1>0, <1>9 DEF LeaveDir, Control, TypeOK, Goto, DirOf, Procs
<1>10. CASE StoreClosed
  BY <1>0, <1>10 DEF StoreClosed, Control, TypeOK, Goto, DirOf, Procs
<1>11. CASE CheckPending
  BY <1>0, <1>11 DEF CheckPending, Return, Control, TypeOK, Drop, Goto, DirOf, Procs
<1>12. CASE EndWalk
  BY <1>0, <1>12 DEF EndWalk, Control, TypeOK, DirOf, Procs
<1>13. CASE \E p \in Procs : DirSteps(p)
  BY <1>13, DirStepControl
<1>14. CASE JoinWorkers \/ CloseMeta \/ JoinMeta
  BY <1>0, <1>14 DEF JoinWorkers, CloseMeta, JoinMeta, Control, Barriers, TypeOK, DirOf, Procs
<1>15. CASE ApplyHardlink
  BY <1>0, <1>15 DEF ApplyHardlink, Control, TypeOK, Goto, DirOf, Procs
<1>16. ASSUME NEW w \in Workers, PopJob(w) \/ CopyOne(w) PROVE Control'
  BY <1>0, <1>16 DEF PopJob, CopyOne, Control, TypeOK, Goto, DirOf, Procs
<1>17. ASSUME NEW m \in MetaWorkers, PopMeta(m) \/ ApplyMeta(m) PROVE Control'
  BY <1>17 DEF PopMeta, ApplyMeta, Control, DirOf, Procs
<1>18. CASE Interrupt \/ WatchdogAbort \/ UNCHANGED vars
  BY <1>18 DEF Interrupt, WatchdogAbort, Control, DirOf, Procs, vars
<1> QED
  BY <1>1, <1>2, <1>3, <1>4, <1>5, <1>6, <1>7, <1>8, <1>9, <1>10, <1>11, <1>12, <1>13,
     <1>14, <1>15, <1>16, <1>17, <1>18
     DEF Next, MainStep, Walk, WorkerStep, MetaStep, Finished, Procs

LEMMA NextBarriers ==
  ASSUME TypeOK, Control, Barriers, [Next]_vars
  PROVE  Barriers'
<1> USE DEF mainVars, metaVars, stateVars, Barriers
<1>0. Main \notin Workers BY ProcAssumption
<1>1. CASE Walk
  BY <1>0, <1>1 DEF Walk, PickEntry, VisitOther, CountFile, PushJob, VisitLink, MakeDir, ListFails,
     EnterDir, LeaveDir, StoreClosed, CheckPending, EndWalk, Visiting, ToLoop, Return, Goto, Control, TypeOK
<1>2. ASSUME NEW p \in Procs, DirSteps(p) PROVE Barriers'
  <2>1. p \in Workers => phase \in {"walk", "drain"}
    BY <1>2 DEF DirSteps, DecPending, CheckClosed, SwapQueued, PushMeta, TypeOK
  <2>2. p = Main => phase \in {"walk", "links"}
    BY <1>2 DEF DirSteps, DecPending, CheckClosed, SwapQueued, PushMeta, TypeOK, Control
  <2> QED BY <1>0, <1>2, <2>1, <2>2
    DEF DirSteps, DecPending, CheckClosed, SwapQueued, PushMeta, Return, Goto, TypeOK, Procs
<1>3. CASE JoinWorkers \/ CloseMeta \/ JoinMeta
  BY <1>3 DEF JoinWorkers, CloseMeta, JoinMeta
<1>7. CASE ApplyHardlink
  BY <1>0, <1>7 DEF ApplyHardlink, Goto, TypeOK
<1>4. ASSUME NEW w \in Workers, PopJob(w) \/ CopyOne(w) PROVE Barriers'
  BY <1>4 DEF PopJob, CopyOne, TypeOK, Goto
<1>5. ASSUME NEW m \in MetaWorkers, PopMeta(m) \/ ApplyMeta(m) PROVE Barriers'
  BY <1>5 DEF PopMeta, ApplyMeta, TypeOK
<1>6. CASE Interrupt \/ WatchdogAbort \/ UNCHANGED vars
  BY <1>6 DEF Interrupt, WatchdogAbort, vars
<1> QED
  BY <1>1, <1>2, <1>3, <1>4, <1>5, <1>6, <1>7 DEF Next, MainStep, WorkerStep, MetaStep, Finished, Procs

-----------------------------------------------------------------------------
(* Which entries are owed, and where they are.                              *)

LEMMA OwedMember ==
  ASSUME NEW e
  PROVE  e \in AllOwed <=> \/ e \in jobs \cup hardlinks
                           \/ \E p \in Procs : pc[p] \in Owing /\ held[p] = e
  BY DEF AllOwed

LEMMA OwedMemberNext ==
  ASSUME NEW e
  PROVE  e \in AllOwed' <=> \/ e \in jobs' \cup hardlinks'
                            \/ \E p \in Procs : pc'[p] \in Owing /\ held'[p] = e
  BY DEF AllOwed

LEMMA OwedDeferred ==
  ASSUME TypeOK, Control, Places
  PROVE  AllOwed \subseteq Deferred
<1>1. ASSUME NEW p \in Procs, pc[p] \in Owing PROVE held[p] \in Deferred
  BY <1>1, DecFacts DEF Owing, Control, Procs, Deferred, TypeOK
<1> QED BY <1>1, OwedMember DEF TypeOK, Deferred

\* An entry becomes owed when it is counted, and stops when it is discounted.
LEMMA OwedCount ==
  ASSUME TypeOK, Control, CountFile
  PROVE  AllOwed' = AllOwed \cup {held[Main]}
<1>1. Main \in Procs /\ pc'[Main] \in Owing /\ pc[Main] \notin Owing
  BY DEF CountFile, Visiting, Goto, TypeOK, Procs, Owing
<1>2. \A p \in Procs \ {Main} : pc'[p] = pc[p]
  BY DEF CountFile, Goto, TypeOK
<1> QED BY <1>1, <1>2 DEF CountFile, AllOwed

LEMMA OwedLink ==
  ASSUME TypeOK, Control, VisitLink
  PROVE  \/ AllOwed' = AllOwed /\ pending' = pending /\ hardlinks' = hardlinks
         \/ /\ AllOwed' = AllOwed \cup {held[Main]} /\ AddDirWork(cur)
            /\ hardlinks' = hardlinks \cup {held[Main]}
<1>1. pc'[Main] \notin Owing /\ pc[Main] \notin Owing
  BY DEF VisitLink, Visiting, ToLoop, Goto, TypeOK, Procs, Owing
<1>2. \A p \in Procs \ {Main} : pc'[p] = pc[p] /\ held'[p] = held[p]
  BY DEF VisitLink, ToLoop, Goto, Drop, TypeOK
<1>3. {held'[p] : p \in {q \in Procs : pc'[q] \in Owing}} = {held[p] : p \in {q \in Procs : pc[q] \in Owing}}
  BY <1>1, <1>2
<1> QED BY <1>3 DEF VisitLink, AllOwed

LEMMA OwedDec ==
  ASSUME TypeOK, Control, Places, NEW p \in Procs, DecPending(p)
  PROVE  AllOwed' = AllOwed \ {held[p]}
<1>1. pc'[p] \notin Owing /\ pc[p] = "dec" /\ jobs' = jobs /\ hardlinks' = hardlinks
  BY DEF DecPending, Return, Goto, TypeOK, Owing
<1>2. \A q \in Procs \ {p} : pc'[q] = pc[q] /\ held'[q] = held[q]
  BY DEF DecPending, Return, Goto, Drop, TypeOK
<1>3. held[p] \notin jobs \cup hardlinks /\ \A q \in Procs : pc[q] \in Owing /\ held[q] = held[p] => q = p
  BY <1>1 DEF Places, Owing
<1>4. \A e : e \in AllOwed' <=> e \in AllOwed /\ e # held[p]
  BY <1>1, <1>2, <1>3, OwedMember, OwedMemberNext DEF Owing
<1> QED BY <1>4

LEMMA OwedMoves ==
  ASSUME TypeOK, Control,
         PushJob \/ ApplyHardlink \/ (\E w \in Workers : PopJob(w) \/ CopyOne(w))
  PROVE  AllOwed' = AllOwed
<1>0. Main \notin Workers BY ProcAssumption
<1>1. CASE PushJob
  <2>1. pc[Main] \in Owing /\ pc'[Main] \notin Owing /\ jobs' = jobs \cup {held[Main]} /\ hardlinks' = hardlinks
    BY <1>1 DEF PushJob, ToLoop, Goto, TypeOK, Procs, Owing
  <2>2. \A q \in Procs \ {Main} : pc'[q] = pc[q] /\ held'[q] = held[q]
    BY <1>1 DEF PushJob, ToLoop, Goto, Drop, TypeOK
  <2>3. \A e : e \in AllOwed' <=> e \in AllOwed
    BY <2>1, <2>2, OwedMember, OwedMemberNext DEF Procs
  <2> QED BY <2>3
<1>2. CASE ApplyHardlink
  <2>1. PICK l \in hardlinks : hardlinks' = hardlinks \ {l} /\ held' = [held EXCEPT ![Main] = l]
    BY <1>2 DEF ApplyHardlink
  <2>2. pc[Main] \notin Owing /\ pc'[Main] \in Owing /\ held'[Main] = l /\ jobs' = jobs
    BY <1>2, <2>1 DEF ApplyHardlink, Goto, TypeOK, Procs, Owing
  <2>3. \A q \in Procs \ {Main} : pc'[q] = pc[q] /\ held'[q] = held[q]
    BY <1>2, <2>1 DEF ApplyHardlink, Goto, TypeOK
  <2>4. \A e : e \in AllOwed' <=> e \in AllOwed
    BY <2>1, <2>2, <2>3, OwedMember, OwedMemberNext DEF Procs
  <2> QED BY <2>4
<1>3. ASSUME NEW w \in Workers, PopJob(w) PROVE AllOwed' = AllOwed
  <2>1. PICK j \in jobs : jobs' = jobs \ {j} /\ held' = [held EXCEPT ![w] = j]
    BY <1>3 DEF PopJob
  <2>2. pc[w] \notin Owing /\ pc'[w] \in Owing /\ held'[w] = j /\ hardlinks' = hardlinks
    BY <1>3, <2>1 DEF PopJob, Goto, TypeOK, Procs, Owing
  <2>3. \A q \in Procs \ {w} : pc'[q] = pc[q] /\ held'[q] = held[q]
    BY <1>3, <2>1 DEF PopJob, Goto, TypeOK
  <2>4. \A e : e \in AllOwed' <=> e \in AllOwed
    BY <2>1, <2>2, <2>3, OwedMember, OwedMemberNext DEF Procs
  <2> QED BY <2>4
<1>4. ASSUME NEW w \in Workers, CopyOne(w) PROVE AllOwed' = AllOwed
  <2>1. pc[w] \in Owing /\ pc'[w] \in Owing /\ held' = held /\ hardlinks' = hardlinks /\ jobs' = jobs
    BY <1>4 DEF CopyOne, Goto, TypeOK, Procs, Owing
  <2>2. \A q \in Procs \ {w} : pc'[q] = pc[q]
    BY <1>4 DEF CopyOne, Goto, TypeOK
  <2> QED BY <2>1, <2>2 DEF AllOwed
<1> QED BY <1>1, <1>2, <1>3, <1>4

\* Every other step leaves the owed entries and the counters alone.
OwedSteps == \/ CountFile \/ VisitLink \/ PushJob \/ ApplyHardlink
             \/ \E p \in Procs : DecPending(p)
             \/ \E w \in Workers : PopJob(w) \/ CopyOne(w)

LEMMA OwedRest ==
  ASSUME TypeOK, Control, [Next]_vars, ~OwedSteps
  PROVE  /\ AllOwed' = AllOwed /\ pending' = pending
         /\ jobs' = jobs /\ hardlinks' = hardlinks
         /\ \A p \in Procs : pc'[p] \in Owing <=> pc[p] \in Owing
         /\ \A p \in Procs : pc[p] \in Owing => held'[p] = held[p]
<1> USE DEF mainVars, metaVars, stateVars, Owing
<1>1. /\ pending' = pending
      /\ jobs' = jobs /\ hardlinks' = hardlinks
      /\ \A p \in Procs : pc'[p] \in Owing <=> pc[p] \in Owing
      /\ \A p \in Procs : pc[p] \in Owing => held'[p] = held[p]
  <2>1. CASE PickEntry \/ VisitOther \/ MakeDir \/ ListFails \/ EnterDir \/ LeaveDir \/ StoreClosed \/ EndWalk
    BY <2>1 DEF PickEntry, VisitOther, MakeDir, ListFails, EnterDir, LeaveDir, StoreClosed, EndWalk,
         Visiting, ToLoop, Goto, Drop, TypeOK
  <2>2. CASE CheckPending \/ \E p \in Procs : CheckClosed(p) \/ SwapQueued(p) \/ PushMeta(p)
    BY <2>2, ProcAssumption DEF CheckPending, CheckClosed, SwapQueued, PushMeta, Return, Goto, Drop, TypeOK, Procs
  <2>3. CASE JoinWorkers \/ CloseMeta \/ JoinMeta \/ Interrupt \/ WatchdogAbort \/ UNCHANGED vars
    BY <2>3 DEF JoinWorkers, CloseMeta, JoinMeta, Interrupt, WatchdogAbort, vars
  <2>4. ASSUME NEW m \in MetaWorkers, MetaStep(m)
        PROVE  UNCHANGED <<pending, jobs, hardlinks, pc, held>>
    BY <2>4 DEF MetaStep, PopMeta, ApplyMeta
  <2> QED BY <2>1, <2>2, <2>3, <2>4
    DEF OwedSteps, Next, MainStep, Walk, WorkerStep, DirSteps, Finished, Procs
<1>2. AllOwed' = AllOwed
  <2>1. \A e : e \in AllOwed' <=> e \in AllOwed
    BY <1>1, OwedMember, OwedMemberNext
  <2> QED BY <2>1
<1> QED BY <1>1, <1>2

-----------------------------------------------------------------------------
(* The counters.                                                            *)

LEMMA OwedFinite ==
  ASSUME TypeOK, Control, Places, NEW d
  PROVE  IsFiniteSet(Owed(d))
  BY OwedDeferred, EntryAssumption, FS_Subset DEF Owed

LEMMA CountAdd ==
  ASSUME TypeOK, Control, Places, PendingCounts, NEW e, e \notin AllOwed,
         ParentOf[e] = cur, AllOwed' = AllOwed \cup {e}, AddDirWork(cur)
  PROVE  PendingCounts'
<1> SUFFICES ASSUME NEW d \in Dirs PROVE pending'[d] = Cardinality(Owed(d)')
  BY DEF PendingCounts
<1>1. CASE d = cur
  <2>1. Owed(d)' = Owed(d) \cup {e} /\ e \notin Owed(d)
    BY <1>1 DEF Owed
  <2>2. Cardinality(Owed(d)') = Cardinality(Owed(d)) + 1
    BY <2>1, OwedFinite, FS_AddElement
  <2>3. pending'[d] = pending[d] + 1
    BY <1>1, EntryAssumption DEF AddDirWork, TypeOK, Entries
  <2> QED BY <2>2, <2>3 DEF PendingCounts
<1>2. CASE d # cur
  <2>1. Owed(d)' = Owed(d)
    BY <1>2 DEF Owed
  <2>2. pending'[d] = pending[d]
    BY <1>2 DEF AddDirWork, TypeOK
  <2> QED BY <2>1, <2>2 DEF PendingCounts
<1> QED BY <1>1, <1>2

LEMMA CountDec ==
  ASSUME TypeOK, Control, Places, PendingCounts, NEW p \in Procs, DecPending(p)
  PROVE  PendingCounts'
<1>1. AllOwed' = AllOwed \ {held[p]} /\ held[p] \in AllOwed
  BY OwedDec, OwedMember DEF DecPending, Owing
<1>2. DirOf(p) = ParentOf[held[p]]
  BY DecFacts DEF DecPending, TypeOK
<1> SUFFICES ASSUME NEW d \in Dirs PROVE pending'[d] = Cardinality(Owed(d)')
  BY DEF PendingCounts
<1>3. CASE d = DirOf(p)
  <2>1. Owed(d)' = Owed(d) \ {held[p]} /\ held[p] \in Owed(d)
    BY <1>1, <1>2, <1>3 DEF Owed
  <2>2. Cardinality(Owed(d)') = Cardinality(Owed(d)) - 1
    BY <2>1, OwedFinite, FS_RemoveElement
  <2>3. pending'[d] = pending[d] - 1
    BY <1>3, EntryAssumption DEF DecPending, TypeOK, Entries
  <2> QED BY <2>2, <2>3 DEF PendingCounts
<1>4. CASE d # DirOf(p)
  <2>1. Owed(d)' = Owed(d)
    BY <1>1, <1>2, <1>4 DEF Owed
  <2>2. pending'[d] = pending[d]
    BY <1>4 DEF DecPending, TypeOK
  <2> QED BY <2>1, <2>2 DEF PendingCounts
<1> QED BY <1>3, <1>4

LEMMA NextCounts ==
  ASSUME TypeOK, Control, Places, PendingCounts, [Next]_vars
  PROVE  PendingCounts'
<1>1. ASSUME AllOwed' = AllOwed, pending' = pending PROVE PendingCounts'
  BY <1>1 DEF PendingCounts, Owed
<1>2. CASE CountFile
  BY <1>2, OwedCount, CountAdd DEF CountFile, Visiting, Places, Control
<1>3. CASE VisitLink
  <2>1. held[Main] \notin AllOwed /\ ParentOf[held[Main]] = cur
    BY <1>3 DEF VisitLink, Visiting, Places, Control
  <2> QED BY <1>1, <1>3, <2>1, OwedLink, CountAdd
<1>4. CASE PushJob \/ ApplyHardlink \/ \E w \in Workers : PopJob(w) \/ CopyOne(w)
  <2>1. AllOwed' = AllOwed
    BY <1>4, OwedMoves
  <2>2. pending' = pending
    BY <1>4 DEF PushJob, ApplyHardlink, PopJob, CopyOne, stateVars
  <2> QED BY <1>1, <2>1, <2>2
<1>5. CASE \E p \in Procs : DecPending(p)
  BY <1>5, CountDec
<1> QED BY <1>1, <1>2, <1>3, <1>4, <1>5, OwedRest DEF OwedSteps

-----------------------------------------------------------------------------
(* The places of owed entries.                                              *)

\* Places without the action-specific half: what a step must show to keep it.
LEMMA PlacesFrame ==
  ASSUME Places, TypeOK,
         AllOwed' \subseteq AllOwed,
         \A d \in Dirs \cup {Top} : left'[d] \subseteq left[d],
         pc'[Main] # "visit",
         jobs' \cup hardlinks' \subseteq jobs \cup hardlinks,
         \A p \in Procs : pc'[p] \in Owing => pc[p] \in Owing /\ held'[p] = held[p]
  PROVE  Places'
  BY DEF Places

LEMMA NextPlaces ==
  ASSUME TypeOK, Control, Barriers, Places, [Next]_vars
  PROVE  Places'
<1> USE DEF mainVars, metaVars, stateVars
<1>0. Main \notin Workers /\ Main \in Procs BY ProcAssumption DEF Procs
<1>1. CASE PickEntry
  <2>1. PICK e \in left[cur] : left' = [left EXCEPT ![cur] = @ \ {e}] /\ held' = [held EXCEPT ![Main] = e]
    BY <1>1 DEF PickEntry
  <2>7. \A p \in Procs : (pc'[p] \in Owing <=> pc[p] \in Owing) /\ (pc[p] \in Owing => held'[p] = held[p])
    BY <1>0, <1>1, <2>1 DEF PickEntry, Goto, TypeOK, Owing
  <2>2. AllOwed' = AllOwed
    <3>1. \A x : x \in AllOwed' <=> x \in AllOwed
      BY <1>1, <2>7, OwedMember, OwedMemberNext DEF PickEntry
    <3> QED BY <3>1
  <2>3. e \notin AllOwed /\ cur \in Dirs \cup {Top}
    BY DEF Places, TypeOK
  <2>4. \A d \in Dirs \cup {Top} : \A f \in left'[d] : f \in left[d] /\ f # e
    BY <2>1, <2>3 DEF TypeOK, Control
  <2>5. \A p \in Procs : pc'[p] \in Owing => pc[p] \in Owing /\ held'[p] = held[p] /\ p # Main
    BY <1>0, <1>1, <2>1 DEF PickEntry, Goto, TypeOK, Owing
  <2>6. held'[Main] = e /\ jobs' = jobs /\ hardlinks' = hardlinks
    BY <1>0, <1>1, <2>1 DEF PickEntry, TypeOK
  <2> QED BY <2>2, <2>3, <2>4, <2>5, <2>6 DEF Places
<1>2. CASE CountFile
  <2>1. AllOwed' = AllOwed \cup {held[Main]} /\ held[Main] \notin AllOwed
    BY <1>2, OwedCount DEF CountFile, Visiting, Places
  <2>2. pc'[Main] = "enqueue" /\ held' = held /\ left' = left /\ jobs' = jobs /\ hardlinks' = hardlinks
    BY <1>0, <1>2 DEF CountFile, Goto, TypeOK
  <2>3. \A p \in Procs \ {Main} : pc'[p] = pc[p]
    BY <1>2 DEF CountFile, Goto, TypeOK
  <2>4. \A p \in Procs : pc[p] \in Owing => held[p] # held[Main]
    BY <2>1, OwedMember
  <2>5. held[Main] \notin jobs \cup hardlinks
    BY <2>1, OwedMember
  <2>6. \A d \in Dirs \cup {Top} : \A e \in left[d] : e # held[Main]
    BY <1>2 DEF Places, CountFile, Visiting
  <2>7. \A d \in Dirs \cup {Top} : \A e \in left'[d] : e \notin AllOwed'
    BY <2>1, <2>2, <2>6 DEF Places
  <2>8. \A p \in Procs : pc'[p] \in Owing =>
          /\ held'[p] \notin jobs' \cup hardlinks'
          /\ \A q \in Procs : pc'[q] \in Owing /\ held'[q] = held'[p] => q = p
    BY <2>2, <2>3, <2>4, <2>5 DEF Places
  <2> QED BY <2>2, <2>7, <2>8 DEF Places
<1>3. CASE VisitLink
  <2>1. pc'[Main] = "loop" /\ left' = left /\ jobs' = jobs
    BY <1>0, <1>3 DEF VisitLink, ToLoop, Goto, TypeOK
  <2>2. \A p \in Procs : pc'[p] \in Owing => pc[p] \in Owing /\ held'[p] = held[p]
    BY <1>0, <1>3 DEF VisitLink, Visiting, ToLoop, Goto, Drop, TypeOK, Owing
  <2>3. CASE AllOwed' = AllOwed /\ hardlinks' = hardlinks
    BY <2>1, <2>2, <2>3, PlacesFrame
  <2>4. CASE AllOwed' = AllOwed \cup {held[Main]} /\ hardlinks' = hardlinks \cup {held[Main]}
    <3>1. held[Main] \notin AllOwed /\ \A d \in Dirs \cup {Top} : \A e \in left[d] : e # held[Main]
      BY <1>3 DEF Places, VisitLink, Visiting
    <3>2. \A p \in Procs : pc[p] \in Owing => held[p] # held[Main]
      BY <3>1, OwedMember
    <3>3. \A p \in Procs : pc'[p] \in Owing =>
            /\ held'[p] \notin jobs' \cup hardlinks'
            /\ \A q \in Procs : pc'[q] \in Owing /\ held'[q] = held'[p] => q = p
      BY <2>1, <2>2, <2>4, <3>2 DEF Places
    <3> QED BY <2>1, <2>4, <3>1, <3>3 DEF Places
  <2> QED BY <1>3, <2>3, <2>4, OwedLink
<1>4. CASE PushJob
  <2>1. pc'[Main] = "loop" /\ left' = left /\ jobs' = jobs \cup {held[Main]} /\ hardlinks' = hardlinks
    BY <1>0, <1>4 DEF PushJob, ToLoop, Goto, TypeOK
  <2>2. \A p \in Procs : pc'[p] \in Owing => pc[p] \in Owing /\ held'[p] = held[p] /\ p # Main
    BY <1>0, <1>4 DEF PushJob, ToLoop, Goto, Drop, TypeOK, Owing
  <2>3. pc[Main] \in Owing /\ AllOwed' = AllOwed
    BY <1>4, OwedMoves DEF PushJob, Owing
  <2> QED BY <1>0, <2>1, <2>2, <2>3 DEF Places
<1>5. CASE ApplyHardlink
  <2>1. PICK l \in hardlinks : hardlinks' = hardlinks \ {l} /\ held' = [held EXCEPT ![Main] = l]
    BY <1>5 DEF ApplyHardlink
  <2>2. jobs = {} /\ jobs' = jobs /\ left' = left /\ pc'[Main] = "dec" /\ held'[Main] = l
    BY <1>0, <1>5, <2>1 DEF ApplyHardlink, Barriers, Goto, TypeOK
  <2>3. \A p \in Procs : pc'[p] \in Owing => p = Main
    BY <1>5 DEF ApplyHardlink, Barriers, Goto, TypeOK, Procs, Owing
  <2>4. AllOwed' = AllOwed
    BY <1>5, OwedMoves
  <2> QED BY <2>1, <2>2, <2>3, <2>4 DEF Places
<1>6. ASSUME NEW w \in Workers, PopJob(w) PROVE Places'
  <2>1. PICK j \in jobs : jobs' = jobs \ {j} /\ held' = [held EXCEPT ![w] = j]
    BY <1>6 DEF PopJob
  <2>2. pc[w] = "idle" /\ held'[w] = j /\ hardlinks' = hardlinks /\ left' = left
    BY <1>6, <2>1 DEF PopJob, Goto, TypeOK, Procs
  <2>3. \A p \in Procs \ {w} : pc'[p] = pc[p] /\ held'[p] = held[p]
    BY <1>6, <2>1 DEF PopJob, Goto, TypeOK
  <2>4. \A p \in Procs : pc[p] \in Owing => held[p] # j
    BY <2>1 DEF Places
  <2>5. j \notin hardlinks
    BY <2>1, EntryAssumption DEF TypeOK
  <2>6. AllOwed' = AllOwed
    BY <1>6, OwedMoves
  <2>7. pc'[Main] = "visit" => pc[Main] = "visit" /\ held'[Main] = held[Main]
    BY <1>0, <2>3
  <2>8. \A p \in Procs : pc'[p] \in Owing =>
          /\ held'[p] \notin jobs' \cup hardlinks'
          /\ \A q \in Procs : pc'[q] \in Owing /\ held'[q] = held'[p] => q = p
    BY <2>1, <2>2, <2>3, <2>4, <2>5 DEF Places
  <2> QED BY <2>2, <2>6, <2>7, <2>8 DEF Places
<1>7. ASSUME NEW w \in Workers, CopyOne(w) PROVE Places'
  <2>1. UNCHANGED <<held, jobs, hardlinks, left>> /\ pc[w] = "copy"
    BY <1>7 DEF CopyOne
  <2>2. \A p \in Procs \ {w} : pc'[p] = pc[p]
    BY <1>7 DEF CopyOne, Goto, TypeOK
  <2>3. AllOwed' = AllOwed
    BY <1>7, OwedMoves
  <2> QED BY <1>0, <2>1, <2>2, <2>3 DEF Places, Owing
<1>8. ASSUME NEW p \in Procs, DecPending(p) PROVE Places'
  <2>1. AllOwed' = AllOwed \ {held[p]}
    BY <1>8, OwedDec
  <2>2. left' = left /\ jobs' = jobs /\ hardlinks' = hardlinks /\ pc[p] = "dec" /\ pc'[p] \notin Owing
    BY <1>8 DEF DecPending, Return, Goto, TypeOK, Owing
  <2>3. \A q \in Procs \ {p} : pc'[q] = pc[q] /\ held'[q] = held[q]
    BY <1>8 DEF DecPending, Return, Goto, Drop, TypeOK
  <2>4. pc'[Main] = "visit" => pc[Main] = "visit" /\ held'[Main] = held[Main]
    BY <1>0, <1>8, <2>3 DEF DecPending, Return, Goto, TypeOK
  <2>5. \A q \in Procs : pc'[q] \in Owing => pc[q] \in Owing /\ held'[q] = held[q]
    BY <2>2, <2>3
  <2> QED BY <2>1, <2>2, <2>4, <2>5 DEF Places
<1>9. CASE ~OwedSteps /\ ~PickEntry
  <2>1. /\ AllOwed' = AllOwed /\ jobs' = jobs /\ hardlinks' = hardlinks
        /\ \A p \in Procs : pc'[p] \in Owing <=> pc[p] \in Owing
        /\ \A p \in Procs : pc[p] \in Owing => held'[p] = held[p]
    BY <1>9, OwedRest
  <2>2. left' = left /\ (pc'[Main] = "visit" => pc[Main] = "visit" /\ held'[Main] = held[Main])
    <3>1. CASE VisitOther \/ MakeDir \/ ListFails \/ EnterDir \/ LeaveDir \/ StoreClosed \/ EndWalk
      BY <1>0, <3>1 DEF VisitOther, MakeDir, ListFails, EnterDir, LeaveDir, StoreClosed, EndWalk, ToLoop, Goto, TypeOK
    <3>2. CASE CheckPending \/ \E p \in Procs : CheckClosed(p) \/ SwapQueued(p) \/ PushMeta(p)
      BY <1>0, <3>2 DEF CheckPending, CheckClosed, SwapQueued, PushMeta, Return, Goto, Drop, TypeOK
    <3>3. CASE JoinWorkers \/ CloseMeta \/ JoinMeta \/ Interrupt \/ WatchdogAbort \/ UNCHANGED vars
      BY <3>3 DEF JoinWorkers, CloseMeta, JoinMeta, Interrupt, WatchdogAbort, vars
    <3>4. ASSUME NEW m \in MetaWorkers, MetaStep(m) PROVE UNCHANGED <<left, pc, held>>
      BY <3>4 DEF MetaStep, PopMeta, ApplyMeta
    <3> QED BY <1>9, <3>1, <3>2, <3>3, <3>4
      DEF OwedSteps, Next, MainStep, Walk, WorkerStep, DirSteps, Finished, Procs
  <2> QED BY <2>1, <2>2 DEF Places
<1> QED BY <1>1, <1>2, <1>3, <1>4, <1>5, <1>6, <1>7, <1>8, <1>9 DEF OwedSteps

-----------------------------------------------------------------------------
(* First half of the invariant: types, control, places and counters.        *)

CountInv == TypeOK /\ Control /\ Barriers /\ Places /\ PendingCounts

LEMMA InitPlaces == Init => Places /\ PendingCounts
<1> SUFFICES ASSUME Init PROVE Places /\ PendingCounts OBVIOUS
<1>1. AllOwed = {}
  BY DEF Init, AllOwed, Owing, Procs
<1>2. Places
  BY <1>1 DEF Init, Places, Owing, Procs
<1>3. \A d \in Dirs : Owed(d) = {}
  BY <1>1 DEF Owed
<1> QED BY <1>2, <1>3, FS_EmptySet DEF Init, PendingCounts

LEMMA CountInvariant == Spec => []CountInv
<1>1. Init => CountInv
  BY InitType, InitControl, InitPlaces DEF CountInv
<1>2. CountInv /\ [Next]_vars => CountInv'
  BY NextType, NextControl, NextBarriers, NextPlaces, NextCounts DEF CountInv
<1> QED BY <1>1, <1>2, PTL DEF Spec

\* In every state of every run the variables have their types.
THEOREM TypeCorrect == Spec => []TypeOK
<1>1. CountInv => TypeOK
  BY DEF CountInv
<1> QED BY <1>1, CountInvariant, PTL

\* Each dirState's pending counter is exactly the number of its entries that
\* are queued, in a worker's hands or deferred as hardlinks.
THEOREM PendingCorrect == Spec => []PendingCounts
<1>1. CountInv => PendingCounts
  BY DEF CountInv
<1> QED BY <1>1, CountInvariant, PTL

-----------------------------------------------------------------------------
(* A goroutine inside closeDir, completeDirWork or queueDirMeta is moved by *)
(* its own step only, and keeps its directory.                              *)

DirPCs == {"chkPending", "chkClosed", "cas", "push"}
OwnStep(p) == CheckClosed(p) \/ SwapQueued(p) \/ PushMeta(p) \/ (p = Main /\ CheckPending)

LEMMA StayPut ==
  ASSUME TypeOK, Control, Barriers, [Next]_vars, NEW p \in Procs, pc[p] \in DirPCs, ~OwnStep(p)
  PROVE  pc'[p] = pc[p] /\ DirOf(p)' = DirOf(p) /\ held'[p] = held[p]
<1> USE DEF mainVars, metaVars, stateVars
<1>0. Main \notin Workers BY ProcAssumption
<1>1. p = Main => phase \in {"walk", "links"} /\ pc[Main] # "loop"
  BY DEF Control, DirPCs, TypeOK
<1>2. p # Main => p \in Workers /\ phase \in {"walk", "drain"} /\ pc[p] # "idle"
  BY DEF Barriers, DirPCs, TypeOK, Procs
<1>3. CASE PickEntry \/ VisitOther \/ MakeDir \/ ListFails \/ EnterDir \/ LeaveDir \/ StoreClosed \/ EndWalk
           \/ CountFile \/ VisitLink \/ PushJob \/ ApplyHardlink
  BY <1>0, <1>1, <1>3 DEF PickEntry, VisitOther, MakeDir, ListFails, EnterDir, LeaveDir, StoreClosed, EndWalk,
     CountFile, VisitLink, PushJob, ApplyHardlink, Visiting, ToLoop, Goto, Drop, TypeOK, DirPCs, DirOf, Procs
<1>4. CASE JoinWorkers \/ CloseMeta \/ JoinMeta
  BY <1>0, <1>1, <1>2, <1>4 DEF JoinWorkers, CloseMeta, JoinMeta, DirOf
<1>5. ASSUME NEW q \in Procs, DirSteps(q)
      PROVE  pc'[p] = pc[p] /\ DirOf(p)' = DirOf(p) /\ held'[p] = held[p]
  <2>1. q # p
    BY <1>5 DEF DirSteps, OwnStep, DecPending, DirPCs
  <2>2. pc'[p] = pc[p] /\ held'[p] = held[p] /\ phase' = phase /\ (q # Main => cur' = cur)
    BY <1>5, <2>1 DEF DirSteps, DecPending, CheckClosed, SwapQueued, PushMeta, Return, Goto, Drop, TypeOK
  <2> QED BY <2>1, <2>2 DEF DirOf
<1>6. CASE CheckPending
  <2>1. p # Main
    BY <1>6 DEF OwnStep
  <2> QED BY <1>6, <2>1 DEF CheckPending, Return, Goto, Drop, TypeOK, DirOf
<1>7. ASSUME NEW w \in Workers, PopJob(w) \/ CopyOne(w)
      PROVE  pc'[p] = pc[p] /\ DirOf(p)' = DirOf(p) /\ held'[p] = held[p]
  BY <1>7 DEF PopJob, CopyOne, Goto, TypeOK, DirPCs, DirOf
<1>8. CASE (\E m \in MetaWorkers : MetaStep(m)) \/ Interrupt \/ WatchdogAbort \/ UNCHANGED vars
  BY <1>8 DEF MetaStep, PopMeta, ApplyMeta, Interrupt, WatchdogAbort, vars, DirOf
<1> QED BY <1>3, <1>4, <1>5, <1>6, <1>7, <1>8
  DEF Next, MainStep, Walk, WorkerStep, Finished, Procs

-----------------------------------------------------------------------------
(* The walk's stack.                                                        *)

LEMMA InitStack == Init => Stack /\ Fresh
  BY TreeAssumption, ProcAssumption DEF Init, Stack, Fresh, Closing, Procs

LEMMA NextFresh ==
  ASSUME TypeOK, Control, Fresh, [Next]_vars
  PROVE  Fresh'
<1> USE DEF mainVars, metaVars, stateVars
<1>0. Main \notin Workers /\ Main \in Procs BY ProcAssumption DEF Procs
<1>1. CASE PickEntry
  <2>1. PICK e \in left[cur] : left' = [left EXCEPT ![cur] = @ \ {e}] /\ held' = [held EXCEPT ![Main] = e]
    BY <1>1 DEF PickEntry
  <2>2. \A d \in Dirs \cup {Top} : \A f \in left'[d] : f \in left[d] /\ f # e
    BY <2>1 DEF TypeOK, Control
  <2>3. held'[Main] = e /\ recorded' = recorded /\ e \in left[cur] /\ cur \in Dirs \cup {Top}
    BY <1>0, <1>1, <2>1 DEF PickEntry, TypeOK
  <2> QED BY <2>2, <2>3 DEF Fresh
<1>2. CASE EnterDir
  BY <1>0, <1>2 DEF EnterDir, ToLoop, Goto, Drop, TypeOK, Fresh
<1>3. CASE VisitOther \/ MakeDir \/ ListFails \/ LeaveDir \/ StoreClosed \/ EndWalk \/ CountFile \/ VisitLink
           \/ PushJob \/ ApplyHardlink \/ CheckPending
  BY <1>0, <1>3 DEF VisitOther, MakeDir, ListFails, LeaveDir, StoreClosed, EndWalk, CountFile, VisitLink,
     PushJob, ApplyHardlink, CheckPending, Visiting, Return, ToLoop, Goto, Drop, TypeOK, Fresh
<1>4. ASSUME NEW p \in Procs, DirSteps(p) PROVE Fresh'
  BY <1>0, <1>4 DEF DirSteps, DecPending, CheckClosed, SwapQueued, PushMeta, Return, Goto, Drop, TypeOK, Fresh
<1>5. ASSUME NEW w \in Workers, PopJob(w) \/ CopyOne(w) PROVE Fresh'
  BY <1>0, <1>5 DEF PopJob, CopyOne, Goto, TypeOK, Fresh
<1>6. CASE (\E m \in MetaWorkers : MetaStep(m)) \/ JoinWorkers \/ CloseMeta \/ JoinMeta
           \/ Interrupt \/ WatchdogAbort \/ UNCHANGED vars
  BY <1>6 DEF MetaStep, PopMeta, ApplyMeta, JoinWorkers, CloseMeta, JoinMeta, Interrupt, WatchdogAbort, vars, Fresh
<1> QED BY <1>1, <1>2, <1>3, <1>4, <1>5, <1>6 DEF Next, MainStep, Walk, WorkerStep, Finished, Procs

\* The directories that are open are the same, and nothing is closed or elected.
LEMMA StackFrame ==
  ASSUME Stack, UNCHANGED <<recorded, closed, queued, cur>>, Closing' <=> Closing,
         \A p \in Procs : pc'[p] \in {"chkPending", "cas", "push"} =>
            pc[p] \in {"chkPending", "cas", "push"} /\ DirOf(p)' = DirOf(p)
  PROVE  Stack'
  BY DEF Stack

\* Main leaves a directory it has closed.
LEMMA StackReturn ==
  ASSUME TypeOK, Control, Stack, Closing, Return(Main), recorded' = recorded, closed' = closed
  PROVE  {d \in recorded' : ~closed'[d]} = Anc[cur'] \ (IF Closing' THEN {cur'} ELSE {})
<1>1. cur \in Dirs /\ phase = "walk"
  BY DEF Closing, Control
<1>2. cur' = ParentOf[cur] /\ pc'[Main] = "loop" /\ ~Closing'
  BY <1>1, ProcAssumption DEF Return, Goto, TypeOK, Procs, Closing
<1>3. Anc[cur] = {cur} \cup Anc[ParentOf[cur]] /\ cur \notin Anc[ParentOf[cur]]
  BY <1>1, TreeAssumption
<1> QED BY <1>2, <1>3 DEF Stack

LEMMA NextStack ==
  ASSUME TypeOK, Control, Barriers, Fresh, Stack, [Next]_vars
  PROVE  Stack'
<1> USE DEF mainVars, metaVars, stateVars
<1>0. Main \notin Workers /\ Main \in Procs BY ProcAssumption DEF Procs
<1>1. CASE PickEntry \/ VisitOther \/ MakeDir \/ ListFails \/ LeaveDir \/ CountFile \/ VisitLink \/ PushJob
  <2>1. pc[Main] \notin {"cas", "push", "chkPending"} /\ pc'[Main] \notin {"cas", "push", "chkPending"}
    BY <1>0, <1>1 DEF PickEntry, VisitOther, MakeDir, ListFails, LeaveDir, CountFile, VisitLink, PushJob,
       Visiting, ToLoop, Goto, TypeOK
  <2>2. \A p \in Procs \ {Main} : pc'[p] = pc[p] /\ held'[p] = held[p] /\ DirOf(p)' = DirOf(p)
    BY <1>1 DEF PickEntry, VisitOther, MakeDir, ListFails, LeaveDir, CountFile, VisitLink, PushJob,
       Visiting, ToLoop, Goto, Drop, TypeOK, DirOf
  <2>3. UNCHANGED <<recorded, closed, queued, cur>>
    BY <1>1 DEF PickEntry, VisitOther, MakeDir, ListFails, LeaveDir, CountFile, VisitLink, PushJob
  <2> QED BY <2>1, <2>2, <2>3, StackFrame DEF Closing
<1>2. CASE EnterDir
  <2> DEFINE d == held[Main]
  <2>1. d \in Dirs /\ ParentOf[d] = cur /\ d \notin recorded /\ cur' = d /\ recorded' = recorded \cup {d}
    BY <1>2 DEF EnterDir, Control, Fresh
  <2>2. pc'[Main] = "loop" /\ pc[Main] = "list" /\ closed' = closed /\ queued' = queued
    BY <1>0, <1>2 DEF EnterDir, ToLoop, Goto, TypeOK
  <2>3. Anc[d] = {d} \cup Anc[cur]
    BY <2>1, TreeAssumption
  <2>4. ~closed[d] /\ ~Closing /\ ~Closing'
    BY <2>1, <2>2 DEF Stack, Closing
  <2>5. \A p \in Procs : pc'[p] \in {"chkPending", "cas", "push"} => pc[p] \in {"chkPending", "cas", "push"} /\ DirOf(p)' = DirOf(p)
    BY <1>2, <2>2 DEF EnterDir, ToLoop, Goto, Drop, TypeOK, DirOf
  <2> QED BY <2>1, <2>2, <2>3, <2>4, <2>5 DEF Stack
<1>3. CASE StoreClosed
  <2>1. cur \in Dirs /\ phase = "walk" /\ pc[Main] = "store"
    BY <1>3 DEF StoreClosed, Control, TypeOK
  <2>2. cur \in Anc[cur]
    BY <2>1, TreeAssumption
  <2>3. pc'[Main] = "chkPending" /\ cur' = cur /\ recorded' = recorded /\ queued' = queued /\ phase' = phase
        /\ closed' = [closed EXCEPT ![cur] = TRUE]
    BY <1>0, <1>3 DEF StoreClosed, Goto, TypeOK
  <2>4. Closing' /\ ~Closing
    BY <2>1, <2>3 DEF Closing
  <2>6. \A d \in Dirs : closed'[d] <=> closed[d] \/ d = cur
    BY <2>1, <2>3 DEF TypeOK
  <2>7. {d \in recorded' : ~closed'[d]} = Anc[cur'] \ {cur'}
    BY <2>1, <2>2, <2>3, <2>4, <2>6 DEF Stack, TypeOK
  <2>8. \A p \in Procs : pc'[p] \in {"chkPending", "cas", "push"} => closed'[DirOf(p)']
    <3>1. DirOf(Main)' = cur /\ closed'[cur]
      BY <2>1, <2>3 DEF DirOf, TypeOK
    <3>2. \A p \in Procs \ {Main} : pc'[p] = pc[p] /\ DirOf(p)' = DirOf(p)
      BY <1>3, <2>3 DEF StoreClosed, Goto, TypeOK, DirOf
    <3>3. \A p \in Procs \ {Main} : pc[p] \in {"chkPending", "cas", "push"} => DirOf(p) \in Dirs
      BY DEF Control, Procs
    <3> QED BY <2>6, <3>1, <3>2, <3>3 DEF Stack
  <2>9. \A d \in Dirs : (closed'[d] => d \in recorded') /\ (queued'[d] => closed'[d])
    BY <2>2, <2>3, <2>4, <2>6 DEF Stack, TypeOK
  <2> QED BY <2>4, <2>7, <2>8, <2>9 DEF Stack
<1>4. CASE JoinWorkers \/ CloseMeta \/ JoinMeta \/ EndWalk
  <2>1. ~Closing /\ ~Closing' /\ pc[Main] = "loop" /\ pc' = pc
    BY <1>4 DEF JoinWorkers, CloseMeta, JoinMeta, EndWalk, Closing, Control
  <2>2. \A p \in Procs : p # Main => DirOf(p)' = DirOf(p)
    BY <1>4 DEF JoinWorkers, CloseMeta, JoinMeta, EndWalk, DirOf
  <2> QED BY <1>4, <2>1, <2>2, StackFrame DEF JoinWorkers, CloseMeta, JoinMeta, EndWalk
<1>5. CASE ApplyHardlink \/ \E w \in Workers : PopJob(w) \/ CopyOne(w)
  <2>1. UNCHANGED <<recorded, closed, queued, cur, phase>> /\ (Closing' <=> Closing)
    BY <1>0, <1>5 DEF ApplyHardlink, PopJob, CopyOne, Closing, Goto, TypeOK
  <2>2. \A p \in Procs : pc'[p] \in {"chkPending", "cas", "push"} => pc'[p] = pc[p] /\ held'[p] = held[p]
    BY <1>0, <1>5 DEF ApplyHardlink, PopJob, CopyOne, Goto, TypeOK
  <2> QED BY <2>1, <2>2, StackFrame DEF DirOf
<1>6. CASE CheckPending
  <2>1. Closing /\ UNCHANGED <<recorded, closed, queued>> /\ cur \in Dirs
    BY <1>6 DEF CheckPending, Closing, Control, TypeOK
  <2>2. \A p \in Procs \ {Main} : pc'[p] = pc[p] /\ DirOf(p)' = DirOf(p)
    BY <1>6 DEF CheckPending, Return, Goto, Drop, TypeOK, DirOf
  <2>3. CASE Goto(Main, "cas") /\ UNCHANGED <<held, phase, cur, left>>
    <3>1. pc'[Main] = "cas" /\ Closing' /\ DirOf(Main)' = cur
      BY <1>0, <2>1, <2>3 DEF Goto, TypeOK, Closing, DirOf
    <3>2. closed[cur]
      BY <1>0, <1>6, <2>1 DEF CheckPending, Stack, Closing, DirOf
    <3> QED BY <2>1, <2>2, <2>3, <3>1, <3>2 DEF Stack
  <2>4. CASE Return(Main)
    <3>1. pc'[Main] = "loop"
      BY <1>0, <2>4 DEF Return, Goto, TypeOK
    <3> QED BY <2>1, <2>2, <2>4, <3>1, StackReturn DEF Stack
  <2> QED BY <1>6, <2>3, <2>4 DEF CheckPending
<1>7. ASSUME NEW p \in Procs, DirSteps(p) PROVE Stack'
  <2>1. recorded' = recorded /\ closed' = closed
    BY <1>7 DEF DirSteps, DecPending, CheckClosed, SwapQueued, PushMeta
  <2>2. \A q \in Procs \ {p} : pc'[q] \in {"chkPending", "cas", "push"} => pc[q] \in {"chkPending", "cas", "push"} /\ DirOf(q)' = DirOf(q)
    <3>1. \A q \in Procs \ {p} : pc'[q] = pc[q] /\ held'[q] = held[q] /\ phase' = phase /\ (p # Main => cur' = cur)
      BY <1>7 DEF DirSteps, DecPending, CheckClosed, SwapQueued, PushMeta, Return, Goto, Drop, TypeOK
    <3> QED BY <3>1 DEF DirOf
  <2>3. pc'[p] \in {"chkPending", "cas", "push"} => closed[DirOf(p)] /\ DirOf(p)' = DirOf(p)
    BY <1>0, <1>7 DEF DirSteps, DecPending, CheckClosed, SwapQueued, PushMeta, Return, Goto, TypeOK, DirOf, Stack
  <2>4. \A d \in Dirs : queued'[d] => queued[d] \/ (d = DirOf(p) /\ closed[DirOf(p)])
    <3>1. CASE SwapQueued(p)
      BY <3>1 DEF SwapQueued, TypeOK, Stack
    <3>2. CASE ~SwapQueued(p)
      BY <1>7, <3>2 DEF DirSteps, DecPending, CheckClosed, PushMeta
    <3> QED BY <3>1, <3>2
  <2>5. {d \in recorded' : ~closed'[d]} = Anc[cur'] \ (IF Closing' THEN {cur'} ELSE {})
    <3>1. CASE p = Main /\ phase = "walk"
      <4>1. Closing /\ pc[Main] \in {"cas", "push"}
        BY <1>7, <3>1 DEF DirSteps, DecPending, CheckClosed, SwapQueued, PushMeta, Closing, Control
      <4>2. Return(Main) \/ (pc'[Main] = "push" /\ cur' = cur /\ phase' = phase)
        BY <1>0, <1>7, <3>1, <4>1 DEF DirSteps, DecPending, CheckClosed, SwapQueued, PushMeta, Goto, TypeOK
      <4> QED BY <2>1, <3>1, <4>1, <4>2, StackReturn DEF Stack, Closing
    <3>2. CASE p # Main \/ phase # "walk"
      <4>1. cur' = cur /\ phase' = phase /\ (p # Main => pc'[Main] = pc[Main])
        BY <1>0, <1>7, <3>2 DEF DirSteps, DecPending, CheckClosed, SwapQueued, PushMeta, Return, Goto, TypeOK
      <4> QED BY <2>1, <3>2, <4>1 DEF Stack, Closing
    <3> QED BY <3>1, <3>2
  <2> QED BY <2>1, <2>2, <2>3, <2>4, <2>5 DEF Stack
<1>8. CASE (\E m \in MetaWorkers : MetaStep(m)) \/ Interrupt \/ WatchdogAbort \/ UNCHANGED vars
  <2>1. UNCHANGED <<recorded, closed, queued, cur, phase, pc, held>>
    BY <1>8 DEF MetaStep, PopMeta, ApplyMeta, Interrupt, WatchdogAbort, vars
  <2> QED BY <2>1, StackFrame DEF Closing, DirOf
<1> QED BY <1>1, <1>2, <1>3, <1>4, <1>5, <1>6, <1>7, <1>8
  DEF Next, MainStep, Walk, WorkerStep, Finished, Procs

-----------------------------------------------------------------------------
(* Somebody queues every closed directory that owes nothing.                *)

LEMMA PendingNat ==
  ASSUME TypeOK, Control, Places, PendingCounts, NEW d \in Dirs
  PROVE  pending[d] \in Nat
  BY OwedFinite, FS_CardinalityType DEF PendingCounts

LEMMA NextResponsible ==
  ASSUME TypeOK, Control, Barriers, Places, PendingCounts, Stack, Responsible, [Next]_vars
  PROVE  Responsible'
<1> USE DEF mainVars, metaVars, stateVars
<1>0. Main \notin Workers /\ Main \in Procs BY ProcAssumption DEF Procs
<1> DEFINE Looks(p, d) == pc[p] \in {"chkPending", "chkClosed", "cas"} /\ DirOf(p) = d
<1> SUFFICES ASSUME NEW d \in Dirs, closed'[d], pending'[d] = 0, ~queued'[d]
             PROVE  \E p \in Procs : Looks(p, d)'
  BY DEF Responsible
<1>1. CASE StoreClosed /\ d = cur
  <2>1. pc'[Main] = "chkPending" /\ phase = "walk" /\ phase' = phase /\ cur' = cur
    BY <1>0, <1>1 DEF StoreClosed, Goto, TypeOK, Control
  <2> QED BY <1>0, <1>1, <2>1 DEF DirOf
<1>2. ASSUME NEW p \in Procs, DecPending(p), pending[d] # 0
      PROVE  Looks(p, d)'
  <2>1. d = DirOf(p) /\ d # Top /\ pending'[DirOf(p)] = 0
    BY <1>2, EntryAssumption DEF DecPending, TypeOK, Entries
  <2>2. pc'[p] = "chkClosed" /\ held' = held /\ phase' = phase /\ cur' = cur
    BY <1>2, <2>1 DEF DecPending, Goto, TypeOK, Return
  <2> QED BY <2>1, <2>2 DEF DirOf
<1>3. CASE ~(StoreClosed /\ d = cur) /\ (pending[d] = 0 \/ ~\E p \in Procs : DecPending(p))
  <2>1. closed[d]
    BY <1>3 DEF StoreClosed, TypeOK, Next, MainStep, Walk, PickEntry, VisitOther, CountFile, PushJob, VisitLink,
       MakeDir, ListFails, EnterDir, LeaveDir, CheckPending, EndWalk, DirSteps, DecPending, CheckClosed,
       SwapQueued, PushMeta, JoinWorkers, ApplyHardlink, CloseMeta, JoinMeta, Interrupt, WatchdogAbort,
       Finished, WorkerStep, PopJob, CopyOne, MetaStep, PopMeta, ApplyMeta, vars
  <2>2. pending[d] = 0
    <3>1. CASE CountFile \/ VisitLink
      <4>1. pending' = pending \/ (cur # Top /\ pending' = [pending EXCEPT ![cur] = @ + 1])
        BY <3>1 DEF CountFile, VisitLink, AddDirWork
      <4>2. \A c \in Dirs : pending[c] \in Nat
        BY PendingNat
      <4> QED BY <4>1, <4>2 DEF TypeOK
    <3>2. CASE ~(CountFile \/ VisitLink) /\ ~\E p \in Procs : DecPending(p)
      <4>1. pending' = pending
        BY <3>2 DEF StoreClosed, Next, MainStep, Walk, PickEntry, VisitOther, PushJob,
           MakeDir, ListFails, EnterDir, LeaveDir, CheckPending, EndWalk, DirSteps, CheckClosed,
           SwapQueued, PushMeta, JoinWorkers, ApplyHardlink, CloseMeta, JoinMeta, Interrupt, WatchdogAbort,
           Finished, WorkerStep, PopJob, CopyOne, MetaStep, PopMeta, ApplyMeta, vars, Procs
      <4> QED BY <4>1
    <3> QED BY <1>3, <3>1, <3>2
  <2>3. ~queued[d]
    BY DEF StoreClosed, TypeOK, Next, MainStep, Walk, PickEntry, VisitOther, CountFile, PushJob, VisitLink,
       MakeDir, ListFails, EnterDir, LeaveDir, CheckPending, EndWalk, DirSteps, DecPending, CheckClosed,
       SwapQueued, PushMeta, JoinWorkers, ApplyHardlink, CloseMeta, JoinMeta, Interrupt, WatchdogAbort,
       Finished, WorkerStep, PopJob, CopyOne, MetaStep, PopMeta, ApplyMeta, vars
  <2>4. PICK p \in Procs : Looks(p, d)
    BY <2>1, <2>2, <2>3 DEF Responsible
  <2>5. CASE ~OwnStep(p)
    BY <2>4, <2>5, StayPut DEF DirPCs
  <2>6. CASE CheckClosed(p)
    <3>1. pc'[p] = "cas" /\ held' = held /\ phase' = phase /\ cur' = cur
      BY <2>1, <2>4, <2>6 DEF CheckClosed, Goto, TypeOK
    <3> QED BY <2>4, <3>1 DEF DirOf
  <2>7. CASE SwapQueued(p)
    BY <2>3, <2>4, <2>7 DEF SwapQueued, TypeOK
  <2>8. CASE p = Main /\ CheckPending
    <3>1. d = cur
      BY <2>4, <2>8 DEF CheckPending, DirOf, Control, TypeOK
    <3>2. pc'[Main] = "cas" /\ held' = held /\ phase' = phase /\ cur' = cur
      BY <1>0, <2>2, <2>8, <3>1 DEF CheckPending, Goto, TypeOK
    <3> QED BY <2>4, <2>8, <3>2 DEF DirOf
  <2>9. ~PushMeta(p)
    BY <2>4 DEF PushMeta
  <2> QED BY <2>5, <2>6, <2>7, <2>8, <2>9 DEF OwnStep
<1> QED BY <1>1, <1>2, <1>3

-----------------------------------------------------------------------------
(* An elected directory reaches the metadata workers, once.                 *)

\* What the steps that are not about metaJobs leave alone.
ElectSteps == \/ \E p \in Procs : SwapQueued(p) \/ PushMeta(p)
              \/ \E m \in MetaWorkers : MetaStep(m)

LEMMA ElectFrame ==
  ASSUME TypeOK, Control, Barriers, [Next]_vars, ~ElectSteps
  PROVE  /\ UNCHANGED <<queued, metaq, mheld, applied>>
         /\ \A p \in Procs : pc'[p] = "push" <=> pc[p] = "push"
         /\ \A p \in Procs : pc[p] = "push" => DirOf(p)' = DirOf(p)
<1> USE DEF mainVars, metaVars, stateVars
<1>1. UNCHANGED <<queued, metaq, mheld, applied>>
  BY DEF ElectSteps, StoreClosed, Next, MainStep, Walk, PickEntry, VisitOther, CountFile, PushJob, VisitLink,
     MakeDir, ListFails, EnterDir, LeaveDir, CheckPending, EndWalk, DirSteps, DecPending, CheckClosed,
     JoinWorkers, ApplyHardlink, CloseMeta, JoinMeta, Interrupt, WatchdogAbort,
     Finished, WorkerStep, PopJob, CopyOne, vars, Procs
<1>2. ASSUME NEW p \in Procs, pc[p] = "push"
      PROVE  pc'[p] = "push" /\ DirOf(p)' = DirOf(p)
  BY <1>2, StayPut DEF DirPCs, OwnStep, ElectSteps, CheckClosed, CheckPending
<1>3. ASSUME NEW p \in Procs, pc[p] # "push"
      PROVE  pc'[p] # "push"
  <2>1. CASE Walk \/ JoinWorkers \/ ApplyHardlink \/ CloseMeta \/ JoinMeta \/ Interrupt \/ WatchdogAbort \/ UNCHANGED vars
    BY <1>3, <2>1 DEF StoreClosed, Walk, PickEntry, VisitOther, CountFile, PushJob, VisitLink,
       MakeDir, ListFails, EnterDir, LeaveDir, CheckPending, EndWalk, JoinWorkers, ApplyHardlink,
       CloseMeta, JoinMeta, Interrupt, WatchdogAbort, vars, ToLoop, Return, Goto, TypeOK
  <2>2. CASE \E q \in Procs : DecPending(q) \/ CheckClosed(q)
    BY <1>3, <2>2 DEF DecPending, CheckClosed, Return, Goto, TypeOK
  <2>3. CASE \E w \in Workers : PopJob(w) \/ CopyOne(w)
    BY <1>3, <2>3 DEF PopJob, CopyOne, Goto, TypeOK
  <2> QED BY <2>1, <2>2, <2>3 DEF ElectSteps, Next, MainStep, DirSteps, WorkerStep, Finished, Procs
<1> QED BY <1>1, <1>2, <1>3

\* The goroutine that wins the compare-and-swap, and the one that pushes.
LEMMA SwapFacts ==
  ASSUME TypeOK, Control, NEW p \in Procs, SwapQueued(p)
  PROVE  /\ UNCHANGED <<metaq, mheld, applied>>
         /\ DirOf(p) \in Dirs
         /\ \A q \in Procs \ {p} : pc'[q] = pc[q]
         /\ \A q \in Procs \ {p} : DirOf(q)' = DirOf(q) \/ (p = Main /\ phase = "walk" /\ q = Main)
         /\ \/ queued[DirOf(p)] /\ queued' = queued /\ pc'[p] # "push"
            \/ /\ ~queued[DirOf(p)] /\ queued' = [queued EXCEPT ![DirOf(p)] = TRUE]
               /\ pc'[p] = "push" /\ DirOf(p)' = DirOf(p)
<1>1. \A q \in Procs \ {p} : pc'[q] = pc[q] /\ held'[q] = held[q] /\ phase' = phase /\ (p # Main => cur' = cur)
  BY DEF SwapQueued, Return, Goto, Drop, TypeOK, mainVars
<1>2. DirOf(p) \in Dirs
  BY DEF SwapQueued, Control
<1>3. \/ queued[DirOf(p)] /\ queued' = queued /\ pc'[p] # "push"
      \/ /\ ~queued[DirOf(p)] /\ queued' = [queued EXCEPT ![DirOf(p)] = TRUE]
         /\ pc'[p] = "push" /\ DirOf(p)' = DirOf(p)
  BY DEF SwapQueued, Return, Goto, TypeOK, mainVars, DirOf
<1> QED BY <1>1, <1>2, <1>3 DEF SwapQueued, DirOf, metaVars

LEMMA PushFacts ==
  ASSUME TypeOK, Control, NEW p \in Procs, PushMeta(p)
  PROVE  /\ UNCHANGED <<queued, mheld, applied>>
         /\ metaq' = metaq \cup {DirOf(p)} /\ DirOf(p) \in Dirs
         /\ pc[p] = "push" /\ pc'[p] # "push"
         /\ \A q \in Procs \ {p} : pc'[q] = pc[q] /\ DirOf(q)' = DirOf(q)
<1>1. \A q \in Procs \ {p} : pc'[q] = pc[q] /\ held'[q] = held[q] /\ phase' = phase /\ (p # Main => cur' = cur)
  BY DEF PushMeta, Return, Goto, Drop, TypeOK
<1>2. DirOf(p) \in Dirs /\ pc'[p] # "push"
  BY DEF PushMeta, Control, Return, Goto, TypeOK
<1> QED BY <1>1, <1>2 DEF PushMeta, DirOf, stateVars

LEMMA NextOnTheWay ==
  ASSUME TypeOK, Control, Barriers, OnTheWay, [Next]_vars
  PROVE  OnTheWay'
<1> SUFFICES ASSUME NEW d \in Dirs, queued'[d]
             PROVE  \/ d \in metaq' \cup applied'
                    \/ \E p \in Procs : pc'[p] = "push" /\ DirOf(p)' = d
                    \/ \E m \in MetaWorkers : mheld'[m] = d
  BY DEF OnTheWay
<1>1. CASE ~ElectSteps
  BY <1>1, ElectFrame DEF OnTheWay
<1>2. ASSUME NEW p \in Procs, SwapQueued(p)
      PROVE  \/ d \in metaq' \cup applied'
             \/ \E q \in Procs : pc'[q] = "push" /\ DirOf(q)' = d
             \/ \E m \in MetaWorkers : mheld'[m] = d
  <2>1. queued[d] \/ (d = DirOf(p) /\ pc'[p] = "push" /\ DirOf(p)' = d)
    BY <1>2, SwapFacts DEF TypeOK
  <2>2. \A q \in Procs : pc[q] = "push" => q # p
    BY <1>2 DEF SwapQueued
  <2> QED BY <1>2, <2>1, <2>2, SwapFacts DEF OnTheWay
<1>3. ASSUME NEW p \in Procs, PushMeta(p)
      PROVE  \/ d \in metaq' \cup applied'
             \/ \E q \in Procs : pc'[q] = "push" /\ DirOf(q)' = d
             \/ \E m \in MetaWorkers : mheld'[m] = d
  BY <1>3, PushFacts DEF OnTheWay
<1>4. ASSUME NEW m \in MetaWorkers, MetaStep(m)
      PROVE  \/ d \in metaq' \cup applied'
             \/ \E q \in Procs : pc'[q] = "push" /\ DirOf(q)' = d
             \/ \E n \in MetaWorkers : mheld'[n] = d
  <2>1. UNCHANGED <<queued, pc, held, cur, phase>>
    BY <1>4 DEF MetaStep, PopMeta, ApplyMeta, mainVars, stateVars
  <2>2. \A q \in Procs : DirOf(q)' = DirOf(q)
    BY <2>1 DEF DirOf
  <2>3. \/ d \in metaq \cup applied
        \/ \E q \in Procs : pc'[q] = "push" /\ DirOf(q)' = d
        \/ \E n \in MetaWorkers : mheld[n] = d
    BY <2>1, <2>2 DEF OnTheWay
  <2>4. CASE PopMeta(m)
    <3>1. PICK c \in metaq : metaq' = metaq \ {c} /\ mheld' = [mheld EXCEPT ![m] = c] /\ applied' = applied
      BY <2>4 DEF PopMeta
    <3>2. mheld[m] = None /\ d # None
      BY <2>4, EntryAssumption DEF PopMeta, Entries
    <3> QED BY <2>3, <3>1, <3>2 DEF TypeOK
  <2>5. CASE ApplyMeta(m)
    BY <2>3, <2>5 DEF ApplyMeta, TypeOK
  <2> QED BY <1>4, <2>4, <2>5 DEF MetaStep
<1> QED BY <1>1, <1>2, <1>3, <1>4 DEF ElectSteps

LEMMA NextOnceOnTheWay ==
  ASSUME TypeOK, Control, Barriers, OnceOnTheWay, [Next]_vars
  PROVE  OnceOnTheWay'
<1>1. CASE ~ElectSteps
  BY <1>1, ElectFrame DEF OnceOnTheWay
<1>2. ASSUME NEW p \in Procs, SwapQueued(p) PROVE OnceOnTheWay'
  <2>1. pc[p] # "push"
    BY <1>2 DEF SwapQueued
  <2>2. \A q \in Procs : pc[q] = "push" => pc'[q] = "push" /\ DirOf(q)' = DirOf(q) /\ q # p
    BY <1>2, <2>1, SwapFacts
  <2>3. CASE queued' = queued /\ pc'[p] # "push"
    BY <1>2, <2>2, <2>3, SwapFacts DEF OnceOnTheWay
  <2>4. CASE /\ ~queued[DirOf(p)] /\ queued' = [queued EXCEPT ![DirOf(p)] = TRUE]
             /\ pc'[p] = "push" /\ DirOf(p)' = DirOf(p)
    <3>1. DirOf(p) \notin metaq \cup applied /\ \A m \in MetaWorkers : mheld[m] # DirOf(p)
      BY <1>2, <2>4, SwapFacts, EntryAssumption DEF OnceOnTheWay, Entries
    <3>2. \A q \in Procs : pc[q] = "push" => DirOf(q) # DirOf(p)
      BY <2>4 DEF OnceOnTheWay
    <3>3. \A d \in Dirs : queued[d] => queued'[d]
      BY <2>4 DEF TypeOK
    <3>4. queued'[DirOf(p)]
      BY <1>2, <2>4, SwapFacts DEF TypeOK
    <3>5. \A q \in Procs : pc'[q] = "push" => q = p \/ (pc[q] = "push" /\ DirOf(q)' = DirOf(q))
      BY <1>2, <2>2, SwapFacts
    <3>6. \A q \in Procs : pc[q] = "push" => DirOf(q) \in Dirs
      BY DEF Control
    <3>7. UNCHANGED <<metaq, mheld, applied>>
      BY <1>2, SwapFacts
    <3>8. \A d \in metaq' : queued'[d] /\ d \notin applied' /\ \A m \in MetaWorkers : mheld'[m] # d
      BY <3>3, <3>7 DEF OnceOnTheWay, TypeOK
    <3>9. \A d \in applied' : queued'[d] /\ \A m \in MetaWorkers : mheld'[m] # d
      BY <3>3, <3>7 DEF OnceOnTheWay, TypeOK
    <3>10. \A m \in MetaWorkers : mheld'[m] # None =>
             /\ queued'[mheld'[m]]
             /\ \A n \in MetaWorkers : mheld'[n] = mheld'[m] => n = m
      BY <3>3, <3>7 DEF OnceOnTheWay, TypeOK
    <3>11. ASSUME NEW q \in Procs, pc'[q] = "push"
           PROVE  /\ queued'[DirOf(q)'] /\ DirOf(q)' \notin metaq' \cup applied'
                  /\ \A m \in MetaWorkers : mheld'[m] # DirOf(q)'
                  /\ \A r \in Procs : pc'[r] = "push" /\ DirOf(r)' = DirOf(q)' => r = q
      <4>1. CASE q = p
        BY <2>4, <3>1, <3>2, <3>4, <3>5, <3>7, <4>1
      <4>2. CASE q # p
        <5>1. pc[q] = "push" /\ DirOf(q)' = DirOf(q) /\ DirOf(q) # DirOf(p)
          BY <3>2, <3>5, <3>11, <4>2
        <5>2. queued'[DirOf(q)]
          BY <3>3, <3>6, <5>1 DEF OnceOnTheWay
        <5> QED BY <2>4, <3>5, <3>7, <5>1, <5>2 DEF OnceOnTheWay
      <4> QED BY <4>1, <4>2
    <3> QED BY <3>8, <3>9, <3>10, <3>11 DEF OnceOnTheWay
  <2> QED BY <1>2, <2>3, <2>4, SwapFacts
<1>3. ASSUME NEW p \in Procs, PushMeta(p) PROVE OnceOnTheWay'
  BY <1>3, PushFacts DEF OnceOnTheWay
<1>4. ASSUME NEW m \in MetaWorkers, MetaStep(m) PROVE OnceOnTheWay'
  <2>1. UNCHANGED <<queued, pc, held, cur, phase>>
    BY <1>4 DEF MetaStep, PopMeta, ApplyMeta, mainVars, stateVars
  <2>2. \A q \in Procs : DirOf(q)' = DirOf(q)
    BY <2>1 DEF DirOf
  <2>3. CASE PopMeta(m)
    <3>1. PICK d \in metaq : metaq' = metaq \ {d} /\ mheld' = [mheld EXCEPT ![m] = d] /\ applied' = applied
      BY <2>3 DEF PopMeta
    <3>2. \A n \in MetaWorkers : mheld'[n] = (IF n = m THEN d ELSE mheld[n])
      BY <3>1 DEF TypeOK
    <3>3. queued[d] /\ d \notin applied /\ \A n \in MetaWorkers : mheld[n] # d
      BY <3>1 DEF OnceOnTheWay
    <3> QED BY <2>1, <2>2, <3>1, <3>2, <3>3 DEF OnceOnTheWay
  <2>4. CASE ApplyMeta(m)
    <3>1. \A n \in MetaWorkers : mheld'[n] = (IF n = m THEN None ELSE mheld[n])
      BY <2>4 DEF ApplyMeta, TypeOK
    <3>2. applied' = applied \cup {mheld[m]} /\ metaq' = metaq /\ mheld[m] # None
      BY <2>4 DEF ApplyMeta
    <3>3. None \notin Dirs
      BY EntryAssumption DEF Entries
    <3>4. \A p \in Procs : pc[p] = "push" => DirOf(p) \in Dirs
      BY DEF Control
    <3> QED BY <2>1, <2>2, <3>1, <3>2, <3>3, <3>4 DEF OnceOnTheWay, TypeOK
  <2> QED BY <1>4, <2>3, <2>4 DEF MetaStep
<1> QED BY <1>1, <1>2, <1>3, <1>4 DEF ElectSteps

-----------------------------------------------------------------------------
(* The whole invariant, and what it gives.                                  *)

IInv == CountInv /\ Fresh /\ Stack /\ Responsible /\ OnTheWay /\ OnceOnTheWay

LEMMA IInvInvariant == Spec => []IInv
<1>1. Init => IInv
  <2>1. Init => CountInv /\ Stack /\ Fresh
    BY InitType, InitControl, InitPlaces, InitStack DEF CountInv
  <2>2. Init => Responsible /\ OnTheWay /\ OnceOnTheWay
    BY DEF Init, Responsible, OnTheWay, OnceOnTheWay, Procs
  <2> QED BY <2>1, <2>2 DEF IInv
<1>2. IInv /\ [Next]_vars => IInv'
  BY NextType, NextControl, NextBarriers, NextPlaces, NextCounts, NextFresh, NextStack,
     NextResponsible, NextOnTheWay, NextOnceOnTheWay DEF IInv, CountInv
<1> QED BY <1>1, <1>2, PTL DEF Spec

\* When Run has joined the metadata workers, the directories whose metadata
\* was applied are exactly the ones the walk recorded.
THEOREM EveryDirApplied == Spec => []AllApplied
<1>1. IInv => AllApplied
  <2> SUFFICES ASSUME IInv, phase = "done" PROVE applied = recorded
    BY DEF AllApplied
  <2> USE DEF IInv, CountInv
  <2>1. \A p \in Procs : pc[p] \in {"idle", "loop"}
    BY DEF Control, Barriers, Procs
  <2>2. AllOwed = {}
    BY <2>1 DEF AllOwed, Owing, Barriers
  <2>3. \A d \in Dirs : pending[d] = 0
    <3>1. \A d \in Dirs : Owed(d) = {}
      BY <2>2 DEF Owed
    <3> QED BY <3>1, FS_EmptySet DEF PendingCounts
  <2>4. \A d \in recorded : closed[d]
    BY TreeAssumption DEF Stack, Control, Closing
  <2>5. \A d \in Dirs : closed[d] => queued[d]
    BY <2>1, <2>3 DEF Responsible
  <2>6. \A d \in Dirs : queued[d] => d \in applied
    BY <2>1, EntryAssumption DEF OnTheWay, Barriers, Entries
  <2>7. \A d \in applied : d \in recorded
    BY DEF OnceOnTheWay, Stack, TypeOK
  <2> QED BY <2>4, <2>5, <2>6, <2>7 DEF TypeOK
<1> QED BY <1>1, IInvInvariant, PTL

\* Nobody pushes a directory that somebody else pushes or that has been
\* pushed already, however closeDir and completeDirWork interleave.
THEOREM NoSecondPush == Spec => []PushedOnce
<1>1. IInv => PushedOnce
  <2> SUFFICES ASSUME IInv, NEW p \in Procs, pc[p] = "push"
               PROVE  /\ DirOf(p) \in recorded \ (metaq \cup applied)
                      /\ Pushers(DirOf(p)) = {p} /\ Holders(DirOf(p)) = {}
    BY DEF PushedOnce
  <2> USE DEF IInv, CountInv
  <2>1. DirOf(p) \in Dirs /\ DirOf(p) \in recorded
    BY DEF Control, Stack
  <2> QED BY <2>1 DEF OnceOnTheWay, Pushers, Holders
<1> QED BY <1>1, IInvInvariant, PTL

-----------------------------------------------------------------------------
(* Every file the walk has picked is tried.                                 *)

\* As long as the run is not aborted, a file is still to be picked, in a
\* goroutine's hands, in the queue, or tried.
OnHand(f) ==
    \/ f \in ran \cup left[ParentOf[f]] \cup jobs
    \/ \E p \in Procs : pc[p] \in {"visit", "enqueue", "copy"} /\ held[p] = f
Tried == aborted \/ \A f \in Files : OnHand(f)

LEMMA NextTried ==
  ASSUME TypeOK, Control, Tried, [Next]_vars
  PROVE  Tried'
<1> SUFFICES ASSUME ~aborted', NEW f \in Files PROVE OnHand(f)'
  BY DEF Tried
<1> USE DEF mainVars, metaVars, stateVars
<1>0. Main \notin Workers /\ ParentOf[f] \in Dirs \cup {Top}
      /\ f \notin Dirs \cup Links \cup Others
  BY ProcAssumption, TreeAssumption, EntryAssumption DEF Entries, Deferred
<1>a. ~aborted
  BY DEF Next, MainStep, Walk, PickEntry, VisitOther, CountFile, PushJob, VisitLink, MakeDir, ListFails, EnterDir,
     LeaveDir, StoreClosed, CheckPending, EndWalk, DirSteps, DecPending, CheckClosed, SwapQueued, PushMeta,
     WorkerStep, PopJob, CopyOne, JoinWorkers, ApplyHardlink, CloseMeta, JoinMeta, MetaStep, PopMeta, ApplyMeta,
     Interrupt, WatchdogAbort, Finished, vars, MayFail, Fail, TypeOK
<1>b. OnHand(f)
  BY <1>a DEF Tried
<1>1. CASE PickEntry
  <2>1. PICK e \in left[cur] : left' = [left EXCEPT ![cur] = @ \ {e}] /\ held' = [held EXCEPT ![Main] = e]
    BY <1>1 DEF PickEntry
  <2>2. ParentOf[e] = cur
    BY <2>1 DEF Control, TypeOK
  <2>3. pc' = [pc EXCEPT ![Main] = "visit"] /\ pc[Main] = "loop" /\ ran' = ran /\ jobs' = jobs
    BY <1>1 DEF PickEntry, Goto
  <2> QED BY <1>0, <1>b, <2>1, <2>2, <2>3 DEF OnHand, TypeOK, Procs
<1>2. CASE VisitOther \/ VisitLink \/ MakeDir
  BY <1>0, <1>b, <1>2 DEF VisitOther, VisitLink, MakeDir, Visiting, ToLoop, Drop, Goto, OnHand, TypeOK, Procs
<1>3. CASE CountFile
  BY <1>0, <1>b, <1>3 DEF CountFile, Visiting, Goto, OnHand, TypeOK, Procs
<1>4. CASE PushJob
  BY <1>0, <1>b, <1>4 DEF PushJob, ToLoop, Drop, Goto, OnHand, TypeOK, Procs
<1>5. CASE ListFails \/ EnterDir \/ LeaveDir \/ StoreClosed \/ CheckPending
  BY <1>0, <1>b, <1>5 DEF ListFails, EnterDir, LeaveDir, StoreClosed, CheckPending, Return, ToLoop, Drop, Goto,
     OnHand, TypeOK, Procs
<1>6. CASE EndWalk \/ JoinWorkers \/ CloseMeta \/ JoinMeta \/ Interrupt \/ WatchdogAbort \/ UNCHANGED vars
  BY <1>b, <1>6 DEF EndWalk, JoinWorkers, CloseMeta, JoinMeta, Interrupt, WatchdogAbort, OnHand, vars
<1>7. ASSUME NEW p \in Procs, DirSteps(p) PROVE OnHand(f)'
  <2>1. pc[p] \notin {"visit", "enqueue", "copy"} /\ ran' = ran /\ left' = left /\ jobs' = jobs
    BY <1>7 DEF DirSteps, DecPending, CheckClosed, SwapQueued, PushMeta, Return
  <2>2. \A q \in Procs : q # p => pc'[q] = pc[q] /\ held'[q] = held[q]
    BY <1>7 DEF DirSteps, DecPending, CheckClosed, SwapQueued, PushMeta, Return, Goto, Drop, TypeOK
  <2> QED BY <1>b, <2>1, <2>2 DEF OnHand
<1>8. CASE ApplyHardlink
  <2>1. pc[Main] = "loop" /\ ran \subseteq ran' /\ left' = left /\ jobs' = jobs
        /\ \A q \in Procs : q # Main => pc'[q] = pc[q] /\ held'[q] = held[q]
    BY <1>8 DEF ApplyHardlink, Goto, TypeOK
  <2> QED BY <1>b, <2>1 DEF OnHand
<1>9. ASSUME NEW w \in Workers, PopJob(w) \/ CopyOne(w) PROVE OnHand(f)'
  BY <1>0, <1>a, <1>b, <1>9 DEF PopJob, CopyOne, Goto, OnHand, TypeOK, Procs
<1>10. ASSUME NEW m \in MetaWorkers, MetaStep(m) PROVE OnHand(f)'
  BY <1>b, <1>10 DEF MetaStep, PopMeta, ApplyMeta, OnHand
<1> QED
  BY <1>1, <1>2, <1>3, <1>4, <1>5, <1>6, <1>7, <1>8, <1>9, <1>10
     DEF Next, MainStep, Walk, WorkerStep, Finished, Procs

\* The hardlink pass starts when no job is queued or at work, and then every
\* file the walk has picked was tried, unless the run was aborted.
THEOREM EveryFileTried == Spec => []QueueDrained
<1>1. Init => Tried
  BY TreeAssumption DEF Init, Tried, OnHand, Entries
<1>2. IInv /\ Tried /\ [Next]_vars => Tried'
  BY NextTried DEF IInv, CountInv
<1>3. IInv /\ Tried => QueueDrained
  <2> SUFFICES ASSUME IInv, Tried, phase \in {"links", "meta", "done"}
               PROVE  /\ jobs = {} /\ \A w \in Workers : pc[w] = "idle"
                      /\ aborted \/ \A f \in Files : f \in ran \cup left[ParentOf[f]]
    BY DEF QueueDrained
  <2>1. jobs = {} /\ \A w \in Workers : pc[w] = "idle"
    BY DEF IInv, CountInv, Barriers
  <2>2. \A p \in Procs : pc[p] \notin {"visit", "enqueue", "copy"}
    BY <2>1 DEF IInv, CountInv, Control, Procs
  <2> QED BY <2>1, <2>2 DEF Tried, OnHand
<1> QED BY <1>1, <1>2, <1>3, IInvInvariant, PTL DEF Spec

-----------------------------------------------------------------------------
(* A directory with a single deferred entry keeps its times.                *)

Lone(d) == \A e, g \in Deferred : ParentOf[e] = d /\ ParentOf[g] = d => e = g

\* d is queued, or some goroutine that found it finished is on the way to that.
ElectPCs == {"chkClosed", "cas", "push"}
Elected(d) == queued[d] \/ \E p \in Procs : pc[p] \in ElectPCs /\ DirOf(p) = d

\* The deferred entries of d are done with: none is owed, or will be picked.
Over(d) ==
    \A e \in Deferred : ParentOf[e] = d =>
        /\ e \notin AllOwed
        /\ e \in left[d] => closed[d]
        /\ ~(pc[Main] = "visit" /\ held[Main] = e)

LoneOver == \A d \in Dirs : Lone(d) /\ Elected(d) => Over(d)
LoneKept == \A d \in drifted : ~Lone(d)

LEMMA OwedGrows ==
  ASSUME TypeOK, Control, Places, [Next]_vars, NEW e, e \in AllOwed'
  PROVE  e \in AllOwed \/ (pc[Main] = "visit" /\ held[Main] = e)
<1>1. CASE CountFile
  BY <1>1, OwedCount DEF CountFile, Visiting
<1>2. CASE VisitLink
  BY <1>2, OwedLink DEF VisitLink, Visiting
<1>3. CASE PushJob \/ ApplyHardlink \/ \E w \in Workers : PopJob(w) \/ CopyOne(w)
  BY <1>3, OwedMoves
<1>4. CASE \E p \in Procs : DecPending(p)
  BY <1>4, OwedDec
<1> QED BY <1>1, <1>2, <1>3, <1>4, OwedRest DEF OwedSteps

\* The walk is in a directory that it has not closed.
LEMMA CurOpen ==
  ASSUME Control, Stack, phase = "walk", pc[Main] \notin {"chkPending", "cas", "push"}, cur \in Dirs
  PROVE  ~closed[cur]
<1>1. cur \in Anc[cur]
  BY TreeAssumption
<1> QED BY <1>1 DEF Stack, Closing

LEMMA OverKept ==
  ASSUME TypeOK, Control, Barriers, Places, Stack, [Next]_vars, NEW d \in Dirs, Over(d)
  PROVE  Over(d)'
<1> USE DEF mainVars, metaVars, stateVars
<1>0. Main \notin Workers /\ Main \in Procs BY ProcAssumption DEF Procs
<1>1. left'[d] \subseteq left[d] /\ (closed[d] => closed'[d])
  BY DEF StoreClosed, TypeOK, Next, MainStep, Walk, PickEntry, VisitOther, CountFile, PushJob, VisitLink,
     MakeDir, ListFails, EnterDir, LeaveDir, CheckPending, EndWalk, DirSteps, DecPending, CheckClosed,
     SwapQueued, PushMeta, Return, JoinWorkers, ApplyHardlink, CloseMeta, JoinMeta, Interrupt, WatchdogAbort,
     Finished, WorkerStep, PopJob, CopyOne, MetaStep, PopMeta, ApplyMeta, vars
<1>2. CASE PickEntry
  <2>1. PICK g \in left[cur] : held' = [held EXCEPT ![Main] = g]
    BY <1>2 DEF PickEntry
  <2>2. ParentOf[g] = cur /\ (cur \in Dirs => ~closed[cur])
    BY <1>2, <2>1, CurOpen DEF PickEntry, Control, TypeOK
  <2>3. held'[Main] = g
    BY <1>0, <2>1 DEF TypeOK
  <2>4. ASSUME NEW e \in Deferred, ParentOf[e] = d PROVE e # g
    BY <2>1, <2>2, <2>4 DEF Over
  <2> QED BY <1>1, <2>3, <2>4, <1>2, OwedGrows DEF Over
<1>3. CASE ~PickEntry
  <2>1. pc'[Main] = "visit" => pc[Main] = "visit" /\ held'[Main] = held[Main]
    BY <1>0, <1>3 DEF StoreClosed, TypeOK, Next, MainStep, Walk, VisitOther, CountFile, PushJob, VisitLink,
     MakeDir, ListFails, EnterDir, LeaveDir, CheckPending, EndWalk, DirSteps, DecPending, CheckClosed,
     SwapQueued, PushMeta, Return, JoinWorkers, ApplyHardlink, CloseMeta, JoinMeta, Interrupt, WatchdogAbort,
     Finished, WorkerStep, PopJob, CopyOne, MetaStep, PopMeta, ApplyMeta, vars, Visiting, ToLoop, Drop, Goto
  <2> QED BY <1>1, <2>1, OwedGrows DEF Over
<1> QED BY <1>2, <1>3

\* A directory is elected by whoever finds its counter at zero.
LEMMA ElectedNew ==
  ASSUME TypeOK, Control, Barriers, [Next]_vars, NEW d \in Dirs, ~Elected(d), Elected(d)'
  PROVE  \/ \E p \in Procs : DecPending(p) /\ DirOf(p) = d /\ pending'[d] = 0
         \/ CheckPending /\ cur = d /\ pending[d] = 0
<1> USE DEF mainVars, metaVars, stateVars, ElectPCs
<1>0. Main \notin Workers /\ Main \in Procs BY ProcAssumption DEF Procs
<1>1. ASSUME NEW p \in Procs, DecPending(p)
      PROVE  DirOf(p) = d /\ pending'[d] = 0
  <2>1. \A q \in Procs \ {p} : pc'[q] = pc[q] /\ held'[q] = held[q] /\ phase' = phase
                               /\ (p # Main => cur' = cur) /\ (phase # "walk" => cur' = cur)
    BY <1>1 DEF DecPending, Return, Goto, Drop, TypeOK
  <2>2. p = Main => phase = "links"
    BY <1>1, DecFacts DEF DecPending, TypeOK
  <2>3. \A q \in Procs \ {p} : DirOf(q)' = DirOf(q)
    BY <2>1, <2>2 DEF DirOf
  <2>4. pc'[p] \in ElectPCs /\ DirOf(p)' = d
    BY <1>1, <2>1, <2>3 DEF Elected, DecPending
  <2>5. pending'[DirOf(p)] = 0 /\ held' = held /\ cur' = cur /\ phase' = phase
    BY <1>1, <2>4 DEF DecPending, Return, Goto, TypeOK
  <2> QED BY <2>4, <2>5 DEF DirOf
<1>2. CASE CheckPending
  <2>1. phase = "walk" /\ cur \in Dirs /\ DirOf(Main) = cur
    BY <1>2 DEF CheckPending, Control, TypeOK, DirOf
  <2>2. \A q \in Procs \ {Main} : pc'[q] = pc[q] /\ DirOf(q)' = DirOf(q)
    BY <1>2 DEF CheckPending, Return, Goto, Drop, TypeOK, DirOf
  <2>3. pc'[Main] \in ElectPCs /\ DirOf(Main)' = d
    BY <1>2, <2>2 DEF Elected, CheckPending
  <2>4. pending[cur] = 0 /\ cur' = cur /\ phase' = phase
    BY <1>0, <1>2, <2>3 DEF CheckPending, Return, Goto, TypeOK
  <2> QED BY <1>2, <2>1, <2>3, <2>4 DEF DirOf
<1>3. ASSUME NEW p \in Procs, CheckClosed(p) \/ SwapQueued(p) \/ PushMeta(p) PROVE FALSE
  <2>1. pc[p] \in ElectPCs
    BY <1>3 DEF CheckClosed, SwapQueued, PushMeta
  <2>2. DirOf(p) # d
    BY <2>1 DEF Elected
  <2>3. \A q \in Procs \ {p} : pc'[q] = pc[q] /\ DirOf(q)' = DirOf(q)
    BY <1>3 DEF CheckClosed, SwapQueued, PushMeta, Return, Goto, Drop, TypeOK, DirOf
  <2>4. queued'[d] = queued[d]
    BY <1>3, <2>2 DEF CheckClosed, SwapQueued, PushMeta, TypeOK
  <2>5. pc'[p] \in ElectPCs => DirOf(p)' = DirOf(p)
    BY <1>3 DEF CheckClosed, SwapQueued, PushMeta, Return, Goto, TypeOK, DirOf
  <2> QED BY <2>2, <2>3, <2>4, <2>5 DEF Elected
<1>4. CASE /\ ~\E p \in Procs : DecPending(p) \/ CheckClosed(p) \/ SwapQueued(p) \/ PushMeta(p)
           /\ ~CheckPending
  <2>1. queued' = queued
    BY <1>4 DEF StoreClosed, Next, MainStep, Walk, PickEntry, VisitOther, CountFile, PushJob, VisitLink,
       MakeDir, ListFails, EnterDir, LeaveDir, EndWalk, DirSteps, JoinWorkers, ApplyHardlink, CloseMeta,
       JoinMeta, Interrupt, WatchdogAbort, Finished, WorkerStep, PopJob, CopyOne, MetaStep, PopMeta, ApplyMeta,
       vars, Procs
  <2>2. ASSUME NEW q \in Procs, pc'[q] \in ElectPCs PROVE pc[q] \in ElectPCs
    BY <1>0, <1>4, <2>2 DEF StoreClosed, TypeOK, Next, MainStep, Walk, PickEntry, VisitOther, CountFile, PushJob,
       VisitLink, MakeDir, ListFails, EnterDir, LeaveDir, EndWalk, DirSteps, JoinWorkers, ApplyHardlink, CloseMeta,
       JoinMeta, Interrupt, WatchdogAbort, Finished, WorkerStep, PopJob, CopyOne, MetaStep, PopMeta, ApplyMeta,
       vars, ToLoop, Goto, Procs
  <2>3. ASSUME NEW q \in Procs, pc[q] \in ElectPCs PROVE DirOf(q)' = DirOf(q)
    BY <1>4, <2>3, StayPut DEF DirPCs, OwnStep
  <2> QED BY <2>1, <2>2, <2>3 DEF Elected
<1> QED BY <1>1, <1>2, <1>3, <1>4

LEMMA NextLoneOver ==
  ASSUME IInv, IInv', LoneOver, [Next]_vars
  PROVE  LoneOver'
<1> SUFFICES ASSUME NEW d \in Dirs, Lone(d), Elected(d)' PROVE Over(d)'
  BY DEF LoneOver, Lone
<1> USE DEF IInv, CountInv
<1>1. CASE Elected(d)
  BY <1>1, OverKept DEF LoneOver
<1>2. ASSUME NEW p \in Procs, DecPending(p), DirOf(p) = d, pending'[d] = 0
      PROVE  Over(d)'
  <2>1. Owed(d)' = {}
    <3>1. pending'[d] = Cardinality(Owed(d)')
      BY DEF PendingCounts
    <3>2. IsFiniteSet(Owed(d)')
      <4>1. TypeOK' /\ Control' /\ Places'
        OBVIOUS
      <4>2. (AllOwed \subseteq Deferred)'
        BY <4>1, OwedDeferred, PTL
      <4>3. Owed(d)' \subseteq Deferred
        BY <4>2 DEF Owed
      <4> QED BY <4>3, EntryAssumption, FS_Subset
    <3> QED BY <1>2, <3>1, <3>2, FS_EmptySet
  <2>2. held[p] \in Deferred /\ ParentOf[held[p]] = d /\ held[p] \in AllOwed
    BY <1>2, DecFacts, OwedMember DEF DecPending, TypeOK, Owing
  <2>3. ASSUME NEW e \in Deferred, ParentOf[e] = d
        PROVE  e = held[p]
    BY <2>2, <2>3 DEF Lone
  <2>4. held[p] \notin left[d] /\ ~(pc[Main] = "visit" /\ held[Main] = held[p])
    BY <2>2 DEF Places
  <2>5. left' = left /\ (pc'[Main] # "visit" \/ (pc'[Main] = pc[Main] /\ held'[Main] = held[Main]))
    BY <1>2 DEF DecPending, Return, Goto, Drop, TypeOK, mainVars, Procs
  <2>6. held[p] \notin AllOwed'
    BY <2>1, <2>2 DEF Owed
  <2> QED BY <2>3, <2>4, <2>5, <2>6 DEF Over
<1>3. CASE CheckPending /\ cur = d /\ pending[d] = 0
  <2>1. Owed(d) = {}
    BY <1>3, OwedFinite, FS_EmptySet DEF PendingCounts
  <2>2. closed[d] /\ pc[Main] = "chkPending"
    <3>1. Main \in Procs /\ pc[Main] = "chkPending" /\ DirOf(Main) = d
      BY <1>3 DEF CheckPending, Control, TypeOK, DirOf, Procs
    <3> QED BY <3>1 DEF Stack
  <2>3. Over(d)
    BY <2>1, <2>2 DEF Over, Owed
  <2> QED BY <2>3, OverKept
<1> QED BY <1>1, <1>2, <1>3, ElectedNew

\* A write into a directory comes from an entry that is owed, or from the walk
\* that is in it; a lone entry's directory is elected after it.
LEMMA NextLoneKept ==
  ASSUME IInv, LoneOver, LoneKept, [Next]_vars
  PROVE  LoneKept'
<1> SUFFICES ASSUME NEW d \in drifted', d \notin drifted PROVE ~Lone(d)
  BY DEF LoneKept, Lone
<1> USE DEF IInv, CountInv, mainVars, metaVars, stateVars
<1>0. Main \notin Workers /\ Main \in Procs BY ProcAssumption DEF Procs
<1>1. CASE VisitOther \/ MakeDir
  <2>1. phase = "walk" /\ pc[Main] = "visit" /\ d = cur /\ d \in applied
    BY <1>1 DEF VisitOther, MakeDir, Visiting, Touch
  <2>2. d \in Dirs /\ closed[d]
    BY <2>1 DEF OnceOnTheWay, Stack, TypeOK
  <2> QED BY <2>1, <2>2, CurOpen
<1>2. ASSUME NEW e, e \in AllOwed, e \in Deferred, d = ParentOf[e], d \in applied
      PROVE  ~Lone(d)
  <2>1. d \in Dirs /\ queued[d]
    BY <1>2 DEF OnceOnTheWay, TypeOK
  <2> QED BY <1>2, <2>1 DEF LoneOver, Elected, Over
<1>3. ASSUME NEW w \in Workers, CopyOne(w) PROVE ~Lone(d)
  <2>1. held[w] \in Files /\ held[w] \in AllOwed /\ d = ParentOf[held[w]] /\ d \in applied
    BY <1>3, OwedMember DEF CopyOne, Touch, Control, Owing, Procs
  <2> QED BY <1>2, <2>1 DEF Deferred
<1>4. CASE ApplyHardlink
  <2>1. PICK l \in hardlinks : d = ParentOf[l] /\ d \in applied
    BY <1>4 DEF ApplyHardlink, Touch
  <2>2. l \in AllOwed /\ l \in Deferred
    BY OwedMember DEF TypeOK, Deferred
  <2> QED BY <1>2, <2>1, <2>2
<1>5. CASE ~(VisitOther \/ MakeDir \/ ApplyHardlink) /\ ~\E w \in Workers : CopyOne(w)
  BY <1>5 DEF StoreClosed, Next, MainStep, Walk, PickEntry, CountFile, PushJob, VisitLink,
     ListFails, EnterDir, LeaveDir, CheckPending, EndWalk, DirSteps, DecPending, CheckClosed,
     SwapQueued, PushMeta, JoinWorkers, CloseMeta, JoinMeta, Interrupt, WatchdogAbort,
     Finished, WorkerStep, PopJob, MetaStep, PopMeta, ApplyMeta, vars, Procs
<1> QED BY <1>1, <1>3, <1>4, <1>5

\* Whatever the tree and the schedule, only a directory with two deferred
\* entries can lose the times it was given to a late copy or link.
THEOREM LoneEntryCorrect == Spec => []LoneEntryKept
<1>1. Init => LoneOver /\ LoneKept
  BY DEF Init, LoneOver, LoneKept, Elected, ElectPCs, Procs
<1>2. IInv /\ IInv' /\ LoneOver /\ LoneKept /\ [Next]_vars => LoneOver' /\ LoneKept'
  BY NextLoneOver, NextLoneKept
<1>3. LoneKept => LoneEntryKept
  <2> SUFFICES ASSUME NEW d, ~Lone(d) PROVE Cardinality({e \in Deferred : ParentOf[e] = d}) > 1
    BY DEF LoneKept, LoneEntryKept
  <2> DEFINE S == {e \in Deferred : ParentOf[e] = d}
  <2>1. PICK e \in S, g \in S : e # g
    BY DEF Lone
  <2>2. IsFiniteSet(S) /\ Cardinality(S) \in Nat
    BY EntryAssumption, FS_Subset, FS_CardinalityType
  <2>3. S # {} /\ ~\E x : S = {x}
    BY <2>1
  <2>4. Cardinality(S) # 0 /\ Cardinality(S) # 1
    BY <2>2, <2>3, FS_EmptySet, FS_Singleton
  <2> QED BY <2>2, <2>4
<1> QED BY <1>1, <1>2, <1>3, IInvInvariant, PTL DEF Spec

-----------------------------------------------------------------------------
(* The protocol implements DirLife, step by step.                           *)

\* The refinement mapping, before and after a step.
LifeIn(rec, clo, app) ==
    [d \in Dirs |-> IF d \in app THEN "stamped" ELSE IF clo[d] THEN "closed" ELSE IF d \in rec THEN "open" ELSE "unseen"]

LEMMA LifeMaps == life = LifeIn(recorded, closed, applied) /\ life' = LifeIn(recorded', closed', applied')
  BY DEF life, LifeIn

LEMMA LifeStep ==
  ASSUME IInv, [Next]_vars
  PROVE  [Life!Next]_life
<1> USE DEF IInv, CountInv
<1>0. Main \notin Workers /\ Main \in Procs
  BY ProcAssumption DEF Procs
<1>a. \A d \in applied : closed[d]
  BY DEF OnceOnTheWay, Stack, TypeOK
<1>b. \A d \in Dirs : closed[d] => d \in recorded
  BY DEF Stack
<1>1. ASSUME EnterDir PROVE \E d \in Dirs : Life!Open(d)
  <2> DEFINE d == held[Main]
  <2>1. d \in Dirs /\ d \notin recorded /\ ParentOf[d] = cur /\ phase = "walk" /\ ~Closing
    BY <1>1 DEF EnterDir, Control, Fresh, Closing, TypeOK
  <2>2. recorded' = recorded \cup {d} /\ UNCHANGED <<closed, applied>>
    BY <1>1 DEF EnterDir, metaVars
  <2>3. life[d] = "unseen"
    BY <1>a, <1>b, <2>1, LifeMaps DEF LifeIn
  <2>4. cur = Top \/ life[cur] = "open"
    <3>1. cur \in Dirs => cur \in recorded /\ ~closed[cur]
      BY <2>1, TreeAssumption DEF Stack
    <3> QED BY <1>a, <3>1, LifeMaps DEF LifeIn, TypeOK
  <2>5. life' = [life EXCEPT ![d] = "open"]
    <3>1. d \notin applied /\ ~closed[d]
      BY <1>a, <1>b, <2>1 DEF TypeOK
    <3> HIDE DEF d
    <3> QED BY <2>1, <2>2, <3>1, LifeMaps DEF LifeIn
  <2> QED BY <2>1, <2>3, <2>4, <2>5 DEF Life!Open
<1>2. ASSUME StoreClosed PROVE \E d \in Dirs : Life!Close(d)
  <2>1. cur \in Dirs /\ phase = "walk" /\ ~Closing
    BY <1>2 DEF StoreClosed, Control, Closing, TypeOK
  <2>2. closed' = [closed EXCEPT ![cur] = TRUE] /\ UNCHANGED <<recorded, applied>>
    BY <1>2 DEF StoreClosed, metaVars
  <2>3. cur \in recorded /\ ~closed[cur] /\ cur \notin applied
    BY <1>a, <2>1, TreeAssumption DEF Stack
  <2>4. ASSUME NEW c \in Dirs, ParentOf[c] = cur PROVE life[c] # "open"
    <3>1. c \notin Anc[cur]
      BY <2>4, TreeAssumption
    <3>2. ~(c \in recorded /\ ~closed[c])
      BY <2>1, <3>1 DEF Stack
    <3> QED BY <3>2, LifeMaps DEF LifeIn
  <2>5. life[cur] = "open" /\ life' = [life EXCEPT ![cur] = "closed"]
    BY <2>1, <2>2, <2>3, LifeMaps DEF LifeIn, TypeOK
  <2> QED BY <2>1, <2>4, <2>5 DEF Life!Close
<1>3. ASSUME NEW m \in MetaWorkers, ApplyMeta(m) PROVE \E d \in Dirs : Life!Stamp(d)
  <2> DEFINE d == mheld[m]
  <2>1. d \in Dirs /\ d \notin applied /\ closed[d]
    BY <1>3 DEF ApplyMeta, OnceOnTheWay, Stack, TypeOK
  <2>2. applied' = applied \cup {d} /\ UNCHANGED <<recorded, closed>>
    BY <1>3 DEF ApplyMeta, stateVars
  <2> HIDE DEF d
  <2>3. life[d] = "closed" /\ life' = [life EXCEPT ![d] = "stamped"]
    BY <2>1, <2>2, LifeMaps DEF LifeIn
  <2> QED BY <2>1, <2>3 DEF Life!Stamp
<1>4. ASSUME NEW p \in Procs, DirSteps(p) PROVE UNCHANGED <<recorded, closed, applied>>
  BY <1>4 DEF DirSteps, DecPending, CheckClosed, SwapQueued, PushMeta, metaVars, stateVars
<1>5. ASSUME \/ PickEntry \/ VisitOther \/ CountFile \/ PushJob \/ VisitLink \/ MakeDir \/ ListFails \/ LeaveDir \/ CheckPending
             \/ EndWalk \/ JoinWorkers \/ ApplyHardlink \/ CloseMeta \/ JoinMeta \/ Interrupt \/ WatchdogAbort \/ UNCHANGED vars
             \/ (\E w \in Workers : PopJob(w) \/ CopyOne(w)) \/ \E m \in MetaWorkers : PopMeta(m)
      PROVE  UNCHANGED <<recorded, closed, applied>>
  BY <1>5 DEF PickEntry, VisitOther, CountFile, PushJob, VisitLink, MakeDir, ListFails, LeaveDir, CheckPending, EndWalk, JoinWorkers,
     ApplyHardlink, CloseMeta, JoinMeta, Interrupt, WatchdogAbort, vars, PopJob, CopyOne, PopMeta, metaVars, stateVars
<1>6. UNCHANGED <<recorded, closed, applied>> => life' = life
  BY LifeMaps
<1> QED BY <1>0, <1>1, <1>2, <1>3, <1>4, <1>5, <1>6
  DEF Next, MainStep, Walk, WorkerStep, MetaStep, Finished, Procs, Life!Next

\* The run implements DirLife but for its fairness: a directory is opened below
\* an open one, closed after those opened below it, and stamped once, after
\* that, whatever the tree and however many workers race.
THEOREM ImplementsDirLife == Spec => Life!Init /\ [][Life!Next]_life
<1>1. Init => Life!Init
  BY LifeMaps DEF Init, LifeIn, Life!Init
<1>2. IInv /\ [Next]_vars => [Life!Next]_life
  BY LifeStep
<1> QED BY <1>1, <1>2, IInvInvariant, PTL DEF Spec
=============================================================================
