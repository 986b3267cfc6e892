--------------------------- MODULE PrefetchProofs ---------------------------
(* Proofs about Prefetch, for every directory graph, list of roots and pool  *)
(* of goroutines: types, one task per result, no task without a goroutine on *)
(* its way, nothing left in the map.                                         *)
EXTENDS Prefetch, Integers, FiniteSetTheorems, SequenceTheorems, TLAPS

Frame == [dir : Dirs, next : Nat \ {0}, sched : Nat]

\* The call stack, and that scheduling is never behind visiting.
Stacked ==
    /\ frames \in Seq(Frame)
    /\ pc = "loop" => frames # <<>>
    /\ \A i \in 1..Len(frames) : frames[i].next <= frames[i].sched + 1

\* When close has come and what it has emptied; who may hold a task.
Phases ==
    /\ closed <=> pc \in {"broadcast", "join", "done"}
    /\ closed => stack = <<>>
    /\ left # {} => closed
    /\ \A l \in Listers : task[l] # None => l \notin waiting \cup woken \cup left

\* The tasks, queued or taken, are different directories, each one wanted; and
\* what is wanted has a task until close drops the queue.
Tasks ==
    /\ \A i, j \in 1..Len(stack) : stack[i] = stack[j] => i = j
    /\ \A l, m \in Listers : task[l] # None /\ task[l] = task[m] => l = m
    /\ \A l \in Listers, i \in 1..Len(stack) : task[l] # stack[i]
    /\ \A i \in 1..Len(stack) : stack[i] \in DOMAIN results /\ results[stack[i]] = "wanted"
    /\ \A l \in Listers : task[l] # None => task[l] \in DOMAIN results /\ results[task[l]] = "wanted"
    /\ ~closed => \A d \in DOMAIN results : results[d] = "wanted" =>
                      \/ \E i \in 1..Len(stack) : stack[i] = d
                      \/ \E l \in Listers : task[l] = d

IInv == TypeOK /\ Stacked /\ Phases /\ Tasks

-----------------------------------------------------------------------------
(* Facts about the operators.                                               *)

LEMMA Front ==
    ASSUME NEW S, NEW s \in Seq(S), s # <<>>
    PROVE  /\ Len(s) \in Nat /\ Len(s) >= 1
           /\ SubSeq(s, 1, Len(s) - 1) \in Seq(S)
           /\ Len(SubSeq(s, 1, Len(s) - 1)) = Len(s) - 1
           /\ \A i \in 1..(Len(s) - 1) : SubSeq(s, 1, Len(s) - 1)[i] = s[i]
<1>1. Len(s) \in Nat /\ Len(s) >= 1
  BY EmptySeq, LenProperties
<1>2. \A i \in 1..Len(s) : s[i] \in S
  BY <1>1, ElementOfSeq
<1> DEFINE n == Len(s) - 1
<1>3. n \in Int /\ 1 \in Int /\ n >= 0 /\ \A i \in 1..n : s[i] \in S
  BY <1>1, <1>2
<1> HIDE DEF n
<1>4. /\ SubSeq(s, 1, n) \in Seq(S)
      /\ Len(SubSeq(s, 1, n)) = IF 1 <= n THEN n - 1 + 1 ELSE 0
      /\ \A i \in 1..(n - 1 + 1) : SubSeq(s, 1, n)[i] = s[1 + i - 1]
  BY <1>3, SubSeqProperties
<1>5. Len(SubSeq(s, 1, n)) = n
  BY <1>3, <1>4
<1>6. \A i \in 1..n : SubSeq(s, 1, n)[i] = s[i]
  BY <1>3, <1>4
<1> QED BY <1>1, <1>4, <1>5, <1>6 DEF n

LEMMA Finite ==
    ASSUME TypeOK
    PROVE  IsFiniteSet(woken) /\ Cardinality(woken) \in Nat /\ Ahead \in Nat
BY PrefetchAssumption, FS_Subset, FS_CardinalityType DEF TypeOK, Ahead

LEMMA SignalEffect ==
    ASSUME TypeOK, Signal
    PROVE  /\ waiting' \subseteq waiting /\ woken' \subseteq woken \cup waiting
           /\ waiting' \cap woken' = {}
           /\ waiting' # {} => Cardinality(woken') = Cardinality(woken) + 1
<1>1. CASE waiting = {} /\ UNCHANGED <<waiting, woken>>
  BY <1>1 DEF TypeOK
<1>2. ASSUME NEW l \in waiting, waiting' = waiting \ {l}, woken' = woken \cup {l}
      PROVE  /\ waiting' \subseteq waiting /\ woken' \subseteq woken \cup waiting
             /\ waiting' \cap woken' = {}
             /\ waiting' # {} => Cardinality(woken') = Cardinality(woken) + 1
  <2>1. l \notin woken
    BY DEF TypeOK
  <2>2. Cardinality(woken') = Cardinality(woken) + 1
    BY <1>2, <2>1, Finite, FS_AddElement
  <2> QED BY <1>2, <2>1, <2>2 DEF TypeOK
<1> QED BY <1>1, <1>2 DEF Signal

LEMMA TopFrame ==
    ASSUME TypeOK, Stacked, frames # <<>>
    PROVE  /\ Len(frames) \in Nat /\ Len(frames) >= 1
           /\ Top \in Frame /\ Top.next <= Top.sched + 1
           /\ TopKids \in Seq(Dirs) /\ Len(TopKids) \in Nat
           /\ \A f \in Frame : SetTop(f) =>
                 /\ frames' \in Seq(Frame) /\ Len(frames') = Len(frames) /\ frames' # <<>>
                 /\ frames'[Len(frames)] = f
                 /\ \A i \in 1..Len(frames) : i # Len(frames) => frames'[i] = frames[i]
<1>1. Len(frames) \in Nat /\ Len(frames) >= 1
  BY EmptySeq, LenProperties DEF Stacked
<1>2. Top \in Frame /\ Top.next <= Top.sched + 1
  BY <1>1, ElementOfSeq DEF Stacked, Top
<1>3. TopKids \in Seq(Dirs) /\ Len(TopKids) \in Nat
  BY <1>2, PrefetchAssumption, LenProperties DEF TopKids, Frame
<1>4. ASSUME NEW f \in Frame, SetTop(f)
      PROVE  /\ frames' \in Seq(Frame) /\ Len(frames') = Len(frames) /\ frames' # <<>>
             /\ frames'[Len(frames)] = f
             /\ \A i \in 1..Len(frames) : i # Len(frames) => frames'[i] = frames[i]
  <2>1. frames' = [frames EXCEPT ![Len(frames)] = f]
    BY <1>4 DEF SetTop
  <2>2. /\ frames' \in Seq(Frame) /\ Len(frames') = Len(frames)
        /\ \A i \in 1..Len(frames) : frames'[i] = IF i = Len(frames) THEN f ELSE frames[i]
    BY <1>1, <2>1, ExceptSeq DEF Stacked
  <2>4. frames'[Len(frames)] = f /\ \A i \in 1..Len(frames) : i # Len(frames) => frames'[i] = frames[i]
    BY <1>1, <2>2
  <2>5. frames' # <<>>
    BY <1>1, <2>2, EmptySeq
  <2> QED BY <2>2, <2>4, <2>5
<1> QED BY <1>1, <1>2, <1>3, <1>4

\* Entering a directory pushes a new frame; leaving one pops it.
LEMMA EnterFrames ==
    ASSUME Stacked, NEW d \in Dirs, Enter(d)
    PROVE  Stacked' /\ visiting' = None /\ pc' = "loop"
<1> DEFINE f == [dir |-> d, next |-> 1, sched |-> 0]
<1>1. f \in Frame
  BY DEF Frame
<1>2. frames' = Append(frames, f) /\ visiting' = None /\ pc' = "loop"
  BY DEF Enter
<1>3. /\ Append(frames, f) \in Seq(Frame)
      /\ Len(Append(frames, f)) = Len(frames) + 1
      /\ \A i \in 1..Len(frames) : Append(frames, f)[i] = frames[i]
      /\ Append(frames, f)[Len(frames) + 1] = f
  BY <1>1, AppendProperties DEF Stacked
<1>4. Len(frames) \in Nat
  BY LenProperties DEF Stacked
<1>5. frames' # <<>>
  BY <1>2, <1>3, <1>4, EmptySeq
<1>6. ASSUME NEW i \in 1..Len(frames') PROVE frames'[i].next <= frames'[i].sched + 1
  <2>1. CASE i = Len(frames) + 1
    BY <1>2, <1>3, <2>1
  <2>2. CASE i \in 1..Len(frames)
    BY <1>2, <1>3, <2>2 DEF Stacked
  <2> QED BY <1>2, <1>3, <1>4, <2>1, <2>2
<1> QED BY <1>2, <1>3, <1>5, <1>6 DEF Stacked

LEMMA SkipFrames ==
    ASSUME Stacked, Skip
    PROVE  Stacked' /\ visiting' = None /\ pc' \in {"roots", "loop"}
BY DEF Stacked, Skip

LEMMA PopFrames ==
    ASSUME Stacked, frames # <<>>,
           frames' = SubSeq(frames, 1, Len(frames) - 1),
           pc' = IF Len(frames) = 1 THEN "roots" ELSE "loop"
    PROVE  Stacked'
<1>1. /\ Len(frames) \in Nat /\ Len(frames) >= 1
      /\ frames' \in Seq(Frame)
      /\ Len(frames') = Len(frames) - 1
      /\ \A i \in 1..(Len(frames) - 1) : frames'[i] = frames[i]
  BY Front DEF Stacked
<1>2. pc' = "loop" => frames' # <<>>
  <2>1. pc' = "loop" => Len(frames') # 0
    BY <1>1
  <2>2. Len(<<>>) = 0
    BY EmptySeq
  <2> QED BY <2>1, <2>2
<1>3. \A i \in 1..Len(frames') : frames'[i].next <= frames'[i].sched + 1
  BY <1>1 DEF Stacked
<1> QED BY <1>1, <1>2, <1>3 DEF Stacked

-----------------------------------------------------------------------------
(* Types.                                                                   *)

\* The stack of tasks after a pop and after a push.
LEMMA StackPop ==
    ASSUME TypeOK, stack # <<>>
    PROVE  LET n == Len(stack)
               rem == SubSeq(stack, 1, n - 1) IN
           /\ n \in Nat /\ n >= 1 /\ stack[n] \in Dirs
           /\ rem \in Seq(Dirs) /\ Len(rem) = n - 1
           /\ \A i \in 1..(n - 1) : rem[i] = stack[i]
<1>1. stack \in Seq(Dirs)
  BY DEF TypeOK
<1>2. Len(stack) \in Nat /\ Len(stack) >= 1
  BY <1>1, Front
<1>3. stack[Len(stack)] \in Dirs
  BY <1>1, <1>2, ElementOfSeq
<1> QED BY <1>1, <1>3, Front

LEMMA StackPush ==
    ASSUME TypeOK, NEW d \in Dirs
    PROVE  /\ Len(stack) \in Nat
           /\ Append(stack, d) \in Seq(Dirs) /\ Len(Append(stack, d)) = Len(stack) + 1
           /\ \A i \in 1..Len(stack) : Append(stack, d)[i] = stack[i]
           /\ Append(stack, d)[Len(stack) + 1] = d
BY AppendProperties, LenProperties DEF TypeOK

\* Scheduling a directory: nothing when it has a result already, otherwise a
\* wanted result, its task on the stack and a signal.
LEMMA ScheduleEffect ==
    ASSUME TypeOK, NEW d \in Dirs, Schedule(d)
    PROVE  /\ waiting' \subseteq waiting /\ woken' \subseteq woken \cup waiting
           /\ waiting' \cap woken' = {}
           /\ \/ UNCHANGED <<results, stack, waiting, woken>>
              \/ /\ d \notin DOMAIN results
                 /\ DOMAIN results' = DOMAIN results \cup {d}
                 /\ results'[d] = "wanted"
                 /\ \A k \in DOMAIN results : results'[k] = results[k]
                 /\ stack' = Append(stack, d)
                 /\ waiting' # {} => Cardinality(woken') = Cardinality(woken) + 1
<1>1. CASE UNCHANGED <<results, stack, waiting, woken>>
  BY <1>1 DEF TypeOK
<1>2. CASE /\ d \notin DOMAIN results
           /\ results' = [k \in DOMAIN results \cup {d} |-> IF k = d THEN "wanted" ELSE results[k]]
           /\ stack' = Append(stack, d)
           /\ Signal
  BY <1>2, SignalEffect
<1> QED BY <1>1, <1>2 DEF Schedule

LEMMA TypeStep == ASSUME TypeOK, Stacked, Phases, [Next]_vars PROVE TypeOK' /\ Stacked'
<1>1. CASE OpenRoot
  <2>1. Head(rest) \in Dirs /\ Tail(rest) \in Seq(Dirs)
    BY <1>1, HeadTailProperties DEF OpenRoot, TypeOK
  <2> QED BY <1>1, <2>1, PrefetchAssumption DEF OpenRoot, TypeOK, Stacked, listVars
<1>2. CASE EndWalk
  BY <1>2 DEF EndWalk, TypeOK, Stacked, listVars
<1>3. CASE MakeDir
  <2>1. CASE pc' = "take" /\ UNCHANGED <<frames, visiting, unmade>>
    BY <1>3, <2>1 DEF MakeDir, TypeOK, Stacked, listVars
  <2>2. CASE Skip /\ unmade' = unmade \cup {visiting}
    BY <1>3, <2>2, SkipFrames DEF MakeDir, TypeOK, listVars
  <2> QED BY <1>3, <2>1, <2>2 DEF MakeDir
<1>4. CASE Take
  BY <1>4 DEF Take, TypeOK, Stacked, listVars
<1>5. CASE TakeReady
  <2>1. visiting \in Dirs
    BY <1>5 DEF TakeReady, TypeOK
  <2>2. Stacked' /\ visiting' = None /\ pc' \in {"roots", "loop"}
    BY <1>5, <2>1, EnterFrames, SkipFrames DEF TakeReady
  <2> QED BY <1>5, <2>2 DEF TakeReady, TypeOK, Without
<1>6. CASE TakeCancelled
  BY <1>6 DEF TakeCancelled, TypeOK, Stacked, listVars
<1>7. CASE ListInline
  <2>1. visiting \in Dirs
    BY <1>7 DEF ListInline, TypeOK
  <2>2. Stacked' /\ visiting' = None /\ pc' \in {"roots", "loop"}
    BY <1>7, <2>1, EnterFrames, SkipFrames DEF ListInline
  <2> QED BY <1>7, <2>2 DEF ListInline, TypeOK, listVars
<1>8. CASE PrefetchNext
  <2> DEFINE d == TopKids[Top.sched + 1]
             f == [Top EXCEPT !.sched = @ + 1]
  <2>1. /\ frames # <<>> /\ Top \in Frame /\ Top.next <= Top.sched + 1
        /\ TopKids \in Seq(Dirs) /\ Len(TopKids) \in Nat /\ Top.sched < Len(TopKids)
    BY <1>8, TopFrame DEF PrefetchNext, ToSchedule, Stacked
  <2>2. Top.sched \in Nat /\ Top.next \in Nat \ {0}
    BY <2>1 DEF Frame
  <2>3. d \in Dirs
    BY <2>1, <2>2, ElementOfSeq
  <2>4. f \in Frame /\ f.next <= f.sched + 1
    BY <2>1, <2>2 DEF Frame
  <2>5. Schedule(d) /\ SetTop(f)
    BY <1>8 DEF PrefetchNext
  <2> HIDE DEF d, f
  <2>6. Stacked'
    <3>1. /\ frames' \in Seq(Frame) /\ Len(frames') = Len(frames) /\ frames' # <<>>
          /\ frames'[Len(frames)] = f
          /\ \A i \in 1..Len(frames) : i # Len(frames) => frames'[i] = frames[i]
      BY <2>1, <2>4, <2>5, TopFrame
    <3> QED BY <2>4, <3>1 DEF Stacked
  <2>7. /\ waiting' \subseteq waiting /\ woken' \subseteq woken \cup waiting /\ waiting' \cap woken' = {}
        /\ stack' \in Seq(Dirs) /\ DOMAIN results' \subseteq Dirs
        /\ \A k \in DOMAIN results' : results'[k] \in {"wanted", "ready"}
    <3>1. CASE UNCHANGED <<results, stack>>
      BY <2>3, <2>5, <3>1, ScheduleEffect DEF TypeOK
    <3>2. CASE ~UNCHANGED <<results, stack>>
      <4>1. /\ waiting' \subseteq waiting /\ woken' \subseteq woken \cup waiting /\ waiting' \cap woken' = {}
            /\ DOMAIN results' = DOMAIN results \cup {d} /\ results'[d] = "wanted"
            /\ \A k \in DOMAIN results : results'[k] = results[k]
            /\ stack' = Append(stack, d)
        BY <2>3, <2>5, <3>2, ScheduleEffect
      <4>2. stack' \in Seq(Dirs)
        BY <2>3, <4>1, StackPush
      <4> QED BY <2>3, <4>1, <4>2 DEF TypeOK
    <3> QED BY <3>1, <3>2
  <2> QED BY <1>8, <2>6, <2>7 DEF PrefetchNext, TypeOK
<1>9. CASE VisitNext
  <2> DEFINE f == [Top EXCEPT !.next = @ + 1]
  <2>1. /\ frames # <<>> /\ Top \in Frame /\ Top.next <= Top.sched + 1 /\ Ahead \in Nat
        /\ TopKids \in Seq(Dirs) /\ Len(TopKids) \in Nat /\ Top.next <= Len(TopKids) /\ ~ToSchedule
    BY <1>9, TopFrame, Finite DEF VisitNext, Stacked
  <2>2. Top.sched \in Nat /\ Top.next \in Nat \ {0}
    BY <2>1 DEF Frame
  <2>3. TopKids[Top.next] \in Dirs
    BY <2>1, <2>2, ElementOfSeq
  <2>4. Top.next <= Top.sched
    BY <2>1, <2>2 DEF ToSchedule
  <2>5. f \in Frame /\ f.next <= f.sched + 1
    BY <2>1, <2>2, <2>4 DEF Frame
  <2>6. SetTop(f)
    BY <1>9 DEF VisitNext
  <2> HIDE DEF f
  <2>7. Stacked'
    <3>1. /\ frames' \in Seq(Frame) /\ Len(frames') = Len(frames) /\ frames' # <<>>
          /\ frames'[Len(frames)] = f
          /\ \A i \in 1..Len(frames) : i # Len(frames) => frames'[i] = frames[i]
      BY <2>1, <2>5, <2>6, TopFrame
    <3> QED BY <2>5, <3>1 DEF Stacked
  <2> QED BY <1>9, <2>3, <2>7, PrefetchAssumption DEF VisitNext, TypeOK, listVars
<1>10. CASE LeaveDir
  <2>1. Stacked'
    BY <1>10, PopFrames DEF LeaveDir, Stacked
  <2> QED BY <1>10, <2>1 DEF LeaveDir, TypeOK, listVars
<1>11. CASE StopListing
  BY <1>11, EmptySeq DEF StopListing, TypeOK, Stacked
<1>12. CASE WakeAll
  BY <1>12 DEF WakeAll, TypeOK, Stacked
<1>13. CASE JoinListers
  BY <1>13 DEF JoinListers, TypeOK, Stacked
<1>14. CASE Interrupt \/ Abort \/ Finished \/ UNCHANGED vars
  BY <1>14 DEF Interrupt, Abort, Finished, vars, walkVars, listVars, TypeOK, Stacked
<1>15. ASSUME NEW l \in Listers, ListerStep(l) PROVE TypeOK' /\ Stacked'
  <2>1. Stacked'
    BY <1>15 DEF ListerStep, WaitForTask, PopTask, Return, FinishListing, walkVars, Stacked
  <2>2. CASE WaitForTask(l)
    BY <2>1, <2>2 DEF WaitForTask, Free, walkVars, TypeOK
  <2>3. CASE PopTask(l)
    <3>1. stack[Len(stack)] \in Dirs /\ stack' \in Seq(Dirs)
      BY <2>3, StackPop DEF PopTask
    <3> QED BY <2>1, <2>3, <3>1 DEF PopTask, walkVars, TypeOK
  <2>4. CASE Return(l)
    BY <2>1, <2>4 DEF Return, Free, walkVars, TypeOK
  <2>5. CASE FinishListing(l)
    BY <2>1, <2>5 DEF FinishListing, walkVars, TypeOK
  <2> QED BY <1>15, <2>2, <2>3, <2>4, <2>5 DEF ListerStep
<1> QED BY <1>1, <1>2, <1>3, <1>4, <1>5, <1>6, <1>7, <1>8, <1>9, <1>10, <1>11, <1>12, <1>13, <1>14, <1>15
    DEF Next, WalkStep

-----------------------------------------------------------------------------
(* Who works, and on what.                                                  *)

LEMMA PhasesStep == ASSUME TypeOK, Stacked, Phases, [Next]_vars PROVE Phases'
<1>1. CASE OpenRoot \/ EndWalk \/ Take \/ TakeCancelled
  BY <1>1 DEF OpenRoot, EndWalk, Take, TakeCancelled, listVars, Phases
<1>2. CASE MakeDir
  BY <1>2 DEF MakeDir, Skip, listVars, Phases
<1>3. CASE TakeReady \/ ListInline
  BY <1>3 DEF TakeReady, ListInline, Enter, Skip, listVars, Phases
<1>4. CASE PrefetchNext
  <2> DEFINE d == TopKids[Top.sched + 1]
  <2>1. d \in Dirs /\ Schedule(d)
    <3>1. /\ Top \in Frame /\ TopKids \in Seq(Dirs) /\ Len(TopKids) \in Nat /\ Top.sched < Len(TopKids)
      BY <1>4, TopFrame DEF PrefetchNext, ToSchedule, Stacked
    <3>2. Top.sched \in Nat
      BY <3>1 DEF Frame
    <3> QED BY <1>4, <3>1, <3>2, ElementOfSeq DEF PrefetchNext
  <2>2. waiting' \subseteq waiting /\ woken' \subseteq woken \cup waiting
    BY <2>1, ScheduleEffect
  <2> QED BY <1>4, <2>2 DEF PrefetchNext, Phases
<1>5. CASE VisitNext \/ LeaveDir
  BY <1>5 DEF VisitNext, LeaveDir, listVars, Phases
<1>6. CASE StopListing
  BY <1>6 DEF StopListing, Phases
<1>7. CASE WakeAll
  BY <1>7 DEF WakeAll, Phases
<1>8. CASE JoinListers
  BY <1>8 DEF JoinListers, Phases
<1>9. CASE Interrupt \/ Abort \/ Finished \/ UNCHANGED vars
  BY <1>9 DEF Interrupt, Abort, Finished, vars, walkVars, listVars, Phases
<1>10. ASSUME NEW l \in Listers, ListerStep(l) PROVE Phases'
  <2>1. CASE WaitForTask(l)
    BY <2>1 DEF WaitForTask, Free, walkVars, Phases
  <2>2. CASE PopTask(l)
    BY <2>2 DEF PopTask, Free, walkVars, Phases, TypeOK
  <2>3. CASE Return(l)
    BY <2>3 DEF Return, Free, walkVars, Phases
  <2>4. CASE FinishListing(l)
    BY <2>4 DEF FinishListing, walkVars, Phases, TypeOK
  <2> QED BY <1>10, <2>1, <2>2, <2>3, <2>4 DEF ListerStep
<1> QED BY <1>1, <1>2, <1>3, <1>4, <1>5, <1>6, <1>7, <1>8, <1>9, <1>10 DEF Next, WalkStep

LEMMA TasksScheduled ==
    ASSUME TypeOK, Stacked, Phases, Tasks, PrefetchNext
    PROVE  Tasks'
<1> DEFINE d == TopKids[Top.sched + 1]
           n == Len(stack)
<1>1. d \in Dirs /\ Schedule(d) /\ task' = task /\ closed' = closed
  <2>1. /\ Top \in Frame /\ TopKids \in Seq(Dirs) /\ Len(TopKids) \in Nat /\ Top.sched < Len(TopKids)
    BY TopFrame DEF PrefetchNext, ToSchedule, Stacked
  <2>2. Top.sched \in Nat
    BY <2>1 DEF Frame
  <2> QED BY <2>1, <2>2, ElementOfSeq DEF PrefetchNext
<1> HIDE DEF d
<1>2. CASE UNCHANGED <<results, stack>>
  BY <1>1, <1>2 DEF Tasks
<1>3. CASE /\ d \notin DOMAIN results
           /\ DOMAIN results' = DOMAIN results \cup {d}
           /\ results'[d] = "wanted"
           /\ \A k \in DOMAIN results : results'[k] = results[k]
           /\ stack' = Append(stack, d)
  <2>1. /\ n \in Nat /\ Len(stack') = n + 1 /\ stack'[n + 1] = d
        /\ \A i \in 1..n : stack'[i] = stack[i]
    BY <1>1, <1>3, StackPush
  <2> HIDE DEF n
  <2>2. 1..Len(stack') = (1..n) \cup {n + 1}
    BY <2>1
  <2>3. /\ \A i \in 1..n : stack[i] \in DOMAIN results /\ stack[i] # d
        /\ \A l \in Listers : task[l] # None => task[l] \in DOMAIN results /\ task[l] # d
    BY <1>3 DEF Tasks, n
  <2>4. \A i, j \in 1..Len(stack') : stack'[i] = stack'[j] => i = j
    BY <2>1, <2>2, <2>3 DEF Tasks, n
  <2>5. \A l \in Listers, i \in 1..Len(stack') : task'[l] # stack'[i]
    <3>1. d # None
      BY <1>1, PrefetchAssumption
    <3> QED BY <1>1, <2>1, <2>2, <2>3, <3>1 DEF Tasks, n
  <2>6. \A i \in 1..Len(stack') : stack'[i] \in DOMAIN results' /\ results'[stack'[i]] = "wanted"
    BY <1>3, <2>1, <2>2, <2>3 DEF Tasks, n
  <2>7. \A l \in Listers : task'[l] # None => task'[l] \in DOMAIN results' /\ results'[task'[l]] = "wanted"
    BY <1>1, <1>3, <2>3 DEF Tasks
  <2>8. ASSUME ~closed', NEW k \in DOMAIN results', results'[k] = "wanted"
        PROVE  (\E i \in 1..Len(stack') : stack'[i] = k) \/ (\E l \in Listers : task'[l] = k)
    <3>1. CASE k = d
      BY <2>1, <2>2, <3>1
    <3>2. CASE k \in DOMAIN results
      <4>1. (\E i \in 1..n : stack[i] = k) \/ (\E l \in Listers : task[l] = k)
        BY <1>1, <1>3, <2>8, <3>2 DEF Tasks, n
      <4> QED BY <1>1, <2>1, <2>2, <4>1
    <3> QED BY <1>3, <2>8, <3>1, <3>2
  <2> QED BY <1>1, <2>4, <2>5, <2>6, <2>7, <2>8 DEF Tasks
<1> QED BY <1>1, <1>2, <1>3, ScheduleEffect

LEMMA TasksTaken ==
    ASSUME TypeOK, Phases, Tasks, NEW l \in Listers, PopTask(l)
    PROVE  Tasks'
<1> DEFINE n == Len(stack)
<1>1. /\ n \in Nat /\ n >= 1 /\ Len(stack') = n - 1 /\ stack[n] \in Dirs
      /\ \A i \in 1..(n - 1) : stack'[i] = stack[i]
  BY StackPop DEF PopTask
<1>2. /\ task[l] = None /\ task'[l] = stack[n] /\ results' = results /\ closed' = closed
      /\ \A m \in Listers : m # l => task'[m] = task[m]
  BY DEF PopTask, Free, TypeOK
<1> HIDE DEF n
<1>3. /\ 1..Len(stack') \subseteq 1..n /\ n \in 1..n /\ n \notin 1..Len(stack')
      /\ \A i \in 1..n : i = n \/ i \in 1..Len(stack')
      /\ \A i \in 1..Len(stack') : stack'[i] = stack[i]
  BY <1>1
<1>4. \A i, j \in 1..Len(stack') : stack'[i] = stack'[j] => i = j
  BY <1>3 DEF Tasks, n
<1>5. \A k, m \in Listers : task'[k] # None /\ task'[k] = task'[m] => k = m
  BY <1>2, <1>3 DEF Tasks, n
<1>6. \A m \in Listers, i \in 1..Len(stack') : task'[m] # stack'[i]
  BY <1>2, <1>3 DEF Tasks, n
<1>7. /\ \A i \in 1..Len(stack') : stack'[i] \in DOMAIN results' /\ results'[stack'[i]] = "wanted"
      /\ \A m \in Listers : task'[m] # None => task'[m] \in DOMAIN results' /\ results'[task'[m]] = "wanted"
  BY <1>2, <1>3 DEF Tasks, n
<1>8. ASSUME ~closed', NEW k \in DOMAIN results', results'[k] = "wanted"
      PROVE  (\E i \in 1..Len(stack') : stack'[i] = k) \/ (\E m \in Listers : task'[m] = k)
  <2>1. (\E i \in 1..n : stack[i] = k) \/ (\E m \in Listers : task[m] = k)
    BY <1>2, <1>8 DEF Tasks, n
  <2>2. k # None
    BY <1>2, <1>8, PrefetchAssumption DEF TypeOK
  <2> QED BY <1>2, <1>3, <2>1, <2>2
<1> QED BY <1>4, <1>5, <1>6, <1>7, <1>8 DEF Tasks

LEMMA TasksStep == ASSUME TypeOK, Stacked, Phases, Tasks, [Next]_vars PROVE Tasks'
<1>1. CASE OpenRoot \/ EndWalk \/ MakeDir \/ Take \/ TakeCancelled \/ ListInline \/ VisitNext \/ LeaveDir
  BY <1>1 DEF OpenRoot, EndWalk, MakeDir, Take, TakeCancelled, ListInline, VisitNext, LeaveDir, listVars, Tasks
<1>2. CASE TakeReady
  <2>1. /\ results[visiting] = "ready" /\ UNCHANGED <<stack, task, closed>>
        /\ DOMAIN results' = DOMAIN results \ {visiting}
        /\ \A k \in DOMAIN results' : results'[k] = results[k]
    BY <1>2 DEF TakeReady, Without
  <2>2. /\ \A i \in 1..Len(stack') : stack'[i] \in DOMAIN results' /\ results'[stack'[i]] = "wanted"
        /\ \A m \in Listers : task'[m] # None => task'[m] \in DOMAIN results' /\ results'[task'[m]] = "wanted"
    BY <2>1 DEF Tasks
  <2> QED BY <2>1, <2>2 DEF Tasks
<1>3. CASE PrefetchNext
  BY <1>3, TasksScheduled
<1>4. CASE StopListing
  <2>1. Len(stack') = 0
    BY <1>4, EmptySeq DEF StopListing
  <2>2. 1..Len(stack') = {}
    BY <2>1
  <2> QED BY <1>4, <2>2 DEF StopListing, Tasks
<1>5. CASE WakeAll
  BY <1>5 DEF WakeAll, Tasks
<1>6. CASE JoinListers
  <2>1. closed /\ stack = <<>> /\ \A l \in Listers : task[l] = None
    BY <1>6 DEF JoinListers, Phases
  <2>2. Len(stack') = 0
    BY <1>6, <2>1, EmptySeq DEF JoinListers
  <2>3. 1..Len(stack') = {} /\ task' = task /\ closed'
    BY <1>6, <2>1, <2>2 DEF JoinListers
  <2> QED BY <2>1, <2>3 DEF Tasks
<1>7. CASE Interrupt \/ Abort \/ Finished \/ UNCHANGED vars
  BY <1>7 DEF Interrupt, Abort, Finished, vars, listVars, Tasks
<1>8. ASSUME NEW l \in Listers, ListerStep(l) PROVE Tasks'
  <2>1. CASE WaitForTask(l) \/ Return(l)
    BY <2>1 DEF WaitForTask, Return, Tasks
  <2>2. CASE PopTask(l)
    BY <2>2, TasksTaken
  <2>3. CASE FinishListing(l)
    <3>1. /\ task[l] # None /\ task'[l] = None /\ UNCHANGED <<stack, closed>>
          /\ \A m \in Listers : m # l => task'[m] = task[m]
          /\ DOMAIN results' = DOMAIN results
          /\ \A k \in DOMAIN results : results'[k] = IF k = task[l] THEN "ready" ELSE results[k]
      BY <2>3 DEF FinishListing, TypeOK
    <3>2. \A i \in 1..Len(stack) : stack[i] # None
      BY ElementOfSeq, PrefetchAssumption DEF TypeOK
    <3>3. /\ \A m, k \in Listers : task'[m] # None /\ task'[m] = task'[k] => m = k
          /\ \A m \in Listers, i \in 1..Len(stack') : task'[m] # stack'[i]
      BY <3>1, <3>2 DEF Tasks
    <3>4. /\ \A i \in 1..Len(stack') : stack'[i] \in DOMAIN results' /\ results'[stack'[i]] = "wanted"
          /\ \A m \in Listers : task'[m] # None => task'[m] \in DOMAIN results' /\ results'[task'[m]] = "wanted"
      BY <3>1 DEF Tasks
    <3>5. ASSUME ~closed', NEW k \in DOMAIN results', results'[k] = "wanted"
          PROVE  (\E i \in 1..Len(stack') : stack'[i] = k) \/ (\E m \in Listers : task'[m] = k)
      BY <3>1, <3>5 DEF Tasks
    <3> QED BY <3>1, <3>3, <3>4, <3>5 DEF Tasks
  <2> QED BY <1>8, <2>1, <2>2, <2>3 DEF ListerStep
<1> QED BY <1>1, <1>2, <1>3, <1>4, <1>5, <1>6, <1>7, <1>8 DEF Next, WalkStep

-----------------------------------------------------------------------------
(* The theorems.                                                            *)

LEMMA InvInit == ASSUME Init PROVE IInv
<1>1. rest \in Seq(Dirs) /\ stack \in Seq(Dirs) /\ frames \in Seq(Frame) /\ Len(frames) = 0 /\ Len(stack) = 0
  BY PrefetchAssumption, EmptySeq DEF Init
<1>2. 1..Len(frames) = {} /\ 1..Len(stack) = {} /\ DOMAIN results = {}
  BY <1>1 DEF Init
<1>3. TypeOK
  BY <1>1, <1>2, PrefetchAssumption DEF Init, TypeOK
<1>4. Stacked /\ Phases
  BY <1>1, <1>2 DEF Init, Stacked, Phases
<1>5. Tasks
  BY <1>2 DEF Init, Tasks
<1> QED BY <1>3, <1>4, <1>5 DEF IInv

LEMMA InvStep == ASSUME IInv, [Next]_vars PROVE IInv'
BY TypeStep, PhasesStep, TasksStep DEF IInv

LEMMA Invariance == Spec => []IInv
<1>1. Init => IInv
  BY InvInit
<1>2. IInv /\ [Next]_vars => IInv'
  BY InvStep
<1> QED BY <1>1, <1>2, PTL DEF Spec

\* The state of the walk and the pool keeps its type, whatever the directories
\* and in whatever order they are given: take only waits on a listing that is
\* in the map.
THEOREM TypeCorrect == Spec => []TypeOK
<1>1. IInv => TypeOK
  BY DEF IInv
<1> QED BY <1>1, Invariance, PTL

\* What Tasks says of each result, counted: no channel is closed twice, and none
\* that the walk may wait on is never closed.
LEMMA Counted == ASSUME IInv PROVE OneTaskPerResult
<1> SUFFICES ASSUME NEW d \in Dirs
    PROVE LET tasks == Cardinality(Queued(d)) + Cardinality(Listing(d)) IN
          IF d \in DOMAIN results /\ results[d] = "wanted"
          THEN tasks = 1 \/ (closed /\ tasks = 0)
          ELSE tasks = 0
  BY DEF OneTaskPerResult
<1> DEFINE Q == Queued(d)
           L == Listing(d)
<1>1. d # None
  BY PrefetchAssumption
<1>2. /\ \A i, j \in Q : i = j
      /\ \A l, m \in L : l = m
      /\ Q = {} \/ L = {}
  BY <1>1 DEF Queued, Listing, IInv, Tasks
<1>3. Cardinality(Q) = IF Q = {} THEN 0 ELSE 1
  <2>1. CASE Q = {}
    BY <2>1, FS_EmptySet
  <2>2. ASSUME NEW i \in Q PROVE Q = {i} /\ Cardinality(Q) = 1
    <3>1. Q = {i}
      BY <1>2
    <3> QED BY <3>1, FS_Singleton
  <2> QED BY <2>1, <2>2
<1>4. Cardinality(L) = IF L = {} THEN 0 ELSE 1
  <2>1. CASE L = {}
    BY <2>1, FS_EmptySet
  <2>2. ASSUME NEW l \in L PROVE L = {l} /\ Cardinality(L) = 1
    <3>1. L = {l}
      BY <1>2
    <3> QED BY <3>1, FS_Singleton
  <2> QED BY <2>1, <2>2
<1>5. CASE d \in DOMAIN results /\ results[d] = "wanted"
  <2>1. closed \/ Q # {} \/ L # {}
    BY <1>5 DEF Queued, Listing, IInv, Tasks
  <2> QED BY <1>2, <1>3, <1>4, <1>5, <2>1 DEF IInv, TypeOK
<1>6. CASE ~(d \in DOMAIN results /\ results[d] = "wanted")
  <2>1. Q = {} /\ L = {}
    BY <1>1, <1>6 DEF Queued, Listing, IInv, Tasks
  <2> QED BY <1>3, <1>4, <1>6, <2>1
<1> QED BY <1>5, <1>6

\* For any directories and any number of goroutines, also when a directory is
\* scheduled again because two roots hold it, each wanted result has one task,
\* a ready one none.
THEOREM OneTaskCorrect == Spec => []OneTaskPerResult
<1>1. IInv => OneTaskPerResult
  BY Counted
<1> QED BY <1>1, Invariance, PTL

-----------------------------------------------------------------------------
(* No wake-up is lost.                                                      *)

LEMMA NoTaskLostStep == ASSUME IInv, IInv', NoTaskLost, [Next]_vars PROVE NoTaskLost'
<1> SUFFICES ASSUME waiting' # {}
             PROVE  Len(stack') <= Cardinality(woken') /\ (closed' => pc' = "broadcast")
  BY DEF NoTaskLost
<1>f. /\ IsFiniteSet(woken) /\ Cardinality(woken) \in Nat /\ Cardinality(woken') \in Nat
      /\ Len(stack) \in Nat /\ stack \in Seq(Dirs)
  <2>1. IsFiniteSet(woken')
    BY PrefetchAssumption, FS_Subset DEF IInv, TypeOK
  <2> QED BY <2>1, Finite, LenProperties, FS_CardinalityType DEF IInv, TypeOK
<1>1. CASE OpenRoot \/ EndWalk \/ MakeDir \/ Take \/ TakeReady \/ TakeCancelled \/ ListInline \/ VisitNext \/ LeaveDir
  BY <1>1 DEF OpenRoot, EndWalk, MakeDir, Take, TakeReady, TakeCancelled, ListInline, VisitNext, LeaveDir, Enter, Skip,
      listVars, NoTaskLost, IInv, Phases
<1>2. CASE PrefetchNext
  <2> DEFINE d == TopKids[Top.sched + 1]
  <2>1. d \in Dirs /\ Schedule(d)
    <3>1. /\ Top \in Frame /\ TopKids \in Seq(Dirs) /\ Len(TopKids) \in Nat /\ Top.sched < Len(TopKids)
      BY <1>2, TopFrame DEF PrefetchNext, ToSchedule, IInv, Stacked
    <3>2. Top.sched \in Nat
      BY <3>1 DEF Frame
    <3> QED BY <1>2, <3>1, <3>2, ElementOfSeq DEF PrefetchNext
  <2> HIDE DEF d
  <2>2. waiting # {} /\ Len(stack) <= Cardinality(woken) /\ (closed => pc = "broadcast")
    BY <2>1, ScheduleEffect DEF NoTaskLost, IInv
  <2>3. closed' = closed /\ pc' = pc
    BY <1>2 DEF PrefetchNext
  <2>4. CASE UNCHANGED <<results, stack, waiting, woken>>
    BY <2>2, <2>3, <2>4
  <2>5. CASE stack' = Append(stack, d) /\ Cardinality(woken') = Cardinality(woken) + 1
    <3>1. Len(stack') = Len(stack) + 1
      BY <2>1, <2>5, StackPush DEF IInv
    <3> QED BY <1>f, <2>2, <2>3, <2>5, <3>1
  <2> QED BY <2>1, <2>4, <2>5, ScheduleEffect DEF IInv
<1>3. CASE StopListing
  <2>1. Len(stack') = 0 /\ pc' = "broadcast"
    BY <1>3, EmptySeq DEF StopListing
  <2> QED BY <1>f, <2>1
<1>4. CASE WakeAll
  BY <1>4 DEF WakeAll
<1>5. CASE JoinListers
  BY <1>5 DEF JoinListers, IInv, TypeOK
<1>6. CASE Interrupt \/ Abort \/ Finished \/ UNCHANGED vars
  BY <1>6 DEF Interrupt, Abort, Finished, vars, walkVars, listVars, NoTaskLost
<1>7. ASSUME NEW l \in Listers, ListerStep(l)
      PROVE  Len(stack') <= Cardinality(woken') /\ (closed' => pc' = "broadcast")
  <2>1. CASE WaitForTask(l)
    <3>1. Len(stack') = 0 /\ ~closed'
      BY <2>1, EmptySeq DEF WaitForTask
    <3> QED BY <1>f, <3>1
  <2>2. CASE PopTask(l)
    <3>1. Len(stack') = Len(stack) - 1 /\ woken' = woken \ {l} /\ pc' = pc /\ closed' = closed /\ waiting' = waiting
      BY <2>2, <1>f, Front DEF PopTask, walkVars
    <3>2. Cardinality(woken \ {l}) = IF l \in woken THEN Cardinality(woken) - 1 ELSE Cardinality(woken)
      BY <1>f, FS_RemoveElement
    <3>3. Len(stack) <= Cardinality(woken) /\ (closed => pc = "broadcast")
      BY <3>1 DEF NoTaskLost
    <3> QED BY <1>f, <3>1, <3>2, <3>3
  <2>3. CASE Return(l)
    <3>1. Len(stack') = 0 /\ UNCHANGED <<closed, pc, waiting>>
      BY <2>3, EmptySeq DEF Return, walkVars
    <3> QED BY <1>f, <3>1 DEF NoTaskLost
  <2>4. CASE FinishListing(l)
    BY <2>4 DEF FinishListing, walkVars, NoTaskLost
  <2> QED BY <1>7, <2>1, <2>2, <2>3, <2>4 DEF ListerStep
<1> QED BY <1>1, <1>2, <1>3, <1>4, <1>5, <1>6, <1>7 DEF Next, WalkStep

\* While a goroutine sleeps, each queued task has a woken one on its way, and
\* after close the broadcast is still to come: schedule may signal once per task.
THEOREM NoTaskLostCorrect == Spec => []NoTaskLost
<1>1. Init => NoTaskLost
  BY DEF Init, NoTaskLost
<1>2. IInv /\ IInv' /\ NoTaskLost /\ [Next]_vars => NoTaskLost'
  BY NoTaskLostStep
<1> QED BY <1>1, <1>2, Invariance, PTL DEF Spec

-----------------------------------------------------------------------------
(* Nothing is left in the map.                                              *)

\* The walk lists inline only what has no result, unless it was interrupted.
NotTaken == pc = "list" => visiting \notin DOMAIN results \/ cancelled

LEMMA NotTakenStep == ASSUME IInv, NotTaken, [Next]_vars PROVE NotTaken'
<1>1. CASE pc = "list" /\ pc' = "list"
  <2>1. CASE WalkStep
    BY <1>1, <2>1 DEF WalkStep, OpenRoot, EndWalk, MakeDir, Take, TakeReady, TakeCancelled, ListInline, PrefetchNext,
        VisitNext, LeaveDir, StopListing, WakeAll, JoinListers, Enter, Skip
  <2>2. CASE Interrupt \/ Abort \/ Finished \/ UNCHANGED vars
    BY <1>1, <2>2 DEF Interrupt, Abort, Finished, vars, walkVars, listVars, NotTaken
  <2>3. ASSUME NEW l \in Listers, ListerStep(l) PROVE NotTaken'
    BY <2>3 DEF ListerStep, WaitForTask, PopTask, Return, FinishListing, walkVars, NotTaken
  <2> QED BY <2>1, <2>2, <2>3 DEF Next
<1>2. CASE pc # "list" /\ pc' = "list"
  <2>1. Take \/ TakeCancelled
    BY <1>2 DEF Next, WalkStep, OpenRoot, EndWalk, MakeDir, TakeReady, ListInline, PrefetchNext,
        VisitNext, LeaveDir, StopListing, WakeAll, JoinListers, Enter, Skip, Interrupt, Abort, Finished, vars, walkVars,
        ListerStep, WaitForTask, PopTask, Return, FinishListing
  <2> QED BY <1>2, <2>1 DEF Take, TakeCancelled, listVars, NotTaken
<1> QED BY <1>1, <1>2 DEF NotTaken

LEMMA StillMember ==
    \A x : x \in StillToVisit <=>
        \E i \in 1..Len(frames) : \E k \in frames[i].next..Len(Kids[frames[i].dir]) : x = Kids[frames[i].dir][k]
BY DEF StillToVisit

LEMMA LeftScheduled ==
    ASSUME IInv, NothingLeftBehind, PrefetchNext
    PROVE  NothingLeftBehind'
<1> DEFINE d == TopKids[Top.sched + 1]
           f == [Top EXCEPT !.sched = @ + 1]
<1> SUFFICES ASSUME ~Halted' PROVE DOMAIN results' \subseteq StillToVisit' \cup {visiting'} \cup unmade'
  BY DEF NothingLeftBehind
<1>1. /\ Len(frames) \in Nat /\ Len(frames) >= 1 /\ Top \in Frame /\ Top.next <= Top.sched + 1
      /\ Len(TopKids) \in Nat /\ Top.sched < Len(TopKids) /\ TopKids \in Seq(Dirs)
      /\ Top.sched \in Nat /\ Top.next \in Nat
  BY TopFrame DEF PrefetchNext, ToSchedule, IInv, Stacked, Frame
<1>2. d \in Dirs /\ Schedule(d) /\ SetTop(f) /\ visiting' = visiting /\ unmade' = unmade /\ ~Halted
  BY <1>1, ElementOfSeq DEF PrefetchNext
<1>3. f \in Frame /\ f.dir = Top.dir /\ f.next = Top.next
  BY <1>1 DEF Frame
<1>4. d \in StillToVisit
  <2>1. Top.sched + 1 \in Top.next..Len(TopKids)
    BY <1>1
  <2>2. Len(frames) \in 1..Len(frames)
    BY <1>1
  <2> QED BY <2>1, <2>2, StillMember DEF Top, TopKids
<1> HIDE DEF d, f
<1>5. /\ Len(frames') = Len(frames) /\ frames'[Len(frames)] = f
      /\ \A i \in 1..Len(frames) : i # Len(frames) => frames'[i] = frames[i]
  BY <1>2, <1>3, TopFrame DEF IInv, Stacked, PrefetchNext
<1>6. \A i \in 1..Len(frames) : frames'[i].dir = frames[i].dir /\ frames'[i].next = frames[i].next
  BY <1>3, <1>5 DEF Top
<1>7. StillToVisit' = StillToVisit
  <2>1. \A x : x \in StillToVisit' <=>
          \E i \in 1..Len(frames') : \E k \in frames'[i].next..Len(Kids[frames'[i].dir]) : x = Kids[frames'[i].dir][k]
    BY DEF StillToVisit
  <2>2. \A x : x \in StillToVisit' <=> x \in StillToVisit
    BY <1>5, <1>6, <2>1, StillMember
  <2> QED BY <2>2
<1>8. DOMAIN results' \subseteq DOMAIN results \cup {d}
  BY <1>2, ScheduleEffect DEF IInv
<1> QED BY <1>2, <1>4, <1>7, <1>8 DEF NothingLeftBehind

LEMMA LeftVisited ==
    ASSUME IInv, NothingLeftBehind, VisitNext
    PROVE  NothingLeftBehind'
<1> DEFINE f == [Top EXCEPT !.next = @ + 1]
<1> SUFFICES ASSUME ~Halted', NEW x \in DOMAIN results, x # visiting', x \notin unmade'
             PROVE  x \in StillToVisit'
  BY DEF NothingLeftBehind, VisitNext, listVars
<1>1. /\ Len(frames) \in Nat /\ Len(frames) >= 1 /\ Top \in Frame
      /\ Len(TopKids) \in Nat /\ Top.next \in Nat
  BY TopFrame DEF VisitNext, IInv, Stacked, Frame
<1>2. /\ SetTop(f) /\ visiting' = TopKids[Top.next] /\ unmade' = unmade /\ ~Halted
      /\ visiting = None /\ x \in Dirs /\ x # None
  BY PrefetchAssumption DEF VisitNext, IInv, TypeOK
<1>3. f \in Frame /\ f.dir = Top.dir /\ f.next = Top.next + 1
  BY <1>1, TopFrame DEF Frame, IInv, VisitNext
<1> HIDE DEF f
<1>4. /\ Len(frames') = Len(frames) /\ frames'[Len(frames)] = f
      /\ \A i \in 1..Len(frames) : i # Len(frames) => frames'[i] = frames[i]
  BY <1>2, <1>3, TopFrame DEF IInv, Stacked, VisitNext
<1>5. PICK i \in 1..Len(frames) : \E k \in frames[i].next..Len(Kids[frames[i].dir]) : x = Kids[frames[i].dir][k]
  BY <1>2, StillMember DEF NothingLeftBehind
<1>5k. PICK k \in frames[i].next..Len(Kids[frames[i].dir]) : x = Kids[frames[i].dir][k]
  BY <1>5
<1>6. k \in frames'[i].next..Len(Kids[frames'[i].dir]) /\ x = Kids[frames'[i].dir][k]
  <2>1. CASE i # Len(frames)
    BY <1>4, <1>5k, <2>1
  <2>2. CASE i = Len(frames)
    <3>1. k \in Top.next..Len(TopKids) /\ x = TopKids[k] /\ k # Top.next
      BY <1>2, <1>5k, <2>2 DEF Top, TopKids
    <3> QED BY <1>1, <1>3, <1>4, <2>2, <3>1 DEF TopKids
  <2> QED BY <2>1, <2>2
<1>7. \A y : y \in StillToVisit' <=>
          \E j \in 1..Len(frames') : \E l \in frames'[j].next..Len(Kids[frames'[j].dir]) : y = Kids[frames'[j].dir][l]
  BY DEF StillToVisit
<1>8. i \in 1..Len(frames')
  BY <1>4
<1> QED BY <1>6, <1>7, <1>8

LEMMA LeftDir ==
    ASSUME IInv, NothingLeftBehind, LeaveDir
    PROVE  NothingLeftBehind'
<1> SUFFICES ASSUME ~Halted', NEW x \in DOMAIN results, x # visiting', x \notin unmade'
             PROVE  x \in StillToVisit'
  BY DEF NothingLeftBehind, LeaveDir, listVars
<1>1. /\ Len(frames) \in Nat /\ Len(frames) >= 1
      /\ Len(frames') = Len(frames) - 1
      /\ \A i \in 1..(Len(frames) - 1) : frames'[i] = frames[i]
      /\ Len(TopKids) \in Nat /\ Top.next \in Nat /\ Top.next > Len(TopKids)
  BY TopFrame, Front DEF LeaveDir, IInv, Stacked, Frame, Halted
<1>2. visiting' = visiting /\ unmade' = unmade /\ ~Halted
  BY DEF LeaveDir, Halted
<1>3. PICK i \in 1..Len(frames) : \E k \in frames[i].next..Len(Kids[frames[i].dir]) : x = Kids[frames[i].dir][k]
  BY <1>2, StillMember DEF NothingLeftBehind
<1>3k. PICK k \in frames[i].next..Len(Kids[frames[i].dir]) : x = Kids[frames[i].dir][k]
  BY <1>3
<1>4. i # Len(frames)
  BY <1>1, <1>3k DEF Top, TopKids
<1>5. i \in 1..Len(frames') /\ frames'[i] = frames[i]
  BY <1>1, <1>4
<1> QED BY <1>3k, <1>5 DEF StillToVisit

\* A result leaves the map when the walk takes it, and the walk comes by every
\* directory it has scheduled.
LEMMA NothingLeftStep == ASSUME IInv, NotTaken, NothingLeftBehind, [Next]_vars PROVE NothingLeftBehind'
<1>0. Halted => Halted'
  BY DEF Next, WalkStep, OpenRoot, EndWalk, MakeDir, Take, TakeReady, TakeCancelled, ListInline, PrefetchNext,
      VisitNext, LeaveDir, StopListing, WakeAll, JoinListers, Interrupt, Abort, Finished, vars, ListerStep,
      WaitForTask, PopTask, Return, FinishListing, Halted
<1>n. None \notin DOMAIN results
  BY PrefetchAssumption DEF IInv, TypeOK
<1>1. CASE OpenRoot \/ EndWalk \/ MakeDir \/ Take \/ StopListing \/ WakeAll
  <2>1. StillToVisit' = StillToVisit
    BY <1>1 DEF OpenRoot, EndWalk, MakeDir, Skip, Take, StopListing, WakeAll, StillToVisit
  <2>2. results' = results /\ unmade \subseteq unmade'
    BY <1>1 DEF OpenRoot, EndWalk, MakeDir, Take, StopListing, WakeAll, listVars
  <2>3. visiting' = visiting \/ visiting = None \/ visiting \in unmade'
    BY <1>1 DEF OpenRoot, EndWalk, MakeDir, Skip, Take, StopListing, WakeAll, IInv, TypeOK
  <2> QED BY <1>0, <1>n, <2>1, <2>2, <2>3 DEF NothingLeftBehind
<1>2. CASE TakeReady \/ ListInline
  <2> SUFFICES ASSUME ~Halted' PROVE DOMAIN results' \subseteq StillToVisit' \cup {visiting'} \cup unmade'
    BY DEF NothingLeftBehind
  <2>1. ~Halted /\ ~cancelled /\ unmade' = unmade
    BY <1>0, <1>2 DEF TakeReady, ListInline, Halted
  <2>2. DOMAIN results' \subseteq DOMAIN results \ {visiting}
    BY <1>2, <2>1 DEF TakeReady, ListInline, Without, NotTaken, listVars
  <2>3. StillToVisit \subseteq StillToVisit'
    <3>1. CASE Skip
      BY <3>1 DEF Skip, StillToVisit
    <3>2. CASE Enter(visiting)
      <4>1. visiting \in Dirs
        BY <1>2 DEF TakeReady, ListInline, IInv, TypeOK
      <4>2. /\ Len(frames) \in Nat /\ Len(frames') = Len(frames) + 1
            /\ \A i \in 1..Len(frames) : frames'[i] = frames[i]
        <5>1. [dir |-> visiting, next |-> 1, sched |-> 0] \in Frame
          BY <4>1 DEF Frame
        <5> QED BY <3>2, <5>1, AppendProperties, LenProperties DEF Enter, IInv, Stacked
      <4>3. \A i \in 1..Len(frames) : i \in 1..Len(frames')
        BY <4>2
      <4> QED BY <4>2, <4>3 DEF StillToVisit
    <3> QED BY <1>2, <3>1, <3>2 DEF TakeReady, ListInline
  <2> QED BY <2>1, <2>2, <2>3 DEF NothingLeftBehind
<1>3. CASE TakeCancelled
  BY <1>3 DEF TakeCancelled, NothingLeftBehind, Halted
<1>4. CASE PrefetchNext
  BY <1>4, LeftScheduled
<1>5. CASE VisitNext
  BY <1>5, LeftVisited
<1>6. CASE LeaveDir
  BY <1>6, LeftDir
<1>7. CASE JoinListers
  BY <1>7 DEF JoinListers, NothingLeftBehind
<1>8. CASE Interrupt \/ Abort \/ Finished \/ UNCHANGED vars
  BY <1>0, <1>8 DEF Interrupt, Abort, Finished, vars, walkVars, listVars, NothingLeftBehind, StillToVisit
<1>9. ASSUME NEW l \in Listers, ListerStep(l) PROVE NothingLeftBehind'
  <2>1. UNCHANGED <<frames, visiting, unmade>> /\ DOMAIN results' = DOMAIN results
    BY <1>9 DEF ListerStep, WaitForTask, PopTask, Return, FinishListing, walkVars
  <2> QED BY <1>0, <2>1 DEF NothingLeftBehind, StillToVisit
<1> QED BY <1>1, <1>2, <1>3, <1>4, <1>5, <1>6, <1>7, <1>8, <1>9 DEF Next, WalkStep

\* As long as nothing stopped the run, a result is in the map only for a
\* directory the walk will still visit or could not make: the map does not grow
\* with the tree, whatever its shape.
THEOREM NothingLeftCorrect == Spec => []NothingLeftBehind
<1>1. Init => NotTaken /\ NothingLeftBehind
  BY DEF Init, NotTaken, NothingLeftBehind
<1>2. IInv /\ NotTaken /\ NothingLeftBehind /\ [Next]_vars => NotTaken' /\ NothingLeftBehind'
  BY NotTakenStep, NothingLeftStep
<1> QED BY <1>1, <1>2, Invariance, PTL DEF Spec

=============================================================================
