--------------------------- MODULE MonitorsProofs ---------------------------
(* Proofs about Monitors: bounds and types, what a forbidding guard allows,  *)
(* and when the watchdog's verdict is right.                                 *)
EXTENDS Monitors, TLAPS

LEMMA ProductNat == \A m, n \in Nat : m * n \in Nat
OBVIOUS

LEMMA QuotientNat == \A n \in Nat, d \in Nat \ {0} : n \div d \in Nat
OBVIOUS

LEMMA ClampBounds == \A n \in Int : Clamp(n) \in MinW..MaxW
BY ControllerConstants DEF Clamp, Smaller, Larger

\* Growing stays below the ceiling and never shrinks.
LEMMA GrownBounds == \A n \in MinW..MaxW : Grown(n) \in MinW..MaxW /\ Grown(n) >= n
BY ControllerConstants DEF Grown, Smaller, Larger

\* An average of throughputs is a throughput.
LEMMA SmoothedNat == ASSUME ControllerTypeOK, NEW x \in Nat PROVE Smoothed(x) \in Nat
<1>1. CASE ema = Unset
  BY <1>1 DEF Smoothed
<1>2. CASE ema # Unset
  <2> DEFINE n == AlphaNum * x + (AlphaDen - AlphaNum) * ema + AlphaDen - 1
  <2>0. ema \in Nat /\ AlphaNum \in Nat /\ AlphaDen \in Nat \ {0} /\ AlphaDen - AlphaNum \in Nat
    BY <1>2, ControllerConstants DEF ControllerTypeOK
  <2>1. AlphaNum * x \in Nat /\ (AlphaDen - AlphaNum) * ema \in Nat
    BY <2>0, ProductNat
  <2>2. n \in Nat
    BY <2>0, <2>1
  <2>3. n \div AlphaDen \in Nat
    BY <2>0, <2>2, QuotientNat
  <2> QED BY <1>2, <2>3 DEF Smoothed
<1> QED BY <1>1, <1>2

-----------------------------------------------------------------------------
(* The controller.                                                           *)

\* The limit to go back to is at most the present one while the controller
\* climbs, and one above it at most while it trims, also when a stall has made
\* it grow in between.
Order == /\ ph = "climbing" => prevW <= w
         /\ ph = "trimming" => prevW <= w + 1

LEMMA RaiseBounds ==
    ASSUME ControllerTypeOK, Raise
    PROVE  /\ w' \in MinW..MaxW /\ prevW' \in MinW..MaxW /\ dwell' \in 0..DwellN
           /\ prevW' <= w'
BY GrownBounds, ControllerConstants DEF Raise, ControllerTypeOK

\* Going back is going to prevW: the bounds hold already.
LEMMA RestoreBounds ==
    ASSUME ControllerTypeOK, Restore
    PROVE  w' = prevW /\ ph' = "holding" /\ hold' = 0 /\ dwell' = DwellN
BY ControllerConstants DEF Restore, Hold, ControllerTypeOK, Clamp, Smaller, Larger

LEMMA ControllerStep ==
    ASSUME ControllerTypeOK, Order, NEW s, s.throughput \in Nat, Update(s)
    PROVE  ControllerTypeOK' /\ Order'
<1> USE DEF ControllerTypeOK, limits
<1>0. /\ ema' \in Nat
      /\ Larger(peakT, ema') \in Nat
      /\ 0 \in 0..Reprobe - 1 /\ DwellN \in 0..DwellN /\ w \in Int /\ prevW \in Int
  BY SmoothedNat, ControllerConstants DEF Update, Larger
<1>1. CASE Dwell
  BY <1>0, <1>1, ControllerConstants DEF Dwell, Order
<1>2. CASE Stalled(s)
  <2>1. CASE MayGrow(s) /\ Raise
    BY <1>0, <1>2, <2>1, RaiseBounds DEF Stalled, Order
  <2>2. CASE UNCHANGED <<limits, dwell>>
    BY <1>0, <1>2, <2>2 DEF Stalled, Order
  <2> QED BY <1>2, <2>1, <2>2 DEF Stalled
<1>3. CASE ClimbOn(s)
  <2>1. CASE Raise /\ UNCHANGED <<ph, hold, probeUp>>
    BY <1>0, <1>3, <2>1, RaiseBounds DEF ClimbOn, Order
  <2>2. CASE Hold /\ UNCHANGED <<limits, dwell>>
    BY <1>0, <1>3, <2>2 DEF ClimbOn, Hold, Order
  <2> QED BY <1>3, <2>1, <2>2 DEF ClimbOn
<1>4. CASE Revert \/ TakeBack
  BY <1>0, <1>4, RestoreBounds DEF Revert, TakeBack, Restore, Hold, Order
<1>5. CASE KeepHolding
  BY <1>0, <1>5, ControllerConstants DEF KeepHolding, Remember, Order
<1>6. CASE ProbeUp(s)
  BY <1>0, <1>6, RaiseBounds DEF ProbeUp, ProbeDue, Remember, Order
<1>7. CASE ProbeDown(s)
  BY <1>0, <1>7, ControllerConstants DEF ProbeDown, ProbeDue, Remember, Order
<1>8. CASE ProbeNowhere(s)
  BY <1>0, <1>8 DEF ProbeNowhere, ProbeDue, Remember, Order
<1>9. CASE KeepTrimmed
  BY <1>0, <1>9 DEF KeepTrimmed, Hold, Order
<1> QED BY <1>1, <1>2, <1>3, <1>4, <1>5, <1>6, <1>7, <1>8, <1>9 DEF Update

\* control.go:13 "act only as guards that forbid growing": under a forbidding
\* guard the limit rises by one at most, when a trim is taken back.
LEMMA GuardedStep ==
    ASSUME ControllerTypeOK, Order, NEW s, Update(s), ~CanGrow(s)
    PROVE  w' <= w \/ (ph = "trimming" /\ w' = w + 1)
<1> USE DEF ControllerTypeOK, limits
<1>0. w \in Int /\ prevW \in Int /\ MinW \in Int /\ MaxW \in Int /\ ~MayGrow(s)
  BY ControllerConstants DEF MayGrow
<1>1. CASE Revert \/ TakeBack
  BY <1>0, <1>1, RestoreBounds DEF Revert, TakeBack, Order
<1>2. CASE ProbeDown(s)
  BY <1>0, <1>2 DEF ProbeDown
<1>3. CASE Dwell \/ Stalled(s) \/ ClimbOn(s) \/ KeepHolding \/ ProbeNowhere(s) \/ KeepTrimmed
  BY <1>0, <1>3 DEF Dwell, Stalled, ClimbOn, KeepHolding, ProbeNowhere, KeepTrimmed
<1>4. ~ProbeUp(s)
  BY <1>0 DEF ProbeUp, UpNow
<1> QED BY <1>1, <1>2, <1>3, <1>4 DEF Update

-----------------------------------------------------------------------------
(* The watchdog.                                                             *)

LEMMA TickTypes == ASSUME WatchdogTypeOK, Tick PROVE WatchdogTypeOK'
<1> USE WatchdogConstants DEF WatchdogTypeOK
<1>1. Older \in 0..LongTimeout
  BY DEF Older
<1>2. CASE Renew
  BY <1>2 DEF Renew
<1>3. CASE Wait \/ Ask \/ Abort
  BY <1>1, <1>3 DEF Wait, Ask, Abort, GiveUp
<1>4. CASE Unwatched
  BY <1>4 DEF Unwatched, watchVars
<1> QED BY <1>2, <1>3, <1>4 DEF Tick

LEMMA AnswerTypes == ASSUME WatchdogTypeOK, Answer \/ StopWatch PROVE WatchdogTypeOK'
BY WatchdogConstants DEF Answer, GoOn, TypeAbort, GiveUp, StopWatch, WatchdogTypeOK

LEMMA CountTypes == ASSUME WatchdogTypeOK, NEW n \in Int, Count(n) PROVE WatchdogTypeOK'
BY DEF Count, WatchdogTypeOK

-----------------------------------------------------------------------------
(* The composition.                                                          *)

IInv == TypeOK /\ Order

\* Every sample has a throughput.
LEMMA SampleNat ==
    ASSUME ControllerTypeOK, NEW k \in Kinds, NEW s \in Samples(k)
    PROVE  s.throughput \in Nat
<1>1. Smaller(w, Knee) \in Nat
  BY ControllerConstants, MonitorsConstants DEF ControllerTypeOK, Smaller
<1>2. Plant(w) \in Nat
  BY <1>1, ProductNat, MonitorsConstants DEF Plant
<1> QED BY <1>2 DEF Samples

LEMMA CreditInt == \A k \in Kinds : Credit[k] \in Int
BY MonitorsConstants DEF Credit

LEMMA InitIInv == Init => IInv
<1> SUFFICES ASSUME Init PROVE IInv
  OBVIOUS
<1>1. StartW \in Int
  BY ControllerConstants DEF StartW, Smaller, Larger
<1>b. probeUp \in BOOLEAN /\ primed \in BOOLEAN /\ aborted \in BOOLEAN
  BY Zenon DEF Init, ControllerInit, WatchdogInit
<1>2. ControllerTypeOK /\ Order
  <2>1. w \in MinW..MaxW /\ prevW = w
    BY <1>1, ClampBounds DEF Init, ControllerInit
  <2>2. ema = Unset /\ refT = 0 /\ peakT = 0 /\ ph = "climbing" /\ dwell = 0 /\ hold = 0
    BY DEF Init, ControllerInit
  <2> QED BY <1>b, <2>1, <2>2, ControllerConstants DEF ControllerTypeOK, Order
<1>3. WatchdogTypeOK
  <2>1. ahead = 0 /\ idle = 0 /\ patience = StallTimeout /\ watch = "on"
    BY DEF Init, WatchdogInit
  <2> QED BY <1>b, <2>1, WatchdogConstants DEF WatchdogTypeOK
<1>4. stage \in DOMAIN KindsAt
  BY DEF Init, KindsAt
<1> QED BY <1>2, <1>3, <1>4, MonitorsConstants, WatchdogConstants DEF Init, IInv, TypeOK

LEMMA StepIInv == ASSUME IInv, [Next]_vars PROVE IInv'
<1> USE DEF IInv
<1>0. ControllerTypeOK /\ WatchdogTypeOK /\ Order
  BY DEF TypeOK
<1>1. ASSUME NEW k \in Kinds, Slice(k) PROVE IInv'
  <2>1. PICK s \in Samples(k) : Update(s) /\ doing' \in {"flow", "hang", "other"}
    BY <1>1 DEF Slice
  <2>2. ControllerTypeOK' /\ Order'
    BY <1>0, <2>1, SampleNat, ControllerStep
  <2>3. WatchdogTypeOK'
    BY <1>0, <1>1, CreditInt, CountTypes DEF Slice
  <2>4. slices' \in 0..PerWatch /\ quiet' \in 0..LongTimeout + 1
    BY <1>1, MonitorsConstants, WatchdogConstants DEF Slice, TypeOK
  <2> QED BY <1>1, <2>1, <2>2, <2>3, <2>4 DEF Slice, TypeOK
<1>2. CASE WatchTick
  <2>1. WatchdogTypeOK'
    BY <1>0, <1>2, TickTypes DEF WatchTick
  <2>2. quiet' \in 0..LongTimeout + 1 /\ slices' \in 0..PerWatch
    BY <1>2, WatchdogConstants, MonitorsConstants DEF WatchTick, TypeOK, Smaller
  <2> QED BY <1>0, <1>2, <2>1, <2>2 DEF WatchTick, TypeOK, ctlVars, ControllerTypeOK, Order
<1>3. CASE UserAnswers \/ Stop
  <2>1. WatchdogTypeOK'
    BY <1>0, <1>3, AnswerTypes DEF UserAnswers, Stop
  <2> QED BY <1>0, <1>3, <2>1 DEF UserAnswers, Stop, TypeOK, ctlVars, runVars, ControllerTypeOK, Order
<1>4. CASE NextStage
  BY <1>0, <1>4 DEF NextStage, TypeOK, ctlVars, watchVars, KindsAt, ControllerTypeOK, WatchdogTypeOK, Order
<1>5. CASE UNCHANGED vars
  BY <1>0, <1>5 DEF vars, runVars, TypeOK, ctlVars, watchVars, ControllerTypeOK, WatchdogTypeOK, Order
<1> QED BY <1>1, <1>2, <1>3, <1>4, <1>5 DEF Next, Work, Returned

\* control.go:58 "bounded to [min,max]": the limit stays within its bounds, and
\* all other state has its type, for every plant and every reading.
THEOREM TypeCorrect == Spec => []TypeOK
<1>1. IInv => TypeOK
  BY DEF IInv
<1> QED BY <1>1, InitIInv, StepIInv, PTL DEF Spec

\* A step under a forbidding guard, as the work of a slice.
GuardsHold ==
    \A k \in Kinds : \A s \in Samples(k) :
        Update(s) /\ ~CanGrow(s) => w' <= w \/ (ph = "trimming" /\ w' = w + 1)

\* control.go:13 "System-CPU and HDD %util act only as guards that forbid
\* growing": while a signal is above its ceiling, the limit rises only to take
\* a trim back, and then by one, whatever stalls came in between.
THEOREM GuardsForbidGrowing == Spec => [][GuardsHold]_vars
<1>1. IInv /\ [Next]_vars => [GuardsHold]_vars
  BY GuardedStep DEF IInv, TypeOK, GuardsHold
<1> QED BY <1>1, InitIInv, StepIInv, PTL DEF Spec

-----------------------------------------------------------------------------
\* What progressCount promises: no work takes the count back, and all watched
\* work moves it.
Honest == \A k \in Kinds : Credit[k] >= 0 /\ (k \in Watched => Credit[k] > 0)

\* While the count stands still, the watchdog's window is younger than the last
\* watched work.
Window == /\ ahead >= 0
          /\ watch = "on" /\ primed /\ ahead = 0 => quiet > idle

LEMMA StepWindow == ASSUME Honest, IInv, Window, [Next]_vars PROVE Window'
<1> USE WatchdogConstants DEF IInv, TypeOK, WatchdogTypeOK, Window
<1>1. ASSUME NEW k \in Kinds, Slice(k) PROVE Window'
  <2>1. Credit[k] \in Int /\ Credit[k] >= 0 /\ (k \in Watched => Credit[k] > 0)
    BY CreditInt DEF Honest
  <2> QED BY <1>1, <2>1 DEF Slice, Count
<1>2. CASE WatchTick
  <2>1. CASE Renew
    BY <1>2, <2>1 DEF WatchTick, Renew, Smaller
  <2>2. CASE Wait
    BY <1>2, <2>2 DEF WatchTick, Wait, Fresh, Older, Smaller
  <2>3. CASE Ask \/ Abort \/ Unwatched
    BY <2>3 DEF Ask, Abort, GiveUp, Unwatched, watchVars
  <2> QED BY <1>2, <2>1, <2>2, <2>3 DEF WatchTick, Tick
<1>3. CASE UserAnswers \/ Stop
  BY <1>3 DEF UserAnswers, Stop, Answer, GoOn, TypeAbort, GiveUp, StopWatch
<1>4. CASE NextStage \/ UNCHANGED vars
  BY <1>4 DEF NextStage, vars, runVars, watchVars
<1> QED BY <1>1, <1>2, <1>3, <1>4 DEF Next, Work, Returned

LEMMA InitWindow == Init => Window
BY DEF Init, WatchdogInit, Window

\* A stall that the watchdog acts on has lasted: at its tick the count has stood
\* still for the timeout, and the last watched work is older than that.
LEMMA VerdictStep ==
    ASSUME IInv, Window, [Next]_vars, watch = "on", watch' = "asking" \/ aborted' # aborted
    PROVE  quiet' > patience
<1> USE WatchdogConstants DEF IInv, TypeOK, WatchdogTypeOK, Window
<1>1. ASSUME NEW k \in Kinds, Slice(k) PROVE FALSE
  BY <1>1 DEF Slice, Count
<1>2. CASE WatchTick
  <2>1. CASE Ask \/ Abort
    <3>0. ~Fresh /\ patience # Forever /\ Older >= patience
      BY <2>1, Zenon DEF Ask, Abort, Overdue
    <3>1. quiet > idle
      BY <3>0 DEF Fresh
    <3>2. patience \in Int /\ Older >= patience /\ patience <= LongTimeout
      BY <3>0
    <3>3. quiet' = quiet + 1 \/ quiet' = LongTimeout + 1
      BY <1>2 DEF WatchTick, Smaller
    <3>4. Older <= idle + 1 /\ Older <= LongTimeout /\ Older \in Int
      BY DEF Older
    <3>5. quiet \in Int /\ idle \in Int /\ LongTimeout \in Int
      OBVIOUS
    <3> HIDE DEF IInv, TypeOK, WatchdogTypeOK, Window
    <3> QED BY <3>1, <3>2, <3>3, <3>4, <3>5
  <2>2. CASE Renew \/ Wait \/ Unwatched
    BY <2>2 DEF Renew, Wait, Unwatched
  <2> QED BY <1>2, <2>1, <2>2 DEF WatchTick, Tick
<1>3. ~UserAnswers
  BY DEF UserAnswers, Answer, GoOn, TypeAbort
<1>4. CASE Stop \/ NextStage \/ UNCHANGED vars
  BY <1>4 DEF Stop, StopWatch, NextStage, vars, watchVars
<1> QED BY <1>1, <1>2, <1>3, <1>4 DEF Next, Work, Returned

\* watchdog.go:38: where the count is what its comment promises, no run is
\* aborted, and no user asked, within the timeout of watched work, whatever the
\* timeouts, the answers and the order of the work.
THEOREM NoFalseStallIfHonest == ASSUME Honest PROVE Spec => NoFalseStall
<1>1. IInv /\ Window /\ [Next]_vars
        => [watch = "on" /\ (watch' = "asking" \/ aborted' # aborted) => quiet' > patience]_vars
  BY VerdictStep
<1>2. IInv /\ Window /\ [Next]_vars => (IInv /\ Window)'
  BY Honest, StepIInv, StepWindow
<1> QED BY <1>1, <1>2, InitIInv, InitWindow, PTL DEF Spec, NoFalseStall
=============================================================================
