----------------------------- MODULE Controller -----------------------------
(***************************************************************************)
(* The auto-scaling controller (internal/control/control.go): it moves the *)
(* limit w of the copy streams from one sample of the run to the next.     *)
(* Update(s) is one call of Controller.Update.                             *)
(*                                                                         *)
(* Throughputs and their moving average are integers; the average is       *)
(* rounded up, so that it reaches a throughput that stays.                 *)
(***************************************************************************)
EXTENDS Integers

CONSTANTS
    MinW, MaxW,              \* the bounds given to New
    Rotational, Cpus,        \* a spinning disk is involved; processors
    AlphaNum, AlphaDen,      \* Alpha, the weight of the newest sample
    MarginNum, MarginDen,    \* Margin, the change of throughput that counts
    DwellN, Reprobe

ASSUME ControllerConstants ==
    /\ MinW \in Nat \ {0} /\ MaxW \in Nat /\ MinW <= MaxW
    /\ Rotational \in BOOLEAN /\ Cpus \in Nat
    /\ AlphaNum \in Nat /\ AlphaDen \in Nat \ {0} /\ AlphaNum <= AlphaDen
    /\ MarginNum \in Nat /\ MarginDen \in Nat \ {0} /\ MarginNum <= MarginDen
    /\ DwellN \in Nat /\ Reprobe \in Nat \ {0}

VARIABLES
    w,          \* the limit
    prevW,      \* the limit before the current tentative change
    ema,        \* the average, or Unset before the first sample
    refT,       \* the average at the limit we last grew from
    peakT,      \* the best average seen
    ph,         \* "climbing", "holding" or "trimming"
    dwell,      \* samples to let pass after a change
    hold,       \* samples since the last probe
    probeUp     \* the direction of the last probe

limits == <<w, prevW>>
ctlVars == <<w, prevW, ema, refT, peakT, ph, dwell, hold, probeUp>>

Unset == -1
Larger(x, y) == IF x > y THEN x ELSE y
Smaller(x, y) == IF x < y THEN x ELSE y
Clamp(n) == Smaller(Larger(n, MinW), MaxW)

\* controllerStartW: few streams on a spinning disk.
StartW == Smaller(IF Rotational THEN 2 ELSE Larger(2 * Cpus, 4), MaxW)

ControllerInit ==
    /\ w = Clamp(StartW) /\ prevW = Clamp(StartW)
    /\ ema = Unset /\ refT = 0 /\ peakT = 0
    /\ ph = "climbing" /\ dwell = 0 /\ hold = 0 /\ probeUp = FALSE

-----------------------------------------------------------------------------
(* A sample has the throughput, whether every stream was busy without any  *)
(* progress, and two guard signals, which may be unknown.                  *)

\* canGrow: a guard forbids only what is measured and above its ceiling.
CanGrow(s) == s.cpu # "over" /\ ~(Rotational /\ s.util = "over")
MayGrow(s) == CanGrow(s) /\ w < MaxW

GrownFreely(n) == Larger(n + n \div 2, n + 1)   \* mutant: no ceiling

\* grow(): by half, by one at least.
Grown(n) == Smaller(Larger(n + n \div 2, n + 1), MaxW)

Smoothed(x) ==
    IF ema = Unset THEN x
    ELSE (AlphaNum * x + (AlphaDen - AlphaNum) * ema + AlphaDen - 1) \div AlphaDen

\* The tests on the average, which Update has already brought up to date.
Gained == ema' * MarginDen > refT * (MarginDen + MarginNum)
Sustained == ema' * MarginDen >= peakT * (MarginDen - MarginNum)

\* Each change of the limit is followed by a dwell.
Raise == /\ prevW' = w /\ w' = Grown(w) /\ dwell' = DwellN
Hold == /\ ph' = "holding" /\ hold' = 0 /\ UNCHANGED probeUp
Restore ==
    /\ w' = Clamp(prevW) /\ Hold /\ dwell' = DwellN
    /\ UNCHANGED <<prevW, refT, peakT>>

-----------------------------------------------------------------------------
Dwell == /\ dwell > 0 /\ dwell' = dwell - 1
         /\ UNCHANGED <<limits, refT, peakT, ph, hold, probeUp>>

\* A stall, in any phase: grow, and leave the plateau tests alone.
Stalled(s) ==
    /\ \/ MayGrow(s) /\ Raise
       \/ ~MayGrow(s) /\ UNCHANGED <<limits, dwell>>
    /\ UNCHANGED <<refT, peakT, ph, hold, probeUp>>

\* The last increase paid off: go on, or hold what was reached.
ClimbOn(s) ==
    /\ ph = "climbing" /\ Gained
    /\ refT' = ema' /\ peakT' = Larger(peakT, ema')
    /\ \/ MayGrow(s) /\ Raise /\ UNCHANGED <<ph, hold, probeUp>>
       \/ ~MayGrow(s) /\ Hold /\ UNCHANGED <<limits, dwell>>

RevertStays ==   \* mutant: holds what it grew to
    /\ ph = "climbing" /\ ~Gained /\ Hold /\ dwell' = DwellN
    /\ UNCHANGED <<limits, refT, peakT>>

\* It did not: back to the knee.
Revert == ph = "climbing" /\ ~Gained /\ Restore

\* The throughput of the held limit is what probes are compared with.
Remember == ph = "holding" /\ refT' = ema' /\ peakT' = Larger(peakT, ema')

KeepHolding ==
    /\ Remember /\ hold + 1 < Reprobe /\ hold' = hold + 1
    /\ UNCHANGED <<limits, ph, dwell, probeUp>>

\* Probes go up and down in turn, and the other way where one cannot.
ProbeDue == Remember /\ hold + 1 >= Reprobe /\ hold' = 0 /\ probeUp' = ~probeUp
UpNow(s) == MayGrow(s) /\ (~probeUp \/ w = MinW)

ProbeUp(s) == ProbeDue /\ UpNow(s) /\ Raise /\ ph' = "climbing"
ProbeDown(s) ==
    /\ ProbeDue /\ ~UpNow(s) /\ w > MinW
    /\ prevW' = w /\ w' = w - 1 /\ ph' = "trimming" /\ dwell' = DwellN
ProbeNowhere(s) ==
    /\ ProbeDue /\ ~MayGrow(s) /\ w = MinW
    /\ UNCHANGED <<limits, ph, dwell>>

\* A trimmed limit is kept while it sustains the peak, else taken back.
KeepTrimmed ==
    /\ ph = "trimming" /\ Sustained /\ refT' = ema' /\ Hold
    /\ UNCHANGED <<limits, peakT, dwell>>
TakeBack == ph = "trimming" /\ ~Sustained /\ Restore

Update(s) ==
    /\ ema' = Smoothed(s.throughput)
    /\ \/ Dwell
       \/ dwell = 0 /\ s.blocked /\ Stalled(s)
       \/ dwell = 0 /\ ~s.blocked /\
             \/ ClimbOn(s) \/ Revert
             \/ KeepHolding \/ ProbeUp(s) \/ ProbeDown(s) \/ ProbeNowhere(s)
             \/ KeepTrimmed \/ TakeBack

-----------------------------------------------------------------------------
ControllerTypeOK ==
    /\ w \in MinW..MaxW /\ prevW \in MinW..MaxW
    /\ ema \in Nat \cup {Unset} /\ refT \in Nat /\ peakT \in Nat
    /\ ph \in {"climbing", "holding", "trimming"}
    /\ dwell \in 0..DwellN /\ hold \in 0..Reprobe - 1 /\ probeUp \in BOOLEAN
=============================================================================
