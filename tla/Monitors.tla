------------------------------ MODULE Monitors ------------------------------
(***************************************************************************)
(* The background goroutines of a run (engine.go, autoscale.go): what the  *)
(* controller and the watchdog see of the work, and what they make of it.  *)
(*                                                                         *)
(* Time is cut into the controller's intervals.  In each of them the run   *)
(* has done one kind of work, or none: Slice is the work and the sample at *)
(* its end.  The watchdog ticks after at most PerWatch of them.            *)
(***************************************************************************)
EXTENDS Controller, Watchdog

CONSTANTS
    Knee, Unit,        \* the plant: each stream adds Unit, up to Knee streams
    Readings,          \* what the guard signals may read in this instance
    Passes,            \* --mirror or --move is given
    Kinds,             \* the kinds of work in this instance
    Watched,           \* the kinds of work that NoFalseStall is about
    PerWatch           \* bound: slices between two ticks of the watchdog

Plant(n) == Unit * Smaller(n, Knee)

\* What one step of each kind adds to progressCount.
Credit == [discover |-> 1,   \* an empty file found by the walk: totalFiles
           chunk    |-> 1,   \* moved
           finish   |-> 1,   \* files, dirs, symlinks, linked or dirMetaDone
           skip     |-> 0,   \* an empty unchanged file: totalFiles back, skipped
           takeback |-> -1,  \* the same with one byte: totalBytes back, too
           verify   |-> 0,   \* bytes compared by --checksum
           delete   |-> 1,   \* deleted
           scan     |-> 0,   \* an entry that --mirror keeps
           remove   |-> 0,   \* removed
           hang     |-> 0]   \* nothing

\* Which work there is at which stage of Run: the walk and the pools, then the
\* passes over the whole tree (--mirror's deletions, --move's removals).
KindsAt == [work   |-> {"discover", "chunk", "finish", "skip", "takeback", "verify", "hang"},
            passes |-> {"delete", "scan", "remove", "hang"}]

\* After an abort the workers only end what they are in the middle of.
InFlight == {"verify", "hang"}

ASSUME MonitorsConstants ==
    /\ Knee \in Nat /\ Unit \in Nat /\ Passes \in BOOLEAN /\ PerWatch \in Nat \ {0}
    /\ Readings \subseteq {"unknown", "over"}
    /\ Kinds \subseteq DOMAIN Credit /\ Watched \subseteq Kinds

VARIABLES
    stage,      \* "work", "passes", "done"
    doing,      \* in the last slice: "flow" (data moves, and no guard forbids
                \* growing), "hang" or "other"
    slices,     \* since the last tick of the watchdog
    quiet       \* ticks since work of a watched kind

runVars == <<stage, doing, slices, quiet>>
vars == <<ctlVars, watchVars, runVars>>

Init ==
    /\ ControllerInit /\ WatchdogInit
    /\ stage = "work" /\ doing = "other" /\ slices = 0 /\ quiet = 0

Working == stage \in DOMAIN KindsAt

\* runController's tick: stalled && saturated.  Only work in the pool holds
\* slots of the gate; how many, the sample finds out.
Samples(k) ==
    [throughput : {IF k = "chunk" THEN Plant(w) ELSE 0},
     blocked    : IF Credit[k] = 0 /\ stage = "work" THEN BOOLEAN ELSE {FALSE},
     cpu : Readings, util : Readings]

Slice(k) ==
    /\ slices < PerWatch /\ Working /\ k \in KindsAt[stage] \cap Kinds
    /\ aborted /\ stage = "work" => k \in InFlight
    /\ \E s \in Samples(k) :
          /\ Update(s)
          /\ doing' = CASE k = "chunk" /\ CanGrow(s) -> "flow"
                       [] k = "hang" -> "hang"
                       [] OTHER -> "other"
    /\ Count(Credit[k])
    /\ slices' = slices + 1
    /\ quiet' = IF k \in Watched /\ watch = "on" THEN 0 ELSE quiet
    /\ UNCHANGED stage

\* quiet is counted until it is more than the longest timeout.
WatchTick ==
    /\ Working /\ slices > 0
    /\ Tick /\ slices' = 0
    /\ quiet' = IF watch = "on" THEN Smaller(quiet + 1, LongTimeout + 1) ELSE 0
    /\ UNCHANGED <<ctlVars, stage, doing>>

UserAnswers == Answer /\ UNCHANGED <<ctlVars, runVars>>

\* Run goes on to the passes over the whole tree only when nothing halted it.
NextStage ==
    /\ stage' = IF stage = "work" /\ Passes /\ ~aborted THEN "passes" ELSE "done"
    /\ Working
    /\ UNCHANGED <<ctlVars, watchVars, doing, slices, quiet>>

\* stopBg ends the three goroutines and Run waits for them: the watchdog's may
\* be at its prompt.
Stop == stage = "done" /\ StopWatch /\ UNCHANGED <<ctlVars, runVars>>

Returned == stage = "done" /\ watch = "returned" /\ UNCHANGED vars

Work == \E k \in Kinds : Slice(k)

Next == Work \/ WatchTick \/ UserAnswers \/ NextStage \/ Stop \/ Returned

\* Time passes, and the goroutines end when they are told to.  Nothing makes
\* the work advance, the stages end or the user answer.
Fairness == /\ WF_vars(Work)
            /\ WF_vars(WatchTick) /\ WF_vars(Stop)

Spec == Init /\ [][Next]_vars /\ Fairness

-----------------------------------------------------------------------------
(* Properties.                                                              *)

TypeOK ==
    /\ ControllerTypeOK /\ WatchdogTypeOK
    /\ stage \in DOMAIN KindsAt \cup {"done"}
    /\ doing \in {"flow", "hang", "other"}
    /\ slices \in 0..PerWatch /\ quiet \in 0..LongTimeout + 1

\* watchdog.go:38 "a monotonic measure of forward progress across all work
\* kinds": a run is aborted, or the user asked, only when no work of the watched
\* kinds was done in all the ticks of the timeout.
NoFalseStall ==
    [][ watch = "on" /\ (watch' = "asking" \/ aborted' # aborted) => quiet' > patience ]_vars

\* A run that hangs for good is aborted, or the user is asked again and again
\* until the answer is to wait for ever.
Hanging == doing = "hang" /\ Working
HangSeen == <>[]Hanging => []<>(watch = "asking" \/ aborted \/ patience = Forever)

\* While data flows and no guard forbids it, the limit finds the knee of the
\* throughput curve and stays by it, wherever stalls and guards had driven it.
Settles ==
    <>[](stage = "work" /\ doing = "flow") => <>[](w \in Knee - 1..Grown(Knee))
=============================================================================
