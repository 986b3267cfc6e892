------------------------------ MODULE Watchdog ------------------------------
(***************************************************************************)
(* The stall watchdog (internal/engine/watchdog.go).  At each tick it reads *)
(* the progress count; a count that has stood still for the timeout is a   *)
(* stall.  Only differences matter: ahead is the count less the one in the *)
(* detector (det.last), idle the ticks since it was put there (det.since). *)
(***************************************************************************)
EXTENDS Integers

CONSTANTS
    StallTimeout,    \* stallTimeout in ticks
    LongTimeout,     \* what "m" asks for, in ticks
    Terminals        \* what isTerminal() may answer

ASSUME WatchdogConstants ==
    /\ StallTimeout \in Nat \ {0} /\ LongTimeout \in Nat \ {0}
    /\ StallTimeout <= LongTimeout /\ Terminals \subseteq BOOLEAN

VARIABLES
    ahead, primed, idle,
    patience,        \* det.timeout, or Forever
    watch,           \* the goroutine: "on", "asking" or "returned"
    aborted          \* runner.aborted is set

watchVars == <<ahead, primed, idle, patience, watch, aborted>>

Forever == -1

WatchdogInit ==
    /\ ahead = 0 /\ primed = FALSE /\ idle = 0
    /\ patience = StallTimeout /\ watch = "on" /\ aborted = FALSE

\* Work done elsewhere moves the count; after a prompt a new window begins, so
\* what happens meanwhile is not kept.
Count(n) == ahead' = (IF watch = "on" THEN ahead + n ELSE 0) /\ UNCHANGED <<primed, idle, patience, watch, aborted>>

Fresh == ~primed \/ ahead # 0

RenewKeepsSince ==   \* mutant: the window goes on
    /\ watch = "on" /\ Fresh
    /\ ahead' = 0 /\ primed' = TRUE
    /\ UNCHANGED <<idle, patience, watch, aborted>>

RenewUnprimed ==   \* mutant: every reading is the first
    /\ watch = "on" /\ Fresh
    /\ ahead' = 0 /\ idle' = 0
    /\ UNCHANGED <<primed, patience, watch, aborted>>

\* update: the first reading of a window, or a count that differs.
Renew ==
    /\ watch = "on" /\ Fresh
    /\ ahead' = 0 /\ primed' = TRUE /\ idle' = 0
    /\ UNCHANGED <<patience, watch, aborted>>

\* The ticks are counted no further than the longest timeout.
Older == IF idle < LongTimeout THEN idle + 1 ELSE idle
Overdue == patience # Forever /\ Older >= patience

Wait ==
    /\ watch = "on" /\ ~Fresh /\ ~Overdue
    /\ idle' = Older /\ UNCHANGED <<ahead, primed, patience, watch, aborted>>

\* onStall: a run that can ask, asks; another is aborted.
Ask ==
    /\ watch = "on" /\ ~Fresh /\ Overdue /\ TRUE \in Terminals
    /\ watch' = "asking" /\ idle' = Older
    /\ UNCHANGED <<ahead, primed, patience, aborted>>

GiveUp == aborted' = TRUE /\ watch' = "returned"

Abort ==
    /\ watch = "on" /\ ~Fresh /\ Overdue /\ FALSE \in Terminals
    /\ GiveUp /\ idle' = Older /\ UNCHANGED <<ahead, primed, patience>>

\* While the prompt is open, and after the goroutine's return, ticks are lost.
Unwatched == watch # "on" /\ UNCHANGED watchVars

Tick == Renew \/ Wait \/ Ask \/ Abort \/ Unwatched

\* What may be typed: go on for a time, or for ever, with a new window.
GoOn ==
    /\ watch = "asking"
    /\ patience' \in {StallTimeout, LongTimeout, Forever}
    /\ primed' = FALSE /\ watch' = "on"
    /\ UNCHANGED <<ahead, idle, aborted>>
TypeAbort == watch = "asking" /\ GiveUp /\ UNCHANGED <<ahead, primed, idle, patience>>
Answer == GoOn \/ TypeAbort

\* stopBg is closed; a goroutine that waits for an answer does not see it.
StopWatch == watch = "on" /\ watch' = "returned" /\ UNCHANGED <<ahead, primed, idle, patience, aborted>>

WatchdogTypeOK ==
    /\ ahead \in Int /\ primed \in BOOLEAN /\ idle \in 0..LongTimeout
    /\ patience \in {StallTimeout, LongTimeout, Forever}
    /\ watch \in {"on", "asking", "returned"} /\ aborted \in BOOLEAN
=============================================================================
