------------------------------ MODULE Factions ------------------------------
(***************************************************************************)
(* A runner's faction, and the system crashes that let it be changed once. *)
(*                                                                         *)
(* Ticks open and close the window by the local clock; a command goes by   *)
(* the stamp the server gave it, which may lie before the window that is   *)
(* open when it arrives.  Which faction is chosen matters to nothing here. *)
(*                                                                         *)
(* Clocks composes it with the clocks and the commands of a runner.        *)
(***************************************************************************)
EXTENDS Naturals

CONSTANTS
    Window,  \* factionSwapDuration
    Apart    \* factionSwapWeek: at least so long from one crash to the next

ASSUME FactionsAssumption == Window \in Nat /\ Apart \in Nat

VARIABLES
    started,    \* FactionSwapStartedAt
    until,      \* FactionSwapUntil
    chosen,     \* the runner has a faction
    swappedAt,  \* its LastFactionSwapAt
    picks       \* history: choices made by commands sent during this crash

factions == <<started, until, chosen, swappedAt, picks>>

Zero == 0  \* the zero time

FactionsInit ==
    /\ started = Zero /\ until = Zero
    /\ chosen = FALSE /\ swappedAt = Zero
    /\ picks = 0

(* factionSwapOpenLocked.                                                     *)
SwapOpen(t) == started # Zero /\ until # Zero /\ t < until

(* Mistake: a choice made as the crash begins is one of before.  Not part of  *)
(* any action.                                                                *)
UnspentAtStart == swappedAt <= started

Unspent == swappedAt < started

(* The first choice is free at any time, and during a crash the only one.     *)
SetFaction(t) ==
    /\ chosen => SwapOpen(t) /\ Unspent
    /\ chosen' = TRUE
    /\ swappedAt' = IF SwapOpen(t) THEN t ELSE swappedAt
    /\ picks' = IF SwapOpen(t) /\ t >= started THEN picks + 1 ELSE picks
    /\ UNCHANGED <<started, until>>

(* factionSwapTickLocked.  How long after Apart the next crash comes is       *)
(* random, and the engine may have been started in the middle of the wait.    *)
SystemRestored(t) ==
    /\ until # Zero /\ t >= until
    /\ until' = Zero
    /\ UNCHANGED <<started, chosen, swappedAt, picks>>

SystemCrash(t) ==
    /\ until = Zero /\ (started = Zero \/ t - started >= Apart)
    /\ started' = t /\ until' = t + Window
    /\ picks' = 0
    /\ UNCHANGED <<chosen, swappedAt>>

FactionSwapTick(t) ==
    \/ SystemRestored(t)
    \/ SystemCrash(t)
    \/ (until = Zero \/ t < until) /\ UNCHANGED factions

-----------------------------------------------------------------------------
(* README.md: a system crash "opens one faction respec per runner": of the    *)
(* commands sent while it lasts, one at most sets the runner's faction        *)
(* (SetFaction).  One that was on its way when the crash began is stamped     *)
(* earlier, and does not use it up.                                           *)
RespecOnce == picks <= 1

=============================================================================
