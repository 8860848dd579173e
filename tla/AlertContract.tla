---------------------------- MODULE AlertContract ----------------------------
(***************************************************************************)
(* What the notifier promises about one service, as the docstring of class *)
(* Notifier states it and with nothing of how it is done: each outcome of  *)
(* a check is one step.  A failing outcome extends the streak and, once    *)
(* the streak is long enough, becomes what the operators are told; a       *)
(* healthy outcome ends the streak and is told at once.  What is told is   *)
(* then kept, or taken back if the run dies before; the next outcome waits *)
(* for that.                                                               *)
(*                                                                         *)
(* The operators hear something exactly when an outcome changes "told".    *)
(***************************************************************************)
EXTENDS Naturals

CONSTANTS
    Threshold,    \* failing outcomes in a row before an outage is told
    FailCap       \* streaks longer than this are not told apart

VARIABLES
    told,         \* the state the operators are being told, or were told last
    kept,         \* the last state that was told to the end
    streak        \* failing outcomes since the last healthy one

contractVars == <<told, kept, streak>>

Unhealthy == {"down", "degraded"}

ContractInit ==
    /\ told = "up"
    /\ kept = "up"
    /\ streak = 0

Healthy ==
    /\ told = kept
    /\ streak' = 0
    /\ told' = "up"
    /\ UNCHANGED kept

Failing(s) ==
    /\ told = kept
    /\ streak' = IF streak < FailCap THEN streak + 1 ELSE streak
    /\ told' = IF streak' >= Threshold THEN s ELSE told
    /\ UNCHANGED kept

Keep ==
    /\ kept' = told
    /\ UNCHANGED <<told, streak>>

TakeBack ==
    /\ told' = kept
    /\ UNCHANGED <<kept, streak>>

ContractNext ==
    \/ Healthy
    \/ \E s \in Unhealthy : Failing(s)
    \/ Keep
    \/ TakeBack

ContractSpec == ContractInit /\ [][ContractNext]_contractVars
=============================================================================
