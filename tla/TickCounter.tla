---------------------------- MODULE TickCounter ----------------------------
(***************************************************************************)
(* What the timer of the lab1 kernel promises to whoever reads its output: *)
(* every TickNum served interrupts one report, no report skipped, none     *)
(* made early, none made twice, and the machine switched off right after   *)
(* report MaxNum.  Kernel implements it.                                   *)
(***************************************************************************)
EXTENDS Naturals

CONSTANTS TickNum, MaxNum

VARIABLES
    served,     \* timer interrupts counted
    reported,   \* lines "100 ticks" written
    on

tcvars == <<served, reported, on>>

Due == served \div TickNum

Init == served = 0 /\ reported = 0 /\ on = TRUE

(* The next interrupt is not counted while a report is owed, nor after the *)
(* last one.                                                               *)
Serve ==
    /\ on /\ reported = Due /\ reported < MaxNum
    /\ served' = served + 1
    /\ UNCHANGED <<reported, on>>

Report ==
    /\ on /\ reported < Due
    /\ reported' = reported + 1
    /\ UNCHANGED <<served, on>>

Off ==
    /\ on /\ reported = MaxNum
    /\ on' = FALSE
    /\ UNCHANGED <<served, reported>>

Next == Serve \/ Report \/ Off

Spec == Init /\ [][Next]_tcvars
=============================================================================
