------------------------------- MODULE Machine -------------------------------
(***************************************************************************)
(* The DEBUG_GRADE build from the first instruction to the last key: the   *)
(* hart of Kernel, and Monitor as what runs once the panic in the timer    *)
(* handler has entered kmonitor (kern/debug/panic.c:26-30).  The two share *)
(* is_panic, the interrupt enable and the console; the time counter goes   *)
(* on below the monitor, and the timer interrupt it raises stays pending.  *)
(***************************************************************************)
EXTENDS Kernel

CONSTANTS BUFSIZE, MAXARGS, Printable, NoKeyIsZero, StackDepth    \* of Monitor

VARIABLES at, buf, i, p, argc, argv, depth, screen, handed      \* of Monitor

mvars == <<at, buf, i, p, argc, argv, depth, screen, handed>>
allvars == <<vars, mvars>>

M == INSTANCE Monitor WITH pc <- at

(* readline's buffer is in .bss: memset clears it before anyone types.     *)
MInit == Init /\ M!Init

InMonitor == Step("kmonitor", "kmonitor")

MonitorRuns == InMonitor /\ at # "panic" /\ M!Work /\ UNCHANGED vars
KeyTyped == InMonitor /\ M!Key /\ UNCHANGED vars

(* backtrace's panic: __panic once more, with what it does to the kernel.  *)
MonitorPanics ==
    /\ InMonitor /\ M!Panic /\ PanicMessage
    /\ sie' = FALSE
    /\ UNCHANGED <<power, spie, stie, stvec, sepc, scause, timer, frames, ticks, num>>

KernelRuns == Hart /\ UNCHANGED mvars
KernelPanics == PanicCall /\ UNCHANGED mvars
TimePasses == PassTime /\ UNCHANGED mvars
MNext == KernelRuns \/ KernelPanics \/ TimePasses \/ MonitorRuns \/ MonitorPanics \/ KeyTyped

(* As in Kernel and Monitor: the hart executes, in the monitor too, time   *)
(* passes, and whoever types owes nothing.                                 *)
MSpec == /\ MInit /\ [][MNext]_allvars
         /\ WF_allvars(KernelRuns \/ KernelPanics) /\ WF_allvars(TimePasses)
         /\ WF_allvars(MonitorRuns \/ MonitorPanics)
-----------------------------------------------------------------------------
(* Nothing but the monitor runs once it is entered: its keys, its static   *)
(* buffer and its stack are its own, however often backtrace panics and    *)
(* however long the timer interrupt has been pending (panic.c:27,          *)
(* trap.c:115).                                                            *)
MonitorOwnsTheHart ==
    [][pc = "kmonitor" => UNCHANGED <<power, pc, csrs, timecmp, frames, data>>]_allvars

(* The machine gets from reset through its panic to wait for a key, and    *)
(* back to that after every line argv has room for and, as long as the     *)
(* stack holds, after every panic of a backtrace, with the timer interrupt *)
(* pending meanwhile (kmonitor.c:90-96, panic.c:26-30).                    *)
AsksAgain ==
    /\ <>(pc = "kmonitor" /\ at = "getchar")
    /\ (pc = "kmonitor" /\ at = "parse" /\ M!Servable) ~> (at = "getchar")
=============================================================================
