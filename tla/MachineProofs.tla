---------------------------- MODULE MachineProofs ----------------------------
(***************************************************************************)
(* The kernel's invariants hold with the monitor on top of it: whatever is *)
(* typed, each step of Machine is a step of the kernel, of its panic, or   *)
(* none of either.                                                         *)
(***************************************************************************)
EXTENDS Machine, ConsoleProofs

(* A panic of the monitor's finds is_panic set and interrupts off.         *)
LEMMA PanicAgain ==
  ASSUME ConsoleInv, MonitorPanics
  PROVE  UNCHANGED vars
<1>1. TypeOK /\ Control /\ Counts
  BY DEF ConsoleInv
<1>2. pc = "kmonitor" /\ pc' = pc
  BY DEF MonitorPanics, InMonitor, Step
<1>3. is_panic = TRUE
  BY <1>1, <1>2 DEF Counts, TypeOK
<1>4. is_panic' = is_panic /\ console' = console
  BY <1>3 DEF MonitorPanics, PanicMessage
<1>5. sie = FALSE
  BY <1>1, <1>2 DEF Control, TypeOK
<1> QED
  BY <1>2, <1>4, <1>5 DEF MonitorPanics, vars, csrs, timer, data

(* Seen from the kernel, a step of Machine is one of these.                *)
LEMMA MachineStep ==
  ASSUME ConsoleInv, [MNext]_allvars
  PROVE  [Next \/ PanicCall]_vars
<1>1. CASE KernelRuns
  BY <1>1 DEF KernelRuns, Next
<1>2. CASE KernelPanics
  BY <1>2 DEF KernelPanics
<1>3. CASE TimePasses
  BY <1>3 DEF TimePasses, Next
<1>4. CASE MonitorRuns \/ KeyTyped
  BY <1>4 DEF MonitorRuns, KeyTyped
<1>5. CASE MonitorPanics
  BY <1>5, PanicAgain
<1>6. CASE UNCHANGED allvars
  BY <1>6 DEF allvars
<1> QED
  BY <1>1, <1>2, <1>3, <1>4, <1>5, <1>6 DEF MNext

(* What holds of the kernel alone holds of the whole machine.              *)
THEOREM MachineInvariance == MSpec => []ConsoleInv
<1>1. MInit => ConsoleInv
  BY ConsoleInitially DEF MInit
<1>2. ConsoleInv /\ [MNext]_allvars => ConsoleInv'
  BY MachineStep, ConsoleStep
<1> QED
  BY <1>1, <1>2, PTL DEF MSpec

(* One panic message ends the transcript, however often backtrace panics   *)
(* (panic.c:16-26).                                                        *)
THEOREM MachineTranscript == MSpec => []Transcript
  BY MachineInvariance, InvWritesTranscript, PTL

(* Nothing but the monitor runs once it is entered (panic.c:27).           *)
THEOREM MonitorKeepsTheHart == MSpec => MonitorOwnsTheHart
<1>1. ConsoleInv /\ [MNext]_allvars =>
        [pc = "kmonitor" => UNCHANGED <<power, pc, csrs, timecmp, frames, data>>]_allvars
  <2> SUFFICES ASSUME ConsoleInv, [MNext]_allvars, pc = "kmonitor"
               PROVE  UNCHANGED <<power, pc, csrs, timecmp, frames, data>>
    OBVIOUS
  <2>1. TypeOK /\ Control
    BY DEF ConsoleInv
  <2>2. ~Interrupted
    BY <2>1 DEF Control, TypeOK, Interrupted
  <2>3. ~KernelRuns /\ ~KernelPanics
    BY <2>2 DEF KernelRuns, KernelPanics, Hart, Boot, Trap, PanicCall, Step,
       Memset, Banner, Kerninfo, IdtInit, Ebreak, Mret, SetStie, Rdtime, SetTimer,
       ZeroTicks, Setup, IntrEnable, Interrupt, SaveAll, Dispatch, Breakpoint, Illegal,
       TimerRdtime, TimerSet, TimerTick, TimerTest, PrintTicks, EndOfTest, TestNum,
       Shutdown, RestoreAll, Sret, Panic, PanicDead, PrintLine, PrintAddr,
       SkipInstruction, SbiSetTimer, SbiSetTimerTo
  <2>4. CASE TimePasses
    BY <2>4 DEF TimePasses, PassTime, data
  <2>5. CASE MonitorRuns \/ KeyTyped \/ UNCHANGED allvars
    BY <2>5 DEF MonitorRuns, KeyTyped, allvars, vars, timer
  <2>6. CASE MonitorPanics
    BY <2>6, PanicAgain DEF vars, timer
  <2> QED
    BY <2>3, <2>4, <2>5, <2>6 DEF MNext
<1> QED
  BY <1>1, MachineInvariance, PTL DEF MSpec, MonitorOwnsTheHart
=============================================================================
