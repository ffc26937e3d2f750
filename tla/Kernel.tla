------------------------------- MODULE Kernel -------------------------------
(***************************************************************************)
(* The lab1 kernel on its one hart: the boot thread kern_init with         *)
(* clock_init inlined (kern/init/init.c, kern/driver/clock.c), the trap    *)
(* path __alltraps -> trap -> handler -> __trapret (kern/trap), and the    *)
(* end of the run, which is sbi_shutdown or, in a DEBUG_GRADE build, the   *)
(* panic that enters the monitor.                                          *)
(*                                                                         *)
(* pc names the statement the hart executes next.  A label stands for one  *)
(* C statement, except that the reads and writes an interrupt or the       *)
(* passing of time can separate are labels of their own: rdtime and the    *)
(* set_timer that uses what it read, the tick and the test of it.  One     *)
(* cprintf is one step; InterruptsOnlyWhenIdle says why that loses nothing.*)
(* Registers and the words of a trap frame are the subject of TrapEntry;   *)
(* here a frame holds what the handlers look at.                           *)
(*                                                                         *)
(* ResumeUncompressed, MemsetNothing, SetNothing, SetStieAndSie,           *)
(* SbiSetTimerBack, SbiSetTimerTwice, NoTimer, TimerNotSet, TimerTestEarly,*)
(* PanicMessageAgain, PanicDeadEnables and RestoreAllEnabled               *)
(* are wrong on purpose: put in the place of the definition that follows,  *)
(* a property of this module or of Machine fails.                          *)
(***************************************************************************)
EXTENDS Integers, Sequences, FiniteSets, SequencesExt

CONSTANTS
    TickNum,      \* the 100 of trap.c:13 and trap.c:117
    MaxNum,       \* the 10 of trap.c:121
    Timebase,     \* clock.c:29, in units of the time counter
    DebugGrade,   \* TRUE: the build has -DDEBUG_GRADE (trap.c:18)
    Garbage,      \* what the words of .bss may hold when kern_init starts
    MaxLate       \* bound: how far the time counter may run past the deadline

ASSUME KernelAssumption ==
    /\ TickNum \in Nat \ {0} /\ MaxNum \in Nat \ {0} /\ Timebase \in Nat \ {0}
    /\ DebugGrade \in BOOLEAN
    /\ Garbage \subseteq Nat
    /\ MaxLate \in Nat

VARIABLES
    power,      \* "on" until sbi_shutdown
    pc,         \* the next statement, or "wild" when the hart has left the code
    sie, spie,  \* sstatus.SIE and sstatus.SPIE
    stie,       \* sie.STIE (the source calls the bit MIP_STIP)
    stvec,      \* the label traps go to; "wild" until idt_init
    sepc,       \* [at, off]: off bytes after the statement at
    scause,
    now,        \* the time counter that rdtime reads
    timecmp,    \* the deadline held by the firmware, or Never
    n,          \* get_cycles's local: the time read last
    frames,     \* the trap frames on the stack, the newest last
    ticks, num, is_panic,
    console,    \* the lines written so far: <<text, at, off>>
    epoch       \* history: the time clock_init read

csrs == <<sie, spie, stie, stvec, sepc, scause>>
timer == <<now, timecmp, n, epoch>>
data == <<ticks, num, is_panic>>
vars == <<power, pc, csrs, timer, frames, data, console>>

Never == -1

BootLabels == {"memset", "banner", "kerninfo", "idt_init", "ebreak", "mret",
               "set_stie", "rdtime", "set_timer", "zero_ticks", "setup",
               "intr_enable", "loop"}
TrapLabels == {"save", "dispatch", "bp_type", "bp_addr", "bp_skip",
               "ill_type", "ill_addr", "ill_skip", "h_rdtime", "h_set_timer",
               "h_tick", "h_test", "h_print", "h_num", "shutdown",
               "h_eot", "h_panic", "panic_dead", "kmonitor",
               "restore", "sret"}
Labels == BootLabels \cup TrapLabels \cup {"wild"}
Causes == {"timer", "breakpoint", "illegal"}
Address == [at : Labels, off : Nat]
Texts == {"os is loading", "kerninfo", "Exception type: breakpoint",
          "ebreak caught at", "Exception type:Illegal instruction",
          "Illegal instruction caught at", "++ setup timer interrupts",
          "100 ticks", "End of Test.", "kernel panic"}
Frame == [sie : BOOLEAN, spie : BOOLEAN, epc : Address, cause : Causes]

TypeOK ==
    /\ power \in {"on", "off"} /\ pc \in Labels
    /\ sie \in BOOLEAN /\ spie \in BOOLEAN /\ stie \in BOOLEAN
    /\ stvec \in {"wild", "save"} /\ sepc \in Address /\ scause \in Causes
    /\ now \in Nat /\ timecmp \in Nat \cup {Never} /\ n \in Nat /\ epoch \in Nat
    /\ frames \in Seq(Frame)
    /\ ticks \in Nat /\ num \in Nat /\ is_panic \in BOOLEAN
    /\ console \in Seq(Texts \X Labels \X Nat)
-----------------------------------------------------------------------------
(* What the firmware hands over: interrupts off, no deadline, .bss as the  *)
(* loader left it.                                                         *)
Init ==
    /\ power = "on" /\ pc = "memset"
    /\ sie = FALSE /\ spie = FALSE /\ stie = FALSE /\ stvec = "wild"
    /\ sepc = [at |-> "wild", off |-> 0] /\ scause = "illegal"
    /\ now = 0 /\ timecmp = Never /\ n = 0 /\ epoch = 0
    /\ frames = <<>>
    /\ ticks \in Garbage /\ num \in Garbage /\ is_panic \in BOOLEAN
    /\ console = <<>>

(* The firmware keeps STIP raised from the deadline until sbi_set_timer.   *)
TimerPending == timecmp # Never /\ now >= timecmp
Interrupted == sie /\ stie /\ TimerPending

(* One statement of the program, which runs only where no interrupt is     *)
(* taken first.                                                            *)
Step(from, to) == power = "on" /\ pc = from /\ ~Interrupted /\ pc' = to

(* What the hart does on a trap, whatever its cause.                       *)
TakeTrap(cause) ==
    /\ sepc' = [at |-> pc, off |-> 0] /\ scause' = cause
    /\ spie' = sie /\ sie' = FALSE
    /\ pc' = stvec
    /\ UNCHANGED <<power, stie, stvec, timer, frames, data, console>>

(* Where the hart goes on from an address: ebreak is assembled to the      *)
(* 2-byte c.ebreak, mret is always 4 bytes; bytes that start no            *)
(* instruction of the program are "wild".                                  *)
ResumeUncompressed(addr) ==
    IF addr.off = 0 THEN addr.at
    ELSE IF addr = [at |-> "ebreak", off |-> 4] THEN "mret"
    ELSE IF addr = [at |-> "mret", off |-> 4] THEN "set_stie"
    ELSE "wild"
Resume(addr) ==
    IF addr.off = 0 THEN addr.at
    ELSE IF addr = [at |-> "ebreak", off |-> 2] THEN "mret"
    ELSE IF addr = [at |-> "mret", off |-> 4] THEN "set_stie"
    ELSE "wild"

PrintAddr(from, to, text, addr) ==
    /\ Step(from, to)
    /\ console' = Append(console, <<text, addr.at, addr.off>>)
    /\ UNCHANGED <<power, csrs, timer, frames, data>>
PrintLine(from, to, text) == PrintAddr(from, to, text, [at |-> "wild", off |-> 0])
-----------------------------------------------------------------------------
(* kern_init and clock_init.                                               *)
MemsetNothing ==
    Step("memset", "banner") /\ UNCHANGED <<power, csrs, timer, frames, data, console>>
Memset ==
    /\ Step("memset", "banner")
    /\ ticks' = 0 /\ num' = 0 /\ is_panic' = FALSE
    /\ UNCHANGED <<power, csrs, timer, frames, console>>

Banner == PrintLine("banner", "kerninfo", "os is loading")
Kerninfo == PrintLine("kerninfo", "idt_init", "kerninfo")

IdtInit ==
    /\ Step("idt_init", "ebreak")
    /\ stvec' = "save"
    /\ UNCHANGED <<power, sie, spie, stie, sepc, scause, timer, frames, data, console>>

(* The two instructions kern_init executes in order to trap.  mret is      *)
(* illegal outside machine mode.                                           *)
Ebreak == power = "on" /\ pc = "ebreak" /\ ~Interrupted /\ TakeTrap("breakpoint")
Mret == power = "on" /\ pc = "mret" /\ ~Interrupted /\ TakeTrap("illegal")

SetNothing ==
    Step("set_stie", "rdtime") /\ UNCHANGED <<power, csrs, timer, frames, data, console>>
SetStieAndSie ==
    /\ Step("set_stie", "rdtime")
    /\ stie' = TRUE /\ sie' = TRUE
    /\ UNCHANGED <<power, spie, stvec, sepc, scause, timer, frames, data, console>>
SetStie ==
    /\ Step("set_stie", "rdtime")
    /\ stie' = TRUE
    /\ UNCHANGED <<power, sie, spie, stvec, sepc, scause, timer, frames, data, console>>

Rdtime ==
    /\ Step("rdtime", "set_timer")
    /\ n' = now /\ epoch' = now
    /\ UNCHANGED <<power, csrs, now, timecmp, frames, data, console>>

(* clock_set_next_event past its rdtime: the time read may be old by now.  *)
SbiSetTimerTo(from, to, deadline) ==
    /\ Step(from, to)
    /\ timecmp' = deadline
    /\ UNCHANGED <<power, csrs, now, n, epoch, frames, data, console>>
SbiSetTimerBack(from, to) == SbiSetTimerTo(from, to, n - Timebase)
SbiSetTimerTwice(from, to) == SbiSetTimerTo(from, to, n + 2 * Timebase)
SbiSetTimer(from, to) == SbiSetTimerTo(from, to, n + Timebase)
NoTimer ==
    Step("set_timer", "zero_ticks") /\ UNCHANGED <<power, csrs, timer, frames, data, console>>
SetTimer == SbiSetTimer("set_timer", "zero_ticks")

ZeroTicks ==
    /\ Step("zero_ticks", "setup")
    /\ ticks' = 0
    /\ UNCHANGED <<power, csrs, timer, frames, num, is_panic, console>>

Setup == PrintLine("setup", "intr_enable", "++ setup timer interrupts")

IntrEnable ==
    /\ Step("intr_enable", "loop")
    /\ sie' = TRUE
    /\ UNCHANGED <<power, spie, stie, stvec, sepc, scause, timer, frames, data, console>>

Boot == \/ Memset \/ Banner \/ Kerninfo \/ IdtInit \/ Ebreak \/ Mret
        \/ SetStie \/ Rdtime \/ SetTimer \/ ZeroTicks \/ Setup \/ IntrEnable
-----------------------------------------------------------------------------
(* The trap path.                                                          *)
Interrupt == power = "on" /\ pc # "wild" /\ Interrupted /\ TakeTrap("timer")

SaveAll ==
    /\ Step("save", "dispatch")
    /\ frames' = Append(frames, [sie |-> sie, spie |-> spie,
                                epc |-> sepc, cause |-> scause])
    /\ UNCHANGED <<power, csrs, timer, data, console>>

Top == frames[Len(frames)]

(* trap_dispatch and the two switches, for the causes this kernel raises.  *)
Dispatch ==
    /\ \/ Step("dispatch", "h_rdtime") /\ Top.cause = "timer"
       \/ Step("dispatch", "bp_type") /\ Top.cause = "breakpoint"
       \/ Step("dispatch", "ill_type") /\ Top.cause = "illegal"
    /\ UNCHANGED <<power, csrs, timer, frames, data, console>>

SkipInstruction(from, to, bytes) ==
    /\ Step(from, to)
    /\ frames' = [frames EXCEPT ![Len(frames)].epc.off = @ + bytes]
    /\ UNCHANGED <<power, csrs, timer, data, console>>

Breakpoint ==
    \/ PrintLine("bp_type", "bp_addr", "Exception type: breakpoint")
    \/ PrintAddr("bp_addr", "bp_skip", "ebreak caught at", Top.epc)
    \/ SkipInstruction("bp_skip", "restore", 2)

Illegal ==
    \/ PrintLine("ill_type", "ill_addr", "Exception type:Illegal instruction")
    \/ PrintAddr("ill_addr", "ill_skip", "Illegal instruction caught at", Top.epc)
    \/ SkipInstruction("ill_skip", "restore", 4)

TimerRdtime ==
    /\ Step("h_rdtime", "h_set_timer")
    /\ n' = now
    /\ UNCHANGED <<power, csrs, now, timecmp, epoch, frames, data, console>>

TimerNotSet ==
    Step("h_set_timer", "h_tick") /\ UNCHANGED <<power, csrs, timer, frames, data, console>>
TimerSet == SbiSetTimer("h_set_timer", "h_tick")

TimerTick ==
    /\ Step("h_tick", "h_test")
    /\ ticks' = ticks + 1
    /\ UNCHANGED <<power, csrs, timer, frames, num, is_panic, console>>

TimerTestEarly ==
    /\ \/ (ticks + 1) % TickNum = 0 /\ Step("h_test", "h_print") /\ num' = num + 1
       \/ (ticks + 1) % TickNum # 0 /\ Step("h_test", "restore") /\ UNCHANGED num
    /\ UNCHANGED <<power, csrs, timer, frames, ticks, is_panic, console>>
TimerTest ==
    /\ \/ ticks % TickNum = 0 /\ Step("h_test", "h_print") /\ num' = num + 1
       \/ ticks % TickNum # 0 /\ Step("h_test", "restore") /\ num' = num
    /\ UNCHANGED <<power, csrs, timer, frames, ticks, is_panic, console>>

PrintTicks == PrintLine("h_print", IF DebugGrade THEN "h_eot" ELSE "h_num", "100 ticks")
EndOfTest == PrintLine("h_eot", "h_panic", "End of Test.")

(* __panic, which does not return: the message goes out before             *)
(* intr_disable, and only if no panic was seen before.  Where the timer    *)
(* handler calls it Kernel waits; Machine adds PanicCall and what follows. *)
PanicMessageAgain ==
    UNCHANGED is_panic /\ console' = Append(console, <<"kernel panic", "wild", 0>>)
PanicMessage ==
    /\ is_panic' = TRUE
    /\ console' = IF is_panic THEN console ELSE Append(console, <<"kernel panic", "wild", 0>>)
Panic ==
    /\ Step("h_panic", "panic_dead")
    /\ PanicMessage
    /\ UNCHANGED <<power, csrs, timer, frames, ticks, num>>
PanicDeadEnables ==
    /\ Step("panic_dead", "kmonitor")
    /\ sie' = TRUE
    /\ UNCHANGED <<power, spie, stie, stvec, sepc, scause, timer, frames, data, console>>
PanicDead ==
    /\ Step("panic_dead", "kmonitor")
    /\ sie' = FALSE
    /\ UNCHANGED <<power, spie, stie, stvec, sepc, scause, timer, frames, data, console>>
PanicCall == Panic \/ PanicDead

TestNum ==
    /\ Step("h_num", IF num = MaxNum THEN "shutdown" ELSE "restore")
    /\ UNCHANGED <<power, csrs, timer, frames, data, console>>

Shutdown ==
    /\ Step("shutdown", "shutdown")
    /\ power' = "off"
    /\ UNCHANGED <<csrs, timer, frames, data, console>>

RestoreAllEnabled ==
    /\ Step("restore", "sret")
    /\ sie' = Top.spie /\ spie' = Top.spie /\ sepc' = Top.epc
    /\ frames' = Front(frames)
    /\ UNCHANGED <<power, stie, stvec, scause, timer, data, console>>
RestoreAll ==
    /\ Step("restore", "sret")
    /\ sie' = Top.sie /\ spie' = Top.spie /\ sepc' = Top.epc
    /\ frames' = Front(frames)
    /\ UNCHANGED <<power, stie, stvec, scause, timer, data, console>>

Sret ==
    /\ Step("sret", Resume(sepc))
    /\ sie' = spie /\ spie' = TRUE
    /\ UNCHANGED <<power, stie, stvec, sepc, scause, timer, frames, data, console>>

Trap == \/ Interrupt \/ SaveAll \/ Dispatch \/ Breakpoint \/ Illegal
        \/ TimerRdtime \/ TimerSet \/ TimerTick \/ TimerTest
        \/ PrintTicks \/ EndOfTest \/ TestNum \/ Shutdown
        \/ RestoreAll \/ Sret
-----------------------------------------------------------------------------
(* The time counter runs between any two steps, up to MaxLate past the     *)
(* deadline (past 0 while there is none): MaxLate bounds how long the hart *)
(* is held up by what it has to do first.                                  *)
PassTime ==
    /\ power = "on"
    /\ now < MaxLate + (IF timecmp = Never THEN 0 ELSE timecmp)
    /\ now' = now + 1
    /\ UNCHANGED <<power, pc, csrs, timecmp, n, epoch, frames, data, console>>

(* while (1) ; -- __panic and the monitor -- the machine switched off      *)
Idle ==
    /\ power = "off" \/ pc \in {"loop", "h_panic", "kmonitor"}
    /\ UNCHANGED vars

Hart == Boot \/ Trap
Next == Hart \/ PassTime \/ Idle

Spec == Init /\ [][Next]_vars
(* The hart executes and its time counter counts.                          *)
FairSpec == Spec /\ WF_vars(Hart) /\ WF_vars(PassTime)
-----------------------------------------------------------------------------
(* The hart only ever executes statements of the program: it takes no trap *)
(* before idt_init has set stvec, and each handler's epc += 2 or 4 lands   *)
(* on the next instruction (init.c:29-31, trap.c:166, 177).                *)
NeverWild == pc # "wild"

(* Interrupts are enabled in the idle loop alone.  So no cprintf is torn   *)
(* by a handler's, clock_init's ticks = 0 erases no tick, and sepc,        *)
(* sscratch and the one frame on the stack belong to one trap at a time    *)
(* (init.c:34-38, trapentry.S:42-48, 62-63).                               *)
InterruptsOnlyWhenIdle ==
    /\ sie => pc = "loop" /\ frames = <<>>
    /\ Len(frames) <= 1
    /\ frames # <<>> /\ Top.spie => Top.epc = [at |-> "loop", off |-> 0]

(* The kernel never idles where nothing can wake it: in the loop the       *)
(* interrupt is enabled in both places, the vector is set and a deadline   *)
(* is armed (clock.c:37-41, trap.c:115).                                   *)
IdleIsWakeable ==
    pc = "loop" => sie /\ stie /\ stvec = "save" /\ timecmp # Never

(* No tick is counted before its time: ticks periods have passed since     *)
(* clock_init read the time (trap.c:115-116; an interrupt taken twice for  *)
(* one deadline would break this).                                         *)
TicksNotAhead == timecmp # Never => ticks * Timebase <= now - epoch

(* What comes late is bounded: each tick adds to the schedule at most the  *)
(* time the hart was held up, MaxLate, since the deadline is rearmed from  *)
(* the time read and not from the old deadline (clock.c:49).  A tick is    *)
(* under way from the rearming to the increment.                           *)
Rearmed == IF pc = "h_tick" THEN ticks + 1 ELSE ticks
DriftBounded ==
    timecmp # Never => timecmp <= epoch + Timebase + Rearmed * (Timebase + MaxLate)

(* What the reader of the console sees, whatever .bss held before memset:  *)
(* the boot lines in order with the addresses of the two instructions that *)
(* trapped, then the reports, and all of them before the machine is off or *)
(* the monitor is entered (init.c:22-36, clock.c:46, trap.c:16-22).        *)
Line(text) == <<text, "wild", 0>>
BootLines ==
    << Line("os is loading"), Line("kerninfo"),
       Line("Exception type: breakpoint"), <<"ebreak caught at", "ebreak", 0>>,
       Line("Exception type:Illegal instruction"),
       <<"Illegal instruction caught at", "mret", 0>>,
       Line("++ setup timer interrupts") >>
Expected ==
    BootLines \o IF DebugGrade
                 THEN << Line("100 ticks"), Line("End of Test."), Line("kernel panic") >>
                 ELSE [i \in 1 .. MaxNum |-> Line("100 ticks")]
Transcript ==
    /\ IsPrefix(console, Expected)
    /\ power = "off" \/ pc = "kmonitor" => console = Expected

(* The ticks counted, the reports written and the power are a TickCounter. *)
Reports == Cardinality({i \in DOMAIN console : console[i][1] = "100 ticks"})
TC == INSTANCE TickCounter WITH
        served <- IF pc = "memset" THEN 0 ELSE ticks,
        reported <- Reports,
        on <- power = "on"
TickCounterSpec == TC!Spec

(* A release kernel switches the machine off in the end (trap.c:121-124).  *)
PowersOff == <>(power = "off")
=============================================================================
