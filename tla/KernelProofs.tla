---------------------------- MODULE KernelProofs ----------------------------
(***************************************************************************)
(* Theorems about Kernel, for every TickNum, MaxNum, Timebase and MaxLate, *)
(* either build and any contents of .bss.                                  *)
(***************************************************************************)
EXTENDS Kernel, SequenceTheorems, TLAPS

(* Labels at which the trap has a frame on the stack.                      *)
Handling == TrapLabels \ {"save", "sret"}
BeforeVector == {"memset", "banner", "kerninfo", "idt_init"}
BeforeTimer == BeforeVector \cup {"ebreak", "mret", "set_stie", "rdtime", "set_timer"}

EbreakAt(off) == [at |-> "ebreak", off |-> off]
MretAt(off) == [at |-> "mret", off |-> off]
LoopAt == [at |-> "loop", off |-> 0]

Armed == stie /\ timecmp # Never

(* Where the trap in hand was taken from.                                  *)
TakenFrom(cause, epc, wasOn) ==
    \/ cause = "breakpoint" /\ epc = EbreakAt(0) /\ ~wasOn /\ timecmp = Never
    \/ cause = "illegal" /\ epc = MretAt(0) /\ ~wasOn /\ timecmp = Never
    \/ cause = "timer" /\ epc = LoopAt /\ wasOn /\ Armed

(* Where it will go on.                                                    *)
ResumesAt(epc, wasOn) ==
    \/ epc = EbreakAt(2) /\ ~wasOn /\ timecmp = Never
    \/ epc = MretAt(4) /\ ~wasOn /\ timecmp = Never
    \/ epc = LoopAt /\ wasOn /\ Armed

Causing(label) ==
    IF label \in {"bp_type", "bp_addr", "bp_skip"} THEN "breakpoint"
    ELSE IF label \in {"ill_type", "ill_addr", "ill_skip"} THEN "illegal"
    ELSE "timer"

(* The trap in hand, by the place the hart has reached in handling it.     *)
Context ==
    /\ pc \in Handling => /\ Len(frames) = 1
                          /\ ~Top.sie
    /\ pc \notin Handling => frames = <<>>
    /\ pc = "save" => TakenFrom(scause, sepc, spie)
    /\ pc = "dispatch" => TakenFrom(Top.cause, Top.epc, Top.spie)
    /\ pc \in Handling \ {"dispatch", "restore"} =>
         /\ TakenFrom(Top.cause, Top.epc, Top.spie)
         /\ Top.cause = Causing(pc)
    /\ pc = "restore" => ResumesAt(Top.epc, Top.spie)
    /\ pc = "sret" => ResumesAt(sepc, spie)

Control ==
    /\ pc # "wild"
    /\ stvec = "save" <=> pc \notin BeforeVector
    /\ sie <=> pc = "loop"
    /\ pc \in BeforeTimer => timecmp = Never
    /\ pc \in BootLabels \ BeforeTimer => Armed
    /\ pc \in {"rdtime", "set_timer"} => stie
    /\ Context

LEMMA Initially == Init => TypeOK /\ Control
<1> SUFFICES ASSUME Init PROVE TypeOK /\ Control
  OBVIOUS
<1>1. TypeOK
  <2>1. pc \in Labels /\ sepc \in Address
    BY DEF Init, Labels, BootLabels, Address
  <2>2. ticks \in Nat /\ num \in Nat
    BY KernelAssumption DEF Init
  <2>3. frames \in Seq(Frame) /\ console \in Seq(Texts \X Labels \X Nat)
    BY EmptySeq DEF Init
  <2>4. scause \in Causes /\ timecmp \in Nat \cup {Never}
    BY DEF Init, Causes
  <2> QED
    BY <2>1, <2>2, <2>3, <2>4 DEF Init, TypeOK
<1>2. Control
  BY DEF Init, Control, Context, Handling, TrapLabels, BootLabels, BeforeVector, BeforeTimer
<1> QED
  BY <1>1, <1>2

LEMMA Nowhere == [at |-> "wild", off |-> 0] \in Address
  BY DEF Address, Labels

(* Writing a line changes the console and the place reached.               *)
LEMMA Printing ==
  ASSUME TypeOK, NEW from, NEW to \in Labels, NEW text \in Texts,
         NEW addr \in Address, PrintAddr(from, to, text, addr)
  PROVE  /\ TypeOK'
         /\ pc = from /\ pc' = to
         /\ UNCHANGED <<power, csrs, timer, frames, data>>
<1>1. <<text, addr.at, addr.off>> \in Texts \X Labels \X Nat
  BY DEF Address
<1>2. console' \in Seq(Texts \X Labels \X Nat)
  BY <1>1 DEF PrintAddr, TypeOK
<1> QED
  BY <1>2 DEF PrintAddr, Step, TypeOK, csrs, timer, data

LEMMA PrintingLine ==
  ASSUME TypeOK, NEW from, NEW to \in Labels, NEW text \in Texts,
         PrintLine(from, to, text)
  PROVE  /\ TypeOK'
         /\ pc = from /\ pc' = to
         /\ UNCHANGED <<power, csrs, timer, frames, data>>
  BY Nowhere, Printing DEF PrintLine

(* While a trap is being handled its frame is there.                       *)
LEMMA HasFrame ==
  ASSUME TypeOK, Context, pc \in Handling
  PROVE  /\ Len(frames) = 1 /\ Top = frames[1]
         /\ Top \in Frame /\ Top.epc \in Address
<1>1. Len(frames) = 1 /\ Top = frames[1]
  BY DEF Context, Top
<1>2. frames[1] \in Frame
  <2>1. frames \in Seq(Frame) /\ 1 \in 1 .. Len(frames)
    BY <1>1 DEF TypeOK
  <2> QED
    BY <2>1, ElementOfSeq
<1> QED
  BY <1>1, <1>2 DEF Frame

(* Advancing tf->epc touches the frame's epc and nothing else.              *)
LEMMA Skipping ==
  ASSUME TypeOK, Context, NEW from \in Handling, NEW to \in Labels,
         NEW bytes \in Nat, SkipInstruction(from, to, bytes)
  PROVE  /\ TypeOK'
         /\ pc = from /\ pc' = to
         /\ UNCHANGED <<power, csrs, timer, data, console>>
         /\ Len(frames') = 1
         /\ Top'.epc = [Top.epc EXCEPT !.off = @ + bytes]
         /\ Top'.sie = Top.sie /\ Top'.spie = Top.spie
<1> DEFINE addr == [Top.epc EXCEPT !.off = @ + bytes]
           frame == [Top EXCEPT !.epc = addr]
<1>1. pc = from /\ pc' = to /\ UNCHANGED <<power, csrs, timer, data, console>>
  BY DEF SkipInstruction, Step
<1>2. Len(frames) = 1 /\ Top = frames[1] /\ Top \in Frame /\ Top.epc \in Address
  BY <1>1, HasFrame
<1>3. addr \in Address
  BY <1>2 DEF Address
<1>4. frame \in Frame /\ frame.epc = addr /\ frame.sie = Top.sie /\ frame.spie = Top.spie
  BY <1>2, <1>3 DEF Frame
<1>5. frames' = [frames EXCEPT ![1] = frame]
  BY <1>2 DEF SkipInstruction
<1>6. /\ frames' \in Seq(Frame) /\ Len(frames') = 1
      /\ frames'[1] = frame
  <2>1. frames \in Seq(Frame) /\ 1 \in 1 .. Len(frames)
    BY <1>2 DEF TypeOK
  <2>2. frame \in Frame
    BY <1>4
  <2> HIDE DEF frame
  <2>3. /\ [frames EXCEPT ![1] = frame] \in Seq(Frame)
        /\ Len([frames EXCEPT ![1] = frame]) = Len(frames)
        /\ [frames EXCEPT ![1] = frame][1] = frame
    BY <2>1, <2>2, ExceptSeq
  <2> QED
    BY <2>3, <1>2, <1>5
<1>7. Top' = frame
  BY <1>6 DEF Top
<1>8. TypeOK'
  BY <1>1, <1>6 DEF TypeOK, csrs, timer, data
<1> QED
  BY <1>1, <1>4, <1>6, <1>7, <1>8

LEMMA ControlStep == TypeOK /\ Control /\ [Next \/ PanicCall]_vars => TypeOK' /\ Control'
<1> SUFFICES ASSUME TypeOK, Control, [Next \/ PanicCall]_vars
             PROVE  TypeOK' /\ Control'
  OBVIOUS
<1> USE DEF Labels, BootLabels, TrapLabels, Handling, BeforeVector, BeforeTimer,
        csrs, timer, data
<1>1. CASE Memset
  <2>1. TypeOK'
    BY <1>1 DEF TypeOK, Memset, Step
  <2>2. Control'
    BY <1>1 DEF TypeOK, Control, Context, Armed, Memset, Step
  <2> QED
    BY <2>1, <2>2
<1>2. CASE Banner
  <2>1. TypeOK' /\ pc = "banner" /\ pc' = "kerninfo" /\ UNCHANGED <<power, csrs, timer, frames, data>>
    BY <1>2, PrintingLine DEF Banner, Texts
  <2> QED
    BY <2>1 DEF Control, Context, Armed
<1>3. CASE Kerninfo
  <2>1. TypeOK' /\ pc = "kerninfo" /\ pc' = "idt_init" /\ UNCHANGED <<power, csrs, timer, frames, data>>
    BY <1>3, PrintingLine DEF Kerninfo, Texts
  <2> QED
    BY <2>1 DEF Control, Context, Armed
<1>4. CASE IdtInit
  <2>1. TypeOK'
    BY <1>4 DEF TypeOK, IdtInit, Step
  <2>2. Control'
    BY <1>4 DEF TypeOK, Control, Context, Armed, IdtInit, Step
  <2> QED
    BY <2>1, <2>2
<1>5. CASE Ebreak
  <2>1. TypeOK'
    BY <1>5 DEF TypeOK, Control, Address, Causes, Ebreak, TakeTrap, TakenFrom, EbreakAt
  <2>2. Control'
    BY <1>5 DEF TypeOK, Control, Context, Armed, Ebreak, TakeTrap, TakenFrom, EbreakAt
  <2> QED
    BY <2>1, <2>2
<1>6. CASE Mret
  <2>1. TypeOK'
    BY <1>6 DEF TypeOK, Control, Address, Causes, Mret, TakeTrap, TakenFrom, MretAt
  <2>2. Control'
    BY <1>6 DEF TypeOK, Control, Context, Armed, Mret, TakeTrap, TakenFrom, MretAt
  <2> QED
    BY <2>1, <2>2
<1>7. CASE SetStie
  <2>1. TypeOK'
    BY <1>7 DEF TypeOK, SetStie, Step
  <2>2. Control'
    BY <1>7 DEF TypeOK, Control, Context, Armed, SetStie, Step
  <2> QED
    BY <2>1, <2>2
<1>8. CASE Rdtime
  <2>1. TypeOK'
    BY <1>8 DEF TypeOK, Rdtime, Step
  <2>2. Control'
    BY <1>8 DEF TypeOK, Control, Context, Armed, Rdtime, Step
  <2> QED
    BY <2>1, <2>2
<1>9. CASE SetTimer
  <2>1. TypeOK'
    BY <1>9, KernelAssumption DEF TypeOK, Never, SetTimer, SbiSetTimer, SbiSetTimerTo, Step
  <2>2. Control'
    BY <1>9, KernelAssumption DEF TypeOK, Never, Control, Context, Armed, SetTimer, SbiSetTimer, SbiSetTimerTo, Step
  <2> QED
    BY <2>1, <2>2
<1>10. CASE ZeroTicks
  <2>1. TypeOK'
    BY <1>10 DEF TypeOK, ZeroTicks, Step
  <2>2. Control'
    BY <1>10 DEF TypeOK, Control, Context, Armed, ZeroTicks, Step
  <2> QED
    BY <2>1, <2>2
<1>11. CASE Setup
  <2>1. TypeOK' /\ pc = "setup" /\ pc' = "intr_enable" /\ UNCHANGED <<power, csrs, timer, frames, data>>
    BY <1>11, PrintingLine DEF Setup, Texts
  <2> QED
    BY <2>1 DEF Control, Context, Armed
<1>12. CASE IntrEnable
  <2>1. TypeOK'
    BY <1>12 DEF TypeOK, IntrEnable, Step
  <2>2. Control'
    BY <1>12 DEF TypeOK, Control, Context, Armed, IntrEnable, Step
  <2> QED
    BY <2>1, <2>2
<1>13. CASE Interrupt
  <2>1. TypeOK'
    BY <1>13 DEF TypeOK, Control, Address, Causes, Interrupt, Interrupted, TimerPending, TakeTrap, TakenFrom, LoopAt
  <2>2. Control'
    BY <1>13 DEF TypeOK, Control, Context, Armed, Interrupt, Interrupted, TimerPending, TakeTrap, TakenFrom, LoopAt
  <2> QED
    BY <2>1, <2>2
<1>14. CASE SaveAll
  <2> DEFINE frame == [sie |-> sie, spie |-> spie, epc |-> sepc, cause |-> scause]
  <2>1. /\ pc = "save" /\ pc' = "dispatch" /\ frames = <<>> /\ ~sie
        /\ frames' = Append(frames, frame)
        /\ UNCHANGED <<power, csrs, timer, data, console>>
    BY <1>14 DEF SaveAll, Step, Control, Context
  <2>2. frame \in Frame
    BY DEF TypeOK, Frame
  <2>3. frames' \in Seq(Frame) /\ Len(frames') = 1 /\ frames'[1] = frame
    <3> HIDE DEF frame
    <3> QED
      BY <2>1, <2>2, EmptySeq, AppendProperties
  <2>4. Top' = frame
    BY <2>3 DEF Top
  <2>5. TypeOK'
    BY <2>1, <2>3 DEF TypeOK
  <2>6. Control'
    BY <2>1, <2>3, <2>4 DEF Control, Context, Armed, TakenFrom
  <2> QED
    BY <2>5, <2>6
<1>15. CASE Dispatch
  <2>1. /\ pc = "dispatch" /\ UNCHANGED <<power, csrs, timer, frames, data, console>>
        /\ \/ Top.cause = "timer" /\ pc' = "h_rdtime"
           \/ Top.cause = "breakpoint" /\ pc' = "bp_type"
           \/ Top.cause = "illegal" /\ pc' = "ill_type"
    BY <1>15 DEF Dispatch, Step
  <2>2. TypeOK'
    BY <2>1 DEF TypeOK
  <2>3. Control'
    BY <2>1 DEF Control, Context, Armed, Top, TakenFrom, Causing
  <2> QED
    BY <2>2, <2>3
<1>16. CASE Breakpoint
  <2> USE DEF TakenFrom, Causing
  <2>1. CASE PrintLine("bp_type", "bp_addr", "Exception type: breakpoint")
    <3>1. TypeOK' /\ pc = "bp_type" /\ pc' = "bp_addr" /\ UNCHANGED <<power, csrs, timer, frames, data>>
      BY <2>1, PrintingLine DEF Texts
    <3> QED
      BY <3>1 DEF Control, Context, Armed, Top
  <2>2. CASE PrintAddr("bp_addr", "bp_skip", "ebreak caught at", Top.epc)
    <3>1. pc = "bp_addr"
      BY <2>2 DEF PrintAddr, Step
    <3>2. Top.epc \in Address
      BY <3>1, HasFrame DEF Control
    <3>3. TypeOK' /\ pc' = "bp_skip" /\ UNCHANGED <<power, csrs, timer, frames, data>>
      BY <2>2, <3>2, Printing DEF Texts
    <3> QED
      BY <3>1, <3>3 DEF Control, Context, Armed, Top
  <2>3. CASE SkipInstruction("bp_skip", "restore", 2)
    <3>1. /\ TypeOK' /\ pc = "bp_skip" /\ pc' = "restore"
          /\ UNCHANGED <<power, csrs, timer, data, console>>
          /\ Len(frames') = 1 /\ Top'.sie = Top.sie /\ Top'.spie = Top.spie
          /\ Top'.epc = [Top.epc EXCEPT !.off = @ + 2]
      BY <2>3, Skipping DEF Control
    <3>2. Top.epc = EbreakAt(0) /\ ~Top.spie /\ ~Top.sie /\ timecmp = Never
      BY <3>1 DEF Control, Context
    <3>3. Top'.epc = EbreakAt(2)
      BY <3>1, <3>2 DEF EbreakAt
    <3> QED
      BY <3>1, <3>2, <3>3 DEF Control, Context, ResumesAt
  <2> QED
    BY <1>16, <2>1, <2>2, <2>3 DEF Breakpoint
<1>17. CASE Illegal
  <2> USE DEF TakenFrom, Causing
  <2>1. CASE PrintLine("ill_type", "ill_addr", "Exception type:Illegal instruction")
    <3>1. TypeOK' /\ pc = "ill_type" /\ pc' = "ill_addr" /\ UNCHANGED <<power, csrs, timer, frames, data>>
      BY <2>1, PrintingLine DEF Texts
    <3> QED
      BY <3>1 DEF Control, Context, Armed, Top
  <2>2. CASE PrintAddr("ill_addr", "ill_skip", "Illegal instruction caught at", Top.epc)
    <3>1. pc = "ill_addr"
      BY <2>2 DEF PrintAddr, Step
    <3>2. Top.epc \in Address
      BY <3>1, HasFrame DEF Control
    <3>3. TypeOK' /\ pc' = "ill_skip" /\ UNCHANGED <<power, csrs, timer, frames, data>>
      BY <2>2, <3>2, Printing DEF Texts
    <3> QED
      BY <3>1, <3>3 DEF Control, Context, Armed, Top
  <2>3. CASE SkipInstruction("ill_skip", "restore", 4)
    <3>1. /\ TypeOK' /\ pc = "ill_skip" /\ pc' = "restore"
          /\ UNCHANGED <<power, csrs, timer, data, console>>
          /\ Len(frames') = 1 /\ Top'.sie = Top.sie /\ Top'.spie = Top.spie
          /\ Top'.epc = [Top.epc EXCEPT !.off = @ + 4]
      BY <2>3, Skipping DEF Control
    <3>2. Top.epc = MretAt(0) /\ ~Top.spie /\ ~Top.sie /\ timecmp = Never
      BY <3>1 DEF Control, Context
    <3>3. Top'.epc = MretAt(4)
      BY <3>1, <3>2 DEF MretAt
    <3> QED
      BY <3>1, <3>2, <3>3 DEF Control, Context, ResumesAt
  <2> QED
    BY <1>17, <2>1, <2>2, <2>3 DEF Illegal
<1>18. CASE TimerRdtime
  <2>1. TypeOK'
    BY <1>18 DEF TypeOK, TimerRdtime, Step, Top, TakenFrom, Causing
  <2>2. Control'
    BY <1>18 DEF TypeOK, Control, Context, Armed, TimerRdtime, Step, Top, TakenFrom, Causing
  <2> QED
    BY <2>1, <2>2
<1>19. CASE TimerSet
  <2>1. TypeOK'
    BY <1>19, KernelAssumption DEF TypeOK, Never, TimerSet, SbiSetTimer, SbiSetTimerTo, Step, Top, TakenFrom, Causing
  <2>2. Control'
    BY <1>19, KernelAssumption DEF TypeOK, Never, Control, Context, Armed, TimerSet, SbiSetTimer, SbiSetTimerTo, Step, Top, TakenFrom, Causing
  <2> QED
    BY <2>1, <2>2
<1>20. CASE TimerTick
  <2>1. TypeOK'
    BY <1>20 DEF TypeOK, TimerTick, Step, Top, TakenFrom, Causing
  <2>2. Control'
    BY <1>20 DEF TypeOK, Control, Context, Armed, TimerTick, Step, Top, TakenFrom, Causing
  <2> QED
    BY <2>1, <2>2
<1>21. CASE TimerTest
  <2>1. /\ pc = "h_test" /\ pc' \in {"h_print", "restore"} /\ num' \in Nat
        /\ UNCHANGED <<power, csrs, timer, frames, ticks, is_panic, console>>
    BY <1>21 DEF TimerTest, Step, TypeOK
  <2>2. TypeOK'
    BY <2>1 DEF TypeOK
  <2>3. Control'
    BY <2>1 DEF Control, Context, Armed, Top, TakenFrom, Causing, ResumesAt
  <2> QED
    BY <2>2, <2>3
<1>22. CASE PrintTicks
  <2>1. TypeOK' /\ pc = "h_print" /\ pc' \in {"h_eot", "h_num"} /\ UNCHANGED <<power, csrs, timer, frames, data>>
    BY <1>22, PrintingLine DEF PrintTicks, Texts
  <2> QED
    BY <2>1 DEF Control, Context, Armed, Top, TakenFrom, Causing
<1>23. CASE EndOfTest
  <2>1. TypeOK' /\ pc = "h_eot" /\ pc' \in {"h_panic"} /\ UNCHANGED <<power, csrs, timer, frames, data>>
    BY <1>23, PrintingLine DEF EndOfTest, Texts
  <2> QED
    BY <2>1 DEF Control, Context, Armed, Top, TakenFrom, Causing
<1>24. CASE Panic
  <2>1. /\ pc = "h_panic" /\ pc' = "panic_dead" /\ is_panic' \in BOOLEAN
        /\ UNCHANGED <<power, csrs, timer, frames, ticks, num>>
    BY <1>24 DEF Panic, PanicMessage, Step
  <2>2. console' \in Seq(Texts \X Labels \X Nat)
    <3> DEFINE line == <<"kernel panic", "wild", 0>>
    <3>1. line \in Texts \X Labels \X Nat
      BY DEF Texts
    <3>2. console' = console \/ console' = Append(console, line)
      BY <1>24 DEF Panic, PanicMessage
    <3>3. console \in Seq(Texts \X Labels \X Nat)
      BY DEF TypeOK
    <3> HIDE DEF line
    <3>4. Append(console, line) \in Seq(Texts \X Labels \X Nat)
      BY <3>1, <3>3, AppendProperties
    <3> QED
      BY <3>2, <3>3, <3>4
  <2>3. TypeOK'
    BY <2>1, <2>2 DEF TypeOK
  <2>4. Control'
    BY <2>1 DEF Control, Context, Armed, Top, TakenFrom, Causing
  <2> QED
    BY <2>3, <2>4
<1>25. CASE PanicDead
  <2>1. TypeOK'
    BY <1>25 DEF TypeOK, PanicDead, Step, Top, TakenFrom, Causing
  <2>2. Control'
    BY <1>25 DEF TypeOK, Control, Context, Armed, PanicDead, Step, Top, TakenFrom, Causing
  <2> QED
    BY <2>1, <2>2
<1>26. CASE TestNum
  <2>1. TypeOK'
    BY <1>26 DEF TypeOK, TestNum, Step, Top, TakenFrom, Causing, ResumesAt
  <2>2. Control'
    BY <1>26 DEF TypeOK, Control, Context, Armed, TestNum, Step, Top, TakenFrom, Causing, ResumesAt
  <2> QED
    BY <2>1, <2>2
<1>27. CASE Shutdown
  <2>1. TypeOK'
    BY <1>27 DEF TypeOK, Shutdown, Step, Top, TakenFrom, Causing
  <2>2. Control'
    BY <1>27 DEF TypeOK, Control, Context, Armed, Shutdown, Step, Top, TakenFrom, Causing
  <2> QED
    BY <2>1, <2>2
<1>28. CASE RestoreAll
  <2>1. /\ pc = "restore" /\ pc' = "sret" /\ frames' = Front(frames)
        /\ sie' = Top.sie /\ spie' = Top.spie /\ sepc' = Top.epc
        /\ UNCHANGED <<power, stie, stvec, scause, timer, data, console>>
    BY <1>28 DEF RestoreAll, Step
  <2>2. Len(frames) = 1 /\ Top \in Frame /\ ~Top.sie /\ ResumesAt(Top.epc, Top.spie)
    BY <2>1, HasFrame DEF Control, Context
  <2>3. frames' = <<>>
    BY <2>1, <2>2, SubSeqEmpty DEF Front, TypeOK
  <2>4. TypeOK'
    BY <2>1, <2>2, <2>3, EmptySeq DEF TypeOK, Frame
  <2>5. Control'
    BY <2>1, <2>2, <2>3 DEF Control, Context, Armed, ResumesAt
  <2> QED
    BY <2>4, <2>5
<1>29. CASE Sret
  <2>1. /\ pc = "sret" /\ pc' = Resume(sepc) /\ sie' = spie /\ spie' = TRUE
        /\ UNCHANGED <<power, stie, stvec, sepc, scause, timer, frames, data, console>>
    BY <1>29 DEF Sret, Step
  <2>2. ResumesAt(sepc, spie) /\ frames = <<>>
    BY <2>1 DEF Control, Context
  <2>3. \/ pc' = "mret" /\ ~spie /\ timecmp = Never
        \/ pc' = "set_stie" /\ ~spie /\ timecmp = Never
        \/ pc' = "loop" /\ spie /\ Armed
    BY <2>1, <2>2 DEF ResumesAt, Resume, EbreakAt, MretAt, LoopAt
  <2>4. TypeOK'
    BY <2>1, <2>3 DEF TypeOK
  <2>5. Control'
    BY <2>1, <2>2, <2>3 DEF Control, Context, Armed
  <2> QED
    BY <2>4, <2>5
<1>30. CASE PassTime
  <2>1. now' \in Nat /\ UNCHANGED <<power, pc, csrs, timecmp, n, epoch, frames, data, console>>
    BY <1>30 DEF PassTime, TypeOK
  <2>2. TypeOK'
    BY <2>1 DEF TypeOK
  <2>3. Control'
    BY <2>1 DEF Control, Context, Armed, Top, TakenFrom, Causing, ResumesAt
  <2> QED
    BY <2>2, <2>3
<1>31. CASE UNCHANGED vars
  <2>1. TypeOK'
    BY <1>31 DEF TypeOK, vars
  <2>2. Control'
    BY <1>31 DEF vars, Control, Context, Armed, Top, TakenFrom, Causing, ResumesAt
  <2> QED
    BY <2>1, <2>2
<1> QED
  BY <1>1, <1>2, <1>3, <1>4, <1>5, <1>6, <1>7, <1>8, <1>9, <1>10, <1>11, <1>12, <1>13, <1>14, <1>15, <1>16, <1>17, <1>18, <1>19, <1>20, <1>21, <1>22, <1>23, <1>24, <1>25, <1>26, <1>27, <1>28, <1>29, <1>30, <1>31 DEF Next, PanicCall, Hart, Boot, Trap, Idle
-----------------------------------------------------------------------------
(* The clock.  Products are kept out of the arithmetic: Period(k) is what  *)
(* k ticks take at least, and Slack(k) at most.                            *)
Period(k) == k * Timebase
Slack(k) == k * (Timebase + MaxLate)

(* The timer interrupt in hand has not rearmed the timer yet.              *)
Serving == pc \in {"save", "dispatch", "h_rdtime", "h_set_timer"}

(* What makes TicksNotAhead and DriftBounded inductive: the deadline in    *)
(* force is late by one more period than the ticks counted, by two while   *)
(* the timer is rearmed and the tick is not yet counted, and the interrupt *)
(* in hand was taken no earlier than its deadline.                         *)
Clock ==
    /\ n <= now
    /\ timecmp = Never => /\ pc = "memset" \/ ticks = 0
                          /\ pc = "set_timer" => epoch = n
                          /\ now <= MaxLate
    /\ timecmp # Never =>
         /\ epoch + Period(Rearmed + 1) <= timecmp
         /\ timecmp <= epoch + Timebase + Slack(Rearmed)
         /\ epoch + Period(Rearmed) <= now
         /\ now <= timecmp + MaxLate
         /\ Serving => timecmp <= now
         /\ pc = "h_set_timer" => timecmp <= n
         /\ pc = "zero_ticks" => ticks = 0

LEMMA Products ==
  ASSUME NEW k \in Nat
  PROVE  /\ Period(k) \in Nat /\ Slack(k) \in Nat
         /\ Period(0) = 0 /\ Slack(0) = 0
         /\ Period(k + 1) = Period(k) + Timebase
         /\ Slack(k + 1) = Slack(k) + Timebase + MaxLate
  BY KernelAssumption DEF Period, Slack

LEMMA ClockInitially == Init => Clock
  BY KernelAssumption DEF Init, Clock, Never

(* Most steps leave the clock and the count alone.                         *)
LEMMA ClockUntouched ==
  ASSUME Clock, UNCHANGED <<timer, ticks>>,
         pc # "memset", pc # "h_tick",
         pc' \notin {"memset", "h_tick", "set_timer", "h_set_timer", "zero_ticks"},
         Serving' => Serving \/ timecmp <= now
  PROVE  Clock'
  BY DEF Clock, Rearmed, Serving, timer

LEMMA ClockStep == TypeOK /\ Control /\ Clock /\ [Next \/ PanicCall]_vars => Clock'
<1> SUFFICES ASSUME TypeOK, Control, Clock, [Next \/ PanicCall]_vars
             PROVE  Clock'
  OBVIOUS
<1> USE DEF timer, data
<1>1. CASE Memset
  BY <1>1, KernelAssumption DEF Memset, Step, Clock, Control, Context, BeforeTimer, BeforeVector, Rearmed, Serving
<1>2. CASE Banner
  BY <1>2, ClockUntouched DEF Banner, PrintLine, PrintAddr, Step, Serving
<1>3. CASE Kerninfo
  BY <1>3, ClockUntouched DEF Kerninfo, PrintLine, PrintAddr, Step, Serving
<1>4. CASE IdtInit
  BY <1>4, ClockUntouched DEF IdtInit, Step, Serving
<1>5. CASE Ebreak
  BY <1>5 DEF Ebreak, TakeTrap, Clock, Control, BeforeTimer, BeforeVector, Rearmed, TypeOK
<1>6. CASE Mret
  BY <1>6 DEF Mret, TakeTrap, Clock, Control, BeforeTimer, BeforeVector, Rearmed, TypeOK
<1>7. CASE SetStie
  BY <1>7, ClockUntouched DEF SetStie, Step, Serving
<1>8. CASE Setup
  BY <1>8, ClockUntouched DEF Setup, PrintLine, PrintAddr, Step, Serving
<1>9. CASE IntrEnable
  BY <1>9, ClockUntouched DEF IntrEnable, Step, Serving
<1>10. CASE Interrupt
  <2>1. pc = "loop" /\ pc' = "save" /\ timecmp <= now /\ UNCHANGED <<timer, ticks>>
    BY <1>10 DEF Interrupt, Interrupted, TimerPending, TakeTrap, Control, BeforeVector, TypeOK
  <2> QED
    BY <2>1, ClockUntouched
<1>11. CASE SaveAll
  BY <1>11, ClockUntouched DEF SaveAll, Step, Serving
<1>12. CASE Dispatch
  BY <1>12, ClockUntouched DEF Dispatch, Step, Serving
<1>13. CASE Breakpoint
  BY <1>13, ClockUntouched DEF Breakpoint, PrintLine, PrintAddr, SkipInstruction, Step, Serving
<1>14. CASE Illegal
  BY <1>14, ClockUntouched DEF Illegal, PrintLine, PrintAddr, SkipInstruction, Step, Serving
<1>15. CASE TimerTest
  BY <1>15, ClockUntouched DEF TimerTest, Step, Serving
<1>16. CASE PrintTicks
  BY <1>16, ClockUntouched DEF PrintTicks, PrintLine, PrintAddr, Step, Serving
<1>17. CASE EndOfTest
  BY <1>17, ClockUntouched DEF EndOfTest, PrintLine, PrintAddr, Step, Serving
<1>18. CASE Panic
  BY <1>18, ClockUntouched DEF Panic, PanicMessage, Step, Serving
<1>19. CASE PanicDead
  BY <1>19, ClockUntouched DEF PanicDead, Step, Serving
<1>20. CASE TestNum
  BY <1>20, ClockUntouched DEF TestNum, Step, Serving
<1>21. CASE Shutdown
  BY <1>21, ClockUntouched DEF Shutdown, Step, Serving
<1>22. CASE RestoreAll
  BY <1>22, ClockUntouched DEF RestoreAll, Step, Serving
<1>23. CASE Sret
  BY <1>23, ClockUntouched DEF Sret, Resume, Control, Context, ResumesAt, EbreakAt, MretAt, LoopAt, Step, Serving, Handling, TrapLabels
<1>24. CASE Rdtime
  BY <1>24 DEF Rdtime, Step, Clock, Control, BeforeTimer, BeforeVector, TypeOK
<1>25. CASE SetTimer
  <2>1. /\ pc = "set_timer" /\ pc' = "zero_ticks" /\ timecmp' = epoch + Timebase
        /\ UNCHANGED <<now, n, epoch, ticks>> /\ timecmp = Never
        /\ ticks = 0 /\ epoch = n /\ n <= now /\ now <= MaxLate
    BY <1>25 DEF SetTimer, SbiSetTimer, SbiSetTimerTo, Step, Clock, Control, BeforeTimer
  <2>2. Rearmed' = 0 /\ ~Serving'
    BY <2>1 DEF Rearmed, Serving
  <2>3. Period(0) = 0 /\ Period(0 + 1) = Timebase /\ Slack(0) = 0
    BY Products, KernelAssumption
  <2> QED
    BY <2>1, <2>2, <2>3, KernelAssumption DEF Clock, TypeOK, Never
<1>26. CASE ZeroTicks
  <2>1. /\ pc = "zero_ticks" /\ pc' = "setup" /\ UNCHANGED <<timer, ticks>>
    BY <1>26 DEF ZeroTicks, Step, Clock, Control, BootLabels, BeforeTimer, BeforeVector, Armed
  <2> QED
    BY <2>1, ClockUntouched DEF Serving
<1>27. CASE TimerRdtime
  <2>1. /\ pc = "h_rdtime" /\ pc' = "h_set_timer" /\ n' = now
        /\ UNCHANGED <<now, timecmp, epoch, ticks>>
    BY <1>27 DEF TimerRdtime, Step
  <2>2. timecmp # Never
    BY <2>1 DEF Control, Context, Handling, TrapLabels, Causing, TakenFrom, Armed
  <2>3. Rearmed' = Rearmed /\ Serving /\ Serving'
    BY <2>1 DEF Rearmed, Serving
  <2> QED
    BY <2>1, <2>2, <2>3 DEF Clock, TypeOK
<1>28. CASE TimerSet
  <2>1. /\ pc = "h_set_timer" /\ pc' = "h_tick" /\ timecmp' = n + Timebase
        /\ UNCHANGED <<now, n, epoch, ticks>>
    BY <1>28 DEF TimerSet, SbiSetTimer, SbiSetTimerTo, Step
  <2>2. timecmp # Never
    BY <2>1 DEF Control, Context, Handling, TrapLabels, Causing, TakenFrom, Armed
  <2>3. Rearmed = ticks /\ Rearmed' = ticks + 1 /\ ~Serving'
    BY <2>1 DEF Rearmed, Serving
  <2>4. /\ Period(ticks + 1) = Period(ticks) + Timebase
        /\ Period(ticks + 1 + 1) = Period(ticks + 1) + Timebase
        /\ Slack(ticks + 1) = Slack(ticks) + Timebase + MaxLate
        /\ Period(ticks) \in Nat /\ Slack(ticks) \in Nat /\ ticks \in Nat
    <3>1. ticks \in Nat /\ ticks + 1 \in Nat
      BY DEF TypeOK
    <3> QED
      BY <3>1, Products
  <2>5. /\ epoch + Period(ticks + 1) <= timecmp
        /\ timecmp <= epoch + Timebase + Slack(ticks)
        /\ now <= timecmp + MaxLate /\ timecmp <= n /\ n <= now
    BY <2>1, <2>2, <2>3 DEF Clock
  <2>6. /\ now \in Nat /\ n \in Nat /\ epoch \in Nat /\ timecmp \in Nat
        /\ Timebase \in Nat /\ MaxLate \in Nat
    BY <2>2, KernelAssumption DEF TypeOK
  <2>7. timecmp' # Never /\ pc' = "h_tick" /\ n' <= now' /\ now' <= timecmp' + MaxLate
    BY <2>1, <2>5, <2>6 DEF Never
  <2>8. epoch' + Period(Rearmed' + 1) <= timecmp'
    BY <2>1, <2>3, <2>4, <2>5, <2>6
  <2>9. timecmp' <= epoch' + Timebase + Slack(Rearmed')
    BY <2>1, <2>3, <2>4, <2>5, <2>6
  <2>10. epoch' + Period(Rearmed') <= now'
    BY <2>1, <2>3, <2>4, <2>5, <2>6
  <2> QED
    BY <2>3, <2>7, <2>8, <2>9, <2>10 DEF Clock
<1>29. CASE TimerTick
  <2>1. /\ pc = "h_tick" /\ pc' = "h_test" /\ ticks' = ticks + 1
        /\ UNCHANGED <<now, timecmp, n, epoch>>
    BY <1>29 DEF TimerTick, Step
  <2>2. timecmp # Never
    BY <2>1 DEF Control, Context, Handling, TrapLabels, Causing, TakenFrom, Armed
  <2>3. Rearmed' = Rearmed /\ ~Serving'
    BY <2>1 DEF Rearmed, Serving
  <2> QED
    BY <2>1, <2>2, <2>3 DEF Clock
<1>30. CASE PassTime
  <2>1. /\ now' = now + 1 /\ UNCHANGED <<pc, timecmp, n, epoch, ticks>>
        /\ now < MaxLate + (IF timecmp = Never THEN 0 ELSE timecmp)
    BY <1>30 DEF PassTime
  <2>2. Rearmed' = Rearmed /\ (Serving' <=> Serving)
    BY <2>1 DEF Rearmed, Serving
  <2>3. Period(Rearmed) \in Nat /\ Period(Rearmed + 1) \in Nat /\ Slack(Rearmed) \in Nat
    <3>1. Rearmed \in Nat /\ Rearmed + 1 \in Nat
      BY DEF Rearmed, TypeOK
    <3> QED
      BY <3>1, Products
  <2> QED
    BY <2>1, <2>2, <2>3, KernelAssumption DEF Clock, TypeOK, Never
<1>31. CASE UNCHANGED vars
  BY <1>31 DEF vars, Clock, Rearmed, Serving
<1> QED
  BY <1>1, <1>2, <1>3, <1>4, <1>5, <1>6, <1>7, <1>8, <1>9, <1>10, <1>11, <1>12, <1>13, <1>14, <1>15, <1>16, <1>17, <1>18, <1>19, <1>20, <1>21, <1>22, <1>23, <1>24, <1>25, <1>26, <1>27, <1>28, <1>29, <1>30, <1>31 DEF Next, PanicCall, Hart, Boot, Trap, Idle
-----------------------------------------------------------------------------
THEOREM Invariance == Spec => [](TypeOK /\ Control /\ Clock)
<1>1. Init => TypeOK /\ Control /\ Clock
  BY Initially, ClockInitially
<1>2. TypeOK /\ Control /\ Clock /\ [Next]_vars => (TypeOK /\ Control /\ Clock)'
  BY ControlStep, ClockStep
<1> QED
  BY <1>1, <1>2, PTL DEF Spec

(* Every value of every variable keeps its type.                           *)
THEOREM TypeCorrect == Spec => []TypeOK
  BY Invariance, PTL

(* The hart never leaves the program: every trap finds a vector and every  *)
(* handler returns to an instruction (trap.c:27-34, 166, 177).             *)
THEOREM StaysInProgram == Spec => []NeverWild
<1>1. Control => NeverWild
  BY DEF Control, NeverWild
<1> QED
  BY <1>1, Invariance, PTL

(* Interrupts are on in the idle loop alone, and a trap never nests.       *)
THEOREM OnlyIdleIsInterrupted == Spec => []InterruptsOnlyWhenIdle
<1>1. TypeOK /\ Control => InterruptsOnlyWhenIdle
  <2> SUFFICES ASSUME TypeOK, Control PROVE InterruptsOnlyWhenIdle
    OBVIOUS
  <2>1. sie => pc = "loop" /\ frames = <<>>
    BY DEF Control, Context, Handling, TrapLabels
  <2>2. Len(frames) <= 1
    <3>1. Len(frames) = 1 \/ frames = <<>>
      BY DEF Control, Context
    <3> QED
      BY <3>1
  <2>3. ASSUME frames # <<>>, Top.spie
        PROVE  Top.epc = LoopAt
    <3>1. pc \in Handling
      BY <2>3 DEF Control, Context
    <3>2. TakenFrom(Top.cause, Top.epc, Top.spie) \/ ResumesAt(Top.epc, Top.spie)
      BY <3>1 DEF Control, Context
    <3> QED
      BY <2>3, <3>2 DEF TakenFrom, ResumesAt
  <2> QED
    BY <2>1, <2>2, <2>3 DEF InterruptsOnlyWhenIdle, LoopAt
<1> QED
  BY <1>1, Invariance, PTL

(* An idle kernel can always be woken by the timer.                        *)
THEOREM IdleAlwaysWakeable == Spec => []IdleIsWakeable
<1>1. TypeOK /\ Control => IdleIsWakeable
  BY DEF TypeOK, Control, IdleIsWakeable, Armed, BootLabels, BeforeTimer, BeforeVector
<1> QED
  BY <1>1, Invariance, PTL

(* No tick is counted before its period has passed.                        *)
THEOREM NeverAhead == Spec => []TicksNotAhead
<1>1. TypeOK /\ Clock => TicksNotAhead
  <2> SUFFICES ASSUME TypeOK, Clock, timecmp # Never
               PROVE  ticks * Timebase <= now - epoch
    BY DEF TicksNotAhead
  <2>1. epoch + Period(Rearmed) <= now
    BY DEF Clock
  <2>2. Period(ticks) <= Period(Rearmed) /\ Period(ticks) \in Nat /\ Period(Rearmed) \in Nat
    <3>1. ticks \in Nat
      BY DEF TypeOK
    <3>2. /\ Period(ticks) \in Nat /\ Period(ticks + 1) \in Nat
          /\ Period(ticks + 1) = Period(ticks) + Timebase
      BY <3>1, Products, KernelAssumption
    <3> QED
      BY <3>2, KernelAssumption DEF Rearmed
  <2> QED
    BY <2>1, <2>2 DEF TypeOK, Period
<1> QED
  BY <1>1, Invariance, PTL

(* Lateness adds up to at most MaxLate for each tick.                      *)
THEOREM LatenessBounded == Spec => []DriftBounded
<1>1. Clock => DriftBounded
  BY DEF Clock, DriftBounded, Slack
<1> QED
  BY <1>1, Invariance, PTL
=============================================================================
