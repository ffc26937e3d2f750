---------------------------- MODULE ConsoleProofs ----------------------------
(***************************************************************************)
(* What the console shows, for every instance of Kernel: the transcript    *)
(* stands at a line that the place of the hart and num determine, and the  *)
(* reports on it, with ticks and the power, make a TickCounter.            *)
(***************************************************************************)
EXTENDS KernelProofs, FiniteSetTheorems

(* How many lines are out when the program stands at an address that traps *)
(* are taken from or return to.                                            *)
LinesAt(addr) ==
    IF addr = EbreakAt(0) THEN 2
    ELSE IF addr = EbreakAt(2) \/ addr = MretAt(0) THEN 4
    ELSE IF addr = MretAt(4) THEN 6
    ELSE 7 + num

(* How many lines are out at each place.                                   *)
Written ==
    IF pc \in {"memset", "banner"} THEN 0
    ELSE IF pc = "kerninfo" THEN 1
    ELSE IF pc \in {"idt_init", "ebreak", "bp_type"} THEN 2
    ELSE IF pc = "bp_addr" THEN 3
    ELSE IF pc \in {"bp_skip", "mret", "ill_type"} THEN 4
    ELSE IF pc = "ill_addr" THEN 5
    ELSE IF pc \in {"ill_skip", "set_stie", "rdtime", "set_timer", "zero_ticks", "setup"} THEN 6
    ELSE IF pc \in {"save", "sret"} THEN LinesAt(sepc)
    ELSE IF pc \in {"dispatch", "restore"} THEN LinesAt(Top.epc)
    ELSE IF pc = "h_print" THEN 6 + num
    ELSE IF pc = "h_panic" THEN 8 + num
    ELSE IF pc \in {"panic_dead", "kmonitor"} THEN 9 + num
    ELSE 7 + num

(* From the test of ticks to the end of the report.                        *)
AfterPrint == {"h_eot", "h_panic", "panic_dead", "kmonitor"}
Reporting == {"h_print", "h_num", "shutdown"} \cup AfterPrint

(* What num and is_panic are at each place once memset has run.            *)
Counts ==
    /\ pc # "memset" /\ (timecmp = Never \/ pc \in BootLabels \ {"loop"}) => num = 0
    /\ pc \notin Reporting \cup {"memset"} => num < MaxNum /\ (DebugGrade => num = 0)
    /\ pc \in Reporting => num >= 1 /\ num <= MaxNum /\ (DebugGrade => num = 1)
    /\ pc \in AfterPrint => DebugGrade
    /\ pc \in {"h_num", "shutdown"} => ~DebugGrade
    /\ pc = "shutdown" => num = MaxNum
    /\ pc \notin {"memset", "panic_dead", "kmonitor"} => ~is_panic
    /\ pc \in {"panic_dead", "kmonitor"} => is_panic
    /\ power = "off" => pc = "shutdown"

(* The report due is the one num counts; it is counted at the test.        *)
Dues ==
    pc # "memset" =>
      ticks \div TickNum = IF pc = "h_test" /\ ticks % TickNum = 0 THEN num + 1 ELSE num

Log == console = SubSeq(Expected, 1, Written)

(* The length of the transcript, and its reports as num counts them.       *)
Length == IF DebugGrade THEN 10 ELSE 7 + MaxNum
-----------------------------------------------------------------------------
Lines == Texts \X Labels \X Nat

(* A line without an address.                                              *)
LEMMA LinesAre ==
  ASSUME NEW text \in Texts
  PROVE  Line(text) \in Lines /\ Line(text) = <<text, "wild", 0>>
  BY DEF Line, Lines, Labels

(* The transcript, line by line.                                           *)
LEMMA TheTranscript ==
  /\ Length \in Nat /\ Expected \in Seq(Lines) /\ Len(Expected) = Length
  /\ Expected[1] = Line("os is loading")
  /\ Expected[2] = Line("kerninfo")
  /\ Expected[3] = Line("Exception type: breakpoint")
  /\ Expected[4] = <<"ebreak caught at", "ebreak", 0>>
  /\ Expected[5] = Line("Exception type:Illegal instruction")
  /\ Expected[6] = <<"Illegal instruction caught at", "mret", 0>>
  /\ Expected[7] = Line("++ setup timer interrupts")
  /\ DebugGrade => /\ Expected[8] = Line("100 ticks")
                   /\ Expected[9] = Line("End of Test.")
                   /\ Expected[10] = Line("kernel panic")
  /\ ~DebugGrade => \A i \in 1 .. MaxNum : Expected[7 + i] = Line("100 ticks")
<1> DEFINE reports == IF DebugGrade
                      THEN << Line("100 ticks"), Line("End of Test."), Line("kernel panic") >>
                      ELSE [i \in 1 .. MaxNum |-> Line("100 ticks")]
<1>1. /\ BootLines \in Seq(Lines) /\ Len(BootLines) = 7
      /\ BootLines[1] = Line("os is loading")
      /\ BootLines[2] = Line("kerninfo")
      /\ BootLines[3] = Line("Exception type: breakpoint")
      /\ BootLines[4] = <<"ebreak caught at", "ebreak", 0>>
      /\ BootLines[5] = Line("Exception type:Illegal instruction")
      /\ BootLines[6] = <<"Illegal instruction caught at", "mret", 0>>
      /\ BootLines[7] = Line("++ setup timer interrupts")
  <2> DEFINE l1 == Line("os is loading")
             l2 == Line("kerninfo")
             l3 == Line("Exception type: breakpoint")
             l4 == <<"ebreak caught at", "ebreak", 0>>
             l5 == Line("Exception type:Illegal instruction")
             l6 == <<"Illegal instruction caught at", "mret", 0>>
             l7 == Line("++ setup timer interrupts")
  <2>1. l1 \in Lines /\ l2 \in Lines /\ l3 \in Lines /\ l5 \in Lines /\ l7 \in Lines
    BY LinesAre DEF Texts
  <2>2. l4 \in Lines /\ l6 \in Lines
    BY DEF Lines, Texts, Labels, BootLabels
  <2>3. BootLines = <<l1, l2, l3, l4, l5, l6, l7>>
    BY DEF BootLines
  <2> HIDE DEF l1, l2, l3, l4, l5, l6, l7
  <2>4. /\ BootLines \in Seq(Lines) /\ Len(BootLines) = 7
        /\ BootLines[1] = l1 /\ BootLines[2] = l2 /\ BootLines[3] = l3
        /\ BootLines[4] = l4 /\ BootLines[5] = l5 /\ BootLines[6] = l6 /\ BootLines[7] = l7
    BY <2>1, <2>2, <2>3
  <2> QED
    BY <2>4 DEF l1, l2, l3, l4, l5, l6, l7
<1>2. /\ reports \in Seq(Lines)
      /\ Len(reports) = IF DebugGrade THEN 3 ELSE MaxNum
      /\ DebugGrade => /\ reports[1] = Line("100 ticks")
                       /\ reports[2] = Line("End of Test.")
                       /\ reports[3] = Line("kernel panic")
      /\ ~DebugGrade => \A i \in 1 .. MaxNum : reports[i] = Line("100 ticks")
  <2> DEFINE l1 == Line("100 ticks")
             l2 == Line("End of Test.")
             l3 == Line("kernel panic")
  <2>1. l1 \in Lines /\ l2 \in Lines /\ l3 \in Lines
    BY LinesAre DEF Texts
  <2>2. CASE DebugGrade
    <3>1. reports = <<l1, l2, l3>>
      BY <2>2
    <3> HIDE DEF reports, l1, l2, l3
    <3>2. reports \in Seq(Lines) /\ Len(reports) = 3
          /\ reports[1] = l1 /\ reports[2] = l2 /\ reports[3] = l3
      BY <2>1, <3>1
    <3> QED
      BY <2>2, <3>2 DEF l1, l2, l3
  <2>3. CASE ~DebugGrade
    <3>1. reports = [i \in 1 .. MaxNum |-> l1]
      BY <2>3
    <3>2. MaxNum \in Nat
      BY KernelAssumption
    <3> HIDE DEF reports, l1
    <3>3. reports \in [1 .. MaxNum -> Lines] /\ \A i \in 1 .. MaxNum : reports[i] = l1
      BY <2>1, <3>1
    <3>4. reports \in Seq(Lines) /\ Len(reports) = MaxNum
      BY <3>2, <3>3, SeqDef, LenProperties
    <3> QED
      BY <2>3, <3>3, <3>4 DEF l1
  <2> QED
    BY <2>2, <2>3
<1>3. Expected = BootLines \o reports
  BY DEF Expected
<1> HIDE DEF reports
<1>4. Length \in Nat /\ Length = 7 + Len(reports)
  <2>1. Len(reports) = IF DebugGrade THEN 3 ELSE MaxNum
    BY <1>2
  <2> QED
    BY <2>1, KernelAssumption DEF Length
<1>5. /\ Expected \in Seq(Lines) /\ Len(Expected) = 7 + Len(reports)
      /\ \A i \in 1 .. 7 : Expected[i] = BootLines[i]
      /\ \A i \in 1 .. Len(reports) : Expected[7 + i] = reports[i]
  <2>1. BootLines \in Seq(Lines) /\ Len(BootLines) = 7 /\ reports \in Seq(Lines)
    BY <1>1, <1>2
  <2>2. /\ BootLines \o reports \in Seq(Lines)
        /\ Len(BootLines \o reports) = 7 + Len(reports)
        /\ \A j \in 1 .. 7 + Len(reports) :
             (BootLines \o reports)[j] = IF j <= 7 THEN BootLines[j] ELSE reports[j - 7]
    <3>1. /\ BootLines \o reports \in Seq(Lines)
          /\ Len(BootLines \o reports) = Len(BootLines) + Len(reports)
          /\ \A j \in 1 .. Len(BootLines) + Len(reports) :
               (BootLines \o reports)[j] = IF j <= Len(BootLines) THEN BootLines[j]
                                           ELSE reports[j - Len(BootLines)]
      BY <2>1, ConcatProperties, Zenon
    <3>2. Len(BootLines) = 7
      BY <2>1
    <3> QED
      BY <3>1, <3>2, Zenon
  <2>3. Len(reports) \in Nat
    BY <2>1
  <2> QED
    BY <2>2, <2>3, <1>3
<1>6. DebugGrade => /\ Expected[8] = Line("100 ticks")
                   /\ Expected[9] = Line("End of Test.")
                   /\ Expected[10] = Line("kernel panic")
  <2> SUFFICES ASSUME DebugGrade
               PROVE  /\ Expected[8] = Line("100 ticks")
                      /\ Expected[9] = Line("End of Test.")
                      /\ Expected[10] = Line("kernel panic")
    OBVIOUS
  <2>1. Len(reports) = 3
    BY <1>2
  <2>2. /\ Expected[7 + 1] = reports[1] /\ Expected[7 + 2] = reports[2]
        /\ Expected[7 + 3] = reports[3]
    BY <1>5, <2>1
  <2>3. 7 + 1 = 8 /\ 7 + 2 = 9 /\ 7 + 3 = 10
    OBVIOUS
  <2>4. reports[1] = Line("100 ticks") /\ reports[2] = Line("End of Test.")
        /\ reports[3] = Line("kernel panic")
    BY <1>2
  <2> QED
    BY <2>2, <2>3, <2>4
<1>7. ~DebugGrade => \A i \in 1 .. MaxNum : Expected[7 + i] = Line("100 ticks")
  BY <1>2, <1>5
<1>8. /\ Expected[1] = BootLines[1] /\ Expected[2] = BootLines[2]
      /\ Expected[3] = BootLines[3] /\ Expected[4] = BootLines[4]
      /\ Expected[5] = BootLines[5] /\ Expected[6] = BootLines[6]
      /\ Expected[7] = BootLines[7]
  BY <1>5
<1>9. Length \in Nat /\ Expected \in Seq(Lines) /\ Len(Expected) = Length
  BY <1>4, <1>5
<1> HIDE DEF Length
<1> QED
  BY <1>1, <1>6, <1>7, <1>8, <1>9

(* One line more is the next line of the transcript.                       *)
LEMMA OneMore ==
  ASSUME NEW k \in Nat, k < Length
  PROVE  Append(SubSeq(Expected, 1, k), Expected[k + 1]) = SubSeq(Expected, 1, k + 1)
<1>1. /\ Expected \in Seq(Lines) /\ Length = Len(Expected) /\ Length \in Nat
  BY TheTranscript
<1>2. 1 \in 1 .. Len(Expected) /\ k + 1 \in 1 .. Len(Expected)
  BY <1>1
<1>3. SubSeq(Expected, 1, k + 1) = SubSeq(Expected, 1, k + 1 - 1) \o << Expected[k + 1] >>
  BY <1>1, <1>2, SubSeqRecursiveSecond
<1>4. SubSeq(Expected, 1, k) \in Seq(Lines) /\ Expected[k + 1] \in Lines
  <2>1. \A i \in 1 .. k : Expected[i] \in Lines
    BY <1>1, <1>2
  <2> QED
    BY <1>1, <1>2, <2>1, SubSeqProperties
<1> QED
  BY <1>3, <1>4, AppendIsConcat

(* A step that writes nothing stays at its line.                           *)
LEMMA Stays == ASSUME Log, UNCHANGED <<console, Written>> PROVE Log'
  BY DEF Log

(* A step that writes the next line moves on by one.                       *)
LEMMA Grows ==
  ASSUME Log, Written \in Nat, Written < Length, Written' = Written + 1,
         console' = Append(console, Expected[Written + 1])
  PROVE  Log'
<1>1. console' = SubSeq(Expected, 1, Written + 1)
  BY OneMore DEF Log
<1> QED
  BY <1>1 DEF Log

(* Counting on: the quotient moves when the remainder is back at 0.        *)
LEMMA DivStep ==
  ASSUME NEW a \in Nat, NEW b \in Nat \ {0}
  PROVE  (a + 1) \div b = IF (a + 1) % b = 0 THEN (a \div b) + 1 ELSE a \div b
<1> DEFINE q == a \div b  r == a % b  q1 == (a + 1) \div b  r1 == (a + 1) % b
<1>1. /\ q \in Int /\ r \in 0 .. b - 1 /\ a = b * q + r
      /\ q1 \in Int /\ r1 \in 0 .. b - 1 /\ a + 1 = b * q1 + r1
  OBVIOUS
<1> HIDE DEF q, r, q1, r1
<1>2. b * (q1 - q) = r + 1 - r1
  BY <1>1
<1>3. q1 - q < 2
  BY <1>1, <1>2
<1>4. q1 - q > -1
  BY <1>1, <1>2
<1>5. q1 = q \/ q1 = q + 1
  BY <1>1, <1>3, <1>4
<1>6. q1 = q => r1 = r + 1
  BY <1>1, <1>2
<1>7. q1 = q + 1 => r1 = r + 1 - b
  BY <1>1, <1>2
<1>8. q1 = IF r1 = 0 THEN q + 1 ELSE q
  BY <1>1, <1>5, <1>6, <1>7
<1> QED
  BY <1>8 DEF q, r, q1, r1
-----------------------------------------------------------------------------
(* Where the trap in hand was taken, by the place in its handler.          *)
LEMMA Origins ==
  ASSUME TypeOK, Control
  PROVE  /\ pc \in {"bp_type", "bp_addr", "bp_skip"} => Top.epc = EbreakAt(0) /\ timecmp = Never
         /\ pc \in {"ill_type", "ill_addr", "ill_skip"} => Top.epc = MretAt(0) /\ timecmp = Never
         /\ pc \in {"h_rdtime", "h_set_timer", "h_tick", "h_test", "h_print", "h_num",
                    "shutdown"} \cup AfterPrint => Top.epc = LoopAt /\ timecmp # Never
         /\ pc \in {"loop", "setup", "zero_ticks", "intr_enable"} => timecmp # Never
         /\ pc \in BeforeTimer => timecmp = Never
         /\ pc = "save" => TakenFrom(scause, sepc, spie)
         /\ pc = "dispatch" => TakenFrom(Top.cause, Top.epc, Top.spie)
         /\ pc = "restore" => ResumesAt(Top.epc, Top.spie)
         /\ pc = "sret" => ResumesAt(sepc, spie)
<1>1. pc \in Handling \ {"dispatch", "restore"} =>
        TakenFrom(Top.cause, Top.epc, Top.spie) /\ Top.cause = Causing(pc)
  BY DEF Control, Context
<1>2. pc \in {"bp_type", "bp_addr", "bp_skip"} => Top.epc = EbreakAt(0) /\ timecmp = Never
  BY <1>1 DEF Handling, TrapLabels, Causing, TakenFrom
<1>3. pc \in {"ill_type", "ill_addr", "ill_skip"} => Top.epc = MretAt(0) /\ timecmp = Never
  BY <1>1 DEF Handling, TrapLabels, Causing, TakenFrom
<1>4. pc \in {"h_rdtime", "h_set_timer", "h_tick", "h_test", "h_print", "h_num",
              "shutdown"} \cup AfterPrint => Top.epc = LoopAt /\ timecmp # Never
  BY <1>1 DEF Handling, TrapLabels, Causing, TakenFrom, Armed, AfterPrint
<1>5. pc \in {"loop", "setup", "zero_ticks", "intr_enable"} => timecmp # Never
  BY DEF Control, Armed, BootLabels, BeforeTimer, BeforeVector
<1> QED
  BY <1>2, <1>3, <1>4, <1>5 DEF Control, Context

(* Before memset nothing is claimed of num, ticks and is_panic.            *)
LEMMA CountsInitially == Init => Counts /\ Dues /\ Log
<1> SUFFICES ASSUME Init PROVE Counts /\ Dues /\ Log
  OBVIOUS
<1>1. Counts /\ Dues
  BY DEF Init, Counts, Dues, Reporting, AfterPrint
<1>2. Written = 0 /\ console = <<>>
  BY DEF Init, Written
<1> QED
  BY <1>1, <1>2, SubSeqEmpty DEF Log

(* Every step keeps what Counts says of num.                               *)
LEMMA CountsStep ==
  TypeOK /\ Control /\ Counts /\ [Next \/ PanicCall]_vars => Counts'
<1> SUFFICES ASSUME TypeOK, Control, Counts, [Next \/ PanicCall]_vars
             PROVE  Counts'
  OBVIOUS
<1> USE KernelAssumption, Origins
        DEF Counts, Reporting, AfterPrint, BootLabels, BeforeTimer, BeforeVector,
            Step, csrs, timer, data
<1>1. CASE Memset
  BY <1>1 DEF Memset, TypeOK
<1>2. CASE Banner
  BY <1>2 DEF Banner, PrintLine, PrintAddr
<1>3. CASE Kerninfo
  BY <1>3 DEF Kerninfo, PrintLine, PrintAddr
<1>4. CASE IdtInit
  BY <1>4 DEF IdtInit
<1>5. CASE Ebreak
  BY <1>5 DEF Ebreak, TakeTrap, Control, TypeOK
<1>6. CASE Mret
  BY <1>6 DEF Mret, TakeTrap, Control, TypeOK
<1>7. CASE SetStie
  BY <1>7 DEF SetStie
<1>8. CASE Rdtime
  BY <1>8 DEF Rdtime
<1>9. CASE SetTimer
  BY <1>9 DEF SetTimer, SbiSetTimer, SbiSetTimerTo
<1>10. CASE ZeroTicks
  BY <1>10 DEF ZeroTicks
<1>11. CASE Setup
  BY <1>11 DEF Setup, PrintLine, PrintAddr
<1>12. CASE IntrEnable
  BY <1>12 DEF IntrEnable
<1>13. CASE Interrupt
  BY <1>13 DEF Interrupt, Interrupted, TakeTrap, Control, TypeOK
<1>14. CASE SaveAll
  BY <1>14 DEF SaveAll
<1>15. CASE Dispatch
  BY <1>15 DEF Dispatch
<1>16. CASE Breakpoint
  <2>1. /\ \/ pc = "bp_type" /\ pc' = "bp_addr"
           \/ pc = "bp_addr" /\ pc' = "bp_skip"
           \/ pc = "bp_skip" /\ pc' = "restore"
        /\ UNCHANGED <<power, timecmp, num, is_panic>>
    BY <1>16 DEF Breakpoint, PrintLine, PrintAddr, SkipInstruction
  <2> QED
    BY <2>1
<1>17. CASE Illegal
  <2>1. /\ \/ pc = "ill_type" /\ pc' = "ill_addr"
           \/ pc = "ill_addr" /\ pc' = "ill_skip"
           \/ pc = "ill_skip" /\ pc' = "restore"
        /\ UNCHANGED <<power, timecmp, num, is_panic>>
    BY <1>17 DEF Illegal, PrintLine, PrintAddr, SkipInstruction
  <2> QED
    BY <2>1
<1>18. CASE TimerRdtime
  BY <1>18 DEF TimerRdtime
<1>19. CASE TimerSet
  BY <1>19 DEF TimerSet, SbiSetTimer, SbiSetTimerTo, Never, TypeOK
<1>20. CASE TimerTick
  BY <1>20 DEF TimerTick
<1>21. CASE TimerTest
  BY <1>21 DEF TimerTest, TypeOK
<1>22. CASE PrintTicks
  BY <1>22 DEF PrintTicks, PrintLine, PrintAddr
<1>23. CASE EndOfTest
  BY <1>23 DEF EndOfTest, PrintLine, PrintAddr
<1>24. CASE Panic
  BY <1>24 DEF Panic, PanicMessage
<1>25. CASE PanicDead
  BY <1>25 DEF PanicDead
<1>26. CASE TestNum
  BY <1>26 DEF TestNum, TypeOK
<1>27. CASE Shutdown
  BY <1>27 DEF Shutdown
<1>28. CASE RestoreAll
  BY <1>28 DEF RestoreAll
<1>29. CASE Sret
  BY <1>29 DEF Sret, Resume, ResumesAt, EbreakAt, MretAt, LoopAt
<1>30. CASE PassTime
  BY <1>30 DEF PassTime
<1>31. CASE UNCHANGED vars
  BY <1>31 DEF vars
<1> QED
  BY <1>1, <1>2, <1>3, <1>4, <1>5, <1>6, <1>7, <1>8, <1>9, <1>10, <1>11, <1>12, <1>13, <1>14, <1>15, <1>16, <1>17, <1>18, <1>19, <1>20, <1>21, <1>22, <1>23, <1>24, <1>25, <1>26, <1>27, <1>28, <1>29, <1>30, <1>31 DEF Next, PanicCall, Hart, Boot, Trap, Idle

(* Most steps leave both counters alone.                                   *)
LEMMA DuesUntouched ==
  ASSUME Dues, UNCHANGED <<ticks, num>>, pc \notin {"memset", "h_test"}, pc' # "h_test"
  PROVE  Dues'
  BY DEF Dues

(* Every step keeps num the quotient of ticks.                             *)
LEMMA DuesStep ==
  TypeOK /\ Control /\ Clock /\ Dues /\ [Next \/ PanicCall]_vars => Dues'
<1> SUFFICES ASSUME TypeOK, Control, Clock, Dues, [Next \/ PanicCall]_vars
             PROVE  Dues'
  OBVIOUS
<1> USE DEF Step, data
<1>1. CASE Memset
  <2>1. ticks' = 0 /\ num' = 0 /\ pc' = "banner"
    BY <1>1 DEF Memset
  <2>2. 0 \div TickNum = 0
    BY KernelAssumption
  <2> QED
    BY <2>1, <2>2 DEF Dues
<1>2. CASE Banner
  BY <1>2, DuesUntouched DEF Banner, PrintLine, PrintAddr
<1>3. CASE Kerninfo
  BY <1>3, DuesUntouched DEF Kerninfo, PrintLine, PrintAddr
<1>4. CASE IdtInit
  BY <1>4, DuesUntouched DEF IdtInit
<1>5. CASE Ebreak
  BY <1>5, DuesUntouched DEF Ebreak, TakeTrap, Control, TypeOK, BeforeVector
<1>6. CASE Mret
  BY <1>6, DuesUntouched DEF Mret, TakeTrap, Control, TypeOK, BeforeVector
<1>7. CASE SetStie
  BY <1>7, DuesUntouched DEF SetStie
<1>8. CASE Rdtime
  BY <1>8, DuesUntouched DEF Rdtime
<1>9. CASE SetTimer
  BY <1>9, DuesUntouched DEF SetTimer, SbiSetTimer, SbiSetTimerTo
<1>10. CASE ZeroTicks
  <2>1. pc = "zero_ticks" /\ pc' = "setup" /\ UNCHANGED <<ticks, num>>
    BY <1>10, Origins DEF ZeroTicks, Clock
  <2> QED
    BY <2>1, DuesUntouched
<1>11. CASE Setup
  BY <1>11, DuesUntouched DEF Setup, PrintLine, PrintAddr
<1>12. CASE IntrEnable
  BY <1>12, DuesUntouched DEF IntrEnable
<1>13. CASE Interrupt
  BY <1>13, DuesUntouched DEF Interrupt, Interrupted, TakeTrap, Control, TypeOK, BeforeVector
<1>14. CASE SaveAll
  BY <1>14, DuesUntouched DEF SaveAll
<1>15. CASE Dispatch
  BY <1>15, DuesUntouched DEF Dispatch
<1>16. CASE Breakpoint
  BY <1>16, DuesUntouched DEF Breakpoint, PrintLine, PrintAddr, SkipInstruction
<1>17. CASE Illegal
  BY <1>17, DuesUntouched DEF Illegal, PrintLine, PrintAddr, SkipInstruction
<1>18. CASE TimerRdtime
  BY <1>18, DuesUntouched DEF TimerRdtime
<1>19. CASE TimerSet
  BY <1>19, DuesUntouched DEF TimerSet, SbiSetTimer, SbiSetTimerTo
<1>20. CASE TimerTick
  <2>1. pc = "h_tick" /\ pc' = "h_test" /\ ticks' = ticks + 1 /\ num' = num
    BY <1>20 DEF TimerTick
  <2>2. ticks' \div TickNum = IF ticks' % TickNum = 0 THEN (ticks \div TickNum) + 1
                                                     ELSE ticks \div TickNum
    BY <2>1, DivStep, KernelAssumption DEF TypeOK
  <2> QED
    BY <2>1, <2>2 DEF Dues
<1>21. CASE TimerTest
  BY <1>21 DEF TimerTest, Dues
<1>22. CASE PrintTicks
  BY <1>22, DuesUntouched DEF PrintTicks, PrintLine, PrintAddr
<1>23. CASE EndOfTest
  BY <1>23, DuesUntouched DEF EndOfTest, PrintLine, PrintAddr
<1>24. CASE Panic
  BY <1>24, DuesUntouched DEF Panic, PanicMessage
<1>25. CASE PanicDead
  BY <1>25, DuesUntouched DEF PanicDead
<1>26. CASE TestNum
  BY <1>26, DuesUntouched DEF TestNum
<1>27. CASE Shutdown
  BY <1>27, DuesUntouched DEF Shutdown
<1>28. CASE RestoreAll
  BY <1>28, DuesUntouched DEF RestoreAll
<1>29. CASE Sret
  BY <1>29, DuesUntouched, Origins DEF Sret, Resume, ResumesAt, EbreakAt, MretAt, LoopAt
<1>30. CASE PassTime
  BY <1>30 DEF PassTime, Dues
<1>31. CASE UNCHANGED vars
  BY <1>31 DEF vars, Dues
<1> QED
  BY <1>1, <1>2, <1>3, <1>4, <1>5, <1>6, <1>7, <1>8, <1>9, <1>10, <1>11, <1>12, <1>13, <1>14, <1>15, <1>16, <1>17, <1>18, <1>19, <1>20, <1>21, <1>22, <1>23, <1>24, <1>25, <1>26, <1>27, <1>28, <1>29, <1>30, <1>31 DEF Next, PanicCall, Hart, Boot, Trap, Idle

(* The next line of the transcript is written between places a line apart. *)
LEMMA NextLine ==
  ASSUME Log, NEW k \in Nat, k < Length, NEW next, next = k + 1,
         Written = k, Written' = next,
         NEW line, console' = Append(console, line), Expected[next] = line
  PROVE  Log'
<1>1. Written \in Nat /\ Written < Length /\ Written' = Written + 1
  OBVIOUS
<1>2. Written + 1 = next
  OBVIOUS
<1>3. console' = Append(console, Expected[Written + 1])
  BY <1>2, Zenon
<1> QED
  BY <1>1, <1>3, Grows

(* The transcript has all boot lines and one report at least.              *)
LEMMA Enough == Length \in Nat /\ Length >= 8
  BY KernelAssumption DEF Length

(* The text of the report that num counts.                                 *)
LEMMA ReportLine ==
  ASSUME TypeOK, num >= 1, num <= MaxNum, DebugGrade => num = 1
  PROVE  6 + num < Length /\ Expected[7 + num] = Line("100 ticks")
<1>1. CASE DebugGrade
  <2>1. num = 1 /\ 7 + num = 8 /\ 6 + num < Length
    BY <1>1 DEF Length
  <2>2. Expected[8] = Line("100 ticks")
    BY <1>1, TheTranscript, Zenon
  <2> QED
    BY <2>1, <2>2
<1>2. CASE ~DebugGrade
  <2>1. num \in 1 .. MaxNum /\ 6 + num < Length
    BY <1>2, KernelAssumption DEF Length, TypeOK
  <2>2. \A i \in 1 .. MaxNum : Expected[7 + i] = Line("100 ticks")
    BY <1>2, TheTranscript, Zenon
  <2>3. Expected[7 + num] = Line("100 ticks")
    BY <2>1, <2>2, Zenon
  <2> QED
    BY <2>1, <2>3
<1> QED
  BY <1>1, <1>2

(* Every step leaves the console at Written.                               *)
LEMMA LogStep ==
  TypeOK /\ Control /\ Counts /\ Log /\ [Next \/ PanicCall]_vars => Log'
<1> SUFFICES ASSUME TypeOK, Control, Counts, Log, [Next \/ PanicCall]_vars
             PROVE  Log'
  OBVIOUS
<1> USE DEF Step, data, csrs
<1>1. CASE Memset
  BY <1>1, Stays DEF Written, Memset
<1>2. CASE Banner
  <2>1. pc = "banner" /\ pc' = "kerninfo" /\ console' = Append(console, Line("os is loading"))
    BY <1>2 DEF Banner, PrintLine, PrintAddr, Line
  <2>2. Written = 0 /\ Written' = 1
    BY <2>1 DEF Written
  <2>3. Expected[1] = Line("os is loading")
    BY TheTranscript, Zenon
  <2>4. 0 \in Nat /\ 0 < Length /\ 1 = 0 + 1
    BY Enough
  <2> QED
    BY <2>1, <2>2, <2>3, <2>4, NextLine, Zenon
<1>3. CASE Kerninfo
  <2>1. pc = "kerninfo" /\ pc' = "idt_init" /\ console' = Append(console, Line("kerninfo"))
    BY <1>3 DEF Kerninfo, PrintLine, PrintAddr, Line
  <2>2. Written = 1 /\ Written' = 2
    BY <2>1 DEF Written
  <2>3. Expected[2] = Line("kerninfo")
    BY TheTranscript, Zenon
  <2>4. 1 \in Nat /\ 1 < Length /\ 2 = 1 + 1
    BY Enough
  <2> QED
    BY <2>1, <2>2, <2>3, <2>4, NextLine, Zenon
<1>4. CASE IdtInit
  BY <1>4, Stays DEF Written, IdtInit
<1>5. CASE Ebreak
  <2>1. pc = "ebreak" /\ pc' = "save" /\ sepc' = EbreakAt(0) /\ console' = console
    BY <1>5 DEF Ebreak, TakeTrap, Control, BeforeVector, TypeOK, EbreakAt
  <2> QED
    BY <2>1, Stays DEF Written, LinesAt, EbreakAt, MretAt
<1>6. CASE Mret
  <2>1. pc = "mret" /\ pc' = "save" /\ sepc' = MretAt(0) /\ console' = console
    BY <1>6 DEF Mret, TakeTrap, Control, BeforeVector, TypeOK, MretAt
  <2> QED
    BY <2>1, Stays DEF Written, LinesAt, EbreakAt, MretAt
<1>7. CASE SetStie
  BY <1>7, Stays DEF Written, SetStie
<1>8. CASE Rdtime
  BY <1>8, Stays DEF Written, Rdtime
<1>9. CASE SetTimer
  BY <1>9, Stays DEF Written, SetTimer, SbiSetTimer, SbiSetTimerTo
<1>10. CASE ZeroTicks
  BY <1>10, Stays DEF Written, ZeroTicks
<1>11. CASE Setup
  <2>1. pc = "setup" /\ pc' = "intr_enable" /\ console' = Append(console, Line("++ setup timer interrupts"))
    BY <1>11 DEF Setup, PrintLine, PrintAddr, Line
  <2>2. Written = 6 /\ Written' = 7
    <3>1. num = 0 /\ num' = num
      BY <1>11, <2>1 DEF Counts, BootLabels, Setup, PrintLine, PrintAddr
    <3>2. Written = 6 /\ Written' = 7 + num'
      BY <2>1 DEF Written
    <3> QED
      BY <3>1, <3>2
  <2>3. Expected[7] = Line("++ setup timer interrupts")
    BY TheTranscript, Zenon
  <2>4. 6 \in Nat /\ 6 < Length /\ 7 = 6 + 1
    BY Enough
  <2> QED
    BY <2>1, <2>2, <2>3, <2>4, NextLine, Zenon
<1>12. CASE IntrEnable
  BY <1>12, Stays DEF Written, IntrEnable
<1>13. CASE Interrupt
  <2>1. /\ pc = "loop" /\ pc' = "save" /\ sepc' = LoopAt
        /\ UNCHANGED <<console, num>>
    BY <1>13 DEF Interrupt, Interrupted, TakeTrap, Control, BeforeVector, TypeOK, LoopAt
  <2> QED
    BY <2>1, Stays DEF Written, LinesAt, EbreakAt, MretAt, LoopAt
<1>14. CASE SaveAll
  <2>1. pc = "save" /\ pc' = "dispatch" /\ UNCHANGED <<console, num>>
    BY <1>14 DEF SaveAll
  <2>2. Top'.epc = sepc
    <3>1. frames = <<>>
      BY <2>1 DEF Control, Context, Handling
    <3>2. frames' = << [sie |-> sie, spie |-> spie, epc |-> sepc, cause |-> scause] >>
      BY <1>14, <3>1 DEF SaveAll
    <3> QED
      BY <3>2 DEF Top
  <2> QED
    BY <2>1, <2>2, Stays DEF Written, LinesAt
<1>15. CASE Dispatch
  <2>1. /\ pc = "dispatch" /\ UNCHANGED <<console, num>>
        /\ \/ pc' = "h_rdtime" /\ Top.cause = "timer"
           \/ pc' = "bp_type" /\ Top.cause = "breakpoint"
           \/ pc' = "ill_type" /\ Top.cause = "illegal"
    BY <1>15 DEF Dispatch
  <2>2. TakenFrom(Top.cause, Top.epc, Top.spie)
    BY <2>1, Origins
  <2> QED
    BY <2>1, <2>2, Stays DEF Written, LinesAt, TakenFrom, EbreakAt, MretAt, LoopAt
<1>16. CASE Breakpoint
  <2>1. CASE PrintLine("bp_type", "bp_addr", "Exception type: breakpoint")
    <3>1. pc = "bp_type" /\ pc' = "bp_addr" /\ console' = Append(console, Line("Exception type: breakpoint"))
      BY <2>1 DEF PrintLine, PrintAddr, Line
    <3>2. Written = 2 /\ Written' = 3
      BY <3>1 DEF Written
    <3>3. Expected[3] = Line("Exception type: breakpoint")
      BY TheTranscript, Zenon
    <3>4. 2 \in Nat /\ 2 < Length /\ 3 = 2 + 1
      BY Enough
    <3> QED
      BY <3>1, <3>2, <3>3, <3>4, NextLine, Zenon
  <2>2. CASE PrintAddr("bp_addr", "bp_skip", "ebreak caught at", Top.epc)
    <3>1. /\ pc = "bp_addr" /\ pc' = "bp_skip"
          /\ console' = Append(console, <<"ebreak caught at", "ebreak", 0>>)
      <4>1. /\ pc = "bp_addr" /\ pc' = "bp_skip"
            /\ console' = Append(console, <<"ebreak caught at", Top.epc.at, Top.epc.off>>)
        BY <2>2 DEF PrintAddr
      <4>2. Top.epc = EbreakAt(0)
        BY <4>1, Origins
      <4>3. Top.epc.at = "ebreak" /\ Top.epc.off = 0
        BY <4>2 DEF EbreakAt
      <4> QED
        BY <4>1, <4>3
    <3>2. Written = 3 /\ Written' = 4
      BY <3>1 DEF Written
    <3>3. Expected[4] = <<"ebreak caught at", "ebreak", 0>>
      BY TheTranscript, Zenon
    <3>4. 3 \in Nat /\ 3 < Length /\ 4 = 3 + 1
      BY Enough
    <3> QED
      BY <3>1, <3>2, <3>3, <3>4, NextLine, Zenon
  <2>3. CASE SkipInstruction("bp_skip", "restore", 2)
    <3>1. /\ pc = "bp_skip" /\ pc' = "restore" /\ UNCHANGED console
          /\ Top'.epc = [Top.epc EXCEPT !.off = @ + 2]
      BY <2>3, Skipping DEF Control, Handling, TrapLabels, Labels
    <3>2. Top'.epc = EbreakAt(2)
      BY <3>1, Origins DEF EbreakAt
    <3> QED
      BY <3>1, <3>2, Stays DEF Written, LinesAt, EbreakAt, MretAt
  <2> QED
    BY <1>16, <2>1, <2>2, <2>3 DEF Breakpoint
<1>17. CASE Illegal
  <2>1. CASE PrintLine("ill_type", "ill_addr", "Exception type:Illegal instruction")
    <3>1. pc = "ill_type" /\ pc' = "ill_addr" /\ console' = Append(console, Line("Exception type:Illegal instruction"))
      BY <2>1 DEF PrintLine, PrintAddr, Line
    <3>2. Written = 4 /\ Written' = 5
      BY <3>1 DEF Written
    <3>3. Expected[5] = Line("Exception type:Illegal instruction")
      BY TheTranscript, Zenon
    <3>4. 4 \in Nat /\ 4 < Length /\ 5 = 4 + 1
      BY Enough
    <3> QED
      BY <3>1, <3>2, <3>3, <3>4, NextLine, Zenon
  <2>2. CASE PrintAddr("ill_addr", "ill_skip", "Illegal instruction caught at", Top.epc)
    <3>1. /\ pc = "ill_addr" /\ pc' = "ill_skip"
          /\ console' = Append(console, <<"Illegal instruction caught at", "mret", 0>>)
      <4>1. /\ pc = "ill_addr" /\ pc' = "ill_skip"
            /\ console' = Append(console, <<"Illegal instruction caught at", Top.epc.at, Top.epc.off>>)
        BY <2>2 DEF PrintAddr
      <4>2. Top.epc = MretAt(0)
        BY <4>1, Origins
      <4>3. Top.epc.at = "mret" /\ Top.epc.off = 0
        BY <4>2 DEF MretAt
      <4> QED
        BY <4>1, <4>3
    <3>2. Written = 5 /\ Written' = 6
      BY <3>1 DEF Written
    <3>3. Expected[6] = <<"Illegal instruction caught at", "mret", 0>>
      BY TheTranscript, Zenon
    <3>4. 5 \in Nat /\ 5 < Length /\ 6 = 5 + 1
      BY Enough
    <3> QED
      BY <3>1, <3>2, <3>3, <3>4, NextLine, Zenon
  <2>3. CASE SkipInstruction("ill_skip", "restore", 4)
    <3>1. /\ pc = "ill_skip" /\ pc' = "restore" /\ UNCHANGED console
          /\ Top'.epc = [Top.epc EXCEPT !.off = @ + 4]
      BY <2>3, Skipping DEF Control, Handling, TrapLabels, Labels
    <3>2. Top'.epc = MretAt(4)
      BY <3>1, Origins DEF MretAt
    <3> QED
      BY <3>1, <3>2, Stays DEF Written, LinesAt, EbreakAt, MretAt
  <2> QED
    BY <1>17, <2>1, <2>2, <2>3 DEF Illegal
<1>18. CASE TimerRdtime
  BY <1>18, Stays DEF Written, TimerRdtime
<1>19. CASE TimerSet
  BY <1>19, Stays DEF Written, TimerSet, SbiSetTimer, SbiSetTimerTo
<1>20. CASE TimerTick
  BY <1>20, Stays DEF Written, TimerTick
<1>21. CASE TimerTest
  <2>1. /\ pc = "h_test" /\ UNCHANGED <<console, frames>> /\ num \in Nat
        /\ \/ pc' = "h_print" /\ num' = num + 1
           \/ pc' = "restore" /\ num' = num
    BY <1>21 DEF TimerTest, TypeOK
  <2>2. Top'.epc = LoopAt
    BY <2>1, Origins DEF Top
  <2> QED
    BY <2>1, <2>2, Stays DEF Written, LinesAt, EbreakAt, MretAt, LoopAt
<1>22. CASE PrintTicks
  <2>1. /\ pc = "h_print" /\ pc' \in {"h_eot", "h_num"}
        /\ num' = num /\ num \in Nat /\ console' = Append(console, Line("100 ticks"))
    BY <1>22 DEF PrintTicks, PrintLine, PrintAddr, Line, TypeOK
  <2>2. Written = 6 + num /\ Written' = 7 + num
    BY <2>1 DEF Written
  <2>3. num >= 1 /\ num <= MaxNum /\ (DebugGrade => num = 1)
    BY <2>1 DEF Counts, Reporting
  <2>4. 6 + num < Length /\ Expected[7 + num] = Line("100 ticks")
    BY <2>3, ReportLine
  <2>5. 6 + num \in Nat /\ 7 + num = 6 + num + 1
    BY DEF TypeOK
  <2> QED
    BY <2>1, <2>2, <2>3, <2>4, <2>5, NextLine, Zenon
<1>23. CASE EndOfTest
  <2>1. /\ pc = "h_eot" /\ pc' = "h_panic" /\ num' = num
        /\ console' = Append(console, Line("End of Test."))
    BY <1>23 DEF EndOfTest, PrintLine, PrintAddr, Line
  <2>2. num = 1 /\ DebugGrade
    BY <2>1 DEF Counts, Reporting, AfterPrint
  <2>3. Written = 7 + num /\ Written' = 8 + num'
    BY <2>1 DEF Written
  <2>4. Written = 8 /\ Written' = 9
    <3>1. num = 1 /\ num' = 1
      BY <2>1, <2>2, Zenon
    <3> QED
      BY <2>3, <3>1
  <2>5. Expected[9] = Line("End of Test.")
    BY <2>2, TheTranscript, Zenon
  <2>6. 8 \in Nat /\ 8 < Length /\ 9 = 8 + 1
    BY <2>2 DEF Length
  <2> QED
    BY <2>1, <2>4, <2>5, <2>6, NextLine, Zenon
<1>24. CASE Panic
  <2>1. pc = "h_panic" /\ pc' = "panic_dead" /\ num' = num
    BY <1>24 DEF Panic
  <2>2. num = 1 /\ DebugGrade /\ ~is_panic
    BY <2>1 DEF Counts, Reporting, AfterPrint
  <2>3. console' = Append(console, Line("kernel panic"))
    BY <1>24, <2>2 DEF Panic, PanicMessage, Line
  <2>4. Written = 9 /\ Written' = 10
    BY <2>1, <2>2 DEF Written
  <2>5. Expected[10] = Line("kernel panic")
    BY <2>2, TheTranscript, Zenon
  <2>6. 9 \in Nat /\ 9 < Length /\ 10 = 9 + 1
    BY <2>2 DEF Length
  <2> QED
    BY <2>3, <2>4, <2>5, <2>6, NextLine, Zenon
<1>25. CASE PanicDead
  BY <1>25, Stays DEF Written, PanicDead
<1>26. CASE TestNum
  <2>1. pc = "h_num" /\ pc' \in {"shutdown", "restore"} /\ UNCHANGED <<console, frames, num>>
    BY <1>26 DEF TestNum
  <2>2. Top'.epc = LoopAt
    BY <2>1, Origins DEF Top
  <2> QED
    BY <2>1, <2>2, Stays DEF Written, LinesAt, EbreakAt, MretAt, LoopAt
<1>27. CASE Shutdown
  BY <1>27, Stays DEF Written, Shutdown
<1>28. CASE RestoreAll
  <2>1. pc = "restore" /\ pc' = "sret" /\ sepc' = Top.epc /\ UNCHANGED <<console, num>>
    BY <1>28 DEF RestoreAll
  <2> QED
    BY <2>1, Stays DEF Written, LinesAt
<1>29. CASE Sret
  <2>1. pc = "sret" /\ pc' = Resume(sepc) /\ UNCHANGED <<console, num>>
    BY <1>29 DEF Sret
  <2>2. ResumesAt(sepc, spie)
    BY <2>1, Origins
  <2> QED
    BY <2>1, <2>2, Stays DEF Written, LinesAt, Resume, ResumesAt, EbreakAt, MretAt, LoopAt
<1>30. CASE PassTime
  BY <1>30, Stays DEF Written, PassTime, LinesAt, Top
<1>31. CASE UNCHANGED vars
  BY <1>31, Stays DEF Written, vars, LinesAt, Top
<1> QED
  BY <1>1, <1>2, <1>3, <1>4, <1>5, <1>6, <1>7, <1>8, <1>9, <1>10, <1>11, <1>12, <1>13, <1>14, <1>15, <1>16, <1>17, <1>18, <1>19, <1>20, <1>21, <1>22, <1>23, <1>24, <1>25, <1>26, <1>27, <1>28, <1>29, <1>30, <1>31 DEF Next, PanicCall, Hart, Boot, Trap, Idle
-----------------------------------------------------------------------------
ConsoleInv == TypeOK /\ Control /\ Clock /\ Counts /\ Dues /\ Log

(* The conjunction holds at first and is kept, by the lemmas above.        *)
LEMMA ConsoleInitially == Init => ConsoleInv
  BY Initially, ClockInitially, CountsInitially DEF ConsoleInv

LEMMA ConsoleStep == ConsoleInv /\ [Next \/ PanicCall]_vars => ConsoleInv'
  BY ControlStep, ClockStep, CountsStep, DuesStep, LogStep DEF ConsoleInv

(* The inductive invariant of this module.                                 *)
THEOREM ConsoleInvariance == Spec => []ConsoleInv
<1>1. ConsoleInv /\ [Next]_vars => ConsoleInv'
  <2>1. [Next]_vars => [Next \/ PanicCall]_vars
    OBVIOUS
  <2> QED
    BY <2>1, ConsoleStep
<1> QED
  BY <1>1, ConsoleInitially, PTL DEF Spec

(* How far Written can be, and what num is there.                          *)
LEMMA WrittenBounded ==
  ASSUME TypeOK, Control, Counts
  PROVE  /\ Written \in 0 .. Length
         /\ power = "off" \/ pc = "kmonitor" => Written = Length
         /\ pc \notin {"memset", "h_print"} =>
              IF DebugGrade THEN (Written < 8 <=> num = 0) /\ num \in 0 .. 1
              ELSE IF Written < 8 THEN num = 0 ELSE num = Written - 7
         /\ pc = "h_print" => Written = 6 + num /\ num >= 1 /\ (DebugGrade => num = 1)
         /\ pc = "memset" => Written = 0
  BY Origins, KernelAssumption
     DEF TypeOK, Counts, Written, LinesAt, Length, Reporting, AfterPrint, TakenFrom,
         ResumesAt, EbreakAt, MretAt, LoopAt, BeforeTimer, BeforeVector, BootLabels, Labels,
         TrapLabels, Control

(* The console, element by element.                                        *)
LEMMA ConsoleIs ==
  ASSUME TypeOK, Log, Written \in 0 .. Length
  PROVE  /\ Len(console) = Written /\ DOMAIN console = 1 .. Written
         /\ \A j \in 1 .. Written : console[j] = Expected[j]
<1>1. Expected \in Seq(Lines) /\ Len(Expected) = Length /\ Length \in Nat
  BY TheTranscript
<1>2. \A j \in 1 .. Written : Expected[j] \in Lines
  BY <1>1
<1>3. /\ SubSeq(Expected, 1, Written) \in Seq(Lines)
      /\ Len(SubSeq(Expected, 1, Written)) = Written
      /\ \A j \in 1 .. Written : SubSeq(Expected, 1, Written)[j] = Expected[j]
  BY <1>1, <1>2, SubSeqProperties
<1> QED
  BY <1>3 DEF Log

(* A console that stands at Written is a prefix, whole at the end.         *)
LEMMA InvWritesTranscript == ConsoleInv => Transcript
<1> SUFFICES ASSUME ConsoleInv PROVE Transcript
  OBVIOUS
<1>1. /\ Written \in 0 .. Length
      /\ power = "off" \/ pc = "kmonitor" => Written = Length
  BY WrittenBounded DEF ConsoleInv
<1>2. Len(console) = Written /\ console = SubSeq(Expected, 1, Written)
  BY <1>1, ConsoleIs DEF ConsoleInv, Log
<1>3. Expected \in Seq(Lines) /\ Len(Expected) = Length /\ Length \in Nat
  BY TheTranscript
<1>4. SubSeq(console, 1, Len(console)) = console
  BY SubSeqFull DEF ConsoleInv, TypeOK
<1>5. SubSeq(Expected, 1, Length) = Expected
  BY <1>3, SubSeqFull
<1> QED
  BY <1>1, <1>2, <1>3, <1>4, <1>5 DEF Transcript, IsPrefix

(* The reader of the console sees the transcript, in order, and all of it  *)
(* before the machine is off or the monitor is entered: for any number of  *)
(* reports, either build, any contents of .bss and any lateness            *)
(* (init.c:22-36, trap.c:16-22, 115-125).                                  *)
THEOREM TranscriptWritten == Spec => []Transcript
  BY InvWritesTranscript, ConsoleInvariance, PTL

(* The texts of the transcript's lines.                                    *)
LEMMA TextAt ==
  /\ Expected[1][1] = "os is loading" /\ Expected[2][1] = "kerninfo"
  /\ Expected[3][1] = "Exception type: breakpoint" /\ Expected[4][1] = "ebreak caught at"
  /\ Expected[5][1] = "Exception type:Illegal instruction"
  /\ Expected[6][1] = "Illegal instruction caught at"
  /\ Expected[7][1] = "++ setup timer interrupts"
  /\ DebugGrade => /\ Expected[8][1] = "100 ticks" /\ Expected[9][1] = "End of Test."
                   /\ Expected[10][1] = "kernel panic"
  /\ ~DebugGrade => \A i \in 1 .. MaxNum : Expected[7 + i][1] = "100 ticks"
<1>1. ASSUME NEW text PROVE Line(text)[1] = text
  BY DEF Line
<1>2. /\ <<"ebreak caught at", "ebreak", 0>>[1] = "ebreak caught at"
      /\ <<"Illegal instruction caught at", "mret", 0>>[1] = "Illegal instruction caught at"
  OBVIOUS
<1> QED
  BY <1>1, <1>2, TheTranscript, Zenon

(* The reports on the console are those num counts.                        *)
LEMMA ReportsAre ==
  ASSUME ConsoleInv
  PROVE  Reports = IF pc = "memset" THEN 0 ELSE IF pc = "h_print" THEN num - 1 ELSE num
<1> DEFINE places == {j \in DOMAIN console : console[j][1] = "100 ticks"}
<1>1. Written \in 0 .. Length /\ Length \in Nat
  BY WrittenBounded, TheTranscript DEF ConsoleInv
<1>2. /\ DOMAIN console = 1 .. Written
      /\ \A j \in 1 .. Written : console[j] = Expected[j]
  BY <1>1, ConsoleIs DEF ConsoleInv
<1>3. \A j \in 1 .. 7 : Expected[j][1] # "100 ticks"
  <2>1. \A j \in 1 .. 7 : j = 1 \/ j = 2 \/ j = 3 \/ j = 4 \/ j = 5 \/ j = 6 \/ j = 7
    OBVIOUS
  <2> QED
    BY <2>1, TextAt
<1>4. DebugGrade => /\ Length = 10 /\ Expected[8][1] = "100 ticks"
                   /\ Expected[9][1] # "100 ticks" /\ Expected[10][1] # "100 ticks"
  BY TextAt DEF Length
<1>5. ~DebugGrade => \A j \in 8 .. Length : Expected[j][1] = "100 ticks"
  <2> SUFFICES ASSUME ~DebugGrade, NEW j \in 8 .. Length
               PROVE  Expected[j][1] = "100 ticks"
    OBVIOUS
  <2>1. j - 7 \in 1 .. MaxNum /\ 7 + (j - 7) = j
    BY <1>1, KernelAssumption DEF Length
  <2>2. Expected[7 + (j - 7)][1] = "100 ticks"
    BY <2>1, TextAt, Zenon
  <2> QED
    BY <2>1, <2>2
<1>6. Reports = Cardinality(places)
  BY DEF Reports
<1>7. \A j : j \in places <=> j \in 1 .. Written /\ Expected[j][1] = "100 ticks"
  BY <1>2
<1> HIDE DEF places
<1>8. CASE Written < 8
  <2>1. \A j \in 1 .. Written : j \in 1 .. 7
    BY <1>1, <1>8
  <2>2. places = {}
    BY <1>3, <1>7, <2>1, Zenon
  <2>3. Reports = 0
    BY <1>6, <2>2, FS_EmptySet, Zenon
  <2> QED
    BY <1>8, <2>3, WrittenBounded DEF ConsoleInv, TypeOK
<1>9. CASE Written >= 8 /\ DebugGrade
  <2>1. /\ \A j \in 1 .. Written : j \in 1 .. 7 \/ j = 8 \/ j = 9 \/ j = 10
        /\ 8 \in 1 .. Written
    <3>1. Length = 10
      BY <1>4, <1>9
    <3> QED
      BY <1>1, <1>9, <3>1
  <2>2. \A j : j \in places <=> j = 8
    BY <1>3, <1>4, <1>7, <1>9, <2>1, Zenon
  <2>3. places = {8}
    BY <2>2, Zenon
  <2>4. Cardinality({8}) = 1
    BY FS_Singleton, Zenon
  <2> QED
    BY <1>6, <1>9, <2>3, <2>4, WrittenBounded DEF ConsoleInv, TypeOK
<1>10. CASE Written >= 8 /\ ~DebugGrade
  <2>1. \A j : j \in 1 .. Written <=> j \in 1 .. 7 \/ j \in 8 .. Written
    BY <1>1, <1>10
  <2>2. \A j \in 8 .. Written : j \in 8 .. Length
    BY <1>1
  <2>3. places = 8 .. Written
    BY <1>3, <1>5, <1>7, <1>10, <2>1, <2>2, Zenon
  <2>4. Cardinality(8 .. Written) = Written - 7
    BY <1>1, <1>10, FS_Interval
  <2> QED
    BY <1>6, <1>10, <2>3, <2>4, WrittenBounded DEF ConsoleInv, TypeOK
<1> QED
  BY <1>1, <1>8, <1>9, <1>10
-----------------------------------------------------------------------------
(* What TickCounter calls served and reported, in the terms of the kernel. *)
Served == IF pc = "memset" THEN 0 ELSE ticks
Told == IF pc = "memset" THEN 0 ELSE IF pc = "h_print" THEN num - 1 ELSE num

(* What leaves these three alone is a stutter of TickCounter.              *)
LEMMA Stutters ==
  ASSUME UNCHANGED <<Served, Reports, power>>
  PROVE  UNCHANGED TC!tcvars
  BY DEF Served, TC!tcvars

(* The same in the terms of TickCounter.                                   *)
LEMMA ReportedIsTold == ConsoleInv => Reports = Told
  BY ReportsAre DEF Told

(* Every step of the kernel is one of TickCounter or a stutter.            *)
LEMMA TickCounterStep ==
  ConsoleInv /\ ConsoleInv' /\ [Next]_vars => [TC!Next]_(TC!tcvars)
<1> SUFFICES ASSUME ConsoleInv, ConsoleInv', [Next]_vars
             PROVE  [TC!Next]_(TC!tcvars)
  OBVIOUS
<1>1. ConsoleInv' => (Reports = Told)'
  BY ReportedIsTold, PTL
<1>2. Reports = Told /\ Reports' = Told'
  BY <1>1, ReportedIsTold
<1>3. TypeOK /\ Control /\ Clock /\ Counts /\ Dues
  BY DEF ConsoleInv
<1>4. \/ UNCHANGED <<Served, Told, power>>
      \/ TimerTick \/ PrintTicks \/ Shutdown
  <2> USE <1>3 DEF Step, data, Served, Told
  <2>1. CASE Memset
    BY <2>1 DEF Memset
  <2>2. CASE Banner \/ Kerninfo \/ Setup
    BY <2>2 DEF Banner, Kerninfo, Setup, PrintLine, PrintAddr
  <2>3. CASE IdtInit \/ SetStie \/ Rdtime \/ IntrEnable
    BY <2>3 DEF IdtInit, SetStie, Rdtime, IntrEnable
  <2>4. CASE Ebreak \/ Mret
    BY <2>4 DEF Ebreak, Mret, TakeTrap, Control, TypeOK, BeforeVector
  <2>5. CASE SetTimer \/ TimerSet
    BY <2>5 DEF SetTimer, TimerSet, SbiSetTimer, SbiSetTimerTo
  <2>6. CASE ZeroTicks
    BY <2>6, Origins DEF ZeroTicks, Clock
  <2>7. CASE Interrupt
    BY <2>7 DEF Interrupt, Interrupted, TakeTrap, Control, TypeOK, BeforeVector
  <2>8. CASE SaveAll \/ Dispatch \/ TimerRdtime \/ TestNum \/ RestoreAll
    BY <2>8 DEF SaveAll, Dispatch, TimerRdtime, TestNum, RestoreAll
  <2>9. CASE Breakpoint \/ Illegal
    BY <2>9 DEF Breakpoint, Illegal, PrintLine, PrintAddr, SkipInstruction
  <2>10. CASE TimerTest
    BY <2>10 DEF TimerTest, TypeOK
  <2>11. CASE EndOfTest
    BY <2>11 DEF EndOfTest, PrintLine, PrintAddr
  <2>12. CASE Sret
    BY <2>12, Origins DEF Sret, Resume, ResumesAt, EbreakAt, MretAt, LoopAt
  <2>13. CASE PassTime
    BY <2>13 DEF PassTime
  <2>14. CASE UNCHANGED vars
    BY <2>14 DEF vars
  <2> QED
    BY <2>1, <2>2, <2>3, <2>4, <2>5, <2>6, <2>7, <2>8, <2>9, <2>10, <2>11, <2>12, <2>13, <2>14 DEF Next, Hart, Boot, Trap, Idle
<1>5. CASE UNCHANGED <<Served, Told, power>>
  <2>1. UNCHANGED <<Served, Reports, power>>
    BY <1>2, <1>5
  <2> QED
    BY <2>1, Stutters
<1>6. CASE TimerTick
  <2>1. /\ pc = "h_tick" /\ pc' = "h_test" /\ power = "on" /\ power' = power
        /\ ticks' = ticks + 1 /\ num' = num
    BY <1>6 DEF TimerTick, Step
  <2>2. ticks \div TickNum = num /\ num < MaxNum
    BY <1>3, <2>1 DEF Dues, Counts, Reporting, AfterPrint
  <2>3. Reports = num /\ Reports' = num
    BY <1>2, <2>1 DEF Told
  <2>4. TC!Serve
    BY <2>1, <2>2, <2>3 DEF TC!Serve, TC!Due
  <2> QED
    BY <2>4 DEF TC!Next
<1>7. CASE PrintTicks
  <2>1. /\ pc = "h_print" /\ pc' \in {"h_eot", "h_num"} /\ power = "on" /\ power' = power
        /\ ticks' = ticks /\ num' = num /\ num \in Nat
    BY <1>3, <1>7 DEF PrintTicks, PrintLine, PrintAddr, Step, data, TypeOK
  <2>2. ticks \div TickNum = num
    BY <1>3, <2>1 DEF Dues
  <2>3. Reports = num - 1 /\ Reports' = num
    BY <1>2, <2>1 DEF Told
  <2>4. TC!Report
    BY <2>1, <2>2, <2>3 DEF TC!Report, TC!Due
  <2> QED
    BY <2>4 DEF TC!Next
<1>8. CASE Shutdown
  <2>1. /\ pc = "shutdown" /\ pc' = "shutdown" /\ power = "on" /\ power' = "off"
        /\ ticks' = ticks /\ num' = num
    BY <1>8 DEF Shutdown, Step, data
  <2>2. num = MaxNum
    BY <1>3, <2>1 DEF Counts
  <2>3. Reports = num /\ Reports' = num
    BY <1>2, <2>1 DEF Told
  <2>4. TC!Off
    BY <2>1, <2>2, <2>3 DEF TC!Off
  <2> QED
    BY <2>4 DEF TC!Next
<1> QED
  BY <1>4, <1>5, <1>6, <1>7, <1>8

(* Every TickNum served interrupts one report, the machine off right after *)
(* report MaxNum: the kernel implements TickCounter whatever TickNum,      *)
(* MaxNum, the build and the lateness are (trap.c:115-125).                *)
THEOREM ImplementsTickCounter == Spec => TickCounterSpec
<1>1. Init => TC!Init
  <2> SUFFICES ASSUME Init PROVE TC!Init
    OBVIOUS
  <2>1. Reports = 0
    BY ConsoleInitially, ReportsAre DEF Init
  <2> QED
    BY <2>1 DEF Init, TC!Init
<1> QED
  BY <1>1, TickCounterStep, ConsoleInvariance, PTL DEF Spec, TickCounterSpec, TC!Spec
=============================================================================
