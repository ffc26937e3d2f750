---------------------------- MODULE TrapDispatch ----------------------------
(***************************************************************************)
(* The two sides of a trap that TrapEntry leaves open.  Inside it: trap(), *)
(* trap_dispatch and both handlers of kern/trap/trap.c for every value of  *)
(* scause, and what they print, the frame itself for a cause they do not   *)
(* know.  Outside it: the inline assembly of sbi_call (libs/sbi.c), which  *)
(* works on registers the compiler is not told of, as the code that is     *)
(* interrupted.                                                            *)
(*                                                                         *)
(* SbiCodeTypeLast, PushregsSavedTogether, PrintAndSkipBadvaddr and        *)
(* TrapDispatchMasked are wrong on purpose: put in the place of the        *)
(* definition that follows each, a property of this module fails.          *)
(***************************************************************************)
EXTENDS TrapEntry, FiniteSets

CONSTANTS
    IntBit,     \* the top bit of a word
    UIntRange,  \* one more than the largest unsigned int
    Recursive,  \* bound: the causes raised inside trap() too
    Stale,      \* bound: the causes raised in the program while the frame of
                \* a trap that is over still lies below its stack,
    StaleAt     \* and the places of the program at which they are

ASSUME DispatchAssumption ==
    /\ IntBit \in Nat /\ IntBit > 11 /\ UIntRange \in Nat \ {0} /\ UIntRange <= IntBit
    /\ Recursive \subseteq Causes /\ Causes \subseteq 0 .. 2 * IntBit - 1
    /\ {0, 2, 4} \subseteq Advances /\ Stale \subseteq Causes /\ StaleAt \subseteq Nat

VARIABLES
    shown,      \* what the last step printed, a label and its value each
    call        \* the call of the firmware in hand, or NoCall

tdvars == <<vars, shown, call>>
-----------------------------------------------------------------------------
(* The firmware's calls.  An operand of the asm statement sits in the      *)
(* register the compiler has chosen for it: in the build of the repository *)
(* (obj/kernel.asm) sbi_call is inlined, and the arguments that are 0      *)
(* share a register; out of line its operands come in the registers of the *)
(* C ABI.                                                                  *)
CallNumber == [SET_TIMER |-> 0, CONSOLE_PUTCHAR |-> 1, CONSOLE_GETCHAR |-> 2,
               CLEAR_IPI |-> 3, SEND_IPI |-> 4, REMOTE_FENCE_I |-> 5,
               REMOTE_SFENCE_VMA |-> 6, REMOTE_SFENCE_VMA_ASID |-> 7, SHUTDOWN |-> 8]
OutOfLine == [sbi_type |-> 10, arg0 |-> 11, arg1 |-> 12, arg2 |-> 13, ret_val |-> 10]
NoCall == [type |-> -1, arg0 |-> 0, operand |-> OutOfLine]

(* The wrappers: all of them pass 0 for arg1 and arg2.  cons_putc's (and   *)
(* set_timer's) argument stands for any.                                   *)
Wrapped(type) == IF type \in {"SET_TIMER", "CONSOLE_PUTCHAR"} THEN 900 ELSE 0
Inlined(type) == [sbi_type |-> 14, arg0 |-> IF Wrapped(type) = 0 THEN 15 ELSE 10,
                  arg1 |-> 15, arg2 |-> 15, ret_val |-> 15]

CallSbi ==
    /\ pc = 1000 /\ pc' = 1101
    /\ \E type \in {"SET_TIMER", "CONSOLE_PUTCHAR", "CONSOLE_GETCHAR", "SHUTDOWN"} :
       \E operand \in {Inlined(type), OutOfLine} :
         /\ call' = [type |-> CallNumber[type], arg0 |-> Wrapped(type), operand |-> operand]
         /\ x' = [x EXCEPT ![operand.arg1] = 0, ![operand.arg2] = 0, ![operand.arg0] = Wrapped(type),
                           ![operand.sbi_type] = CallNumber[type]]
    /\ UNCHANGED <<csr, mem, ctx>>

(* The moves before ecall: the register written and the operand read.      *)
SbiCodeTypeLast ==
    << <<10, "arg0">>, <<11, "arg1">>, <<12, "arg2">>, <<17, "sbi_type">> >>
SbiCode ==
    << <<17, "sbi_type">>, <<10, "arg0">>, <<11, "arg1">>, <<12, "arg2">> >>

SbiMove ==
    /\ pc \in 1101 .. 1104 /\ pc' = pc + 1
    /\ LET mv == SbiCode[pc - 1100] IN x' = [x EXCEPT ![mv[1]] = x[call.operand[mv[2]]]]
    /\ UNCHANGED <<csr, mem, ctx, call>>

(* The firmware answers in a0 and keeps every other register.              *)
Answer(type) == 600 + type
Ecall ==
    /\ pc = 1105 /\ pc' = 1106
    /\ x' = [x EXCEPT ![a0] = Answer(x[17])]
    /\ UNCHANGED <<csr, mem, ctx, call>>

SbiResult ==
    /\ pc = 1106 /\ pc' = 1107
    /\ x' = [x EXCEPT ![call.operand.ret_val] = x[a0]]
    /\ UNCHANGED <<csr, mem, ctx, call>>

(* The program goes on, and comes back to the place that traps: with junk  *)
(* in the registers it has to save itself, and its stack frames where the  *)
(* trap's have been.                                                       *)
Reused == [a \in DOMAIN mem |-> IF a < x[sp] THEN 0 ELSE mem[a]]
Return ==
    /\ pc \in {1107} \cup 1000 .. 1004 /\ pc' = 1000
    /\ x' = Clobbered(x) /\ mem' = Reused /\ call' = NoCall
    /\ UNCHANGED <<csr, ctx>>
-----------------------------------------------------------------------------
(* An interrupt may come at any instruction; the program traps on purpose  *)
(* at one of its own.                                                      *)
IsInterrupt(cause) == cause >= IntBit
Trapped(cause) ==
    /\ IF pc \in Program
       THEN /\ pc = 1000 \/ IsInterrupt(cause)
            /\ mem = Reused \/ (cause \in Stale /\ pc \in StaleAt)
       ELSE cause \in Recursive
    /\ TakeTrap(cause)

(* struct pushregs, in the order of its fields; a number follows the names *)
(* that are numbered.                                                      *)
Run(name, first, last) == [i \in 1 .. last - first + 1 |-> <<name, first + i - 1>>]
One(name) == Run(name, 0, 0)
PushregsSavedTogether ==
    One("zero") \o One("ra") \o One("sp") \o One("gp") \o One("tp")
    \o Run("t", 0, 2) \o Run("s", 0, 11) \o Run("a", 0, 7) \o Run("t", 3, 6)
Pushregs ==
    One("zero") \o One("ra") \o One("sp") \o One("gp") \o One("tp")
    \o Run("t", 0, 2) \o Run("s", 0, 1) \o Run("a", 0, 7) \o Run("s", 2, 11) \o Run("t", 3, 6)

(* %08x takes an unsigned int off the argument list, %p a long one.        *)
Low(word) == word % UIntRange
print_regs == [i \in 1 .. 32 |-> <<Pushregs[i], Low(mem[tf + i - 1])>>]
print_trapframe ==
    << <<"trapframe at", tf>> >> \o print_regs
    \o << <<"status", Low(mem[tf + 32])>>, <<"epc", Low(mem[tf + 33])>>,
          <<"badvaddr", Low(mem[tf + 34])>>, <<"cause", Low(mem[tf + 35])>> >>

tfCause == mem[tf + 35]

(* interrupt_handler drops the top bit and names the interrupt by its      *)
(* privilege, whatever its kind; the timer's part is Kernel's.             *)
IRQ == 0 .. 11      \* IRQ_U_SOFT .. IRQ_M_EXT, by kind and then by privilege
IRQ_S_TIMER == 5
IRQ_S_EXT == 9
PrivilegeText == <<"User software interrupt", "Supervisor software interrupt",
                   "Hypervisor software interrupt", "Machine software interrupt">>
InterruptHandler ==
    LET code == tfCause % IntBit IN
    /\ Handle(0)
    /\ shown' = IF code = IRQ_S_TIMER THEN <<>>
                ELSE IF code = IRQ_S_EXT THEN << <<"Supervisor external interrupt", 0>> >>
                ELSE IF code \in IRQ THEN << <<PrivilegeText[(code % 4) + 1], 0>> >>
                ELSE print_trapframe

CAUSE == 0 .. 11    \* CAUSE_MISALIGNED_FETCH .. CAUSE_MACHINE_ECALL
CAUSE_ILLEGAL_INSTRUCTION == 2
CAUSE_BREAKPOINT == 3
PrintAndSkipBadvaddr(bytes, text, at) ==
    /\ pc \in TrapBody /\ pc' = 2010
    /\ mem' = [mem EXCEPT ![tf + 34] = @ + bytes]
    /\ ctx' = [ctx EXCEPT ![Len(ctx)].advance = bytes]
    /\ shown' = << <<text, 0>>, <<at, Low(mem[tf + 33])>> >>
    /\ UNCHANGED <<x, csr>>
PrintAndSkip(bytes, text, at) ==
    Handle(bytes) /\ shown' = << <<text, 0>>, <<at, Low(mem[tf + 33])>> >>

(* The other causes that have a case break: nothing is said and the        *)
(* instruction is tried again.                                             *)
ExceptionHandler(cause) ==
    \/ /\ cause = CAUSE_ILLEGAL_INSTRUCTION
       /\ PrintAndSkip(4, "Exception type:Illegal instruction", "Illegal instruction caught at")
    \/ /\ cause = CAUSE_BREAKPOINT
       /\ PrintAndSkip(2, "Exception type: breakpoint", "ebreak caught at")
    \/ /\ cause \in CAUSE \ {CAUSE_ILLEGAL_INSTRUCTION, CAUSE_BREAKPOINT}
       /\ Handle(0) /\ shown' = <<>>
    \/ /\ cause \notin CAUSE
       /\ Handle(0) /\ shown' = print_trapframe

TrapDispatchMasked == ExceptionHandler(tfCause % IntBit)
trap_dispatch ==
    IF IsInterrupt(tfCause) THEN InterruptHandler ELSE ExceptionHandler(tfCause)
-----------------------------------------------------------------------------
TDInit == Init /\ shown = <<>> /\ call = NoCall

Silently(Action) == Action /\ shown' = <<>>
TDNext ==
    \/ pc \in TrapBody /\ trap_dispatch /\ UNCHANGED call
    \/ Silently(CallSbi \/ SbiMove \/ Ecall \/ SbiResult \/ Return)
    \/ \E cause \in Causes : Silently(Trapped(cause)) /\ UNCHANGED call
    \/ Silently(Instruction \/ EnterTrap \/ LeaveTrap) /\ UNCHANGED call

TDSpec == TDInit /\ [][TDNext]_tdvars
-----------------------------------------------------------------------------
(* The code of trap.c does to the machine what TrapEntry lets trap() do,   *)
(* and sbi_call what it lets the program do: epc of the frame it was given *)
(* is all that a handler changes of the interrupted state (trap.c:151-199).*)
ImplementsTrapEntry == Spec

(* Where a trap resumes is decided by its cause alone, with interrupts and *)
(* exceptions of the same number told apart: an interrupt and every fault  *)
(* that only breaks resume at the instruction they came at, which the      *)
(* fault then meets again; the two that are reported go on behind it       *)
(* (trap.c:152-210).                                                       *)
ResumesByCause ==
    [][ At("sret") =>
          LET c == Last(ctx) IN
            pc' = c.pc + (IF c.cause = 2 THEN 4 ELSE IF c.cause = 3 THEN 2 ELSE 0) ]_tdvars

(* The registers by their names in the calling convention.                 *)
AbiRegister(name) ==
    LET k == name[2] IN
      CASE name[1] = "zero" -> 0 [] name[1] = "ra" -> 1 [] name[1] = "sp" -> 2
        [] name[1] = "gp" -> 3 [] name[1] = "tp" -> 4
        [] name[1] = "t" -> IF k < 3 THEN 5 + k ELSE 25 + k
        [] name[1] = "s" -> IF k < 2 THEN 8 + k ELSE 16 + k
        [] name[1] = "a" -> 10 + k

(* What is printed of a trap is the interrupted state as far as an         *)
(* unsigned int shows it: every register under its own name, the address   *)
(* of the instruction that trapped and not of the next, the CSRs of this   *)
(* trap and of no other (trap.c:41-83, 165, 176, trap.h:6-47).             *)
ShowsInterruptedState ==
    [][ LET c == Last(ctx) IN
        /\ Len(shown') = 2 => shown'[2][2] = Low(c.pc)
        /\ Len(shown') > 2 =>
             /\ \A i \in 2 .. 33 : shown'[i][2] = Low(c.x[AbiRegister(shown'[i][1])])
             /\ Cardinality({shown'[i][1] : i \in 2 .. 33}) = 32
             /\ [i \in 1 .. 4 |-> shown'[33 + i][2]] =
                  << Low(Stacked(c.status)), Low(c.pc), Low(5000 + Len(ctx) - 1), Low(c.cause) >> ]_tdvars

(* The firmware gets the call that was made and the caller gets its        *)
(* answer, with traps taken between any two moves, although the asm writes *)
(* registers that may hold operands still to be moved (sbi.c:15-29).       *)
SbiCallsFaithful ==
    /\ pc = 1105 => /\ x[17] = call.type /\ x[10] = call.arg0
                    /\ x[11] = 0 /\ x[12] = 0
    /\ pc = 1107 => x[call.operand.ret_val] = Answer(call.type)
=============================================================================
