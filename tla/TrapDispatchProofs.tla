------------------------- MODULE TrapDispatchProofs -------------------------
(***************************************************************************)
(* What the handlers of trap.c and the calls of sbi.c do, for every cause, *)
(* every depth of traps and every place a trap may come at.  TDInv adds to *)
(* TrapEntryProofs' Inv what those two sides need: the frame of each trap  *)
(* in hand tells its own cause (Noted), a handler that is done has settled *)
(* the advance of its own trap (Settled), and a call of the firmware that  *)
(* a trap interrupts waits, with its operands, in the outermost state to   *)
(* come back to (InCall).  Every step is a step of TrapEntry, so that Inv  *)
(* is kept for nothing.                                                    *)
(***************************************************************************)
EXTENDS TrapDispatch, TrapEntryProofs, FiniteSetTheorems

(* What a handler adds to epc, by the cause.                               *)
AdvanceOf(cause) ==
    IF cause = CAUSE_ILLEGAL_INSTRUCTION THEN 4
    ELSE IF cause = CAUSE_BREAKPOINT THEN 2 ELSE 0

(* The frame of the k-th trap in hand holds the CSRs that tell what it is, *)
(* and its handler has come to its end.                                    *)
Noted(k) == mem[FrameAt(k) + 34] = 5000 + k - 1 /\ mem[FrameAt(k) + 35] = ctx[k].cause
Settled(k) == ctx[k].advance = AdvanceOf(ctx[k].cause)

Caused == \A k \in 1 .. Len(ctx) : ctx[k].cause \in Causes
Outside ==
    \A k \in 1 .. Len(ctx) - 1 : Noted(k) /\ (ctx[k + 1].pc = 2010 => Settled(k))
Inside ==
    /\ pc \in TrapBody \cup Handled => Noted(Len(ctx))
    /\ pc \in Handled \cup 46 .. 81 => Settled(Len(ctx))

(* A call of the firmware at place p of sbi_call, with its registers: the  *)
(* operands that have been moved are where the firmware takes them, the    *)
(* others still where the compiler put them.                               *)
Operands(c) ==
    /\ c.type \in Int /\ c.arg0 \in Int
    /\ c.operand.sbi_type \in {10, 14} /\ c.operand.arg0 \in {10, 11, 15}
    /\ c.operand.arg1 \in {12, 15} /\ c.operand.arg2 \in {13, 15}
    /\ c.operand.ret_val \in {10, 15}
CallAt(p, regs) ==
    /\ p \in 1101 .. 1107 => Operands(call)
    /\ p \in 1101 .. 1105 =>
         /\ regs[IF p > 1101 THEN 17 ELSE call.operand.sbi_type] = call.type
         /\ regs[IF p > 1102 THEN 10 ELSE call.operand.arg0] = call.arg0
         /\ regs[IF p > 1103 THEN 11 ELSE call.operand.arg1] = 0
         /\ regs[IF p > 1104 THEN 12 ELSE call.operand.arg2] = 0
    /\ p = 1106 => regs[10] = Answer(call.type)
    /\ p = 1107 => regs[call.operand.ret_val] = Answer(call.type)
InCall ==
    /\ ctx = <<>> => CallAt(pc, x)
    /\ ctx # <<>> => CallAt(ctx[1].pc, ctx[1].x)

TDInv == Inv /\ Caused /\ Outside /\ Inside /\ InCall
-----------------------------------------------------------------------------
(* What the handlers add is among what TrapEntry lets them add.            *)
LEMMA AdvanceIn == \A cause : AdvanceOf(cause) \in Advances
  BY DispatchAssumption DEF AdvanceOf

(* Moves between registers that the caller saves.                          *)
LEMMA RegisterWritten ==
  ASSUME XOK, NEW r \in 10 .. 17, NEW v \in Int, x' = [x EXCEPT ![r] = v]
  PROVE  XOK' /\ x'[sp] = x[sp] /\ x'[r] = v /\ \A q \in Regs : q # r => x'[q] = x[q]
<1>1. r \in Regs /\ r # 0 /\ r # 2
  BY DEF Regs
<1>2. x \in [Regs -> Int] /\ x[0] = 0
  BY DEF XOK
<1>3. 0 \in Regs /\ 2 \in Regs
  BY DEF Regs
<1> QED
  BY <1>1, <1>2, <1>3 DEF XOK, sp

(* What the program may do, of which RunProgram is the most.               *)
LEMMA ProgramRuns ==
  ASSUME XOK', x'[sp] = x[sp], MemOK, mem' = mem, pc \in Program, pc' \in Program,
         csr' = csr, ctx' = ctx
  PROVE  RunProgram
  BY DEF RunProgram, XOK, MemOK

(* A call starts with every operand in the register the compiler chose,    *)
LEMMA CallSbiIs ==
  ASSUME XOK, MemOK, CallSbi
  PROVE  RunProgram /\ CallAt(pc, x)' /\ ctx' = ctx
<1>1. pc = 1000 /\ pc' = 1101 /\ csr' = csr /\ mem' = mem /\ ctx' = ctx
  BY DEF CallSbi
<1> DEFINE Chosen(type, operand) ==
             /\ call' = [type |-> CallNumber[type], arg0 |-> Wrapped(type), operand |-> operand]
             /\ x' = [x EXCEPT ![operand.arg1] = 0, ![operand.arg2] = 0, ![operand.arg0] = Wrapped(type),
                               ![operand.sbi_type] = CallNumber[type]]
<1>0. PICK type \in {"SET_TIMER", "CONSOLE_PUTCHAR", "CONSOLE_GETCHAR", "SHUTDOWN"} :
        \E operand \in {Inlined(type), OutOfLine} : Chosen(type, operand)
  BY DEF CallSbi
<1>2. PICK operand \in {Inlined(type), OutOfLine} : Chosen(type, operand)
  BY <1>0
<1>3. /\ operand.sbi_type \in {10, 14} /\ operand.arg0 \in {10, 11, 15}
      /\ operand.arg1 \in {12, 15} /\ operand.arg2 \in {13, 15}
      /\ operand.ret_val \in {10, 15} /\ operand.arg0 # operand.sbi_type
      /\ operand.arg0 = 15 => Wrapped(type) = 0
  BY <1>2 DEF Inlined, OutOfLine
<1>4. PICK n \in Int, v \in Int : n = CallNumber[type] /\ v = Wrapped(type)
  BY DEF CallNumber, Wrapped
<1>5. PICK o : o = operand
  OBVIOUS
<1>6. PICK t \in {10, 14}, b0 \in {10, 11, 15}, b1 \in {12, 15}, b2 \in {13, 15} :
        /\ t = o.sbi_type /\ b0 = o.arg0 /\ b1 = o.arg1 /\ b2 = o.arg2
        /\ b0 # t /\ (b0 = 15 => v = 0)
  BY <1>3, <1>4, <1>5
<1>7. x' = [x EXCEPT ![b1] = 0, ![b2] = 0, ![b0] = v, ![t] = n]
  BY <1>2, <1>4, <1>5, <1>6, Zenon
<1>8. /\ XOK' /\ x'[2] = x[2]
      /\ x'[t] = n /\ x'[b0] = v /\ x'[b1] = 0 /\ x'[b2] = 0
  <2>1. x \in [Regs -> Int] /\ x[0] = 0
    BY DEF XOK
  <2>2. 0 \in Regs /\ 2 \in Regs /\ \A r \in 10 .. 15 : r \in Regs /\ r # 0 /\ r # 2
    BY DEF Regs
  <2> QED
    BY <1>6, <1>7, <2>1, <2>2 DEF XOK
<1>9. call'.type = n /\ call'.arg0 = v /\ call'.operand = o
  BY <1>2, <1>4, <1>5
<1>10. Operands(call)'
  BY <1>3, <1>5, <1>9 DEF Operands
<1>11. CallAt(pc, x)'
  BY <1>1, <1>6, <1>8, <1>9, <1>10 DEF CallAt
<1>12. pc \in Program /\ pc' \in Program
  BY <1>1 DEF Program
<1> QED
  BY <1>1, <1>8, <1>11, <1>12, ProgramRuns DEF sp

(* each move writes one register from the operand it names,                *)
LEMMA SbiMoveIs ==
  ASSUME SbiMove
  PROVE  /\ pc \in 1101 .. 1104 /\ pc' = pc + 1 /\ UNCHANGED <<csr, mem, ctx, call>>
         /\ pc = 1101 => x' = [x EXCEPT ![17] = x[call.operand.sbi_type]]
         /\ pc = 1102 => x' = [x EXCEPT ![10] = x[call.operand.arg0]]
         /\ pc = 1103 => x' = [x EXCEPT ![11] = x[call.operand.arg1]]
         /\ pc = 1104 => x' = [x EXCEPT ![12] = x[call.operand.arg2]]
<1> DEFINE Writes(mv) == x' = [x EXCEPT ![mv[1]] = x[call.operand[mv[2]]]]
<1>1. pc \in 1101 .. 1104 /\ pc' = pc + 1 /\ UNCHANGED <<csr, mem, ctx, call>>
  BY DEF SbiMove
<1>0. x' = [x EXCEPT ![SbiCode[pc - 1100][1]] = x[call.operand[SbiCode[pc - 1100][2]]]]
  BY Zenon DEF SbiMove
<1>2. PICK mv : mv = SbiCode[pc - 1100] /\ Writes(mv)
  <2>1. Writes(SbiCode[pc - 1100])
    BY <1>0, Zenon
  <2> HIDE DEF Writes
  <2> QED
    BY <2>1
<1>3. ASSUME NEW r, NEW q, mv = <<r, q>>
      PROVE  x' = [x EXCEPT ![r] = x[call.operand[q]]]
  <2>1. mv[1] = r /\ mv[2] = q
    BY <1>3
  <2>2. Writes(mv)
    BY <1>2
  <2>3. x' = [x EXCEPT ![mv[1]] = x[call.operand[mv[2]]]]
    BY <2>2, Zenon
  <2> QED
    BY <2>1, <2>3, Zenon
<1>4. /\ pc = 1101 => mv = <<17, "sbi_type">>
      /\ pc = 1102 => mv = <<10, "arg0">>
      /\ pc = 1103 => mv = <<11, "arg1">>
      /\ pc = 1104 => mv = <<12, "arg2">>
  <2>1. /\ SbiCode[1] = <<17, "sbi_type">> /\ SbiCode[2] = <<10, "arg0">>
        /\ SbiCode[3] = <<11, "arg1">> /\ SbiCode[4] = <<12, "arg2">>
    BY DEF SbiCode
  <2>2. /\ pc = 1101 => pc - 1100 = 1
        /\ pc = 1102 => pc - 1100 = 2
        /\ pc = 1103 => pc - 1100 = 3
        /\ pc = 1104 => pc - 1100 = 4
    OBVIOUS
  <2> QED
    BY <1>2, <2>1, <2>2
<1>5. pc = 1101 => x' = [x EXCEPT ![17] = x[call.operand["sbi_type"]]]
  BY <1>3, <1>4
<1>6. pc = 1102 => x' = [x EXCEPT ![10] = x[call.operand["arg0"]]]
  BY <1>3, <1>4
<1>7. pc = 1103 => x' = [x EXCEPT ![11] = x[call.operand["arg1"]]]
  BY <1>3, <1>4
<1>8. pc = 1104 => x' = [x EXCEPT ![12] = x[call.operand["arg2"]]]
  BY <1>3, <1>4
<1> QED
  BY <1>1, <1>5, <1>6, <1>7, <1>8

(* no move writes over an operand that is still to be moved,               *)
LEMMA MovesKeepCalls ==
  ASSUME XOK, MemOK, CallAt(pc, x), SbiMove
  PROVE  RunProgram /\ CallAt(pc, x)' /\ ctx' = ctx
<1>1. /\ pc \in 1101 .. 1104 /\ pc' = pc + 1 /\ csr' = csr /\ mem' = mem /\ ctx' = ctx /\ call' = call
      /\ pc = 1101 => x' = [x EXCEPT ![17] = x[call.operand.sbi_type]]
      /\ pc = 1102 => x' = [x EXCEPT ![10] = x[call.operand.arg0]]
      /\ pc = 1103 => x' = [x EXCEPT ![11] = x[call.operand.arg1]]
      /\ pc = 1104 => x' = [x EXCEPT ![12] = x[call.operand.arg2]]
  BY SbiMoveIs
<1>2. Operands(call)
  BY <1>1 DEF CallAt
<1>3. PICK t \in {10, 14}, b0 \in {10, 11, 15}, b1 \in {12, 15}, b2 \in {13, 15} :
        /\ t = call.operand.sbi_type /\ b0 = call.operand.arg0
        /\ b1 = call.operand.arg1 /\ b2 = call.operand.arg2
  BY <1>2 DEF Operands
<1>4. PICK n \in Int, v \in Int : n = call.type /\ v = call.arg0
  BY <1>2 DEF Operands
<1>5. /\ x[IF pc > 1101 THEN 17 ELSE t] = n /\ x[IF pc > 1102 THEN 10 ELSE b0] = v
      /\ x[IF pc > 1103 THEN 11 ELSE b1] = 0 /\ x[IF pc > 1104 THEN 12 ELSE b2] = 0
  BY <1>1, <1>3, <1>4 DEF CallAt
<1>6. \A q \in 10 .. 17 : q \in Regs /\ x[q] \in Int
  BY DEF XOK, Regs
<1> DEFINE Kept == /\ XOK' /\ x'[2] = x[2]
                   /\ x'[IF pc' > 1101 THEN 17 ELSE t] = n /\ x'[IF pc' > 1102 THEN 10 ELSE b0] = v
                   /\ x'[IF pc' > 1103 THEN 11 ELSE b1] = 0 /\ x'[IF pc' > 1104 THEN 12 ELSE b2] = 0
<1>11. Kept
  <2>1. CASE pc = 1101
    <3>1. x' = [x EXCEPT ![17] = n] /\ x[b0] = v /\ x[b1] = 0 /\ x[b2] = 0
      BY <1>1, <1>3, <1>5, <2>1
    <3>2. 17 \in 10 .. 17 /\ n \in Int
      OBVIOUS
    <3>3. XOK' /\ x'[sp] = x[sp] /\ x'[17] = n /\ \A q \in Regs : q # 17 => x'[q] = x[q]
      BY <3>1, <3>2, RegisterWritten
    <3>4. x'[2] = x[2] /\ pc' = 1102
      BY <1>1, <2>1, <3>3 DEF sp
    <3> QED
      BY <1>6, <2>1, <3>1, <3>3, <3>4
  <2>2. CASE pc = 1102
    <3>1. x' = [x EXCEPT ![10] = v] /\ x[17] = n /\ x[b1] = 0 /\ x[b2] = 0
      BY <1>1, <1>3, <1>5, <2>2
    <3>2. 10 \in 10 .. 17 /\ v \in Int
      OBVIOUS
    <3>3. XOK' /\ x'[sp] = x[sp] /\ x'[10] = v /\ \A q \in Regs : q # 10 => x'[q] = x[q]
      BY <3>1, <3>2, RegisterWritten
    <3>4. x'[2] = x[2] /\ pc' = 1103
      BY <1>1, <2>2, <3>3 DEF sp
    <3> QED
      BY <1>6, <2>2, <3>1, <3>3, <3>4
  <2>3. CASE pc = 1103
    <3>1. x' = [x EXCEPT ![11] = 0] /\ x[17] = n /\ x[10] = v /\ x[b2] = 0
      BY <1>1, <1>3, <1>5, <2>3
    <3>2. 11 \in 10 .. 17 /\ 0 \in Int
      OBVIOUS
    <3>3. XOK' /\ x'[sp] = x[sp] /\ x'[11] = 0 /\ \A q \in Regs : q # 11 => x'[q] = x[q]
      BY <3>1, <3>2, RegisterWritten
    <3>4. x'[2] = x[2] /\ pc' = 1104
      BY <1>1, <2>3, <3>3 DEF sp
    <3> QED
      BY <1>6, <2>3, <3>1, <3>3, <3>4
  <2>4. CASE pc = 1104
    <3>1. x' = [x EXCEPT ![12] = 0] /\ x[17] = n /\ x[10] = v /\ x[11] = 0
      BY <1>1, <1>3, <1>5, <2>4
    <3>2. 12 \in 10 .. 17 /\ 0 \in Int
      OBVIOUS
    <3>3. XOK' /\ x'[sp] = x[sp] /\ x'[12] = 0 /\ \A q \in Regs : q # 12 => x'[q] = x[q]
      BY <3>1, <3>2, RegisterWritten
    <3>4. x'[2] = x[2] /\ pc' = 1105
      BY <1>1, <2>4, <3>3 DEF sp
    <3> QED
      BY <1>6, <2>4, <3>1, <3>3, <3>4
  <2> QED
    BY <1>1, <2>1, <2>2, <2>3, <2>4
<1>12. CallAt(pc, x)'
  <2>1. pc' \in 1102 .. 1105
    BY <1>1
  <2>2. Operands(call)'
    BY <1>1, <1>2 DEF Operands
  <2> QED
    BY <1>1, <1>3, <1>4, <1>11, <2>1, <2>2 DEF CallAt
<1>13. pc \in Program /\ pc' \in Program
  BY <1>1 DEF Program
<1> QED
  BY <1>1, <1>11, <1>12, <1>13, ProgramRuns DEF sp

(* the firmware answers the call it was given,                             *)
LEMMA EcallIs ==
  ASSUME XOK, MemOK, CallAt(pc, x), Ecall
  PROVE  RunProgram /\ CallAt(pc, x)' /\ ctx' = ctx
<1>1. /\ pc = 1105 /\ pc' = 1106 /\ x' = [x EXCEPT ![10] = Answer(x[17])]
      /\ csr' = csr /\ mem' = mem /\ ctx' = ctx /\ call' = call
  BY DEF Ecall, a0
<1>2. Operands(call) /\ x[17] = call.type /\ call.type \in Int
  BY <1>1 DEF CallAt, Operands
<1>3. Answer(x[17]) \in Int /\ Answer(x[17]) = Answer(call.type)
  BY <1>2 DEF Answer
<1>4. XOK' /\ x'[sp] = x[sp] /\ x'[10] = Answer(call.type)
  <2>1. PICK v \in Int : v = Answer(x[17]) /\ x' = [x EXCEPT ![10] = v]
    BY <1>1, <1>3
  <2>2. 10 \in 10 .. 17
    OBVIOUS
  <2> QED
    BY <1>3, <2>1, <2>2, RegisterWritten
<1>5. CallAt(pc, x)'
  BY <1>1, <1>2, <1>4 DEF CallAt, Operands, Answer
<1>6. pc \in Program /\ pc' \in Program
  BY <1>1 DEF Program
<1> QED
  BY <1>1, <1>4, <1>5, <1>6, ProgramRuns

(* the answer goes to the register of the result,                          *)
LEMMA SbiResultIs ==
  ASSUME XOK, MemOK, CallAt(pc, x), SbiResult
  PROVE  RunProgram /\ CallAt(pc, x)' /\ ctx' = ctx
<1>1. /\ pc = 1106 /\ pc' = 1107 /\ x' = [x EXCEPT ![call.operand.ret_val] = x[10]]
      /\ csr' = csr /\ mem' = mem /\ ctx' = ctx /\ call' = call
  BY DEF SbiResult, a0
<1>2. Operands(call) /\ x[10] = Answer(call.type)
  BY <1>1 DEF CallAt
<1>3. call.operand.ret_val \in 10 .. 17 /\ x[10] \in Int
  BY <1>2 DEF Operands, XOK, Regs
<1>4. XOK' /\ x'[sp] = x[sp] /\ x'[call.operand.ret_val] = x[10]
  <2>1. PICK q \in 10 .. 17, v \in Int :
          q = call.operand.ret_val /\ v = x[10] /\ x' = [x EXCEPT ![q] = v]
    BY <1>1, <1>3
  <2> QED
    BY <2>1, RegisterWritten
<1>5. CallAt(pc, x)'
  BY <1>1, <1>2, <1>4 DEF CallAt, Operands, Answer
<1>6. pc \in Program /\ pc' \in Program
  BY <1>1 DEF Program
<1> QED
  BY <1>1, <1>4, <1>5, <1>6, ProgramRuns

(* and the program goes on without a call in hand.                         *)
LEMMA ReturnIs ==
  ASSUME XOK, MemOK, x[sp] = Words - 4, Return
  PROVE  RunProgram /\ CallAt(pc, x)' /\ ctx' = ctx
<1>1. /\ pc \in Program /\ pc' = 1000 /\ pc' \in Program /\ x' = Clobbered(x) /\ mem' = Reused
      /\ csr' = csr /\ ctx' = ctx
  BY DEF Return, Program
<1>2. XOK' /\ x'[sp] = x[sp]
  BY <1>1 DEF XOK, Clobbered, CallerSaved, Regs, sp
<1>3. mem' = [a \in 0 .. Words - 1 |-> IF a < x[sp] THEN 0 ELSE mem[a]]
  BY <1>1 DEF Reused, MemOK
<1>4. MemOK' /\ \A a \in x[sp] .. Words - 1 : mem'[a] = mem[a]
  BY <1>3, TrapEntryAssumption DEF MemOK
<1> QED
  BY <1>1, <1>2, <1>4 DEF RunProgram, XOK, MemOK, CallAt

-----------------------------------------------------------------------------
(* What a handler prints.                                                  *)
Prints ==
    \/ shown' = <<>>
    \/ \E text : shown' = << <<text, 0>> >>
    \/ \E text, at : shown' = << <<text, 0>>, <<at, Low(mem[tf + 33])>> >>
    \/ shown' = print_trapframe

(* An interrupt leaves epc alone, whatever its number,                     *)
LEMMA InterruptHandlerIs ==
  ASSUME InterruptHandler
  PROVE  Handle(0) /\ Prints
<1>1. Handle(0)
  BY Zenon DEF InterruptHandler
<1>2. CASE tfCause % IntBit = IRQ_S_TIMER
  BY <1>2, Zenon DEF InterruptHandler, Prints
<1>3. CASE tfCause % IntBit # IRQ_S_TIMER /\ tfCause % IntBit = IRQ_S_EXT
  BY <1>3, Zenon DEF InterruptHandler, Prints
<1>4. CASE tfCause % IntBit # IRQ_S_TIMER /\ tfCause % IntBit # IRQ_S_EXT /\ tfCause % IntBit \in IRQ
  BY <1>4, Zenon DEF InterruptHandler, Prints
<1>5. CASE tfCause % IntBit # IRQ_S_TIMER /\ tfCause % IntBit # IRQ_S_EXT /\ tfCause % IntBit \notin IRQ
  BY <1>5, Zenon DEF InterruptHandler, Prints
<1> QED
  BY <1>1, <1>2, <1>3, <1>4, <1>5, Zenon

(* an exception moves it by what its cause says,                           *)
LEMMA ExceptionHandlerIs ==
  ASSUME NEW cause, ExceptionHandler(cause)
  PROVE  Handle(AdvanceOf(cause)) /\ Prints
<1>1. Prints
  BY Zenon DEF ExceptionHandler, PrintAndSkip, Prints
<1>2. \/ cause = CAUSE_ILLEGAL_INSTRUCTION /\ Handle(4)
      \/ cause = CAUSE_BREAKPOINT /\ Handle(2)
      \/ cause \notin {CAUSE_ILLEGAL_INSTRUCTION, CAUSE_BREAKPOINT} /\ Handle(0)
  <2>1. cause \notin CAUSE => cause \notin {CAUSE_ILLEGAL_INSTRUCTION, CAUSE_BREAKPOINT}
    BY DEF CAUSE, CAUSE_ILLEGAL_INSTRUCTION, CAUSE_BREAKPOINT
  <2> QED
    BY <2>1, Zenon DEF ExceptionHandler, PrintAndSkip
<1> QED
  BY <1>1, <1>2 DEF AdvanceOf, CAUSE_ILLEGAL_INSTRUCTION, CAUSE_BREAKPOINT

(* and trap_dispatch, given any cause, does what AdvanceOf says of it.     *)
LEMMA DispatchIs ==
  ASSUME trap_dispatch, tfCause \in Nat
  PROVE  Handle(AdvanceOf(tfCause)) /\ Prints
<1>1. CASE IsInterrupt(tfCause)
  <2>1. AdvanceOf(tfCause) = 0
    BY <1>1, DispatchAssumption
       DEF IsInterrupt, AdvanceOf, CAUSE_ILLEGAL_INSTRUCTION, CAUSE_BREAKPOINT
  <2>2. InterruptHandler
    BY <1>1, Zenon DEF trap_dispatch
  <2> QED
    BY <2>1, <2>2, InterruptHandlerIs
<1>2. CASE ~IsInterrupt(tfCause)
  <2>1. ExceptionHandler(tfCause)
    BY <1>2, Zenon DEF trap_dispatch
  <2> QED
    BY <2>1, ExceptionHandlerIs
<1> QED
  BY <1>1, <1>2

(* What the handler reads of the frame it was given.                       *)
LEMMA HandlerReads ==
  ASSUME TDInv, pc \in TrapBody
  PROVE  \E c, f : /\ c = ctx[Len(ctx)] /\ c \in Contexts /\ f = FrameAt(Len(ctx))
                   /\ Len(ctx) \in 1 .. MaxDepth /\ Frame(c, f) /\ Whole(c, f)
                   /\ c.advance = 0 /\ c.cause \in Causes /\ tf = f
                   /\ mem[f + 34] = 5000 + Len(ctx) - 1 /\ mem[f + 35] = c.cause
<1>1. Inv /\ Caused /\ Inside
  BY DEF TDInv
<1>2. pc \notin Program
  BY PcValues
<1>3. PICK c, f : /\ c = ctx[Len(ctx)] /\ c \in Contexts /\ f = FrameAt(Len(ctx))
                  /\ Len(ctx) \in 1 .. MaxDepth /\ Frame(c, f) /\ Within(c, f)
  BY <1>1, <1>2, InnermostHere
<1>4. InTrap(f) /\ Whole(c, f) /\ Linked(f) /\ c.advance = 0
  BY <1>3 DEF Within
<1>5. tf = f
  BY <1>4 DEF tf, InTrap, Linked, sp
<1>6. c.cause \in Causes
  BY <1>1, <1>3 DEF Caused
<1>7. mem[f + 34] = 5000 + Len(ctx) - 1 /\ mem[f + 35] = c.cause
  BY <1>1, <1>3 DEF Inside, Noted
<1> QED
  BY <1>3, <1>4, <1>5, <1>6, <1>7

(* The cause in the frame is the cause of the trap, so trap() moves epc by *)
(* the cause that was raised.                                              *)
LEMMA Handles ==
  ASSUME TDInv, pc \in TrapBody, trap_dispatch
  PROVE  Prints /\ \E k \in Advances : k = AdvanceOf(ctx[Len(ctx)].cause) /\ Handle(k)
<1>1. PICK c, f : /\ c = ctx[Len(ctx)] /\ f = FrameAt(Len(ctx))
                  /\ c.cause \in Causes /\ tf = f /\ mem[f + 35] = c.cause
  BY HandlerReads
<1>2. tfCause = c.cause /\ tfCause \in Nat
  BY <1>1, TrapEntryAssumption DEF tfCause
<1>3. Handle(AdvanceOf(tfCause)) /\ Prints
  BY <1>2, DispatchIs
<1> QED
  BY <1>1, <1>2, <1>3, AdvanceIn

(* The steps of the program.                                               *)
LEMMA ProgramSteps ==
  ASSUME TDInv, CallSbi \/ SbiMove \/ Ecall \/ SbiResult \/ Return
  PROVE  RunProgram /\ ctx = <<>> /\ ctx' = ctx /\ CallAt(pc, x)'
<1>1. XOK /\ MemOK /\ Here /\ InCall
  BY TypeParts DEF TDInv, Inv
<1>2. pc \in Program
  <2>1. pc \in {1000} \cup 1101 .. 1104 \cup {1105} \cup {1106} \cup {1107} \cup 1000 .. 1004
    BY DEF CallSbi, SbiMove, Ecall, SbiResult, Return
  <2> QED
    BY <2>1 DEF Program
<1>3. ctx = <<>> /\ x[sp] = Words - 4
  BY <1>1, <1>2 DEF Here
<1>4. CallAt(pc, x)
  BY <1>1, <1>3 DEF InCall
<1> QED
  BY <1>1, <1>3, <1>4, CallSbiIs, MovesKeepCalls, EcallIs, SbiResultIs, ReturnIs

(* Every step of this module is one of TrapEntry's.                        *)
LEMMA StepIs ==
  ASSUME TDInv, TDNext
  PROVE  Next
<1>1. CASE pc \in TrapBody /\ trap_dispatch
  BY <1>1, Handles DEF Next
<1>2. CASE CallSbi \/ SbiMove \/ Ecall \/ SbiResult \/ Return
  BY <1>2, ProgramSteps DEF Next
<1>3. CASE \E cause \in Causes : Trapped(cause)
  BY <1>3, Zenon DEF Next, Trapped
<1>4. CASE Instruction \/ EnterTrap \/ LeaveTrap
  BY <1>4 DEF Next
<1> QED
  BY <1>1, <1>2, <1>3, <1>4, Zenon DEF TDNext, Silently

-----------------------------------------------------------------------------
(* The program keeps the invariant: it runs only while no trap is in hand. *)
LEMMA ProgramKeeps ==
  ASSUME TDInv, CallSbi \/ SbiMove \/ Ecall \/ SbiResult \/ Return
  PROVE  (Caused /\ Outside /\ Inside /\ InCall)'
<1>1. RunProgram /\ ctx' = <<>> /\ CallAt(pc, x)'
  BY ProgramSteps
<1>2. pc' \in Program /\ Len(ctx') = 0
  BY <1>1 DEF RunProgram
<1>3. pc' \notin TrapBody \cup Handled \cup 46 .. 81
  BY <1>2, PcValues
<1> QED
  BY <1>1, <1>2, <1>3 DEF Caused, Outside, Inside, InCall

(* A trap, with what it leaves as it was.                                  *)
LEMMA TrapIs ==
  ASSUME CtxOK, NEW cause \in Causes, TakeTrap(cause)
  PROVE  /\ pc \in Program \cup Raising /\ pc' = 1 /\ mem' = mem
         /\ Len(ctx) \in Nat /\ Len(ctx') = Len(ctx) + 1
         /\ \A k \in 1 .. Len(ctx) : ctx'[k] = ctx[k]
         /\ ctx'[Len(ctx) + 1].x = x /\ ctx'[Len(ctx) + 1].pc = pc
         /\ ctx'[Len(ctx) + 1].cause = cause
<1> DEFINE new == [x |-> x, mem |-> mem, pc |-> pc, cause |-> cause,
                   status |-> csr.sstatus, advance |-> 0]
<1>1. pc \in Program \cup Raising /\ ctx' = Append(ctx, new) /\ pc' = 1 /\ mem' = mem
  BY DEF TakeTrap
<1>2. new.x = x /\ new.pc = pc /\ new.cause = cause
  OBVIOUS
<1> HIDE DEF new
<1>3. PICK S : S = Contexts \cup {new}
  OBVIOUS
<1>4. ctx \in Seq(S) /\ new \in S
  <2>1. \A k \in 1 .. Len(ctx) : ctx[k] \in S
    BY <1>3 DEF CtxOK
  <2> QED
    BY <1>3, <2>1 DEF CtxOK
<1>5. /\ Len(ctx') = Len(ctx) + 1 /\ Len(ctx) \in Nat
      /\ \A k \in 1 .. Len(ctx) : ctx'[k] = ctx[k]
      /\ ctx'[Len(ctx) + 1] = new
  BY <1>1, <1>4, AppendProperties
<1> QED
  BY <1>1, <1>2, <1>5

(* A trap keeps it: the call that is interrupted is in the state to come   *)
(* back to, and a handler is interrupted as it was left.                   *)
LEMMA TrapKeeps ==
  ASSUME TDInv, NEW cause \in Causes, TakeTrap(cause), call' = call
  PROVE  (Caused /\ Outside /\ Inside /\ InCall)'
<1> DEFINE d == Len(ctx)
<1>1. CtxOK /\ Here /\ Caused /\ Outside /\ Inside /\ InCall
  BY DEF TDInv, Inv
<1>2. /\ pc \in Program \cup Raising /\ pc' = 1 /\ mem' = mem
      /\ d \in Nat /\ Len(ctx') = d + 1
      /\ \A k \in 1 .. d : ctx'[k] = ctx[k]
      /\ ctx'[d + 1].x = x /\ ctx'[d + 1].pc = pc /\ ctx'[d + 1].cause = cause
  BY <1>1, TrapIs
<1>3. d = 0 <=> ctx = <<>>
  BY <1>1, EmptySeq DEF CtxOK
<1>4. Caused'
  BY <1>1, <1>2 DEF Caused
<1>5. Outside'
  <2> SUFFICES ASSUME NEW k \in 1 .. d
               PROVE  Noted(k)' /\ (ctx'[k + 1].pc = 2010 => Settled(k)')
    BY <1>2 DEF Outside, Noted, Settled, FrameAt
  <2>1. Noted(k) /\ (ctx'[k + 1].pc = 2010 => Settled(k))
    <3>1. CASE k = d
      <4>1. pc \notin Program
        BY <1>1, <1>3, <3>1 DEF Here
      <4>2. pc \in {2001, 2010}
        BY <1>2, <4>1 DEF Raising, Program
      <4>3. Noted(d) /\ (pc = 2010 => Settled(d))
        BY <1>1, <4>2 DEF Inside, TrapBody, Handled
      <4> QED
        BY <1>2, <3>1, <4>3
    <3>2. CASE k # d
      <4>1. k \in 1 .. d - 1 /\ k + 1 \in 1 .. d
        BY <1>2, <3>2
      <4>2. ctx'[k + 1] = ctx[k + 1]
        BY <1>2, <4>1
      <4> QED
        BY <1>1, <4>1, <4>2 DEF Outside
    <3> QED
      BY <3>1, <3>2
  <2>2. ctx'[k] = ctx[k]
    BY <1>2
  <2> QED
    BY <1>2, <2>1, <2>2 DEF Noted, Settled, FrameAt
<1>6. Inside'
  BY <1>2 DEF Inside, TrapBody, Handled
<1>7. InCall'
  <2>1. ctx' # <<>>
    BY <1>2
  <2>2. CASE d = 0
    <3>1. CallAt(pc, x) /\ ctx'[1].pc = pc /\ ctx'[1].x = x
      BY <1>1, <1>2, <1>3, <2>2 DEF InCall
    <3> QED
      BY <2>1, <3>1 DEF InCall, CallAt, Operands
  <2>3. CASE d # 0
    <3>1. CallAt(ctx[1].pc, ctx[1].x) /\ ctx'[1] = ctx[1]
      BY <1>1, <1>2, <1>3, <2>3 DEF InCall
    <3> QED
      BY <2>1, <3>1 DEF InCall, CallAt, Operands
  <2> QED
    BY <2>2, <2>3
<1> QED
  BY <1>4, <1>5, <1>6, <1>7

(* The traps outside are safe from what stays within the innermost one.    *)
LEMMA NotesOutside ==
  ASSUME CtxOK, ctx # <<>>, Aside(FrameAt(Len(ctx)))
  PROVE  \A k \in 1 .. Len(ctx) - 1 : /\ mem'[FrameAt(k) + 34] = mem[FrameAt(k) + 34]
                                      /\ mem'[FrameAt(k) + 35] = mem[FrameAt(k) + 35]
<1>1. Len(ctx) \in 1 .. MaxDepth
  BY Innermost
<1> TAKE k \in 1 .. Len(ctx) - 1
<1>2. Len(ctx) \in Nat /\ k \in 1 .. MaxDepth
  BY <1>1, TrapEntryAssumption
<1>3. FrameAt(Len(ctx)) + 36 <= FrameAt(k) - 2
  BY <1>2, Above
<1>4. /\ FrameAt(k) + 36 <= Words - 4 /\ FrameAt(k) \in Nat
      /\ FrameAt(Len(ctx)) \in Nat
  BY <1>1, <1>2, Room
<1>5. /\ FrameAt(k) + 34 \in FrameAt(Len(ctx)) + 36 .. Words - 1
      /\ FrameAt(k) + 35 \in FrameAt(Len(ctx)) + 36 .. Words - 1
  BY <1>3, <1>4, TrapEntryAssumption
<1> QED
  BY <1>5 DEF Aside

(* What a handler does to the traps in hand.                               *)
LEMMA HandleContexts ==
  ASSUME CtxOK, ctx # <<>>, NEW k \in Advances, Handle(k)
  PROVE  /\ Len(ctx') = Len(ctx) /\ Len(ctx) \in 1 .. MaxDepth
         /\ \A j \in 1 .. Len(ctx) : /\ ctx'[j].x = ctx[j].x /\ ctx'[j].pc = ctx[j].pc
                                     /\ ctx'[j].cause = ctx[j].cause
         /\ ctx'[Len(ctx)].advance = k
         /\ \A j \in 1 .. Len(ctx) - 1 : ctx'[j] = ctx[j]
<1> DEFINE d == Len(ctx)
<1>1. d \in 1 .. MaxDepth /\ d \in 1 .. Len(ctx) /\ d \in Nat
  BY Innermost, TrapEntryAssumption
<1>2. PICK c \in Contexts : c = ctx[d]
  BY <1>1 DEF CtxOK
<1>3. k \in 0 .. 4
  BY TrapEntryAssumption
<1>4. PICK new \in Contexts :
        /\ new = [c EXCEPT !.advance = k]
        /\ new.x = c.x /\ new.mem = c.mem /\ new.pc = c.pc
        /\ new.cause = c.cause /\ new.status = c.status /\ new.advance = k
  BY <1>3, Advanced
<1>5. ctx' = [ctx EXCEPT ![d] = new]
  <2>1. ctx' = [ctx EXCEPT ![d] = [ctx[d] EXCEPT !.advance = k]]
    BY Zenon DEF Handle
  <2> QED
    BY <1>2, <1>4, <2>1, Zenon
<1>6. /\ Len(ctx') = Len(ctx)
      /\ \A j \in 1 .. Len(ctx) : ctx'[j] = IF j = d THEN new ELSE ctx[j]
  BY <1>1, <1>5, ExceptSeq DEF CtxOK
<1>7. /\ ctx'[d] = new /\ ctx[d] = c
      /\ \A j \in 1 .. d : j # d => ctx'[j] = ctx[j]
  BY <1>1, <1>2, <1>6
<1>8. \A j \in 1 .. d : /\ ctx'[j].x = ctx[j].x /\ ctx'[j].pc = ctx[j].pc
                        /\ ctx'[j].cause = ctx[j].cause
  <2> TAKE j \in 1 .. d
  <2>1. CASE j = d
    BY <1>4, <1>7, <2>1
  <2>2. CASE j # d
    BY <1>7, <2>2
  <2> QED
    BY <2>1, <2>2
<1>9. \A j \in 1 .. d - 1 : ctx'[j] = ctx[j]
  BY <1>1, <1>7
<1> QED
  BY <1>1, <1>4, <1>6, <1>7, <1>8, <1>9

(* A handler keeps it: it settles the advance of its own trap.             *)
LEMMA HandlerKeeps ==
  ASSUME TDInv, pc \in TrapBody, trap_dispatch, call' = call
  PROVE  (Caused /\ Outside /\ Inside /\ InCall)'
<1> DEFINE d == Len(ctx)
<1>1. CtxOK /\ Here /\ Caused /\ Outside /\ InCall /\ MemOK /\ XOK
  BY TypeParts DEF TDInv, Inv
<1>2. PICK k \in Advances : k = AdvanceOf(ctx[d].cause) /\ Handle(k)
  BY Handles
<1>3. PICK c, f : /\ c = ctx[d] /\ f = FrameAt(d) /\ d \in 1 .. MaxDepth
                  /\ Frame(c, f) /\ Whole(c, f) /\ c.advance = 0 /\ tf = f
                  /\ mem[f + 34] = 5000 + d - 1 /\ mem[f + 35] = c.cause
  BY HandlerReads
<1>4. ctx # <<>> /\ pc \notin Program
  <2>1. pc \notin Program
    BY PcValues
  <2> QED
    BY <1>1, <2>1 DEF Here
<1>5. /\ Len(ctx') = d
      /\ \A j \in 1 .. d : /\ ctx'[j].x = ctx[j].x /\ ctx'[j].pc = ctx[j].pc
                           /\ ctx'[j].cause = ctx[j].cause
      /\ ctx'[d].advance = k
      /\ \A j \in 1 .. d - 1 : ctx'[j] = ctx[j]
  BY <1>1, <1>2, <1>4, HandleContexts
<1>6. d \in Nat /\ d \in 1 .. d /\ 1 \in 1 .. d
  BY <1>3, TrapEntryAssumption
<1>7. pc' = 2010 /\ mem' = [mem EXCEPT ![f + 33] = mem[f + 33] + k]
  BY <1>2, <1>3 DEF Handle
<1>8. /\ f \in Nat /\ f + 36 <= Words - 4 /\ f + 33 \in 0 .. Words - 1
      /\ f + 34 \in 0 .. Words - 1 /\ f + 35 \in 0 .. Words - 1
  <2>1. f \in Nat /\ f + 36 <= Words - 4 /\ Words \in Nat
    BY <1>3, TrapEntryAssumption DEF Frame
  <2> QED
    BY <2>1
<1>9. /\ mem'[f + 34] = mem[f + 34] /\ mem'[f + 35] = mem[f + 35] /\ Aside(f)
  BY <1>1, <1>7, <1>8, TrapEntryAssumption DEF MemOK, Aside
<1>10. Caused'
  BY <1>1, <1>5 DEF Caused
<1>11. Outside'
  <2> SUFFICES ASSUME NEW j \in 1 .. d - 1
               PROVE  Noted(j)' /\ (ctx'[j + 1].pc = 2010 => Settled(j)')
    BY <1>5 DEF Outside, Noted, Settled, FrameAt
  <2>1. j + 1 \in 1 .. d
    BY <1>6
  <2>2. ctx'[j] = ctx[j] /\ ctx'[j + 1].pc = ctx[j + 1].pc
    BY <1>5, <2>1
  <2>3. Noted(j) /\ (ctx[j + 1].pc = 2010 => Settled(j))
    BY <1>1 DEF Outside
  <2>4. mem'[FrameAt(j) + 34] = mem[FrameAt(j) + 34] /\ mem'[FrameAt(j) + 35] = mem[FrameAt(j) + 35]
    BY <1>1, <1>3, <1>4, <1>9, NotesOutside
  <2> QED
    BY <2>2, <2>3, <2>4 DEF Noted, Settled, FrameAt
<1>12. Inside'
  <2>1. ctx'[d].cause = ctx[d].cause
    BY <1>5, <1>6
  <2> QED
    BY <1>2, <1>3, <1>5, <1>9, <2>1 DEF Inside, Noted, Settled, FrameAt
<1>13. InCall'
  <2>1. ctx' # <<>> /\ ctx'[1].x = ctx[1].x /\ ctx'[1].pc = ctx[1].pc
    BY <1>5, <1>6
  <2>2. CallAt(ctx[1].pc, ctx[1].x)
    BY <1>1, <1>4 DEF InCall
  <2> QED
    BY <2>1, <2>2 DEF InCall, CallAt, Operands
<1> QED
  BY <1>10, <1>11, <1>12, <1>13

(* Where the steps from the first instruction to sret lead.                *)
LEMMA InwardPlaces ==
  ASSUME Inward
  PROVE  \/ EnterTrap
         \/ pc' \in 2 .. 45 \cup {TrapEntryPoint}
         \/ pc \in 46 .. 80 /\ pc' \in 47 .. 81
         \/ LeaveTrap /\ pc \in Handled
<1>1. CASE Csrr \/ Csrrw \/ Addi \/ StoreWord \/ Move
  <2>1. pc \in 2 .. 44 /\ pc' = pc + 1
    BY <1>1, AtStands DEF Csrr, Csrrw, Addi, StoreWord, Move
  <2> QED
    BY <2>1
<1>2. CASE Csrw
  <2>1. pc \in {1, 48, 49} /\ pc' = pc + 1
    BY <1>2, AtStands DEF Csrw
  <2> QED
    BY <2>1
<1>3. CASE LoadWord
  <2>1. pc \in 46 .. 80 /\ pc' = pc + 1
    BY <1>3, AtStands DEF LoadWord
  <2> QED
    BY <2>1
<1>4. CASE Jal
  BY <1>4 DEF Jal
<1> QED
  BY <1>1, <1>2, <1>3, <1>4, Places DEF Inward

(* The instructions of trapentry.S up to sret keep it: they touch no frame *)
(* outside, and the frame is complete where trap() starts.                 *)
LEMMA InwardKeeps ==
  ASSUME TDInv, Inward, call' = call
  PROVE  (Caused /\ Outside /\ Inside /\ InCall)'
<1> DEFINE d == Len(ctx)
<1>1. /\ CtxOK /\ Here /\ Caused /\ Outside /\ Inside /\ InCall
      /\ XOK /\ CsrOK /\ MemOK
  BY TypeParts DEF TDInv, Inv
<1>2. ctx # <<>> /\ pc \notin Program
  <2>1. pc \notin Program
    BY Places, PcValues DEF Inward
  <2> QED
    BY <1>1, <2>1 DEF Here
<1>3. PICK c, f : c = ctx[d] /\ f = FrameAt(d)
  OBVIOUS
<1>4. Frame(c, f) /\ Within(c, f)
  BY <1>1, <1>2, <1>3, Innermost DEF Here
<1>5. Aside(f) /\ ctx' = ctx
  BY <1>1, <1>4, InwardWithin
<1>6. Caused'
  BY <1>1, <1>5 DEF Caused
<1>7. Outside'
  <2> SUFFICES ASSUME NEW j \in 1 .. d - 1
               PROVE  Noted(j)' /\ (ctx[j + 1].pc = 2010 => Settled(j)')
    BY <1>5 DEF Outside, Noted, Settled, FrameAt
  <2>1. Noted(j) /\ (ctx[j + 1].pc = 2010 => Settled(j))
    BY <1>1 DEF Outside
  <2>2. mem'[FrameAt(j) + 34] = mem[FrameAt(j) + 34] /\ mem'[FrameAt(j) + 35] = mem[FrameAt(j) + 35]
    BY <1>1, <1>2, <1>3, <1>5, NotesOutside
  <2> QED
    BY <1>5, <2>1, <2>2 DEF Noted, Settled, FrameAt
<1>8. Inside'
  <2>1. CASE EnterTrap
    <3>1. Calling(c, f)
      BY <1>4, <2>1 DEF EnterTrap, Within
    <3>2. pc' = 2001 /\ mem' = [mem EXCEPT ![f - 1] = x[ra], ![f - 2] = x[a0]]
      BY <2>1, <3>1 DEF EnterTrap, Calling
    <3>3. f \in Nat /\ f >= 2 /\ f + 34 \in 0 .. Words - 1 /\ f + 35 \in 0 .. Words - 1
      BY <1>4, TrapEntryAssumption DEF Frame
    <3>4. mem'[f + 34] = mem[f + 34] /\ mem'[f + 35] = mem[f + 35]
      BY <1>1, <3>2, <3>3 DEF MemOK
    <3>5. Noted(d)'
      BY <1>3, <1>5, <3>1, <3>4 DEF Calling, Noted, FrameAt
    <3> QED
      BY <1>5, <3>2, <3>5 DEF Inside, Handled
  <2>2. CASE pc' \in 2 .. 45 \cup {TrapEntryPoint}
    BY <2>2 DEF Inside, TrapBody, Handled, TrapEntryPoint
  <2>3. CASE pc \in 46 .. 80 /\ pc' \in 47 .. 81
    <3>1. Settled(d)
      BY <1>1, <2>3 DEF Inside
    <3> QED
      BY <1>5, <2>3, <3>1 DEF Inside, Settled, TrapBody, Handled
  <2>4. CASE LeaveTrap /\ pc \in Handled
    <3>1. InTrap(f) /\ Whole(c, f) /\ Linked(f) /\ Settled(d)
      BY <1>1, <1>4, <2>4 DEF Within, Inside
    <3>2. pc' = 46
      BY <1>1, <1>4, <2>4, <3>1, LeaveTrapIs
    <3> QED
      BY <1>5, <3>1, <3>2 DEF Inside, Settled, TrapBody, Handled
  <2> QED
    BY <2>1, <2>2, <2>3, <2>4, InwardPlaces
<1>9. InCall'
  BY <1>1, <1>2, <1>5 DEF InCall, CallAt, Operands
<1> QED
  BY <1>6, <1>7, <1>8, <1>9

(* sret, with the trap it ends.                                            *)
LEMMA SretContexts ==
  ASSUME Inv, Sret
  PROVE  \E c : /\ c = ctx[Len(ctx)] /\ Len(ctx) \in 1 .. MaxDepth /\ pc = 81
                /\ x' = c.x /\ mem' = mem /\ pc' = c.pc + c.advance
                /\ c.pc \in IF Len(ctx) = 1 THEN Program ELSE {2001, 2010}
                /\ c.advance \in 0 .. 4 /\ (c.advance # 0 => c.pc \in Raising)
                /\ Len(ctx') = Len(ctx) - 1
                /\ \A j \in 1 .. Len(ctx) - 1 : ctx'[j] = ctx[j]
<1>1. CtxOK /\ XOK /\ CsrOK
  BY TypeParts DEF Inv
<1>2. pc = 81 /\ pc \notin Program
  BY AtStands DEF Sret, Program
<1>3. PICK c, f : /\ c = ctx[Len(ctx)] /\ c \in Contexts /\ f = FrameAt(Len(ctx))
                  /\ Len(ctx) \in 1 .. MaxDepth /\ Frame(c, f) /\ Within(c, f)
  BY <1>2, InnermostHere
<1>4. Leaving(c, f) /\ Whole(c, f)
  BY <1>2, <1>3 DEF Within
<1>5. /\ x' = x /\ x = c.x /\ pc' = c.pc + c.advance /\ mem' = mem /\ ctx' = Front(ctx)
  BY <1>1, <1>3, <1>4, SretIs
<1>6. ctx # <<>>
  BY <1>3
<1>7. Len(ctx') = Len(ctx) - 1 /\ \A j \in 1 .. Len(ctx) - 1 : ctx'[j] = ctx[j]
  BY <1>1, <1>5, <1>6, FrontIs DEF CtxOK
<1>8. PICK n \in 1 .. Len(ctx) : n = Len(ctx)
  BY <1>3
<1>9. /\ ctx[n].pc \in IF n = 1 THEN Program ELSE {2001, 2010}
      /\ ctx[n].advance # 0 => ctx[n].pc \in Raising
  BY <1>1 DEF CtxOK
<1> QED
  BY <1>2, <1>3, <1>5, <1>7, <1>8, <1>9 DEF Frame

(* sret keeps it: the state it returns to is the one that was interrupted, *)
(* with its call or its handler where they were.                           *)
LEMMA SretKeeps ==
  ASSUME TDInv, Sret, call' = call
  PROVE  (Caused /\ Outside /\ Inside /\ InCall)'
<1> DEFINE d == Len(ctx)
<1>1. Inv /\ Caused /\ Outside /\ InCall
  BY DEF TDInv
<1>2. PICK c : /\ c = ctx[d] /\ d \in 1 .. MaxDepth /\ pc = 81
               /\ x' = c.x /\ mem' = mem /\ pc' = c.pc + c.advance
               /\ c.pc \in IF d = 1 THEN Program ELSE {2001, 2010}
               /\ c.advance \in 0 .. 4 /\ (c.advance # 0 => c.pc \in Raising)
               /\ Len(ctx') = d - 1
               /\ \A j \in 1 .. d - 1 : ctx'[j] = ctx[j]
  BY <1>1, SretContexts
<1>3. d \in Nat /\ ctx # <<>>
  BY <1>2, TrapEntryAssumption
<1>4. Caused'
  BY <1>1, <1>2, <1>3 DEF Caused
<1>5. \A k \in 1 .. d - 1 : Noted(k)' /\ (ctx[k + 1].pc = 2010 => Settled(k)')
  <2> TAKE k \in 1 .. d - 1
  <2>1. Noted(k) /\ (ctx[k + 1].pc = 2010 => Settled(k))
    BY <1>1 DEF Outside
  <2>2. ctx'[k] = ctx[k] /\ mem' = mem
    BY <1>2
  <2> QED
    BY <2>1, <2>2 DEF Noted, Settled, FrameAt
<1>6. Outside'
  <2>1. \A k \in 1 .. d - 2 : k \in 1 .. d - 1 /\ k + 1 \in 1 .. d - 1
    BY <1>3
  <2>2. \A k \in 1 .. d - 2 : Noted(k)' /\ (ctx'[k + 1].pc = 2010 => Settled(k)')
    BY <1>2, <1>5, <2>1
  <2>3. Len(ctx') - 1 = d - 2
    BY <1>2, <1>3
  <2> SUFFICES ASSUME NEW k \in 1 .. d - 2
               PROVE  Noted(k)' /\ (ctx'[k + 1].pc = 2010 => Settled(k)')
    BY <2>3 DEF Outside, Noted, Settled, FrameAt
  <2> QED
    BY <2>2
<1>7. CASE d = 1
  <2>1. c.pc \in Program /\ pc' \in Program
        /\ (c.pc \in 1101 .. 1107 => pc' = c.pc)
        /\ (c.pc \notin 1101 .. 1107 => pc' \notin 1101 .. 1107)
    <3>1. c.pc \in Program /\ (c.advance # 0 => c.pc = 1000)
      BY <1>2, <1>7 DEF Program, Raising
    <3>2. PICK p, a : p = c.pc /\ a = c.advance /\ a \in 0 .. 4 /\ pc' = p + a
      BY <1>2
    <3> QED
      BY <3>1, <3>2 DEF Program
  <2>2. Inside'
    BY <2>1, PcValues DEF Inside
  <2>3. ctx' = <<>>
    <3>1. ctx' \in Seq(Contexts)
      <4>1. ctx' = Front(ctx) /\ ctx \in Seq(Contexts)
        BY <1>1 DEF Inv, CtxOK, Sret
      <4> QED
        BY <1>3, <4>1, FrontIs
    <3> QED
      BY <1>2, <1>7, <3>1, EmptySeq
  <2>4. CallAt(c.pc, c.x)
    BY <1>1, <1>2, <1>3, <1>7 DEF InCall
  <2>5. CallAt(pc, x)'
    <3>1. CASE c.pc \in 1101 .. 1107
      <4>1. pc' = c.pc /\ x' = c.x /\ call' = call
        BY <1>2, <2>1, <3>1
      <4> QED
        BY <2>4, <4>1 DEF CallAt, Operands
    <3>2. CASE c.pc \notin 1101 .. 1107
      <4>1. pc' \notin 1101 .. 1107
        BY <2>1, <3>2
      <4> QED
        BY <4>1 DEF CallAt
    <3> QED
      BY <3>1, <3>2
  <2> QED
    BY <1>4, <1>6, <2>2, <2>3, <2>5 DEF InCall
<1>8. CASE d # 1
  <2>1. d - 1 \in 1 .. d - 1 /\ (d - 1) + 1 = d /\ 1 \in 1 .. d - 1
    BY <1>2, <1>3, <1>8
  <2>2. PICK n \in 1 .. d - 1 : n = d - 1 /\ Noted(n)' /\ (c.pc = 2010 => Settled(n)')
    BY <1>2, <1>5, <2>1
  <2>3. pc' \in TrapBody \cup Handled /\ (pc' \in Handled => c.pc = 2010)
    <3>1. PICK p, a : p = c.pc /\ a = c.advance /\ a \in 0 .. 4 /\ pc' = p + a /\ p \in {2001, 2010}
      BY <1>2, <1>8
    <3>2. CASE p = 2001
      <4>1. PICK q : q = pc' /\ q \in 2001 .. 2005
        BY <3>1, <3>2
      <4>2. q \in TrapBody /\ q \notin Handled
        BY <4>1 DEF TrapBody, Handled
      <4> QED
        BY <4>1, <4>2
    <3>3. CASE p = 2010
      BY <3>1, <3>3 DEF TrapBody, Handled
    <3> QED
      BY <3>1, <3>2, <3>3
  <2>4. Inside'
    <3>1. pc' \notin 46 .. 81
      BY <2>3 DEF TrapBody, Handled
    <3>2. Len(ctx') = n
      BY <1>2, <2>2
    <3> QED
      BY <2>2, <2>3, <3>1, <3>2 DEF Inside, Noted, Settled, FrameAt
  <2>5. InCall'
    <3>1. ctx' # <<>> /\ ctx'[1] = ctx[1]
      BY <1>2, <1>3, <1>8, <2>1
    <3> QED
      BY <1>1, <1>3, <3>1 DEF InCall, CallAt, Operands
  <2> QED
    BY <1>4, <1>6, <2>4, <2>5
<1> QED
  BY <1>7, <1>8

-----------------------------------------------------------------------------
(* The invariant.                                                          *)
LEMMA TDInitInv == TDInit => TDInv
<1> SUFFICES ASSUME TDInit PROVE TDInv
  OBVIOUS
<1>1. Inv
  BY InitInv DEF TDInit
<1>2. ctx = <<>> /\ pc = 1000 /\ Len(ctx) = 0
  BY DEF TDInit, Init
<1>3. Caused /\ Outside /\ Inside
  BY <1>2 DEF Caused, Outside, Inside, TrapBody, Handled
<1>4. InCall
  BY <1>2 DEF InCall, CallAt
<1> QED
  BY <1>1, <1>3, <1>4 DEF TDInv

(* Every step keeps it.                                                    *)
LEMMA TDInvStep == TDInv /\ [TDNext]_tdvars => TDInv'
<1> SUFFICES ASSUME TDInv, [TDNext]_tdvars PROVE TDInv'
  OBVIOUS
<1>1. CASE UNCHANGED tdvars
  <2>1. UNCHANGED vars /\ call' = call
    BY <1>1 DEF tdvars
  <2>2. Inv'
    BY <2>1, InvStep DEF TDInv
  <2>3. x' = x /\ mem' = mem /\ pc' = pc /\ ctx' = ctx
    BY <2>1 DEF vars
  <2>4. Caused' /\ Outside' /\ Inside'
    BY <2>3 DEF TDInv, Caused, Outside, Inside, Noted, Settled, FrameAt
  <2>5. InCall'
    BY <2>1, <2>3 DEF TDInv, InCall, CallAt, Operands
  <2> QED
    BY <2>2, <2>4, <2>5 DEF TDInv
<1>2. CASE TDNext
  <2>1. Inv'
    BY <1>2, StepIs, InvStep DEF TDInv
  <2>2. (Caused /\ Outside /\ Inside /\ InCall)'
    <3>1. CASE pc \in TrapBody /\ trap_dispatch /\ call' = call
      BY <3>1, HandlerKeeps
    <3>2. CASE CallSbi \/ SbiMove \/ Ecall \/ SbiResult \/ Return
      BY <3>2, ProgramKeeps
    <3>3. CASE \E cause \in Causes : Trapped(cause) /\ call' = call
      <4>1. PICK cause \in Causes : Trapped(cause) /\ call' = call
        BY <3>3
      <4>2. TakeTrap(cause)
        BY <4>1, Zenon DEF Trapped
      <4> QED
        BY <4>1, <4>2, TrapKeeps
    <3>4. CASE (Instruction \/ EnterTrap \/ LeaveTrap) /\ call' = call
      <4>1. Inward \/ Sret
        BY <3>4 DEF Instruction, Inward
      <4> QED
        BY <3>4, <4>1, InwardKeeps, SretKeeps
    <3> QED
      BY <1>2, <3>1, <3>2, <3>3, <3>4, Zenon DEF TDNext, Silently
  <2> QED
    BY <2>1, <2>2 DEF TDInv
<1> QED
  BY <1>1, <1>2

(* The invariant holds in every state: each frame in hand tells the CSRs   *)
(* of its own trap, a handler that has come to its end has advanced epc by *)
(* the cause of its own trap (trap.c:152-210), and a call that is          *)
(* interrupted has its operands where sbi_call put them.                   *)
THEOREM TDInvHolds == TDSpec => []TDInv
  BY TDInitInv, TDInvStep, PTL DEF TDSpec

(* At ecall the firmware's registers hold the call that was made, and      *)
(* after it the result register holds the answer, whatever traps came      *)
(* between two moves of sbi_call (sbi.c:15-29).                            *)
THEOREM SbiCallsAreFaithful == TDSpec => []SbiCallsFaithful
<1>1. TDInv => SbiCallsFaithful
  <2> SUFFICES ASSUME TDInv PROVE SbiCallsFaithful
    OBVIOUS
  <2>1. pc \in {1105, 1107} => pc \in Program
    BY DEF Program
  <2>2. pc \in {1105, 1107} => CallAt(pc, x)
    BY <2>1 DEF TDInv, Inv, Here, InCall
  <2> QED
    BY <2>2 DEF CallAt, SbiCallsFaithful
<1> QED
  BY <1>1, TDInvHolds, PTL

(* trap_dispatch and its handlers, and sbi_call outside, do to the machine *)
(* only what TrapEntry allows: what TrapEntryProofs proves of Spec is true *)
(* of them.                                                                *)
THEOREM HandlersImplementTrapEntry == TDSpec => ImplementsTrapEntry
<1>1. TDInit => Init
  BY DEF TDInit
<1>2. TDInv /\ [TDNext]_tdvars => [Next]_vars
  BY StepIs DEF tdvars
<1> QED
  BY <1>1, <1>2, TDInvHolds, PTL DEF TDSpec, ImplementsTrapEntry, Spec

(* The return of a trap, by its cause.                                     *)
LEMMA SretResumes ==
  ASSUME TDInv, [TDNext]_tdvars
  PROVE  [ At("sret") =>
             LET c == Last(ctx) IN
               pc' = c.pc + (IF c.cause = 2 THEN 4 ELSE IF c.cause = 3 THEN 2 ELSE 0) ]_tdvars
<1> SUFFICES ASSUME TDNext, At("sret")
             PROVE  LET c == Last(ctx) IN
                      pc' = c.pc + (IF c.cause = 2 THEN 4 ELSE IF c.cause = 3 THEN 2 ELSE 0)
  OBVIOUS
<1>1. Sret
  BY StepIs, OnlySret
<1>2. PICK c : /\ c = ctx[Len(ctx)] /\ Len(ctx) \in 1 .. MaxDepth /\ pc = 81
               /\ pc' = c.pc + c.advance
  BY <1>1, SretContexts DEF TDInv
<1>3. c.advance = AdvanceOf(c.cause)
  BY <1>2 DEF TDInv, Inside, Settled
<1>4. Last(ctx) = c
  BY <1>2 DEF Last
<1> QED
  BY <1>2, <1>3, <1>4 DEF AdvanceOf, CAUSE_ILLEGAL_INSTRUCTION, CAUSE_BREAKPOINT

(* Every trap resumes where its cause says, interrupts told apart from the *)
(* exceptions of the same number (trap.c:152-210).                         *)
THEOREM TrapsResumeByCause == TDSpec => ResumesByCause
  BY TDInvHolds, SretResumes, PTL DEF TDSpec, ResumesByCause

-----------------------------------------------------------------------------
(* What is printed of a trap.                                              *)

(* The registers by number, as struct pushregs names them, and the first   *)
(* of its fields.                                                          *)
RegName(r) ==
    IF r = 0 THEN <<"zero", 0>> ELSE IF r = 1 THEN <<"ra", 0>>
    ELSE IF r = 2 THEN <<"sp", 0>> ELSE IF r = 3 THEN <<"gp", 0>>
    ELSE IF r = 4 THEN <<"tp", 0>>
    ELSE IF r < 8 THEN <<"t", r - 5>> ELSE IF r < 10 THEN <<"s", r - 8>>
    ELSE IF r < 18 THEN <<"a", r - 10>> ELSE IF r < 28 THEN <<"s", r - 16>>
    ELSE <<"t", r - 25>>
Named(m) == [i \in 1 .. m |-> RegName(i - 1)]
Further(m, n) == [i \in 1 .. n |-> RegName(m + i - 1)]

(* A run of numbered fields continues the fields before it.                *)
LEMMA RunAdded ==
  ASSUME NEW m \in Nat, NEW n \in Nat
  PROVE  Named(m) \o Further(m, n) = Named(m + n)
<1>1. PICK S : S = {RegName(r) : r \in Nat}
  OBVIOUS
<1>2. PICK a : a = Named(m)
  OBVIOUS
<1>3. PICK b : b = Further(m, n)
  OBVIOUS
<1>4. a \in [1 .. m -> S]
  <2>1. \A i \in 1 .. m : i - 1 \in Nat
    OBVIOUS
  <2> QED
    BY <1>1, <1>2, <2>1 DEF Named
<1>5. b \in [1 .. n -> S]
  <2>1. \A i \in 1 .. n : m + i - 1 \in Nat
    OBVIOUS
  <2> QED
    BY <1>1, <1>3, <2>1 DEF Further
<1>6. a \o b = Cat(m, n, a, b)
  BY <1>4, <1>5, Joined, Zenon
<1>7. Cat(m, n, a, b) = Named(m + n)
  BY <1>2, <1>3 DEF Cat, Named, Further
<1> QED
  BY <1>2, <1>3, <1>6, <1>7

(* struct pushregs has a field for each register, in their order           *)
(* (trap.h:6-39).                                                          *)
LEMMA PushregsIs == Pushregs = Named(32)
<1>1. One("zero") = Named(1)
  BY DEF One, Run, Named, RegName
<1>2. Named(1) \o Run("ra", 0, 0) = Named(2)
  <2>1. Run("ra", 0, 0) = Further(1, 1)
    BY DEF Run, Further, RegName
  <2>2. Named(1) \o Further(1, 1) = Named(1 + 1)
    BY RunAdded
  <2> QED
    BY <2>1, <2>2
<1>3. Named(2) \o Run("sp", 0, 0) = Named(3)
  <2>1. Run("sp", 0, 0) = Further(2, 1)
    BY DEF Run, Further, RegName
  <2>2. Named(2) \o Further(2, 1) = Named(2 + 1)
    BY RunAdded
  <2> QED
    BY <2>1, <2>2
<1>4. Named(3) \o Run("gp", 0, 0) = Named(4)
  <2>1. Run("gp", 0, 0) = Further(3, 1)
    BY DEF Run, Further, RegName
  <2>2. Named(3) \o Further(3, 1) = Named(3 + 1)
    BY RunAdded
  <2> QED
    BY <2>1, <2>2
<1>5. Named(4) \o Run("tp", 0, 0) = Named(5)
  <2>1. Run("tp", 0, 0) = Further(4, 1)
    BY DEF Run, Further, RegName
  <2>2. Named(4) \o Further(4, 1) = Named(4 + 1)
    BY RunAdded
  <2> QED
    BY <2>1, <2>2
<1>6. Named(5) \o Run("t", 0, 2) = Named(8)
  <2>1. Run("t", 0, 2) = Further(5, 3)
    BY DEF Run, Further, RegName
  <2>2. Named(5) \o Further(5, 3) = Named(5 + 3)
    BY RunAdded
  <2> QED
    BY <2>1, <2>2
<1>7. Named(8) \o Run("s", 0, 1) = Named(10)
  <2>1. Run("s", 0, 1) = Further(8, 2)
    BY DEF Run, Further, RegName
  <2>2. Named(8) \o Further(8, 2) = Named(8 + 2)
    BY RunAdded
  <2> QED
    BY <2>1, <2>2
<1>8. Named(10) \o Run("a", 0, 7) = Named(18)
  <2>1. Run("a", 0, 7) = Further(10, 8)
    BY DEF Run, Further, RegName
  <2>2. Named(10) \o Further(10, 8) = Named(10 + 8)
    BY RunAdded
  <2> QED
    BY <2>1, <2>2
<1>9. Named(18) \o Run("s", 2, 11) = Named(28)
  <2>1. Run("s", 2, 11) = Further(18, 10)
    BY DEF Run, Further, RegName
  <2>2. Named(18) \o Further(18, 10) = Named(18 + 10)
    BY RunAdded
  <2> QED
    BY <2>1, <2>2
<1>10. Named(28) \o Run("t", 3, 6) = Named(32)
  <2>1. Run("t", 3, 6) = Further(28, 4)
    BY DEF Run, Further, RegName
  <2>2. Named(28) \o Further(28, 4) = Named(28 + 4)
    BY RunAdded
  <2> QED
    BY <2>1, <2>2
<1> QED
  BY <1>1, <1>2, <1>3, <1>4, <1>5, <1>6, <1>7, <1>8, <1>9, <1>10, Zenon DEF Pushregs, One

(* A name tells its register,                                              *)
LEMMA NamesTell == \A r \in 0 .. 31 : AbiRegister(RegName(r)) = r
<1> SUFFICES ASSUME NEW r \in 0 .. 31 PROVE AbiRegister(RegName(r)) = r
  OBVIOUS
<1>1. CASE r \in 0 .. 4
  BY <1>1 DEF RegName, AbiRegister
<1>2. CASE r \in 5 .. 7 \cup 28 .. 31
  BY <1>2 DEF RegName, AbiRegister
<1>3. CASE r \in 8 .. 9 \cup 18 .. 27
  BY <1>3 DEF RegName, AbiRegister
<1>4. CASE r \in 10 .. 17
  BY <1>4 DEF RegName, AbiRegister
<1> QED
  BY <1>1, <1>2, <1>3, <1>4

(* so the 32 names differ.                                                 *)
LEMMA NamesDiffer == Cardinality({RegName(i - 2) : i \in 2 .. 33}) = 32
<1> DEFINE T == {RegName(i - 2) : i \in 2 .. 33}
           f == [i \in 2 .. 33 |-> RegName(i - 2)]
<1>1. \A i, j \in 2 .. 33 : RegName(i - 2) = RegName(j - 2) => i = j
  <2> SUFFICES ASSUME NEW i \in 2 .. 33, NEW j \in 2 .. 33, RegName(i - 2) = RegName(j - 2)
               PROVE  i = j
    OBVIOUS
  <2>1. i - 2 \in 0 .. 31 /\ j - 2 \in 0 .. 31
    OBVIOUS
  <2>2. AbiRegister(RegName(i - 2)) = i - 2 /\ AbiRegister(RegName(j - 2)) = j - 2
    BY <2>1, NamesTell
  <2> QED
    BY <2>2
<1>2. f \in Bijection(2 .. 33, T)
  BY <1>1, Zenon DEF Bijection, Injection, Surjection, IsInjective
<1>3. ExistsBijection(2 .. 33, T)
  BY <1>2 DEF ExistsBijection
<1>4. IsFiniteSet(2 .. 33) /\ Cardinality(2 .. 33) = 32
  <2>1. Cardinality(2 .. 33) = IF 2 > 33 THEN 0 ELSE 33 - 2 + 1
    <3>1. 2 \in Int /\ 33 \in Int
      OBVIOUS
    <3> QED
      BY <3>1, FS_Interval, Zenon
  <2>2. IsFiniteSet(2 .. 33)
    <3>1. 2 \in Int /\ 33 \in Int
      OBVIOUS
    <3> QED
      BY <3>1, FS_Interval, Zenon
  <2> QED
    BY <2>1, <2>2
<1>5. Cardinality(T) = Cardinality(2 .. 33)
  <2> HIDE DEF T
  <2> QED
    BY <1>3, <1>4, FS_Bijection
<1> QED
  BY <1>4, <1>5

(* A sequence of one, 32 and four.                                         *)
Consists(s, R, b, c, d, e) ==
    /\ Len(s) = 37 /\ \A i \in 2 .. 33 : s[i] = R[i - 1]
    /\ s[34] = b /\ s[35] = c /\ s[36] = d /\ s[37] = e

(* Its parts are where they were put.                                      *)
LEMMA Framed ==
  ASSUME NEW T, NEW R \in [1 .. 32 -> T], NEW a, NEW b, NEW c, NEW d, NEW e
  PROVE  Consists(<<a>> \o R \o <<b, c, d, e>>, R, b, c, d, e)
<1>1. PICK S : S = T \cup {a, b, c, d, e}
  OBVIOUS
<1>2. PICK h, g : h = <<a>> /\ g = <<b, c, d, e>>
  OBVIOUS
<1>3. h \in [1 .. 1 -> S] /\ R \in [1 .. 32 -> S] /\ g \in [1 .. 4 -> S]
  BY <1>1, <1>2
<1>4. PICK u : u = Cat(1, 32, h, R)
  OBVIOUS
<1>5. h \o R = u
  <2>1. PICK m, n : m = 1 /\ n = 32
    OBVIOUS
  <2>2. m \in Nat
    BY <2>1
  <2>3. n \in Nat
    BY <2>1
  <2>4. h \in [1 .. m -> S]
    BY <1>3, <2>1
  <2>5. R \in [1 .. n -> S]
    BY <1>3, <2>1
  <2>6. h \o R = Cat(m, n, h, R)
    BY <2>2, <2>3, <2>4, <2>5, Joined, Zenon
  <2> QED
    BY <1>4, <2>1, <2>6
<1>6. u \in [1 .. 33 -> S]
  BY <1>3, <1>4 DEF Cat
<1>7. PICK w : w = Cat(33, 4, u, g)
  OBVIOUS
<1>8. u \o g = w
  <2>1. PICK m, n : m = 33 /\ n = 4
    OBVIOUS
  <2>2. m \in Nat
    BY <2>1
  <2>3. n \in Nat
    BY <2>1
  <2>4. u \in [1 .. m -> S]
    BY <1>6, <2>1
  <2>5. g \in [1 .. n -> S]
    BY <1>3, <2>1
  <2>6. u \o g = Cat(m, n, u, g)
    BY <2>2, <2>3, <2>4, <2>5, Joined, Zenon
  <2> QED
    BY <1>7, <2>1, <2>6
<1>9. w \in [1 .. 37 -> S]
  BY <1>3, <1>6, <1>7 DEF Cat
<1>10. Len(w) = 37
  BY <1>9, LenProperties
<1>11. /\ \A i \in 1 .. 33 : w[i] = u[i]
       /\ w[34] = g[1] /\ w[35] = g[2] /\ w[36] = g[3] /\ w[37] = g[4]
  BY <1>7 DEF Cat
<1>12. \A i \in 2 .. 33 : u[i] = R[i - 1]
  BY <1>4 DEF Cat
<1>13. w = <<a>> \o R \o <<b, c, d, e>>
  BY <1>2, <1>5, <1>8, Zenon
<1>14. g[1] = b /\ g[2] = c /\ g[3] = d /\ g[4] = e
  BY <1>2
<1>15. \A i \in 2 .. 33 : w[i] = R[i - 1]
  BY <1>11, <1>12
<1>16. Consists(w, R, b, c, d, e)
  BY <1>10, <1>11, <1>14, <1>15 DEF Consists
<1> QED
  BY <1>13, <1>16, Zenon

(* What a step that prints s says of the state c that was interrupted.     *)
Shows(c, s) ==
    /\ Len(s) = 2 => s[2][2] = Low(c.pc)
    /\ Len(s) > 2 =>
         /\ \A i \in 2 .. 33 : s[i][2] = Low(c.x[AbiRegister(s[i][1])])
         /\ Cardinality({s[i][1] : i \in 2 .. 33}) = 32
         /\ [i \in 1 .. 4 |-> s[33 + i][2]] =
              << Low(Stacked(c.status)), Low(c.pc), Low(5000 + Len(ctx) - 1), Low(c.cause) >>

(* What a handler prints of the trap it was given,                         *)
LEMMA HandlerShows ==
  ASSUME TDInv, pc \in TrapBody, trap_dispatch
  PROVE  Shows(Last(ctx), shown')
<1>1. PICK c, f : /\ c = ctx[Len(ctx)] /\ c \in Contexts /\ Whole(c, f)
                  /\ c.advance = 0 /\ tf = f
                  /\ mem[f + 34] = 5000 + Len(ctx) - 1 /\ mem[f + 35] = c.cause
  BY HandlerReads
<1>2. mem[f + 32] = Stacked(c.status) /\ mem[f + 33] = c.pc
      /\ \A r \in 0 .. 31 : mem[f + r] = c.x[r]
  <2>1. c.pc \in Int
    BY <1>1 DEF Contexts
  <2>2. mem[f + 32] = Stacked(c.status) /\ mem[f + 33] = c.pc + c.advance
        /\ \A r \in 0 .. 31 : mem[f + r] = c.x[r]
    BY <1>1 DEF Whole, Regs
  <2>3. mem[f + 33] = c.pc
    <3>1. PICK p, a : p = c.pc /\ a = c.advance
      OBVIOUS
    <3>2. mem[f + 33] = p + a
      BY <2>2, <3>1, Zenon
    <3>3. p \in Int /\ a = 0
      BY <1>1, <2>1, <3>1, Zenon
    <3>4. p + a = p
      BY <3>3
    <3> QED
      BY <3>1, <3>2, <3>4, Zenon
  <2> QED
    BY <2>2, <2>3
<1>3. Last(ctx) = c
  BY <1>1 DEF Last
<1>4. PICK s : s = shown'
  OBVIOUS
<1>5. PICK at, st, ep, ba, ca :
        /\ at = <<"trapframe at", tf>> /\ st = <<"status", Low(mem[tf + 32])>>
        /\ ep = <<"epc", Low(mem[tf + 33])>> /\ ba = <<"badvaddr", Low(mem[tf + 34])>>
        /\ ca = <<"cause", Low(mem[tf + 35])>>
  BY Zenon
<1>6. print_trapframe = <<at>> \o print_regs \o <<st, ep, ba, ca>>
  BY <1>5, Zenon DEF print_trapframe
<1>7. /\ st[2] = Low(Stacked(c.status)) /\ ep[2] = Low(c.pc)
      /\ ba[2] = Low(5000 + Len(ctx) - 1) /\ ca[2] = Low(c.cause)
  BY <1>1, <1>2, <1>5
<1>8. s = print_trapframe => Shows(c, s)
  <2> SUFFICES ASSUME s = print_trapframe PROVE Shows(c, s)
    OBVIOUS
  <2>1. PICK R : R = print_regs
    OBVIOUS
  <2>2. R = [i \in 1 .. 32 |-> <<RegName(i - 1), Low(c.x[i - 1])>>]
    <3>1. \A i \in 1 .. 32 : /\ Pushregs[i] = RegName(i - 1)
                             /\ tf + i - 1 = f + (i - 1) /\ i - 1 \in 0 .. 31
      BY <1>1, PushregsIs DEF Named
    <3> QED
      BY <1>2, <2>1, <3>1 DEF print_regs
  <2>3. PICK T : R \in [1 .. 32 -> T]
    <3>1. R \in [1 .. 32 -> {R[i] : i \in 1 .. 32}]
      BY <2>2
    <3> QED
      BY <3>1
  <2>4. s = <<at>> \o R \o <<st, ep, ba, ca>>
    BY <1>6, <2>1, Zenon
  <2>5. /\ Len(s) = 37 /\ \A i \in 2 .. 33 : s[i] = R[i - 1]
        /\ s[34] = st /\ s[35] = ep /\ s[36] = ba /\ s[37] = ca
    <3>1. Consists(<<at>> \o R \o <<st, ep, ba, ca>>, R, st, ep, ba, ca)
      BY <2>3, Framed, Zenon
    <3>2. Consists(s, R, st, ep, ba, ca)
      BY <2>4, <3>1, Zenon
    <3> QED
      BY <3>2, Zenon DEF Consists
  <2>6. \A i \in 2 .. 33 : s[i][1] = RegName(i - 2) /\ s[i][2] = Low(c.x[i - 2])
    <3>1. \A i \in 2 .. 33 : s[i] = <<RegName(i - 2), Low(c.x[i - 2])>>
      BY <2>2, <2>5
    <3> QED
      BY <3>1
  <2>7. \A i \in 2 .. 33 : s[i][2] = Low(c.x[AbiRegister(s[i][1])])
    <3>1. \A i \in 2 .. 33 : AbiRegister(RegName(i - 2)) = i - 2
      BY NamesTell
    <3> QED
      BY <2>6, <3>1
  <2>8. {s[i][1] : i \in 2 .. 33} = {RegName(i - 2) : i \in 2 .. 33}
    BY <2>6
  <2>9. Cardinality({s[i][1] : i \in 2 .. 33}) = 32
    BY <2>8, NamesDiffer, Zenon
  <2>10. [i \in 1 .. 4 |-> s[33 + i][2]] =
           << Low(Stacked(c.status)), Low(c.pc), Low(5000 + Len(ctx) - 1), Low(c.cause) >>
    <3>1. [i \in 1 .. 4 |-> s[33 + i][2]] = <<s[34][2], s[35][2], s[36][2], s[37][2]>>
      OBVIOUS
    <3>2. s[34] = st /\ s[35] = ep /\ s[36] = ba /\ s[37] = ca
      BY <2>5, Zenon
    <3>3. [i \in 1 .. 4 |-> s[33 + i][2]] = <<st[2], ep[2], ba[2], ca[2]>>
      BY <3>1, <3>2, Zenon
    <3>4. PICK v1, v2, v3, v4 :
            /\ v1 = Low(Stacked(c.status)) /\ v2 = Low(c.pc)
            /\ v3 = Low(5000 + Len(ctx) - 1) /\ v4 = Low(c.cause)
            /\ v1 = st[2] /\ v2 = ep[2] /\ v3 = ba[2] /\ v4 = ca[2]
      BY <1>7
    <3>5. <<st[2], ep[2], ba[2], ca[2]>> = <<v1, v2, v3, v4>>
      BY <3>4
    <3>6. << Low(Stacked(c.status)), Low(c.pc), Low(5000 + Len(ctx) - 1), Low(c.cause) >> =
            <<v1, v2, v3, v4>>
      BY <3>4
    <3> QED
      BY <3>3, <3>5, <3>6
  <2> QED
    BY <2>5, <2>7, <2>9, <2>10 DEF Shows
<1>9. s = <<>> => Shows(c, s)
  BY DEF Shows
<1>10. (\E text : s = << <<text, 0>> >>) => Shows(c, s)
  BY DEF Shows
<1>11. (\E text, place : s = << <<text, 0>>, <<place, Low(mem[tf + 33])>> >>) => Shows(c, s)
  <2> SUFFICES ASSUME NEW text, NEW place, s = << <<text, 0>>, <<place, Low(mem[tf + 33])>> >>
               PROVE  Shows(c, s)
    OBVIOUS
  <2>1. s[2][2] = Low(c.pc) /\ Len(s) = 2
    BY <1>1, <1>2
  <2> QED
    BY <2>1 DEF Shows
<1>12. \/ s = <<>> \/ \E text : s = << <<text, 0>> >>
       \/ \E text, place : s = << <<text, 0>>, <<place, Low(mem[tf + 33])>> >>
       \/ s = print_trapframe
  BY <1>4, Handles, Zenon DEF Prints
<1>13. Shows(c, s)
  BY <1>8, <1>9, <1>10, <1>11, <1>12, Zenon
<1> QED
  BY <1>3, <1>4, <1>13

(* and the other steps, which print nothing.                               *)
LEMMA StepShows ==
  ASSUME TDInv, [TDNext]_tdvars
  PROVE  [ LET c == Last(ctx) IN
           /\ Len(shown') = 2 => shown'[2][2] = Low(c.pc)
           /\ Len(shown') > 2 =>
                /\ \A i \in 2 .. 33 : shown'[i][2] = Low(c.x[AbiRegister(shown'[i][1])])
                /\ Cardinality({shown'[i][1] : i \in 2 .. 33}) = 32
                /\ [i \in 1 .. 4 |-> shown'[33 + i][2]] =
                     << Low(Stacked(c.status)), Low(c.pc), Low(5000 + Len(ctx) - 1), Low(c.cause) >> ]_tdvars
<1> SUFFICES ASSUME TDNext PROVE Shows(Last(ctx), shown')
  BY DEF Shows
<1>1. CASE pc \in TrapBody /\ trap_dispatch
  BY <1>1, HandlerShows
<1>2. CASE shown' = <<>>
  BY <1>2 DEF Shows
<1> QED
  BY <1>1, <1>2, Zenon DEF TDNext, Silently

(* What is printed of a trap is the state it interrupted: each register    *)
(* under its own name, the CSRs of this trap and of no other               *)
(* (trap.c:41-83, 165, 176, trap.h:6-47).                                  *)
THEOREM PrintsTheInterruptedState == TDSpec => ShowsInterruptedState
  BY TDInvHolds, StepShows, PTL DEF TDSpec, ShowsInterruptedState
=============================================================================
