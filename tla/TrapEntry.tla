------------------------------ MODULE TrapEntry ------------------------------
(***************************************************************************)
(* kern/trap/trapentry.S, instruction by instruction: SAVE_ALL, the call   *)
(* of trap(), RESTORE_ALL and sret over the 32 registers, the five CSRs    *)
(* the code uses and the words of the stack.  The code traps are taken     *)
(* from and the C function trap() are reduced to what the calling          *)
(* convention lets them do; TrapDispatch says what they are.  A trap may   *)
(* be taken inside trap() too (the "recursive exception" of                *)
(* trapentry.S:42).                                                        *)
(*                                                                         *)
(* SaveAllCsrsFirst, SaveAllShort, SaveAllKeepScratch, RestoreAllStaleEpc  *)
(* and CodeNoSret are wrong on purpose: put in the place of SaveAll,       *)
(* RestoreAll and Code, a property of this module fails.                   *)
(***************************************************************************)
EXTENDS Integers, Sequences, SequencesExt

CONSTANTS
    Words,      \* bound: words of the stack
    MaxDepth,   \* bound: traps in hand at once
    Causes,     \* the values scause may have
    Advances    \* what a handler may add to tf->epc (trap.c:166, 177)

ASSUME TrapEntryAssumption ==
    /\ Words \in Nat /\ MaxDepth \in Nat \ {0}
    /\ Causes \subseteq Nat /\ Advances \subseteq 0 .. 4
    /\ Words >= 38 * MaxDepth + 4

VARIABLES
    x,      \* registers x0 .. x31
    csr,
    mem,    \* the stack, one value a word; it grows towards 0
    pc,     \* 1 .. Len(Code): an instruction of trapentry.S; see below
    ctx     \* history: for each trap in hand, the state it was taken from

vars == <<x, csr, mem, pc, ctx>>

Regs == 0 .. 31
ra == 1
sp == 2
s0 == 8
s1 == 9
s2 == 18
s3 == 19
s4 == 20
a0 == 10
CallerSaved == {1, 5, 6, 7} \cup 10 .. 17 \cup 28 .. 31

(* Addresses outside trapentry.S: the code that is interrupted, the entry  *)
(* of trap(), and its body before and after the handler's work.  An        *)
(* instruction that raises an exception, and may be skipped, stands at     *)
(* 1000, 2001 and 2010, and its bytes follow it.                           *)
Program == 1000 .. 1004 \cup 1100 .. 1107
TrapEntryPoint == 2000
TrapBody == 2001 .. 2005
Handled == 2010 .. 2014
Raising == {1000, 2001, 2010}

(* sstatus is SIE + 2 * SPIE + 4 * SPP; all traps come from supervisor     *)
(* mode.                                                                   *)
Stacked(status) == 2 * (status % 2) + 4
Unstacked(status) == ((status \div 2) % 2) + 2
-----------------------------------------------------------------------------
(* The code.  An instruction has an operation, a register, a CSR and a     *)
(* number (a slot of the frame, or an immediate in words).                 *)
I(op, r, c, k) == [op |-> op, r |-> r, csr |-> c, k |-> k]
Store(r, slot) == I("store", r, "none", slot)
Load(r, slot) == I("load", r, "none", slot)

(* The registers whose slot has their own number, in the order of the      *)
(* source: all but sp.                                                     *)
Numbered == <<0, 1>> \o [i \in 1 .. 29 |-> i + 2]

SaveCsrs ==
    << I("csrrw", s0, "sscratch", 0), I("csrr", s1, "sstatus", 0),
       I("csrr", s2, "sepc", 0), I("csrr", s3, "sbadaddr", 0),
       I("csrr", s4, "scause", 0),
       Store(s0, 2), Store(s1, 32), Store(s2, 33), Store(s3, 34), Store(s4, 35) >>

SaveAllCsrsFirst ==
    << I("csrw", sp, "sscratch", 0), I("addi", sp, "none", -36) >>
    \o SaveCsrs
    \o [i \in 1 .. Len(Numbered) |-> Store(Numbered[i], Numbered[i])]
SaveAllShort ==
    << I("csrw", sp, "sscratch", 0), I("addi", sp, "none", -32) >>
    \o [i \in 1 .. Len(Numbered) |-> Store(Numbered[i], Numbered[i])]
    \o SaveCsrs
SaveAllKeepScratch ==
    << I("csrw", sp, "sscratch", 0), I("addi", sp, "none", -36) >>
    \o [i \in 1 .. Len(Numbered) |-> Store(Numbered[i], Numbered[i])]
    \o << I("csrr", s0, "sscratch", 0) >> \o Tail(SaveCsrs)
SaveAll ==
    << I("csrw", sp, "sscratch", 0), I("addi", sp, "none", -36) >>
    \o [i \in 1 .. Len(Numbered) |-> Store(Numbered[i], Numbered[i])]
    \o SaveCsrs

RestoreAllStaleEpc ==
    << Load(s1, 32), I("csrw", s1, "sstatus", 0) >>
    \o [i \in 1 .. Len(Numbered) - 1 |-> Load(Numbered[i + 1], Numbered[i + 1])]
    \o << Load(sp, 2) >>
RestoreAll ==
    << Load(s1, 32), Load(s2, 33), I("csrw", s1, "sstatus", 0), I("csrw", s2, "sepc", 0) >>
    \o [i \in 1 .. Len(Numbered) - 1 |-> Load(Numbered[i + 1], Numbered[i + 1])]
    \o << Load(sp, 2) >>

CodeNoSret == SaveAll \o << I("move", a0, "none", 0), I("jal", ra, "none", 0) >>
              \o RestoreAll
Code == SaveAll \o << I("move", a0, "none", 0), I("jal", ra, "none", 0) >>
        \o RestoreAll \o << I("sret", 0, "none", 0) >>

At(op) == pc \in DOMAIN Code /\ Code[pc].op = op
Operand == Code[pc].r
Slot == x[sp] + Code[pc].k
-----------------------------------------------------------------------------
TypeOK ==
    /\ x \in [Regs -> Int] /\ x[0] = 0
    /\ csr \in [{"sscratch", "sstatus", "sepc", "sbadaddr", "scause"} -> Int]
    /\ mem \in [0 .. Words - 1 -> Int]
    /\ pc \in DOMAIN Code \cup Program \cup {TrapEntryPoint} \cup TrapBody \cup Handled
    /\ Len(ctx) <= MaxDepth

(* Every register and every word of the stack in use holds a value of its  *)
(* own; the program has four words on the stack.                           *)
Init ==
    /\ x = [r \in Regs |-> IF r = 0 THEN 0 ELSE IF r = sp THEN Words - 4 ELSE 100 + r]
    /\ csr = [sscratch |-> 0, sstatus |-> 3, sepc |-> 0, sbadaddr |-> 0, scause |-> 0]
    /\ mem = [a \in 0 .. Words - 1 |-> IF a < Words - 4 THEN 0 ELSE 200 + a]
    /\ pc = 1000
    /\ ctx = <<>>

(* The hart takes a trap, from the program or from the body of trap().     *)
TakeTrap(cause) ==
    /\ pc \in Program \cup Raising /\ Len(ctx) < MaxDepth
    /\ ctx' = Append(ctx, [x |-> x, mem |-> mem, pc |-> pc, cause |-> cause,
                           status |-> csr.sstatus, advance |-> 0])
    /\ csr' = [csr EXCEPT !.sepc = pc, !.sstatus = Stacked(@),
                          !.scause = cause, !.sbadaddr = 5000 + Len(ctx)]
    /\ pc' = 1
    /\ UNCHANGED <<x, mem>>

Csrw ==
    /\ At("csrw")
    /\ csr' = [csr EXCEPT ![Code[pc].csr] = x[Operand]]
    /\ pc' = pc + 1
    /\ UNCHANGED <<x, mem, ctx>>

Csrr ==
    /\ At("csrr")
    /\ x' = [x EXCEPT ![Operand] = csr[Code[pc].csr]]
    /\ pc' = pc + 1
    /\ UNCHANGED <<csr, mem, ctx>>

(* csrrw rd, csr, x0                                                       *)
Csrrw ==
    /\ At("csrrw")
    /\ x' = [x EXCEPT ![Operand] = csr[Code[pc].csr]]
    /\ csr' = [csr EXCEPT ![Code[pc].csr] = 0]
    /\ pc' = pc + 1
    /\ UNCHANGED <<mem, ctx>>

Addi ==
    /\ At("addi")
    /\ x' = [x EXCEPT ![Operand] = @ + Code[pc].k]
    /\ pc' = pc + 1
    /\ UNCHANGED <<csr, mem, ctx>>

StoreWord ==
    /\ At("store")
    /\ mem' = [mem EXCEPT ![Slot] = x[Operand]]
    /\ pc' = pc + 1
    /\ UNCHANGED <<x, csr, ctx>>

LoadWord ==
    /\ At("load")
    /\ x' = [x EXCEPT ![Operand] = mem[Slot]]
    /\ pc' = pc + 1
    /\ UNCHANGED <<csr, mem, ctx>>

(* move a0, sp                                                             *)
Move ==
    /\ At("move")
    /\ x' = [x EXCEPT ![Operand] = x[sp]]
    /\ pc' = pc + 1
    /\ UNCHANGED <<csr, mem, ctx>>

Jal ==
    /\ At("jal")
    /\ x' = [x EXCEPT ![ra] = pc + 1]
    /\ pc' = TrapEntryPoint
    /\ UNCHANGED <<csr, mem, ctx>>

Sret ==
    /\ At("sret")
    /\ pc' = csr.sepc
    /\ csr' = [csr EXCEPT !.sstatus = Unstacked(@)]
    /\ ctx' = Front(ctx)
    /\ UNCHANGED <<x, mem>>
-----------------------------------------------------------------------------
(* trap() as the compiler may build it: it keeps ra and tf in its own      *)
(* frame, leaves anything in the registers the caller saves, and may       *)
(* advance tf->epc once, over the instruction that trapped, before it      *)
(* returns.                                                                *)
Clobbered(regs) == [r \in Regs |-> IF r \in CallerSaved THEN 500 + r ELSE regs[r]]
tf == mem[x[sp]]

EnterTrap ==
    /\ pc = TrapEntryPoint
    /\ mem' = [mem EXCEPT ![x[sp] - 1] = x[ra], ![x[sp] - 2] = x[a0]]
    /\ x' = [Clobbered(x) EXCEPT ![sp] = @ - 2]
    /\ pc' = 2001
    /\ UNCHANGED <<csr, ctx>>

Handle(k) ==
    /\ pc \in TrapBody /\ pc' = 2010
    /\ k # 0 => Last(ctx).pc \in Raising
    /\ mem' = [mem EXCEPT ![tf + 33] = @ + k]
    /\ ctx' = [ctx EXCEPT ![Len(ctx)].advance = k]
    /\ UNCHANGED <<x, csr>>

LeaveTrap ==
    /\ pc \in Handled
    /\ pc' = mem[x[sp] + 1]
    /\ x' = [Clobbered(x) EXCEPT ![sp] = @ + 2]
    /\ UNCHANGED <<csr, mem, ctx>>

(* Whatever the program does: of the stack, only what lies below its       *)
(* pointer counts as free.                                                 *)
RunProgram ==
    /\ pc \in Program /\ pc' \in Program
    /\ x' \in [Regs -> Int] /\ x'[0] = 0 /\ x'[sp] = x[sp]
    /\ mem' \in [0 .. Words - 1 -> Int]
    /\ \A a \in x[sp] .. Words - 1 : mem'[a] = mem[a]
    /\ UNCHANGED <<csr, ctx>>

Instruction == \/ Csrw \/ Csrr \/ Csrrw \/ Addi \/ StoreWord \/ LoadWord
               \/ Move \/ Jal \/ Sret
Next == \/ \E cause \in Causes : TakeTrap(cause)
        \/ \E k \in Advances : Handle(k)
        \/ Instruction \/ EnterTrap \/ LeaveTrap \/ RunProgram

Spec == Init /\ [][Next]_vars
-----------------------------------------------------------------------------
Base(c) == c.x[sp] - 36     \* the frame of a trap taken in c

(* The words of a frame that hold what its trap found, all but epc.        *)
Saved(c) == \A r \in Regs : mem[Base(c) + r] = c.x[r]

trap_in_kernel == (mem[x[a0] + 32] \div 4) % 2 # 0

(* trap() gets a struct trapframe of the interrupted state: each register  *)
(* in its slot, sp as it was, and the CSRs of this trap (trapentry.S:5-54, *)
(* trap.h:41-47), whatever order the scratch registers were used in; its   *)
(* status tells that the trap came from the kernel (trap.c:37-39).         *)
FrameFaithful ==
    pc = TrapEntryPoint =>
      LET c == Last(ctx) IN
        /\ x[a0] = Base(c) /\ Saved(c)
        /\ mem[x[a0] + 32] = Stacked(c.status) /\ mem[x[a0] + 33] = c.pc
        /\ mem[x[a0] + 34] = 5000 + Len(ctx) - 1 /\ mem[x[a0] + 35] = c.cause
        /\ trap_in_kernel

(* The interrupted code cannot tell that it was interrupted: after sret    *)
(* every register, the stack it had and sstatus are as before, and it goes *)
(* on at the address the handler left in tf->epc (trapentry.S:57-99).  Of  *)
(* sstatus SIE counts: SPIE is the hart's to set.                          *)
Transparent ==
    [][ At("sret") =>
          LET c == Last(ctx) IN
            /\ x' = c.x
            /\ \A a \in c.x[sp] .. Words - 1 : mem[a] = c.mem[a]
            /\ csr'.sstatus % 2 = c.status % 2
            /\ pc' = c.pc + c.advance ]_vars

(* A trap taken while another is in hand leaves the other's frame as it    *)
(* is, with the epc its handler has set or has still to set.               *)
OuterFramesIntact ==
    \A d \in 1 .. Len(ctx) - 1 :
      Saved(ctx[d]) /\ mem[Base(ctx[d]) + 33] = ctx[d].pc + ctx[d].advance

(* sscratch is 0 whenever C code or the program runs, as the comment of    *)
(* idt_init has it; this vector itself does not ask (trap.c:29-31,         *)
(* trapentry.S:42-44).                                                     *)
ScratchClear == pc \notin DOMAIN Code => csr.sscratch = 0
=============================================================================
