--------------------------- MODULE TrapEntryProofs ---------------------------
(***************************************************************************)
(* The trap path of trapentry.S saves and restores whatever it interrupts, *)
(* for any depth of traps, any size of the stack that holds them, any      *)
(* values in the registers, any causes and any advances of the handlers.   *)
(*                                                                         *)
(* Inv says where the frame of each trap in hand lies and what is in it;   *)
(* for the innermost trap, it says instruction by instruction which        *)
(* registers are saved so far and what the scratch registers, the CSRs and *)
(* the frame hold meanwhile (Entering, Leaving).  The steps inside         *)
(* trapentry.S and trap() write below the stack pointer of the state they  *)
(* interrupted only (Aside), which is why the outer frames survive.        *)
(***************************************************************************)
EXTENDS TrapEntry, SequenceTheorems, TLAPS

(* Where the k-th trap in hand has its struct trapframe: each trap takes   *)
(* 36 words, and trap() two below them.                                    *)
FrameAt(k) == Words - 2 - 38 * k

Contexts ==
    [x : {regs \in [Regs -> Int] : regs[0] = 0}, mem : [0 .. Words - 1 -> Int],
     pc : Int, cause : Int, status : Int, advance : 0 .. 4]

CtxOK ==
    /\ ctx \in Seq(Contexts) /\ Len(ctx) <= MaxDepth
    /\ \A k \in 1 .. Len(ctx) :
         /\ ctx[k].x[sp] = FrameAt(k) + 36
         /\ ctx[k].pc \in IF k = 1 THEN Program ELSE {2001, 2010}
         /\ ctx[k].advance # 0 => ctx[k].pc \in Raising

(* The frame of a trap, with the epc the handler has left in it, and what  *)
(* trap() keeps below it.                                                  *)
Whole(c, f) ==
    /\ \A r \in Regs : mem[f + r] = c.x[r]
    /\ mem[f + 32] = Stacked(c.status) /\ mem[f + 33] = c.pc + c.advance
Linked(f) == mem[f - 2] = f /\ mem[f - 1] = 46

Outer ==
    \A k \in 1 .. Len(ctx) - 1 :
        /\ Whole(ctx[k], FrameAt(k)) /\ Linked(FrameAt(k))
        /\ ctx[k + 1].pc = 2001 => ctx[k].advance = 0

(* Nothing above the frame of a trap has changed since it was taken.       *)
StackKept ==
    \A k \in 1 .. Len(ctx) : \A a \in FrameAt(k) + 36 .. Words - 1 : mem[a] = ctx[k].mem[a]

(* The instructions that store and load a register.                        *)
StoredAt(r) == IF r < 2 THEN r + 3 ELSE r + 2
LoadedAt(r) == IF r = 1 THEN 50 ELSE r + 48

(* The CSRs by name.                                                       *)
Scratch == csr.sscratch
Status == csr.sstatus
Epc == csr.sepc
BadAddr == csr.sbadaddr
Cause == csr.scause

(* SAVE_ALL up to the call, by how far it has come, for the innermost      *)
(* trap: its frame is f and the state it interrupted c.                    *)
EnteringCsrs(c, f) ==
    /\ Scratch = IF pc \in 2 .. 34 THEN f + 36 ELSE 0
    /\ Status = Stacked(c.status) /\ Epc = c.pc
    /\ BadAddr = 5000 + Len(ctx) - 1 /\ Cause = c.cause
EnteringRegs(c, f) ==
    /\ x[sp] = IF pc <= 2 THEN f + 36 ELSE f
    /\ pc <= 34 => \A r \in Regs \ {sp} : x[r] = c.x[r]
    /\ pc > 34 => x[s0] = f + 36
    /\ pc > 35 => x[s1] = Stacked(c.status)
    /\ pc > 36 => x[s2] = c.pc
    /\ pc > 37 => x[s3] = 5000 + Len(ctx) - 1
    /\ pc > 38 => x[s4] = c.cause
    /\ pc > 44 => x[a0] = f
EnteringFrame(c, f) ==
    /\ \A r \in Regs \ {sp} : StoredAt(r) < pc => mem[f + r] = c.x[r]
    /\ pc > 39 => mem[f + 2] = f + 36
    /\ pc > 40 => mem[f + 32] = Stacked(c.status)
    /\ pc > 41 => mem[f + 33] = c.pc
    /\ pc > 42 => mem[f + 34] = 5000 + Len(ctx) - 1
    /\ pc > 43 => mem[f + 35] = c.cause
Entering(c, f) ==
    c.advance = 0 /\ EnteringCsrs(c, f) /\ EnteringRegs(c, f) /\ EnteringFrame(c, f)

(* trap(): before its first instruction, and in its body.                  *)
Calling(c, f) ==
    /\ c.advance = 0 /\ x[sp] = f /\ x[a0] = f /\ x[ra] = 46 /\ Scratch = 0
    /\ mem[f + 34] = 5000 + Len(ctx) - 1 /\ mem[f + 35] = c.cause
InTrap(f) == x[sp] = f - 2 /\ Scratch = 0

(* RESTORE_ALL.                                                            *)
Leaving(c, f) ==
    /\ Scratch = 0
    /\ x[sp] = IF pc = 81 THEN f + 36 ELSE f
    /\ pc \in {47, 48} => x[s1] = Stacked(c.status)
    /\ pc \in {48, 49} => x[s2] = c.pc + c.advance
    /\ pc > 48 => Status = Stacked(c.status)
    /\ pc > 49 => Epc = c.pc + c.advance
    /\ \A r \in Regs \ {0, sp} : LoadedAt(r) < pc => x[r] = c.x[r]

(* The innermost trap, taken from c and with its frame at f.               *)
Within(c, f) ==
    /\ pc \in 1 .. 45 => Entering(c, f)
    /\ pc = TrapEntryPoint => Calling(c, f) /\ Whole(c, f)
    /\ pc \in TrapBody => InTrap(f) /\ Whole(c, f) /\ Linked(f) /\ c.advance = 0
    /\ pc \in Handled => InTrap(f) /\ Whole(c, f) /\ Linked(f)
    /\ pc \in 46 .. 81 => Leaving(c, f) /\ Whole(c, f)

Here ==
    /\ pc \in Program <=> ctx = <<>>
    /\ pc \in Program => x[sp] = Words - 4 /\ Scratch = 0
    /\ ctx # <<>> =>
         \A c \in {ctx[Len(ctx)]}, f \in {FrameAt(Len(ctx))} : Within(c, f)

(* The inductive invariant.                                                *)
Inv == TypeOK /\ CtxOK /\ Outer /\ StackKept /\ Here
-----------------------------------------------------------------------------
(* The code, instruction by instruction: what trapentry.S is once its      *)
(* macros are expanded.                                                    *)
Ops == {"csrw", "csrr", "csrrw", "addi", "store", "load", "move", "jal", "sret"}
Csrs == {"none", "sscratch", "sstatus", "sepc", "sbadaddr", "scause"}
Instructions == [op : Ops, r : Int, csr : Csrs, k : Int]
NumberedReg(m) == IF m <= 2 THEN m - 1 ELSE m
Cat(m, n, a, b) == [i \in 1 .. m + n |-> IF i <= m THEN a[i] ELSE b[i - m]]

(* Two sequences end to end, place by place.                               *)
LEMMA Joined ==
  ASSUME NEW S, NEW m \in Nat, NEW n \in Nat, NEW a \in [1 .. m -> S], NEW b \in [1 .. n -> S]
  PROVE  a \o b = Cat(m, n, a, b)
<1>1. a \in Seq(S) /\ b \in Seq(S) /\ Len(a) = m /\ Len(b) = n
  BY SeqDef, LenProperties
<1>2. /\ a \o b \in Seq(S) /\ Len(a \o b) = Len(a) + Len(b)
      /\ \A i \in 1 .. Len(a) + Len(b) :
           (a \o b)[i] = IF i <= Len(a) THEN a[i] ELSE b[i - Len(a)]
  BY <1>1, ConcatProperties, Zenon
<1>3. \A i \in 1 .. m + n : (a \o b)[i] = IF i <= m THEN a[i] ELSE b[i - m]
  BY <1>1, <1>2, Zenon
<1>4. a \o b \in [1 .. m + n -> S]
  BY <1>1, <1>2, LenProperties, Zenon
<1> QED
  BY <1>3, <1>4, Zenon DEF Cat

(* The registers saved in their own slots: x0, x1, x3 .. x31.              *)
LEMMA NumberedIs == Numbered = [m \in 1 .. 31 |-> NumberedReg(m)]
<1> DEFINE first == <<0, 1>>
           rest == [i \in 1 .. 29 |-> i + 2]
<1>1. first \in [1 .. 2 -> Regs] /\ first[1] = 0 /\ first[2] = 1
  BY DEF Regs
<1>2. rest \in [1 .. 29 -> Regs] /\ \A i \in 1 .. 29 : rest[i] = i + 2
  BY DEF Regs
<1>3. 2 \in Nat
  OBVIOUS
<1>4. 29 \in Nat
  OBVIOUS
<1>5. Numbered = first \o rest
  BY DEF Numbered
<1> HIDE DEF first, rest
<1>6. first \o rest = Cat(2, 29, first, rest)
  <2>1. first \in [1 .. 2 -> Regs]
    BY <1>1
  <2>2. rest \in [1 .. 29 -> Regs]
    BY <1>2
  <2> QED
    BY <2>1, <2>2, <1>3, <1>4, Joined, Zenon
<1> QED
  BY <1>1, <1>2, <1>5, <1>6 DEF Cat, NumberedReg

(* The ten instructions of SAVE_ALL that save the CSRs and the old sp      *)
(* (trapentry.S:40-54).                                                    *)
LEMMA SaveCsrsIs ==
  /\ SaveCsrs \in [1 .. 10 -> Instructions]
  /\ SaveCsrs[1] = I("csrrw", s0, "sscratch", 0) /\ SaveCsrs[2] = I("csrr", s1, "sstatus", 0)
  /\ SaveCsrs[3] = I("csrr", s2, "sepc", 0) /\ SaveCsrs[4] = I("csrr", s3, "sbadaddr", 0)
  /\ SaveCsrs[5] = I("csrr", s4, "scause", 0)
  /\ SaveCsrs[6] = Store(s0, 2) /\ SaveCsrs[7] = Store(s1, 32) /\ SaveCsrs[8] = Store(s2, 33)
  /\ SaveCsrs[9] = Store(s3, 34) /\ SaveCsrs[10] = Store(s4, 35)
<1> DEFINE i1 == I("csrrw", s0, "sscratch", 0)
           i2 == I("csrr", s1, "sstatus", 0)
           i3 == I("csrr", s2, "sepc", 0)
           i4 == I("csrr", s3, "sbadaddr", 0)
           i5 == I("csrr", s4, "scause", 0)
           i6 == Store(s0, 2)
           i7 == Store(s1, 32)
           i8 == Store(s2, 33)
           i9 == Store(s3, 34)
           i10 == Store(s4, 35)
<1>1. /\ i1 \in Instructions /\ i2 \in Instructions /\ i3 \in Instructions
      /\ i4 \in Instructions /\ i5 \in Instructions /\ i6 \in Instructions
      /\ i7 \in Instructions /\ i8 \in Instructions /\ i9 \in Instructions
      /\ i10 \in Instructions
  BY DEF I, Instructions, Ops, Csrs, Store, s0, s1, s2, s3, s4
<1>2. SaveCsrs = <<i1, i2, i3, i4, i5, i6, i7, i8, i9, i10>>
  BY DEF SaveCsrs
<1> HIDE DEF i1, i2, i3, i4, i5, i6, i7, i8, i9, i10
<1>3. /\ SaveCsrs \in [1 .. 10 -> Instructions]
      /\ SaveCsrs[1] = i1 /\ SaveCsrs[2] = i2 /\ SaveCsrs[3] = i3 /\ SaveCsrs[4] = i4
      /\ SaveCsrs[5] = i5 /\ SaveCsrs[6] = i6 /\ SaveCsrs[7] = i7 /\ SaveCsrs[8] = i8
      /\ SaveCsrs[9] = i9 /\ SaveCsrs[10] = i10
  BY <1>1, <1>2
<1> QED
  BY <1>3, Zenon DEF i1, i2, i3, i4, i5, i6, i7, i8, i9, i10

(* SAVE_ALL: 43 instructions (trapentry.S:5-54).                           *)
LEMMA SaveAllIs ==
  /\ SaveAll \in [1 .. 43 -> Instructions]
  /\ SaveAll[1] = I("csrw", sp, "sscratch", 0) /\ SaveAll[2] = I("addi", sp, "none", -36)
  /\ \A i \in 1 .. 31 : SaveAll[2 + i] = Store(NumberedReg(i), NumberedReg(i))
  /\ \A i \in 1 .. 10 : SaveAll[33 + i] = SaveCsrs[i]
<1> DEFINE i1 == I("csrw", sp, "sscratch", 0)
           i2 == I("addi", sp, "none", -36)
           head == <<i1, i2>>
           stores == [i \in 1 .. Len(Numbered) |-> Store(Numbered[i], Numbered[i])]
<1>1. i1 \in Instructions /\ i2 \in Instructions
  BY DEF I, Instructions, Ops, Csrs, sp
<1>2. SaveAll = (head \o stores) \o SaveCsrs
  BY DEF SaveAll
<1>3. /\ stores \in [1 .. 31 -> Instructions]
      /\ \A i \in 1 .. 31 : stores[i] = Store(NumberedReg(i), NumberedReg(i))
  <2>1. \A i \in 1 .. 31 : NumberedReg(i) \in Int
    BY DEF NumberedReg
  <2>2. \A r \in Int : Store(r, r) \in Instructions
    BY DEF I, Instructions, Ops, Csrs, Store
  <2>3. Len(Numbered) = 31
    BY NumberedIs
  <2>4. \A i \in 1 .. 31 : stores[i] = Store(NumberedReg(i), NumberedReg(i))
    BY NumberedIs, <2>3, Zenon
  <2>5. \A i \in 1 .. 31 : stores[i] \in Instructions
    BY <2>1, <2>2, <2>4, Zenon
  <2>6. stores = [i \in 1 .. 31 |-> stores[i]]
    BY <2>3, Zenon
  <2> QED
    BY <2>4, <2>5, <2>6, Zenon
<1> HIDE DEF i1, i2, stores
<1>4. head \in [1 .. 2 -> Instructions] /\ head[1] = i1 /\ head[2] = i2
  BY <1>1
<1> HIDE DEF head
<1> DEFINE front == head \o stores
<1>5. /\ front \in [1 .. 33 -> Instructions] /\ front[1] = i1 /\ front[2] = i2
      /\ \A i \in 1 .. 31 : front[2 + i] = stores[i]
  <2>1. 2 \in Nat
    OBVIOUS
  <2>2. 31 \in Nat
    OBVIOUS
  <2>3. front = Cat(2, 31, head, stores)
    <3>1. head \in [1 .. 2 -> Instructions]
      BY <1>3, <1>4
    <3>2. stores \in [1 .. 31 -> Instructions]
      BY <1>3, <1>4
    <3>3. head \o stores = Cat(2, 31, head, stores)
      BY <2>1, <2>2, <3>1, <3>2, Joined, Zenon
    <3> QED
      BY <3>3, Zenon
  <2> QED
    BY <1>3, <1>4, <2>3 DEF Cat
<1>6. SaveAll = front \o SaveCsrs
  BY <1>2
<1> HIDE DEF front
<1>7. /\ SaveAll \in [1 .. 43 -> Instructions]
      /\ \A i \in 1 .. 33 : SaveAll[i] = front[i]
      /\ \A i \in 1 .. 10 : SaveAll[33 + i] = SaveCsrs[i]
  <2>1. 33 \in Nat
    OBVIOUS
  <2>2. 10 \in Nat
    OBVIOUS
  <2>3. SaveAll = Cat(33, 10, front, SaveCsrs)
    <3>1. front \in [1 .. 33 -> Instructions]
      BY <1>5, <1>6, SaveCsrsIs
    <3>2. SaveCsrs \in [1 .. 10 -> Instructions]
      BY <1>5, <1>6, SaveCsrsIs
    <3>3. front \o SaveCsrs = Cat(33, 10, front, SaveCsrs)
      BY <2>1, <2>2, <3>1, <3>2, Joined, Zenon
    <3> QED
      BY <3>3, <1>6, Zenon
  <2> QED
    BY <1>5, <2>3, SaveCsrsIs DEF Cat
<1>8. SaveAll[1] = i1 /\ SaveAll[2] = i2
  BY <1>5, <1>7
<1>9. \A i \in 1 .. 31 : SaveAll[2 + i] = stores[i]
  BY <1>5, <1>7
<1> QED
  BY <1>3, <1>7, <1>8, <1>9, Zenon DEF i1, i2

(* RESTORE_ALL: 35 instructions (trapentry.S:57-98).                       *)
LEMMA RestoreAllIs ==
  /\ RestoreAll \in [1 .. 35 -> Instructions]
  /\ RestoreAll[1] = Load(s1, 32) /\ RestoreAll[2] = Load(s2, 33)
  /\ RestoreAll[3] = I("csrw", s1, "sstatus", 0) /\ RestoreAll[4] = I("csrw", s2, "sepc", 0)
  /\ \A i \in 1 .. 30 : RestoreAll[4 + i] = Load(NumberedReg(i + 1), NumberedReg(i + 1))
  /\ RestoreAll[35] = Load(sp, 2)
<1> DEFINE i1 == Load(s1, 32)
           i2 == Load(s2, 33)
           i3 == I("csrw", s1, "sstatus", 0)
           i4 == I("csrw", s2, "sepc", 0)
           i5 == Load(sp, 2)
           head == <<i1, i2, i3, i4>>
           loads == [i \in 1 .. Len(Numbered) - 1 |-> Load(Numbered[i + 1], Numbered[i + 1])]
           last == <<i5>>
<1>1. /\ i1 \in Instructions /\ i2 \in Instructions /\ i3 \in Instructions
      /\ i4 \in Instructions /\ i5 \in Instructions
  BY DEF I, Instructions, Ops, Csrs, Load, sp, s1, s2
<1>2. RestoreAll = (head \o loads) \o last
  BY DEF RestoreAll
<1>3. /\ loads \in [1 .. 30 -> Instructions]
      /\ \A i \in 1 .. 30 : loads[i] = Load(NumberedReg(i + 1), NumberedReg(i + 1))
  <2>1. \A i \in 1 .. 30 : NumberedReg(i + 1) \in Int /\ Numbered[i + 1] = NumberedReg(i + 1)
    BY NumberedIs DEF NumberedReg
  <2>2. \A r \in Int : Load(r, r) \in Instructions
    BY DEF I, Instructions, Ops, Csrs, Load
  <2>3. Len(Numbered) - 1 = 30
    BY NumberedIs
  <2>4. \A i \in 1 .. 30 : loads[i] = Load(NumberedReg(i + 1), NumberedReg(i + 1))
    BY <2>1, <2>3, Zenon
  <2>5. \A i \in 1 .. 30 : loads[i] \in Instructions
    BY <2>1, <2>2, <2>4, Zenon
  <2>6. loads = [i \in 1 .. 30 |-> loads[i]]
    BY <2>3, Zenon
  <2> QED
    BY <2>4, <2>5, <2>6, Zenon
<1> HIDE DEF i1, i2, i3, i4, i5, loads
<1>4. /\ head \in [1 .. 4 -> Instructions]
      /\ head[1] = i1 /\ head[2] = i2 /\ head[3] = i3 /\ head[4] = i4
      /\ last \in [1 .. 1 -> Instructions] /\ last[1] = i5
  BY <1>1
<1> HIDE DEF head, last
<1> DEFINE front == head \o loads
<1>5. /\ front \in [1 .. 34 -> Instructions]
      /\ front[1] = i1 /\ front[2] = i2 /\ front[3] = i3 /\ front[4] = i4
      /\ \A i \in 1 .. 30 : front[4 + i] = loads[i]
  <2>1. 4 \in Nat
    OBVIOUS
  <2>2. 30 \in Nat
    OBVIOUS
  <2>3. front = Cat(4, 30, head, loads)
    <3>1. head \in [1 .. 4 -> Instructions]
      BY <1>3, <1>4
    <3>2. loads \in [1 .. 30 -> Instructions]
      BY <1>3, <1>4
    <3>3. head \o loads = Cat(4, 30, head, loads)
      BY <2>1, <2>2, <3>1, <3>2, Joined, Zenon
    <3> QED
      BY <3>3, Zenon
  <2> QED
    BY <1>3, <1>4, <2>3 DEF Cat
<1>6. RestoreAll = front \o last
  BY <1>2
<1> HIDE DEF front
<1>7. /\ RestoreAll \in [1 .. 35 -> Instructions]
      /\ \A i \in 1 .. 34 : RestoreAll[i] = front[i]
      /\ RestoreAll[35] = i5
  <2>1. 34 \in Nat
    OBVIOUS
  <2>2. 1 \in Nat
    OBVIOUS
  <2>3. RestoreAll = Cat(34, 1, front, last)
    <3>1. front \in [1 .. 34 -> Instructions]
      BY <1>4, <1>5, <1>6
    <3>2. last \in [1 .. 1 -> Instructions]
      BY <1>4, <1>5, <1>6
    <3>3. front \o last = Cat(34, 1, front, last)
      BY <2>1, <2>2, <3>1, <3>2, Joined, Zenon
    <3> QED
      BY <3>3, <1>6, Zenon
  <2> QED
    BY <1>4, <1>5, <2>3 DEF Cat
<1>8. RestoreAll[1] = i1 /\ RestoreAll[2] = i2 /\ RestoreAll[3] = i3 /\ RestoreAll[4] = i4
  BY <1>5, <1>7
<1>9. \A i \in 1 .. 30 : RestoreAll[4 + i] = loads[i]
  BY <1>5, <1>7
<1> QED
  BY <1>3, <1>7, <1>8, <1>9, Zenon DEF i1, i2, i3, i4, i5

(* The whole path: SAVE_ALL, the call, RESTORE_ALL, sret.                  *)
LEMMA CodeIs ==
  /\ Code \in [1 .. 81 -> Instructions]
  /\ \A j \in 1 .. 43 : Code[j] = SaveAll[j]
  /\ Code[44] = I("move", a0, "none", 0) /\ Code[45] = I("jal", ra, "none", 0)
  /\ \A j \in 1 .. 35 : Code[45 + j] = RestoreAll[j]
  /\ Code[81] = I("sret", 0, "none", 0)
<1> DEFINE i1 == I("move", a0, "none", 0)
           i2 == I("jal", ra, "none", 0)
           i3 == I("sret", 0, "none", 0)
           mid == <<i1, i2>>
           last == <<i3>>
<1>1. i1 \in Instructions /\ i2 \in Instructions /\ i3 \in Instructions
  BY DEF I, Instructions, Ops, Csrs, a0, ra
<1>2. Code = ((SaveAll \o mid) \o RestoreAll) \o last
  BY DEF Code
<1> HIDE DEF i1, i2, i3
<1>3. /\ mid \in [1 .. 2 -> Instructions] /\ mid[1] = i1 /\ mid[2] = i2
      /\ last \in [1 .. 1 -> Instructions] /\ last[1] = i3
  BY <1>1
<1>4. SaveAll \in [1 .. 43 -> Instructions]
  BY SaveAllIs
<1>5. RestoreAll \in [1 .. 35 -> Instructions]
  BY RestoreAllIs
<1> HIDE DEF mid, last
<1> DEFINE front == SaveAll \o mid
           body == front \o RestoreAll
<1>6. /\ front \in [1 .. 45 -> Instructions]
      /\ \A i \in 1 .. 43 : front[i] = SaveAll[i]
      /\ front[44] = i1 /\ front[45] = i2
  <2>1. front = Cat(43, 2, SaveAll, mid)
    <3> DEFINE m == 43
               n == 2
    <3>1. m \in Nat /\ SaveAll \in [1 .. m -> Instructions]
      BY <1>4
    <3>2. n \in Nat /\ mid \in [1 .. n -> Instructions]
      BY <1>3
    <3> HIDE DEF m, n
    <3>3. SaveAll \o mid = Cat(m, n, SaveAll, mid)
      BY <3>1, <3>2, Joined, Zenon
    <3> QED
      BY <3>3, Zenon DEF m, n
  <2> QED
    BY <1>3, <1>4, <2>1 DEF Cat
<1>7. Code = body \o last
  BY <1>2
<1> HIDE DEF front
<1>8. /\ body \in [1 .. 80 -> Instructions]
      /\ \A i \in 1 .. 45 : body[i] = front[i]
      /\ \A i \in 1 .. 35 : body[45 + i] = RestoreAll[i]
  <2>1. body = Cat(45, 35, front, RestoreAll)
    <3> DEFINE m == 45
               n == 35
    <3>1. m \in Nat /\ front \in [1 .. m -> Instructions]
      BY <1>5, <1>6
    <3>2. n \in Nat /\ RestoreAll \in [1 .. n -> Instructions]
      BY <1>5, <1>6
    <3> HIDE DEF m, n
    <3>3. front \o RestoreAll = Cat(m, n, front, RestoreAll)
      BY <3>1, <3>2, Joined, Zenon
    <3> QED
      BY <3>3, Zenon DEF m, n
  <2> QED
    BY <1>5, <1>6, <2>1 DEF Cat
<1> HIDE DEF body
<1>9. /\ Code \in [1 .. 81 -> Instructions]
      /\ \A i \in 1 .. 80 : Code[i] = body[i]
      /\ Code[81] = i3
  <2>1. Code = Cat(80, 1, body, last)
    <3> DEFINE m == 80
               n == 1
    <3>1. m \in Nat /\ body \in [1 .. m -> Instructions]
      BY <1>3, <1>7, <1>8
    <3>2. n \in Nat /\ last \in [1 .. n -> Instructions]
      BY <1>3, <1>7, <1>8
    <3> HIDE DEF m, n
    <3>3. body \o last = Cat(m, n, body, last)
      BY <3>1, <3>2, Joined, Zenon
    <3> QED
      BY <3>3, <1>7, Zenon DEF m, n
  <2> QED
    BY <1>3, <1>8, <2>1 DEF Cat
<1>10. \A j \in 1 .. 43 : Code[j] = SaveAll[j]
  BY <1>6, <1>8, <1>9
<1>11. Code[44] = i1 /\ Code[45] = i2
  BY <1>6, <1>8, <1>9
<1>12. \A j \in 1 .. 35 : Code[45 + j] = RestoreAll[j]
  BY <1>8, <1>9
<1> QED
  BY <1>9, <1>10, <1>11, <1>12, Zenon DEF i1, i2, i3

(* trapentry.S as a table, up to the call and from it on.                  *)
LEMMA EntryTable ==
  /\ Code[1].op = "csrw" /\ Code[1].r = 2 /\ Code[1].csr = "sscratch"
  /\ Code[2].op = "addi" /\ Code[2].r = 2 /\ Code[2].k = -36
  /\ \A j \in 3 .. 33 : /\ Code[j].op = "store"
                        /\ Code[j].r = NumberedReg(j - 2) /\ Code[j].k = NumberedReg(j - 2)
  /\ Code[34].op = "csrrw" /\ Code[34].r = 8 /\ Code[34].csr = "sscratch"
  /\ Code[35].op = "csrr" /\ Code[35].r = 9 /\ Code[35].csr = "sstatus"
  /\ Code[36].op = "csrr" /\ Code[36].r = 18 /\ Code[36].csr = "sepc"
  /\ Code[37].op = "csrr" /\ Code[37].r = 19 /\ Code[37].csr = "sbadaddr"
  /\ Code[38].op = "csrr" /\ Code[38].r = 20 /\ Code[38].csr = "scause"
  /\ Code[39].op = "store" /\ Code[39].r = 8 /\ Code[39].k = 2
  /\ Code[40].op = "store" /\ Code[40].r = 9 /\ Code[40].k = 32
  /\ Code[41].op = "store" /\ Code[41].r = 18 /\ Code[41].k = 33
  /\ Code[42].op = "store" /\ Code[42].r = 19 /\ Code[42].k = 34
  /\ Code[43].op = "store" /\ Code[43].r = 20 /\ Code[43].k = 35
<1>1. \A i \in 1 .. 10 : Code[33 + i] = SaveCsrs[i]
  BY CodeIs, SaveAllIs
<1>2. \A j \in 3 .. 33 : Code[j] = Store(NumberedReg(j - 2), NumberedReg(j - 2))
  <2> TAKE j \in 3 .. 33
  <2>1. j - 2 \in 1 .. 31 /\ 2 + (j - 2) = j /\ j \in 1 .. 43
    OBVIOUS
  <2>2. SaveAll[2 + (j - 2)] = Store(NumberedReg(j - 2), NumberedReg(j - 2))
    BY <2>1, SaveAllIs, Zenon
  <2> QED
    BY <2>1, <2>2, CodeIs
<1>3. Code[1] = I("csrw", sp, "sscratch", 0) /\ Code[2] = I("addi", sp, "none", -36)
  BY CodeIs, SaveAllIs
<1>4. /\ Code[34] = SaveCsrs[1] /\ Code[35] = SaveCsrs[2] /\ Code[36] = SaveCsrs[3]
      /\ Code[37] = SaveCsrs[4] /\ Code[38] = SaveCsrs[5] /\ Code[39] = SaveCsrs[6]
      /\ Code[40] = SaveCsrs[7] /\ Code[41] = SaveCsrs[8] /\ Code[42] = SaveCsrs[9]
      /\ Code[43] = SaveCsrs[10]
  BY <1>1
<1> QED
  BY <1>2, <1>3, <1>4, SaveCsrsIs DEF I, Store, sp, s0, s1, s2, s3, s4

(* The return path as a table, from the call on.                           *)
LEMMA ReturnTable ==
  /\ Code[44].op = "move" /\ Code[44].r = 10
  /\ Code[45].op = "jal"
  /\ Code[46].op = "load" /\ Code[46].r = 9 /\ Code[46].k = 32
  /\ Code[47].op = "load" /\ Code[47].r = 18 /\ Code[47].k = 33
  /\ Code[48].op = "csrw" /\ Code[48].r = 9 /\ Code[48].csr = "sstatus"
  /\ Code[49].op = "csrw" /\ Code[49].r = 18 /\ Code[49].csr = "sepc"
  /\ \A j \in 50 .. 79 : /\ Code[j].op = "load"
                         /\ Code[j].r = NumberedReg(j - 48) /\ Code[j].k = NumberedReg(j - 48)
  /\ Code[80].op = "load" /\ Code[80].r = 2 /\ Code[80].k = 2
  /\ Code[81].op = "sret"
<1>1. \A j \in 50 .. 79 : Code[j] = Load(NumberedReg(j - 48), NumberedReg(j - 48))
  <2> TAKE j \in 50 .. 79
  <2>1. /\ j - 49 \in 1 .. 30 /\ 4 + (j - 49) = j - 45 /\ (j - 49) + 1 = j - 48
        /\ j - 45 \in 1 .. 35 /\ 45 + (j - 45) = j
    OBVIOUS
  <2>2. RestoreAll[j - 45] = Load(NumberedReg(j - 48), NumberedReg(j - 48))
    BY <2>1, RestoreAllIs
  <2> QED
    BY <2>1, <2>2, CodeIs
<1>2. /\ Code[46] = RestoreAll[1] /\ Code[47] = RestoreAll[2] /\ Code[48] = RestoreAll[3]
      /\ Code[49] = RestoreAll[4] /\ Code[80] = RestoreAll[35]
  BY CodeIs
<1> QED
  BY <1>1, <1>2, CodeIs, RestoreAllIs DEF I, Load, a0, ra, sp, s1, s2

(* There are 81 instructions.                                              *)
LEMMA CodeDomain == DOMAIN Code = 1 .. 81
  BY CodeIs

(* The operations alone.                                                   *)
LEMMA OpTable ==
  /\ Code[1].op = "csrw" /\ Code[2].op = "addi" /\ Code[34].op = "csrrw"
  /\ \A j \in 3 .. 33 : Code[j].op = "store"
  /\ \A j \in 35 .. 38 : Code[j].op = "csrr"
  /\ \A j \in 39 .. 43 : Code[j].op = "store"
  /\ Code[44].op = "move" /\ Code[45].op = "jal" /\ Code[81].op = "sret"
  /\ \A j \in 46 .. 47 : Code[j].op = "load"
  /\ \A j \in 48 .. 49 : Code[j].op = "csrw"
  /\ \A j \in 50 .. 80 : Code[j].op = "load"
  BY EntryTable, ReturnTable

(* Where each kind of instruction stands.                                  *)
Stands(op, p) ==
  /\ op = "csrw" => p \in {1, 48, 49}
  /\ op = "csrr" => p \in 35 .. 38
  /\ op = "csrrw" => p = 34
  /\ op = "addi" => p = 2
  /\ op = "store" => p \in 3 .. 33 \/ p \in 39 .. 43
  /\ op = "load" => p \in 46 .. 47 \/ p \in 50 .. 80
  /\ op = "move" => p = 44
  /\ op = "jal" => p = 45
  /\ op = "sret" => p = 81

(* An operation is found at the places of its kind only.                   *)
LEMMA AllStand == \A p \in 1 .. 81 : Stands(Code[p].op, p)
<1> SUFFICES ASSUME NEW p \in 1 .. 81 PROVE Stands(Code[p].op, p)
  OBVIOUS
<1>1. CASE p = 1
  BY <1>1, OpTable DEF Stands
<1>2. CASE p = 2
  BY <1>2, OpTable DEF Stands
<1>3. CASE p \in 3 .. 33
  <2>1. Code[p].op = "store"
    BY <1>3, OpTable
  <2> QED
    BY <1>3, <2>1 DEF Stands
<1>4. CASE p = 34
  BY <1>4, OpTable DEF Stands
<1>5. CASE p \in 35 .. 38
  <2>1. Code[p].op = "csrr"
    BY <1>5, OpTable
  <2> QED
    BY <1>5, <2>1 DEF Stands
<1>6. CASE p \in 39 .. 43
  <2>1. Code[p].op = "store"
    BY <1>6, OpTable
  <2> QED
    BY <1>6, <2>1 DEF Stands
<1>7. CASE p = 44
  BY <1>7, OpTable DEF Stands
<1>8. CASE p = 45
  BY <1>8, OpTable DEF Stands
<1>9. CASE p \in 46 .. 47
  <2>1. Code[p].op = "load"
    BY <1>9, OpTable
  <2> QED
    BY <1>9, <2>1 DEF Stands
<1>10. CASE p \in 48 .. 49
  <2>1. Code[p].op = "csrw"
    BY <1>10, OpTable
  <2> QED
    BY <1>10, <2>1 DEF Stands
<1>11. CASE p \in 50 .. 80
  <2>1. Code[p].op = "load"
    BY <1>11, OpTable
  <2> QED
    BY <1>11, <2>1 DEF Stands
<1>12. CASE p = 81
  BY <1>12, OpTable DEF Stands
<1> QED
  BY <1>1, <1>2, <1>3, <1>4, <1>5, <1>6, <1>7, <1>8, <1>9, <1>10, <1>11, <1>12

(* Where each operation stands.                                            *)
LEMMA AtStands ==
  /\ At("csrw") => pc \in {1, 48, 49}
  /\ At("csrr") => pc \in 35 .. 38
  /\ At("csrrw") => pc = 34
  /\ At("addi") => pc = 2
  /\ At("store") => pc \in 3 .. 33 \/ pc \in 39 .. 43
  /\ At("load") => pc \in 46 .. 47 \/ pc \in 50 .. 80
  /\ At("move") => pc = 44
  /\ At("jal") => pc = 45
  /\ At("sret") => pc = 81
  BY CodeDomain, AllStand, Zenon DEF At, Stands

(* The operands there.                                                     *)
LEMMA AtCsrw ==
  At("csrw") => \/ pc = 1 /\ Operand = 2 /\ Code[pc].csr = "sscratch"
                \/ pc = 48 /\ Operand = 9 /\ Code[pc].csr = "sstatus"
                \/ pc = 49 /\ Operand = 18 /\ Code[pc].csr = "sepc"
  BY AtStands, EntryTable, ReturnTable DEF Operand

(* The reads of the CSRs.                                                  *)
LEMMA AtCsrr ==
  At("csrr") => \/ pc = 35 /\ Operand = 9 /\ Code[pc].csr = "sstatus"
                \/ pc = 36 /\ Operand = 18 /\ Code[pc].csr = "sepc"
                \/ pc = 37 /\ Operand = 19 /\ Code[pc].csr = "sbadaddr"
                \/ pc = 38 /\ Operand = 20 /\ Code[pc].csr = "scause"
  BY AtStands, EntryTable DEF Operand

(* The operations that stand at one place.                                 *)
LEMMA AtOnce ==
  /\ At("csrrw") => pc = 34 /\ Operand = 8 /\ Code[pc].csr = "sscratch"
  /\ At("addi") => pc = 2 /\ Operand = 2 /\ Code[pc].k = -36
  /\ At("move") => pc = 44 /\ Operand = 10
  BY AtStands, EntryTable, ReturnTable DEF Operand

(* The stores.                                                             *)
LEMMA AtStore ==
  At("store") =>
    \/ pc \in 3 .. 33 /\ Operand = NumberedReg(pc - 2) /\ Slot = x[2] + NumberedReg(pc - 2)
    \/ pc = 39 /\ Operand = 8 /\ Slot = x[2] + 2
    \/ pc = 40 /\ Operand = 9 /\ Slot = x[2] + 32
    \/ pc = 41 /\ Operand = 18 /\ Slot = x[2] + 33
    \/ pc = 42 /\ Operand = 19 /\ Slot = x[2] + 34
    \/ pc = 43 /\ Operand = 20 /\ Slot = x[2] + 35
  BY AtStands, EntryTable DEF Operand, Slot, sp

(* The loads.                                                              *)
LEMMA AtLoad ==
  At("load") =>
    \/ pc \in 50 .. 79 /\ Operand = NumberedReg(pc - 48) /\ Slot = x[2] + NumberedReg(pc - 48)
    \/ pc = 46 /\ Operand = 9 /\ Slot = x[2] + 32
    \/ pc = 47 /\ Operand = 18 /\ Slot = x[2] + 33
    \/ pc = 80 /\ Operand = 2 /\ Slot = x[2] + 2
  BY AtStands, ReturnTable DEF Operand, Slot, sp

(* Every frame lies within the stack, with room for the two words below it *)
(* and the program's above.                                                *)
LEMMA Room ==
  ASSUME NEW n \in 1 .. MaxDepth
  PROVE  FrameAt(n) \in Nat /\ FrameAt(n) >= 2 /\ FrameAt(n) + 36 <= Words - 4
  BY TrapEntryAssumption DEF FrameAt

(* Frames do not overlap, nor reach what trap() keeps below them.          *)
LEMMA Above ==
  ASSUME NEW n \in Nat, NEW k \in 1 .. n - 1
  PROVE  FrameAt(n) + 36 <= FrameAt(k) - 2
  BY TrapEntryAssumption DEF FrameAt

(* The parts of TypeOK.                                                    *)
CsrNames == {"sscratch", "sstatus", "sepc", "sbadaddr", "scause"}
XOK == x \in [Regs -> Int] /\ x[0] = 0
CsrOK == csr \in [CsrNames -> Int]
MemOK == mem \in [0 .. Words - 1 -> Int]
PcOK == pc \in 1 .. 81 \cup Program \cup {TrapEntryPoint} \cup TrapBody \cup Handled

LEMMA TypeParts == TypeOK <=> XOK /\ CsrOK /\ MemOK /\ PcOK /\ Len(ctx) <= MaxDepth
  BY CodeDomain, Zenon DEF TypeOK, XOK, CsrOK, CsrNames, MemOK, PcOK

(* The same of the next state.                                             *)
LEMMA TypePartsNext == XOK' /\ CsrOK' /\ MemOK' /\ PcOK' /\ Len(ctx') <= MaxDepth => TypeOK'
  BY CodeDomain, Zenon DEF TypeOK, XOK, CsrOK, CsrNames, MemOK, PcOK

(* The CSRs hold integers.                                                 *)
LEMMA CsrInts ==
  ASSUME CsrOK
  PROVE  Scratch \in Int /\ Status \in Int /\ Epc \in Int /\ BadAddr \in Int /\ Cause \in Int
  BY DEF CsrOK, CsrNames, Scratch, Status, Epc, BadAddr, Cause

(* What the instructions that touch CSRs do, with the CSRs by name.        *)
LEMMA CsrwIs ==
  ASSUME XOK, CsrOK, Csrw
  PROVE  /\ pc \in {1, 48, 49} /\ pc' = pc + 1 /\ x' = x /\ mem' = mem /\ ctx' = ctx
         /\ CsrOK' /\ BadAddr' = BadAddr /\ Cause' = Cause
         /\ Scratch' = IF pc = 1 THEN x[2] ELSE Scratch
         /\ Status' = IF pc = 48 THEN x[9] ELSE Status
         /\ Epc' = IF pc = 49 THEN x[18] ELSE Epc
<1>1. pc' = pc + 1 /\ x' = x /\ mem' = mem /\ ctx' = ctx
  BY DEF Csrw
<1>2. /\ \A r \in Regs : x[r] \in Int
      /\ 2 \in Regs /\ 9 \in Regs /\ 18 \in Regs
  BY DEF XOK, Regs
<1>3. ASSUME pc = 1, Operand = 2, Code[pc].csr = "sscratch"
      PROVE  /\ CsrOK' /\ Scratch' = x[2] /\ Status' = Status /\ Epc' = Epc
             /\ BadAddr' = BadAddr /\ Cause' = Cause
  <2>1. csr' = [csr EXCEPT !["sscratch"] = x[2]]
    BY <1>3, Zenon DEF Csrw
  <2> QED
    BY <1>2, <2>1 DEF CsrOK, CsrNames, Scratch, Status, Epc, BadAddr, Cause
<1>4. ASSUME pc = 48, Operand = 9, Code[pc].csr = "sstatus"
      PROVE  /\ CsrOK' /\ Scratch' = Scratch /\ Status' = x[9] /\ Epc' = Epc
             /\ BadAddr' = BadAddr /\ Cause' = Cause
  <2>1. csr' = [csr EXCEPT !["sstatus"] = x[9]]
    BY <1>4, Zenon DEF Csrw
  <2> QED
    BY <1>2, <2>1 DEF CsrOK, CsrNames, Scratch, Status, Epc, BadAddr, Cause
<1>5. ASSUME pc = 49, Operand = 18, Code[pc].csr = "sepc"
      PROVE  /\ CsrOK' /\ Scratch' = Scratch /\ Status' = Status /\ Epc' = x[18]
             /\ BadAddr' = BadAddr /\ Cause' = Cause
  <2>1. csr' = [csr EXCEPT !["sepc"] = x[18]]
    BY <1>5, Zenon DEF Csrw
  <2> QED
    BY <1>2, <2>1 DEF CsrOK, CsrNames, Scratch, Status, Epc, BadAddr, Cause
<1>6. \/ pc = 1 /\ Operand = 2 /\ Code[pc].csr = "sscratch"
      \/ pc = 48 /\ Operand = 9 /\ Code[pc].csr = "sstatus"
      \/ pc = 49 /\ Operand = 18 /\ Code[pc].csr = "sepc"
  BY AtCsrw DEF Csrw
<1> QED
  BY <1>1, <1>3, <1>4, <1>5, <1>6

(* csrr, at its four places.                                               *)
LEMMA CsrrIs ==
  ASSUME XOK, CsrOK, Csrr
  PROVE  /\ pc \in 35 .. 38 /\ pc' = pc + 1 /\ csr' = csr /\ mem' = mem /\ ctx' = ctx /\ XOK'
         /\ pc = 35 => x' = [x EXCEPT ![9] = Status]
         /\ pc = 36 => x' = [x EXCEPT ![18] = Epc]
         /\ pc = 37 => x' = [x EXCEPT ![19] = BadAddr]
         /\ pc = 38 => x' = [x EXCEPT ![20] = Cause]
<1>1. pc' = pc + 1 /\ csr' = csr /\ mem' = mem /\ ctx' = ctx
  BY DEF Csrr
<1>2. \/ pc = 35 /\ Operand = 9 /\ Code[pc].csr = "sstatus"
      \/ pc = 36 /\ Operand = 18 /\ Code[pc].csr = "sepc"
      \/ pc = 37 /\ Operand = 19 /\ Code[pc].csr = "sbadaddr"
      \/ pc = 38 /\ Operand = 20 /\ Code[pc].csr = "scause"
  BY AtCsrr DEF Csrr
<1>3. ASSUME pc = 35, Operand = 9, Code[pc].csr = "sstatus"
      PROVE  x' = [x EXCEPT ![9] = Status]
  BY <1>3, Zenon DEF Csrr, Status
<1>4. ASSUME pc = 36, Operand = 18, Code[pc].csr = "sepc"
      PROVE  x' = [x EXCEPT ![18] = Epc]
  BY <1>4, Zenon DEF Csrr, Epc
<1>5. ASSUME pc = 37, Operand = 19, Code[pc].csr = "sbadaddr"
      PROVE  x' = [x EXCEPT ![19] = BadAddr]
  BY <1>5, Zenon DEF Csrr, BadAddr
<1>6. ASSUME pc = 38, Operand = 20, Code[pc].csr = "scause"
      PROVE  x' = [x EXCEPT ![20] = Cause]
  BY <1>6, Zenon DEF Csrr, Cause
<1>7. /\ pc = 35 => x' = [x EXCEPT ![9] = Status]
      /\ pc = 36 => x' = [x EXCEPT ![18] = Epc]
      /\ pc = 37 => x' = [x EXCEPT ![19] = BadAddr]
      /\ pc = 38 => x' = [x EXCEPT ![20] = Cause]
      /\ pc \in 35 .. 38
  BY <1>2, <1>3, <1>4, <1>5, <1>6
<1>8. XOK'
  BY <1>7, CsrInts DEF XOK, Regs
<1> QED
  BY <1>1, <1>7, <1>8

(* csrrw reads sscratch and clears it.                                     *)
LEMMA CsrrwIs ==
  ASSUME XOK, CsrOK, Csrrw
  PROVE  /\ pc = 34 /\ pc' = 35 /\ mem' = mem /\ ctx' = ctx /\ XOK' /\ CsrOK'
         /\ x' = [x EXCEPT ![8] = Scratch]
         /\ Scratch' = 0 /\ Status' = Status /\ Epc' = Epc /\ BadAddr' = BadAddr /\ Cause' = Cause
<1>1. pc = 34 /\ Operand = 8 /\ Code[pc].csr = "sscratch"
  BY AtOnce DEF Csrrw
<1>2. pc' = 35 /\ mem' = mem /\ ctx' = ctx
  BY <1>1 DEF Csrrw
<1>3. x' = [x EXCEPT ![8] = Scratch]
  BY <1>1, Zenon DEF Csrrw, Scratch
<1>4. csr' = [csr EXCEPT !["sscratch"] = 0]
  BY <1>1, Zenon DEF Csrrw
<1>5. XOK'
  BY <1>3, CsrInts DEF XOK, Regs
<1>6. /\ CsrOK' /\ Scratch' = 0 /\ Status' = Status /\ Epc' = Epc /\ BadAddr' = BadAddr
      /\ Cause' = Cause
  BY <1>4 DEF CsrOK, CsrNames, Scratch, Status, Epc, BadAddr, Cause
<1> QED
  BY <1>1, <1>2, <1>3, <1>5, <1>6

(* A step that leaves the CSRs alone.                                      *)
LEMMA CsrSame ==
  ASSUME csr' = csr
  PROVE  /\ CsrOK => CsrOK'
         /\ Scratch' = Scratch /\ Status' = Status /\ Epc' = Epc /\ BadAddr' = BadAddr
         /\ Cause' = Cause
  BY DEF CsrOK, Scratch, Status, Epc, BadAddr, Cause

Frame(c, f) ==
  /\ f \in Nat /\ f >= 2 /\ f + 36 <= Words - 4
  /\ c.x \in [Regs -> Int] /\ c.x[0] = 0 /\ c.x[2] = f + 36
  /\ c.pc \in Int /\ c.advance \in 0 .. 4

(* The words a step may write: those of the innermost trap's frame and the *)
(* two below it.                                                           *)
Aside(f) == \A a \in f + 36 .. Words - 1 : mem'[a] = mem[a]

(* A word written on the stack.                                            *)
LEMMA Written ==
  ASSUME MemOK, NEW s \in 0 .. Words - 1, NEW v \in Int, mem' = [mem EXCEPT ![s] = v]
  PROVE  MemOK' /\ mem'[s] = v /\ \A a \in 0 .. Words - 1 : a # s => mem'[a] = mem[a]
  BY DEF MemOK

(* Each instruction of SAVE_ALL keeps Entering: saving sp in sscratch,     *)
LEMMA CsrwEntering ==
  ASSUME XOK, CsrOK, NEW c, NEW f, Frame(c, f), Entering(c, f), pc \in 1 .. 45, Csrw
  PROVE  Entering(c, f)' /\ pc' = pc + 1 /\ pc < 45
<1>1. /\ pc = 1 /\ pc' = 2 /\ x' = x /\ mem' = mem /\ ctx' = ctx
      /\ Scratch' = x[2] /\ Status' = Status /\ Epc' = Epc /\ BadAddr' = BadAddr
      /\ Cause' = Cause
  BY CsrwIs
<1>2. EnteringCsrs(c, f)'
  BY <1>1 DEF Entering, EnteringCsrs, EnteringRegs, sp
<1>3. EnteringRegs(c, f)'
  BY <1>1 DEF Entering, EnteringRegs
<1>4. EnteringFrame(c, f)'
  BY <1>1 DEF Entering, EnteringFrame, StoredAt, Regs
<1> QED
  BY <1>1, <1>2, <1>3, <1>4 DEF Entering

(* reading a CSR into a register that is saved already,                    *)
LEMMA CsrrEntering ==
  ASSUME XOK, CsrOK, NEW c, NEW f, Frame(c, f), Entering(c, f), pc \in 1 .. 45, Csrr
  PROVE  Entering(c, f)' /\ pc' = pc + 1 /\ pc < 45
<1>1. /\ pc \in 35 .. 38 /\ pc' = pc + 1 /\ csr' = csr /\ mem' = mem /\ ctx' = ctx
      /\ pc = 35 => x' = [x EXCEPT ![9] = Status]
      /\ pc = 36 => x' = [x EXCEPT ![18] = Epc]
      /\ pc = 37 => x' = [x EXCEPT ![19] = BadAddr]
      /\ pc = 38 => x' = [x EXCEPT ![20] = Cause]
  BY CsrrIs
<1>2. EnteringCsrs(c, f)'
  BY <1>1, CsrSame DEF Entering, EnteringCsrs
<1>3. EnteringRegs(c, f)'
  <2>1. CASE pc = 35
    <3>1. x'[9] = Status /\ \A q \in Regs \ {9} : x'[q] = x[q]
      BY <1>1, <2>1 DEF XOK, Regs
    <3>2. /\ x'[2] = x[2] /\ x'[8] = x[8] /\ (9 # 9 => x'[9] = x[9])
          /\ (18 # 9 => x'[18] = x[18]) /\ (19 # 9 => x'[19] = x[19])
      BY <3>1 DEF Regs
    <3> QED
      BY <1>1, <2>1, <3>1, <3>2
         DEF Entering, EnteringCsrs, EnteringRegs, sp, s0, s1, s2, s3, s4
  <2>2. CASE pc = 36
    <3>1. x'[18] = Epc /\ \A q \in Regs \ {18} : x'[q] = x[q]
      BY <1>1, <2>2 DEF XOK, Regs
    <3>2. /\ x'[2] = x[2] /\ x'[8] = x[8] /\ (9 # 18 => x'[9] = x[9])
          /\ (18 # 18 => x'[18] = x[18]) /\ (19 # 18 => x'[19] = x[19])
      BY <3>1 DEF Regs
    <3> QED
      BY <1>1, <2>2, <3>1, <3>2
         DEF Entering, EnteringCsrs, EnteringRegs, sp, s0, s1, s2, s3, s4
  <2>3. CASE pc = 37
    <3>1. x'[19] = BadAddr /\ \A q \in Regs \ {19} : x'[q] = x[q]
      BY <1>1, <2>3 DEF XOK, Regs
    <3>2. /\ x'[2] = x[2] /\ x'[8] = x[8] /\ (9 # 19 => x'[9] = x[9])
          /\ (18 # 19 => x'[18] = x[18]) /\ (19 # 19 => x'[19] = x[19])
      BY <3>1 DEF Regs
    <3> QED
      BY <1>1, <2>3, <3>1, <3>2
         DEF Entering, EnteringCsrs, EnteringRegs, sp, s0, s1, s2, s3, s4
  <2>4. CASE pc = 38
    <3>1. x'[20] = Cause /\ \A q \in Regs \ {20} : x'[q] = x[q]
      BY <1>1, <2>4 DEF XOK, Regs
    <3>2. /\ x'[2] = x[2] /\ x'[8] = x[8] /\ (9 # 20 => x'[9] = x[9])
          /\ (18 # 20 => x'[18] = x[18]) /\ (19 # 20 => x'[19] = x[19])
      BY <3>1 DEF Regs
    <3> QED
      BY <1>1, <2>4, <3>1, <3>2
         DEF Entering, EnteringCsrs, EnteringRegs, sp, s0, s1, s2, s3, s4
  <2> QED
    BY <1>1, <2>1, <2>2, <2>3, <2>4
<1>4. EnteringFrame(c, f)'
  BY <1>1 DEF Entering, EnteringFrame, StoredAt, Regs, sp
<1> QED
  BY <1>1, <1>2, <1>3, <1>4 DEF Entering

(* reading sscratch and clearing it,                                       *)
LEMMA CsrrwEntering ==
  ASSUME XOK, CsrOK, NEW c, NEW f, Frame(c, f), Entering(c, f), pc \in 1 .. 45, Csrrw
  PROVE  Entering(c, f)' /\ pc' = pc + 1 /\ pc < 45
<1>1. /\ pc = 34 /\ pc' = 35 /\ mem' = mem /\ ctx' = ctx /\ x' = [x EXCEPT ![8] = Scratch]
      /\ Scratch' = 0 /\ Status' = Status /\ Epc' = Epc /\ BadAddr' = BadAddr /\ Cause' = Cause
  BY CsrrwIs
<1>2. EnteringCsrs(c, f)'
  BY <1>1 DEF Entering, EnteringCsrs
<1>3. EnteringRegs(c, f)'
  BY <1>1 DEF Entering, EnteringCsrs, EnteringRegs, XOK, Regs, sp, s0
<1>4. EnteringFrame(c, f)'
  BY <1>1 DEF Entering, EnteringFrame, StoredAt, Regs, sp
<1> QED
  BY <1>1, <1>2, <1>3, <1>4 DEF Entering

(* addi makes room for the frame.                                          *)
LEMMA AddiIs ==
  ASSUME XOK, Addi
  PROVE  /\ pc = 2 /\ pc' = 3 /\ csr' = csr /\ mem' = mem /\ ctx' = ctx /\ XOK'
         /\ x' = [x EXCEPT ![2] = x[2] - 36]
<1>1. pc = 2 /\ Operand = 2 /\ Code[pc].k = -36
  BY AtOnce DEF Addi
<1>2. x' = [x EXCEPT ![2] = x[2] + -36]
  BY <1>1, Zenon DEF Addi
<1>3. x' = [x EXCEPT ![2] = x[2] - 36]
  BY <1>2 DEF XOK, Regs
<1>4. XOK'
  BY <1>3 DEF XOK, Regs
<1>5. pc' = 3 /\ csr' = csr /\ mem' = mem /\ ctx' = ctx
  BY <1>1 DEF Addi
<1> QED
  BY <1>1, <1>3, <1>4, <1>5

(* making room for the frame,                                              *)
LEMMA AddiEntering ==
  ASSUME XOK, CsrOK, NEW c, NEW f, Frame(c, f), Entering(c, f), pc \in 1 .. 45, Addi
  PROVE  Entering(c, f)' /\ pc' = pc + 1 /\ pc < 45
<1>1. /\ pc = 2 /\ pc' = 3 /\ csr' = csr /\ mem' = mem /\ ctx' = ctx
      /\ x' = [x EXCEPT ![2] = x[2] - 36]
  BY AddiIs
<1>2. EnteringCsrs(c, f)'
  BY <1>1, CsrSame DEF Entering, EnteringCsrs
<1>3. EnteringRegs(c, f)'
  BY <1>1 DEF Entering, EnteringRegs, XOK, Regs, sp, Frame
<1>4. EnteringFrame(c, f)'
  BY <1>1 DEF Entering, EnteringFrame, StoredAt, Regs, sp
<1> QED
  BY <1>1, <1>2, <1>3, <1>4 DEF Entering

(* passing the frame to trap(),                                            *)
LEMMA MoveEntering ==
  ASSUME XOK, CsrOK, NEW c, NEW f, Frame(c, f), Entering(c, f), pc \in 1 .. 45, Move
  PROVE  Entering(c, f)' /\ pc' = pc + 1 /\ pc < 45 /\ XOK'
<1>1. pc = 44 /\ Operand = 10
  BY AtOnce DEF Move
<1>2. /\ pc' = 45 /\ csr' = csr /\ mem' = mem /\ ctx' = ctx
      /\ x' = [x EXCEPT ![10] = x[2]]
  BY <1>1 DEF Move, sp
<1>3. EnteringCsrs(c, f)'
  BY <1>1, <1>2, CsrSame DEF Entering, EnteringCsrs
<1>4. EnteringRegs(c, f)'
  BY <1>1, <1>2 DEF Entering, EnteringRegs, XOK, Regs, sp, s0, s1, s2, s3, s4, a0
<1>5. EnteringFrame(c, f)'
  <2>1. \A r \in Regs \ {2} : StoredAt(r) < 44
    BY DEF StoredAt, Regs
  <2> QED
    BY <1>1, <1>2, <2>1 DEF Entering, EnteringFrame, sp
<1> QED
  BY <1>1, <1>2, <1>3, <1>4, <1>5 DEF Entering, XOK, Regs

(* and storing a register or a CSR in its slot.                            *)
LEMMA StoreEntering ==
  ASSUME XOK, CsrOK, MemOK, NEW c, NEW f, Frame(c, f), Entering(c, f), pc \in 1 .. 45, StoreWord
  PROVE  Entering(c, f)' /\ pc' = pc + 1 /\ pc < 45 /\ MemOK' /\ Aside(f)
<1>1. /\ pc' = pc + 1 /\ x' = x /\ csr' = csr /\ ctx' = ctx
      /\ mem' = [mem EXCEPT ![Slot] = x[Operand]]
  BY DEF StoreWord
<1>2. x[2] = f /\ pc \in 3 .. 43
  BY AtStands DEF StoreWord, Entering, EnteringRegs, sp
<1>3. EnteringCsrs(c, f)'
  BY <1>1, <1>2, AtStands, CsrSame DEF StoreWord, Entering, EnteringCsrs
<1>4. EnteringRegs(c, f)'
  BY <1>1, <1>2, AtStands DEF StoreWord, Entering, EnteringRegs
<1>5. Operand \in Regs /\ Slot \in f .. f + 35
  BY <1>2, AtStore DEF StoreWord, NumberedReg, Regs, Frame
<1>6. x[Operand] \in Int /\ Slot \in 0 .. Words - 1
  BY <1>5, TrapEntryAssumption DEF XOK, Frame
<1>7. /\ MemOK' /\ mem'[Slot] = x[Operand]
      /\ \A a \in 0 .. Words - 1 : a # Slot => mem'[a] = mem[a]
  BY <1>1, <1>6, Written
<1>8. Aside(f)
  BY <1>5, <1>7 DEF Aside, Frame
<1>9. \A q \in 0 .. 35 : f + q \in 0 .. Words - 1
  BY TrapEntryAssumption DEF Frame
<1>10. EnteringFrame(c, f)'
  <2>1. CASE pc \in 3 .. 33
    <3>1. Operand = NumberedReg(pc - 2) /\ Slot = f + NumberedReg(pc - 2)
      BY <1>2, <2>1, AtStore DEF StoreWord
    <3>2. NumberedReg(pc - 2) \in Regs \ {2} /\ StoredAt(NumberedReg(pc - 2)) = pc
      BY <2>1 DEF NumberedReg, Regs, StoredAt
    <3>3. PICK r \in Regs \ {2} : r = NumberedReg(pc - 2)
      BY <3>2
    <3>4. mem'[f + r] = c.x[r]
      BY <1>7, <2>1, <3>1, <3>3 DEF Entering, EnteringRegs, sp
    <3>5. \A q \in Regs \ {2} : q # r => mem'[f + q] = mem[f + q]
      BY <1>7, <1>9, <3>1, <3>3 DEF Frame, Regs
    <3>6. \A q \in Regs \ {2} : StoredAt(q) < pc + 1 => q = r \/ StoredAt(q) < pc
      BY <2>1, <3>2, <3>3 DEF StoredAt, Regs
    <3>7. \A q \in Regs \ {2} : StoredAt(q) < pc + 1 => mem'[f + q] = c.x[q]
      BY <3>4, <3>5, <3>6 DEF Entering, EnteringFrame, sp
    <3> QED
      BY <1>1, <2>1, <3>7 DEF EnteringFrame, sp
  <2>2. CASE pc \in 39 .. 43
    <3>1. \/ pc = 39 /\ Slot = f + 2 /\ x[Operand] = f + 36
          \/ pc = 40 /\ Slot = f + 32 /\ x[Operand] = Stacked(c.status)
          \/ pc = 41 /\ Slot = f + 33 /\ x[Operand] = c.pc
          \/ pc = 42 /\ Slot = f + 34 /\ x[Operand] = 5000 + Len(ctx) - 1
          \/ pc = 43 /\ Slot = f + 35 /\ x[Operand] = c.cause
      BY <1>2, <2>2, AtStore DEF StoreWord, Entering, EnteringRegs, s0, s1, s2, s3, s4
    <3>2. \A q \in Regs \ {2} : mem'[f + q] = mem[f + q] /\ StoredAt(q) < 39
      <4> TAKE q \in Regs \ {2}
      <4>1. Slot = f + 2 \/ Slot \in f + 32 .. f + 35
        BY <3>1 DEF Frame
      <4>2. f + q \in 0 .. Words - 1 /\ f + q # Slot
        BY <1>9, <4>1 DEF Frame, Regs
      <4> QED
        BY <1>7, <4>2 DEF StoredAt, Regs
    <3>3. \A q \in Regs \ {2} : mem'[f + q] = c.x[q]
      <4> TAKE q \in Regs \ {2}
      <4>1. StoredAt(q) < pc
        BY <2>2, <3>2 DEF StoredAt, Regs
      <4> QED
        BY <3>2, <4>1 DEF Entering, EnteringFrame, sp
    <3>4. /\ mem'[f + 2] = IF Slot = f + 2 THEN x[Operand] ELSE mem[f + 2]
          /\ mem'[f + 32] = IF Slot = f + 32 THEN x[Operand] ELSE mem[f + 32]
          /\ mem'[f + 33] = IF Slot = f + 33 THEN x[Operand] ELSE mem[f + 33]
          /\ mem'[f + 34] = IF Slot = f + 34 THEN x[Operand] ELSE mem[f + 34]
          /\ mem'[f + 35] = IF Slot = f + 35 THEN x[Operand] ELSE mem[f + 35]
      BY <1>7, <1>9
    <3>5. /\ pc' > 39 => mem'[f + 2] = f + 36
          /\ pc' > 40 => mem'[f + 32] = Stacked(c.status)
          /\ pc' > 41 => mem'[f + 33] = c.pc
          /\ pc' > 42 => mem'[f + 34] = 5000 + Len(ctx) - 1
          /\ pc' > 43 => mem'[f + 35] = c.cause
      BY <1>1, <3>1, <3>4 DEF Entering, EnteringFrame, Frame
    <3> QED
      BY <1>1, <3>3, <3>5 DEF EnteringFrame, sp
  <2> QED
    BY <2>1, <2>2, AtStands DEF StoreWord
<1> QED
  BY <1>1, <1>2, <1>3, <1>4, <1>7, <1>8, <1>10 DEF Entering

(* A register written.                                                     *)
LEMMA XWritten ==
  ASSUME XOK, NEW r \in Regs \ {0}, NEW v \in Int, x' = [x EXCEPT ![r] = v]
  PROVE  XOK' /\ x'[r] = v /\ \A q \in Regs : q # r => x'[q] = x[q]
  BY DEF XOK, Regs

(* jal enters trap() with the frame in place.                              *)
LEMMA JalCalls ==
  ASSUME XOK, CsrOK, MemOK, NEW c, NEW f, Frame(c, f), Entering(c, f), pc \in 1 .. 45, Jal
  PROVE  /\ pc' = TrapEntryPoint /\ XOK' /\ csr' = csr /\ mem' = mem /\ ctx' = ctx
         /\ Calling(c, f)' /\ Whole(c, f)'
<1>1. pc = 45
  BY AtStands DEF Jal
<1>2. /\ pc' = TrapEntryPoint /\ csr' = csr /\ mem' = mem /\ ctx' = ctx
      /\ x' = [x EXCEPT ![1] = 46]
  BY <1>1 DEF Jal, ra
<1>3. XOK' /\ x'[1] = 46 /\ x'[2] = x[2] /\ x'[10] = x[10]
  BY <1>2 DEF XOK, Regs
<1>4. Calling(c, f)'
  <2>1. Scratch' = 0
    BY <1>1, <1>2, CsrSame DEF Entering, EnteringCsrs
  <2>2. x[2] = f /\ x[10] = f
    BY <1>1 DEF Entering, EnteringRegs, sp, a0
  <2>3. mem[f + 34] = 5000 + Len(ctx) - 1 /\ mem[f + 35] = c.cause
    BY <1>1 DEF Entering, EnteringFrame
  <2> QED
    BY <1>2, <1>3, <2>1, <2>2, <2>3 DEF Calling, Entering, ra, sp, a0
<1>5. Whole(c, f)'
  <2>1. \A r \in Regs \ {2} : mem[f + r] = c.x[r]
    <3>1. \A r \in Regs : StoredAt(r) < 45
      BY DEF StoredAt, Regs
    <3> QED
      BY <1>1, <3>1 DEF Entering, EnteringFrame, sp
  <2>2. /\ mem[f + 2] = c.x[2] /\ mem[f + 32] = Stacked(c.status)
        /\ mem[f + 33] = c.pc + c.advance
    BY <1>1 DEF Entering, EnteringFrame, Frame
  <2> QED
    BY <1>2, <2>1, <2>2 DEF Whole
<1> QED
  BY <1>2, <1>3, <1>4, <1>5

(* RESTORE_ALL, one instruction.                                           *)
LEMMA CsrwLeaving ==
  ASSUME XOK, CsrOK, NEW c, NEW f, Frame(c, f), Leaving(c, f), pc \in 46 .. 81, Csrw
  PROVE  /\ Leaving(c, f)' /\ pc' = pc + 1 /\ pc < 81
         /\ x' = x /\ mem' = mem /\ ctx' = ctx /\ CsrOK'
<1>1. /\ pc \in {48, 49} /\ pc' = pc + 1 /\ x' = x /\ mem' = mem /\ ctx' = ctx
      /\ CsrOK' /\ Scratch' = Scratch
      /\ Status' = IF pc = 48 THEN x[9] ELSE Status
      /\ Epc' = IF pc = 49 THEN x[18] ELSE Epc
  BY CsrwIs
<1>2. Leaving(c, f)'
  <2>1. \A r \in Regs \ {0, 2} : ~(LoadedAt(r) < pc')
    BY <1>1 DEF LoadedAt, Regs
  <2> QED
    BY <1>1, <2>1 DEF Leaving, sp, s1, s2
<1> QED
  BY <1>1, <1>2

(* A load of RESTORE_ALL brings back what was saved.                       *)
LEMMA LoadLeaving ==
  ASSUME XOK, CsrOK, MemOK, NEW c, NEW f, Frame(c, f), Leaving(c, f), Whole(c, f),
         pc \in 46 .. 81, LoadWord
  PROVE  /\ Leaving(c, f)' /\ pc' = pc + 1 /\ pc < 81
         /\ XOK' /\ csr' = csr /\ mem' = mem /\ ctx' = ctx
<1>1. /\ pc' = pc + 1 /\ csr' = csr /\ mem' = mem /\ ctx' = ctx
      /\ x' = [x EXCEPT ![Operand] = mem[Slot]]
  BY DEF LoadWord
<1>2. (pc \in 46 .. 47 \/ pc \in 50 .. 80) /\ pc < 81 /\ x[2] = f
  BY AtStands DEF LoadWord, Leaving, sp
<1>3. /\ Operand \in Regs \ {0} /\ Slot \in f .. f + 35
  BY <1>2, AtLoad DEF LoadWord, NumberedReg, Regs, Frame
<1>4. mem[Slot] \in Int
  BY <1>3, TrapEntryAssumption DEF MemOK, Frame
<1>5. XOK' /\ x'[Operand] = mem[Slot] /\ \A q \in Regs : q # Operand => x'[q] = x[q]
  BY <1>1, <1>3, <1>4, XWritten
<1>6. /\ Scratch' = 0 /\ Status' = Status /\ Epc' = Epc
  BY <1>1, CsrSame DEF Leaving
<1>7. CASE pc \in 46 .. 47
  <2>1. \A r \in Regs \ {0, 2} : ~(LoadedAt(r) < pc')
    BY <1>1, <1>7 DEF LoadedAt, Regs
  <2>2. \/ pc = 46 /\ Operand = 9 /\ mem[Slot] = Stacked(c.status)
        \/ pc = 47 /\ Operand = 18 /\ mem[Slot] = c.pc + c.advance
    BY <1>2, <1>7, AtLoad DEF LoadWord, Whole
  <2>3. x'[2] = f
    BY <1>2, <1>5, <2>2 DEF Regs
  <2>4. /\ pc' \in {47, 48} => x'[9] = Stacked(c.status)
        /\ pc' \in {48, 49} => x'[18] = c.pc + c.advance
    BY <1>1, <1>5, <2>2 DEF Leaving, Regs, s1, s2
  <2> QED
    BY <1>1, <1>2, <1>5, <1>6, <1>7, <2>1, <2>3, <2>4 DEF Leaving, sp, s1, s2
<1>8. CASE pc \in 50 .. 79
  <2>1. Operand = NumberedReg(pc - 48) /\ Slot = f + NumberedReg(pc - 48)
    BY <1>2, <1>8, AtLoad DEF LoadWord
  <2>2. NumberedReg(pc - 48) \in Regs \ {0, 2} /\ LoadedAt(NumberedReg(pc - 48)) = pc
    BY <1>8 DEF NumberedReg, LoadedAt, Regs
  <2>3. PICK r \in Regs \ {0, 2} : r = NumberedReg(pc - 48)
    BY <2>2
  <2>4. x'[r] = c.x[r] /\ x'[2] = f
    BY <1>2, <1>5, <2>1, <2>3 DEF Whole, Regs
  <2>5. \A q \in Regs \ {0, 2} : LoadedAt(q) < pc + 1 => q = r \/ LoadedAt(q) < pc
    BY <1>8, <2>2, <2>3 DEF LoadedAt, Regs
  <2>6. \A q \in Regs \ {0, 2} : LoadedAt(q) < pc + 1 => x'[q] = c.x[q]
    BY <1>5, <2>1, <2>3, <2>4, <2>5 DEF Leaving, sp
  <2> QED
    BY <1>1, <1>2, <1>5, <1>6, <1>8, <2>4, <2>6 DEF Leaving, sp
<1>9. CASE pc = 80
  <2>1. Operand = 2 /\ Slot = f + 2
    BY <1>2, <1>9, AtLoad DEF LoadWord
  <2>2. x'[2] = f + 36
    BY <1>5, <2>1 DEF Whole, Frame, Regs
  <2>3. \A q \in Regs \ {0, 2} : x'[q] = c.x[q]
    <3> TAKE q \in Regs \ {0, 2}
    <3>1. LoadedAt(q) < pc
      BY <1>9 DEF LoadedAt, Regs
    <3> QED
      BY <1>5, <2>1, <3>1 DEF Leaving, sp
  <2> QED
    BY <1>1, <1>2, <1>5, <1>6, <1>9, <2>2, <2>3 DEF Leaving, sp
<1> QED
  BY <1>1, <1>2, <1>5, <1>7, <1>8, <1>9

(* trap(): its first instructions, its work on tf->epc, its return.        *)
LEMMA EnterTrapIs ==
  ASSUME XOK, MemOK, NEW c, NEW f, Frame(c, f), Calling(c, f), Whole(c, f), EnterTrap
  PROVE  /\ pc' = 2001 /\ csr' = csr /\ ctx' = ctx /\ XOK' /\ MemOK' /\ Aside(f)
         /\ InTrap(f)' /\ Whole(c, f)' /\ Linked(f)'
<1>1. /\ pc' = 2001 /\ csr' = csr /\ ctx' = ctx
      /\ mem' = [mem EXCEPT ![f - 1] = 46, ![f - 2] = f]
      /\ x' = [Clobbered(x) EXCEPT ![2] = @ - 2]
      /\ x[2] = f
  BY DEF EnterTrap, Calling, sp, ra, a0
<1>2. XOK' /\ x'[2] = f - 2
  BY <1>1 DEF XOK, Regs, Clobbered, CallerSaved, Frame
<1>3. f \in Nat /\ f - 1 \in 0 .. Words - 1 /\ f - 2 \in 0 .. Words - 1 /\ f + 36 <= Words
  BY TrapEntryAssumption DEF Frame
<1>4. /\ MemOK' /\ mem'[f - 1] = 46 /\ mem'[f - 2] = f
      /\ \A a \in 0 .. Words - 1 : a >= f => mem'[a] = mem[a]
  BY <1>1, <1>3 DEF MemOK
<1>5. \A q \in 0 .. 35 : f + q \in 0 .. Words - 1 /\ f + q >= f
  BY <1>3, TrapEntryAssumption
<1>6. \A q \in 0 .. 35 : mem'[f + q] = mem[f + q]
  BY <1>4, <1>5
<1>7. Whole(c, f)'
  BY <1>6 DEF Whole, Regs
<1>8. Aside(f)
  BY <1>3, <1>4, TrapEntryAssumption DEF Aside
<1>9. Scratch' = 0
  BY <1>1, CsrSame DEF Calling
<1> QED
  BY <1>1, <1>2, <1>4, <1>7, <1>8, <1>9 DEF InTrap, Linked, sp

(* The handler's work on tf->epc.                                          *)
LEMMA HandleIs ==
  ASSUME XOK, MemOK, NEW c, NEW f, Frame(c, f), InTrap(f), Whole(c, f), Linked(f),
         c.advance = 0, NEW k \in 0 .. 4, Handle(k)
  PROVE  /\ pc' = 2010 /\ x' = x /\ csr' = csr /\ MemOK' /\ Aside(f)
         /\ InTrap(f)' /\ Linked(f)'
         /\ \A r \in Regs : mem'[f + r] = c.x[r]
         /\ mem'[f + 32] = Stacked(c.status) /\ mem'[f + 33] = c.pc + k
<1>1. /\ pc' = 2010 /\ x' = x /\ csr' = csr
      /\ mem' = [mem EXCEPT ![tf + 33] = mem[tf + 33] + k]
  BY DEF Handle
<1>2. tf = f
  BY DEF tf, InTrap, Linked, sp
<1>3. mem[f + 33] = c.pc
  BY DEF Whole, Frame
<1>4. mem' = [mem EXCEPT ![f + 33] = c.pc + k]
  BY <1>1, <1>2, <1>3
<1>5. f + 33 \in 0 .. Words - 1 /\ c.pc + k \in Int /\ f \in Nat /\ f >= 2 /\ f + 36 <= Words
  BY TrapEntryAssumption DEF Frame
<1>6. /\ MemOK' /\ mem'[f + 33] = c.pc + k
      /\ \A a \in 0 .. Words - 1 : a # f + 33 => mem'[a] = mem[a]
  BY <1>4, <1>5, Written
<1>7. \A r \in 0 .. 32 : f + r \in 0 .. Words - 1 /\ f + r # f + 33
  BY <1>5, TrapEntryAssumption
<1>8. \A r \in 0 .. 32 : mem'[f + r] = mem[f + r]
  BY <1>6, <1>7
<1>9. mem'[f - 2] = mem[f - 2] /\ mem'[f - 1] = mem[f - 1]
  BY <1>5, <1>6, TrapEntryAssumption
<1>10. Aside(f)
  BY <1>5, <1>6, TrapEntryAssumption DEF Aside
<1>11. Scratch' = Scratch
  BY <1>1, CsrSame
<1>12. \A r \in Regs : mem'[f + r] = c.x[r]
  BY <1>8 DEF Whole, Regs
<1>13. mem'[f + 32] = Stacked(c.status)
  BY <1>8 DEF Whole
<1> QED
  BY <1>1, <1>6, <1>9, <1>10, <1>11, <1>12, <1>13 DEF InTrap, Linked

(* trap() returns behind the call, with sp at the frame.                   *)
LEMMA LeaveTrapIs ==
  ASSUME XOK, MemOK, NEW c, NEW f, Frame(c, f), InTrap(f), Whole(c, f), Linked(f), LeaveTrap
  PROVE  /\ pc' = 46 /\ csr' = csr /\ mem' = mem /\ ctx' = ctx /\ XOK'
         /\ Leaving(c, f)' /\ Whole(c, f)'
<1>1. /\ csr' = csr /\ mem' = mem /\ ctx' = ctx /\ pc' = mem[x[2] + 1]
      /\ x' = [Clobbered(x) EXCEPT ![2] = @ + 2] /\ x[2] = f - 2
  BY DEF LeaveTrap, InTrap, sp
<1>2. pc' = 46
  <2>1. x[2] + 1 = f - 1
    BY <1>1 DEF Frame
  <2> QED
    BY <1>1, <2>1 DEF Linked
<1>3. XOK' /\ x'[2] = f
  BY <1>1 DEF XOK, Regs, Clobbered, CallerSaved, Frame
<1>4. Scratch' = 0
  BY <1>1, CsrSame DEF InTrap
<1>5. \A r \in Regs \ {0, 2} : ~(LoadedAt(r) < 46)
  BY DEF LoadedAt, Regs
<1>6. Leaving(c, f)'
  BY <1>2, <1>3, <1>4, <1>5 DEF Leaving, sp
<1> QED
  BY <1>1, <1>2, <1>3, <1>6 DEF Whole

(* sret: the state the trap was taken from, but for the address.           *)
LEMMA SretIs ==
  ASSUME XOK, CsrOK, NEW c, NEW f, Frame(c, f), Leaving(c, f), Whole(c, f), Sret
  PROVE  /\ pc = 81 /\ x' = x /\ mem' = mem /\ ctx' = Front(ctx) /\ CsrOK' /\ Scratch' = 0
         /\ pc' = c.pc + c.advance /\ x = c.x /\ Status' = Unstacked(Stacked(c.status))
<1>1. pc = 81
  BY AtStands DEF Sret
<1>2. /\ x' = x /\ mem' = mem /\ ctx' = Front(ctx) /\ pc' = Epc
      /\ csr' = [csr EXCEPT !["sstatus"] = Unstacked(csr["sstatus"])]
  BY Zenon DEF Sret, Epc
<1>3. Unstacked(csr["sstatus"]) \in Int
  <2>1. csr["sstatus"] \in Int
    BY DEF CsrOK, CsrNames
  <2> QED
    BY <2>1 DEF Unstacked
<1>4. CsrOK' /\ Scratch' = Scratch /\ Status' = Unstacked(Status)
  BY <1>2, <1>3 DEF CsrOK, CsrNames, Scratch, Status
<1>5. Scratch = 0 /\ x[2] = f + 36 /\ Status = Stacked(c.status) /\ Epc = c.pc + c.advance
  BY <1>1 DEF Leaving, sp
<1>6. \A r \in Regs : x[r] = c.x[r]
  <2>1. \A r \in Regs \ {0, 2} : x[r] = c.x[r]
    <3>1. \A r \in Regs : LoadedAt(r) < 81
      BY DEF LoadedAt, Regs
    <3> QED
      BY <1>1, <3>1 DEF Leaving, sp
  <2> QED
    BY <1>5, <2>1 DEF XOK, Frame, Regs
<1>7. x = c.x
  BY <1>6 DEF XOK, Frame
<1> QED
  BY <1>1, <1>2, <1>4, <1>5, <1>7

-----------------------------------------------------------------------------
(* Steps of the innermost trap.                                            *)
LEMMA PcValues ==
  /\ \A p \in Program : p \notin 1 .. 81 /\ p # TrapEntryPoint /\ p \notin TrapBody /\ p \notin Handled
  /\ \A p \in TrapBody : p \notin 1 .. 81 /\ p # TrapEntryPoint /\ p \notin Handled
  /\ \A p \in Handled : p \notin 1 .. 81 /\ p # TrapEntryPoint
  /\ TrapEntryPoint \notin 1 .. 81 /\ 2001 \in TrapBody /\ 2010 \in Handled
  BY DEF Program, TrapEntryPoint, TrapBody, Handled

Inward == \/ Csrw \/ Csrr \/ Csrrw \/ Addi \/ StoreWord \/ LoadWord \/ Move \/ Jal
          \/ EnterTrap \/ LeaveTrap

(* Being in SAVE_ALL is being within the trap,                             *)
LEMMA Entered ==
  ASSUME NEW c, NEW f, Entering(c, f)', pc' \in 2 .. 45
  PROVE  Within(c, f)'
  BY DEF Within, TrapEntryPoint, TrapBody, Handled

(* and so is being in RESTORE_ALL.                                         *)
LEMMA Left ==
  ASSUME NEW c, NEW f, Leaving(c, f)', Whole(c, f)', pc' \in 46 .. 81
  PROVE  Within(c, f)'
  BY DEF Within, TrapEntryPoint, TrapBody, Handled

(* The steps of SAVE_ALL together.                                         *)
LEMMA EntrySteps ==
  ASSUME XOK, CsrOK, MemOK, NEW c, NEW f, Frame(c, f), Entering(c, f), pc \in 1 .. 45,
         Csrw \/ Csrr \/ Csrrw \/ Addi \/ StoreWord \/ Move
  PROVE  /\ XOK' /\ CsrOK' /\ MemOK' /\ Aside(f) /\ ctx' = ctx
         /\ pc' \in 2 .. 45 /\ Entering(c, f)'
<1>1. CASE Csrw
  <2>1. Entering(c, f)' /\ pc' = pc + 1 /\ pc < 45
    BY <1>1, CsrwEntering
  <2>2. x' = x /\ mem' = mem /\ ctx' = ctx /\ CsrOK'
    BY <1>1, CsrwIs
  <2> QED
    BY <2>1, <2>2 DEF XOK, MemOK, Aside
<1>2. CASE Csrr
  <2>1. Entering(c, f)' /\ pc' = pc + 1 /\ pc < 45
    BY <1>2, CsrrEntering
  <2>2. XOK' /\ csr' = csr /\ mem' = mem /\ ctx' = ctx
    BY <1>2, CsrrIs
  <2> QED
    BY <2>1, <2>2, CsrSame DEF MemOK, Aside
<1>3. CASE Csrrw
  <2>1. Entering(c, f)' /\ pc' = pc + 1 /\ pc < 45
    BY <1>3, CsrrwEntering
  <2>2. XOK' /\ CsrOK' /\ mem' = mem /\ ctx' = ctx
    BY <1>3, CsrrwIs
  <2> QED
    BY <2>1, <2>2 DEF MemOK, Aside
<1>4. CASE Addi
  <2>1. Entering(c, f)' /\ pc' = pc + 1 /\ pc < 45
    BY <1>4, AddiEntering
  <2>2. XOK' /\ csr' = csr /\ mem' = mem /\ ctx' = ctx
    BY <1>4, AddiIs
  <2> QED
    BY <2>1, <2>2, CsrSame DEF MemOK, Aside
<1>5. CASE StoreWord
  <2>1. Entering(c, f)' /\ pc' = pc + 1 /\ pc < 45 /\ MemOK' /\ Aside(f)
    BY <1>5, StoreEntering
  <2>2. x' = x /\ csr' = csr /\ ctx' = ctx
    BY <1>5 DEF StoreWord
  <2> QED
    BY <2>1, <2>2, CsrSame DEF XOK
<1>6. CASE Move
  <2>1. Entering(c, f)' /\ pc' = pc + 1 /\ pc < 45 /\ XOK'
    BY <1>6, MoveEntering
  <2>2. mem' = mem /\ csr' = csr /\ ctx' = ctx
    BY <1>6 DEF Move
  <2> QED
    BY <2>1, <2>2, CsrSame DEF MemOK, Aside
<1> QED
  BY <1>1, <1>2, <1>3, <1>4, <1>5, <1>6

(* The steps of RESTORE_ALL together.                                      *)
LEMMA ReturnSteps ==
  ASSUME XOK, CsrOK, MemOK, NEW c, NEW f, Frame(c, f), Leaving(c, f), Whole(c, f),
         pc \in 46 .. 81, Csrw \/ LoadWord
  PROVE  /\ XOK' /\ CsrOK' /\ MemOK' /\ Aside(f) /\ ctx' = ctx
         /\ pc' \in 46 .. 81 /\ Leaving(c, f)' /\ Whole(c, f)'
<1>1. /\ XOK' /\ CsrOK' /\ mem' = mem /\ ctx' = ctx /\ pc' = pc + 1 /\ pc < 81
      /\ Leaving(c, f)'
  <2>1. CASE Csrw
    BY <2>1, CsrwLeaving DEF XOK
  <2>2. CASE LoadWord
    BY <2>2, LoadLeaving, CsrSame
  <2> QED
    BY <2>1, <2>2
<1> QED
  BY <1>1 DEF MemOK, Aside, Whole

(* Which instruction stands where.                                         *)
LEMMA Places ==
  /\ Csrr \/ Csrrw \/ Addi \/ StoreWord \/ Move \/ Jal => pc \in 1 .. 45
  /\ Csrw => pc \in 1 .. 45 \/ pc \in 46 .. 81
  /\ LoadWord => pc \in 46 .. 81
  /\ EnterTrap => pc = TrapEntryPoint
  /\ LeaveTrap => pc \in Handled
  BY AtStands DEF Csrw, Csrr, Csrrw, Addi, StoreWord, LoadWord, Move, Jal, EnterTrap, LeaveTrap

(* Each step between the first instruction and sret stays within the       *)
(* innermost trap.                                                         *)
LEMMA InwardWithin ==
  ASSUME XOK, CsrOK, MemOK, NEW c, NEW f, Frame(c, f), Within(c, f), Inward
  PROVE  /\ XOK' /\ CsrOK' /\ MemOK' /\ PcOK' /\ Aside(f) /\ ctx' = ctx
         /\ pc' \notin Program /\ Within(c, f)'
<1>1. ASSUME pc \in 1 .. 45, Csrw \/ Csrr \/ Csrrw \/ Addi \/ StoreWord \/ Move
      PROVE  /\ XOK' /\ CsrOK' /\ MemOK' /\ PcOK' /\ Aside(f) /\ ctx' = ctx
             /\ pc' \notin Program /\ Within(c, f)'
  <2>1. Entering(c, f)
    BY <1>1 DEF Within
  <2>2. /\ XOK' /\ CsrOK' /\ MemOK' /\ Aside(f) /\ ctx' = ctx
        /\ pc' \in 2 .. 45 /\ Entering(c, f)'
    BY <1>1, <2>1, EntrySteps
  <2>3. Within(c, f)'
    BY <2>2, Entered
  <2> QED
    BY <2>2, <2>3, PcValues DEF PcOK, Program
<1>2. ASSUME pc \in 46 .. 81, Csrw \/ LoadWord
      PROVE  /\ XOK' /\ CsrOK' /\ MemOK' /\ PcOK' /\ Aside(f) /\ ctx' = ctx
             /\ pc' \notin Program /\ Within(c, f)'
  <2>1. Leaving(c, f) /\ Whole(c, f)
    BY <1>2 DEF Within
  <2>2. /\ XOK' /\ CsrOK' /\ MemOK' /\ Aside(f) /\ ctx' = ctx
        /\ pc' \in 46 .. 81 /\ Leaving(c, f)' /\ Whole(c, f)'
    BY <1>2, <2>1, ReturnSteps
  <2>3. Within(c, f)'
    BY <2>2, Left
  <2> QED
    BY <2>2, <2>3, PcValues DEF PcOK, Program
<1>3. ASSUME pc \in 1 .. 45, Jal
      PROVE  /\ XOK' /\ CsrOK' /\ MemOK' /\ PcOK' /\ Aside(f) /\ ctx' = ctx
             /\ pc' \notin Program /\ Within(c, f)'
  <2>1. Entering(c, f)
    BY <1>3 DEF Within
  <2>2. /\ pc' = TrapEntryPoint /\ XOK' /\ csr' = csr /\ mem' = mem /\ ctx' = ctx
        /\ Calling(c, f)' /\ Whole(c, f)'
    BY <1>3, <2>1, JalCalls
  <2>3. Within(c, f)'
    BY <2>2 DEF Within, TrapEntryPoint, TrapBody, Handled
  <2>4. PcOK' /\ pc' \notin Program
    BY <2>2 DEF PcOK, TrapEntryPoint, Program
  <2> QED
    BY <2>2, <2>3, <2>4, CsrSame DEF MemOK, Aside
<1>4. ASSUME pc = TrapEntryPoint, EnterTrap
      PROVE  /\ XOK' /\ CsrOK' /\ MemOK' /\ PcOK' /\ Aside(f) /\ ctx' = ctx
             /\ pc' \notin Program /\ Within(c, f)'
  <2>1. Calling(c, f) /\ Whole(c, f)
    BY <1>4 DEF Within
  <2>2. /\ pc' = 2001 /\ csr' = csr /\ ctx' = ctx /\ XOK' /\ MemOK' /\ Aside(f)
        /\ InTrap(f)' /\ Whole(c, f)' /\ Linked(f)'
    BY <1>4, <2>1, EnterTrapIs
  <2>3. c.advance = 0
    BY <2>1 DEF Calling
  <2>4. Within(c, f)'
    BY <2>2, <2>3 DEF Within, TrapEntryPoint, TrapBody, Handled
  <2>5. PcOK' /\ pc' \notin Program
    BY <2>2 DEF PcOK, TrapBody, Program
  <2> QED
    BY <2>2, <2>4, <2>5, CsrSame
<1>5. ASSUME pc \in Handled, LeaveTrap
      PROVE  /\ XOK' /\ CsrOK' /\ MemOK' /\ PcOK' /\ Aside(f) /\ ctx' = ctx
             /\ pc' \notin Program /\ Within(c, f)'
  <2>1. InTrap(f) /\ Whole(c, f) /\ Linked(f)
    BY <1>5 DEF Within
  <2>2. /\ pc' = 46 /\ csr' = csr /\ mem' = mem /\ ctx' = ctx /\ XOK'
        /\ Leaving(c, f)' /\ Whole(c, f)'
    BY <1>5, <2>1, LeaveTrapIs
  <2>3. Within(c, f)'
    BY <2>2, Left
  <2>4. PcOK' /\ pc' \notin Program
    BY <2>2 DEF PcOK, Program
  <2> QED
    BY <2>2, <2>3, <2>4, CsrSame DEF MemOK, Aside
<1> QED
  BY <1>1, <1>2, <1>3, <1>4, <1>5, Places DEF Inward

-----------------------------------------------------------------------------
(* The invariant.                                                          *)
LEMMA Innermost ==
  ASSUME CtxOK, ctx # <<>>
  PROVE  /\ Len(ctx) \in 1 .. MaxDepth
         /\ Frame(ctx[Len(ctx)], FrameAt(Len(ctx)))
<1>1. Len(ctx) \in 1 .. MaxDepth
  BY TrapEntryAssumption, EmptySeq DEF CtxOK
<1>2. ctx[Len(ctx)] \in Contexts /\ ctx[Len(ctx)].x[2] = FrameAt(Len(ctx)) + 36
  BY <1>1 DEF CtxOK, sp
<1>3. PICK c \in Contexts : c = ctx[Len(ctx)]
  BY <1>2
<1>4. c.x \in [Regs -> Int] /\ c.x[0] = 0 /\ c.pc \in Int /\ c.advance \in 0 .. 4
  BY DEF Contexts
<1> QED
  BY <1>1, <1>2, <1>3, <1>4, Room DEF Frame

(* The traps outside are safe from what stays within the innermost one.    *)
LEMMA StackOutside ==
  ASSUME CtxOK, Outer, StackKept, ctx # <<>>, Len(ctx') = Len(ctx), Aside(FrameAt(Len(ctx))),
         \A k \in 1 .. Len(ctx) : /\ ctx'[k].x = ctx[k].x /\ ctx'[k].mem = ctx[k].mem
                                  /\ ctx'[k].pc = ctx[k].pc /\ ctx'[k].status = ctx[k].status,
         \A k \in 1 .. Len(ctx) - 1 : ctx'[k] = ctx[k]
  PROVE  Outer' /\ StackKept'
<1>1. Len(ctx) \in 1 .. MaxDepth
  BY Innermost
<1>2. \A k \in 1 .. Len(ctx) - 1 : \A q \in -2 .. 35 : mem'[FrameAt(k) + q] = mem[FrameAt(k) + q]
  <2> TAKE k \in 1 .. Len(ctx) - 1
  <2> TAKE q \in -2 .. 35
  <2>1. Len(ctx) \in Nat /\ k \in 1 .. MaxDepth
    BY <1>1, TrapEntryAssumption
  <2>2. FrameAt(Len(ctx)) + 36 <= FrameAt(k) - 2
    BY <2>1, Above
  <2>3. /\ FrameAt(k) + 36 <= Words - 4 /\ FrameAt(k) \in Nat
        /\ FrameAt(Len(ctx)) \in Nat
    BY <1>1, <2>1, Room
  <2>4. FrameAt(k) + q \in FrameAt(Len(ctx)) + 36 .. Words - 1
    BY <2>2, <2>3, TrapEntryAssumption
  <2> QED
    BY <2>4 DEF Aside
<1>3. Outer'
  <2> SUFFICES ASSUME NEW k \in 1 .. Len(ctx) - 1
               PROVE  /\ Whole(ctx[k], FrameAt(k))' /\ Linked(FrameAt(k))'
                      /\ (ctx[k + 1].pc = 2001 => ctx[k].advance = 0)'
    BY DEF Outer
  <2>1. \A q \in -2 .. 35 : mem'[FrameAt(k) + q] = mem[FrameAt(k) + q]
    BY <1>2
  <2>2. /\ Whole(ctx[k], FrameAt(k)) /\ Linked(FrameAt(k))
        /\ ctx[k + 1].pc = 2001 => ctx[k].advance = 0
    BY DEF Outer
  <2>3. ctx'[k] = ctx[k] /\ ctx'[k + 1].pc = ctx[k + 1].pc
    BY <1>1
  <2>4. Whole(ctx[k], FrameAt(k))'
    BY <2>1, <2>2, <2>3 DEF Whole, Regs, FrameAt
  <2>5. Linked(FrameAt(k))'
    <3>1. FrameAt(k) \in Int
      BY TrapEntryAssumption DEF FrameAt
    <3>2. FrameAt(k) - 2 = FrameAt(k) + -2 /\ FrameAt(k) - 1 = FrameAt(k) + -1
      BY <3>1
    <3>3. /\ mem'[FrameAt(k) - 2] = mem[FrameAt(k) - 2]
          /\ mem'[FrameAt(k) - 1] = mem[FrameAt(k) - 1]
      BY <2>1, <3>2
    <3> QED
      BY <2>2, <3>3 DEF Linked, FrameAt
  <2> QED
    BY <2>2, <2>3, <2>4, <2>5
<1>4. StackKept'
  <2> SUFFICES ASSUME NEW k \in 1 .. Len(ctx), NEW a \in FrameAt(k) + 36 .. Words - 1
               PROVE  mem'[a] = ctx'[k].mem[a]
    BY DEF StackKept, FrameAt
  <2>1. FrameAt(Len(ctx)) <= FrameAt(k) /\ FrameAt(k) \in Int /\ FrameAt(Len(ctx)) \in Int
    BY <1>1, TrapEntryAssumption DEF FrameAt
  <2>2. a \in FrameAt(Len(ctx)) + 36 .. Words - 1
    BY <2>1, TrapEntryAssumption
  <2>3. mem'[a] = mem[a]
    BY <2>2 DEF Aside
  <2> QED
    BY <2>3 DEF StackKept
<1> QED
  BY <1>3, <1>4

(* The same when the traps in hand stay as they are.                       *)
LEMMA OutsideKept ==
  ASSUME CtxOK, Outer, StackKept, ctx' = ctx, ctx # <<>>, Aside(FrameAt(Len(ctx)))
  PROVE  CtxOK' /\ Outer' /\ StackKept'
<1>1. CtxOK'
  BY DEF CtxOK
<1> QED
  BY <1>1, StackOutside

(* The steps between the first instruction and sret keep the invariant,    *)
LEMMA InwardSteps ==
  ASSUME Inv, Inward
  PROVE  Inv'
<1>1. /\ XOK /\ CsrOK /\ MemOK /\ PcOK /\ Len(ctx) <= MaxDepth
      /\ CtxOK /\ Outer /\ StackKept /\ Here
  BY TypeParts DEF Inv
<1>2. pc \notin Program /\ ctx # <<>>
  <2>1. pc \notin Program
    BY Places, PcValues DEF Inward
  <2> QED
    BY <1>1, <2>1 DEF Here
<1>3. PICK c, f : c = ctx[Len(ctx)] /\ f = FrameAt(Len(ctx))
  OBVIOUS
<1>4. Frame(c, f) /\ Within(c, f)
  BY <1>1, <1>2, <1>3, Innermost DEF Here
<1>5. /\ XOK' /\ CsrOK' /\ MemOK' /\ PcOK' /\ Aside(f) /\ ctx' = ctx
      /\ pc' \notin Program /\ Within(c, f)'
  BY <1>1, <1>4, InwardWithin
<1>6. TypeOK'
  BY <1>1, <1>5, TypePartsNext
<1>7. CtxOK' /\ Outer' /\ StackKept'
  BY <1>1, <1>2, <1>3, <1>5, OutsideKept
<1>8. Here'
  BY <1>2, <1>3, <1>5 DEF Here
<1> QED
  BY <1>6, <1>7, <1>8 DEF Inv

(* The invariant holds at the start.                                       *)
LEMMA InitInv == Init => Inv
<1> SUFFICES ASSUME Init PROVE Inv
  OBVIOUS
<1>1. ctx = <<>> /\ Len(ctx) = 0 /\ pc = 1000 /\ pc \in Program
  BY DEF Init, Program
<1>2. XOK /\ x[2] = Words - 4
  BY TrapEntryAssumption DEF Init, XOK, Regs, sp
<1>3. CsrOK /\ Scratch = 0
  BY DEF Init, CsrOK, CsrNames, Scratch
<1>4. MemOK
  BY TrapEntryAssumption DEF Init, MemOK
<1>5. TypeOK
  BY <1>1, <1>2, <1>3, <1>4, TypeParts, TrapEntryAssumption DEF PcOK
<1>6. CtxOK
  BY <1>1, TrapEntryAssumption DEF CtxOK
<1>7. Outer /\ StackKept
  BY <1>1 DEF Outer, StackKept
<1>8. Here
  BY <1>1, <1>2, <1>3 DEF Here, sp
<1> QED
  BY <1>5, <1>6, <1>7, <1>8 DEF Inv

(* so does a trap, of the program or of trap() itself,                     *)
LEMMA TakeTrapStep ==
  ASSUME Inv, NEW cause \in Causes, TakeTrap(cause)
  PROVE  Inv'
<1>1. /\ XOK /\ CsrOK /\ MemOK /\ PcOK /\ Len(ctx) <= MaxDepth
      /\ CtxOK /\ Outer /\ StackKept /\ Here
  BY TypeParts DEF Inv
<1> DEFINE new == [x |-> x, mem |-> mem, pc |-> pc, cause |-> cause,
                   status |-> csr.sstatus, advance |-> 0]
<1>2. /\ pc \in Program \cup Raising /\ Len(ctx) < MaxDepth /\ ctx' = Append(ctx, new)
      /\ pc' = 1 /\ x' = x /\ mem' = mem
  BY DEF TakeTrap
<1>3. /\ csr' = [csr EXCEPT !["sepc"] = pc, !["sstatus"] = Stacked(csr["sstatus"]),
                            !["scause"] = cause, !["sbadaddr"] = 5000 + Len(ctx)]
  BY Zenon DEF TakeTrap
<1>4. /\ pc \in Int /\ cause \in Int /\ Len(ctx) \in Nat /\ Status \in Int
      /\ Stacked(Status) \in Int
  BY <1>1, CsrInts, TrapEntryAssumption
     DEF PcOK, Program, TrapEntryPoint, TrapBody, Handled, CtxOK, Stacked
<1>5. /\ CsrOK' /\ Scratch' = Scratch /\ Status' = Stacked(Status) /\ Epc' = pc
      /\ BadAddr' = 5000 + Len(ctx) /\ Cause' = cause
  <2> DEFINE s == Stacked(csr["sstatus"])
             b == 5000 + Len(ctx)
  <2>1. s \in Int /\ b \in Int
    BY <1>4 DEF Status
  <2>2. csr' = [csr EXCEPT !["sepc"] = pc, !["sstatus"] = s, !["scause"] = cause, !["sbadaddr"] = b]
    BY <1>3, Zenon
  <2>3. s = Stacked(Status) /\ b = 5000 + Len(ctx)
    BY DEF Status
  <2> HIDE DEF s, b
  <2>4. /\ csr'["sscratch"] = csr["sscratch"] /\ csr'["sstatus"] = s /\ csr'["sepc"] = pc
        /\ csr'["sbadaddr"] = b /\ csr'["scause"] = cause
    BY <1>1, <2>2 DEF CsrOK, CsrNames
  <2>5. CsrOK'
    BY <1>1, <1>4, <2>1, <2>2 DEF CsrOK, CsrNames
  <2> QED
    BY <2>3, <2>4, <2>5 DEF Scratch, Status, Epc, BadAddr, Cause
<1>6. new \in Contexts
  BY <1>1, <1>4 DEF Contexts, XOK, MemOK, Status
<1>7. PICK c \in Contexts : /\ c = new /\ c.x = x /\ c.mem = mem /\ c.pc = pc
                            /\ c.cause = cause /\ c.status = Status /\ c.advance = 0
  BY <1>6 DEF Status
<1> HIDE DEF new
<1>8. /\ ctx' \in Seq(Contexts) /\ Len(ctx') = Len(ctx) + 1
      /\ \A k \in 1 .. Len(ctx) : ctx'[k] = ctx[k]
      /\ ctx'[Len(ctx) + 1] = c
  BY <1>1, <1>2, <1>6, <1>7, AppendProperties DEF CtxOK
<1> DEFINE d == Len(ctx)
<1>9. d \in Nat /\ d < MaxDepth /\ d + 1 \in 1 .. MaxDepth
  BY <1>2, <1>4, TrapEntryAssumption
<1>10. /\ x[2] = FrameAt(d + 1) + 36 /\ Scratch = 0
       /\ d = 0 => pc \in Program
       /\ d # 0 => pc \in {2001, 2010}
       /\ d # 0 => /\ Whole(ctx[d], FrameAt(d)) /\ Linked(FrameAt(d))
                   /\ pc = 2001 => ctx[d].advance = 0
  <2>1. CASE pc \in Program
    <3>1. ctx = <<>> /\ x[2] = Words - 4 /\ Scratch = 0
      BY <1>1, <2>1 DEF Here, sp
    <3> QED
      BY <2>1, <3>1, TrapEntryAssumption DEF FrameAt
  <2>2. CASE pc \notin Program
    <3>1. pc \in {2001, 2010} /\ ctx # <<>>
      BY <1>1, <1>2, <2>2 DEF Here, Raising, Program
    <3>2. d \in 1 .. MaxDepth
      BY <1>1, <3>1, Innermost
    <3>3. Within(ctx[d], FrameAt(d))
      BY <1>1, <3>1 DEF Here
    <3>4. /\ InTrap(FrameAt(d)) /\ Whole(ctx[d], FrameAt(d)) /\ Linked(FrameAt(d))
          /\ pc = 2001 => ctx[d].advance = 0
      BY <3>1, <3>3 DEF Within, TrapBody, Handled
    <3>5. x[2] = FrameAt(d) - 2 /\ Scratch = 0
      BY <3>4 DEF InTrap, sp
    <3>6. FrameAt(d) - 2 = FrameAt(d + 1) + 36
      BY <1>9, TrapEntryAssumption DEF FrameAt
    <3> QED
      BY <3>1, <3>2, <3>4, <3>5, <3>6
  <2> QED
    BY <2>1, <2>2
<1>11. TypeOK'
  <2>1. XOK' /\ MemOK' /\ PcOK'
    BY <1>1, <1>2 DEF XOK, MemOK, PcOK
  <2> QED
    BY <1>5, <1>8, <1>9, <2>1, TypePartsNext
<1>12. CtxOK'
  <2> SUFFICES ASSUME NEW k \in 1 .. d + 1
               PROVE  /\ ctx'[k].x[2] = FrameAt(k) + 36
                      /\ ctx'[k].pc \in IF k = 1 THEN Program ELSE {2001, 2010}
                      /\ ctx'[k].advance # 0 => ctx'[k].pc \in Raising
    BY <1>8, <1>9 DEF CtxOK, sp, FrameAt
  <2>1. CASE k = d + 1
    BY <1>7, <1>8, <1>9, <1>10, <2>1
  <2>2. CASE k \in 1 .. d
    BY <1>1, <1>8, <1>9, <2>2 DEF CtxOK, sp
  <2> QED
    BY <1>9, <2>1, <2>2
<1>13. Outer'
  <2> SUFFICES ASSUME NEW k \in 1 .. d
               PROVE  /\ Whole(ctx[k], FrameAt(k))' /\ Linked(FrameAt(k))'
                      /\ (ctx[k + 1].pc = 2001 => ctx[k].advance = 0)'
    BY <1>8, <1>9 DEF Outer, FrameAt
  <2>1. /\ Whole(ctx[k], FrameAt(k)) /\ Linked(FrameAt(k))
        /\ ctx'[k + 1].pc = 2001 => ctx[k].advance = 0
    <3>1. CASE k = d
      BY <1>7, <1>8, <1>9, <1>10, <3>1
    <3>2. CASE k \in 1 .. d - 1
      <4>1. k + 1 \in 1 .. d
        BY <1>9, <3>2
      <4> QED
        BY <1>1, <1>8, <3>2, <4>1 DEF Outer
    <3> QED
      BY <1>9, <3>1, <3>2
  <2> QED
    BY <1>2, <1>8, <2>1 DEF Whole, Linked, FrameAt
<1>14. StackKept'
  <2> SUFFICES ASSUME NEW k \in 1 .. d + 1, NEW a \in FrameAt(k) + 36 .. Words - 1
               PROVE  mem'[a] = ctx'[k].mem[a]
    BY <1>8 DEF StackKept, FrameAt
  <2>1. CASE k = d + 1
    BY <1>2, <1>7, <1>8, <2>1
  <2>2. CASE k \in 1 .. d
    BY <1>1, <1>2, <1>8, <2>2 DEF StackKept
  <2> QED
    BY <1>9, <2>1, <2>2
<1>15. Here'
  <2>1. pc' \notin Program /\ ctx' # <<>>
    BY <1>2, <1>8, <1>9, EmptySeq DEF Program
  <2>2. PICK f : f = FrameAt(d + 1)
    OBVIOUS
  <2>3. Entering(c, f)'
    <3>1. EnteringCsrs(c, f)'
      BY <1>2, <1>5, <1>7, <1>8, <1>10 DEF EnteringCsrs
    <3>2. EnteringRegs(c, f)'
      <4>1. x'[2] = f + 36 /\ x' = c.x /\ pc' = 1
        BY <1>2, <1>7, <1>10, <2>2
      <4> QED
        BY <4>1 DEF EnteringRegs, sp
    <3>3. EnteringFrame(c, f)'
      BY <1>2 DEF EnteringFrame, StoredAt, Regs
    <3> QED
      BY <1>7, <3>1, <3>2, <3>3 DEF Entering
  <2>4. Within(c, f)'
    BY <1>2, <2>3 DEF Within, TrapEntryPoint, TrapBody, Handled
  <2>5. ctx'[Len(ctx')] = c /\ FrameAt(Len(ctx')) = f
    BY <1>8, <2>2
  <2> QED
    BY <1>2, <2>1, <2>4, <2>5 DEF Here
<1> QED
  BY <1>11, <1>12, <1>13, <1>14, <1>15 DEF Inv

(* A context with its advance set.                                         *)
LEMMA Advanced ==
  ASSUME NEW c \in Contexts, NEW k \in 0 .. 4
  PROVE  \E new \in Contexts :
           /\ new = [c EXCEPT !.advance = k]
           /\ new.x = c.x /\ new.mem = c.mem /\ new.pc = c.pc
           /\ new.cause = c.cause /\ new.status = c.status /\ new.advance = k
<1> DEFINE new == [c EXCEPT !.advance = k]
<1>1. /\ new \in Contexts
      /\ new.x = c.x /\ new.mem = c.mem /\ new.pc = c.pc
      /\ new.cause = c.cause /\ new.status = c.status /\ new.advance = k
  BY DEF Contexts
<1>2. new = [c EXCEPT !.advance = k]
  OBVIOUS
<1> HIDE DEF new
<1> QED
  BY <1>1, <1>2, Zenon

(* so does the handler's work on tf->epc,                                  *)
LEMMA HandleStep ==
  ASSUME Inv, NEW k \in Advances, Handle(k)
  PROVE  Inv'
<1>1. /\ XOK /\ CsrOK /\ MemOK /\ PcOK /\ Len(ctx) <= MaxDepth
      /\ CtxOK /\ Outer /\ StackKept /\ Here
  BY TypeParts DEF Inv
<1>2. pc \in TrapBody /\ k \in 0 .. 4 /\ (k # 0 => ctx[Len(ctx)].pc \in Raising)
  BY TrapEntryAssumption DEF Handle, Last
<1>3. pc \notin Program /\ ctx # <<>>
  <2>1. pc \notin Program
    BY <1>2 DEF Program, TrapBody
  <2> QED
    BY <1>1, <2>1 DEF Here
<1> DEFINE d == Len(ctx)
<1>4. d \in 1 .. MaxDepth /\ Frame(ctx[d], FrameAt(d)) /\ Within(ctx[d], FrameAt(d))
  BY <1>1, <1>3, Innermost DEF Here
<1>5. PICK c, f : c = ctx[d] /\ f = FrameAt(d)
  OBVIOUS
<1>6. Frame(c, f) /\ InTrap(f) /\ Whole(c, f) /\ Linked(f) /\ c.advance = 0
  <2>1. Within(c, f) /\ Frame(c, f)
    BY <1>4, <1>5
  <2> QED
    BY <1>2, <2>1 DEF Within
<1>7. /\ pc' = 2010 /\ x' = x /\ csr' = csr /\ MemOK' /\ Aside(f)
      /\ InTrap(f)' /\ Linked(f)'
      /\ \A r \in Regs : mem'[f + r] = c.x[r]
      /\ mem'[f + 32] = Stacked(c.status) /\ mem'[f + 33] = c.pc + k
  <2>1. XOK /\ MemOK /\ k \in 0 .. 4 /\ Handle(k)
    BY <1>1, <1>2
  <2> HIDE DEF d
  <2> QED
    BY <1>6, <2>1, HandleIs
<1>8. c \in Contexts /\ k \in 0 .. 4
  BY <1>1, <1>2, <1>4, <1>5 DEF CtxOK
<1>9. PICK new \in Contexts :
        /\ new = [c EXCEPT !.advance = k]
        /\ new.x = c.x /\ new.mem = c.mem /\ new.pc = c.pc
        /\ new.cause = c.cause /\ new.status = c.status /\ new.advance = k
  BY <1>8, Advanced
<1>10. ctx' = [ctx EXCEPT ![d] = new]
  <2>1. ctx' = [ctx EXCEPT ![d] = [ctx[d] EXCEPT !.advance = k]]
    BY Zenon DEF Handle
  <2> QED
    BY <1>5, <1>9, <2>1, Zenon
<1>11. /\ ctx' \in Seq(Contexts) /\ Len(ctx') = d /\ ctx'[d] = new
       /\ \A j \in 1 .. d - 1 : ctx'[j] = ctx[j]
  <2>1. ctx \in Seq(Contexts) /\ d \in 1 .. Len(ctx) /\ new \in Contexts
    BY <1>1, <1>4 DEF CtxOK
  <2>2. /\ ctx' \in Seq(Contexts) /\ Len(ctx') = Len(ctx)
        /\ \A j \in 1 .. Len(ctx) : ctx'[j] = IF j = d THEN new ELSE ctx[j]
    BY <1>10, <2>1, ExceptSeq
  <2> QED
    BY <1>4, <2>2
<1>12. TypeOK'
  <2>1. CsrOK'
    BY <1>1, <1>7, CsrSame
  <2>2. XOK' /\ PcOK'
    BY <1>1, <1>7 DEF XOK, PcOK, Handled
  <2>3. Len(ctx') <= MaxDepth
    BY <1>1, <1>11
  <2> QED
    BY <1>7, <2>1, <2>2, <2>3, TypePartsNext
<1>13. CtxOK'
  <2> SUFFICES ASSUME NEW j \in 1 .. d
               PROVE  /\ ctx'[j].x[2] = FrameAt(j) + 36
                      /\ ctx'[j].pc \in IF j = 1 THEN Program ELSE {2001, 2010}
                      /\ ctx'[j].advance # 0 => ctx'[j].pc \in Raising
    BY <1>1, <1>11 DEF CtxOK, sp, FrameAt
  <2>1. /\ ctx[j].x[2] = FrameAt(j) + 36
        /\ ctx[j].pc \in IF j = 1 THEN Program ELSE {2001, 2010}
        /\ ctx[j].advance # 0 => ctx[j].pc \in Raising
    BY <1>1 DEF CtxOK, sp
  <2>2. CASE j = d
    <3>1. ctx'[j] = new /\ ctx[j] = c
      BY <1>5, <1>11, <2>2
    <3>2. new.x = ctx[j].x /\ new.pc = ctx[j].pc /\ new.advance = k
      BY <1>9, <3>1
    <3>3. k # 0 => new.pc \in Raising
      BY <1>2, <2>2, <3>2
    <3> QED
      BY <2>1, <3>1, <3>2, <3>3
  <2>3. CASE j \in 1 .. d - 1
    BY <1>11, <2>1, <2>3
  <2> QED
    BY <1>4, <2>2, <2>3
<1>14. Outer' /\ StackKept'
  <2>1. \A j \in 1 .. d : /\ ctx'[j].x = ctx[j].x /\ ctx'[j].mem = ctx[j].mem
                          /\ ctx'[j].pc = ctx[j].pc /\ ctx'[j].status = ctx[j].status
    <3> TAKE j \in 1 .. d
    <3>1. CASE j = d
      <4>1. ctx'[j] = new /\ ctx[j] = c
        BY <1>5, <1>11, <3>1
      <4> QED
        BY <1>9, <4>1
    <3>2. CASE j \in 1 .. d - 1
      BY <1>11, <3>2
    <3> QED
      BY <1>4, <3>1, <3>2
  <2> QED
    BY <1>1, <1>3, <1>5, <1>7, <1>11, <2>1, StackOutside
<1>15. Here'
  <2>1. Whole(new, f)'
    BY <1>7, <1>9 DEF Whole
  <2>2. Within(new, f)'
    BY <1>7, <2>1 DEF Within, TrapEntryPoint, TrapBody, Handled
  <2>3. pc' \notin Program /\ ctx' # <<>>
    BY <1>4, <1>7, <1>11, EmptySeq DEF Program
  <2> QED
    BY <1>5, <1>11, <2>2, <2>3 DEF Here, FrameAt
<1> QED
  BY <1>12, <1>13, <1>14, <1>15 DEF Inv

(* A sequence without its last element.                                    *)
LEMMA FrontIs ==
  ASSUME NEW S, NEW s \in Seq(S), s # <<>>
  PROVE  /\ Front(s) \in Seq(S) /\ Len(Front(s)) = Len(s) - 1
         /\ \A j \in 1 .. Len(s) - 1 : Front(s)[j] = s[j]
<1>1. Len(s) \in Nat \ {0}
  BY EmptySeq
<1> DEFINE n == Len(s) - 1
<1>2. 1 \in 1 .. n + 1 /\ n \in Nat /\ n <= Len(s) /\ n = n - 1 + 1
  BY <1>1
<1>3. /\ SubSeq(s, 1, n) \in Seq(S) /\ Len(SubSeq(s, 1, n)) = n
      /\ \A j \in 1 .. n : SubSeq(s, 1, n)[j] = s[j]
  BY <1>1, <1>2
<1> QED
  BY <1>3 DEF Front

(* so does sret, which lands in the program or in the body of the trap()   *)
(* that was interrupted,                                                   *)
LEMMA SretStep ==
  ASSUME Inv, Sret
  PROVE  Inv'
<1>1. /\ XOK /\ CsrOK /\ MemOK /\ PcOK /\ Len(ctx) <= MaxDepth
      /\ CtxOK /\ Outer /\ StackKept /\ Here
  BY TypeParts DEF Inv
<1>2. pc = 81
  BY AtStands DEF Sret
<1>3. ctx # <<>>
  <2>1. pc \notin Program
    BY <1>2 DEF Program
  <2> QED
    BY <1>1, <2>1 DEF Here
<1> DEFINE d == Len(ctx)
<1>4. d \in 1 .. MaxDepth /\ Frame(ctx[d], FrameAt(d)) /\ Within(ctx[d], FrameAt(d))
  BY <1>1, <1>3, Innermost DEF Here
<1>5. PICK c, f : c = ctx[d] /\ f = FrameAt(d)
  OBVIOUS
<1>6. Frame(c, f) /\ Leaving(c, f) /\ Whole(c, f)
  <2>1. Within(c, f) /\ Frame(c, f)
    BY <1>4, <1>5
  <2> QED
    BY <1>2, <2>1 DEF Within
<1>7. /\ x' = x /\ mem' = mem /\ ctx' = Front(ctx) /\ CsrOK' /\ Scratch' = 0
      /\ pc' = c.pc + c.advance /\ x = c.x
  <2>1. XOK /\ CsrOK
    BY <1>1
  <2> HIDE DEF d
  <2> QED
    BY <1>6, <2>1, SretIs
<1>8. /\ ctx' \in Seq(Contexts) /\ Len(ctx') = d - 1
      /\ \A j \in 1 .. d - 1 : ctx'[j] = ctx[j]
  BY <1>1, <1>3, <1>7, FrontIs DEF CtxOK
<1>9. d - 1 \in Nat /\ d \in Nat /\ d - 1 <= MaxDepth
  BY <1>4, TrapEntryAssumption
<1>10. /\ x[2] = f + 36
       /\ c.pc \in IF d = 1 THEN Program ELSE {2001, 2010}
       /\ c.advance # 0 => c.pc \in Raising
       /\ c.advance \in 0 .. 4
  <2>1. x[2] = f + 36 /\ c.advance \in 0 .. 4
    BY <1>6, <1>7 DEF Frame
  <2>2. /\ ctx[d].pc \in IF d = 1 THEN Program ELSE {2001, 2010}
        /\ ctx[d].advance # 0 => ctx[d].pc \in Raising
    <3>1. d \in 1 .. Len(ctx)
      BY <1>4
    <3>2. PICK j \in 1 .. Len(ctx) : j = d
      BY <3>1
    <3>3. /\ ctx[j].pc \in IF j = 1 THEN Program ELSE {2001, 2010}
          /\ ctx[j].advance # 0 => ctx[j].pc \in Raising
      BY <1>1 DEF CtxOK, sp
    <3> QED
      BY <3>2, <3>3
  <2> QED
    BY <1>5, <2>1, <2>2
<1>11. CASE d = 1
  <2>1. pc' \in Program
    <3>1. c.pc \in Program /\ (c.advance # 0 => c.pc = 1000)
      BY <1>10, <1>11 DEF Program, Raising
    <3> QED
      BY <1>7, <1>10, <3>1 DEF Program
  <2>2. ctx' = <<>>
    BY <1>8, <1>11, EmptySeq
  <2>3. x'[2] = Words - 4
    BY <1>5, <1>7, <1>10, <1>11, TrapEntryAssumption DEF FrameAt
  <2>4. XOK' /\ MemOK' /\ PcOK' /\ Len(ctx') <= MaxDepth
    BY <1>1, <1>7, <1>8, <1>9, <2>1 DEF XOK, MemOK, PcOK
  <2>5. TypeOK'
    BY <1>7, <2>4, TypePartsNext
  <2>6. CtxOK' /\ Outer' /\ StackKept'
    BY <1>8, <1>9, <1>11 DEF CtxOK, Outer, StackKept
  <2>7. Here'
    BY <1>7, <2>1, <2>2, <2>3 DEF Here, sp
  <2> QED
    BY <2>5, <2>6, <2>7 DEF Inv
<1>12. CASE d # 1
  <2>1. d - 1 \in 1 .. MaxDepth /\ d - 1 \in 1 .. d - 1
    BY <1>4, <1>9, <1>12, TrapEntryAssumption
  <2>2. c.pc \in {2001, 2010}
    BY <1>10, <1>12
  <2>3. PICK b, g : b = ctx[d - 1] /\ g = FrameAt(d - 1)
    OBVIOUS
  <2>4. /\ Whole(b, g) /\ Linked(g)
        /\ c.pc = 2001 => b.advance = 0
    <3>1. (d - 1) + 1 = d
      BY <1>9
    <3> QED
      BY <1>1, <1>5, <2>1, <2>3, <3>1 DEF Outer
  <2>5. f + 36 = g - 2
    BY <1>5, <1>9, <2>3, TrapEntryAssumption DEF FrameAt
  <2>6. /\ pc' \in TrapBody \cup Handled
        /\ pc' \in TrapBody => c.pc = 2001
    BY <1>7, <1>10, <2>2 DEF TrapBody, Handled
  <2>7. XOK' /\ MemOK' /\ PcOK' /\ Len(ctx') <= MaxDepth
    BY <1>1, <1>7, <1>8, <1>9, <2>6 DEF XOK, MemOK, PcOK
  <2>8. TypeOK'
    BY <1>7, <2>7, TypePartsNext
  <2>9. CtxOK'
    <3> SUFFICES ASSUME NEW k \in 1 .. d - 1
                 PROVE  /\ ctx[k].x[2] = FrameAt(k) + 36
                        /\ ctx[k].pc \in IF k = 1 THEN Program ELSE {2001, 2010}
                        /\ ctx[k].advance # 0 => ctx[k].pc \in Raising
      BY <1>8, <1>9 DEF CtxOK, sp, FrameAt
    <3>1. k \in 1 .. d
      BY <1>9
    <3> QED
      BY <1>1, <3>1 DEF CtxOK, sp
  <2>10. Outer'
    <3> SUFFICES ASSUME NEW k \in 1 .. d - 2
                 PROVE  /\ Whole(ctx[k], FrameAt(k)) /\ Linked(FrameAt(k))
                        /\ ctx[k + 1].pc = 2001 => ctx[k].advance = 0
      <4>1. \A k \in 1 .. d - 2 : ctx'[k] = ctx[k] /\ ctx'[k + 1] = ctx[k + 1]
        BY <1>8, <1>9
      <4>2. Len(ctx') - 1 = d - 2
        BY <1>8, <1>9
      <4> SUFFICES ASSUME NEW k \in 1 .. d - 2
                   PROVE  /\ Whole(ctx[k], FrameAt(k))' /\ Linked(FrameAt(k))'
                          /\ (ctx[k + 1].pc = 2001 => ctx[k].advance = 0)'
        BY <4>2 DEF Outer
      <4>3. ctx'[k] = ctx[k] /\ ctx'[k + 1] = ctx[k + 1]
        BY <4>1
      <4> QED
        BY <1>7, <4>3 DEF Whole, Linked, FrameAt
    <3>1. k \in 1 .. d - 1
      BY <1>9
    <3> QED
      BY <1>1, <3>1 DEF Outer
  <2>11. StackKept'
    <3> SUFFICES ASSUME NEW k \in 1 .. d - 1, NEW a \in FrameAt(k) + 36 .. Words - 1
                 PROVE  mem[a] = ctx[k].mem[a]
      BY <1>7, <1>8 DEF StackKept, FrameAt
    <3>1. k \in 1 .. d
      BY <1>9
    <3> QED
      BY <1>1, <3>1 DEF StackKept
  <2>12. Here'
    <3>1. pc' \notin Program /\ ctx' # <<>>
      BY <1>8, <2>1, <2>6, EmptySeq DEF TrapBody, Handled, Program
    <3>2. x'[2] = g - 2
      BY <1>7, <1>10, <2>5
    <3>3. InTrap(g)' /\ Whole(b, g)' /\ Linked(g)'
      BY <1>7, <2>4, <3>2 DEF InTrap, Whole, Linked, sp
    <3>4. Within(b, g)'
      BY <2>4, <2>6, <3>3, PcValues DEF Within
    <3>5. ctx'[Len(ctx')] = b /\ FrameAt(Len(ctx')) = g
      BY <1>8, <2>1, <2>3
    <3> QED
      BY <3>1, <3>4, <3>5 DEF Here, FrameAt
  <2> QED
    BY <2>8, <2>9, <2>10, <2>11, <2>12 DEF Inv
<1> QED
  BY <1>11, <1>12

(* and so does the program.                                                *)
LEMMA RunProgramStep ==
  ASSUME Inv, RunProgram
  PROVE  Inv'
<1>1. /\ XOK /\ CsrOK /\ MemOK /\ PcOK /\ Len(ctx) <= MaxDepth
      /\ CtxOK /\ Outer /\ StackKept /\ Here
  BY TypeParts DEF Inv
<1>2. /\ pc \in Program /\ pc' \in Program /\ x'[2] = x[2] /\ csr' = csr /\ ctx' = ctx
      /\ XOK' /\ MemOK'
  BY DEF RunProgram, XOK, MemOK, sp
<1>3. ctx = <<>> /\ x[2] = Words - 4 /\ Scratch = 0
  BY <1>1, <1>2 DEF Here, sp
<1>4. TypeOK'
  <2>1. CsrOK' /\ PcOK'
    BY <1>1, <1>2, CsrSame DEF PcOK
  <2> QED
    BY <1>1, <1>2, <2>1, TypePartsNext
<1>5. Len(ctx) = 0
  BY <1>3
<1>6. CtxOK' /\ Outer' /\ StackKept'
  BY <1>1, <1>2, <1>5 DEF CtxOK, Outer, StackKept
<1>7. Here'
  <2>1. Scratch' = 0
    BY <1>2, <1>3 DEF Scratch
  <2> QED
    BY <1>2, <1>3, <2>1 DEF Here, sp
<1> QED
  BY <1>4, <1>6, <1>7 DEF Inv

(* Every step keeps the invariant.                                         *)
LEMMA InvStep == Inv /\ [Next]_vars => Inv'
<1> SUFFICES ASSUME Inv, [Next]_vars PROVE Inv'
  OBVIOUS
<1>1. CASE \E cause \in Causes : TakeTrap(cause)
  BY <1>1, TakeTrapStep
<1>2. CASE \E k \in Advances : Handle(k)
  BY <1>2, HandleStep
<1>3. CASE Sret
  BY <1>3, SretStep
<1>4. CASE Inward
  BY <1>4, InwardSteps
<1>5. CASE RunProgram
  BY <1>5, RunProgramStep
<1>6. CASE UNCHANGED vars
  BY <1>6 DEF vars, Inv, TypeOK, CtxOK, Outer, StackKept, Here, Whole, Linked, Within, Entering,
     EnteringCsrs, EnteringRegs, EnteringFrame, Calling, InTrap, Leaving,
     Scratch, Status, Epc, BadAddr, Cause
<1> QED
  BY <1>1, <1>2, <1>3, <1>4, <1>5, <1>6 DEF Next, Instruction, Inward

(* The inductive invariant holds in every state.                           *)
THEOREM InvHolds == Spec => []Inv
  BY InitInv, InvStep, PTL DEF Spec

-----------------------------------------------------------------------------
(* The innermost trap of a state outside the program.                      *)
LEMMA InnermostHere ==
  ASSUME Inv, pc \notin Program
  PROVE  \E c, f : /\ c = ctx[Len(ctx)] /\ c \in Contexts /\ f = FrameAt(Len(ctx))
                   /\ Len(ctx) \in 1 .. MaxDepth /\ Frame(c, f) /\ Within(c, f)
<1>1. CtxOK /\ Here /\ ctx # <<>>
  BY DEF Inv, Here
<1>2. Len(ctx) \in 1 .. MaxDepth /\ Frame(ctx[Len(ctx)], FrameAt(Len(ctx)))
  BY <1>1, Innermost
<1>3. ctx[Len(ctx)] \in Contexts
  BY <1>1, <1>2 DEF CtxOK
<1> QED
  BY <1>1, <1>2, <1>3 DEF Here

(* What the invariant says of sscratch,                                    *)
LEMMA InvScratchClear == Inv => ScratchClear
<1> SUFFICES ASSUME Inv, pc \notin DOMAIN Code PROVE Scratch = 0
  BY DEF ScratchClear, Scratch
<1>1. pc \in Program \cup {TrapEntryPoint} \cup TrapBody \cup Handled
  BY CodeDomain DEF Inv, TypeOK
<1>2. CASE pc \in Program
  BY <1>2 DEF Inv, Here
<1>3. CASE pc \notin Program
  <2>1. PICK c, f : Within(c, f)
    BY <1>3, InnermostHere
  <2> QED
    BY <1>1, <1>3, <2>1 DEF Within, Calling, InTrap
<1> QED
  BY <1>2, <1>3

(* The bits of sstatus: a stacked one has SPP set, and sret brings SIE     *)
(* back.                                                                   *)
LEMMA StatusTells ==
  ASSUME NEW s \in Int
  PROVE  /\ (Stacked(s) \div 4) % 2 # 0
         /\ Unstacked(Stacked(s)) % 2 = s % 2
<1>1. s % 2 = 0 \/ s % 2 = 1
  OBVIOUS
<1>2. Stacked(s) = 4 \/ Stacked(s) = 6
  BY <1>1 DEF Stacked
<1>3. CASE s % 2 = 0
  <2>1. Stacked(s) = 4
    BY <1>3 DEF Stacked
  <2> QED
    BY <1>3, <2>1 DEF Unstacked
<1>4. CASE s % 2 = 1
  <2>1. Stacked(s) = 6
    BY <1>4 DEF Stacked
  <2> QED
    BY <1>4, <2>1 DEF Unstacked
<1> QED
  BY <1>1, <1>3, <1>4

(* of the frame trap() is called with,                                     *)
LEMMA InvFrameFaithful == Inv => FrameFaithful
<1> SUFFICES ASSUME Inv, pc = TrapEntryPoint PROVE FrameFaithful
  BY DEF FrameFaithful
<1>1. pc \notin Program
  BY DEF TrapEntryPoint, Program
<1>2. PICK c, f : /\ c = ctx[Len(ctx)] /\ c \in Contexts /\ f = FrameAt(Len(ctx))
                  /\ Len(ctx) \in 1 .. MaxDepth /\ Frame(c, f) /\ Within(c, f)
  BY <1>1, InnermostHere
<1>3. Calling(c, f) /\ Whole(c, f)
  BY <1>2 DEF Within
<1>4. Last(ctx) = c
  BY <1>2 DEF Last
<1>5. Base(c) = f
  BY <1>2 DEF Frame, Base, sp
<1>6. x[a0] = Base(c) /\ Saved(c) /\ mem[x[a0] + 32] = Stacked(c.status)
      /\ mem[x[a0] + 34] = 5000 + Len(ctx) - 1 /\ mem[x[a0] + 35] = c.cause
  BY <1>3, <1>5 DEF Calling, Whole, Saved
<1>7. mem[x[a0] + 33] = c.pc
  BY <1>2, <1>3 DEF Calling, Whole, Frame
<1>8. trap_in_kernel
  <2>1. c.status \in Int
    BY <1>2 DEF Contexts
  <2> QED
    BY <1>6, <2>1, StatusTells DEF trap_in_kernel
<1> QED
  BY <1>4, <1>6, <1>7, <1>8 DEF FrameFaithful

(* and of the frames outside.                                              *)
LEMMA InvOuterFrames == Inv => OuterFramesIntact
<1> SUFFICES ASSUME Inv, NEW d \in 1 .. Len(ctx) - 1
             PROVE  Saved(ctx[d]) /\ mem[Base(ctx[d]) + 33] = ctx[d].pc + ctx[d].advance
  BY DEF OuterFramesIntact
<1>1. CtxOK /\ Whole(ctx[d], FrameAt(d))
  BY DEF Inv, Outer
<1>2. d \in 1 .. Len(ctx)
  BY <1>1 DEF CtxOK
<1>3. ctx[d].x[2] = FrameAt(d) + 36
  BY <1>1, <1>2 DEF CtxOK, sp
<1>4. Base(ctx[d]) = FrameAt(d)
  BY <1>2, <1>3, TrapEntryAssumption DEF Base, FrameAt, sp
<1> QED
  BY <1>1, <1>4 DEF Whole, Saved

(* The last instruction is sret, and nothing else runs there.              *)
LEMMA OnlySret ==
  ASSUME Next, At("sret")
  PROVE  Sret
<1>1. pc = 81
  BY AtStands
<1>2. /\ pc \notin Program /\ pc \notin Raising /\ pc \notin TrapBody /\ pc \notin Handled
      /\ pc # TrapEntryPoint /\ pc \notin 1 .. 45
  BY <1>1 DEF Program, Raising, TrapBody, Handled, TrapEntryPoint
<1>3. ~(\E cause \in Causes : TakeTrap(cause)) /\ ~(\E k \in Advances : Handle(k)) /\ ~RunProgram
  <2>1. ASSUME NEW cause \in Causes, TakeTrap(cause) PROVE FALSE
    <3>1. pc \in Program \cup Raising
      BY <2>1, Zenon DEF TakeTrap
    <3> QED
      BY <1>2, <3>1
  <2>2. ASSUME NEW k \in Advances, Handle(k) PROVE FALSE
    <3>1. pc \in TrapBody
      BY <2>2, Zenon DEF Handle
    <3> QED
      BY <1>2, <3>1
  <2>3. ASSUME RunProgram PROVE FALSE
    <3>1. pc \in Program
      BY <2>3, Zenon DEF RunProgram
    <3> QED
      BY <1>2, <3>1
  <2> QED
    BY <2>1, <2>2, <2>3
<1>4. ~EnterTrap /\ ~LeaveTrap
  BY <1>2 DEF EnterTrap, LeaveTrap
<1>5. /\ ~Csrr /\ ~Csrrw /\ ~Addi /\ ~StoreWord /\ ~Move /\ ~Jal
  BY <1>2, Places
<1>6. ~Csrw /\ ~LoadWord
  BY <1>1, AtStands DEF Csrw, LoadWord
<1> QED
  BY <1>3, <1>4, <1>5, <1>6 DEF Next, Instruction

(* sret finds the interrupted state in the registers, the stack and the    *)
(* CSRs.                                                                   *)
LEMMA SretTransparent ==
  ASSUME Inv, [Next]_vars
  PROVE  [ At("sret") =>
            LET c == Last(ctx) IN
              /\ x' = c.x
              /\ \A a \in c.x[sp] .. Words - 1 : mem[a] = c.mem[a]
              /\ csr'.sstatus % 2 = c.status % 2
              /\ pc' = c.pc + c.advance ]_vars
<1> SUFFICES ASSUME Next, At("sret")
             PROVE  LET c == Last(ctx) IN
                      /\ x' = c.x
                      /\ \A a \in c.x[sp] .. Words - 1 : mem[a] = c.mem[a]
                      /\ csr'.sstatus % 2 = c.status % 2
                      /\ pc' = c.pc + c.advance
  OBVIOUS
<1>1. Sret
  BY OnlySret
<1>2. pc = 81 /\ pc \notin Program
  BY AtStands DEF Program
<1>3. PICK c, f : /\ c = ctx[Len(ctx)] /\ c \in Contexts /\ f = FrameAt(Len(ctx))
                  /\ Len(ctx) \in 1 .. MaxDepth /\ Frame(c, f) /\ Within(c, f)
  BY <1>2, InnermostHere
<1>4. Leaving(c, f) /\ Whole(c, f)
  BY <1>2, <1>3 DEF Within
<1>5. XOK /\ CsrOK
  BY TypeParts DEF Inv
<1>6. /\ x' = x /\ x = c.x /\ pc' = c.pc + c.advance
      /\ Status' = Unstacked(Stacked(c.status))
  BY <1>1, <1>3, <1>4, <1>5, SretIs
<1>7. Last(ctx) = c
  BY <1>3 DEF Last
<1>8. \A a \in c.x[sp] .. Words - 1 : mem[a] = c.mem[a]
  <2>1. c.x[sp] = FrameAt(Len(ctx)) + 36 /\ Len(ctx) \in 1 .. Len(ctx)
    BY <1>3 DEF Frame, sp
  <2> QED
    BY <1>3, <2>1 DEF Inv, StackKept
<1>9. csr'.sstatus % 2 = c.status % 2
  <2>1. c.status \in Int
    BY <1>3 DEF Contexts
  <2> QED
    BY <1>6, <2>1, StatusTells DEF Status
<1> QED
  BY <1>6, <1>7, <1>8, <1>9

(* Registers, CSRs and the stack keep their types: no load or store of     *)
(* trapentry.S or trap() leaves the stack, and sret never jumps out of the *)
(* code.                                                                   *)
THEOREM EntryTypeCorrect == Spec => []TypeOK
<1>1. Inv => TypeOK
  BY DEF Inv
<1> QED
  BY <1>1, InvHolds, PTL

(* trap() is called with a struct trapframe of the state that was          *)
(* interrupted, however deep the traps are nested (trapentry.S:5-54,       *)
(* trap.c:37-39).                                                          *)
THEOREM FrameIsFaithful == Spec => []FrameFaithful
  BY InvHolds, InvFrameFaithful, PTL

(* A trap taken inside trap() leaves the frames of all traps outside it as *)
(* they are (trapentry.S:42, "recursive exception").                       *)
THEOREM OuterFramesStayIntact == Spec => []OuterFramesIntact
  BY InvHolds, InvOuterFrames, PTL

(* Whenever C code or the program runs, sscratch is 0 (trap.c:29-31,       *)
(* trapentry.S:42-44).                                                     *)
THEOREM ScratchStaysClear == Spec => []ScratchClear
  BY InvHolds, InvScratchClear, PTL

(* Every sret restores the registers, the stack and the interrupt enable   *)
(* of the code it returns to, and goes on at the epc its handler left      *)
(* (trapentry.S:57-99).                                                    *)
THEOREM TrapsAreTransparent == Spec => Transparent
  BY InvHolds, SretTransparent, PTL DEF Spec, Transparent
=============================================================================
