---------------------------- MODULE StringProofs ----------------------------
(***************************************************************************)
(* Every function of string.c does what its comment says, whatever the     *)
(* size of the memory, the bytes in it and where the arguments lie. LibInv *)
(* is the inductive invariant: one conjunct for each loop, which says what *)
(* the turns so far have done to the memory and what they have seen of it. *)
(* MoveInv, the conjunct of memmove and memcpy, stands by itself, and so   *)
(* does ConvertInv, which says what strtol has read of its text.           *)
(***************************************************************************)
EXTENDS StringLib, WellFoundedInduction, TLAPS

Moving == call.fn \in {"memmove", "memcpy"}

(* Bytes lo .. hi - 1 of the n have been moved, no other byte has changed. *)
MovedBetween(lo, hi) ==
    mem = [a \in Addr |-> IF a \in call.dst + lo .. call.dst + hi - 1
                          THEN before[call.src + (a - call.dst)] ELSE before[a]]

ArgumentsOK ==
    /\ call.dst \in Addr /\ call.src \in Addr /\ call.n \in 0 .. Size
    /\ call.dst + call.n - 1 <= Size /\ call.src + call.n - 1 <= Size
    /\ call.fn = "memcpy" => Apart(call.dst, call.n, call.src, call.n)
    /\ mem \in [Addr -> 0 .. 255] /\ before \in [Addr -> 0 .. 255]

Locals == [d : Int, s : Int, n : Int, val : Int, neg : BOOLEAN, base : Int]

(* Each loop keeps ahead of the bytes it has overwritten: forward from     *)
(* above or from far below, backward from below.                           *)
LoopOK ==
    /\ pc \in {"memmove", "memcpy", "forward", "backward", "done"}
    /\ r \in Locals /\ r.n \in 0 .. call.n
    /\ pc \in {"memmove", "memcpy"} =>
         /\ pc = call.fn /\ r.n = call.n /\ r.d = call.dst /\ r.s = call.src
         /\ MovedBetween(0, 0)
    /\ pc = "forward" =>
         /\ call.src < call.dst => call.src + call.n <= call.dst
         /\ r.d = call.dst + (call.n - r.n) /\ r.s = call.src + (call.n - r.n)
         /\ MovedBetween(0, call.n - r.n)
    /\ pc = "backward" =>
         /\ call.src < call.dst
         /\ r.d = call.dst + r.n /\ r.s = call.src + r.n
         /\ MovedBetween(r.n, call.n)
    /\ pc = "done" =>
         /\ MovedBetween(0, call.n)
         /\ \E k \in 0 .. call.n : r.d = call.dst + k /\ r.s = call.src + k

MoveInv == Moving => ArgumentsOK /\ LoopOK

(* A call of memmove or memcpy starts with nothing moved,                  *)
LEMMA MoveInit == Init => MoveInv
<1> SUFFICES ASSUME Init, Moving PROVE ArgumentsOK /\ LoopOK
  BY DEF MoveInv
<1>1. /\ before \in [Addr -> Bytes] /\ mem = before
      /\ \E fn \in Calls \ {"strtol"}, dst \in Addr, src \in Addr, n \in 0 .. Size, c \in Bytes :
           LET args == [fn |-> fn, dst |-> dst, src |-> src, n |-> n, c |-> c, base |-> 0]
           IN  Permitted(args, before) /\ Begin(args)
  <2>1. ~ \E base \in Bases :
             Begin([fn |-> "strtol", dst |-> 1, src |-> 1, n |-> 0, c |-> NUL, base |-> base])
    BY DEF Begin, Moving
  <2>2. /\ before \in [Addr -> Bytes]
        /\ \E fn \in Calls \ {"strtol"}, dst \in Addr, src \in Addr, n \in 0 .. Size, c \in Bytes :
             LET args == [fn |-> fn, dst |-> dst, src |-> src, n |-> n, c |-> c, base |-> 0]
             IN  Permitted(args, before) /\ Begin(args)
    BY <2>1, Zenon DEF Init
  <2>3. mem = before
    BY <2>2 DEF Begin
  <2>4. QED
    BY <2>2, <2>3
<1>2. PICK fn \in Calls \ {"strtol"}, dst \in Addr, src \in Addr, n \in 0 .. Size, c \in Bytes :
        LET args == [fn |-> fn, dst |-> dst, src |-> src, n |-> n, c |-> c, base |-> 0]
        IN  Permitted(args, before) /\ Begin(args)
  BY <1>1
<1>3. /\ call = [fn |-> fn, dst |-> dst, src |-> src, n |-> n, c |-> c, base |-> 0]
      /\ r = [d |-> dst, s |-> src, n |-> n, val |-> 0, neg |-> FALSE, base |-> 0]
      /\ pc = fn
  BY <1>2 DEF Begin
<1>4. fn \in {"memmove", "memcpy"}
  BY <1>3 DEF Moving
<1>5. Room(dst, n) /\ Room(src, n) /\ (fn = "memcpy" => Apart(dst, n, src, n))
  BY <1>2, <1>4 DEF Permitted
<1>6. mem \in [Addr -> 0 .. 255]
  <2>1. \A b \in Bytes : b \in 0 .. 255
    BY StringAssumption
  <2>2. QED
    BY <1>1, <2>1
<1>7. MovedBetween(0, 0)
  BY <1>1, <1>3, <1>6 DEF MovedBetween, Addr
<1>8. ArgumentsOK
  BY <1>1, <1>3, <1>5, <1>6 DEF ArgumentsOK, Room
<1>9. LoopOK
  BY <1>3, <1>4, <1>7 DEF LoopOK, Locals, Addr
<1>10. QED
  BY <1>8, <1>9

(* and no step of their loops overwrites a byte that is still to be moved. *)
LEMMA MoveStep == MoveInv /\ [Next]_vars => MoveInv'
<1> SUFFICES ASSUME MoveInv, [Next]_vars, Moving' PROVE (ArgumentsOK /\ LoopOK)'
  BY DEF MoveInv
<1>1. CASE UNCHANGED vars
  BY <1>1 DEF MoveInv, vars, Moving, ArgumentsOK, LoopOK, MovedBetween, Apart, Addr
<1> SUFFICES ASSUME Next PROVE (ArgumentsOK /\ LoopOK)'
  BY <1>1
<1>2. call' = call /\ before' = before
  BY DEF Next, Memset, Memmove, CopyForward, CopyBackward, Strcpy, Strncpy, Written, Measure, Find,
         Strcmp, Memcmp, CompareBytes, StrtolBlank, StrtolSign, StrtolPrefix, StrtolDigit, Called
<1>3. Moving /\ ArgumentsOK /\ LoopOK
  BY <1>2 DEF MoveInv, Moving
<1>4. Memmove \/ CopyForward \/ CopyBackward \/ Written
  BY <1>3 DEF Next, LoopOK, Memset, Strcpy, Strncpy, Measure, Find, Strcmp, Memcmp, Comparing,
              StrtolBlank, StrtolSign, StrtolPrefix, StrtolDigit
<1>5. /\ Size \in Nat /\ call.dst \in Nat /\ call.src \in Nat /\ call.n \in Nat
      /\ call.dst >= 1 /\ call.dst + call.n - 1 <= Size
      /\ call.src >= 1 /\ call.src + call.n - 1 <= Size
  BY <1>3, StringAssumption DEF ArgumentsOK, Addr
<1>6. r \in Locals /\ r.d \in Int /\ r.s \in Int /\ r.n \in 0 .. call.n
  BY <1>3 DEF LoopOK, Locals
<1>7. r = [d |-> r.d, s |-> r.s, n |-> r.n, val |-> r.val, neg |-> r.neg, base |-> r.base]
  BY <1>6 DEF Locals
<1>8. mem \in [Addr -> 0 .. 255] /\ before \in [Addr -> 0 .. 255]
  BY <1>3 DEF ArgumentsOK
<1>9. mem' \in [Addr -> 0 .. 255] => ArgumentsOK'
  BY <1>2, <1>3 DEF ArgumentsOK, Apart
<1>10. CASE Memmove
  <2>1. mem' = mem /\ r.n = call.n /\ r.d = call.dst /\ r.s = call.src /\ pc = call.fn /\ MovedBetween(0, 0)
    BY <1>3, <1>10 DEF Memmove, LoopOK
  <2>2. CASE pc = "memmove" /\ r.s < r.d /\ r.s + r.n > r.d
    <3>1. pc' = "backward" /\ r' = [r EXCEPT !.d = r.d + r.n, !.s = r.s + r.n]
      BY <1>10, <2>2 DEF Memmove, Goto
    <3>2. r'.d = call.dst + call.n /\ r'.s = call.src + call.n /\ r'.n = call.n /\ r' \in Locals
      <4>1. r' = [d |-> r.d + r.n, s |-> r.s + r.n, n |-> r.n, val |-> r.val, neg |-> r.neg, base |-> r.base]
        BY <1>7, <3>1
      <4>2. QED
        BY <1>5, <1>6, <2>1, <4>1 DEF Locals
    <3>3. MovedBetween(call.n, call.n)'
      BY <1>2, <1>5, <2>1 DEF MovedBetween, Addr
    <3>4. LoopOK'
      BY <1>2, <1>5, <2>1, <2>2, <3>1, <3>2, <3>3 DEF LoopOK
    <3>5. QED
      BY <1>8, <1>9, <2>1, <3>4
  <2>3. CASE ~(pc = "memmove" /\ r.s < r.d /\ r.s + r.n > r.d)
    <3>1. pc' = "forward" /\ r' = r
      BY <1>10, <2>3 DEF Memmove, Goto
    <3>2. call.src < call.dst => call.src + call.n <= call.dst
      BY <1>3, <1>5, <2>1, <2>3 DEF Moving, ArgumentsOK, Apart
    <3>3. MovedBetween(0, 0)'
      BY <1>2, <2>1 DEF MovedBetween
    <3>4. LoopOK'
      BY <1>2, <1>5, <1>6, <2>1, <3>1, <3>2, <3>3 DEF LoopOK
    <3>5. QED
      BY <1>8, <1>9, <2>1, <3>4
  <2>4. QED
    BY <2>2, <2>3
<1>11. CASE CopyForward
  <2>1. /\ pc = "forward" /\ pc' = "forward" /\ r.n > 0
        /\ mem' = [mem EXCEPT ![r.d] = Byte(r.s)]
        /\ r' = [r EXCEPT !.d = r.d + 1, !.s = r.s + 1, !.n = r.n - 1]
    BY <1>11 DEF CopyForward, BytesLeft, Store
  <2>2. r'.d = r.d + 1 /\ r'.s = r.s + 1 /\ r'.n = r.n - 1 /\ r' \in Locals
    <3>1. r' = [d |-> r.d + 1, s |-> r.s + 1, n |-> r.n - 1, val |-> r.val, neg |-> r.neg, base |-> r.base]
      BY <1>7, <2>1
    <3>2. QED
      BY <1>5, <1>6, <3>1 DEF Locals
  <2>3. PICK k \in 0 .. call.n - 1 : k = call.n - r.n
    BY <1>5, <1>6, <2>1
  <2>4. /\ r.d = call.dst + k /\ r.s = call.src + k /\ MovedBetween(0, k)
        /\ call.src < call.dst => call.src + call.n <= call.dst
    BY <1>3, <2>1, <2>3 DEF LoopOK
  <2>5. r.d \in Addr /\ r.s \in Addr /\ r.s \notin call.dst + 0 .. call.dst + k - 1
    BY <1>5, <2>3, <2>4 DEF Addr
  <2>6. mem[r.s] = before[r.s]
    BY <2>4, <2>5 DEF MovedBetween
  <2>7. Byte(r.s) = before[call.src + k] /\ Byte(r.s) \in 0 .. 255
    BY <1>8, <2>4, <2>5, <2>6 DEF Byte
  <2>8. MovedBetween(0, k + 1)'
    <3>1. \A a \in Addr : a # r.d => (a \in call.dst + 0 .. call.dst + k - 1 <=> a \in call.dst + 0 .. call.dst + (k + 1) - 1)
      BY <1>5, <2>3, <2>4 DEF Addr
    <3>2. r.d \in call.dst + 0 .. call.dst + (k + 1) - 1 /\ call.src + (r.d - call.dst) = call.src + k
      BY <1>5, <2>3, <2>4
    <3>3. QED
      BY <1>2, <2>1, <2>4, <2>5, <2>7, <3>1, <3>2 DEF MovedBetween
  <2>9. mem' \in [Addr -> 0 .. 255]
    BY <1>8, <2>1, <2>7
  <2>10. /\ r'.n \in 0 .. call.n /\ k + 1 = call.n - r'.n
         /\ r'.d = call.dst + (call.n - r'.n) /\ r'.s = call.src + (call.n - r'.n)
    BY <1>5, <1>6, <2>2, <2>3, <2>4
  <2>11. LoopOK'
    BY <1>2, <2>1, <2>2, <2>4, <2>8, <2>10 DEF LoopOK
  <2>12. QED
    BY <1>9, <2>9, <2>11
<1>12. CASE CopyBackward
  <2>1. /\ pc = "backward" /\ pc' = "backward" /\ r.n > 0
        /\ mem' = [mem EXCEPT ![r.d - 1] = Byte(r.s - 1)]
        /\ r' = [r EXCEPT !.d = r.d - 1, !.s = r.s - 1, !.n = r.n - 1]
    BY <1>12 DEF CopyBackward, BytesLeft
  <2>2. r'.d = r.d - 1 /\ r'.s = r.s - 1 /\ r'.n = r.n - 1 /\ r' \in Locals
    <3>1. r' = [d |-> r.d - 1, s |-> r.s - 1, n |-> r.n - 1, val |-> r.val, neg |-> r.neg, base |-> r.base]
      BY <1>7, <2>1
    <3>2. QED
      BY <1>5, <1>6, <3>1 DEF Locals
  <2>3. PICK k \in 0 .. call.n - 1 : k = r.n - 1
    BY <1>5, <1>6, <2>1
  <2>4. /\ r.d = call.dst + r.n /\ r.s = call.src + r.n /\ MovedBetween(r.n, call.n)
        /\ call.src < call.dst
    BY <1>3, <2>1 DEF LoopOK
  <2>5. r.d - 1 = call.dst + k /\ r.s - 1 = call.src + k /\ r.n = k + 1
    BY <1>5, <1>6, <2>3, <2>4
  <2>6. /\ r.d - 1 \in Addr /\ r.s - 1 \in Addr
        /\ r.s - 1 \notin call.dst + r.n .. call.dst + call.n - 1
    BY <1>5, <2>3, <2>4, <2>5 DEF Addr
  <2>7. mem[r.s - 1] = before[r.s - 1]
    BY <2>4, <2>6 DEF MovedBetween
  <2>8. Byte(r.s - 1) = before[call.src + k] /\ Byte(r.s - 1) \in 0 .. 255
    BY <1>8, <2>5, <2>6, <2>7 DEF Byte
  <2>9. MovedBetween(k, call.n)'
    <3>1. \A a \in Addr : a # r.d - 1 => (a \in call.dst + r.n .. call.dst + call.n - 1 <=> a \in call.dst + k .. call.dst + call.n - 1)
      BY <1>5, <2>3, <2>5 DEF Addr
    <3>2. r.d - 1 \in call.dst + k .. call.dst + call.n - 1 /\ call.src + ((r.d - 1) - call.dst) = call.src + k
      BY <1>5, <2>3, <2>5
    <3>3. QED
      BY <1>2, <2>1, <2>4, <2>6, <2>8, <3>1, <3>2 DEF MovedBetween
  <2>10. mem' \in [Addr -> 0 .. 255]
    BY <1>8, <2>1, <2>8
  <2>11. r'.n \in 0 .. call.n /\ k = r'.n /\ r'.d = call.dst + r'.n /\ r'.s = call.src + r'.n
    BY <1>5, <1>6, <2>2, <2>3, <2>5
  <2>12. LoopOK'
    BY <1>2, <2>1, <2>2, <2>4, <2>9, <2>11 DEF LoopOK
  <2>13. QED
    BY <1>9, <2>10, <2>12
<1>13. CASE Written
  <2>1. pc' = "done" /\ mem' = mem /\ r' = r /\ r.n = 0 /\ pc \in {"forward", "backward"}
    BY <1>3, <1>6, <1>13 DEF Written, Return, BytesLeft, LoopOK
  <2>2. MovedBetween(0, call.n) /\ \E k \in 0 .. call.n : r.d = call.dst + k /\ r.s = call.src + k
    <3>1. CASE pc = "forward"
      <4>1. /\ r.d = call.dst + (call.n - r.n) /\ r.s = call.src + (call.n - r.n)
            /\ MovedBetween(0, call.n - r.n)
        BY <1>3, <3>1 DEF LoopOK
      <4>2. call.n - r.n = call.n /\ call.n \in 0 .. call.n
        BY <1>5, <2>1
      <4>3. QED
        BY <4>1, <4>2
    <3>2. CASE pc = "backward"
      <4>1. r.d = call.dst + 0 /\ r.s = call.src + 0 /\ MovedBetween(0, call.n)
        BY <1>3, <2>1, <3>2 DEF LoopOK
      <4>2. QED
        BY <1>5, <4>1
    <3>3. QED
      BY <2>1, <3>1, <3>2
  <2>3. MovedBetween(0, call.n)'
    BY <1>2, <2>1, <2>2 DEF MovedBetween
  <2>4. LoopOK'
    BY <1>2, <1>6, <2>1, <2>2, <2>3 DEF LoopOK
  <2>5. QED
    BY <1>8, <1>9, <2>1, <2>4
<1>14. QED
  BY <1>4, <1>10, <1>11, <1>12, <1>13

(* memmove and memcpy leave at dst what stood at src and nothing else      *)
(* changed (string.c:283-339).                                             *)
THEOREM MoveCorrect == Spec => []MovesAsThroughACopy
<1>1. MoveInv => MovesAsThroughACopy
  BY DEF MoveInv, Moving, LoopOK, MovedBetween, MovesAsThroughACopy, ArgumentsOK, Addr
<1>2. QED
  BY MoveInit, MoveStep, <1>1, PTL DEF Spec
-----------------------------------------------------------------------------
(* k bytes from a on lie in the memory and none of them is a NUL.          *)
Plain(a, k) == a + k <= Size + 1 /\ \A b \in a .. a + k - 1 : before[b] # NUL

(* The arguments are those of a call its comment allows.                   *)
ArgsOK ==
    /\ call.fn \in Calls /\ call.dst \in Addr /\ call.src \in Addr
    /\ call.n \in 0 .. Size /\ call.c \in 0 .. 255 /\ call.base \in 0 .. 36
    /\ before \in [Addr -> 0 .. 255]
    /\ call.fn # "strtol" => Permitted(call, before)
    /\ call.fn = "strtol" => call.src = 1 /\ before[Size] = NUL

(* Each function runs its own loops.                                       *)
PlaceOK ==
    /\ mem \in [Addr -> 0 .. 255] /\ r \in Locals
    /\ \/ pc \in {call.fn, "done"}
       \/ call.fn \in {"memmove", "memcpy"} /\ pc \in {"forward", "backward"}
       \/ call.fn = "strtol" /\ pc \in {"sign", "prefix", "digits"}

(* What may be read of a string or a region that starts at a.              *)
Counted == call.fn \notin {"strlen", "strchr", "strfind", "strcpy", "strcmp", "strtol"}
Reach(a) ==
    {b \in a .. Size : /\ call.fn \notin {"memmove", "memcpy", "memcmp"} => Plain(a, b - a)
                       /\ Counted => b < a + call.n}
ReadOK ==
    \A b \in read : \/ b \in Reach(call.src)
                    \/ call.fn \in Comparing /\ b \in Reach(call.dst)

(* memset has written all but n bytes.                                     *)
MemsetOK ==
    call.fn = "memset" =>
        LET k == call.n - r.n IN
        /\ r.n \in 0 .. call.n /\ r.d = call.dst + k /\ r.s = call.src
        /\ pc = "done" => r.n = 0
        /\ mem = [a \in Addr |-> IF a \in call.dst .. call.dst + k - 1 THEN call.c ELSE before[a]]

(* strcpy has copied the bytes before s, none of them a NUL but the last.  *)
StrcpyOK ==
    call.fn = "strcpy" =>
        LET k == r.s - call.src IN
        /\ k \in 0 .. Size /\ r.d = call.dst + k /\ r.n = call.n
        /\ MovedBetween(0, k)
        /\ pc = "strcpy" => Plain(call.src, k)
        /\ pc = "done" => k > 0 /\ Plain(call.src, k - 1) /\ before[call.src + (k - 1)] = NUL

(* strncpy has written all but n bytes: the text up to s, then NULs.       *)
StrncpyOK ==
    call.fn = "strncpy" =>
        LET k == call.n - r.n
            t == r.s - call.src
        IN  /\ r.n \in 0 .. call.n /\ r.d = call.dst + k /\ t \in 0 .. k
            /\ pc = "done" => r.n = 0
            /\ Plain(call.src, t) /\ (t < k => r.s \in Addr /\ before[r.s] = NUL)
            /\ mem = [a \in Addr |->
                        IF a \in call.dst .. call.dst + k - 1
                        THEN IF a - call.dst < t THEN before[call.src + (a - call.dst)] ELSE NUL
                        ELSE before[a]]

(* strlen and strnlen have counted the bytes before s.                     *)
MeasureOK ==
    call.fn \in {"strlen", "strnlen"} =>
        /\ mem = before /\ r.d = call.dst /\ r.n = call.n
        /\ r.val \in 0 .. Size /\ r.s = call.src + r.val /\ Plain(call.src, r.val)
        /\ call.fn = "strnlen" => r.val <= call.n
        /\ pc = "done" => /\ ret = r.val
                          /\ \/ call.fn = "strnlen" /\ r.val = call.n
                             \/ r.s \in Addr /\ before[r.s] = NUL

(* strchr and strfind have met neither a NUL nor c before s.               *)
FindOK ==
    call.fn \in {"strchr", "strfind"} =>
        /\ mem = before /\ r.d = call.dst /\ r.n = call.n
        /\ r.s - call.src \in 0 .. Size /\ Plain(call.src, r.s - call.src)
        /\ \A a \in call.src .. r.s - 1 : before[a] # call.c
        /\ pc = "done" => /\ r.s \in Addr /\ before[r.s] \in {NUL, call.c}
                          /\ ret = IF before[r.s] = NUL /\ call.fn = "strchr" THEN NUL ELSE r.s

(* The bytes compared so far are the same, and no NUL ends them.           *)
CompareOK ==
    call.fn \in Comparing =>
        LET k == r.s - call.src IN
        /\ mem = before /\ k \in 0 .. Size /\ r.d = call.dst + k
        /\ call.fn # "strcmp" => r.n = call.n - k /\ r.n \in 0 .. call.n
        /\ call.fn = "strcmp" => r.n = call.n
        /\ call.src + k <= Size + 1 /\ call.dst + k <= Size + 1
        /\ \A j \in 0 .. k - 1 : before[call.dst + j] = before[call.src + j]
        /\ call.fn # "memcmp" => Plain(call.dst, k) /\ Plain(call.src, k)
        /\ pc = "done" =>
             \/ call.fn # "strcmp" /\ k = call.n /\ ret = 0
             \/ /\ r.d \in Addr /\ r.s \in Addr /\ ret = before[r.d] - before[r.s]
                /\ call.fn # "strcmp" => k < call.n
                /\ \/ before[r.d] # before[r.s]
                   \/ call.fn # "memcmp" /\ before[r.d] = NUL

(* strtol has met no NUL before s.                                         *)
StrtolOK ==
    call.fn = "strtol" =>
        /\ mem = before /\ r.d = call.dst /\ r.n = call.n /\ r.base \in 0 .. 36
        /\ r.s \in Addr /\ Plain(call.src, r.s - call.src)

LibInv ==
    /\ ArgsOK /\ PlaceOK /\ ReadOK /\ r.val \in Long /\ MoveInv /\ MemsetOK /\ StrcpyOK
    /\ StrncpyOK /\ MeasureOK /\ FindOK /\ CompareOK /\ StrtolOK
-----------------------------------------------------------------------------
(* A set of numbers with an element has a least one, and Min is it.        *)
LEMMA MinOf ==
  ASSUME NEW S \in SUBSET Nat, S # {}
  PROVE  Min(S) \in S /\ \A y \in S : Min(S) <= y
<1>1. PICK x \in S : \A y \in S : ~ (<<y, x>> \in OpToRel(<, Nat))
  BY NatLessThanWellFounded, WFMin, Zenon
<1>2. \A y \in S : x <= y
  <2> TAKE y \in S
  <2>1. x \in Nat /\ y \in Nat
    OBVIOUS
  <2>2. ~(y < x)
    BY <1>1, <2>1 DEF OpToRel
  <2> QED
    BY <2>1, <2>2
<1> QED
  BY <1>2 DEF Min

(* An element below every other is what Min returns.                       *)
LEMMA MinIs ==
  ASSUME NEW S \in SUBSET Int, NEW e \in S, \A y \in S : e <= y
  PROVE  Min(S) = e
<1>1. \E x \in S : \A y \in S : x <= y
  OBVIOUS
<1>2. PICK m : m = Min(S)
  OBVIOUS
<1>3. m \in S /\ \A y \in S : m <= y
  BY <1>1, <1>2 DEF Min
<1>4. m \in Int /\ e \in Int /\ m <= e /\ e <= m
  BY <1>3
<1> QED
  BY <1>2, <1>4

(* A string is as long as the bytes before its first NUL: no run of bytes  *)
(* without a NUL is longer,                                                *)
LEMMA LengthOf ==
  ASSUME ArgsOK, NEW a \in Addr, Terminated(before, a)
  PROVE  /\ Length(before, a) \in Nat /\ a + Length(before, a) \in Addr
         /\ before[a + Length(before, a)] = NUL
         /\ \A k \in Nat : Plain(a, k) => k <= Length(before, a)
<1>1. PICK S : S = {b \in a .. Size : before[b] = NUL}
  OBVIOUS
<1>2. Size \in Nat /\ a \in Nat /\ a >= 1
  BY StringAssumption DEF Addr
<1>3. S \in SUBSET Nat /\ S # {}
  BY <1>1, <1>2 DEF Terminated
<1>4. PICK m : m = Min(S)
  OBVIOUS
<1>5. m \in S
  BY <1>3, <1>4, MinOf
<1>6. m \in a .. Size /\ before[m] = NUL
  BY <1>1, <1>5
<1>7. PICK n : n = m - a
  OBVIOUS
<1>8. Length(before, a) = n
  BY <1>1, <1>4, <1>7 DEF Length
<1>9. n \in Nat /\ a + n = m /\ m \in Addr
  BY <1>2, <1>6, <1>7 DEF Addr
<1>10. ASSUME NEW k \in Nat, Plain(a, k) PROVE k <= n
  <2>1. ~(m \in a .. a + k - 1)
    BY <1>6, <1>10 DEF Plain
  <2> QED
    BY <1>2, <1>6, <1>9, <2>1
<1> QED
  BY <1>6, <1>8, <1>9, <1>10

(* and a run of them that ends at a NUL has that length.                   *)
LEMMA LengthIs ==
  ASSUME ArgsOK, NEW a \in Addr, NEW k \in Nat, Plain(a, k), a + k \in Addr, before[a + k] = NUL
  PROVE  Terminated(before, a) /\ Length(before, a) = k
<1>1. PICK S : S = {b \in a .. Size : before[b] = NUL}
  OBVIOUS
<1>2. Size \in Nat /\ a \in Nat /\ a >= 1
  BY StringAssumption DEF Addr
<1>3. S \in SUBSET Int /\ a + k \in S
  BY <1>1, <1>2 DEF Addr
<1>4. \A y \in S : a + k <= y
  BY <1>1, <1>2 DEF Plain
<1>5. Min(S) = a + k
  BY <1>3, <1>4, MinIs
<1>6. Length(before, a) = (a + k) - a
  BY <1>1, <1>5 DEF Length
<1> QED
  BY <1>1, <1>2, <1>3, <1>6 DEF Terminated

(* A run of bytes without a NUL stays within the memory as long as the     *)
(* string has a NUL to come, and goes on over a byte that is none.         *)
LEMMA PlainOn ==
  ASSUME NEW a \in Addr, NEW k \in Nat, Plain(a, k)
  PROVE  /\ Terminated(before, a) => a + k \in Addr
         /\ a + k \in Addr /\ before[a + k] # NUL => Plain(a, k + 1)
<1>1. Size \in Nat /\ a \in Nat /\ a >= 1
  BY StringAssumption DEF Addr
<1>2. ASSUME Terminated(before, a) PROVE a + k \in Addr
  <2>1. PICK b \in a .. Size : before[b] = NUL
    BY <1>2 DEF Terminated
  <2>2. ~(b \in a .. a + k - 1)
    BY <2>1 DEF Plain
  <2> QED
    BY <1>1, <2>2 DEF Addr
<1>3. ASSUME a + k \in Addr, before[a + k] # NUL PROVE Plain(a, k + 1)
  <2>1. a + (k + 1) <= Size + 1
    BY <1>1, <1>3 DEF Addr
  <2>2. \A b \in a .. a + (k + 1) - 1 : b = a + k \/ b \in a .. a + k - 1
    BY <1>1
  <2> QED
    BY <1>3, <2>1, <2>2 DEF Plain
<1> QED
  BY <1>2, <1>3

(* No bytes hold no NUL.                                                   *)
LEMMA PlainNone == \A a \in Addr : Plain(a, 0)
  BY StringAssumption DEF Plain, Addr

(* What the comments above the functions ask of a caller, function by      *)
(* function.                                                               *)
LEMMA Callers ==
  ASSUME ArgsOK
  PROVE  /\ call.fn = "memset" => call.dst + call.n - 1 <= Size
         /\ call.fn \in {"memmove", "memcpy", "memcmp"} =>
              call.dst + call.n - 1 <= Size /\ call.src + call.n - 1 <= Size
         /\ call.fn \in {"strlen", "strchr", "strfind"} => Terminated(before, call.src)
         /\ call.fn = "strnlen" => Terminated(before, call.src) \/ call.src + call.n - 1 <= Size
         /\ call.fn = "strcmp" => Terminated(before, call.src) /\ Terminated(before, call.dst)
         /\ call.fn = "strncmp" =>
              /\ Terminated(before, call.src) \/ call.src + call.n - 1 <= Size
              /\ Terminated(before, call.dst) \/ call.dst + call.n - 1 <= Size
         /\ call.fn = "strcpy" => /\ Terminated(before, call.src)
                                  /\ call.dst + (Length(before, call.src) + 1) - 1 <= Size
                                  /\ Apart(call.dst, Length(before, call.src) + 1, call.src, Length(before, call.src) + 1)
         /\ call.fn = "strncpy" => /\ call.dst + call.n - 1 <= Size
                                   /\ \/ /\ call.src + call.n - 1 <= Size
                                         /\ Apart(call.dst, call.n, call.src, call.n)
                                      \/ /\ Terminated(before, call.src)
                                         /\ Apart(call.dst, call.n, call.src, Length(before, call.src) + 1)
<1>1. PICK fn : fn = call.fn
  OBVIOUS
<1>2. fn # "strtol" => Permitted(call, before)
  BY <1>1 DEF ArgsOK
<1>3. fn = "memset" => call.dst + call.n - 1 <= Size
  BY <1>1, <1>2 DEF Permitted, Room
<1>4. fn \in {"memmove", "memcpy", "memcmp"} =>
        call.dst + call.n - 1 <= Size /\ call.src + call.n - 1 <= Size
  BY <1>1, <1>2 DEF Permitted, Room
<1>5. fn \in {"strlen", "strchr", "strfind"} => Terminated(before, call.src)
  BY <1>1, <1>2 DEF Permitted
<1>6. fn = "strnlen" => Terminated(before, call.src) \/ call.src + call.n - 1 <= Size
  BY <1>1, <1>2 DEF Permitted, Room
<1>7. fn = "strcmp" => Terminated(before, call.src) /\ Terminated(before, call.dst)
  BY <1>1, <1>2 DEF Permitted
<1>8. fn = "strncmp" => /\ Terminated(before, call.src) \/ call.src + call.n - 1 <= Size
                        /\ Terminated(before, call.dst) \/ call.dst + call.n - 1 <= Size
  BY <1>1, <1>2 DEF Permitted, Room
<1>9. fn = "strcpy" => /\ Terminated(before, call.src)
                       /\ call.dst + (Length(before, call.src) + 1) - 1 <= Size
                       /\ Apart(call.dst, Length(before, call.src) + 1, call.src, Length(before, call.src) + 1)
  BY <1>1, <1>2 DEF Permitted, Room
<1>10. fn = "strncpy" => /\ call.dst + call.n - 1 <= Size
                         /\ \/ /\ call.src + call.n - 1 <= Size
                               /\ Apart(call.dst, call.n, call.src, call.n)
                            \/ /\ Terminated(before, call.src)
                               /\ Apart(call.dst, call.n, call.src, Length(before, call.src) + 1)
  BY <1>1, <1>2 DEF Permitted, Room
<1> QED
  BY <1>1, <1>3, <1>4, <1>5, <1>6, <1>7, <1>8, <1>9, <1>10, Zenon

(* A step keeps ReadOK when what it reads is within reach,                 *)
LEMMA ReadsKeep ==
  ASSUME ReadOK, call' = call, before' = before, NEW as, read' = read \cup as,
         \A b \in as : b \in Reach(call.src) \/ (call.fn \in Comparing /\ b \in Reach(call.dst))
  PROVE  ReadOK'
  BY DEF ReadOK, Reach, Counted, Plain

(* and when it reads nothing.                                              *)
LEMMA ReadsSame ==
  ASSUME ReadOK, call' = call, before' = before, read' = read
  PROVE  ReadOK'
  BY DEF ReadOK, Reach, Counted, Plain

(* No step changes the call in hand or the memory it was given, and        *)
(* MoveInv is kept by MoveStep.                                            *)
LEMMA CallKept ==
  ASSUME LibInv, Next
  PROVE  call' = call /\ before' = before /\ ArgsOK' /\ MoveInv'
<1>1. call' = call /\ before' = before
  BY DEF Next, Memset, Memmove, CopyForward, CopyBackward, Strcpy, Strncpy, Written, Measure, Find,
         Strcmp, Memcmp, CompareBytes, StrtolBlank, StrtolSign, StrtolPrefix, StrtolDigit, Called
<1>2. ArgsOK'
  BY <1>1 DEF LibInv, ArgsOK, Permitted, Terminated, Length, Room, Apart
<1>3. MoveInv'
  BY MoveStep DEF LibInv
<1> QED
  BY <1>1, <1>2, <1>3

(* A step that keeps the places, the reads and the conjunct of the         *)
(* function in hand keeps LibInv: those of the other functions have        *)
(* nothing to say.                                                         *)
LEMMA KeptBy ==
  ASSUME LibInv, Next, PlaceOK', ReadOK', r'.val \in Long, NEW fn, call.fn = fn,
         fn = "memset" => MemsetOK', fn = "strcpy" => StrcpyOK', fn = "strncpy" => StrncpyOK',
         fn \in {"strlen", "strnlen"} => MeasureOK', fn \in {"strchr", "strfind"} => FindOK',
         fn \in Comparing => CompareOK', fn = "strtol" => StrtolOK'
  PROVE  LibInv'
<1>1. call'.fn = fn /\ ArgsOK' /\ MoveInv'
  BY CallKept
<1>2. MemsetOK'
  BY <1>1 DEF MemsetOK
<1>3. StrcpyOK'
  BY <1>1 DEF StrcpyOK
<1>4. StrncpyOK'
  BY <1>1 DEF StrncpyOK
<1>5. MeasureOK'
  BY <1>1 DEF MeasureOK
<1>6. FindOK'
  BY <1>1 DEF FindOK
<1>7. CompareOK'
  BY <1>1 DEF CompareOK
<1>8. StrtolOK'
  BY <1>1 DEF StrtolOK
<1> QED
  BY <1>1, <1>2, <1>3, <1>4, <1>5, <1>6, <1>7, <1>8 DEF LibInv

(* Sizes, arguments and places are numbers,                                *)
LEMMA Numbers ==
  ASSUME LibInv
  PROVE  /\ Size \in Nat /\ Size >= 1
         /\ call.dst \in Nat /\ call.dst >= 1 /\ call.dst <= Size
         /\ call.src \in Nat /\ call.src >= 1 /\ call.src <= Size
         /\ call.n \in Nat /\ call.n <= Size
         /\ r.d \in Int /\ r.s \in Int /\ r.n \in Int /\ r.val \in Int
  BY StringAssumption DEF LibInv, ArgsOK, PlaceOK, Locals, Addr

(* memories are bytes at every address,                                    *)
LEMMA Memories ==
  ASSUME LibInv
  PROVE  mem \in [Addr -> 0 .. 255] /\ before \in [Addr -> 0 .. 255]
  BY DEF LibInv, ArgsOK, PlaceOK

(* and r is the record of its fields.                                      *)
LEMMA Fields ==
  ASSUME LibInv
  PROVE  r = [d |-> r.d, s |-> r.s, n |-> r.n, val |-> r.val, neg |-> r.neg, base |-> r.base]
         /\ r.neg \in BOOLEAN /\ r.base \in Int
  BY DEF LibInv, PlaceOK, Locals

(* A turn of memset writes one more byte.                                  *)
LEMMA MemsetKeeps ==
  ASSUME LibInv, Memset
  PROVE  LibInv'
<1>0. /\ Size \in Nat /\ Size >= 1
      /\ call.dst \in Nat /\ call.dst >= 1 /\ call.dst <= Size
      /\ call.src \in Nat /\ call.src >= 1 /\ call.src <= Size
      /\ call.n \in Nat /\ call.n <= Size
      /\ r.d \in Int /\ r.s \in Int /\ r.n \in Int /\ r.val \in Int
  BY Numbers
<1>1. /\ pc = "memset" /\ pc' = pc /\ r.n > 0 /\ mem' = [mem EXCEPT ![r.d] = call.c]
      /\ r' = [r EXCEPT !.d = @ + 1, !.n = @ - 1] /\ read' = read
      /\ call' = call /\ before' = before
  BY DEF Memset, BytesLeft, Store, Reads, Called
<1>2. call.fn = "memset"
  BY <1>1 DEF LibInv, PlaceOK
<1>3. /\ r.n \in 0 .. call.n /\ r.d = call.dst + (call.n - r.n) /\ r.s = call.src
      /\ mem = [a \in Addr |-> IF a \in call.dst .. call.dst + (call.n - r.n) - 1
                               THEN call.c ELSE before[a]]
  BY <1>2 DEF LibInv, MemsetOK
<1>4. call.dst + call.n - 1 <= Size /\ call.c \in 0 .. 255
  BY <1>2, Callers DEF LibInv, ArgsOK
<1>5. PICK k \in 0 .. call.n - 1 : k = call.n - r.n
  BY <1>1, <1>3, <1>0 DEF Addr
<1>6. /\ r'.d = r.d + 1 /\ r'.s = r.s /\ r'.n = r.n - 1 /\ r'.val = r.val /\ r' \in Locals
  <2>1. r' = [d |-> r.d + 1, s |-> r.s, n |-> r.n - 1, val |-> r.val, neg |-> r.neg, base |-> r.base]
    BY <1>1, Fields
  <2>2. r.d + 1 \in Int /\ r.s \in Int /\ r.n - 1 \in Int /\ r.val \in Int
    BY <1>0 DEF Addr
  <2> QED
    BY <2>1, <2>2, Fields DEF Locals
<1>7. call.n - r'.n = k + 1 /\ r'.n \in 0 .. call.n /\ r'.d = call.dst + (k + 1) /\ r.d = call.dst + k
  <2>1. r.n \in 0 .. call.n /\ r.d = call.dst + (call.n - r.n)
    BY <1>3
  <2> QED
    BY <1>0, <1>5, <1>6, <2>1
<1>8. r.d \in Addr
  BY <1>4, <1>5, <1>7, <1>0 DEF Addr
<1>9. mem' = [a \in Addr |-> IF a \in call.dst .. call.dst + (k + 1) - 1 THEN call.c ELSE before[a]]
  <2>1. \A a \in Addr : a # r.d => (a \in call.dst .. call.dst + k - 1 <=> a \in call.dst .. call.dst + (k + 1) - 1)
    BY <1>5, <1>7, <1>0 DEF Addr
  <2>2. r.d \in call.dst .. call.dst + (k + 1) - 1
    BY <1>5, <1>7, <1>0 DEF Addr
  <2> QED
    BY <1>1, <1>3, <1>5, <1>8, <2>1, <2>2
<1>10. MemsetOK'
  BY <1>1, <1>3, <1>6, <1>7, <1>9 DEF MemsetOK
<1>11. PlaceOK'
  <2>1. mem' \in [Addr -> 0 .. 255]
    BY <1>1, <1>4, Memories
  <2> QED
    BY <1>1, <1>2, <1>6, <2>1 DEF PlaceOK
<1>12. ReadOK'
  BY <1>1, ReadsSame DEF LibInv
<1>13. r'.val \in Long
  BY <1>6 DEF LibInv
<1> QED
  BY <1>2, <1>10, <1>11, <1>12, <1>13, KeptBy DEF Next, Comparing

(* A turn of strcpy copies one more byte, and the last one is the NUL.     *)
LEMMA StrcpyKeeps ==
  ASSUME LibInv, Strcpy
  PROVE  LibInv'
<1>0. /\ Size \in Nat /\ Size >= 1
      /\ call.dst \in Nat /\ call.dst >= 1 /\ call.dst <= Size
      /\ call.src \in Nat /\ call.src >= 1 /\ call.src <= Size
      /\ call.n \in Nat /\ call.n <= Size
      /\ r.d \in Int /\ r.s \in Int /\ r.n \in Int /\ r.val \in Int
  BY Numbers
<1>1. /\ pc = "strcpy" /\ mem' = [mem EXCEPT ![r.d] = Byte(r.s)]
      /\ r' = [r EXCEPT !.d = @ + 1, !.s = @ + 1] /\ read' = read \cup {r.s}
      /\ pc' = IF Byte(r.s) = NUL THEN "done" ELSE "strcpy"
      /\ call' = call /\ before' = before
  BY DEF Strcpy, Store, Reads, Called, Return, Goto
<1>2. call.fn = "strcpy"
  BY <1>1 DEF LibInv, PlaceOK
<1>3. PICK k \in Nat : k = r.s - call.src
  BY <1>2, <1>0 DEF LibInv, StrcpyOK
<1>4. r.d = call.dst + k /\ r.n = call.n /\ MovedBetween(0, k) /\ Plain(call.src, k)
  BY <1>1, <1>2, <1>3 DEF LibInv, StrcpyOK
<1>5. r.s = call.src + k
  BY <1>3, <1>0 DEF Addr
<1>6. PICK m \in Nat : m = Length(before, call.src)
  BY <1>2, Callers, LengthOf DEF LibInv, ArgsOK
<1>7. k <= m /\ call.src + m \in Addr
  BY <1>2, <1>4, <1>6, Callers, LengthOf DEF LibInv, ArgsOK
<1>8. call.dst + (m + 1) - 1 <= Size /\ (call.dst + (m + 1) <= call.src \/ call.src + (m + 1) <= call.dst)
  BY <1>2, <1>6, Callers DEF LibInv, Apart
<1>9. r.s \in Addr /\ r.d \in Addr /\ r.s \notin call.dst + 0 .. call.dst + k - 1
  BY <1>4, <1>5, <1>7, <1>8, <1>0 DEF Addr
<1>10. Byte(r.s) = before[call.src + k] /\ Byte(r.s) \in 0 .. 255
  BY <1>4, <1>5, <1>9, Memories DEF Byte, MovedBetween
<1>11. MovedBetween(0, k + 1)'
  <2>1. \A a \in Addr : a # r.d => (a \in call.dst + 0 .. call.dst + k - 1 <=> a \in call.dst + 0 .. call.dst + (k + 1) - 1)
    BY <1>4, <1>0 DEF Addr
  <2>2. r.d \in call.dst + 0 .. call.dst + (k + 1) - 1 /\ call.src + (r.d - call.dst) = call.src + k
    BY <1>4, <1>0 DEF Addr
  <2> QED
    BY <1>1, <1>4, <1>9, <1>10, <2>1, <2>2 DEF MovedBetween
<1>12. r'.d = r.d + 1 /\ r'.s = r.s + 1 /\ r'.n = r.n /\ r'.val = r.val /\ r' \in Locals
  <2>1. r' = [d |-> r.d + 1, s |-> r.s + 1, n |-> r.n, val |-> r.val, neg |-> r.neg, base |-> r.base]
    BY <1>1, Fields
  <2>2. r.d + 1 \in Int /\ r.s + 1 \in Int /\ r.n \in Int /\ r.val \in Int
    BY <1>0 DEF Addr
  <2> QED
    BY <2>1, <2>2, Fields DEF Locals
<1>13. r'.s - call.src = k + 1 /\ r'.d = call.dst + (k + 1) /\ k + 1 \in 0 .. Size /\ (k + 1) - 1 = k
  BY <1>4, <1>5, <1>9, <1>12, <1>0 DEF Addr
<1>14. before[call.src + k] # NUL => Plain(call.src, k + 1)
  BY <1>4, <1>5, <1>9, PlainOn DEF LibInv, ArgsOK
<1>15. StrcpyOK'
  <2>1. \A a, j : Plain(a, j)' <=> Plain(a, j)
    BY <1>1 DEF Plain
  <2>2. pc' = "strcpy" => Plain(call.src, k + 1)
    BY <1>1, <1>10, <1>14
  <2>3. pc' = "done" => before[call.src + k] = NUL
    BY <1>1, <1>10
  <2>4. k + 1 > 0 /\ r'.n = call.n
    BY <1>4, <1>12
  <2> QED
    BY <1>1, <1>4, <1>11, <1>13, <2>1, <2>2, <2>3, <2>4 DEF StrcpyOK
<1>16. PlaceOK'
  <2>1. mem' \in [Addr -> 0 .. 255]
    BY <1>1, <1>10, Memories
  <2> QED
    BY <1>1, <1>2, <1>12, <2>1 DEF PlaceOK
<1>17. ReadOK'
  <2>1. r.s \in Reach(call.src)
    BY <1>0, <1>2, <1>4, <1>5, <1>9 DEF Reach, Counted, Addr
  <2> QED
    BY <1>1, <2>1, ReadsKeep DEF LibInv
<1>18. r'.val \in Long
  BY <1>12 DEF LibInv
<1> QED
  BY <1>2, <1>15, <1>16, <1>17, <1>18, KeptBy DEF Next, Comparing

(* A turn of strncpy copies a byte of the text or pads with a NUL.         *)
LEMMA StrncpyKeeps ==
  ASSUME LibInv, Strncpy
  PROVE  LibInv'
<1>0. /\ Size \in Nat /\ Size >= 1
      /\ call.dst \in Nat /\ call.dst >= 1 /\ call.dst <= Size
      /\ call.src \in Nat /\ call.src >= 1 /\ call.src <= Size
      /\ call.n \in Nat /\ call.n <= Size
      /\ r.d \in Int /\ r.s \in Int /\ r.n \in Int /\ r.val \in Int
  BY Numbers
<1>1. /\ pc = "strncpy" /\ pc' = pc /\ r.n > 0 /\ mem' = [mem EXCEPT ![r.d] = Byte(r.s)]
      /\ r' = [r EXCEPT !.d = @ + 1, !.n = @ - 1, !.s = IF Byte(r.s) = NUL THEN @ ELSE @ + 1]
      /\ read' = read \cup {r.s} /\ call' = call /\ before' = before
  BY DEF Strncpy, BytesLeft, Store, Reads, Called
<1>2. call.fn = "strncpy"
  BY <1>1 DEF LibInv, PlaceOK
<1>3. PICK k, t : k = call.n - r.n /\ t = r.s - call.src
  OBVIOUS
<1>4. /\ r.n \in 0 .. call.n /\ r.d = call.dst + k /\ t \in 0 .. k
      /\ Plain(call.src, t) /\ (t < k => r.s \in Addr /\ before[r.s] = NUL)
  BY <1>2, <1>3 DEF LibInv, StrncpyOK
<1>5. mem = [a \in Addr |-> IF a \in call.dst .. call.dst + k - 1
                            THEN IF a - call.dst < t THEN before[call.src + (a - call.dst)] ELSE NUL
                            ELSE before[a]]
  BY <1>2, <1>3 DEF LibInv, StrncpyOK
<1>6. /\ k \in Nat /\ t \in Nat /\ k <= call.n - 1 /\ t <= k /\ r.n = call.n - k
      /\ r.s = call.src + t /\ r.d = call.dst + k
  BY <1>0, <1>1, <1>3, <1>4
<1>7. /\ call.dst + call.n - 1 <= Size
      /\ r.s \in Addr
      /\ call.dst + call.n <= call.src \/ r.s < call.dst
  <2>1. CASE call.src + call.n - 1 <= Size /\ Apart(call.dst, call.n, call.src, call.n)
    BY <1>0, <1>2, <1>6, <2>1, Callers DEF LibInv, Apart, Addr
  <2>2. CASE /\ Terminated(before, call.src)
             /\ Apart(call.dst, call.n, call.src, Length(before, call.src) + 1)
    <3>1. PICK m \in Nat : m = Length(before, call.src)
      BY <2>2, LengthOf DEF LibInv, ArgsOK
    <3>2. t <= m
      BY <1>4, <1>6, <2>2, <3>1, LengthOf DEF LibInv, ArgsOK
    <3>3. call.dst + call.n <= call.src \/ call.src + (m + 1) <= call.dst
      BY <2>2, <3>1 DEF Apart
    <3>4. call.src + m \in Addr /\ call.dst + call.n - 1 <= Size
      BY <1>2, <2>2, <3>1, LengthOf, Callers DEF LibInv, ArgsOK
    <3> QED
      BY <1>0, <1>6, <3>2, <3>3, <3>4 DEF Addr
  <2> QED
    BY <1>2, <2>1, <2>2, Callers DEF LibInv
<1>8. r.s \in Addr
  BY <1>7
<1>9. r.d \in Addr /\ r.s \notin call.dst .. call.dst + k - 1
  BY <1>0, <1>6, <1>7 DEF Addr
<1>10. Byte(r.s) = before[r.s] /\ Byte(r.s) \in 0 .. 255
  BY <1>5, <1>8, <1>9, Memories DEF Byte
<1>11. PICK b \in 0 .. 255 : b = before[r.s]
  BY <1>10
<1>12. PICK u : u = IF b = NUL THEN t ELSE t + 1
  OBVIOUS
<1>13. /\ r'.d = r.d + 1 /\ r'.s = (IF b = NUL THEN r.s ELSE r.s + 1) /\ r'.n = r.n - 1
       /\ r'.val = r.val /\ r' \in Locals
  <2>1. r' = [d |-> r.d + 1, s |-> IF b = NUL THEN r.s ELSE r.s + 1, n |-> r.n - 1,
              val |-> r.val, neg |-> r.neg, base |-> r.base]
    BY <1>1, <1>10, <1>11, Fields
  <2>2. r.d + 1 \in Int /\ r.s + 1 \in Int /\ r.n - 1 \in Int
    BY <1>0
  <2> QED
    BY <1>0, <2>1, <2>2, Fields DEF Locals
<1>14. /\ call.n - r'.n = k + 1 /\ r'.s - call.src = u /\ u \in 0 .. k + 1
       /\ r'.n \in 0 .. call.n /\ r'.d = call.dst + (k + 1)
  <2>1. r'.d = r.d + 1 /\ r'.n = r.n - 1 /\ r'.s = (IF b = NUL THEN r.s ELSE r.s + 1)
    BY <1>13
  <2>2. call.n - r'.n = k + 1 /\ r'.n \in 0 .. call.n /\ r'.d = call.dst + (k + 1)
    BY <1>0, <1>6, <2>1
  <2>3. r'.s - call.src = u /\ u \in 0 .. k + 1
    BY <1>0, <1>6, <1>12, <2>1
  <2> QED
    BY <2>2, <2>3
<1>15. Plain(call.src, u)
  <2>1. CASE b = NUL
    BY <1>4, <1>12, <2>1
  <2>2. CASE b # NUL
    BY <1>4, <1>6, <1>8, <1>11, <1>12, <2>2, PlainOn DEF LibInv, ArgsOK
  <2> QED
    BY <2>1, <2>2
<1>16. u < k + 1 => r'.s \in Addr /\ before[r'.s] = NUL
  <2> SUFFICES ASSUME u < k + 1 PROVE r'.s \in Addr /\ before[r'.s] = NUL
    OBVIOUS
  <2>1. CASE b = NUL
    BY <1>8, <1>11, <1>13, <2>1
  <2>2. CASE b # NUL
    <3>1. t < k
      BY <1>6, <1>12, <2>2
    <3> QED
      BY <1>4, <1>11, <2>2, <3>1
  <2> QED
    BY <2>1, <2>2
<1>17. mem' = [a \in Addr |-> IF a \in call.dst .. call.dst + (k + 1) - 1
                              THEN IF a - call.dst < u THEN before[call.src + (a - call.dst)] ELSE NUL
                              ELSE before[a]]
  <2>1. \A a \in Addr : a # r.d =>
          /\ a \in call.dst .. call.dst + k - 1 <=> a \in call.dst .. call.dst + (k + 1) - 1
          /\ a \in call.dst .. call.dst + k - 1 => (a - call.dst < u <=> a - call.dst < t)
    <3>1. b # NUL => t = k
      BY <1>4, <1>6, <1>11
    <3> QED
      BY <1>0, <1>6, <1>12, <3>1 DEF Addr
  <2>2. r.d \in call.dst .. call.dst + (k + 1) - 1 /\ r.d - call.dst = k
    BY <1>0, <1>6
  <2>3. Byte(r.s) = IF k < u THEN before[call.src + k] ELSE NUL
    <3>1. CASE b = NUL
      BY <1>6, <1>10, <1>11, <1>12, <3>1
    <3>2. CASE b # NUL
      <4>1. t = k
        BY <1>4, <1>6, <1>11, <3>2
      <4> QED
        BY <1>6, <1>10, <1>12, <3>2, <4>1
    <3> QED
      BY <3>1, <3>2
  <2> QED
    BY <1>1, <1>5, <1>9, <2>1, <2>2, <2>3
<1>18. StrncpyOK'
  <2>1. \A a, j : Plain(a, j)' <=> Plain(a, j)
    BY <1>1 DEF Plain
  <2> QED
    BY <1>1, <1>14, <1>15, <1>16, <1>17, <2>1 DEF StrncpyOK
<1>19. PlaceOK'
  <2>1. mem' \in [Addr -> 0 .. 255]
    BY <1>1, <1>10, Memories
  <2> QED
    BY <1>1, <1>2, <1>13, <2>1 DEF PlaceOK
<1>20. ReadOK'
  <2>1. r.s \in Reach(call.src)
    BY <1>0, <1>2, <1>4, <1>6, <1>8 DEF Reach, Counted, Addr
  <2> QED
    BY <1>1, <2>1, ReadsKeep DEF LibInv
<1>21. r'.val \in Long
  BY <1>13 DEF LibInv
<1> QED
  BY <1>2, <1>18, <1>19, <1>20, <1>21, KeptBy DEF Next, Comparing

(* A turn of strlen or strnlen counts a byte, or stops at the NUL or at n  *)
(* without a look at the byte behind it.                                   *)
LEMMA MeasureKeeps ==
  ASSUME LibInv, Measure
  PROVE  LibInv'
<1>0. /\ Size \in Nat /\ Size >= 1
      /\ call.dst \in Nat /\ call.dst >= 1 /\ call.dst <= Size
      /\ call.src \in Nat /\ call.src >= 1 /\ call.src <= Size
      /\ call.n \in Nat /\ call.n <= Size
      /\ r.d \in Int /\ r.s \in Int /\ r.n \in Int /\ r.val \in Int
  BY Numbers
<1>1. /\ pc \in {"strlen", "strnlen"} /\ mem' = mem /\ call' = call /\ before' = before
      /\ LET more == pc = "strlen" \/ r.val < r.n
         IN  /\ read' = read \cup (IF more THEN {r.s} ELSE {})
             /\ IF more /\ Byte(r.s) # NUL
                THEN pc' = pc /\ ret' = ret /\ r' = [r EXCEPT !.s = @ + 1, !.val = @ + 1]
                ELSE pc' = "done" /\ ret' = r.val /\ r' = r
  BY DEF Measure, Reads, Called, Goto, Return
<1>2. call.fn = pc
  BY <1>1 DEF LibInv, PlaceOK
<1>3. /\ mem = before /\ r.d = call.dst /\ r.n = call.n /\ r.val \in 0 .. Size
      /\ r.s = call.src + r.val /\ Plain(call.src, r.val)
      /\ call.fn = "strnlen" => r.val <= call.n
  BY <1>1, <1>2 DEF LibInv, MeasureOK
<1>4. \A a, j : Plain(a, j)' <=> Plain(a, j)
  BY <1>1 DEF Plain
<1>5. PlaceOK /\ ReadOK /\ r.val \in Long
  BY DEF LibInv
<1>6. CASE call.fn = "strnlen" /\ r.val = call.n
  <2>1. pc' = "done" /\ ret' = r.val /\ r' = r /\ read' = read
    BY <1>0, <1>1, <1>2, <1>3, <1>6
  <2>2. MeasureOK'
    BY <1>1, <1>3, <1>4, <1>6, <2>1 DEF MeasureOK
  <2>3. PlaceOK' /\ ReadOK'
    BY <1>1, <1>5, <2>1, ReadsSame DEF PlaceOK
  <2> QED
    BY <1>1, <1>2, <1>5, <2>1, <2>2, <2>3, KeptBy DEF Next, Comparing
<1>7. CASE call.fn = "strlen" \/ r.val # call.n
  <2>1. pc = "strlen" \/ r.val < r.n
    BY <1>0, <1>1, <1>2, <1>3, <1>7
  <2>2. /\ read' = read \cup {r.s}
        /\ IF Byte(r.s) # NUL
           THEN pc' = pc /\ ret' = ret /\ r' = [r EXCEPT !.s = @ + 1, !.val = @ + 1]
           ELSE pc' = "done" /\ ret' = r.val /\ r' = r
    BY <1>1, <2>1
  <2>3. r.s \in Addr
    <3>1. CASE Terminated(before, call.src)
      BY <1>3, <3>1, PlainOn DEF LibInv, ArgsOK
    <3>2. CASE call.fn = "strnlen" /\ call.src + call.n - 1 <= Size
      BY <1>0, <1>2, <1>3, <2>1, <3>2 DEF Addr
    <3> QED
      BY <1>1, <1>2, <3>1, <3>2, Callers DEF LibInv
  <2>4. Byte(r.s) = before[r.s]
    BY <1>3, <2>3 DEF Byte
  <2>5. ReadOK'
    <3>1. r.s \in Reach(call.src)
      BY <1>0, <1>1, <1>2, <1>3, <2>1, <2>3 DEF Reach, Counted, Addr
    <3> QED
      BY <1>1, <1>5, <2>2, <3>1, ReadsKeep
  <2>6. CASE before[r.s] = NUL
    <3>1. pc' = "done" /\ ret' = r.val /\ r' = r
      BY <2>2, <2>4, <2>6
    <3>2. MeasureOK'
      BY <1>1, <1>3, <1>4, <2>3, <2>6, <3>1 DEF MeasureOK
    <3>3. PlaceOK'
      BY <1>1, <1>5, <3>1 DEF PlaceOK
    <3> QED
      BY <1>1, <1>2, <1>5, <2>5, <3>1, <3>2, <3>3, KeptBy DEF Next, Comparing
  <2>7. CASE before[r.s] # NUL
    <3>1. pc' = pc /\ r' = [r EXCEPT !.s = @ + 1, !.val = @ + 1]
      BY <2>2, <2>4, <2>7
    <3>2. r'.d = r.d /\ r'.s = r.s + 1 /\ r'.n = r.n /\ r'.val = r.val + 1 /\ r' \in Locals
      <4>1. r' = [d |-> r.d, s |-> r.s + 1, n |-> r.n, val |-> r.val + 1, neg |-> r.neg, base |-> r.base]
        BY <3>1, Fields
      <4>2. r.s + 1 \in Int /\ r.val + 1 \in Int
        BY <1>0
      <4> QED
        BY <1>0, <4>1, <4>2, Fields DEF Locals
    <3>3. Plain(call.src, r.val + 1)
      BY <1>3, <2>3, <2>7, PlainOn DEF LibInv, ArgsOK
    <3>4. /\ r'.val \in 0 .. Size /\ r'.s = call.src + r'.val /\ r'.val \in Long
          /\ call.fn = "strnlen" => r'.val <= call.n
      BY <1>0, <1>2, <1>3, <2>1, <2>3, <3>2, StringAssumption DEF Addr, Long
    <3>5. MeasureOK'
      BY <1>1, <1>2, <1>3, <1>4, <3>1, <3>2, <3>3, <3>4 DEF MeasureOK
    <3>6. PlaceOK'
      BY <1>1, <1>2, <1>5, <3>1, <3>2 DEF PlaceOK
    <3> QED
      BY <1>1, <1>2, <2>5, <3>4, <3>5, <3>6, KeptBy DEF Next, Comparing
  <2> QED
    BY <2>6, <2>7
<1> QED
  BY <1>1, <1>2, <1>6, <1>7

(* A turn of strchr or strfind passes a byte that is neither NUL nor c.    *)
LEMMA FindKeeps ==
  ASSUME LibInv, Find
  PROVE  LibInv'
<1>0. /\ Size \in Nat /\ Size >= 1
      /\ call.dst \in Nat /\ call.dst >= 1 /\ call.dst <= Size
      /\ call.src \in Nat /\ call.src >= 1 /\ call.src <= Size
      /\ call.n \in Nat /\ call.n <= Size
      /\ r.d \in Int /\ r.s \in Int /\ r.n \in Int /\ r.val \in Int
  BY Numbers
<1>1. /\ pc \in {"strchr", "strfind"} /\ mem' = mem /\ call' = call /\ before' = before
      /\ read' = read \cup {r.s}
      /\ IF Byte(r.s) \notin {NUL, call.c}
         THEN pc' = pc /\ ret' = ret /\ r' = [r EXCEPT !.s = @ + 1]
         ELSE /\ pc' = "done" /\ r' = r
              /\ ret' = IF Byte(r.s) = NUL THEN NotFound(r.s) ELSE r.s
  BY DEF Find, Reads, Called, Goto, Return
<1>2. call.fn = pc
  BY <1>1 DEF LibInv, PlaceOK
<1>3. PICK k \in Nat : k = r.s - call.src
  BY <1>0, <1>1, <1>2 DEF LibInv, FindOK
<1>4. /\ mem = before /\ r.d = call.dst /\ r.n = call.n /\ Plain(call.src, k)
      /\ \A a \in call.src .. r.s - 1 : before[a] # call.c
  BY <1>1, <1>2, <1>3 DEF LibInv, FindOK
<1>5. r.s = call.src + k
  BY <1>0, <1>3
<1>6. r.s \in Addr
  BY <1>1, <1>2, <1>4, <1>5, PlainOn, Callers DEF LibInv, ArgsOK
<1>7. Byte(r.s) = before[r.s]
  BY <1>4, <1>6 DEF Byte
<1>8. \A a, j : Plain(a, j)' <=> Plain(a, j)
  BY <1>1 DEF Plain
<1>9. PlaceOK /\ ReadOK /\ r.val \in Long
  BY DEF LibInv
<1>10. ReadOK'
  <2>1. r.s \in Reach(call.src)
    BY <1>0, <1>1, <1>2, <1>4, <1>5, <1>6 DEF Reach, Counted, Addr
  <2> QED
    BY <1>1, <1>9, <2>1, ReadsKeep
<1>11. CASE before[r.s] \in {NUL, call.c}
  <2>1. /\ pc' = "done" /\ r' = r
        /\ ret' = IF before[r.s] = NUL /\ call.fn = "strchr" THEN NUL ELSE r.s
    BY <1>1, <1>2, <1>7, <1>11 DEF NotFound
  <2>2. FindOK'
    BY <1>0, <1>1, <1>3, <1>4, <1>6, <1>8, <1>11, <2>1 DEF FindOK, Addr
  <2>3. PlaceOK'
    BY <1>1, <1>9, <2>1 DEF PlaceOK
  <2> QED
    BY <1>1, <1>2, <1>9, <1>10, <2>1, <2>2, <2>3, KeptBy DEF Next, Comparing
<1>12. CASE before[r.s] \notin {NUL, call.c}
  <2>1. pc' = pc /\ r' = [r EXCEPT !.s = @ + 1]
    BY <1>1, <1>7, <1>12
  <2>2. r'.d = r.d /\ r'.s = r.s + 1 /\ r'.n = r.n /\ r'.val = r.val /\ r' \in Locals
    <3>1. r' = [d |-> r.d, s |-> r.s + 1, n |-> r.n, val |-> r.val, neg |-> r.neg, base |-> r.base]
      BY <2>1, Fields
    <3>2. r.s + 1 \in Int
      BY <1>0
    <3> QED
      BY <1>0, <3>1, <3>2, Fields DEF Locals
  <2>3. Plain(call.src, k + 1)
    BY <1>4, <1>5, <1>6, <1>12, PlainOn DEF LibInv, ArgsOK
  <2>4. r'.s - call.src = k + 1 /\ k + 1 \in 0 .. Size
    BY <1>0, <1>5, <1>6, <2>2 DEF Addr
  <2>5. \A a \in call.src .. r'.s - 1 : before[a] # call.c
    BY <1>0, <1>4, <1>12, <2>2
  <2>6. FindOK'
    BY <1>1, <1>2, <1>4, <1>8, <2>1, <2>2, <2>3, <2>4, <2>5 DEF FindOK
  <2>7. PlaceOK'
    BY <1>1, <1>2, <1>9, <2>1, <2>2 DEF PlaceOK
  <2> QED
    BY <1>1, <1>2, <1>9, <1>10, <2>2, <2>6, <2>7, KeptBy DEF Next, Comparing
<1> QED
  BY <1>11, <1>12

(* A turn of a comparison passes two bytes that are the same, or ends at   *)
(* the first two that differ, at a NUL or at n.                            *)
LEMMA CompareKeeps ==
  ASSUME LibInv, Strcmp \/ Memcmp
  PROVE  LibInv'
<1>0. /\ Size \in Nat /\ Size >= 1
      /\ call.dst \in Nat /\ call.dst >= 1 /\ call.dst <= Size
      /\ call.src \in Nat /\ call.src >= 1 /\ call.src <= Size
      /\ call.n \in Nat /\ call.n <= Size
      /\ r.d \in Int /\ r.s \in Int /\ r.n \in Int /\ r.val \in Int
  BY Numbers
<1>1. /\ pc \in Comparing /\ mem' = mem /\ call' = call /\ before' = before
      /\ read' = read \cup (IF MoreToCompare THEN {r.d, r.s} ELSE {})
      /\ IF MoreToCompare /\ Byte(r.d) = Byte(r.s) /\ (pc = "memcmp" \/ Byte(r.d) # NUL)
         THEN /\ pc' = pc /\ ret' = ret
              /\ r' = [r EXCEPT !.d = @ + 1, !.s = @ + 1, !.n = IF pc = "strcmp" THEN @ ELSE @ - 1]
         ELSE pc' = "done" /\ r' = r /\ ret' = IF MoreToCompare THEN Byte(r.d) - Byte(r.s) ELSE 0
  BY DEF Strcmp, Memcmp, CompareBytes, Comparing, Reads, Called, Goto, Return
<1>2. call.fn = pc
  BY <1>1 DEF LibInv, PlaceOK, Comparing
<1>3. PICK k \in Nat : k = r.s - call.src
  BY <1>0, <1>1, <1>2 DEF LibInv, CompareOK
<1>4. /\ mem = before /\ r.d = call.dst + k
      /\ call.fn # "strcmp" => r.n = call.n - k /\ r.n \in 0 .. call.n
      /\ call.fn = "strcmp" => r.n = call.n
      /\ call.src + k <= Size + 1 /\ call.dst + k <= Size + 1
      /\ \A j \in 0 .. k - 1 : before[call.dst + j] = before[call.src + j]
      /\ call.fn # "memcmp" => Plain(call.dst, k) /\ Plain(call.src, k)
  BY <1>1, <1>2, <1>3 DEF LibInv, CompareOK
<1>5. r.s = call.src + k
  BY <1>0, <1>3
<1>6. \A a, j : Plain(a, j)' <=> Plain(a, j)
  BY <1>1 DEF Plain
<1>7. PlaceOK /\ ReadOK /\ r.val \in Long
  BY DEF LibInv
<1>8. call.fn \notin {"memset", "strcpy", "strncpy", "strlen", "strnlen", "strchr", "strfind", "strtol"}
  BY <1>1, <1>2 DEF Comparing
<1>9. CASE ~MoreToCompare
  <2>1. pc' = "done" /\ r' = r /\ ret' = 0 /\ read' = read
    BY <1>1, <1>9
  <2>2. call.fn # "strcmp" /\ k = call.n
    BY <1>0, <1>2, <1>4, <1>9 DEF MoreToCompare
  <2>3. CompareOK'
    BY <1>0, <1>1, <1>3, <1>4, <1>6, <2>1, <2>2 DEF CompareOK
  <2>4. PlaceOK' /\ ReadOK'
    BY <1>1, <1>7, <2>1, ReadsSame DEF PlaceOK
  <2> QED
    BY <1>7, <1>8, <2>1, <2>3, <2>4, <1>1, KeptBy DEF Next
<1>10. CASE MoreToCompare
  <2>1. call.fn # "strcmp" => k < call.n
    BY <1>0, <1>2, <1>4, <1>10 DEF MoreToCompare
  <2>2. ASSUME NEW a \in {call.src, call.dst} PROVE a + k \in Addr
    <3>1. a \in Addr
      BY <1>0 DEF Addr
    <3>2. \/ call.fn # "memcmp" /\ Terminated(before, a)
          \/ call.fn # "strcmp" /\ a + call.n - 1 <= Size
      BY <1>1, <1>2, Callers DEF LibInv, Comparing
    <3>3. CASE call.fn # "memcmp" /\ Terminated(before, a)
      BY <1>4, <3>1, <3>3, PlainOn
    <3>4. CASE call.fn # "strcmp" /\ a + call.n - 1 <= Size
      BY <1>0, <2>1, <3>1, <3>4 DEF Addr
    <3> QED
      BY <3>2, <3>3, <3>4
  <2>3. r.s \in Addr /\ r.d \in Addr
    BY <1>4, <1>5, <2>2
  <2>4. Byte(r.s) = before[r.s] /\ Byte(r.d) = before[r.d] /\ before[r.s] \in 0 .. 255 /\ before[r.d] \in 0 .. 255
    BY <1>4, <2>3, Memories DEF Byte
  <2>5. ReadOK'
    <3>1. \A a \in {call.src, call.dst} : a + k \in Reach(a)
      BY <1>0, <1>4, <1>8, <2>1, <2>2 DEF Reach, Counted, Addr
    <3>2. r.s \in Reach(call.src) /\ r.d \in Reach(call.dst) /\ call.fn \in Comparing
      BY <1>1, <1>2, <1>4, <1>5, <3>1
    <3>3. read' = read \cup {r.d, r.s}
      BY <1>1, <1>10
    <3> QED
      BY <1>1, <1>7, <3>2, <3>3, ReadsKeep
  <2>6. CASE before[r.d] = before[r.s] /\ (call.fn = "memcmp" \/ before[r.d] # NUL)
    <3>1. /\ pc' = pc
          /\ r' = [r EXCEPT !.d = @ + 1, !.s = @ + 1, !.n = IF pc = "strcmp" THEN @ ELSE @ - 1]
      BY <1>1, <1>2, <1>10, <2>4, <2>6
    <3>2. /\ r'.d = r.d + 1 /\ r'.s = r.s + 1 /\ r'.n = (IF call.fn = "strcmp" THEN r.n ELSE r.n - 1)
          /\ r'.val = r.val /\ r' \in Locals
      <4>1. r' = [d |-> r.d + 1, s |-> r.s + 1, n |-> IF call.fn = "strcmp" THEN r.n ELSE r.n - 1,
                  val |-> r.val, neg |-> r.neg, base |-> r.base]
        BY <1>2, <3>1, Fields
      <4>2. r.d + 1 \in Int /\ r.s + 1 \in Int /\ r.n - 1 \in Int
        BY <1>0
      <4> QED
        BY <1>0, <4>1, <4>2, Fields DEF Locals
    <3>3. call.fn # "memcmp" => Plain(call.src, k + 1) /\ Plain(call.dst, k + 1)
      BY <1>4, <1>5, <2>3, <2>6, PlainOn DEF LibInv, ArgsOK
    <3>4. /\ r'.s - call.src = k + 1 /\ k + 1 \in 0 .. Size /\ r'.d = call.dst + (k + 1)
          /\ call.src + (k + 1) <= Size + 1 /\ call.dst + (k + 1) <= Size + 1
      BY <1>0, <1>4, <1>5, <2>3, <3>2 DEF Addr
    <3>5. /\ call.fn # "strcmp" => r'.n = call.n - (k + 1) /\ r'.n \in 0 .. call.n
          /\ call.fn = "strcmp" => r'.n = call.n
      BY <1>0, <1>4, <2>1, <3>2
    <3>6. \A j \in 0 .. (k + 1) - 1 : before[call.dst + j] = before[call.src + j]
      <4>1. \A j \in 0 .. (k + 1) - 1 : j = k \/ j \in 0 .. k - 1
        OBVIOUS
      <4> QED
        BY <1>4, <1>5, <2>6, <4>1
    <3>7. CompareOK'
      BY <1>1, <1>2, <1>4, <1>6, <1>8, <3>1, <3>3, <3>4, <3>5, <3>6 DEF CompareOK, Comparing
    <3>8. PlaceOK'
      BY <1>1, <1>2, <1>7, <3>1, <3>2 DEF PlaceOK
    <3> QED
      BY <1>1, <1>2, <1>7, <1>8, <2>5, <3>2, <3>7, <3>8, KeptBy DEF Next
  <2>7. CASE ~(before[r.d] = before[r.s] /\ (call.fn = "memcmp" \/ before[r.d] # NUL))
    <3>1. pc' = "done" /\ r' = r /\ ret' = before[r.d] - before[r.s]
      BY <1>1, <1>2, <1>10, <2>4, <2>7
    <3>2. CompareOK'
      <4>1. k \in 0 .. Size
        BY <1>0, <1>4
      <4> QED
        BY <1>1, <1>3, <1>4, <1>6, <2>1, <2>3, <2>7, <3>1, <4>1 DEF CompareOK, Addr
    <3>3. PlaceOK'
      BY <1>1, <1>7, <3>1 DEF PlaceOK
    <3> QED
      BY <1>1, <1>2, <1>7, <1>8, <2>5, <3>1, <3>2, <3>3, KeptBy DEF Next
  <2> QED
    BY <2>6, <2>7
<1> QED
  BY <1>9, <1>10

(* A step of memmove or memcpy reads only the n bytes at src; MoveInv has  *)
(* the rest.                                                               *)
LEMMA MovesKeep ==
  ASSUME LibInv, Memmove \/ CopyForward \/ CopyBackward
  PROVE  LibInv'
<1>0. /\ Size \in Nat /\ Size >= 1
      /\ call.dst \in Nat /\ call.dst >= 1 /\ call.dst <= Size
      /\ call.src \in Nat /\ call.src >= 1 /\ call.src <= Size
      /\ call.n \in Nat /\ call.n <= Size
      /\ r.d \in Int /\ r.s \in Int /\ r.n \in Int /\ r.val \in Int
  BY Numbers
<1>1. /\ call' = call /\ before' = before /\ ArgsOK' /\ MoveInv'
  BY CallKept DEF Next
<1>2. Moving /\ call.fn \in {"memmove", "memcpy"}
  BY DEF LibInv, PlaceOK, Moving, Memmove, CopyForward, CopyBackward, ArgsOK, Calls, Copying, Scanning,
         Comparing
<1>3. LoopOK /\ (ArgumentsOK /\ LoopOK)'
  BY <1>1, <1>2 DEF LibInv, MoveInv, Moving
<1>4. PlaceOK'
  BY <1>1, <1>2, <1>3 DEF PlaceOK, ArgumentsOK, LoopOK
<1>5. r'.val = r.val
  <2>1. \/ r' = r \/ r' = [r EXCEPT !.d = @ + r.n, !.s = @ + r.n]
        \/ r' = [r EXCEPT !.d = @ + 1, !.s = @ + 1, !.n = @ - 1]
        \/ r' = [r EXCEPT !.d = @ - 1, !.s = @ - 1, !.n = @ - 1]
    BY DEF Memmove, CopyForward, CopyBackward
  <2> QED
    BY <2>1, Fields
<1>6. ReadOK'
  <2>1. CASE Memmove
    BY <1>1, <2>1, ReadsSame DEF Memmove, LibInv
  <2>2. \A k \in 0 .. call.n - 1 : call.src + k \in Reach(call.src)
    BY <1>0, <1>2, Callers DEF Reach, Counted, LibInv
  <2>3. CASE CopyForward
    <3>1. pc = "forward" /\ r.n > 0 /\ read' = read \cup {r.s}
      BY <2>3 DEF CopyForward, BytesLeft, Reads
    <3>2. r.n \in 0 .. call.n /\ r.s = call.src + (call.n - r.n)
      BY <1>3, <3>1 DEF LoopOK
    <3>3. r.s \in Reach(call.src)
      <4>1. PICK k \in 0 .. call.n - 1 : k = call.n - r.n
        BY <1>0, <3>1, <3>2
      <4> QED
        BY <2>2, <3>2, <4>1
    <3> QED
      BY <1>1, <3>1, <3>3, ReadsKeep DEF LibInv
  <2>4. CASE CopyBackward
    <3>1. pc = "backward" /\ r.n > 0 /\ read' = read \cup {r.s - 1}
      BY <2>4 DEF CopyBackward, BytesLeft, Reads
    <3>2. r.n \in 0 .. call.n /\ r.s = call.src + r.n
      BY <1>3, <3>1 DEF LoopOK
    <3>3. r.s - 1 \in Reach(call.src)
      <4>1. PICK k \in 0 .. call.n - 1 : k = r.n - 1
        BY <1>0, <3>1, <3>2
      <4>2. r.s - 1 = call.src + k
        BY <1>0, <3>2, <4>1
      <4> QED
        BY <2>2, <4>2
    <3> QED
      BY <1>1, <3>1, <3>3, ReadsKeep DEF LibInv
  <2> QED
    BY <2>1, <2>3, <2>4
<1>7. r'.val \in Long
  BY <1>5 DEF LibInv
<1> QED
  BY <1>2, <1>4, <1>6, <1>7, KeptBy DEF Next, Comparing

(* A loop that writes ends when no byte is left to write.                  *)
LEMMA WrittenKeeps ==
  ASSUME LibInv, Written
  PROVE  LibInv'
<1>0. /\ Size \in Nat /\ Size >= 1
      /\ call.dst \in Nat /\ call.dst >= 1 /\ call.dst <= Size
      /\ call.src \in Nat /\ call.src >= 1 /\ call.src <= Size
      /\ call.n \in Nat /\ call.n <= Size
      /\ r.d \in Int /\ r.s \in Int /\ r.n \in Int /\ r.val \in Int
  BY Numbers
<1>1. /\ pc \in {"memset", "forward", "backward", "strncpy"} /\ ~(r.n > 0) /\ pc' = "done"
      /\ call' = call /\ before' = before /\ mem' = mem /\ r' = r /\ read' = read
  BY DEF Written, BytesLeft, Return, Called
<1>2. call.fn \in {"memset", "memmove", "memcpy", "strncpy"}
  BY <1>1 DEF LibInv, PlaceOK, ArgsOK, Calls, Copying, Scanning, Comparing
<1>3. \A a, j : Plain(a, j)' <=> Plain(a, j)
  BY <1>1 DEF Plain
<1>4. PlaceOK /\ ReadOK /\ r.val \in Long /\ MemsetOK /\ StrncpyOK
  BY DEF LibInv
<1>5. PlaceOK' /\ ReadOK' /\ r'.val \in Long
  BY <1>1, <1>4, ReadsSame DEF PlaceOK
<1>6. call.fn = "memset" => MemsetOK'
  <2> SUFFICES ASSUME call.fn = "memset" PROVE MemsetOK'
    OBVIOUS
  <2>1. r.n \in 0 .. call.n
    BY <1>4 DEF MemsetOK
  <2>2. r.n = 0
    BY <1>0, <1>1, <2>1
  <2> QED
    BY <1>1, <1>4, <2>2 DEF MemsetOK
<1>7. call.fn = "strncpy" => StrncpyOK'
  <2> SUFFICES ASSUME call.fn = "strncpy" PROVE StrncpyOK'
    OBVIOUS
  <2>1. r.n \in 0 .. call.n
    BY <1>4 DEF StrncpyOK
  <2>2. r.n = 0
    BY <1>0, <1>1, <2>1
  <2> QED
    BY <1>1, <1>3, <1>4, <2>2 DEF StrncpyOK
<1> QED
  BY <1>2, <1>5, <1>6, <1>7, KeptBy DEF Next, Comparing

(* What has been wrapped is a long.                                        *)
LEMMA WrapFits == \A n \in Int : Wrap(n) \in Long
  BY StringAssumption DEF Wrap, Long

(* A step of strtol passes a byte that is no NUL, so it reads no further   *)
(* than the NUL that ends the text.                                        *)
LEMMA StrtolKeeps ==
  ASSUME LibInv, StrtolBlank \/ StrtolSign \/ StrtolPrefix \/ StrtolDigit
  PROVE  LibInv'
<1>0. /\ Size \in Nat /\ Size >= 1
      /\ call.dst \in Nat /\ call.dst >= 1 /\ call.dst <= Size
      /\ call.src \in Nat /\ call.src >= 1 /\ call.src <= Size
      /\ call.n \in Nat /\ call.n <= Size
      /\ r.d \in Int /\ r.s \in Int /\ r.n \in Int /\ r.val \in Int
  BY Numbers
<1>1. /\ call' = call /\ before' = before /\ mem' = mem
      /\ pc \in {"strtol", "sign", "prefix", "digits"}
      /\ pc' \in {"strtol", "sign", "prefix", "digits", "done"}
  BY DEF StrtolBlank, StrtolSign, StrtolPrefix, StrtolDigit, Called, Goto, Return
<1>2. call.fn = "strtol"
  BY <1>1 DEF LibInv, PlaceOK, ArgsOK, Calls, Copying, Scanning, Comparing
<1>3. /\ mem = before /\ r.d = call.dst /\ r.n = call.n /\ r.base \in 0 .. 36
      /\ r.s \in Addr /\ Plain(call.src, r.s - call.src)
  BY <1>2 DEF LibInv, StrtolOK
<1>4. before[Size] = NUL /\ call.src = 1
  BY <1>2 DEF LibInv, ArgsOK
<1>5. PlaceOK /\ ReadOK /\ r.val \in Long
  BY DEF LibInv
(* Behind a byte that is no NUL there is another.                          *)
<1>6. ASSUME NEW s \in Addr, Plain(call.src, s - call.src), Byte(s) # NUL
      PROVE  s + 1 \in Addr /\ Plain(call.src, (s + 1) - call.src)
  <2>1. Byte(s) = before[s] /\ s # Size
    BY <1>3, <1>4, <1>6 DEF Byte
  <2>2. PICK k \in Nat : k = s - call.src
    BY <1>0, <1>4 DEF Addr
  <2>3. Plain(call.src, k + 1)
    <3>1. call.src + k = s /\ call.src \in Addr
      BY <1>0, <1>4, <2>2 DEF Addr
    <3> QED
      BY <1>6, <2>1, <2>2, <3>1, PlainOn
  <2>4. k + 1 = (s + 1) - call.src
    BY <1>0, <2>2 DEF Addr
  <2> QED
    BY <1>0, <2>1, <2>3, <2>4 DEF Addr
<1>7. ASSUME NEW s \in Addr, Plain(call.src, s - call.src)
      PROVE  s \in Reach(call.src)
  BY <1>0, <1>2, <1>4, <1>7 DEF Reach, Counted, Addr
<1>8. ASSUME NEW s \in Addr, NEW val \in Long, NEW neg \in BOOLEAN, NEW base \in 0 .. 36,
             Plain(call.src, s - call.src), ReadOK',
             r' = [r EXCEPT !.s = s, !.val = val, !.neg = neg, !.base = base]
      PROVE  LibInv'
  <2>1. r' = [d |-> r.d, s |-> s, n |-> r.n, val |-> val, neg |-> neg, base |-> base]
    BY <1>8, Fields
  <2>2. /\ r'.d = r.d /\ r'.s = s /\ r'.n = r.n /\ r'.val = val /\ r'.base = base /\ r' \in Locals
    <3>1. s \in Int /\ val \in Int /\ base \in Int
      BY <1>0, StringAssumption DEF Addr, Long
    <3> QED
      BY <1>0, <1>8, <2>1, <3>1 DEF Locals
  <2>3. StrtolOK'
    BY <1>1, <1>3, <1>8, <2>2 DEF StrtolOK, Plain
  <2>4. PlaceOK'
    BY <1>1, <1>2, <1>5, <2>2 DEF PlaceOK
  <2> QED
    BY <1>2, <1>8, <2>2, <2>3, <2>4, KeptBy DEF Next, Comparing
<1>9. r.s \in Reach(call.src)
  BY <1>3, <1>7
<1>10. CASE StrtolBlank
  <2>1. read' = read \cup {r.s} /\ r' = IF Byte(r.s) \in {32, 9} THEN [r EXCEPT !.s = @ + 1] ELSE r
    BY <1>10 DEF StrtolBlank, Reads
  <2>2. ReadOK'
    BY <1>1, <1>5, <1>9, <2>1, ReadsKeep
  <2>3. PICK s \in Addr : s = (IF Byte(r.s) \in {32, 9} THEN r.s + 1 ELSE r.s) /\ Plain(call.src, s - call.src)
    BY <1>3, <1>6 DEF NUL
  <2>4. r' = [r EXCEPT !.s = s, !.val = r.val, !.neg = r.neg, !.base = r.base]
    BY <2>1, <2>3, Fields
  <2> QED
    BY <1>3, <1>5, <1>8, <2>2, <2>3, <2>4, Fields
<1>11. CASE StrtolSign
  <2>1. /\ read' = read
        /\ r' = [r EXCEPT !.neg = Byte(r.s) = 45, !.s = IF Byte(r.s) \in {43, 45} THEN @ + 1 ELSE @]
    BY <1>11 DEF StrtolSign
  <2>2. ReadOK'
    BY <1>1, <1>5, <2>1, ReadsSame
  <2>3. PICK s \in Addr : s = (IF Byte(r.s) \in {43, 45} THEN r.s + 1 ELSE r.s) /\ Plain(call.src, s - call.src)
    BY <1>3, <1>6 DEF NUL
  <2>4. PICK neg \in BOOLEAN : neg = (Byte(r.s) = 45)
    OBVIOUS
  <2>5. r' = [r EXCEPT !.s = s, !.val = r.val, !.neg = neg, !.base = r.base]
    BY <2>1, <2>3, <2>4, Fields
  <2> QED
    BY <1>3, <1>5, <1>8, <2>2, <2>3, <2>5
<1>12. CASE StrtolPrefix
  <2> DEFINE zero == Byte(r.s) = 48
             hex == r.base \in {0, 16} /\ zero /\ Byte(r.s + 1) = 120
             octal == r.base = 0 /\ zero
  <2>1. /\ read' = read \cup ({r.s} \cup IF r.base \in {0, 16} /\ zero THEN {r.s + 1} ELSE {})
        /\ r' = [r EXCEPT !.s = IF hex THEN @ + 2 ELSE IF octal THEN @ + 1 ELSE @,
                          !.base = IF hex THEN 16 ELSE IF octal THEN 8 ELSE IF @ = 0 THEN 10 ELSE @]
    BY <1>12 DEF StrtolPrefix, Reads
  <2>2. zero => r.s + 1 \in Addr /\ Plain(call.src, (r.s + 1) - call.src)
    BY <1>3, <1>6 DEF NUL
  <2>3. hex => r.s + 2 \in Addr /\ Plain(call.src, (r.s + 2) - call.src)
    <3> SUFFICES ASSUME hex PROVE r.s + 2 \in Addr /\ Plain(call.src, (r.s + 2) - call.src)
      OBVIOUS
    <3>1. PICK t \in Addr : t = r.s + 1 /\ Plain(call.src, t - call.src)
      BY <2>2
    <3>2. t + 1 \in Addr /\ Plain(call.src, (t + 1) - call.src)
      BY <1>6, <3>1 DEF NUL
    <3>3. t + 1 = r.s + 2
      BY <1>0, <3>1
    <3> QED
      BY <3>2, <3>3
  <2>4. ReadOK'
    <3>1. zero => r.s + 1 \in Reach(call.src)
      BY <1>7, <2>2
    <3>2. \A b \in {r.s} \cup IF r.base \in {0, 16} /\ zero THEN {r.s + 1} ELSE {} : b \in Reach(call.src)
      BY <1>9, <3>1
    <3> QED
      BY <1>1, <1>5, <2>1, <3>2, ReadsKeep
  <2>5. PICK s \in Addr : /\ s = IF hex THEN r.s + 2 ELSE IF octal THEN r.s + 1 ELSE r.s
                          /\ Plain(call.src, s - call.src)
    BY <1>3, <2>2, <2>3
  <2>6. PICK base \in 0 .. 36 : base = IF hex THEN 16 ELSE IF octal THEN 8 ELSE IF r.base = 0 THEN 10 ELSE r.base
    BY <1>3
  <2>7. r' = [r EXCEPT !.s = s, !.val = r.val, !.neg = r.neg, !.base = base]
    <3> HIDE DEF hex, octal
    <3> QED
      BY <2>1, <2>5, <2>6, Fields
  <2> HIDE DEF zero, hex, octal
  <2> QED
    BY <1>5, <1>8, <2>4, <2>5, <2>6, <2>7, Fields
<1>13. CASE StrtolDigit
  <2>1. PICK dig : dig = DigitValue(Byte(r.s))
    OBVIOUS
  <2>2. /\ read' = read \cup {r.s}
        /\ r' = IF dig < r.base THEN [r EXCEPT !.s = @ + 1, !.val = Wrap(@ * r.base + dig)] ELSE r
    BY <1>13, <2>1 DEF StrtolDigit, Reads
  <2>3. ReadOK'
    BY <1>1, <1>5, <1>9, <2>2, ReadsKeep
  <2>4. dig \in Int /\ (Byte(r.s) = NUL => dig = 36)
    <3>1. PICK b \in 0 .. 255 : b = Byte(r.s)
      BY <1>3, Memories DEF Byte
    <3> QED
      BY <2>1, <3>1 DEF DigitValue, NUL
  <2>5. PICK s \in Addr : s = (IF dig < r.base THEN r.s + 1 ELSE r.s) /\ Plain(call.src, s - call.src)
    <3>1. dig < r.base => Byte(r.s) # NUL
      BY <1>3, <2>4
    <3> QED
      BY <1>3, <1>6, <3>1
  <2>6. PICK val \in Long : val = IF dig < r.base THEN Wrap(r.val * r.base + dig) ELSE r.val
    <3>1. r.val * r.base + dig \in Int
      BY <1>0, <1>3, <2>4
    <3> QED
      BY <1>5, <3>1, WrapFits
  <2>7. r' = [r EXCEPT !.s = s, !.val = val, !.neg = r.neg, !.base = r.base]
    BY <2>2, <2>5, <2>6, Fields
  <2> QED
    BY <1>3, <1>8, <2>3, <2>5, <2>6, <2>7, Fields
<1> QED
  BY <1>10, <1>11, <1>12, <1>13
-----------------------------------------------------------------------------
(* A call starts with nothing done,                                        *)
LEMMA LibInit == Init => LibInv
<1> SUFFICES ASSUME Init PROVE LibInv
  OBVIOUS
<1>1. MoveInv
  BY MoveInit
<1>2. CASE \E fn \in Calls \ {"strtol"}, dst \in Addr, src \in Addr, n \in 0 .. Size, c \in Bytes :
             LET args == [fn |-> fn, dst |-> dst, src |-> src, n |-> n, c |-> c, base |-> 0]
             IN  before \in [Addr -> Bytes] /\ Permitted(args, before) /\ Begin(args)
  <2>1. PICK fn \in Calls \ {"strtol"}, dst \in Addr, src \in Addr, n \in 0 .. Size, c \in Bytes :
          LET args == [fn |-> fn, dst |-> dst, src |-> src, n |-> n, c |-> c, base |-> 0]
          IN  before \in [Addr -> Bytes] /\ Permitted(args, before) /\ Begin(args)
    BY <1>2
  <2>2. /\ call = [fn |-> fn, dst |-> dst, src |-> src, n |-> n, c |-> c, base |-> 0]
        /\ r = [d |-> dst, s |-> src, n |-> n, val |-> 0, neg |-> FALSE, base |-> 0]
        /\ pc = fn /\ mem = before /\ read = {} /\ Permitted(call, before)
    BY <2>1 DEF Begin
  <2>3. before \in [Addr -> 0 .. 255] /\ c \in 0 .. 255
    <3>1. \A b \in Bytes : b \in 0 .. 255
      BY StringAssumption
    <3> QED
      BY <2>1, <3>1
  <2>4. Size \in Nat /\ dst \in Nat /\ src \in Nat /\ n \in Nat /\ dst >= 1 /\ src >= 1 /\ n <= Size
        /\ dst <= Size /\ src <= Size
    BY StringAssumption DEF Addr
  <2>5. /\ call.fn = fn /\ call.dst = dst /\ call.src = src /\ call.n = n /\ call.c = c /\ call.base = 0
        /\ r.d = dst /\ r.s = src /\ r.n = n /\ r.val = 0 /\ r.base = 0
    BY <2>2
  <2>6. ArgsOK
    BY <2>2, <2>3, <2>5 DEF ArgsOK
  <2>7. PlaceOK
    BY <2>2, <2>3, <2>4, <2>5 DEF PlaceOK, Locals
  <2>8. ReadOK /\ r.val \in Long
    BY <2>2, <2>5, StringAssumption DEF ReadOK, Long
  <2>9. fn # "done" /\ r.s - call.src = 0 /\ call.n - r.n = 0 /\ Plain(call.src, 0) /\ Plain(call.dst, 0)
    BY <2>4, <2>5, PlainNone DEF Calls, Copying, Scanning, Comparing
  <2>10. \A a \in Addr : a \notin call.dst .. call.dst + 0 - 1 /\ a \notin call.dst + 0 .. call.dst + 0 - 1
    BY <2>4, <2>5 DEF Addr
  <2>11. MemsetOK
    BY <2>2, <2>3, <2>4, <2>5, <2>9, <2>10 DEF MemsetOK
  <2>12. StrcpyOK
    <3>1. MovedBetween(0, 0)
      BY <2>2, <2>3, <2>10 DEF MovedBetween
    <3> QED
      BY <2>2, <2>4, <2>5, <2>9, <3>1 DEF StrcpyOK
  <2>13. StrncpyOK
    BY <2>2, <2>3, <2>4, <2>5, <2>9, <2>10 DEF StrncpyOK
  <2>14. MeasureOK
    BY <2>2, <2>4, <2>5, <2>9 DEF MeasureOK
  <2>15. FindOK
    BY <2>2, <2>4, <2>5, <2>9 DEF FindOK
  <2>16. CompareOK
    BY <2>2, <2>4, <2>5, <2>9 DEF CompareOK
  <2>17. StrtolOK
    BY <2>5 DEF StrtolOK
  <2> QED
    BY <1>1, <2>6, <2>7, <2>8, <2>11, <2>12, <2>13, <2>14, <2>15, <2>16, <2>17 DEF LibInv
<1>3. CASE \E base \in Bases, len \in 0 .. Size - 1, text \in [Addr -> Digits] :
             /\ before = [a \in Addr |-> IF a <= len THEN text[a] ELSE NUL]
             /\ Begin([fn |-> "strtol", dst |-> 1, src |-> 1, n |-> 0, c |-> NUL, base |-> base])
  <2>1. PICK base \in Bases, len \in 0 .. Size - 1, text \in [Addr -> Digits] :
          /\ before = [a \in Addr |-> IF a <= len THEN text[a] ELSE NUL]
          /\ Begin([fn |-> "strtol", dst |-> 1, src |-> 1, n |-> 0, c |-> NUL, base |-> base])
    BY <1>3
  <2>2. /\ call = [fn |-> "strtol", dst |-> 1, src |-> 1, n |-> 0, c |-> NUL, base |-> base]
        /\ r = [d |-> 1, s |-> 1, n |-> 0, val |-> 0, neg |-> FALSE, base |-> base]
        /\ pc = "strtol" /\ mem = before /\ read = {}
    BY <2>1 DEF Begin
  <2>3. before \in [Addr -> 0 .. 255] /\ before[Size] = NUL
    <3>2. \A b \in Digits : b \in 0 .. 255
      BY StringAssumption
    <3>1. \A a \in Addr : text[a] \in 0 .. 255
      BY <3>2
    <3> QED
      BY <2>1, <3>1, StringAssumption DEF NUL, Addr
  <2>4. base \in 0 .. 36 /\ 1 \in Addr /\ NUL \in 0 .. 255 /\ 0 \in 0 .. Size
    BY StringAssumption DEF Addr, NUL
  <2>5. /\ call.fn = "strtol" /\ call.dst = 1 /\ call.src = 1 /\ call.n = 0 /\ call.c = NUL /\ call.base = base
        /\ r.d = 1 /\ r.s = 1 /\ r.n = 0 /\ r.val = 0 /\ r.base = base
    BY <2>2
  <2>6. ArgsOK
    BY <2>3, <2>4, <2>5 DEF ArgsOK, Calls
  <2>7. PlaceOK
    BY <2>2, <2>3, <2>4, <2>5 DEF PlaceOK, Locals
  <2>8. ReadOK /\ r.val \in Long
    BY <2>2, <2>5, StringAssumption DEF ReadOK, Long
  <2>9. StrtolOK
    BY <2>2, <2>4, <2>5, PlainNone DEF StrtolOK
  <2>10. MemsetOK /\ StrcpyOK /\ StrncpyOK /\ MeasureOK /\ FindOK /\ CompareOK
    BY <2>5 DEF MemsetOK, StrcpyOK, StrncpyOK, MeasureOK, FindOK, CompareOK, Comparing
  <2> QED
    BY <1>1, <2>6, <2>7, <2>8, <2>9, <2>10 DEF LibInv
<1> QED
  BY <1>2, <1>3, Zenon DEF Init

(* and each turn of each loop keeps the invariant.                         *)
LEMMA LibStep == LibInv /\ [Next]_vars => LibInv'
<1> SUFFICES ASSUME LibInv, [Next]_vars PROVE LibInv'
  OBVIOUS
<1>1. CASE UNCHANGED vars
  <2>1. MoveInv'
    BY MoveStep DEF LibInv
  <2>2. /\ mem' = mem /\ call' = call /\ pc' = pc /\ r' = r /\ ret' = ret /\ before' = before /\ read' = read
    BY <1>1 DEF vars
  <2>3. ArgsOK' /\ PlaceOK' /\ ReadOK' /\ r'.val \in Long
    BY <2>2, ReadsSame DEF LibInv, ArgsOK, PlaceOK, Permitted, Terminated, Length, Room, Apart
  <2>4. MemsetOK' /\ StrcpyOK' /\ StrncpyOK'
    BY <2>2 DEF LibInv, MemsetOK, StrcpyOK, StrncpyOK, MovedBetween, Plain
  <2>5. MeasureOK' /\ FindOK' /\ CompareOK' /\ StrtolOK'
    BY <2>2 DEF LibInv, MeasureOK, FindOK, CompareOK, StrtolOK, Plain
  <2> QED
    BY <2>1, <2>3, <2>4, <2>5 DEF LibInv
<1>2. CASE Next
  BY <1>2, MemsetKeeps, MovesKeep, StrcpyKeeps, StrncpyKeeps, WrittenKeeps, MeasureKeeps, FindKeeps,
     CompareKeeps, StrtolKeeps, Zenon DEF Next
<1> QED
  BY <1>1, <1>2

(* The invariant holds of every call its comment allows.                   *)
THEOREM LibInvHolds == Spec => []LibInv
  BY LibInit, LibStep, PTL DEF Spec

-----------------------------------------------------------------------------
(* The least of two numbers,                                               *)
LEMMA MinTwo ==
  ASSUME NEW x \in Int, NEW y \in Int
  PROVE  Min({x, y}) = IF x <= y THEN x ELSE y
<1>1. CASE x <= y
  <2>1. {x, y} \in SUBSET Int /\ x \in {x, y} /\ \A z \in {x, y} : x <= z
    BY <1>1
  <2>2. Min({x, y}) = x
    BY <2>1, MinIs
  <2> QED
    BY <1>1, <2>2
<1>2. CASE ~(x <= y)
  <2>1. {x, y} \in SUBSET Int /\ y \in {x, y} /\ \A z \in {x, y} : y <= z
    BY <1>2
  <2>2. Min({x, y}) = y
    BY <2>1, MinIs
  <2> QED
    BY <1>2, <2>2
<1> QED
  BY <1>1, <1>2

(* and the greatest.                                                       *)
LEMMA MaxTwo ==
  ASSUME NEW x \in Int, NEW y \in Int
  PROVE  Max({x, y}) = IF x <= y THEN y ELSE x
<1>1. \E z \in {x, y} : \A w \in {x, y} : z >= w
  OBVIOUS
<1>2. PICK m : m = Max({x, y})
  OBVIOUS
<1>3. m \in {x, y} /\ \A w \in {x, y} : m >= w
  BY <1>1, <1>2 DEF Max
<1>4. m = IF x <= y THEN y ELSE x
  BY <1>3
<1> QED
  BY <1>2, <1>4

(* Places, counts and values stay in their ranges: no pointer of a loop    *)
(* leaves the memory by more than the one byte behind it, and cnt and val  *)
(* are longs.                                                              *)
THEOREM StringTypeCorrect == Spec => []TypeOK
<1>1. LibInv => TypeOK
  <2> SUFFICES ASSUME LibInv PROVE TypeOK
    OBVIOUS
  <2>0. /\ Size \in Nat /\ Size >= 1
        /\ call.dst \in Nat /\ call.dst >= 1 /\ call.dst <= Size
        /\ call.src \in Nat /\ call.src >= 1 /\ call.src <= Size
        /\ call.n \in Nat /\ call.n <= Size
        /\ r.d \in Int /\ r.s \in Int /\ r.n \in Int /\ r.val \in Int
    BY Numbers
  <2>1. mem \in [Addr -> 0 .. 255] /\ before \in [Addr -> 0 .. 255] /\ r.val \in Long /\ call.fn \in Calls
    BY Memories DEF LibInv, ArgsOK
  <2>2. pc \in Places
    BY DEF LibInv, ArgsOK, PlaceOK, Places
  <2>3. read \in SUBSET (1 .. Size + 1)
    <3>1. \A b \in read : b \in 1 .. Size + 1
      BY <2>0 DEF LibInv, ReadOK, Reach
    <3> QED
      BY <3>1
  <2>4. r.d \in 1 .. Size + 1 /\ r.s \in 1 .. Size + 1 /\ r.n \in 0 .. Size
    <3>1. CASE call.fn \in {"memmove", "memcpy"}
      <4>1. LoopOK /\ call.dst + call.n - 1 <= Size /\ call.src + call.n - 1 <= Size
        BY <3>1 DEF LibInv, MoveInv, ArgumentsOK, Moving
      <4>2. r.n \in 0 .. call.n
        BY <4>1 DEF LoopOK
      <4>3. \/ r.d = call.dst + 0 /\ r.s = call.src + 0
            \/ r.d = call.dst + (call.n - r.n) /\ r.s = call.src + (call.n - r.n)
            \/ r.d = call.dst + r.n /\ r.s = call.src + r.n
            \/ \E k \in 0 .. call.n : r.d = call.dst + k /\ r.s = call.src + k
        BY <2>0, <4>1 DEF LoopOK
      <4>4. \E k \in 0 .. call.n : r.d = call.dst + k /\ r.s = call.src + k
        BY <2>0, <4>2, <4>3
      <4> QED
        BY <2>0, <4>1, <4>2, <4>4
    <3>2. CASE call.fn = "memset"
      <4>1. r.n \in 0 .. call.n /\ r.d = call.dst + (call.n - r.n) /\ r.s = call.src
        BY <3>2 DEF LibInv, MemsetOK
      <4>2. call.dst + call.n - 1 <= Size
        BY <3>2, Callers DEF LibInv
      <4> QED
        BY <2>0, <4>1, <4>2
    <3>3. CASE call.fn = "strcpy"
      <4>1. /\ r.d = call.dst + (r.s - call.src) /\ r.n = call.n /\ r.s - call.src \in 0 .. Size
            /\ pc \in {"strcpy", "done"}
            /\ pc = "strcpy" => Plain(call.src, r.s - call.src)
            /\ pc = "done" => /\ r.s - call.src > 0 /\ Plain(call.src, r.s - call.src - 1)
                              /\ before[call.src + (r.s - call.src - 1)] = NUL
        BY <3>3 DEF LibInv, StrcpyOK, PlaceOK
      <4>2. PICK k \in 0 .. Size : k = r.s - call.src
        BY <4>1
      <4>3. PICK m \in Nat : /\ m = Length(before, call.src) /\ call.src + m \in Addr
                             /\ call.dst + (m + 1) - 1 <= Size /\ \A j \in Nat : Plain(call.src, j) => j <= m
        BY <3>3, Callers, LengthOf DEF LibInv, ArgsOK
      <4>4. k <= m + 1
        BY <4>1, <4>2, <4>3
      <4>5. r.s = call.src + k /\ r.d = call.dst + k
        BY <2>0, <4>1, <4>2
      <4> QED
        BY <2>0, <4>1, <4>3, <4>4, <4>5 DEF Addr
    <3>4. CASE call.fn = "strncpy"
      <4>1. r.n \in 0 .. call.n /\ r.d = call.dst + (call.n - r.n) /\ r.s - call.src \in 0 .. call.n - r.n
            /\ Plain(call.src, r.s - call.src)
        BY <3>4 DEF LibInv, StrncpyOK
      <4>2. call.dst + call.n - 1 <= Size
        BY <3>4, Callers DEF LibInv
      <4>3. call.src + (r.s - call.src) <= Size + 1
        BY <4>1 DEF Plain
      <4> QED
        BY <2>0, <4>1, <4>2, <4>3
    <3>5. CASE call.fn \in Scanning
      <4>1. r.d = call.dst /\ r.n = call.n
        BY <3>5 DEF LibInv, MeasureOK, FindOK, Scanning
      <4>2. r.s - call.src \in 0 .. Size /\ Plain(call.src, r.s - call.src)
        <5>1. CASE call.fn \in {"strlen", "strnlen"}
          <6>1. r.val \in 0 .. Size /\ r.s = call.src + r.val /\ Plain(call.src, r.val)
            BY <5>1 DEF LibInv, MeasureOK
          <6>2. r.s - call.src = r.val
            BY <2>0, <6>1
          <6> QED
            BY <6>1, <6>2
        <5>2. CASE call.fn \in {"strchr", "strfind"}
          BY <5>2 DEF LibInv, FindOK
        <5> QED
          BY <3>5, <5>1, <5>2 DEF Scanning
      <4>3. call.src + (r.s - call.src) <= Size + 1
        BY <4>2 DEF Plain
      <4> QED
        BY <2>0, <4>1, <4>2, <4>3
    <3>6. CASE call.fn \in Comparing
      <4>1. PICK k : k = r.s - call.src
        OBVIOUS
      <4>2. /\ k \in 0 .. Size /\ r.d = call.dst + k /\ r.n \in 0 .. Size
            /\ call.src + k <= Size + 1 /\ call.dst + k <= Size + 1
        <5>1. /\ k \in 0 .. Size /\ r.d = call.dst + k /\ (r.n \in 0 .. call.n \/ r.n = call.n)
              /\ call.src + k <= Size + 1 /\ call.dst + k <= Size + 1
          BY <3>6, <4>1 DEF LibInv, CompareOK
        <5> QED
          BY <2>0, <5>1
      <4> QED
        BY <2>0, <4>1, <4>2
    <3>7. CASE call.fn = "strtol"
      <4>1. r.d = call.dst /\ r.n = call.n /\ r.s \in Addr
        BY <3>7 DEF LibInv, StrtolOK
      <4> QED
        BY <2>0, <4>1 DEF Addr
    <3> QED
      BY <2>1, <3>1, <3>2, <3>3, <3>4, <3>5, <3>6, <3>7 DEF Calls, Copying
  <2> QED
    BY <2>1, <2>2, <2>3, <2>4 DEF TypeOK
<1> QED
  BY <1>1, LibInvHolds, PTL

(* memset writes n times c, strcpy the text and its NUL, strncpy n bytes,  *)
(* the text cut or padded with NULs, and none of them another byte         *)
(* (string.c:42-87, 261-281).                                              *)
THEOREM StringExtents == Spec => []WritesTheExtentAsked
<1>1. LibInv => WritesTheExtentAsked
  <2> SUFFICES ASSUME LibInv, pc = "done", call.fn \in {"memset", "strcpy", "strncpy"}
               PROVE  WritesTheExtentAsked
    BY DEF WritesTheExtentAsked
  <2>0. /\ Size \in Nat /\ call.dst \in Nat /\ call.src \in Nat /\ call.n \in Nat
        /\ call.src \in Addr /\ r.s \in Int /\ r.n \in Int
    BY Numbers DEF LibInv, ArgsOK
  <2>1. PICK text : text = IF Terminated(before, call.src) THEN Length(before, call.src) ELSE call.n
    OBVIOUS
  <2>2. CASE call.fn = "memset"
    <3>1. r.n = 0 /\ mem = [a \in Addr |-> IF a \in call.dst .. call.dst + (call.n - r.n) - 1
                                          THEN call.c ELSE before[a]]
      BY <2>2 DEF LibInv, MemsetOK
    <3>2. call.n - r.n = call.n
      BY <2>0, <3>1
    <3>3. mem = [a \in Addr |-> IF a \in call.dst .. call.dst + call.n - 1 THEN call.c ELSE before[a]]
      BY <3>1, <3>2
    <3> QED
      BY <2>2, <3>3 DEF WritesTheExtentAsked
  <2>3. CASE call.fn = "strcpy"
    <3>1. PICK k \in Nat : k = r.s - call.src
      BY <2>3 DEF LibInv, StrcpyOK
    <3>2. MovedBetween(0, k) /\ k > 0 /\ Plain(call.src, k - 1) /\ before[call.src + (k - 1)] = NUL
      BY <2>3, <3>1 DEF LibInv, StrcpyOK
    <3>3. PICK t \in Nat : t = k - 1
      BY <3>1, <3>2
    <3>4. call.src + t \in Addr
      BY <2>0, <2>3, <3>2, <3>3, PlainOn, Callers DEF LibInv
    <3>5. text = t
      BY <2>0, <2>1, <3>2, <3>3, <3>4, LengthIs DEF LibInv
    <3>6. mem = [a \in Addr |-> IF a \in call.dst .. call.dst + (text + 1) - 1
                               THEN IF a - call.dst < text THEN before[call.src + (a - call.dst)] ELSE NUL
                               ELSE before[a]]
      <4>1. mem = [a \in Addr |-> IF a \in call.dst + 0 .. call.dst + k - 1
                                 THEN before[call.src + (a - call.dst)] ELSE before[a]]
        BY <3>2 DEF MovedBetween
      <4>2. /\ call.dst + 0 = call.dst /\ call.dst + (text + 1) - 1 = call.dst + k - 1
            /\ \A a \in call.dst .. call.dst + k - 1 : a - call.dst < text \/ a - call.dst = k - 1
        BY <2>0, <3>1, <3>3, <3>5
      <4> QED
        BY <3>2, <4>1, <4>2
    <3> QED
      BY <2>1, <2>3, <3>6 DEF WritesTheExtentAsked
  <2>4. CASE call.fn = "strncpy"
    <3>1. PICK t \in Nat : t = r.s - call.src
      BY <2>0, <2>4 DEF LibInv, StrncpyOK
    <3>2. /\ r.n = 0 /\ t <= call.n - r.n /\ Plain(call.src, t)
          /\ t < call.n - r.n => r.s \in Addr /\ before[r.s] = NUL
          /\ mem = [a \in Addr |->
                      IF a \in call.dst .. call.dst + (call.n - r.n) - 1
                      THEN IF a - call.dst < t THEN before[call.src + (a - call.dst)] ELSE NUL
                      ELSE before[a]]
      BY <2>0, <2>4, <3>1 DEF LibInv, StrncpyOK
    <3>3. call.n - r.n = call.n /\ r.s = call.src + t
      BY <2>0, <3>1, <3>2
    <3>4. CASE t < call.n
      <4>1. text = t
        BY <2>0, <2>1, <3>1, <3>2, <3>3, <3>4, LengthIs DEF LibInv
      <4>2. mem = [a \in Addr |->
                     IF a \in call.dst .. call.dst + call.n - 1
                     THEN IF a - call.dst < text THEN before[call.src + (a - call.dst)] ELSE NUL
                     ELSE before[a]]
        BY <3>2, <3>3, <4>1
      <4> QED
        BY <2>1, <2>4, <4>2 DEF WritesTheExtentAsked
    <3>5. CASE t = call.n
      <4>1. text \in Int /\ text >= call.n
        BY <2>0, <2>1, <3>1, <3>2, <3>5, LengthOf DEF LibInv
      <4>2. \A a \in call.dst .. call.dst + call.n - 1 : a - call.dst < t /\ a - call.dst < text
        BY <2>0, <3>5, <4>1
      <4>3. mem = [a \in Addr |->
                     IF a \in call.dst .. call.dst + call.n - 1
                     THEN IF a - call.dst < text THEN before[call.src + (a - call.dst)] ELSE NUL
                     ELSE before[a]]
        BY <3>2, <3>3, <4>2
      <4> QED
        BY <2>1, <2>4, <4>3 DEF WritesTheExtentAsked
    <3> QED
      BY <2>0, <3>1, <3>2, <3>3, <3>4, <3>5
  <2> QED
    BY <2>2, <2>3, <2>4
<1> QED
  BY <1>1, LibInvHolds, PTL

(* strlen and strnlen return the length, strchr and strfind the first c,   *)
(* or what they promise when there is none (string.c:4-40, 134-171).       *)
THEOREM StringScans == Spec => []ScansStopAtTheFirst
<1>1. LibInv => ScansStopAtTheFirst
  <2> SUFFICES ASSUME LibInv, pc = "done", call.fn \in Scanning PROVE ScansStopAtTheFirst
    BY DEF ScansStopAtTheFirst, Scanning
  <2>0. /\ Size \in Nat /\ call.src \in Nat /\ call.n \in Nat
        /\ call.src \in Addr /\ r.s \in Int /\ r.val \in Int
    BY Numbers DEF LibInv, ArgsOK
  <2>1. PICK text : text = IF Terminated(before, call.src) THEN Length(before, call.src) ELSE call.n
    OBVIOUS
  <2>2. PICK hits : hits = {a \in call.src .. call.src + text - 1 : before[a] = call.c}
    OBVIOUS
  <2>3. CASE call.fn \in {"strlen", "strnlen"}
    <3>1. /\ r.val \in Nat /\ r.s = call.src + r.val /\ Plain(call.src, r.val) /\ ret = r.val
          /\ call.fn = "strnlen" => r.val <= call.n
          /\ \/ call.fn = "strnlen" /\ r.val = call.n
             \/ r.s \in Addr /\ before[r.s] = NUL
      BY <2>3 DEF LibInv, MeasureOK
    <3>2. CASE r.s \in Addr /\ before[r.s] = NUL
      <4>1. text = r.val
        BY <2>0, <2>1, <3>1, <3>2, LengthIs DEF LibInv
      <4>2. call.fn = "strnlen" => Min({text, call.n}) = ret
        BY <2>0, <3>1, <4>1, MinTwo
      <4> QED
        BY <2>1, <2>3, <3>1, <4>1, <4>2 DEF ScansStopAtTheFirst
    <3>3. CASE call.fn = "strnlen" /\ r.val = call.n
      <4>1. text \in Int /\ text >= call.n
        BY <2>0, <2>1, <3>1, <3>3, LengthOf DEF LibInv
      <4>2. Min({text, call.n}) = ret
        BY <2>0, <3>1, <3>3, <4>1, MinTwo
      <4> QED
        BY <2>1, <3>3, <4>2 DEF ScansStopAtTheFirst
    <3> QED
      BY <3>1, <3>2, <3>3
  <2>4. CASE call.fn \in {"strchr", "strfind"}
    <3>1. PICK k \in Nat : k = r.s - call.src
      BY <2>4 DEF LibInv, FindOK
    <3>2. /\ Plain(call.src, k) /\ r.s \in Addr /\ before[r.s] \in {NUL, call.c}
          /\ ret = IF before[r.s] = NUL /\ call.fn = "strchr" THEN NUL ELSE r.s
          /\ \A a \in call.src .. r.s - 1 : before[a] # call.c
      BY <2>4, <3>1 DEF LibInv, FindOK
    <3>3. r.s = call.src + k
      BY <2>0, <3>1
    <3>4. /\ text \in Nat /\ k <= text /\ before[call.src + text] = NUL
      BY <2>0, <2>1, <2>4, <3>1, <3>2, LengthOf, Callers DEF LibInv
    <3>5. hits \in SUBSET Int /\ \A a \in hits : r.s <= a /\ a < call.src + text
      <4>1. \A a \in call.src .. call.src + text - 1 : a \in Int /\ (a \in call.src .. r.s - 1 \/ r.s <= a) /\ a < call.src + text
        BY <2>0, <3>4
      <4> QED
        BY <2>2, <3>2, <4>1
    <3>6. CASE before[r.s] = NUL
      <4>1. text = k
        BY <2>0, <2>1, <3>1, <3>2, <3>3, <3>6, LengthIs DEF LibInv
      <4>2. hits = {}
        BY <2>0, <3>3, <3>5, <4>1
      <4>3. ret = IF call.fn = "strchr" THEN NUL ELSE call.src + text
        BY <3>2, <3>3, <3>6, <4>1
      <4> QED
        BY <2>1, <2>2, <2>4, <4>2, <4>3 DEF ScansStopAtTheFirst
    <3>7. CASE before[r.s] # NUL
      <4>1. k # text
        BY <3>3, <3>4, <3>7
      <4>2. r.s \in call.src .. call.src + text - 1
        BY <2>0, <3>1, <3>3, <3>4, <4>1
      <4>3. r.s \in hits
        BY <2>2, <3>2, <3>7, <4>2
      <4>4. Min(hits) = r.s
        BY <3>5, <4>3, MinIs
      <4>5. ret = Min(hits) /\ hits # {}
        BY <3>2, <3>7, <4>3, <4>4
      <4> QED
        BY <2>1, <2>2, <2>4, <4>5 DEF ScansStopAtTheFirst
    <3> QED
      BY <3>6, <3>7
  <2> QED
    BY <2>3, <2>4 DEF Scanning
<1> QED
  BY <1>1, LibInvHolds, PTL

(* strcmp, strncmp and memcmp return the difference of the first two bytes *)
(* that differ before a NUL or n ends the comparison, and 0 without any    *)
(* (string.c:88-132, 341-366).                                             *)
THEOREM StringCompares == Spec => []FirstDifferenceDecides
<1>1. LibInv => FirstDifferenceDecides
  <2> SUFFICES ASSUME LibInv, pc = "done", call.fn \in Comparing PROVE FirstDifferenceDecides
    BY DEF FirstDifferenceDecides
  <2>0. /\ Size \in Nat /\ call.dst \in Nat /\ call.src \in Nat /\ call.n \in Nat
        /\ call.src <= Size /\ call.dst <= Size
        /\ call.src \in Addr /\ call.dst \in Addr /\ r.s \in Int
    BY Numbers DEF LibInv, ArgsOK
  <2>1. PICK full : full = Size + 1 - Max({call.dst, call.src})
    OBVIOUS
  <2>2. full \in Nat /\ \A j \in Nat : j <= full <=> call.src + j <= Size + 1 /\ call.dst + j <= Size + 1
    BY <2>0, <2>1, MaxTwo
  <2>3. PICK span : span = IF call.fn = "strcmp" THEN full ELSE Min({call.n, full})
    OBVIOUS
  <2>4. span = (IF call.fn = "strcmp" \/ ~(call.n <= full) THEN full ELSE call.n)
    <3>1. Min({call.n, full}) = IF call.n <= full THEN call.n ELSE full
      BY <2>0, <2>2, MinTwo
    <3> QED
      BY <2>3, <3>1
  <2>5. PICK differ : differ = {k \in 0 .. span - 1 : before[call.dst + k] # before[call.src + k]}
    OBVIOUS
  <2>6. PICK ended : ended = {k \in 0 .. span - 1 : before[call.dst + k] = NUL /\ call.fn # "memcmp"}
    OBVIOUS
  <2>7. SUFFICES IF differ # {} /\ \A k \in ended : Min(differ) <= k
                 THEN ret = before[call.dst + Min(differ)] - before[call.src + Min(differ)]
                 ELSE ret = 0
    BY <2>1, <2>3, <2>5, <2>6 DEF FirstDifferenceDecides
  <2>8. PICK k \in Nat : k = r.s - call.src
    BY DEF LibInv, CompareOK
  <2>9. /\ r.d = call.dst + k
        /\ call.src + k <= Size + 1 /\ call.dst + k <= Size + 1
        /\ \A j \in 0 .. k - 1 : before[call.dst + j] = before[call.src + j]
        /\ call.fn # "memcmp" => Plain(call.dst, k)
        /\ \/ call.fn # "strcmp" /\ k = call.n /\ ret = 0
           \/ /\ r.d \in Addr /\ r.s \in Addr /\ ret = before[r.d] - before[r.s]
              /\ call.fn # "strcmp" => k < call.n
              /\ \/ before[r.d] # before[r.s]
                 \/ call.fn # "memcmp" /\ before[r.d] = NUL
    BY <2>8 DEF LibInv, CompareOK
  <2>10. r.s = call.src + k
    BY <2>0, <2>8
  <2>11. differ \in SUBSET Nat /\ \A j \in differ : k <= j /\ j < span
    <3>1. \A j \in 0 .. span - 1 : j \in Nat /\ (j \in 0 .. k - 1 \/ k <= j) /\ j < span
      BY <2>0, <2>2, <2>4
    <3> QED
      BY <2>5, <2>9, <3>1
  <2>12. \A j \in ended : k <= j
    <3>1. \A j \in 0 .. span - 1 : call.dst + j \in call.dst .. call.dst + k - 1 \/ k <= j
      BY <2>0, <2>2, <2>4
    <3> QED
      BY <2>6, <2>9, <3>1 DEF Plain
  <2>13. CASE call.fn # "strcmp" /\ k = call.n /\ ret = 0
    <3>1. span = k
      BY <2>0, <2>2, <2>4, <2>9, <2>13
    <3>2. differ = {}
      BY <2>11, <3>1
    <3> QED
      BY <2>13, <3>2
  <2>14. CASE /\ r.d \in Addr /\ r.s \in Addr /\ ret = before[r.d] - before[r.s]
              /\ call.fn # "strcmp" => k < call.n
              /\ \/ before[r.d] # before[r.s]
                 \/ call.fn # "memcmp" /\ before[r.d] = NUL
    <3>1. k \in 0 .. span - 1
      <4>1. call.src + (k + 1) <= Size + 1 /\ call.dst + (k + 1) <= Size + 1
        BY <2>0, <2>9, <2>10, <2>14 DEF Addr
      <4>2. k + 1 <= full
        BY <2>2, <4>1
      <4> QED
        BY <2>0, <2>2, <2>4, <2>14, <4>2
    <3>2. CASE before[r.d] # before[r.s]
      <4>1. k \in differ
        BY <2>5, <2>9, <2>10, <3>1, <3>2
      <4>2. Min(differ) = k
        BY <2>11, <4>1, MinIs
      <4> QED
        BY <2>9, <2>10, <2>12, <2>14, <4>1, <4>2
    <3>3. CASE before[r.d] = before[r.s] /\ call.fn # "memcmp" /\ before[r.d] = NUL
      <4>1. k \in ended
        BY <2>6, <2>9, <3>1, <3>3
      <4>2. k \notin differ
        BY <2>5, <2>9, <2>10, <3>3
      <4>3. ret = 0
        BY <2>14, <3>3 DEF NUL
      <4>4. ASSUME differ # {} PROVE ~(Min(differ) <= k)
        <5>1. PICK m : m = Min(differ)
          OBVIOUS
        <5>2. m \in differ
          BY <2>11, <4>4, <5>1, MinOf
        <5>3. m \in Nat /\ k <= m /\ m # k
          BY <2>11, <4>2, <5>2
        <5> QED
          BY <5>1, <5>3
      <4> QED
        BY <4>1, <4>3, <4>4
    <3> QED
      BY <2>14, <3>2, <3>3
  <2> QED
    BY <2>9, <2>13, <2>14
<1> QED
  BY <1>1, LibInvHolds, PTL

(* No function reads behind the NUL of a string or behind n bytes          *)
(* (string.c:26-27, 123-124).                                              *)
THEOREM StringReads == Spec => []ReadsNothingBeyond
<1>1. LibInv => ReadsNothingBeyond
  <2> SUFFICES ASSUME LibInv PROVE ReadsNothingBeyond
    OBVIOUS
  <2>0. /\ Size \in Nat /\ call.dst \in Nat /\ call.src \in Nat /\ call.n \in Nat
        /\ call.src \in Addr /\ call.dst \in Addr
    BY Numbers DEF LibInv, ArgsOK
  <2> DEFINE last(a) ==
        IF call.fn \in {"memmove", "memcpy", "memcmp"} \/ ~Terminated(before, a)
        THEN a + call.n - 1
        ELSE IF Counted THEN Min({a + call.n - 1, a + Length(before, a)})
        ELSE a + Length(before, a)
  <2>1. ASSUME NEW a \in {call.src, call.dst}, a = call.src \/ call.fn \in Comparing, NEW b \in Reach(a)
        PROVE  b \in a .. last(a)
    <3>1. a \in Addr /\ a \in Nat /\ b \in Nat /\ a <= b
      BY <2>0 DEF Reach
    <3>2. CASE call.fn \in {"memmove", "memcpy", "memcmp"}
      <4>1. b < a + call.n
        BY <3>2 DEF Reach, Counted
      <4> QED
        BY <2>0, <3>1, <3>2, <4>1
    <3>3. CASE call.fn \notin {"memmove", "memcpy", "memcmp"} /\ ~Terminated(before, a)
      <4>1. Counted
        <5>1. call.fn = "strtol" => Terminated(before, call.src)
          <6>1. call.fn = "strtol" => call.src = 1 /\ before[Size] = NUL
            BY DEF LibInv, ArgsOK
          <6>2. Size \in 1 .. Size
            BY StringAssumption
          <6> QED
            BY <6>1, <6>2 DEF Terminated
        <5>2. call.fn \in {"strlen", "strchr", "strfind"} => Terminated(before, call.src)
          BY Callers DEF LibInv
        <5>3. call.fn = "strcpy" => Terminated(before, call.src)
          BY Callers DEF LibInv
        <5>4. call.fn = "strcmp" => Terminated(before, call.src) /\ Terminated(before, call.dst)
          BY Callers DEF LibInv
        <5> QED
          BY <2>1, <3>3, <5>1, <5>2, <5>3, <5>4 DEF Counted, Comparing
      <4>2. b < a + call.n
        BY <4>1 DEF Reach
      <4> QED
        BY <2>0, <3>1, <3>3, <4>2
    <3>4. CASE call.fn \notin {"memmove", "memcpy", "memcmp"} /\ Terminated(before, a)
      <4>1. PICK m : m = Length(before, a)
        OBVIOUS
      <4>2. PICK k \in Nat : k = b - a
        BY <3>1
      <4>3. Plain(a, k)
        BY <3>4, <4>2 DEF Reach
      <4>4. m \in Nat /\ k <= m
        BY <3>1, <3>4, <4>1, <4>3, LengthOf DEF LibInv
      <4>5. b <= a + m
        BY <3>1, <4>2, <4>4
      <4>6. CASE Counted
        <5>1. b < a + call.n
          BY <4>6 DEF Reach
        <5>2. PICK e : e = Min({a + call.n - 1, a + m})
          OBVIOUS
        <5>3. e = IF a + call.n - 1 <= a + m THEN a + call.n - 1 ELSE a + m
          BY <2>0, <3>1, <4>4, <5>2, MinTwo
        <5>4. b \in a .. e
          BY <2>0, <3>1, <4>4, <4>5, <5>1, <5>3
        <5> QED
          BY <3>4, <4>1, <4>6, <5>2, <5>4
      <4>7. CASE ~Counted
        <5>1. b \in a .. a + m
          BY <3>1, <4>4, <4>5
        <5> QED
          BY <3>4, <4>1, <4>7, <5>1
      <4> QED
        BY <4>6, <4>7
    <3> QED
      BY <3>2, <3>3, <3>4
  <2> DEFINE starts == IF call.fn \in Comparing THEN {call.dst, call.src} ELSE {call.src}
  <2>2. \A b \in read : \E a \in starts : b \in a .. last(a)
    <3> TAKE b \in read
    <3> HIDE DEF last
    <3>1. CASE b \in Reach(call.src)
      BY <2>1, <3>1
    <3>2. CASE call.fn \in Comparing /\ b \in Reach(call.dst)
      BY <2>1, <3>2
    <3> QED
      BY <3>1, <3>2 DEF LibInv, ReadOK
  <2>3. \A b \in read : b \in UNION {a .. last(a) : a \in starts}
    <3> HIDE DEF last, starts
    <3> QED
      BY <2>2
  <2> QED
    BY <2>3 DEF ReadsNothingBeyond, Counted
<1> QED
  BY <1>1, LibInvHolds, PTL
-----------------------------------------------------------------------------
(* Induction over the natural numbers: a set of them that holds 0 and, with *)
(* every number, the next one is all of them, because the complement has   *)
(* no least element.                                                       *)
LEMMA Induction ==
  ASSUME NEW S \in SUBSET Nat, 0 \in S, \A n \in S : n + 1 \in S
  PROVE  S = Nat
<1> SUFFICES ASSUME Nat \ S # {} PROVE FALSE
  OBVIOUS
<1>1. Nat \ S \in SUBSET Nat
  OBVIOUS
<1>2. PICK x \in Nat \ S : \A y \in Nat \ S : ~ (<<y, x>> \in OpToRel(<, Nat))
  BY <1>1, NatLessThanWellFounded, WFMin, Zenon
<1>3. x \in Nat /\ x # 0
  OBVIOUS
<1>4. PICK y \in Nat : x = y + 1
  BY <1>3, SMT
<1>5. y \notin S
  BY <1>2, <1>4
<1>6. <<y, x>> \in OpToRel(<, Nat)
  BY <1>3, <1>4 DEF OpToRel
<1> QED
  BY <1>2, <1>5, <1>6

(* A start and a step define a function up to every bound,                 *)
LEMMA RecursionBounded ==
  ASSUME NEW a \in Int, NEW H \in [Nat -> [Int -> Int]], NEW n \in Nat
  PROVE  \E f \in [0 .. n -> Int] : f[0] = a /\ \A k \in 0 .. n - 1 : f[k + 1] = H[k][f[k]]
<1> DEFINE S == {m \in Nat : \E f \in [0 .. m -> Int] :
                   f[0] = a /\ \A k \in 0 .. m - 1 : f[k + 1] = H[k][f[k]]}
<1>1. 0 \in S
  <2>1. [k \in 0 .. 0 |-> a] \in [0 .. 0 -> Int]
    OBVIOUS
  <2>2. 0 \in 0 .. 0 /\ \A k \in 0 .. 0 - 1 : FALSE
    OBVIOUS
  <2> QED
    BY <2>1, <2>2
<1>2. ASSUME NEW m \in S PROVE m + 1 \in S
  <2>1. PICK f \in [0 .. m -> Int] : f[0] = a /\ \A k \in 0 .. m - 1 : f[k + 1] = H[k][f[k]]
    OBVIOUS
  <2>2. m \in Nat /\ m + 1 \in Nat
    OBVIOUS
  <2>3. PICK v \in Int : v = H[m][f[m]]
    BY <2>2
  <2>4. PICK g : g = [k \in 0 .. m + 1 |-> IF k = m + 1 THEN v ELSE f[k]]
    OBVIOUS
  <2>5. g \in [0 .. m + 1 -> Int]
    <3>1. \A k \in 0 .. m + 1 : k = m + 1 \/ k \in 0 .. m
      BY <2>2
    <3> QED
      BY <2>3, <2>4, <3>1
  <2>6. \A k \in 0 .. m : g[k] = f[k]
    <3>1. \A k \in 0 .. m : k \in 0 .. m + 1 /\ k # m + 1
      BY <2>2
    <3> QED
      BY <2>4, <3>1
  <2>7. g[m + 1] = v
    BY <2>2, <2>4
  <2>8. \A k \in 0 .. (m + 1) - 1 : k \in 0 .. m /\ (k = m \/ (k \in 0 .. m - 1 /\ k + 1 \in 0 .. m))
    BY <2>2
  <2>9. \A k \in 0 .. (m + 1) - 1 : g[k + 1] = H[k][g[k]]
    BY <2>1, <2>3, <2>6, <2>7, <2>8
  <2>10. g[0] = a
    <3>1. 0 \in 0 .. m
      BY <2>2
    <3> QED
      BY <2>1, <2>6, <3>1
  <2> QED
    BY <2>2, <2>5, <2>9, <2>10
<1>3. S = Nat
  <2>1. S \in SUBSET Nat
    OBVIOUS
  <2> HIDE DEF S
  <2> QED
    BY <1>1, <1>2, <2>1, Induction
<1> QED
  BY <1>3

(* and as any two of these agree, one on all natural numbers.              *)
LEMMA Recursion ==
  ASSUME NEW a \in Int, NEW H \in [Nat -> [Int -> Int]]
  PROVE  \E f \in [Nat -> Int] : f[0] = a /\ \A k \in Nat : f[k + 1] = H[k][f[k]]
<1> DEFINE Upto(n) == {f \in [0 .. n -> Int] : f[0] = a /\ \A k \in 0 .. n - 1 : f[k + 1] = H[k][f[k]]}
<1>1. ASSUME NEW n \in Nat PROVE \E f : f \in Upto(n)
  <2>1. \E f \in [0 .. n -> Int] : f[0] = a /\ \A k \in 0 .. n - 1 : f[k + 1] = H[k][f[k]]
    BY RecursionBounded
  <2> QED
    BY <2>1
<1>2. ASSUME NEW m \in Nat, NEW n \in Nat, NEW f \in Upto(m), NEW g \in Upto(n), NEW k \in Nat,
             k <= m, k <= n
      PROVE  f[k] = g[k]
  <2>1. /\ f \in [0 .. m -> Int] /\ \A i \in 0 .. m - 1 : f[i + 1] = H[i][f[i]]
        /\ g \in [0 .. n -> Int] /\ \A i \in 0 .. n - 1 : g[i + 1] = H[i][g[i]]
        /\ f[0] = g[0]
    OBVIOUS
  <2> DEFINE S == {i \in Nat : i <= m /\ i <= n => f[i] = g[i]}
  <2>2. S \in SUBSET Nat /\ 0 \in S
    BY <2>1
  <2>3. ASSUME NEW i \in S PROVE i + 1 \in S
    <3>1. i \in Nat /\ i + 1 \in Nat
      OBVIOUS
    <3>2. ASSUME i + 1 <= m, i + 1 <= n PROVE f[i + 1] = g[i + 1]
      <4>1. i <= m /\ i <= n /\ i \in 0 .. m - 1 /\ i \in 0 .. n - 1
        BY <3>1, <3>2
      <4>2. f[i] = g[i]
        BY <4>1
      <4> HIDE DEF S, Upto
      <4> QED
        BY <2>1, <4>1, <4>2
    <3> QED
      BY <3>1, <3>2
  <2>4. S = Nat
    <3> HIDE DEF S
    <3> QED
      BY <2>2, <2>3, Induction
  <2> QED
    BY <1>2, <2>4
<1>3. PICK c : c = [n \in Nat |-> CHOOSE f : f \in Upto(n)]
  OBVIOUS
<1>4. ASSUME NEW n \in Nat PROVE c[n] \in Upto(n)
  <2>1. c[n] = CHOOSE f : f \in Upto(n)
    BY <1>3
  <2> HIDE DEF Upto
  <2> QED
    BY <1>1, <2>1
<1>5. PICK h : h = [n \in Nat |-> c[n][n]]
  OBVIOUS
<1>6. h \in [Nat -> Int]
  <2>1. ASSUME NEW n \in Nat PROVE c[n][n] \in Int
    <3>1. c[n] \in Upto(n)
      BY <1>4
    <3>2. c[n] \in [0 .. n -> Int] /\ n \in 0 .. n
      BY <3>1
    <3> QED
      BY <3>2
  <2> QED
    BY <1>5, <2>1
<1>7. h[0] = a
  <2>1. c[0] \in Upto(0)
    BY <1>4
  <2>2. c[0][0] = a
    BY <2>1
  <2> QED
    BY <1>5, <2>2
<1>8. ASSUME NEW k \in Nat PROVE h[k + 1] = H[k][h[k]]
  <2>1. k + 1 \in Nat /\ k <= k + 1 /\ k <= k /\ k \in 0 .. (k + 1) - 1
    OBVIOUS
  <2>2. c[k] \in Upto(k) /\ c[k + 1] \in Upto(k + 1)
    BY <1>4, <2>1
  <2>3. c[k][k] = c[k + 1][k]
    <3> HIDE DEF Upto
    <3> QED
      BY <1>2, <2>1, <2>2
  <2>4. \A i \in 0 .. (k + 1) - 1 : c[k + 1][i + 1] = H[i][c[k + 1][i]]
    BY <2>2
  <2>5. h[k] = c[k][k] /\ h[k + 1] = c[k + 1][k + 1]
    BY <1>5, <2>1
  <2> QED
    BY <2>1, <2>3, <2>4, <2>5
<1> QED
  BY <1>6, <1>7, <1>8

(* A digit has a value whatever the byte, the powers of a base and the     *)
(* values of the numerals are what their definitions say.                  *)
LEMMA DigitsHaveValues == \A b : DigitValue(b) \in Nat
<1> TAKE b
<1> QED
  BY DEF DigitValue

LEMMA Weights ==
  ASSUME NEW base \in Int
  PROVE  /\ Weight(base) \in [Nat -> Int]
         /\ Weight(base)[0] = 1
         /\ \A k \in Nat : Weight(base)[k + 1] = base * Weight(base)[k]
<1> DEFINE Is(f) == f = [k \in Nat |-> IF k = 0 THEN 1 ELSE base * f[k - 1]]
<1>1. PICK H : H = [k \in Nat |-> [v \in Int |-> base * v]]
  OBVIOUS
<1>2. H \in [Nat -> [Int -> Int]]
  BY <1>1
<1>3. PICK f \in [Nat -> Int] : f[0] = 1 /\ \A k \in Nat : f[k + 1] = H[k][f[k]]
  <2>1. 1 \in Int
    OBVIOUS
  <2>2. \E f \in [Nat -> Int] : f[0] = 1 /\ \A k \in Nat : f[k + 1] = H[k][f[k]]
    BY <1>2, <2>1, Recursion
  <2> QED
    BY <2>2
<1>4. \A k \in Nat : f[k] = IF k = 0 THEN 1 ELSE base * f[k - 1]
  <2> TAKE k \in Nat
  <2>1. k = 0 \/ (k - 1 \in Nat /\ (k - 1) + 1 = k)
    OBVIOUS
  <2> QED
    BY <1>1, <1>3, <2>1
<1>5. Is(f)
  BY <1>4
<1>6. Weight(base) = CHOOSE w : Is(w)
  BY DEF Weight
<1>7. PICK w : w = Weight(base)
  OBVIOUS
<1>8. Is(w)
  <2> HIDE DEF Is
  <2> QED
    BY <1>5, <1>6, <1>7
<1>9. \A k \in Nat : w[k] = IF k = 0 THEN 1 ELSE base * w[k - 1]
  BY <1>8
<1>10. w[0] = 1 /\ \A k \in Nat : w[k + 1] = base * w[k]
  <2>1. \A k \in Nat : k + 1 \in Nat /\ k + 1 # 0 /\ (k + 1) - 1 = k
    OBVIOUS
  <2> QED
    BY <1>9, <2>1
<1>11. {k \in Nat : w[k] \in Int} = Nat
  <2> DEFINE S == {k \in Nat : w[k] \in Int}
  <2>1. S \in SUBSET Nat /\ 0 \in S
    BY <1>10
  <2>2. ASSUME NEW k \in S PROVE k + 1 \in S
    BY <1>10
  <2> HIDE DEF S
  <2>3. S = Nat
    BY <2>1, <2>2, Induction
  <2> QED
    BY <2>3 DEF S
<1>12. w \in [Nat -> Int]
  BY <1>8, <1>11
<1> QED
  BY <1>7, <1>10, <1>12

(* The value of a numeral of k + 1 digits is that of the last k, and the   *)
(* first one times its weight;                                             *)
LEMMA Numerals ==
  ASSUME NEW text, NEW end, NEW base \in Int
  PROVE  /\ Numeral(text, end, base) \in [Nat -> Int]
         /\ Numeral(text, end, base)[0] = 0
         /\ \A k \in Nat : Numeral(text, end, base)[k + 1]
              = Numeral(text, end, base)[k] + DigitValue(text[end - (k + 1)]) * Weight(base)[k]
<1> DEFINE Is(f) == f = [k \in Nat |-> IF k = 0 THEN 0
                                       ELSE f[k - 1] + DigitValue(text[end - k]) * Weight(base)[k - 1]]
<1>1. PICK term : term = [k \in Nat |-> DigitValue(text[end - (k + 1)]) * Weight(base)[k]]
  OBVIOUS
<1>2. term \in [Nat -> Int]
  <2>1. \A k \in Nat : Weight(base)[k] \in Int /\ DigitValue(text[end - (k + 1)]) \in Int
    BY Weights, DigitsHaveValues
  <2>2. \A x, y \in Int : x * y \in Int
    OBVIOUS
  <2> QED
    BY <1>1, <2>1, <2>2
<1>3. PICK H : H = [k \in Nat |-> [v \in Int |-> v + term[k]]]
  OBVIOUS
<1>4. H \in [Nat -> [Int -> Int]]
  BY <1>2, <1>3
<1>5. PICK f \in [Nat -> Int] : f[0] = 0 /\ \A k \in Nat : f[k + 1] = H[k][f[k]]
  <2>1. 0 \in Int
    OBVIOUS
  <2>2. \E f \in [Nat -> Int] : f[0] = 0 /\ \A k \in Nat : f[k + 1] = H[k][f[k]]
    BY <1>4, <2>1, Recursion
  <2> QED
    BY <2>2
<1>6. \A k \in Nat : k # 0 => /\ k - 1 \in Nat /\ (k - 1) + 1 = k
                              /\ DigitValue(text[end - k]) * Weight(base)[k - 1] = term[k - 1]
  <2>1. \A k \in Nat : k # 0 => k - 1 \in Nat /\ (k - 1) + 1 = k
    OBVIOUS
  <2> QED
    BY <1>1, <2>1
<1>7. \A k \in Nat : f[k] = IF k = 0 THEN 0 ELSE f[k - 1] + DigitValue(text[end - k]) * Weight(base)[k - 1]
  <2> TAKE k \in Nat
  <2>1. CASE k = 0
    BY <1>5, <2>1
  <2>2. CASE k # 0
    <3>1. k - 1 \in Nat /\ (k - 1) + 1 = k /\ DigitValue(text[end - k]) * Weight(base)[k - 1] = term[k - 1]
      BY <1>6, <2>2
    <3>2. f[(k - 1) + 1] = f[k - 1] + term[k - 1]
      BY <1>3, <1>5, <3>1
    <3> QED
      BY <2>2, <3>1, <3>2
  <2> QED
    BY <2>1, <2>2
<1>8. Is(f)
  BY <1>7
<1>9. Numeral(text, end, base) = CHOOSE v : Is(v)
  BY DEF Numeral
<1>10. PICK v : v = Numeral(text, end, base)
  OBVIOUS
<1>11. Is(v)
  <2> HIDE DEF Is
  <2> QED
    BY <1>8, <1>9, <1>10
<1>12. \A k \in Nat : v[k] = IF k = 0 THEN 0 ELSE v[k - 1] + DigitValue(text[end - k]) * Weight(base)[k - 1]
  BY <1>11
<1>13. v[0] = 0 /\ \A k \in Nat : v[k + 1] = v[k] + term[k]
  <2>1. \A k \in Nat : k + 1 \in Nat /\ k + 1 # 0 /\ (k + 1) - 1 = k
    OBVIOUS
  <2> QED
    BY <1>1, <1>12, <2>1
<1>14. {k \in Nat : v[k] \in Int} = Nat
  <2> DEFINE S == {k \in Nat : v[k] \in Int}
  <2>1. S \in SUBSET Nat /\ 0 \in S
    BY <1>13
  <2>2. ASSUME NEW k \in S PROVE k + 1 \in S
    BY <1>2, <1>13
  <2> HIDE DEF S
  <2>3. S = Nat
    BY <2>1, <2>2, Induction
  <2> QED
    BY <2>3 DEF S
<1>15. v \in [Nat -> Int]
  BY <1>11, <1>14
<1> QED
  BY <1>1, <1>10, <1>13, <1>15

(* so one more digit behind it multiplies it by the base and adds itself.  *)
LEMMA OneMoreDigit ==
  ASSUME NEW text, NEW end \in Int, NEW base \in Int, NEW k \in Nat
  PROVE  Numeral(text, end + 1, base)[k + 1]
           = Numeral(text, end, base)[k] * base + DigitValue(text[end])
<1>1. PICK w \in [Nat -> Int] : w = Weight(base)
  BY Weights
<1>2. PICK v \in [Nat -> Int] : v = Numeral(text, end, base)
  BY Numerals
<1>3. PICK u \in [Nat -> Int] : u = Numeral(text, end + 1, base)
  BY Numerals
<1>4. w[0] = 1 /\ \A i \in Nat : w[i + 1] = base * w[i]
  BY <1>1, Weights
<1>5. v[0] = 0 /\ \A i \in Nat : v[i + 1] = v[i] + DigitValue(text[end - (i + 1)]) * w[i]
  BY <1>1, <1>2, Numerals
<1>6. u[0] = 0 /\ \A i \in Nat : u[i + 1] = u[i] + DigitValue(text[(end + 1) - (i + 1)]) * w[i]
  BY <1>1, <1>3, Numerals
<1>7. PICK d \in Int : d = DigitValue(text[end])
  BY DigitsHaveValues
<1> DEFINE S == {i \in Nat : u[i + 1] = v[i] * base + d}
<1>8. 0 \in S
  <2>1. (end + 1) - (0 + 1) = end /\ 0 + 1 = 1 /\ d * 1 = d /\ 0 * base = 0
    OBVIOUS
  <2>2. u[0 + 1] = u[0] + d * w[0]
    BY <1>6, <1>7, <2>1
  <2> QED
    BY <1>4, <1>5, <1>6, <2>1, <2>2
<1>9. ASSUME NEW i \in S PROVE i + 1 \in S
  <2>1. i \in Nat /\ i + 1 \in Nat /\ (end + 1) - ((i + 1) + 1) = end - (i + 1)
    OBVIOUS
  <2>2. PICK c \in Int : c = DigitValue(text[end - (i + 1)])
    BY DigitsHaveValues
  <2>3. u[(i + 1) + 1] = u[i + 1] + c * w[i + 1]
    BY <1>6, <2>1, <2>2
  <2>4. v[i + 1] = v[i] + c * w[i]
    BY <1>5, <2>1, <2>2
  <2>5. u[i + 1] = v[i] * base + d /\ w[i + 1] = base * w[i]
    BY <1>4, <2>1
  <2>6. PICK x \in Int, y \in Int : x = v[i] /\ y = w[i]
    BY <2>1
  <2>7. (x * base + d) + c * (base * y) = (x + c * y) * base + d
    OBVIOUS
  <2>8. u[(i + 1) + 1] = v[i + 1] * base + d
    BY <2>3, <2>4, <2>5, <2>6, <2>7
  <2> QED
    BY <2>1, <2>8
<1>10. S = Nat
  <2>1. S \in SUBSET Nat
    OBVIOUS
  <2> HIDE DEF S
  <2> QED
    BY <1>8, <1>9, <2>1, Induction
<1> QED
  BY <1>2, <1>3, <1>7, <1>10

(* Dividing leaves a quotient and a remainder, and no other pair fits.     *)
LEMMA Division ==
  ASSUME NEW m \in Nat, m > 0, NEW y \in Int
  PROVE  \E a \in Int, s \in Int : y = m * a + s /\ s = y % m /\ 0 <= s /\ s < m
<1>1. y % m \in 0 .. m - 1
  OBVIOUS
<1>2. y \div m \in Int
  OBVIOUS
<1>3. y = m * (y \div m) + (y % m)
  OBVIOUS
<1>4. PICK a : a = y \div m
  OBVIOUS
<1>5. PICK s : s = y % m
  OBVIOUS
<1>6. a \in Int /\ s \in Int /\ y = m * a + s /\ 0 <= s /\ s < m
  BY <1>1, <1>2, <1>3, <1>4, <1>5
<1> QED
  BY <1>5, <1>6

LEMMA Remainder ==
  ASSUME NEW m \in Nat, m > 0, NEW y \in Int, NEW a \in Int, NEW s \in Int, y = m * a + s, 0 <= s, s < m
  PROVE  y % m = s
  OBVIOUS

(* Wrapping takes a multiple of the width of a long off a number,          *)
LEMMA WrapTakesOff == \A x \in Int : \E q \in Int : Wrap(x) = x + (2 * (LongMax + 1)) * q
<1> TAKE x \in Int
<1>1. PICK m \in Nat : m = 2 * (LongMax + 1) /\ m > 0
  BY StringAssumption
<1>2. PICK y \in Int : y = x + (LongMax + 1)
  BY StringAssumption
<1>3. PICK a \in Int, s \in Int : y = m * a + s /\ s = y % m
  BY <1>1, Division
<1>4. Wrap(x) = s - (LongMax + 1)
  BY <1>1, <1>2, <1>3 DEF Wrap
<1>5. PICK t \in Int : t = m * a
  OBVIOUS
<1>6. Wrap(x) = x - t
  BY <1>2, <1>3, <1>4, <1>5, StringAssumption
<1>7. x - t = x + m * (-a)
  BY <1>5
<1> QED
  BY <1>1, <1>6, <1>7

(* and makes no difference between two numbers such a multiple apart,      *)
LEMMA WrapRepeats ==
  ASSUME NEW x \in Int, NEW q \in Int
  PROVE  Wrap(x + (2 * (LongMax + 1)) * q) = Wrap(x)
<1>1. PICK m \in Nat : m = 2 * (LongMax + 1) /\ m > 0
  BY StringAssumption
<1>2. PICK y \in Int : y = x + (LongMax + 1)
  BY StringAssumption
<1>3. PICK a \in Int, s \in Int : y = m * a + s /\ s = y % m /\ 0 <= s /\ s < m
  BY <1>1, Division
<1>4. PICK z \in Int : z = y + m * q
  OBVIOUS
<1>5. z = m * (a + q) + s /\ a + q \in Int
  <2>1. PICK t \in Int : t = m * a
    OBVIOUS
  <2>2. PICK u \in Int : u = m * q
    OBVIOUS
  <2>3. m * (a + q) = t + u
    BY <2>1, <2>2
  <2>4. y = t + s /\ z = y + u
    BY <1>3, <1>4, <2>1, <2>2
  <2> QED
    BY <2>3, <2>4
<1>6. z % m = s
  BY <1>1, <1>3, <1>5, Remainder
<1>7. Wrap(x) = s - (LongMax + 1)
  BY <1>1, <1>2, <1>3 DEF Wrap
<1>8. PICK u \in Int : u = m * q
  OBVIOUS
<1>9. (x + u) + (LongMax + 1) = z
  BY <1>2, <1>4, <1>8, StringAssumption
<1>10. Wrap(x + u) = s - (LongMax + 1)
  BY <1>1, <1>6, <1>9 DEF Wrap
<1> QED
  BY <1>1, <1>7, <1>8, <1>10

(* so it does not matter that every turn wraps.                            *)
LEMMA WrapOnce ==
  ASSUME NEW x \in Int, NEW y \in Int, NEW d \in Int
  PROVE  Wrap(Wrap(x) * y + d) = Wrap(x * y + d)
<1>1. PICK m \in Nat : m = 2 * (LongMax + 1)
  BY StringAssumption
<1>2. PICK q \in Int : Wrap(x) = x + m * q
  BY <1>1, WrapTakesOff
<1>3. (x + m * q) * y + d = (x * y + d) + m * (q * y)
  OBVIOUS
<1>4. x * y + d \in Int /\ q * y \in Int
  OBVIOUS
<1>5. Wrap((x * y + d) + m * (q * y)) = Wrap(x * y + d)
  BY <1>1, <1>4, WrapRepeats
<1> QED
  BY <1>2, <1>3, <1>5
-----------------------------------------------------------------------------
(* The parts of a text strtol is given: where the blanks end, the sign,    *)
(* the prefix as the code looks for it, and the base and the digits it     *)
(* leaves.                                                                 *)
Start == Min({a \in Addr : before[a] \notin {32, 9}})
Body == IF before[Start] \in {43, 45} THEN Start + 1 ELSE Start
Hex == before[Body] = 48 /\ call.base \in {0, 16} /\ before[Body + 1] = 120
Base == IF Hex THEN 16
        ELSE IF call.base # 0 THEN call.base
        ELSE IF before[Body] = 48 THEN 8 ELSE 10
From == IF Hex THEN Body + 2 ELSE IF call.base = 0 /\ Base = 8 THEN Body + 1 ELSE Body

(* What strtol has found before s: blanks, the sign, the prefix, and then  *)
(* digits, of which val is the value.                                      *)
BlanksOK ==
    /\ \A a \in 1 .. r.s - 1 : before[a] \in {32, 9}
    /\ r.val = 0 /\ r.neg = FALSE /\ r.base = call.base

DigitsOK ==
    /\ r.neg = (before[Start] = 45) /\ r.base = Base
    /\ From \in Int /\ From <= r.s /\ From >= 1
    /\ \A a \in From .. r.s - 1 : DigitValue(before[a]) < Base
    /\ r.val = Wrap(Numeral(before, r.s, Base)[r.s - From])

ConvertInv ==
    call.fn = "strtol" =>
        /\ pc = "strtol" => BlanksOK
        /\ pc = "sign" => r.s = Start /\ r.val = 0 /\ r.neg = FALSE /\ r.base = call.base
        /\ pc = "prefix" => /\ r.s = Body /\ r.val = 0 /\ r.base = call.base
                            /\ r.neg = (before[Start] = 45)
        /\ pc \in {"digits", "done"} => DigitsOK
        /\ pc = "done" => /\ DigitValue(before[r.s]) >= Base
                          /\ ret = IF r.neg THEN Wrap(-r.val) ELSE r.val

(* A text begins with no blank passed,                                     *)
LEMMA ConvertInit == Init => ConvertInv
<1> SUFFICES ASSUME Init, call.fn = "strtol" PROVE ConvertInv
  BY DEF ConvertInv
<1>1. CASE \E fn \in Calls \ {"strtol"}, dst \in Addr, src \in Addr, n \in 0 .. Size, c \in Bytes :
             LET args == [fn |-> fn, dst |-> dst, src |-> src, n |-> n, c |-> c, base |-> 0]
             IN  before \in [Addr -> Bytes] /\ Permitted(args, before) /\ Begin(args)
  <2>1. PICK fn \in Calls \ {"strtol"}, dst \in Addr, src \in Addr, n \in 0 .. Size, c \in Bytes :
          LET args == [fn |-> fn, dst |-> dst, src |-> src, n |-> n, c |-> c, base |-> 0]
          IN  before \in [Addr -> Bytes] /\ Permitted(args, before) /\ Begin(args)
    BY <1>1
  <2>2. call = [fn |-> fn, dst |-> dst, src |-> src, n |-> n, c |-> c, base |-> 0]
    BY <2>1 DEF Begin
  <2>3. call.fn = fn
    BY <2>2
  <2> QED
    BY <2>3
<1>2. CASE \E base \in Bases, len \in 0 .. Size - 1, text \in [Addr -> Digits] :
             /\ before = [a \in Addr |-> IF a <= len THEN text[a] ELSE NUL]
             /\ Begin([fn |-> "strtol", dst |-> 1, src |-> 1, n |-> 0, c |-> NUL, base |-> base])
  <2>1. pc = "strtol" /\ r.s = 1 /\ r.val = 0 /\ r.neg = FALSE /\ r.base = call.base
    BY <1>2 DEF Begin
  <2>2. BlanksOK
    BY <2>1 DEF BlanksOK
  <2> QED
    BY <2>1, <2>2 DEF ConvertInv
<1> QED
  BY <1>1, <1>2, Zenon DEF Init

(* zero is the long zero,                                                  *)
LEMMA WrapZero == Wrap(0) = 0
<1>1. PICK h \in Nat : h = LongMax + 1 /\ h > 0
  BY StringAssumption
<1>2. PICK m \in Nat : m = 2 * (LongMax + 1) /\ m > h
  BY <1>1, StringAssumption
<1>3. h = m * 0 + h
  BY <1>1, <1>2
<1>4. h % m = h
  BY <1>1, <1>2, <1>3, Remainder
<1>5. 0 + (LongMax + 1) = h
  BY <1>1, StringAssumption
<1> QED
  BY <1>1, <1>2, <1>4, <1>5 DEF Wrap

(* and every step passes the next part of the text as the comment has it.  *)
LEMMA ConvertStep == LibInv /\ ConvertInv /\ [Next]_vars => ConvertInv'
<1> SUFFICES ASSUME LibInv, ConvertInv, [Next]_vars, call'.fn = "strtol" PROVE ConvertInv'
  BY DEF ConvertInv
<1>1. CASE UNCHANGED vars
  <2>1. call' = call /\ before' = before /\ pc' = pc /\ r' = r /\ ret' = ret
    BY <1>1 DEF vars
  <2>2. Start' = Start /\ Body' = Body /\ Base' = Base /\ From' = From
    BY <2>1 DEF Start, Body, Hex, Base, From
  <2> QED
    BY <2>1, <2>2 DEF ConvertInv, BlanksOK, DigitsOK
<1> SUFFICES ASSUME Next PROVE ConvertInv'
  BY <1>1
<1>2. call' = call /\ before' = before /\ call.fn = "strtol"
  BY CallKept
<1>3. /\ Start' = Start /\ Body' = Body /\ Base' = Base /\ From' = From
  BY <1>2 DEF Start, Body, Hex, Base, From
<1>4. pc \in {"strtol", "sign", "prefix", "digits", "done"}
  BY <1>2 DEF LibInv, PlaceOK
<1>5. StrtolBlank \/ StrtolSign \/ StrtolPrefix \/ StrtolDigit
  BY <1>4 DEF Next, Memset, Memmove, CopyForward, CopyBackward, Strcpy, Strncpy, Written, Measure, Find,
              Strcmp, Memcmp
<1>6. mem = before /\ r.base \in 0 .. 36 /\ r.s \in Addr /\ Plain(call.src, r.s - call.src) /\ call.src = 1
  BY <1>2 DEF LibInv, StrtolOK, ArgsOK
<1>7. Size \in Nat /\ r.s \in Int /\ r.s >= 1 /\ r.s <= Size /\ r.val \in Int
  BY <1>6, Numbers DEF Addr
<1>8. Byte(r.s) = before[r.s] /\ before[r.s] \in 0 .. 255
  BY <1>6, Memories DEF Byte
<1>9. ASSUME NEW s, NEW val, NEW neg, NEW base,
             r' = [r EXCEPT !.s = s, !.val = val, !.neg = neg, !.base = base]
      PROVE  r'.s = s /\ r'.val = val /\ r'.neg = neg /\ r'.base = base
  <2>1. r' = [d |-> r.d, s |-> s, n |-> r.n, val |-> val, neg |-> neg, base |-> base]
    BY <1>9, Fields
  <2> QED
    BY <2>1
<1>10. CASE StrtolBlank
  <2>1. pc = "strtol" /\ BlanksOK
    BY <1>2, <1>10 DEF StrtolBlank, ConvertInv
  <2>2. CASE before[r.s] \in {32, 9}
    <3>1. pc' = "strtol" /\ r' = [r EXCEPT !.s = r.s + 1]
      BY <1>8, <1>10, <2>2 DEF StrtolBlank, Goto
    <3>2. r'.s = r.s + 1 /\ r'.val = r.val /\ r'.neg = r.neg /\ r'.base = r.base
      <4>1. r' = [r EXCEPT !.s = r.s + 1, !.val = r.val, !.neg = r.neg, !.base = r.base]
        BY <3>1, Fields
      <4> QED
        BY <1>9, <4>1
    <3>3. \A a \in 1 .. r'.s - 1 : a = r.s \/ a \in 1 .. r.s - 1
      BY <1>7, <3>2
    <3>4. BlanksOK'
      BY <1>2, <2>1, <2>2, <3>2, <3>3 DEF BlanksOK
    <3> QED
      BY <3>1, <3>4 DEF ConvertInv
  <2>3. CASE before[r.s] \notin {32, 9}
    <3>1. pc' = "sign" /\ r' = r
      BY <1>8, <1>10, <2>3 DEF StrtolBlank, Goto
    <3>2. PICK S : S = {a \in Addr : before[a] \notin {32, 9}}
      OBVIOUS
    <3>3. S \in SUBSET Int /\ r.s \in S
      BY <1>6, <2>3, <3>2 DEF Addr
    <3>4. \A a \in S : r.s <= a
      <4>1. \A a \in Addr : a \in Int /\ (a \in 1 .. r.s - 1 \/ r.s <= a)
        BY <1>7 DEF Addr
      <4> QED
        BY <2>1, <3>2, <4>1 DEF BlanksOK
    <3>5. Start = r.s
      BY <3>2, <3>3, <3>4, MinIs DEF Start
    <3> QED
      BY <1>2, <1>3, <2>1, <3>1, <3>5 DEF ConvertInv, BlanksOK
  <2> QED
    BY <2>2, <2>3
<1>11. CASE StrtolSign
  <2>1. pc = "sign" /\ r.s = Start /\ r.val = 0 /\ r.base = call.base
    BY <1>2, <1>11 DEF StrtolSign, ConvertInv
  <2>2. PICK s : s = IF before[r.s] \in {43, 45} THEN r.s + 1 ELSE r.s
    OBVIOUS
  <2>3. PICK neg : neg = (before[r.s] = 45)
    OBVIOUS
  <2>4. pc' = "prefix" /\ r' = [r EXCEPT !.neg = neg, !.s = s]
    BY <1>8, <1>11, <2>2, <2>3 DEF StrtolSign, Goto
  <2>5. r' = [r EXCEPT !.s = s, !.val = r.val, !.neg = neg, !.base = r.base]
    BY <2>4, Fields
  <2>6. r'.s = s /\ r'.val = r.val /\ r'.neg = neg /\ r'.base = r.base
    BY <1>9, <2>5
  <2>7. s = Body /\ neg = (before[Start] = 45)
    BY <2>1, <2>2, <2>3 DEF Body
  <2> QED
    BY <1>2, <1>3, <2>1, <2>4, <2>6, <2>7 DEF ConvertInv
<1>12. CASE StrtolPrefix
  <2>1. pc = "prefix" /\ r.s = Body /\ r.val = 0 /\ r.base = call.base /\ r.neg = (before[Start] = 45)
    BY <1>2, <1>12 DEF StrtolPrefix, ConvertInv
  <2>2. before[r.s] = 48 => Byte(r.s + 1) = before[r.s + 1]
    <3>1. before[Size] = NUL
      BY <1>2 DEF LibInv, ArgsOK
    <3>2. before[r.s] = 48 => r.s + 1 \in Addr
      BY <1>7, <3>1 DEF Addr, NUL
    <3> QED
      BY <1>6, <3>2 DEF Byte
  <2>3. PICK hex \in BOOLEAN : hex = (r.base \in {0, 16} /\ before[r.s] = 48 /\ Byte(r.s + 1) = 120)
    OBVIOUS
  <2>4. PICK octal \in BOOLEAN : octal = (r.base = 0 /\ before[r.s] = 48)
    OBVIOUS
  <2>5. PICK s : s = IF hex THEN r.s + 2 ELSE IF octal THEN r.s + 1 ELSE r.s
    OBVIOUS
  <2>6. PICK base : base = IF hex THEN 16 ELSE IF octal THEN 8 ELSE IF r.base = 0 THEN 10 ELSE r.base
    OBVIOUS
  <2>7. pc' = "digits" /\ r' = [r EXCEPT !.s = s, !.base = base]
    BY <1>8, <1>12, <2>3, <2>4, <2>5, <2>6 DEF StrtolPrefix, Goto
  <2>8. r' = [r EXCEPT !.s = s, !.val = r.val, !.neg = r.neg, !.base = base]
    BY <2>7, Fields
  <2>9. r'.s = s /\ r'.val = r.val /\ r'.neg = r.neg /\ r'.base = base
    BY <1>9, <2>8
  <2>10. hex <=> Hex
    BY <2>1, <2>2, <2>3 DEF Hex
  <2>11. base = Base
    BY <1>6, <2>1, <2>4, <2>6, <2>10 DEF Base
  <2>12. s = From
    <3>1. ~hex => (octal <=> call.base = 0 /\ Base = 8)
      BY <2>1, <2>4, <2>6, <2>11
    <3> QED
      BY <2>1, <2>5, <2>10, <3>1 DEF From
  <2>13. s \in Int /\ s >= 1 /\ base \in Int
    BY <1>6, <1>7, <2>5, <2>6
  <2>14. Numeral(before, s, base)[s - s] = 0
    <3>1. s - s = 0
      BY <2>13
    <3> QED
      BY <2>13, <3>1, Numerals
  <2>15. \A a \in s .. s - 1 : FALSE
    BY <2>13
  <2>16. DigitsOK'
    <3>1. (r.neg = (before[Start] = 45))'
      BY <1>2, <1>3, <2>1, <2>9
    <3>2. (r.base = Base /\ From \in Int /\ From <= r.s /\ From >= 1)'
      BY <1>3, <2>9, <2>11, <2>12, <2>13
    <3>3. (\A a \in From .. r.s - 1 : DigitValue(before[a]) < Base)'
      BY <1>2, <1>3, <2>9, <2>12, <2>15
    <3>4. (r.val = Wrap(Numeral(before, r.s, Base)[r.s - From]))'
      BY <1>2, <1>3, <2>1, <2>9, <2>11, <2>12, <2>14, WrapZero
    <3> QED
      BY <3>1, <3>2, <3>3, <3>4 DEF DigitsOK
  <2> QED
    BY <2>7, <2>16 DEF ConvertInv
<1>13. CASE StrtolDigit
  <2>1. pc = "digits" /\ DigitsOK
    BY <1>2, <1>13 DEF StrtolDigit, ConvertInv
  <2>2. /\ r.base = Base /\ Base \in Int /\ From \in Int /\ From <= r.s /\ From >= 1
        /\ r.val = Wrap(Numeral(before, r.s, Base)[r.s - From])
    BY <1>6, <2>1 DEF DigitsOK
  <2>3. PICK dig \in Nat : dig = DigitValue(before[r.s])
    BY DigitsHaveValues
  <2>4. CASE dig < r.base
    <3>1. PICK val : val = Wrap(r.val * r.base + dig)
      OBVIOUS
    <3>2. pc' = "digits" /\ r' = [r EXCEPT !.s = r.s + 1, !.val = val]
      BY <1>8, <1>13, <2>3, <2>4, <3>1 DEF StrtolDigit, Goto
    <3>3. r' = [r EXCEPT !.s = r.s + 1, !.val = val, !.neg = r.neg, !.base = r.base]
      BY <3>2, Fields
    <3>4. r'.s = r.s + 1 /\ r'.val = val /\ r'.neg = r.neg /\ r'.base = r.base
      BY <1>9, <3>3
    <3>5. PICK k \in Nat : k = r.s - From
      BY <1>7, <2>2
    <3>6. (r.s + 1) - From = k + 1
      BY <1>7, <2>2, <3>5
    <3>7. PICK x \in Int : x = Numeral(before, r.s, Base)[k]
      BY <2>2, <3>5, Numerals
    <3>8. Numeral(before, r.s + 1, Base)[k + 1] = x * Base + dig
      BY <1>7, <2>2, <2>3, <3>5, <3>7, OneMoreDigit
    <3>9. val = Wrap(x * Base + dig)
      <4>1. val = Wrap(Wrap(x) * Base + dig)
        BY <2>2, <3>1, <3>5, <3>7
      <4>2. dig \in Int
        OBVIOUS
      <4> QED
        BY <2>2, <4>1, <4>2, WrapOnce
    <3>10. (r.val = Wrap(Numeral(before, r.s, Base)[r.s - From]))'
      BY <1>2, <1>3, <3>4, <3>6, <3>8, <3>9
    <3>11. (\A a \in From .. r.s - 1 : DigitValue(before[a]) < Base)'
      <4>1. \A a \in From .. (r.s + 1) - 1 : a = r.s \/ a \in From .. r.s - 1
        BY <1>7, <2>2
      <4>2. \A a \in From .. (r.s + 1) - 1 : DigitValue(before[a]) < Base
        BY <2>1, <2>2, <2>3, <2>4, <4>1 DEF DigitsOK
      <4> QED
        BY <1>2, <1>3, <3>4, <4>2
    <3>12. (r.neg = (before[Start] = 45) /\ r.base = Base)'
      BY <1>2, <1>3, <2>1, <3>4 DEF DigitsOK
    <3>13. (From \in Int /\ From <= r.s /\ From >= 1)'
      BY <1>3, <1>7, <2>2, <3>4
    <3>14. DigitsOK'
      BY <3>10, <3>11, <3>12, <3>13 DEF DigitsOK
    <3> QED
      BY <3>2, <3>14 DEF ConvertInv
  <2>5. CASE ~(dig < r.base)
    <3>1. pc' = "done" /\ r' = r /\ ret' = IF r.neg THEN Wrap(-r.val) ELSE r.val
      BY <1>8, <1>13, <2>3, <2>5 DEF StrtolDigit, Return
    <3>2. DigitsOK'
      BY <1>2, <1>3, <2>1, <3>1 DEF DigitsOK
    <3>3. DigitValue(before[r.s]) >= Base
      BY <2>2, <2>3, <2>5
    <3> QED
      BY <1>2, <1>3, <3>1, <3>2, <3>3 DEF ConvertInv
  <2> QED
    BY <2>4, <2>5
<1> QED
  BY <1>5, <1>10, <1>11, <1>12, <1>13

(* The comment skips every whitespace character, the code only blanks and  *)
(* tabs, and the comment allows the prefix 0X in base 16, which the code   *)
(* does not take.                                                          *)
LineBreakLed == before[Start] \in {10, 13}
UpperPrefix == call.base = 16 /\ before[Body] = 48 /\ before[Body + 1] = 88

(* But for such texts strtol returns the value of the longest run of       *)
(* digits, modulo the width of a long, and stops behind it                 *)
(* (string.c:181-258).                                                     *)
THEOREM StrtolValue == Spec => [](LineBreakLed \/ UpperPrefix \/ StrtolConverts)
<1>1. LibInv /\ ConvertInv => LineBreakLed \/ UpperPrefix \/ StrtolConverts
  <2> SUFFICES ASSUME LibInv, ConvertInv, ~LineBreakLed, ~UpperPrefix,
                      pc = "done", call.fn = "strtol"
               PROVE  StrtolConverts
    BY DEF StrtolConverts
  <2>1. /\ DigitsOK /\ DigitValue(before[r.s]) >= Base
        /\ ret = IF r.neg THEN Wrap(-r.val) ELSE r.val
    BY DEF ConvertInv
  <2>2. /\ r.neg = (before[Start] = 45) /\ r.base = Base
        /\ From \in Int /\ From <= r.s /\ From >= 1
        /\ \A a \in From .. r.s - 1 : DigitValue(before[a]) < Base
        /\ r.val = Wrap(Numeral(before, r.s, Base)[r.s - From])
    BY <2>1 DEF DigitsOK
  <2>3. Size \in Nat /\ r.s \in Int /\ r.s >= 1 /\ r.s <= Size /\ Base \in Int
    BY <2>2, Numbers DEF LibInv, StrtolOK, Addr
  <2>4. PICK S : S = {a \in From .. Size : DigitValue(before[a]) >= Base}
    OBVIOUS
  <2>5. S \in SUBSET Int /\ r.s \in S
    BY <2>1, <2>2, <2>3, <2>4
  <2>6. \A a \in S : r.s <= a
    <3>1. \A a \in From .. Size : a \in Int /\ (a \in From .. r.s - 1 \/ r.s <= a)
      BY <2>2, <2>3
    <3>2. ASSUME NEW a \in S PROVE r.s <= a
      <4>1. a \in From .. Size /\ DigitValue(before[a]) >= Base /\ DigitValue(before[a]) \in Nat
        BY <2>4, DigitsHaveValues
      <4>2. a \notin From .. r.s - 1
        BY <2>2, <2>3, <4>1
      <4> QED
        BY <3>1, <4>1, <4>2
    <3> QED
      BY <3>2
  <2>7. Min(S) = r.s
    BY <2>5, <2>6, MinIs
  <2>8. PICK value \in Int : value = Numeral(before, r.s, Base)[r.s - From]
    <3>1. r.s - From \in Nat
      BY <2>2, <2>3
    <3> QED
      BY <2>3, <3>1, Numerals
  <2>9. ret = Wrap(IF before[Start] = 45 THEN -value ELSE value)
    <3>1. CASE before[Start] = 45
      <4>1. ret = Wrap(-Wrap(value))
        BY <2>1, <2>2, <2>8, <3>1
      <4>2. Wrap(Wrap(value) * (-1) + 0) = Wrap(value * (-1) + 0)
        <5>1. -1 \in Int /\ 0 \in Int
          OBVIOUS
        <5> QED
          BY <5>1, WrapOnce
      <4>3. PICK w \in Int : w = Wrap(value)
        BY WrapFits, StringAssumption DEF Long
      <4>4. -w = w * (-1) + 0 /\ -value = value * (-1) + 0
        OBVIOUS
      <4> QED
        BY <3>1, <4>1, <4>2, <4>3, <4>4
    <3>2. CASE before[Start] # 45
      BY <2>1, <2>2, <2>8, <3>2
    <3> QED
      BY <3>1, <3>2
  <2> DEFINE start == Min({a \in Addr : before[a] \notin Whitespace})
             signed == before[start] \in {43, 45}
             body == IF signed THEN start + 1 ELSE start
             hex == /\ before[body] = 48 /\ call.base \in {0, 16}
                    /\ before[body + 1] \in {120} \cup IF call.base = 16 THEN {88} ELSE {}
             base == IF hex THEN 16
                     ELSE IF call.base # 0 THEN call.base
                     ELSE IF before[body] = 48 THEN 8 ELSE 10
             from == IF hex THEN body + 2 ELSE IF call.base = 0 /\ base = 8 THEN body + 1 ELSE body
             end == Min({a \in from .. Size : DigitValue(before[a]) >= base})
             number == Numeral(before, end, base)[end - from]
  <2>10. start = Start
    <3>1. PICK B : B = {a \in Addr : before[a] \notin {32, 9}}
      OBVIOUS
    <3>2. B \in SUBSET Nat /\ Size \in B
      BY <3>1, StringAssumption DEF LibInv, ArgsOK, Addr, NUL
    <3>3. Start \in B /\ \A a \in B : Start <= a
      BY <3>1, <3>2, MinOf DEF Start
    <3>4. PICK W : W = {a \in Addr : before[a] \notin Whitespace}
      OBVIOUS
    <3>5. W \subseteq B /\ Start \in W
      BY <3>1, <3>3, <3>4 DEF Whitespace, LineBreakLed
    <3> QED
      BY <3>2, <3>3, <3>4, <3>5, MinIs
  <2>11. body = Body
    <3> HIDE DEF start
    <3> QED
      BY <2>10 DEF Body
  <2>12. hex <=> Hex
    <3> HIDE DEF body
    <3> QED
      BY <2>11 DEF UpperPrefix, Hex
  <2>13. base = Base
    <3> HIDE DEF body, hex
    <3> QED
      BY <2>11, <2>12 DEF Base
  <2>14. from = From
    <3> HIDE DEF body, hex, base
    <3> QED
      BY <2>11, <2>12, <2>13 DEF From
  <2>15. end = r.s
    <3> HIDE DEF base, from
    <3> QED
      BY <2>4, <2>7, <2>13, <2>14
  <2>16. number = value
    <3> HIDE DEF base, from, end
    <3> QED
      BY <2>8, <2>13, <2>14, <2>15
  <2>17. ret = Wrap(IF before[start] = 45 THEN -number ELSE number) /\ r.s = end
    <3> HIDE DEF start, end, number
    <3> QED
      BY <2>9, <2>10, <2>15, <2>16
  <2> QED
    BY <2>17, Zenon DEF StrtolConverts
<1> QED
  BY <1>1, LibInvHolds, ConvertInit, ConvertStep, PTL DEF Spec
=============================================================================
