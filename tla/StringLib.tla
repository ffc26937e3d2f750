------------------------------ MODULE StringLib ------------------------------
(***************************************************************************)
(* libs/string.c.  Init picks one call and a memory of Size bytes for it;  *)
(* then the function runs, one action per turn of its loop.  A byte is its *)
(* code, an address a position in mem, and 0 is NULL as well as NUL.       *)
(*                                                                         *)
(* BytesLeftOrZero, MemmoveForward, StrncpyUnpadded, MeasureReadsFirst,    *)
(* NotFoundIsEnd, MoreToCompareLate and StrtolKeepBase are wrong on        *)
(* purpose: put in the place of the definition that follows each, a        *)
(* property of this module fails.                                          *)
(***************************************************************************)
EXTENDS Integers, FiniteSets, FiniteSetsExt

CONSTANTS
    Size,       \* bytes of memory
    Bytes,      \* bytes the copying, scanning and comparing calls work on
    Digits,     \* bytes the text given to strtol is made of
    Bases,      \* bases strtol is called with
    LongMax     \* the greatest long

ASSUME StringAssumption ==
    /\ Size \in Nat \ {0} /\ LongMax \in Nat /\ Size <= LongMax
    /\ Bytes \subseteq 0 .. 255 /\ Digits \subseteq 1 .. 127
    /\ Bases \subseteq {0} \cup 2 .. 36

VARIABLES
    mem,        \* the memory
    call,       \* the function called and its arguments
    pc,         \* the loop it is in
    r,          \* its local variables; r.val is cnt in strlen and strnlen
    ret,        \* what it returned
    before,     \* history: mem when it was called
    read        \* history: the addresses it has read

vars == <<mem, call, pc, r, ret, before, read>>

NUL == 0
Addr == 1 .. Size
Copying == {"memset", "memmove", "memcpy", "strcpy", "strncpy"}
Scanning == {"strlen", "strnlen", "strchr", "strfind"}
Comparing == {"strcmp", "strncmp", "memcmp"}
Calls == Copying \cup Scanning \cup Comparing \cup {"strtol"}
Places == Calls \cup {"forward", "backward", "sign", "prefix", "digits", "done"}

(* A long holds the numbers that fit, and wraps in this build where its    *)
(* arithmetic does not.  No object is too large for its size to fit.       *)
Long == -(LongMax + 1) .. LongMax
Wrap(x) == ((x + (LongMax + 1)) % (2 * (LongMax + 1))) - (LongMax + 1)

TypeOK ==
    /\ mem \in [Addr -> 0 .. 255] /\ before \in [Addr -> 0 .. 255]
    /\ pc \in Places /\ call.fn \in Calls
    /\ r.d \in 1 .. Size + 1 /\ r.s \in 1 .. Size + 1 /\ r.n \in 0 .. Size
    /\ r.val \in Long
    /\ read \in SUBSET (1 .. Size + 1)
-----------------------------------------------------------------------------
(* What the comments above the functions ask of a caller.                  *)
Terminated(m, a) == \E b \in a .. Size : m[b] = NUL
Length(m, a) == Min({b \in a .. Size : m[b] = NUL}) - a
Room(a, n) == a + n - 1 <= Size
Apart(a, n, b, k) == a + n <= b \/ b + k <= a

Permitted(c, m) ==
    \/ c.fn = "memset" /\ Room(c.dst, c.n)
    \/ c.fn \in {"memmove", "memcmp"} /\ Room(c.dst, c.n) /\ Room(c.src, c.n)
    \/ c.fn = "memcpy" /\ Room(c.dst, c.n) /\ Room(c.src, c.n) /\ Apart(c.dst, c.n, c.src, c.n)
    \/ /\ c.fn = "strcpy" /\ Terminated(m, c.src)
       /\ Room(c.dst, Length(m, c.src) + 1)
       /\ Apart(c.dst, Length(m, c.src) + 1, c.src, Length(m, c.src) + 1)
    \/ /\ c.fn = "strncpy" /\ Room(c.dst, c.n)
       /\ \/ Room(c.src, c.n) /\ Apart(c.dst, c.n, c.src, c.n)
          \/ Terminated(m, c.src) /\ Apart(c.dst, c.n, c.src, Length(m, c.src) + 1)
    \/ c.fn = "strnlen" /\ (Terminated(m, c.src) \/ Room(c.src, c.n))
    \/ c.fn \in {"strlen", "strchr", "strfind"} /\ Terminated(m, c.src)
    \/ c.fn = "strcmp" /\ Terminated(m, c.dst) /\ Terminated(m, c.src)
    \/ /\ c.fn = "strncmp"
       /\ \A a \in {c.dst, c.src} : Terminated(m, a) \/ Room(a, c.n)

Begin(c) ==
    /\ call = c /\ pc = c.fn /\ mem = before /\ read = {} /\ ret = 0
    /\ r = [d |-> c.dst, s |-> c.src, n |-> c.n, val |-> 0, neg |-> FALSE, base |-> c.base]

(* strtol reads one string from the start of memory.                       *)
Init ==
    \/ /\ before \in [Addr -> Bytes]
       /\ \E fn \in Calls \ {"strtol"}, dst \in Addr, src \in Addr, n \in 0 .. Size, c \in Bytes :
            LET args == [fn |-> fn, dst |-> dst, src |-> src, n |-> n, c |-> c, base |-> 0]
            IN  Permitted(args, before) /\ Begin(args)
    \/ /\ \E len \in 0 .. Size - 1, text \in [Addr -> Digits] :
            before = [a \in Addr |-> IF a <= len THEN text[a] ELSE NUL]
       /\ \E base \in Bases :
            Begin([fn |-> "strtol", dst |-> 1, src |-> 1, n |-> 0, c |-> NUL, base |-> base])

(* A read past the memory finds NUL here; read has what tells.             *)
Byte(a) == IF a \in Addr THEN mem[a] ELSE NUL
Reads(as) == read' = read \cup as
Store(b) == mem' = [mem EXCEPT ![r.d] = b]
Goto(place) == pc' = place /\ UNCHANGED ret
Return(x) == pc' = "done" /\ ret' = x
Called == UNCHANGED <<call, before>>
-----------------------------------------------------------------------------
(* The loops that write.                                                   *)
BytesLeftOrZero == r.n >= 0

BytesLeft == r.n > 0

Memset ==
    /\ pc = "memset" /\ BytesLeft
    /\ Store(call.c) /\ Reads({})
    /\ r' = [r EXCEPT !.d = @ + 1, !.n = @ - 1]
    /\ Called /\ UNCHANGED <<pc, ret>>

MemmoveForward ==
    /\ pc \in {"memmove", "memcpy"} /\ Goto("forward")
    /\ Called /\ UNCHANGED <<mem, r, read>>

Memmove ==
    /\ pc \in {"memmove", "memcpy"}
    /\ IF pc = "memmove" /\ r.s < r.d /\ r.s + r.n > r.d
       THEN Goto("backward") /\ r' = [r EXCEPT !.d = @ + r.n, !.s = @ + r.n]
       ELSE Goto("forward") /\ UNCHANGED r
    /\ Called /\ UNCHANGED <<mem, read>>

CopyForward ==
    /\ pc = "forward" /\ BytesLeft
    /\ Store(Byte(r.s)) /\ Reads({r.s})
    /\ r' = [r EXCEPT !.d = @ + 1, !.s = @ + 1, !.n = @ - 1]
    /\ Called /\ UNCHANGED <<pc, ret>>

CopyBackward ==
    /\ pc = "backward" /\ BytesLeft
    /\ mem' = [mem EXCEPT ![r.d - 1] = Byte(r.s - 1)] /\ Reads({r.s - 1})
    /\ r' = [r EXCEPT !.d = @ - 1, !.s = @ - 1, !.n = @ - 1]
    /\ Called /\ UNCHANGED <<pc, ret>>

Strcpy ==
    /\ pc = "strcpy"
    /\ Store(Byte(r.s)) /\ Reads({r.s})
    /\ r' = [r EXCEPT !.d = @ + 1, !.s = @ + 1]
    /\ IF Byte(r.s) = NUL THEN Return(call.dst) ELSE Goto("strcpy")
    /\ Called

StrncpyUnpadded ==
    /\ pc = "strncpy" /\ BytesLeft
    /\ Store(Byte(r.s)) /\ Reads({r.s})
    /\ r' = [r EXCEPT !.d = @ + 1, !.s = @ + 1, !.n = IF Byte(r.s) = NUL THEN 0 ELSE @ - 1]
    /\ Called /\ UNCHANGED <<pc, ret>>

Strncpy ==
    /\ pc = "strncpy" /\ BytesLeft
    /\ Store(Byte(r.s)) /\ Reads({r.s})
    /\ r' = [r EXCEPT !.d = @ + 1, !.n = @ - 1, !.s = IF Byte(r.s) = NUL THEN @ ELSE @ + 1]
    /\ Called /\ UNCHANGED <<pc, ret>>

Written ==
    /\ pc \in {"memset", "forward", "backward", "strncpy"} /\ ~BytesLeft
    /\ Return(call.dst)
    /\ Called /\ UNCHANGED <<mem, r, read>>
-----------------------------------------------------------------------------
(* The loops that only read.  In a comparison r.d is s1 and r.s is s2.     *)
MeasureReadsFirst ==
    /\ pc \in {"strlen", "strnlen"}
    /\ Reads({r.s})
    /\ IF Byte(r.s) # NUL /\ (pc = "strlen" \/ r.val < r.n)
       THEN Goto(pc) /\ r' = [r EXCEPT !.s = @ + 1, !.val = @ + 1]
       ELSE Return(r.val) /\ UNCHANGED r
    /\ Called /\ UNCHANGED mem

Measure ==
    /\ pc \in {"strlen", "strnlen"}
    /\ LET more == pc = "strlen" \/ r.val < r.n
       IN  /\ Reads(IF more THEN {r.s} ELSE {})
           /\ IF more /\ Byte(r.s) # NUL
              THEN Goto(pc) /\ r' = [r EXCEPT !.s = @ + 1, !.val = @ + 1]
              ELSE Return(r.val) /\ UNCHANGED r
    /\ Called /\ UNCHANGED mem

NotFoundIsEnd(end) == end

NotFound(end) == IF pc = "strchr" THEN NUL ELSE end

Find ==
    /\ pc \in {"strchr", "strfind"}
    /\ Reads({r.s})
    /\ IF Byte(r.s) \notin {NUL, call.c}
       THEN Goto(pc) /\ r' = [r EXCEPT !.s = @ + 1]
       ELSE Return(IF Byte(r.s) = NUL THEN NotFound(r.s) ELSE r.s) /\ UNCHANGED r
    /\ Called /\ UNCHANGED mem

(* A turn of a comparison passes two bytes that are the same, unless they  *)
(* end the text; the loops of strncmp and memcmp also stop when n is used  *)
(* up, and then nothing is left to tell apart.                             *)
MoreToCompareLate == pc = "strcmp" \/ r.n > 1

MoreToCompare == pc = "strcmp" \/ r.n > 0

CompareBytes(ended) ==
    /\ Reads(IF MoreToCompare THEN {r.d, r.s} ELSE {})
    /\ IF MoreToCompare /\ Byte(r.d) = Byte(r.s) /\ ~ended
       THEN Goto(pc) /\ r' = [r EXCEPT !.d = @ + 1, !.s = @ + 1, !.n = IF pc = "strcmp" THEN @ ELSE @ - 1]
       ELSE Return(IF MoreToCompare THEN Byte(r.d) - Byte(r.s) ELSE 0) /\ UNCHANGED r
    /\ Called /\ UNCHANGED mem

Strcmp == pc \in {"strcmp", "strncmp"} /\ CompareBytes(Byte(r.d) = NUL)

Memcmp == pc = "memcmp" /\ CompareBytes(FALSE)
-----------------------------------------------------------------------------
(* strtol: the value of a digit or a letter; no base has the digit 36.     *)
DigitValue(b) ==
    CASE b \in 48 .. 57 -> b - 48
      [] b \in 97 .. 122 -> b - 97 + 10
      [] b \in 65 .. 90 -> b - 65 + 10
      [] OTHER -> 36

StrtolBlank ==
    /\ pc = "strtol"
    /\ Reads({r.s})
    /\ IF Byte(r.s) \in {32, 9}
       THEN Goto("strtol") /\ r' = [r EXCEPT !.s = @ + 1]
       ELSE Goto("sign") /\ UNCHANGED r
    /\ Called /\ UNCHANGED mem

StrtolSign ==
    /\ pc = "sign" /\ Goto("prefix")
    /\ r' = [r EXCEPT !.neg = Byte(r.s) = 45, !.s = IF Byte(r.s) \in {43, 45} THEN @ + 1 ELSE @]
    /\ Called /\ UNCHANGED <<mem, read>>

StrtolKeepBase ==
    /\ pc = "prefix" /\ Goto("digits")
    /\ r' = [r EXCEPT !.base = IF r.base = 0 THEN 10 ELSE @]
    /\ Reads({r.s})
    /\ Called /\ UNCHANGED mem

StrtolPrefix ==
    /\ pc = "prefix" /\ Goto("digits")
    /\ LET zero == Byte(r.s) = 48
           hex == r.base \in {0, 16} /\ zero /\ Byte(r.s + 1) = 120
           octal == r.base = 0 /\ zero
       IN  r' = [r EXCEPT !.s = IF hex THEN @ + 2 ELSE IF octal THEN @ + 1 ELSE @,
                          !.base = IF hex THEN 16 ELSE IF octal THEN 8 ELSE IF @ = 0 THEN 10 ELSE @]
    /\ Reads({r.s} \cup IF r.base \in {0, 16} /\ Byte(r.s) = 48 THEN {r.s + 1} ELSE {})
    /\ Called /\ UNCHANGED mem

(* *endptr is r.s where the function returns.                              *)
StrtolDigit ==
    /\ pc = "digits"
    /\ Reads({r.s})
    /\ LET dig == DigitValue(Byte(r.s))
       IN  IF dig < r.base
           THEN Goto("digits") /\ r' = [r EXCEPT !.s = @ + 1, !.val = Wrap(@ * r.base + dig)]
           ELSE Return(IF r.neg THEN Wrap(-r.val) ELSE r.val) /\ UNCHANGED r
    /\ Called /\ UNCHANGED mem
-----------------------------------------------------------------------------
Next ==
    \/ Memset \/ Memmove \/ CopyForward \/ CopyBackward \/ Strcpy \/ Strncpy \/ Written
    \/ Measure \/ Find \/ Strcmp \/ Memcmp
    \/ StrtolBlank \/ StrtolSign \/ StrtolPrefix \/ StrtolDigit

Spec == Init /\ [][Next]_vars
-----------------------------------------------------------------------------
(* memmove and memcpy leave the n bytes that stood at src at dst, however  *)
(* the two regions overlap, and every other byte as it was (string.c:283). *)
MovesAsThroughACopy ==
    pc = "done" /\ call.fn \in {"memmove", "memcpy"} =>
        mem = [a \in Addr |-> IF a \in call.dst .. call.dst + call.n - 1
                              THEN before[call.src + (a - call.dst)] ELSE before[a]]

(* strcpy writes the text and one NUL; strncpy exactly n bytes, the text   *)
(* cut or padded with NULs; memset n times c (string.c:42-87, 261-281).    *)
WritesTheExtentAsked ==
    LET text == IF Terminated(before, call.src) THEN Length(before, call.src) ELSE call.n
        extent == IF call.fn = "strcpy" THEN text + 1 ELSE call.n
        content(k) == IF call.fn = "memset" THEN call.c
                      ELSE IF k < text THEN before[call.src + k] ELSE NUL
    IN  pc = "done" /\ call.fn \in {"memset", "strcpy", "strncpy"} =>
            mem = [a \in Addr |-> IF a \in call.dst .. call.dst + extent - 1
                                  THEN content(a - call.dst) ELSE before[a]]

(* strlen and strnlen count up to the NUL or to n, strchr and strfind stop *)
(* at the first c of the text; without one strchr has nothing, strfind the *)
(* NUL (string.c:4-40, 134-171).                                           *)
ScansStopAtTheFirst ==
    LET text == IF Terminated(before, call.src) THEN Length(before, call.src) ELSE call.n
        hits == {a \in call.src .. call.src + text - 1 : before[a] = call.c}
    IN  pc = "done" =>
            CASE call.fn = "strlen" -> ret = text
              [] call.fn = "strnlen" -> ret = Min({text, call.n})
              [] call.fn \in {"strchr", "strfind"} /\ hits # {} -> ret = Min(hits)
              [] call.fn = "strchr" /\ hits = {} -> ret = NUL
              [] call.fn = "strfind" /\ hits = {} -> ret = call.src + text
              [] OTHER -> TRUE

(* The first place from which two texts differ decides, as unsigned bytes; *)
(* NUL ends a string, n ends both (string.c:88-132, 341-366).              *)
FirstDifferenceDecides ==
    LET full == Size + 1 - Max({call.dst, call.src})
        span == IF call.fn = "strcmp" THEN full ELSE Min({call.n, full})
        differ == {k \in 0 .. span - 1 : before[call.dst + k] # before[call.src + k]}
        ended == {k \in 0 .. span - 1 : before[call.dst + k] = NUL /\ call.fn # "memcmp"}
        first == Min(differ)
    IN  pc = "done" /\ call.fn \in Comparing =>
            IF differ # {} /\ \A k \in ended : first <= k
            THEN ret = before[call.dst + first] - before[call.src + first]
            ELSE ret = 0

(* No function reads a byte its comment keeps it from: strnlen, strncpy,   *)
(* strncmp and memcmp nothing from n on, a string nothing after its NUL    *)
(* (string.c:26-27, 123-124).                                              *)
ReadsNothingBeyond ==
    LET counted == call.fn \notin {"strlen", "strchr", "strfind", "strcpy", "strcmp", "strtol"}
        starts == IF call.fn \in Comparing THEN {call.dst, call.src} ELSE {call.src}
        last(a) == IF call.fn \in {"memmove", "memcpy", "memcmp"} \/ ~Terminated(before, a)
                   THEN a + call.n - 1
                   ELSE IF counted THEN Min({a + call.n - 1, a + Length(before, a)})
                   ELSE a + Length(before, a)
    IN  read \subseteq UNION {a .. last(a) : a \in starts}

(* The number the k digits before end stand for: a sum over their places.  *)
Weight(base) == LET weight[k \in Nat] == IF k = 0 THEN 1 ELSE base * weight[k - 1] IN weight

Numeral(text, end, base) ==
    LET value[k \in Nat] ==
            IF k = 0 THEN 0 ELSE value[k - 1] + DigitValue(text[end - k]) * Weight(base)[k - 1]
    IN  value

(* strtol returns the value of the longest run of digits after whitespace  *)
(* (as kmonitor.c:30 has it: blank, tab, newline, carriage return), a sign *)
(* and the prefix the comment gives for the base, modulo the width of      *)
(* long, and leaves endptr behind that run (string.c:181-199).             *)
Whitespace == {32, 9, 10, 13}

StrtolConverts ==
    LET start == Min({a \in Addr : before[a] \notin Whitespace})
        signed == before[start] \in {43, 45}
        body == IF signed THEN start + 1 ELSE start
        hex == /\ before[body] = 48 /\ call.base \in {0, 16}
               /\ before[body + 1] \in {120} \cup IF call.base = 16 THEN {88} ELSE {}
        base == IF hex THEN 16
                ELSE IF call.base # 0 THEN call.base
                ELSE IF before[body] = 48 THEN 8 ELSE 10
        from == IF hex THEN body + 2 ELSE IF call.base = 0 /\ base = 8 THEN body + 1 ELSE body
        end == Min({a \in from .. Size : DigitValue(before[a]) >= base})
        value == Numeral(before, end, base)[end - from]
    IN  pc = "done" /\ call.fn = "strtol" =>
            /\ ret = Wrap(IF before[start] = 45 THEN -value ELSE value)
            /\ r.s = end
=============================================================================
