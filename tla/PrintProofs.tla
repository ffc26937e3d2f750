----------------------------- MODULE PrintProofs -----------------------------
(***************************************************************************)
(* vsnprintf keeps to its buffer and returns the whole length, vprintfmt   *)
(* keeps to its format and arguments, and what it prints is what the parts *)
(* of every directive ask for: for every format and all arguments PrintFmt *)
(* can start from, every size of the buffer and every width of the words.  *)
(* First the buffer (BufferInv), then the place of the pointer f in the    *)
(* format, part by part of the directive, and the arguments not taken      *)
(* there yet (ParseInv).  Then printnum, by induction over its argument    *)
(* (PrintnumIs), and at last what has been printed and what is left to     *)
(* print, which together are the text asked for (OutInv).                  *)
(***************************************************************************)
EXTENDS PrintFmt, WellFoundedInduction, TLAPS

Outside == {"vsnprintf", "done"}

(* The buffer while vprintfmt runs: the first characters put, as many as   *)
(* leave one byte, and behind them nothing touched.                        *)
Filled ==
    /\ b \in [buf : Nat, ebuf : Int, cnt : Nat] /\ b.ebuf = asked.size - 1
    /\ \E S : out \in Seq(S)
    /\ b.cnt = Len(out)
    /\ b.buf = IF Len(out) < asked.size THEN Len(out) ELSE asked.size - 1
    /\ DOMAIN str = 0 .. asked.size
    /\ str = [a \in 0 .. asked.size |-> str[a]]
    /\ \A a \in 0 .. asked.size : str[a] = IF a < b.buf THEN out[a + 1] ELSE "junk"

BufferInv ==
    /\ asked.size \in Nat
    /\ pc = "vsnprintf" =>
         /\ out = <<>> /\ str = [a \in 0 .. asked.size |-> "junk"]
         /\ b = [buf |-> 0, ebuf |-> asked.size - 1, cnt |-> 0]
    /\ pc \notin Outside => asked.size > 0 /\ ~asked.null /\ Filled
    /\ pc = "done" => BufferIsTruncation

LEMMA MinOfTwo ==
    ASSUME NEW x \in Int, NEW y \in Int
    PROVE  Min({x, y}) = IF x <= y THEN x ELSE y
<1> DEFINE least == IF x <= y THEN x ELSE y
<1>1. least \in {x, y} /\ \A z \in {x, y} : least <= z
  OBVIOUS
<1>2. \A w \in {x, y} : (\A z \in {x, y} : w <= z) => w = least
  OBVIOUS
<1>3. QED
  BY <1>1, <1>2 DEF Min

LEMMA Appended ==
    ASSUME NEW S, NEW s \in Seq(S), NEW c
    PROVE  /\ \E T : Append(s, c) \in Seq(T)
           /\ Len(Append(s, c)) = Len(s) + 1
           /\ \A k \in 1 .. Len(s) : Append(s, c)[k] = s[k]
           /\ Append(s, c)[Len(s) + 1] = c
<1>1. s \in Seq(S \cup {c}) /\ c \in S \cup {c}
  OBVIOUS
<1>2. QED
  BY <1>1

LEMMA PutStep ==
    ASSUME Filled, asked.size \in Nat \ {0}, asked' = asked, NEW c, Putch(c)
    PROVE  Filled'
<1> DEFINE size == asked.size
<1>1. PICK S : out \in Seq(S)
  BY DEF Filled
<1>2. out' = Append(out, c)
  BY DEF Putch, Sprintputch
<1>3. /\ \E T : out' \in Seq(T)
      /\ Len(out') = Len(out) + 1 /\ out'[Len(out) + 1] = c
      /\ \A k \in 1 .. Len(out) : out'[k] = out[k]
  <2>1. /\ \E T : Append(out, c) \in Seq(T)
        /\ Len(Append(out, c)) = Len(out) + 1 /\ Append(out, c)[Len(out) + 1] = c
        /\ \A k \in 1 .. Len(out) : Append(out, c)[k] = out[k]
    BY <1>1, Appended, Zenon
  <2>2. QED
    BY <1>2, <2>1, Zenon
<1>4. Len(out) \in Nat /\ b.cnt = Len(out) /\ b.ebuf = size - 1
  BY <1>1 DEF Filled
<1>5. b = [buf |-> b.buf, ebuf |-> b.ebuf, cnt |-> b.cnt] /\ b.buf \in Nat
  BY DEF Filled
<1>6. CASE Len(out) < size - 1
  <2>1. b.buf = Len(out) /\ b.buf < b.ebuf
    BY <1>4, <1>6 DEF Filled
  <2>2. b' = [buf |-> Len(out) + 1, ebuf |-> size - 1, cnt |-> Len(out) + 1]
    <3>1. b' = [b EXCEPT !.cnt = b.cnt + 1, !.buf = b.buf + 1]
      BY <2>1 DEF Putch, Sprintputch
    <3>2. QED
      BY <1>4, <1>5, <2>1, <3>1
  <2>3. str' = [str EXCEPT ![Len(out)] = c]
    BY <2>1 DEF Putch, Sprintputch
  <2>4. DOMAIN str' = 0 .. size /\ str' = [a \in 0 .. size |-> str'[a]]
    BY <2>3 DEF Filled
  <2>5. ASSUME NEW a \in 0 .. size
        PROVE  str'[a] = IF a < Len(out) + 1 THEN out'[a + 1] ELSE "junk"
    <3>1. str'[a] = IF a = Len(out) THEN c ELSE str[a]
      BY <2>3 DEF Filled
    <3>2. str[a] = IF a < Len(out) THEN out[a + 1] ELSE "junk"
      BY <2>1 DEF Filled
    <3>3. a < Len(out) => out'[a + 1] = out[a + 1]
      BY <1>3, <1>4
    <3>4. QED
      BY <1>3, <1>4, <3>1, <3>2, <3>3
  <2>6. QED
    BY <1>3, <1>4, <1>6, <2>2, <2>4, <2>5 DEF Filled
<1>7. CASE ~(Len(out) < size - 1)
  <2>1. b.buf = size - 1
    BY <1>4, <1>7 DEF Filled
  <2>2. str' = str
    BY <1>4, <2>1 DEF Putch, Sprintputch
  <2>3. b' = [buf |-> size - 1, ebuf |-> size - 1, cnt |-> Len(out) + 1]
    <3>1. ~(b.buf < b.ebuf)
      BY <1>4, <1>7, <2>1
    <3>2. b' = [b EXCEPT !.cnt = b.cnt + 1, !.buf = IF b.buf < b.ebuf THEN b.buf + 1 ELSE b.buf]
      BY Zenon DEF Putch, Sprintputch
    <3>3. b' = [b EXCEPT !.cnt = b.cnt + 1, !.buf = b.buf]
      BY <3>1, <3>2, Zenon
    <3>4. QED
      BY <1>4, <1>5, <2>1, <3>3
  <2>4. ASSUME NEW a \in 0 .. size
        PROVE  str'[a] = IF a < size - 1 THEN out'[a + 1] ELSE "junk"
    <3>1. str[a] = IF a < size - 1 THEN out[a + 1] ELSE "junk"
      BY <2>1 DEF Filled
    <3>2. a < size - 1 => out'[a + 1] = out[a + 1]
      BY <1>3, <1>4, <1>7
    <3>3. QED
      BY <2>2, <3>1, <3>2
  <2>5. b'.buf = size - 1 /\ b'.ebuf = size - 1 /\ b'.cnt = Len(out')
    BY <1>3, <2>3
  <2>6. b' \in [buf : Nat, ebuf : Int, cnt : Nat]
    BY <1>4, <2>3
  <2>7. ~(Len(out') < size)
    BY <1>3, <1>4, <1>7
  <2>8. DOMAIN str' = 0 .. size /\ str' = [a \in 0 .. size |-> str'[a]]
    BY <2>2 DEF Filled
  <2>9. QED
    BY <1>3, <2>4, <2>5, <2>6, <2>7, <2>8 DEF Filled
<1>8. QED
  BY <1>6, <1>7

(* Every action but the first and the last only puts or is silent.         *)
LEMMA PutsOrSilent ==
    ASSUME Next, ~Vsnprintf, ~Terminate
    PROVE  /\ pc \notin Outside /\ pc' \notin Outside
           /\ Silent \/ \E c : Putch(c)
<1>1. CASE ScanPlain \/ ScanDirective
  BY <1>1 DEF ScanPlain, ScanDirective, Outside
<1>2. CASE PadFlag \/ Alternate \/ Long \/ Point \/ Star \/ Width
  BY <1>2 DEF PadFlag, Alternate, Long, Point, Star, Width, ProcessPrecision, Reswitch, Case, Outside
<1>3. CASE Character \/ Percent \/ Literal
  BY <1>3 DEF Character, Percent, Literal, Case, Outside
<1>4. CASE Number
  BY <1>4 DEF Number, Case, Outside
<1>5. CASE ErrorCode
  BY <1>5, Zenon DEF ErrorCode, Case, Outside
<1>6. CASE String
  BY <1>6 DEF String, Case, Outside
<1>7. CASE Emit \/ PadLeft \/ Characters \/ PadRight
  BY <1>7 DEF Emit, PadLeft, Characters, PadRight, Outside
<1>8. QED
  BY <1>1, <1>2, <1>3, <1>4, <1>5, <1>6, <1>7 DEF Next

LEMMA AskedKept == Next => asked' = asked
BY DEF Next, Vsnprintf, ScanPlain, ScanDirective, Terminate, PadFlag, Alternate, Long, Point, Star,
       Width, ProcessPrecision, Reswitch, Character, Percent, Literal, Number, ErrorCode, Emit,
       String, PadLeft, Characters, PadRight, Fixed

LEMMA BufferInit == Init => BufferInv
<1> SUFFICES ASSUME Init PROVE BufferInv
  OBVIOUS
<1>1. PICK size, d, width, precision, arg, null :
        /\ size \in Sizes
        /\ asked = [d |-> d, width |-> width, precision |-> precision, arg |-> arg,
                    size |-> size, null |-> null]
  BY Zenon DEF Init
<1>2. asked.size \in Nat
  BY <1>1, PrintAssumption
<1>3. QED
  BY <1>2 DEF Init, BufferInv, Outside

LEMMA BufferStep == BufferInv /\ [Next]_vars => BufferInv'
<1> SUFFICES ASSUME BufferInv, [Next]_vars PROVE BufferInv'
  OBVIOUS
<1>1. CASE UNCHANGED vars
  BY <1>1 DEF BufferInv, vars, Filled, BufferIsTruncation
<1> SUFFICES ASSUME Next PROVE BufferInv'
  BY <1>1
<1>2. asked' = asked /\ asked.size \in Nat
  BY AskedKept DEF BufferInv
<1>3. CASE Vsnprintf
  <2>1. /\ out = <<>> /\ str = [a \in 0 .. asked.size |-> "junk"]
        /\ b = [buf |-> 0, ebuf |-> asked.size - 1, cnt |-> 0]
    BY <1>3 DEF Vsnprintf, BufferInv
  <2>2. UNCHANGED <<out, str, b>>
    BY <1>3 DEF Vsnprintf, Silent
  <2>3. CASE asked.null \/ b.buf > b.ebuf
    <3>1. pc' = "done" /\ ret' = INVAL /\ (asked.null \/ asked.size = 0)
      BY <1>2, <1>3, <2>1, <2>3 DEF Vsnprintf
    <3>2. BufferIsTruncation'
      BY <1>2, <2>1, <2>2, <3>1 DEF BufferIsTruncation
    <3>3. QED
      BY <1>2, <3>1, <3>2 DEF BufferInv, Outside
  <2>4. CASE ~(asked.null \/ b.buf > b.ebuf)
    <3>1. pc' = "scan" /\ ~asked.null /\ asked.size > 0
      BY <1>2, <1>3, <2>1, <2>4 DEF Vsnprintf
    <3>2. Filled'
      BY <1>2, <2>1, <2>2, <3>1 DEF Filled
    <3>3. QED
      BY <1>2, <3>1, <3>2 DEF BufferInv, Outside
  <2>5. QED
    BY <2>3, <2>4
<1>4. CASE Terminate
  <2>1. /\ pc' = "done" /\ ret' = b.cnt /\ str' = [str EXCEPT ![b.buf] = "nul"]
        /\ b' = b /\ out' = out /\ pc = "scan"
    BY <1>4 DEF Terminate
  <2>2. asked.size > 0 /\ ~asked.null /\ Filled
    BY <2>1 DEF BufferInv, Outside
  <2>3. Len(out) \in Nat
    BY <2>2 DEF Filled
  <2>4. /\ b.buf \in 0 .. asked.size - 1 /\ b.buf = Min({asked.size - 1, Len(out)})
        /\ b.cnt = Len(out)
    <3>1. Min({asked.size - 1, Len(out)}) = IF asked.size - 1 <= Len(out) THEN asked.size - 1 ELSE Len(out)
      BY <1>2, <2>3, MinOfTwo
    <3>2. b.cnt = Len(out) /\ b.buf = IF Len(out) < asked.size THEN Len(out) ELSE asked.size - 1
      BY <2>2 DEF Filled
    <3>3. QED
      BY <1>2, <2>2, <2>3, <3>1, <3>2
  <2>5. \A a \in 0 .. asked.size :
          str'[a] = IF a = b.buf THEN "nul" ELSE IF a < b.buf THEN out[a + 1] ELSE "junk"
    BY <2>1, <2>2 DEF Filled
  <2>6. BufferIsTruncation'
    <3>1. asked.size # 0 /\ asked.size \in 0 .. asked.size /\ b.buf # asked.size
      BY <1>2, <2>2, <2>4
    <3>2. PICK k \in 0 .. asked.size - 1 : k = b.buf
      BY <2>4
    <3>3. \A a \in 0 .. asked.size : a >= b.buf => str'[a] = "junk" \/ a = b.buf
      BY <1>2, <2>5, <3>2
    <3>4. str'[asked.size] = "junk"
      BY <1>2, <2>5, <3>1, <3>2
    <3>5. str'[b.buf] = "nul" /\ \A a \in 0 .. b.buf - 1 : str'[a] = out[a + 1]
      BY <1>2, <2>5, <3>2
    <3>6. QED
      BY <1>2, <2>1, <2>2, <2>4, <3>1, <3>3, <3>4, <3>5 DEF BufferIsTruncation
  <2>7. QED
    BY <1>2, <2>1, <2>6 DEF BufferInv, Outside
<1>5. CASE ~Vsnprintf /\ ~Terminate
  <2>1. pc \notin Outside /\ pc' \notin Outside /\ (Silent \/ \E c : Putch(c))
    BY <1>5, PutsOrSilent
  <2>2. asked.size > 0 /\ ~asked.null /\ Filled
    BY <2>1 DEF BufferInv
  <2>3. CASE Silent
    BY <1>2, <2>1, <2>2, <2>3 DEF BufferInv, Silent, Filled, Outside
  <2>4. CASE \E c : Putch(c)
    <3>1. PICK c : Putch(c)
      BY <2>4
    <3>2. Filled'
      BY <1>2, <2>2, <3>1, PutStep
    <3>3. QED
      BY <1>2, <2>1, <2>2, <3>2 DEF BufferInv, Outside
  <2>5. QED
    BY <2>1, <2>3, <2>4
<1>6. QED
  BY <1>3, <1>4, <1>5

(* The buffer holds what fits and a NUL, nothing else of the memory is     *)
(* touched, and the result is the length of the text (printfmt.c:314-339). *)
THEOREM BufferCorrect == Spec => []BufferIsTruncation
<1>1. ASSUME BufferInv PROVE BufferIsTruncation
  <2>1. CASE pc = "done"
    BY <1>1, <2>1 DEF BufferInv
  <2>2. CASE pc = "vsnprintf"
    BY <1>1, <2>2 DEF BufferInv, BufferIsTruncation
  <2>3. CASE pc \notin Outside
    BY <1>1, <2>3 DEF BufferInv, Filled, BufferIsTruncation, Outside
  <2>4. QED
    BY <2>1, <2>2, <2>3 DEF Outside
<1>2. QED
  BY BufferInit, BufferStep, <1>1, PTL DEF Spec
-----------------------------------------------------------------------------
(* Where the parts of the directive end in the format.                     *)
AfterFlags == 1 + Len(asked.d.flags)
AfterWidth == AfterFlags + Len(asked.d.width)
AfterPrecision == AfterWidth + (IF asked.d.precision = <<>> THEN 0 ELSE 2)
ConvAt == AfterPrecision + asked.d.l + 1

Signs == {"%", "-", "0", "#", "4", "1", "*", ".", "l", "a", "nul"} \cup Numeric \cup {"s", "c", "e", "q"}

(* What stands in the format, part by part.                                *)
FormatOK ==
    /\ asked.d \in Directives /\ asked.width \in Int /\ asked.precision \in Int
    /\ asked.d.conv = "s" => asked.arg = NULL \/ asked.arg \in Seq({"a", "ctl"})
    /\ fmt \in Seq(Signs) /\ fmt[1] = "%"
    /\ \A k \in 2 .. AfterFlags : fmt[k] \in {"-", "0", "#"}
    /\ \A k \in 1 .. Len(asked.d.width) : fmt[AfterFlags + k] = asked.d.width[k]
    /\ asked.d.precision # <<>> =>
         fmt[AfterWidth + 1] = "." /\ fmt[AfterWidth + 2] = asked.d.precision[1]
    /\ \A k \in AfterPrecision + 1 .. ConvAt - 1 : fmt[k] = "l"
    /\ fmt[ConvAt] = asked.d.conv
    /\ IF asked.d.conv = "nul" THEN Len(fmt) = ConvAt
       ELSE /\ Len(fmt) = ConvAt + 4
            /\ fmt[ConvAt + 1] = "a" /\ fmt[ConvAt + 2] = "%" /\ fmt[ConvAt + 3] = "d"
            /\ fmt[ConvAt + 4] = "nul"

(* The first directive as a text, and the words it may be given.           *)
AskedOK ==
    /\ Render(asked.d) = SubSeq(fmt, 1, ConvAt)
    /\ \A k \in 1 .. Len(asked.d.flags) : fmt[k + 1] = asked.d.flags[k]
    /\ asked.d.conv \in Numeric \cup {"e"} => asked.arg \in 0 .. 2 * LongMax + 1

(* The arguments not taken yet, from each part of the directive on.        *)
ConversionsArguments ==
    IF asked.d.conv \in Numeric \cup {"s", "c", "e"} THEN <<asked.arg>> \o <<NextWord>>
    ELSE <<NextWord>>
PrecisionsArguments ==
    IF asked.d.precision = <<"*">> THEN <<asked.precision>> \o ConversionsArguments
    ELSE ConversionsArguments
WidthsArguments ==
    IF asked.d.width = <<"*">> THEN <<asked.width>> \o PrecisionsArguments ELSE PrecisionsArguments

(* f stands on a part of the first directive, and never between the digits *)
(* of its width; the l's are counted as they are passed.                   *)
InDirective ==
    /\ f \in 2 .. ConvAt
    /\ asked.d.width = <<"1", "0">> => f # AfterFlags + 2
    /\ dir.lflag = IF f <= AfterPrecision THEN 0 ELSE f - AfterPrecision - 1
    /\ ap = IF f <= AfterFlags + 1 THEN WidthsArguments
            ELSE IF f <= AfterWidth + 2 THEN PrecisionsArguments
            ELSE ConversionsArguments

Behind(n) == asked.d.conv # "nul" /\ f = ConvAt + n

ParseOK ==
    /\ pc \in Places
    /\ pc = "vsnprintf" => f = 1 /\ ap = WidthsArguments
    /\ pc = "scan" =>
         \/ f = 1 /\ ap = WidthsArguments
         \/ f \in 2 .. ConvAt /\ asked.d.conv \in {"q", "nul"} /\ ap = <<NextWord>>
         \/ (Behind(1) \/ Behind(2)) /\ ap = <<NextWord>>
         \/ Behind(4) /\ ap = <<>>
    /\ pc = "switch" => InDirective \/ (Behind(3) /\ ap = <<NextWord>>)
    /\ pc = "emit" => (Behind(1) /\ ap = <<NextWord>>) \/ (Behind(4) /\ ap = <<>>)
    /\ pc \in {"pad", "string", "tail", "undefined"} => Behind(1) /\ ap = <<NextWord>>
    /\ pc = "done" => f \in 1 .. Len(fmt)

PadChars == {" ", "-", "0"}
DirectiveOK ==
    dir \in [padc : PadChars, width : Int, precision : Int, lflag : 0 .. 2, altflag : BOOLEAN]

(* The buffer stays as it is once vsnprintf has returned.                  *)
CursorOK == DOMAIN str = 0 .. asked.size /\ b.buf \in 0 .. asked.size /\ b.cnt = Len(out)

ParseInv == FormatOK /\ ParseOK /\ DirectiveOK /\ CursorOK
-----------------------------------------------------------------------------
(* The first of two sequences, then the second.                            *)
LEMMA Joined ==
  ASSUME NEW S, NEW s \in Seq(S), NEW t \in Seq(S)
  PROVE  /\ s \o t \in Seq(S) /\ Len(s \o t) = Len(s) + Len(t)
         /\ \A k \in 1 .. Len(s) : (s \o t)[k] = s[k]
         /\ \A k \in 1 .. Len(t) : (s \o t)[Len(s) + k] = t[k]
  OBVIOUS

(* Sequences of one length with the same elements.                         *)
LEMMA Alike ==
  ASSUME NEW S, NEW s \in Seq(S), NEW t \in Seq(S), Len(s) = Len(t), \A k \in 1 .. Len(s) : s[k] = t[k]
  PROVE  s = t
OBVIOUS

(* The argument a conversion takes, and those it leaves.                   *)
LEMMA Behead ==
  ASSUME NEW S, NEW x \in S, NEW s \in Seq(S)
  PROVE  Head(<<x>> \o s) = x /\ Tail(<<x>> \o s) = s
<1>1. PICK u : u = <<x>> \o s
  OBVIOUS
<1>2. u \in Seq(S) /\ Len(u) = Len(s) + 1 /\ u[1] = x /\ \A k \in 1 .. Len(s) : u[k + 1] = s[k]
  BY <1>1
<1>3. Tail(u) \in Seq(S) /\ Len(Tail(u)) = Len(s) /\ \A k \in 1 .. Len(s) : Tail(u)[k] = s[k]
  BY <1>2
<1>4. Tail(u) = s
  BY <1>3
<1> QED
  BY <1>1, <1>2, <1>4

(* Appending in either order of grouping.                                  *)
LEMMA Regroup ==
  ASSUME NEW S, NEW s \in Seq(S), NEW t \in Seq(S), NEW u \in Seq(S)
  PROVE  (s \o t) \o u = s \o (t \o u)
  OBVIOUS

(* A part that is not there.                                               *)
LEMMA NoneBefore ==
  ASSUME NEW S, NEW s \in Seq(S)
  PROVE  <<>> \o s = s /\ s \o <<>> = s
  OBVIOUS

(* The least of a set, when it is known.                                   *)
LEMMA LeastIs ==
  ASSUME NEW S \in SUBSET Int, NEW e \in S, \A y \in S : e <= y
  PROVE  Min(S) = e
<1>1. \E x \in S : \A y \in S : x <= y
  OBVIOUS
<1>2. PICK m : m = Min(S)
  OBVIOUS
<1>3. m \in S /\ \A y \in S : m <= y
  BY <1>1, <1>2 DEF Min
<1>4. m \in Int /\ e \in Int /\ m <= e /\ e <= m
  BY <1>3
<1> QED
  BY <1>2, <1>4

(* And the greatest.                                                       *)
LEMMA GreatestIs ==
  ASSUME NEW S \in SUBSET Int, NEW e \in S, \A y \in S : y <= e
  PROVE  Max(S) = e
<1>1. \E x \in S : \A y \in S : x >= y
  OBVIOUS
<1>2. PICK m : m = Max(S)
  OBVIOUS
<1>3. m \in S /\ \A y \in S : m >= y
  BY <1>1, <1>2 DEF Max
<1>4. m \in Int /\ e \in Int /\ m <= e /\ e <= m
  BY <1>3
<1> QED
  BY <1>2, <1>4

(* The characters vprintfmt takes for digits.                              *)
LEMMA DecimalDigits ==
  /\ DOMAIN DecimalDigit = {"0", "1", "2", "3", "4", "5", "6", "7", "8", "9"}
  /\ \A c \in DOMAIN DecimalDigit : DecimalDigit[c] \in Int
<1>1. \A n \in 0 .. 9 : n = 0 \/ n = 1 \/ n = 2 \/ n = 3 \/ n = 4 \/ n = 5 \/ n = 6 \/ n = 7 \/ n = 8 \/ n = 9
  OBVIOUS
<1>2. /\ DigitChar(0) = "0" /\ DigitChar(1) = "1" /\ DigitChar(2) = "2" /\ DigitChar(3) = "3"
      /\ DigitChar(4) = "4" /\ DigitChar(5) = "5" /\ DigitChar(6) = "6" /\ DigitChar(7) = "7"
      /\ DigitChar(8) = "8" /\ DigitChar(9) = "9"
  BY DEF DigitChar
<1>3. {DigitChar(n) : n \in 0 .. 9} = {"0", "1", "2", "3", "4", "5", "6", "7", "8", "9"}
  BY <1>1, <1>2
<1>4. DOMAIN DecimalDigit = {DigitChar(n) : n \in 0 .. 9}
  BY DEF DecimalDigit
<1>5. ASSUME NEW c \in DOMAIN DecimalDigit PROVE DecimalDigit[c] \in Int
  <2>1. \E n \in 0 .. 9 : c = DigitChar(n)
    BY <1>4
  <2>2. DecimalDigit[c] = CHOOSE n \in 0 .. 9 : c = DigitChar(n)
    BY <1>4 DEF DecimalDigit
  <2>3. DecimalDigit[c] \in 0 .. 9
    BY <2>1, <2>2
  <2> QED
    BY <2>3
<1> QED
  BY <1>3, <1>4, <1>5

(* One or two digits make a number.                                        *)
LEMMA DecimalFits ==
  ASSUME NEW s, Len(s) \in 1 .. 2, \A k \in 1 .. Len(s) : s[k] \in DOMAIN DecimalDigit
  PROVE  Decimal(s) \in Int
<1>1. PICK n \in 1 .. 2 : n = Len(s)
  OBVIOUS
<1>2. PICK g : g = [k \in 1 .. n |-> DecimalDigit[s[k]]]
  OBVIOUS
<1>3. \A k \in 1 .. n : g[k] \in Int
  BY <1>1, <1>2, DecimalDigits
<1> DEFINE Eq(v) == v = [k \in 0 .. Len(s) |-> IF k = 0 THEN 0 ELSE 10 * v[k - 1] + DecimalDigit[s[k]]]
           w == [k \in 0 .. n |-> IF k = 0 THEN 0 ELSE IF k = 1 THEN g[1] ELSE 10 * g[1] + g[2]]
<1>4. Eq(w)
  <2>1. \A k \in 0 .. n : k # 0 => k \in 1 .. n /\ k - 1 \in 0 .. n /\ DecimalDigit[s[k]] = g[k]
    BY <1>1, <1>2
  <2>2. ASSUME NEW k \in 0 .. n, k # 0 PROVE w[k] = 10 * w[k - 1] + g[k]
    <3>1. CASE k = 1
      BY <1>3, <3>1
    <3>2. CASE k = 2
      BY <1>3, <2>2, <3>2
    <3> QED
      BY <2>2, <3>1, <3>2
  <2>3. \A k \in 0 .. n : w[k] = IF k = 0 THEN 0 ELSE 10 * w[k - 1] + DecimalDigit[s[k]]
    BY <2>1, <2>2
  <2>4. w = [k \in 0 .. n |-> w[k]]
    OBVIOUS
  <2> HIDE DEF w
  <2> QED
    BY <1>1, <2>3, <2>4
<1>5. PICK v : v = CHOOSE u : Eq(u)
  OBVIOUS
<1>6. Eq(v)
  <2> HIDE DEF Eq, w
  <2> QED
    BY <1>4, <1>5, Zenon
<1>7. \A k \in 1 .. n : v[k] = 10 * v[k - 1] + g[k]
  BY <1>1, <1>2, <1>6
<1>8. v[0] = 0
  BY <1>1, <1>6
<1>9. v[1] \in Int /\ (n = 2 => v[2] \in Int)
  <2>1. 1 \in 1 .. n /\ (n = 2 => 2 \in 1 .. n)
    OBVIOUS
  <2>2. v[1] = 10 * v[0] + g[1]
    BY <1>7, <2>1
  <2>3. v[1] \in Int
    BY <1>3, <1>8, <2>1, <2>2
  <2>4. n = 2 => v[2] = 10 * v[1] + g[2]
    BY <1>7, <2>1
  <2> QED
    BY <1>3, <2>1, <2>3, <2>4
<1>10. Decimal(s) = v[n]
  BY <1>1, <1>5 DEF Decimal
<1> QED
  BY <1>1, <1>9, <1>10

(* The parts of a directive and what stands in each.                       *)
LEMMA Parts ==
  ASSUME FormatOK
  PROVE  /\ AfterFlags \in Nat /\ AfterFlags >= 1
         /\ \/ asked.d.width = <<>> /\ AfterWidth = AfterFlags
            \/ asked.d.width = <<"4">> /\ AfterWidth = AfterFlags + 1 /\ fmt[AfterFlags + 1] = "4"
            \/ asked.d.width = <<"*">> /\ AfterWidth = AfterFlags + 1 /\ fmt[AfterFlags + 1] = "*"
            \/ /\ asked.d.width = <<"1", "0">> /\ AfterWidth = AfterFlags + 2
               /\ fmt[AfterFlags + 1] = "1" /\ fmt[AfterFlags + 2] = "0"
         /\ \/ asked.d.precision = <<>> /\ AfterPrecision = AfterWidth
            \/ /\ asked.d.precision = <<"1">> /\ AfterPrecision = AfterWidth + 2
               /\ fmt[AfterWidth + 1] = "." /\ fmt[AfterWidth + 2] = "1"
            \/ /\ asked.d.precision = <<"*">> /\ AfterPrecision = AfterWidth + 2
               /\ fmt[AfterWidth + 1] = "." /\ fmt[AfterWidth + 2] = "*"
         /\ asked.d.l \in 0 .. 2 /\ ConvAt = AfterPrecision + asked.d.l + 1
         /\ asked.d.conv \in Numeric \cup {"s", "c", "e", "%", "q", "nul"}
<1>1. PICK flags, width, precision, l :
        flags = asked.d.flags /\ width = asked.d.width /\ precision = asked.d.precision /\ l = asked.d.l
  OBVIOUS
<1>2. /\ flags \in {<<>>, <<"-">>, <<"0">>, <<"#">>, <<"#", "-">>, <<"#", "0">>}
      /\ width \in {<<>>, <<"4">>, <<"1", "0">>, <<"*">>}
      /\ precision \in {<<>>, <<"1">>, <<"*">>} /\ l \in 0 .. 2
      /\ asked.d.conv \in Numeric \cup {"s", "c", "e", "%", "q", "nul"}
  BY <1>1 DEF FormatOK, Directives, FieldWidths
<1>3. Len(flags) \in Nat
  BY <1>2
<1>4. AfterFlags \in Nat /\ AfterFlags >= 1
  BY <1>1, <1>3 DEF AfterFlags
<1>5. /\ \A k \in 1 .. Len(width) : fmt[AfterFlags + k] = width[k]
      /\ AfterWidth = AfterFlags + Len(width)
  BY <1>1 DEF FormatOK, AfterWidth
<1>6. \/ width = <<>> /\ AfterWidth = AfterFlags
      \/ width = <<"4">> /\ AfterWidth = AfterFlags + 1 /\ fmt[AfterFlags + 1] = "4"
      \/ width = <<"*">> /\ AfterWidth = AfterFlags + 1 /\ fmt[AfterFlags + 1] = "*"
      \/ /\ width = <<"1", "0">> /\ AfterWidth = AfterFlags + 2
         /\ fmt[AfterFlags + 1] = "1" /\ fmt[AfterFlags + 2] = "0"
  <2>1. CASE width = <<>>
    BY <1>4, <1>5, <2>1
  <2>2. CASE width = <<"4">>
    BY <1>4, <1>5, <2>2
  <2>3. CASE width = <<"*">>
    BY <1>4, <1>5, <2>3
  <2>4. CASE width = <<"1", "0">>
    BY <1>4, <1>5, <2>4
  <2> QED
    BY <1>2, <2>1, <2>2, <2>3, <2>4
<1>7. /\ precision # <<>> => fmt[AfterWidth + 1] = "." /\ fmt[AfterWidth + 2] = precision[1]
      /\ AfterPrecision = AfterWidth + (IF precision = <<>> THEN 0 ELSE 2)
  BY <1>1 DEF FormatOK, AfterPrecision
<1>8. \/ precision = <<>> /\ AfterPrecision = AfterWidth
      \/ /\ precision = <<"1">> /\ AfterPrecision = AfterWidth + 2
         /\ fmt[AfterWidth + 1] = "." /\ fmt[AfterWidth + 2] = "1"
      \/ /\ precision = <<"*">> /\ AfterPrecision = AfterWidth + 2
         /\ fmt[AfterWidth + 1] = "." /\ fmt[AfterWidth + 2] = "*"
  <2>0. AfterWidth \in Int
    BY <1>4, <1>6
  <2>1. CASE precision = <<>>
    BY <1>7, <2>0, <2>1
  <2>2. CASE precision = <<"1">>
    BY <1>7, <2>2
  <2>3. CASE precision = <<"*">>
    BY <1>7, <2>3
  <2> QED
    BY <1>2, <2>1, <2>2, <2>3
<1>9. ConvAt = AfterPrecision + l + 1
  BY <1>1 DEF ConvAt
<1> QED
  BY <1>1, <1>2, <1>4, <1>6, <1>8, <1>9

(* The format is rendered part by part.                                    *)
LEMMA FormatInit == Init => FormatOK /\ AskedOK /\ ap = WidthsArguments
<1> SUFFICES ASSUME Init PROVE FormatOK /\ AskedOK /\ ap = WidthsArguments
  OBVIOUS
<1>1. PICK d \in Directives, size \in Sizes, null \in BOOLEAN :
        \E width \in StarArgument(d.width), precision \in StarArgument(d.precision), arg \in Argument(d.conv) :
            /\ asked = [d |-> d, width |-> width, precision |-> precision, arg |-> arg,
                        size |-> size, null |-> null]
            /\ ap = Takes(d, width, precision, arg) \o <<NextWord>>
  BY DEF Init
<1>2. PICK width \in StarArgument(d.width), precision \in StarArgument(d.precision), arg \in Argument(d.conv) :
        /\ asked = [d |-> d, width |-> width, precision |-> precision, arg |-> arg,
                    size |-> size, null |-> null]
        /\ ap = Takes(d, width, precision, arg) \o <<NextWord>>
  BY <1>1
<1>3. asked.d = d /\ asked.width = width /\ asked.precision = precision /\ asked.arg = arg
  BY <1>2
<1>4. width \in Int /\ precision \in Int
  BY PrintAssumption DEF StarArgument
<1>5. PICK fl, wd, pr, l, cv :
        fl = d.flags /\ wd = d.width /\ pr = d.precision /\ l = d.l /\ cv = d.conv
  OBVIOUS
<1>6. /\ fl \in {<<>>, <<"-">>, <<"0">>, <<"#">>, <<"#", "-">>, <<"#", "0">>}
      /\ wd \in {<<>>, <<"4">>, <<"1", "0">>, <<"*">>}
      /\ pr \in {<<>>, <<"1">>, <<"*">>} /\ l \in 0 .. 2
      /\ cv \in Numeric \cup {"s", "c", "e", "%", "q", "nul"}
  BY <1>5 DEF Directives, FieldWidths
<1>7. FormatOK /\ AskedOK
  <2> PICK T : T = Signs
    OBVIOUS
  <2>0. /\ "%" \in T /\ "-" \in T /\ "0" \in T /\ "#" \in T /\ "4" \in T /\ "1" \in T /\ "*" \in T
        /\ "." \in T /\ "l" \in T /\ "a" \in T /\ "nul" \in T /\ "d" \in T /\ cv \in T
    BY <1>6 DEF Signs, Numeric
  <2>1. /\ fl \in Seq(T) /\ \A k \in 1 .. Len(fl) : fl[k] \in {"-", "0", "#"}
        /\ wd \in Seq(T) /\ cv \in T
    <3>1. fl \in Seq(T) /\ \A k \in 1 .. Len(fl) : fl[k] \in {"-", "0", "#"}
      <4>1. CASE fl = <<>>
        BY <4>1
      <4>2. CASE fl = <<"-">>
        BY <2>0, <4>2
      <4>3. CASE fl = <<"0">>
        BY <2>0, <4>3
      <4>4. CASE fl = <<"#">>
        BY <2>0, <4>4
      <4>5. CASE fl = <<"#", "-">>
        BY <2>0, <4>5
      <4>6. CASE fl = <<"#", "0">>
        BY <2>0, <4>6
      <4> QED
        BY <1>6, <4>1, <4>2, <4>3, <4>4, <4>5, <4>6
    <3>2. wd \in Seq(T)
      <4>1. CASE wd = <<>>
        BY <4>1
      <4>2. CASE wd = <<"4">>
        BY <2>0, <4>2
      <4>3. CASE wd = <<"1", "0">>
        BY <2>0, <4>3
      <4>4. CASE wd = <<"*">>
        BY <2>0, <4>4
      <4> QED
        BY <1>6, <4>1, <4>2, <4>3, <4>4
    <3> QED
      BY <2>0, <3>1, <3>2
  <2>2. PICK pt : pt = IF pr = <<>> THEN <<>> ELSE <<".">> \o pr
    OBVIOUS
  <2>3. /\ pt \in Seq(T) /\ Len(pt) = IF pr = <<>> THEN 0 ELSE 2
        /\ pr # <<>> => pt[1] = "." /\ pt[2] = pr[1]
    <3>1. CASE pr = <<>>
      BY <2>2, <3>1
    <3>2. CASE pr = <<"1">>
      <4>1. pt = <<".">> \o <<"1">>
        BY <2>2, <3>2
      <4>2. <<".">> \in Seq(T) /\ <<"1">> \in Seq(T)
        BY <2>0
      <4>3. pt \in Seq(T)
        BY <4>1, <4>2
      <4>4. Len(pt) = 2 /\ pt[1] = "." /\ pt[2] = "1"
        BY <4>1
      <4> QED
        BY <3>2, <4>3, <4>4
    <3>3. CASE pr = <<"*">>
      <4>1. pt = <<".">> \o <<"*">>
        BY <2>2, <3>3
      <4>2. <<".">> \in Seq(T) /\ <<"*">> \in Seq(T)
        BY <2>0
      <4>3. pt \in Seq(T)
        BY <4>1, <4>2
      <4>4. Len(pt) = 2 /\ pt[1] = "." /\ pt[2] = "*"
        BY <4>1
      <4> QED
        BY <3>3, <4>3, <4>4
    <3> QED
      BY <1>6, <3>1, <3>2, <3>3
  <2>4. PICK ls : ls = [k \in 1 .. l |-> "l"]
    OBVIOUS
  <2>5. ls \in Seq(T) /\ Len(ls) = l /\ \A k \in 1 .. l : ls[k] = "l"
    BY <1>6, <2>0, <2>4
  <2>6. PICK s1 : s1 = <<"%">> \o fl
    OBVIOUS
  <2>7. s1 \in Seq(T) /\ Len(s1) = 1 + Len(fl) /\ s1[1] = "%" /\ \A k \in 1 .. Len(fl) : s1[1 + k] = fl[k]
    <3>1. <<"%">> \in Seq(T) /\ fl \in Seq(T)
      BY <2>0, <2>1
    <3> QED
      BY <2>6, <3>1
  <2>8. PICK s2 : s2 = s1 \o wd
    OBVIOUS
  <2>9. /\ s2 \in Seq(T) /\ Len(s2) = Len(s1) + Len(wd)
        /\ \A k \in 1 .. Len(s1) : s2[k] = s1[k]
        /\ \A k \in 1 .. Len(wd) : s2[Len(s1) + k] = wd[k]
    <3>1. s1 \in Seq(T) /\ wd \in Seq(T)
      BY <2>1, <2>7
    <3> QED
      BY <2>8, <3>1, Joined
  <2>10. PICK s3 : s3 = s2 \o pt
    OBVIOUS
  <2>11. /\ s3 \in Seq(T) /\ Len(s3) = Len(s2) + Len(pt)
         /\ \A k \in 1 .. Len(s2) : s3[k] = s2[k]
         /\ \A k \in 1 .. Len(pt) : s3[Len(s2) + k] = pt[k]
    <3>1. s2 \in Seq(T) /\ pt \in Seq(T)
      BY <2>3, <2>9
    <3> QED
      BY <2>10, <3>1, Joined
  <2>12. PICK s4 : s4 = s3 \o ls
    OBVIOUS
  <2>13. /\ s4 \in Seq(T) /\ Len(s4) = Len(s3) + Len(ls)
         /\ \A k \in 1 .. Len(s3) : s4[k] = s3[k]
         /\ \A k \in 1 .. Len(ls) : s4[Len(s3) + k] = ls[k]
    <3>1. s3 \in Seq(T) /\ ls \in Seq(T)
      BY <2>5, <2>11
    <3> QED
      BY <2>12, <3>1, Joined
  <2>14. PICK s5 : s5 = s4 \o <<cv>>
    OBVIOUS
  <2>15. /\ s5 \in Seq(T) /\ Len(s5) = Len(s4) + 1
         /\ \A k \in 1 .. Len(s4) : s5[k] = s4[k]
         /\ s5[Len(s4) + 1] = cv
    BY <2>1, <2>13, <2>14
  <2>16. Render(d) = s5
    BY <1>5, <2>2, <2>4, <2>6, <2>8, <2>10, <2>12, <2>14 DEF Render
  <2>17. fmt = IF cv = "nul" THEN s5 ELSE s5 \o <<"a", "%", "d", "nul">>
    BY <1>3, <1>5, <2>16 DEF Init
  <2>18. /\ fmt \in Seq(T) /\ \A k \in 1 .. Len(s5) : fmt[k] = s5[k]
         /\ IF cv = "nul" THEN Len(fmt) = Len(s5)
            ELSE /\ Len(fmt) = Len(s5) + 4
                 /\ fmt[Len(s5) + 1] = "a" /\ fmt[Len(s5) + 2] = "%" /\ fmt[Len(s5) + 3] = "d"
                 /\ fmt[Len(s5) + 4] = "nul"
    <3>1. PICK tl : tl = <<"a", "%", "d", "nul">>
      OBVIOUS
    <3>2. tl \in Seq(T) /\ Len(tl) = 4 /\ tl[1] = "a" /\ tl[2] = "%" /\ tl[3] = "d" /\ tl[4] = "nul"
      BY <2>0, <3>1
    <3>3. CASE cv = "nul"
      BY <2>15, <2>17, <3>3
    <3>4. CASE cv # "nul"
      <4>1. fmt = s5 \o tl
        BY <2>17, <3>1, <3>4
      <4>2. /\ fmt \in Seq(T) /\ Len(fmt) = Len(s5) + Len(tl)
            /\ \A k \in 1 .. Len(s5) : fmt[k] = s5[k]
            /\ \A k \in 1 .. Len(tl) : fmt[Len(s5) + k] = tl[k]
        <5>1. s5 \in Seq(T) /\ tl \in Seq(T)
          BY <2>15, <3>2
        <5> QED
          BY <4>1, <5>1, Joined
      <4> QED
        BY <3>2, <3>4, <4>2
    <3> QED
      BY <3>3, <3>4
  <2>19. PICK n1, n2, n3, n4, n5 : n1 = Len(s1) /\ n2 = Len(s2) /\ n3 = Len(s3) /\ n4 = Len(s4) /\ n5 = Len(s5)
    OBVIOUS
  <2>20. PICK nf, nw \in Nat : nf = Len(fl) /\ nw = Len(wd)
    BY <2>1
  <2>21. /\ n1 = 1 + nf /\ n2 = n1 + nw /\ n3 = n2 + (IF pr = <<>> THEN 0 ELSE 2) /\ n4 = n3 + l /\ n5 = n4 + 1
         /\ nf \in Nat /\ n1 \in Nat /\ n2 \in Nat /\ n3 \in Nat /\ n4 \in Nat /\ n5 \in Nat /\ l \in Nat
    BY <1>6, <2>3, <2>5, <2>7, <2>9, <2>11, <2>13, <2>15, <2>19, <2>20
  <2>22. AfterFlags = n1 /\ AfterWidth = n2 /\ AfterPrecision = n3 /\ ConvAt = n5
    BY <1>3, <1>5, <2>20, <2>21 DEF AfterFlags, AfterWidth, AfterPrecision, ConvAt
  <2>23. \A k \in 1 .. n4 : fmt[k] = s4[k]
    BY <2>15, <2>18, <2>19, <2>21
  <2>24. \A k \in 1 .. n3 : fmt[k] = s3[k]
    BY <2>13, <2>19, <2>21, <2>23
  <2>25. \A k \in 1 .. n2 : fmt[k] = s2[k]
    BY <2>11, <2>19, <2>21, <2>24
  <2>26. \A k \in 1 .. n1 : fmt[k] = s1[k]
    BY <2>9, <2>19, <2>21, <2>25
  <2>27. fmt[1] = "%" /\ \A k \in 2 .. n1 : fmt[k] \in {"-", "0", "#"}
    <3>1. 1 \in 1 .. n1 /\ fmt[1] = "%"
      BY <2>7, <2>21, <2>26
    <3>2. ASSUME NEW k \in 2 .. n1 PROVE fmt[k] \in {"-", "0", "#"}
      <4>1. PICK j \in 1 .. nf : k = 1 + j
        <5>1. k - 1 \in 1 .. nf /\ k = 1 + (k - 1)
          BY <2>21
        <5> QED
          BY <5>1
      <4>2. fmt[k] = s1[1 + j]
        BY <2>21, <2>26, <4>1
      <4> QED
        BY <2>1, <2>7, <2>20, <4>1, <4>2
    <3> QED
      BY <3>1, <3>2
  <2>28. \A k \in 1 .. nw : fmt[n1 + k] = wd[k]
    <3>1. \A k \in 1 .. nw : n1 + k \in 1 .. n2
      BY <2>21
    <3> QED
      BY <2>9, <2>19, <2>20, <2>25, <3>1
  <2>29. pr # <<>> => fmt[n2 + 1] = "." /\ fmt[n2 + 2] = pr[1]
    <3>1. pr # <<>> => n2 + 1 \in 1 .. n3 /\ n2 + 2 \in 1 .. n3
      BY <2>21
    <3>2. pr # <<>> => s3[n2 + 1] = pt[1] /\ s3[n2 + 2] = pt[2]
      BY <2>3, <2>11, <2>19
    <3> QED
      BY <2>3, <2>24, <3>1, <3>2
  <2>30. \A k \in n3 + 1 .. n5 - 1 : fmt[k] = "l"
    <3> TAKE k \in n3 + 1 .. n5 - 1
    <3>1. PICK j \in 1 .. l : k = n3 + j
      <4>1. k - n3 \in 1 .. l /\ k = n3 + (k - n3)
        BY <2>21
      <4> QED
        BY <4>1
    <3>2. fmt[k] = s4[n3 + j]
      BY <2>21, <2>23, <3>1
    <3> QED
      BY <2>5, <2>13, <2>19, <3>1, <3>2
  <2>31. fmt[n5] = cv
    BY <2>15, <2>18, <2>19, <2>21
  <2>32. cv = "s" => arg = NULL \/ arg \in Seq({"a", "ctl"})
    <3> SUFFICES ASSUME cv = "s" PROVE arg = NULL \/ arg \in Seq({"a", "ctl"})
      OBVIOUS
    <3>1. arg \in BoundedSeq({"a", "ctl"}, MaxText) \cup {NULL}
      BY <1>5, Zenon DEF Argument
    <3> PICK S : S = {"a", "ctl"}
      OBVIOUS
    <3>2. \A x \in BoundedSeq(S, MaxText) : x \in Seq(S)
      BY DEF BoundedSeq, SeqOf
    <3> QED
      BY <3>1, <3>2
  <2>33. FormatOK
    BY <1>3, <1>4, <1>5, <2>32, <2>18, <2>19, <2>20, <2>22, <2>27, <2>28, <2>29, <2>30, <2>31 DEF FormatOK
  <2>34. SubSeq(fmt, 1, n5) = s5
    <3>1. fmt \in Seq(T) /\ s5 \in Seq(T) /\ Len(s5) = n5 /\ n5 \in Nat /\ n5 <= Len(fmt)
      BY <2>15, <2>18, <2>19, <2>21
    <3>2. PICK u : u = SubSeq(fmt, 1, n5)
      OBVIOUS
    <3>3. u \in Seq(T) /\ Len(u) = n5 /\ \A k \in 1 .. n5 : u[k] = fmt[k]
      BY <3>1, <3>2
    <3>4. \A k \in 1 .. n5 : u[k] = s5[k]
      BY <2>18, <2>19, <3>3
    <3>5. u = s5
      BY <3>1, <3>3, <3>4, Alike
    <3> QED
      BY <3>2, <3>5
  <2>35. \A k \in 1 .. nf : fmt[k + 1] = fl[k]
    <3> TAKE k \in 1 .. nf
    <3>1. k + 1 \in 1 .. n1 /\ k + 1 = 1 + k
      BY <2>21
    <3> QED
      BY <2>7, <2>20, <2>26, <3>1
  <2>36. cv \in Numeric \cup {"e"} => arg \in 0 .. 2 * LongMax + 1
    <3> SUFFICES ASSUME cv \in Numeric \cup {"e"} PROVE arg \in 0 .. 2 * LongMax + 1
      OBVIOUS
    <3>1. cv # "s" /\ cv # "c"
      BY DEF Numeric
    <3>2. arg \in Words
      BY <1>5, <3>1, Zenon DEF Argument
    <3> QED
      BY <3>2, PrintAssumption
  <2>37. AskedOK
    BY <1>3, <1>5, <2>16, <2>20, <2>22, <2>34, <2>35, <2>36 DEF AskedOK
  <2> QED
    BY <2>33, <2>37
<1>8. ap = WidthsArguments
  <2> DEFINE S == {width, precision, arg, NextWord}
  <2>1. PICK a : a = IF cv \in Numeric \cup {"s", "c", "e"} THEN <<arg>> ELSE <<>>
    OBVIOUS
  <2>2. PICK p0 : p0 = IF pr = <<"*">> THEN <<precision>> ELSE <<>>
    OBVIOUS
  <2>3. PICK w : w = IF wd = <<"*">> THEN <<width>> ELSE <<>>
    OBVIOUS
  <2>4. ap = ((w \o p0) \o a) \o <<NextWord>>
    BY <1>2, <1>5, <2>1, <2>2, <2>3 DEF Takes
  <2>5. a \in Seq(S) /\ p0 \in Seq(S) /\ w \in Seq(S) /\ <<NextWord>> \in Seq(S)
    <3>1. <<>> \in Seq(S) /\ <<arg>> \in Seq(S) /\ <<precision>> \in Seq(S)
         /\ <<width>> \in Seq(S) /\ <<NextWord>> \in Seq(S)
      OBVIOUS
    <3> QED
      BY <2>1, <2>2, <2>3, <3>1, Zenon
  <2>6. PICK u : u = a \o <<NextWord>>
    OBVIOUS
  <2>7. u \in Seq(S) /\ p0 \o u \in Seq(S) /\ w \o p0 \in Seq(S)
    BY <2>5, <2>6
  <2>8. ap = (w \o p0) \o u
    <3> HIDE DEF S
    <3>1. PICK wp, nw : wp = w \o p0 /\ nw = <<NextWord>>
      OBVIOUS
    <3>2. wp \in Seq(S) /\ a \in Seq(S) /\ nw \in Seq(S)
      BY <2>5, <2>7, <3>1
    <3>3. (wp \o a) \o nw = wp \o (a \o nw)
      BY <3>2, Regroup
    <3> QED
      BY <2>4, <2>6, <3>1, <3>3, Zenon
  <2>9. ap = w \o (p0 \o u)
    <3> HIDE DEF S
    <3>0. u \in Seq(S)
      BY <2>7
    <3>1. (w \o p0) \o u = w \o (p0 \o u)
      BY <2>5, <2>7, <3>0, Regroup
    <3> QED
      BY <2>8, <3>1, Zenon
  <2>10. u = ConversionsArguments
    <3>2. <<>> \o <<NextWord>> = <<NextWord>>
      BY <2>5, NoneBefore
    <3> QED
      BY <1>3, <1>5, <2>1, <2>6, <3>2 DEF ConversionsArguments
  <2>11. p0 \o u = PrecisionsArguments
    BY <1>3, <1>5, <2>2, <2>7, <2>10, NoneBefore DEF PrecisionsArguments
  <2>12. w \o (p0 \o u) = WidthsArguments
    BY <1>3, <1>5, <2>3, <2>7, <2>11, NoneBefore DEF WidthsArguments
  <2> QED
    BY <2>9, <2>12
<1> QED
  BY <1>7, <1>8

(* A step leaves the format and the arguments it was given alone.          *)
LEMMA Static ==
  ASSUME asked' = asked, fmt' = fmt
  PROVE  /\ AfterFlags' = AfterFlags /\ AfterWidth' = AfterWidth
         /\ AfterPrecision' = AfterPrecision /\ ConvAt' = ConvAt
         /\ WidthsArguments' = WidthsArguments /\ PrecisionsArguments' = PrecisionsArguments
         /\ ConversionsArguments' = ConversionsArguments
         /\ FormatOK => FormatOK'
<1>1. AfterFlags' = AfterFlags
  BY DEF AfterFlags
<1>2. AfterWidth' = AfterWidth
  BY <1>1 DEF AfterWidth
<1>3. AfterPrecision' = AfterPrecision
  BY <1>2 DEF AfterPrecision
<1>4. ConvAt' = ConvAt
  BY <1>3 DEF ConvAt
<1>5. ConversionsArguments' = ConversionsArguments
  BY DEF ConversionsArguments
<1>6. PrecisionsArguments' = PrecisionsArguments
  BY <1>5 DEF PrecisionsArguments
<1>7. WidthsArguments' = WidthsArguments
  BY <1>6 DEF WidthsArguments
<1>8. FormatOK => FormatOK'
  BY <1>1, <1>2, <1>3, <1>4 DEF FormatOK
<1> QED
  BY <1>1, <1>2, <1>3, <1>4, <1>5, <1>6, <1>7, <1>8

(* The format is only read.                                                *)
LEMMA FormatKept == Next => asked' = asked /\ fmt' = fmt
BY DEF Next, Vsnprintf, ScanPlain, ScanDirective, Terminate, PadFlag, Alternate, Long, Point, Star,
       Width, ProcessPrecision, Reswitch, Character, Percent, Literal, Number, ErrorCode, Emit,
       String, PadLeft, Characters, PadRight, Fixed

(* What f may stand on in the directive, and the arguments left there.     *)
LEMMA SwitchAt ==
  ASSUME FormatOK, InDirective
  PROVE  \/ f \in 2 .. AfterFlags /\ fmt[f] \in {"-", "0", "#"}
         \/ /\ f = AfterFlags + 1 /\ asked.d.width # <<>> /\ ap = WidthsArguments
            /\ \/ fmt[f] = "*" /\ asked.d.width = <<"*">>
               \/ fmt[f] \in {"4", "1"} /\ asked.d.width # <<"*">>
         \/ f = AfterWidth + 1 /\ asked.d.precision # <<>> /\ fmt[f] = "." /\ ap = PrecisionsArguments
         \/ /\ f = AfterWidth + 2 /\ asked.d.precision # <<>> /\ ap = PrecisionsArguments
            /\ \/ fmt[f] = "*" /\ asked.d.precision = <<"*">>
               \/ fmt[f] = "1" /\ asked.d.precision = <<"1">>
         \/ f \in AfterPrecision + 1 .. ConvAt - 1 /\ fmt[f] = "l" /\ ap = ConversionsArguments
         \/ f = ConvAt /\ fmt[f] = asked.d.conv /\ ap = ConversionsArguments
<1>1. PICK af, aw, ax, c : af = AfterFlags /\ aw = AfterWidth /\ ax = AfterPrecision /\ c = ConvAt
  OBVIOUS
<1>2. PICK width, precision, l : width = asked.d.width /\ precision = asked.d.precision /\ l = asked.d.l
  OBVIOUS
<1>0. PICK none, four, star, ten, one :
        none = <<>> /\ four = <<"4">> /\ star = <<"*">> /\ ten = <<"1", "0">> /\ one = <<"1">>
  OBVIOUS
<1>3. /\ af \in Nat /\ af >= 1
      /\ \/ width = none /\ aw = af
         \/ width = four /\ aw = af + 1 /\ fmt[af + 1] = "4"
         \/ width = star /\ aw = af + 1 /\ fmt[af + 1] = "*"
         \/ width = ten /\ aw = af + 2 /\ fmt[af + 1] = "1"
      /\ \/ precision = none /\ ax = aw
         \/ precision = one /\ ax = aw + 2 /\ fmt[aw + 1] = "." /\ fmt[aw + 2] = "1"
         \/ precision = star /\ ax = aw + 2 /\ fmt[aw + 1] = "." /\ fmt[aw + 2] = "*"
      /\ l \in 0 .. 2 /\ c = ax + l + 1
  BY <1>0, <1>1, <1>2, Parts
<1>4. /\ f \in 2 .. c /\ (width = ten => f # af + 2)
      /\ ap = IF f <= af + 1 THEN WidthsArguments
              ELSE IF f <= aw + 2 THEN PrecisionsArguments
              ELSE ConversionsArguments
  BY <1>0, <1>1, <1>2 DEF InDirective
<1>5. /\ width # star => WidthsArguments = PrecisionsArguments
      /\ precision # star => PrecisionsArguments = ConversionsArguments
  BY <1>0, <1>2 DEF WidthsArguments, PrecisionsArguments
<1>6. /\ \A k \in 2 .. af : fmt[k] \in {"-", "0", "#"}
      /\ \A k \in ax + 1 .. c - 1 : fmt[k] = "l"
      /\ fmt[c] = asked.d.conv
  BY <1>1 DEF FormatOK
<1>7. /\ four # none /\ star # none /\ ten # none /\ one # none
      /\ four # star /\ ten # star /\ one # star
  <2>1. /\ Len(four) = 1 /\ Len(star) = 1 /\ Len(one) = 1 /\ Len(none) = 0 /\ Len(ten) = 2
        /\ four[1] = "4" /\ star[1] = "*" /\ one[1] = "1"
    BY <1>0
  <2> QED
    BY <2>1
<1>12. PICK W, P, C : W = WidthsArguments /\ P = PrecisionsArguments /\ C = ConversionsArguments
  OBVIOUS
<1>13. SUFFICES
         \/ f \in 2 .. af /\ fmt[f] \in {"-", "0", "#"}
         \/ /\ f = af + 1 /\ width # none /\ ap = W
            /\ (fmt[f] = "*" /\ width = star) \/ (fmt[f] \in {"4", "1"} /\ width # star)
         \/ f = aw + 1 /\ precision # none /\ fmt[f] = "." /\ ap = P
         \/ /\ f = aw + 2 /\ precision # none /\ ap = P
            /\ (fmt[f] = "*" /\ precision = star) \/ (fmt[f] = "1" /\ precision = one)
         \/ f \in ax + 1 .. c - 1 /\ fmt[f] = "l" /\ ap = C
         \/ f = c /\ fmt[f] = asked.d.conv /\ ap = C
  BY <1>0, <1>1, <1>2, <1>12
<1>14. /\ ap = IF f <= af + 1 THEN W ELSE IF f <= aw + 2 THEN P ELSE C
       /\ (width # star => W = P) /\ (precision # star => P = C)
  BY <1>4, <1>5, <1>12
<1>8. CASE f <= af
  BY <1>3, <1>4, <1>6, <1>8
<1>9. CASE f > af /\ f <= aw
  <2>1. f = af + 1 /\ ap = W
    BY <1>3, <1>4, <1>14, <1>9
  <2>2. width # none /\ ((fmt[af + 1] = "*" /\ width = star) \/ (fmt[af + 1] \in {"4", "1"} /\ width # star))
    <3>0. f \in Int /\ af \in Int /\ ((width = none /\ aw = af) \/ width \in {four, star, ten})
      BY <1>3, <1>4
    <3>1. width # none
      <4>1. aw # af
        BY <1>9, <3>0
      <4> QED
        BY <1>7, <3>0, <4>1
    <3> QED
      BY <1>3, <1>7, <3>1
  <2> QED
    BY <2>1, <2>2
<1>10. CASE f > aw /\ f <= ax
  <2>1. precision # none /\ (f = aw + 1 \/ f = aw + 2)
    BY <1>3, <1>4, <1>7, <1>10
  <2>2. ap = P
    <3>1. aw = af => W = P
      BY <1>3, <1>7, <1>14
    <3>2. aw > af \/ aw = af
      BY <1>3
    <3> QED
      BY <1>3, <1>14, <2>1, <3>1, <3>2
  <2>3. \/ fmt[aw + 1] = "." /\ fmt[aw + 2] = "1" /\ precision = one
        \/ fmt[aw + 1] = "." /\ fmt[aw + 2] = "*" /\ precision = star
    BY <1>3, <2>1
  <2>4. CASE f = aw + 1
    BY <2>1, <2>2, <2>3, <2>4
  <2>5. CASE f = aw + 2
    BY <2>1, <2>2, <2>3, <2>5
  <2> QED
    BY <2>1, <2>4, <2>5
<1>11. CASE f > ax
  <2>1. ap = C
    <3>1. (aw = af => W = P) /\ (ax = aw => P = C)
      BY <1>3, <1>7, <1>14
    <3> QED
      BY <1>3, <1>4, <1>11, <1>14, <3>1
  <2>2. f \in ax + 1 .. c - 1 \/ f = c
    BY <1>3, <1>4, <1>11
  <2> QED
    BY <1>6, <2>1, <2>2
<1> QED
  BY <1>3, <1>4, <1>8, <1>9, <1>10, <1>11

(* From one part to the next.                                              *)
LEMMA Advance ==
  ASSUME FormatOK, InDirective, asked' = asked, fmt' = fmt,
         \/ f \in 2 .. AfterFlags /\ f' = f + 1 /\ ap' = ap /\ dir'.lflag = dir.lflag
         \/ /\ f = AfterFlags + 1 /\ f' = AfterWidth + 1 /\ asked.d.width # <<>>
            /\ ap' = PrecisionsArguments /\ dir'.lflag = dir.lflag
         \/ /\ f = AfterWidth + 1 /\ f' = f + 1 /\ asked.d.precision # <<>>
            /\ ap' = PrecisionsArguments /\ dir'.lflag = dir.lflag
         \/ /\ f = AfterWidth + 2 /\ f' = f + 1 /\ asked.d.precision # <<>>
            /\ ap' = ConversionsArguments /\ dir'.lflag = dir.lflag
         \/ /\ f \in AfterPrecision + 1 .. ConvAt - 1 /\ f' = f + 1
            /\ ap' = ConversionsArguments /\ dir'.lflag = dir.lflag + 1
  PROVE  InDirective' /\ (dir.lflag \in 0 .. 2 => dir'.lflag \in 0 .. 2)
<1>1. PICK af, aw, ax, c : af = AfterFlags /\ aw = AfterWidth /\ ax = AfterPrecision /\ c = ConvAt
  OBVIOUS
<1>2. PICK width, precision, l : width = asked.d.width /\ precision = asked.d.precision /\ l = asked.d.l
  OBVIOUS
<1>0. PICK none, four, star, ten : none = <<>> /\ four = <<"4">> /\ star = <<"*">> /\ ten = <<"1", "0">>
  OBVIOUS
<1>3. PICK W, P, C : W = WidthsArguments /\ P = PrecisionsArguments /\ C = ConversionsArguments
  OBVIOUS
<1>4. /\ af \in Nat /\ af >= 1
      /\ \/ width = none /\ aw = af
         \/ width = four /\ aw = af + 1
         \/ width = star /\ aw = af + 1
         \/ width = ten /\ aw = af + 2
      /\ \/ precision = none /\ ax = aw
         \/ precision # none /\ ax = aw + 2
      /\ l \in 0 .. 2 /\ c = ax + l + 1
  <2>1. <<"1">> # <<>> /\ <<"*">> # <<>>
    OBVIOUS
  <2> QED
    BY <1>0, <1>1, <1>2, <2>1, Parts
<1>5. /\ f \in 2 .. c
      /\ dir.lflag = (IF f <= ax THEN 0 ELSE f - ax - 1)
      /\ ap = IF f <= af + 1 THEN W ELSE IF f <= aw + 2 THEN P ELSE C
  BY <1>0, <1>1, <1>2, <1>3 DEF InDirective
<1>6. /\ width # star => W = P
      /\ precision # star => P = C
  BY <1>0, <1>2, <1>3 DEF WidthsArguments, PrecisionsArguments
<1>7. /\ four # none /\ star # none /\ ten # none
      /\ four # ten /\ ten # star /\ none # star
  <2>1. Len(four) = 1 /\ Len(star) = 1 /\ Len(none) = 0 /\ Len(ten) = 2
    BY <1>0
  <2> QED
    BY <2>1
<1>8. \/ f \in 2 .. af /\ f' = f + 1 /\ ap' = ap /\ dir'.lflag = dir.lflag
      \/ f = af + 1 /\ f' = aw + 1 /\ width # none /\ ap' = P /\ dir'.lflag = dir.lflag
      \/ f = aw + 1 /\ f' = f + 1 /\ precision # none /\ ap' = P /\ dir'.lflag = dir.lflag
      \/ f = aw + 2 /\ f' = f + 1 /\ precision # none /\ ap' = C /\ dir'.lflag = dir.lflag
      \/ f \in ax + 1 .. c - 1 /\ f' = f + 1 /\ ap' = C /\ dir'.lflag = dir.lflag + 1
  BY <1>0, <1>1, <1>2, <1>3
<1>9. PICK g, lf, a2, l2 : g = f' /\ a2 = ap' /\ l2 = dir'.lflag /\ lf = dir.lflag
  OBVIOUS
<1>10. /\ g \in 2 .. c /\ (width = ten => g # af + 2)
       /\ l2 = (IF g <= ax THEN 0 ELSE g - ax - 1)
       /\ l2 \in 0 .. 2
       /\ a2 = IF g <= af + 1 THEN W ELSE IF g <= aw + 2 THEN P ELSE C
  <2>1. CASE f \in 2 .. af /\ g = f + 1 /\ a2 = ap /\ l2 = lf
    BY <1>4, <1>5, <1>9, <2>1
  <2>2. CASE f = af + 1 /\ g = aw + 1 /\ width # none /\ a2 = P /\ l2 = lf
    BY <1>4, <1>5, <1>7, <1>9, <2>2
  <2>3. CASE f = aw + 1 /\ g = f + 1 /\ precision # none /\ a2 = P /\ l2 = lf
    <3>1. ax = aw + 2 /\ (width = ten => aw = af + 2) /\ (aw = af \/ aw = af + 1 \/ aw = af + 2)
      BY <1>4, <1>7, <2>3
    <3>2. lf = 0
      <4>1. aw \in Int
        BY <1>4, <3>1
      <4>2. f <= ax
        BY <2>3, <3>1, <4>1
      <4> QED
        BY <1>5, <1>9, <4>2
    <3>5. af \in Int /\ af >= 1 /\ aw \in Int /\ ax = aw + 2 /\ l \in 0 .. 2 /\ c = ax + l + 1
      <4>1. af \in Int /\ af >= 1 /\ l \in 0 .. 2 /\ c = ax + l + 1
        BY <1>4
      <4>2. aw \in Int
        BY <3>1, <4>1
      <4> QED
        BY <3>1, <4>1, <4>2
    <3>6. f = aw + 1 /\ g = f + 1
      BY <2>3
    <3>3. g = aw + 2 /\ g > af + 1 /\ g <= ax /\ g \in 2 .. c /\ (width = ten => g # af + 2)
      BY <3>1, <3>5, <3>6
    <3>4. g <= ax /\ ~(g <= af + 1) /\ g <= aw + 2
      BY <3>1, <3>3, <3>5, <3>6
    <3> QED
      BY <2>3, <3>2, <3>3, <3>4
  <2>4. CASE f = aw + 2 /\ g = f + 1 /\ precision # none /\ a2 = C /\ l2 = lf
    <3>1. ax = aw + 2 /\ (width = ten => aw = af + 2) /\ (aw = af \/ aw = af + 1 \/ aw = af + 2)
      BY <1>4, <1>7, <2>4
    <3>2. lf = 0
      <4>1. aw \in Int
        BY <1>4, <3>1
      <4>2. f <= ax
        BY <2>4, <3>1, <4>1
      <4> QED
        BY <1>5, <1>9, <4>2
    <3>5. af \in Int /\ af >= 1 /\ aw \in Int /\ ax = aw + 2 /\ l \in 0 .. 2 /\ c = ax + l + 1
      <4>1. af \in Int /\ af >= 1 /\ l \in 0 .. 2 /\ c = ax + l + 1
        BY <1>4
      <4>2. aw \in Int
        BY <3>1, <4>1
      <4> QED
        BY <3>1, <4>1, <4>2
    <3>6. f = aw + 2 /\ g = f + 1
      BY <2>4
    <3>3. g = aw + 3 /\ g = ax + 1 /\ g > af + 1 /\ g \in 2 .. c /\ (width = ten => g # af + 2)
      BY <3>1, <3>5, <3>6
    <3>4. g - ax - 1 = 0 /\ ~(g <= ax) /\ ~(g <= af + 1) /\ ~(g <= aw + 2)
      BY <3>1, <3>3, <3>5, <3>6
    <3> QED
      BY <2>4, <3>2, <3>3, <3>4
  <2>5. CASE f \in ax + 1 .. c - 1 /\ g = f + 1 /\ a2 = C /\ l2 = lf + 1
    <3>0. /\ width = ten => aw = af + 2
          /\ (aw = af \/ aw = af + 1 \/ aw = af + 2) /\ (ax = aw \/ ax = aw + 2)
      BY <1>4, <1>7
    <3>5. lf = f - ax - 1
      BY <1>4, <1>5, <1>9, <2>5, <3>0
    <3>1. g \in 2 .. c /\ l2 = g - ax - 1 /\ g > ax /\ l2 \in 0 .. 2 /\ g > af + 1
          /\ (g <= aw + 2 => ax = aw) /\ (width = ten => g # af + 2)
      <4>0. /\ af \in Nat /\ af >= 1 /\ aw \in Nat /\ aw >= af /\ ax \in Nat /\ ax >= aw
            /\ l \in 0 .. 2 /\ c = ax + l + 1
        <5>1. af \in Nat /\ af >= 1 /\ l \in 0 .. 2 /\ c = ax + l + 1
          BY <1>4
        <5>2. aw \in Nat /\ aw >= af
          BY <3>0, <5>1
        <5>3. ax \in Nat /\ ax >= aw
          BY <3>0, <5>2
        <5> QED
          BY <5>1, <5>2, <5>3
      <4>1. /\ af \in Nat /\ af >= 1 /\ aw \in Nat /\ aw >= af /\ ax \in Nat /\ ax >= aw
            /\ l \in 0 .. 2 /\ c = ax + l + 1 /\ f \in Int /\ f >= ax + 1 /\ f <= c - 1
        BY <2>5, <4>0
      <4>2. g = f + 1 /\ l2 = f - ax - 1 + 1
        BY <2>5, <3>5
      <4>3. g \in 2 .. c /\ l2 = g - ax - 1 /\ g > ax /\ l2 \in 0 .. 2 /\ g > af + 1
        BY <4>1, <4>2
      <4>4. g <= aw + 2 => ax = aw
        BY <3>0, <4>1, <4>2
      <4>5. width = ten => g # af + 2
        BY <3>0, <4>1, <4>2
      <4> QED
        BY <4>3, <4>4, <4>5
    <3>2. g <= aw + 2 => precision = none
      <4>1. precision # none => ax = aw + 2
        BY <1>4
      <4> QED
        BY <1>4, <3>0, <3>1, <4>1
    <3>3. g <= aw + 2 => P = C
      BY <1>6, <1>7, <3>2
    <3> QED
      BY <1>4, <2>5, <3>1, <3>3
  <2> QED
    BY <1>8, <1>9, <2>1, <2>2, <2>3, <2>4, <2>5
<1>11. /\ AfterFlags' = af /\ AfterWidth' = aw /\ AfterPrecision' = ax /\ ConvAt' = c
       /\ WidthsArguments' = W /\ PrecisionsArguments' = P /\ ConversionsArguments' = C
  BY <1>1, <1>3, Static
<1> QED
  BY <1>0, <1>2, <1>9, <1>10, <1>11 DEF InDirective
(* The first directive ends within the format.                             *)
LEMMA FormatFits ==
  ASSUME FormatOK
  PROVE  /\ ConvAt \in Nat /\ ConvAt >= 2 /\ AfterPrecision \in Nat /\ AfterPrecision >= 1
         /\ Len(fmt) \in Nat /\ ConvAt <= Len(fmt)
         /\ asked.d.conv # "nul" => Len(fmt) = ConvAt + 4
<1>1. PICK af, aw, ax, c, n : af = AfterFlags /\ aw = AfterWidth /\ ax = AfterPrecision /\ c = ConvAt /\ n = Len(fmt)
  OBVIOUS
<1>2. PICK l : l = asked.d.l
  OBVIOUS
<1>3. /\ af \in Nat /\ af >= 1 /\ (aw = af \/ aw = af + 1 \/ aw = af + 2)
      /\ (ax = aw \/ ax = aw + 2) /\ l \in 0 .. 2 /\ c = ax + l + 1
  BY <1>1, <1>2, Parts
<1>4. IF asked.d.conv = "nul" THEN n = c ELSE n = c + 4
  BY <1>1 DEF FormatOK
<1>5. c \in Nat /\ c >= 2 /\ ax \in Nat /\ ax >= 1
  BY <1>3
<1> QED
  BY <1>1, <1>4, <1>5

(* No '%' and no NUL between the '%' and the conversion.                   *)
LEMMA PlainWithin ==
  ASSUME FormatOK, NEW k \in 2 .. ConvAt - 1
  PROVE  fmt[k] \in {"-", "0", "#", "4", "1", "*", ".", "l"}
<1>1. PICK af, aw, ax, c : af = AfterFlags /\ aw = AfterWidth /\ ax = AfterPrecision /\ c = ConvAt
  OBVIOUS
<1>2. PICK l : l = asked.d.l
  OBVIOUS
<1>3. /\ af \in Nat /\ af >= 1
      /\ \/ aw = af
         \/ aw = af + 1 /\ fmt[af + 1] = "4"
         \/ aw = af + 1 /\ fmt[af + 1] = "*"
         \/ aw = af + 2 /\ fmt[af + 1] = "1" /\ fmt[af + 2] = "0"
      /\ \/ ax = aw
         \/ ax = aw + 2 /\ fmt[aw + 1] = "." /\ fmt[aw + 2] = "1"
         \/ ax = aw + 2 /\ fmt[aw + 1] = "." /\ fmt[aw + 2] = "*"
      /\ l \in 0 .. 2 /\ c = ax + l + 1
  BY <1>1, <1>2, Parts
<1>4. /\ \A j \in 2 .. af : fmt[j] \in {"-", "0", "#"}
      /\ \A j \in ax + 1 .. c - 1 : fmt[j] = "l"
  BY <1>1 DEF FormatOK
<1>5. k \in Int /\ 2 <= k /\ k < c
  BY <1>1, FormatFits
<1>6. CASE k <= af
  BY <1>3, <1>4, <1>5, <1>6
<1>7. CASE k > af /\ k <= aw
  <2>1. k = af + 1 \/ (k = af + 2 /\ aw = af + 2)
    BY <1>3, <1>5, <1>7
  <2>2. fmt[af + 1] \in {"4", "*", "1"} /\ (aw = af + 2 => fmt[af + 2] = "0")
    BY <1>3, <1>5, <1>7
  <2> QED
    BY <2>1, <2>2
<1>8. CASE k > aw /\ k <= ax
  <2>1. k = aw + 1 \/ k = aw + 2
    BY <1>3, <1>5, <1>8
  <2>2. fmt[aw + 1] = "." /\ fmt[aw + 2] \in {"1", "*"}
    BY <1>3, <1>5, <1>8
  <2> QED
    BY <2>1, <2>2
<1>9. CASE k > ax
  BY <1>3, <1>4, <1>5, <1>9
<1> QED
  BY <1>3, <1>5, <1>6, <1>7, <1>8, <1>9

(* Reading f behind the directive.                                         *)
LEMMA BehindIs ==
  ASSUME FormatOK
  PROVE  /\ Behind(1) => fmt[f] = "a" /\ (f' = f + 1 /\ asked' = asked => Behind(2)')
         /\ Behind(2) => fmt[f] = "%" /\ (f' = f + 1 /\ asked' = asked => Behind(3)')
         /\ Behind(3) => fmt[f] = "d" /\ (f' = f + 1 /\ asked' = asked => Behind(4)')
         /\ Behind(4) => fmt[f] = "nul"
<1>1. asked' = asked => ConvAt' = ConvAt
  BY DEF ConvAt, AfterPrecision, AfterWidth, AfterFlags
<1>2. ConvAt \in Nat
  BY FormatFits
<1>3. asked.d.conv # "nul" => /\ fmt[ConvAt + 1] = "a" /\ fmt[ConvAt + 2] = "%" /\ fmt[ConvAt + 3] = "d"
                              /\ fmt[ConvAt + 4] = "nul"
  BY DEF FormatOK
<1> QED
  BY <1>1, <1>2, <1>3 DEF Behind

(* The directive starts behind its '%'.                                    *)
LEMMA Starts ==
  ASSUME FormatOK, asked' = asked, fmt' = fmt, f' = 2, ap' = WidthsArguments, dir'.lflag = 0
  PROVE  InDirective'
<1>1. PICK af, aw, ax, c : af = AfterFlags /\ aw = AfterWidth /\ ax = AfterPrecision /\ c = ConvAt
  OBVIOUS
<1>2. af \in Nat /\ af >= 1 /\ ax \in Nat /\ ax >= 1 /\ c \in Nat /\ c >= 2
  BY <1>1, Parts, FormatFits
<1>3. AfterFlags' = af /\ AfterWidth' = aw /\ AfterPrecision' = ax /\ ConvAt' = c /\ WidthsArguments' = WidthsArguments
  BY <1>1, Static
<1>4. /\ 2 \in 2 .. c /\ 2 # af + 2 /\ 2 <= af + 1
      /\ (IF 2 <= ax THEN 0 ELSE 2 - ax - 1) = 0
  BY <1>2
<1> QED
  BY <1>3, <1>4 DEF InDirective

(* The outer loop, and its return at the NUL.                              *)
LEMMA ScanStep ==
  ASSUME FormatOK, ParseOK, DirectiveOK, asked' = asked, fmt' = fmt,
         ScanPlain \/ ScanDirective \/ Terminate
  PROVE  ParseOK' /\ DirectiveOK'
<1>1. /\ pc = "scan"
      /\ \/ f = 1 /\ ap = WidthsArguments
         \/ f \in 2 .. ConvAt /\ asked.d.conv \in {"q", "nul"} /\ ap = <<NextWord>>
         \/ (Behind(1) \/ Behind(2)) /\ ap = <<NextWord>>
         \/ Behind(4) /\ ap = <<>>
  BY DEF ParseOK, ScanPlain, ScanDirective, Terminate
<1>2. ConvAt' = ConvAt /\ ConvAt \in Nat /\ ConvAt >= 2
  BY Static, FormatFits
<1>3. fmt[1] = "%" /\ fmt[ConvAt] = asked.d.conv
  BY DEF FormatOK
<1>4. f \in 2 .. ConvAt /\ asked.d.conv \in {"q", "nul"}
           => fmt[f] # "%" /\ (fmt[f] = "nul" \/ f < ConvAt \/ asked.d.conv = "q")
  <2> SUFFICES ASSUME f \in 2 .. ConvAt, asked.d.conv \in {"q", "nul"}
               PROVE  fmt[f] # "%" /\ (fmt[f] = "nul" \/ f < ConvAt \/ asked.d.conv = "q")
    OBVIOUS
  <2>1. CASE f = ConvAt
    BY <1>3, <2>1
  <2>2. CASE f # ConvAt
    <3>1. f \in 2 .. ConvAt - 1 /\ f < ConvAt
      BY <1>2, <2>2
    <3> QED
      BY <3>1, PlainWithin
  <2> QED
    BY <2>1, <2>2
<1>5. CASE ScanPlain
  <2>1. pc' = "scan" /\ fmt[f] # "%" /\ fmt[f] # "nul" /\ f' = f + 1 /\ ap' = ap /\ dir' = dir
    BY <1>5 DEF ScanPlain
  <2>2. CASE f \in 2 .. ConvAt /\ asked.d.conv \in {"q", "nul"} /\ ap = <<NextWord>>
    <3>1. CASE f < ConvAt
      <4>1. f' \in 2 .. ConvAt
        BY <1>2, <2>1, <2>2, <3>1
      <4> QED
        BY <1>2, <2>1, <2>2, <4>1 DEF ParseOK, DirectiveOK, Places
    <3>2. CASE f = ConvAt /\ asked.d.conv = "q"
      <4>1. Behind(1)'
        BY <1>2, <2>1, <3>2 DEF Behind
      <4> QED
        BY <2>1, <2>2, <4>1 DEF ParseOK, DirectiveOK, Places
    <3> QED
      BY <1>2, <1>4, <2>1, <2>2, <3>1, <3>2
  <2>3. CASE Behind(1) /\ ap = <<NextWord>>
    <3>1. Behind(2)'
      BY <2>1, <2>3, BehindIs
    <3> QED
      BY <2>1, <2>3, <3>1 DEF ParseOK, DirectiveOK, Places
  <2>4. ~(f = 1) /\ ~Behind(2) /\ ~Behind(4)
    BY <1>3, <2>1, BehindIs
  <2> QED
    BY <1>1, <2>2, <2>3, <2>4
<1>6. CASE ScanDirective
  <2>1. pc' = "switch" /\ fmt[f] = "%" /\ f' = f + 1 /\ ap' = ap /\ dir' = Fresh
    BY <1>6 DEF ScanDirective
  <2>2. DirectiveOK' /\ dir'.lflag = 0
    <3>1. PICK c \in PadChars : Fresh = [padc |-> c, width |-> -1, precision |-> -1, lflag |-> 0, altflag |-> FALSE]
      BY Zenon DEF Fresh, PadChars
    <3> QED
      BY <2>1, <3>1 DEF DirectiveOK
  <2>3. CASE f = 1 /\ ap = WidthsArguments
    <3>1. f' = 2 /\ ap' = WidthsArguments
      BY <2>1, <2>3
    <3>2. InDirective'
      BY <2>2, <3>1, Starts
    <3> QED
      BY <2>1, <2>2, <3>2 DEF ParseOK, Places
  <2>4. CASE Behind(2) /\ ap = <<NextWord>>
    <3>1. Behind(3)'
      BY <2>1, <2>4, BehindIs
    <3> QED
      BY <2>1, <2>2, <2>4, <3>1 DEF ParseOK, Places
  <2>5. ~(f \in 2 .. ConvAt /\ asked.d.conv \in {"q", "nul"}) /\ ~Behind(1) /\ ~Behind(4)
    BY <1>4, <2>1, BehindIs
  <2> QED
    BY <1>1, <2>3, <2>4, <2>5
<1>7. CASE Terminate
  <2>1. pc' = "done" /\ f' = f /\ dir' = dir
    BY <1>7 DEF Terminate
  <2>2. f \in 1 .. Len(fmt)
    BY <1>1, FormatFits DEF Behind
  <2> QED
    BY <2>1, <2>2 DEF ParseOK, DirectiveOK, Places
<1> QED
  BY <1>5, <1>6, <1>7

(* Steps that leave the format and the arguments where they are.           *)
LEMMA Steady ==
  ASSUME FormatOK, ParseOK, DirectiveOK, asked' = asked, fmt' = fmt,
         Vsnprintf \/ Emit \/ PadLeft \/ Characters \/ PadRight
  PROVE  ParseOK' /\ DirectiveOK'
<1>1. ConvAt' = ConvAt /\ WidthsArguments' = WidthsArguments
  BY Static
<1>2. ConvAt \in Nat /\ ConvAt >= 2 /\ Len(fmt) \in Nat /\ ConvAt <= Len(fmt)
  BY FormatFits
<1>3. f' = f /\ ap' = ap
  BY DEF Vsnprintf, Emit, PadLeft, Characters, PadRight
<1>4. (Behind(1)' <=> Behind(1)) /\ (Behind(4)' <=> Behind(4))
  BY <1>1, <1>3 DEF Behind
<1>5. CASE Vsnprintf
  <2>1. f = 1 /\ ap = WidthsArguments /\ pc' \in {"scan", "done"} /\ dir' = dir
    BY <1>5 DEF Vsnprintf, ParseOK
  <2> QED
    <3>1. f' = 1 /\ ap' = WidthsArguments' /\ 1 \in 1 .. Len(fmt')
      BY <1>1, <1>2, <1>3, <2>1
    <3>2. DirectiveOK'
      BY <2>1 DEF DirectiveOK
    <3> QED
      BY <2>1, <3>1, <3>2 DEF ParseOK, Places
<1>6. CASE Emit
  <2>1. pc = "emit" /\ pc' \in {"scan", "emit"} /\ dir' = dir
    BY <1>6 DEF Emit
  <2> QED
    <3>1. (Behind(1)' /\ ap' = <<NextWord>>) \/ (Behind(4)' /\ ap' = <<>>)
      BY <1>3, <1>4, <2>1 DEF ParseOK
    <3>2. DirectiveOK'
      BY <2>1 DEF DirectiveOK
    <3> QED
      BY <2>1, <3>1, <3>2 DEF ParseOK, Places
<1>7. CASE PadLeft \/ Characters \/ PadRight
  <2>1. pc \in {"pad", "string", "tail"} /\ pc' \in {"pad", "string", "tail", "scan"}
    BY <1>7 DEF PadLeft, Characters, PadRight
  <2>2. DirectiveOK'
    <3>1. CASE dir' = dir
      BY <3>1 DEF DirectiveOK
    <3>2. CASE dir' = [dir EXCEPT !.width = @ - 1]
      BY <3>2 DEF DirectiveOK
    <3>3. CASE dir' = [dir EXCEPT !.width = @ - 1, !.precision = IF @ < 0 THEN @ ELSE @ - 1]
      <4>1. dir.precision \in Int /\ dir.width \in Int
        BY DEF DirectiveOK
      <4>2. PICK w, q \in Int : w = dir.width - 1
               /\ q = (IF dir.precision < 0 THEN dir.precision ELSE dir.precision - 1)
        BY <4>1
      <4>3. w \in Int
        BY <4>1, <4>2
      <4>4. dir' = [dir EXCEPT !.width = w, !.precision = q]
        BY <3>3, <4>2
      <4> QED
        BY <4>3, <4>4 DEF DirectiveOK
    <3> QED
      BY <1>7, <3>1, <3>2, <3>3 DEF PadLeft, Characters, PadRight
  <2> QED
    BY <1>3, <1>4, <2>1, <2>2 DEF ParseOK, Places
<1> QED
  BY <1>5, <1>6, <1>7
(* The first directive is left only for a conversion of its own.           *)
LEMMA InFirst ==
  ASSUME FormatOK, ParseOK, pc = "switch", fmt[f] # "d"
  PROVE  InDirective
BY BehindIs DEF ParseOK

(* What va_arg gives for an int.                                           *)
LEMMA VaIntFits == \A w \in Int : VaInt(w) \in Int
BY PrintAssumption DEF VaInt, Signed, Unsigned

(* Each part of a directive takes its own argument.                        *)
LEMMA ArgumentsTaken ==
  ASSUME FormatOK
  PROVE  /\ asked.d.width = <<"*">> =>
              Head(WidthsArguments) = asked.width /\ Tail(WidthsArguments) = PrecisionsArguments
         /\ asked.d.precision = <<"*">> =>
              Head(PrecisionsArguments) = asked.precision /\ Tail(PrecisionsArguments) = ConversionsArguments
         /\ asked.d.conv \in Numeric \cup {"s", "c", "e"} =>
              Head(ConversionsArguments) = asked.arg /\ Tail(ConversionsArguments) = <<NextWord>>
<1> DEFINE S == {asked.width, asked.precision, asked.arg, NextWord}
<1>1. <<NextWord>> \in Seq(S)
  OBVIOUS
<1>2. ConversionsArguments \in Seq(S)
  <2>1. <<asked.arg>> \o <<NextWord>> \in Seq(S)
    OBVIOUS
  <2> HIDE DEF S
  <2> QED
    BY <1>1, <2>1 DEF ConversionsArguments
<1>3. PrecisionsArguments \in Seq(S)
  <2>1. <<asked.precision>> \o ConversionsArguments \in Seq(S)
    BY <1>2
  <2> HIDE DEF S
  <2> QED
    BY <1>2, <2>1 DEF PrecisionsArguments
<1>4. asked.arg \in S /\ asked.width \in S /\ asked.precision \in S
  OBVIOUS
<1> HIDE DEF S
<1>5. Head(<<asked.arg>> \o <<NextWord>>) = asked.arg /\ Tail(<<asked.arg>> \o <<NextWord>>) = <<NextWord>>
  BY <1>1, <1>4, Behead
<1>6. /\ Head(<<asked.precision>> \o ConversionsArguments) = asked.precision
      /\ Tail(<<asked.precision>> \o ConversionsArguments) = ConversionsArguments
  BY <1>2, <1>4, Behead
<1>7. /\ Head(<<asked.width>> \o PrecisionsArguments) = asked.width
      /\ Tail(<<asked.width>> \o PrecisionsArguments) = PrecisionsArguments
  BY <1>3, <1>4, Behead
<1> QED
  BY <1>5, <1>6, <1>7, Zenon DEF WidthsArguments, PrecisionsArguments, ConversionsArguments

(* A number read or taken becomes the width, or else the precision.        *)
LEMMA Processed ==
  ASSUME DirectiveOK, NEW v \in Int, ProcessPrecision(v)
  PROVE  DirectiveOK' /\ dir'.lflag = dir.lflag /\ pc' = "switch"
<1>0. pc' = "switch"
  BY DEF ProcessPrecision, Reswitch
<1>1. \/ dir' = [dir EXCEPT !.width = v, !.precision = -1]
      \/ dir' = [dir EXCEPT !.precision = v]
  BY DEF ProcessPrecision, Reswitch
<1>2. -1 \in Int
  OBVIOUS
<1>3. CASE dir' = [dir EXCEPT !.width = v, !.precision = -1]
  BY <1>0, <1>2, <1>3 DEF DirectiveOK
<1>4. CASE dir' = [dir EXCEPT !.precision = v]
  BY <1>0, <1>4 DEF DirectiveOK
<1> QED
  BY <1>1, <1>3, <1>4

(* Back at reswitch, only the place in the directive counts.               *)
LEMMA Reswitched ==
  ASSUME InDirective', pc' = "switch"
  PROVE  ParseOK'
BY DEF ParseOK, Places

(* The flags "-", "0" and "#".                                             *)
LEMMA FlagStep ==
  ASSUME FormatOK, ParseOK, DirectiveOK, asked' = asked, fmt' = fmt, PadFlag \/ Alternate
  PROVE  ParseOK' /\ DirectiveOK'
<1>1. /\ pc = "switch" /\ fmt[f] \in {"-", "0", "#"} /\ f' = f + 1 /\ pc' = "switch" /\ ap' = ap
      /\ \/ dir' = [dir EXCEPT !.padc = fmt[f]] /\ fmt[f] \in {"-", "0"}
         \/ dir' = [dir EXCEPT !.altflag = TRUE]
  BY DEF PadFlag, Alternate, Case, Reswitch
<1>2. InDirective
  BY <1>1, InFirst
<1>3. f \in 2 .. AfterFlags
  BY <1>1, <1>2, SwitchAt, Parts DEF Numeric
<1>4. "-" \in PadChars /\ "0" \in PadChars
  BY Zenon DEF PadChars
<1>5. DirectiveOK' /\ dir'.lflag = dir.lflag
  BY <1>1, <1>4 DEF DirectiveOK
<1>6. InDirective'
  BY <1>1, <1>2, <1>3, <1>5, Advance
<1> QED
  BY <1>1, <1>5, <1>6, Reswitched

(* The length "l".                                                         *)
LEMMA LongStep ==
  ASSUME FormatOK, ParseOK, DirectiveOK, asked' = asked, fmt' = fmt, Long
  PROVE  ParseOK' /\ DirectiveOK'
<1>1. /\ pc = "switch" /\ fmt[f] = "l" /\ f' = f + 1 /\ pc' = "switch" /\ ap' = ap
      /\ dir' = [dir EXCEPT !.lflag = @ + 1]
  BY DEF Long, Case, Reswitch
<1>2. InDirective
  BY <1>1, InFirst
<1>3. f \in AfterPrecision + 1 .. ConvAt - 1 /\ ap = ConversionsArguments
  BY <1>1, <1>2, SwitchAt, Parts DEF Numeric
<1>4. dir'.lflag = dir.lflag + 1 /\ dir.lflag \in 0 .. 2
  BY <1>1 DEF DirectiveOK
<1>5. InDirective' /\ dir'.lflag \in 0 .. 2
  BY <1>1, <1>2, <1>3, <1>4, Advance
<1>6. DirectiveOK'
  BY <1>1, <1>4, <1>5 DEF DirectiveOK
<1> QED
  BY <1>1, <1>5, <1>6, Reswitched

(* The point of a precision.                                               *)
LEMMA PointStep ==
  ASSUME FormatOK, ParseOK, DirectiveOK, asked' = asked, fmt' = fmt, Point
  PROVE  ParseOK' /\ DirectiveOK'
<1>1. /\ pc = "switch" /\ fmt[f] = "." /\ f' = f + 1 /\ pc' = "switch" /\ ap' = ap
      /\ dir' = [dir EXCEPT !.width = Max({@, 0})]
  BY DEF Point, Case, Reswitch
<1>2. InDirective
  BY <1>1, InFirst
<1>3. f = AfterWidth + 1 /\ asked.d.precision # <<>> /\ ap = PrecisionsArguments
  BY <1>1, <1>2, SwitchAt, Parts DEF Numeric
<1>4. dir.width \in Int
  BY DEF DirectiveOK
<1>5. PICK w : w = Max({dir.width, 0})
  OBVIOUS
<1>6. w \in Int
  <2>1. CASE dir.width <= 0
    <3>1. {dir.width, 0} \in SUBSET Int /\ 0 \in {dir.width, 0} /\ \A y \in {dir.width, 0} : y <= 0
      BY <1>4, <2>1
    <3>2. Max({dir.width, 0}) = 0
      BY <3>1, GreatestIs
    <3> QED
      BY <1>5, <3>2
  <2>2. CASE dir.width > 0
    <3>1. {dir.width, 0} \in SUBSET Int /\ dir.width \in {dir.width, 0} /\ \A y \in {dir.width, 0} : y <= dir.width
      BY <1>4, <2>2
    <3>2. Max({dir.width, 0}) = dir.width
      BY <3>1, GreatestIs
    <3> QED
      BY <1>4, <1>5, <3>2
  <2> QED
    BY <1>4, <2>1, <2>2
<1>7. DirectiveOK' /\ dir'.lflag = dir.lflag
  <2>1. dir' = [dir EXCEPT !.width = w]
    BY <1>1, <1>5
  <2> QED
    BY <1>6, <2>1 DEF DirectiveOK
<1>8. InDirective'
  BY <1>1, <1>2, <1>3, <1>7, Advance
<1> QED
  BY <1>1, <1>7, <1>8, Reswitched

(* A field width or a precision taken from the arguments.                  *)
LEMMA StarStep ==
  ASSUME FormatOK, ParseOK, DirectiveOK, asked' = asked, fmt' = fmt, Star
  PROVE  ParseOK' /\ DirectiveOK'
<1>1. /\ pc = "switch" /\ fmt[f] = "*" /\ f' = f + 1 /\ ap' = Tail(ap)
      /\ ProcessPrecision(VaInt(Head(ap)))
  BY DEF Star, Case
<1>2. InDirective
  BY <1>1, InFirst
<1>0. PICK none, star : none = <<>> /\ star = <<"*">>
  OBVIOUS
<1>3. star # none
  BY <1>0
<1>4. \/ f = AfterFlags + 1 /\ asked.d.width = star /\ ap = WidthsArguments
      \/ f = AfterWidth + 2 /\ asked.d.precision = star /\ ap = PrecisionsArguments
  BY <1>0, <1>1, <1>2, SwitchAt, Parts DEF Numeric
<1>5. Head(ap) \in Int
  BY <1>0, <1>4, ArgumentsTaken DEF FormatOK
<1>6. VaInt(Head(ap)) \in Int
  BY <1>5, VaIntFits
<1>7. DirectiveOK' /\ dir'.lflag = dir.lflag /\ pc' = "switch"
  BY <1>1, <1>6, Processed
<1>8. \/ /\ f = AfterFlags + 1 /\ f' = AfterWidth + 1 /\ asked.d.width # none /\ ap' = PrecisionsArguments
      \/ /\ f = AfterWidth + 2 /\ f' = f + 1 /\ asked.d.precision # none /\ ap' = ConversionsArguments
  <2>1. CASE f = AfterFlags + 1 /\ asked.d.width = star /\ ap = WidthsArguments
    <3>1. AfterWidth = AfterFlags + 1 /\ AfterFlags \in Nat
      <4>1. Len(star) = 1 /\ AfterFlags \in Nat
        BY <1>0, Parts
      <4> QED
        BY <2>1, <4>1 DEF AfterWidth
    <3>2. ap' = PrecisionsArguments
      BY <1>0, <1>1, <2>1, ArgumentsTaken
    <3> QED
      BY <1>1, <1>3, <2>1, <3>1, <3>2
  <2>2. CASE f = AfterWidth + 2 /\ asked.d.precision = star /\ ap = PrecisionsArguments
    <3>2. ap' = ConversionsArguments
      BY <1>0, <1>1, <2>2, ArgumentsTaken
    <3> QED
      BY <1>1, <1>3, <2>2, <3>2
  <2> QED
    BY <1>4, <2>1, <2>2
<1>9. InDirective'
  BY <1>0, <1>2, <1>7, <1>8, Advance
<1> QED
  BY <1>7, <1>9, Reswitched
(* A run of digits from f on ends at e.                                    *)
LEMMA EndsAt ==
  ASSUME fmt \in Seq(Signs), f \in Nat, f >= 1, NEW e \in f + 1 .. Len(fmt), e <= f + 2,
         fmt[e] \notin DOMAIN DecimalDigit, \A k \in f .. e - 1 : fmt[k] \in DOMAIN DecimalDigit
  PROVE  /\ Min({k \in f .. Len(fmt) : fmt[k] \notin DOMAIN DecimalDigit}) = e
         /\ Decimal(SubSeq(fmt, f, e - 1)) \in Int
<1>1. PICK D, n : D = DOMAIN DecimalDigit /\ n = Len(fmt)
  OBVIOUS
<1>2. n \in Nat /\ e \in Nat /\ e <= n /\ f <= e - 1 /\ e - 1 <= n
  BY <1>1
<1>3. Min({k \in f .. Len(fmt) : fmt[k] \notin DOMAIN DecimalDigit}) = e
  <2>1. PICK E : E = {k \in f .. n : fmt[k] \notin D}
    OBVIOUS
  <2>2. E \in SUBSET Int /\ e \in E
    BY <1>1, <1>2, <2>1
  <2>3. ASSUME NEW y \in E PROVE e <= y
    <3>1. y \in f .. n /\ fmt[y] \notin D
      BY <2>1
    <3>2. ~(y \in f .. e - 1)
      BY <1>1, <3>1
    <3> QED
      BY <1>2, <3>1, <3>2
  <2>4. Min(E) = e
    BY <2>2, <2>3, LeastIs
  <2> QED
    BY <1>1, <2>1, <2>4
<1>4. PICK s : s = SubSeq(fmt, f, e - 1)
  OBVIOUS
<1>5. Len(s) = e - f /\ \A k \in 1 .. e - f : s[k] = fmt[f + k - 1]
  BY <1>1, <1>2, <1>4
<1>6. Len(s) \in 1 .. 2
  BY <1>2, <1>5
<1>7. \A k \in 1 .. Len(s) : s[k] \in DOMAIN DecimalDigit
  <2> TAKE k \in 1 .. Len(s)
  <2>1. k \in 1 .. e - f /\ f + k - 1 \in f .. e - 1
    BY <1>2, <1>5
  <2> QED
    BY <1>5, <2>1
<1>8. Decimal(s) \in Int
  BY <1>6, <1>7, DecimalFits
<1> QED
  BY <1>3, <1>4, <1>8

(* Behind a width and behind a precision stands no digit.                  *)
LEMMA NoDigit ==
  ASSUME FormatOK
  PROVE  /\ fmt[AfterWidth + 1] \notin DOMAIN DecimalDigit /\ AfterWidth + 1 <= Len(fmt)
         /\ fmt[AfterPrecision + 1] \notin DOMAIN DecimalDigit /\ AfterPrecision + 1 <= Len(fmt)
<1>1. PICK aw, ax, c : aw = AfterWidth /\ ax = AfterPrecision /\ c = ConvAt
  OBVIOUS
<1>2. PICK l : l = asked.d.l
  OBVIOUS
<1>3. /\ aw \in Nat
      /\ \/ ax = aw
         \/ ax = aw + 2 /\ fmt[aw + 1] = "."
      /\ l \in 0 .. 2 /\ c = ax + l + 1
      /\ asked.d.conv \in Numeric \cup {"s", "c", "e", "%", "q", "nul"}
  <2>1. aw \in Nat
    BY <1>1, Parts
  <2> QED
    BY <1>1, <1>2, <2>1, Parts
<1>4. /\ \A k \in ax + 1 .. c - 1 : fmt[k] = "l"
      /\ fmt[c] = asked.d.conv
  BY <1>1 DEF FormatOK
<1>5. c <= Len(fmt) /\ Len(fmt) \in Nat
  BY <1>1, FormatFits
<1>6. fmt[ax + 1] \notin DOMAIN DecimalDigit
  <2>1. fmt[ax + 1] = "l" \/ fmt[ax + 1] = asked.d.conv
    <3>1. CASE l = 0
      BY <1>3, <1>4, <3>1
    <3>2. CASE l # 0
      <4>1. ax + 1 \in ax + 1 .. c - 1
        BY <1>3, <3>2
      <4> QED
        BY <1>4, <4>1
    <3> QED
      BY <3>1, <3>2
  <2> QED
    BY <1>3, <2>1, DecimalDigits DEF Numeric
<1>7. fmt[aw + 1] \notin DOMAIN DecimalDigit
  BY <1>3, <1>6, DecimalDigits
<1>8. aw + 1 <= c /\ ax + 1 <= c /\ c \in Nat
  BY <1>3
<1> QED
  BY <1>1, <1>3, <1>5, <1>6, <1>7, <1>8

(* A field width or a precision written in digits.                         *)
LEMMA WidthStep ==
  ASSUME FormatOK, ParseOK, DirectiveOK, asked' = asked, fmt' = fmt, Width
  PROVE  /\ ParseOK' /\ DirectiveOK'
         /\ \/ /\ f = AfterFlags + 1 /\ asked.d.width # <<>> /\ asked.d.width # <<"*">>
               /\ f' = AfterWidth + 1
            \/ f = AfterWidth + 2 /\ asked.d.precision = <<"1">> /\ f' = f + 1
<1>1. /\ pc = "switch" /\ fmt[f] \in DOMAIN DecimalDigit \ {"0"} /\ ap' = ap
      /\ f' = Min({k \in f .. Len(fmt) : fmt[k] \notin DOMAIN DecimalDigit})
      /\ ProcessPrecision(Decimal(SubSeq(fmt, f, f' - 1)))
  BY DEF Width
<1>2. InDirective
  BY <1>1, InFirst, DecimalDigits
<1>3. fmt[f] \in {"1", "2", "3", "4", "5", "6", "7", "8", "9"} /\ fmt \in Seq(Signs)
  BY <1>1, DecimalDigits DEF FormatOK
<1>4. \/ /\ f = AfterFlags + 1 /\ asked.d.width # <<>> /\ asked.d.width # <<"*">> /\ ap = WidthsArguments
      \/ /\ f = AfterWidth + 2 /\ asked.d.precision = <<"1">> /\ ap = PrecisionsArguments
  BY <1>2, <1>3, SwitchAt, Parts DEF Numeric
<1>5. PICK e : /\ e = IF f = AfterFlags + 1 /\ asked.d.width # <<>> THEN AfterWidth + 1 ELSE AfterPrecision + 1
  OBVIOUS
<1>6. CASE f = AfterFlags + 1 /\ asked.d.width # <<>> /\ asked.d.width # <<"*">> /\ ap = WidthsArguments
  <2>0. PICK none, four, star, ten : none = <<>> /\ four = <<"4">> /\ star = <<"*">> /\ ten = <<"1", "0">>
    OBVIOUS
  <2>1. PICK af, aw : af = AfterFlags /\ aw = AfterWidth
    OBVIOUS
  <2>2. PICK width : width = asked.d.width
    OBVIOUS
  <2>3. /\ af \in Nat /\ af >= 1
        /\ \/ aw = af + 1 /\ fmt[af + 1] = "4"
           \/ aw = af + 2 /\ fmt[af + 1] = "1" /\ fmt[af + 2] = "0"
    <3>1. /\ af \in Nat /\ af >= 1
          /\ \/ width = none
             \/ width = four /\ aw = af + 1 /\ fmt[af + 1] = "4"
             \/ width = star
             \/ width = ten /\ aw = af + 2 /\ fmt[af + 1] = "1" /\ fmt[af + 2] = "0"
      BY <2>0, <2>1, <2>2, Parts
    <3>2. width # none /\ width # star
      BY <1>6, <2>0, <2>2
    <3> QED
      BY <3>1, <3>2
  <2>4. f \in Nat /\ f >= 1 /\ aw + 1 \in f + 1 .. Len(fmt) /\ aw + 1 <= f + 2
    <3>1. aw + 1 <= Len(fmt) /\ Len(fmt) \in Nat
      BY <2>1, NoDigit, FormatFits
    <3>2. f = af + 1
      BY <1>6, <2>1
    <3> QED
      BY <2>3, <3>1, <3>2
  <2>5. \A k \in f .. (aw + 1) - 1 : fmt[k] \in DOMAIN DecimalDigit
    <3> TAKE k \in f .. (aw + 1) - 1
    <3>1. f = af + 1
      BY <1>6, <2>1
    <3>2. k = af + 1 \/ (k = af + 2 /\ aw = af + 2)
      BY <2>3, <3>1
    <3>3. fmt[k] \in {"4", "1", "0"}
      BY <2>3, <3>2
    <3> QED
      BY <3>3, DecimalDigits
  <2>6. fmt[aw + 1] \notin DOMAIN DecimalDigit
    BY <2>1, NoDigit
  <2>7. /\ Min({k \in f .. Len(fmt) : fmt[k] \notin DOMAIN DecimalDigit}) = aw + 1
        /\ Decimal(SubSeq(fmt, f, (aw + 1) - 1)) \in Int
    BY <1>3, <2>4, <2>5, <2>6, EndsAt
  <2>8. f' = AfterWidth + 1 /\ Decimal(SubSeq(fmt, f, f' - 1)) \in Int
    BY <1>1, <2>1, <2>7, Zenon
  <2>9. DirectiveOK' /\ dir'.lflag = dir.lflag /\ pc' = "switch"
    BY <1>1, <2>8, Processed
  <2>10. ap' = PrecisionsArguments
    BY <1>1, <1>6, Zenon DEF WidthsArguments
  <2>11. InDirective'
    BY <1>2, <1>6, <2>8, <2>9, <2>10, Advance
  <2>12. ParseOK'
    BY <2>9, <2>11, Reswitched
  <2> QED
    BY <1>6, <2>8, <2>9, <2>12
<1>7. CASE f = AfterWidth + 2 /\ asked.d.precision = <<"1">> /\ ap = PrecisionsArguments
  <2>0. PICK none, star, one : none = <<>> /\ star = <<"*">> /\ one = <<"1">>
    OBVIOUS
  <2>1. one # none /\ one # star
    <3>1. Len(one) = 1 /\ Len(none) = 0 /\ one[1] = "1" /\ star[1] = "*"
      BY <2>0
    <3> QED
      BY <3>1
  <2>2. PICK aw, ax : aw = AfterWidth /\ ax = AfterPrecision
    OBVIOUS
  <2>3. f \in Nat /\ f >= 1 /\ ax = f
    <3>1. aw \in Nat
      BY <2>2, Parts
    <3>2. ax = aw + 2
      BY <1>7, <2>0, <2>1, <2>2 DEF AfterPrecision
    <3> QED
      BY <1>7, <2>2, <3>1, <3>2
  <2>4. f + 1 \in f + 1 .. Len(fmt) /\ f + 1 <= f + 2 /\ fmt[f + 1] \notin DOMAIN DecimalDigit
    <3>1. f + 1 <= Len(fmt) /\ Len(fmt) \in Nat /\ fmt[f + 1] \notin DOMAIN DecimalDigit
      BY <2>2, <2>3, NoDigit, FormatFits
    <3> QED
      BY <2>3, <3>1
  <2>5. \A k \in f .. (f + 1) - 1 : fmt[k] \in DOMAIN DecimalDigit
    <3> TAKE k \in f .. (f + 1) - 1
    <3>1. k = f
      BY <2>3
    <3> QED
      BY <1>1, <3>1
  <2>7. /\ Min({k \in f .. Len(fmt) : fmt[k] \notin DOMAIN DecimalDigit}) = f + 1
        /\ Decimal(SubSeq(fmt, f, (f + 1) - 1)) \in Int
    BY <1>3, <2>3, <2>4, <2>5, EndsAt
  <2>8. f' = f + 1 /\ Decimal(SubSeq(fmt, f, f' - 1)) \in Int
    BY <1>1, <2>7, Zenon
  <2>9. DirectiveOK' /\ dir'.lflag = dir.lflag /\ pc' = "switch"
    BY <1>1, <2>8, Processed
  <2>10. ap' = ConversionsArguments
    <3>1. asked.d.precision = one /\ asked.d.precision # star
      BY <1>7, <2>0, <2>1
    <3> QED
      BY <1>1, <1>7, <2>0, <3>1, Zenon DEF PrecisionsArguments
  <2>11. asked.d.precision # <<>>
    BY <1>7, <2>0, <2>1
  <2>12. InDirective'
    BY <1>2, <1>7, <2>8, <2>9, <2>10, <2>11, Advance
  <2>13. ParseOK'
    BY <2>9, <2>12, Reswitched
  <2> QED
    BY <1>7, <2>8, <2>9, <2>13
<1> QED
  BY <1>4, <1>6, <1>7

(* A conversion character stands at ConvAt, or is the d of the second      *)
(* directive.                                                              *)
LEMMA AtConversion ==
  ASSUME FormatOK, ParseOK, pc = "switch",
         fmt[f] \in Numeric \cup {"s", "c", "e", "%", "q", "nul"}
  PROVE  \/ f = ConvAt /\ fmt[f] = asked.d.conv /\ ap = ConversionsArguments
         \/ fmt[f] = "d" /\ Behind(3) /\ ap = <<NextWord>>
<1>1. InDirective \/ (Behind(3) /\ ap = <<NextWord>>)
  BY DEF ParseOK
<1>2. CASE InDirective
  BY <1>2, SwitchAt, Parts DEF Numeric
<1>3. CASE Behind(3) /\ ap = <<NextWord>>
  BY <1>3, BehindIs
<1> QED
  BY <1>1, <1>2, <1>3

(* The conversions that take one argument or none.                         *)
LEMMA ConversionStep ==
  ASSUME FormatOK, ParseOK, DirectiveOK, asked' = asked, fmt' = fmt,
         Character \/ Percent \/ Number \/ ErrorCode
  PROVE  ParseOK' /\ DirectiveOK'
<1>1. /\ pc = "switch" /\ f' = f + 1 /\ dir' = dir
      /\ \/ fmt[f] = "c" /\ pc' = "scan" /\ ap' = Tail(ap)
         \/ fmt[f] = "%" /\ pc' = "scan" /\ ap' = ap
         \/ fmt[f] \in Numeric /\ pc' = "emit" /\ ap' = Tail(ap)
         \/ fmt[f] = "e" /\ pc' \in {"emit", "undefined"} /\ ap' = Tail(ap)
  <2>1. CASE Character
    BY <2>1 DEF Character, Case
  <2>2. CASE Percent
    BY <2>2 DEF Percent, Case
  <2>3. CASE Number
    <3>1. pc = "switch" /\ f' = f + 1 /\ dir' = dir /\ fmt[f] \in Numeric /\ pc' = "emit" /\ ap' = Tail(ap)
      BY <2>3, Zenon DEF Number, Case
    <3> QED
      BY <3>1
  <2>4. CASE ErrorCode
    <3>1. /\ pc = "switch" /\ f' = f + 1 /\ dir' = dir /\ fmt[f] \in {"e"} /\ ap' = Tail(ap)
          /\ pc' = "emit" \/ pc' = "undefined"
      BY <2>4, Zenon DEF ErrorCode, Case
    <3> QED
      BY <3>1
  <2> QED
    BY <2>1, <2>2, <2>3, <2>4
<1>2. fmt[f] \in Numeric \cup {"s", "c", "e", "%", "q", "nul"}
  BY <1>1
<1>3. ConvAt' = ConvAt /\ ConvAt \in Nat
  BY Static, FormatFits
<1>4. DirectiveOK'
  BY <1>1 DEF DirectiveOK
<1>5. CASE f = ConvAt /\ fmt[f] = asked.d.conv /\ ap = ConversionsArguments
  <2>1. Behind(1)'
    BY <1>1, <1>3, <1>5 DEF Behind, Numeric
  <2>2. ap' = <<NextWord>>
    <3>1. CASE fmt[f] = "%"
      <4>1. ap' = ap /\ asked.d.conv \notin Numeric \cup {"s", "c", "e"}
        BY <1>1, <1>5, <3>1 DEF Numeric
      <4> QED
        BY <1>5, <4>1, Zenon DEF ConversionsArguments
    <3>2. CASE fmt[f] # "%"
      <4>1. ap' = Tail(ap) /\ asked.d.conv \in Numeric \cup {"s", "c", "e"}
        BY <1>1, <1>5, <3>2
      <4> QED
        BY <1>5, <4>1, ArgumentsTaken
    <3> QED
      BY <3>1, <3>2
  <2> QED
    BY <1>1, <1>4, <2>1, <2>2 DEF ParseOK, Places
<1>6. CASE fmt[f] = "d" /\ Behind(3) /\ ap = <<NextWord>>
  <2>1. Behind(4)' /\ pc' = "emit"
    BY <1>1, <1>6, BehindIs
  <2>2. ap' = <<>>
    <3>1. ap' = Tail(ap)
      BY <1>1, <1>6
    <3>2. Tail(<<NextWord>>) = <<>>
      OBVIOUS
    <3> QED
      BY <1>6, <3>1, <3>2
  <2> QED
    BY <1>4, <2>1, <2>2 DEF ParseOK, Places
<1> QED
  BY <1>1, <1>2, <1>5, <1>6, AtConversion
(* The default case goes back to the character behind the '%'.             *)
LEMMA LiteralStep ==
  ASSUME FormatOK, ParseOK, DirectiveOK, asked' = asked, fmt' = fmt, Literal
  PROVE  ParseOK' /\ DirectiveOK' /\ f = ConvAt /\ f' = 2
<1>1. /\ pc = "switch" /\ fmt[f] \in {"q", "nul"} /\ pc' = "scan" /\ ap' = ap /\ dir' = dir
      /\ f' = Max({k \in 2 .. f : fmt[k - 1] = "%"})
  BY DEF Literal
<1>2. f = ConvAt /\ fmt[f] = asked.d.conv /\ ap = ConversionsArguments
  BY <1>1, AtConversion
<1>3. ConvAt' = ConvAt /\ ConvAt \in Nat /\ ConvAt >= 2
  BY Static, FormatFits
<1>4. Max({k \in 2 .. f : fmt[k - 1] = "%"}) = 2
  <2>1. PICK E : E = {k \in 2 .. f : fmt[k - 1] = "%"}
    OBVIOUS
  <2>2. fmt[2 - 1] = "%"
    BY DEF FormatOK
  <2>3. E \in SUBSET Int /\ 2 \in E
    BY <1>2, <1>3, <2>1, <2>2
  <2>4. ASSUME NEW y \in E PROVE y <= 2
    <3>1. y \in 2 .. ConvAt /\ fmt[y - 1] = "%"
      BY <1>2, <2>1
    <3>2. y > 2 => y - 1 \in 2 .. ConvAt - 1
      BY <1>3, <3>1
    <3>3. y > 2 => fmt[y - 1] \in {"-", "0", "#", "4", "1", "*", ".", "l"}
      BY <3>2, PlainWithin
    <3>4. ~(y > 2)
      BY <3>1, <3>3
    <3> QED
      BY <1>3, <3>1, <3>4
  <2>5. Max(E) = 2
    BY <2>3, <2>4, GreatestIs
  <2> QED
    BY <2>1, <2>5
<1>5. f' \in 2 .. ConvAt /\ asked.d.conv \in {"q", "nul"}
  BY <1>1, <1>2, <1>3, <1>4
<1>6. ap' = <<NextWord>>
  <2>1. asked.d.conv \notin Numeric \cup {"s", "c", "e"}
    BY <1>5 DEF Numeric
  <2> QED
    BY <1>1, <1>2, <2>1, Zenon DEF ConversionsArguments
<1>7. DirectiveOK'
  BY <1>1 DEF DirectiveOK
<1>8. ParseOK'
  BY <1>1, <1>3, <1>5, <1>6 DEF ParseOK, Places
<1> QED
  BY <1>1, <1>2, <1>4, <1>7, <1>8

(* The length of a text, as strnlen gives it.                              *)
LEMMA LengthFits ==
  ASSUME NEW S, NEW text \in Seq(S), NEW len \in Int
  PROVE  Strnlen(text, len) \in Int
<1>1. Len(text) \in Int
  OBVIOUS
<1>2. Min({Len(text), len}) \in Int
  BY <1>1, MinOfTwo
<1> QED
  BY <1>1, <1>2 DEF Strnlen

(* %s takes its text and counts the width down by its length.              *)
LEMMA StringStep ==
  ASSUME FormatOK, ParseOK, DirectiveOK, asked' = asked, fmt' = fmt, String
  PROVE  ParseOK' /\ DirectiveOK'
<1>1. /\ pc = "switch" /\ f' = f + 1 /\ fmt[f] = "s" /\ ap' = Tail(ap) /\ pc' \in {"pad", "string"}
      /\ p' = IF Head(ap) = NULL THEN <<"(", "n", "u", "l", "l", ")">> ELSE Head(ap)
      /\ \/ dir' = dir
         \/ dir' = [dir EXCEPT !.width = @ - Strnlen(p', dir.precision)]
  <2>1. /\ pc = "switch" /\ f' = f + 1 /\ fmt[f] \in {"s"} /\ ap' = Tail(ap)
        /\ pc' = "pad" \/ pc' = "string"
        /\ p' = IF Head(ap) = NULL THEN <<"(", "n", "u", "l", "l", ")">> ELSE Head(ap)
        /\ \/ dir' = dir
           \/ dir' = [dir EXCEPT !.width = @ - Strnlen(p', dir.precision)]
    BY Zenon DEF String, Case
  <2> QED
    BY <2>1
<1>2. f = ConvAt /\ asked.d.conv = "s" /\ ap = ConversionsArguments
  BY <1>1, AtConversion
<1>3. Head(ap) = asked.arg /\ ap' = <<NextWord>>
  BY <1>1, <1>2, ArgumentsTaken
<1>4. \E S : p' \in Seq(S)
  <2>1. CASE asked.arg = NULL
    <3>1. p' = <<"(", "n", "u", "l", "l", ")">>
      BY <1>1, <1>3, <2>1
    <3>2. p' \in Seq({"(", "n", "u", "l", ")"})
      BY <3>1
    <3> QED
      BY <3>2
  <2>2. CASE asked.arg # NULL
    <3>1. p' = asked.arg /\ asked.arg \in Seq({"a", "ctl"})
      BY <1>1, <1>2, <1>3, <2>2, Zenon DEF FormatOK
    <3> QED
      BY <3>1, Zenon
  <2> QED
    BY <2>1, <2>2
<1>5. DirectiveOK'
  <2>1. dir.width \in Int /\ dir.precision \in Int
    BY DEF DirectiveOK
  <2>2. Strnlen(p', dir.precision) \in Int
    BY <1>4, <2>1, LengthFits
  <2>3. PICK n \in Int : n = Strnlen(p', dir.precision)
    BY <2>2
  <2>4. CASE dir' = dir
    BY <2>4 DEF DirectiveOK
  <2>5. CASE dir' = [dir EXCEPT !.width = @ - n]
    BY <2>1, <2>5 DEF DirectiveOK
  <2> QED
    BY <1>1, <2>3, <2>4, <2>5, Zenon
<1>6. ConvAt' = ConvAt /\ ConvAt \in Nat
  BY Static, FormatFits
<1>7. Behind(1)'
  BY <1>1, <1>2, <1>6 DEF Behind
<1> QED
  BY <1>1, <1>3, <1>5, <1>7 DEF ParseOK, Places

(* Every step keeps what is known of the format and the arguments.         *)
LEMMA ParseStep ==
  ASSUME FormatOK, ParseOK, DirectiveOK, Next
  PROVE  FormatOK' /\ ParseOK' /\ DirectiveOK'
<1>1. asked' = asked /\ fmt' = fmt
  BY FormatKept
<1>2. FormatOK'
  BY <1>1, Static
<1>3. CASE Vsnprintf \/ Emit \/ PadLeft \/ Characters \/ PadRight
  BY <1>1, <1>2, <1>3, Steady
<1>4. CASE ScanPlain \/ ScanDirective \/ Terminate
  BY <1>1, <1>2, <1>4, ScanStep
<1>5. CASE PadFlag \/ Alternate
  BY <1>1, <1>2, <1>5, FlagStep
<1>6. CASE Long
  BY <1>1, <1>2, <1>6, LongStep
<1>7. CASE Point
  BY <1>1, <1>2, <1>7, PointStep
<1>8. CASE Star
  BY <1>1, <1>2, <1>8, StarStep
<1>9. CASE Width
  BY <1>1, <1>2, <1>9, WidthStep
<1>10. CASE Character \/ Percent \/ Number \/ ErrorCode
  BY <1>1, <1>2, <1>10, ConversionStep
<1>11. CASE Literal
  BY <1>1, <1>2, <1>11, LiteralStep
<1>12. CASE String
  BY <1>1, <1>2, <1>12, StringStep
<1> QED
  BY <1>3, <1>4, <1>5, <1>6, <1>7, <1>8, <1>9, <1>10, <1>11, <1>12 DEF Next

(* Where the buffer's cursor stands follows from what it holds; the two    *)
(* ways to return leave it where it is.                                    *)
LEMMA CursorStep ==
  ASSUME BufferInv, BufferInv', CursorOK, Next
  PROVE  CursorOK'
<1>1. asked' = asked /\ asked.size \in Nat
  BY AskedKept DEF BufferInv
<1>2. CASE Vsnprintf
  BY <1>1, <1>2 DEF Vsnprintf, Silent, CursorOK
<1>3. CASE Terminate
  BY <1>1, <1>3 DEF Terminate, CursorOK
<1>4. CASE ~Vsnprintf /\ ~Terminate
  <2>1. pc' \notin Outside
    BY <1>4, PutsOrSilent
  <2>2. Filled' /\ asked'.size > 0
    BY <2>1 DEF BufferInv
  <2>3. PICK n, k, m : n = Len(out') /\ k = b'.buf /\ m = asked.size
    OBVIOUS
  <2>4. n \in Nat /\ m \in Nat /\ m > 0 /\ k = (IF n < m THEN n ELSE m - 1)
    BY <1>1, <2>2, <2>3 DEF Filled
  <2>5. k \in 0 .. m
    BY <2>4
  <2> QED
    BY <1>1, <2>2, <2>3, <2>5 DEF Filled, CursorOK
<1> QED
  BY <1>2, <1>3, <1>4

(* Before the first step.                                                  *)
LEMMA ParseInit == Init => ParseInv
<1> SUFFICES ASSUME Init PROVE ParseInv
  OBVIOUS
<1>1. FormatOK /\ AskedOK /\ ap = WidthsArguments
  BY FormatInit
<1>2. ParseOK
  BY <1>1 DEF Init, ParseOK, Places
<1>3. DirectiveOK
  <2>1. PICK c \in PadChars : Fresh = [padc |-> c, width |-> -1, precision |-> -1, lflag |-> 0, altflag |-> FALSE]
    BY Zenon DEF Fresh, PadChars
  <2>2. dir = Fresh
    BY DEF Init
  <2> QED
    BY <2>1, <2>2 DEF DirectiveOK
<1>4. CursorOK
  <2>1. asked.size \in Nat /\ out = <<>> /\ str = [a \in 0 .. asked.size |-> "junk"] /\ b.buf = 0 /\ b.cnt = 0
    BY BufferInit DEF Init, BufferInv
  <2> QED
    BY <2>1 DEF CursorOK
<1> QED
  BY <1>1, <1>2, <1>3, <1>4 DEF ParseInv

(* Every step keeps it, whatever it leaves alone.                          *)
LEMMA ParseInvStep ==
  ASSUME ParseInv, BufferInv, BufferInv', [Next]_vars
  PROVE  ParseInv'
<1>1. CASE Next
  BY <1>1, ParseStep, CursorStep DEF ParseInv
<1>2. CASE UNCHANGED vars
  <2>1. fmt' = fmt /\ f' = f /\ ap' = ap /\ pc' = pc /\ dir' = dir /\ str' = str /\ b' = b
         /\ asked' = asked /\ out' = out
    BY <1>2 DEF vars
  <2>2. ConvAt' = ConvAt /\ WidthsArguments' = WidthsArguments /\ FormatOK'
    BY <2>1, Static DEF ParseInv
  <2>3. InDirective <=> InDirective'
    BY <2>1, Static DEF InDirective
  <2>4. ParseOK'
    <3>1. /\ Behind(1)' <=> Behind(1)
          /\ Behind(2)' <=> Behind(2)
          /\ Behind(3)' <=> Behind(3)
          /\ Behind(4)' <=> Behind(4)
      BY <2>1, <2>2 DEF Behind
    <3> QED
      BY <2>1, <2>2, <2>3, <3>1 DEF ParseInv, ParseOK
  <2>5. DirectiveOK' /\ CursorOK'
    BY <2>1 DEF ParseInv, DirectiveOK, CursorOK
  <2> QED
    BY <2>2, <2>4, <2>5 DEF ParseInv
<1> QED
  BY <1>1, <1>2

(* The pointer never leaves the format, no directive takes an argument     *)
(* that is not its own, and the flags, widths and counts keep to their     *)
(* types (printfmt.c:139-269).                                             *)
THEOREM PrintTypeCorrect == Spec => []TypeOK
<1>1. ParseInv /\ BufferInv /\ BufferInv' /\ [Next]_vars => ParseInv'
  BY ParseInvStep
<1>2. ParseInv => TypeOK
  <2> SUFFICES ASSUME ParseInv PROVE TypeOK
    OBVIOUS
  <2>1. /\ dir.padc \in {" ", "-", "0"} /\ dir.lflag \in 0 .. 2 /\ dir.altflag \in BOOLEAN
        /\ dir.width \in Int /\ dir.precision \in Int
    <3>1. /\ dir.padc \in PadChars /\ dir.lflag \in 0 .. 2 /\ dir.altflag \in BOOLEAN
          /\ dir.width \in Int /\ dir.precision \in Int
      BY DEF ParseInv, DirectiveOK
    <3> QED
      BY <3>1, Zenon DEF PadChars
  <2>2. f \in 1 .. Len(fmt)
    <3>1. FormatOK /\ ParseOK
      BY DEF ParseInv
    <3>2. PICK c, n : c = ConvAt /\ n = Len(fmt)
      OBVIOUS
    <3>3. c \in Nat /\ c >= 2 /\ n \in Nat /\ c <= n /\ (asked.d.conv # "nul" => n = c + 4)
      BY <3>1, <3>2, FormatFits
    <3>4. \/ f = 1 \/ f \in 2 .. c \/ f \in 1 .. n
          \/ asked.d.conv # "nul" /\ (f = c + 1 \/ f = c + 2 \/ f = c + 3 \/ f = c + 4)
      BY <3>1, <3>2 DEF ParseOK, Places, InDirective, Behind
    <3> QED
      BY <3>2, <3>3, <3>4
  <2>3. pc \in Places /\ DOMAIN str = 0 .. asked.size /\ b.buf \in 0 .. asked.size /\ b.cnt = Len(out)
    BY DEF ParseInv, ParseOK, CursorOK
  <2> QED
    BY <2>1, <2>2, <2>3, Zenon DEF TypeOK
<1> QED
  BY BufferInit, BufferStep, ParseInit, <1>1, <1>2, PTL DEF Spec
-----------------------------------------------------------------------------
(* Induction over the natural numbers: a set of them that holds 0 and, with *)
(* every number, the next one is all of them, because the complement has   *)
(* no least element.                                                       *)
LEMMA Induction ==
  ASSUME NEW S \in SUBSET Nat, 0 \in S, \A n \in S : n + 1 \in S
  PROVE  S = Nat
<1> SUFFICES ASSUME Nat \ S # {} PROVE FALSE
  OBVIOUS
<1>1. Nat \ S \in SUBSET Nat
  OBVIOUS
<1>2. PICK x \in Nat \ S : \A y \in Nat \ S : ~ (<<y, x>> \in OpToRel(<, Nat))
  BY <1>1, NatLessThanWellFounded, WFMin, Zenon
<1>3. x \in Nat /\ x # 0
  OBVIOUS
<1>4. PICK y \in Nat : x = y + 1
  BY <1>3, SMT
<1>5. y \notin S
  BY <1>2, <1>4
<1>6. <<y, x>> \in OpToRel(<, Nat)
  BY <1>3, <1>4 DEF OpToRel
<1> QED
  BY <1>2, <1>5, <1>6

(* A start and a step define a function up to every bound,                 *)
LEMMA RecursionBounded ==
  ASSUME NEW a \in Int, NEW H \in [Nat -> [Int -> Int]], NEW n \in Nat
  PROVE  \E u \in [0 .. n -> Int] : u[0] = a /\ \A k \in 0 .. n - 1 : u[k + 1] = H[k][u[k]]
<1> DEFINE S == {m \in Nat : \E u \in [0 .. m -> Int] :
                   u[0] = a /\ \A k \in 0 .. m - 1 : u[k + 1] = H[k][u[k]]}
<1>1. 0 \in S
  <2>1. [k \in 0 .. 0 |-> a] \in [0 .. 0 -> Int]
    OBVIOUS
  <2>2. 0 \in 0 .. 0 /\ \A k \in 0 .. 0 - 1 : FALSE
    OBVIOUS
  <2> QED
    BY <2>1, <2>2
<1>2. ASSUME NEW m \in S PROVE m + 1 \in S
  <2>1. PICK u \in [0 .. m -> Int] : u[0] = a /\ \A k \in 0 .. m - 1 : u[k + 1] = H[k][u[k]]
    OBVIOUS
  <2>2. m \in Nat /\ m + 1 \in Nat
    OBVIOUS
  <2>3. PICK v \in Int : v = H[m][u[m]]
    BY <2>2
  <2>4. PICK g : g = [k \in 0 .. m + 1 |-> IF k = m + 1 THEN v ELSE u[k]]
    OBVIOUS
  <2>5. g \in [0 .. m + 1 -> Int]
    <3>1. \A k \in 0 .. m + 1 : k = m + 1 \/ k \in 0 .. m
      BY <2>2
    <3> QED
      BY <2>3, <2>4, <3>1
  <2>6. \A k \in 0 .. m : g[k] = u[k]
    <3>1. \A k \in 0 .. m : k \in 0 .. m + 1 /\ k # m + 1
      BY <2>2
    <3> QED
      BY <2>4, <3>1
  <2>7. g[m + 1] = v
    BY <2>2, <2>4
  <2>8. \A k \in 0 .. (m + 1) - 1 : k \in 0 .. m /\ (k = m \/ (k \in 0 .. m - 1 /\ k + 1 \in 0 .. m))
    BY <2>2
  <2>9. \A k \in 0 .. (m + 1) - 1 : g[k + 1] = H[k][g[k]]
    BY <2>1, <2>3, <2>6, <2>7, <2>8
  <2>10. g[0] = a
    <3>1. 0 \in 0 .. m
      BY <2>2
    <3> QED
      BY <2>1, <2>6, <3>1
  <2> QED
    BY <2>2, <2>5, <2>9, <2>10
<1>3. S = Nat
  <2>1. S \in SUBSET Nat
    OBVIOUS
  <2> HIDE DEF S
  <2> QED
    BY <1>1, <1>2, <2>1, Induction
<1> QED
  BY <1>3

(* and as any two of these agree, one on all natural numbers.              *)
LEMMA Recursion ==
  ASSUME NEW a \in Int, NEW H \in [Nat -> [Int -> Int]]
  PROVE  \E u \in [Nat -> Int] : u[0] = a /\ \A k \in Nat : u[k + 1] = H[k][u[k]]
<1> DEFINE Upto(n) == {u \in [0 .. n -> Int] : u[0] = a /\ \A k \in 0 .. n - 1 : u[k + 1] = H[k][u[k]]}
<1>1. ASSUME NEW n \in Nat PROVE \E u : u \in Upto(n)
  <2>1. \E u \in [0 .. n -> Int] : u[0] = a /\ \A k \in 0 .. n - 1 : u[k + 1] = H[k][u[k]]
    BY RecursionBounded
  <2> QED
    BY <2>1
<1>2. ASSUME NEW m \in Nat, NEW n \in Nat, NEW u \in Upto(m), NEW g \in Upto(n), NEW k \in Nat,
             k <= m, k <= n
      PROVE  u[k] = g[k]
  <2>1. /\ u \in [0 .. m -> Int] /\ \A i \in 0 .. m - 1 : u[i + 1] = H[i][u[i]]
        /\ g \in [0 .. n -> Int] /\ \A i \in 0 .. n - 1 : g[i + 1] = H[i][g[i]]
        /\ u[0] = g[0]
    OBVIOUS
  <2> DEFINE S == {i \in Nat : i <= m /\ i <= n => u[i] = g[i]}
  <2>2. S \in SUBSET Nat /\ 0 \in S
    BY <2>1
  <2>3. ASSUME NEW i \in S PROVE i + 1 \in S
    <3>1. i \in Nat /\ i + 1 \in Nat
      OBVIOUS
    <3>2. ASSUME i + 1 <= m, i + 1 <= n PROVE u[i + 1] = g[i + 1]
      <4>1. i <= m /\ i <= n /\ i \in 0 .. m - 1 /\ i \in 0 .. n - 1
        BY <3>1, <3>2
      <4>2. u[i] = g[i]
        BY <4>1
      <4> HIDE DEF S, Upto
      <4> QED
        BY <2>1, <4>1, <4>2
    <3> QED
      BY <3>1, <3>2
  <2>4. S = Nat
    <3> HIDE DEF S
    <3> QED
      BY <2>2, <2>3, Induction
  <2> QED
    BY <1>2, <2>4
<1>3. PICK c : c = [n \in Nat |-> CHOOSE u : u \in Upto(n)]
  OBVIOUS
<1>4. ASSUME NEW n \in Nat PROVE c[n] \in Upto(n)
  <2>1. c[n] = CHOOSE u : u \in Upto(n)
    BY <1>3
  <2> HIDE DEF Upto
  <2> QED
    BY <1>1, <2>1
<1>5. PICK h : h = [n \in Nat |-> c[n][n]]
  OBVIOUS
<1>6. h \in [Nat -> Int]
  <2>1. ASSUME NEW n \in Nat PROVE c[n][n] \in Int
    <3>1. c[n] \in Upto(n)
      BY <1>4
    <3>2. PICK g \in [0 .. n -> Int] : g = c[n]
      BY <3>1
    <3>3. n \in 0 .. n
      OBVIOUS
    <3> QED
      BY <3>2, <3>3
  <2> QED
    BY <1>5, <2>1
<1>7. h[0] = a
  <2>1. c[0] \in Upto(0)
    BY <1>4
  <2>2. c[0][0] = a
    BY <2>1
  <2> QED
    BY <1>5, <2>2
<1>8. ASSUME NEW k \in Nat PROVE h[k + 1] = H[k][h[k]]
  <2>1. k + 1 \in Nat /\ k <= k + 1 /\ k <= k /\ k \in 0 .. (k + 1) - 1
    OBVIOUS
  <2>2. c[k] \in Upto(k) /\ c[k + 1] \in Upto(k + 1)
    BY <1>4, <2>1
  <2>3. c[k][k] = c[k + 1][k]
    <3> HIDE DEF Upto
    <3> QED
      BY <1>2, <2>1, <2>2
  <2>4. \A i \in 0 .. (k + 1) - 1 : c[k + 1][i + 1] = H[i][c[k + 1][i]]
    BY <2>2
  <2>5. h[k] = c[k][k] /\ h[k + 1] = c[k + 1][k + 1]
    BY <1>5, <2>1
  <2> QED
    BY <2>1, <2>3, <2>4, <2>5
<1> QED
  BY <1>6, <1>7, <1>8

(* Dividing leaves a quotient and a remainder, and no other pair fits.     *)
LEMMA Division ==
  ASSUME NEW m \in Nat, m > 0, NEW y \in Int
  PROVE  \E a \in Int, s \in Int : y = m * a + s /\ s = y % m /\ 0 <= s /\ s < m
<1>1. y % m \in 0 .. m - 1
  OBVIOUS
<1>2. y \div m \in Int
  OBVIOUS
<1>3. y = m * (y \div m) + (y % m)
  OBVIOUS
<1>4. PICK a : a = y \div m
  OBVIOUS
<1>5. PICK s : s = y % m
  OBVIOUS
<1>6. a \in Int /\ s \in Int /\ y = m * a + s /\ 0 <= s /\ s < m
  BY <1>1, <1>2, <1>3, <1>4, <1>5
<1> QED
  BY <1>5, <1>6

(* and no other quotient does, so the remainder is the one in range.       *)
LEMMA Remainder ==
  ASSUME NEW m \in Nat, m > 0, NEW y \in Int, NEW a \in Int, NEW s \in Int, y = m * a + s, 0 <= s, s < m
  PROVE  y % m = s
  OBVIOUS

(* The powers of a base are what their definition says,                    *)
LEMMA Powers ==
  ASSUME NEW base \in Int
  PROVE  /\ Power(base) \in [Nat -> Int]
         /\ Power(base)[0] = 1
         /\ \A k \in Nat : Power(base)[k + 1] = base * Power(base)[k]
<1> DEFINE Is(g) == g = [k \in Nat |-> IF k = 0 THEN 1 ELSE base * g[k - 1]]
<1>1. PICK H : H = [k \in Nat |-> [v \in Int |-> base * v]]
  OBVIOUS
<1>2. H \in [Nat -> [Int -> Int]]
  BY <1>1
<1>3. PICK g \in [Nat -> Int] : g[0] = 1 /\ \A k \in Nat : g[k + 1] = H[k][g[k]]
  <2>1. 1 \in Int
    OBVIOUS
  <2>2. \E g \in [Nat -> Int] : g[0] = 1 /\ \A k \in Nat : g[k + 1] = H[k][g[k]]
    BY <1>2, <2>1, Recursion
  <2> QED
    BY <2>2
<1>4. \A k \in Nat : g[k] = IF k = 0 THEN 1 ELSE base * g[k - 1]
  <2> TAKE k \in Nat
  <2>1. k = 0 \/ (k - 1 \in Nat /\ (k - 1) + 1 = k)
    OBVIOUS
  <2> QED
    BY <1>1, <1>3, <2>1
<1>5. Is(g)
  BY <1>4
<1>6. Power(base) = CHOOSE w : Is(w)
  BY DEF Power
<1>7. PICK w : w = Power(base)
  OBVIOUS
<1>8. Is(w)
  <2> HIDE DEF Is
  <2> QED
    BY <1>5, <1>6, <1>7
<1>9. \A k \in Nat : w[k] = IF k = 0 THEN 1 ELSE base * w[k - 1]
  BY <1>8
<1>10. w[0] = 1 /\ \A k \in Nat : w[k + 1] = base * w[k]
  <2>1. \A k \in Nat : k + 1 \in Nat /\ k + 1 # 0 /\ (k + 1) - 1 = k
    OBVIOUS
  <2> QED
    BY <1>9, <2>1
<1>11. {k \in Nat : w[k] \in Int} = Nat
  <2> DEFINE S == {k \in Nat : w[k] \in Int}
  <2>1. S \in SUBSET Nat /\ 0 \in S
    BY <1>10
  <2>2. ASSUME NEW k \in S PROVE k + 1 \in S
    BY <1>10
  <2> HIDE DEF S
  <2>3. S = Nat
    BY <2>1, <2>2, Induction
  <2> QED
    BY <2>3 DEF S
<1>12. w \in [Nat -> Int]
  BY <1>8, <1>11
<1> QED
  BY <1>7, <1>10, <1>12

(* positive, and none less than one before it.                             *)
LEMMA PowersGrow ==
  ASSUME NEW base \in Int, base >= 2
  PROVE  /\ \A k \in Nat : Power(base)[k] \in Int /\ Power(base)[k] > 0
         /\ \A i \in Nat, j \in Nat : i <= j => Power(base)[i] <= Power(base)[j]
<1>1. PICK w \in [Nat -> Int] : w = Power(base)
  BY Powers
<1>2. w[0] = 1 /\ \A k \in Nat : w[k + 1] = base * w[k]
  BY <1>1, Powers
<1>3. \A x \in Int : x > 0 => base * x > 0 /\ x <= base * x
  <2> TAKE x \in Int
  <2>1. SUFFICES ASSUME x > 0 PROVE base * x > 0 /\ x <= base * x
    OBVIOUS
  <2>2. PICK e \in Nat : base = e + 2
    <3>1. base - 2 \in Nat /\ base = (base - 2) + 2
      OBVIOUS
    <3> QED
      BY <3>1
  <2>3. PICK t \in Int : t = e * x
    OBVIOUS
  <2>4. t >= 0
    BY <2>1, <2>3
  <2>5. base * x = t + 2 * x
    BY <2>2, <2>3
  <2> QED
    BY <2>1, <2>4, <2>5
<1>4. \A k \in Nat : w[k] \in Int
  BY <1>1
<1>5. {k \in Nat : w[k] > 0} = Nat
  <2> DEFINE S == {k \in Nat : w[k] > 0}
  <2>1. S \in SUBSET Nat /\ 0 \in S
    BY <1>2
  <2>2. ASSUME NEW k \in S PROVE k + 1 \in S
    <3>1. k \in Nat /\ w[k] \in Int /\ w[k] > 0 /\ w[k + 1] = base * w[k]
      BY <1>2, <1>4
    <3>2. base * w[k] > 0
      BY <1>3, <3>1
    <3> QED
      BY <3>1, <3>2
  <2> HIDE DEF S
  <2>3. S = Nat
    BY <2>1, <2>2, Induction
  <2> QED
    BY <2>3 DEF S
<1>6. \A k \in Nat : w[k] > 0
  BY <1>5
<1>7. \A k \in Nat : w[k] <= w[k + 1]
  BY <1>2, <1>3, <1>4, <1>6
<1>8. ASSUME NEW i \in Nat PROVE {d \in Nat : w[i] <= w[i + d]} = Nat
  <2> DEFINE S == {d \in Nat : w[i] <= w[i + d]}
  <2>1. S \in SUBSET Nat /\ 0 \in S
    <3>1. i + 0 = i /\ w[i] \in Int
      BY <1>4
    <3> QED
      BY <3>1
  <2>2. ASSUME NEW d \in S PROVE d + 1 \in S
    <3>1. d \in Nat /\ d + 1 \in Nat /\ i + d \in Nat /\ i + (d + 1) = (i + d) + 1 /\ (i + d) + 1 \in Nat
      OBVIOUS
    <3>2. w[i] <= w[i + d] /\ w[i + d] <= w[(i + d) + 1]
      BY <1>7, <3>1
    <3>3. w[i] \in Int /\ w[i + d] \in Int /\ w[(i + d) + 1] \in Int
      BY <1>4, <3>1
    <3>4. w[i] <= w[i + (d + 1)]
      BY <3>1, <3>2, <3>3
    <3> QED
      BY <3>1, <3>4
  <2> HIDE DEF S
  <2>3. S = Nat
    BY <2>1, <2>2, Induction
  <2> QED
    BY <2>3 DEF S
<1>9. ASSUME NEW i \in Nat, NEW j \in Nat, i <= j PROVE w[i] <= w[j]
  <2>1. j - i \in Nat /\ i + (j - i) = j
    BY <1>9
  <2>2. j - i \in {d \in Nat : w[i] <= w[i + d]}
    BY <1>8, <2>1
  <2> QED
    BY <2>1, <2>2
<1> QED
  BY <1>1, <1>4, <1>6, <1>9

(* One quotient only leaves a remainder in range.                          *)
LEMMA Quotient ==
  ASSUME NEW m \in Nat, m > 0, NEW y \in Int, NEW a \in Int, NEW s \in Int, y = m * a + s, 0 <= s, s < m
  PROVE  y \div m = a
<1>1. PICK r \in Int : r = y % m
  OBVIOUS
<1>2. r = s
  BY <1>1, Remainder
<1>3. PICK q \in Int : q = y \div m
  OBVIOUS
<1>4. y = m * q + r
  BY <1>1, <1>3
<1>5. PICK u, v \in Int : u = m * a /\ v = m * q
  OBVIOUS
<1>6. u = v
  BY <1>2, <1>4, <1>5
<1>7. m * (a - q) = 0
  <2>1. m * (a - q) = m * a - m * q
    OBVIOUS
  <2> QED
    BY <1>5, <1>6, <2>1
<1>8. \A x \in Int : m * x = 0 => x = 0
  OBVIOUS
<1>9. a - q = 0
  BY <1>7, <1>8
<1> QED
  BY <1>3, <1>9

(* Dividing twice is dividing by the product.                              *)
LEMMA DivideTwice ==
  ASSUME NEW n \in Int, NEW x \in Nat, x > 0, NEW y \in Nat, y > 0
  PROVE  (n \div x) \div y = n \div (x * y)
<1>1. PICK a \in Int, s \in Int : n = x * a + s /\ s = n % x /\ 0 <= s /\ s < x
  BY Division
<1>2. n \div x = a
  BY <1>1, Quotient
<1>3. PICK c \in Int, t \in Int : a = y * c + t /\ t = a % y /\ 0 <= t /\ t < y
  BY Division
<1>4. a \div y = c
  BY <1>3, Quotient
<1>5. PICK z \in Nat : z = x * y /\ z > 0
  <2>1. x * y \in Int /\ x * y > 0
    OBVIOUS
  <2> QED
    BY <2>1
<1>6. PICK r \in Int : r = x * t + s
  OBVIOUS
<1>7. n = z * c + r
  <2>1. x * (y * c + t) + s = (x * y) * c + (x * t + s)
    OBVIOUS
  <2> QED
    BY <1>1, <1>3, <1>5, <1>6, <2>1
<1>8. 0 <= r /\ r < z
  <2>1. PICK e \in Nat : y = t + 1 + e
    <3>1. y - t - 1 \in Nat /\ y = t + 1 + (y - t - 1)
      BY <1>3
    <3> QED
      BY <3>1
  <2>2. x * t >= 0 /\ x * e >= 0
    BY <1>3, <2>1
  <2>3. x * y = x * t + x + x * e
    BY <2>1
  <2>4. PICK k, h \in Int : k = x * t /\ h = x * e
    OBVIOUS
  <2> QED
    BY <1>1, <1>5, <1>6, <2>2, <2>3, <2>4
<1>9. n \div z = c
  BY <1>5, <1>7, <1>8, Quotient
<1> QED
  BY <1>2, <1>4, <1>5, <1>9

(* k digits show n, and no less do.                                        *)
Fits(n, base, k) == n < Power(base)[k] /\ (k = 1 \/ n >= Power(base)[k - 1])

(* What division leaves of a number with another digit.                    *)
LEMMA Shortened ==
  ASSUME NEW n \in Nat, NEW base \in Nat, base >= 2
  PROVE  \E m \in Nat, s \in 0 .. base - 1 :
           n = base * m + s /\ m = n \div base /\ s = n % base /\ m <= n /\ (n >= base => m < n)
<1>0. n \in Int /\ base > 0
  OBVIOUS
<1>1. PICK m \in Int, s \in Int : n = base * m + s /\ s = n % base /\ 0 <= s /\ s < base
  BY <1>0, Division
<1>2. n \div base = m
  BY <1>0, <1>1, Quotient
<1>3. PICK e \in Nat : base = e + 2
  <2>1. base - 2 \in Nat /\ base = (base - 2) + 2
    OBVIOUS
  <2> QED
    BY <2>1
<1>4. m >= 0
  <2> SUFFICES ASSUME m < 0 PROVE FALSE
    OBVIOUS
  <2>1. PICK g \in Nat : m = -1 - g
    <3>1. -1 - m \in Nat /\ m = -1 - (-1 - m)
      OBVIOUS
    <3> QED
      BY <3>1
  <2>2. base * m = -base - base * g /\ base * g >= 0
    BY <2>1
  <2>3. PICK t \in Int : t = base * g
    OBVIOUS
  <2> QED
    BY <1>1, <2>2, <2>3
<1>5. base * m = e * m + 2 * m /\ e * m >= 0
  BY <1>3, <1>4
<1>6. PICK t \in Int : t = e * m
  OBVIOUS
<1>7. n = t + 2 * m + s /\ t >= 0
  BY <1>1, <1>5, <1>6
<1>8. m <= n /\ (n >= base => m < n)
  <2>1. m <= n
    BY <1>1, <1>4, <1>7
  <2>2. m = n => n = 0
    BY <1>1, <1>4, <1>7
  <2> QED
    BY <2>1, <2>2
<1> QED
  BY <1>1, <1>2, <1>4, <1>8

(* No number has two sizes,                                                *)
LEMMA OneSize ==
  ASSUME NEW n \in Nat, NEW base \in Int, base >= 2,
         NEW i \in Nat, NEW j \in Nat, i >= 1, j >= 1, Fits(n, base, i), Fits(n, base, j)
  PROVE  i = j
<1>1. \A k \in Nat : Power(base)[k] \in Int
  BY PowersGrow
<1>2. \A x \in Nat, y \in Nat : x <= y => Power(base)[x] <= Power(base)[y]
  BY PowersGrow
<1>3. ASSUME NEW x \in Nat, NEW y \in Nat, x >= 1, y >= 1, Fits(n, base, x), Fits(n, base, y) PROVE ~(x < y)
  <2> SUFFICES ASSUME x < y PROVE FALSE
    OBVIOUS
  <2>1. y # 1 /\ y - 1 \in Nat /\ x <= y - 1
    BY <1>3
  <2>2. n < Power(base)[x] /\ n >= Power(base)[y - 1]
    BY <1>3, <2>1 DEF Fits
  <2>3. Power(base)[x] <= Power(base)[y - 1]
    BY <1>2, <2>1
  <2> QED
    BY <1>1, <2>1, <2>2, <2>3
<1>4. ~(i < j) /\ ~(j < i)
  BY <1>3
<1> QED
  BY <1>4

(* a number of one digit has the size 1, and one more digit behind a       *)
(* number adds one to its size.                                            *)
LEMMA SizeGrows ==
  ASSUME NEW n \in Nat, NEW base \in Nat, base >= 2
  PROVE  /\ n < base => Fits(n, base, 1)
         /\ \A k \in Nat : n >= base /\ k >= 1 /\ Fits(n \div base, base, k) => Fits(n, base, k + 1)
<1>0. base \in Int
  OBVIOUS
<1>1. PICK w \in [Nat -> Int] : w = Power(base)
  BY <1>0, Powers
<1>2. w[0] = 1 /\ \A k \in Nat : w[k + 1] = base * w[k]
  BY <1>0, <1>1, Powers
<1>3. w[1] = base
  <2>1. w[0 + 1] = base * w[0]
    BY <1>2
  <2> QED
    BY <1>2, <2>1
<1>4. n < base => Fits(n, base, 1)
  BY <1>1, <1>3 DEF Fits
<1>5. ASSUME NEW k \in Nat, n >= base, k >= 1, Fits(n \div base, base, k) PROVE Fits(n, base, k + 1)
  <2>1. PICK m \in Nat, s \in 0 .. base - 1 : n = base * m + s /\ m = n \div base
    BY Shortened
  <2>2. m < w[k] /\ (k = 1 \/ m >= w[k - 1])
    BY <1>1, <1>5, <2>1 DEF Fits
  <2>3. w[k] \in Int /\ w[k + 1] = base * w[k]
    BY <1>2
  <2>4. \A x \in Int : m < x => base * m + s < base * x
    <3> TAKE x \in Int
    <3>1. SUFFICES ASSUME m < x PROVE base * m + s < base * x
      OBVIOUS
    <3>2. PICK e \in Nat : x = m + 1 + e
      <4>1. x - m - 1 \in Nat /\ x = m + 1 + (x - m - 1)
        BY <3>1
      <4> QED
        BY <4>1
    <3>3. base * x = base * m + base + base * e /\ base * e >= 0
      BY <3>2
    <3>4. PICK u, v \in Int : u = base * m /\ v = base * e
      OBVIOUS
    <3> QED
      BY <3>3, <3>4
  <2>5. n < w[k + 1]
    BY <2>1, <2>2, <2>3, <2>4
  <2>6. \A x \in Int : m >= x => base * m + s >= base * x
    <3> TAKE x \in Int
    <3>1. SUFFICES ASSUME m >= x PROVE base * m + s >= base * x
      OBVIOUS
    <3>2. PICK e \in Nat : m = x + e
      <4>1. m - x \in Nat /\ m = x + (m - x)
        BY <3>1
      <4> QED
        BY <4>1
    <3>3. base * m = base * x + base * e /\ base * e >= 0
      BY <3>2
    <3>4. PICK u, v \in Int : u = base * x /\ v = base * e
      OBVIOUS
    <3> QED
      BY <3>3, <3>4
  <2>7. n >= w[k]
    <3>1. CASE k = 1
      BY <1>3, <1>5, <3>1
    <3>2. CASE k # 1
      <4>1. k - 1 \in Nat /\ (k - 1) + 1 = k
        BY <1>5, <3>2
      <4>2. w[k] = base * w[k - 1] /\ w[k - 1] \in Int /\ m >= w[k - 1]
        BY <1>2, <2>2, <3>2, <4>1
      <4> QED
        BY <2>1, <2>6, <4>2
    <3> QED
      BY <3>1, <3>2
  <2>8. (k + 1) - 1 = k
    OBVIOUS
  <2> QED
    BY <1>1, <2>5, <2>7, <2>8 DEF Fits
<1> QED
  BY <1>4, <1>5

(* Every number has a size.                                                *)
LEMMA SizeExists ==
  ASSUME NEW n \in Nat, NEW base \in Nat, base >= 2
  PROVE  \E k \in 1 .. n + 1 : Fits(n, base, k)
<1> DEFINE S == {i \in Nat : \A m \in 0 .. i : \E k \in 1 .. m + 1 : Fits(m, base, k)}
<1>1. 0 \in S
  <2>1. Fits(0, base, 1)
    BY SizeGrows
  <2>2. \A m \in 0 .. 0 : m = 0 /\ 1 \in 1 .. m + 1
    OBVIOUS
  <2> QED
    BY <2>1, <2>2
<1>2. ASSUME NEW i \in S PROVE i + 1 \in S
  <2>1. i \in Nat /\ i + 1 \in Nat /\ \A m \in 0 .. i : \E k \in 1 .. m + 1 : Fits(m, base, k)
    OBVIOUS
  <2>2. ASSUME NEW m \in 0 .. i + 1 PROVE \E k \in 1 .. m + 1 : Fits(m, base, k)
    <3>1. CASE m < base
      <4>1. m \in Nat /\ 1 \in 1 .. m + 1
        BY <2>1
      <4> QED
        BY <3>1, <4>1, SizeGrows
    <3>2. CASE m >= base
      <4>0. m \in Nat
        BY <2>1
      <4>1. PICK q \in Nat : q = m \div base /\ q < m
        BY <3>2, <4>0, Shortened
      <4>2. q \in 0 .. i
        BY <2>1, <4>1
      <4>3. PICK k \in 1 .. q + 1 : Fits(q, base, k)
        BY <2>1, <4>2
      <4>4. k \in Nat /\ k >= 1 /\ k + 1 \in 1 .. m + 1
        BY <4>0, <4>1, <4>3
      <4>5. Fits(m, base, k + 1)
        BY <3>2, <4>0, <4>1, <4>3, <4>4, SizeGrows
      <4> QED
        BY <4>4, <4>5
    <3>3. m \in Int
      OBVIOUS
    <3> QED
      BY <3>1, <3>2, <3>3
  <2> QED
    BY <2>1, <2>2
<1>3. S = Nat
  <2>1. S \in SUBSET Nat
    OBVIOUS
  <2> HIDE DEF S
  <2> QED
    BY <1>1, <1>2, <2>1, Induction
<1>4. n \in S /\ n \in 0 .. n
  BY <1>3
<1> QED
  BY <1>4

(* The characters of numbers.                                              *)
Digits == {DigitChar(d) : d \in 0 .. 15}

(* The digits of a number are one for a small one, and else those of the   *)
(* number without its last digit, and that.                                *)
LEMMA InBaseIs ==
  ASSUME NEW n \in Nat, NEW base \in 2 .. 16
  PROVE  /\ InBase(n, base) \in Seq(Digits)
         /\ n < base => InBase(n, base) = <<DigitChar(n % base)>>
         /\ n >= base => InBase(n, base) = InBase(n \div base, base) \o <<DigitChar(n % base)>>
<1>0. base \in Nat /\ base >= 2 /\ base > 0 /\ base \in Int
  OBVIOUS
<1> DEFINE Size(m) == CHOOSE k \in 1 .. m + 1 : Fits(m, base, k)
           Shape(m, s) == [k \in 1 .. s |-> DigitChar((m \div Power(base)[s - k]) % base)]
<1>1. ASSUME NEW m \in Nat PROVE Size(m) \in 1 .. m + 1 /\ Fits(m, base, Size(m))
  <2>1. \E k \in 1 .. m + 1 : Fits(m, base, k)
    BY <1>0, SizeExists
  <2> QED
    BY <2>1
<1>2. ASSUME NEW m \in Nat PROVE InBase(m, base) = Shape(m, Size(m))
  BY DEF InBase, Fits
<1>3. ASSUME NEW m \in Nat, NEW k \in Nat, k >= 1, Fits(m, base, k) PROVE Size(m) = k
  <2>1. PICK j \in Nat : j = Size(m) /\ j >= 1 /\ Fits(m, base, j)
    BY <1>1
  <2>2. j = k
    BY <1>0, <1>3, <2>1, OneSize
  <2> QED
    BY <2>1, <2>2
<1>4. ASSUME NEW x \in Int PROVE DigitChar(x % base) \in Digits
  <2>1. x % base \in 0 .. base - 1
    BY <1>0
  <2>2. PICK d \in 0 .. 15 : d = x % base
    BY <2>1
  <2> QED
    BY <2>2 DEF Digits
<1>5. PICK w \in [Nat -> Int] : w = Power(base)
  BY <1>0, Powers
<1>6. w[0] = 1 /\ \A k \in Nat : w[k + 1] = base * w[k]
  BY <1>0, <1>5, Powers
<1>7. \A k \in Nat : w[k] \in Nat /\ w[k] > 0
  <2>1. \A k \in Nat : w[k] \in Int /\ w[k] > 0
    BY <1>0, <1>5, PowersGrow
  <2> QED
    BY <2>1
<1>8. \A m \in Nat, k \in Nat : m \div w[k] \in Int
  BY <1>7
<1>9. PICK s \in Nat : s = Size(n) /\ s >= 1 /\ Fits(n, base, s)
  BY <1>1
<1>10. InBase(n, base) = Shape(n, s)
  BY <1>2, <1>9
<1>11. InBase(n, base) \in Seq(Digits)
  <2>1. ASSUME NEW k \in 1 .. s PROVE DigitChar((n \div Power(base)[s - k]) % base) \in Digits
    <3>1. s - k \in Nat
      BY <1>9
    <3>2. n \div w[s - k] \in Int
      BY <1>8, <3>1
    <3> QED
      BY <1>4, <1>5, <3>2
  <2>2. PICK g : g = [k \in 1 .. s |-> DigitChar((n \div Power(base)[s - k]) % base)]
    OBVIOUS
  <2>3. g \in [1 .. s -> Digits]
    BY <2>1, <2>2
  <2>4. g \in Seq(Digits)
    <3>1. s \in Nat
      OBVIOUS
    <3> QED
      BY <2>3, <3>1
  <2> QED
    BY <1>10, <2>2, <2>4
<1>12. ASSUME n < base PROVE InBase(n, base) = <<DigitChar(n % base)>>
  <2>1. Size(n) = 1
    <3>1. Fits(n, base, 1)
      BY <1>0, <1>12, SizeGrows
    <3> QED
      BY <1>3, <3>1
  <2>2. InBase(n, base) = Shape(n, 1)
    <3> HIDE DEF Size, Shape
    <3> QED
      BY <1>2, <2>1
  <2>3. n \div Power(base)[1 - 1] = n
    <3>1. Power(base)[0] = 1
      BY <1>5, <1>6
    <3>2. 1 - 1 = 0 /\ n \div 1 = n
      OBVIOUS
    <3> QED
      BY <3>1, <3>2
  <2>4. PICK d : d = DigitChar(n % base)
    OBVIOUS
  <2>5. Shape(n, 1) = [k \in 1 .. 1 |-> d]
    <3>1. \A k \in 1 .. 1 : k = 1
      OBVIOUS
    <3>2. \A k \in 1 .. 1 : DigitChar((n \div Power(base)[1 - k]) % base) = d
      BY <2>3, <2>4, <3>1
    <3> QED
      BY <3>2
  <2> QED
    BY <2>2, <2>4, <2>5
<1>13. ASSUME n >= base PROVE InBase(n, base) = InBase(n \div base, base) \o <<DigitChar(n % base)>>
  <2>1. PICK m \in Nat : m = n \div base
    BY <1>0, Shortened
  <2>2. PICK k \in Nat : k = Size(m) /\ k >= 1 /\ Fits(m, base, k)
    BY <1>1
  <2>3. Size(n) = k + 1
    <3>1. Fits(n, base, k + 1)
      BY <1>0, <1>13, <2>1, <2>2, SizeGrows
    <3>2. k + 1 \in Nat /\ k + 1 >= 1
      OBVIOUS
    <3> QED
      BY <1>3, <3>1, <3>2
  <2>4. InBase(n, base) = Shape(n, k + 1) /\ InBase(m, base) = Shape(m, k)
    <3> HIDE DEF Size, Shape
    <3> QED
      BY <1>2, <2>2, <2>3
  <2>5. PICK d : d = DigitChar(n % base)
    OBVIOUS
  <2>6. d \in Digits
    <3>1. n \in Int
      OBVIOUS
    <3> QED
      BY <1>4, <2>5, <3>1
  <2>7. PICK g : g = [i \in 1 .. k |-> DigitChar((m \div Power(base)[k - i]) % base)]
    OBVIOUS
  <2>8. PICK h : h = [i \in 1 .. k + 1 |-> DigitChar((n \div Power(base)[(k + 1) - i]) % base)]
    OBVIOUS
  <2>9. ASSUME NEW i \in 1 .. k PROVE h[i] = g[i]
    <3>1. k - i \in Nat /\ (k + 1) - i = (k - i) + 1 /\ i \in 1 .. k + 1
      OBVIOUS
    <3>2. PICK x \in Nat : x = w[k - i] /\ x > 0
      BY <1>7, <3>1
    <3>3. w[(k - i) + 1] = base * x
      BY <1>6, <3>1, <3>2
    <3>4. (n \div base) \div x = n \div (base * x)
      <4>1. n \in Int
        OBVIOUS
      <4> QED
        BY <1>0, <3>2, <4>1, DivideTwice
    <3>5. n \div w[(k + 1) - i] = m \div w[k - i]
      BY <2>1, <3>1, <3>2, <3>3, <3>4
    <3>6. h[i] = DigitChar((n \div w[(k + 1) - i]) % base) /\ g[i] = DigitChar((m \div w[k - i]) % base)
      BY <1>5, <2>7, <2>8, <3>1
    <3> QED
      BY <3>5, <3>6
  <2>10. h[k + 1] = d
    <3>1. k + 1 \in 1 .. k + 1 /\ (k + 1) - (k + 1) = 0 /\ n \div 1 = n
      OBVIOUS
    <3>2. h[k + 1] = DigitChar((n \div w[(k + 1) - (k + 1)]) % base)
      BY <1>5, <2>8, <3>1
    <3>3. (n \div w[(k + 1) - (k + 1)]) = n
      BY <1>6, <3>1
    <3> QED
      BY <2>5, <3>2, <3>3
  <2>11. g \in Seq(Digits) /\ Len(g) = k
    <3>1. ASSUME NEW i \in 1 .. k PROVE DigitChar((m \div Power(base)[k - i]) % base) \in Digits
      <4>1. k - i \in Nat
        OBVIOUS
      <4>2. m \div w[k - i] \in Int
        BY <1>8, <4>1
      <4> QED
        BY <1>4, <1>5, <4>2
    <3>2. g \in [1 .. k -> Digits]
      BY <2>7, <3>1
    <3> QED
      BY <3>2
  <2>12. h = g \o <<d>>
    <3>1. PICK e : e = g \o <<d>>
      OBVIOUS
    <3>2. e \in Seq(Digits) /\ Len(e) = k + 1 /\ e[k + 1] = d /\ \A i \in 1 .. k : e[i] = g[i]
      BY <2>6, <2>11, <3>1
    <3>3. \A i \in 1 .. k + 1 : h[i] = e[i]
      <4>1. \A i \in 1 .. k + 1 : i \in 1 .. k \/ i = k + 1
        OBVIOUS
      <4> QED
        BY <2>9, <2>10, <3>2, <4>1
    <3>4. DOMAIN e = 1 .. k + 1 /\ e = [i \in 1 .. k + 1 |-> e[i]]
      BY <3>2
    <3>5. h = [i \in 1 .. k + 1 |-> h[i]]
      BY <2>8
    <3> QED
      BY <3>1, <3>3, <3>4, <3>5
  <2> HIDE DEF Size
  <2> QED
    BY <2>1, <2>4, <2>5, <2>7, <2>8, <2>12
<1> QED
  BY <1>11, <1>12, <1>13

(* A sequence over a set is one over a greater set.                        *)
LEMMA Wider ==
  ASSUME NEW S, NEW T, S \subseteq T, NEW s \in Seq(S)
  PROVE  s \in Seq(T) /\ Len(s) \in Nat
OBVIOUS

(* The greater of two.                                                     *)
LEMMA MaxOfTwo ==
  ASSUME NEW x \in Int, NEW y \in Int
  PROVE  Max({x, y}) = IF x >= y THEN x ELSE y
<1> DEFINE greatest == IF x >= y THEN x ELSE y
<1>1. greatest \in {x, y} /\ \A z \in {x, y} : greatest >= z
  OBVIOUS
<1>2. \A w \in {x, y} : (\A z \in {x, y} : w >= z) => w = greatest
  OBVIOUS
<1> QED
  BY <1>1, <1>2 DEF Max

(* Padding is none where none is missing, and else one character and less  *)
(* padding.                                                                *)
LEMMA FillIs ==
  ASSUME NEW n \in Int, NEW c
  PROVE  /\ Fill(n, c) \in Seq({c}) /\ Len(Fill(n, c)) = IF n >= 0 THEN n ELSE 0
         /\ n <= 0 => Fill(n, c) = <<>>
         /\ n > 0 => Fill(n, c) = <<c>> \o Fill(n - 1, c)
         /\ Fill(Max({n, 0}), c) = Fill(n, c)
<1>1. PICK m \in Nat : m = IF n >= 0 THEN n ELSE 0
  OBVIOUS
<1>2. Max({n, 0}) = m
  BY <1>1, MaxOfTwo
<1>3. Fill(n, c) = [k \in 1 .. m |-> c]
  BY <1>2 DEF Fill
<1>4. Fill(n, c) \in Seq({c}) /\ Len(Fill(n, c)) = m
  BY <1>3
<1>5. n <= 0 => Fill(n, c) = <<>>
  <2>1. n <= 0 => m = 0
    BY <1>1
  <2> QED
    BY <1>3, <2>1
<1>6. Fill(Max({n, 0}), c) = Fill(n, c)
  <2>1. Max({m, 0}) = m
    BY <1>1, MaxOfTwo
  <2>2. Fill(m, c) = [k \in 1 .. m |-> c]
    BY <2>1 DEF Fill
  <2> QED
    BY <1>2, <1>3, <2>2
<1>7. n > 0 => Fill(n, c) = <<c>> \o Fill(n - 1, c)
  <2> SUFFICES ASSUME n > 0 PROVE Fill(n, c) = <<c>> \o Fill(n - 1, c)
    OBVIOUS
  <2>1. PICK l \in Nat : l = n - 1 /\ m = l + 1
    <3>1. n - 1 \in Nat /\ m = (n - 1) + 1
      BY <1>1
    <3> QED
      BY <3>1
  <2>2. Max({l, 0}) = l
    BY MaxOfTwo
  <2>3. PICK t : t = Fill(n - 1, c)
    OBVIOUS
  <2>4. t = [k \in 1 .. l |-> c]
    BY <2>1, <2>2, <2>3 DEF Fill
  <2>5. PICK u : u = <<c>> \o t
    OBVIOUS
  <2>6. u \in Seq({c}) /\ Len(u) = l + 1
    BY <2>4, <2>5
  <2>7. u = [k \in 1 .. l + 1 |-> c]
    <3>1. u = [k \in 1 .. l + 1 |-> u[k]] /\ \A k \in 1 .. l + 1 : u[k] = c
      BY <2>6
    <3> QED
      BY <3>1
  <2> QED
    BY <1>3, <2>1, <2>3, <2>5, <2>7
<1> QED
  BY <1>1, <1>4, <1>5, <1>6, <1>7

(* printnum prints the digits of the number, and the padding before them.  *)
LEMMA PrintnumIs ==
  ASSUME NEW num \in Nat, NEW base \in 2 .. 16, NEW width \in Int, NEW padc
  PROVE  Printnum(num, base, width, padc) = Fill(width - Len(InBase(num, base)), padc) \o InBase(num, base)
<1>1. PICK digits : digits = [n \in Nat |-> InBase(n, base)]
  OBVIOUS
<1>2. PICK last : last = [n \in Nat |-> DigitChar(n % base)]
  OBVIOUS
<1>3. PICK rest : rest = [n \in Nat |-> n \div base]
  OBVIOUS
<1>4. \A n \in Nat : /\ digits[n] \in Seq(Digits)
                     /\ n < base => digits[n] = <<last[n]>>
                     /\ n >= base => rest[n] \in Nat /\ rest[n] < n /\ digits[n] = digits[rest[n]] \o <<last[n]>>
  <2> TAKE n \in Nat
  <2>1. /\ InBase(n, base) \in Seq(Digits)
        /\ n < base => InBase(n, base) = <<DigitChar(n % base)>>
        /\ n >= base => InBase(n, base) = InBase(n \div base, base) \o <<DigitChar(n % base)>>
    BY InBaseIs
  <2>2. n \div base \in Nat /\ (n >= base => n \div base < n)
    <3>1. base \in Nat /\ base >= 2
      OBVIOUS
    <3> QED
      BY <3>1, Shortened
  <2> QED
    BY <1>1, <1>2, <1>3, <2>1, <2>2
<1>5. PICK T : T = Digits \cup {padc}
  OBVIOUS
<1>6. \A n \in Nat : digits[n] \in Seq(T) /\ Len(digits[n]) \in Nat
  <2> TAKE n \in Nat
  <2>1. digits[n] \in Seq(Digits) /\ Digits \subseteq T
    BY <1>4, <1>5
  <2> QED
    BY <2>1, Wider
<1>7. \A n \in Nat : last[n] \in T
  <2> TAKE n \in Nat
  <2>1. n % base \in 0 .. 15
    <3>1. n % base \in 0 .. base - 1
      OBVIOUS
    <3> QED
      BY <3>1
  <2> QED
    BY <1>2, <1>5, <2>1 DEF Digits
<1>8. PICK fill : fill = [w \in Int |-> Fill(w, padc)]
  OBVIOUS
<1>9. \A w \in Int : fill[w] \in Seq(T)
  <2> TAKE w \in Int
  <2>1. Fill(w, padc) \in Seq({padc})
    BY FillIs
  <2> QED
    BY <1>5, <1>8, <2>1
<1> DEFINE Is(g) == g = [n \in Nat |-> [w \in Int |->
                (IF n >= base THEN g[n \div base][w - 1] ELSE Fill(w - 1, padc)) \o <<DigitChar(n % base)>>]]
           Turn(g, n, w) == (IF n >= base THEN g[rest[n]][w - 1] ELSE fill[w - 1]) \o <<last[n]>>
<1>10. ASSUME NEW g PROVE Is(g) <=> g = [n \in Nat |-> [w \in Int |-> Turn(g, n, w)]]
  <2>1. \A n \in Nat, w \in Int : Turn(g, n, w) = 
          (IF n >= base THEN g[n \div base][w - 1] ELSE Fill(w - 1, padc)) \o <<DigitChar(n % base)>>
    <3> TAKE n \in Nat, w \in Int
    <3>1. rest[n] = n \div base /\ last[n] = DigitChar(n % base)
      BY <1>2, <1>3
    <3>2. fill[w - 1] = Fill(w - 1, padc)
      BY <1>8
    <3> QED
      BY <3>1, <3>2
  <2> HIDE DEF Turn
  <2> QED
    BY <2>1
<1>11. PICK h : h = [n \in Nat |-> [w \in Int |-> fill[w - Len(digits[n])] \o digits[n]]]
  OBVIOUS
<1>12. ASSUME NEW n \in Nat, NEW w \in Int PROVE h[n][w] = Turn(h, n, w)
  <2>1. h[n][w] = fill[w - Len(digits[n])] \o digits[n]
    BY <1>11
  <2>2. CASE n < base
    <3>1. digits[n] = <<last[n]>> /\ Len(<<last[n]>>) = 1
      BY <1>4, <2>2
    <3>2. ~(n >= base)
      BY <2>2
    <3> QED
      BY <2>1, <3>1, <3>2
  <2>3. CASE n >= base
    <3>1. rest[n] \in Nat /\ digits[n] = digits[rest[n]] \o <<last[n]>>
      BY <1>4, <2>3
    <3>0. PICK m \in Nat : m = Len(digits[rest[n]])
      BY <1>6, <3>1
    <3>2. PICK d, t : m = Len(d) /\ d = digits[rest[n]] /\ t = <<last[n]>>
      BY <3>0
    <3>3. d \in Seq(T) /\ t \in Seq(T) /\ Len(t) = 1 /\ Len(d) = m
      BY <1>6, <1>7, <3>1, <3>2
    <3>4. Len(d \o t) = m + 1
      <4>1. d \in Seq(T)
        BY <3>3
      <4>2. t \in Seq(T)
        BY <3>3
      <4>3. Len(d \o t) = Len(d) + Len(t)
        BY <4>1, <4>2, Joined
      <4> QED
        BY <3>3, <4>3
    <3>5. PICK s \in Seq(T) : s = fill[(w - 1) - m]
      BY <1>9
    <3>6. (w - 1) - m = w - (m + 1) /\ w - 1 \in Int
      OBVIOUS
    <3>7. h[rest[n]][w - 1] = s \o d
      BY <1>11, <3>1, <3>2, <3>5, <3>6
    <3>8. h[n][w] = s \o (d \o t)
      BY <2>1, <3>1, <3>2, <3>4, <3>5, <3>6
    <3>9. (s \o d) \o t = s \o (d \o t)
      BY <3>3, Regroup
    <3> QED
      BY <2>3, <3>2, <3>7, <3>8, <3>9
  <2> QED
    BY <2>2, <2>3
<1>13. Is(h)
  <2>1. h = [n \in Nat |-> [w \in Int |-> Turn(h, n, w)]]
    <3>1. h = [n \in Nat |-> [w \in Int |-> h[n][w]]]
      BY <1>11
    <3> HIDE DEF Turn
    <3> QED
      BY <1>12, <3>1
  <2> HIDE DEF Is, Turn
  <2> QED
    BY <1>10, <2>1
<1>14. Printnum(num, base, width, padc) = (CHOOSE g : Is(g))[num][width]
  BY DEF Printnum
<1>15. PICK g : g = CHOOSE u : Is(u)
  OBVIOUS
<1>16. Is(g)
  <2> HIDE DEF Is
  <2> QED
    BY <1>13, <1>15
<1>17. \A n \in Nat, w \in Int : g[n][w] = Turn(g, n, w)
  <2>1. g = [n \in Nat |-> [w \in Int |-> Turn(g, n, w)]]
    <3> HIDE DEF Is, Turn
    <3> QED
      BY <1>10, <1>16
  <2> HIDE DEF Turn
  <2> QED
    BY <2>1
<1>18. \A n \in Nat, w \in Int : g[n][w] = h[n][w]
  <2> DEFINE S == {i \in Nat : \A n \in 0 .. i : \A w \in Int : g[n][w] = h[n][w]}
  <2>1. ASSUME NEW n \in Nat, \A m \in Nat : m < n => \A w \in Int : g[m][w] = h[m][w]
        PROVE  \A w \in Int : g[n][w] = h[n][w]
    <3> TAKE w \in Int
    <3>1. g[n][w] = Turn(g, n, w) /\ h[n][w] = Turn(h, n, w)
      BY <1>12, <1>17
    <3>2. n >= base => g[rest[n]][w - 1] = h[rest[n]][w - 1]
      <4>1. w - 1 \in Int
        OBVIOUS
      <4> QED
        BY <1>4, <2>1, <4>1
    <3> QED
      BY <3>1, <3>2
  <2>2. 0 \in S
    <3>1. \A w \in Int : g[0][w] = h[0][w]
      <4>1. \A m \in Nat : m < 0 => FALSE
        OBVIOUS
      <4> QED
        BY <2>1, <4>1
    <3> QED
      BY <3>1
  <2>3. ASSUME NEW i \in S PROVE i + 1 \in S
    <3>1. i \in Nat /\ \A n \in 0 .. i : \A w \in Int : g[n][w] = h[n][w]
      OBVIOUS
    <3>2. \A m \in Nat : m < i + 1 => m \in 0 .. i
      BY <3>1
    <3>3. \A w \in Int : g[i + 1][w] = h[i + 1][w]
      BY <2>1, <3>1, <3>2
    <3>4. \A n \in 0 .. i + 1 : n \in 0 .. i \/ n = i + 1
      BY <3>1
    <3> QED
      BY <3>1, <3>3, <3>4
  <2>4. S = Nat
    <3>1. S \in SUBSET Nat
      OBVIOUS
    <3> HIDE DEF S
    <3> QED
      BY <2>2, <2>3, <3>1, Induction
  <2> TAKE n \in Nat, w \in Int
  <2>5. n \in S /\ n \in 0 .. n
    BY <2>4
  <2> QED
    BY <2>5
<1>19. Printnum(num, base, width, padc) = h[num][width]
  <2> HIDE DEF Is
  <2> QED
    BY <1>14, <1>15, <1>18
<1>20. fill[width - Len(digits[num])] = Fill(width - Len(digits[num]), padc)
  <2>1. width - Len(digits[num]) \in Int
    BY <1>6
  <2> QED
    BY <1>8, <2>1
<1> QED
  BY <1>1, <1>11, <1>19, <1>20
-----------------------------------------------------------------------------
(* What the flags, the width and the precision passed so far have left in  *)
(* the locals.                                                             *)
Seen == {asked.d.flags[k] : k \in {j \in DOMAIN asked.d.flags : j <= f - 2}}
PadOf(flags) == IF "-" \in flags THEN "-" ELSE IF "0" \in flags THEN "0" ELSE " "
WidthField == Field(asked.d.width, asked.width)
PrecisionField == Field(asked.d.precision, asked.precision)

(* The width and the precision when f comes to i.                          *)
WidthAt(i) ==
    IF i <= AfterWidth THEN -1
    ELSE IF i = AfterWidth + 1 \/ asked.d.precision = <<>> THEN WidthField
    ELSE Max({WidthField, 0})
PrecisionAt(i) == IF i <= AfterPrecision THEN -1 ELSE PrecisionField

LocalsOK ==
    /\ dir.padc = PadOf(Seen) /\ dir.altflag = ("#" \in Seen)
    /\ dir.width = WidthAt(f) /\ dir.precision = PrecisionAt(f)

(* A sequence of characters, whatever they are.                            *)
IsText(s) == \E S : s \in Seq(S)

(* What %s still has to print of a text, with precision and flag.          *)
Clean(text, precision, alt) ==
    [k \in 1 .. Strnlen(text, precision) |-> IF alt /\ text[k] = "ctl" THEN "?" ELSE text[k]]

(* What is to be printed, and the numbers the property is not about.       *)
First == Shown(asked.d, asked.arg)
Second == <<"a">> \o Shown(Plain, NextWord)
Dashed == asked.d.conv \in Numeric /\ "-" \in ToSet(asked.d.flags)

(* What has been printed, and what is left of the directive, make up what  *)
(* is to be printed.                                                       *)
OutOK ==
    /\ pc = "vsnprintf" => out = <<>>
    /\ pc = "scan" =>
         /\ f = 1 => out = <<>>
         /\ f \in 2 .. ConvAt => out = SubSeq(fmt, 1, f - 1)
         /\ Behind(1) => out = First
         /\ Behind(2) => IsText(First) /\ out = First \o <<"a">>
         /\ Behind(4) => out = First \o Second
    /\ pc = "switch" =>
         /\ f \in 2 .. ConvAt => out = <<>> /\ LocalsOK
         /\ Behind(3) => IsText(First) /\ out = First \o <<"a">> /\ dir = Fresh
    /\ pc = "emit" =>
         /\ Behind(1) => out \o p = First
         /\ Behind(4) => out \o p = First \o Second
    /\ pc = "pad" => out \o (Fill(dir.width, dir.padc) \o Clean(p, dir.precision, dir.altflag)) = First
    /\ pc = "string" =>
         out \o (Clean(p, dir.precision, dir.altflag)
                   \o Fill(dir.width - Len(Clean(p, dir.precision, dir.altflag)), " ")) = First
    /\ pc = "tail" => out \o Fill(dir.width, " ") = First
    /\ pc = "done" /\ ret # INVAL => out = IF asked.d.conv = "nul" THEN First ELSE First \o Second

(* The texts are texts.                                                    *)
TextOK == IsText(out) /\ IsText(p)

(* All of it, unless a number has the flag '-'.                            *)
OutInv == AskedOK /\ (Dashed \/ (TextOK /\ OutOK))

(* Texts are over one set of characters.                                   *)
LEMMA Together ==
  ASSUME NEW s, NEW t, NEW u, IsText(s), IsText(t), IsText(u), NEW c
  PROVE  \E S : s \in Seq(S) /\ t \in Seq(S) /\ u \in Seq(S) /\ c \in S
<1>1. PICK A, B, C : s \in Seq(A) /\ t \in Seq(B) /\ u \in Seq(C)
  BY Zenon DEF IsText
<1>2. PICK S : S = A \cup B \cup C \cup {c}
  OBVIOUS
<1>3. A \subseteq S /\ B \subseteq S /\ C \subseteq S /\ c \in S
  BY <1>2
<1>4. s \in Seq(S)
  BY <1>1, <1>3, Wider
<1>5. t \in Seq(S)
  BY <1>1, <1>3, Wider
<1>6. u \in Seq(S)
  BY <1>1, <1>3, Wider
<1> QED
  BY <1>3, <1>4, <1>5, <1>6

(* Joining texts is joining sequences.                                     *)
LEMMA Texts ==
  ASSUME NEW s, NEW t, NEW u, IsText(s), IsText(t), IsText(u)
  PROVE  /\ IsText(s \o t) /\ (s \o t) \o u = s \o (t \o u)
         /\ <<>> \o s = s /\ s \o <<>> = s
         /\ \A c : Append(s, c) = s \o <<c>> /\ IsText(Append(s, c)) /\ Append(s, c) \o t = s \o (<<c>> \o t)
<1>1. PICK S : s \in Seq(S) /\ t \in Seq(S) /\ u \in Seq(S)
  BY Together
<1>2. s \in Seq(S)
  BY <1>1
<1>3. t \in Seq(S)
  BY <1>1
<1>4. u \in Seq(S)
  BY <1>1
<1>5. s \o t \in Seq(S)
  BY <1>2, <1>3, Joined
<1>6. (s \o t) \o u = s \o (t \o u)
  BY <1>2, <1>3, <1>4, Regroup
<1>7. <<>> \o s = s /\ s \o <<>> = s
  BY <1>2, NoneBefore
<1>8. ASSUME NEW c PROVE Append(s, c) = s \o <<c>> /\ IsText(Append(s, c)) /\ Append(s, c) \o t = s \o (<<c>> \o t)
  <2>1. PICK T : s \in Seq(T) /\ t \in Seq(T) /\ c \in T
    BY Together
  <2>2. PICK v : v = <<c>>
    OBVIOUS
  <2>3. s \in Seq(T)
    BY <2>1
  <2>4. t \in Seq(T)
    BY <2>1
  <2>5. v \in Seq(T)
    BY <2>1, <2>2
  <2>6. Append(s, c) = s \o v
    BY <2>1, <2>2
  <2>7. s \o v \in Seq(T)
    BY <2>3, <2>5, Joined
  <2>8. (s \o v) \o t = s \o (v \o t)
    BY <2>3, <2>4, <2>5, Regroup
  <2> QED
    BY <2>2, <2>6, <2>7, <2>8, Zenon DEF IsText
<1> QED
  BY <1>5, <1>6, <1>7, <1>8, Zenon DEF IsText

(* A text is its first character and the rest.                             *)
LEMMA FirstAndRest ==
  ASSUME NEW s, IsText(s), s # <<>>
  PROVE  IsText(Tail(s)) /\ s = <<Head(s)>> \o Tail(s)
<1>1. PICK S : s \in Seq(S)
  BY Zenon DEF IsText
<1>2. PICK t, c : t = Tail(s) /\ c = Head(s)
  OBVIOUS
<1>3. t \in Seq(S) /\ c \in S /\ Len(s) \in Nat /\ Len(s) = Len(t) + 1 /\ s[1] = c
         /\ \A k \in 1 .. Len(t) : s[k + 1] = t[k]
  BY <1>1, <1>2
<1>4. PICK u : u = <<c>> \o t
  OBVIOUS
<1>5. u \in Seq(S) /\ Len(u) = Len(t) + 1 /\ u[1] = c /\ \A k \in 1 .. Len(t) : u[k + 1] = t[k]
  BY <1>3, <1>4
<1>6. \A k \in 1 .. Len(s) : s[k] = u[k]
  <2> TAKE k \in 1 .. Len(s)
  <2>1. k = 1 \/ (k - 1 \in 1 .. Len(t) /\ (k - 1) + 1 = k)
    BY <1>3
  <2> QED
    BY <1>3, <1>5, <2>1
<1>7. Len(s) = Len(u)
  BY <1>3, <1>5
<1>8. s \in Seq(S) /\ u \in Seq(S)
  BY <1>1, <1>5
<1>9. s = u
  BY <1>6, <1>7, <1>8, Alike
<1> QED
  BY <1>2, <1>3, <1>4, <1>9, Zenon DEF IsText

(* One character alone, padding and digits are texts.                      *)
LEMMA SomeTexts ==
  /\ IsText(<<>>) /\ \A c : IsText(<<c>>)
  /\ \A n \in Int : \A c : IsText(Fill(n, c))
  /\ \A n \in Nat : \A base \in 2 .. 16 : IsText(InBase(n, base))
<1>1. IsText(<<>>)
  <2>1. <<>> \in Seq({})
    OBVIOUS
  <2> QED
    BY <2>1, Zenon DEF IsText
<1>2. \A c : IsText(<<c>>)
  <2> TAKE c
  <2>1. <<c>> \in Seq({c})
    OBVIOUS
  <2> QED
    BY <2>1, Zenon DEF IsText
<1>3. \A n \in Int : \A c : IsText(Fill(n, c))
  <2> TAKE n \in Int
  <2> TAKE c
  <2>1. Fill(n, c) \in Seq({c})
    BY FillIs
  <2> QED
    BY <2>1, Zenon DEF IsText
<1>4. \A n \in Nat : \A base \in 2 .. 16 : IsText(InBase(n, base))
  <2> TAKE n \in Nat
  <2> TAKE base \in 2 .. 16
  <2>1. InBase(n, base) \in Seq(Digits)
    BY InBaseIs
  <2> QED
    BY <2>1, Zenon DEF IsText
<1> QED
  BY <1>1, <1>2, <1>3, <1>4

(* What %s prints of a text it prints character by character.              *)
LEMMA CleanIs ==
  ASSUME NEW text, IsText(text), NEW n \in Int, NEW alt
  PROVE  /\ IsText(Clean(text, n, alt)) /\ Len(Clean(text, n, alt)) \in Nat
         /\ Len(Clean(text, n, alt)) = Strnlen(text, n)
         /\ text = <<>> \/ n = 0 => Clean(text, n, alt) = <<>>
         /\ text # <<>> /\ n # 0 =>
              LET c == IF alt /\ Head(text) = "ctl" THEN "?" ELSE Head(text)
                  rest == Clean(Tail(text), IF n < 0 THEN n ELSE n - 1, alt)
              IN  Clean(text, n, alt) = <<c>> \o rest /\ Len(Clean(text, n, alt)) = 1 + Len(rest)
<1>1. PICK S : text \in Seq(S)
  BY Zenon DEF IsText
<1>2. ASSUME NEW t \in Seq(S), NEW i \in Int
      PROVE  /\ Strnlen(t, i) \in Nat
             /\ Strnlen(t, i) = IF i < 0 \/ Len(t) <= i THEN Len(t) ELSE i
             /\ Clean(t, i, alt) \in Seq(S \cup {"?"}) /\ Len(Clean(t, i, alt)) = Strnlen(t, i)
             /\ \A k \in 1 .. Strnlen(t, i) : k \in 1 .. Len(t) /\ Clean(t, i, alt)[k]
                           = IF alt /\ t[k] = "ctl" THEN "?" ELSE t[k]
  <2>1. PICK l \in Nat : l = Len(t)
    OBVIOUS
  <2>2. Min({l, i}) = IF l <= i THEN l ELSE i
    BY MinOfTwo
  <2>3. PICK m \in Nat : m = Strnlen(t, i) /\ m <= l /\ m = IF i < 0 \/ l <= i THEN l ELSE i
    BY <2>1, <2>2 DEF Strnlen
  <2>4. PICK u : u = Clean(t, i, alt)
    OBVIOUS
  <2>5. u = [k \in 1 .. m |-> IF alt /\ t[k] = "ctl" THEN "?" ELSE t[k]]
    BY <2>3, <2>4 DEF Clean
  <2>6. \A k \in 1 .. m : k \in 1 .. Len(t) /\ t[k] \in S
    BY <2>1, <2>3
  <2>7. u \in [1 .. m -> S \cup {"?"}]
    BY <2>5, <2>6
  <2>8. u \in Seq(S \cup {"?"}) /\ Len(u) = m
    BY <2>7
  <2> QED
    BY <2>1, <2>3, <2>4, <2>5, <2>6, <2>8
<1>3. /\ Clean(text, n, alt) \in Seq(S \cup {"?"}) /\ Len(Clean(text, n, alt)) = Strnlen(text, n)
      /\ Strnlen(text, n) \in Nat
  BY <1>1, <1>2
<1>4. ASSUME text = <<>> \/ n = 0 PROVE Clean(text, n, alt) = <<>>
  <2>1. Strnlen(text, n) = 0
    <3>1. Len(text) \in Nat /\ (text = <<>> => Len(text) = 0)
      BY <1>1
    <3>2. Strnlen(text, n) = IF n < 0 \/ Len(text) <= n THEN Len(text) ELSE n
      BY <1>1, <1>2
    <3> QED
      BY <1>4, <3>1, <3>2
  <2> QED
    BY <1>3, <2>1
<1>5. ASSUME text # <<>>, n # 0
      PROVE  LET c == IF alt /\ Head(text) = "ctl" THEN "?" ELSE Head(text)
                 rest == Clean(Tail(text), IF n < 0 THEN n ELSE n - 1, alt)
             IN  Clean(text, n, alt) = <<c>> \o rest /\ Len(Clean(text, n, alt)) = 1 + Len(rest)
  <2>1. PICK t, h : t = Tail(text) /\ h = Head(text)
    OBVIOUS
  <2>2. /\ t \in Seq(S) /\ Len(t) \in Nat /\ Len(text) = 1 + Len(t) /\ text[1] = h
        /\ \A k \in 1 .. Len(t) : text[k + 1] = t[k]
    BY <1>1, <1>5, <2>1
  <2>3. PICK i \in Int : i = IF n < 0 THEN n ELSE n - 1
    OBVIOUS
  <2>4. PICK c : c = IF alt /\ h = "ctl" THEN "?" ELSE h
    OBVIOUS
  <2>5. PICK r : r = Clean(t, i, alt)
    OBVIOUS
  <2>6. PICK m \in Nat : /\ m = Strnlen(t, i) /\ Len(r) = m /\ r \in Seq(S \cup {"?"})
                         /\ m = IF i < 0 \/ Len(t) <= i THEN Len(t) ELSE i
                         /\ \A k \in 1 .. m : k \in 1 .. Len(t) /\ r[k] = IF alt /\ t[k] = "ctl" THEN "?" ELSE t[k]
    BY <1>2, <2>2, <2>5
  <2>7. PICK u : u = Clean(text, n, alt)
    OBVIOUS
  <2>8. Strnlen(text, n) = IF n < 0 \/ Len(text) <= n THEN Len(text) ELSE n
    BY <1>1, <1>2
  <2>9. Strnlen(text, n) = m + 1
    BY <1>5, <2>2, <2>3, <2>6, <2>8
  <2>10. /\ u \in Seq(S \cup {"?"}) /\ Len(u) = m + 1
         /\ \A k \in 1 .. m + 1 : u[k] = IF alt /\ text[k] = "ctl" THEN "?" ELSE text[k]
    BY <1>1, <1>2, <2>7, <2>9
  <2>11. PICK A : A = S \cup {"?"}
    OBVIOUS
  <2>12. u[1] = c /\ c \in A
    <3>1. 1 \in 1 .. m + 1
      OBVIOUS
    <3>2. u[1] = c
      BY <2>2, <2>4, <2>10, <3>1
    <3>3. u[1] \in A
      BY <2>10, <2>11, <3>1
    <3> QED
      BY <3>2, <3>3
  <2>13. ASSUME NEW k \in 1 .. m PROVE u[k + 1] = r[k]
    <3>1. k + 1 \in 1 .. m + 1 /\ k \in 1 .. Len(t)
      BY <2>6
    <3>2. text[k + 1] = t[k]
      BY <2>2, <3>1
    <3> QED
      BY <2>6, <2>10, <3>1, <3>2
  <2>14. PICK v : v = <<c>> \o r
    OBVIOUS
  <2>15. v \in Seq(A) /\ Len(v) = m + 1 /\ v[1] = c /\ \A k \in 1 .. m : v[k + 1] = r[k]
    BY <2>6, <2>11, <2>12, <2>14
  <2>16. \A k \in 1 .. Len(u) : u[k] = v[k]
    <3> TAKE k \in 1 .. Len(u)
    <3>1. k = 1 \/ (k - 1 \in 1 .. m /\ (k - 1) + 1 = k)
      BY <2>10
    <3> QED
      BY <2>12, <2>13, <2>15, <3>1
  <2>17. u \in Seq(A) /\ Len(u) = Len(v)
    BY <2>10, <2>11, <2>15
  <2>18. v \in Seq(A)
    BY <2>15
  <2>19. u = v
    BY <2>16, <2>17, <2>18, Alike
  <2>20. Len(u) = 1 + Len(r)
    BY <2>6, <2>10
  <2> QED
    BY <2>1, <2>3, <2>4, <2>5, <2>7, <2>14, <2>19, <2>20, Zenon
<1> QED
  BY <1>3, <1>4, <1>5, Zenon DEF IsText
-----------------------------------------------------------------------------
(* The conversions without padding, as Shown says they print.              *)
LEMMA ShownPlain ==
  ASSUME NEW d, NEW arg
  PROVE  /\ d.conv = "c" => Shown(d, arg) = <<arg>>
         /\ d.conv = "%" => Shown(d, arg) = <<"%">>
         /\ d.conv = "nul" => Shown(d, arg) = Front(Render(d))
         /\ d.conv = "q" => Shown(d, arg) = Render(d)
<1>1. d.conv = "c" => Shown(d, arg) = <<arg>>
  BY DEF Shown, Numeric
<1>2. d.conv = "%" => Shown(d, arg) = <<"%">>
  BY DEF Shown, Numeric
<1>3. d.conv = "nul" => Shown(d, arg) = Front(Render(d))
  BY DEF Shown, Numeric
<1>4. d.conv = "q" => Shown(d, arg) = Render(d)
  BY DEF Shown, Numeric
<1> QED
  BY <1>1, <1>2, <1>3, <1>4

(* An error code: its name, or its digits.                                 *)
ErrorText(given) ==
    LET error == IF given < 0 THEN -given ELSE given
    IN  IF error \in DOMAIN Message THEN <<Message[error]>> ELSE <<"error ">> \o InBase(error, 10)

(* Shown prints it.                                                        *)
LEMMA ShownError ==
  ASSUME NEW d, NEW arg, d.conv = "e"
  PROVE  Shown(d, arg) = ErrorText(VaInt(arg))
BY DEF Shown, Numeric, ErrorText

(* A number: its sign or prefix and its digits, justified.                 *)
Word(d, arg) == IF d.l > 0 \/ d.conv = "p" THEN arg ELSE Unsigned(arg, IntMax)
Negative(d, arg) == d.conv = "d" /\ Signed(Word(d, arg), IF d.l > 0 THEN LongMax ELSE IntMax) < 0
Magnitude(d, arg) ==
    IF Negative(d, arg) THEN -Signed(Word(d, arg), IF d.l > 0 THEN LongMax ELSE IntMax) ELSE Word(d, arg)
BaseOf(conv) == CASE conv \in {"d", "u"} -> 10 [] conv = "o" -> 8 [] OTHER -> 16
SignOf(d, arg) == IF Negative(d, arg) THEN <<"-">> ELSE IF d.conv = "p" THEN <<"0", "x">> ELSE <<>>

(* Shown prints them.                                                      *)
LEMMA ShownNumber ==
  ASSUME NEW d, NEW arg, d.conv \in Numeric
  PROVE  Shown(d, arg) =
           SignOf(d, arg) \o Justified(InBase(Magnitude(d, arg), BaseOf(d.conv)), Field(d.width, asked.width), d)
BY DEF Shown, Numeric, SignOf, Negative, Magnitude, Word, BaseOf

(* A string: cut, with its control characters replaced, and justified.     *)
TextOf(arg) == IF arg = NULL THEN <<"(", "n", "u", "l", "l", ")">> ELSE arg

(* Shown prints that.                                                      *)
LEMMA ShownString ==
  ASSUME NEW d, NEW arg, d.conv = "s", IsText(TextOf(arg)), Field(d.precision, asked.precision) \in Int
  PROVE  Shown(d, arg) = Justified(Clean(TextOf(arg), Field(d.precision, asked.precision), "#" \in ToSet(d.flags)),
                                   Field(d.width, asked.width), d)
<1>1. PICK n \in Int : n = Field(d.precision, asked.precision)
  OBVIOUS
<1>2. PICK text : text = TextOf(arg)
  OBVIOUS
<1>3. PICK alt : alt = ("#" \in ToSet(d.flags))
  OBVIOUS
<1>4. PICK S : text \in Seq(S)
  BY <1>2, Zenon DEF IsText
<1> DEFINE cut == IF n < 0 THEN text ELSE SubSeq(text, 1, Min({n, Len(text)}))
           clean == [k \in DOMAIN cut |-> IF alt /\ cut[k] = "ctl" THEN "?" ELSE cut[k]]
<1>5. Shown(d, arg) = Justified(clean, Field(d.width, asked.width), d)
  BY <1>1, <1>2, <1>3 DEF Shown, Numeric, TextOf
<1>6. clean = Clean(text, n, alt)
  <2>1. PICK l \in Nat : l = Len(text)
    BY <1>4
  <2>2. Min({n, l}) = (IF n <= l THEN n ELSE l) /\ Min({l, n}) = (IF l <= n THEN l ELSE n)
    BY MinOfTwo
  <2>3. PICK m \in Nat : m = Strnlen(text, n) /\ m <= l /\ (n >= 0 => m = Min({n, l})) /\ (n < 0 => m = l)
    BY <2>1, <2>2 DEF Strnlen
  <2>4. PICK u : u = cut
    OBVIOUS
  <2>5. DOMAIN u = 1 .. m /\ \A k \in 1 .. m : u[k] = text[k]
    <3>1. CASE n < 0
      BY <1>4, <2>1, <2>3, <2>4, <3>1
    <3>2. CASE n >= 0
      <4>0. Min({n, Len(text)}) = m /\ ~(n < 0)
        BY <2>1, <2>3, <3>2
      <4>1. u = SubSeq(text, 1, m)
        BY <2>4, <4>0
      <4> QED
        BY <1>4, <2>1, <2>3, <4>1
    <3> QED
      BY <3>1, <3>2
  <2>6. clean = [k \in 1 .. m |-> IF alt /\ text[k] = "ctl" THEN "?" ELSE text[k]]
    BY <2>4, <2>5
  <2> HIDE DEF clean
  <2> QED
    BY <2>3, <2>6 DEF Clean
<1> HIDE DEF clean
<1> QED
  BY <1>1, <1>2, <1>3, <1>5, <1>6

(* A width below zero asks for as little padding as none.                  *)
LEMMA SameFill ==
  ASSUME NEW w \in Int, NEW n \in Nat, NEW c
  PROVE  Fill(Max({w, 0}) - n, c) = Fill(w - n, c)
<1>1. PICK m \in Int : m = Max({w, 0}) /\ m = IF w >= 0 THEN w ELSE 0
  BY MaxOfTwo
<1>2. CASE w >= 0
  BY <1>1, <1>2
<1>3. CASE w < 0
  <2>1. m - n <= 0 /\ w - n <= 0 /\ m - n \in Int /\ w - n \in Int
    BY <1>1, <1>3
  <2>2. Fill(m - n, c) = <<>>
    BY <2>1, FillIs
  <2>3. Fill(w - n, c) = <<>>
    BY <2>1, FillIs
  <2> QED
    BY <1>1, <2>2, <2>3
<1> QED
  BY <1>2, <1>3

(* Justified text with the padding of the width.                           *)
ZeroOrBlank(flags) == IF "0" \in ToSet(flags) THEN "0" ELSE " "

(* Justified is the text with that padding, on the side of the flag.       *)
LEMMA JustifiedIs ==
  ASSUME NEW text, IsText(text), NEW w \in Int, NEW d
  PROVE  /\ "-" \in ToSet(d.flags) => Justified(text, w, d) = text \o Fill(w - Len(text), " ")
         /\ "-" \notin ToSet(d.flags) =>
              Justified(text, w, d) = Fill(w - Len(text), ZeroOrBlank(d.flags)) \o text
<1>1. PICK S : text \in Seq(S)
  BY Zenon DEF IsText
<1>2. PICK n \in Int : n = w - Len(text)
  BY <1>1
<1>3. \A c : Fill(Max({n, 0}), c) = Fill(n, c)
  BY FillIs
<1>4. /\ "-" \in ToSet(d.flags) => Justified(text, w, d) = text \o Fill(Max({w - Len(text), 0}), " ")
      /\ "-" \notin ToSet(d.flags) =>
            Justified(text, w, d) = Fill(Max({w - Len(text), 0}), IF "0" \in ToSet(d.flags) THEN "0" ELSE " ") \o text
  BY Zenon DEF Justified
<1> QED
  BY <1>2, <1>3, <1>4, Zenon DEF ZeroOrBlank

(* An argument as an int, and what a sign leaves of a word.                *)
LEMMA Conversions ==
  ASSUME NEW arg \in 0 .. 2 * LongMax + 1
  PROVE  /\ Unsigned(arg, IntMax) \in 0 .. 2 * IntMax + 1 /\ VaInt(arg) = Signed(Unsigned(arg, IntMax), IntMax)
         /\ VaInt(arg) \in Int /\ arg \in Nat
<1>1. PICK m \in Nat : m = 2 * (IntMax + 1) /\ m > 0 /\ m = 2 * IntMax + 1 + 1
  BY PrintAssumption
<1>2. arg \in Nat /\ arg \in Int
  BY PrintAssumption
<1>3. arg % m \in 0 .. m - 1
  BY <1>1, <1>2
<1>4. Unsigned(arg, IntMax) \in 0 .. 2 * IntMax + 1
  BY <1>1, <1>3, PrintAssumption DEF Unsigned
<1>5. VaInt(arg) \in Int
  BY <1>2, VaIntFits
<1> QED
  BY <1>2, <1>4, <1>5 DEF VaInt

(* A word without sign is what it was with one.                            *)
LEMMA SignedIs ==
  ASSUME NEW max \in Nat, NEW word \in 0 .. 2 * max + 1
  PROVE  Signed(word, max) \in Int /\ word \in Nat /\ (Signed(word, max) >= 0 => Signed(word, max) = word)
BY DEF Signed

(* getint and getuint give the number of which Shown prints sign and digits. *)
LEMMA NumberIs ==
  ASSUME NEW d, NEW arg \in 0 .. 2 * LongMax + 1, d.conv \in Numeric, d.l \in 0 .. 2
  PROVE  /\ Magnitude(d, arg) \in Nat /\ BaseOf(d.conv) \in 2 .. 16
         /\ LET num == CASE d.conv = "d" -> IF d.l > 0 THEN Signed(arg, LongMax) ELSE VaInt(arg)
                         [] d.conv = "p" -> arg
                         [] OTHER -> IF d.l > 0 THEN arg ELSE Unsigned(arg, IntMax)
            IN  (num < 0 <=> Negative(d, arg)) /\ Magnitude(d, arg) = IF num < 0 THEN -num ELSE num
<1>1. /\ Unsigned(arg, IntMax) \in 0 .. 2 * IntMax + 1 /\ VaInt(arg) = Signed(Unsigned(arg, IntMax), IntMax)
      /\ arg \in Nat
  BY Conversions
<1>2. IntMax \in Nat /\ LongMax \in Nat
  BY PrintAssumption
<1>3. PICK word \in Nat : word = Word(d, arg)
  BY <1>1, <1>2 DEF Word
<1>4. BaseOf(d.conv) \in 2 .. 16
  BY DEF BaseOf
<1>5. CASE d.conv = "d"
  <2>1. PICK max \in Nat : max = IF d.l > 0 THEN LongMax ELSE IntMax
    BY <1>2
  <2>2. word = (IF d.l > 0 THEN arg ELSE Unsigned(arg, IntMax)) /\ word \in 0 .. 2 * max + 1
    <3>1. CASE d.l > 0
      BY <1>3, <1>5, <2>1, <3>1 DEF Word
    <3>2. CASE ~(d.l > 0)
      BY <1>1, <1>3, <1>5, <2>1, <3>2 DEF Word
    <3> QED
      BY <3>1, <3>2
  <2>3. PICK s \in Int : s = Signed(word, max) /\ (s >= 0 => s = word)
    BY <2>2, SignedIs
  <2>4. Negative(d, arg) <=> s < 0
    BY <1>3, <1>5, <2>1, <2>3 DEF Negative
  <2>5. Magnitude(d, arg) = IF s < 0 THEN -s ELSE word
    BY <1>3, <2>1, <2>3, <2>4 DEF Magnitude
  <2>6. (IF d.l > 0 THEN Signed(arg, LongMax) ELSE VaInt(arg)) = s
    BY <1>1, <2>1, <2>2, <2>3
  <2>7. Magnitude(d, arg) \in Nat /\ Magnitude(d, arg) = IF s < 0 THEN -s ELSE s
    BY <2>3, <2>5
  <2> QED
    BY <1>4, <1>5, <2>4, <2>6, <2>7
<1>6. CASE d.conv # "d"
  <2>1. ~Negative(d, arg) /\ Magnitude(d, arg) = word
    BY <1>3, <1>6 DEF Negative, Magnitude
  <2>2. (CASE d.conv = "d" -> IF d.l > 0 THEN Signed(arg, LongMax) ELSE VaInt(arg)
           [] d.conv = "p" -> arg
           [] OTHER -> IF d.l > 0 THEN arg ELSE Unsigned(arg, IntMax)) = word
    BY <1>3, <1>6 DEF Word
  <2> QED
    BY <1>3, <1>4, <2>1, <2>2
<1> QED
  BY <1>5, <1>6

(* printnum's number is the one the directive shows.                       *)
LEMMA NumberShown ==
  ASSUME NEW d, NEW arg \in 0 .. 2 * LongMax + 1, d.conv \in Numeric, d.l \in 0 .. 2,
         "-" \notin ToSet(d.flags), NEW w \in Int, w = Field(d.width, asked.width),
         Number, fmt[f] = d.conv, Head(ap) = arg, dir.lflag = d.l, dir.padc = ZeroOrBlank(d.flags),
         dir.width \in Int, dir.width = w \/ dir.width = Max({w, 0})
  PROVE  p' = Shown(d, arg) /\ IsText(Shown(d, arg))
<1> DEFINE num == CASE d.conv = "d" -> IF d.l > 0 THEN Signed(arg, LongMax) ELSE VaInt(arg)
                    [] d.conv = "p" -> arg
                    [] OTHER -> IF d.l > 0 THEN arg ELSE Unsigned(arg, IntMax)
           sign == IF num < 0 THEN <<"-">> ELSE IF d.conv = "p" THEN <<"0", "x">> ELSE <<>>
<1>1. p' = sign \o Printnum(IF num < 0 THEN -num ELSE num, BaseOf(d.conv), dir.width, dir.padc)
  BY DEF Number, GetInt, GetUint, BaseOf
<1>2. /\ num < 0 <=> Negative(d, arg)
      /\ Magnitude(d, arg) = IF num < 0 THEN -num ELSE num
      /\ Magnitude(d, arg) \in Nat /\ BaseOf(d.conv) \in 2 .. 16
  BY NumberIs
<1>3. sign = SignOf(d, arg)
  BY <1>2 DEF SignOf
<1> HIDE DEF num, sign
<1>4. PICK n \in Nat, base \in 2 .. 16 : n = Magnitude(d, arg) /\ base = BaseOf(d.conv)
  BY <1>2
<1>5. PICK digits : digits = InBase(n, base)
  OBVIOUS
<1>6. IsText(digits)
  BY <1>5, SomeTexts
<1>7. Len(digits) \in Nat
  BY <1>6 DEF IsText
<1>8. PICK c : c = ZeroOrBlank(d.flags)
  OBVIOUS
<1>9. Printnum(n, base, dir.width, c) = Fill(dir.width - Len(digits), c) \o digits
  BY <1>5, PrintnumIs
<1>10. Fill(dir.width - Len(digits), c) = Fill(w - Len(digits), c)
  BY <1>7, SameFill
<1>11. Justified(digits, w, d) = Fill(w - Len(digits), c) \o digits
  BY <1>6, <1>8, JustifiedIs
<1>12. Shown(d, arg) = SignOf(d, arg) \o Justified(digits, w, d)
  BY <1>4, <1>5, ShownNumber
<1>13. p' = Shown(d, arg)
  BY <1>1, <1>2, <1>3, <1>4, <1>8, <1>9, <1>10, <1>11, <1>12, Zenon
<1>14. IsText(Shown(d, arg))
  <2>1. IsText(SignOf(d, arg))
    <3>1. <<"0", "x">> \in Seq({"0", "x"})
      OBVIOUS
    <3>2. IsText(<<"0", "x">>)
      BY <3>1, Zenon DEF IsText
    <3> QED
      BY <3>2, SomeTexts, Zenon DEF SignOf
  <2>2. PICK t : t = Fill(w - Len(digits), c)
    OBVIOUS
  <2>3. IsText(t)
    <3>1. w - Len(digits) \in Int
      BY <1>7
    <3> QED
      BY <2>2, <3>1, SomeTexts
  <2>4. IsText(t \o digits)
    BY <1>6, <2>3, Texts
  <2>5. PICK s, u : s = SignOf(d, arg) /\ u = t \o digits
    OBVIOUS
  <2>6. IsText(s \o u)
    <3>1. IsText(s)
      BY <2>1, <2>5
    <3>2. IsText(u)
      BY <2>4, <2>5
    <3> QED
      BY <3>1, <3>2, Texts
  <2> QED
    BY <1>11, <1>12, <2>2, <2>5, <2>6, Zenon
<1> QED
  BY <1>13, <1>14
-----------------------------------------------------------------------------
(* What the text shows does not change with the steps.                     *)
LEMMA ShownKept ==
  ASSUME asked' = asked
  PROVE  /\ First' = First /\ Second' = Second /\ Dashed' = Dashed
         /\ WidthField' = WidthField /\ PrecisionField' = PrecisionField
         /\ AfterFlags' = AfterFlags /\ AfterWidth' = AfterWidth /\ AfterPrecision' = AfterPrecision
         /\ ConvAt' = ConvAt
         /\ \A i : WidthAt(i)' = WidthAt(i) /\ PrecisionAt(i)' = PrecisionAt(i)
<1>1. WidthField' = WidthField /\ PrecisionField' = PrecisionField
  BY DEF WidthField, PrecisionField, Field
<1>2. AfterFlags' = AfterFlags
  BY DEF AfterFlags
<1>3. AfterWidth' = AfterWidth
  BY <1>2 DEF AfterWidth
<1>4. AfterPrecision' = AfterPrecision
  BY <1>3 DEF AfterPrecision
<1>5. ConvAt' = ConvAt
  BY <1>4 DEF ConvAt
<1>6. \A d, arg : Shown(d, arg)' = Shown(d, arg)
  BY DEF Shown, Field
<1>7. First' = First /\ Second' = Second /\ Dashed' = Dashed
  BY <1>6 DEF First, Second, Dashed, Shown, Field
<1>8. \A i : WidthAt(i)' = WidthAt(i) /\ PrecisionAt(i)' = PrecisionAt(i)
  BY <1>1, <1>3, <1>4 DEF WidthAt, PrecisionAt
<1> QED
  BY <1>1, <1>2, <1>3, <1>4, <1>5, <1>7, <1>8

(* The widths and precisions a directive may have are ints.                *)
LEMMA Fields ==
  ASSUME FormatOK
  PROVE  /\ WidthField \in Int /\ (asked.d.width = <<>> => WidthField = -1)
         /\ PrecisionField \in Int /\ (asked.d.precision = <<>> => PrecisionField = -1)
<1>0. PICK none, four, star, ten, one :
        none = <<>> /\ four = <<"4">> /\ star = <<"*">> /\ ten = <<"1", "0">> /\ one = <<"1">>
  OBVIOUS
<1>1. /\ four # none /\ star # none /\ ten # none /\ one # none
      /\ four # star /\ ten # star /\ one # star
  <2>1. /\ Len(four) = 1 /\ Len(star) = 1 /\ Len(one) = 1 /\ Len(none) = 0 /\ Len(ten) = 2
        /\ four[1] = "4" /\ star[1] = "*" /\ one[1] = "1"
    BY <1>0
  <2> QED
    BY <2>1
<1>2. VaInt(asked.width) \in Int /\ VaInt(asked.precision) \in Int
  BY VaIntFits DEF FormatOK
<1>3. Decimal(four) \in Int
  <2>1. Len(four) \in 1 .. 2 /\ \A k \in 1 .. Len(four) : four[k] \in DOMAIN DecimalDigit
    BY <1>0, DecimalDigits
  <2> QED
    BY <2>1, DecimalFits
<1>4. Decimal(one) \in Int
  <2>1. Len(one) \in 1 .. 2 /\ \A k \in 1 .. Len(one) : one[k] \in DOMAIN DecimalDigit
    BY <1>0, DecimalDigits
  <2> QED
    BY <2>1, DecimalFits
<1>5. Decimal(ten) \in Int
  <2>1. Len(ten) = 2 /\ ten[1] = "1" /\ ten[2] = "0"
    BY <1>0
  <2>2. \A k \in 1 .. 2 : k = 1 \/ k = 2
    OBVIOUS
  <2>3. Len(ten) \in 1 .. 2 /\ \A k \in 1 .. Len(ten) : ten[k] \in DOMAIN DecimalDigit
    BY <2>1, <2>2, DecimalDigits
  <2> QED
    BY <2>3, DecimalFits
<1>6. PICK width, precision : width = asked.d.width /\ precision = asked.d.precision
  OBVIOUS
<1>7. (width = none \/ width = four \/ width = star \/ width = ten)
         /\ (precision = none \/ precision = one \/ precision = star)
  BY <1>0, <1>6, Parts
<1>8. \A s, x : Field(s, x) = IF s = none THEN -1 ELSE IF s = star THEN VaInt(x) ELSE Decimal(s)
  BY <1>0, Zenon DEF Field
<1>9. WidthField = Field(width, asked.width) /\ PrecisionField = Field(precision, asked.precision)
  BY <1>6 DEF WidthField, PrecisionField
<1>10. -1 \in Int
  OBVIOUS
<1>11. WidthField \in Int /\ (width = none => WidthField = -1)
  BY <1>1, <1>2, <1>3, <1>5, <1>7, <1>8, <1>9, <1>10
<1>12. PrecisionField \in Int /\ (precision = none => PrecisionField = -1)
  BY <1>1, <1>2, <1>4, <1>7, <1>8, <1>9, <1>10
<1> QED
  BY <1>0, <1>6, <1>11, <1>12

(* The locals along the directive.                                         *)
LEMMA Along ==
  ASSUME FormatOK
  PROVE  /\ \A i \in Int : i <= AfterFlags + 1 => WidthAt(i) = -1 /\ PrecisionAt(i) = -1
         /\ WidthAt(AfterWidth + 1) = WidthField /\ PrecisionAt(AfterWidth + 1) = -1
         /\ asked.d.precision # <<>> =>
              /\ AfterPrecision = AfterWidth + 2
              /\ PrecisionAt(AfterWidth + 2) = -1
              /\ \A i \in Int : i >= AfterWidth + 2 => WidthAt(i) = Max({WidthField, 0})
         /\ \A i \in Int : i > AfterPrecision =>
              /\ PrecisionAt(i) = PrecisionField /\ WidthAt(i) = WidthAt(AfterPrecision + 1)
              /\ WidthAt(i) = WidthField \/ WidthAt(i) = Max({WidthField, 0})
         /\ AfterFlags + 1 <= AfterWidth + 1 /\ AfterWidth + 1 <= AfterPrecision + 1 /\ AfterPrecision + 1 <= ConvAt
         /\ AfterFlags \in Nat /\ AfterWidth \in Nat /\ AfterPrecision \in Nat /\ ConvAt \in Nat /\ AfterFlags >= 1
<1>1. PICK af, aw, ax, c : af = AfterFlags /\ aw = AfterWidth /\ ax = AfterPrecision /\ c = ConvAt
  OBVIOUS
<1>2. PICK width, precision, l, none : width = asked.d.width /\ precision = asked.d.precision
             /\ l = asked.d.l /\ none = <<>>
  OBVIOUS
<1>3. /\ af \in Nat /\ af >= 1
      /\ \/ width = none /\ aw = af
         \/ aw = af + 1
         \/ aw = af + 2
      /\ \/ precision = none /\ ax = aw
         \/ precision # none /\ ax = aw + 2
      /\ l \in 0 .. 2 /\ c = ax + l + 1
  <2>1. <<"1">> # <<>> /\ <<"*">> # <<>>
    OBVIOUS
  <2> QED
    BY <1>1, <1>2, <2>1, Parts
<1>4. PICK wf, pf \in Int : /\ wf = WidthField /\ pf = PrecisionField
                            /\ (width = none => wf = -1) /\ (precision = none => pf = -1)
  BY <1>2, Fields
<1>5. PICK most : most = Max({WidthField, 0})
  OBVIOUS
<1>6. \A i : /\ WidthAt(i) = IF i <= aw THEN -1 ELSE IF i = aw + 1 \/ precision = none THEN wf ELSE most
             /\ PrecisionAt(i) = IF i <= ax THEN -1 ELSE pf
  BY <1>1, <1>2, <1>4, <1>5 DEF WidthAt, PrecisionAt
<1>7. aw \in Nat /\ aw >= af /\ ax \in Nat /\ ax >= aw /\ c \in Nat /\ c >= ax + 1
  <2>1. aw \in Nat /\ aw >= af
    BY <1>3
  <2>2. ax \in Nat /\ ax >= aw
    BY <1>3, <2>1
  <2> QED
    BY <1>3, <2>1, <2>2
<1>8. ASSUME NEW i \in Int, i <= af + 1 PROVE WidthAt(i) = -1 /\ PrecisionAt(i) = -1
  <2>1. CASE i <= aw
    BY <1>6, <1>7, <1>8, <2>1
  <2>2. CASE i > aw
    <3>1. aw = af /\ i = aw + 1 /\ ~(i <= aw)
      BY <1>3, <1>7, <1>8, <2>2
    <3>2. width = none
      BY <1>3, <3>1
    <3>3. WidthAt(i) = -1
      BY <1>4, <1>6, <3>1, <3>2
    <3>4. i <= ax \/ precision = none
      BY <1>3, <1>7, <3>1
    <3> QED
      BY <1>4, <1>6, <3>3, <3>4
  <2> QED
    BY <1>7, <2>1, <2>2
<1>9. WidthAt(aw + 1) = wf /\ PrecisionAt(aw + 1) = -1
  <2>1. ~(aw + 1 <= aw) /\ (aw + 1 <= ax \/ precision = none)
    BY <1>3, <1>7
  <2> QED
    BY <1>4, <1>6, <2>1
<1>10. ASSUME precision # none
       PROVE  ax = aw + 2 /\ PrecisionAt(aw + 2) = -1 /\ \A i \in Int : i >= aw + 2 => WidthAt(i) = most
  <2>1. ax = aw + 2
    BY <1>3, <1>10
  <2>2. PrecisionAt(aw + 2) = -1
    BY <1>6, <1>7, <2>1
  <2>3. \A i \in Int : i >= aw + 2 => ~(i <= aw) /\ i # aw + 1
    BY <1>7
  <2> QED
    BY <1>6, <1>10, <2>1, <2>2, <2>3
<1>11. ASSUME NEW i \in Int, i > ax
       PROVE  PrecisionAt(i) = pf /\ WidthAt(i) = WidthAt(ax + 1) /\ (WidthAt(i) = wf \/ WidthAt(i) = most)
  <2>1. ~(i <= ax) /\ ~(i <= aw) /\ ~(ax + 1 <= aw)
    BY <1>7, <1>11
  <2>2. CASE precision = none
    BY <1>6, <2>1, <2>2
  <2>3. CASE precision # none
    <3>1. i # aw + 1 /\ ax + 1 # aw + 1
      BY <1>3, <1>7, <1>11, <2>3
    <3> QED
      BY <1>6, <2>1, <2>3, <3>1
  <2> QED
    BY <2>2, <2>3
<1>12. \A i \in Int : i <= AfterFlags + 1 => WidthAt(i) = -1 /\ PrecisionAt(i) = -1
  BY <1>1, <1>8
<1>13. WidthAt(AfterWidth + 1) = WidthField /\ PrecisionAt(AfterWidth + 1) = -1
  BY <1>1, <1>4, <1>9
<1>14. asked.d.precision # <<>> =>
         /\ AfterPrecision = AfterWidth + 2
         /\ PrecisionAt(AfterWidth + 2) = -1
         /\ \A i \in Int : i >= AfterWidth + 2 => WidthAt(i) = Max({WidthField, 0})
  BY <1>1, <1>2, <1>5, <1>10
<1>15. \A i \in Int : i > AfterPrecision =>
              /\ PrecisionAt(i) = PrecisionField /\ WidthAt(i) = WidthAt(AfterPrecision + 1)
              /\ WidthAt(i) = WidthField \/ WidthAt(i) = Max({WidthField, 0})
  BY <1>1, <1>4, <1>5, <1>11
<1>16. /\ AfterFlags + 1 <= AfterWidth + 1 /\ AfterWidth + 1 <= AfterPrecision + 1 /\ AfterPrecision + 1 <= ConvAt
       /\ AfterFlags \in Nat /\ AfterWidth \in Nat /\ AfterPrecision \in Nat /\ ConvAt \in Nat /\ AfterFlags >= 1
  BY <1>1, <1>3, <1>7
<1> QED
  BY <1>12, <1>13, <1>14, <1>15, <1>16

(* Still in the first directive, nothing printed.                          *)
LEMMA StaysInFirst ==
  ASSUME FormatOK, asked' = asked, pc' = "switch", f' \in Int, f' <= ConvAt, out' = <<>>,
         dir'.padc = PadOf(Seen'), dir'.altflag = ("#" \in Seen'),
         dir'.width = WidthAt(f'), dir'.precision = PrecisionAt(f')
  PROVE  OutOK'
<1>1. /\ WidthField' = WidthField /\ PrecisionField' = PrecisionField /\ ConvAt' = ConvAt
      /\ AfterWidth' = AfterWidth /\ AfterPrecision' = AfterPrecision
  BY ShownKept
<1>2. WidthAt(f)' = WidthAt(f') /\ PrecisionAt(f)' = PrecisionAt(f')
  BY <1>1 DEF WidthAt, PrecisionAt
<1>3. LocalsOK'
  BY <1>2 DEF LocalsOK
<1>4. ConvAt \in Nat
  BY FormatFits
<1>5. ~Behind(3)'
  BY <1>1, <1>4 DEF Behind
<1> QED
  BY <1>3, <1>5 DEF OutOK

(* The flags seen so far.                                                  *)
LEMMA SeenIs ==
  ASSUME FormatOK, AskedOK
  PROVE  /\ f' = 2 /\ asked' = asked => Seen' = {}
         /\ f \in Int /\ f >= AfterFlags + 1 => Seen = ToSet(asked.d.flags)
         /\ f \in 2 .. AfterFlags /\ f' = f + 1 /\ asked' = asked =>
              Seen' = Seen \cup {fmt[f]} /\ fmt[f] \in ToSet(asked.d.flags) /\ Seen \subseteq ToSet(asked.d.flags)
         /\ f \in Int /\ f >= AfterFlags + 1 /\ f' \in Int /\ f' >= f /\ asked' = asked => Seen' = Seen
<1>1. PICK flags : flags = asked.d.flags
  OBVIOUS
<1>2. PICK n \in Nat : n = Len(flags) /\ DOMAIN flags = 1 .. n /\ AfterFlags = 1 + n
  <2>1. flags \in {<<>>, <<"-">>, <<"0">>, <<"#">>, <<"#", "-">>, <<"#", "0">>}
    BY <1>1 DEF FormatOK, Directives
  <2>2. Len(flags) \in Nat /\ DOMAIN flags = 1 .. Len(flags)
    <3>1. CASE flags = <<>>
      BY <3>1
    <3>2. CASE flags = <<"-">>
      BY <3>2
    <3>3. CASE flags = <<"0">>
      BY <3>3
    <3>4. CASE flags = <<"#">>
      BY <3>4
    <3>5. CASE flags = <<"#", "-">>
      BY <3>5
    <3>6. CASE flags = <<"#", "0">>
      BY <3>6
    <3> QED
      BY <2>1, <3>1, <3>2, <3>3, <3>4, <3>5, <3>6
  <2> QED
    BY <1>1, <2>2 DEF AfterFlags
<1>3. ToSet(asked.d.flags) = {flags[k] : k \in 1 .. n}
  BY <1>1, <1>2 DEF ToSet
<1>4. Seen = {flags[k] : k \in {j \in 1 .. n : j <= f - 2}}
  BY <1>1, <1>2 DEF Seen
<1>5. ASSUME f' = 2, asked' = asked PROVE Seen' = {}
  <2>1. \A j \in 1 .. n : ~(j <= f' - 2)
    BY <1>5
  <2>2. Seen' = {flags[k] : k \in {j \in 1 .. n : j <= f' - 2}}
    <3>1. flags = asked'.d.flags
      BY <1>1, <1>5
    <3> QED
      BY <1>2, <3>1 DEF Seen
  <2> QED
    BY <2>1, <2>2
<1>6. f \in Int /\ f >= AfterFlags + 1 => Seen = ToSet(asked.d.flags)
  <2>1. f \in Int /\ f >= AfterFlags + 1 => {j \in 1 .. n : j <= f - 2} = 1 .. n
    BY <1>2
  <2> QED
    BY <1>3, <1>4, <2>1
<1>7. ASSUME f \in 2 .. AfterFlags, f' = f + 1, asked' = asked
      PROVE  Seen' = Seen \cup {fmt[f]} /\ fmt[f] \in ToSet(asked.d.flags) /\ Seen \subseteq ToSet(asked.d.flags)
  <2>1. Seen' = {flags[k] : k \in {j \in 1 .. n : j <= f' - 2}}
    <3>1. flags = asked'.d.flags
      BY <1>1, <1>7
    <3> QED
      BY <1>2, <3>1 DEF Seen
  <2>2. f - 1 \in 1 .. n /\ {j \in 1 .. n : j <= f' - 2} = {j \in 1 .. n : j <= f - 2} \cup {f - 1}
    <3>1. f \in Int /\ f >= 2 /\ f <= 1 + n
      BY <1>2, <1>7
    <3>2. \A j \in 1 .. n : j <= f' - 2 <=> (j <= f - 2 \/ j = f - 1)
      BY <1>7, <3>1
    <3>3. f - 1 \in 1 .. n
      BY <3>1
    <3> QED
      BY <3>2, <3>3
  <2>3. fmt[f] = flags[f - 1]
    <3>1. \A k \in 1 .. n : fmt[k + 1] = flags[k]
      BY <1>1, <1>2 DEF AskedOK
    <3>2. (f - 1) + 1 = f
      BY <1>7
    <3> QED
      BY <2>2, <3>1, <3>2
  <2> QED
    BY <1>3, <1>4, <2>1, <2>2, <2>3
<1>8. ASSUME f \in Int, f >= AfterFlags + 1, f' \in Int, f' >= f, asked' = asked PROVE Seen' = Seen
  <2>1. Seen' = {flags[k] : k \in {j \in 1 .. n : j <= f' - 2}}
    <3>1. flags = asked'.d.flags
      BY <1>1, <1>8
    <3> QED
      BY <1>2, <3>1 DEF Seen
  <2>2. {j \in 1 .. n : j <= f - 2} = 1 .. n /\ {j \in 1 .. n : j <= f' - 2} = 1 .. n
    BY <1>2, <1>8
  <2> QED
    BY <1>4, <2>1, <2>2
<1> QED
  BY <1>5, <1>6, <1>7, <1>8

(* No directive has both the flag "-" and the flag "0".                    *)
LEMMA OneSide ==
  ASSUME FormatOK
  PROVE  ~("-" \in ToSet(asked.d.flags) /\ "0" \in ToSet(asked.d.flags))
<1>1. PICK flags : flags = asked.d.flags
  OBVIOUS
<1>2. flags \in {<<>>, <<"-">>, <<"0">>, <<"#">>, <<"#", "-">>, <<"#", "0">>}
  BY <1>1 DEF FormatOK, Directives
<1>3. ~("-" \in ToSet(flags) /\ "0" \in ToSet(flags))
  <2>1. CASE flags = <<>>
    BY <2>1 DEF ToSet
  <2>2. CASE flags = <<"-">>
    BY <2>2 DEF ToSet
  <2>3. CASE flags = <<"0">>
    BY <2>3 DEF ToSet
  <2>4. CASE flags = <<"#">>
    BY <2>4 DEF ToSet
  <2>5. CASE flags = <<"#", "-">>
    BY <2>5 DEF ToSet
  <2>6. CASE flags = <<"#", "0">>
    BY <2>6 DEF ToSet
  <2> QED
    BY <1>2, <2>1, <2>2, <2>3, <2>4, <2>5, <2>6
<1> QED
  BY <1>1, <1>3

(* What one more flag makes of the padding.                                *)
LEMMA OneMoreFlag ==
  ASSUME NEW F
  PROVE  /\ PadOf(F \cup {"-"}) = "-"
         /\ "-" \notin F => PadOf(F \cup {"0"}) = "0"
         /\ PadOf(F \cup {"#"}) = PadOf(F)
<1>1. "-" # "0" /\ "-" # "#" /\ "0" # "#"
  OBVIOUS
<1> QED
  BY <1>1, Zenon DEF PadOf

(* A flag is seen, and nothing printed.                                    *)
LEMMA FlagOut ==
  ASSUME FormatOK, AskedOK, ParseOK, DirectiveOK, OutOK, asked' = asked, fmt' = fmt, PadFlag \/ Alternate
  PROVE  OutOK'
<1>1. /\ pc = "switch" /\ fmt[f] \in {"-", "0", "#"} /\ f' = f + 1 /\ pc' = "switch" /\ out' = out
      /\ \/ dir' = [dir EXCEPT !.padc = fmt[f]] /\ fmt[f] \in {"-", "0"}
         \/ dir' = [dir EXCEPT !.altflag = TRUE] /\ fmt[f] = "#"
  BY DEF PadFlag, Alternate, Case, Reswitch, Silent
<1>2. InDirective
  BY <1>1, InFirst
<1>3. f \in 2 .. AfterFlags /\ f \in 2 .. ConvAt
  <2>1. f \in 2 .. ConvAt
    BY <1>2 DEF InDirective
  <2> QED
    BY <1>1, <1>2, <2>1, SwitchAt, Parts DEF Numeric
<1>4. out = <<>> /\ LocalsOK
  BY <1>1, <1>3 DEF OutOK
<1>5. Seen' = Seen \cup {fmt[f]} /\ fmt[f] \in ToSet(asked.d.flags) /\ Seen \subseteq ToSet(asked.d.flags)
  BY <1>1, <1>3, SeenIs
<1>6. dir'.padc = PadOf(Seen') /\ dir'.altflag = ("#" \in Seen')
  <2>1. dir.padc = PadOf(Seen) /\ dir.altflag = ("#" \in Seen)
    BY <1>4 DEF LocalsOK
  <2>2. CASE fmt[f] = "#"
    <3>1. dir'.padc = dir.padc /\ dir'.altflag = TRUE
      BY <1>1, <2>2 DEF DirectiveOK
    <3>2. PadOf(Seen') = PadOf(Seen) /\ "#" \in Seen'
      BY <1>5, <2>2, OneMoreFlag
    <3> QED
      BY <2>1, <3>1, <3>2
  <2>3. CASE fmt[f] # "#"
    <3>1. dir'.padc = fmt[f] /\ dir'.altflag = dir.altflag
      BY <1>1, <2>3 DEF DirectiveOK
    <3>2. ("#" \in Seen') = ("#" \in Seen)
      BY <1>5, <2>3
    <3>3. PadOf(Seen') = fmt[f]
      <4>1. CASE fmt[f] = "-"
        BY <1>5, <4>1, OneMoreFlag
      <4>2. CASE fmt[f] = "0"
        <5>1. "-" \notin Seen
          BY <1>5, <4>2, OneSide
        <5> QED
          BY <1>5, <4>2, <5>1, OneMoreFlag
      <4> QED
        BY <1>1, <2>3, <4>1, <4>2
    <3> QED
      BY <2>1, <3>1, <3>2, <3>3
  <2> QED
    BY <2>2, <2>3
<1>7. dir'.width = dir.width /\ dir'.precision = dir.precision
  BY <1>1 DEF DirectiveOK
<1>8. /\ f \in Int /\ f + 1 \in Int /\ f <= AfterFlags + 1 /\ f + 1 <= AfterFlags + 1 /\ f + 1 <= ConvAt
  <2>1. PICK af, aw, ax, c \in Nat : /\ af = AfterFlags /\ aw = AfterWidth /\ ax = AfterPrecision /\ c = ConvAt
                                     /\ af + 1 <= aw + 1 /\ aw + 1 <= ax + 1 /\ ax + 1 <= c
    BY Along
  <2>2. f \in 2 .. af
    BY <1>3, <2>1
  <2> QED
    BY <2>1, <2>2
<1>9. WidthAt(f) = -1 /\ PrecisionAt(f) = -1 /\ WidthAt(f + 1) = -1 /\ PrecisionAt(f + 1) = -1
  BY <1>8, Along
<1>10. dir'.width = WidthAt(f') /\ dir'.precision = PrecisionAt(f')
  BY <1>1, <1>4, <1>7, <1>9 DEF LocalsOK
<1> QED
  BY <1>1, <1>4, <1>6, <1>8, <1>10, StaysInFirst

(* Behind the flags only the width, the precision and the l's change.      *)
LEMMA PastFlags ==
  ASSUME FormatOK, AskedOK, OutOK, asked' = asked, pc = "switch", f \in AfterFlags + 1 .. ConvAt - 1
  PROVE  /\ dir.width = WidthAt(f) /\ dir.precision = PrecisionAt(f)
         /\ /\ f' \in f + 1 .. ConvAt /\ pc' = "switch" /\ out' = out
            /\ dir'.padc = dir.padc /\ dir'.altflag = dir.altflag
            /\ dir'.width = WidthAt(f') /\ dir'.precision = PrecisionAt(f')
            => OutOK'
<1>1. PICK af, c \in Nat : af = AfterFlags /\ c = ConvAt /\ af >= 1
  BY Along
<1>2. f \in Int /\ f >= AfterFlags + 1 /\ f \in 2 .. ConvAt
  BY <1>1
<1>3. out = <<>> /\ LocalsOK
  BY <1>2 DEF OutOK
<1>4. dir.width = WidthAt(f) /\ dir.precision = PrecisionAt(f)
  BY <1>3 DEF LocalsOK
<1>5. ASSUME f' \in f + 1 .. ConvAt, pc' = "switch", out' = out,
             dir'.padc = dir.padc, dir'.altflag = dir.altflag,
             dir'.width = WidthAt(f'), dir'.precision = PrecisionAt(f')
      PROVE  OutOK'
  <2>1. f' \in Int /\ f' >= f /\ f' <= ConvAt
    BY <1>1, <1>2, <1>5
  <2>2. Seen' = Seen
    BY <1>2, <2>1, SeenIs
  <2>3. dir'.padc = PadOf(Seen') /\ dir'.altflag = ("#" \in Seen')
    BY <1>3, <1>5, <2>2 DEF LocalsOK
  <2> QED
    BY <1>3, <1>5, <2>1, <2>3, StaysInFirst
<1> QED
  BY <1>4, <1>5

(* An l changes neither the width nor the precision.                       *)
LEMMA LongOut ==
  ASSUME FormatOK, AskedOK, ParseOK, DirectiveOK, OutOK, asked' = asked, fmt' = fmt, Long
  PROVE  OutOK'
<1>1. /\ pc = "switch" /\ fmt[f] = "l" /\ f' = f + 1 /\ pc' = "switch" /\ out' = out
      /\ dir' = [dir EXCEPT !.lflag = @ + 1]
  BY DEF Long, Case, Reswitch, Silent
<1>2. f \in AfterPrecision + 1 .. ConvAt - 1
  <2>1. InDirective
    BY <1>1, InFirst
  <2> QED
    BY <1>1, <2>1, SwitchAt, Parts DEF Numeric
<1>3. /\ f \in AfterFlags + 1 .. ConvAt - 1 /\ f' \in f + 1 .. ConvAt /\ f \in Int /\ f > AfterPrecision
      /\ f' \in Int /\ f' > AfterPrecision
  <2>1. PICK af, aw, ax, c \in Nat : /\ af = AfterFlags /\ aw = AfterWidth /\ ax = AfterPrecision /\ c = ConvAt
                                     /\ af + 1 <= aw + 1 /\ aw + 1 <= ax + 1 /\ ax + 1 <= c
    BY Along
  <2>2. f \in ax + 1 .. c - 1
    BY <1>2, <2>1
  <2> QED
    BY <1>1, <2>1, <2>2
<1>4. WidthAt(f') = WidthAt(f) /\ PrecisionAt(f') = PrecisionAt(f)
  BY <1>3, Along
<1>5. /\ dir'.padc = dir.padc /\ dir'.altflag = dir.altflag
      /\ dir'.width = dir.width /\ dir'.precision = dir.precision
  BY <1>1 DEF DirectiveOK
<1> QED
  BY <1>1, <1>3, <1>4, <1>5, PastFlags

(* The point puts a width where there is none.                             *)
LEMMA PointOut ==
  ASSUME FormatOK, AskedOK, ParseOK, DirectiveOK, OutOK, asked' = asked, fmt' = fmt, Point
  PROVE  OutOK'
<1>1. /\ pc = "switch" /\ fmt[f] = "." /\ f' = f + 1 /\ pc' = "switch" /\ out' = out
      /\ dir' = [dir EXCEPT !.width = Max({@, 0})]
  BY DEF Point, Case, Reswitch, Silent
<1>2. f = AfterWidth + 1 /\ asked.d.precision # <<>>
  <2>1. InDirective
    BY <1>1, InFirst
  <2> QED
    BY <1>1, <2>1, SwitchAt, Parts DEF Numeric
<1>3. /\ f \in AfterFlags + 1 .. ConvAt - 1 /\ f' \in f + 1 .. ConvAt /\ f' = AfterWidth + 2 /\ f' \in Int
      /\ f' >= AfterWidth + 2
  <2>1. PICK af, aw, ax, c \in Nat : /\ af = AfterFlags /\ aw = AfterWidth /\ ax = AfterPrecision /\ c = ConvAt
                                     /\ af + 1 <= aw + 1 /\ aw + 1 <= ax + 1 /\ ax + 1 <= c
    BY Along
  <2>2. ax = aw + 2
    BY <1>2, <2>1, Along
  <2>3. f = aw + 1
    BY <1>2, <2>1
  <2> QED
    BY <1>1, <2>1, <2>2, <2>3
<1>4. /\ WidthAt(f) = WidthField /\ PrecisionAt(f) = -1
      /\ WidthAt(f') = Max({WidthField, 0}) /\ PrecisionAt(f') = -1
  BY <1>2, <1>3, Along
<1>5. /\ dir'.padc = dir.padc /\ dir'.altflag = dir.altflag
      /\ dir'.width = Max({dir.width, 0}) /\ dir'.precision = dir.precision
  BY <1>1 DEF DirectiveOK
<1> QED
  BY <1>1, <1>3, <1>4, <1>5, PastFlags

(* A number fills the width first, and behind the point the precision.     *)
LEMMA ProcessOut ==
  ASSUME FormatOK, AskedOK, DirectiveOK, OutOK, asked' = asked, pc = "switch", NEW v \in Int, ProcessPrecision(v),
         \/ f = AfterFlags + 1 /\ asked.d.width # <<>> /\ f' = AfterWidth + 1 /\ v = WidthField
         \/ f = AfterWidth + 2 /\ asked.d.precision # <<>> /\ f' = f + 1 /\ v = PrecisionField
  PROVE  OutOK'
<1>1. /\ pc' = "switch" /\ out' = out
      /\ dir' = IF dir.width < 0 THEN [dir EXCEPT !.width = v, !.precision = -1] ELSE [dir EXCEPT !.precision = v]
  BY DEF ProcessPrecision, Reswitch, Silent
<1>2. PICK af, aw, ax, c \in Nat : /\ af = AfterFlags /\ aw = AfterWidth /\ ax = AfterPrecision /\ c = ConvAt
                                   /\ af + 1 <= aw + 1 /\ aw + 1 <= ax + 1 /\ ax + 1 <= c
  BY Along
<1>3. CASE f = AfterFlags + 1 /\ asked.d.width # <<>> /\ f' = AfterWidth + 1 /\ v = WidthField
  <2>1. aw > af
    <3>1. PICK width, none, four, star, ten : /\ width = asked.d.width /\ none = <<>> /\ four = <<"4">>
                                              /\ star = <<"*">> /\ ten = <<"1", "0">>
      OBVIOUS
    <3>2. (width = four /\ aw = af + 1) \/ (width = star /\ aw = af + 1) \/ (width = ten /\ aw = af + 2)
      BY <1>2, <1>3, <3>1, Parts
    <3> QED
      BY <1>2, <3>2
  <2>2. f \in AfterFlags + 1 .. ConvAt - 1 /\ f' \in f + 1 .. ConvAt /\ f \in Int /\ f <= AfterFlags + 1
    BY <1>2, <1>3, <2>1
  <2>3. /\ WidthAt(f) = -1 /\ PrecisionAt(f) = -1
        /\ WidthAt(f') = v /\ PrecisionAt(f') = -1
    BY <1>3, <2>2, Along
  <2>4. dir.width = -1 /\ dir.precision = -1
    BY <2>2, <2>3, PastFlags
  <2>5. dir' = [dir EXCEPT !.width = v, !.precision = -1]
    BY <1>1, <2>4
  <2>6. /\ dir'.padc = dir.padc /\ dir'.altflag = dir.altflag
        /\ dir'.width = v /\ dir'.precision = -1
    BY <2>5 DEF DirectiveOK
  <2> QED
    BY <1>1, <2>2, <2>3, <2>6, PastFlags
<1>4. CASE f = AfterWidth + 2 /\ asked.d.precision # <<>> /\ f' = f + 1 /\ v = PrecisionField
  <2>1. ax = aw + 2
    BY <1>2, <1>4, Along
  <2>2. /\ f \in AfterFlags + 1 .. ConvAt - 1 /\ f' \in f + 1 .. ConvAt /\ f \in Int /\ f' \in Int
        /\ f >= AfterWidth + 2 /\ f' >= AfterWidth + 2 /\ f' > AfterPrecision
    BY <1>2, <1>4, <2>1
  <2>3. /\ WidthAt(f) = Max({WidthField, 0}) /\ WidthAt(f') = Max({WidthField, 0})
        /\ PrecisionAt(f') = v
    BY <1>4, <2>2, Along
  <2>4. dir.width = Max({WidthField, 0})
    BY <2>2, <2>3, PastFlags
  <2>5. ~(dir.width < 0)
    <3>1. PICK w \in Int : w = WidthField
      BY Fields
    <3>2. PICK m \in Int : m = Max({w, 0}) /\ m >= 0
      BY MaxOfTwo
    <3> QED
      BY <2>4, <3>1, <3>2
  <2>6. dir' = [dir EXCEPT !.precision = v]
    BY <1>1, <2>5
  <2>7. /\ dir'.padc = dir.padc /\ dir'.altflag = dir.altflag
        /\ dir'.width = dir.width /\ dir'.precision = v
    BY <2>6 DEF DirectiveOK
  <2> QED
    BY <1>1, <2>2, <2>3, <2>4, <2>7, PastFlags
<1> QED
  BY <1>3, <1>4

(* A star takes its number from the arguments.                             *)
LEMMA StarOut ==
  ASSUME FormatOK, AskedOK, ParseOK, DirectiveOK, OutOK, asked' = asked, fmt' = fmt, Star
  PROVE  OutOK'
<1>1. /\ pc = "switch" /\ fmt[f] = "*" /\ f' = f + 1 /\ ProcessPrecision(VaInt(Head(ap)))
  BY DEF Star, Case
<1>0. PICK none, star : none = <<>> /\ star = <<"*">>
  OBVIOUS
<1>2. star # none
  BY <1>0
<1>3. \/ f = AfterFlags + 1 /\ asked.d.width = star /\ ap = WidthsArguments
      \/ f = AfterWidth + 2 /\ asked.d.precision = star /\ ap = PrecisionsArguments
  <2>1. InDirective
    BY <1>1, InFirst
  <2> QED
    BY <1>0, <1>1, <2>1, SwitchAt, Parts DEF Numeric
<1>4. CASE f = AfterFlags + 1 /\ asked.d.width = star /\ ap = WidthsArguments
  <2>1. Head(ap) = asked.width /\ asked.width \in Int
    BY <1>0, <1>4, ArgumentsTaken DEF FormatOK
  <2>2. VaInt(Head(ap)) \in Int /\ VaInt(Head(ap)) = WidthField
    <3>1. WidthField = VaInt(asked.width)
      BY <1>0, <1>2, <1>4 DEF WidthField, Field
    <3> QED
      BY <2>1, <3>1, VaIntFits
  <2>3. f' = AfterWidth + 1
    <3>1. Len(star) = 1 /\ AfterFlags \in Nat
      BY <1>0, Parts
    <3> QED
      BY <1>1, <1>4, <3>1 DEF AfterWidth
  <2> QED
    BY <1>0, <1>1, <1>2, <1>4, <2>2, <2>3, ProcessOut
<1>5. CASE f = AfterWidth + 2 /\ asked.d.precision = star /\ ap = PrecisionsArguments
  <2>1. Head(ap) = asked.precision /\ asked.precision \in Int
    BY <1>0, <1>5, ArgumentsTaken DEF FormatOK
  <2>2. VaInt(Head(ap)) \in Int /\ VaInt(Head(ap)) = PrecisionField
    <3>1. PrecisionField = VaInt(asked.precision)
      BY <1>0, <1>2, <1>5 DEF PrecisionField, Field
    <3> QED
      BY <2>1, <3>1, VaIntFits
  <2> QED
    BY <1>0, <1>1, <1>2, <1>5, <2>2, ProcessOut
<1> QED
  BY <1>3, <1>4, <1>5

(* Digits are taken together.                                              *)
LEMMA WidthOut ==
  ASSUME FormatOK, AskedOK, ParseOK, DirectiveOK, OutOK, asked' = asked, fmt' = fmt, Width
  PROVE  OutOK'
<1>1. pc = "switch" /\ ProcessPrecision(Decimal(SubSeq(fmt, f, f' - 1)))
  BY DEF Width
<1>2. \/ /\ f = AfterFlags + 1 /\ asked.d.width # <<>> /\ asked.d.width # <<"*">>
         /\ f' = AfterWidth + 1
      \/ f = AfterWidth + 2 /\ asked.d.precision = <<"1">> /\ f' = f + 1
  BY WidthStep
<1>3. PICK none, four, star, ten, one :
        none = <<>> /\ four = <<"4">> /\ star = <<"*">> /\ ten = <<"1", "0">> /\ one = <<"1">>
  OBVIOUS
<1>4. one # none /\ one # star
  <2>1. Len(one) = 1 /\ Len(none) = 0 /\ one[1] = "1" /\ star[1] = "*"
    BY <1>3
  <2> QED
    BY <2>1
<1>5. PICK af, aw, ax, c \in Nat : /\ af = AfterFlags /\ aw = AfterWidth /\ ax = AfterPrecision /\ c = ConvAt
                                   /\ af + 1 <= aw + 1 /\ aw + 1 <= ax + 1 /\ ax + 1 <= c /\ af >= 1
  BY Along
<1>6. PICK length \in Nat : length = Len(fmt) /\ c <= length
  BY <1>5, FormatFits
<1>7. fmt \in Seq(Signs)
  BY DEF FormatOK
<1>8. CASE f = AfterFlags + 1 /\ asked.d.width # <<>> /\ asked.d.width # <<"*">> /\ f' = AfterWidth + 1
  <2>1. PICK width, n : width = asked.d.width /\ n = Len(width)
    OBVIOUS
  <2>2. width = four \/ width = ten
    BY <1>3, <1>8, <2>1, Parts
  <2>3. /\ n \in 1 .. 2 /\ width \in Seq(Signs)
    <3>1. CASE width = four
      <4>1. width = <<"4">> /\ "4" \in Signs
        BY <1>3, <3>1 DEF Signs
      <4> QED
        BY <2>1, <4>1
    <3>2. CASE width = ten
      <4>1. width = <<"1", "0">> /\ "1" \in Signs /\ "0" \in Signs
        BY <1>3, <3>2 DEF Signs
      <4> QED
        BY <2>1, <4>1
    <3> QED
      BY <2>2, <3>1, <3>2
  <2>4. aw = af + n
    BY <1>5, <2>1 DEF AfterWidth
  <2>5. f = af + 1 /\ f' - 1 = af + n /\ af + n <= length
    BY <1>5, <1>6, <1>8, <2>3, <2>4
  <2>6. PICK s : s = SubSeq(fmt, af + 1, af + n)
    OBVIOUS
  <2>7. s \in Seq(Signs) /\ Len(s) = n /\ \A k \in 1 .. n : s[k] = fmt[af + k]
    BY <1>5, <1>6, <1>7, <2>3, <2>5, <2>6
  <2>8. \A k \in 1 .. n : fmt[af + k] = width[k]
    BY <1>5, <2>1 DEF FormatOK
  <2>9. s = width
    BY <2>1, <2>3, <2>7, <2>8, Alike
  <2>10. ProcessPrecision(Decimal(width))
    BY <1>1, <2>5, <2>6, <2>9
  <2>11. Decimal(width) = WidthField
    BY <1>8, <2>1, Zenon DEF WidthField, Field
  <2> QED
    BY <1>1, <1>8, <2>10, <2>11, Fields, ProcessOut
<1>9. CASE f = AfterWidth + 2 /\ asked.d.precision = <<"1">> /\ f' = f + 1
  <2>1. asked.d.precision = one /\ asked.d.precision # none /\ asked.d.precision # star
    BY <1>3, <1>4, <1>9
  <2>2. fmt[f] = "1" /\ f \in 1 .. length /\ f' - 1 = f
    <3>1. fmt[AfterWidth + 2] = asked.d.precision[1]
      BY <1>3, <2>1 DEF FormatOK
    <3>2. one[1] = "1"
      BY <1>3
    <3>3. ax = aw + 2
      BY <1>3, <1>5, <2>1, Along
    <3> QED
      BY <1>5, <1>6, <1>9, <2>1, <3>1, <3>2, <3>3
  <2>3. PICK s : s = SubSeq(fmt, f, f)
    OBVIOUS
  <2>4. s \in Seq(Signs) /\ Len(s) = 1 /\ s[1] = "1"
    BY <1>6, <1>7, <2>2, <2>3
  <2>5. one \in Seq(Signs) /\ Len(one) = 1 /\ one[1] = "1"
    BY <1>3 DEF Signs
  <2>6. s = one
    <3>1. Len(s) = Len(one) /\ \A k \in 1 .. Len(s) : s[k] = one[k]
      <4>1. \A k \in 1 .. 1 : k = 1
        OBVIOUS
      <4> QED
        BY <2>4, <2>5, <4>1
    <3> QED
      BY <2>4, <2>5, <3>1, Alike
  <2>7. ProcessPrecision(Decimal(one))
    BY <1>1, <2>2, <2>3, <2>6
  <2>8. Decimal(one) = PrecisionField
    BY <1>3, <2>1, Zenon DEF PrecisionField, Field
  <2>9. asked.d.precision # <<>>
    BY <1>3, <2>1
  <2> QED
    BY <1>1, <1>9, <2>7, <2>8, <2>9, Fields, ProcessOut
<1> QED
  BY <1>2, <1>8, <1>9

(* The locals at the conversion are those of the whole directive.          *)
LEMMA AllSeen ==
  ASSUME FormatOK, AskedOK, ParseOK, OutOK, pc = "switch", f = ConvAt
  PROVE  /\ out = <<>> /\ dir.lflag = asked.d.l
         /\ dir.padc = PadOf(ToSet(asked.d.flags)) /\ dir.altflag = ("#" \in ToSet(asked.d.flags))
         /\ "-" \notin ToSet(asked.d.flags) => dir.padc = ZeroOrBlank(asked.d.flags)
         /\ dir.width = WidthField \/ dir.width = Max({WidthField, 0})
         /\ dir.precision = PrecisionField
<1>1. PICK af, aw, ax, c \in Nat : /\ af = AfterFlags /\ aw = AfterWidth /\ ax = AfterPrecision /\ c = ConvAt
                                   /\ af + 1 <= aw + 1 /\ aw + 1 <= ax + 1 /\ ax + 1 <= c /\ af >= 1
  BY Along
<1>2. PICK l \in 0 .. 2 : l = asked.d.l /\ c = ax + l + 1
  BY <1>1, Parts
<1>3. f \in Int /\ f \in 2 .. ConvAt /\ f >= AfterFlags + 1 /\ f > AfterPrecision
  BY <1>1
<1>4. out = <<>> /\ LocalsOK
  BY <1>3 DEF OutOK
<1>5. dir.lflag = asked.d.l
  <2>1. InDirective
    <3>1. f # ConvAt + 3
      BY <1>1
    <3> QED
      BY <3>1 DEF ParseOK, Behind
  <2>2. dir.lflag = IF f <= ax THEN 0 ELSE f - ax - 1
    BY <1>1, <2>1 DEF InDirective
  <2>3. f = ax + l + 1 /\ ~(f <= ax) /\ f - ax - 1 = l
    <3>1. f = ax + l + 1
      BY <1>1, <1>2
    <3>2. ~(ax + l + 1 <= ax) /\ (ax + l + 1) - ax - 1 = l
      BY <1>1, <1>2
    <3> QED
      BY <3>1, <3>2
  <2> QED
    BY <1>2, <2>2, <2>3
<1>6. Seen = ToSet(asked.d.flags)
  BY <1>3, SeenIs
<1>7. dir.padc = PadOf(ToSet(asked.d.flags)) /\ dir.altflag = ("#" \in ToSet(asked.d.flags))
  BY <1>4, <1>6 DEF LocalsOK
<1>8. "-" \notin ToSet(asked.d.flags) => dir.padc = ZeroOrBlank(asked.d.flags)
  BY <1>7, Zenon DEF PadOf, ZeroOrBlank
<1>9. dir.width = WidthField \/ dir.width = Max({WidthField, 0})
  BY <1>3, <1>4, Along DEF LocalsOK
<1>10. dir.precision = PrecisionField
  BY <1>3, <1>4, Along DEF LocalsOK
<1> QED
  BY <1>4, <1>5, <1>7, <1>8, <1>9, <1>10

(* Which place f comes to behind the directives.                           *)
LEMMA Elsewhere ==
  ASSUME FormatOK, ConvAt' = ConvAt
  PROVE  /\ f' = ConvAt + 1 => f' # 1 /\ ~(f' \in 2 .. ConvAt') /\ ~Behind(2)' /\ ~Behind(4)'
         /\ f' = ConvAt + 2 => f' # 1 /\ ~(f' \in 2 .. ConvAt') /\ ~Behind(1)' /\ ~Behind(4)'
         /\ f' = ConvAt + 4 => f' # 1 /\ ~(f' \in 2 .. ConvAt') /\ ~Behind(1)' /\ ~Behind(2)'
<1>1. PICK c \in Nat : c = ConvAt /\ c >= 2
  BY FormatFits
<1>2. /\ c + 1 # 1 /\ ~(c + 1 \in 2 .. c) /\ c + 1 # c + 2 /\ c + 1 # c + 4
      /\ c + 2 # 1 /\ ~(c + 2 \in 2 .. c) /\ c + 2 # c + 1 /\ c + 2 # c + 4
      /\ c + 4 # 1 /\ ~(c + 4 \in 2 .. c) /\ c + 4 # c + 1 /\ c + 4 # c + 2
  BY <1>1
<1> QED
  BY <1>1, <1>2 DEF Behind

(* Behind the first directive, its text makes up what is to be printed.    *)
LEMMA FirstDone ==
  ASSUME FormatOK, asked' = asked, f = ConvAt \/ f = ConvAt + 1, f' = ConvAt + 1,
         \/ pc' = "scan" /\ out' = First
         \/ pc' = "emit" /\ out' \o p' = First
         \/ pc' = "pad" /\ out' \o (Fill(dir'.width, dir'.padc) \o Clean(p', dir'.precision, dir'.altflag)) = First
         \/ /\ pc' = "string"
            /\ out' \o (Clean(p', dir'.precision, dir'.altflag)
                          \o Fill(dir'.width - Len(Clean(p', dir'.precision, dir'.altflag)), " ")) = First
         \/ pc' = "tail" /\ out' \o Fill(dir'.width, " ") = First
         \/ pc' = "undefined"
  PROVE  OutOK'
<1>1. First' = First /\ ConvAt' = ConvAt
  BY ShownKept
<1>3. f' # 1 /\ ~(f' \in 2 .. ConvAt') /\ ~Behind(2)' /\ ~Behind(4)'
  BY <1>1, Elsewhere
<1>4. CASE pc' = "scan" /\ out' = First
  BY <1>1, <1>3, <1>4 DEF OutOK
<1>5. CASE pc' = "emit" /\ out' \o p' = First
  BY <1>1, <1>3, <1>5 DEF OutOK
<1>6. CASE pc' = "pad" /\ out' \o (Fill(dir'.width, dir'.padc) \o Clean(p', dir'.precision, dir'.altflag)) = First
  <2>1. Fill(dir.width, dir.padc)' = Fill(dir'.width, dir'.padc)
    BY DEF Fill
  <2>2. Clean(p, dir.precision, dir.altflag)' = Clean(p', dir'.precision, dir'.altflag)
    BY DEF Clean, Strnlen
  <2> QED
    BY <1>1, <1>6, <2>1, <2>2 DEF OutOK
<1>7. CASE /\ pc' = "string"
           /\ out' \o (Clean(p', dir'.precision, dir'.altflag)
                          \o Fill(dir'.width - Len(Clean(p', dir'.precision, dir'.altflag)), " ")) = First
  <2>1. Clean(p, dir.precision, dir.altflag)' = Clean(p', dir'.precision, dir'.altflag)
    BY DEF Clean, Strnlen
  <2>2. Fill(dir.width - Len(Clean(p, dir.precision, dir.altflag)), " ")'
          = Fill(dir'.width - Len(Clean(p', dir'.precision, dir'.altflag)), " ")
    BY <2>1 DEF Fill
  <2> QED
    BY <1>1, <1>7, <2>1, <2>2 DEF OutOK
<1>8. CASE pc' = "tail" /\ out' \o Fill(dir'.width, " ") = First
  <2>1. Fill(dir.width, " ")' = Fill(dir'.width, " ")
    BY DEF Fill
  <2> QED
    BY <1>1, <1>8, <2>1 DEF OutOK
<1>9. CASE pc' = "undefined"
  BY <1>9 DEF OutOK
<1> QED
  BY <1>4, <1>5, <1>6, <1>7, <1>8, <1>9

(* And behind the second one, both.                                        *)
LEMMA SecondDone ==
  ASSUME FormatOK, asked' = asked, asked.d.conv # "nul", f' = ConvAt + 4,
         \/ pc' = "scan" /\ out' = First \o Second
         \/ pc' = "emit" /\ out' \o p' = First \o Second
  PROVE  OutOK'
<1>1. First' = First /\ Second' = Second /\ ConvAt' = ConvAt
  BY ShownKept
<1>3. f' # 1 /\ ~(f' \in 2 .. ConvAt') /\ ~Behind(2)' /\ ~Behind(1)'
  BY <1>1, Elsewhere
<1> QED
  BY <1>1, <1>3 DEF OutOK

(* The texts after a character is put.                                     *)
LEMMA PutText ==
  ASSUME TextOK, NEW c, Putch(c)
  PROVE  /\ out' = out \o <<c>> /\ IsText(out') /\ (out = <<>> => out' = <<c>>)
         /\ \A t : IsText(t) => out' \o t = out \o (<<c>> \o t)
<1>1. out' = Append(out, c) /\ IsText(out)
  BY DEF Putch, Sprintputch, TextOK
<1>2. PICK o : o = out
  OBVIOUS
<1>3. IsText(o)
  BY <1>1, <1>2
<1>4. ASSUME NEW t, IsText(t)
      PROVE  Append(o, c) = o \o <<c>> /\ IsText(Append(o, c)) /\ Append(o, c) \o t = o \o (<<c>> \o t)
  BY <1>3, <1>4, Texts
<1>5. IsText(<<>>) /\ IsText(<<c>>)
  BY SomeTexts
<1>6. <<>> \o <<c>> = <<c>>
  BY <1>5, Texts
<1> QED
  BY <1>1, <1>2, <1>4, <1>5, <1>6, Zenon

(* %c and %% put one character.                                            *)
LEMMA CharacterOut ==
  ASSUME FormatOK, AskedOK, ParseOK, TextOK, OutOK, asked' = asked, fmt' = fmt, Character \/ Percent
  PROVE  OutOK' /\ TextOK'
<1>1. /\ pc = "switch" /\ fmt[f] \in {"c", "%"} /\ f' = f + 1 /\ pc' = "scan" /\ p' = p
      /\ \/ fmt[f] = "c" /\ Putch(Head(ap))
         \/ fmt[f] = "%" /\ Putch("%")
  BY DEF Character, Percent, Case
<1>2. f = ConvAt /\ fmt[f] = asked.d.conv /\ ap = ConversionsArguments
  BY <1>1, AtConversion
<1>3. out = <<>>
  BY <1>1, <1>2, AllSeen
<1>4. CASE fmt[f] = "c" /\ Putch(Head(ap))
  <2>1. Head(ap) = asked.arg
    BY <1>2, <1>4, ArgumentsTaken
  <2>2. out' = <<asked.arg>> /\ IsText(out')
    BY <1>3, <1>4, <2>1, PutText
  <2>3. First = <<asked.arg>>
    BY <1>2, <1>4, ShownPlain DEF First
  <2>4. OutOK'
    BY <1>1, <1>2, <2>2, <2>3, FirstDone
  <2> QED
    BY <1>1, <2>2, <2>4 DEF TextOK, IsText
<1>5. CASE fmt[f] = "%" /\ Putch("%")
  <2>2. out' = <<"%">> /\ IsText(out')
    BY <1>3, <1>5, PutText
  <2>3. First = <<"%">>
    BY <1>2, <1>5, ShownPlain DEF First
  <2>4. OutOK'
    BY <1>1, <1>2, <2>2, <2>3, FirstDone
  <2> QED
    BY <1>1, <2>2, <2>4 DEF TextOK, IsText
<1> QED
  BY <1>1, <1>4, <1>5

(* default: the '%' is put and what follows it read again.                 *)
LEMMA LiteralOut ==
  ASSUME FormatOK, AskedOK, ParseOK, DirectiveOK, TextOK, OutOK, asked' = asked, fmt' = fmt, Literal
  PROVE  OutOK' /\ TextOK'
<1>1. pc = "switch" /\ pc' = "scan" /\ p' = p /\ Putch("%")
  BY DEF Literal
<1>2. f = ConvAt /\ f' = 2
  BY LiteralStep
<1>3. out = <<>>
  BY <1>1, <1>2, AllSeen
<1>4. out' = <<"%">> /\ IsText(out')
  BY <1>1, <1>3, PutText
<1>5. PICK c, n \in Nat : c = ConvAt /\ c >= 2 /\ n = Len(fmt) /\ c <= n
  BY FormatFits
<1>6. SubSeq(fmt', 1, f' - 1) = <<"%">>
  <2>1. fmt \in Seq(Signs) /\ fmt[1] = "%"
    BY DEF FormatOK
  <2>2. PICK s : s = SubSeq(fmt, 1, 1)
    OBVIOUS
  <2>3. s \in Seq(Signs) /\ Len(s) = 1 /\ s[1] = "%"
    BY <1>5, <2>1, <2>2
  <2>4. PICK t : t = <<"%">>
    OBVIOUS
  <2>5. t \in Seq(Signs) /\ Len(t) = 1 /\ t[1] = "%"
    BY <2>4 DEF Signs
  <2>6. \A k \in 1 .. Len(s) : s[k] = t[k]
    <3>1. \A k \in 1 .. 1 : k = 1
      OBVIOUS
    <3> QED
      BY <2>3, <2>5, <3>1
  <2>7. s = t
    BY <2>3, <2>5, <2>6, Alike
  <2>8. f' - 1 = 1
    BY <1>2
  <2> QED
    BY <2>2, <2>4, <2>7, <2>8
<1>7. OutOK'
  <2>1. ConvAt' = ConvAt
    BY ShownKept
  <2>2. f' # 1 /\ ~Behind(1)' /\ ~Behind(2)' /\ ~Behind(4)'
    <3>1. 2 # 1 /\ 2 # c + 1 /\ 2 # c + 2 /\ 2 # c + 4
      BY <1>5
    <3> QED
      BY <1>2, <1>5, <2>1, <3>1 DEF Behind
  <2> QED
    BY <1>1, <1>4, <1>6, <2>2 DEF OutOK
<1> QED
  BY <1>1, <1>4, <1>7 DEF TextOK, IsText

(* A number is printed from p.                                             *)
LEMMA NumberOut ==
  ASSUME FormatOK, AskedOK, ParseOK, DirectiveOK, TextOK, OutOK, ~Dashed, asked' = asked, fmt' = fmt, Number
  PROVE  OutOK' /\ TextOK'
<1>1. pc = "switch" /\ fmt[f] \in Numeric /\ f' = f + 1 /\ pc' = "emit" /\ out' = out
  <2>1. pc = "switch" /\ fmt[f] \in Numeric /\ f' = f + 1 /\ pc' = "emit" /\ Silent
    BY Zenon DEF Number, Case
  <2> QED
    BY <2>1 DEF Silent
<1>2. \/ f = ConvAt /\ fmt[f] = asked.d.conv /\ ap = ConversionsArguments
      \/ fmt[f] = "d" /\ Behind(3) /\ ap = <<NextWord>>
  BY <1>1, AtConversion
<1>3. dir.width \in Int
  BY DEF DirectiveOK
<1>4. CASE f = ConvAt /\ fmt[f] = asked.d.conv /\ ap = ConversionsArguments
  <2>1. /\ asked.arg \in 0 .. 2 * LongMax + 1 /\ asked.d.conv \in Numeric /\ asked.d.l \in 0 .. 2
        /\ "-" \notin ToSet(asked.d.flags) /\ Head(ap) = asked.arg
    <3>1. asked.d.conv \in Numeric
      BY <1>1, <1>4
    <3>2. asked.arg \in 0 .. 2 * LongMax + 1
      BY <3>1, Zenon DEF AskedOK
    <3>3. Head(ap) = asked.arg
      BY <1>4, <3>1, ArgumentsTaken
    <3> QED
      BY <3>1, <3>2, <3>3, Parts DEF Dashed
  <2>2. /\ out = <<>> /\ dir.lflag = asked.d.l /\ dir.padc = ZeroOrBlank(asked.d.flags)
        /\ dir.width = WidthField \/ dir.width = Max({WidthField, 0})
    BY <1>1, <1>4, <2>1, AllSeen
  <2>3. PICK d : d = asked.d
    OBVIOUS
  <2>4. PICK w \in Int : w = WidthField
    BY Fields
  <2>5. w = Field(d.width, asked.width)
    BY <2>3, <2>4 DEF WidthField
  <2>6. d.conv \in Numeric /\ d.l \in 0 .. 2 /\ "-" \notin ToSet(d.flags)
    BY <2>1, <2>3
  <2>7. fmt[f] = d.conv
    BY <1>4, <2>3
  <2>8. dir.lflag = d.l
    BY <2>2, <2>3
  <2>9. dir.padc = ZeroOrBlank(d.flags)
    BY <2>2, <2>3
  <2>10. dir.width = w \/ dir.width = Max({w, 0})
    BY <2>2, <2>4
  <2>11. PICK arg \in 0 .. 2 * LongMax + 1 : arg = asked.arg /\ Head(ap) = arg
    BY <2>1
  <2>12. p' = Shown(d, arg) /\ IsText(Shown(d, arg))
    BY <1>3, <2>5, <2>6, <2>7, <2>8, <2>9, <2>10, <2>11, NumberShown
  <2>13. p' = First /\ IsText(First)
    BY <2>3, <2>11, <2>12 DEF First
  <2>14. out' \o p' = First
    BY <1>1, <2>2, <2>13, Texts
  <2>15. OutOK'
    BY <1>1, <1>4, <2>14, FirstDone
  <2> QED
    BY <1>1, <2>13, <2>15 DEF TextOK, IsText
<1>5. CASE fmt[f] = "d" /\ Behind(3) /\ ap = <<NextWord>>
  <2>1. IsText(First) /\ out = First \o <<"a">> /\ dir = Fresh
    BY <1>1, <1>5 DEF OutOK
  <2>2. PICK d : d = Plain
    OBVIOUS
  <2>3. ToSet(d.flags) = {}
    BY <2>2 DEF Plain, ToSet
  <2>4. d.conv \in Numeric /\ d.l \in 0 .. 2 /\ "-" \notin ToSet(d.flags)
    BY <2>2, <2>3 DEF Plain, Numeric
  <2>5. -1 \in Int /\ -1 = Field(d.width, asked.width)
    BY <2>2 DEF Plain, Field
  <2>6. fmt[f] = d.conv
    BY <1>5, <2>2 DEF Plain
  <2>7. dir.lflag = d.l
    BY <2>1, <2>2 DEF Plain, Fresh
  <2>8. dir.padc = ZeroOrBlank(d.flags)
    <3>1. ZeroOrBlank(d.flags) = " "
      BY <2>3, Zenon DEF ZeroOrBlank
    <3>2. dir.padc = " "
      BY <2>1, Zenon DEF Fresh
    <3> QED
      BY <3>1, <3>2, Zenon
  <2>9. dir.width = -1
    BY <2>1 DEF Fresh
  <2>10. PICK arg \in 0 .. 2 * LongMax + 1 : arg = NextWord /\ Head(ap) = arg
    BY <1>5, PrintAssumption
  <2>11. PICK w \in Int : w = -1
    OBVIOUS
  <2>12. w = Field(d.width, asked.width)
    BY <2>5, <2>11
  <2>13. dir.width = w \/ dir.width = Max({w, 0})
    BY <2>9, <2>11
  <2>14. p' = Shown(d, arg) /\ IsText(Shown(d, arg))
    BY <1>3, <2>4, <2>6, <2>7, <2>8, <2>10, <2>12, <2>13, NumberShown
  <2>15. PICK s, t : s = First /\ t = p'
    OBVIOUS
  <2>16. (s \o <<"a">>) \o t = s \o (<<"a">> \o t)
    <3>1. IsText(s)
      BY <2>1, <2>15
    <3>2. IsText(<<"a">>)
      BY SomeTexts
    <3>3. IsText(t)
      BY <2>14, <2>15
    <3> QED
      BY <3>1, <3>2, <3>3, Texts
  <2>17. out' \o p' = First \o Second
    BY <1>1, <2>1, <2>2, <2>10, <2>14, <2>15, <2>16, Zenon DEF Second
  <2>18. asked.d.conv # "nul" /\ f' = ConvAt + 4
    <3>1. asked.d.conv # "nul" /\ f = ConvAt + 3 /\ ConvAt \in Nat
      BY <1>5, FormatFits DEF Behind
    <3> QED
      BY <1>1, <3>1
  <2>19. OutOK'
    BY <1>1, <2>17, <2>18, SecondDone
  <2> QED
    BY <1>1, <2>14, <2>19 DEF TextOK, IsText
<1> QED
  BY <1>2, <1>4, <1>5

(* %e prints the name of the code or its digits.                           *)
LEMMA ErrorOut ==
  ASSUME FormatOK, AskedOK, ParseOK, DirectiveOK, TextOK, OutOK, asked' = asked, fmt' = fmt, ErrorCode
  PROVE  OutOK' /\ TextOK'
<1> DEFINE given == VaInt(Head(ap))
           err == IF given < 0 THEN -given ELSE given
<1>1. /\ pc = "switch" /\ fmt[f] \in {"e"} /\ f' = f + 1 /\ Silent
      /\ IF err > IntMax
         THEN pc' = "undefined" /\ p' = p
         ELSE /\ pc' = "emit"
              /\ p' = IF err > MAXERROR \/ err = 0 THEN <<"error ">> \o Printnum(err, 10, -1, " ")
                      ELSE <<Message[err]>>
  BY Zenon DEF ErrorCode, Case
<1> HIDE DEF err, given
<1>2. pc = "switch" /\ fmt[f] = "e" /\ f' = f + 1 /\ out' = out
  BY <1>1, Zenon DEF Silent
<1>3. f = ConvAt /\ asked.d.conv = "e" /\ ap = ConversionsArguments
  BY <1>2, AtConversion
<1>4. Head(ap) = asked.arg /\ asked.arg \in 0 .. 2 * LongMax + 1
  BY <1>3, ArgumentsTaken, Zenon DEF AskedOK
<1>5. out = <<>>
  BY <1>2, <1>3, AllSeen
<1>6. given \in Int /\ given = VaInt(asked.arg)
  BY <1>4, VaIntFits, PrintAssumption DEF given
<1>7. PICK e \in Nat : e = err
  BY <1>6 DEF err
<1>8. First = ErrorText(given)
  BY <1>3, <1>6, ShownError DEF First
<1>9. CASE e > IntMax
  <2>1. pc' = "undefined" /\ p' = p
    BY <1>1, <1>7, <1>9, Zenon
  <2>2. OutOK'
    BY <1>2, <1>3, <2>1, FirstDone
  <2> QED
    BY <1>2, <2>1, <2>2 DEF TextOK, IsText
<1>10. CASE ~(e > IntMax)
  <2>1. /\ pc' = "emit"
        /\ p' = IF e > MAXERROR \/ e = 0 THEN <<"error ">> \o Printnum(e, 10, -1, " ") ELSE <<Message[e]>>
    BY <1>1, <1>7, <1>10, Zenon
  <2>2. ErrorText(given) = IF e \in DOMAIN Message THEN <<Message[e]>> ELSE <<"error ">> \o InBase(e, 10)
    BY <1>7, Zenon DEF ErrorText, err
  <2>3. e \in DOMAIN Message <=> ~(e > MAXERROR \/ e = 0)
    BY DEF Message, MAXERROR
  <2>4. Printnum(e, 10, -1, " ") = InBase(e, 10)
    <3>1. IsText(InBase(e, 10))
      BY SomeTexts
    <3>2. PICK n \in Nat : n = Len(InBase(e, 10))
      BY <3>1 DEF IsText
    <3>3. PICK s, c : s = InBase(e, 10) /\ c = " "
      OBVIOUS
    <3>4. Printnum(e, 10, -1, c) = Fill(-1 - n, c) \o s
      <4>1. 10 \in 2 .. 16 /\ -1 \in Int
        OBVIOUS
      <4>2. Printnum(e, 10, -1, c) = Fill(-1 - Len(InBase(e, 10)), c) \o InBase(e, 10)
        BY <4>1, PrintnumIs
      <4> QED
        BY <3>2, <3>3, <4>2
    <3>5. -1 - n \in Int /\ -1 - n <= 0
      BY <3>2
    <3>6. Fill(-1 - n, c) = <<>>
      BY <3>5, FillIs
    <3>7. <<>> \o s = s
      BY <3>1, <3>3, Texts
    <3> QED
      BY <3>3, <3>4, <3>6, <3>7
  <2>5. p' = First
    BY <1>8, <2>1, <2>2, <2>3, <2>4, Zenon
  <2>6. IsText(First)
    <3>1. \A c : IsText(<<c>>)
      BY SomeTexts
    <3>3. IsText(<<Message[e]>>) /\ IsText(<<"error ">>)
      BY <3>1, Zenon
    <3>4. IsText(InBase(e, 10))
      BY SomeTexts
    <3>2. IsText(<<"error ">> \o InBase(e, 10))
      BY <3>3, <3>4, Texts
    <3> QED
      BY <1>8, <2>2, <3>2, <3>3, Zenon
  <2>7. out' \o p' = First
    BY <1>2, <1>5, <2>5, <2>6, Texts
  <2>8. OutOK'
    BY <1>2, <1>3, <2>1, <2>7, FirstDone
  <2> QED
    BY <1>2, <2>5, <2>6, <2>8 DEF TextOK, IsText
<1> QED
  BY <1>9, <1>10

(* %s starts with the padding on the left, or with the text.               *)
LEMMA StringOut ==
  ASSUME FormatOK, AskedOK, ParseOK, DirectiveOK, TextOK, OutOK, asked' = asked, fmt' = fmt, String
  PROVE  OutOK' /\ TextOK'
<1>1. /\ pc = "switch" /\ f' = f + 1 /\ fmt[f] \in {"s"} /\ out' = out
      /\ p' = IF Head(ap) = NULL THEN <<"(", "n", "u", "l", "l", ")">> ELSE Head(ap)
      /\ IF dir.width > 0 /\ dir.padc # "-"
         THEN pc' = "pad" /\ dir' = [dir EXCEPT !.width = @ - Strnlen(p', dir.precision)]
         ELSE pc' = "string" /\ dir' = dir
  BY Zenon DEF String, Case, Silent
<1>2. f = ConvAt /\ asked.d.conv = "s" /\ ap = ConversionsArguments
  BY <1>1, AtConversion
<1>3. Head(ap) = asked.arg
  BY <1>2, ArgumentsTaken
<1>4. p' = TextOf(asked.arg) /\ IsText(p')
  <2>1. p' = TextOf(asked.arg)
    BY <1>1, <1>3, Zenon DEF TextOf
  <2>2. CASE asked.arg = NULL
    <3>1. p' = <<"(", "n", "u", "l", "l", ")">>
      BY <1>1, <1>3, <2>2
    <3>2. p' \in Seq({"(", "n", "u", "l", ")"})
      BY <3>1
    <3> QED
      BY <2>1, <3>2 DEF IsText
  <2>3. CASE asked.arg # NULL
    <3>1. p' = asked.arg /\ asked.arg \in Seq({"a", "ctl"})
      BY <1>1, <1>2, <1>3, <2>3, Zenon DEF FormatOK
    <3> QED
      BY <2>1, <3>1, Zenon DEF IsText
  <2> QED
    BY <2>2, <2>3
<1>5. /\ out = <<>> /\ dir.padc = PadOf(ToSet(asked.d.flags)) /\ dir.altflag = ("#" \in ToSet(asked.d.flags))
      /\ "-" \notin ToSet(asked.d.flags) => dir.padc = ZeroOrBlank(asked.d.flags)
      /\ dir.width = WidthField \/ dir.width = Max({WidthField, 0})
      /\ dir.precision = PrecisionField
  BY <1>1, <1>2, AllSeen
<1>6. PICK w, width, precision \in Int : /\ w = WidthField /\ width = dir.width /\ precision = PrecisionField
                                         /\ width = w \/ width = Max({w, 0})
  BY <1>5, Fields DEF DirectiveOK
<1>7. PICK text, alt, padc : text = p' /\ alt = dir.altflag /\ padc = dir.padc
  OBVIOUS
<1>8. PICK clean : clean = Clean(text, precision, alt)
  OBVIOUS
<1>9. IsText(clean) /\ Len(clean) \in Nat /\ Len(clean) = Strnlen(text, precision)
  <2>1. IsText(text)
    BY <1>4, <1>7
  <2> QED
    BY <1>8, <2>1, CleanIs
<1>10. PICK n \in Nat : n = Len(clean)
  BY <1>9
<1>11. First = Justified(clean, w, asked.d)
  <2>1. PICK d, arg : d = asked.d /\ arg = asked.arg
    OBVIOUS
  <2>2. d.conv = "s"
    BY <1>2, <2>1
  <2>3. IsText(TextOf(arg)) /\ text = TextOf(arg)
    BY <1>4, <1>7, <2>1
  <2>4. precision = Field(d.precision, asked.precision) /\ w = Field(d.width, asked.width)
    BY <1>6, <2>1 DEF PrecisionField, WidthField
  <2>5. Field(d.precision, asked.precision) \in Int
    BY <2>4
  <2>6. alt = ("#" \in ToSet(d.flags))
    BY <1>5, <1>7, <2>1
  <2>7. Shown(d, arg) = Justified(Clean(TextOf(arg), Field(d.precision, asked.precision), "#" \in ToSet(d.flags)),
                                   Field(d.width, asked.width), d)
    BY <2>2, <2>3, <2>5, ShownString
  <2> QED
    BY <1>8, <2>1, <2>3, <2>4, <2>6, <2>7, Zenon DEF First
<1>12. /\ "-" \in ToSet(asked.d.flags) => First = clean \o Fill(w - n, " ")
       /\ "-" \notin ToSet(asked.d.flags) => First = Fill(w - n, ZeroOrBlank(asked.d.flags)) \o clean
  <2>1. PICK d : d = asked.d
    OBVIOUS
  <2>2. /\ "-" \in ToSet(d.flags) => Justified(clean, w, d) = clean \o Fill(w - Len(clean), " ")
        /\ "-" \notin ToSet(d.flags) => Justified(clean, w, d) = Fill(w - Len(clean), ZeroOrBlank(d.flags)) \o clean
    BY <1>9, JustifiedIs
  <2> QED
    BY <1>10, <1>11, <2>1, <2>2
<1>13. \A c : Fill(width - n, c) = Fill(w - n, c) /\ IsText(Fill(w - n, c))
  <2>1. w - n \in Int
    BY <1>6, <1>10
  <2>2. \A c : Fill(Max({w, 0}) - n, c) = Fill(w - n, c)
    BY SameFill
  <2> QED
    BY <1>6, <2>1, <2>2, SomeTexts
<1>14. \A c : IsText(Fill(w - n, c) \o clean) /\ IsText(clean \o Fill(w - n, c))
  <2> TAKE c
  <2>1. PICK t : t = Fill(w - n, c)
    OBVIOUS
  <2>2. IsText(t)
    BY <1>13, <2>1
  <2> QED
    BY <1>9, <2>1, <2>2, Texts
<1>15. "-" \in ToSet(asked.d.flags) <=> padc = "-"
  <2>1. PICK F : F = ToSet(asked.d.flags)
    OBVIOUS
  <2>2. padc = PadOf(F)
    BY <1>5, <1>7, <2>1
  <2>3. "-" # "0" /\ "-" # " "
    OBVIOUS
  <2> QED
    BY <2>1, <2>2, <2>3, Zenon DEF PadOf
<1>16. CASE width > 0 /\ padc # "-"
  <2>1. pc' = "pad" /\ dir' = [dir EXCEPT !.width = @ - n]
    <3>1. Strnlen(p', dir.precision) = n
      BY <1>5, <1>6, <1>7, <1>9, <1>10
    <3> QED
      BY <1>1, <1>6, <1>7, <1>16, <3>1
  <2>2. dir'.width = width - n /\ dir'.padc = padc /\ dir'.precision = precision /\ dir'.altflag = alt
    BY <1>5, <1>6, <1>7, <2>1 DEF DirectiveOK
  <2>3. padc = ZeroOrBlank(asked.d.flags)
    BY <1>5, <1>7, <1>15, <1>16
  <2>4. First = Fill(width - n, padc) \o clean
    BY <1>12, <1>13, <1>15, <1>16, <2>3
  <2>5. out' \o (Fill(dir'.width, dir'.padc) \o Clean(p', dir'.precision, dir'.altflag)) = First
    <3>1. PICK t : t = Fill(width - n, padc) \o clean
      OBVIOUS
    <3>2. IsText(t)
      BY <1>13, <1>14, <3>1
    <3>3. <<>> \o t = t
      BY <3>2, Texts
    <3> QED
      BY <1>1, <1>5, <1>7, <1>8, <2>2, <2>4, <3>1, <3>3
  <2>6. OutOK'
    BY <1>1, <1>2, <2>1, <2>5, FirstDone
  <2> QED
    BY <1>1, <1>4, <2>6 DEF TextOK, IsText
<1>17. CASE ~(width > 0 /\ padc # "-")
  <2>1. pc' = "string" /\ dir' = dir
    BY <1>1, <1>6, <1>7, <1>17
  <2>2. First = clean \o Fill(width - n, " ")
    <3>1. CASE padc = "-"
      BY <1>12, <1>13, <1>15, <3>1
    <3>2. CASE padc # "-"
      <4>1. width - n \in Int /\ width - n <= 0
        BY <1>6, <1>10, <1>17, <3>2
      <4>2. \A c : Fill(width - n, c) = <<>>
        BY <4>1, FillIs
      <4>3. <<>> \o clean = clean /\ clean \o <<>> = clean
        BY <1>9, Texts
      <4> QED
        BY <1>12, <1>13, <1>15, <3>2, <4>2, <4>3
    <3> QED
      BY <3>1, <3>2
  <2>3. out' \o (Clean(p', dir'.precision, dir'.altflag)
                   \o Fill(dir'.width - Len(Clean(p', dir'.precision, dir'.altflag)), " ")) = First
    <3>1. PICK t : t = clean \o Fill(width - n, " ")
      OBVIOUS
    <3>2. IsText(t)
      BY <1>13, <1>14, <3>1
    <3>3. <<>> \o t = t
      BY <3>2, Texts
    <3>4. Clean(p', dir'.precision, dir'.altflag) = clean
      BY <1>5, <1>6, <1>7, <1>8, <2>1
    <3>5. dir'.width = width
      BY <1>6, <2>1
    <3> QED
      BY <1>1, <1>5, <1>10, <2>2, <3>1, <3>3, <3>4, <3>5
  <2>4. OutOK'
    BY <1>1, <1>2, <2>1, <2>3, FirstDone
  <2> QED
    BY <1>1, <1>4, <2>4 DEF TextOK, IsText
<1> QED
  BY <1>16, <1>17

(* One more character of the format.                                       *)
LEMMA OneMore ==
  ASSUME FormatOK, NEW k \in 1 .. Len(fmt)
  PROVE  SubSeq(fmt, 1, k) = SubSeq(fmt, 1, k - 1) \o <<fmt[k]>>
<1>1. fmt \in Seq(Signs) /\ k \in Nat /\ k >= 1 /\ fmt[k] \in Signs
  BY DEF FormatOK
<1>2. PICK n \in Nat : n = Len(fmt) /\ k <= n
  BY <1>1
<1>3. PICK s, t, u : s = SubSeq(fmt, 1, k) /\ t = SubSeq(fmt, 1, k - 1) /\ u = <<fmt[k]>>
  OBVIOUS
<1>4. s \in Seq(Signs) /\ Len(s) = k /\ \A j \in 1 .. k : s[j] = fmt[j]
  BY <1>1, <1>2, <1>3
<1>5. t \in Seq(Signs) /\ Len(t) = k - 1 /\ \A j \in 1 .. k - 1 : t[j] = fmt[j]
  BY <1>1, <1>2, <1>3
<1>6. u \in Seq(Signs) /\ Len(u) = 1 /\ u[1] = fmt[k]
  BY <1>1, <1>3
<1>7. /\ t \o u \in Seq(Signs) /\ Len(t \o u) = Len(t) + Len(u)
      /\ \A j \in 1 .. Len(t) : (t \o u)[j] = t[j]
      /\ \A j \in 1 .. Len(u) : (t \o u)[Len(t) + j] = u[j]
  <2>1. t \in Seq(Signs)
    BY <1>5
  <2>2. u \in Seq(Signs)
    BY <1>6
  <2> QED
    BY <2>1, <2>2, Joined
<1>8. PICK v : v = t \o u
  OBVIOUS
<1>9. v \in Seq(Signs) /\ Len(v) = k /\ v[k] = fmt[k] /\ \A j \in 1 .. k - 1 : v[j] = fmt[j]
  <2>1. (k - 1) + 1 = k
    BY <1>1
  <2>2. Len(v) = k /\ v \in Seq(Signs)
    BY <1>5, <1>6, <1>7, <1>8, <2>1
  <2>3. v[k] = fmt[k]
    BY <1>5, <1>6, <1>7, <1>8, <2>1
  <2>4. \A j \in 1 .. k - 1 : v[j] = fmt[j]
    BY <1>5, <1>7, <1>8
  <2> QED
    BY <2>2, <2>3, <2>4
<1>10. \A j \in 1 .. Len(s) : s[j] = v[j]
  <2>1. \A j \in 1 .. k : j \in 1 .. k - 1 \/ j = k
    BY <1>1
  <2> QED
    BY <1>4, <1>9, <2>1
<1>11. s = v
  BY <1>4, <1>9, <1>10, Alike
<1> QED
  BY <1>3, <1>8, <1>11

(* Inside a directive read as plain text.                                  *)
LEMMA Again ==
  ASSUME FormatOK, asked' = asked, fmt' = fmt, pc' = "scan", f' \in 2 .. ConvAt, out' = SubSeq(fmt, 1, f' - 1)
  PROVE  OutOK'
<1>1. ConvAt' = ConvAt
  BY ShownKept
<1>2. PICK c \in Nat : c = ConvAt
  BY FormatFits
<1>3. f' # 1 /\ f' # c + 1 /\ f' # c + 2 /\ f' # c + 4
  BY <1>2
<1>4. ~Behind(1)' /\ ~Behind(2)' /\ ~Behind(4)'
  BY <1>1, <1>2, <1>3 DEF Behind
<1> QED
  BY <1>3, <1>4 DEF OutOK

(* Where the scan meets a '%' or the end.                                  *)
LEMMA ScanAt ==
  ASSUME FormatOK, ParseOK, pc = "scan"
  PROVE  \/ f = 1 /\ fmt[f] = "%"
         \/ f \in 2 .. ConvAt - 1 /\ asked.d.conv \in {"q", "nul"} /\ fmt[f] \notin {"%", "nul"}
         \/ f = ConvAt /\ asked.d.conv \in {"q", "nul"} /\ fmt[f] = asked.d.conv
         \/ Behind(1) /\ fmt[f] = "a"
         \/ Behind(2) /\ fmt[f] = "%"
         \/ Behind(4) /\ fmt[f] = "nul"
<1>1. PICK c \in Nat : c = ConvAt
  BY FormatFits
<1>2. \/ f = 1
      \/ f \in 2 .. c /\ asked.d.conv \in {"q", "nul"}
      \/ Behind(1) \/ Behind(2) \/ Behind(4)
  BY <1>1 DEF ParseOK
<1>3. CASE f = 1
  BY <1>3 DEF FormatOK
<1>4. CASE f \in 2 .. c /\ asked.d.conv \in {"q", "nul"}
  <2>1. CASE f = c
    BY <1>1, <1>4, <2>1 DEF FormatOK
  <2>2. CASE f # c
    <3>1. f \in 2 .. ConvAt - 1
      BY <1>1, <1>4, <2>2
    <3>2. fmt[f] \in {"-", "0", "#", "4", "1", "*", ".", "l"}
      BY <3>1, PlainWithin
    <3> QED
      BY <1>4, <3>1, <3>2
  <2> QED
    BY <2>1, <2>2
<1>5. CASE Behind(1) \/ Behind(2) \/ Behind(4)
  BY <1>5, BehindIs
<1> QED
  BY <1>2, <1>3, <1>4, <1>5

(* Plain text is put as it is.                                             *)
LEMMA PlainOut ==
  ASSUME FormatOK, AskedOK, ParseOK, TextOK, OutOK, asked' = asked, fmt' = fmt, ScanPlain
  PROVE  OutOK' /\ TextOK'
<1>1. pc = "scan" /\ fmt[f] \notin {"%", "nul"} /\ Putch(fmt[f]) /\ f' = f + 1 /\ pc' = "scan" /\ p' = p
  BY DEF ScanPlain
<1>2. out' = out \o <<fmt[f]>> /\ IsText(out')
  BY <1>1, PutText
<1>3. TextOK'
  BY <1>1, <1>2 DEF TextOK, IsText
<1>4. PICK c, n \in Nat : c = ConvAt /\ c >= 2 /\ n = Len(fmt) /\ c <= n
  BY FormatFits
<1>5. CASE f \in 2 .. ConvAt /\ asked.d.conv \in {"q", "nul"}
  <2>1. out = SubSeq(fmt, 1, f - 1)
    BY <1>1, <1>5 DEF OutOK
  <2>2. f \in 1 .. Len(fmt)
    BY <1>4, <1>5
  <2>3. out' = SubSeq(fmt, 1, f)
    BY <1>2, <2>1, <2>2, OneMore
  <2>4. CASE f = ConvAt
    <3>1. asked.d.conv = "q"
      BY <1>1, <1>5, <2>4 DEF FormatOK
    <3>2. out' = First
      BY <2>3, <2>4, <3>1, ShownPlain DEF First, AskedOK
    <3> QED
      BY <1>1, <1>3, <2>4, <3>2, FirstDone
  <2>5. CASE f # ConvAt
    <3>1. f' \in 2 .. ConvAt /\ f' - 1 = f
      BY <1>1, <1>4, <1>5, <2>5
    <3>2. out' = SubSeq(fmt, 1, f' - 1)
      BY <2>3, <3>1
    <3> QED
      BY <1>1, <1>3, <3>1, <3>2, Again
  <2> QED
    BY <2>4, <2>5
<1>6. CASE Behind(1) /\ fmt[f] = "a"
  <2>1. out = First /\ IsText(First)
    BY <1>1, <1>6 DEF OutOK, TextOK
  <2>2. out' = First \o <<"a">>
    BY <1>2, <1>6, <2>1
  <2>3. f' = ConvAt + 2
    BY <1>1, <1>4, <1>6 DEF Behind
  <2>4. First' = First /\ ConvAt' = ConvAt
    BY ShownKept
  <2>5. f' # 1 /\ ~(f' \in 2 .. ConvAt') /\ ~Behind(1)' /\ ~Behind(4)'
    BY <2>3, <2>4, Elsewhere
  <2>6. IsText(First)'
    BY <2>1, <2>4 DEF IsText
  <2>7. OutOK'
    BY <1>1, <2>2, <2>4, <2>5, <2>6 DEF OutOK
  <2> QED
    BY <1>3, <2>7
<1>7. \/ f \in 2 .. ConvAt /\ asked.d.conv \in {"q", "nul"}
      \/ Behind(1) /\ fmt[f] = "a"
  <2>1. f \in 2 .. ConvAt - 1 \/ f = ConvAt => f \in 2 .. ConvAt
    BY <1>4
  <2> QED
    BY <1>1, <2>1, ScanAt
<1> QED
  BY <1>5, <1>6, <1>7

(* A '%' starts a directive with fresh locals.                             *)
LEMMA DirectiveOut ==
  ASSUME FormatOK, AskedOK, ParseOK, TextOK, OutOK, asked' = asked, fmt' = fmt, ScanDirective
  PROVE  OutOK' /\ TextOK'
<1>1. /\ pc = "scan" /\ fmt[f] = "%" /\ pc' = "switch" /\ f' = f + 1 /\ dir' = Fresh
      /\ out' = out /\ p' = p
  BY DEF ScanDirective, Silent
<1>2. TextOK'
  BY <1>1 DEF TextOK, IsText
<1>3. f = 1 \/ Behind(2)
  BY <1>1, ScanAt
<1>4. CASE f = 1
  <2>1. out' = <<>>
    BY <1>1, <1>4 DEF OutOK
  <2>2. f' = 2 /\ f' \in Int /\ f' <= ConvAt /\ f' <= AfterFlags + 1
    <3>1. PICK c, af \in Nat : c = ConvAt /\ c >= 2 /\ af = AfterFlags /\ af >= 1
      BY FormatFits, Along
    <3> QED
      BY <1>1, <1>4, <3>1
  <2>3. Seen' = {}
    BY <2>2, SeenIs
  <2>4. PadOf({}) = " "
    BY Zenon DEF PadOf
  <2>5. dir'.padc = PadOf(Seen')
    <3>1. dir'.padc = " "
      BY <1>1, Zenon DEF Fresh
    <3> QED
      BY <2>3, <2>4, <3>1, Zenon
  <2>6. dir'.altflag = ("#" \in Seen')
    <3>1. dir'.altflag = FALSE
      BY <1>1 DEF Fresh
    <3>2. ("#" \in Seen') = FALSE
      BY <2>3
    <3> QED
      BY <3>1, <3>2
  <2>7. WidthAt(f') = -1 /\ PrecisionAt(f') = -1
    BY <2>2, Along
  <2>8. dir'.width = WidthAt(f') /\ dir'.precision = PrecisionAt(f')
    BY <1>1, <2>7 DEF Fresh
  <2>9. OutOK'
    BY <1>1, <2>1, <2>2, <2>5, <2>6, <2>8, StaysInFirst
  <2> QED
    BY <1>2, <2>9
<1>5. CASE Behind(2)
  <2>1. out' = First \o <<"a">> /\ IsText(First)
    BY <1>1, <1>5 DEF OutOK
  <2>2. First' = First /\ ConvAt' = ConvAt
    BY ShownKept
  <2>3. ~(f' \in 2 .. ConvAt')
    <3>1. PICK c \in Nat : c = ConvAt
      BY FormatFits
    <3> QED
      BY <1>1, <1>5, <2>2, <3>1 DEF Behind
  <2>4. IsText(First)' /\ Fresh' = Fresh
    BY <2>1, <2>2 DEF IsText, Fresh
  <2>5. OutOK'
    BY <1>1, <2>1, <2>2, <2>3, <2>4 DEF OutOK
  <2> QED
    BY <1>2, <2>5
<1> QED
  BY <1>3, <1>4, <1>5

(* The end: everything has been printed.                                   *)
LEMMA TerminateOut ==
  ASSUME FormatOK, AskedOK, ParseOK, TextOK, OutOK, asked' = asked, fmt' = fmt, Terminate
  PROVE  OutOK' /\ TextOK'
<1>1. pc = "scan" /\ fmt[f] = "nul" /\ pc' = "done" /\ out' = out /\ p' = p
  BY DEF Terminate
<1>2. TextOK'
  BY <1>1 DEF TextOK, IsText
<1>3. (f = ConvAt /\ asked.d.conv = "nul") \/ Behind(4)
  BY <1>1, ScanAt
<1>4. First' = First /\ Second' = Second
  BY ShownKept
<1>5. CASE f = ConvAt /\ asked.d.conv = "nul"
  <2>1. PICK c, n \in Nat : c = ConvAt /\ c >= 2 /\ n = Len(fmt) /\ c <= n
    BY FormatFits
  <2>2. out = SubSeq(fmt, 1, c - 1)
    BY <1>1, <1>5, <2>1 DEF OutOK
  <2>3. PICK s : s = SubSeq(fmt, 1, c)
    OBVIOUS
  <2>4. fmt \in Seq(Signs)
    BY DEF FormatOK
  <2>5. s \in Seq(Signs) /\ Len(s) = c /\ \A k \in 1 .. c : s[k] = fmt[k]
    BY <2>1, <2>3, <2>4
  <2>6. First = SubSeq(s, 1, c - 1)
    <3>1. Render(asked.d) = s
      BY <2>1, <2>3 DEF AskedOK
    <3>2. First = Front(s)
      BY <1>5, <3>1, ShownPlain DEF First
    <3> QED
      BY <2>5, <3>2 DEF Front
  <2>7. PICK t, u : t = SubSeq(s, 1, c - 1) /\ u = SubSeq(fmt, 1, c - 1)
    OBVIOUS
  <2>8. t \in Seq(Signs) /\ Len(t) = c - 1 /\ \A k \in 1 .. c - 1 : t[k] = fmt[k]
    BY <2>1, <2>5, <2>7
  <2>9. u \in Seq(Signs) /\ Len(u) = c - 1 /\ \A k \in 1 .. c - 1 : u[k] = fmt[k]
    BY <2>1, <2>4, <2>7
  <2>10. t = u
    BY <2>8, <2>9, Alike
  <2>11. out' = First
    BY <1>1, <2>2, <2>6, <2>7, <2>10
  <2> QED
    BY <1>1, <1>2, <1>4, <1>5, <2>11 DEF OutOK
<1>6. CASE Behind(4)
  <2>1. asked.d.conv # "nul" /\ out = First \o Second
    BY <1>1, <1>6 DEF OutOK, Behind
  <2> QED
    BY <1>1, <1>2, <1>4, <2>1 DEF OutOK
<1> QED
  BY <1>3, <1>5, <1>6

(* vsnprintf starts the scan, or refuses.                                  *)
LEMMA VsnprintfOut ==
  ASSUME FormatOK, ParseOK, TextOK, OutOK, asked' = asked, fmt' = fmt, Vsnprintf
  PROVE  OutOK' /\ TextOK'
<1>1. /\ pc = "vsnprintf" /\ ((pc' = "done" /\ ret' = INVAL) \/ pc' = "scan")
      /\ f' = f /\ out' = out /\ p' = p
  BY DEF Vsnprintf, Silent
<1>2. TextOK'
  BY <1>1 DEF TextOK, IsText
<1>3. f' = 1 /\ out' = <<>>
  BY <1>1 DEF ParseOK, OutOK
<1>4. CASE pc' = "scan"
  <2>1. PICK c \in Nat : c = ConvAt /\ c >= 2 /\ ConvAt' = c
    BY FormatFits, ShownKept
  <2>2. ~(f' \in 2 .. ConvAt') /\ ~Behind(1)' /\ ~Behind(2)' /\ ~Behind(4)'
    <3>1. ~(1 \in 2 .. c) /\ 1 # c + 1 /\ 1 # c + 2 /\ 1 # c + 4
      BY <2>1
    <3> QED
      BY <1>3, <2>1, <3>1 DEF Behind
  <2> QED
    BY <1>2, <1>3, <1>4, <2>2 DEF OutOK
<1>5. CASE pc' = "done" /\ ret' = INVAL
  BY <1>2, <1>5 DEF OutOK, INVAL
<1> QED
  BY <1>1, <1>4, <1>5

(* Emit prints p, character by character.                                  *)
LEMMA EmitOut ==
  ASSUME FormatOK, ParseOK, TextOK, OutOK, asked' = asked, fmt' = fmt, Emit
  PROVE  OutOK' /\ TextOK'
<1>1. /\ pc = "emit" /\ f' = f
      /\ \/ p = <<>> /\ pc' = "scan" /\ out' = out /\ p' = p
         \/ p # <<>> /\ pc' = "emit" /\ Putch(Head(p)) /\ p' = Tail(p)
  BY DEF Emit, Silent
<1>2. Behind(1) \/ Behind(4)
  BY <1>1 DEF ParseOK
<1>3. \/ f = ConvAt + 1 /\ out \o p = First
      \/ f = ConvAt + 4 /\ asked.d.conv # "nul" /\ out \o p = First \o Second
  BY <1>1, <1>2 DEF OutOK, Behind
<1>4. PICK o, q : o = out /\ q = p /\ IsText(o) /\ IsText(q)
  BY DEF TextOK
<1>5. CASE p = <<>> /\ pc' = "scan" /\ out' = out /\ p' = p
  <2>1. o \o <<>> = o
    BY <1>4, Texts
  <2>2. out' = out \o p
    BY <1>4, <1>5, <2>1
  <2>3. TextOK'
    BY <1>5 DEF TextOK, IsText
  <2>4. OutOK'
    BY <1>1, <1>3, <1>5, <2>2, FirstDone, SecondDone
  <2> QED
    BY <2>3, <2>4
<1>6. CASE p # <<>> /\ pc' = "emit" /\ Putch(Head(p)) /\ p' = Tail(p)
  <2>1. q # <<>>
    BY <1>4, <1>6
  <2>2. IsText(Tail(q)) /\ q = <<Head(q)>> \o Tail(q)
    BY <1>4, <2>1, FirstAndRest
  <2>3. out' \o Tail(q) = out \o (<<Head(p)>> \o Tail(q)) /\ IsText(out')
    BY <1>6, <2>2, PutText
  <2>4. out' \o p' = out \o p
    BY <1>4, <1>6, <2>2, <2>3
  <2>5. TextOK'
    BY <1>4, <1>6, <2>2, <2>3 DEF TextOK, IsText
  <2>6. OutOK'
    BY <1>1, <1>3, <1>6, <2>4, FirstDone, SecondDone
  <2> QED
    BY <2>5, <2>6
<1> QED
  BY <1>1, <1>5, <1>6

(* The padding on the left, before the text.                               *)
LEMMA PadLeftOut ==
  ASSUME FormatOK, ParseOK, DirectiveOK, TextOK, OutOK, asked' = asked, fmt' = fmt, PadLeft
  PROVE  OutOK' /\ TextOK'
<1>1. /\ pc = "pad" /\ f' = f /\ p' = p
      /\ IF dir.width > 0
         THEN Putch(dir.padc) /\ dir' = [dir EXCEPT !.width = @ - 1] /\ pc' = "pad"
         ELSE pc' = "string" /\ out' = out /\ dir' = dir
  BY DEF PadLeft, Silent
<1>2. f = ConvAt + 1
  BY <1>1 DEF ParseOK, Behind
<1>3. PICK width \in Int, precision \in Int : width = dir.width /\ precision = dir.precision
  BY DEF DirectiveOK
<1>0. PICK padc, alt : padc = dir.padc /\ alt = dir.altflag
  OBVIOUS
<1>4. PICK o, q, clean : o = out /\ q = p /\ clean = Clean(q, precision, alt) /\ IsText(o) /\ IsText(q)
  BY DEF TextOK
<1>5. IsText(clean) /\ Len(clean) \in Nat
  BY <1>4, CleanIs
<1>6. o \o (Fill(width, padc) \o clean) = First
  BY <1>1, <1>0, <1>3, <1>4 DEF OutOK
<1>7. CASE width > 0
  <2>1. Putch(padc) /\ pc' = "pad" /\ dir' = [dir EXCEPT !.width = width - 1]
    BY <1>1, <1>0, <1>3, <1>7
  <2>2. dir'.width = width - 1 /\ dir'.padc = padc /\ dir'.precision = precision /\ dir'.altflag = alt
    BY <1>0, <1>3, <2>1 DEF DirectiveOK
  <2>3. PICK t, u : t = Fill(width - 1, padc) /\ u = <<padc>>
    OBVIOUS
  <2>4. Fill(width, padc) = u \o t
    BY <1>7, <2>3, FillIs
  <2>5. IsText(t)
    BY <2>3, SomeTexts
  <2>6. IsText(u)
    BY <2>3, SomeTexts
  <2>7. (u \o t) \o clean = u \o (t \o clean)
    BY <1>5, <2>5, <2>6, Texts
  <2>8. IsText(t \o clean)
    BY <1>5, <2>5, Texts
  <2>9. out' \o (t \o clean) = out \o (<<padc>> \o (t \o clean)) /\ IsText(out')
    BY <2>1, <2>8, PutText
  <2>10. out' \o (t \o clean) = First
    BY <1>4, <1>6, <2>3, <2>4, <2>7, <2>9
  <2>11. out' \o (Fill(dir'.width, dir'.padc) \o Clean(p', dir'.precision, dir'.altflag)) = First
    BY <1>1, <1>4, <2>2, <2>3, <2>10
  <2>12. OutOK'
    BY <1>1, <1>2, <2>1, <2>11, FirstDone
  <2> QED
    BY <1>1, <2>9, <2>12 DEF TextOK, IsText
<1>8. CASE ~(width > 0)
  <2>1. pc' = "string" /\ out' = out /\ dir' = dir
    BY <1>1, <1>0, <1>3, <1>8
  <2>2. Fill(width, padc) = <<>>
    <3>1. width <= 0
      BY <1>8
    <3> QED
      BY <3>1, FillIs
  <2>3. PICK n \in Nat : n = Len(clean)
    BY <1>5
  <2>4. Fill(width - n, " ") = <<>>
    <3>1. width - n \in Int /\ width - n <= 0
      BY <1>8, <2>3
    <3>2. \A c : Fill(width - n, c) = <<>>
      BY <3>1, FillIs
    <3> QED
      BY <3>2
  <2>5. <<>> \o clean = clean /\ clean \o <<>> = clean
    BY <1>5, Texts
  <2>6. out' \o (clean \o Fill(width - n, " ")) = First
    BY <1>4, <1>6, <2>1, <2>2, <2>4, <2>5
  <2>7. out' \o (Clean(p', dir'.precision, dir'.altflag)
                   \o Fill(dir'.width - Len(Clean(p', dir'.precision, dir'.altflag)), " ")) = First
    BY <1>1, <1>0, <1>3, <1>4, <2>1, <2>3, <2>6
  <2>8. OutOK'
    BY <1>1, <1>2, <2>1, <2>7, FirstDone
  <2> QED
    BY <1>1, <2>1, <2>8 DEF TextOK, IsText
<1> QED
  BY <1>7, <1>8

(* The text, cut and clean.                                                *)
LEMMA CharactersOut ==
  ASSUME FormatOK, ParseOK, DirectiveOK, TextOK, OutOK, asked' = asked, fmt' = fmt, Characters
  PROVE  OutOK' /\ TextOK'
<1>1. /\ pc = "string" /\ f' = f
      /\ IF p # <<>> /\ dir.precision # 0
         THEN /\ Putch(IF dir.altflag /\ Head(p) = "ctl" THEN "?" ELSE Head(p))
              /\ p' = Tail(p) /\ pc' = "string"
              /\ dir' = [dir EXCEPT !.width = @ - 1, !.precision = IF @ < 0 THEN @ ELSE @ - 1]
         ELSE pc' = "tail" /\ out' = out /\ p' = p /\ dir' = dir
  BY DEF Characters, Silent
<1>2. f = ConvAt + 1
  BY <1>1 DEF ParseOK, Behind
<1>3. PICK width \in Int, precision \in Int : width = dir.width /\ precision = dir.precision
  BY DEF DirectiveOK
<1>0. PICK alt : alt = dir.altflag
  OBVIOUS
<1>4. PICK o, q, clean : o = out /\ q = p /\ clean = Clean(q, precision, alt) /\ IsText(o) /\ IsText(q)
  BY DEF TextOK
<1>5. IsText(clean)
  BY <1>4, CleanIs
<1>6. PICK n \in Nat : n = Len(clean)
  BY <1>4, CleanIs
<1>7. o \o (clean \o Fill(width - n, " ")) = First
  BY <1>1, <1>0, <1>3, <1>4, <1>6 DEF OutOK
<1>8. PICK blank : blank = " "
  OBVIOUS
<1>9. CASE q # <<>> /\ precision # 0
  <2>1. PICK c : c = IF alt /\ Head(q) = "ctl" THEN "?" ELSE Head(q)
    OBVIOUS
  <2>2. PICK less : less = IF precision < 0 THEN precision ELSE precision - 1
    OBVIOUS
  <2>3. PICK rest : rest = Clean(Tail(q), less, alt)
    OBVIOUS
  <2>4. clean = <<c>> \o rest /\ Len(clean) = 1 + Len(rest)
    BY <1>4, <1>9, <2>1, <2>2, <2>3, CleanIs
  <2>5. /\ Putch(c) /\ p' = Tail(q) /\ pc' = "string"
        /\ dir' = [dir EXCEPT !.width = width - 1, !.precision = less]
    BY <1>1, <1>0, <1>3, <1>4, <1>9, <2>1, <2>2
  <2>6. dir'.width = width - 1 /\ dir'.precision = less /\ dir'.altflag = alt
    BY <1>0, <1>3, <2>5 DEF DirectiveOK
  <2>7. IsText(Tail(q))
    BY <1>4, <1>9, FirstAndRest
  <2>8. less \in Int
    BY <2>2
  <2>9. IsText(rest) /\ Len(rest) \in Nat
    BY <2>3, <2>7, <2>8, CleanIs
  <2>10. width - n = (width - 1) - Len(rest) /\ width - n \in Int
    BY <1>6, <2>4, <2>9
  <2>11. PICK t, u : t = Fill(width - n, blank) /\ u = <<c>>
    OBVIOUS
  <2>12. IsText(t)
    BY <2>10, <2>11, SomeTexts
  <2>13. IsText(u)
    BY <2>11, SomeTexts
  <2>14. (u \o rest) \o t = u \o (rest \o t)
    BY <2>9, <2>12, <2>13, Texts
  <2>15. IsText(rest \o t)
    BY <2>9, <2>12, Texts
  <2>16. out' \o (rest \o t) = out \o (<<c>> \o (rest \o t)) /\ IsText(out')
    BY <2>5, <2>15, PutText
  <2>17. out' \o (rest \o t) = First
    BY <1>4, <1>7, <1>8, <2>4, <2>11, <2>14, <2>16
  <2>18. Clean(p', dir'.precision, dir'.altflag) = rest
    BY <2>3, <2>5, <2>6
  <2>19. Fill(dir'.width - Len(rest), " ") = t
    BY <1>8, <2>6, <2>10, <2>11
  <2>20. out' \o (Clean(p', dir'.precision, dir'.altflag)
                   \o Fill(dir'.width - Len(Clean(p', dir'.precision, dir'.altflag)), " ")) = First
    BY <2>17, <2>18, <2>19
  <2>21. OutOK'
    BY <1>1, <1>2, <2>5, <2>20, FirstDone
  <2> QED
    BY <2>5, <2>7, <2>16, <2>21 DEF TextOK, IsText
<1>10. CASE ~(q # <<>> /\ precision # 0)
  <2>1. pc' = "tail" /\ out' = out /\ p' = p /\ dir' = dir
    BY <1>1, <1>0, <1>3, <1>4, <1>10
  <2>2. clean = <<>>
    BY <1>4, <1>10, CleanIs
  <2>3. width - n = width
    BY <1>6, <2>2
  <2>4. PICK t : t = Fill(width, blank)
    OBVIOUS
  <2>5. <<>> \o t = t
    <3>1. IsText(t)
      BY <2>4, SomeTexts
    <3> QED
      BY <3>1, Texts
  <2>6. out' \o Fill(dir'.width, " ") = First
    BY <1>0, <1>3, <1>4, <1>7, <1>8, <2>1, <2>2, <2>3, <2>4, <2>5
  <2>7. OutOK'
    BY <1>1, <1>2, <2>1, <2>6, FirstDone
  <2> QED
    BY <2>1, <2>7 DEF TextOK, IsText
<1> QED
  BY <1>9, <1>10

(* The padding on the right, behind the text.                              *)
LEMMA PadRightOut ==
  ASSUME FormatOK, ParseOK, DirectiveOK, TextOK, OutOK, asked' = asked, fmt' = fmt, PadRight
  PROVE  OutOK' /\ TextOK'
<1>0. PICK blank : blank = " "
  OBVIOUS
<1>1. /\ pc = "tail" /\ f' = f /\ p' = p
      /\ IF dir.width > 0
         THEN Putch(blank) /\ dir' = [dir EXCEPT !.width = @ - 1] /\ pc' = "tail"
         ELSE pc' = "scan" /\ out' = out
  BY <1>0 DEF PadRight, Silent
<1>2. f = ConvAt + 1
  BY <1>1 DEF ParseOK, Behind
<1>3. PICK width \in Int : width = dir.width
  BY DEF DirectiveOK
<1>4. PICK o : o = out /\ IsText(o)
  BY DEF TextOK
<1>5. o \o Fill(width, blank) = First
  BY <1>0, <1>1, <1>3, <1>4 DEF OutOK
<1>6. CASE width > 0
  <2>1. Putch(blank) /\ pc' = "tail" /\ dir' = [dir EXCEPT !.width = width - 1]
    BY <1>1, <1>3, <1>6
  <2>2. dir'.width = width - 1
    BY <1>3, <2>1 DEF DirectiveOK
  <2>3. PICK t : t = Fill(width - 1, blank)
    OBVIOUS
  <2>4. Fill(width, blank) = <<blank>> \o t
    BY <1>6, <2>3, FillIs
  <2>5. IsText(t)
    BY <2>3, SomeTexts
  <2>6. out' \o t = out \o (<<blank>> \o t) /\ IsText(out')
    BY <2>1, <2>5, PutText
  <2>7. out' \o Fill(dir'.width, " ") = First
    BY <1>0, <1>4, <1>5, <2>2, <2>3, <2>4, <2>6
  <2>8. OutOK'
    BY <1>1, <1>2, <2>1, <2>7, FirstDone
  <2> QED
    BY <1>1, <2>6, <2>8 DEF TextOK, IsText
<1>7. CASE ~(width > 0)
  <2>1. pc' = "scan" /\ out' = out
    BY <1>1, <1>3, <1>7
  <2>2. Fill(width, blank) = <<>>
    <3>1. width <= 0
      BY <1>7
    <3> QED
      BY <3>1, FillIs
  <2>3. o \o <<>> = o
    BY <1>4, Texts
  <2>4. out' = First
    BY <1>4, <1>5, <2>1, <2>2, <2>3
  <2>5. OutOK'
    BY <1>1, <1>2, <2>1, <2>4, FirstDone
  <2> QED
    BY <1>1, <2>1, <2>5 DEF TextOK, IsText
<1> QED
  BY <1>6, <1>7

(* What is known of the format does not change.                            *)
LEMMA AskedStep ==
  ASSUME AskedOK, asked' = asked, fmt' = fmt
  PROVE  AskedOK'
<1>1. ConvAt' = ConvAt
  BY ShownKept
<1> QED
  BY <1>1 DEF AskedOK, Render

(* A step that puts nothing and leaves p alone keeps the texts.            *)
LEMMA TextKept ==
  ASSUME TextOK, out' = out, p' = p
  PROVE  TextOK'
BY DEF TextOK, IsText

(* Before the first step.                                                  *)
LEMMA OutInit == Init => OutInv
<1> SUFFICES ASSUME Init PROVE OutInv
  OBVIOUS
<1>1. AskedOK
  BY FormatInit
<1>2. out = <<>> /\ p = <<>> /\ pc = "vsnprintf"
  BY DEF Init
<1>3. TextOK
  BY <1>2, SomeTexts DEF TextOK
<1>4. OutOK
  BY <1>2 DEF OutOK
<1> QED
  BY <1>1, <1>3, <1>4 DEF OutInv

(* Every step prints its part of what the directives ask for.              *)
LEMMA OutStep ==
  ASSUME FormatOK, ParseOK, DirectiveOK, AskedOK, TextOK, OutOK, ~Dashed, Next
  PROVE  TextOK' /\ OutOK'
<1>1. asked' = asked /\ fmt' = fmt
  BY FormatKept
<1>2. CASE Vsnprintf
  BY <1>1, <1>2, VsnprintfOut
<1>3. CASE ScanPlain
  BY <1>1, <1>3, PlainOut
<1>4. CASE ScanDirective
  BY <1>1, <1>4, DirectiveOut
<1>5. CASE Terminate
  BY <1>1, <1>5, TerminateOut
<1>6. CASE PadFlag \/ Alternate
  <2>1. out' = out /\ p' = p
    BY <1>6 DEF PadFlag, Alternate, Reswitch, Silent
  <2> QED
    BY <1>1, <1>6, <2>1, FlagOut, TextKept
<1>7. CASE Width
  <2>1. out' = out /\ p' = p
    BY <1>7 DEF Width, ProcessPrecision, Reswitch, Silent
  <2> QED
    BY <1>1, <1>7, <2>1, WidthOut, TextKept
<1>8. CASE Star
  <2>1. out' = out /\ p' = p
    BY <1>8 DEF Star, ProcessPrecision, Reswitch, Silent
  <2> QED
    BY <1>1, <1>8, <2>1, StarOut, TextKept
<1>9. CASE Point
  <2>1. out' = out /\ p' = p
    BY <1>9 DEF Point, Reswitch, Silent
  <2> QED
    BY <1>1, <1>9, <2>1, PointOut, TextKept
<1>10. CASE Long
  <2>1. out' = out /\ p' = p
    BY <1>10 DEF Long, Reswitch, Silent
  <2> QED
    BY <1>1, <1>10, <2>1, LongOut, TextKept
<1>11. CASE Character \/ Percent
  BY <1>1, <1>11, CharacterOut
<1>12. CASE Literal
  BY <1>1, <1>12, LiteralOut
<1>13. CASE Number
  BY <1>1, <1>13, NumberOut
<1>14. CASE ErrorCode
  BY <1>1, <1>14, ErrorOut
<1>15. CASE Emit
  BY <1>1, <1>15, EmitOut
<1>16. CASE String
  BY <1>1, <1>16, StringOut
<1>17. CASE PadLeft
  BY <1>1, <1>17, PadLeftOut
<1>18. CASE Characters
  BY <1>1, <1>18, CharactersOut
<1>19. CASE PadRight
  BY <1>1, <1>19, PadRightOut
<1> QED
  BY <1>2, <1>3, <1>4, <1>5, <1>6, <1>7, <1>8, <1>9, <1>10, <1>11, <1>12, <1>13, <1>14, <1>15, <1>16, <1>17,
     <1>18, <1>19 DEF Next

(* A step in which nothing moves.                                          *)
LEMMA OutStutter ==
  ASSUME OutOK, UNCHANGED vars
  PROVE  OutOK'
<1>1. /\ fmt' = fmt /\ f' = f /\ pc' = pc /\ dir' = dir /\ p' = p /\ ret' = ret /\ asked' = asked /\ out' = out
  BY DEF vars
<1>2. /\ First' = First /\ Second' = Second /\ ConvAt' = ConvAt /\ WidthField' = WidthField
      /\ PrecisionField' = PrecisionField /\ AfterWidth' = AfterWidth /\ AfterPrecision' = AfterPrecision
  BY <1>1, ShownKept
<1>3. LocalsOK' <=> LocalsOK
  <2>1. Seen' = Seen
    BY <1>1 DEF Seen
  <2>2. WidthAt(f)' = WidthAt(f) /\ PrecisionAt(f)' = PrecisionAt(f)
    BY <1>1, <1>2 DEF WidthAt, PrecisionAt
  <2>3. PadOf(Seen)' = PadOf(Seen)
    BY <2>1 DEF PadOf
  <2> QED
    BY <1>1, <2>1, <2>2, <2>3 DEF LocalsOK
<1>4. /\ Behind(1)' <=> Behind(1)
      /\ Behind(2)' <=> Behind(2)
      /\ Behind(3)' <=> Behind(3)
      /\ Behind(4)' <=> Behind(4)
  BY <1>1, <1>2 DEF Behind
<1>5. Clean(p, dir.precision, dir.altflag)' = Clean(p, dir.precision, dir.altflag)
  BY <1>1 DEF Clean, Strnlen
<1>6. /\ Fill(dir.width, dir.padc)' = Fill(dir.width, dir.padc)
      /\ Fill(dir.width, " ")' = Fill(dir.width, " ")
      /\ Fill(dir.width - Len(Clean(p, dir.precision, dir.altflag)), " ")'
           = Fill(dir.width - Len(Clean(p, dir.precision, dir.altflag)), " ")
  BY <1>1, <1>5 DEF Fill
<1>7. IsText(First)' <=> IsText(First)
  BY <1>2 DEF IsText
<1>8. Fresh' = Fresh /\ INVAL' = INVAL
  BY DEF Fresh, INVAL
<1> QED
  BY <1>1, <1>2, <1>3, <1>4, <1>5, <1>6, <1>7, <1>8 DEF OutOK
-----------------------------------------------------------------------------
(* Every directive prints what its parts say, whatever argument it is      *)
(* given, except numbers with the flag '-', which PrintFmt shows printnum  *)
(* to pad with dashes on the left (printfmt.c:11-14, 27-35, 139-269).      *)
THEOREM PrintCorrect == Spec => [](~Dashed => PrintsEveryDirective)
<1>1. ParseInv /\ BufferInv /\ BufferInv' /\ [Next]_vars => ParseInv'
  BY ParseInvStep
<1>2. ParseInv /\ OutInv /\ [Next]_vars => OutInv'
  <2> SUFFICES ASSUME ParseInv, OutInv, [Next]_vars PROVE OutInv'
    OBVIOUS
  <2>1. FormatOK /\ ParseOK /\ DirectiveOK /\ AskedOK
    BY DEF ParseInv, OutInv
  <2>2. asked' = asked /\ fmt' = fmt
    BY FormatKept DEF vars
  <2>3. AskedOK' /\ (Dashed' <=> Dashed)
    BY <2>1, <2>2, AskedStep, ShownKept
  <2>4. CASE Dashed
    BY <2>3, <2>4 DEF OutInv
  <2>5. CASE ~Dashed
    <3>1. TextOK /\ OutOK
      BY <2>5 DEF OutInv
    <3>2. CASE Next
      BY <2>1, <2>3, <2>5, <3>1, <3>2, OutStep DEF OutInv
    <3>3. CASE UNCHANGED vars
      <4>1. out' = out /\ p' = p
        BY <3>3 DEF vars
      <4> QED
        BY <2>3, <3>1, <3>3, <4>1, OutStutter, TextKept DEF OutInv
    <3> QED
      BY <3>2, <3>3
  <2> QED
    BY <2>4, <2>5
<1>3. OutInv => (~Dashed => PrintsEveryDirective)
  <2> SUFFICES ASSUME OutInv, ~Dashed, pc = "done", ret # INVAL
               PROVE  out = Shown(asked.d, asked.arg) \o
                            (IF asked.d.conv = "nul" THEN <<>> ELSE <<"a">> \o Shown(Plain, NextWord))
    BY DEF PrintsEveryDirective
  <2>1. IsText(out) /\ out = IF asked.d.conv = "nul" THEN First ELSE First \o Second
    BY DEF OutInv, OutOK, TextOK
  <2>2. CASE asked.d.conv = "nul"
    <3>1. PICK s : s = First
      OBVIOUS
    <3>2. IsText(s) /\ out = s
      BY <2>1, <2>2, <3>1
    <3>3. s \o <<>> = s
      BY <3>2, Texts
    <3> QED
      BY <2>2, <3>1, <3>2, <3>3 DEF First
  <2>3. CASE asked.d.conv # "nul"
    BY <2>1, <2>3 DEF First, Second
  <2> QED
    BY <2>2, <2>3
<1> QED
  BY BufferInit, BufferStep, ParseInit, OutInit, <1>1, <1>2, <1>3, PTL DEF Spec

(* Where no number has the flag '-', every directive prints what its parts *)
(* say.                                                                    *)
COROLLARY PrintsAsAsked ==
  ASSUME ~DashNumbers
  PROVE  Spec => []PrintsEveryDirective
<1>1. ParseInv => ~Dashed
  BY DEF ParseInv, FormatOK, Directives, Dashed
<1>2. ParseInv /\ BufferInv /\ BufferInv' /\ [Next]_vars => ParseInv'
  BY ParseInvStep
<1> QED
  BY BufferInit, BufferStep, ParseInit, PrintCorrect, <1>1, <1>2, PTL DEF Spec
=============================================================================
