------------------------------- MODULE PrintFmt -------------------------------
(***************************************************************************)
(* libs/printfmt.c: vsnprintf, and under it vprintfmt with printnum and    *)
(* sprintputch.  Init picks a format of one directive of any shape and     *)
(* plain %d behind it, the arguments they take, and a buffer; then         *)
(* vprintfmt runs, one action per case of its switch and per turn of its   *)
(* loops.  A character is a one-character string, "nul" the NUL; an error  *)
(* message is one such character.  An argument is a word as wide as a long *)
(* long, or the text a pointer points to.                                  *)
(*                                                                         *)
(* LiteralKeepsGoing, WidthOneDigit and SprintputchPastEnd are wrong on    *)
(* purpose: put in the place of the definition that follows each, a        *)
(* property of this module fails.                                          *)
(***************************************************************************)
EXTENDS Integers, Sequences, SequencesExt, FiniteSetsExt

CONSTANTS
    IntMax, LongMax,    \* the greatest int; the greatest long and long long
    Words,              \* arguments of the numeric conversions
    NextWord,           \* argument of the %d behind the directive
    Stars,              \* arguments of a '*'
    MaxText,            \* bound: characters in an argument of %s
    Sizes,              \* sizes vsnprintf is called with
    DashNumbers         \* whether numbers are formatted with the flag '-'

ASSUME PrintAssumption ==
    /\ IntMax \in Nat \ {0} /\ LongMax \in Nat \ {0}
    /\ Words \cup {NextWord} \cup Stars \subseteq 0 .. 2 * LongMax + 1
    /\ Sizes \subseteq Nat /\ MaxText \in Nat /\ DashNumbers \in BOOLEAN

VARIABLES
    fmt, f,     \* the format and the pointer into it
    ap,         \* the arguments not taken yet
    pc,         \* see Places
    dir,        \* padc, width, precision, lflag, altflag
    p,          \* what is left to print of a string or a number
    str,        \* memory from the buffer's first byte on
    b,          \* vsnprintf's sprintbuf; buf and ebuf are positions in str
    ret,        \* what vsnprintf returned
    asked,      \* history: the directive in fmt and the arguments given
    out         \* history: the characters given to putch

vars == <<fmt, f, ap, pc, dir, p, str, b, ret, asked, out>>

NULL == <<"NULL">>
INVAL == -3             \* error.h:7
MAXERROR == 6           \* error.h:13
Places == {"vsnprintf", "scan", "switch", "emit", "pad", "string", "tail", "done", "undefined"}

Fresh == [padc |-> " ", width |-> -1, precision |-> -1, lflag |-> 0, altflag |-> FALSE]

(* A word of the type whose greatest value is max, without and with sign.  *)
Unsigned(w, max) == w % (2 * (max + 1))
Signed(w, max) == IF w > max THEN w - 2 * (max + 1) ELSE w
VaInt(w) == Signed(Unsigned(w, IntMax), IntMax)
-----------------------------------------------------------------------------
(* A directive: its flags, field width, precision (<<>> for none), the     *)
(* number of l and the conversion; "q" is none, "nul" ends the format.     *)
Numeric == {"d", "u", "o", "x", "p"}
FieldWidths == {<<>>, <<"4">>, <<"1", "0">>, <<"*">>}

Directives ==
    {d \in [flags : {<<>>, <<"-">>, <<"0">>, <<"#">>, <<"#", "-">>, <<"#", "0">>},
            width : FieldWidths, precision : {<<>>, <<"1">>, <<"*">>}, l : 0 .. 2,
            conv : Numeric \cup {"s", "c", "e", "%", "q", "nul"}] :
        /\ d.conv \in Numeric \/ d.l = 0
        /\ d.conv \in {"s", "d", "q"} \/ d.precision = <<>>
        /\ d.conv \in Numeric /\ "-" \in ToSet(d.flags) => DashNumbers}

Render(d) ==
    <<"%">> \o d.flags \o d.width \o (IF d.precision = <<>> THEN <<>> ELSE <<".">> \o d.precision)
        \o [k \in 1 .. d.l |-> "l"] \o <<d.conv>>

Argument(conv) ==
    CASE conv = "s" -> BoundedSeq({"a", "ctl"}, MaxText) \cup {NULL}
      [] conv = "c" -> {"a", "nul"}
      [] OTHER -> Words

StarArgument(digits) == IF digits = <<"*">> THEN Stars ELSE {0}

(* The arguments a directive takes, of those chosen for it.                *)
Takes(d, width, precision, arg) ==
    (IF d.width = <<"*">> THEN <<width>> ELSE <<>>)
        \o (IF d.precision = <<"*">> THEN <<precision>> ELSE <<>>)
        \o (IF d.conv \in Numeric \cup {"s", "c", "e"} THEN <<arg>> ELSE <<>>)

(* The bytes of the buffer are unknown; one byte behind it is watched.     *)
Init ==
    /\ \E d \in Directives, size \in Sizes, null \in BOOLEAN :
        /\ null => d.conv = "%" /\ size > 0
        /\ \E width \in StarArgument(d.width), precision \in StarArgument(d.precision), arg \in Argument(d.conv) :
            /\ asked = [d |-> d, width |-> width, precision |-> precision, arg |-> arg,
                        size |-> size, null |-> null]
            /\ ap = Takes(d, width, precision, arg) \o <<NextWord>>
    /\ fmt = IF asked.d.conv = "nul" THEN Render(asked.d)
             ELSE Render(asked.d) \o <<"a", "%", "d", "nul">>
    /\ f = 1 /\ pc = "vsnprintf" /\ p = <<>> /\ out = <<>> /\ ret = 0
    /\ dir = Fresh
    /\ str = [a \in 0 .. asked.size |-> "junk"]
    /\ b = [buf |-> 0, ebuf |-> asked.size - 1, cnt |-> 0]

TypeOK ==
    /\ pc \in Places /\ f \in 1 .. Len(fmt)
    /\ dir.padc \in {" ", "-", "0"} /\ dir.lflag \in 0 .. 2 /\ dir.altflag \in BOOLEAN
    /\ dir.width \in Int /\ dir.precision \in Int
    /\ DOMAIN str = 0 .. asked.size
    /\ b.buf \in 0 .. asked.size /\ b.cnt = Len(out)
-----------------------------------------------------------------------------
(* sprintputch counts every character and places it while there is room.   *)
SprintputchPastEnd(c) ==
    /\ out' = Append(out, c)
    /\ b' = [b EXCEPT !.cnt = @ + 1, !.buf = IF b.buf <= b.ebuf THEN @ + 1 ELSE @]
    /\ str' = IF b.buf <= b.ebuf THEN [str EXCEPT ![b.buf] = c] ELSE str

Sprintputch(c) ==
    /\ out' = Append(out, c)
    /\ b' = [b EXCEPT !.cnt = @ + 1, !.buf = IF b.buf < b.ebuf THEN @ + 1 ELSE @]
    /\ str' = IF b.buf < b.ebuf THEN [str EXCEPT ![b.buf] = c] ELSE str

Putch(c) == Sprintputch(c)
Silent == UNCHANGED <<out, b, str>>
Fixed == UNCHANGED <<fmt, asked>>

Vsnprintf ==
    /\ pc = "vsnprintf"
    /\ IF asked.null \/ b.buf > b.ebuf
       THEN pc' = "done" /\ ret' = INVAL
       ELSE pc' = "scan" /\ UNCHANGED ret
    /\ Fixed /\ Silent /\ UNCHANGED <<f, ap, dir, p>>

ScanPlain ==
    /\ pc = "scan" /\ fmt[f] \notin {"%", "nul"}
    /\ Putch(fmt[f]) /\ f' = f + 1
    /\ Fixed /\ UNCHANGED <<ap, pc, dir, p, ret>>

ScanDirective ==
    /\ pc = "scan" /\ fmt[f] = "%"
    /\ pc' = "switch" /\ f' = f + 1
    /\ dir' = Fresh
    /\ Fixed /\ Silent /\ UNCHANGED <<ap, p, ret>>

Terminate ==
    /\ pc = "scan" /\ fmt[f] = "nul"
    /\ str' = [str EXCEPT ![b.buf] = "nul"]
    /\ pc' = "done" /\ ret' = b.cnt
    /\ Fixed /\ UNCHANGED <<f, ap, dir, p, b, out>>
-----------------------------------------------------------------------------
(* The cases of the switch.  Each ends in reswitch or, through its place,  *)
(* in the next turn of the outer loop.                                     *)
Case(conversions) == pc = "switch" /\ fmt[f] \in conversions /\ f' = f + 1
Reswitch(new) == pc' = "switch" /\ dir' = new /\ Fixed /\ Silent /\ UNCHANGED <<p, ret>>
ProcessPrecision(v) ==
    Reswitch(IF dir.width < 0 THEN [dir EXCEPT !.width = v, !.precision = -1]
             ELSE [dir EXCEPT !.precision = v])

PadFlag == Case({"-", "0"}) /\ Reswitch([dir EXCEPT !.padc = fmt[f]]) /\ UNCHANGED ap
Alternate == Case({"#"}) /\ Reswitch([dir EXCEPT !.altflag = TRUE]) /\ UNCHANGED ap
Long == Case({"l"}) /\ Reswitch([dir EXCEPT !.lflag = @ + 1]) /\ UNCHANGED ap
Point == Case({"."}) /\ Reswitch([dir EXCEPT !.width = Max({@, 0})]) /\ UNCHANGED ap
Star == Case({"*"}) /\ ProcessPrecision(VaInt(Head(ap))) /\ ap' = Tail(ap)

DigitChar(n) == <<"0", "1", "2", "3", "4", "5", "6", "7", "8", "9", "a", "b", "c", "d", "e", "f">>[n + 1]
DecimalDigit == [c \in {DigitChar(n) : n \in 0 .. 9} |-> CHOOSE n \in 0 .. 9 : c = DigitChar(n)]

Decimal(digits) ==
    LET value[k \in 0 .. Len(digits)] ==
            IF k = 0 THEN 0 ELSE 10 * value[k - 1] + DecimalDigit[digits[k]]
    IN  value[Len(digits)]

WidthOneDigit ==
    /\ Case(DOMAIN DecimalDigit \ {"0"})
    /\ ProcessPrecision(DecimalDigit[fmt[f]]) /\ UNCHANGED ap

(* The digits from f on are taken together.                                *)
Width ==
    /\ pc = "switch" /\ fmt[f] \in DOMAIN DecimalDigit \ {"0"}
    /\ f' = Min({k \in f .. Len(fmt) : fmt[k] \notin DOMAIN DecimalDigit})
    /\ ProcessPrecision(Decimal(SubSeq(fmt, f, f' - 1))) /\ UNCHANGED ap

Character ==
    /\ Case({"c"}) /\ pc' = "scan"
    /\ Putch(Head(ap)) /\ ap' = Tail(ap)
    /\ Fixed /\ UNCHANGED <<dir, p, ret>>

Percent ==
    /\ Case({"%"}) /\ pc' = "scan"
    /\ Putch("%")
    /\ Fixed /\ UNCHANGED <<ap, dir, p, ret>>

LiteralKeepsGoing ==
    /\ Case({"q", "nul"}) /\ pc' = "scan"
    /\ Putch("%")
    /\ Fixed /\ UNCHANGED <<ap, dir, p, ret>>

(* default: what followed the '%' is scanned again as plain text.          *)
Literal ==
    /\ pc = "switch" /\ fmt[f] \in {"q", "nul"} /\ pc' = "scan"
    /\ f' = Max({k \in 2 .. f : fmt[k - 1] = "%"})
    /\ Putch("%")
    /\ Fixed /\ UNCHANGED <<ap, dir, p, ret>>
-----------------------------------------------------------------------------
(* printnum: the digits of num, padded on the left.                        *)
Fill(n, c) == [k \in 1 .. Max({n, 0}) |-> c]

Printnum(num, base, width, padc) ==
    LET print[n \in Nat] == [w \in Int |->
            (IF n >= base THEN print[n \div base][w - 1] ELSE Fill(w - 1, padc))
                \o <<DigitChar(n % base)>>]
    IN  print[num][width]

(* getint and getuint; -num is num modulo the width of a long long.        *)
GetInt(w) == IF dir.lflag > 0 THEN Signed(w, LongMax) ELSE VaInt(w)
GetUint(w) == IF dir.lflag > 0 THEN w ELSE Unsigned(w, IntMax)

Number ==
    /\ Case(Numeric) /\ pc' = "emit" /\ ap' = Tail(ap)
    /\ LET ch == fmt[f]
           arg == Head(ap)
           num == CASE ch = "d" -> GetInt(arg) [] ch = "p" -> arg [] OTHER -> GetUint(arg)
           base == CASE ch \in {"d", "u"} -> 10 [] ch = "o" -> 8 [] OTHER -> 16
           sign == IF num < 0 THEN <<"-">> ELSE IF ch = "p" THEN <<"0", "x">> ELSE <<>>
       IN  p' = sign \o Printnum(IF num < 0 THEN -num ELSE num, base, dir.width, dir.padc)
    /\ Fixed /\ Silent /\ UNCHANGED <<dir, ret>>

(* -err is not an int where err is the least int: error_string is indexed  *)
(* by a negative number, and C promises nothing from there on.             *)
Message == <<"unspecified error", "bad process", "invalid parameter", "out of memory",
             "out of processes", "segmentation fault">>
ErrorCode ==
    /\ Case({"e"}) /\ ap' = Tail(ap)
    /\ LET given == VaInt(Head(ap))
           err == IF given < 0 THEN -given ELSE given
       IN  IF err > IntMax
           THEN pc' = "undefined" /\ UNCHANGED p
           ELSE /\ pc' = "emit"
                /\ p' = IF err > MAXERROR \/ err = 0 THEN <<"error ">> \o Printnum(err, 10, -1, " ")
                        ELSE <<Message[err]>>
    /\ Fixed /\ Silent /\ UNCHANGED <<dir, ret>>

Emit ==
    /\ pc = "emit"
    /\ IF p = <<>> THEN pc' = "scan" /\ Silent /\ UNCHANGED p
       ELSE Putch(Head(p)) /\ p' = Tail(p) /\ UNCHANGED pc
    /\ Fixed /\ UNCHANGED <<f, ap, dir, ret>>
-----------------------------------------------------------------------------
(* %s: the text, at most precision characters of it, and three loops that  *)
(* count the same width down.                                              *)
Strnlen(text, len) == IF len < 0 THEN Len(text) ELSE Min({Len(text), len})

String ==
    /\ Case({"s"}) /\ ap' = Tail(ap)
    /\ p' = IF Head(ap) = NULL THEN <<"(", "n", "u", "l", "l", ")">> ELSE Head(ap)
    /\ IF dir.width > 0 /\ dir.padc # "-"
       THEN pc' = "pad" /\ dir' = [dir EXCEPT !.width = @ - Strnlen(p', dir.precision)]
       ELSE pc' = "string" /\ UNCHANGED dir
    /\ Fixed /\ Silent /\ UNCHANGED ret

PadLeft ==
    /\ pc = "pad"
    /\ IF dir.width > 0
       THEN Putch(dir.padc) /\ dir' = [dir EXCEPT !.width = @ - 1] /\ UNCHANGED pc
       ELSE pc' = "string" /\ Silent /\ UNCHANGED dir
    /\ Fixed /\ UNCHANGED <<f, ap, p, ret>>

Characters ==
    /\ pc = "string"
    /\ IF p # <<>> /\ dir.precision # 0
       THEN /\ Putch(IF dir.altflag /\ Head(p) = "ctl" THEN "?" ELSE Head(p))
            /\ p' = Tail(p) /\ UNCHANGED pc
            /\ dir' = [dir EXCEPT !.width = @ - 1, !.precision = IF @ < 0 THEN @ ELSE @ - 1]
       ELSE pc' = "tail" /\ Silent /\ UNCHANGED <<p, dir>>
    /\ Fixed /\ UNCHANGED <<f, ap, ret>>

PadRight ==
    /\ pc = "tail"
    /\ IF dir.width > 0
       THEN Putch(" ") /\ dir' = [dir EXCEPT !.width = @ - 1] /\ UNCHANGED pc
       ELSE pc' = "scan" /\ Silent /\ UNCHANGED dir
    /\ Fixed /\ UNCHANGED <<f, ap, p, ret>>
-----------------------------------------------------------------------------
Next ==
    \/ Vsnprintf \/ ScanPlain \/ ScanDirective \/ Terminate
    \/ PadFlag \/ Width \/ Star \/ Point \/ Alternate \/ Long
    \/ Character \/ Percent \/ Literal \/ Number \/ ErrorCode \/ Emit
    \/ String \/ PadLeft \/ Characters \/ PadRight

Spec == Init /\ [][Next]_vars
-----------------------------------------------------------------------------
(* What a directive is to print, from its parts.  Digits come from the     *)
(* positions of the number, most significant first.                        *)
Field(digits, star) ==
    IF digits = <<>> THEN -1
    ELSE IF digits = <<"*">> THEN VaInt(star)
    ELSE Decimal(digits)

Power(base) == LET power[k \in Nat] == IF k = 0 THEN 1 ELSE base * power[k - 1] IN power

InBase(n, base) ==
    LET size == CHOOSE k \in 1 .. n + 1 : n < Power(base)[k] /\ (k = 1 \/ n >= Power(base)[k - 1])
    IN  [k \in 1 .. size |-> DigitChar((n \div Power(base)[size - k]) % base)]

Justified(text, width, d) ==
    LET missing == Max({width - Len(text), 0})
    IN  IF "-" \in ToSet(d.flags) THEN text \o Fill(missing, " ")
        ELSE Fill(missing, IF "0" \in ToSet(d.flags) THEN "0" ELSE " ") \o text

Shown(d, arg) ==
    LET width == Field(d.width, asked.width)
        precision == Field(d.precision, asked.precision)
        word == IF d.l > 0 \/ d.conv = "p" THEN arg ELSE Unsigned(arg, IntMax)
        max == IF d.l > 0 THEN LongMax ELSE IntMax
        negative == d.conv = "d" /\ Signed(word, max) < 0
        magnitude == IF negative THEN -Signed(word, max) ELSE word
        base == CASE d.conv \in {"d", "u"} -> 10 [] d.conv = "o" -> 8 [] OTHER -> 16
        error == IF VaInt(arg) < 0 THEN -VaInt(arg) ELSE VaInt(arg)
        text == IF arg = NULL THEN <<"(", "n", "u", "l", "l", ")">> ELSE arg
        cut == IF precision < 0 THEN text ELSE SubSeq(text, 1, Min({precision, Len(text)}))
        clean == [k \in DOMAIN cut |-> IF "#" \in ToSet(d.flags) /\ cut[k] = "ctl" THEN "?" ELSE cut[k]]
    IN  CASE d.conv \in Numeric ->
                 (IF negative THEN <<"-">> ELSE IF d.conv = "p" THEN <<"0", "x">> ELSE <<>>)
                     \o Justified(InBase(magnitude, base), width, d)
          [] d.conv = "s" -> Justified(clean, width, d)
          [] d.conv = "c" -> <<arg>>
          [] d.conv = "e" -> IF error \in DOMAIN Message THEN <<Message[error]>>
                             ELSE <<"error ">> \o InBase(error, 10)
          [] d.conv = "%" -> <<"%">>
          [] d.conv = "nul" -> Front(Render(d))
          [] OTHER -> Render(d)

Plain == [flags |-> <<>>, width |-> <<>>, precision |-> <<>>, l |-> 0, conv |-> "d"]

(* vprintfmt prints every directive as its parts say: numbers read back as *)
(* the argument in the width its l's give, with the field width counted in *)
(* digits; strings cut to the precision and padded as the flags say; error *)
(* codes of either sign by name; anything unknown literally; and the next  *)
(* directive finds its own argument (printfmt.c:11-14, 27-35, 139-269).    *)
(* Padding strings is more than the head of the file allows: see           *)
(* PaddingAsCommented.                                                     *)
PrintsEveryDirective ==
    pc = "done" /\ ret # INVAL =>
        out = Shown(asked.d, asked.arg) \o
              (IF asked.d.conv = "nul" THEN <<>> ELSE <<"a">> \o Shown(Plain, NextWord))

(* Padding follows the file's comments: it is "supported for the numeric   *)
(* formats only", so the others have no use for a width (printfmt.c:8-9),  *)
(* and '-' is the "flag to pad on the right" (printfmt.c:139).  The code   *)
(* pads strings too (208-222), and numbers with '-' by dashes on the left  *)
(* (46-48).                                                                *)
PaddingAsCommented ==
    LET others == {"s", "c", "e"}
        d == IF asked.d.conv \in others THEN [asked.d EXCEPT !.width = <<>>] ELSE asked.d
    IN  pc = "done" /\ ret # INVAL /\ d.conv # "nul" =>
            out = Shown(d, asked.arg) \o <<"a">> \o Shown(Plain, NextWord)

(* vsnprintf places what fits before the last byte of the buffer, a NUL    *)
(* behind it, touches nothing else, and returns the length of the whole    *)
(* text; it refuses a buffer without room for the NUL (printfmt.c:314-339).*)
BufferIsTruncation ==
    LET placed == Min({asked.size - 1, Len(out)})
    IN  /\ \A a \in 0 .. asked.size : a >= b.buf => str[a] = "junk" \/ (pc = "done" /\ a = b.buf)
        /\ str[asked.size] = "junk"
        /\ pc = "done" =>
            IF asked.null \/ asked.size = 0 THEN ret = INVAL /\ \A a \in DOMAIN str : str[a] = "junk"
            ELSE /\ ret = Len(out) /\ str[placed] = "nul"
                 /\ \A a \in 0 .. placed - 1 : str[a] = out[a + 1]
=============================================================================
