---------------------------- MODULE MonitorProofs ----------------------------
(***************************************************************************)
(* The lines that reach the monitor's commands are the lines that were     *)
(* typed.  One invariant serves all the theorems: while a line is typed    *)
(* the screen shows the buffer (Typing); while it is parsed in place the   *)
(* buffer is still the line, but for the blanks that are NULs by now       *)
(* (Split), and argv holds the words that start before p (Arguments).      *)
(* Nothing is assumed of BUFSIZE, MAXARGS, the characters or the depth     *)
(* beyond MonitorAssumption.                                               *)
(***************************************************************************)
EXTENDS Monitor, SequenceTheorems, WellFoundedInduction, TLAPS

(* The least and the greatest of a set.                                    *)
LEMMA MinOf ==
  ASSUME NEW S \in SUBSET Nat, S # {}
  PROVE  Min(S) \in S /\ \A y \in S : Min(S) <= y
<1>1. \E x \in S : \A y \in S : ~ (<<y, x>> \in OpToRel(<, Nat))
  BY NatLessThanWellFounded, WFMin, Zenon
<1>2. PICK x \in S : \A y \in S : ~ (<<y, x>> \in OpToRel(<, Nat))
  BY <1>1
<1>3. \A y \in S : x <= y
  <2> TAKE y \in S
  <2>1. x \in Nat /\ y \in Nat
    OBVIOUS
  <2>2. ~(y < x)
    BY <1>2, <2>1 DEF OpToRel
  <2> QED
    BY <2>1, <2>2
<1> QED
  BY <1>3 DEF Min

(* A greatest element is the greatest,                                     *)
LEMMA MaxIs ==
  ASSUME NEW S \in SUBSET Int, NEW e \in S, \A y \in S : y <= e
  PROVE  Max(S) = e
<1>1. \E x \in S : \A y \in S : x >= y
  OBVIOUS
<1>2. Max(S) \in S /\ \A y \in S : Max(S) >= y
  BY <1>1, Zenon DEF Max
<1>3. Max(S) >= e /\ Max(S) <= e /\ Max(S) \in Int /\ e \in Int
  BY <1>2
<1> QED
  BY <1>3

(* and a least one the least.                                              *)
LEMMA MinIs ==
  ASSUME NEW S \in SUBSET Int, NEW e \in S, \A y \in S : e <= y
  PROVE  Min(S) = e
<1>1. \E x \in S : \A y \in S : x <= y
  OBVIOUS
<1>2. Min(S) \in S /\ \A y \in S : Min(S) <= y
  BY <1>1, Zenon DEF Min
<1>3. Min(S) >= e /\ Min(S) <= e /\ Min(S) \in Int /\ e \in Int
  BY <1>2
<1> QED
  BY <1>3

(* The first NUL at or after an index, and the string it ends.             *)
LEMMA TerminatorIs ==
  ASSUME NEW b, NEW from \in Index, NEW e \in Index, e >= from, b[e] = "nul",
         \A j \in from .. e - 1 : b[j] # "nul"
  PROVE  Terminator(b, from) = e
<1> DEFINE S == {j \in Index : j >= from /\ b[j] = "nul"}
<1>1. e \in S /\ S \in SUBSET Int
  BY DEF Index
<1>2. \A y \in S : e <= y
  BY DEF Index
<1> HIDE DEF S
<1>3. Min(S) = e
  BY <1>1, <1>2, MinIs
<1> QED
  BY <1>3 DEF Terminator, S

(* The string at an index ends at the first NUL behind it.                 *)
LEMMA CStringIs ==
  ASSUME NEW b, NEW from \in Index, NEW e \in Index, e >= from, b[e] = "nul",
         \A j \in from .. e - 1 : b[j] # "nul"
  PROVE  CString(b, from) = [j \in 1 .. e - from |-> b[from + j - 1]]
  BY TerminatorIs DEF CString

(* Where a NUL follows, the first one is what the string ends at.          *)
LEMMA TerminatorIn ==
  ASSUME NEW b, NEW from \in Index, NEW e \in Index, e >= from, b[e] = "nul"
  PROVE  /\ Terminator(b, from) \in from .. e /\ b[Terminator(b, from)] = "nul"
         /\ \A j \in from .. Terminator(b, from) - 1 : b[j] # "nul"
<1> DEFINE S == {j \in Index : j >= from /\ b[j] = "nul"}
<1>1. e \in S /\ S \in SUBSET Nat
  BY DEF Index
<1> HIDE DEF S
<1>2. Min(S) \in S /\ \A y \in S : Min(S) <= y
  BY <1>1, MinOf
<1>3. \A j \in Index : j >= from /\ b[j] = "nul" => j \in S
  BY DEF S
<1>4. Min(S) \in Index /\ Min(S) >= from /\ b[Min(S)] = "nul"
  BY <1>2 DEF S
<1>5. Terminator(b, from) = Min(S)
  BY DEF Terminator, S
<1>6. Min(S) <= e /\ Min(S) \in Nat /\ e \in Nat /\ from \in Nat
  <2>1. Min(S) <= e /\ Min(S) \in Nat
    BY <1>1, <1>2
  <2>2. e \in Nat /\ from \in Nat
    BY MonitorAssumption DEF Index
  <2> QED
    BY <2>1, <2>2
<1>7. \A j \in from .. Min(S) - 1 : b[j] # "nul"
  <2> SUFFICES ASSUME NEW j \in from .. Min(S) - 1, b[j] = "nul" PROVE FALSE
    OBVIOUS
  <2>1. j \in Index /\ j >= from /\ ~(Min(S) <= j)
    BY <1>4, <1>6, MonitorAssumption DEF Index
  <2> QED
    BY <1>2, <1>3, <2>1
<1> QED
  BY <1>4, <1>5, <1>6, <1>7

-----------------------------------------------------------------------------
(* While a line is typed, the screen shows it and no NUL is in it.         *)
Typing ==
    pc = "getchar" =>
        screen = <<"prompt">> \o Typed /\ \A j \in 0 .. i - 1 : buf[j] \in Chars

(* While it is parsed, buf holds the line with the blanks before p turned  *)
(* into NULs, p is not inside a word, and the arguments are the words that *)
(* start before p.                                                         *)
Split ==
    /\ Len(handed) \in Index /\ p \in 0 .. Len(handed) /\ buf[Len(handed)] = "nul"
    /\ \A j \in 0 .. Len(handed) - 1 :
         buf[j] = IF j < p /\ handed[j + 1] = "blank" THEN "nul" ELSE handed[j + 1]
    /\ p # 0 /\ p # Len(handed) => handed[p + 1] = "blank"

Arguments ==
    /\ {argv[k] + 1 : k \in 0 .. argc - 1} = {s \in Starts(handed) : s <= p}
    /\ \A k, m \in 0 .. argc - 1 : k < m => argv[k] < argv[m]

Parsing ==
    pc \in {"parse", "lookup"} =>
        Split /\ Arguments /\ (pc = "lookup" => p = Len(handed))

Inv == TypeOK /\ Typing /\ Parsing

(* NUL is no character of a line, a blank is one, and the buffer has room  *)
(* for a NUL.                                                              *)
LEMMA CharsAre ==
  /\ "blank" \in Chars /\ "nul" \notin Chars /\ "prompt" \notin Chars /\ "nul" # "blank"
  /\ BUFSIZE \in Nat /\ BUFSIZE > 0 /\ 0 \in Index
  BY MonitorAssumption DEF Chars, Index

(* The invariant holds at the start.                                       *)
LEMMA InitInv == Init => Inv
<1> SUFFICES ASSUME Init PROVE Inv
  OBVIOUS
<1>1. TypeOK
  BY CharsAre, MonitorAssumption DEF Init, TypeOK, Places, Index
<1>2. Typing /\ Parsing
  BY DEF Init, Typing, Parsing
<1> QED
  BY <1>1, <1>2 DEF Inv

(* The line as it is typed.                                                *)
LEMMA TypedIs ==
  ASSUME TypeOK, Typing, pc = "getchar"
  PROVE  /\ Typed \in Seq(Chars) /\ Len(Typed) = i /\ i \in Nat
         /\ \A j \in 1 .. i : Typed[j] = buf[j - 1]
<1>1. i \in Nat /\ \A j \in 1 .. i : buf[j - 1] \in Chars
  BY CharsAre DEF TypeOK, Typing, Index
<1> QED
  BY <1>1 DEF Typed

(* readline writes its prompt and starts with nothing typed,               *)
LEMMA PromptStep ==
  ASSUME Inv, Prompt
  PROVE  Inv'
<1>1. /\ pc' = "getchar" /\ i' = 0 /\ screen' = <<"prompt">>
      /\ UNCHANGED <<buf, p, argc, argv, depth, handed>>
  BY DEF Prompt
<1>2. TypeOK'
  BY <1>1, CharsAre DEF Inv, TypeOK, Places
<1>3. Typing'
  BY <1>1 DEF Typing, Typed
<1>4. Parsing'
  BY <1>1 DEF Parsing
<1> QED
  BY <1>2, <1>3, <1>4 DEF Inv

(* A sequence with one element more, as a function.                        *)
LEMMA Appended ==
  ASSUME NEW S, NEW s \in Seq(S), NEW c \in S
  PROVE  Append(s, c) = [j \in 1 .. Len(s) + 1 |-> IF j = Len(s) + 1 THEN c ELSE s[j]]
<1> DEFINE t == Append(s, c)
<1>1. /\ t \in Seq(S) /\ Len(t) = Len(s) + 1 /\ Len(s) \in Nat
      /\ \A j \in 1 .. Len(s) + 1 : t[j] = IF j = Len(s) + 1 THEN c ELSE s[j]
  BY AppendProperties, LenProperties
<1>2. t \in [1 .. Len(t) -> S]
  BY <1>1, LenProperties, Zenon
<1> HIDE DEF t
<1>3. t = [j \in 1 .. Len(s) + 1 |-> IF j = Len(s) + 1 THEN c ELSE s[j]]
  BY <1>1, <1>2
<1> QED
  BY <1>3 DEF t

(* a character that fits goes to the buffer and to the screen,             *)
LEMMA PutCharStep ==
  ASSUME Inv, NEW c \in Chars, PutChar(c)
  PROVE  /\ Inv' /\ pc' = "getchar" /\ Typed' = Append(Typed, c)
         /\ Len(Typed) < BUFSIZE - 1 /\ handed' = handed
<1>1. /\ pc = "getchar" /\ i < BUFSIZE - 1
      /\ buf' = [buf EXCEPT ![i] = c] /\ i' = i + 1 /\ screen' = Append(screen, c)
      /\ UNCHANGED <<pc, p, argc, argv, depth, handed>>
  BY DEF PutChar
<1>2. TypeOK /\ Typing
  BY DEF Inv
<1>3. /\ Typed \in Seq(Chars) /\ Len(Typed) = i /\ i \in Nat
      /\ \A j \in 1 .. i : Typed[j] = buf[j - 1]
  BY <1>1, <1>2, TypedIs
<1>4. buf \in [Index -> Chars \cup {"nul"}] /\ screen \in Seq(Chars \cup {"prompt"})
  BY <1>2 DEF TypeOK
<1>5. buf' \in [Index -> Chars \cup {"nul"}] /\ i' \in Index
  BY <1>1, <1>3, <1>4, CharsAre DEF Index
<1>6. screen' \in Seq(Chars \cup {"prompt"})
  BY <1>1, <1>4
<1>7. TypeOK'
  BY <1>1, <1>2, <1>5, <1>6 DEF TypeOK
<1>8. \A j \in 0 .. i : buf'[j] = IF j = i THEN c ELSE buf[j]
  BY <1>1, <1>3, <1>4, CharsAre DEF Index
<1>9. Typed' = Append(Typed, c)
  <2>1. Typed' = [j \in 1 .. i + 1 |-> IF j = i + 1 THEN c ELSE buf[j - 1]]
    BY <1>1, <1>3, <1>8 DEF Typed
  <2>2. Append(Typed, c) = [j \in 1 .. i + 1 |-> IF j = i + 1 THEN c ELSE Typed[j]]
    BY <1>3, Appended
  <2> QED
    BY <1>3, <2>1, <2>2
<1>10. Typing'
  <2>1. <<"prompt">> \o Append(Typed, c) = Append(<<"prompt">> \o Typed, c)
    BY <1>3
  <2>2. screen' = <<"prompt">> \o Typed'
    BY <1>1, <1>2, <1>9, <2>1 DEF Typing
  <2>3. \A j \in 0 .. i' - 1 : buf'[j] \in Chars
    BY <1>1, <1>2, <1>3, <1>8 DEF Typing
  <2> QED
    BY <2>2, <2>3 DEF Typing
<1>11. Parsing'
  BY <1>1 DEF Parsing
<1> QED
  BY <1>1, <1>3, <1>7, <1>9, <1>10, <1>11 DEF Inv

(* a backspace takes one from both,                                        *)
LEMMA EraseCharStep ==
  ASSUME Inv, EraseChar
  PROVE  /\ Inv' /\ pc' = "getchar" /\ Typed # <<>> /\ Typed' = Front(Typed)
         /\ handed' = handed
<1>1. /\ pc = "getchar" /\ i > 0 /\ i' = i - 1 /\ screen' = Front(screen)
      /\ UNCHANGED <<pc, buf, p, argc, argv, depth, handed>>
  BY DEF EraseChar
<1>2. TypeOK /\ Typing
  BY DEF Inv
<1>3. /\ Typed \in Seq(Chars) /\ Len(Typed) = i /\ i \in Nat
      /\ \A j \in 1 .. i : Typed[j] = buf[j - 1]
  BY <1>1, <1>2, TypedIs
<1>4. Front(Typed) = [j \in 1 .. i - 1 |-> buf[j - 1]]
  BY <1>1, <1>3 DEF Front
<1>5. Typed' = Front(Typed)
  BY <1>1, <1>4 DEF Typed
<1>6. screen = <<"prompt">> \o Typed
  BY <1>1, <1>2 DEF Typing
<1>7. Front(screen) = <<"prompt">> \o Front(Typed)
  BY <1>1, <1>3, <1>6 DEF Front
<1>8. Front(Typed) \in Seq(Chars)
  BY <1>1, <1>3 DEF Front
<1>9. screen' \in Seq(Chars \cup {"prompt"})
  BY <1>1, <1>7, <1>8
<1>10. TypeOK'
  BY <1>1, <1>2, <1>9, CharsAre DEF TypeOK, Index
<1>11. Typing'
  BY <1>1, <1>2, <1>3, <1>5, <1>7 DEF Typing
<1>12. Parsing'
  BY <1>1 DEF Parsing
<1> QED
  BY <1>1, <1>3, <1>5, <1>10, <1>11, <1>12 DEF Inv

(* and the end of the line hands over what was typed.                      *)
LEMMA EndLineStep ==
  ASSUME Inv, EndLine
  PROVE  /\ Inv' /\ pc = "getchar" /\ pc' = "parse" /\ handed' = Typed
<1>1. /\ pc = "getchar" /\ pc' = "parse" /\ buf' = [buf EXCEPT ![i] = "nul"]
      /\ handed' = CString(buf', 0)
      /\ p' = 0 /\ argc' = 0 /\ argv' = [k \in DOMAIN argv |-> 0] /\ screen' = <<>>
      /\ UNCHANGED <<i, depth>>
  BY DEF EndLine
<1>2. TypeOK /\ Typing
  BY DEF Inv
<1>3. /\ Typed \in Seq(Chars) /\ Len(Typed) = i /\ i \in Nat /\ i \in Index
      /\ \A j \in 1 .. i : Typed[j] = buf[j - 1]
  BY <1>1, <1>2, TypedIs DEF TypeOK
<1>4. buf \in [Index -> Chars \cup {"nul"}]
  BY <1>2 DEF TypeOK
<1>5. PICK b : b = buf'
  OBVIOUS
<1>6. /\ b \in [Index -> Chars \cup {"nul"}] /\ b[i] = "nul"
      /\ \A j \in 0 .. i - 1 : b[j] = buf[j] /\ b[j] # "nul"
  BY <1>1, <1>2, <1>3, <1>4, <1>5, CharsAre DEF Index, Typing
<1>7. CString(b, 0) = [j \in 1 .. i - 0 |-> b[0 + j - 1]]
  <2>1. /\ i \in Index /\ 0 \in Index /\ i >= 0 /\ b[i] = "nul"
        /\ \A j \in 0 .. i - 1 : b[j] # "nul"
    BY <1>3, <1>6, CharsAre
  <2> QED
    BY <2>1, CStringIs
<1>8. handed' = Typed
  <2>1. \A j \in 1 .. i : b[0 + j - 1] = buf[j - 1]
    BY <1>3, <1>6
  <2>2. CString(b, 0) = [j \in 1 .. i |-> buf[j - 1]]
    BY <1>3, <1>7, <2>1
  <2> QED
    BY <1>1, <1>5, <2>2 DEF Typed
<1>9. TypeOK'
  BY <1>1, <1>2, <1>3, <1>5, <1>6, <1>8, CharsAre, MonitorAssumption DEF TypeOK, Places
<1>10. Typing'
  BY <1>1 DEF Typing
<1>11. Parsing'
  <2>1. Split'
    <3>1. Len(handed') = i /\ \A j \in 0 .. i - 1 : handed'[j + 1] = buf[j]
      BY <1>3, <1>8
    <3>2. \A j \in 0 .. i - 1 : buf'[j] = handed'[j + 1] /\ ~(j < 0)
      BY <1>3, <1>5, <1>6, <3>1
    <3>3. Len(handed') \in Index /\ p' \in 0 .. Len(handed') /\ buf'[Len(handed')] = "nul"
      BY <1>1, <1>3, <1>5, <1>6, <3>1
    <3> QED
      BY <1>1, <3>1, <3>2, <3>3 DEF Split
  <2>2. Arguments'
    BY <1>1, <1>3, <1>8 DEF Arguments, Starts
  <2> QED
    BY <1>1, <2>1, <2>2 DEF Parsing
<1> QED
  BY <1>1, <1>8, <1>9, <1>10, <1>11 DEF Inv

-----------------------------------------------------------------------------
(* The line behind p is still in buf as it was entered.                    *)
LEMMA NotYetSplit ==
  ASSUME TypeOK, Split
  PROVE  /\ Len(handed) \in Nat /\ Len(handed) < BUFSIZE /\ p \in Nat /\ p <= Len(handed)
         /\ \A j \in p .. Len(handed) - 1 : /\ j \in Index /\ buf[j] = handed[j + 1]
                                            /\ buf[j] # "nul"
<1>1. Len(handed) \in Nat /\ Len(handed) < BUFSIZE /\ p \in Nat /\ p <= Len(handed)
  BY CharsAre DEF TypeOK, Split, Index
<1>2. ASSUME NEW j \in p .. Len(handed) - 1
      PROVE  j \in Index /\ buf[j] = handed[j + 1] /\ buf[j] # "nul"
  <2>1. j \in Index /\ buf[j] = handed[j + 1]
    BY <1>1, CharsAre DEF Split, Index
  <2>2. handed[j + 1] \in Chars
    BY <1>1 DEF TypeOK
  <2> QED
    BY <2>1, <2>2, CharsAre
<1> QED
  BY <1>1, <1>2

(* Going over the blanks ends at a word or at the end of the line,         *)
LEMMA BlanksEnd ==
  ASSUME TypeOK, Split
  PROVE  \E q \in p .. Len(handed) :
           /\ q = PastBlanks
           /\ \A j \in p .. q - 1 : handed[j + 1] = "blank"
           /\ buf[q] = "nul" <=> q = Len(handed)
           /\ q # Len(handed) => handed[q + 1] # "blank"
<1> DEFINE S == {j \in Index : j >= p /\ buf[j] # "blank"}
           q == Min(S)
           n == Len(handed)
<1>1. /\ n \in Nat /\ n < BUFSIZE /\ p \in Nat /\ p <= n /\ n \in Index
      /\ \A j \in p .. n - 1 : j \in Index /\ buf[j] = handed[j + 1] /\ buf[j] # "nul"
      /\ buf[n] = "nul"
  BY NotYetSplit DEF Split
<1>2. n \in S /\ S \in SUBSET Nat
  BY <1>1, CharsAre DEF Index
<1>3. q \in S /\ \A y \in S : q <= y
  <2> HIDE DEF S
  <2> QED
    BY <1>2, MinOf
<1>4. q \in p .. n
  BY <1>1, <1>2, <1>3
<1>5. \A j \in p .. q - 1 : handed[j + 1] = "blank"
  <2> SUFFICES ASSUME NEW j \in p .. q - 1, handed[j + 1] # "blank" PROVE FALSE
    OBVIOUS
  <2>1. j \in p .. n - 1
    BY <1>1, <1>4
  <2>2. j \in S
    BY <1>1, <2>1
  <2> QED
    BY <1>1, <1>3, <1>4, <2>2
<1>6. q = PastBlanks
  BY DEF PastBlanks
<1>7. buf[q] # "blank"
  BY <1>3
<1>8. q # n => buf[q] = handed[q + 1] /\ buf[q] # "nul"
  BY <1>1, <1>4
<1> HIDE DEF q, S
<1> QED
  BY <1>1, <1>4, <1>5, <1>6, <1>7, <1>8

(* and going over a word at a blank or at the end of the line.             *)
LEMMA WordEnds ==
  ASSUME TypeOK, Split, NEW q \in p .. Len(handed) - 1, handed[q + 1] # "blank"
  PROVE  \E e \in q + 1 .. Len(handed) :
           /\ e = PastWord(q)
           /\ \A j \in q .. e - 1 : handed[j + 1] # "blank"
           /\ e # Len(handed) => handed[e + 1] = "blank"
<1> DEFINE S == {j \in Index : j >= q /\ buf[j] \in {"blank", "nul"}}
           e == Min(S)
           n == Len(handed)
<1>1. /\ n \in Nat /\ n < BUFSIZE /\ p \in Nat /\ p <= n /\ n \in Index
      /\ \A j \in p .. n - 1 : j \in Index /\ buf[j] = handed[j + 1] /\ buf[j] # "nul"
      /\ buf[n] = "nul"
  BY NotYetSplit DEF Split
<1>2. n \in S /\ S \in SUBSET Nat
  BY <1>1, CharsAre DEF Index
<1>3. e \in S /\ \A y \in S : e <= y
  <2> HIDE DEF S
  <2> QED
    BY <1>2, MinOf
<1>4. e \in q .. n
  BY <1>1, <1>2, <1>3
<1>5. e # q
  <2>1. buf[q] = handed[q + 1] /\ buf[q] # "nul"
    BY <1>1
  <2>2. buf[e] \in {"blank", "nul"}
    BY <1>3
  <2> QED
    BY <2>1, <2>2
<1>6. \A j \in q .. e - 1 : handed[j + 1] # "blank"
  <2> SUFFICES ASSUME NEW j \in q .. e - 1, handed[j + 1] = "blank" PROVE FALSE
    OBVIOUS
  <2>1. j \in p .. n - 1
    BY <1>1, <1>4
  <2>2. j \in S
    BY <1>1, <2>1
  <2> QED
    BY <1>1, <1>3, <1>4, <2>2
<1>7. e # n => handed[e + 1] = "blank"
  <2>1. buf[e] \in {"blank", "nul"}
    BY <1>3
  <2>2. e # n => buf[e] = handed[e + 1] /\ buf[e] # "nul"
    BY <1>1, <1>4
  <2> QED
    BY <2>1, <2>2
<1>8. e = PastWord(q)
  BY DEF PastWord
<1>9. e \in q + 1 .. n
  BY <1>1, <1>4, <1>5
<1> HIDE DEF e, S
<1> QED
  BY <1>6, <1>7, <1>8, <1>9

(* What splitting the line up to e makes of the words found.               *)
LEMMA StartsBetween ==
  ASSUME TypeOK, Split, NEW q \in p .. Len(handed), NEW e \in q .. Len(handed),
         \A j \in p .. q - 1 : handed[j + 1] = "blank",
         \A j \in q .. e - 1 : handed[j + 1] # "blank"
  PROVE  {s \in Starts(handed) : s <= e} =
         {s \in Starts(handed) : s <= p} \cup (IF q < e THEN {q + 1} ELSE {})
<1> DEFINE n == Len(handed)
<1>1. n \in Nat /\ p \in Nat /\ p <= n /\ q \in Nat /\ e \in Nat
  BY NotYetSplit
<1>2. /\ \A s \in Starts(handed) : s \in 1 .. n
      /\ \A s \in 1 .. n : s \in Starts(handed) <=>
           handed[s] # "blank" /\ (s = 1 \/ handed[s - 1] = "blank")
  BY DEF Starts, TypeOK
<1>3. ASSUME NEW s \in Starts(handed), s <= e, ~(s <= p) PROVE q < e /\ s = q + 1
  <2>1. s \in 1 .. n /\ handed[s] # "blank" /\ (s = 1 \/ handed[s - 1] = "blank")
    BY <1>2, <1>3
  <2>2. ~(s - 1 \in p .. q - 1)
    <3>1. (s - 1) + 1 = s
      BY <2>1
    <3> QED
      BY <2>1, <3>1
  <2>3. s - 1 >= q /\ s - 1 < e
    BY <1>1, <1>3, <2>1, <2>2
  <2>4. CASE s - 1 = q
    BY <1>1, <2>1, <2>3, <2>4
  <2>5. CASE s - 1 > q
    <3>1. s # 1 /\ s - 2 \in q .. e - 1 /\ (s - 2) + 1 = s - 1
      BY <1>1, <2>1, <2>3, <2>5
    <3> QED
      BY <2>1, <3>1
  <2> QED
    BY <1>1, <2>1, <2>3, <2>4, <2>5
<1>4. ASSUME q < e PROVE q + 1 \in Starts(handed) /\ q + 1 <= e
  <2>1. q + 1 \in 1 .. n /\ handed[q + 1] # "blank"
    BY <1>1, <1>4
  <2>2. q + 1 = 1 \/ handed[q] = "blank"
    <3>1. CASE q = p
      BY <1>1, <2>1, <3>1 DEF Split
    <3>2. CASE q # p
      <4>1. q - 1 \in p .. q - 1 /\ (q - 1) + 1 = q
        BY <1>1, <3>2
      <4> QED
        BY <4>1
    <3> QED
      BY <3>1, <3>2
  <2>3. (q + 1) - 1 = q
    BY <1>1
  <2> QED
    BY <1>1, <1>2, <1>4, <2>1, <2>2, <2>3
<1>5. \A s \in Starts(handed) : s <= p => s <= e
  BY <1>1, <1>2
<1> QED
  BY <1>3, <1>4, <1>5

(* A turn of parse splits the line up to the end of its next word and      *)
(* files the word, or finds that the line has no more.                     *)
LEMMA ParseStep ==
  ASSUME Inv, Parse
  PROVE  Inv'
<1>1. pc = "parse" /\ UNCHANGED <<i, depth, screen, handed>>
  BY DEF Parse
<1>2. TypeOK /\ Split /\ Arguments
  BY <1>1 DEF Inv, Parsing
<1> DEFINE n == Len(handed)
<1>3. /\ n \in Nat /\ n < BUFSIZE /\ p \in Nat /\ p <= n /\ n \in Index
      /\ \A j \in p .. n - 1 : j \in Index /\ buf[j] = handed[j + 1] /\ buf[j] # "nul"
      /\ buf[n] = "nul" /\ buf \in [Index -> Chars \cup {"nul"}]
      /\ \A j \in 0 .. n - 1 : j \in Index
  <2>1. /\ n \in Nat /\ n < BUFSIZE /\ p \in Nat /\ p <= n
        /\ \A j \in p .. n - 1 : j \in Index /\ buf[j] = handed[j + 1] /\ buf[j] # "nul"
    BY <1>2, NotYetSplit
  <2>2. n \in Index /\ buf[n] = "nul" /\ buf \in [Index -> Chars \cup {"nul"}]
    BY <1>2 DEF Split, TypeOK
  <2>3. \A j \in 0 .. n - 1 : j \in Index
    BY <2>1, CharsAre DEF Index
  <2> QED
    BY <2>1, <2>2, <2>3
<1>4. PICK q \in p .. n :
        /\ q = PastBlanks
        /\ \A j \in p .. q - 1 : handed[j + 1] = "blank"
        /\ buf[q] = "nul" <=> q = n
        /\ q # n => handed[q + 1] # "blank"
  BY <1>2, BlanksEnd
<1>5. /\ buf' = [j \in Index |-> IF j \in p .. q - 1 THEN "nul" ELSE buf[j]]
      /\ \/ /\ q = n /\ pc' = "lookup" /\ p' = q /\ UNCHANGED <<argc, argv>>
         \/ /\ q # n /\ argc < MAXARGS /\ pc' = "parse"
            /\ argv' = [argv EXCEPT ![argc] = q] /\ argc' = argc + 1 /\ p' = PastWord(q)
         \/ pc' = "undefined" /\ UNCHANGED <<p, argc, argv>>
  BY <1>1, <1>4 DEF Parse
<1>6. q \in Nat /\ q <= n /\ q \in Index
  BY <1>3, <1>4 DEF Index
<1>7. buf' \in [Index -> Chars \cup {"nul"}]
  BY <1>3, <1>5
<1>8. Typing'
  BY <1>1, <1>5 DEF Typing
(* Splitting up to e.                                                      *)
<1>9. ASSUME NEW e \in q .. n, p' = e, \A j \in q .. e - 1 : handed[j + 1] # "blank",
             e # n => handed[e + 1] = "blank"
      PROVE  Split'
  <2>1. buf'[n] = "nul"
    BY <1>3, <1>5
  <2>2. ASSUME NEW j \in 0 .. n - 1
        PROVE  buf'[j] = IF j < e /\ handed[j + 1] = "blank" THEN "nul" ELSE handed[j + 1]
    <3>1. buf[j] = IF j < p /\ handed[j + 1] = "blank" THEN "nul" ELSE handed[j + 1]
      BY <1>2 DEF Split
    <3>2. buf'[j] = IF j \in p .. q - 1 THEN "nul" ELSE buf[j]
      BY <1>3, <1>5
    <3>3. CASE j \in p .. q - 1
      BY <1>3, <1>4, <1>6, <1>9, <3>2, <3>3
    <3>4. CASE j < p
      BY <1>3, <1>4, <1>6, <1>9, <3>1, <3>2, <3>4
    <3>5. CASE j \in q .. e - 1
      BY <1>3, <1>4, <1>6, <1>9, <3>1, <3>2, <3>5
    <3>6. CASE j >= e
      BY <1>3, <1>4, <1>6, <1>9, <3>1, <3>2, <3>6
    <3> QED
      BY <1>3, <1>6, <3>3, <3>4, <3>5, <3>6
  <2> QED
    BY <1>1, <1>3, <1>6, <1>9, <2>1, <2>2 DEF Split
<1>10. CASE q = n /\ pc' = "lookup" /\ p' = q /\ UNCHANGED <<argc, argv>>
  <2>1. TypeOK'
    BY <1>1, <1>2, <1>6, <1>7, <1>10 DEF TypeOK, Places
  <2>2. Split'
    BY <1>6, <1>9, <1>10
  <2>3. {s \in Starts(handed) : s <= n} = {s \in Starts(handed) : s <= p}
    BY <1>2, <1>4, <1>6, <1>10, StartsBetween
  <2>4. Arguments'
    BY <1>1, <1>2, <1>10, <2>3 DEF Arguments
  <2>5. Parsing'
    BY <1>1, <1>10, <2>2, <2>4 DEF Parsing
  <2> QED
    BY <1>8, <2>1, <2>5 DEF Inv
<1>11. CASE /\ q # n /\ argc < MAXARGS /\ pc' = "parse"
            /\ argv' = [argv EXCEPT ![argc] = q] /\ argc' = argc + 1 /\ p' = PastWord(q)
  <2>1. q \in p .. n - 1 /\ handed[q + 1] # "blank"
    BY <1>3, <1>4, <1>6, <1>11
  <2>2. PICK e \in q + 1 .. n :
          /\ e = PastWord(q)
          /\ \A j \in q .. e - 1 : handed[j + 1] # "blank"
          /\ e # n => handed[e + 1] = "blank"
    BY <1>2, <2>1, WordEnds
  <2>3. e \in q .. n /\ e \in Nat /\ e \in Index /\ q < e
    BY <1>3, <1>6, <2>2 DEF Index
  <2>4. /\ argc \in Nat /\ argc \in 0 .. MAXARGS - 1 /\ MAXARGS \in Nat
        /\ argv \in [0 .. MAXARGS - 1 -> Index]
    BY <1>2, <1>11, MonitorAssumption DEF TypeOK
  <2>5. TypeOK'
    <3>1. argv' \in [0 .. MAXARGS - 1 -> Index] /\ argc' \in 0 .. MAXARGS
      BY <1>6, <1>11, <2>4
    <3> QED
      BY <1>1, <1>2, <1>7, <1>11, <2>2, <2>3, <3>1 DEF TypeOK, Places
  <2>6. Split'
    BY <1>9, <1>11, <2>2, <2>3
  <2>7. {s \in Starts(handed) : s <= e} = {s \in Starts(handed) : s <= p} \cup {q + 1}
    BY <1>2, <1>4, <2>2, <2>3, StartsBetween
  <2>8. /\ argv'[argc] = q /\ \A k \in 0 .. argc - 1 : argv'[k] = argv[k]
    BY <1>11, <2>4
  <2>9. \A k \in 0 .. argc - 1 : argv[k] + 1 <= p
    BY <1>2 DEF Arguments
  <2>10. Arguments'
    <3>1. {argv'[k] + 1 : k \in 0 .. argc' - 1} = {argv[k] + 1 : k \in 0 .. argc - 1} \cup {q + 1}
      <4>1. /\ argc \in 0 .. argc' - 1
            /\ \A k \in 0 .. argc - 1 : k \in 0 .. argc' - 1 /\ argv'[k] + 1 = argv[k] + 1
            /\ \A k \in 0 .. argc' - 1 : k = argc \/ k \in 0 .. argc - 1
        BY <1>11, <2>4, <2>8
      <4>2. ASSUME NEW s \in {argv'[k] + 1 : k \in 0 .. argc' - 1}
            PROVE  s \in {argv[k] + 1 : k \in 0 .. argc - 1} \cup {q + 1}
        <5>1. PICK k \in 0 .. argc' - 1 : s = argv'[k] + 1
          OBVIOUS
        <5>2. CASE k = argc
          BY <2>8, <5>1, <5>2
        <5>3. CASE k \in 0 .. argc - 1
          BY <4>1, <5>1, <5>3
        <5> QED
          BY <4>1, <5>2, <5>3
      <4>3. ASSUME NEW k \in 0 .. argc - 1
            PROVE  argv[k] + 1 \in {argv'[l] + 1 : l \in 0 .. argc' - 1}
        BY <4>1
      <4>4. q + 1 \in {argv'[k] + 1 : k \in 0 .. argc' - 1}
        BY <2>8, <4>1
      <4> QED
        BY <4>2, <4>3, <4>4
    <3>2. \A k, m \in 0 .. argc' - 1 : k < m => argv'[k] < argv'[m]
      <4> SUFFICES ASSUME NEW k \in 0 .. argc, NEW m \in 0 .. argc, k < m
                   PROVE  argv'[k] < argv'[m]
        BY <1>11, <2>4
      <4>1. k \in 0 .. argc - 1 /\ argv'[k] = argv[k]
        BY <2>4, <2>8
      <4>2. CASE m = argc
        <5>1. argv[k] \in Nat /\ argv[k] + 1 <= p
          BY <2>4, <2>9, <4>1, CharsAre DEF Index
        <5> QED
          BY <1>3, <1>4, <1>6, <2>8, <4>1, <4>2, <5>1
      <4>3. CASE m # argc
        BY <1>2, <2>4, <2>8, <4>1, <4>3 DEF Arguments
      <4> QED
        BY <4>2, <4>3
    <3> QED
      BY <1>1, <1>2, <1>11, <2>2, <2>7, <3>1, <3>2 DEF Arguments
  <2>11. Parsing'
    BY <1>11, <2>6, <2>10 DEF Parsing
  <2> QED
    BY <1>8, <2>5, <2>11 DEF Inv
<1>12. CASE pc' = "undefined" /\ UNCHANGED <<p, argc, argv>>
  <2>1. TypeOK'
    BY <1>1, <1>2, <1>7, <1>12 DEF TypeOK, Places
  <2>2. Parsing'
    BY <1>12 DEF Parsing
  <2> QED
    BY <1>8, <2>1, <2>2 DEF Inv
<1> QED
  BY <1>5, <1>10, <1>11, <1>12

(* The steps between two lines, which touch neither the buffer nor what    *)
(* was handed over.                                                        *)
LEMMA OtherSteps ==
  ASSUME Inv, Welcome \/ NoKey \/ Answer \/ Backtrace \/ Panic \/ UNCHANGED vars
  PROVE  /\ Inv' /\ handed' = handed
         /\ NoKeyIsZero => pc' = pc \/ (pc # "getchar" /\ pc' # "getchar")
         /\ pc' = pc => UNCHANGED vars
<1>1. TypeOK /\ Typing /\ Parsing /\ StackDepth \in Nat \ {0}
  BY MonitorAssumption DEF Inv
<1>2. CASE Welcome
  <2>1. /\ pc = "kmonitor" /\ pc' = "readline" /\ screen' = <<>>
        /\ UNCHANGED <<buf, i, p, argc, argv, depth, handed>>
    BY <1>2 DEF Welcome
  <2> QED
    BY <1>1, <2>1 DEF Inv, TypeOK, Places, Typing, Parsing
<1>3. CASE NoKey
  <2>1. /\ pc = "getchar" /\ pc' = "readline" /\ ~NoKeyIsZero
        /\ UNCHANGED <<buf, i, p, argc, argv, depth, screen, handed>>
    BY <1>3 DEF NoKey
  <2> QED
    BY <1>1, <2>1 DEF Inv, TypeOK, Places, Typing, Parsing
<1>4. CASE Answer \/ Backtrace
  <2>1. /\ pc = "lookup" /\ pc' \in {"readline", "panic"}
        /\ UNCHANGED <<buf, i, p, argc, argv, depth, screen, handed>>
    BY <1>4 DEF Answer, Backtrace
  <2> QED
    BY <1>1, <2>1 DEF Inv, TypeOK, Places, Typing, Parsing
<1>5. CASE Panic
  <2>1. /\ pc = "panic" /\ pc' \in {"kmonitor", "overflow"}
        /\ depth' = depth \/ (depth < StackDepth /\ depth' = depth + 1)
        /\ UNCHANGED <<buf, i, p, argc, argv, screen, handed>>
    BY <1>5 DEF Panic
  <2>2. depth' \in 1 .. StackDepth
    BY <1>1, <2>1 DEF TypeOK
  <2> QED
    BY <1>1, <2>1, <2>2 DEF Inv, TypeOK, Places, Typing, Parsing
<1>6. CASE UNCHANGED vars
  <2>1. UNCHANGED <<pc, buf, i, p, argc, argv, depth, screen, handed>>
    BY <1>6 DEF vars
  <2>2. TypeOK'
    BY <1>1, <2>1 DEF TypeOK
  <2>3. Typing'
    <3>1. Typed' = Typed
      BY <2>1 DEF Typed
    <3> QED
      BY <1>1, <2>1, <3>1 DEF Typing
  <2>4. Parsing'
    <3>1. Split' = Split
      BY <2>1 DEF Split
    <3>2. Arguments' = Arguments
      BY <2>1 DEF Arguments
    <3> QED
      BY <1>1, <2>1, <3>1, <3>2 DEF Parsing
  <2> QED
    BY <1>6, <2>1, <2>2, <2>3, <2>4 DEF Inv
<1> QED
  BY <1>2, <1>3, <1>4, <1>5, <1>6

(* Every step keeps the invariant.                                         *)
LEMMA InvStep == Inv /\ [Next]_vars => Inv'
<1> SUFFICES ASSUME Inv, [Next]_vars PROVE Inv'
  OBVIOUS
<1>1. CASE Welcome \/ NoKey \/ Answer \/ Backtrace \/ Panic \/ UNCHANGED vars
  BY <1>1, OtherSteps
<1>2. CASE Prompt
  BY <1>2, PromptStep
<1>3. CASE Parse
  BY <1>3, ParseStep
<1>4. CASE Key
  BY <1>4, PutCharStep, EraseCharStep, EndLineStep DEF Key
<1> QED
  BY <1>1, <1>2, <1>3, <1>4 DEF Next, Work

(* The invariant, for every size of the buffer and of argv.                *)
THEOREM InvHolds == Spec => []Inv
  BY InitInv, InvStep, PTL DEF Spec

(* readline never writes outside its buffer, parse never reads or writes   *)
(* outside it nor goes on past argv (readline.c:31-48, kmonitor.c:33-54).  *)
THEOREM MonitorTypeCorrect == Spec => []TypeOK
<1>1. Inv => TypeOK
  BY DEF Inv
<1> QED
  BY <1>1, InvHolds, PTL

(* What stands behind the prompt is what the buffer holds, after any keys  *)
(* (readline.c:31-38).                                                     *)
THEOREM EchoIsTheBuffer == Spec => []EchoShowsBuffer
<1>1. Inv => EchoShowsBuffer
  BY DEF Inv, Typing, EchoShowsBuffer
<1> QED
  BY <1>1, InvHolds, PTL

(* Once the whole line is split, the words found are all its words.        *)
LEMMA InvArgvFaithful == Inv => ArgvFaithful
<1> SUFFICES ASSUME Inv, pc = "lookup"
             PROVE  /\ {argv[k] + 1 : k \in 0 .. argc - 1} = Starts(handed)
                    /\ \A k, m \in 0 .. argc - 1 : k < m => argv[k] < argv[m]
                    /\ \A k \in 0 .. argc - 1 : CString(buf, argv[k]) = WordAt(handed, argv[k] + 1)
  BY DEF ArgvFaithful
<1>1. TypeOK /\ Split /\ Arguments /\ p = Len(handed)
  BY DEF Inv, Parsing
<1> DEFINE n == Len(handed)
<1>2. n \in Nat /\ n \in Index /\ handed \in Seq(Chars) /\ buf[n] = "nul"
  BY <1>1, NotYetSplit DEF TypeOK, Split
<1>3. /\ \A s \in Starts(handed) : s \in 1 .. n /\ handed[s] # "blank"
      /\ {argv[k] + 1 : k \in 0 .. argc - 1} = {s \in Starts(handed) : s <= n}
  BY <1>1, <1>2 DEF Arguments, Starts
<1>4. {argv[k] + 1 : k \in 0 .. argc - 1} = Starts(handed)
  BY <1>2, <1>3
<1>5. \A j \in 0 .. n - 1 : buf[j] = IF handed[j + 1] = "blank" THEN "nul" ELSE handed[j + 1]
  BY <1>1, <1>2 DEF Split
<1>6. ASSUME NEW k \in 0 .. argc - 1
      PROVE  CString(buf, argv[k]) = WordAt(handed, argv[k] + 1)
  <2>1. PICK s \in Starts(handed) : s = argv[k] + 1
    BY <1>4
  <2>2. s \in 1 .. n /\ handed[s] # "blank"
    BY <1>3
  <2>3. argv[k] \in Index /\ argv[k] \in Nat
    BY <1>1, MonitorAssumption DEF TypeOK, Index
  <2>4. PICK a \in Nat : a = argv[k] /\ s = a + 1 /\ a \in Index /\ a <= n
    BY <1>2, <2>1, <2>2, <2>3
  <2>5. PICK e : e = Terminator(buf, a)
    OBVIOUS
  <2>6. /\ e \in a .. n /\ buf[e] = "nul" /\ \A j \in a .. e - 1 : buf[j] # "nul"
    BY <1>2, <2>4, <2>5, TerminatorIn
  <2>7. \A j \in s .. e : handed[j] # "blank"
    <3> SUFFICES ASSUME NEW j \in s .. e, handed[j] = "blank" PROVE FALSE
      OBVIOUS
    <3>1. j - 1 \in a .. e - 1 /\ j - 1 \in 0 .. n - 1 /\ (j - 1) + 1 = j
      BY <1>2, <2>4, <2>6
    <3> QED
      BY <1>5, <2>6, <3>1
  <2>8. e # n => handed[e + 1] = "blank"
    <3> SUFFICES ASSUME e # n, handed[e + 1] # "blank" PROVE FALSE
      OBVIOUS
    <3>1. e \in 0 .. n - 1 /\ e + 1 \in 1 .. n
      BY <1>2, <2>4, <2>6
    <3>2. handed[e + 1] \in Chars
      BY <1>2, <3>1
    <3> QED
      BY <1>5, <2>6, <3>1, <3>2, CharsAre
  <2>9. e >= s
    <3>1. e # a
      BY <1>2, <2>2, <2>4, <2>6, <2>8
    <3> QED
      BY <2>4, <2>6, <3>1
  <2> DEFINE M == {l \in s .. Len(handed) : \A m \in s .. l : handed[m] # "blank"}
  <2>10. Max(M) = e
    <3>1. e \in M /\ M \in SUBSET Int
      BY <1>2, <2>2, <2>6, <2>7, <2>9
    <3>2. ASSUME NEW y \in M PROVE y <= e
      <4>1. CASE e = n
        BY <1>2, <2>2, <4>1
      <4>2. CASE e # n
        <5>1. ~(e + 1 \in s .. y)
          BY <2>8, <4>2
        <5> QED
          BY <1>2, <2>2, <2>6, <2>9, <5>1
      <4> QED
        BY <4>1, <4>2
    <3> HIDE DEF M
    <3> QED
      BY <3>1, <3>2, MaxIs
  <2>11. WordAt(handed, s) = SubSeq(handed, s, e)
    BY <2>10 DEF WordAt
  <2>12. SubSeq(handed, s, e) = [j \in 1 .. e - a |-> handed[a + j]]
    <3>1. e \in Int /\ a \in Int /\ s = a + 1
      BY <1>2, <2>2, <2>4, <2>6
    <3> QED
      BY <3>1, SMTT(60)
  <2>13. CString(buf, a) = [j \in 1 .. e - a |-> buf[a + j - 1]]
    BY <2>5 DEF CString
  <2>14. \A j \in 1 .. e - a : buf[a + j - 1] = handed[a + j]
    <3> TAKE j \in 1 .. e - a
    <3>1. PICK k1 \in Nat : k1 = n
      BY <1>2
    <3>2. e \in a .. k1 /\ s = a + 1 /\ a \in Nat
      BY <2>4, <2>6, <3>1
    <3>3. a + j - 1 \in 0 .. k1 - 1 /\ (a + j - 1) + 1 = a + j /\ a + j \in s .. e
      BY <3>2
    <3> QED
      BY <1>5, <2>7, <3>1, <3>3
  <2> QED
    BY <2>4, <2>11, <2>12, <2>13, <2>14
<1> QED
  BY <1>1, <1>4, <1>6 DEF Arguments

(* A command gets the words of the line, all of them, in order and each a  *)
(* string of its own (kmonitor.c:33-54).                                   *)
THEOREM ArgumentsAreTheWords == Spec => []ArgvFaithful
  BY InvHolds, InvArgvFaithful, PTL

(* Each step of the monitor is a step of LineEdit, or none. Where the      *)
(* firmware answers -1 when no key waits, readline gives the line up and   *)
(* LineEdit is not implemented.                                            *)
LEMMA LineEditStep ==
  ASSUME NoKeyIsZero, Inv, [Next]_vars
  PROVE  [LE!Next]_(LE!levars)
<1> DEFINE line == IF pc = "getchar" THEN Typed ELSE <<>>
<1>1. CASE Welcome \/ NoKey \/ Answer \/ Backtrace \/ Panic \/ UNCHANGED vars
  <2>1. line' = line /\ handed' = handed
    BY <1>1, OtherSteps DEF vars, Typed
  <2> QED
    BY <2>1 DEF LE!levars
<1>2. CASE Prompt
  <2>1. pc = "readline" /\ pc' = "getchar" /\ i' = 0 /\ handed' = handed
    BY <1>2 DEF Prompt
  <2>2. Typed' = <<>>
    BY <2>1 DEF Typed
  <2> QED
    BY <2>1, <2>2 DEF LE!levars
<1>3. CASE Parse
  <2>1. pc = "parse" /\ pc' # "getchar" /\ handed' = handed
    BY <1>3 DEF Parse
  <2> QED
    BY <2>1 DEF LE!levars
<1>4. ASSUME NEW c \in Chars, PutChar(c) PROVE LE!Next
  <2>1. pc = "getchar"
    BY <1>4 DEF PutChar
  <2> QED
    BY <1>4, <2>1, PutCharStep DEF LE!Next, LE!Put
<1>5. CASE EraseChar
  <2>1. pc = "getchar"
    BY <1>5 DEF EraseChar
  <2>2. pc' = "getchar" /\ Typed # <<>> /\ Typed' = Front(Typed) /\ handed' = handed
    BY <1>5, EraseCharStep
  <2> QED
    BY <2>1, <2>2 DEF LE!Next, LE!Erase, LE!Front, Front
<1>6. CASE EndLine
  BY <1>6, EndLineStep DEF LE!Next, LE!Enter
<1> QED
  BY <1>1, <1>2, <1>3, <1>4, <1>5, <1>6 DEF Next, Work, Key

(* readline implements LineEdit where getchar waits for a key: the line is *)
(* the keys typed and not erased, whatever does not fit is dropped, and    *)
(* the caller gets it whole (readline.c:6-23).                             *)
THEOREM ReadlineEditsLines == ASSUME NoKeyIsZero PROVE Spec => LineEditSpec
<1>1. Init => LE!Init
  BY DEF Init, LE!Init
<1>2. Inv /\ [Next]_vars => [LE!Next]_(LE!levars)
  BY LineEditStep
<1> QED
  BY <1>1, <1>2, InvHolds, PTL DEF Spec, LineEditSpec, LE!Spec
====
