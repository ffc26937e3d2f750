------------------------------- MODULE Monitor -------------------------------
(***************************************************************************)
(* The kernel debug monitor (kern/debug/kmonitor.c) and what it runs on:   *)
(* readline (libs/readline.c), getchar and cputchar (kern/libs/stdio.c)    *)
(* and the panic that enters it (kern/debug/panic.c).  The monitor runs    *)
(* with interrupts off (Kernel), so nothing comes between its steps but    *)
(* keys.                                                                   *)
(*                                                                         *)
(* A character is a member of Chars; a command's name is one character,    *)
(* since strcmp only tells equal names apart from different ones, and "b"  *)
(* is backtrace's.                                                         *)
(*                                                                         *)
(* PutCharTooMany, EraseCharUnguarded, EndLineUnterminated, ParseKeepBlanks*)
(* and ParseStuck are wrong on purpose: put in the place of the definition *)
(* that follows each, a property of this module fails.                     *)
(***************************************************************************)
EXTENDS Integers, Sequences, FiniteSets, SequencesExt, FiniteSetsExt

CONSTANTS
    BUFSIZE,    \* readline.c:3
    MAXARGS,    \* kmonitor.c:29
    Printable,  \* the characters above ' ' that are typed
    NoKeyIsZero,\* TRUE: the firmware answers 0 when no key waits; FALSE: -1
    StackDepth  \* monitors the boot stack holds (memlayout.h:4-5)

ASSUME MonitorAssumption ==
    /\ BUFSIZE \in Nat \ {0} /\ MAXARGS \in Nat \ {0} /\ StackDepth \in Nat \ {0}
    /\ NoKeyIsZero \in BOOLEAN
    /\ Printable \cap {"blank", "nul", "prompt"} = {} /\ "b" \in Printable

VARIABLES
    pc,         \* see Places
    buf,        \* readline's static buffer
    i,          \* readline's i
    p,          \* parse's pointer into buf
    argc, argv, \* of runcmd
    depth,      \* calls of kmonitor on the stack
    screen,     \* what stands left of the cursor, from the last prompt on
    handed      \* history: the string readline returned last

vars == <<pc, buf, i, p, argc, argv, depth, screen, handed>>

Chars == Printable \cup {"blank"}
Index == 0 .. BUFSIZE - 1
Places == {"kmonitor", "readline", "getchar", "parse", "lookup", "panic", "undefined", "overflow"}

TypeOK ==
    /\ pc \in Places
    /\ buf \in [Index -> Chars \cup {"nul"}]
    /\ i \in Index /\ p \in Index
    /\ argc \in 0 .. MAXARGS /\ argv \in [0 .. MAXARGS - 1 -> Index]
    /\ depth \in 1 .. StackDepth
    /\ screen \in Seq(Chars \cup {"prompt"}) /\ handed \in Seq(Chars)

(* The C string at an index of buf, and its text before the first NUL.     *)
Terminator(b, from) == Min({j \in Index : j >= from /\ b[j] = "nul"})
CString(b, from) == [j \in 1 .. Terminator(b, from) - from |-> b[from + j - 1]]
-----------------------------------------------------------------------------
(* The panic that brought the kernel here has set is_panic, so the next    *)
(* one prints nothing and goes straight to kmonitor(NULL).                 *)
Init ==
    /\ pc = "kmonitor" /\ depth = 1
    /\ buf = [j \in Index |-> "nul"]
    /\ i = 0 /\ p = 0 /\ argc = 0 /\ argv = [k \in 0 .. MAXARGS - 1 |-> 0]
    /\ screen = <<>> /\ handed = <<>>

(* The two lines of welcome leave the cursor at the start of a line.       *)
Welcome ==
    /\ pc = "kmonitor" /\ pc' = "readline"
    /\ screen' = <<>>
    /\ UNCHANGED <<buf, i, p, argc, argv, depth, handed>>

Prompt ==
    /\ pc = "readline" /\ pc' = "getchar"
    /\ i' = 0
    /\ screen' = <<"prompt">>
    /\ UNCHANGED <<buf, p, argc, argv, depth, handed>>
-----------------------------------------------------------------------------
(* One turn of readline's loop for each answer getchar gives.  getchar     *)
(* turns by itself while the firmware answers 0.                           *)
NoKey ==
    /\ pc = "getchar" /\ ~NoKeyIsZero
    /\ pc' = "readline"
    /\ UNCHANGED <<buf, i, p, argc, argv, depth, screen, handed>>

PutCharTooMany(c) ==
    /\ pc = "getchar" /\ i < BUFSIZE
    /\ buf' = [buf EXCEPT ![i] = c] /\ i' = i + 1
    /\ screen' = Append(screen, c)
    /\ UNCHANGED <<pc, p, argc, argv, depth, handed>>
PutChar(c) ==
    /\ pc = "getchar" /\ i < BUFSIZE - 1
    /\ buf' = [buf EXCEPT ![i] = c] /\ i' = i + 1
    /\ screen' = Append(screen, c)
    /\ UNCHANGED <<pc, p, argc, argv, depth, handed>>

EraseCharUnguarded ==
    /\ pc = "getchar" /\ screen # <<>>
    /\ i' = IF i > 0 THEN i - 1 ELSE 0
    /\ screen' = Front(screen)
    /\ UNCHANGED <<pc, buf, p, argc, argv, depth, handed>>
EraseChar ==
    /\ pc = "getchar" /\ i > 0
    /\ i' = i - 1
    /\ screen' = Front(screen)
    /\ UNCHANGED <<pc, buf, p, argc, argv, depth, handed>>

EndLineUnterminated ==
    /\ pc = "getchar" /\ pc' = "parse"
    /\ handed' = CString(buf, 0)
    /\ p' = 0 /\ argc' = 0 /\ argv' = [k \in DOMAIN argv |-> 0]
    /\ screen' = <<>>
    /\ UNCHANGED <<buf, i, depth>>
(* '\n' or '\r'; runcmd starts with the string returned and an argv whose  *)
(* words are read only once they are set, so 0 stands for what they hold.  *)
EndLine ==
    /\ pc = "getchar" /\ pc' = "parse"
    /\ buf' = [buf EXCEPT ![i] = "nul"]
    /\ handed' = CString(buf', 0)
    /\ p' = 0 /\ argc' = 0 /\ argv' = [k \in DOMAIN argv |-> 0]
    /\ screen' = <<>>
    /\ UNCHANGED <<i, depth>>

(* Anything else is dropped: a control character, a backspace at the start *)
(* of the line, a character that does not fit.                             *)
Key == \/ \E c \in Chars : PutChar(c)
       \/ EraseChar
       \/ EndLine
-----------------------------------------------------------------------------
(* One turn of parse: blanks become NULs, then the word's address goes to  *)
(* argv.  The message about too many arguments (kmonitor.c:45-47) stops    *)
(* nothing; after a store past the end of argv the C says nothing of what  *)
(* the program does.                                                       *)
PastBlanks == Min({j \in Index : j >= p /\ buf[j] # "blank"})
PastWord(q) == Min({j \in Index : j >= q /\ buf[j] \in {"blank", "nul"}})

ParseKeepBlanks ==
    LET q == PastBlanks IN
    /\ pc = "parse"
    /\ IF buf[q] = "nul" THEN pc' = "lookup" /\ p' = q /\ UNCHANGED <<argc, argv>>
       ELSE IF argc < MAXARGS
       THEN argv' = [argv EXCEPT ![argc] = q] /\ argc' = argc + 1 /\ p' = PastWord(q) /\ UNCHANGED pc
       ELSE pc' = "undefined" /\ UNCHANGED <<p, argc, argv>>
    /\ UNCHANGED <<buf, i, depth, screen, handed>>
ParseStuck ==
    /\ pc = "parse"
    /\ IF buf[p] = "nul" THEN pc' = "lookup" ELSE UNCHANGED pc
    /\ UNCHANGED <<buf, i, p, argc, argv, depth, screen, handed>>
Parse ==
    /\ pc = "parse"
    /\ LET q == PastBlanks IN
       /\ buf' = [j \in Index |-> IF j \in p .. q - 1 THEN "nul" ELSE buf[j]]
       /\ IF buf[q] = "nul"
          THEN pc' = "lookup" /\ p' = q /\ UNCHANGED <<argc, argv>>
          ELSE IF argc < MAXARGS
          THEN /\ argv' = [argv EXCEPT ![argc] = q] /\ argc' = argc + 1
               /\ p' = PastWord(q)
               /\ UNCHANGED pc
          ELSE pc' = "undefined" /\ UNCHANGED <<p, argc, argv>>
    /\ UNCHANGED <<i, depth, screen, handed>>

Name == CString(buf, argv[0])

(* An empty line, help, kerninfo and an unknown command write whole lines  *)
(* and go back to the prompt.                                              *)
Answer ==
    /\ pc = "lookup"
    /\ argc = 0 \/ Name # <<"b">>
    /\ pc' = "readline"
    /\ UNCHANGED <<buf, i, p, argc, argv, depth, screen, handed>>

Backtrace ==
    /\ pc = "lookup"
    /\ argc > 0 /\ Name = <<"b">>
    /\ pc' = "panic"
    /\ UNCHANGED <<buf, i, p, argc, argv, depth, screen, handed>>

(* print_stackframe panics: a monitor on top of the one that ran it, which *)
(* never comes to return.  Where the stack holds no more, the next one     *)
(* writes over what lies below it, and nothing can be said from there on.  *)
Panic ==
    /\ pc = "panic"
    /\ IF depth < StackDepth
       THEN pc' = "kmonitor" /\ depth' = depth + 1
       ELSE pc' = "overflow" /\ UNCHANGED depth
    /\ UNCHANGED <<buf, i, p, argc, argv, screen, handed>>

Work == Welcome \/ Prompt \/ NoKey \/ Parse \/ Answer \/ Backtrace \/ Panic
Next == Work \/ Key

Spec == Init /\ [][Next]_vars
(* The monitor runs; whether a key comes is up to whoever types.           *)
FairSpec == Spec /\ WF_vars(Work)
-----------------------------------------------------------------------------
(* The reference for parse: the maximal runs of non-blanks, in order.      *)
Starts(line) == {j \in DOMAIN line : line[j] # "blank" /\ (j = 1 \/ line[j - 1] = "blank")}
WordAt(line, j) ==
    LET end == Max({k \in j .. Len(line) : \A m \in j .. k : line[m] # "blank"})
    IN SubSeq(line, j, end)

(* A command sees the words of the line that was entered, in order and     *)
(* none left out: each argument points at where a word of the line starts, *)
(* and reads, in the buffer that was split in place, as that word          *)
(* (kmonitor.c:33-54).                                                     *)
ArgvFaithful ==
    pc = "lookup" =>
      /\ {argv[k] + 1 : k \in 0 .. argc - 1} = Starts(handed)
      /\ \A k, m \in 0 .. argc - 1 : k < m => argv[k] < argv[m]
      /\ \A k \in 0 .. argc - 1 : CString(buf, argv[k]) = WordAt(handed, argv[k] + 1)

(* What whoever types sees after the prompt is what the buffer holds, key  *)
(* by key, and a backspace never eats the prompt (readline.c:33-38).       *)
Typed == [j \in 1 .. i |-> buf[j - 1]]
EchoShowsBuffer == pc = "getchar" => screen = <<"prompt">> \o Typed

(* readline implements LineEdit.                                           *)
LE == INSTANCE LineEdit WITH
        MaxLine <- BUFSIZE - 1,
        line <- IF pc = "getchar" THEN Typed ELSE <<>>
LineEditSpec == LE!Spec

(* The lines the monitor has the room to serve: argv takes their words,    *)
(* and the stack the monitor that a backtrace adds.                        *)
IsBacktrace(line) ==
    \E j \in Starts(line) : WordAt(line, j) = <<"b">> /\ \A k \in Starts(line) : j <= k
Servable ==
    /\ Cardinality(Starts(handed)) <= MAXARGS
    /\ IsBacktrace(handed) => depth < StackDepth

(* A line that was entered is served, the panic of a backtrace included:   *)
(* the monitor asks for the next one, as long as argv and the stack hold   *)
(* (kmonitor.c:90-96, panic.c:28-30).                                      *)
LinesAreServed == (pc = "parse" /\ Servable) ~> (pc = "getchar")

(* parse stores no argument past the end of argv, as its message "Too many *)
(* arguments (max %d)" has it (kmonitor.c:45-47).                          *)
ArgvInBounds == pc # "undefined"

(* backtrace prints and returns to the monitor it was typed in, as         *)
(* "Print backtrace of stack frame." has it (kmonitor.c:22, 117-124).      *)
BacktraceReturns == [][depth' = depth]_vars
=============================================================================
