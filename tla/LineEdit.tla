------------------------------ MODULE LineEdit ------------------------------
(***************************************************************************)
(* What readline promises (the comment of libs/readline.c:6-23): keys are  *)
(* collected until the line is ended, the line holds the keys typed and    *)
(* not erased, what does not fit is discarded, and the caller gets the     *)
(* whole line.  Monitor implements it where the firmware says 0 for "no    *)
(* key", as console.c:16-19 has it.                                        *)
(***************************************************************************)
EXTENDS Naturals, Sequences, SequencesExt

CONSTANTS
    Chars,      \* what a line is made of
    MaxLine     \* characters a line can hold

VARIABLES
    line,       \* the line being typed
    handed      \* the line the caller got last

levars == <<line, handed>>

Init == line = <<>> /\ handed = <<>>

Put == \E c \in Chars :
    /\ Len(line) < MaxLine
    /\ line' = Append(line, c)
    /\ UNCHANGED handed

Erase ==
    /\ line # <<>>
    /\ line' = Front(line)
    /\ UNCHANGED handed

Enter ==
    /\ handed' = line
    /\ line' = <<>>

Next == Put \/ Erase \/ Enter

Spec == Init /\ [][Next]_levars
=============================================================================
