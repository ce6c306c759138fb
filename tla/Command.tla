------------------------------- MODULE Command -------------------------------
(***************************************************************************)
(* libkghost/src/command.c: who handles a line, and whether a line is        *)
(* "target = value" for some target.                                         *)
(*                                                                          *)
(* A line is a sequence of characters without NUL.  What comes before the      *)
(* delimiter is trimmed at both ends: the loop at its beginning is an operator,*)
(* the loop at its end, which need not end, is a sequence of steps.           *)
(***************************************************************************)
EXTENDS Integers, Sequences, SequencesExt, FiniteSetsExt

CONSTANTS
    Space, Delim,           \* what isspace accepts; '='
    SizeBits                \* the width of size_t

VARIABLES
    finding,                \* where command_find_target is: none, trim, match
    pos, end                \* _trim's

commandVars == <<finding, pos, end>>

COMMAND_ERROR == -2
COMMAND_CONTINUE == 1
COMMAND_HANDLE_CONTINUE == 2

\* command_handle, with the one handler that main.c sets.  It starts from
\* COMMAND_CONTINUE and keeps what is greater: an error is not passed on.
command_handle(result) == Max({COMMAND_CONTINUE, result})

CommandInit == finding = "none" /\ pos = 0 /\ end = 0

Delimiter(line) == Min({i \in 1 .. Len(line) : line[i] = Delim})
Value(line) == SubSeq(line, Delimiter(line) + 1, Len(line))

\* _trim, from the beginning: the length goes down as the position goes up, so
\* no more than half of the text and one are skipped.
Skipped(line, length) ==
    Min({k \in 0 .. length : line[k + 1] # Space \/ k >= length - k})

\* The text at which command_find_target looks for the target.
Name(line) ==
    SubSeq(line, Skipped(line, Delimiter(line) - 1) + 1, Len(line))

\* command_find_target as far as the trimming at the end.
StartFinding(line) ==
    LET length == Delimiter(line) - 1
        left == length - Skipped(line, length)
    IN  /\ finding = "none"
        /\ finding' = IF left > 0 THEN "trim" ELSE "match"
        /\ end' = left
        /\ pos' = IF left > 0 THEN left - 1 ELSE 0

\* One round of the loop: the length goes down, the position stays.
TrimEnd(line) ==
    /\ finding = "trim" /\ Name(line)[pos + 1] = Space
    /\ end' = (end - 1) % 2 ^ SizeBits
    /\ finding' = IF pos = 0 THEN "match" ELSE "trim"
    /\ UNCHANGED pos

TrimEnded(line) ==
    /\ finding = "trim" /\ Name(line)[pos + 1] # Space
    /\ finding' = "match"
    /\ UNCHANGED <<pos, end>>

\* Mutant: a name that begins with the target will do.
IsTargetPrefix(line, target) ==
    /\ end >= Len(target)
    /\ SubSeq(Name(line), 1, Len(target)) = target
IsTarget(line, target) ==
    /\ end = Len(target)
    /\ SubSeq(Name(line), 1, end) = target
=============================================================================
