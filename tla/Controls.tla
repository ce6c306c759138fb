------------------------------ MODULE Controls ------------------------------
(***************************************************************************)
(* What the user's keys do: kghost/src/main.c gathers a line of typed         *)
(* characters and hands it to the command interpreter, whose one command sets *)
(* the depth cutoff; the arrow keys tilt the camera through the kinect         *)
(* manager.                                                                 *)
(*                                                                          *)
(* All of it runs on the GLUT thread: while a line is being handled nothing    *)
(* else happens.  GLUT and libfreenect are external.                          *)
(***************************************************************************)
EXTENDS Command

CONSTANTS
    Keys,                   \* what is typed, except ends of lines
    Nul,
    Digits,
    Target,                 \* the characters of "depth"
    MAX_COMMAND_LENGTH,
    min_camera_angle, max_camera_angle,
    DeviceFails             \* whether libfreenect may fail to tilt the device

(* The target is a name, and no delimiter is trimmed (main.c:706).            *)
ASSUME ControlsAssumption ==
    /\ {Nul, Space, Delim} \cup Digits \subseteq Keys
    /\ Target \in Seq(Keys \ ({Nul, Space, Delim} \cup Digits))
    /\ Target # <<>> /\ Space # Delim
    /\ SizeBits \in Nat
    /\ MAX_COMMAND_LENGTH \in 2 .. 2 ^ SizeBits
    /\ 0 \in min_camera_angle .. max_camera_angle

VARIABLES
    command, commandPos,
    depth_cutoff,           \* its digits, none for the 0.1 of _init
    cmdResult,
    camera_angle,           \* the kinect manager's
    tilt,                   \* the device's, external
    typed                   \* history: the keys since the buffer was empty

lineVars == <<command, commandPos, typed>>
angleVars == <<camera_angle, tilt>>
vars == <<commandVars, lineVars, depth_cutoff, cmdResult, angleVars>>

Emptied == [i \in 1 .. MAX_COMMAND_LENGTH |-> Nul]

\* _init.  The device is not asked for its tilt, nor told one.
Init ==
    /\ CommandInit
    /\ command = Emptied /\ commandPos = 0 /\ typed = <<>>
    /\ depth_cutoff = <<>> /\ cmdResult = 0
    /\ camera_angle = 0
    /\ tilt \in min_camera_angle .. max_camera_angle

\* The string in a buffer.
Line(buffer) ==
    LET ends == {i \in 1 .. Len(buffer) : buffer[i] = Nul}
    IN  IF ends = {} THEN buffer ELSE SubSeq(buffer, 1, Min(ends) - 1)

\* sscanf's %f: spaces, then as many digits as there are.
Scanned(text) ==
    LET From(Test(_), s) ==
            SubSeq(s, Min({i \in 1 .. Len(s) : ~Test(s[i])} \cup {Len(s) + 1}),
                   Len(s))
        IsSpace(key) == key = Space
        IsDigit(key) == key \in Digits
        number == From(IsSpace, text)
    IN  SubSeq(number, 1, Len(number) - Len(From(IsDigit, number)))

-----------------------------------------------------------------------------
(* _keyboard. *)
EmptyLine == command' = Emptied /\ commandPos' = 0 /\ typed' = <<>>

\* Mutant: the comparison is off by one.
OverflowsLate == commandPos + 1 > MAX_COMMAND_LENGTH
Overflows == commandPos + 1 >= MAX_COMMAND_LENGTH

\* Any key but the two that end a line.
Type(key) ==
    /\ finding = "none"
    /\ IF Overflows THEN EmptyLine
       ELSE /\ command' = [command EXCEPT ![commandPos + 1] = key]
            /\ commandPos' = commandPos + 1
            /\ typed' = Append(typed, key)
    /\ UNCHANGED <<commandVars, depth_cutoff, cmdResult, angleVars>>

\* The line goes to _command_set, which looks for the delimiter.
EndLine ==
    /\ finding = "none"
    /\ IF Delim \in ToSet(Line(command))
       THEN StartFinding(Line(command)) /\ UNCHANGED <<lineVars, cmdResult>>
       ELSE /\ cmdResult' = command_handle(COMMAND_CONTINUE)
            /\ EmptyLine
            /\ UNCHANGED commandVars
    /\ UNCHANGED <<depth_cutoff, angleVars>>

Trim ==
    /\ TrimEnd(Line(command)) \/ TrimEnded(Line(command))
    /\ UNCHANGED <<lineVars, depth_cutoff, cmdResult, angleVars>>

\* The rest of _command_set, and of _keyboard.
SetCutoff ==
    LET line == Line(command)
        number == Scanned(Value(line))
        result == IF ~IsTarget(line, Target) THEN COMMAND_CONTINUE
                  ELSE IF number = <<>> THEN COMMAND_ERROR
                  ELSE COMMAND_HANDLE_CONTINUE
    IN  /\ finding = "match"
        /\ finding' = "none"
        /\ cmdResult' = command_handle(result)
        /\ depth_cutoff' = IF result = COMMAND_HANDLE_CONTINUE
                           THEN number ELSE depth_cutoff
        /\ EmptyLine
        /\ UNCHANGED <<pos, end, angleVars>>

-----------------------------------------------------------------------------
(* _special. *)

\* Mutant: the angle is kept before the device has been told.
SetAngleFirst(angle) ==
    /\ angle \in min_camera_angle .. max_camera_angle
    /\ camera_angle' = angle
    /\ tilt' = angle \/ (DeviceFails /\ UNCHANGED tilt)

kinect_manager_set_camera_angle(angle) ==
    \/ /\ angle \in min_camera_angle .. max_camera_angle
       /\ tilt' = angle
       /\ camera_angle' = angle
    \/ /\ angle \notin min_camera_angle .. max_camera_angle \/ DeviceFails
       /\ UNCHANGED angleVars

\* Up adds two and goes on, through the missing break, to down's minus one.
Arrow(up) ==
    /\ finding = "none"
    /\ kinect_manager_set_camera_angle(
           (camera_angle + (IF up THEN 2 ELSE 0)) - 1)
    /\ UNCHANGED <<commandVars, lineVars, depth_cutoff, cmdResult>>

-----------------------------------------------------------------------------
Next == \/ \E key \in Keys : Type(key)
        \/ EndLine \/ Trim \/ SetCutoff
        \/ \E up \in BOOLEAN : Arrow(up)

Spec == Init /\ [][Next]_vars

(* The GLUT thread goes on with what it has begun.                            *)
FairSpec == Spec /\ WF_vars(Trim \/ SetCutoff)

-----------------------------------------------------------------------------
(* The buffer holds what was typed and ends with a NUL: the string functions   *)
(* that read it stay inside, and no key is stored behind it, however long the  *)
(* line and whatever ended the one before (main.c:510-511, 530-537).          *)
LineBounded ==
    /\ Len(typed) = commandPos
    /\ commandPos < MAX_COMMAND_LENGTH
    /\ command = [i \in 1 .. MAX_COMMAND_LENGTH |->
                     IF i <= commandPos THEN typed[i] ELSE Nul]

\* The number a line asks for, "target = number" with spaces anywhere.
Spaces(n) == [i \in 1 .. n |-> Space]
Asked(line, most) ==
    IF \E m \in 0 .. most, n \in 0 .. Len(line) :
          IsPrefix(Spaces(m) \o Target \o Spaces(n) \o <<Delim>>, line)
    THEN Scanned(Value(line)) ELSE <<>>

(* The cutoff obeys the line: it changes only to the number a line asks for,    *)
(* when that line is handled, and nothing of an earlier line, of a longer       *)
(* name or of a number that cannot be read gets into it; and a line that asks  *)
(* is heard, unless it is indented by more than one space and the length of    *)
(* the target, half of which _trim cuts off (command.c:133-139, 163-167;       *)
(* main.c:703-713).                                                          *)
CutoffObeys ==
    [][/\ depth_cutoff' # depth_cutoff =>
             /\ finding = "match"
             /\ depth_cutoff' = Asked(Line(typed), Len(typed))
       /\ (finding = "match" /\ finding' = "none") =>
             Asked(Line(typed), Len(Target) + 1) \in {<<>>, depth_cutoff'}
      ]_vars

(* The manager's angle is the device's once the device has obeyed, whether or   *)
(* not it fails later; and a key tilts by one degree, although _special adds   *)
(* two and takes away one (main.c:563-574, kinect_manager.c:275-282).         *)
AngleTracks ==
    [][/\ camera_angle' - camera_angle \in -1 .. 1
       /\ tilt' # tilt \/ camera_angle' # camera_angle => camera_angle' = tilt'
      ]_vars

(* command.c:169 says of the code below it that it will "adjust len by          *)
(* trimming from end": it comes to an end, and the line is handled.            *)
LineHandled == finding # "none" ~> finding = "none"
=============================================================================
