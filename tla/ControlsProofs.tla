--------------------------- MODULE ControlsProofs ---------------------------
(***************************************************************************)
(* Theorems about Controls: what the keys do to the command buffer, to the    *)
(* cutoff and to the camera's angle, for a buffer of any size, any keys, any  *)
(* target and any limits.                                                    *)
(***************************************************************************)
EXTENDS Controls, SequenceTheorems, NaturalsInduction, WellFoundedInduction,
        TLAPS

(* What is inductive: LineBounded needs the types for the next key to find    *)
(* its place.                                                                *)
BufferInv ==
    /\ typed \in Seq(Keys)
    /\ commandPos \in 0 .. MAX_COMMAND_LENGTH - 1
    /\ LineBounded

LEMMA Constants ==
    /\ MAX_COMMAND_LENGTH \in Nat /\ MAX_COMMAND_LENGTH >= 2
    /\ Nul \in Keys
<1>1. PICK size : size = 2 ^ SizeBits
  OBVIOUS
<1>2. MAX_COMMAND_LENGTH \in 2 .. size /\ Nul \in Keys
  BY <1>1, ControlsAssumption DEF ControlsAssumption
<1>3. QED
  BY <1>2

LEMMA EmptyIsBounded ==
    ASSUME command = Emptied, commandPos = 0, typed = <<>>
    PROVE  BufferInv
<1>1. command = [i \in 1 .. MAX_COMMAND_LENGTH |->
                    IF i <= commandPos THEN typed[i] ELSE Nul]
  BY DEF Emptied
<1>2. QED
  BY <1>1, Constants DEF BufferInv, LineBounded

LEMMA EmptyLineBounded == EmptyLine => BufferInv'
<1> SUFFICES ASSUME EmptyLine PROVE BufferInv'
  OBVIOUS
<1>1. command' = [i \in 1 .. MAX_COMMAND_LENGTH |->
                    IF i <= commandPos' THEN typed'[i] ELSE Nul]
  BY DEF Emptied, EmptyLine
<1>2. QED
  BY <1>1, Constants DEF BufferInv, LineBounded, EmptyLine

(* A key that fits is where the position was, and the rest stays. *)
LEMMA TypeBounded ==
    ASSUME BufferInv, NEW key \in Keys, Type(key)
    PROVE  BufferInv'
<1>1. CASE Overflows
  BY <1>1, EmptyLineBounded DEF Type
<1>2. CASE ~Overflows
  <2>1. /\ command' = [command EXCEPT ![commandPos + 1] = key]
        /\ commandPos' = commandPos + 1
        /\ typed' = Append(typed, key)
    BY <1>2 DEF Type
  <2>2. commandPos \in Nat /\ commandPos + 1 < MAX_COMMAND_LENGTH
        /\ Len(typed) = commandPos /\ typed \in Seq(Keys)
    BY <1>2, Constants DEF Overflows, BufferInv, LineBounded
  <2>3. /\ typed' \in Seq(Keys) /\ Len(typed') = commandPos'
        /\ typed'[commandPos'] = key
        /\ \A i \in 1 .. commandPos : typed'[i] = typed[i]
    BY <2>1, <2>2
  <2>4. command' = [i \in 1 .. MAX_COMMAND_LENGTH |->
                       IF i <= commandPos' THEN typed'[i] ELSE Nul]
    <3>1. command = [i \in 1 .. MAX_COMMAND_LENGTH |->
                        IF i <= commandPos THEN typed[i] ELSE Nul]
      BY DEF BufferInv, LineBounded
    <3>2. command' = [i \in 1 .. MAX_COMMAND_LENGTH |->
                         IF i = commandPos + 1 THEN key ELSE command[i]]
      BY <2>1, <3>1
    <3>3. ASSUME NEW i \in 1 .. MAX_COMMAND_LENGTH
          PROVE  (IF i = commandPos + 1 THEN key ELSE command[i])
                 = IF i <= commandPos' THEN typed'[i] ELSE Nul
      <4>1. i <= commandPos \/ i = commandPos + 1 \/ i > commandPos + 1
        BY <2>2, Constants
      <4>2. CASE i <= commandPos
        BY <2>1, <2>2, <2>3, <3>1, <4>2
      <4>3. CASE i = commandPos + 1
        BY <2>1, <2>2, <2>3, <4>3
      <4>4. CASE i > commandPos + 1
        BY <2>1, <2>2, <3>1, <4>4
      <4>5. QED
        BY <4>1, <4>2, <4>3, <4>4
    <3>4. QED
      BY <3>2, <3>3, Zenon
  <2>5. commandPos' \in 0 .. MAX_COMMAND_LENGTH - 1
        /\ commandPos' < MAX_COMMAND_LENGTH
    BY <2>1, <2>2, Constants
  <2>6. QED
    BY <2>3, <2>4, <2>5, Zenon DEF BufferInv, LineBounded
<1>3. QED
  BY <1>1, <1>2

LEMMA BufferStep == BufferInv /\ [Next]_vars => BufferInv'
<1> SUFFICES ASSUME BufferInv, [Next]_vars PROVE BufferInv'
  OBVIOUS
<1>1. ASSUME UNCHANGED lineVars PROVE BufferInv'
  BY <1>1 DEF lineVars, BufferInv, LineBounded
<1>2. ASSUME NEW key \in Keys, Type(key) PROVE BufferInv'
  BY <1>2, TypeBounded
<1>3. CASE EndLine
  BY <1>1, <1>3, EmptyLineBounded DEF EndLine
<1>4. CASE Trim
  BY <1>1, <1>4 DEF Trim
<1>5. CASE SetCutoff
  BY <1>5, EmptyLineBounded DEF SetCutoff
<1>6. ASSUME NEW up \in BOOLEAN, Arrow(up) PROVE BufferInv'
  BY <1>1, <1>6 DEF Arrow
<1>7. CASE UNCHANGED vars
  BY <1>1, <1>7 DEF vars
<1>8. QED
  BY <1>2, <1>3, <1>4, <1>5, <1>6, <1>7 DEF Next

(* The command buffer is the line and stays terminated (main.c:530-537).      *)
THEOREM ControlsLineBounded == Spec => []LineBounded
<1>1. Init => BufferInv
  BY EmptyIsBounded DEF Init
<1>2. BufferInv => LineBounded
  BY DEF BufferInv
<1>3. QED
  BY <1>1, <1>2, BufferStep, PTL DEF Spec

AngleInv == camera_angle \in Int

(* What AngleTracks says of a step. *)
Tracks ==
    /\ camera_angle' - camera_angle \in -1 .. 1
    /\ tilt' # tilt \/ camera_angle' # camera_angle => camera_angle' = tilt'

(* The angle kept is the device's whenever either has changed, and a key       *)
(* tilts by one degree (main.c:563-574, kinect_manager.c:275-282).            *)
THEOREM ControlsAngleTracks == Spec => AngleTracks
<1>1. Init => AngleInv
  BY DEF Init, AngleInv
<1>2. AngleInv /\ [Next]_vars
          => AngleInv' /\ [Tracks]_vars
  <2> SUFFICES ASSUME AngleInv, [Next]_vars
               PROVE  AngleInv' /\ [Tracks]_vars
    OBVIOUS
  <2>1. ASSUME UNCHANGED angleVars PROVE AngleInv' /\ Tracks
    BY <2>1 DEF angleVars, AngleInv, Tracks
  <2>2. ASSUME NEW up \in BOOLEAN, Arrow(up)
        PROVE  AngleInv' /\ Tracks
    <3> DEFINE angle == (camera_angle + (IF up THEN 2 ELSE 0)) - 1
    <3>1. angle \in Int /\ angle - camera_angle \in -1 .. 1
      BY DEF AngleInv
    <3>2. UNCHANGED angleVars \/ (tilt' = angle /\ camera_angle' = angle)
      BY <2>2 DEF Arrow, kinect_manager_set_camera_angle
    <3>3. QED
      BY <2>1, <3>1, <3>2 DEF AngleInv, Tracks
  <2>3. QED
    BY <2>1, <2>2 DEF Next, Type, EndLine, Trim, SetCutoff, vars
<1>3. QED
  BY <1>1, <1>2, PTL DEF Spec, AngleTracks, Tracks
-----------------------------------------------------------------------------
(* The cutoff.  Least elements first: positions in a line are such.            *)
LEMMA LeastOf ==
    ASSUME NEW S \in SUBSET Nat, S # {}
    PROVE  \E n \in S : \A m \in S : n <= m
<1>1. PICK n \in S : \A m \in S : ~(<<m, n>> \in OpToRel(<, Nat))
  BY NatLessThanWellFounded, WFMin
<1>2. ASSUME NEW m \in S, m < n PROVE FALSE
  <2>1. <<m, n>> \in OpToRel(<, Nat)
    BY <1>2 DEF OpToRel
  <2>2. QED
    BY <1>1, <2>1
<1>3. QED
  BY <1>2

LEMMA MinOf ==
    ASSUME NEW S \in SUBSET Nat, S # {}
    PROVE  Min(S) \in S /\ \A k \in S : Min(S) <= k
<1>1. \E x \in S : \A k \in S : x =< k
  BY LeastOf
<1>2. QED
  BY <1>1, Zenon DEF Min

LEMMA MinIs ==
    ASSUME NEW S \in SUBSET Nat, NEW m \in S, \A k \in S : m <= k
    PROVE  Min(S) = m
<1>1. PICK x : x = Min(S)
  OBVIOUS
<1>2. x \in S /\ x <= m
  BY <1>1, MinOf
<1>3. QED
  BY <1>1, <1>2

(* What the string functions see of the buffer is what they would of the keys. *)
LEMMA LineOf ==
    ASSUME NEW buffer \in Seq(Keys)
    PROVE  LET ends == {i \in 1 .. Len(buffer) : buffer[i] = Nul}
           IN  /\ ends = {} => Line(buffer) = buffer
               /\ \A e \in ends : (\A i \in ends : e <= i)
                                      => Line(buffer) = SubSeq(buffer, 1, e - 1)
<1> DEFINE ends == {i \in 1 .. Len(buffer) : buffer[i] = Nul}
<1>1. ASSUME NEW e \in ends, \A i \in ends : e <= i
      PROVE  Line(buffer) = SubSeq(buffer, 1, e - 1)
  <2>1. Min(ends) = e
    BY <1>1, MinIs
  <2>2. QED
    BY <2>1, Zenon DEF Line
<1>2. QED
  BY <1>1, Zenon DEF Line

LEMMA LineIsTyped ==
    ASSUME BufferInv
    PROVE  /\ Line(command) = Line(typed)
           /\ Line(typed) \in Seq(Keys)
           /\ Len(Line(typed)) <= Len(typed)
<1>1. PICK n : n = commandPos
  OBVIOUS
<1>2. /\ typed \in Seq(Keys) /\ Len(typed) = n /\ n \in Nat /\ n < MAX_COMMAND_LENGTH
      /\ MAX_COMMAND_LENGTH \in Nat /\ Nul \in Keys
  BY <1>1, Constants DEF BufferInv, LineBounded
<1>3. command = [i \in 1 .. MAX_COMMAND_LENGTH |-> IF i <= n THEN typed[i] ELSE Nul]
  BY <1>1 DEF BufferInv, LineBounded
<1>4. /\ command \in Seq(Keys) /\ Len(command) = MAX_COMMAND_LENGTH
      /\ \A i \in 1 .. n : command[i] = typed[i]
      /\ command[n + 1] = Nul
  BY <1>2, <1>3
<1> DEFINE ends == {i \in 1 .. Len(typed) : typed[i] = Nul}
<1>5. CASE ends = {}
  <2>1. Line(typed) = typed
    BY <1>2, <1>5, LineOf
  <2>2. n + 1 \in 1 .. Len(command) /\ command[n + 1] = Nul
    BY <1>2, <1>4
  <2>3. \A i \in 1 .. Len(command) : command[i] = Nul => n + 1 <= i
    BY <1>2, <1>4, <1>5
  <2>4. Line(command) = SubSeq(command, 1, (n + 1) - 1)
    BY <1>4, <2>2, <2>3, LineOf
  <2>5. SubSeq(command, 1, n) = typed
    BY <1>2, <1>4
  <2>6. (n + 1) - 1 = n
    BY <1>2
  <2>7. Line(command) = SubSeq(command, 1, n)
    BY <2>4, <2>6, Zenon
  <2>8. QED
    BY <1>2, <2>1, <2>5, <2>7
<1>6. CASE ends # {}
  <2>1. PICK e \in ends : \A i \in ends : e <= i
    <3>1. ends \in SUBSET Nat
      OBVIOUS
    <3>2. QED
      BY <1>6, <3>1, LeastOf
  <2>2. Line(typed) = SubSeq(typed, 1, e - 1)
    BY <1>2, <2>1, LineOf
  <2>3. e \in 1 .. n /\ e \in 1 .. Len(command) /\ command[e] = Nul
    BY <1>2, <1>4, <2>1
  <2>4. \A i \in 1 .. Len(command) : command[i] = Nul => e <= i
    BY <1>2, <1>4, <2>1, <2>3
  <2>5. Line(command) = SubSeq(command, 1, e - 1)
    BY <1>4, <2>3, <2>4, LineOf
  <2>6. e - 1 \in 0 .. n
    BY <1>2, <2>3
  <2>7. PICK h : h = e - 1
    OBVIOUS
  <2>8. SubSeq(command, 1, h) = SubSeq(typed, 1, h)
    BY <1>2, <1>4, <2>6, <2>7
  <2>9. SubSeq(typed, 1, h) \in Seq(Keys) /\ Len(SubSeq(typed, 1, h)) <= n
    BY <1>2, <2>6, <2>7
  <2>10. QED
    BY <1>2, <2>2, <2>5, <2>7, <2>8, <2>9
<1>7. QED
  BY <1>5, <1>6

(* A line with a delimiter, and what _trim leaves of its name at the beginning. *)
LEMMA DelimiterOf ==
    ASSUME NEW line \in Seq(Keys), Delim \in ToSet(line)
    PROVE  /\ Delimiter(line) \in 1 .. Len(line) /\ line[Delimiter(line)] = Delim
           /\ \A i \in 1 .. Len(line) : line[i] = Delim => Delimiter(line) <= i
<1> DEFINE S == {i \in 1 .. Len(line) : line[i] = Delim}
<1>1. S # {} /\ S \in SUBSET Nat
  BY DEF ToSet
<1>2. Min(S) \in S /\ \A k \in S : Min(S) <= k
  BY <1>1, MinOf
<1>3. Delimiter(line) = Min(S)
  BY Zenon DEF Delimiter
<1>4. QED
  BY <1>2, <1>3

Skip(line) == Skipped(line, Delimiter(line) - 1)
Left(line) == (Delimiter(line) - 1) - Skip(line)

LEMMA SkipOf ==
    ASSUME NEW line \in Seq(Keys), Delim \in ToSet(line)
    PROVE  LET length == Delimiter(line) - 1
           IN  /\ Skip(line) \in 0 .. length /\ Left(line) \in 0 .. length
               /\ line[Skip(line) + 1] # Space \/ Skip(line) >= length - Skip(line)
               /\ \A k \in 0 .. length :
                      k < Skip(line) => line[k + 1] = Space /\ k < length - k
               /\ Len(Name(line)) = Len(line) - Skip(line)
               /\ Name(line) \in Seq(Keys)
               /\ \A i \in 1 .. Len(line) - Skip(line) :
                      Name(line)[i] = line[Skip(line) + i]
<1>1. PICK length : length = Delimiter(line) - 1
  OBVIOUS
<1>2. length \in Nat /\ length + 1 <= Len(line) /\ Len(line) \in Nat
  BY <1>1, DelimiterOf
<1> DEFINE S == {k \in 0 .. length : line[k + 1] # Space \/ k >= length - k}
<1>3. S \in SUBSET Nat /\ length \in S
  BY <1>2
<1>4. PICK skip : skip = Min(S)
  OBVIOUS
<1>5. skip \in S /\ \A k \in S : skip <= k
  BY <1>3, <1>4, MinOf
<1>6. Skip(line) = skip
  BY <1>1, <1>4, Zenon DEF Skip, Skipped
<1>7. /\ skip \in 0 .. length
      /\ line[skip + 1] # Space \/ skip >= length - skip
      /\ \A k \in 0 .. length : k < skip => line[k + 1] = Space /\ k < length - k
  BY <1>2, <1>5
<1>8. Left(line) = length - skip
  BY <1>1, <1>6 DEF Left
<1>9. Name(line) = SubSeq(line, skip + 1, Len(line))
  BY <1>6, Zenon DEF Name, Skip
<1>10. /\ Name(line) \in Seq(Keys) /\ Len(Name(line)) = Len(line) - skip
       /\ \A i \in 1 .. Len(line) - skip : Name(line)[i] = line[skip + i]
  BY <1>2, <1>7, <1>9
<1>11. QED
  BY <1>1, <1>2, <1>6, <1>7, <1>8, <1>10

LEMMA Joined ==
    ASSUME NEW a \in Seq(Keys), NEW b \in Seq(Keys)
    PROVE  /\ a \o b \in Seq(Keys) /\ Len(a \o b) = Len(a) + Len(b)
           /\ \A i \in 1 .. Len(a) : (a \o b)[i] = a[i]
           /\ \A i \in 1 .. Len(b) : (a \o b)[Len(a) + i] = b[i]
<1>1. PICK c : c = a \o b
  OBVIOUS
<1>2. PICK x \in Nat, y \in Nat : x = Len(a) /\ y = Len(b)
  OBVIOUS
<1>3. /\ c \in Seq(Keys) /\ Len(c) = Len(a) + Len(b)
      /\ \A i \in 1 .. Len(a) + Len(b) :
             c[i] = IF i <= Len(a) THEN a[i] ELSE b[i - Len(a)]
  BY <1>1, ConcatProperties, Zenon
<1>4. \A i \in 1 .. x + y : c[i] = IF i <= x THEN a[i] ELSE b[i - x]
  BY <1>2, <1>3
<1>5. ASSUME NEW i \in 1 .. y PROVE c[x + i] = b[i]
  <2>1. x + i \in 1 .. x + y /\ ~(x + i <= x) /\ (x + i) - x = i
    OBVIOUS
  <2>2. PICK k : k = x + i
    OBVIOUS
  <2>3. c[k] = b[k - x]
    BY <1>4, <2>1, <2>2
  <2>4. QED
    BY <2>1, <2>2, <2>3, Zenon
<1>6. \A i \in 1 .. x : c[i] = a[i]
  BY <1>4
<1>7. QED
  BY <1>1, <1>2, <1>3, <1>5, <1>6, Zenon

(* A line that asks begins with this. *)
Request(m, n) == Spaces(m) \o Target \o Spaces(n) \o <<Delim>>

LEMMA RequestOf ==
    ASSUME NEW m \in Nat, NEW n \in Nat
    PROVE  \E r \in Seq(Keys) :
              /\ r = Request(m, n) /\ Len(r) = m + Len(Target) + n + 1
              /\ \A i \in 1 .. m : r[i] = Space
              /\ \A i \in 1 .. Len(Target) : r[m + i] = Target[i]
              /\ \A i \in 1 .. n : r[m + Len(Target) + i] = Space
              /\ r[m + Len(Target) + n + 1] = Delim
<1> PICK r : r = Request(m, n)
  OBVIOUS
<1>1. PICK before : before = Spaces(m)
  OBVIOUS
<1>2. PICK after : after = Spaces(n)
  OBVIOUS
<1>3. Space \in Keys /\ Delim \in Keys /\ Target \in Seq(Keys)
  BY ControlsAssumption DEF ControlsAssumption
<1>4. /\ before \in Seq(Keys) /\ Len(before) = m /\ \A i \in 1 .. m : before[i] = Space
  BY <1>1, <1>3 DEF Spaces
<1>5. /\ after \in Seq(Keys) /\ Len(after) = n /\ \A i \in 1 .. n : after[i] = Space
  BY <1>2, <1>3 DEF Spaces
<1>6. PICK t : t = Len(Target)
  OBVIOUS
<1>7. t \in Nat
  BY <1>3, <1>6
<1>8. PICK one : one = before \o Target
  OBVIOUS
<1>9. /\ one \in Seq(Keys) /\ Len(one) = m + t
      /\ \A i \in 1 .. m : one[i] = before[i]
      /\ \A i \in 1 .. t : one[m + i] = Target[i]
  <2>1. Len(Target) = t
    BY <1>6
  <2>2. QED
    <3>1. before \in Seq(Keys) /\ Target \in Seq(Keys) /\ Len(before) = m
      BY <1>3, <1>4
    <3>2. /\ one \in Seq(Keys) /\ Len(one) = Len(before) + Len(Target)
          /\ \A i \in 1 .. Len(before) : one[i] = before[i]
          /\ \A i \in 1 .. Len(Target) : one[Len(before) + i] = Target[i]
      BY <1>8, <3>1, Joined, Zenon
    <3>3. QED
      BY <2>1, <3>1, <3>2, Zenon
<1>10. PICK two : two = one \o after
  OBVIOUS
<1>11. /\ two \in Seq(Keys) /\ Len(two) = m + t + n
       /\ \A i \in 1 .. m + t : two[i] = one[i]
       /\ \A i \in 1 .. n : two[m + t + i] = after[i]
  <2>1. PICK size : size = m + t
    OBVIOUS
  <2>2. size \in Nat /\ Len(one) = size
    BY <1>7, <1>9, <2>1
  <2>3. /\ two \in Seq(Keys) /\ Len(two) = size + n
        /\ \A i \in 1 .. size : two[i] = one[i]
        /\ \A i \in 1 .. n : two[size + i] = after[i]
    <3>1. one \in Seq(Keys) /\ after \in Seq(Keys) /\ Len(after) = n
      BY <1>5, <1>9
    <3>2. /\ two \in Seq(Keys) /\ Len(two) = Len(one) + Len(after)
          /\ \A i \in 1 .. Len(one) : two[i] = one[i]
          /\ \A i \in 1 .. Len(after) : two[Len(one) + i] = after[i]
      BY <1>10, <3>1, Joined, Zenon
    <3>3. QED
      BY <2>2, <3>1, <3>2, Zenon
  <2>4. QED
    BY <1>7, <2>1, <2>3
<1>12. r = two \o <<Delim>>
  BY <1>1, <1>2, <1>8, <1>10, Zenon DEF Request
<1>13. /\ r \in Seq(Keys) /\ Len(r) = m + t + n + 1
       /\ \A i \in 1 .. m + t + n : r[i] = two[i]
       /\ r[m + t + n + 1] = Delim
  <2>1. PICK size : size = m + t + n
    OBVIOUS
  <2>2. size \in Nat /\ Len(two) = size
    BY <1>7, <1>11, <2>1
  <2>3. PICK delim : delim = <<Delim>>
    OBVIOUS
  <2>4. delim \in Seq(Keys) /\ Len(delim) = 1 /\ delim[1] = Delim
    BY <1>3, <2>3
  <2>5. r = two \o delim
    BY <1>12, <2>3, Zenon
  <2>6. 1 \in Nat
    OBVIOUS
  <2>7. /\ r \in Seq(Keys) /\ Len(r) = size + 1
        /\ \A i \in 1 .. size : r[i] = two[i]
        /\ \A i \in 1 .. 1 : r[size + i] = delim[i]
    <3>1. two \in Seq(Keys) /\ delim \in Seq(Keys) /\ Len(delim) = 1
      BY <1>11, <2>4
    <3>2. PICK all : all = two \o delim
      OBVIOUS
    <3>3. /\ all \in Seq(Keys) /\ Len(all) = Len(two) + Len(delim)
          /\ \A i \in 1 .. Len(two) : all[i] = two[i]
          /\ \A i \in 1 .. Len(delim) : all[Len(two) + i] = delim[i]
      BY <3>1, <3>2, Joined, Zenon
    <3>4. r = all
      BY <2>5, <3>2, Zenon
    <3>5. QED
      BY <2>2, <3>1, <3>3, <3>4
  <2>8. r[size + 1] = Delim
    BY <2>4, <2>7
  <2>9. QED
    BY <1>7, <2>1, <2>7, <2>8
<1>14. ASSUME NEW i \in 1 .. m PROVE r[i] = Space
  <2>1. i \in 1 .. m + t + n /\ i \in 1 .. m + t
    BY <1>7
  <2>2. QED
    BY <1>4, <1>9, <1>11, <1>13, <2>1
<1>15. ASSUME NEW i \in 1 .. t PROVE r[m + i] = Target[i]
  <2>1. m + i \in 1 .. m + t + n /\ m + i \in 1 .. m + t
    BY <1>7
  <2>2. QED
    BY <1>9, <1>11, <1>13, <2>1
<1>16. ASSUME NEW i \in 1 .. n PROVE r[m + t + i] = Space
  <2>1. m + t + i \in 1 .. m + t + n
    BY <1>7
  <2>2. QED
    BY <1>5, <1>11, <1>13, <2>1
<1>17. /\ Len(r) = m + Len(Target) + n + 1
       /\ \A i \in 1 .. m : r[i] = Space
       /\ \A i \in 1 .. Len(Target) : r[m + i] = Target[i]
       /\ \A i \in 1 .. n : r[m + Len(Target) + i] = Space
       /\ r[m + Len(Target) + n + 1] = Delim
  BY <1>6, <1>13, <1>14, <1>15, <1>16
<1>18. QED
  BY <1>13, <1>17, Zenon

LEMMA PrefixOf ==
    ASSUME NEW s \in Seq(Keys), NEW line \in Seq(Keys)
    PROVE  IsPrefix(s, line) <=>
              Len(s) <= Len(line) /\ \A i \in 1 .. Len(s) : s[i] = line[i]
<1>1. SubSeq(s, 1, Len(s)) = s
  OBVIOUS
<1>2. ASSUME Len(s) <= Len(line)
      PROVE  SubSeq(line, 1, Len(s)) = s <=> \A i \in 1 .. Len(s) : s[i] = line[i]
  <2>1. PICK begin : begin = SubSeq(line, 1, Len(s))
    OBVIOUS
  <2>2. /\ begin \in Seq(Keys) /\ Len(begin) = Len(s)
        /\ \A i \in 1 .. Len(s) : begin[i] = line[i]
    BY <1>2, <2>1
  <2>3. begin = s <=> \A i \in 1 .. Len(s) : s[i] = begin[i]
    BY <2>2
  <2>4. QED
    BY <2>1, <2>2, <2>3
<1>3. QED
  BY <1>1, <1>2, Zenon DEF IsPrefix

(* What is known while a line is handled: how the name has been trimmed at its *)
(* end.  A name of nothing but one space comes out empty, or wrapped.          *)
Trimmed(line) ==
    LET left == Left(line)
    IN  /\ finding = "trim" => /\ left > 0 /\ pos = left - 1
                               /\ end = left \/ Name(line)[left] = Space
        /\ finding = "match" => \/ left = 0 /\ end = 0
                                \/ left > 0 /\ end = left /\ Name(line)[left] # Space
                                \/ left = 1 /\ Name(line)[1] = Space
FindInv ==
    /\ BufferInv
    /\ finding \in {"none", "trim", "match"}
    /\ finding # "none" => Delim \in ToSet(Line(command)) /\ Trimmed(Line(command))

LEMMA FindStep == FindInv /\ [Next]_vars => FindInv'
<1> SUFFICES ASSUME FindInv, [Next]_vars PROVE FindInv'
  OBVIOUS
<1>1. BufferInv'
  BY BufferStep DEF FindInv
<1>2. ASSUME finding' = "none" PROVE FindInv'
  BY <1>1, <1>2 DEF FindInv
<1>3. PICK line : line = Line(command)
  OBVIOUS
<1>4. line \in Seq(Keys)
  BY <1>3, LineIsTyped DEF FindInv
<1>5. ASSUME command' = command, Delim \in ToSet(line), Trimmed(line)',
             finding' \in {"trim", "match"}
      PROVE  FindInv'
  <2>1. Line(command') = line
    BY <1>3, <1>5, Zenon
  <2>2. QED
    BY <1>1, <1>5, <2>1, Zenon DEF FindInv
<1>6. ASSUME UNCHANGED commandVars, finding = "none" PROVE FindInv'
  BY <1>2, <1>6 DEF commandVars
<1>7. CASE UNCHANGED vars
  <2>1. finding' = finding /\ pos' = pos /\ end' = end /\ command' = command
    BY <1>7 DEF vars, commandVars, lineVars
  <2>2. CASE finding = "none"
    BY <1>2, <2>1, <2>2
  <2>3. CASE finding \in {"trim", "match"}
    <3>1. Delim \in ToSet(line) /\ Trimmed(line)
      BY <1>3, <2>3 DEF FindInv
    <3>2. Trimmed(line)'
      BY <2>1, <3>1 DEF Trimmed
    <3>3. QED
      BY <1>5, <2>1, <2>3, <3>1, <3>2
  <2>4. QED
    BY <2>2, <2>3 DEF FindInv
<1>8. ASSUME NEW key \in Keys, Type(key) PROVE FindInv'
  BY <1>6, <1>8 DEF Type
<1>9. CASE EndLine
  <2>1. CASE Delim \in ToSet(line)
    <3>1. StartFinding(line) /\ command' = command
      BY <1>3, <1>9, <2>1 DEF EndLine, lineVars
    <3>2. PICK left : left = Left(line)
      OBVIOUS
    <3>3. left \in Nat
      BY <1>4, <2>1, <3>2, SkipOf
    <3>4. /\ finding' = IF left > 0 THEN "trim" ELSE "match"
          /\ end' = left
          /\ pos' = IF left > 0 THEN left - 1 ELSE 0
      BY <3>1, <3>2 DEF StartFinding, Left, Skip
    <3>5. Trimmed(line)'
      BY <3>2, <3>3, <3>4 DEF Trimmed
    <3>6. QED
      BY <1>5, <2>1, <3>1, <3>4, <3>5
  <2>2. CASE Delim \notin ToSet(line)
    BY <1>3, <1>6, <1>9, <2>2 DEF EndLine
  <2>3. QED
    BY <2>1, <2>2
<1>10. CASE Trim
  <2>1. finding = "trim" /\ command' = command
    BY <1>10 DEF Trim, TrimEnd, TrimEnded, lineVars
  <2>2. Delim \in ToSet(line) /\ Trimmed(line)
    BY <1>3, <2>1 DEF FindInv
  <2>3. PICK left : left = Left(line)
    OBVIOUS
  <2>4. left \in Nat /\ left > 0 /\ pos = left - 1 /\ pos + 1 = left
    BY <1>4, <2>1, <2>2, <2>3, SkipOf DEF Trimmed
  <2>5. end = left \/ Name(line)[left] = Space
    BY <2>1, <2>2, <2>3 DEF Trimmed
  <2>6. CASE TrimEnd(line)
    <3>1. /\ Name(line)[left] = Space /\ pos' = pos
          /\ finding' = IF pos = 0 THEN "match" ELSE "trim"
      BY <2>4, <2>6 DEF TrimEnd
    <3>2. CASE pos = 0
      <4>1. left = 1 /\ Name(line)[1] = Space /\ finding' = "match"
        BY <2>4, <3>1, <3>2
      <4>2. Trimmed(line)'
        BY <2>3, <4>1 DEF Trimmed
      <4>3. QED
        BY <1>5, <2>1, <2>2, <3>1, <4>1, <4>2
    <3>3. CASE pos # 0
      <4>1. finding' = "trim"
        BY <3>1, <3>3
      <4>2. Trimmed(line)'
        BY <2>3, <2>4, <3>1, <4>1 DEF Trimmed
      <4>3. QED
        BY <1>5, <2>1, <2>2, <3>1, <4>1, <4>2
    <3>4. QED
      BY <3>2, <3>3
  <2>7. CASE TrimEnded(line)
    <3>1. Name(line)[left] # Space /\ finding' = "match" /\ end' = end
      BY <2>4, <2>7 DEF TrimEnded
    <3>2. Trimmed(line)'
      BY <2>3, <2>4, <2>5, <3>1 DEF Trimmed
    <3>3. QED
      BY <1>5, <2>1, <2>2, <3>1, <3>2
  <2>8. QED
    BY <1>3, <1>10, <2>6, <2>7 DEF Trim
<1>11. CASE SetCutoff
  BY <1>2, <1>11 DEF SetCutoff
<1>12. ASSUME NEW up \in BOOLEAN, Arrow(up) PROVE FindInv'
  BY <1>6, <1>12 DEF Arrow
<1>13. QED
  BY <1>7, <1>8, <1>9, <1>10, <1>11, <1>12 DEF Next

LEMMA TargetKeys ==
    /\ Target \in Seq(Keys) /\ Len(Target) \in Nat \ {0} /\ Space # Delim
    /\ \A i \in 1 .. Len(Target) : Target[i] # Space /\ Target[i] # Delim
<1>1. Target \in Seq(Keys \ ({Nul, Space, Delim} \cup Digits)) /\ Target # <<>>
      /\ Space # Delim
  BY ControlsAssumption DEF ControlsAssumption
<1>2. \A i \in 1 .. Len(Target) : Target[i] \notin {Nul, Space, Delim}
  BY <1>1
<1>3. Target \in Seq(Keys) /\ Len(Target) \in Nat \ {0}
  BY <1>1
<1>4. QED
  BY <1>1, <1>2, <1>3

(* What is taken for the target is a line that asks.                          *)
LEMMA TargetAsked ==
    ASSUME NEW line \in Seq(Keys), Delim \in ToSet(line), finding = "match",
           Trimmed(line), IsTarget(line, Target)
    PROVE  \E m \in 0 .. Len(line) : IsPrefix(Request(m, 0), line)
<1>1. PICK t : t = Len(Target)
  OBVIOUS
<1>2. t \in Nat \ {0} /\ \A i \in 1 .. t : Target[i] # Space
  BY <1>1, TargetKeys
<1>3. PICK name : name = Name(line)
  OBVIOUS
<1>4. end = t /\ SubSeq(name, 1, t) = Target
  BY <1>1, <1>3 DEF IsTarget
<1>5. PICK k : k = Skip(line)
  OBVIOUS
<1>6. PICK left : left = Left(line)
  OBVIOUS
<1>7. PICK d : d = Delimiter(line)
  OBVIOUS
<1>8. d \in 1 .. Len(line) /\ line[d] = Delim /\ Len(line) \in Nat
  BY <1>7, DelimiterOf
<1>9. k \in 0 .. d - 1 /\ left = (d - 1) - k
  BY <1>5, <1>6, <1>7, SkipOf DEF Left
<1>10. name \in Seq(Keys) /\ Len(name) = Len(line) - k
       /\ \A i \in 1 .. Len(line) - k : name[i] = line[k + i]
  BY <1>3, <1>5, SkipOf
<1>11. \A i \in 1 .. k : line[i] = Space
  <2> SUFFICES ASSUME NEW i \in 1 .. k PROVE line[i] = Space
    OBVIOUS
  <2>1. i - 1 \in 0 .. d - 1 /\ i - 1 < k /\ (i - 1) + 1 = i
    BY <1>8, <1>9
  <2>2. \A j \in 0 .. d - 1 : j < k => line[j + 1] = Space
    BY <1>5, <1>7, SkipOf
  <2>3. QED
    BY <2>1, <2>2
<1>12. \/ left = 0 /\ end = 0
       \/ left > 0 /\ end = left
       \/ left = 1 /\ name[1] = Space
  BY <1>3, <1>6 DEF Trimmed
<1>13. Len(name) >= 1
  BY <1>8, <1>9, <1>10
<1>14. name[1] # Space
  <2>1. SubSeq(name, 1, t)[1] = name[1]
    BY <1>2, <1>10, <1>13
  <2>2. QED
    BY <1>2, <1>4, <2>1
<1>15. left = t
  BY <1>2, <1>4, <1>12, <1>14
<1>16. d = k + t + 1
  BY <1>2, <1>8, <1>9, <1>15
<1>17. ASSUME NEW i \in 1 .. t PROVE line[k + i] = Target[i]
  <2>1. SubSeq(name, 1, t)[i] = name[i] /\ i \in 1 .. Len(line) - k
    BY <1>2, <1>8, <1>9, <1>10, <1>16
  <2>2. QED
    BY <1>4, <1>10, <2>1
<1>18. k \in Nat /\ 0 \in Nat /\ k \in 0 .. Len(line)
  BY <1>8, <1>9
<1>19. PICK r \in Seq(Keys) :
           /\ r = Request(k, 0) /\ Len(r) = k + Len(Target) + 0 + 1
           /\ \A i \in 1 .. k : r[i] = Space
           /\ \A i \in 1 .. Len(Target) : r[k + i] = Target[i]
           /\ r[k + Len(Target) + 0 + 1] = Delim
  BY <1>18, RequestOf, Zenon
<1>20. /\ r \in Seq(Keys) /\ Len(r) = k + t + 0 + 1
       /\ \A i \in 1 .. k : r[i] = Space
       /\ \A i \in 1 .. t : r[k + i] = Target[i]
       /\ r[k + t + 0 + 1] = Delim
  BY <1>1, <1>19, Zenon
<1>21. Len(r) = d /\ r[d] = Delim
  BY <1>2, <1>16, <1>18, <1>20
<1>22. ASSUME NEW i \in 1 .. d PROVE r[i] = line[i]
  <2>1. CASE i \in 1 .. k
    BY <1>11, <1>20, <2>1
  <2>2. CASE i = d
    BY <1>8, <1>21, <2>2
  <2>3. CASE i - k \in 1 .. t
    <3>1. PICK j : j = i - k
      OBVIOUS
    <3>2. j \in 1 .. t /\ i = k + j
      BY <1>18, <2>3, <3>1
    <3>3. QED
      BY <1>17, <1>20, <3>2
  <2>4. QED
    BY <1>2, <1>16, <1>18, <2>1, <2>2, <2>3
<1>23. IsPrefix(r, line)
  BY <1>8, <1>20, <1>21, <1>22, PrefixOf
<1>24. QED
  BY <1>18, <1>19, <1>23, Zenon

(* A line that asks, and is not indented too far, is taken for the target.     *)
LEMMA AskedTarget ==
    ASSUME NEW line \in Seq(Keys), Delim \in ToSet(line), finding = "match",
           Trimmed(line), NEW m \in 0 .. Len(Target) + 1, NEW n \in Nat,
           IsPrefix(Request(m, n), line)
    PROVE  IsTarget(line, Target)
<1>1. PICK t : t = Len(Target)
  OBVIOUS
<1>2. /\ t \in Nat \ {0} /\ Space # Delim /\ m \in Nat /\ m <= t + 1
      /\ \A i \in 1 .. t : Target[i] # Space /\ Target[i] # Delim
  BY <1>1, TargetKeys
<1>3. PICK r \in Seq(Keys) :
          /\ r = Request(m, n) /\ Len(r) = m + Len(Target) + n + 1
          /\ \A i \in 1 .. m : r[i] = Space
          /\ \A i \in 1 .. Len(Target) : r[m + i] = Target[i]
          /\ \A i \in 1 .. n : r[m + Len(Target) + i] = Space
          /\ r[m + Len(Target) + n + 1] = Delim
  BY <1>2, RequestOf, Zenon
<1>4. /\ r \in Seq(Keys) /\ Len(r) = m + t + n + 1
      /\ \A i \in 1 .. m : r[i] = Space
      /\ \A i \in 1 .. t : r[m + i] = Target[i]
      /\ \A i \in 1 .. n : r[m + t + i] = Space
      /\ r[m + t + n + 1] = Delim
  BY <1>1, <1>3, Zenon
<1>5. m + t + n + 1 <= Len(line) /\ \A i \in 1 .. m + t + n + 1 : line[i] = r[i]
  BY <1>3, <1>4, PrefixOf
<1>6. PICK d : d = Delimiter(line)
  OBVIOUS
<1>7. /\ d \in 1 .. Len(line) /\ line[d] = Delim /\ Len(line) \in Nat
      /\ \A i \in 1 .. Len(line) : line[i] = Delim => d <= i
  BY <1>6, DelimiterOf
<1>8. d = m + t + n + 1
  <2>1. line[m + t + n + 1] = Delim
    BY <1>2, <1>4, <1>5
  <2>2. d <= m + t + n + 1
    BY <1>2, <1>5, <1>7, <2>1
  <2>3. ASSUME NEW i \in 1 .. m + t + n PROVE line[i] # Delim
    <3>1. line[i] = r[i]
      BY <1>2, <1>5
    <3>2. CASE i \in 1 .. m
      BY <1>2, <1>4, <3>1, <3>2
    <3>3. CASE i - m \in 1 .. t
      <4>1. PICK j : j = i - m
        OBVIOUS
      <4>2. j \in 1 .. t /\ i = m + j
        BY <1>2, <3>3, <4>1
      <4>3. QED
        BY <1>2, <1>4, <3>1, <4>2
    <3>4. CASE i - (m + t) \in 1 .. n
      <4>1. PICK j : j = i - (m + t)
        OBVIOUS
      <4>2. j \in 1 .. n /\ i = m + t + j
        BY <1>2, <3>4, <4>1
      <4>3. QED
        BY <1>2, <1>4, <3>1, <4>2
    <3>5. QED
      BY <1>2, <3>2, <3>3, <3>4
  <2>4. m + t + n \in Nat
    BY <1>2
  <2>5. d \notin 1 .. m + t + n
    BY <1>7, <2>3
  <2>6. QED
    BY <1>7, <2>2, <2>4, <2>5
<1>9. PICK k : k = Skip(line)
  OBVIOUS
<1>10. PICK name : name = Name(line)
  OBVIOUS
<1>11. /\ k \in 0 .. d - 1
       /\ line[k + 1] # Space \/ k >= (d - 1) - k
       /\ \A j \in 0 .. d - 1 : j < k => line[j + 1] = Space
       /\ name \in Seq(Keys) /\ Len(name) = Len(line) - k
       /\ \A i \in 1 .. Len(line) - k : name[i] = line[k + i]
  BY <1>6, <1>9, <1>10, SkipOf
<1>12. line[m + 1] = Target[1] /\ Target[1] # Space
  <2>1. 1 \in 1 .. t /\ m + 1 \in 1 .. m + t + n + 1
    BY <1>2
  <2>2. line[m + 1] = r[m + 1] /\ r[m + 1] = Target[1]
    BY <1>4, <1>5, <2>1
  <2>3. QED
    BY <1>2, <2>1, <2>2
<1>13. k <= m
  <2> SUFFICES ASSUME m < k PROVE FALSE
    BY <1>2, <1>11
  <2>1. m \in 0 .. d - 1
    BY <1>2, <1>8
  <2>2. line[m + 1] = Space
    BY <1>11, <2>1
  <2>3. QED
    BY <1>12, <2>2
<1>14. k = m
  <2> SUFFICES ASSUME k < m PROVE FALSE
    BY <1>2, <1>11, <1>13
  <2>1. k + 1 \in 1 .. m /\ k + 1 \in 1 .. m + t + n + 1
    BY <1>2, <1>11
  <2>2. line[k + 1] = Space
    BY <1>4, <1>5, <2>1
  <2>3. k >= (d - 1) - k
    BY <1>11, <2>2
  <2>4. QED
    BY <1>2, <1>8, <1>11, <2>3
<1>15. ASSUME NEW i \in 1 .. t PROVE name[i] = Target[i]
  <2>1. i \in 1 .. Len(line) - k /\ m + i \in 1 .. m + t + n + 1
    BY <1>2, <1>5, <1>7, <1>14
  <2>2. QED
    BY <1>4, <1>5, <1>11, <1>14, <2>1
<1>16. Left(line) = t + n
  BY <1>2, <1>6, <1>8, <1>9, <1>14 DEF Left
<1>17. name[1] # Space
  BY <1>2, <1>15
<1>18. end = t + n /\ name[t + n] # Space
  <2>1. PICK left : left = Left(line)
    OBVIOUS
  <2>2. \/ left = 0 /\ end = 0
        \/ left > 0 /\ end = left /\ name[left] # Space
        \/ left = 1 /\ name[1] = Space
    BY <1>10, <2>1 DEF Trimmed
  <2>3. QED
    BY <1>2, <1>16, <1>17, <2>1, <2>2
<1>19. n = 0
  <2> SUFFICES ASSUME n # 0 PROVE FALSE
    OBVIOUS
  <2>1. n \in 1 .. n /\ t + n \in 1 .. Len(line) - k /\ m + t + n \in 1 .. m + t + n + 1
    BY <1>2, <1>5, <1>7, <1>14
  <2>2. name[t + n] = line[k + (t + n)] /\ k + (t + n) = m + t + n
    BY <1>2, <1>11, <1>14, <2>1
  <2>3. line[m + t + n] = Space
    BY <1>4, <1>5, <2>1
  <2>4. QED
    BY <1>18, <2>2, <2>3
<1>20. SubSeq(name, 1, t) = Target
  <2>1. t <= Len(name)
    BY <1>2, <1>5, <1>7, <1>11, <1>14
  <2>2. Target \in Seq(Keys)
    BY TargetKeys
  <2>3. PICK begin : begin = SubSeq(name, 1, t)
    OBVIOUS
  <2>4. begin \in Seq(Keys) /\ Len(begin) = t /\ \A i \in 1 .. t : begin[i] = name[i]
    BY <1>2, <1>11, <2>1, <2>3
  <2>5. begin = Target
    BY <1>1, <1>15, <2>2, <2>4
  <2>6. QED
    BY <2>3, <2>5
<1>21. end = t
  BY <1>2, <1>18, <1>19
<1>22. QED
  BY <1>1, <1>10, <1>20, <1>21, Zenon DEF IsTarget

(* The cutoff changes only to the number a handled line asks for, and a line   *)
(* that asks sets it unless it is indented by more than one space and the      *)
(* length of the target (command.c:133-139, 163-167; main.c:703-713); for       *)
(* every size of the buffer, every target and every sequence of keys.          *)
THEOREM ControlsCutoffObeys == Spec => CutoffObeys
<1> DEFINE Obeys ==
      /\ depth_cutoff' # depth_cutoff =>
             /\ finding = "match"
             /\ depth_cutoff' = Asked(Line(typed), Len(typed))
      /\ (finding = "match" /\ finding' = "none") =>
             Asked(Line(typed), Len(Target) + 1) \in {<<>>, depth_cutoff'}
<1>1. Init => FindInv
  BY EmptyIsBounded DEF Init, CommandInit, FindInv
<1>2. FindInv /\ [Next]_vars => [Obeys]_vars
  <2> SUFFICES ASSUME FindInv, Next PROVE Obeys
    OBVIOUS
  <2>1. ASSUME depth_cutoff' = depth_cutoff, ~(finding = "match" /\ finding' = "none")
        PROVE  Obeys
    BY <2>1
  <2>2. CASE SetCutoff
    <3>1. PICK line : line = Line(typed)
      OBVIOUS
    <3>2. line = Line(command) /\ line \in Seq(Keys) /\ Len(line) <= Len(typed)
      BY <3>1, LineIsTyped DEF FindInv
    <3>3. finding = "match" /\ Delim \in ToSet(line) /\ Trimmed(line)
      BY <2>2, <3>2 DEF SetCutoff, FindInv
    <3>4. PICK number : number = Scanned(Value(line))
      OBVIOUS
    <3>5. depth_cutoff' = IF IsTarget(line, Target) /\ number # <<>>
                          THEN number ELSE depth_cutoff
      BY <2>2, <3>2, <3>4 DEF SetCutoff, COMMAND_CONTINUE, COMMAND_ERROR,
                              COMMAND_HANDLE_CONTINUE
    <3>6. ASSUME NEW most \in Nat
          PROVE  Asked(line, most) =
                    IF \E m \in 0 .. most, n \in 0 .. Len(line) :
                          IsPrefix(Request(m, n), line)
                    THEN number ELSE <<>>
      BY <3>4, Zenon DEF Asked, Request
    <3>7. Len(typed) \in Nat /\ Len(Target) + 1 \in Nat /\ Len(line) \in Nat
      BY <3>2, TargetKeys DEF FindInv, BufferInv
    <3>8. ASSUME IsTarget(line, Target) PROVE Asked(line, Len(typed)) = number
      <4>1. PICK m \in 0 .. Len(line) : IsPrefix(Request(m, 0), line)
        BY <3>2, <3>3, <3>8, TargetAsked
      <4>2. m \in 0 .. Len(typed) /\ 0 \in 0 .. Len(line)
        BY <3>2, <3>7
      <4>3. QED
        BY <3>6, <3>7, <4>1, <4>2, Zenon
    <3>9. ASSUME ~IsTarget(line, Target) PROVE Asked(line, Len(Target) + 1) = <<>>
      <4>1. ASSUME NEW m \in 0 .. Len(Target) + 1, NEW n \in 0 .. Len(line)
            PROVE  ~IsPrefix(Request(m, n), line)
        <5>1. n \in Nat
          BY <3>7
        <5>2. QED
          BY <3>2, <3>3, <3>9, <5>1, AskedTarget, Zenon
      <4>2. QED
        BY <3>6, <3>7, <4>1, Zenon
    <3>10. Asked(line, Len(Target) + 1) \in {<<>>, number}
      BY <3>6, <3>7, Zenon
    <3>11. depth_cutoff' # depth_cutoff => depth_cutoff' = Asked(line, Len(typed))
      BY <3>5, <3>8
    <3>12. Asked(line, Len(Target) + 1) \in {<<>>, depth_cutoff'}
      BY <3>5, <3>9, <3>10
    <3>13. QED
      BY <3>1, <3>3, <3>11, <3>12, Zenon
  <2>3. ASSUME NEW key \in Keys, Type(key) PROVE Obeys
    BY <2>1, <2>3 DEF Type
  <2>4. CASE EndLine
    BY <2>1, <2>4 DEF EndLine
  <2>5. CASE Trim
    BY <2>1, <2>5 DEF Trim, TrimEnd, TrimEnded
  <2>6. ASSUME NEW up \in BOOLEAN, Arrow(up) PROVE Obeys
    BY <2>1, <2>6 DEF Arrow
  <2>7. QED
    BY <2>2, <2>3, <2>4, <2>5, <2>6 DEF Next
<1>3. QED
  BY <1>1, <1>2, FindStep, PTL DEF Spec, CutoffObeys
=============================================================================
