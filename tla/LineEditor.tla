----------------------------- MODULE LineEditor -----------------------------
(***************************************************************************)
(* od_edit_str (src/src/ODEdStr.c): a caller edits one field whose format  *)
(* says for every position which characters it takes.  Literal characters  *)
(* of the format are added, skipped and taken out on the way.  The         *)
(* function is one loop with labels that are jumped to from everywhere;    *)
(* here every label is an action and at is the one that comes next.        *)
(*                                                                         *)
(* A character is a member of Chars; a position of a format is a record    *)
(* of whether it is literal and of its character.  The field's colours,    *)
(* its password mode and its final redraw are left out.                    *)
(***************************************************************************)
EXTENDS Integers, Sequences, SequencesExt

CONSTANTS
    Formats,   \* the formats that are tried, sequences of positions
    Beyond,    \* what the format's arrays hold behind the last position
    FlagSets   \* the values of nFlags, as sets of flags

Digits == {"1"}
Lower == {"a"}
Upper == {"A"}
Printable == Digits \cup Lower \cup Upper \cup {"-"}
Controls == {"ESC", "CR", "BS", "TAB", "^Y"}  \* ^Z and CR are the same
Chars == Printable \cup Controls

\* A literal is a character that can be entered; "-" is no code, and takes any.
Position ==
    [literal : {FALSE}, char : {"#", "M", "*", "-"}] \cup [literal : {TRUE}, char : Printable]
Flags == {"EDIT_STRING", "STRICT_INPUT", "PERMALITERAL", "AUTO_DELETE", "AUTO_ENTER",
          "FILL_STRING", "FIELD_MODE", "ALLOW_CANCEL", "LEAVE_BLANK"}

FieldAssumption ==
    /\ Formats \subseteq Seq(Position) \ {<< >>}
    /\ Beyond \subseteq Position
    /\ FlagSets \subseteq SUBSET Flags

Extended == {"UP", "DOWN", "LEFT", "RIGHT", "HOME", "END", "DELETE", "INSERT"}
NUL == "NUL"
Blank == "_"

VARIABLES
    format,            \* abCurrentFormatLiteral and the characters of pszCurrentFormat
    nFlags,
    pszCurrentInput,
    szCurrentOriginalString,
    nCursorPos,
    bInsertMode,
    chTemp, chAddAtEnd,
    nKeysPressed,      \* 0, 1 or 2 for more
    bCheckAutoEnter,
    at,                \* the label that comes next
    wToReturn,
    shown, column      \* the field on the screen and the screen's cursor

text == <<pszCurrentInput, nCursorPos>>
char == <<chTemp, chAddAtEnd>>
screen == <<shown, column>>
field == <<format, nFlags, szCurrentOriginalString>>
editVars == <<field, text, bInsertMode, char, nKeysPressed, bCheckAutoEnter, at, wToReturn,
              screen>>

nCurrentStringLength == Len(format) - 1  \* the last entry is the one behind the field
Length == Len(pszCurrentInput)
IsLiteral(pos) == format[pos + 1].literal
Expected(pos) == format[pos + 1].char
AtEnd == nCursorPos = Length
Is(flag) == flag \in nFlags
-----------------------------------------------------------------------------
(* Characters *)

ODEditIsCharValidForPos(c, pos) ==
    IF IsLiteral(pos) THEN c = Expected(pos)
    ELSE CASE Expected(pos) = "#" -> c \in Digits
           [] Expected(pos) = "M" -> c \in Lower \cup Upper
           [] Expected(pos) = "*" -> c \in Printable
           [] OTHER -> TRUE

ToUpper(c) == IF c \in Lower THEN "A" ELSE c
ToLower(c) == IF c \in Upper THEN "a" ELSE c

\* A name's letter is upper case at the start of a word.
ODEditAsCharForPos(c, pos, before) ==
    IF IsLiteral(pos) THEN Expected(pos)
    ELSE IF Expected(pos) # "M" THEN c
    ELSE IF pos = 0 \/ IsLiteral(pos - 1) \/ before[pos] = "-" THEN ToUpper(c)
    ELSE ToLower(c)

\* Characters are written where the screen's cursor is.
Put(cells, from, chars) ==
    [i \in DOMAIN cells |-> IF i \in (from + 1)..(from + Len(chars)) THEN chars[i - from]
                                                                     ELSE cells[i]]
Blanks(count) == [i \in 1..count |-> Blank]

od_putch(c) == shown' = Put(shown, column, <<c>>) /\ column' = column + 1
-----------------------------------------------------------------------------
(* The start *)

\* Literals that nothing is entered at are shown in permaliteral mode.
Background(pos) ==
    IF Is("PERMALITERAL") /\ pos < nCurrentStringLength /\ IsLiteral(pos)
    THEN Expected(pos) ELSE Blank

\* An existing string is cut to the length of the field.
Begin(start) ==
    LET cut == IF Is("EDIT_STRING")
               THEN SubSeq(start, 1, IF Len(start) > nCurrentStringLength
                                     THEN nCurrentStringLength ELSE Len(start))
               ELSE << >>
    IN /\ pszCurrentInput = cut /\ szCurrentOriginalString = cut
       /\ nCursorPos = Len(cut) /\ column = Len(cut)
       /\ shown = [i \in 1..(nCurrentStringLength + 1) |->
                     IF i <= Len(cut) THEN cut[i] ELSE Background(i - 1)]

\* The strings an application has put there: as short, or too long.
Init ==
    /\ \E f \in Formats, b \in Beyond : format = Append(f, b)
    /\ nFlags \in FlagSets
    /\ \E start \in {<< >>, <<"a", "-">>, <<"1", "-", "1", "1", "1">>} : Begin(start)
    /\ bInsertMode = (nFlags \cap {"STRICT_INPUT", "PERMALITERAL"} = {})
    /\ chTemp = NUL /\ chAddAtEnd = NUL
    /\ nKeysPressed = 0 /\ bCheckAutoEnter = FALSE
    /\ at = "loop" /\ wToReturn = "none"
-----------------------------------------------------------------------------
(* Labels *)

GoTo(label) == at' = label
Loop ==
    /\ at = "loop" /\ bCheckAutoEnter' = TRUE
    /\ IF bCheckAutoEnter /\ Is("AUTO_ENTER") /\ Length = nCurrentStringLength
       THEN GoTo("try_to_accept") /\ wToReturn' = "accept"
       ELSE GoTo("keep_going") /\ UNCHANGED wToReturn
    /\ UNCHANGED <<field, text, bInsertMode, char, nKeysPressed, screen>>

More(keys) == IF keys = 2 THEN 2 ELSE keys + 1

\* Permanent literals are passed, or added as if they had been typed.
KeepGoing ==
    /\ at = "keep_going"
    /\ IF Is("PERMALITERAL") /\ nCursorPos < nCurrentStringLength /\ IsLiteral(nCursorPos)
       THEN IF nCursorPos < Length
            THEN GoTo("pressed_right_arrow") /\ UNCHANGED <<chTemp, nKeysPressed>>
            ELSE /\ chTemp' = Expected(nCursorPos)
                 /\ nKeysPressed' = More(nKeysPressed)
                 /\ GoTo("try_this_character")
       ELSE GoTo("get_another_key") /\ UNCHANGED <<chTemp, nKeysPressed>>
    /\ UNCHANGED <<field, text, bInsertMode, chAddAtEnd, bCheckAutoEnter, wToReturn, screen>>

\* The session ended instead of a key.
NoKey ==
    /\ at = "get_another_key" /\ GoTo("done")
    /\ pszCurrentInput' = szCurrentOriginalString /\ wToReturn' = "cancel"
    /\ UNCHANGED <<field, nCursorPos, bInsertMode, char, nKeysPressed, bCheckAutoEnter, screen>>

Type(c) ==
    /\ at = "get_another_key" /\ GoTo("try_this_character")
    /\ nKeysPressed' = More(nKeysPressed) /\ chTemp' = c
    /\ UNCHANGED <<field, text, bInsertMode, chAddAtEnd, bCheckAutoEnter, wToReturn, screen>>

Press(key) ==
    /\ at = "get_another_key"
    /\ nKeysPressed' = More(nKeysPressed)
    /\ CASE key = "LEFT" -> GoTo("pressed_left_arrow") /\ UNCHANGED <<nCursorPos, column>>
         [] key = "RIGHT" -> GoTo("pressed_right_arrow") /\ UNCHANGED <<nCursorPos, column>>
         [] key = "DELETE" -> GoTo("pressed_delete") /\ UNCHANGED <<nCursorPos, column>>
         [] key \in {"UP", "DOWN"} ->
              /\ GoTo(IF Is("FIELD_MODE") THEN "try_to_accept" ELSE "loop")
              /\ UNCHANGED <<nCursorPos, column>>
         [] key = "HOME" -> GoTo("loop") /\ nCursorPos' = 0 /\ column' = 0
         [] key = "END" ->
              /\ GoTo("loop") /\ nCursorPos' = Length
              /\ column' = IF AtEnd THEN column ELSE Length
         [] key = "INSERT" -> GoTo("loop") /\ UNCHANGED <<nCursorPos, column>>
    /\ wToReturn' = CASE key = "UP" /\ Is("FIELD_MODE") -> "previous"
                      [] key = "DOWN" /\ Is("FIELD_MODE") -> "next"
                      [] OTHER -> wToReturn
    /\ bInsertMode' = (bInsertMode
                       # (key = "INSERT" /\ ~Is("STRICT_INPUT") /\ ~Is("PERMALITERAL")))
    /\ UNCHANGED <<field, pszCurrentInput, char, bCheckAutoEnter, shown>>

\* A character that was held back is added behind the literal that was there.
PressedRightArrow ==
    /\ at = "pressed_right_arrow"
    /\ IF ~AtEnd THEN nCursorPos' = nCursorPos + 1 /\ column' = nCursorPos + 1
                 ELSE UNCHANGED <<nCursorPos, column>>
    /\ chAddAtEnd' = NUL
    /\ GoTo(IF chAddAtEnd # NUL THEN "add_another_key" ELSE "loop")
    /\ UNCHANGED <<field, pszCurrentInput, bInsertMode, chTemp, nKeysPressed, bCheckAutoEnter,
                   wToReturn, shown>>

PressedLeftArrow ==
    /\ at = "pressed_left_arrow"
    /\ IF nCursorPos > 0 THEN nCursorPos' = nCursorPos - 1 /\ column' = nCursorPos - 1
                         ELSE UNCHANGED <<nCursorPos, column>>
    /\ GoTo(IF Is("PERMALITERAL") /\ IsLiteral(nCursorPos') /\ nCursorPos' > 0
            THEN "pressed_left_arrow" ELSE "loop")
    /\ UNCHANGED <<field, pszCurrentInput, bInsertMode, char, nKeysPressed, bCheckAutoEnter,
                   wToReturn, shown>>

\* Mutant: the cell of the last character is not blanked.
DeleteKeepsCell ==
    /\ at = "pressed_delete" /\ GoTo("check_cursor_char")
    /\ ~Is("STRICT_INPUT") /\ ~AtEnd /\ ~Is("PERMALITERAL")
    /\ LET rest == SubSeq(pszCurrentInput, nCursorPos + 2, Length) IN
       /\ pszCurrentInput' = SubSeq(pszCurrentInput, 1, nCursorPos) \o rest
       /\ shown' = Put(shown, column, rest)
    /\ column' = nCursorPos
    /\ UNCHANGED <<field, nCursorPos, bInsertMode, char, nKeysPressed, bCheckAutoEnter,
                   wToReturn>>

PressedDelete ==
    /\ at = "pressed_delete"
    /\ IF ~Is("STRICT_INPUT") /\ ~AtEnd /\ ~Is("PERMALITERAL")
       THEN LET rest == SubSeq(pszCurrentInput, nCursorPos + 2, Length) IN
            /\ pszCurrentInput' = SubSeq(pszCurrentInput, 1, nCursorPos) \o rest
            /\ shown' = Put(shown, column, Append(rest, Blank))
            /\ column' = nCursorPos
            /\ GoTo("check_cursor_char")
       ELSE GoTo("loop") /\ UNCHANGED <<pszCurrentInput, screen>>
    /\ UNCHANGED <<field, nCursorPos, bInsertMode, char, nKeysPressed, bCheckAutoEnter,
                   wToReturn>>

TryThisCharacter ==
    /\ at = "try_this_character"
    /\ CASE chTemp = "ESC" -> GoTo(IF Is("ALLOW_CANCEL") THEN "cancel" ELSE "loop")
         [] chTemp = "CR" -> GoTo("try_to_accept")
         [] chTemp = "BS" -> GoTo("backspace_again")
         [] chTemp = "TAB" -> GoTo(IF Is("FIELD_MODE") THEN "try_to_accept" ELSE "loop")
         [] chTemp = "^Y" -> GoTo("kill_whole_line")
         [] OTHER -> GoTo(IF nKeysPressed = 1 /\ Is("AUTO_DELETE")
                          THEN "kill_whole_line" ELSE "add_another_key")
    /\ wToReturn' = CASE chTemp = "CR" -> "accept"
                      [] chTemp = "TAB" /\ Is("FIELD_MODE") -> "next"
                      [] OTHER -> wToReturn
    /\ UNCHANGED <<field, text, bInsertMode, char, nKeysPressed, bCheckAutoEnter, screen>>

Cancel ==
    /\ at = "cancel" /\ GoTo("done")
    /\ pszCurrentInput' = szCurrentOriginalString /\ wToReturn' = "cancel"
    /\ UNCHANGED <<field, nCursorPos, bInsertMode, char, nKeysPressed, bCheckAutoEnter, screen>>

\* At the end the last character is taken out, with the permanent literals
\* behind it; elsewhere the character before the cursor is deleted.
BackspaceAgain ==
    /\ at = "backspace_again"
    /\ IF nCursorPos = 0 THEN GoTo("loop") /\ UNCHANGED <<text, screen>>
       ELSE IF Is("PERMALITERAL") /\ \A pos \in 0..(nCursorPos - 1) : IsLiteral(pos)
       THEN GoTo("get_another_key") /\ UNCHANGED <<text, screen>>
       ELSE IF AtEnd
       THEN /\ nCursorPos' = nCursorPos - 1 /\ pszCurrentInput' = Front(pszCurrentInput)
            /\ IF Is("PERMALITERAL") /\ IsLiteral(nCursorPos')
               THEN GoTo("backspace_again") /\ UNCHANGED screen
               ELSE /\ shown' = Put(shown, nCursorPos', <<Blank>>) /\ column' = nCursorPos'
                    /\ GoTo("loop")
       ELSE IF ~Is("STRICT_INPUT") /\ ~Is("PERMALITERAL")
       THEN /\ nCursorPos' = nCursorPos - 1 /\ column' = nCursorPos - 1
            /\ GoTo("pressed_delete") /\ UNCHANGED <<pszCurrentInput, shown>>
       ELSE GoTo("loop") /\ UNCHANGED <<text, screen>>
    /\ UNCHANGED <<field, bInsertMode, char, nKeysPressed, bCheckAutoEnter, wToReturn>>

KillWholeLine ==
    /\ at = "kill_whole_line"
    /\ shown' = Put(shown, 0, Blanks(Length)) /\ column' = 0
    /\ nCursorPos' = 0 /\ pszCurrentInput' = << >>
    /\ GoTo(IF chTemp = "^Y" THEN "loop" ELSE "add_another_key")
    /\ UNCHANGED <<field, bInsertMode, char, nKeysPressed, bCheckAutoEnter, wToReturn>>
-----------------------------------------------------------------------------
(* A character is added *)

\* One that does not fit is ignored, unless a literal is missing before it:
\* the literal is added then, or passed, and the character is held back.
AddAnotherKey ==
    /\ at = "add_another_key"
    /\ IF ODEditIsCharValidForPos(chTemp, nCursorPos)
       THEN GoTo("add") /\ UNCHANGED char
       ELSE IF ~IsLiteral(nCursorPos) THEN GoTo("loop") /\ UNCHANGED char
       ELSE /\ chAddAtEnd' = chTemp
            /\ IF ~AtEnd /\ pszCurrentInput[nCursorPos + 1] = Expected(nCursorPos)
               THEN GoTo("pressed_right_arrow") /\ UNCHANGED chTemp
               ELSE chTemp' = Expected(nCursorPos) /\ GoTo("add")
    /\ UNCHANGED <<field, text, bInsertMode, nKeysPressed, bCheckAutoEnter, wToReturn, screen>>

Converted == ODEditAsCharForPos(chTemp, nCursorPos, pszCurrentInput)

\* Next comes the literal behind it, or the character that was held back.
Continue ==
    IF nCursorPos' < nCurrentStringLength /\ IsLiteral(nCursorPos')
    THEN chTemp' = Expected(nCursorPos') /\ GoTo("add_another_key") /\ UNCHANGED chAddAtEnd
    ELSE IF chAddAtEnd # NUL
    THEN chTemp' = chAddAtEnd /\ chAddAtEnd' = NUL /\ GoTo("add_another_key")
    ELSE chTemp' = Converted /\ GoTo("check_cursor_char") /\ UNCHANGED chAddAtEnd

AddAtEnd ==
    /\ at = "add" /\ AtEnd
    /\ IF nCursorPos < nCurrentStringLength
       THEN /\ od_putch(Converted)
            /\ pszCurrentInput' = Append(pszCurrentInput, Converted)
            /\ nCursorPos' = nCursorPos + 1
       ELSE UNCHANGED <<text, screen>>
    /\ Continue
    /\ UNCHANGED <<field, bInsertMode, nKeysPressed, bCheckAutoEnter, wToReturn>>

\* Mutant: a character is inserted into a full field.
InsertAnyway ==
    /\ at = "add" /\ ~AtEnd /\ bInsertMode
    /\ LET rest == SubSeq(pszCurrentInput, nCursorPos + 1, Length) IN
       /\ shown' = Put(shown, column, <<Converted>> \o rest)
       /\ pszCurrentInput' =
            SubSeq(pszCurrentInput, 1, nCursorPos) \o <<Converted>> \o rest
    /\ nCursorPos' = nCursorPos + 1 /\ column' = nCursorPos + 1
    /\ Continue
    /\ UNCHANGED <<field, bInsertMode, nKeysPressed, bCheckAutoEnter, wToReturn>>

Insert ==
    /\ at = "add" /\ ~AtEnd /\ bInsertMode
    /\ IF Length < nCurrentStringLength
       THEN LET rest == SubSeq(pszCurrentInput, nCursorPos + 1, Length) IN
            /\ shown' = Put(shown, column, <<Converted>> \o rest)
            /\ pszCurrentInput' =
                 SubSeq(pszCurrentInput, 1, nCursorPos) \o <<Converted>> \o rest
            /\ nCursorPos' = nCursorPos + 1 /\ column' = nCursorPos + 1
            /\ Continue
       ELSE GoTo("get_another_key") /\ chTemp' = Converted /\ UNCHANGED <<chAddAtEnd, text, screen>>
    /\ UNCHANGED <<field, bInsertMode, nKeysPressed, bCheckAutoEnter, wToReturn>>

Overwrite ==
    /\ at = "add" /\ ~AtEnd /\ ~bInsertMode
    /\ od_putch(Converted)
    /\ pszCurrentInput' = [pszCurrentInput EXCEPT ![nCursorPos + 1] = Converted]
    /\ nCursorPos' = nCursorPos + 1
    /\ Continue
    /\ UNCHANGED <<field, bInsertMode, nKeysPressed, bCheckAutoEnter, wToReturn>>

\* The character that is at the cursor now may have to be converted.
CheckCursorChar ==
    /\ at = "check_cursor_char" /\ GoTo("loop")
    /\ IF ~AtEnd /\ ODEditIsCharValidForPos(pszCurrentInput[nCursorPos + 1], nCursorPos)
       THEN LET c == ODEditAsCharForPos(pszCurrentInput[nCursorPos + 1], nCursorPos,
                                        pszCurrentInput)
            IN /\ chTemp' = c
               /\ pszCurrentInput' = [pszCurrentInput EXCEPT ![nCursorPos + 1] = c]
               /\ shown' = IF c = pszCurrentInput[nCursorPos + 1] THEN shown
                           ELSE Put(shown, column, <<c>>)
               /\ column' = IF c = pszCurrentInput[nCursorPos + 1] THEN column ELSE nCursorPos
       ELSE UNCHANGED <<chTemp, pszCurrentInput, screen>>
    /\ UNCHANGED <<field, nCursorPos, bInsertMode, chAddAtEnd, nKeysPressed, bCheckAutoEnter,
                   wToReturn>>
-----------------------------------------------------------------------------
(* The end *)

AllValid == \A pos \in 0..(Length - 1) :
                ODEditIsCharValidForPos(pszCurrentInput[pos + 1], pos)

\* The characters are converted from the first to the last, each by the one
\* before it as that has become.
Normal[i \in 1..Length] == ODEditAsCharForPos(pszCurrentInput[i], i - 1, Normal)

OnlyLiterals == Length > 0 /\ \A pos \in 0..(Length - 1) : IsLiteral(pos)

\* Mutant: what was typed is taken as it is.
AcceptUnconverted ==
    /\ at = "try_to_accept"
    /\ GoTo(IF (Is("FILL_STRING") => Length = nCurrentStringLength) /\ AllValid
            THEN "done" ELSE "keep_going")
    /\ UNCHANGED <<field, text, bInsertMode, char, nKeysPressed, bCheckAutoEnter, wToReturn,
                   screen>>

TryToAccept ==
    /\ at = "try_to_accept"
    /\ IF (Is("FILL_STRING") => Length = nCurrentStringLength) /\ AllValid
       THEN /\ GoTo("done")
            /\ pszCurrentInput' = IF Is("LEAVE_BLANK") /\ OnlyLiterals THEN << >>
                                  ELSE Normal
       ELSE GoTo("keep_going") /\ UNCHANGED pszCurrentInput
    /\ UNCHANGED <<field, nCursorPos, bInsertMode, char, nKeysPressed, bCheckAutoEnter,
                   wToReturn, screen>>

EditStep ==
    \/ Loop \/ KeepGoing
    \/ PressedRightArrow \/ PressedLeftArrow \/ PressedDelete
    \/ TryThisCharacter \/ Cancel \/ BackspaceAgain \/ KillWholeLine
    \/ AddAnotherKey \/ AddAtEnd \/ Insert \/ Overwrite \/ CheckCursorChar
    \/ TryToAccept

EditNext ==
    \/ EditStep \/ NoKey
    \/ \E c \in Chars : Type(c)
    \/ \E key \in Extended : Press(key)

\* The function goes on by itself between two keys.
EditSpec == Init /\ [][EditNext]_editVars /\ WF_editVars(EditStep)
-----------------------------------------------------------------------------
Labels == {"loop", "keep_going", "get_another_key", "pressed_right_arrow",
           "pressed_left_arrow", "pressed_delete", "try_this_character", "cancel",
           "backspace_again", "kill_whole_line", "add_another_key", "add",
           "check_cursor_char", "try_to_accept", "done"}

\* What is in a field: printable characters, if its format consists of codes.
Entered ==
    IF \A pos \in 0..(nCurrentStringLength - 1) : IsLiteral(pos) \/ Expected(pos) # "-"
    THEN Printable ELSE Chars

EditTypeOK ==
    /\ pszCurrentInput \in Seq(Entered) /\ szCurrentOriginalString \in Seq(Entered)
    /\ Length <= nCurrentStringLength /\ nCursorPos \in 0..nCurrentStringLength
    /\ {bInsertMode, bCheckAutoEnter} \subseteq BOOLEAN /\ nKeysPressed \in 0..2
    /\ {chTemp, chAddAtEnd} \subseteq Chars \cup {NUL}
    /\ at \in Labels /\ wToReturn \in {"none", "accept", "previous", "next", "cancel"}
    /\ column \in 0..nCurrentStringLength
    /\ DOMAIN shown = 1..(nCurrentStringLength + 1)

\* What a caller gets other than by cancelling fits the format, converted to
\* the last character and filled where it has to be; with leave-blank, literals
\* alone are no answer (ODEdStr.c:839-899, 974-1205).
AcceptedFitsFormat ==
    at = "done" /\ wToReturn # "cancel" =>
        /\ AllValid /\ pszCurrentInput = Normal
        /\ Is("FILL_STRING") =>
             Length = nCurrentStringLength \/ (Is("LEAVE_BLANK") /\ Length = 0)
        /\ Is("LEAVE_BLANK") => ~OnlyLiterals

LiteralsInPlace == \A pos \in 0..(Len(szCurrentOriginalString) - 1) :
    IsLiteral(pos) => szCurrentOriginalString[pos + 1] = Expected(pos)

\* Whenever a key is waited for, the screen shows the string, behind it blanks
\* and permanent literals only, and the cursor is at its position, after any
\* number of insertions, deletions and literals that came and went with them;
\* a string given to be edited has its permanent literals in their places
\* (ODEdStr.c:297-335, 409-499, 546-647, 672-833).
ShowsField ==
    at = "get_another_key" /\ (Is("PERMALITERAL") => LiteralsInPlace) =>
        /\ column = nCursorPos
        /\ SubSeq(shown, 1, Length) = pszCurrentInput
        /\ \A i \in (Length + 1)..Len(shown) : shown[i] \in {Blank, Background(i - 1)}

\* Between two keys the function does a finite amount of work.
KeysFinish == []<>(at \in {"get_another_key", "done"})
=============================================================================
