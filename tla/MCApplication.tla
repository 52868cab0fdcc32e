--------------------------- MODULE MCApplication ---------------------------
\* A session, a limit of two minutes of two ticks, fields of three positions
\* with a literal in the middle or in front, clocks of 24 milliseconds, and drop
\* files that are whole, lack a line, or end where one form of them ends, and a
\* window of one cell on screens that are wider and longer.
EXTENDS Application

Free(c) == [literal |-> FALSE, char |-> c]
Literal(c) == [literal |-> TRUE, char |-> c]

MCFormats == {<<Free("M"), Literal("-"), Free("*")>>, <<Literal("-"), Free("M"), Free("M")>>}
\* The arrays behind the format as they are at first, or after a longer format.
MCBeyond == {Free("#")}
MCFlagSets == {
    {"EDIT_STRING", "FIELD_MODE", "ALLOW_CANCEL"},
    {"STRICT_INPUT", "FILL_STRING"},
    {"EDIT_STRING", "AUTO_DELETE", "AUTO_ENTER"},
    {"EDIT_STRING", "PERMALITERAL", "AUTO_DELETE", "LEAVE_BLANK"},
    {"EDIT_STRING", "PERMALITERAL", "AUTO_ENTER", "FILL_STRING"}}

MCFiles ==
    [type : {"CHAINTXT"}, lines : 29..30] \union
    [type : {"DOORSYS"}, lines : {30, 31, 32, 36, 51, 52}] \union
    [type : {"DRWY"}, lines : 4..5] \union
    [type : {"SFDOORSDAT"}, lines : 31..39] \union
    [type : {"TRIBBSSYS"}, lines : 19..20]

MCSizes == {<<1, 3>>, <<2, 2>>}
MCAreas == {<<0, 0, 0, 0>>, <<0, 1, 0, 1>>}
MCMoves == {<<1, 0>>, <<0, -1>>}

\* A character that the next step does not look at any more.
CharacterIsPast == chAddAtEnd = Edit!NUL /\
    label \in {"loop", "keep_going", "get_another_key", "backspace_again",
               "pressed_delete", "try_to_accept", "done"}

\* What can matter, of the part that moves.
View ==
    CASE part = "session" -> <<part, vars>>
      [] part = "time" ->
            IF pass = "ended"
            THEN <<part, due, unpaid, pass, forced, Time!said, silent, od_disable_inactivity>>
            ELSE <<part, user_timelimit, due, unpaid, Time!activity, od_chat_active,
                   disTimeout, pass, behind, port, Time!said, silent>>
      [] part = "field" ->
            <<part, format, nFlags, Edit!text, bInsertMode,
              IF CharacterIsPast THEN Edit!NUL ELSE chTemp, chAddAtEnd,
              IF Edit!Is("AUTO_DELETE") THEN nKeysPressed ELSE 2, bCheckAutoEnter, label,
              IF label \in {"try_to_accept", "done"} THEN wToReturn ELSE "none", Edit!screen,
              IF label # "done" /\ Edit!Is("PERMALITERAL") THEN szCurrentOriginalString ELSE << >>>>
      [] part = "timer" -> <<part, tick, now, Start, Duration, state, wanted, age>>
      [] part = "file" ->
            <<part, dropFile, od_info_type, kept, stage, line, out, nErrorCode>>
      [] part = "screen" -> <<part, screenVars>>
=============================================================================
