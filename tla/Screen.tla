------------------------------- MODULE Screen ------------------------------
(***************************************************************************)
(* How text reaches the operator's window (src/src/ODScrn.c, the graphical *)
(* Windows build in a remote session).  Output goes to the session screen, *)
(* which is as large as the caller's; the part of it that fits is copied   *)
(* to the local screen when it is presented, where it became dirty; at the *)
(* boundary of an API call the local screen is published, and the frame's  *)
(* thread paints what was published in its window.                         *)
(*                                                                         *)
(* A cell is <<column, row>>, counted from zero, and holds a mark or is    *)
(* blank: contents are only copied, and two of them tell any two cells     *)
(* apart.  A buffer is the set of the cells that hold a mark.  The session *)
(* screen's boundary is the whole of it, since nothing narrows it, and it  *)
(* scrolls whenever the flow is between two operations.  The library's own *)
(* windows and messages on the local screen are left out, as is a call of  *)
(* od_disp_emu from a callback of another.                                 *)
(***************************************************************************)
EXTENDS Integers

CONSTANTS
    OD_SCREEN_WIDTH, OD_SCREEN_HEIGHT,  \* of the local screen
    Sizes,                              \* sizes of session screens: <<width, height>>
    TabStop,
    Areas, Moves                        \* rectangles that are put or copied, and how far

ScreenAssumption ==
    /\ OD_SCREEN_WIDTH \in Nat \ {0} /\ OD_SCREEN_HEIGHT \in Nat \ {0}
    /\ \A s \in Sizes : s[1] \in Nat /\ s[1] >= OD_SCREEN_WIDTH
                        /\ s[2] \in Nat /\ s[2] >= OD_SCREEN_HEIGHT
    /\ TabStop \in Nat \ {0}
    /\ \A r \in Areas : r \in Int \X Int \X Int \X Int
    /\ \A d \in Moves : d \in Int \X Int

VARIABLES
    size,            \* of the session screen
    session,         \* its cells, its cursor, its dirty rectangle
    emulating,       \* bSessionScreenEmulating: od_disp_emu is under way
    call,            \* where the application's flow is, and where it was when it
    resume,          \* gave up the API level to wait
    local,           \* pScrnBuffer, the cursor in it and whether the caret is on
    bScreenDirty,
    display,         \* pDisplayBuffer, with the cursor and caret of its generation
    hwndScreenWindow, \* TRUE once the window exists
    invalid,         \* the cells of the window that Windows wants painted
    painting,        \* the cells that the paint under way will draw
    window           \* what the operator sees, without what is to be painted over

screenVars ==
    <<size, session, emulating, call, resume, local, bScreenDirty, display,
      hwndScreenWindow, invalid, painting, window>>
applicationSide == <<size, session, emulating, call, resume, local, bScreenDirty>>
frameSide == <<hwndScreenWindow, invalid, painting, window>>

\* A rectangle is <<left, top, right, bottom>>.
Cells(r) == (r[1]..r[3]) \X (r[2]..r[4])
Screen == <<0, 0, size[1] - 1, size[2] - 1>>
View == Cells(<<0, 0, OD_SCREEN_WIDTH - 1, OD_SCREEN_HEIGHT - 1>>)
None == <<0, 0, -1, -1>>  \* no rectangle: it has no cell
Hidden == <<"hidden">>  \* where a caret is that is off
Nothing == [cells |-> {}, caret |-> Hidden]

Lesser(a, b) == IF b < a THEN b ELSE a
Greater(a, b) == IF b > a THEN b ELSE a

ScreenInit ==
    /\ size \in Sizes
    /\ session = [cells |-> {}, cursor |-> <<0, 0>>, dirty |-> None]
    /\ emulating = FALSE
    /\ call = "outside" /\ resume = "outside"
    /\ local = [cells |-> {}, caret |-> <<0, 0>>]
    /\ bScreenDirty = FALSE
    /\ display = local
    /\ hwndScreenWindow = FALSE
    /\ invalid = {} /\ painting = {}
    /\ window = Nothing
---------------------------------------------------------------------------
(* The session screen. *)

\* Mutant: what is dirty already does not grow upwards.
MarkDirtyBelow(s, r) ==
    [s EXCEPT !.dirty = IF @ = None THEN r
                        ELSE <<Lesser(@[1], r[1]), @[2],
                               Greater(@[3], r[3]), Greater(@[4], r[4])>>]

MarkDirty(s, r) ==
    [s EXCEPT !.dirty = IF @ = None THEN r
                        ELSE <<Lesser(@[1], r[1]), Lesser(@[2], r[2]),
                               Greater(@[3], r[3]), Greater(@[4], r[4])>>]

\* A rectangle gets new contents and becomes dirty.
Write(s, r, marks) ==
    MarkDirty([s EXCEPT !.cells = (@ \ Cells(r)) \union marks], r)

\* Cells that are to the right of others, and below them.
Shift(cells, right, down) == {<<c[1] + right, c[2] + down>> : c \in cells}

ScrollUpOneLine(s) == Write(s, Screen, {c \in Shift(s.cells, 0, -1) : c[2] >= 0})

LineDown(s) ==
    IF s.cursor[2] = size[2] - 1 THEN ScrollUpOneLine(s)
    ELSE [s EXCEPT !.cursor[2] = @ + 1]

\* The cursor's column advances; past the right edge it goes to the next line.
MoveTo(s, column) ==
    IF column < size[1] THEN [s EXCEPT !.cursor[1] = column]
    ELSE LineDown([s EXCEPT !.cursor[1] = 0])

DisplayChar(s, ch) ==
    CASE ch = "CR" -> [s EXCEPT !.cursor[1] = 0]
      [] ch = "LF" -> LineDown(s)
      [] ch = "BS" -> [s EXCEPT !.cursor[1] = IF @ = 0 THEN 0 ELSE @ - 1]
      [] ch = "HT" -> MoveTo(s, (s.cursor[1] \div TabStop + 1) * TabStop)
      [] OTHER -> LET at == <<s.cursor[1], s.cursor[2], s.cursor[1], s.cursor[2]>>
                    IN  MoveTo(Write(s, at, {s.cursor}), s.cursor[1] + 1)

Clear(s) == [Write(s, Screen, {}) EXCEPT !.cursor = <<0, 0>>]
ClearToEndOfLine(s) ==
    Write(s, <<s.cursor[1], s.cursor[2], size[1] - 1, s.cursor[2]>>, {})

Inside(r) == 0 <= r[1] /\ 0 <= r[2] /\ r[3] < size[1] /\ r[4] < size[2]
PutText(s, r, marks) == IF Inside(r) THEN Write(s, r, marks) ELSE s

\* The rows are copied in an order in which none is overwritten before its turn.
CopyText(s, r, right, down) ==
    LET dest == <<r[1] + right, r[2] + down, r[3] + right, r[4] + down>>
    IN  IF Inside(r) /\ Inside(dest)
        THEN Write(s, dest, Shift(s.cells \intersect Cells(r), right, down))
        ELSE s
---------------------------------------------------------------------------
(* The application's flow. *)

\* The session screen is shown locally, where it changed and as far as it fits.
Presented ==
    LET visible == View \intersect Cells(session.dirty)
        caret == IF session.cursor \in View THEN session.cursor ELSE Hidden
    IN  /\ local' = [cells |-> (local.cells \ visible) \union (session.cells \intersect visible),
                     caret |-> caret]
        /\ session' = [session EXCEPT !.dirty = None]
        /\ bScreenDirty' = (bScreenDirty \/ visible # {} \/ caret # Hidden
                                \/ local.caret # Hidden)

\* A publication exchanges the buffers and copies the new one back.
Publish ==
    IF bScreenDirty
    THEN /\ display' = local
         /\ bScreenDirty' = FALSE
         /\ IF hwndScreenWindow
            THEN invalid' = View /\ window' = Nothing
            ELSE UNCHANGED <<invalid, window>>
         /\ UNCHANGED <<local, hwndScreenWindow, painting>>
    ELSE UNCHANGED <<local, bScreenDirty, display, frameSide>>

Enter ==
    /\ call = "outside" /\ call' = "called"
    /\ UNCHANGED <<size, session, emulating, resume, local, bScreenDirty, display, frameSide>>

Changed(s) ==
    /\ call \in {"called", "drawn"} /\ call' = "drawn"
    /\ session' = s
    /\ UNCHANGED <<size, emulating, resume, local, bScreenDirty, display, frameSide>>

Draw ==
    \/ \E ch \in {"mark", "CR", "LF", "BS", "HT"} : Changed(DisplayChar(session, ch))
    \/ Changed(Clear(session))
    \/ Changed(ClearToEndOfLine(session))
    \/ \E r \in Areas : Changed(PutText(session, r, Cells(r)))
    \/ \E r \in Areas, d \in Moves : Changed(CopyText(session, r, d[1], d[2]))
    \/ \E c \in Cells(Screen) : Changed([session EXCEPT !.cursor = c])

\* A function that draws ends with this; in od_disp_emu it has no effect.
Present ==
    /\ call = "drawn" /\ ~emulating
    /\ call' = "called"
    /\ Presented
    /\ UNCHANGED <<size, emulating, resume, display, frameSide>>

BeginEmulation ==
    /\ call = "called" /\ ~emulating
    /\ emulating' = TRUE /\ call' = "drawn"
    /\ UNCHANGED <<size, session, resume, local, bScreenDirty, display, frameSide>>

EndEmulation ==
    /\ call = "drawn" /\ call' = "called"
    /\ emulating /\ emulating' = FALSE
    /\ Presented
    /\ UNCHANGED <<size, resume, display, frameSide>>

Return ==
    /\ call = "called" /\ ~emulating
    /\ call' = "outside"
    /\ Publish
    /\ UNCHANGED <<size, session, emulating, resume>>

\* The API level is given up: for a key, or for a pause in what od_disp_emu shows.
Release ==
    /\ call \in {"called", "drawn"}
    /\ call' = "waiting" /\ resume' = call
    /\ Publish
    /\ UNCHANGED <<size, session, emulating>>

Reacquire ==
    /\ call = "waiting" /\ call' = resume /\ resume' = "outside"
    /\ UNCHANGED <<size, session, emulating, local, bScreenDirty, display, frameSide>>
---------------------------------------------------------------------------
(* The frame's thread, and Windows. *)

\* A window that comes into being wants to be painted, with anything in it.
CreateWindow ==
    /\ ~hwndScreenWindow /\ hwndScreenWindow' = TRUE
    /\ invalid' = View /\ window' = Nothing
    /\ UNCHANGED <<applicationSide, display, painting>>

\* The window was covered or minimized, and what was in it is gone.
Uncover ==
    /\ hwndScreenWindow
    /\ invalid' = View /\ window' = Nothing
    /\ UNCHANGED <<applicationSide, display, hwndScreenWindow, painting>>

\* Windows counts them as painted from here on.
BeginPaint ==
    /\ painting = {} /\ invalid # {}
    /\ painting' = invalid
    /\ invalid' = {}
    /\ UNCHANGED <<applicationSide, display, hwndScreenWindow, window>>

\* It is drawn under ScreenPresentationMutex.
Paint ==
    /\ painting # {} /\ painting' = {}
    /\ window' = [cells |-> (window.cells \ painting) \union (display.cells \intersect painting),
                  caret |-> display.caret]
    /\ UNCHANGED <<applicationSide, display, hwndScreenWindow, invalid>>

ScreenNext ==
    \/ Enter \/ Draw \/ Present \/ BeginEmulation \/ EndEmulation
    \/ Return \/ Release \/ Reacquire
    \/ CreateWindow \/ Uncover \/ BeginPaint \/ Paint

ScreenSpec == ScreenInit /\ [][ScreenNext]_screenVars
---------------------------------------------------------------------------
Generation == [cells : SUBSET View, caret : View \union {Hidden}]

ScreenTypeOK ==
    /\ size \in Sizes
    /\ session.cells \subseteq Cells(Screen) /\ session.cursor \in Cells(Screen)
    /\ session.dirty = None \/ Inside(session.dirty)
    /\ emulating \in BOOLEAN /\ bScreenDirty \in BOOLEAN /\ hwndScreenWindow \in BOOLEAN
    /\ call \in {"outside", "called", "drawn", "waiting"}
    /\ resume \in {"outside", "called", "drawn"}
    /\ local \in Generation /\ display \in Generation /\ window \in Generation
    /\ invalid \in SUBSET View /\ painting \in SUBSET View

\* The flow is where what it drew has been presented and published.
UpToDate == call = "outside" \/ (call = "waiting" /\ resume = "called" /\ ~emulating)

\* The operator's window shows the caller's screen, as far as it fits (ODScrn.c,
\* ODSessionScreenPresent and ODScrnPublish; docs/guides/terminal-screen.md):
\* what was published when a call ended or waits is the corner of the session
\* screen with its cursor, and the window shows what was published, but for the
\* cells that are still to be painted, and with its caret when none is.
WindowShowsSession ==
    /\ UpToDate =>
          /\ display.cells = session.cells \intersect View
          /\ display.caret = IF session.cursor \in View THEN session.cursor ELSE Hidden
    /\ hwndScreenWindow =>
          /\ window.cells \ (invalid \union painting) = display.cells \ (invalid \union painting)
          /\ invalid \union painting = {} => window.caret = display.caret
=============================================================================
