---------------------------- MODULE ActiveConsole ----------------------------
(***************************************************************************)
(* The active console (sgtk/swidgets/sactiveconsole.c): a console with     *)
(* spots that the keyboard and the mouse select.  A spot tells whoever     *)
(* listens when it is entered, left, selected or hit by a key or button,   *)
(* and the listener may write on the console, repaint all of it, replace   *)
(* its spots or destroy it, from inside the signal.                        *)
(*                                                                         *)
(* Five kinds of console of the game are modelled with their listeners:    *)
(*   "pane"    the weapons and accessories of the inventory window, which  *)
(*             scroll, repaint when a key or button buys or sells, and     *)
(*             describe the entered row in another console (info);         *)
(*   "list"    guidance and shields of the auto defense window: entering   *)
(*             a row chooses it (info), losing the focus keeps the choice; *)
(*   "menu"    the main menu and the buttons that close a window;          *)
(*   "toggle"  the contact trigger gadget of the auto defense window;      *)
(*   "status"  the status bar: no keyboard, and the game may rewrite it    *)
(*             at any time.                                                *)
(* "gone" is no console: the window was closed.                            *)
(***************************************************************************)
EXTENDS Console

CONSTANTS
    PaneHeight,   \* rows of a pane or a list
    Glyphs,       \* characters that are written
    MaxButtons    \* mouse buttons held at once

ASSUME ActiveConsoleAssumption ==
    /\ PaneHeight \in Nat /\ PaneHeight >= ViewHeight /\ Width >= 2 /\ ViewHeight >= 2
    /\ Glyphs # {} /\ MaxButtons \in Nat

VARIABLES
    cons,    \* the console; its info is the spot described or chosen, 0 none
    down     \* mouse buttons held since they were pressed on the console

vars == <<cons, down>>

Kinds == {"pane", "list", "menu", "toggle", "status"}
Keyboard(c) == c.kind # "status"
Scrolls(c) == c.height > ViewHeight
Spot(c) == c.spots[c.current]
Line(glyph) == [k \in 1 .. Width |-> glyph]
RowRect(y) == Rect(0, y, Width, 1)

-----------------------------------------------------------------------------
(* Spots. *)

\* The listeners of enter_spot and leave_spot.
Enter(c, force) ==
    IF (force \/ c.focus) /\ c.current # 0 /\ c.kind \in {"pane", "list"}
      THEN [c EXCEPT !.info = c.current] ELSE c
Leave(c, force) ==
    IF (force \/ c.focus) /\ c.current # 0 /\ c.kind = "pane"
      THEN [c EXCEPT !.info = 0] ELSE c

\* The cursor follows only when a first spot becomes the current one.
AppendSpot(c, at, gadget) ==
    LET d == [c EXCEPT !.spots = Append(@, [at |-> at, gadget |-> gadget, state |-> FALSE])]
        e == Enter([d EXCEPT !.current = 1], FALSE)
    IN  IF c.current # 0 THEN d ELSE IF Keyboard(c) THEN SetCursor(e, at) ELSE e
AddSpot(c, at) == AppendSpot(c, at, FALSE)
AddGadgetSpot(c, at) == AppendSpot(c, at, TRUE)

\* Fault: the cursor stays.
DetachSpotLit(c) == [Leave([c EXCEPT !.current = 0], FALSE) EXCEPT !.spots = Front(@)]

\* The current spot is forgotten before its leave_spot, which is never sent.
DetachSpot(c) ==
    LET d == SetHighlighted(SetCursor(Leave([c EXCEPT !.current = 0], FALSE), Hidden), FALSE)
    IN  [d EXCEPT !.spots = Front(@)]
DetachAllSpots(c) ==
    LET left[k \in 0 .. Len(c.spots)] == IF k = 0 THEN c ELSE DetachSpot(left[k - 1])
    IN  left[Len(c.spots)]

\* gtk_widget_has_focus is true when focus_in_event runs, false in focus_out.
FocusIn(c) == Enter(FocusDrawn(c, TRUE), TRUE)
FocusOut(c) == Leave(FocusDrawn(c, FALSE), TRUE)
GrabFocus(c) == IF c.focus THEN c ELSE FocusIn(c)
SetSensitive(c, on) ==
    [(IF c.focus /\ ~on THEN FocusOut(c) ELSE c) EXCEPT !.sensitive = on]

-----------------------------------------------------------------------------
(* What the listeners do. *)

Gone == [NewConsole("gone", ViewHeight) EXCEPT !.sensitive = FALSE]

\* _sc_inventory_weapon_paint_gtk and _sc_inventory_accessory_paint_gtk.
PaintRow(c, glyph, disabled, y) ==
    LET d == WriteLine(c, 0, y, Line(glyph))
    IN  IF y \in disabled THEN HighlightAttach(d, "disabled", RowRect(y)) ELSE d
Repaint(c, glyph, disabled) ==
    LET painted[n \in 0 .. c.height] ==
            IF n = 0 THEN HighlightDetachAll(c) ELSE PaintRow(painted[n - 1], glyph, disabled, n - 1)
    IN  painted[c.height]
Repainted(c) == {Repaint(c, g, rows) : g \in Glyphs, rows \in SUBSET (0 .. c.height - 1)}

\* _sc_ac_toggle_key and _sc_ac_toggle_button.
Toggled(c) ==
    LET d == [c EXCEPT !.spots[c.current].state = ~@]
    IN  IF d.realized THEN PaintGadget(d, d.current) ELSE d

\* sc_status_update, sc_status_player_message and sc_status_message.
StatusLine(c, glyph, lit) ==
    WriteLine(IF lit THEN HighlightAttach(c, "player", RowRect(0)) ELSE c, 0, 0, Line(glyph))
StatusLines(c) == {StatusLine(c, g, lit) : g \in Glyphs, lit \in BOOLEAN}
ResetState(c, on) == Clear(DetachAllSpots([SetSensitive(c, on) EXCEPT !.enabled = on]))
WithSpots(c) == AddSpot(AddSpot(c, Rect(0, 0, 1, 1)), Rect(1, 1, 1, 1))
Updated(c) ==
    LET written == StatusLines(ResetState(c, TRUE))
    IN  written \cup {WithSpots(d) : d \in written}
Messaged(c) == StatusLines(ResetState(c, FALSE))

\* select_spot: the console after it, and whether it was handled.
Select(c) ==
    LET handled == CASE c.kind = "menu" -> {c, Gone}
                     [] c.kind = "status" -> {c} \cup Updated(c)
                     [] OTHER -> {}
    IN  {[cons |-> c, done |-> FALSE]} \cup {[cons |-> d, done |-> TRUE] : d \in handled}

\* key_press_spot and button_press_spot.
KeySpot(c) ==
    {c} \cup (IF c.kind = "pane" THEN Repainted(c) ELSE {})
        \cup (IF c.kind = "toggle" THEN {Toggled(c)} ELSE {})
        \cup (IF c.kind \in {"list", "menu", "toggle"} THEN {Gone} ELSE {})
ButtonSpot(c) ==
    {c} \cup (IF c.kind = "pane" THEN Repainted(c) ELSE {})
        \cup (IF c.kind = "toggle" THEN {Toggled(c)} ELSE {})

-----------------------------------------------------------------------------
(* Windows that open. *)

\* A console as its window leaves it: attached to the screen, which realizes
\* it now or later, with its spots, then painted.  A list has row 0 chosen.
Rows(c) ==
    LET rows[n \in 0 .. c.height] == IF n = 0 THEN c ELSE AddSpot(rows[n - 1], RowRect(n - 1))
    IN  rows[c.height]
AGlyph == CHOOSE g \in Glyphs : TRUE
PanesOpened ==
    LET c == NewConsole("pane", PaneHeight)
    IN  Repainted(Rows(c)) \cup Repainted(Rows(Configured(c)))
ListOpened == Rows([NewConsole("list", PaneHeight) EXCEPT !.info = 1])
\* The menu writes its rows first.
MenuOpened == AddSpot(WriteLine(NewConsole("menu", ViewHeight), 0, 1, Line(AGlyph)), RowRect(1))
ToggleOpened ==
    LET titled == WriteLine(NewConsole("toggle", ViewHeight), 0, 0, Line(AGlyph))
    IN  AddGadgetSpot(HighlightAttach(titled, "title", RowRect(0)), Rect(0, 1, 1, 1))
\* The status bar starts without spots.
StatusOpened ==
    LET c == NewConsole("status", ViewHeight)
    IN  {SetSensitive(c, FALSE), SetSensitive(Configured(c), FALSE)}
Opened ==
    PanesOpened \cup {ListOpened, MenuOpened} \cup StatusOpened
        \cup {SetSensitive(ToggleOpened, on) : on \in BOOLEAN}

Init ==
    /\ cons \in Opened
    /\ down = 0

Open ==
    /\ cons.kind = "gone"
    /\ down = 0
    /\ cons' \in Opened
    /\ UNCHANGED down

Configure ==
    /\ cons.kind # "gone"
    /\ cons' = Configured(cons)
    /\ UNCHANGED down

-----------------------------------------------------------------------------
(* Events.  An insensitive console receives none. *)

Focus ==
    /\ cons.sensitive
    /\ cons' = IF cons.focus THEN FocusOut(cons) ELSE FocusIn(cons)
    /\ UNCHANGED down

Scroll ==
    /\ cons.sensitive /\ cons.focus
    /\ cons' \in {PageUp(cons), PageDown(cons)}
    /\ UNCHANGED down

MoveTo(c, s) ==
    LET d == Enter([Leave(c, FALSE) EXCEPT !.current = s], FALSE)
    IN  SetCursor(d, Spot(d).at)

KeyTarget ==
    cons.sensitive /\ cons.focus /\ cons.current # 0 /\ Keyboard(cons)

KeyMove ==
    /\ KeyTarget
    /\ LET n == Len(cons.spots)
       IN  cons' \in {MoveTo(cons, IF cons.current = 1 THEN n ELSE cons.current - 1),
                      MoveTo(cons, IF cons.current = n THEN 1 ELSE cons.current + 1)}
    /\ UNCHANGED down

KeySelect ==
    /\ KeyTarget
    /\ \E r \in Select(cons) :
           IF r.done THEN cons' = r.cons ELSE cons' \in KeySpot(r.cons)
    /\ UNCHANGED down

KeyOther ==
    /\ KeyTarget
    /\ cons' \in KeySpot(cons)
    /\ UNCHANGED down

\* Return on a window's default console.
Activate ==
    /\ cons.sensitive /\ cons.current # 0
    /\ \E r \in Select(cons) : cons' = r.cons
    /\ UNCHANGED down

SpotAt(c, x, y) == SelectInSeq(c.spots, LAMBDA s : Within(x, y, s.at))

\* A press on the scroll bar: its arrows, the trough and the slider.
PressBar ==
    /\ cons.sensitive /\ Scrolls(cons) /\ down < MaxButtons
    /\ \E c \in {LineUp(cons), LineDown(cons), PageUp(cons), PageDown(cons), cons} :
           cons' = [c EXCEPT !.ignore = TRUE]
    /\ down' = down + 1

Pressed(c, x, y) ==
    LET s == SpotAt(c, x, y)
    IN  IF c.current = 0 \/ s = 0 THEN {c}
        ELSE ButtonSpot(SetHighlighted(MoveTo(c, s), TRUE))

Press ==
    /\ cons.sensitive /\ down < MaxButtons
    /\ \E cell \in Cell : cons' \in Pressed(GrabFocus(cons), Column(cell), Row(cons, cell))
    /\ down' = down + 1

PressOutside ==
    /\ cons.sensitive /\ down < MaxButtons
    /\ cons' = GrabFocus(cons)
    /\ down' = down + 1

\* The button comes up over a cell of the view, or outside of it: then the
\* position is whatever the two uninitialized variables hold.
Lifted(c) == SetHighlighted(SetCursor(c, IF Keyboard(c) THEN Spot(c).at ELSE Hidden), FALSE)
ReleaseOver(c, s) ==
    \/ s = 0 /\ cons' = c
    \/ s # 0 /\ s # c.current /\ cons' = c
    \/ s # 0 /\ s = c.current /\ \E r \in Select(c) : cons' = r.cons

Release ==
    /\ down > 0 /\ cons.sensitive
    /\ IF cons.ignore
         THEN cons' = [cons EXCEPT !.ignore = FALSE]
         ELSE LET c == GrabFocus(cons)
              IN  IF c.current = 0 THEN cons' = c
                  ELSE \E s \in 0 .. Len(c.spots) : ReleaseOver(Lifted(c), s)
    /\ down' = down - 1

\* An insensitive or closed console hears nothing of it.
ReleaseLost ==
    /\ down > 0 /\ ~cons.sensitive
    /\ down' = down - 1
    /\ UNCHANGED cons

-----------------------------------------------------------------------------
(* The game rewrites the status bar. *)

StatusUpdate ==
    /\ cons.kind = "status"
    /\ cons' \in Updated(cons) \cup Messaged(cons)
    /\ UNCHANGED down

\* sc_status_setup: the spots stay, none of them is current.
StatusSetup ==
    /\ cons.kind = "status"
    /\ cons' = SetCursor(Reinit(SetSensitive([cons EXCEPT !.current = 0], FALSE)), Hidden)
    /\ UNCHANGED down

\* sc_status_suspend and sc_status_resume.
StatusSuspend ==
    /\ cons.kind = "status"
    /\ \E on \in {FALSE, cons.enabled} : cons' = SetSensitive(cons, on)
    /\ UNCHANGED down

Next ==
    \/ Open \/ Configure \/ Focus \/ Scroll \/ KeyMove \/ KeySelect \/ KeyOther
    \/ Activate \/ PressBar \/ Press \/ PressOutside \/ Release \/ ReleaseLost
    \/ StatusUpdate \/ StatusSetup \/ StatusSuspend

Spec == Init /\ [][Next]_vars

-----------------------------------------------------------------------------
(* Properties. *)

Live == cons.kind # "gone"

\* The console is well formed: the view lies in the buffer, the current spot
\* is a spot, every highlight and spot lies in the buffer.
ConsoleTypeOK ==
    /\ cons.kind \in Kinds \cup {"gone"} /\ down \in 0 .. MaxButtons
    /\ cons.top \in 0 .. LastTop(cons) /\ cons.bar \in 0 .. LastTop(cons)
    /\ cons.current \in 0 .. Len(cons.spots) /\ cons.info \in 0 .. PaneHeight
    /\ DOMAIN cons.text = 0 .. cons.height - 1
    /\ \A at \in {light.at : light \in Range(cons.lights)} \cup {spot.at : spot \in Range(cons.spots)} :
          at.x >= 0 /\ at.y >= 0 /\ at.x + at.w <= Width /\ at.y + at.h <= cons.height

\* What is on the screen is what a repaint of everything would draw: the
\* regions that the operations redraw one by one, the cursor's old and new
\* place, a detached highlight, a scrolled view, miss nothing, and no region
\* wipes out a gadget (_sc_console_draw_region and its callers).
ScreenTrue ==
    cons.realized => /\ cons.screen = DrawAll(cons).screen
                     /\ cons.bar = cons.top

\* What is shown of the current spot is true.  The cursor is on it or nowhere;
\* with a keyboard it is nowhere only without spots, and lit only while a
\* button is held.  The description below a pane is that of its current row
\* while the pane has the focus and blank otherwise; the choice of a list is
\* its current row: enter_spot and leave_spot come in pairs.  (Stated with the
\* types: views, spots and highlights lie within the buffer.)
CursorOnSpot ==
    /\ ConsoleTypeOK
    /\ Live => /\ cons.cursor # Hidden => cons.current # 0 /\ cons.cursor = Spot(cons).at
               /\ Keyboard(cons) /\ cons.spots # <<>> => cons.cursor # Hidden
               /\ Keyboard(cons) /\ cons.bright => down > 0
    /\ cons.kind = "pane" => cons.info = IF cons.focus THEN cons.current ELSE 0
    /\ cons.kind = "list" => cons.info = cons.current
=============================================================================
