------------------------------- MODULE Console -------------------------------
(***************************************************************************)
(* The text console (sgtk/swidgets/sconsole.c): a buffer of characters, a  *)
(* view of some of its rows, highlights, a cursor, and the picture of all  *)
(* that in an off-screen surface, which every operation brings up to date  *)
(* by drawing the region it thinks it has changed.  After a region is      *)
(* drawn the active console (sactiveconsole.c) lets the gadgets that lie   *)
(* in it paint themselves again.                                           *)
(*                                                                         *)
(* Operations are operators from a console, a record, to the next one.     *)
(* Every console of the program has a buffer as wide as its view: it       *)
(* scrolls up and down only.  Pixels, fonts and the shapes of what is      *)
(* drawn are abstracted to cells that show a character and a look.         *)
(***************************************************************************)
EXTENDS Integers, Sequences, FiniteSets, SequencesExt

CONSTANTS
    Width,       \* columns
    ViewHeight   \* rows of the view

ASSUME ConsoleAssumption == Width \in Nat \ {0} /\ ViewHeight \in Nat \ {0}

Blank == " "
Rect(x, y, w, h) == [x |-> x, y |-> y, w |-> w, h |-> h]
Hidden == Rect(0, 0, 0, 0)
Within(x, y, r) == x >= r.x /\ y >= r.y /\ x < r.x + r.w /\ y < r.y + r.h

\* Cells of the view, from its top left corner.
Cell == (0 .. Width - 1) \X (0 .. ViewHeight - 1)
Column(cell) == cell[1]
Row(c, cell) == cell[2] + c.top

Whole(c) == Rect(0, 0, Width, c.height)
BlankRow == [x \in 0 .. Width - 1 |-> Blank]
BlankText(c) == [y \in 0 .. c.height - 1 |-> BlankRow]

\* sc_console_init of a console that is not shown yet.
NewConsole(kind, height) ==
    [kind |-> kind, info |-> 0, height |-> height, text |-> [y \in 0 .. height - 1 |-> BlankRow], top |-> 0,
     cursor |-> Hidden, bright |-> FALSE, lights |-> <<>>, focus |-> FALSE,
     realized |-> FALSE, bar |-> 0,
     screen |-> [cell \in Cell |-> [ch |-> Blank, look |-> "normal"]],
     ignore |-> FALSE, spots |-> <<>>, current |-> 0,
     sensitive |-> TRUE, enabled |-> FALSE]

-----------------------------------------------------------------------------
(* Drawing. *)

\* The colour of a character: the last highlight on it, under the cursor.
Lit(c, x, y) == {k \in DOMAIN c.lights : Within(x, y, c.lights[k].at)}
Look(c, x, y) ==
    IF Within(x, y, c.cursor)
      THEN IF ~c.focus THEN "shadow" ELSE IF c.bright THEN "light" ELSE "cursor"
    ELSE IF Lit(c, x, y) # {} THEN c.lights[Max(Lit(c, x, y))].colour
    ELSE "normal"

Shown(c, cell) ==
    [ch |-> c.text[Row(c, cell)][Column(cell)], look |-> Look(c, Column(cell), Row(c, cell))]

\* _sc_ac_toggle_draw, for the gadget of spot s.
GadgetShown(c, s) ==
    [ch |-> IF c.spots[s].state THEN "x" ELSE "o",
     look |-> IF c.focus /\ c.current = s THEN "cursor" ELSE "normal"]

PaintGadget(c, s) ==
    [c EXCEPT !.screen =
        [cell \in Cell |-> IF Within(Column(cell), Row(c, cell), c.spots[s].at)
                             THEN GadgetShown(c, s) ELSE c.screen[cell]]]

\* _sc_active_console_paint_region: of two gadgets on a cell the last shows.
Overlap(a, b) ==
    /\ b.x <= a.x + a.w - 1 /\ a.x <= b.x + b.w - 1
    /\ b.y <= a.y + a.h - 1 /\ a.y <= b.y + b.h - 1
Gadgets(c, cell) ==
    {s \in DOMAIN c.spots : c.spots[s].gadget /\ Within(Column(cell), Row(c, cell), c.spots[s].at)}
PaintRegion(c, r) ==
    LET Painted(cell) == {s \in Gadgets(c, cell) : Overlap(r, c.spots[s].at)}
    IN  [c EXCEPT !.screen =
            [cell \in Cell |-> IF Painted(cell) # {} THEN GadgetShown(c, Max(Painted(cell)))
                               ELSE c.screen[cell]]]

\* _sc_console_draw_region: one of no width covers a column to its left.
Between(p, from, n) == p \in from .. from + n - 1 \/ p \in from + n - 1 .. from
Covers(r, x, y) == Between(x, r.x, r.w) /\ Between(y, r.y, r.h)
DrawRegion(c, r) ==
    LET drawn == {cell \in Cell : Covers(r, Column(cell), Row(c, cell))}
    IN  IF ~c.realized \/ drawn = {} THEN c
        ELSE PaintRegion([c EXCEPT !.screen =
                [cell \in Cell |-> IF cell \in drawn THEN Shown(c, cell) ELSE c.screen[cell]]], r)

\* _sc_console_draw_vert_scroll.
DrawBar(c) == IF c.realized THEN [c EXCEPT !.bar = c.top] ELSE c
DrawAll(c) == DrawRegion(DrawBar(c), Whole(c))

\* _sc_drawbuf_configure, then _sc_console_configure.
Configured(c) == DrawAll([c EXCEPT !.realized = TRUE])

-----------------------------------------------------------------------------
(* The view. *)

ScrollTo(c, row) == DrawAll([c EXCEPT !.top = row])
LastTop(c) == c.height - ViewHeight

LineUp(c) == IF c.top > 0 THEN ScrollTo(c, c.top - 1) ELSE DrawAll(c)
LineDown(c) == IF c.top < LastTop(c) THEN ScrollTo(c, c.top + 1) ELSE c
PageUp(c) ==
    IF c.top > 0 THEN ScrollTo(c, IF c.top < ViewHeight THEN 0 ELSE c.top - ViewHeight) ELSE c
PageDown(c) ==
    IF c.top < LastTop(c)
      THEN ScrollTo(c, IF c.top + ViewHeight > LastTop(c) THEN LastTop(c) ELSE c.top + ViewHeight)
      ELSE c

-----------------------------------------------------------------------------
(* The cursor. *)

\* _sc_console_lock_view_to_cursor.
LockView(c) ==
    IF c.cursor.y < c.top THEN ScrollTo(c, c.cursor.y)
    ELSE IF c.cursor.y + c.cursor.h > c.top + ViewHeight
      THEN ScrollTo(c, c.cursor.y - (ViewHeight - c.cursor.h))
    ELSE c

\* Fault: the cursor's old place is not drawn again.
SetCursorOnly(c, r) ==
    DrawRegion(LockView([c EXCEPT !.cursor = r]), r)

SetCursor(c, r) ==
    DrawRegion(DrawRegion(LockView([c EXCEPT !.cursor = r]), c.cursor), r)

SetHighlighted(c, on) ==
    IF c.bright = on THEN c ELSE DrawRegion([c EXCEPT !.bright = on], c.cursor)

\* _sc_console_draw_focus and _sc_console_undraw_focus.
FocusDrawn(c, has) == DrawRegion([c EXCEPT !.focus = has], c.cursor)

-----------------------------------------------------------------------------
(* Highlights and text. *)

HighlightAttach(c, colour, r) ==
    DrawRegion([c EXCEPT !.lights = Append(@, [colour |-> colour, at |-> r])], r)

HighlightDetach(c) == DrawRegion([c EXCEPT !.lights = Front(@)], Last(c.lights).at)
HighlightDetachAll(c) ==
    LET left[k \in 0 .. Len(c.lights)] == IF k = 0 THEN c ELSE HighlightDetach(left[k - 1])
    IN  left[Len(c.lights)]

\* sc_console_write_line: cut at the right.  A line that begins left of the
\* buffer is not written at all: the loop that should skip its first
\* characters runs to its end.
WriteLine(c, x, y, line) ==
    LET n == IF x + Len(line) > Width THEN Width - x ELSE Len(line)
    IN  IF y \notin 0 .. c.height - 1 \/ x < 0 \/ n <= 0 THEN c
        ELSE LET written == [row \in DOMAIN c.text |-> [k \in DOMAIN c.text[row] |->
                                IF row = y /\ k \in x .. x + n - 1 THEN line[k - x + 1]
                                ELSE c.text[row][k]]]
             IN  DrawRegion([c EXCEPT !.text = written], Rect(x, y, n, 1))

\* sc_console_clear.
Clear(c) ==
    LET d == HighlightDetachAll([c EXCEPT !.text = BlankText(c)])
    IN  DrawRegion(d, Whole(d))

\* sc_console_init once more: buffer, view and highlights.
Reinit(c) == Clear([c EXCEPT !.text = BlankText(c), !.top = 0, !.lights = <<>>])

=============================================================================
