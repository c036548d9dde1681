---------------------------- MODULE ConsoleProofs ----------------------------
(***************************************************************************)
(* What holds of the picture, the cursor and the spots of a console for    *)
(* every size, every text and every number of mouse buttons.               *)
(***************************************************************************)
EXTENDS ActiveConsole, TLAPS, WellFoundedInduction, NaturalsInduction, SequenceTheorems

\* The rectangles of a buffer of so many rows, none of them empty.
Area(rows) ==
    {r \in [x : Int, y : Int, w : Int, h : Int] :
        /\ r.x >= 0 /\ r.y >= 0 /\ r.w >= 1 /\ r.h >= 1
        /\ r.x + r.w <= Width /\ r.y + r.h <= rows}

Char == Glyphs \cup {Blank}
Light(rows) == [colour : {"title", "player", "disabled"}, at : Area(rows)]
SpotOf(rows) == [at : Area(rows), gadget : BOOLEAN, state : BOOLEAN]

\* The record of a console.
Typed(c) ==
    /\ c.height \in Nat /\ c.height >= ViewHeight
    /\ c \in [kind : Kinds \cup {"gone"}, info : Nat, height : Nat,
              text : [0 .. c.height - 1 -> [0 .. Width - 1 -> Char]],
              top : 0 .. c.height - ViewHeight, cursor : Area(c.height) \cup {Hidden},
              bright : BOOLEAN, lights : Seq(Light(c.height)), focus : BOOLEAN,
              realized : BOOLEAN, bar : 0 .. c.height - ViewHeight, screen : {c.screen},
              ignore : BOOLEAN, spots : Seq(SpotOf(c.height)), current : Nat,
              sensitive : BOOLEAN, enabled : BOOLEAN]
    /\ c.screen = [cell \in Cell |-> c.screen[cell]]

\* A toggle has no spot but its gadget, which is not in the corner; no other
\* console has a gadget.
SpotsSound(c) ==
    /\ c.current <= Len(c.spots)
    /\ \A s \in DOMAIN c.spots :
          /\ c.spots[s].gadget <=> c.kind = "toggle"
          /\ c.kind = "toggle" => s = 1 /\ ~Within(0, 0, c.spots[s].at)

Sound(c) == Typed(c) /\ SpotsSound(c)

\* What a cell of the view should show.
Picture(c, cell) ==
    IF Gadgets(c, cell) # {} THEN GadgetShown(c, Max(Gadgets(c, cell))) ELSE Shown(c, cell)

\* The screen is right everywhere but in the cells of S, and so is the bar.
Stale(c, S) == c.realized => \A cell \in Cell \ S : c.screen[cell] = Picture(c, cell)
BarTrue(c) == c.realized => c.bar = c.top

CellsOf(c, r) == {cell \in Cell : Within(Column(cell), Row(c, cell), r)}

\* Groups of fields that an operation leaves alone.
SameFrame(c, d) ==
    /\ d.kind = c.kind /\ d.height = c.height /\ d.realized = c.realized
    /\ d.ignore = c.ignore /\ d.sensitive = c.sensitive /\ d.enabled = c.enabled
SameSpots(c, d) == d.spots = c.spots /\ d.current = c.current /\ d.info = c.info
SamePage(c, d) == d.text = c.text /\ d.lights = c.lights
SamePointer(c, d) == d.cursor = c.cursor /\ d.bright = c.bright /\ d.focus = c.focus

\* d is c after some drawing.
Drawn(c, d) ==
    SameFrame(c, d) /\ SameSpots(c, d) /\ SamePage(c, d) /\ SamePointer(c, d) /\ d.top = c.top

-----------------------------------------------------------------------------
(* The loops of the program.                                               *)

\* Induction over the numbers of a set.
LEMMA Induction ==
    ASSUME NEW S, 0 \in S, \A n \in Nat : n \in S => n + 1 \in S
    PROVE  Nat \subseteq S
<1> DEFINE R == OpToRel(<, Nat)
<1>1. \A i, j \in Nat : i < j => <<i, j>> \in R
  BY DEF OpToRel
<1>2. IsWellFoundedOn(R, Nat)
  BY NatLessThanWellFounded
<1> HIDE DEF R
<1> SUFFICES ASSUME Nat \ S # {} PROVE FALSE
  OBVIOUS
<1>3. PICK x \in Nat \ S : \A y \in Nat \ S : ~ (<<y, x>> \in R)
  BY <1>2, WFMin
<1>4. x - 1 \in Nat /\ x - 1 < x
  BY <1>3
<1>5. x - 1 \in S
  BY <1>1, <1>3, <1>4
<1> QED
  BY <1>3, <1>4, <1>5

\* Step k of each of the loops, for the text and the rows in d.
Step(loop, x, k, d) ==
    CASE loop = "HighlightDetachAll" -> HighlightDetach(x)
      [] loop = "DetachAllSpots" -> DetachSpot(x)
      [] loop = "Repaint" -> PaintRow(x, d[1], d[2], k - 1)
      [] loop = "Rows" -> AddSpot(x, RowRect(k - 1))

IsRun(loop, w, d, n, f) ==
    f = [k \in 0 .. n |-> IF k = 0 THEN w ELSE Step(loop, f[k - 1], k, d)]

\* The recursive functions they are written with exist.
LEMMA Loops ==
    ASSUME NEW loop, NEW w, NEW d, NEW n \in Nat
    PROVE  \E f : IsRun(loop, w, d, n, f)
<1> DEFINE R(i, f) == f = [k \in 0 .. i |-> IF k = 0 THEN w ELSE Step(loop, f[k - 1], k, d)]
           S == {i \in Nat : \E f : R(i, f)}
<1>1. 0 \in S
  <2> DEFINE f == [k \in 0 .. 0 |-> w]
  <2>1. R(0, f)
    OBVIOUS
  <2> QED
    BY <2>1
<1>2. ASSUME NEW i \in Nat, i \in S PROVE i + 1 \in S
  <2>1. PICK f : R(i, f)
    BY <1>2
  <2> DEFINE g == [k \in 0 .. i + 1 |-> IF k = i + 1 THEN Step(loop, f[i], k, d) ELSE f[k]]
             h == [k \in 0 .. i + 1 |-> IF k = 0 THEN w ELSE Step(loop, g[k - 1], k, d)]
  <2>2. ASSUME NEW k \in 0 .. i + 1 PROVE g[k] = h[k]
    <3>1. CASE k = 0
      BY <2>1, <3>1
    <3>2. CASE k = i + 1
      <4>1. g[k] = Step(loop, f[i], k, d) /\ k # 0
        BY <3>2
      <4>2. k - 1 \in 0 .. i + 1 /\ k - 1 # i + 1 /\ k - 1 = i
        BY <3>2
      <4> QED
        BY <4>1, <4>2
    <3>3. CASE k \in 1 .. i
      <4>1. f[k] = Step(loop, f[k - 1], k, d) /\ g[k] = f[k]
        BY <2>1, <3>3
      <4>2. k - 1 \in 0 .. i + 1 /\ k - 1 # i + 1
        BY <3>3
      <4>3. g[k - 1] = f[k - 1] /\ k # 0
        BY <4>2, <3>3
      <4> QED
        BY <4>1, <4>3
    <3> QED
      BY <3>1, <3>2, <3>3
  <2>3. g = h
    BY <2>2
  <2>4. R(i + 1, g)
    BY <2>3
  <2> HIDE DEF g
  <2> QED
    BY <2>4
<1>3. Nat \subseteq S
  <2> HIDE DEF S
  <2> QED
    BY <1>1, <1>2, Induction
<1> QED
  BY <1>3 DEF IsRun

-----------------------------------------------------------------------------
(* Numbers and sequences.                                                  *)

\* A set of numbers of a sequence has a largest and a smallest.
LEMMA Extremes ==
    ASSUME NEW n \in Nat, NEW S \in SUBSET (1 .. n), S # {}
    PROVE  Max(S) \in S /\ Min(S) \in S
<1> DEFINE R == OpToRel(<, Nat)
<1>1. \A i, j \in Nat : i < j => <<i, j>> \in R
  BY DEF OpToRel
<1>2. IsWellFoundedOn(R, Nat)
  BY NatLessThanWellFounded
<1> HIDE DEF R
<1>3. Min(S) \in S
  <2>1. S \subseteq Nat
    OBVIOUS
  <2>3. PICK x \in S : \A y \in S : ~ (<<y, x>> \in R)
    BY <1>2, <2>1, WFMin
  <2>2. x \in S /\ \A y \in S : x <= y
    <3> SUFFICES ASSUME NEW y \in S PROVE x <= y
      BY <2>3
    <3>1. ~ (y < x) /\ y \in Nat /\ x \in Nat
      BY <1>1, <2>1, <2>3
    <3> QED
      BY <3>1
  <2> QED
    BY <2>2 DEF Min
<1>4. Max(S) \in S
  <2> DEFINE T == {n - k : k \in S}
  <2>1. T \subseteq Nat /\ T # {}
    <3>1. \A k \in S : n - k \in Nat
      OBVIOUS
    <3> QED
      BY <3>1
  <2>2. PICK x \in T : \A y \in T : ~ (<<y, x>> \in R)
    <3> HIDE DEF T
    <3> QED
      BY <1>2, <2>1, WFMin
  <2>3. PICK k \in S : x = n - k
    OBVIOUS
  <2>4. \A j \in S : k >= j
    <3> TAKE j \in S
    <3>1. n - j \in T /\ n - j \in Nat /\ n - k \in Nat
      OBVIOUS
    <3>2. ~(n - j < n - k)
      BY <1>1, <2>2, <2>3, <3>1
    <3> QED
      BY <3>2
  <2> QED
    BY <2>3, <2>4 DEF Max
<1> QED
  BY <1>3, <1>4

\* A sequence without its last element.
LEMMA Fronts ==
    ASSUME NEW T, NEW s \in Seq(T), s # <<>>
    PROVE  /\ Front(s) \in Seq(T) /\ Len(s) \in Nat \ {0} /\ Len(Front(s)) = Len(s) - 1
           /\ \A k \in 1 .. Len(s) - 1 : Front(s)[k] = s[k]
           /\ Last(s) \in T /\ Last(s) = s[Len(s)]
<1>1. Len(s) \in Nat \ {0} /\ \A k \in 1 .. Len(s) : s[k] \in T
  OBVIOUS
<1>2. /\ SubSeq(s, 1, Len(s) - 1) \in Seq(T)
      /\ Len(SubSeq(s, 1, Len(s) - 1)) = Len(s) - 1
      /\ \A k \in 1 .. Len(s) - 1 : SubSeq(s, 1, Len(s) - 1)[k] = s[k]
  <2> DEFINE n == Len(s) - 1
             f == SubSeq(s, 1, n)
  <2>1. n \in Nat
    BY <1>1
  <2> HIDE DEF n
  <2>2. /\ f \in Seq(T) /\ Len(f) = IF 1 <= n THEN n - 1 + 1 ELSE 0
        /\ \A i \in 1 .. n - 1 + 1 : f[i] = s[1 + i - 1]
    BY <1>1, <2>1, SubSeqProperties DEF n
  <2> HIDE DEF f
  <2>3. Len(f) = n /\ \A i \in 1 .. n : f[i] = s[i]
    BY <2>1, <2>2
  <2> QED
    BY <2>2, <2>3 DEF f, n
<1> QED
  BY <1>1, <1>2 DEF Front, Last

-----------------------------------------------------------------------------
(* One field at a time.                                                    *)

\* The cursor.
LEMMA PutCursor ==
    ASSUME NEW c, Sound(c), NEW r \in Area(c.height) \cup {Hidden}
    PROVE  LET d == [c EXCEPT !.cursor = r]
           IN  /\ Sound(d) /\ SameFrame(c, d) /\ SameSpots(c, d) /\ SamePage(c, d)
               /\ d.top = c.top /\ d.bar = c.bar /\ d.screen = c.screen
               /\ d.cursor = r /\ d.bright = c.bright /\ d.focus = c.focus
<1> DEFINE d == [c EXCEPT !.cursor = r]
<1>1. /\ SameFrame(c, d) /\ SameSpots(c, d) /\ SamePage(c, d)
      /\ d.top = c.top /\ d.bar = c.bar /\ d.screen = c.screen
      /\ d.cursor = r /\ d.bright = c.bright /\ d.focus = c.focus
  BY DEF Sound, Typed, SameFrame, SameSpots, SamePage
<1>2. Typed(d)
  BY DEF Sound, Typed
<1>3. SpotsSound(d)
  BY <1>1 DEF Sound, SpotsSound, SameFrame, SameSpots
<1> QED
  BY <1>1, <1>2, <1>3 DEF Sound

\* What a cell should show does not depend on what it shows.
LEMMA SamePicture ==
    ASSUME NEW c, NEW d, Drawn(c, d), NEW cell
    PROVE  /\ Picture(d, cell) = Picture(c, cell) /\ Shown(d, cell) = Shown(c, cell)
           /\ Gadgets(d, cell) = Gadgets(c, cell) /\ Row(d, cell) = Row(c, cell)
BY DEF Picture, Drawn, SameFrame, SameSpots, SamePage, SamePointer, Gadgets, Row, GadgetShown,
       Shown, Look, Lit

\* The view.
LEMMA PutTop ==
    ASSUME NEW c, Sound(c), NEW row \in 0 .. c.height - ViewHeight
    PROVE  LET d == [c EXCEPT !.top = row]
           IN  /\ Sound(d)
               /\ SameFrame(c, d) /\ SameSpots(c, d) /\ SamePage(c, d) /\ SamePointer(c, d)
               /\ d.top = row /\ d.bar = c.bar /\ d.screen = c.screen
<1> DEFINE d == [c EXCEPT !.top = row]
<1>1. /\ SameFrame(c, d) /\ SameSpots(c, d) /\ SamePage(c, d) /\ SamePointer(c, d)
      /\ d.top = row /\ d.bar = c.bar /\ d.screen = c.screen
  BY DEF Sound, Typed, SameFrame, SameSpots, SamePage, SamePointer
<1>2. Typed(d)
  BY DEF Sound, Typed
<1>3. SpotsSound(d)
  BY <1>1 DEF Sound, SpotsSound, SameFrame, SameSpots
<1> QED
  BY <1>1, <1>2, <1>3 DEF Sound

\* The scroll bar.
LEMMA PutBar ==
    ASSUME NEW c, Sound(c), NEW row \in 0 .. c.height - ViewHeight
    PROVE  LET d == [c EXCEPT !.bar = row]
           IN  /\ Sound(d)
               /\ SameFrame(c, d) /\ SameSpots(c, d) /\ SamePage(c, d) /\ SamePointer(c, d)
               /\ d.bar = row /\ d.top = c.top /\ d.screen = c.screen
<1> DEFINE d == [c EXCEPT !.bar = row]
<1>1. /\ SameFrame(c, d) /\ SameSpots(c, d) /\ SamePage(c, d) /\ SamePointer(c, d)
      /\ d.bar = row /\ d.top = c.top /\ d.screen = c.screen
  BY DEF Sound, Typed, SameFrame, SameSpots, SamePage, SamePointer
<1>2. Typed(d)
  BY DEF Sound, Typed
<1>3. SpotsSound(d)
  BY <1>1 DEF Sound, SpotsSound, SameFrame, SameSpots
<1> QED
  BY <1>1, <1>2, <1>3 DEF Sound

\* The screen.
LEMMA PutScreen ==
    ASSUME NEW c, Sound(c), NEW s, s = [cell \in Cell |-> s[cell]]
    PROVE  LET d == [c EXCEPT !.screen = s]
           IN  /\ Sound(d)
               /\ SameFrame(c, d) /\ SameSpots(c, d) /\ SamePage(c, d) /\ SamePointer(c, d)
               /\ d.screen = s /\ d.top = c.top /\ d.bar = c.bar
<1> DEFINE d == [c EXCEPT !.screen = s]
<1>1. /\ SameFrame(c, d) /\ SameSpots(c, d) /\ SamePage(c, d) /\ SamePointer(c, d)
      /\ d.screen = s /\ d.top = c.top /\ d.bar = c.bar
  BY DEF Sound, Typed, SameFrame, SameSpots, SamePage, SamePointer
<1>2. Typed(d)
  BY DEF Sound, Typed
<1>3. SpotsSound(d)
  BY <1>1 DEF Sound, SpotsSound, SameFrame, SameSpots
<1> QED
  BY <1>1, <1>2, <1>3 DEF Sound

\* The highlight of the cursor.
LEMMA PutBright ==
    ASSUME NEW c, Sound(c), NEW on \in BOOLEAN
    PROVE  LET d == [c EXCEPT !.bright = on]
           IN  /\ Sound(d)
               /\ SameFrame(c, d) /\ SameSpots(c, d) /\ SamePage(c, d) /\ d.bright = on
               /\ d.cursor = c.cursor /\ d.focus = c.focus /\ d.top = c.top /\ d.bar = c.bar
               /\ d.screen = c.screen
<1> DEFINE d == [c EXCEPT !.bright = on]
<1>1. /\ SameFrame(c, d) /\ SameSpots(c, d) /\ SamePage(c, d) /\ d.bright = on
      /\ d.cursor = c.cursor /\ d.focus = c.focus /\ d.top = c.top /\ d.bar = c.bar
      /\ d.screen = c.screen
  BY DEF Sound, Typed, SameFrame, SameSpots, SamePage
<1>2. Typed(d)
  BY DEF Sound, Typed
<1>3. SpotsSound(d)
  BY <1>1 DEF Sound, SpotsSound, SameFrame, SameSpots
<1> QED
  BY <1>1, <1>2, <1>3 DEF Sound

\* The focus.
LEMMA PutFocus ==
    ASSUME NEW c, Sound(c), NEW on \in BOOLEAN
    PROVE  LET d == [c EXCEPT !.focus = on]
           IN  /\ Sound(d)
               /\ SameFrame(c, d) /\ SameSpots(c, d) /\ SamePage(c, d) /\ d.focus = on
               /\ d.cursor = c.cursor /\ d.bright = c.bright /\ d.top = c.top
               /\ d.bar = c.bar /\ d.screen = c.screen
<1> DEFINE d == [c EXCEPT !.focus = on]
<1>1. /\ SameFrame(c, d) /\ SameSpots(c, d) /\ SamePage(c, d) /\ d.focus = on
      /\ d.cursor = c.cursor /\ d.bright = c.bright /\ d.top = c.top
      /\ d.bar = c.bar /\ d.screen = c.screen
  BY DEF Sound, Typed, SameFrame, SameSpots, SamePage
<1>2. Typed(d)
  BY DEF Sound, Typed
<1>3. SpotsSound(d)
  BY <1>1 DEF Sound, SpotsSound, SameFrame, SameSpots
<1> QED
  BY <1>1, <1>2, <1>3 DEF Sound

\* A press that is ignored.
LEMMA PutIgnore ==
    ASSUME NEW c, Sound(c), NEW on \in BOOLEAN
    PROVE  LET d == [c EXCEPT !.ignore = on]
           IN  /\ Sound(d)
               /\ SameSpots(c, d) /\ SamePage(c, d) /\ SamePointer(c, d) /\ d.ignore = on
               /\ d.kind = c.kind /\ d.height = c.height /\ d.realized = c.realized
               /\ d.sensitive = c.sensitive /\ d.enabled = c.enabled /\ d.top = c.top
               /\ d.bar = c.bar /\ d.screen = c.screen
<1> DEFINE d == [c EXCEPT !.ignore = on]
<1>1. /\ SameSpots(c, d) /\ SamePage(c, d) /\ SamePointer(c, d) /\ d.ignore = on
      /\ d.kind = c.kind /\ d.height = c.height /\ d.realized = c.realized
      /\ d.sensitive = c.sensitive /\ d.enabled = c.enabled /\ d.top = c.top
      /\ d.bar = c.bar /\ d.screen = c.screen
  BY DEF Sound, Typed, SameSpots, SamePage, SamePointer
<1>2. Typed(d)
  BY DEF Sound, Typed
<1>3. SpotsSound(d)
  BY <1>1 DEF Sound, SpotsSound, SameSpots
<1> QED
  BY <1>1, <1>2, <1>3 DEF Sound

\* Whether it hears of events.
LEMMA PutSensitive ==
    ASSUME NEW c, Sound(c), NEW on \in BOOLEAN
    PROVE  LET d == [c EXCEPT !.sensitive = on]
           IN  /\ Sound(d)
               /\ SameSpots(c, d) /\ SamePage(c, d) /\ SamePointer(c, d) /\ d.sensitive = on
               /\ d.kind = c.kind /\ d.height = c.height /\ d.realized = c.realized
               /\ d.ignore = c.ignore /\ d.enabled = c.enabled /\ d.top = c.top
               /\ d.bar = c.bar /\ d.screen = c.screen
<1> DEFINE d == [c EXCEPT !.sensitive = on]
<1>1. /\ SameSpots(c, d) /\ SamePage(c, d) /\ SamePointer(c, d) /\ d.sensitive = on
      /\ d.kind = c.kind /\ d.height = c.height /\ d.realized = c.realized
      /\ d.ignore = c.ignore /\ d.enabled = c.enabled /\ d.top = c.top
      /\ d.bar = c.bar /\ d.screen = c.screen
  BY DEF Sound, Typed, SameSpots, SamePage, SamePointer
<1>2. Typed(d)
  BY DEF Sound, Typed
<1>3. SpotsSound(d)
  BY <1>1 DEF Sound, SpotsSound, SameSpots
<1> QED
  BY <1>1, <1>2, <1>3 DEF Sound

\* Whether the status bar is in use.
LEMMA PutEnabled ==
    ASSUME NEW c, Sound(c), NEW on \in BOOLEAN
    PROVE  LET d == [c EXCEPT !.enabled = on]
           IN  /\ Sound(d)
               /\ SameSpots(c, d) /\ SamePage(c, d) /\ SamePointer(c, d) /\ d.enabled = on
               /\ d.kind = c.kind /\ d.height = c.height /\ d.realized = c.realized
               /\ d.ignore = c.ignore /\ d.sensitive = c.sensitive /\ d.top = c.top
               /\ d.bar = c.bar /\ d.screen = c.screen
<1> DEFINE d == [c EXCEPT !.enabled = on]
<1>1. /\ SameSpots(c, d) /\ SamePage(c, d) /\ SamePointer(c, d) /\ d.enabled = on
      /\ d.kind = c.kind /\ d.height = c.height /\ d.realized = c.realized
      /\ d.ignore = c.ignore /\ d.sensitive = c.sensitive /\ d.top = c.top
      /\ d.bar = c.bar /\ d.screen = c.screen
  BY DEF Sound, Typed, SameSpots, SamePage, SamePointer
<1>2. Typed(d)
  BY DEF Sound, Typed
<1>3. SpotsSound(d)
  BY <1>1 DEF Sound, SpotsSound, SameSpots
<1> QED
  BY <1>1, <1>2, <1>3 DEF Sound

\* Whether it is shown.
LEMMA PutRealized ==
    ASSUME NEW c, Sound(c), NEW on \in BOOLEAN
    PROVE  LET d == [c EXCEPT !.realized = on]
           IN  /\ Sound(d)
               /\ SameSpots(c, d) /\ SamePage(c, d) /\ SamePointer(c, d) /\ d.realized = on
               /\ d.kind = c.kind /\ d.height = c.height /\ d.ignore = c.ignore
               /\ d.sensitive = c.sensitive /\ d.enabled = c.enabled /\ d.top = c.top
               /\ d.bar = c.bar /\ d.screen = c.screen
<1> DEFINE d == [c EXCEPT !.realized = on]
<1>1. /\ SameSpots(c, d) /\ SamePage(c, d) /\ SamePointer(c, d) /\ d.realized = on
      /\ d.kind = c.kind /\ d.height = c.height /\ d.ignore = c.ignore
      /\ d.sensitive = c.sensitive /\ d.enabled = c.enabled /\ d.top = c.top
      /\ d.bar = c.bar /\ d.screen = c.screen
  BY DEF Sound, Typed, SameSpots, SamePage, SamePointer
<1>2. Typed(d)
  BY DEF Sound, Typed
<1>3. SpotsSound(d)
  BY <1>1 DEF Sound, SpotsSound, SameSpots
<1> QED
  BY <1>1, <1>2, <1>3 DEF Sound

\* What is described or chosen.
LEMMA PutInfo ==
    ASSUME NEW c, Sound(c), NEW n \in Nat
    PROVE  LET d == [c EXCEPT !.info = n]
           IN  /\ Sound(d)
               /\ SameFrame(c, d) /\ SamePage(c, d) /\ SamePointer(c, d) /\ d.info = n
               /\ d.spots = c.spots /\ d.current = c.current /\ d.top = c.top
               /\ d.bar = c.bar /\ d.screen = c.screen
<1> DEFINE d == [c EXCEPT !.info = n]
<1>1. /\ SameFrame(c, d) /\ SamePage(c, d) /\ SamePointer(c, d) /\ d.info = n
      /\ d.spots = c.spots /\ d.current = c.current /\ d.top = c.top
      /\ d.bar = c.bar /\ d.screen = c.screen
  BY DEF Sound, Typed, SameFrame, SamePage, SamePointer
<1>2. Typed(d)
  BY DEF Sound, Typed
<1>3. SpotsSound(d)
  BY <1>1 DEF Sound, SpotsSound, SameFrame
<1> QED
  BY <1>1, <1>2, <1>3 DEF Sound

\* The text.
LEMMA PutText ==
    ASSUME NEW c, Sound(c), NEW t \in [0 .. c.height - 1 -> [0 .. Width - 1 -> Char]]
    PROVE  LET d == [c EXCEPT !.text = t]
           IN  /\ Sound(d)
               /\ SameFrame(c, d) /\ SameSpots(c, d) /\ SamePointer(c, d) /\ d.text = t
               /\ d.lights = c.lights /\ d.top = c.top /\ d.bar = c.bar
               /\ d.screen = c.screen
<1> DEFINE d == [c EXCEPT !.text = t]
<1>1. /\ SameFrame(c, d) /\ SameSpots(c, d) /\ SamePointer(c, d) /\ d.text = t
      /\ d.lights = c.lights /\ d.top = c.top /\ d.bar = c.bar
      /\ d.screen = c.screen
  BY DEF Sound, Typed, SameFrame, SameSpots, SamePointer
<1>2. Typed(d)
  BY DEF Sound, Typed
<1>3. SpotsSound(d)
  BY <1>1 DEF Sound, SpotsSound, SameFrame, SameSpots
<1> QED
  BY <1>1, <1>2, <1>3 DEF Sound

\* The highlights.
LEMMA PutLights ==
    ASSUME NEW c, Sound(c), NEW q \in Seq(Light(c.height))
    PROVE  LET d == [c EXCEPT !.lights = q]
           IN  /\ Sound(d)
               /\ SameFrame(c, d) /\ SameSpots(c, d) /\ SamePointer(c, d) /\ d.lights = q
               /\ d.text = c.text /\ d.top = c.top /\ d.bar = c.bar /\ d.screen = c.screen
<1> DEFINE d == [c EXCEPT !.lights = q]
<1>1. /\ SameFrame(c, d) /\ SameSpots(c, d) /\ SamePointer(c, d) /\ d.lights = q
      /\ d.text = c.text /\ d.top = c.top /\ d.bar = c.bar /\ d.screen = c.screen
  BY DEF Sound, Typed, SameFrame, SameSpots, SamePointer
<1>2. Typed(d)
  BY DEF Sound, Typed
<1>3. SpotsSound(d)
  BY <1>1 DEF Sound, SpotsSound, SameFrame, SameSpots
<1> QED
  BY <1>1, <1>2, <1>3 DEF Sound

\* The current spot.
LEMMA PutCurrent ==
    ASSUME NEW c, Sound(c), NEW n \in 0 .. Len(c.spots)
    PROVE  LET d == [c EXCEPT !.current = n]
           IN  /\ Sound(d)
               /\ SameFrame(c, d) /\ SamePage(c, d) /\ SamePointer(c, d) /\ d.current = n
               /\ d.spots = c.spots /\ d.info = c.info /\ d.top = c.top /\ d.bar = c.bar
               /\ d.screen = c.screen
<1> DEFINE d == [c EXCEPT !.current = n]
<1>1. /\ SameFrame(c, d) /\ SamePage(c, d) /\ SamePointer(c, d) /\ d.current = n
      /\ d.spots = c.spots /\ d.info = c.info /\ d.top = c.top /\ d.bar = c.bar
      /\ d.screen = c.screen
  BY DEF Sound, Typed, SameFrame, SamePage, SamePointer
<1>2. Typed(d)
  <2>1. n \in Nat
    OBVIOUS
  <2> HIDE DEF d
  <2> QED
    BY <2>1 DEF Sound, Typed, d
<1>3. SpotsSound(d)
  BY <1>1 DEF Sound, SpotsSound, SameFrame
<1> QED
  BY <1>1, <1>2, <1>3 DEF Sound

\* The spots.
LEMMA PutSpots ==
    ASSUME NEW c, Sound(c), NEW q \in Seq(SpotOf(c.height)), c.current <= Len(q),
           \A s \in DOMAIN q : /\ q[s].gadget <=> c.kind = "toggle"
                               /\ c.kind = "toggle" => s = 1 /\ ~Within(0, 0, q[s].at)
    PROVE  LET d == [c EXCEPT !.spots = q]
           IN  /\ Sound(d)
               /\ SameFrame(c, d) /\ SamePage(c, d) /\ SamePointer(c, d) /\ d.spots = q
               /\ d.current = c.current /\ d.info = c.info /\ d.top = c.top /\ d.bar = c.bar
               /\ d.screen = c.screen
<1> DEFINE d == [c EXCEPT !.spots = q]
<1>1. /\ SameFrame(c, d) /\ SamePage(c, d) /\ SamePointer(c, d) /\ d.spots = q
      /\ d.current = c.current /\ d.info = c.info /\ d.top = c.top /\ d.bar = c.bar
      /\ d.screen = c.screen
  BY DEF Sound, Typed, SameFrame, SamePage, SamePointer
<1>2. Typed(d)
  BY DEF Sound, Typed
<1>3. SpotsSound(d)
  BY <1>1 DEF Sound, SpotsSound, SameFrame
<1> QED
  BY <1>1, <1>2, <1>3 DEF Sound

-----------------------------------------------------------------------------
(* Drawing.                                                                *)

\* The types of the fields that drawing reads.
LEMMA Fields ==
    ASSUME NEW c, Sound(c)
    PROVE  /\ Width \in Nat \ {0} /\ ViewHeight \in Nat \ {0}
           /\ c.height \in Nat /\ c.height >= ViewHeight
           /\ c.text \in [0 .. c.height - 1 -> [0 .. Width - 1 -> Char]]
           /\ c.top \in 0 .. c.height - ViewHeight
           /\ c.bar \in 0 .. c.height - ViewHeight
           /\ c.cursor \in Area(c.height) \cup {Hidden}
           /\ c.lights \in Seq(Light(c.height)) /\ c.spots \in Seq(SpotOf(c.height))
           /\ c.current \in 0 .. Len(c.spots) /\ Len(c.spots) \in Nat /\ Len(c.lights) \in Nat
           /\ c.info \in Nat /\ c.kind \in Kinds \cup {"gone"}
           /\ c.screen = [cell \in Cell |-> c.screen[cell]]
           /\ {c.bright, c.focus, c.realized, c.ignore, c.sensitive, c.enabled} \subseteq BOOLEAN
<1>1. c.lights \in Seq(Light(c.height)) /\ c.spots \in Seq(SpotOf(c.height)) /\ c.current \in Nat
  BY DEF Sound, Typed
<1>2. Len(c.spots) \in Nat /\ Len(c.lights) \in Nat /\ c.current <= Len(c.spots)
  BY <1>1 DEF Sound, SpotsSound
<1>3. /\ c.height \in Nat /\ c.height >= ViewHeight
      /\ c.text \in [0 .. c.height - 1 -> [0 .. Width - 1 -> Char]]
      /\ c.top \in 0 .. c.height - ViewHeight
      /\ c.bar \in 0 .. c.height - ViewHeight
      /\ c.cursor \in Area(c.height) \cup {Hidden}
      /\ c.info \in Nat /\ c.kind \in Kinds \cup {"gone"}
      /\ c.screen = [cell \in Cell |-> c.screen[cell]]
  BY DEF Sound, Typed
<1>4. {c.bright, c.focus, c.realized, c.ignore, c.sensitive, c.enabled} \subseteq BOOLEAN
  BY DEF Sound, Typed
<1> QED
  BY <1>1, <1>2, <1>3, <1>4, ConsoleAssumption

\* Where a cell of the view is in the buffer.
LEMMA Cells ==
    ASSUME NEW c, Sound(c), NEW cell \in Cell
    PROVE  /\ Column(cell) \in 0 .. Width - 1 /\ Row(c, cell) \in 0 .. c.height - 1
           /\ Row(c, cell) \in c.top .. c.top + ViewHeight - 1
<1>1. cell[1] \in 0 .. Width - 1 /\ cell[2] \in 0 .. ViewHeight - 1
  BY DEF Cell
<1>2. /\ Width \in Nat /\ ViewHeight \in Nat /\ c.height \in Nat
      /\ c.top \in 0 .. c.height - ViewHeight
  BY Fields
<1>3. Column(cell) = cell[1] /\ Row(c, cell) = cell[2] + c.top
  BY DEF Column, Row
<1> QED
  BY <1>1, <1>2, <1>3

\* The sides of a rectangle.
LEMMA Sides ==
    ASSUME NEW n \in Nat, NEW r \in Area(n) \cup {Hidden}
    PROVE  /\ r.x \in Nat /\ r.y \in Nat /\ r.w \in Nat /\ r.h \in Nat
           /\ r = Hidden => r.x = 0 /\ r.y = 0 /\ r.w = 0 /\ r.h = 0
           /\ r # Hidden => r.w >= 1 /\ r.h >= 1 /\ r.x + r.w <= Width /\ r.y + r.h <= n
BY DEF Area, Hidden, Rect

\* A cell has at most one gadget on it, its only spot.
LEMMA OneGadget ==
    ASSUME NEW c, Sound(c), NEW cell \in Cell
    PROVE  /\ Gadgets(c, cell) \subseteq {1}
           /\ \A s \in Gadgets(c, cell) :
                 /\ s = 1 /\ s \in DOMAIN c.spots /\ c.spots[s].gadget
                 /\ c.spots[s].at \in Area(c.height) /\ ~Within(0, 0, c.spots[s].at)
                 /\ Within(Column(cell), Row(c, cell), c.spots[s].at)
<1> SUFFICES ASSUME NEW s \in Gadgets(c, cell)
             PROVE  /\ s = 1 /\ s \in DOMAIN c.spots /\ c.spots[s].gadget
                    /\ c.spots[s].at \in Area(c.height) /\ ~Within(0, 0, c.spots[s].at)
                    /\ Within(Column(cell), Row(c, cell), c.spots[s].at)
  OBVIOUS
<1>1. /\ s \in DOMAIN c.spots /\ c.spots[s].gadget
      /\ Within(Column(cell), Row(c, cell), c.spots[s].at)
  BY DEF Gadgets
<1>2. s = 1 /\ ~Within(0, 0, c.spots[s].at)
  BY <1>1 DEF Sound, SpotsSound
<1>3. c.spots[s].at \in Area(c.height)
  <2>1. c.spots \in Seq(SpotOf(c.height))
    BY Fields
  <2>2. c.spots[s] \in SpotOf(c.height)
    BY <1>1, <2>1
  <2> QED
    BY <2>2 DEF SpotOf
<1> QED
  BY <1>1, <1>2, <1>3

\* A rectangle covers the cells within it; that of no size covers the corner
\* as well.
LEMMA Covering ==
    ASSUME NEW n \in Nat, NEW r \in Area(n) \cup {Hidden}, NEW x \in Nat, NEW y \in Nat
    PROVE  /\ Within(x, y, r) => Covers(r, x, y)
           /\ Covers(r, x, y) => Within(x, y, r) \/ (r = Hidden /\ x = 0 /\ y = 0)
BY Sides DEF Within, Covers, Between

\* Two rectangles that a cell is within overlap.
LEMMA Overlapping ==
    ASSUME NEW n \in Nat, NEW r \in Area(n) \cup {Hidden}, NEW s \in Area(n),
           NEW x \in Nat, NEW y \in Nat, Within(x, y, r), Within(x, y, s)
    PROVE  Overlap(r, s)
<1>1. /\ r.x \in Nat /\ r.y \in Nat /\ r.w \in Nat /\ r.h \in Nat
      /\ s.x \in Nat /\ s.y \in Nat /\ s.w \in Nat /\ s.h \in Nat
  BY Sides
<1> QED
  BY <1>1 DEF Within, Overlap

\* Drawing changes the screen alone.
LEMMA OnScreen ==
    ASSUME NEW c, Sound(c), NEW s, s = [cell \in Cell |-> s[cell]]
    PROVE  LET d == [c EXCEPT !.screen = s]
           IN  Sound(d) /\ Drawn(c, d) /\ d.bar = c.bar /\ d.screen = s
BY PutScreen DEF Drawn

\* The gadgets that lie in a region are painted, each of them whole.
LEMMA PaintRegionPaints ==
    ASSUME NEW c, Sound(c), NEW r
    PROVE  LET d == PaintRegion(c, r)
           IN  /\ Sound(d) /\ Drawn(c, d) /\ d.bar = c.bar
               /\ \A cell \in Cell :
                     \/ /\ \E s \in Gadgets(c, cell) : Overlap(r, c.spots[s].at)
                        /\ d.screen[cell] = Picture(c, cell)
                     \/ /\ \A s \in Gadgets(c, cell) : ~Overlap(r, c.spots[s].at)
                        /\ d.screen[cell] = c.screen[cell]
<1> DEFINE Painted(cell) == {s \in Gadgets(c, cell) : Overlap(r, c.spots[s].at)}
           new == [cell \in Cell |-> IF Painted(cell) # {} THEN GadgetShown(c, Max(Painted(cell)))
                                     ELSE c.screen[cell]]
           d == [c EXCEPT !.screen = new]
<1>1. PaintRegion(c, r) = d
  BY DEF PaintRegion
<1>2. new = [cell \in Cell |-> new[cell]]
  OBVIOUS
<1>3. \A cell \in Cell :
         new[cell] = IF Painted(cell) # {} THEN GadgetShown(c, Max(Painted(cell))) ELSE c.screen[cell]
  OBVIOUS
<1> HIDE DEF new
<1>4. Sound(d) /\ Drawn(c, d) /\ d.bar = c.bar /\ d.screen = new
  BY <1>2, OnScreen
<1>5. ASSUME NEW cell \in Cell
      PROVE  \/ /\ \E s \in Gadgets(c, cell) : Overlap(r, c.spots[s].at)
                /\ new[cell] = Picture(c, cell)
             \/ /\ \A s \in Gadgets(c, cell) : ~Overlap(r, c.spots[s].at)
                /\ new[cell] = c.screen[cell]
  <2>1. CASE Painted(cell) = {}
    BY <1>3, <2>1
  <2>2. CASE Painted(cell) # {}
    <3>1. Gadgets(c, cell) \subseteq {1}
      BY OneGadget
    <3>2. Painted(cell) = Gadgets(c, cell) /\ Gadgets(c, cell) # {}
      BY <2>2, <3>1
    <3>3. new[cell] = Picture(c, cell)
      BY <1>3, <3>2 DEF Picture
    <3> QED
      BY <2>2, <3>3
  <2> QED
    BY <2>1, <2>2
<1> QED
  BY <1>1, <1>4, <1>5

\* Drawing a region makes it right and spoils nothing, a gadget least of all
\* (_sc_console_draw_region and _sc_active_console_paint_region).
LEMMA DrawRegionDraws ==
    ASSUME NEW c, Sound(c), NEW r \in Area(c.height) \cup {Hidden}
    PROVE  LET d == DrawRegion(c, r)
           IN  /\ Sound(d) /\ Drawn(c, d) /\ d.bar = c.bar
               /\ \A S : Stale(c, S) => Stale(d, S \ CellsOf(c, r))
<1> DEFINE drawn == {cell \in Cell : Covers(r, Column(cell), Row(c, cell))}
           s1 == [cell \in Cell |-> IF cell \in drawn THEN Shown(c, cell) ELSE c.screen[cell]]
           e == [c EXCEPT !.screen = s1]
           d == DrawRegion(c, r)
<1>0. c.height \in Nat /\ \A cell \in Cell : Column(cell) \in Nat /\ Row(c, cell) \in Nat
  <2>1. c.height \in Nat
    BY Fields
  <2>2. ASSUME NEW cell \in Cell PROVE Column(cell) \in Nat /\ Row(c, cell) \in Nat
    <3>1. Column(cell) \in 0 .. Width - 1 /\ Row(c, cell) \in 0 .. c.height - 1
      BY Cells
    <3> QED
      BY <3>1
  <2> QED
    BY <2>1, <2>2
<1>1. CellsOf(c, r) \subseteq drawn
  BY <1>0, Covering DEF CellsOf
<1>2. CASE ~c.realized \/ drawn = {}
  <2>1. d = c
    BY <1>2 DEF DrawRegion
  <2>2. Drawn(c, c)
    BY DEF Drawn, SameFrame, SameSpots, SamePage, SamePointer
  <2>3. ASSUME NEW S, Stale(c, S) PROVE Stale(c, S \ CellsOf(c, r))
    BY <1>1, <1>2, <2>3 DEF Stale
  <2> QED
    BY <2>1, <2>2, <2>3
<1>3. CASE c.realized /\ drawn # {}
  <2>1. d = PaintRegion(e, r)
    BY <1>3 DEF DrawRegion
  <2>2. s1 = [cell \in Cell |-> s1[cell]]
    OBVIOUS
  <2>3. \A cell \in Cell : s1[cell] = IF cell \in drawn THEN Shown(c, cell) ELSE c.screen[cell]
    OBVIOUS
  <2> HIDE DEF s1
  <2>4. Sound(e) /\ Drawn(c, e) /\ e.bar = c.bar /\ e.screen = s1
    BY <2>2, OnScreen
  <2> HIDE DEF e
  <2>5. /\ Sound(d) /\ Drawn(e, d) /\ d.bar = e.bar
        /\ \A cell \in Cell :
              \/ d.screen[cell] = Picture(e, cell)
              \/ /\ \A s \in Gadgets(e, cell) : ~Overlap(r, e.spots[s].at)
                 /\ d.screen[cell] = e.screen[cell]
    BY <2>1, <2>4, PaintRegionPaints
  <2>6. Drawn(c, d)
    BY <2>4, <2>5 DEF Drawn, SameFrame, SameSpots, SamePage, SamePointer
  <2>7. e.spots = c.spots /\ \A cell \in Cell : /\ Picture(e, cell) = Picture(c, cell)
                                                /\ Picture(d, cell) = Picture(c, cell)
                                                /\ Gadgets(e, cell) = Gadgets(c, cell)
    BY <2>4, <2>6, SamePicture DEF Drawn, SameSpots
  <2>8. ASSUME NEW S, Stale(c, S), NEW cell \in Cell, cell \notin S \ CellsOf(c, r)
        PROVE  d.screen[cell] = Picture(d, cell)
    <3>1. CASE d.screen[cell] = Picture(e, cell)
      BY <2>7, <3>1
    <3>2. CASE cell \notin drawn /\ d.screen[cell] = e.screen[cell]
      <4>1. cell \notin S
        BY <1>1, <2>8, <3>2
      <4>2. c.screen[cell] = Picture(c, cell)
        BY <1>3, <2>8, <4>1 DEF Stale
      <4> QED
        BY <2>3, <2>4, <2>7, <3>2, <4>2
    <3>3. CASE /\ cell \in drawn /\ \A s \in Gadgets(e, cell) : ~Overlap(r, e.spots[s].at)
               /\ d.screen[cell] = e.screen[cell]
      <4>1. d.screen[cell] = Shown(c, cell)
        BY <2>3, <2>4, <3>3
      <4>2. Gadgets(c, cell) = {}
        <5> SUFFICES ASSUME NEW s \in Gadgets(c, cell) PROVE FALSE
          OBVIOUS
        <5>1. /\ c.spots[s].at \in Area(c.height) /\ ~Within(0, 0, c.spots[s].at)
              /\ Within(Column(cell), Row(c, cell), c.spots[s].at)
          BY OneGadget
        <5>2. Within(Column(cell), Row(c, cell), r)
          BY <1>0, <3>3, <5>1, Covering
        <5>3. Overlap(r, c.spots[s].at)
          BY <1>0, <5>1, <5>2, Overlapping
        <5> QED
          BY <2>7, <3>3, <5>3
      <4> QED
        BY <2>7, <4>1, <4>2 DEF Picture
    <3> QED
      BY <2>5, <3>1, <3>2, <3>3
  <2> QED
    BY <2>5, <2>4, <2>6, <2>8 DEF Stale
<1> QED
  BY <1>2, <1>3, Fields

\* The whole buffer is a rectangle that every cell of the view is within.
LEMMA WholeCovers ==
    ASSUME NEW c, Sound(c)
    PROVE  Whole(c) \in Area(c.height) \cup {Hidden} /\ CellsOf(c, Whole(c)) = Cell
<1>1. Width \in Nat \ {0} /\ ViewHeight \in Nat \ {0} /\ c.height \in Nat /\ c.height >= ViewHeight
  BY Fields
<1>2. Whole(c) \in Area(c.height)
  BY <1>1 DEF Whole, Rect, Area
<1>3. ASSUME NEW cell \in Cell PROVE Within(Column(cell), Row(c, cell), Whole(c))
  <2>1. Column(cell) \in 0 .. Width - 1 /\ Row(c, cell) \in 0 .. c.height - 1
    BY Cells
  <2> QED
    BY <1>1, <2>1 DEF Within, Whole, Rect
<1> QED
  BY <1>2, <1>3 DEF CellsOf

\* Drawing the whole buffer makes everything right.
LEMMA WholeDraws ==
    ASSUME NEW c, Sound(c)
    PROVE  LET d == DrawRegion(c, Whole(c))
           IN  Sound(d) /\ Drawn(c, d) /\ d.bar = c.bar /\ Stale(d, {})
<1> DEFINE d == DrawRegion(c, Whole(c))
<1>1. Stale(c, Cell)
  BY DEF Stale
<1>2. Sound(d) /\ Drawn(c, d) /\ d.bar = c.bar /\ Stale(d, Cell \ CellsOf(c, Whole(c)))
  BY <1>1, WholeCovers, DrawRegionDraws
<1>3. Cell \ CellsOf(c, Whole(c)) = {}
  BY WholeCovers
<1> QED
  BY <1>2, <1>3

\* Everything is drawn, the scroll bar with it.
LEMMA DrawAllDraws ==
    ASSUME NEW c, Sound(c)
    PROVE  LET d == DrawAll(c)
           IN  Sound(d) /\ Drawn(c, d) /\ Stale(d, {}) /\ BarTrue(d)
<1> DEFINE e == DrawBar(c)
           d == DrawRegion(e, Whole(e))
<1>1. Sound(e) /\ Drawn(c, e) /\ BarTrue(e)
  <2>1. CASE c.realized
    <3>1. e = [c EXCEPT !.bar = c.top]
      BY <2>1 DEF DrawBar
    <3>2. c.top \in 0 .. c.height - ViewHeight
      BY Fields
    <3> QED
      BY <3>1, <3>2, PutBar DEF Drawn, BarTrue
  <2>2. CASE ~c.realized
    <3>1. e = c
      BY <2>2 DEF DrawBar
    <3> QED
      BY <2>2, <3>1 DEF Drawn, BarTrue, SameFrame, SameSpots, SamePage, SamePointer
  <2> QED
    BY <2>1, <2>2, Fields
<1>2. Whole(e) = Whole(c)
  BY <1>1 DEF Whole, Drawn, SameFrame
<1>3. DrawAll(c) = d
  BY <1>2 DEF DrawAll
<1> HIDE DEF e
<1>4. Sound(d) /\ Drawn(e, d) /\ d.bar = e.bar /\ Stale(d, {})
  BY <1>1, WholeDraws
<1> HIDE DEF d
<1> QED
  BY <1>1, <1>3, <1>4 DEF Drawn, BarTrue, SameFrame, SameSpots, SamePage, SamePointer

\* What all but the view and the screen have in common.
SameButView(c, d) == SameFrame(c, d) /\ SameSpots(c, d) /\ SamePage(c, d) /\ SamePointer(c, d)

\* c shows what it should.
UpToDate(c) == Stale(c, {}) /\ BarTrue(c)

LEMMA SameIsEnough ==
    ASSUME NEW c, NEW d, NEW e
    PROVE  /\ SameButView(c, c) /\ Drawn(c, c) /\ SameFrame(c, c) /\ SameSpots(c, c)
           /\ SamePage(c, c) /\ SamePointer(c, c)
           /\ Drawn(c, d) => SameButView(c, d)
           /\ SameButView(c, d) /\ SameButView(d, e) => SameButView(c, e)
           /\ Drawn(c, d) /\ Drawn(d, e) => Drawn(c, e)
           /\ SameFrame(c, d) /\ SameFrame(d, e) => SameFrame(c, e)
           /\ SameSpots(c, d) /\ SameSpots(d, e) => SameSpots(c, e)
           /\ SamePage(c, d) /\ SamePage(d, e) => SamePage(c, e)
           /\ SamePointer(c, d) /\ SamePointer(d, e) => SamePointer(c, e)
<1>1. /\ SameFrame(c, c) /\ SameSpots(c, c) /\ SamePage(c, c) /\ SamePointer(c, c)
  BY DEF SameFrame, SameSpots, SamePage, SamePointer
<1>2. SameFrame(c, d) /\ SameFrame(d, e) => SameFrame(c, e)
  BY DEF SameFrame
<1>3. SameSpots(c, d) /\ SameSpots(d, e) => SameSpots(c, e)
  BY DEF SameSpots
<1>4. SamePage(c, d) /\ SamePage(d, e) => SamePage(c, e)
  BY DEF SamePage
<1>5. SamePointer(c, d) /\ SamePointer(d, e) => SamePointer(c, e)
  BY DEF SamePointer
<1> QED
  BY <1>1, <1>2, <1>3, <1>4, <1>5 DEF SameButView, Drawn

-----------------------------------------------------------------------------
(* The view.                                                               *)

LEMMA ScrollToScrolls ==
    ASSUME NEW c, Sound(c), NEW row \in 0 .. c.height - ViewHeight
    PROVE  LET d == ScrollTo(c, row)
           IN  Sound(d) /\ SameButView(c, d) /\ UpToDate(d)
<1> DEFINE e == [c EXCEPT !.top = row]
<1>1. Sound(e) /\ SameButView(c, e)
  BY PutTop DEF SameButView
<1> HIDE DEF e
<1>2. Sound(DrawAll(e)) /\ Drawn(e, DrawAll(e)) /\ UpToDate(DrawAll(e))
  BY <1>1, DrawAllDraws DEF UpToDate
<1>3. SameButView(c, DrawAll(e))
  BY <1>1, <1>2, SameIsEnough
<1> QED
  BY <1>2, <1>3 DEF ScrollTo, e

\* The scroll bar and its keys.
LEMMA Scrolling ==
    ASSUME NEW c, Sound(c), UpToDate(c), NEW d \in {LineUp(c), LineDown(c), PageUp(c), PageDown(c)}
    PROVE  Sound(d) /\ SameButView(c, d) /\ UpToDate(d)
<1>1. /\ ViewHeight \in Nat \ {0} /\ c.height \in Nat /\ c.height >= ViewHeight
      /\ c.top \in 0 .. c.height - ViewHeight
  BY Fields
<1>2. /\ c.top > 0 => c.top - 1 \in 0 .. c.height - ViewHeight
      /\ c.top < LastTop(c) => c.top + 1 \in 0 .. c.height - ViewHeight
      /\ c.top > 0 => (IF c.top < ViewHeight THEN 0 ELSE c.top - ViewHeight)
                         \in 0 .. c.height - ViewHeight
      /\ (IF c.top + ViewHeight > LastTop(c) THEN LastTop(c) ELSE c.top + ViewHeight)
            \in 0 .. c.height - ViewHeight
  BY <1>1 DEF LastTop
<1>3. \/ d = c \/ d = DrawAll(c)
      \/ \E row \in 0 .. c.height - ViewHeight : d = ScrollTo(c, row)
  BY <1>2 DEF LineUp, LineDown, PageUp, PageDown
<1>4. CASE d = c
  BY <1>4, SameIsEnough
<1>5. CASE d = DrawAll(c)
  BY <1>5, DrawAllDraws, SameIsEnough DEF UpToDate
<1>6. CASE \E row \in 0 .. c.height - ViewHeight : d = ScrollTo(c, row)
  BY <1>6, ScrollToScrolls
<1> QED
  BY <1>3, <1>4, <1>5, <1>6

-----------------------------------------------------------------------------
(* The cursor.                                                             *)

\* The view follows the cursor; what was right stays right.
LEMMA LockViewLocks ==
    ASSUME NEW c, Sound(c), BarTrue(c)
    PROVE  LET d == LockView(c)
           IN  /\ Sound(d) /\ SameButView(c, d) /\ BarTrue(d)
               /\ \/ Stale(d, {})
                  \/ d = c
<1>1. /\ ViewHeight \in Nat \ {0} /\ c.height \in Nat /\ c.height >= ViewHeight
      /\ c.top \in 0 .. c.height - ViewHeight /\ c.cursor \in Area(c.height) \cup {Hidden}
  BY Fields
<1>2. /\ c.cursor.y \in Nat /\ c.cursor.h \in Nat
      /\ c.cursor.y + c.cursor.h <= c.height
  <2>1. /\ c.cursor.x \in Nat /\ c.cursor.y \in Nat /\ c.cursor.w \in Nat /\ c.cursor.h \in Nat
        /\ c.cursor = Hidden => c.cursor.y = 0 /\ c.cursor.h = 0
        /\ c.cursor # Hidden => c.cursor.y + c.cursor.h <= c.height
    BY <1>1, Sides
  <2> QED
    BY <1>1, <2>1
<1>3. CASE c.cursor.y < c.top
  <2>1. c.cursor.y \in 0 .. c.height - ViewHeight
    BY <1>1, <1>2, <1>3
  <2> QED
    BY <1>3, <2>1, ScrollToScrolls DEF LockView, UpToDate
<1>4. CASE ~(c.cursor.y < c.top) /\ c.cursor.y + c.cursor.h > c.top + ViewHeight
  <2>1. c.cursor.y - (ViewHeight - c.cursor.h) \in 0 .. c.height - ViewHeight
    BY <1>1, <1>2, <1>4
  <2> QED
    BY <1>4, <2>1, ScrollToScrolls DEF LockView, UpToDate
<1>5. CASE ~(c.cursor.y < c.top) /\ ~(c.cursor.y + c.cursor.h > c.top + ViewHeight)
  BY <1>5, SameIsEnough DEF LockView
<1> QED
  BY <1>3, <1>4, <1>5

\* Cells that an update leaves alone stay right.
LEMMA StaleAfter ==
    ASSUME NEW c, NEW d, NEW S, NEW T, Stale(c, S),
           d.realized = c.realized, d.screen = c.screen,
           \A cell \in Cell \ (S \cup T) : Picture(d, cell) = Picture(c, cell)
    PROVE  Stale(d, S \cup T)
BY DEF Stale

\* The cursor is drawn where it was and where it goes.
LEMMA SetCursorDraws ==
    ASSUME NEW c, Sound(c), UpToDate(c), NEW r \in Area(c.height) \cup {Hidden}
    PROVE  LET d == SetCursor(c, r)
           IN  /\ Sound(d) /\ UpToDate(d) /\ SameFrame(c, d) /\ SameSpots(c, d) /\ SamePage(c, d)
               /\ d.cursor = r /\ d.bright = c.bright /\ d.focus = c.focus
<1> DEFINE e == [c EXCEPT !.cursor = r]
           f == LockView(e)
           g == DrawRegion(f, c.cursor)
           d == DrawRegion(g, r)
           T == CellsOf(c, c.cursor) \cup CellsOf(c, r)
<1>1. SetCursor(c, r) = d
  BY DEF SetCursor
<1>2. /\ Sound(e) /\ SameFrame(c, e) /\ SameSpots(c, e) /\ SamePage(c, e)
      /\ e.top = c.top /\ e.bar = c.bar /\ e.screen = c.screen
      /\ e.cursor = r /\ e.bright = c.bright /\ e.focus = c.focus
  BY PutCursor
<1> HIDE DEF e
<1>3. \A cell \in Cell \ T : Picture(e, cell) = Picture(c, cell)
  BY <1>2 DEF CellsOf, Picture, Gadgets, GadgetShown, Shown, Look, Lit, Row, SameSpots, SamePage
<1>4. Stale(e, {} \cup T) /\ BarTrue(e)
  <2>1. Stale(c, {}) /\ BarTrue(c)
    BY DEF UpToDate
  <2>2. e.realized = c.realized
    BY <1>2 DEF SameFrame
  <2>3. \A cell \in Cell \ ({} \cup T) : Picture(e, cell) = Picture(c, cell)
    BY <1>3
  <2> HIDE DEF T
  <2> QED
    BY <1>2, <2>1, <2>2, <2>3, StaleAfter DEF BarTrue
<1>5. /\ Sound(f) /\ SameButView(e, f) /\ BarTrue(f)
      /\ Stale(f, {}) \/ f = e
  BY <1>2, <1>4, LockViewLocks
<1>6. e.height = c.height /\ f.height = c.height
  BY <1>2, <1>5 DEF SameButView, SameFrame
<1> HIDE DEF f
<1>7. /\ Sound(g) /\ Drawn(f, g) /\ g.bar = f.bar
      /\ \A S : Stale(f, S) => Stale(g, S \ CellsOf(f, c.cursor))
  <2>1. c.cursor \in Area(f.height) \cup {Hidden}
    BY <1>6, Fields
  <2> QED
    BY <1>5, <2>1, DrawRegionDraws
<1> HIDE DEF g
<1>8. /\ Sound(d) /\ Drawn(g, d) /\ d.bar = g.bar
      /\ \A S : Stale(g, S) => Stale(d, S \ CellsOf(g, r))
  <2>1. r \in Area(g.height) \cup {Hidden}
    BY <1>6, <1>7 DEF Drawn, SameFrame
  <2> QED
    BY <1>7, <2>1, DrawRegionDraws
<1> HIDE DEF d
<1>9. Stale(d, {})
  <2>1. CASE Stale(f, {})
    <3>1. Stale(d, ({} \ CellsOf(f, c.cursor)) \ CellsOf(g, r))
      BY <1>7, <1>8, <2>1
    <3>2. ({} \ CellsOf(f, c.cursor)) \ CellsOf(g, r) = {}
      OBVIOUS
    <3> QED
      BY <3>1, <3>2
  <2>2. CASE f = e
    <3>1. f.top = c.top /\ g.top = c.top
      BY <1>2, <1>7, <2>2 DEF Drawn
    <3>2. CellsOf(f, c.cursor) = CellsOf(c, c.cursor) /\ CellsOf(g, r) = CellsOf(c, r)
      BY <3>1 DEF CellsOf, Row
    <3>3. Stale(d, (({} \cup T) \ CellsOf(f, c.cursor)) \ CellsOf(g, r))
      BY <1>4, <1>7, <1>8, <2>2
    <3>4. (({} \cup T) \ CellsOf(f, c.cursor)) \ CellsOf(g, r) = {}
      BY <3>2
    <3> QED
      BY <3>3, <3>4
  <2> QED
    BY <1>5, <2>1, <2>2
<1>10. SameButView(e, d) /\ BarTrue(d)
  <2>1. SameButView(f, g) /\ SameButView(g, d)
    BY <1>7, <1>8, SameIsEnough
  <2>2. BarTrue(d)
    BY <1>5, <1>7, <1>8 DEF BarTrue, Drawn, SameFrame
  <2>3. SameButView(e, g)
    BY <1>5, <2>1, SameIsEnough
  <2> QED
    BY <2>1, <2>2, <2>3, SameIsEnough
<1>11. /\ SameFrame(c, d) /\ SameSpots(c, d) /\ SamePage(c, d)
       /\ d.cursor = r /\ d.bright = c.bright /\ d.focus = c.focus
  <2>1. SameFrame(e, d) /\ SameSpots(e, d) /\ SamePage(e, d) /\ SamePointer(e, d)
    BY <1>10 DEF SameButView
  <2>2. SameFrame(c, d) /\ SameSpots(c, d) /\ SamePage(c, d)
    BY <1>2, <2>1, SameIsEnough
  <2> QED
    BY <1>2, <2>1, <2>2 DEF SamePointer
<1> QED
  BY <1>1, <1>8, <1>9, <1>10, <1>11 DEF UpToDate

\* An update of what lies within a region, and then the region drawn.
LEMMA Redraws ==
    ASSUME NEW c, Sound(c), NEW e, Sound(e), e.realized = c.realized, e.screen = c.screen,
           e.top = c.top, e.bar = c.bar, e.height = c.height,
           NEW r \in Area(c.height) \cup {Hidden},
           \A cell \in Cell \ CellsOf(c, r) : Picture(e, cell) = Picture(c, cell)
    PROVE  LET d == DrawRegion(e, r)
           IN  /\ Sound(d) /\ Drawn(e, d) /\ d.bar = c.bar
               /\ \A S : Stale(c, S) => Stale(d, S)
               /\ BarTrue(c) => BarTrue(d)
<1> DEFINE d == DrawRegion(e, r)
           T == CellsOf(c, r)
<1>1. /\ Sound(d) /\ Drawn(e, d) /\ d.bar = e.bar
      /\ \A S : Stale(e, S) => Stale(d, S \ CellsOf(e, r))
  BY DrawRegionDraws
<1> HIDE DEF d
<1>2. CellsOf(e, r) = T
  BY DEF CellsOf, Row
<1>3. ASSUME NEW S, Stale(c, S) PROVE Stale(d, S)
  <2>1. \A cell \in Cell \ (S \cup T) : Picture(e, cell) = Picture(c, cell)
    OBVIOUS
  <2> HIDE DEF T
  <2>2. Stale(e, S \cup T)
    BY <1>3, <2>1, StaleAfter
  <2>3. Stale(d, (S \cup T) \ T)
    BY <1>1, <1>2, <2>2
  <2> QED
    BY <2>3 DEF Stale
<1>4. BarTrue(c) => BarTrue(d)
  BY <1>1 DEF BarTrue, Drawn, SameFrame
<1> QED
  BY <1>1, <1>3, <1>4 DEF d

\* The cursor lights up while a button is held on a spot.
LEMMA SetHighlightedDraws ==
    ASSUME NEW c, Sound(c), UpToDate(c), NEW on \in BOOLEAN
    PROVE  LET d == SetHighlighted(c, on)
           IN  /\ Sound(d) /\ UpToDate(d) /\ SameFrame(c, d) /\ SameSpots(c, d) /\ SamePage(c, d)
               /\ d.cursor = c.cursor /\ d.bright = on /\ d.focus = c.focus
<1>1. CASE c.bright = on
  BY <1>1, SameIsEnough DEF SetHighlighted
<1>2. CASE c.bright # on
  <2> DEFINE e == [c EXCEPT !.bright = on]
             d == DrawRegion(e, c.cursor)
  <2>1. SetHighlighted(c, on) = d
    BY <1>2 DEF SetHighlighted
  <2>2. /\ Sound(e) /\ SameFrame(c, e) /\ SameSpots(c, e) /\ SamePage(c, e)
        /\ e.top = c.top /\ e.bar = c.bar /\ e.screen = c.screen
        /\ e.cursor = c.cursor /\ e.bright = on /\ e.focus = c.focus
    BY PutBright
  <2> HIDE DEF e
  <2>3. \A cell \in Cell \ CellsOf(c, c.cursor) : Picture(e, cell) = Picture(c, cell)
    BY <2>2 DEF CellsOf, Picture, Gadgets, GadgetShown, Shown, Look, Lit, Row, SameSpots, SamePage
  <2>4. c.cursor \in Area(c.height) \cup {Hidden}
    BY Fields
  <2>5. Sound(d) /\ Drawn(e, d) /\ UpToDate(d)
    <3>1. e.realized = c.realized /\ e.height = c.height
      BY <2>2 DEF SameFrame
    <3> QED
      BY <2>2, <2>3, <2>4, <3>1, Redraws DEF UpToDate
  <2> HIDE DEF d
  <2> QED
    BY <2>1, <2>2, <2>5, SameIsEnough DEF Drawn, SamePointer
<1> QED
  BY <1>1, <1>2

\* The focus shows at the cursor, and on a gadget that is the current spot.
CursorOnGadget(c) ==
    \A s \in DOMAIN c.spots : c.spots[s].gadget /\ c.current = s => c.cursor = c.spots[s].at

LEMMA FocusDraws ==
    ASSUME NEW c, Sound(c), UpToDate(c), CursorOnGadget(c), NEW on \in BOOLEAN
    PROVE  LET d == FocusDrawn(c, on)
           IN  /\ Sound(d) /\ UpToDate(d) /\ SameFrame(c, d) /\ SameSpots(c, d) /\ SamePage(c, d)
               /\ d.cursor = c.cursor /\ d.bright = c.bright /\ d.focus = on
<1> DEFINE e == [c EXCEPT !.focus = on]
           d == DrawRegion(e, c.cursor)
<1>1. FocusDrawn(c, on) = d
  BY DEF FocusDrawn
<1>2. /\ Sound(e) /\ SameFrame(c, e) /\ SameSpots(c, e) /\ SamePage(c, e)
      /\ e.top = c.top /\ e.bar = c.bar /\ e.screen = c.screen
      /\ e.cursor = c.cursor /\ e.bright = c.bright /\ e.focus = on
  BY PutFocus
<1> HIDE DEF e
<1>3. ASSUME NEW cell \in Cell \ CellsOf(c, c.cursor) PROVE Picture(e, cell) = Picture(c, cell)
  <2>1. ~Within(Column(cell), Row(c, cell), c.cursor) /\ Row(e, cell) = Row(c, cell)
    BY <1>2 DEF CellsOf, Row
  <2>2. Shown(e, cell) = Shown(c, cell)
    BY <1>2, <2>1 DEF Shown, Look, Lit, SamePage
  <2>3. Gadgets(e, cell) = Gadgets(c, cell)
    BY <1>2, <2>1 DEF Gadgets, SameSpots
  <2>4. \A s \in Gadgets(c, cell) : GadgetShown(e, s) = GadgetShown(c, s)
    <3> SUFFICES ASSUME NEW s \in Gadgets(c, cell) PROVE GadgetShown(e, s) = GadgetShown(c, s)
      OBVIOUS
    <3>1. c.current # s
      BY <2>1 DEF Gadgets, CursorOnGadget
    <3> QED
      BY <1>2, <3>1 DEF GadgetShown, SameSpots
  <2>5. Gadgets(c, cell) # {} => Max(Gadgets(c, cell)) \in Gadgets(c, cell)
    <3>1. Gadgets(c, cell) \in SUBSET (1 .. 1)
      BY OneGadget
    <3> QED
      BY <3>1, Extremes
  <2> QED
    BY <2>2, <2>3, <2>4, <2>5 DEF Picture
<1>4. c.cursor \in Area(c.height) \cup {Hidden}
  BY Fields
<1>5. Sound(d) /\ Drawn(e, d) /\ UpToDate(d)
  <2>1. e.realized = c.realized /\ e.height = c.height
    BY <1>2 DEF SameFrame
  <2> QED
    BY <1>2, <1>3, <1>4, <2>1, Redraws DEF UpToDate
<1> HIDE DEF d
<1> QED
  BY <1>1, <1>2, <1>5, SameIsEnough DEF Drawn, SamePointer

-----------------------------------------------------------------------------
(* Highlights and text.                                                    *)

\* What a highlight on top of the others or its removal leaves.
LEMMA SameLook ==
    ASSUME NEW c, Sound(c), NEW e, NEW x, NEW y,
           SamePointer(c, e), Lit(e, x, y) = Lit(c, x, y),
           \A k \in Lit(c, x, y) : e.lights[k].colour = c.lights[k].colour
    PROVE  Look(e, x, y) = Look(c, x, y)
<1>1. Lit(c, x, y) # {} => Max(Lit(c, x, y)) \in Lit(c, x, y)
  <2>1. Len(c.lights) \in Nat /\ DOMAIN c.lights = 1 .. Len(c.lights)
    <3>1. c.lights \in Seq(Light(c.height))
      BY Fields
    <3> QED
      BY <3>1
  <2>2. Lit(c, x, y) \in SUBSET (1 .. Len(c.lights))
    BY <2>1 DEF Lit
  <2> QED
    BY <2>1, <2>2, Extremes
<1> QED
  BY <1>1 DEF Look, SamePointer

LEMMA HighlightAttachDraws ==
    ASSUME NEW c, Sound(c), NEW r \in Area(c.height),
           NEW colour \in {"title", "player", "disabled"}
    PROVE  LET d == HighlightAttach(c, colour, r)
           IN  /\ Sound(d) /\ SameFrame(c, d) /\ SameSpots(c, d) /\ SamePointer(c, d)
               /\ \A S : Stale(c, S) => Stale(d, S)
               /\ BarTrue(c) => BarTrue(d)
<1> DEFINE light == [colour |-> colour, at |-> r]
           q == Append(c.lights, light)
           e == [c EXCEPT !.lights = q]
           d == DrawRegion(e, r)
<1>1. HighlightAttach(c, colour, r) = d
  BY DEF HighlightAttach
<1>2. c.lights \in Seq(Light(c.height)) /\ Len(c.lights) \in Nat
  BY Fields
<1>3. /\ q \in Seq(Light(c.height)) /\ Len(q) = Len(c.lights) + 1
      /\ \A k \in 1 .. Len(c.lights) : q[k] = c.lights[k]
      /\ q[Len(c.lights) + 1].at = r
  <2>1. light \in Light(c.height) /\ light.at = r
    BY DEF Light
  <2> HIDE DEF light
  <2> QED
    BY <1>2, <2>1
<1> HIDE DEF q
<1>4. /\ Sound(e) /\ SameFrame(c, e) /\ SameSpots(c, e) /\ SamePointer(c, e) /\ e.lights = q
      /\ e.text = c.text /\ e.top = c.top /\ e.bar = c.bar /\ e.screen = c.screen
  BY <1>3, PutLights
<1> HIDE DEF e
<1>5. ASSUME NEW cell \in Cell \ CellsOf(c, r) PROVE Picture(e, cell) = Picture(c, cell)
  <2> DEFINE x == Column(cell)
             y == Row(c, cell)
  <2>1. ~Within(x, y, r) /\ Row(e, cell) = y
    BY <1>4 DEF CellsOf, Row
  <2> HIDE DEF x, y
  <2>2. Lit(e, x, y) = Lit(c, x, y)
    <3>1. DOMAIN q = 1 .. Len(c.lights) + 1 /\ DOMAIN c.lights = 1 .. Len(c.lights)
      BY <1>2, <1>3
    <3>2. \A k \in 1 .. Len(c.lights) + 1 :
             Within(x, y, q[k].at) <=> k \in 1 .. Len(c.lights) /\ Within(x, y, c.lights[k].at)
      <4> SUFFICES ASSUME NEW k \in 1 .. Len(c.lights) + 1
                   PROVE Within(x, y, q[k].at) <=> k \in 1 .. Len(c.lights) /\ Within(x, y, c.lights[k].at)
        OBVIOUS
      <4>1. k \in 1 .. Len(c.lights) \/ k = Len(c.lights) + 1
        BY <1>2
      <4>2. Len(c.lights) + 1 \notin 1 .. Len(c.lights)
        BY <1>2
      <4> QED
        BY <1>3, <2>1, <4>1, <4>2
    <3> QED
      BY <1>2, <1>4, <3>1, <3>2 DEF Lit
  <2>3. \A k \in Lit(c, x, y) : e.lights[k].colour = c.lights[k].colour
    BY <1>2, <1>3, <1>4 DEF Lit
  <2>4. Look(e, x, y) = Look(c, x, y)
    BY <1>4, <2>2, <2>3, SameLook
  <2> QED
    BY <1>4, <2>1, <2>4 DEF Picture, Gadgets, GadgetShown, Shown, SameSpots, SamePointer, x, y
<1>6. /\ Sound(d) /\ Drawn(e, d)
      /\ \A S : Stale(c, S) => Stale(d, S)
      /\ BarTrue(c) => BarTrue(d)
  <2>1. e.realized = c.realized /\ e.height = c.height
    BY <1>4 DEF SameFrame
  <2> QED
    BY <1>4, <1>5, <2>1, Redraws
<1> HIDE DEF d
<1> QED
  BY <1>1, <1>4, <1>6, SameIsEnough DEF Drawn
LEMMA HighlightDetachDraws ==
    ASSUME NEW c, Sound(c), c.lights # <<>>
    PROVE  LET d == HighlightDetach(c)
           IN  /\ Sound(d) /\ SameFrame(c, d) /\ SameSpots(c, d) /\ SamePointer(c, d)
               /\ d.text = c.text /\ d.lights = Front(c.lights)
               /\ d.top = c.top /\ d.bar = c.bar
               /\ \A S : Stale(c, S) => Stale(d, S)
<1> DEFINE n == Len(c.lights)
           q == Front(c.lights)
           r == Last(c.lights).at
           e == [c EXCEPT !.lights = q]
           d == DrawRegion(e, r)
<1>1. HighlightDetach(c) = d
  BY DEF HighlightDetach
<1>2. c.lights \in Seq(Light(c.height))
  BY Fields
<1>3. /\ q \in Seq(Light(c.height)) /\ n \in Nat \ {0} /\ Len(q) = n - 1
      /\ \A k \in 1 .. n - 1 : q[k] = c.lights[k]
      /\ Last(c.lights) \in Light(c.height) /\ Last(c.lights) = c.lights[n]
  BY <1>2, Fronts
<1>4. r \in Area(c.height) /\ r = c.lights[n].at
  BY <1>3 DEF Light
<1>5. DOMAIN q = 1 .. n - 1 /\ DOMAIN c.lights = 1 .. n
  BY <1>2, <1>3
<1> HIDE DEF q, r, n
<1>6. /\ Sound(e) /\ SameFrame(c, e) /\ SameSpots(c, e) /\ SamePointer(c, e) /\ e.lights = q
      /\ e.text = c.text /\ e.top = c.top /\ e.bar = c.bar /\ e.screen = c.screen
  BY <1>3, PutLights
<1> HIDE DEF e
<1>7. ASSUME NEW cell \in Cell \ CellsOf(c, r) PROVE Picture(e, cell) = Picture(c, cell)
  <2> DEFINE x == Column(cell)
             y == Row(c, cell)
  <2>1. ~Within(x, y, r) /\ Row(e, cell) = y
    BY <1>6 DEF CellsOf, Row
  <2> HIDE DEF x, y
  <2>2. Lit(e, x, y) = Lit(c, x, y)
    <3>1. \A k \in 1 .. n : k \in 1 .. n - 1 \/ k = n
      BY <1>3
    <3>2. n \notin 1 .. n - 1 /\ 1 .. n - 1 \subseteq 1 .. n
      BY <1>3
    <3> QED
      BY <1>3, <1>4, <1>5, <1>6, <2>1, <3>1, <3>2 DEF Lit
  <2>3. \A k \in Lit(c, x, y) : e.lights[k].colour = c.lights[k].colour
    <3> SUFFICES ASSUME NEW k \in Lit(c, x, y) PROVE e.lights[k].colour = c.lights[k].colour
      OBVIOUS
    <3>1. k \in Lit(e, x, y)
      BY <2>2
    <3>2. k \in 1 .. n - 1
      BY <1>5, <1>6, <3>1 DEF Lit
    <3> QED
      BY <1>3, <1>6, <3>2
  <2>4. Look(e, x, y) = Look(c, x, y)
    BY <1>6, <2>2, <2>3, SameLook
  <2> QED
    BY <1>6, <2>1, <2>4 DEF Picture, Gadgets, GadgetShown, Shown, SameSpots, SamePointer, x, y
<1>8. /\ Sound(d) /\ Drawn(e, d) /\ d.bar = c.bar
      /\ \A S : Stale(c, S) => Stale(d, S)
  <2>1. e.realized = c.realized /\ e.height = c.height
    BY <1>6 DEF SameFrame
  <2> QED
    BY <1>4, <1>6, <1>7, <2>1, Redraws
<1> HIDE DEF d
<1>9. /\ SameFrame(c, d) /\ SameSpots(c, d) /\ SamePointer(c, d)
  BY <1>6, <1>8, SameIsEnough DEF Drawn
<1>10. d.text = c.text /\ d.lights = q /\ d.top = c.top
  BY <1>6, <1>8 DEF Drawn, SamePage
<1> QED
  BY <1>1, <1>8, <1>9, <1>10 DEF q

\* All of them are taken off, the last one first.
LEMMA HighlightDetachAllDraws ==
    ASSUME NEW c, Sound(c)
    PROVE  LET d == HighlightDetachAll(c)
           IN  /\ Sound(d) /\ SameFrame(c, d) /\ SameSpots(c, d) /\ SamePointer(c, d)
               /\ d.text = c.text /\ d.top = c.top /\ d.bar = c.bar
               /\ \A S : Stale(c, S) => Stale(d, S)
<1> DEFINE n == Len(c.lights)
           R(f) == f = [k \in 0 .. n |-> IF k = 0 THEN c ELSE HighlightDetach(f[k - 1])]
           f == CHOOSE f : R(f)
<1>1. n \in Nat
  <2>1. c.lights \in Seq(Light(c.height))
    BY Fields
  <2> QED
    BY <2>1
<1>2. HighlightDetachAll(c) = f[n]
  BY DEF HighlightDetachAll
<1>3. R(f)
  <2>1. PICK g : IsRun("HighlightDetachAll", c, 0, n, g)
    BY <1>1, Loops
  <2>2. R(g)
    BY <2>1 DEF IsRun, Step
  <2> QED
    BY <2>2
<1> HIDE DEF f
<1>4. f[0] = c /\ \A k \in Nat : k + 1 \in 0 .. n => f[k + 1] = HighlightDetach(f[k])
  BY <1>1, <1>3
<1> DEFINE P(k) == LET d == f[k]
                   IN  /\ Sound(d) /\ SameFrame(c, d) /\ SameSpots(c, d) /\ SamePointer(c, d)
                       /\ d.text = c.text /\ d.top = c.top /\ d.bar = c.bar
                       /\ \A S : Stale(c, S) => Stale(d, S)
                       /\ Len(d.lights) = n - k
           T == {k \in Nat : k \in 0 .. n => P(k)}
<1>5. 0 \in T
  <2>1. P(0)
    BY <1>1, <1>4, SameIsEnough
  <2> QED
    BY <2>1
<1>6. ASSUME NEW k \in Nat, k \in T PROVE k + 1 \in T
  <2> SUFFICES ASSUME k + 1 \in 0 .. n PROVE P(k + 1)
    OBVIOUS
  <2> DEFINE d == f[k]
             e == HighlightDetach(d)
  <2>1. P(k) /\ f[k + 1] = e
    BY <1>1, <1>4, <1>6
  <2> HIDE DEF f, R
  <2>2. d.lights \in Seq(Light(d.height))
    BY <2>1, Fields
  <2>3. d.lights # <<>>
    <3>1. n - k # 0
      BY <1>1
    <3> QED
      BY <2>1, <3>1
  <2>4. /\ Sound(e) /\ SameFrame(d, e) /\ SameSpots(d, e) /\ SamePointer(d, e)
        /\ e.text = d.text /\ e.lights = Front(d.lights) /\ e.top = d.top /\ e.bar = d.bar
        /\ \A S : Stale(d, S) => Stale(e, S)
    BY <2>1, <2>3, HighlightDetachDraws
  <2>5. Len(e.lights) = n - (k + 1)
    <3>1. Len(Front(d.lights)) = Len(d.lights) - 1
      BY <2>2, <2>3, Fronts
    <3> QED
      BY <1>1, <2>1, <2>4, <3>1
  <2>6. SameFrame(c, e) /\ SameSpots(c, e) /\ SamePointer(c, e)
    BY <2>1, <2>4, SameIsEnough
  <2> HIDE DEF d, e
  <2> QED
    BY <2>1, <2>4, <2>5, <2>6 DEF d
<1>7. Nat \subseteq T
  <2> HIDE DEF T
  <2> QED
    BY <1>5, <1>6, Induction
<1>8. P(n)
  <2>1. n \in 0 .. n /\ n \in Nat
    BY <1>1
  <2> HIDE DEF P
  <2> QED
    BY <1>7, <2>1
<1> QED
  BY <1>2, <1>8

\* A line of one character, as long as the buffer is wide.
LEMMA WriteLineDraws ==
    ASSUME NEW c, Sound(c), NEW y \in Int, NEW glyph \in Glyphs
    PROVE  LET d == WriteLine(c, 0, y, Line(glyph))
           IN  /\ Sound(d) /\ SameFrame(c, d) /\ SameSpots(c, d) /\ SamePointer(c, d)
               /\ \A S : Stale(c, S) => Stale(d, S)
               /\ BarTrue(c) => BarTrue(d)
<1> DEFINE line == Line(glyph)
           r == Rect(0, y, Width, 1)
<1>1. /\ Width \in Nat \ {0} /\ c.height \in Nat
      /\ c.text \in [0 .. c.height - 1 -> [0 .. Width - 1 -> Char]]
  BY Fields
<1>2. Len(line) = Width /\ \A k \in 1 .. Width : line[k] = glyph
  BY <1>1 DEF Line
<1>3. CASE y \notin 0 .. c.height - 1
  BY <1>3, SameIsEnough DEF WriteLine
<1>4. CASE y \in 0 .. c.height - 1
  <2> DEFINE t == [row \in DOMAIN c.text |-> [k \in DOMAIN c.text[row] |->
                      IF row = y /\ k \in 0 .. 0 + Len(line) - 1 THEN line[k - 0 + 1]
                      ELSE c.text[row][k]]]
             e == [c EXCEPT !.text = t]
             d == DrawRegion(e, r)
  <2>1. DOMAIN c.text = 0 .. c.height - 1
    BY <1>1
  <2>2. \A z \in 0 .. c.height - 1 :
           c.text[z] \in [0 .. Width - 1 -> Char] /\ DOMAIN c.text[z] = 0 .. Width - 1
    BY <1>1
  <2>3. WriteLine(c, 0, y, line) = d
    <3> HIDE DEF line
    <3>1. ~(0 + Len(line) > Width) /\ ~(Len(line) <= 0)
      BY <1>1, <1>2
    <3> QED
      BY <1>2, <1>4, <3>1 DEF WriteLine
  <2>4. t \in [0 .. c.height - 1 -> [0 .. Width - 1 -> Char]]
    <3> HIDE DEF line
    <3>1. ASSUME NEW k \in 0 .. Width - 1, k \in 0 .. 0 + Len(line) - 1
          PROVE  line[k - 0 + 1] \in Char
      BY <1>1, <1>2, <3>1 DEF Char
    <3>2. ASSUME NEW z \in 0 .. c.height - 1
          PROVE  [k \in DOMAIN c.text[z] |->
                     IF z = y /\ k \in 0 .. 0 + Len(line) - 1 THEN line[k - 0 + 1] ELSE c.text[z][k]]
                   \in [0 .. Width - 1 -> Char]
      BY <2>2, <3>1
    <3> QED
      BY <2>1, <3>2
  <2>5. \A z \in 0 .. c.height - 1 : z # y => t[z] = c.text[z]
    <3> SUFFICES ASSUME NEW z \in 0 .. c.height - 1, z # y PROVE t[z] = c.text[z]
      OBVIOUS
    <3>1. t[z] = [k \in DOMAIN c.text[z] |-> c.text[z][k]]
      BY <2>1
    <3> QED
      BY <2>2, <3>1
  <2> HIDE DEF t, line
  <2>6. /\ Sound(e) /\ SameFrame(c, e) /\ SameSpots(c, e) /\ SamePointer(c, e)
        /\ e.text = t /\ e.lights = c.lights /\ e.top = c.top /\ e.bar = c.bar /\ e.screen = c.screen
    BY <2>4, PutText
  <2> HIDE DEF e
  <2>7. ASSUME NEW cell \in Cell \ CellsOf(c, r) PROVE Picture(e, cell) = Picture(c, cell)
    <3>1. Column(cell) \in 0 .. Width - 1 /\ Row(c, cell) \in 0 .. c.height - 1
      BY Cells
    <3>2. Row(c, cell) # y
      BY <1>1, <2>7, <3>1 DEF CellsOf, Within, Rect
    <3>3. Row(e, cell) = Row(c, cell) /\ e.text[Row(c, cell)] = c.text[Row(c, cell)]
      BY <2>5, <2>6, <3>1, <3>2 DEF Row
    <3>4. Look(e, Column(cell), Row(c, cell)) = Look(c, Column(cell), Row(c, cell))
      BY <2>6 DEF Look, Lit, SamePointer
    <3> QED
      BY <2>6, <3>3, <3>4 DEF Picture, Gadgets, GadgetShown, Shown, SameSpots, SamePointer
  <2>8. r \in Area(c.height)
    BY <1>1, <1>4 DEF Area, Rect
  <2>9. /\ Sound(d) /\ Drawn(e, d)
        /\ \A S : Stale(c, S) => Stale(d, S)
        /\ BarTrue(c) => BarTrue(d)
    <3>1. e.realized = c.realized /\ e.height = c.height
      BY <2>6 DEF SameFrame
    <3> HIDE DEF r
    <3> QED
      BY <2>6, <2>7, <2>8, <3>1, Redraws
  <2> HIDE DEF d
  <2> QED
    BY <2>3, <2>6, <2>9, SameIsEnough DEF Drawn, line
<1> QED
  BY <1>3, <1>4

\* Clearing draws the whole buffer, whatever was on the screen.
LEMMA ClearDraws ==
    ASSUME NEW c, Sound(c)
    PROVE  LET d == Clear(c)
           IN  /\ Sound(d) /\ SameFrame(c, d) /\ SameSpots(c, d) /\ SamePointer(c, d)
               /\ d.top = c.top /\ d.bar = c.bar /\ Stale(d, {})
<1> DEFINE t == BlankText(c)
           b == [c EXCEPT !.text = t]
           e == HighlightDetachAll(b)
           d == DrawRegion(e, Whole(e))
<1>1. Clear(c) = d
  BY DEF Clear
<1>2. t \in [0 .. c.height - 1 -> [0 .. Width - 1 -> Char]]
  BY DEF BlankText, BlankRow, Char
<1> HIDE DEF t
<1>3. /\ Sound(b) /\ SameFrame(c, b) /\ SameSpots(c, b) /\ SamePointer(c, b)
      /\ b.top = c.top /\ b.bar = c.bar
  BY <1>2, PutText
<1> HIDE DEF b
<1>4. /\ Sound(e) /\ SameFrame(b, e) /\ SameSpots(b, e) /\ SamePointer(b, e)
      /\ e.top = b.top /\ e.bar = b.bar
  BY <1>3, HighlightDetachAllDraws
<1> HIDE DEF e
<1>5. Sound(d) /\ Drawn(e, d) /\ d.bar = e.bar /\ Stale(d, {})
  BY <1>4, WholeDraws
<1> HIDE DEF d
<1>6. SameFrame(e, d) /\ SameSpots(e, d) /\ SamePointer(e, d) /\ d.top = e.top
  BY <1>5 DEF Drawn
<1>7. SameFrame(b, d) /\ SameSpots(b, d) /\ SamePointer(b, d)
  BY <1>4, <1>6, SameIsEnough
<1>8. SameFrame(c, d) /\ SameSpots(c, d) /\ SamePointer(c, d)
  BY <1>3, <1>7, SameIsEnough
<1> QED
  BY <1>1, <1>3, <1>4, <1>5, <1>6, <1>8

\* A row of a pane.
LEMMA RowRects ==
    ASSUME NEW n \in Nat, NEW y \in 0 .. n - 1
    PROVE  RowRect(y) \in Area(n)
BY ConsoleAssumption DEF RowRect, Rect, Area

LEMMA PaintRowDraws ==
    ASSUME NEW c, Sound(c), NEW glyph \in Glyphs, NEW rows, NEW y \in 0 .. c.height - 1
    PROVE  LET d == PaintRow(c, glyph, rows, y)
           IN  /\ Sound(d) /\ SameFrame(c, d) /\ SameSpots(c, d) /\ SamePointer(c, d)
               /\ \A S : Stale(c, S) => Stale(d, S)
               /\ BarTrue(c) => BarTrue(d)
<1> DEFINE e == WriteLine(c, 0, y, Line(glyph))
           d == HighlightAttach(e, "disabled", RowRect(y))
<1>1. /\ Sound(e) /\ SameFrame(c, e) /\ SameSpots(c, e) /\ SamePointer(c, e)
      /\ \A S : Stale(c, S) => Stale(e, S)
      /\ BarTrue(c) => BarTrue(e)
  BY WriteLineDraws
<1>2. PaintRow(c, glyph, rows, y) = IF y \in rows THEN d ELSE e
  BY DEF PaintRow
<1> HIDE DEF e
<1>3. /\ Sound(d) /\ SameFrame(e, d) /\ SameSpots(e, d) /\ SamePointer(e, d)
      /\ \A S : Stale(e, S) => Stale(d, S)
      /\ BarTrue(e) => BarTrue(d)
  <2>1. RowRect(y) \in Area(e.height)
    <3>1. e.height = c.height /\ c.height \in Nat
      BY <1>1, Fields DEF SameFrame
    <3> QED
      BY <3>1, RowRects
  <2> QED
    BY <1>1, <2>1, HighlightAttachDraws
<1> HIDE DEF d
<1>4. SameFrame(c, d) /\ SameSpots(c, d) /\ SamePointer(c, d)
  BY <1>1, <1>3, SameIsEnough
<1> QED
  BY <1>1, <1>2, <1>3, <1>4

\* A pane is painted again, row by row.
LEMMA RepaintDraws ==
    ASSUME NEW c, Sound(c), NEW glyph \in Glyphs, NEW disabled
    PROVE  LET d == Repaint(c, glyph, disabled)
           IN  /\ Sound(d) /\ SameFrame(c, d) /\ SameSpots(c, d) /\ SamePointer(c, d)
               /\ UpToDate(c) => UpToDate(d)
<1> DEFINE n == c.height
           w == HighlightDetachAll(c)
           R(f) == f = [k \in 0 .. n |->
                          IF k = 0 THEN w ELSE PaintRow(f[k - 1], glyph, disabled, k - 1)]
           f == CHOOSE f : R(f)
<1>1. n \in Nat
  BY Fields
<1>2. Repaint(c, glyph, disabled) = f[n]
  BY DEF Repaint
<1>3. R(f)
  <2> DEFINE what == <<glyph, disabled>>
  <2>1. PICK g : IsRun("Repaint", w, what, n, g)
    BY <1>1, Loops
  <2>2. R(g)
    BY <2>1 DEF IsRun, Step
  <2> QED
    BY <2>2
<1> HIDE DEF f
<1>4. f[0] = w /\ \A k \in Nat : k + 1 \in 0 .. n => f[k + 1] = PaintRow(f[k], glyph, disabled, k)
  <2>1. f[0] = w
    BY <1>1, <1>3
  <2>2. ASSUME NEW k \in Nat, k + 1 \in 0 .. n PROVE f[k + 1] = PaintRow(f[k], glyph, disabled, k)
    <3>1. k + 1 # 0 /\ (k + 1) - 1 = k
      OBVIOUS
    <3> QED
      BY <1>3, <2>2, <3>1
  <2> QED
    BY <2>1, <2>2
<1> DEFINE P(k) == LET d == f[k]
                   IN  /\ Sound(d) /\ SameFrame(c, d) /\ SameSpots(c, d) /\ SamePointer(c, d)
                       /\ UpToDate(c) => UpToDate(d)
           T == {k \in Nat : k \in 0 .. n => P(k)}
<1>5. 0 \in T
  <2>1. P(0)
    <3>1. /\ Sound(w) /\ SameFrame(c, w) /\ SameSpots(c, w) /\ SamePointer(c, w)
          /\ w.top = c.top /\ w.bar = c.bar
          /\ \A S : Stale(c, S) => Stale(w, S)
      BY HighlightDetachAllDraws
    <3> HIDE DEF w
    <3> QED
      BY <1>4, <3>1 DEF UpToDate, BarTrue, SameFrame
  <2> QED
    BY <2>1
<1>6. ASSUME NEW k \in Nat, k \in T PROVE k + 1 \in T
  <2> SUFFICES ASSUME k + 1 \in 0 .. n PROVE P(k + 1)
    OBVIOUS
  <2> DEFINE d == f[k]
             e == PaintRow(d, glyph, disabled, k)
  <2>1. P(k) /\ f[k + 1] = e
    BY <1>1, <1>4, <1>6
  <2> HIDE DEF f, R, w
  <2>2. k \in 0 .. d.height - 1
    BY <1>1, <2>1 DEF SameFrame
  <2>3. /\ Sound(e) /\ SameFrame(d, e) /\ SameSpots(d, e) /\ SamePointer(d, e)
        /\ UpToDate(d) => UpToDate(e)
    <3>1. Sound(d)
      BY <2>1
    <3> HIDE DEF d
    <3> QED
      BY <2>2, <3>1, PaintRowDraws DEF UpToDate
  <2>4. SameFrame(c, e) /\ SameSpots(c, e) /\ SamePointer(c, e)
    BY <2>1, <2>3, SameIsEnough
  <2> HIDE DEF d, e
  <2> QED
    BY <2>1, <2>3, <2>4 DEF d
<1>7. Nat \subseteq T
  <2> HIDE DEF T
  <2> QED
    BY <1>5, <1>6, Induction
<1>8. P(n)
  <2>1. n \in 0 .. n /\ n \in Nat
    BY <1>1
  <2> HIDE DEF P
  <2> QED
    BY <1>7, <2>1
<1> QED
  BY <1>2, <1>8

-----------------------------------------------------------------------------
(* The widget that is shown.                                               *)

\* The console is realized, or gets a surface of another size.
LEMMA ConfiguredDraws ==
    ASSUME NEW c, Sound(c)
    PROVE  LET d == Configured(c)
           IN  /\ Sound(d) /\ UpToDate(d) /\ SameSpots(c, d) /\ SamePage(c, d) /\ SamePointer(c, d)
               /\ d.kind = c.kind /\ d.height = c.height /\ d.ignore = c.ignore
               /\ d.sensitive = c.sensitive /\ d.enabled = c.enabled /\ d.top = c.top
<1> DEFINE e == [c EXCEPT !.realized = TRUE]
           d == DrawAll(e)
<1>1. Configured(c) = d
  BY DEF Configured
<1>2. /\ Sound(e) /\ SameSpots(c, e) /\ SamePage(c, e) /\ SamePointer(c, e)
      /\ e.kind = c.kind /\ e.height = c.height /\ e.ignore = c.ignore
      /\ e.sensitive = c.sensitive /\ e.enabled = c.enabled /\ e.top = c.top
  BY PutRealized
<1> HIDE DEF e
<1>3. Sound(d) /\ Drawn(e, d) /\ UpToDate(d)
  BY <1>2, DrawAllDraws DEF UpToDate
<1> HIDE DEF d
<1>4. SameSpots(c, d) /\ SamePage(c, d) /\ SamePointer(c, d)
  BY <1>2, <1>3, SameIsEnough DEF Drawn
<1> QED
  BY <1>1, <1>2, <1>3, <1>4 DEF Drawn, SameFrame

-----------------------------------------------------------------------------
(* Spots.                                                                  *)

\* All but what is described or chosen.
Told(c, d) ==
    /\ SameFrame(c, d) /\ SamePage(c, d) /\ SamePointer(c, d)
    /\ d.spots = c.spots /\ d.current = c.current
    /\ d.top = c.top /\ d.bar = c.bar /\ d.screen = c.screen

\* The screen shows nothing of some fields.
LEMMA StillTrue ==
    ASSUME NEW c, NEW d, UpToDate(c), d.realized = c.realized, d.screen = c.screen,
           d.bar = c.bar, d.top = c.top, d.text = c.text, d.lights = c.lights,
           SamePointer(c, d), d.spots = c.spots, d.current = c.current
    PROVE  UpToDate(d)
<1>1. \A cell : Picture(d, cell) = Picture(c, cell)
  BY DEF Picture, SamePointer, Gadgets, Row, GadgetShown, Shown, Look, Lit
<1> QED
  BY <1>1 DEF UpToDate, Stale, BarTrue

LEMMA Telling ==
    ASSUME NEW c, Sound(c), NEW n \in Nat
    PROVE  LET d == [c EXCEPT !.info = n]
           IN  Sound(d) /\ Told(c, d) /\ d.info = n /\ (UpToDate(c) => UpToDate(d))
<1> DEFINE d == [c EXCEPT !.info = n]
<1>1. Sound(d) /\ Told(c, d) /\ d.info = n
  BY PutInfo DEF Told
<1> HIDE DEF d
<1>2. UpToDate(c) => UpToDate(d)
  BY <1>1, StillTrue DEF Told, SameFrame, SamePage
<1> QED
  BY <1>1, <1>2 DEF d

Describes(c) == c.kind \in {"pane", "list"}

LEMMA Entering ==
    ASSUME NEW c, Sound(c), NEW force \in BOOLEAN
    PROVE  LET d == Enter(c, force)
           IN  /\ Sound(d) /\ Told(c, d) /\ (UpToDate(c) => UpToDate(d))
               /\ d.info = IF (force \/ c.focus) /\ c.current # 0 /\ Describes(c)
                             THEN c.current ELSE c.info
<1>1. c.current \in Nat
  <2>1. c.current \in 0 .. Len(c.spots) /\ Len(c.spots) \in Nat
    BY Fields
  <2> QED
    BY <2>1
<1>2. Told(c, c)
  BY SameIsEnough DEF Told
<1> QED
  BY <1>1, <1>2, Telling DEF Enter, Describes

LEMMA Leaving ==
    ASSUME NEW c, Sound(c), NEW force \in BOOLEAN
    PROVE  LET d == Leave(c, force)
           IN  /\ Sound(d) /\ Told(c, d) /\ (UpToDate(c) => UpToDate(d))
               /\ d.info = IF (force \/ c.focus) /\ c.current # 0 /\ c.kind = "pane"
                             THEN 0 ELSE c.info
<1>1. Told(c, c)
  BY SameIsEnough DEF Told
<1> QED
  BY <1>1, Telling DEF Leave

\* Another current spot shows on a gadget only.
LEMMA Choosing ==
    ASSUME NEW c, Sound(c), NEW n \in 0 .. Len(c.spots),
           c.kind # "toggle" \/ ~c.realized \/ n = c.current
    PROVE  LET d == [c EXCEPT !.current = n]
           IN  /\ Sound(d) /\ SameFrame(c, d) /\ SamePage(c, d) /\ SamePointer(c, d)
               /\ d.spots = c.spots /\ d.current = n /\ d.info = c.info /\ d.top = c.top
               /\ UpToDate(c) => UpToDate(d)
<1> DEFINE d == [c EXCEPT !.current = n]
<1>1. /\ Sound(d) /\ SameFrame(c, d) /\ SamePage(c, d) /\ SamePointer(c, d)
      /\ d.spots = c.spots /\ d.current = n /\ d.info = c.info /\ d.top = c.top
      /\ d.bar = c.bar /\ d.screen = c.screen
  BY PutCurrent
<1> HIDE DEF d
<1>2. ASSUME UpToDate(c) PROVE UpToDate(d)
  <2>1. CASE n = c.current
    BY <1>1, <1>2, <2>1, StillTrue DEF SameFrame, SamePage
  <2>2. CASE ~c.realized
    BY <1>1, <2>2 DEF UpToDate, Stale, BarTrue, SameFrame
  <2>3. CASE c.kind # "toggle"
    <3>1. \A cell \in Cell : Gadgets(c, cell) = {} /\ Gadgets(d, cell) = {}
      BY <1>1, <2>3 DEF Gadgets, Sound, SpotsSound
    <3>2. \A cell \in Cell : Picture(d, cell) = Picture(c, cell)
      BY <1>1, <3>1 DEF Picture, Shown, Look, Lit, Row, SamePage, SamePointer
    <3> QED
      BY <1>1, <1>2, <3>2 DEF UpToDate, Stale, BarTrue, SameFrame
  <2> QED
    BY <2>1, <2>2, <2>3
<1> QED
  BY <1>1, <1>2 DEF d

\* The cursor is on the current spot or nowhere.
CursorAt(c) == c.cursor # Hidden => c.current # 0 /\ c.cursor = Spot(c).at

\* Where a spot is.
LEMMA SpotsAt ==
    ASSUME NEW c, Sound(c), NEW s \in 1 .. Len(c.spots)
    PROVE  c.spots[s] \in SpotOf(c.height) /\ c.spots[s].at \in Area(c.height)
<1>1. c.spots \in Seq(SpotOf(c.height))
  BY Fields
<1>2. c.spots[s] \in SpotOf(c.height)
  BY <1>1
<1> QED
  BY <1>2 DEF SpotOf

\* The keys and the mouse move to another spot: it is left and entered, and
\* the cursor follows.
LEMMA Moving ==
    ASSUME NEW c, Sound(c), UpToDate(c), NEW s \in 1 .. Len(c.spots),
           c.kind = "toggle" => c.current # 0
    PROVE  LET d == MoveTo(c, s)
           IN  /\ Sound(d) /\ UpToDate(d) /\ SameFrame(c, d) /\ SamePage(c, d)
               /\ d.spots = c.spots /\ d.current = s /\ d.cursor = c.spots[s].at
               /\ d.bright = c.bright /\ d.focus = c.focus
               /\ d.info = IF ~c.focus THEN c.info ELSE IF Describes(c) THEN s ELSE c.info
<1> DEFINE l == Leave(c, FALSE)
           m == [l EXCEPT !.current = s]
           e == Enter(m, FALSE)
           r == e.spots[s].at
           d == SetCursor(e, r)
<1>1. s # 0 /\ Len(c.spots) \in Nat /\ s \in 0 .. Len(c.spots)
  BY Fields
<1>2. Sound(l) /\ Told(c, l) /\ UpToDate(l)
      /\ l.info = IF c.focus /\ c.current # 0 /\ c.kind = "pane" THEN 0 ELSE c.info
  BY Leaving
<1> HIDE DEF l
<1>3. s \in 0 .. Len(l.spots) /\ (l.kind # "toggle" \/ ~l.realized \/ s = l.current)
  <2>1. l.spots = c.spots /\ l.current = c.current /\ l.kind = c.kind
    BY <1>2 DEF Told, SameFrame
  <2>2. c.kind = "toggle" => s = 1 /\ c.current = 1
    <3>1. c.spots \in Seq(SpotOf(c.height)) /\ c.current \in 0 .. Len(c.spots)
      BY Fields
    <3>2. DOMAIN c.spots = 1 .. Len(c.spots)
      BY <3>1
    <3> QED
      BY <3>1, <3>2 DEF Sound, SpotsSound
  <2> QED
    BY <1>1, <2>1, <2>2
<1>4. /\ Sound(m) /\ SameFrame(l, m) /\ SamePage(l, m) /\ SamePointer(l, m)
      /\ m.spots = l.spots /\ m.current = s /\ m.info = l.info /\ UpToDate(m)
  BY <1>2, <1>3, Choosing
<1> HIDE DEF m
<1>5. Sound(e) /\ Told(m, e) /\ UpToDate(e)
      /\ e.info = IF m.focus /\ Describes(m) THEN s ELSE m.info
  BY <1>1, <1>4, Entering
<1>6. e.spots = c.spots /\ e.current = s /\ MoveTo(c, s) = d
  BY <1>2, <1>4, <1>5 DEF Told, MoveTo, Spot, l, m
<1> HIDE DEF e
<1>7. r = c.spots[s].at /\ r \in Area(e.height) \cup {Hidden}
  BY <1>5, <1>6, SpotsAt
<1> HIDE DEF r
<1>8. /\ Sound(d) /\ UpToDate(d) /\ SameFrame(e, d) /\ SameSpots(e, d) /\ SamePage(e, d)
      /\ d.cursor = r /\ d.bright = e.bright /\ d.focus = e.focus
  BY <1>5, <1>7, SetCursorDraws
<1> HIDE DEF d
<1>9. SameFrame(c, d) /\ SamePage(c, d)
  <2>1. SameFrame(c, m) /\ SamePage(c, m)
    BY <1>2, <1>4, SameIsEnough DEF Told
  <2>2. SameFrame(c, e) /\ SamePage(c, e)
    BY <1>5, <2>1, SameIsEnough DEF Told
  <2> QED
    BY <1>8, <2>2, SameIsEnough
<1>10. d.bright = c.bright /\ d.focus = c.focus
  BY <1>2, <1>4, <1>5, <1>8 DEF Told, SamePointer
<1>11. d.info = IF ~c.focus THEN c.info ELSE IF Describes(c) THEN s ELSE c.info
  <2>1. m.focus = c.focus /\ m.kind = c.kind /\ d.info = e.info /\ m.info = l.info
    BY <1>2, <1>4, <1>8 DEF Told, SamePointer, SameFrame, SameSpots
  <2> QED
    BY <1>2, <1>5, <2>1 DEF Describes
<1> QED
  BY <1>6, <1>7, <1>8, <1>9, <1>10, <1>11 DEF SameSpots
\* What a console looks like after a spot was added.
Added(c, at, gadget, d) ==
    /\ SameFrame(c, d) /\ SamePage(c, d)
    /\ d.spots = Append(c.spots, [at |-> at, gadget |-> gadget, state |-> FALSE])
    /\ d.current = IF c.current # 0 THEN c.current ELSE 1
    /\ d.cursor = IF c.current = 0 /\ Keyboard(c) THEN at ELSE c.cursor
    /\ d.bright = c.bright /\ d.focus = c.focus
    /\ d.info = IF c.current = 0 /\ c.focus /\ Describes(c) THEN 1 ELSE c.info

LEMMA Appending ==
    ASSUME NEW c, Sound(c), UpToDate(c), NEW at \in Area(c.height), NEW gadget \in BOOLEAN,
           gadget <=> c.kind = "toggle",
           c.kind = "toggle" => c.spots = <<>> /\ ~c.realized /\ ~Within(0, 0, at)
    PROVE  LET d == AppendSpot(c, at, gadget)
           IN  Sound(d) /\ UpToDate(d) /\ Added(c, at, gadget, d)
<1> DEFINE spot == [at |-> at, gadget |-> gadget, state |-> FALSE]
           q == Append(c.spots, spot)
           b == [c EXCEPT !.spots = q]
           m == [b EXCEPT !.current = 1]
           e == Enter(m, FALSE)
           d == SetCursor(e, at)
           n == Len(c.spots)
<1>1. c.spots \in Seq(SpotOf(c.height)) /\ n \in Nat /\ c.current \in 0 .. n
  BY Fields
<1>2. spot \in SpotOf(c.height) /\ spot.at = at /\ spot.gadget = gadget
  BY DEF SpotOf
<1> HIDE DEF spot
<1>3. /\ q \in Seq(SpotOf(c.height)) /\ Len(q) = n + 1 /\ DOMAIN q = 1 .. n + 1
      /\ DOMAIN c.spots = 1 .. n
      /\ \A k \in 1 .. n : q[k] = c.spots[k]
      /\ q[n + 1] = spot
  BY <1>1, <1>2
<1> HIDE DEF q
<1>4. ASSUME NEW s \in DOMAIN q
      PROVE  /\ q[s].gadget <=> c.kind = "toggle"
             /\ c.kind = "toggle" => s = 1 /\ ~Within(0, 0, q[s].at)
  <2>1. s \in 1 .. n \/ s = n + 1
    BY <1>1, <1>3
  <2>2. CASE s \in 1 .. n
    BY <1>3, <2>2 DEF Sound, SpotsSound
  <2>3. CASE s = n + 1
    <3>1. c.kind = "toggle" => n = 0
      BY <1>1
    <3> QED
      BY <1>2, <1>3, <2>3, <3>1
  <2> QED
    BY <2>1, <2>2, <2>3
<1>5. /\ Sound(b) /\ SameFrame(c, b) /\ SamePage(c, b) /\ SamePointer(c, b) /\ b.spots = q
      /\ b.current = c.current /\ b.info = c.info /\ b.top = c.top /\ b.bar = c.bar
      /\ b.screen = c.screen
  <2>1. c.current <= Len(q)
    BY <1>1, <1>3
  <2> QED
    BY <1>3, <1>4, <2>1, PutSpots
<1> HIDE DEF b
<1>6. UpToDate(b)
  <2>1. CASE c.kind = "toggle"
    BY <1>5, <2>1 DEF UpToDate, Stale, BarTrue, SameFrame
  <2>2. CASE c.kind # "toggle"
    <3>1. \A cell \in Cell : Gadgets(c, cell) = {} /\ Gadgets(b, cell) = {}
      BY <1>5, <2>2 DEF Gadgets, Sound, SpotsSound, SameFrame
    <3>2. \A cell \in Cell : Picture(b, cell) = Picture(c, cell)
      BY <1>5, <3>1 DEF Picture, Shown, Look, Lit, Row, SamePage, SamePointer
    <3> QED
      BY <1>5, <3>2 DEF UpToDate, Stale, BarTrue, SameFrame
  <2> QED
    BY <2>1, <2>2
<1>7. CASE c.current # 0
  <2>1. AppendSpot(c, at, gadget) = b
    BY <1>7 DEF AppendSpot, b, q, spot
  <2> QED
    BY <1>5, <1>6, <1>7, <2>1 DEF Added, SamePointer, q, spot
<1>8. CASE c.current = 0
  <2>1. /\ Sound(m) /\ SameFrame(b, m) /\ SamePage(b, m) /\ SamePointer(b, m)
        /\ m.spots = b.spots /\ m.current = 1 /\ m.info = b.info /\ UpToDate(m)
    <3>1. 1 \in 0 .. Len(b.spots)
      BY <1>1, <1>3, <1>5
    <3>2. b.kind # "toggle" \/ ~b.realized
      BY <1>5 DEF SameFrame
    <3> QED
      BY <1>5, <1>6, <3>1, <3>2, Choosing
  <2> HIDE DEF m
  <2>2. Sound(e) /\ Told(m, e) /\ UpToDate(e)
        /\ e.info = IF m.focus /\ m.current # 0 /\ Describes(m) THEN m.current ELSE m.info
    BY <2>1, Entering
  <2>3. AppendSpot(c, at, gadget) = IF Keyboard(c) THEN d ELSE e
    BY <1>8 DEF AppendSpot, b, q, spot, m
  <2> HIDE DEF e
  <2>4. SameFrame(c, e) /\ SamePage(c, e) /\ SamePointer(c, e)
    <3>1. SameFrame(c, m) /\ SamePage(c, m) /\ SamePointer(c, m)
      BY <1>5, <2>1, SameIsEnough
    <3> QED
      BY <2>2, <3>1, SameIsEnough DEF Told
  <2>5. /\ e.spots = q /\ e.current = 1
        /\ e.info = IF c.focus /\ Describes(c) THEN 1 ELSE c.info
    <3>1. m.focus = c.focus /\ m.kind = c.kind /\ m.info = c.info
      BY <1>5, <2>1 DEF SamePointer, SameFrame
    <3> QED
      BY <1>5, <2>1, <2>2, <3>1 DEF Told, Describes
  <2>6. CASE ~Keyboard(c)
    BY <1>8, <2>2, <2>3, <2>4, <2>5, <2>6 DEF Added, SamePointer, q, spot
  <2>7. CASE Keyboard(c)
    <3>1. at \in Area(e.height) \cup {Hidden}
      BY <2>4 DEF SameFrame
    <3>2. /\ Sound(d) /\ UpToDate(d) /\ SameFrame(e, d) /\ SameSpots(e, d) /\ SamePage(e, d)
          /\ d.cursor = at /\ d.bright = e.bright /\ d.focus = e.focus
      BY <2>2, <3>1, SetCursorDraws
    <3> HIDE DEF d
    <3>3. SameFrame(c, d) /\ SamePage(c, d)
      BY <2>4, <3>2, SameIsEnough
    <3> QED
      BY <1>8, <2>3, <2>4, <2>5, <2>7, <3>2, <3>3 DEF Added, SamePointer, SameSpots, q, spot
  <2> QED
    BY <2>6, <2>7
<1> QED
  BY <1>1, <1>7, <1>8

\* The last spot is taken away, and the cursor with it.
LEMMA Detaching ==
    ASSUME NEW c, Sound(c), UpToDate(c), c.kind # "toggle", c.spots # <<>>
    PROVE  LET d == DetachSpot(c)
           IN  /\ Sound(d) /\ UpToDate(d) /\ SameFrame(c, d) /\ SamePage(c, d)
               /\ d.spots = Front(c.spots) /\ d.current = 0 /\ d.cursor = Hidden
               /\ d.bright = FALSE /\ d.focus = c.focus /\ d.info = c.info
<1> DEFINE a == [c EXCEPT !.current = 0]
           l == Leave(a, FALSE)
           h == SetCursor(l, Hidden)
           k == SetHighlighted(h, FALSE)
           q == Front(k.spots)
           d == [k EXCEPT !.spots = q]
<1>1. DetachSpot(c) = d
  BY DEF DetachSpot
<1>2. /\ Sound(a) /\ SameFrame(c, a) /\ SamePage(c, a) /\ SamePointer(c, a)
      /\ a.spots = c.spots /\ a.current = 0 /\ a.info = c.info /\ UpToDate(a)
  <2>1. 0 \in 0 .. Len(c.spots)
    <3>1. Len(c.spots) \in Nat
      BY Fields
    <3> QED
      BY <3>1
  <2> QED
    BY <2>1, Choosing
<1> HIDE DEF a
<1>3. Sound(l) /\ Told(a, l) /\ UpToDate(l) /\ l.info = c.info
  BY <1>2, Leaving
<1> HIDE DEF l
<1>4. /\ Sound(h) /\ UpToDate(h) /\ SameFrame(l, h) /\ SameSpots(l, h) /\ SamePage(l, h)
      /\ h.cursor = Hidden /\ h.bright = l.bright /\ h.focus = l.focus
  BY <1>3, SetCursorDraws
<1> HIDE DEF h
<1>5. /\ Sound(k) /\ UpToDate(k) /\ SameFrame(h, k) /\ SameSpots(h, k) /\ SamePage(h, k)
      /\ k.cursor = h.cursor /\ k.bright = FALSE /\ k.focus = h.focus
  BY <1>4, SetHighlightedDraws
<1> HIDE DEF k
<1>6. /\ SameFrame(c, k) /\ SamePage(c, k) /\ k.spots = c.spots /\ k.current = 0
      /\ k.info = c.info /\ k.cursor = Hidden /\ k.focus = c.focus
  <2>1. SameFrame(c, l) /\ SamePage(c, l)
    BY <1>2, <1>3, SameIsEnough DEF Told
  <2>2. SameFrame(c, h) /\ SamePage(c, h)
    BY <1>4, <2>1, SameIsEnough
  <2>3. SameFrame(c, k) /\ SamePage(c, k)
    BY <1>5, <2>2, SameIsEnough
  <2> QED
    BY <1>2, <1>3, <1>4, <1>5, <2>3 DEF Told, SameSpots, SamePointer
<1>7. /\ c.spots \in Seq(SpotOf(c.height)) /\ k.height = c.height
      /\ q \in Seq(SpotOf(c.height)) /\ Len(c.spots) \in Nat \ {0} /\ Len(q) = Len(c.spots) - 1
      /\ \A s \in 1 .. Len(c.spots) - 1 : q[s] = c.spots[s]
  <2>1. c.spots \in Seq(SpotOf(c.height))
    BY Fields
  <2>2. k.height = c.height
    BY <1>6 DEF SameFrame
  <2> QED
    BY <1>6, <2>1, <2>2, Fronts
<1> HIDE DEF q
<1>8. ASSUME NEW s \in DOMAIN q PROVE ~q[s].gadget /\ k.kind # "toggle"
  <2>1. s \in 1 .. Len(c.spots) - 1 /\ s \in DOMAIN c.spots
    BY <1>7
  <2> QED
    BY <1>6, <1>7, <2>1 DEF Sound, SpotsSound, SameFrame
<1>9. /\ Sound(d) /\ SameFrame(k, d) /\ SamePage(k, d) /\ SamePointer(k, d) /\ d.spots = q
      /\ d.current = 0 /\ d.info = k.info /\ d.top = k.top /\ d.bar = k.bar
      /\ d.screen = k.screen
  <2>1. k.current <= Len(q) /\ q \in Seq(SpotOf(k.height))
    BY <1>6, <1>7
  <2> QED
    BY <1>5, <1>6, <1>8, <2>1, PutSpots
<1> HIDE DEF d
<1>10. UpToDate(d)
  <2>1. d.kind # "toggle" /\ k.kind # "toggle"
    BY <1>6, <1>9 DEF SameFrame
  <2>2. \A cell \in Cell : Gadgets(k, cell) = {} /\ Gadgets(d, cell) = {}
    BY <1>5, <1>9, <2>1 DEF Gadgets, Sound, SpotsSound
  <2>3. \A cell \in Cell : Picture(d, cell) = Picture(k, cell)
    BY <1>9, <2>2 DEF Picture, Shown, Look, Lit, Row, SamePage, SamePointer
  <2> QED
    BY <1>5, <1>9, <2>3 DEF UpToDate, Stale, BarTrue, SameFrame
<1>11. SameFrame(c, d) /\ SamePage(c, d)
  BY <1>6, <1>9, SameIsEnough
<1> QED
  BY <1>1, <1>5, <1>6, <1>9, <1>10, <1>11 DEF SamePointer, q

\* All spots are taken away (sc_active_console_detach_all_spots).
LEMMA DetachingAll ==
    ASSUME NEW c, Sound(c), UpToDate(c), CursorAt(c), c.kind # "toggle"
    PROVE  LET d == DetachAllSpots(c)
           IN  /\ Sound(d) /\ UpToDate(d) /\ SameFrame(c, d) /\ SamePage(c, d)
               /\ Len(d.spots) = 0 /\ d.current = 0 /\ d.cursor = Hidden
               /\ d.focus = c.focus /\ d.info = c.info
<1> DEFINE n == Len(c.spots)
           R(f) == f = [k \in 0 .. n |-> IF k = 0 THEN c ELSE DetachSpot(f[k - 1])]
           f == CHOOSE f : R(f)
<1>1. n \in Nat
  BY Fields
<1>2. DetachAllSpots(c) = f[n]
  BY DEF DetachAllSpots
<1>3. R(f)
  <2>1. PICK g : IsRun("DetachAllSpots", c, 0, n, g)
    BY <1>1, Loops
  <2>2. R(g)
    BY <2>1 DEF IsRun, Step
  <2> QED
    BY <2>2
<1> HIDE DEF f
<1>4. f[0] = c /\ \A k \in Nat : k + 1 \in 0 .. n => f[k + 1] = DetachSpot(f[k])
  BY <1>1, <1>3
<1> DEFINE P(k) == LET d == f[k]
                   IN  /\ Sound(d) /\ UpToDate(d) /\ CursorAt(d) /\ SameFrame(c, d) /\ SamePage(c, d)
                       /\ d.focus = c.focus /\ d.info = c.info
                       /\ Len(d.spots) = n - k
           T == {k \in Nat : k \in 0 .. n => P(k)}
<1>5. 0 \in T
  <2>1. P(0)
    BY <1>1, <1>4, SameIsEnough
  <2> QED
    BY <2>1
<1>6. ASSUME NEW k \in Nat, k \in T PROVE k + 1 \in T
  <2> SUFFICES ASSUME k + 1 \in 0 .. n PROVE P(k + 1)
    OBVIOUS
  <2> DEFINE d == f[k]
             e == DetachSpot(d)
  <2>1. P(k) /\ f[k + 1] = e
    BY <1>1, <1>4, <1>6
  <2> HIDE DEF f, R
  <2>2. d.spots \in Seq(SpotOf(d.height)) /\ d.kind # "toggle"
    BY <2>1, Fields DEF SameFrame
  <2>3. d.spots # <<>>
    <3>1. n - k # 0
      BY <1>1
    <3> QED
      BY <2>1, <3>1
  <2>4. /\ Sound(e) /\ UpToDate(e) /\ SameFrame(d, e) /\ SamePage(d, e)
        /\ e.spots = Front(d.spots) /\ e.current = 0 /\ e.cursor = Hidden
        /\ e.focus = d.focus /\ e.info = d.info
    BY <2>1, <2>2, <2>3, Detaching
  <2>5. Len(e.spots) = n - (k + 1)
    <3>1. Len(Front(d.spots)) = Len(d.spots) - 1
      BY <2>2, <2>3, Fronts
    <3> QED
      BY <1>1, <2>1, <2>4, <3>1
  <2>6. SameFrame(c, e) /\ SamePage(c, e)
    <3>1. SameFrame(c, d) /\ SamePage(c, d)
      BY <2>1
    <3> HIDE DEF d, e
    <3> QED
      BY <2>4, <3>1, SameIsEnough
  <2>7. CursorAt(e)
    BY <2>4 DEF CursorAt
  <2> HIDE DEF d, e
  <2> QED
    BY <2>1, <2>4, <2>5, <2>6, <2>7 DEF d
<1>7. Nat \subseteq T
  <2> HIDE DEF T
  <2> QED
    BY <1>5, <1>6, Induction
<1>8. P(n)
  <2>1. n \in 0 .. n /\ n \in Nat
    BY <1>1
  <2> HIDE DEF P
  <2> QED
    BY <1>7, <2>1
<1>9. f[n].current = 0
  <2>1. Sound(f[n]) /\ Len(f[n].spots) = 0
    BY <1>1, <1>8
  <2>2. f[n].current \in 0 .. Len(f[n].spots)
    BY <2>1, Fields
  <2> QED
    BY <2>1, <2>2
<1>10. Len(f[n].spots) = 0
  BY <1>1, <1>8
<1> QED
  BY <1>2, <1>8, <1>9, <1>10 DEF CursorAt

\* What a change of the focus leaves.
Refocused(c, on, d) ==
    /\ SameFrame(c, d) /\ SamePage(c, d) /\ d.spots = c.spots /\ d.current = c.current
    /\ d.cursor = c.cursor /\ d.bright = c.bright /\ d.focus = on

LEMMA FocusIns ==
    ASSUME NEW c, Sound(c), UpToDate(c), CursorOnGadget(c)
    PROVE  LET d == FocusIn(c)
           IN  /\ Sound(d) /\ UpToDate(d) /\ Refocused(c, TRUE, d)
               /\ d.info = IF c.current # 0 /\ Describes(c) THEN c.current ELSE c.info
<1> DEFINE e == FocusDrawn(c, TRUE)
           d == Enter(e, TRUE)
<1>1. /\ Sound(e) /\ UpToDate(e) /\ SameFrame(c, e) /\ SameSpots(c, e) /\ SamePage(c, e)
      /\ e.cursor = c.cursor /\ e.bright = c.bright /\ e.focus = TRUE
  BY FocusDraws
<1> HIDE DEF e
<1>2. /\ Sound(d) /\ Told(e, d) /\ UpToDate(d)
      /\ d.info = IF e.current # 0 /\ Describes(e) THEN e.current ELSE e.info
  BY <1>1, Entering
<1>3. FocusIn(c) = d
  BY DEF FocusIn, e
<1> HIDE DEF d
<1>4. SameFrame(c, d) /\ SamePage(c, d)
  BY <1>1, <1>2, SameIsEnough DEF Told
<1>5. e.current = c.current /\ e.info = c.info /\ e.kind = c.kind
  BY <1>1 DEF SameSpots, SameFrame
<1> QED
  BY <1>1, <1>2, <1>3, <1>4, <1>5 DEF Told, SameSpots, SamePointer, Refocused, Describes

LEMMA FocusOuts ==
    ASSUME NEW c, Sound(c), UpToDate(c), CursorOnGadget(c)
    PROVE  LET d == FocusOut(c)
           IN  /\ Sound(d) /\ UpToDate(d) /\ Refocused(c, FALSE, d)
               /\ d.info = IF c.current # 0 /\ c.kind = "pane" THEN 0 ELSE c.info
<1> DEFINE e == FocusDrawn(c, FALSE)
           d == Leave(e, TRUE)
<1>1. /\ Sound(e) /\ UpToDate(e) /\ SameFrame(c, e) /\ SameSpots(c, e) /\ SamePage(c, e)
      /\ e.cursor = c.cursor /\ e.bright = c.bright /\ e.focus = FALSE
  BY FocusDraws
<1> HIDE DEF e
<1>2. /\ Sound(d) /\ Told(e, d) /\ UpToDate(d)
      /\ d.info = IF e.current # 0 /\ e.kind = "pane" THEN 0 ELSE e.info
  BY <1>1, Leaving
<1>3. FocusOut(c) = d
  BY DEF FocusOut, e
<1> HIDE DEF d
<1>4. SameFrame(c, d) /\ SamePage(c, d)
  BY <1>1, <1>2, SameIsEnough DEF Told
<1>5. e.current = c.current /\ e.info = c.info /\ e.kind = c.kind
  BY <1>1 DEF SameSpots, SameFrame
<1> QED
  BY <1>1, <1>2, <1>3, <1>4, <1>5 DEF Told, SameSpots, SamePointer, Refocused

\* A gadget is turned on or off and paints itself.
LEMMA Toggling ==
    ASSUME NEW c, Sound(c), UpToDate(c), c.kind = "toggle", c.current # 0
    PROVE  LET d == Toggled(c)
           IN  /\ Sound(d) /\ UpToDate(d) /\ SameFrame(c, d) /\ SamePage(c, d) /\ SamePointer(c, d)
               /\ Len(d.spots) = Len(c.spots) /\ d.current = c.current /\ d.info = c.info
               /\ Spot(d).at = Spot(c).at
<1> DEFINE s == c.current
           old == c.spots[s]
           new == [old EXCEPT !.state = ~@]
           q == [c.spots EXCEPT ![s] = new]
           turned == [c EXCEPT !.spots[c.current].state = ~@]
           e == [c EXCEPT !.spots = q]
           d == PaintGadget(e, s)
<1>0. Toggled(c) = IF turned.realized THEN PaintGadget(turned, turned.current) ELSE turned
  BY DEF Toggled
<1>1. c.spots \in Seq(SpotOf(c.height)) /\ Len(c.spots) \in Nat /\ s \in 1 .. Len(c.spots)
  <2>1. c.spots \in Seq(SpotOf(c.height)) /\ Len(c.spots) \in Nat /\ c.current \in 0 .. Len(c.spots)
    BY Fields
  <2> QED
    BY <2>1
<1>2. s = 1 /\ old.gadget /\ \A k \in DOMAIN c.spots : k = 1
  BY <1>1 DEF Sound, SpotsSound
<1>3. old \in SpotOf(c.height)
  BY SpotsAt, <1>1
<1> HIDE DEF old
<1>4. new \in SpotOf(c.height) /\ new.at = old.at /\ new.gadget = old.gadget
  BY <1>3 DEF SpotOf
<1>5. turned = e
  BY <1>1 DEF Sound, Typed, old
<1> HIDE DEF new, turned
<1>6. /\ q \in Seq(SpotOf(c.height)) /\ Len(q) = Len(c.spots) /\ DOMAIN q = DOMAIN c.spots
      /\ q[s] = new
  BY <1>1, <1>4
<1> HIDE DEF q
<1>7. /\ Sound(e) /\ SameFrame(c, e) /\ SamePage(c, e) /\ SamePointer(c, e) /\ e.spots = q
      /\ e.current = c.current /\ e.info = c.info /\ e.top = c.top /\ e.bar = c.bar
      /\ e.screen = c.screen
  <2>1. \A k \in DOMAIN q : /\ q[k].gadget <=> c.kind = "toggle"
                            /\ c.kind = "toggle" => k = 1 /\ ~Within(0, 0, q[k].at)
    BY <1>1, <1>2, <1>4, <1>6 DEF Sound, SpotsSound, old
  <2>2. c.current <= Len(q)
    BY <1>1, <1>6
  <2> QED
    BY <1>6, <2>1, <2>2, PutSpots
<1> HIDE DEF e
<1>8. Spot(e).at = Spot(c).at
  BY <1>4, <1>6, <1>7 DEF Spot, old
<1>9. Toggled(c) = IF e.realized THEN d ELSE e
  BY <1>0, <1>5, <1>7
<1>10. CASE ~e.realized
  <2>1. UpToDate(e)
    BY <1>10 DEF UpToDate, Stale, BarTrue
  <2> QED
    BY <1>6, <1>7, <1>8, <1>9, <1>10, <2>1
<1>11. CASE e.realized
  <2> DEFINE p == [cell \in Cell |-> IF Within(Column(cell), Row(e, cell), e.spots[s].at)
                                       THEN GadgetShown(e, s) ELSE e.screen[cell]]
  <2>1. d = [e EXCEPT !.screen = p]
    BY DEF PaintGadget
  <2>2. /\ p = [cell \in Cell |-> p[cell]]
        /\ \A cell \in Cell : p[cell] = IF Within(Column(cell), Row(e, cell), e.spots[s].at)
                                          THEN GadgetShown(e, s) ELSE e.screen[cell]
    OBVIOUS
  <2> HIDE DEF p
  <2>3. Sound(d) /\ Drawn(e, d) /\ d.bar = e.bar /\ d.screen = p
    BY <1>7, <2>1, <2>2, OnScreen
  <2> HIDE DEF d
  <2>4. ASSUME NEW cell \in Cell PROVE p[cell] = Picture(e, cell)
    <3>1. Gadgets(e, cell) = IF Within(Column(cell), Row(e, cell), e.spots[s].at) THEN {s} ELSE {}
      <4>1. /\ DOMAIN e.spots = DOMAIN c.spots /\ s \in DOMAIN c.spots /\ e.spots[s].gadget
            /\ \A k \in DOMAIN e.spots : k = s
        <5>1. DOMAIN e.spots = DOMAIN c.spots /\ e.spots[s].gadget
          BY <1>2, <1>4, <1>6, <1>7
        <5>2. s \in DOMAIN c.spots
          BY <1>1
        <5> QED
          BY <1>2, <5>1, <5>2
      <4> HIDE DEF s
      <4> QED
        BY <4>1 DEF Gadgets
    <3>2. CASE Within(Column(cell), Row(e, cell), e.spots[s].at)
      <4>1. Max({s}) \in {s}
        <5>1. {s} \in SUBSET (1 .. 1) /\ {s} # {}
          BY <1>2
        <5> QED
          BY <5>1, Extremes
      <4> QED
        BY <2>2, <3>1, <3>2, <4>1 DEF Picture
    <3>3. CASE ~Within(Column(cell), Row(e, cell), e.spots[s].at)
      <4>1. ~Within(Column(cell), Row(c, cell), c.spots[s].at)
        BY <1>4, <1>6, <1>7, <3>3 DEF Row, old
      <4>2. Gadgets(c, cell) = {}
        BY <1>2, <4>1 DEF Gadgets
      <4>3. c.screen[cell] = Shown(c, cell)
        <5>1. c.realized
          BY <1>7, <1>11 DEF SameFrame
        <5> QED
          BY <4>2, <5>1 DEF UpToDate, Stale, Picture
      <4>4. Shown(e, cell) = Shown(c, cell)
        BY <1>7 DEF Shown, Look, Lit, Row, SamePage, SamePointer
      <4> QED
        BY <1>7, <2>2, <3>1, <3>3, <4>3, <4>4 DEF Picture
    <3> QED
      BY <3>2, <3>3
  <2>5. UpToDate(d)
    <3>1. \A cell \in Cell : Picture(d, cell) = Picture(e, cell)
      BY <2>3, SamePicture
    <3>2. BarTrue(d)
      BY <1>7, <2>3 DEF UpToDate, BarTrue, Drawn, SameFrame
    <3> QED
      BY <2>3, <2>4, <3>1, <3>2 DEF UpToDate, Stale
  <2>6. SameFrame(c, d) /\ SamePage(c, d) /\ SamePointer(c, d)
    BY <1>7, <2>3, SameIsEnough DEF Drawn
  <2> QED
    BY <1>6, <1>7, <1>8, <1>9, <1>11, <2>3, <2>5, <2>6 DEF Drawn, SameSpots, Spot
<1> QED
  BY <1>10, <1>11

-----------------------------------------------------------------------------
(* The invariant.                                                          *)

Playable == Kinds \ {"status"}

\* A console between two events: with a keyboard there is always a current
\* spot under the cursor, and what is told of it is told in pairs.
Consistent(c) ==
    /\ Sound(c) /\ UpToDate(c) /\ CursorAt(c)
    /\ c.kind \in Playable => c.current # 0 /\ c.cursor # Hidden
    /\ Describes(c) => Len(c.spots) <= PaneHeight
    /\ ~Describes(c) => c.height = ViewHeight /\ c.info = 0
    /\ c.kind = "pane" => c.info = IF c.focus THEN c.current ELSE 0
    /\ c.kind = "list" => c.info = c.current
    /\ c.kind = "gone" => ~c.sensitive

\* The buttons that are held account for a cursor that is lit and for a
\* release to be ignored, each for one of its own.
Held(c, n) ==
    c.kind \in Playable =>
        /\ c.bright => n >= 1
        /\ c.ignore => n >= 1
        /\ c.bright /\ c.ignore => n >= 2
        /\ ~c.sensitive => ~c.bright /\ ~c.ignore

ConsoleInv ==
    /\ Consistent(cons) /\ Held(cons, down)
    /\ down \in 0 .. MaxButtons

\* A console that heard of an event and may have been closed or replaced.
SameButtons(c, d) ==
    /\ d.kind = c.kind /\ d.sensitive = c.sensitive
    /\ d.bright = c.bright /\ d.ignore = c.ignore
Steady(c, d) ==
    /\ Consistent(d)
    /\ \/ SameButtons(c, d)
       \/ d.kind = "gone"
       \/ d.kind = "status"

LEMMA HeldSteady ==
    ASSUME NEW c, NEW d, NEW n, Held(c, n), Steady(c, d)
    PROVE  Held(d, n)
BY DEF Held, Steady, SameButtons, Playable, Kinds

\* Its cursor is on its gadget.
LEMMA CursorGadget ==
    ASSUME NEW c, Consistent(c)
    PROVE  CursorOnGadget(c)
<1> SUFFICES ASSUME NEW s \in DOMAIN c.spots, c.spots[s].gadget, c.current = s
             PROVE  c.cursor = c.spots[s].at
  BY DEF CursorOnGadget
<1>1. c.kind = "toggle"
  BY DEF Consistent, Sound, SpotsSound
<1>2. c.cursor # Hidden
  BY <1>1 DEF Consistent, Playable, Kinds
<1> QED
  BY <1>2 DEF Consistent, CursorAt, Spot

\* What changes neither the spots nor the kind of a console, nor its cursor.
LEMMA StaysConsistent ==
    ASSUME NEW c, Consistent(c), NEW d, Sound(d), UpToDate(d),
           d.kind = c.kind, d.height = c.height, d.spots = c.spots, d.current = c.current,
           d.cursor = c.cursor,
           d.kind = "pane" => d.info = IF d.focus THEN d.current ELSE 0,
           d.kind # "pane" => d.info = c.info,
           d.kind = "gone" => ~d.sensitive
    PROVE  Consistent(d)
BY DEF Consistent, CursorAt, Spot, Describes

LEMMA Grabbing ==
    ASSUME NEW c, Consistent(c)
    PROVE  LET d == GrabFocus(c)
           IN  Consistent(d) /\ Refocused(c, TRUE, d) /\ SameButtons(c, d)
<1>1. CASE c.focus
  <2>1. c.focus = TRUE
    <3>1. c.focus \in BOOLEAN
      BY Fields DEF Consistent
    <3> QED
      BY <1>1, <3>1
  <2>2. Refocused(c, TRUE, c)
    BY <2>1, SameIsEnough DEF Refocused
  <2> QED
    BY <1>1, <2>2 DEF GrabFocus, SameButtons
<1>2. CASE ~c.focus
  <2> DEFINE d == FocusIn(c)
  <2>1. /\ Sound(d) /\ UpToDate(d) /\ Refocused(c, TRUE, d)
        /\ d.info = IF c.current # 0 /\ Describes(c) THEN c.current ELSE c.info
    BY CursorGadget, FocusIns DEF Consistent
  <2>2. GrabFocus(c) = d
    BY <1>2 DEF GrabFocus
  <2> HIDE DEF d
  <2>3. /\ c.kind = "pane" => c.current # 0 /\ Describes(c)
        /\ c.kind # "pane" => d.info = c.info
    BY <2>1 DEF Consistent, Describes, Playable, Kinds
  <2>4. Consistent(d)
    BY <2>1, <2>3, StaysConsistent DEF Refocused, SameFrame, Consistent
  <2> QED
    BY <2>1, <2>2, <2>4 DEF Refocused, SameFrame, SameButtons
<1> QED
  BY <1>1, <1>2

LEMMA Unfocusing ==
    ASSUME NEW c, Consistent(c)
    PROVE  LET d == FocusOut(c)
           IN  Consistent(d) /\ Refocused(c, FALSE, d) /\ SameButtons(c, d)
<1> DEFINE d == FocusOut(c)
<1>1. /\ Sound(d) /\ UpToDate(d) /\ Refocused(c, FALSE, d)
      /\ d.info = IF c.current # 0 /\ c.kind = "pane" THEN 0 ELSE c.info
  BY CursorGadget, FocusOuts DEF Consistent
<1> HIDE DEF d
<1>2. c.kind = "pane" => c.current # 0
  BY DEF Consistent, Playable, Kinds
<1>3. Consistent(d)
  BY <1>1, <1>2, StaysConsistent DEF Refocused, SameFrame, Consistent
<1> QED
  BY <1>1, <1>3 DEF Refocused, SameFrame, SameButtons, d

\* Which events a console hears of.
LEMMA SettingSensitive ==
    ASSUME NEW c, Sound(c), UpToDate(c), CursorOnGadget(c), NEW on \in BOOLEAN
    PROVE  LET d == SetSensitive(c, on)
           IN  /\ Sound(d) /\ UpToDate(d) /\ SamePage(c, d)
               /\ d.kind = c.kind /\ d.height = c.height /\ d.realized = c.realized
               /\ d.ignore = c.ignore /\ d.enabled = c.enabled /\ d.sensitive = on
               /\ d.spots = c.spots /\ d.current = c.current
               /\ d.cursor = c.cursor /\ d.bright = c.bright
               /\ d.focus = IF on THEN c.focus ELSE FALSE
               /\ d.info = IF c.focus /\ ~on /\ c.current # 0 /\ c.kind = "pane"
                             THEN 0 ELSE c.info
<1> DEFINE e == IF c.focus /\ ~on THEN FocusOut(c) ELSE c
           d == [e EXCEPT !.sensitive = on]
<1>1. SetSensitive(c, on) = d
  BY DEF SetSensitive
<1>2. /\ Sound(e) /\ UpToDate(e) /\ Refocused(c, IF on THEN c.focus ELSE FALSE, e)
      /\ e.info = IF c.focus /\ ~on /\ c.current # 0 /\ c.kind = "pane" THEN 0 ELSE c.info
  <2>1. CASE c.focus /\ ~on
    <3>1. (IF on THEN c.focus ELSE FALSE) = FALSE /\ e = FocusOut(c)
      BY <2>1
    <3> HIDE DEF e
    <3>2. /\ Sound(e) /\ UpToDate(e) /\ Refocused(c, FALSE, e)
          /\ e.info = IF c.current # 0 /\ c.kind = "pane" THEN 0 ELSE c.info
      BY <3>1, FocusOuts
    <3>3. Refocused(c, IF on THEN c.focus ELSE FALSE, e)
      BY <3>1, <3>2
    <3>4. e.info = IF c.focus /\ ~on /\ c.current # 0 /\ c.kind = "pane" THEN 0 ELSE c.info
      BY <2>1, <3>2
    <3> QED
      BY <3>2, <3>3, <3>4
  <2>2. CASE ~(c.focus /\ ~on)
    <3>1. c.focus \in BOOLEAN
      BY Fields
    <3>2. (IF on THEN c.focus ELSE FALSE) = c.focus /\ e = c
      BY <2>2, <3>1
    <3> QED
      BY <2>2, <3>2, SameIsEnough DEF Refocused
  <2> QED
    BY <2>1, <2>2
<1> HIDE DEF e
<1>3. /\ Sound(d) /\ SameSpots(e, d) /\ SamePage(e, d) /\ SamePointer(e, d) /\ d.sensitive = on
      /\ d.kind = e.kind /\ d.height = e.height /\ d.realized = e.realized
      /\ d.ignore = e.ignore /\ d.enabled = e.enabled
      /\ d.top = e.top /\ d.bar = e.bar /\ d.screen = e.screen
  BY <1>2, PutSensitive
<1> HIDE DEF d
<1>4. UpToDate(d)
  BY <1>2, <1>3, StillTrue DEF SameSpots, SamePage
<1>5. SamePage(c, d)
  BY <1>2, <1>3, SameIsEnough DEF Refocused
<1> QED
  BY <1>1, <1>2, <1>3, <1>4, <1>5 DEF Refocused, SameFrame, SameSpots, SamePointer

-----------------------------------------------------------------------------
(* The status bar.                                                         *)

\* What the status bar keeps while it is rewritten.
Bar(c) ==
    /\ Sound(c) /\ UpToDate(c) /\ CursorAt(c)
    /\ c.kind = "status" /\ c.height = ViewHeight /\ c.info = 0

LEMMA BarConsistent ==
    ASSUME NEW c
    PROVE  /\ Bar(c) => Consistent(c) /\ CursorOnGadget(c)
           /\ Consistent(c) /\ c.kind = "status" => Bar(c)
<1>1. Bar(c) => Consistent(c)
  BY DEF Bar, Consistent, Playable, Describes
<1>2. Bar(c) => CursorOnGadget(c)
  BY <1>1, CursorGadget
<1>3. Consistent(c) /\ c.kind = "status" => Bar(c)
  BY DEF Bar, Consistent, Describes
<1> QED
  BY <1>1, <1>2, <1>3

\* The corners of a bar.
LEMMA Corners ==
    /\ Rect(0, 0, 1, 1) \in Area(ViewHeight) /\ Rect(1, 1, 1, 1) \in Area(ViewHeight)
    /\ Rect(0, 1, 1, 1) \in Area(ViewHeight)
    /\ RowRect(0) \in Area(ViewHeight) /\ RowRect(1) \in Area(ViewHeight)
<1>1. Width \in Nat /\ ViewHeight \in Nat /\ Width >= 2 /\ ViewHeight >= 2
  BY ConsoleAssumption, ActiveConsoleAssumption
<1> QED
  BY <1>1 DEF Rect, Area, RowRect

LEMMA StatusLineDraws ==
    ASSUME NEW c, Bar(c), NEW glyph \in Glyphs, NEW lit \in BOOLEAN
    PROVE  LET d == StatusLine(c, glyph, lit)
           IN  Bar(d) /\ d.spots = c.spots /\ d.current = c.current
<1> DEFINE e == IF lit THEN HighlightAttach(c, "player", RowRect(0)) ELSE c
           d == WriteLine(e, 0, 0, Line(glyph))
<1>1. StatusLine(c, glyph, lit) = d
  BY DEF StatusLine
<1>2. /\ Sound(e) /\ SameFrame(c, e) /\ SameSpots(c, e) /\ SamePointer(c, e) /\ UpToDate(e)
  <2>1. RowRect(0) \in Area(c.height)
    BY Corners DEF Bar
  <2>2. CASE lit
    BY <2>1, <2>2, HighlightAttachDraws DEF Bar, UpToDate
  <2>3. CASE ~lit
    BY <2>3, SameIsEnough DEF Bar
  <2> QED
    BY <2>2, <2>3
<1> HIDE DEF e
<1>3. /\ Sound(d) /\ SameFrame(e, d) /\ SameSpots(e, d) /\ SamePointer(e, d) /\ UpToDate(d)
  BY <1>2, WriteLineDraws DEF UpToDate
<1> HIDE DEF d
<1>4. SameFrame(c, d) /\ SameSpots(c, d) /\ SamePointer(c, d)
  BY <1>2, <1>3, SameIsEnough
<1> QED
  BY <1>1, <1>3, <1>4 DEF Bar, CursorAt, Spot, SameFrame, SameSpots, SamePointer

LEMMA StatusResets ==
    ASSUME NEW c, Bar(c), NEW on \in BOOLEAN
    PROVE  Bar(ResetState(c, on)) /\ ResetState(c, on).current = 0
<1> DEFINE a == SetSensitive(c, on)
           b == [a EXCEPT !.enabled = on]
           e == DetachAllSpots(b)
           d == Clear(e)
<1>1. ResetState(c, on) = d
  BY DEF ResetState
<1>2. Bar(a)
  <2>1. /\ Sound(a) /\ UpToDate(a) /\ a.kind = c.kind /\ a.height = c.height
        /\ a.spots = c.spots /\ a.current = c.current /\ a.cursor = c.cursor
        /\ a.info = IF c.focus /\ ~on /\ c.current # 0 /\ c.kind = "pane" THEN 0 ELSE c.info
    BY BarConsistent, SettingSensitive DEF Bar
  <2> HIDE DEF a
  <2> QED
    BY <2>1 DEF Bar, CursorAt, Spot
<1> HIDE DEF a
<1>3. Bar(b)
  <2>1. /\ Sound(b) /\ SameSpots(a, b) /\ SamePage(a, b) /\ SamePointer(a, b)
        /\ b.kind = a.kind /\ b.height = a.height /\ b.realized = a.realized
        /\ b.top = a.top /\ b.bar = a.bar /\ b.screen = a.screen
    BY <1>2, PutEnabled DEF Bar
  <2> HIDE DEF b
  <2>2. UpToDate(b)
    BY <1>2, <2>1, StillTrue DEF Bar, SameSpots, SamePage
  <2> QED
    BY <1>2, <2>1, <2>2 DEF Bar, CursorAt, Spot, SameSpots, SamePointer
<1> HIDE DEF b
<1>4. /\ Sound(e) /\ UpToDate(e) /\ SameFrame(b, e) /\ e.current = 0 /\ e.cursor = Hidden
      /\ e.info = b.info
  BY <1>3, DetachingAll DEF Bar
<1> HIDE DEF e
<1>5. /\ Sound(d) /\ SameFrame(e, d) /\ SameSpots(e, d) /\ SamePointer(e, d)
      /\ d.top = e.top /\ d.bar = e.bar /\ Stale(d, {})
  BY <1>4, ClearDraws
<1> HIDE DEF d
<1>6. UpToDate(d)
  BY <1>4, <1>5 DEF UpToDate, BarTrue, SameFrame
<1> QED
  BY <1>1, <1>3, <1>4, <1>5, <1>6 DEF Bar, CursorAt, SameFrame, SameSpots, SamePointer

\* The bar with two spots for the players, or with a message and none.
LEMMA StatusAppends ==
    ASSUME NEW c, Bar(c), NEW at \in Area(ViewHeight)
    PROVE  Bar(AppendSpot(c, at, FALSE))
<1> DEFINE d == AppendSpot(c, at, FALSE)
<1>1. Sound(d) /\ UpToDate(d) /\ Added(c, at, FALSE, d)
  <2>1. at \in Area(c.height) /\ c.kind # "toggle"
    BY DEF Bar
  <2> QED
    BY <2>1, Appending DEF Bar
<1> HIDE DEF d
<1>2. d.kind = "status" /\ d.height = ViewHeight /\ d.info = 0 /\ d.cursor = c.cursor
  BY <1>1 DEF Added, Bar, Describes, Keyboard, SameFrame
<1>3. CursorAt(d)
  <2> SUFFICES ASSUME c.cursor # Hidden PROVE d.current # 0 /\ c.cursor = Spot(d).at
    BY <1>2 DEF CursorAt
  <2>1. c.current # 0 /\ c.cursor = Spot(c).at
    BY DEF Bar, CursorAt
  <2>2. d.current = c.current
    BY <1>1, <2>1 DEF Added
  <2>3. c.spots \in Seq(SpotOf(c.height)) /\ Len(c.spots) \in Nat /\ c.current \in 0 .. Len(c.spots)
    BY Fields DEF Bar
  <2>4. \A spot : Append(c.spots, spot)[c.current] = c.spots[c.current]
    BY <2>1, <2>3
  <2>5. Spot(d) = Spot(c)
    BY <1>1, <2>2, <2>4 DEF Added, Spot
  <2> QED
    BY <2>1, <2>2, <2>5
<1> QED
  BY <1>1, <1>2, <1>3 DEF Bar, d

\* What is written on the bar: a line, then the spots that it names.
LEMMA StatusWrites ==
    ASSUME NEW c, Bar(c)
    PROVE  /\ \A d \in StatusLines(c) : Bar(d)
           /\ \A d : Bar(d) => Bar(WithSpots(d))
<1>1. ASSUME NEW d \in StatusLines(c) PROVE Bar(d)
  <2>1. PICK g \in Glyphs, lit \in BOOLEAN : d = StatusLine(c, g, lit)
    BY <1>1 DEF StatusLines
  <2> QED
    BY <2>1, StatusLineDraws
<1>2. ASSUME NEW d, Bar(d) PROVE Bar(WithSpots(d))
  BY <1>2, StatusAppends, Corners DEF WithSpots, AddSpot
<1> QED
  BY <1>1, <1>2

LEMMA StatusRewrites ==
    ASSUME NEW c, Consistent(c), c.kind = "status", NEW d \in Updated(c) \cup Messaged(c)
    PROVE  Consistent(d) /\ d.kind = "status"
<1> DEFINE on == ResetState(c, TRUE)
           off == ResetState(c, FALSE)
           shown == StatusLines(on)
<1>1. Bar(on) /\ Bar(off)
  BY BarConsistent, StatusResets
<1>2. d \in StatusLines(off) \/ d \in shown \/ d \in {WithSpots(e) : e \in shown}
  BY DEF Updated, Messaged
<1> HIDE DEF on, off
<1>3. \A e \in StatusLines(off) : Bar(e)
  BY <1>1, StatusWrites
<1>4. \A e \in shown : Bar(e) /\ Bar(WithSpots(e))
  BY <1>1, StatusWrites
<1> HIDE DEF shown
<1>5. Bar(d)
  BY <1>2, <1>3, <1>4
<1> QED
  BY <1>5, BarConsistent DEF Bar

\* A new game sets up the bar (sc_status_setup).
LEMMA StatusSetups ==
    ASSUME NEW c, Consistent(c), c.kind = "status"
    PROVE  Bar(SetCursor(Reinit(SetSensitive([c EXCEPT !.current = 0], FALSE)), Hidden))
<1> DEFINE a == [c EXCEPT !.current = 0]
           b == SetSensitive(a, FALSE)
           t == BlankText(b)
           e1 == [b EXCEPT !.text = t]
           e2 == [e1 EXCEPT !.top = 0]
           e3 == [e2 EXCEPT !.lights = <<>>]
           f == Clear(e3)
           d == SetCursor(f, Hidden)
<1>0. Bar(c)
  BY BarConsistent
<1>1. /\ Sound(a) /\ SameFrame(c, a) /\ SamePointer(c, a) /\ a.spots = c.spots /\ a.current = 0
      /\ a.info = c.info /\ UpToDate(a)
  <2>1. 0 \in 0 .. Len(c.spots)
    <3>1. Len(c.spots) \in Nat
      BY <1>0, Fields DEF Bar
    <3> QED
      BY <3>1
  <2> QED
    BY <1>0, <2>1, Choosing DEF Bar
<1> HIDE DEF a
<1>2. /\ Sound(b) /\ UpToDate(b) /\ b.kind = "status" /\ b.height = ViewHeight /\ b.info = 0
      /\ b.current = 0
  <2>1. CursorOnGadget(a)
    BY <1>0, <1>1 DEF CursorOnGadget, Sound, SpotsSound, Bar, SameFrame
  <2>2. /\ Sound(b) /\ UpToDate(b) /\ b.kind = a.kind /\ b.height = a.height /\ b.current = a.current
        /\ b.info = IF a.focus /\ ~FALSE /\ a.current # 0 /\ a.kind = "pane" THEN 0 ELSE a.info
    BY <1>1, <2>1, SettingSensitive
  <2> QED
    BY <1>0, <1>1, <2>2 DEF Bar, SameFrame
<1>3. t \in [0 .. b.height - 1 -> [0 .. Width - 1 -> Char]]
  BY DEF BlankText, BlankRow, Char
<1>4. b.top = 0 /\ b.bar = 0 /\ 0 \in 0 .. b.height - ViewHeight
  <2>1. /\ b.top \in 0 .. b.height - ViewHeight /\ b.bar \in 0 .. b.height - ViewHeight
        /\ ViewHeight \in Nat
    BY <1>2, Fields
  <2> HIDE DEF b
  <2>2. b.height - ViewHeight = 0
    BY <1>2, <2>1
  <2> QED
    BY <2>1, <2>2
<1>5. Reinit(b) = f
  <2>1. [b EXCEPT !.text = BlankText(b), !.top = 0, !.lights = <<>>] = e3
    <3> HIDE DEF b
    <3> QED
      BY <1>2 DEF Sound, Typed
  <2> QED
    BY <2>1 DEF Reinit
<1> HIDE DEF b, t
<1>6. /\ Sound(e1) /\ SameFrame(b, e1) /\ SameSpots(b, e1)
      /\ e1.top = b.top /\ e1.bar = b.bar
  BY <1>2, <1>3, PutText
<1> HIDE DEF e1
<1>7. /\ Sound(e2) /\ SameFrame(e1, e2) /\ SameSpots(e1, e2) /\ e2.top = 0 /\ e2.bar = e1.bar
  <2>1. 0 \in 0 .. e1.height - ViewHeight
    BY <1>4, <1>6 DEF SameFrame
  <2> QED
    BY <1>6, <2>1, PutTop
<1> HIDE DEF e2
<1>8. /\ Sound(e3) /\ SameFrame(e2, e3) /\ SameSpots(e2, e3) /\ e3.top = e2.top /\ e3.bar = e2.bar
  <2>1. <<>> \in Seq(Light(e2.height))
    OBVIOUS
  <2> QED
    BY <1>7, <2>1, PutLights
<1> HIDE DEF e3
<1>9. /\ Sound(f) /\ SameFrame(e3, f) /\ SameSpots(e3, f) /\ f.top = e3.top /\ f.bar = e3.bar
      /\ Stale(f, {})
  BY <1>8, ClearDraws
<1>10. UpToDate(f)
  BY <1>4, <1>6, <1>7, <1>8, <1>9 DEF UpToDate, BarTrue
<1> HIDE DEF f
<1>11. /\ Sound(d) /\ UpToDate(d) /\ SameFrame(f, d) /\ SameSpots(f, d) /\ d.cursor = Hidden
  BY <1>9, <1>10, SetCursorDraws
<1>12. d.kind = "status" /\ d.height = ViewHeight /\ d.info = 0
  BY <1>2, <1>6, <1>7, <1>8, <1>9, <1>11 DEF SameFrame, SameSpots
<1>13. Bar(d)
  BY <1>11, <1>12 DEF Bar, CursorAt
<1> QED
  BY <1>5, <1>13 DEF a, b

-----------------------------------------------------------------------------
(* What the listeners leave behind.                                        *)

\* A console before its window is shown.
LEMMA NewConsoles ==
    ASSUME NEW kind \in Kinds \cup {"gone"}, NEW height \in Nat, height >= ViewHeight
    PROVE  LET c == NewConsole(kind, height)
           IN  /\ Sound(c) /\ UpToDate(c) /\ c.kind = kind /\ c.height = height /\ c.spots = <<>>
               /\ c.current = 0 /\ c.info = 0 /\ c.cursor = Hidden
               /\ c.bright = FALSE /\ c.ignore = FALSE /\ c.focus = FALSE
               /\ c.realized = FALSE /\ c.sensitive = TRUE
<1> DEFINE c == NewConsole(kind, height)
           text == [y \in 0 .. height - 1 |-> BlankRow]
           blank == [cell \in Cell |-> [ch |-> Blank, look |-> "normal"]]
<1>1. /\ text \in [0 .. height - 1 -> [0 .. Width - 1 -> Char]]
      /\ blank = [cell \in Cell |-> blank[cell]]
  BY DEF BlankRow, Char
<1>2. 0 \in 0 .. height - ViewHeight
  BY ConsoleAssumption
<1>3. c = [kind |-> kind, info |-> 0, height |-> height, text |-> text, top |-> 0,
           cursor |-> Hidden, bright |-> FALSE, lights |-> <<>>, focus |-> FALSE,
           realized |-> FALSE, bar |-> 0, screen |-> blank,
           ignore |-> FALSE, spots |-> <<>>, current |-> 0,
           sensitive |-> TRUE, enabled |-> FALSE]
  BY DEF NewConsole
<1> HIDE DEF c, text, blank
<1>4. Typed(c)
  BY <1>1, <1>2, <1>3 DEF Typed
<1>5. SpotsSound(c)
  BY <1>3 DEF SpotsSound
<1>6. UpToDate(c)
  BY <1>3 DEF UpToDate, Stale, BarTrue
<1> QED
  BY <1>3, <1>4, <1>5, <1>6 DEF Sound, c

\* A closed window.
LEMMA GoneConsistent ==
    Consistent(Gone) /\ Gone.kind = "gone"
<1> DEFINE c == NewConsole("gone", ViewHeight)
           d == [c EXCEPT !.sensitive = FALSE]
<1>1. /\ Sound(c) /\ UpToDate(c) /\ c.kind = "gone" /\ c.height = ViewHeight
      /\ c.current = 0 /\ c.info = 0 /\ c.cursor = Hidden /\ c.realized = FALSE
  <2>1. ViewHeight \in Nat /\ ViewHeight >= ViewHeight /\ "gone" \in Kinds \cup {"gone"}
    BY ConsoleAssumption
  <2> QED
    BY <2>1, NewConsoles
<1>2. Gone = d
  BY DEF Gone
<1> HIDE DEF c
<1>3. /\ Sound(d) /\ SameSpots(c, d) /\ SamePointer(c, d) /\ d.sensitive = FALSE
      /\ d.kind = c.kind /\ d.height = c.height /\ d.realized = c.realized
  BY <1>1, PutSensitive
<1> HIDE DEF d
<1>4. UpToDate(d)
  BY <1>1, <1>3 DEF UpToDate, Stale, BarTrue
<1>5. Consistent(d)
  BY <1>1, <1>3, <1>4 DEF Consistent, CursorAt, Playable, Kinds, Describes, SameSpots, SamePointer
<1> QED
  BY <1>1, <1>2, <1>3, <1>5

\* A pane is painted again after something was bought or sold.
LEMMA Repainting ==
    ASSUME NEW c, Consistent(c), NEW d \in Repainted(c)
    PROVE  Consistent(d) /\ SameButtons(c, d)
<1>1. PICK glyph \in Glyphs, rows \in SUBSET (0 .. c.height - 1) : d = Repaint(c, glyph, rows)
  BY DEF Repainted
<1>2. /\ Sound(d) /\ SameFrame(c, d) /\ SameSpots(c, d) /\ SamePointer(c, d) /\ UpToDate(d)
  BY <1>1, RepaintDraws DEF Consistent
<1>3. Consistent(d)
  <2>1. /\ d.kind = c.kind /\ d.height = c.height /\ d.spots = c.spots /\ d.current = c.current
        /\ d.cursor = c.cursor /\ d.info = c.info /\ d.focus = c.focus
        /\ d.sensitive = c.sensitive
    BY <1>2 DEF SameFrame, SameSpots, SamePointer
  <2>2. d.kind = "pane" => d.info = IF d.focus THEN d.current ELSE 0
    BY <2>1 DEF Consistent
  <2>3. d.kind = "gone" => ~d.sensitive
    BY <2>1 DEF Consistent
  <2> QED
    BY <1>2, <2>1, <2>2, <2>3, StaysConsistent
<1> QED
  BY <1>2, <1>3 DEF SameButtons, SameFrame, SamePointer

\* The gadget is turned.
LEMMA TogglesConsistent ==
    ASSUME NEW c, Consistent(c), c.kind = "toggle"
    PROVE  Consistent(Toggled(c)) /\ SameButtons(c, Toggled(c))
<1> DEFINE d == Toggled(c)
<1>1. c.current # 0 /\ c.cursor # Hidden /\ c.height = ViewHeight /\ c.info = 0
  BY DEF Consistent, Playable, Kinds, Describes
<1>2. /\ Sound(d) /\ UpToDate(d) /\ SameFrame(c, d) /\ SamePointer(c, d)
      /\ d.current = c.current /\ d.info = c.info /\ Spot(d).at = Spot(c).at
  BY <1>1, Toggling DEF Consistent
<1> HIDE DEF d
<1>3. CursorAt(d)
  BY <1>2 DEF Consistent, CursorAt, SamePointer
<1>4. Consistent(d)
  BY <1>1, <1>2, <1>3 DEF Consistent, Describes, SameFrame, SamePointer
<1> QED
  BY <1>2, <1>4 DEF d, SameButtons, SameFrame, SamePointer

\* Keys and buttons on a spot.
LEMMA SpotsPlay ==
    ASSUME NEW c, Consistent(c)
    PROVE  /\ \A d \in ButtonSpot(c) : Consistent(d) /\ SameButtons(c, d)
           /\ \A d \in KeySpot(c) : Steady(c, d)
<1>1. SameButtons(c, c)
  BY DEF SameButtons
<1>2. ASSUME NEW d \in ButtonSpot(c) PROVE Consistent(d) /\ SameButtons(c, d)
  <2>1. \/ d = c
        \/ c.kind = "pane" /\ d \in Repainted(c)
        \/ c.kind = "toggle" /\ d = Toggled(c)
    BY <1>2 DEF ButtonSpot
  <2> QED
    BY <1>1, <2>1, Repainting, TogglesConsistent
<1>3. ASSUME NEW d \in KeySpot(c) PROVE Steady(c, d)
  <2>1. d \in ButtonSpot(c) \/ d = Gone
    BY <1>3 DEF KeySpot, ButtonSpot
  <2> QED
    BY <1>2, <2>1, GoneConsistent DEF Steady
<1> QED
  BY <1>2, <1>3

\* A spot that is selected: a listener that does not answer has done nothing.
LEMMA Selecting ==
    ASSUME NEW c, Consistent(c), NEW r \in Select(c)
    PROVE  Steady(c, r.cons) /\ (~r.done => r.cons = c)
<1>1. \/ r = [cons |-> c, done |-> FALSE]
      \/ \E d \in {c, Gone} : r = [cons |-> d, done |-> TRUE]
      \/ c.kind = "status" /\ \E d \in Updated(c) : r = [cons |-> d, done |-> TRUE]
  BY DEF Select
<1>2. Steady(c, c)
  BY DEF Steady, SameButtons
<1>3. Steady(c, Gone)
  BY GoneConsistent DEF Steady
<1>4. c.kind = "status" => \A d \in Updated(c) : Steady(c, d)
  BY StatusRewrites DEF Steady
<1> QED
  BY <1>1, <1>2, <1>3, <1>4

-----------------------------------------------------------------------------
(* Windows that open.                                                      *)

\* A pane or a list with so many of its rows.
WithRows(c, n, d) ==
    /\ Sound(d) /\ UpToDate(d) /\ SameFrame(c, d) /\ SamePage(c, d) /\ d.info = c.info
    /\ d.bright = c.bright /\ d.focus = c.focus /\ Len(d.spots) = n
    /\ n = 0 => d = c
    /\ n # 0 => d.current = 1 /\ d.cursor = RowRect(0) /\ d.spots[1].at = RowRect(0)

LEMMA RowIsAdded ==
    ASSUME NEW c, NEW n \in Nat, n < c.height, Describes(c), c.spots = <<>>, c.current = 0,
           ~c.focus, NEW d, WithRows(c, n, d)
    PROVE  WithRows(c, n + 1, AddSpot(d, RowRect(n)))
<1> DEFINE at == RowRect(n)
           e == AddSpot(d, at)
<1>1. c.height \in Nat /\ d.height = c.height /\ d.spots \in Seq(SpotOf(c.height))
  <2>1. Sound(d) /\ d.height = c.height
    BY DEF WithRows, SameFrame
  <2>2. d.height \in Nat /\ d.spots \in Seq(SpotOf(d.height))
    BY <2>1, Fields
  <2> QED
    BY <2>1, <2>2
<1>2. at \in Area(d.height)
  BY <1>1, RowRects
<1>3. Describes(d) /\ d.kind # "toggle" /\ Keyboard(d) /\ ~d.focus
  BY DEF WithRows, SameFrame, Describes, Keyboard
<1> HIDE DEF at
<1>4. Sound(e) /\ UpToDate(e) /\ Added(d, at, FALSE, e)
  BY <1>2, <1>3, Appending DEF AddSpot, WithRows
<1> HIDE DEF e
<1>5. /\ SameFrame(c, e) /\ SamePage(c, e) /\ e.info = c.info
      /\ e.bright = c.bright /\ e.focus = c.focus
  BY <1>3, <1>4, SameIsEnough DEF WithRows, Added
<1>6. Len(e.spots) = n + 1 /\ (n # 0 => e.spots[1] = d.spots[1]) /\ (n = 0 => e.spots[1].at = at)
  <2> DEFINE spot == [at |-> at, gadget |-> FALSE, state |-> FALSE]
  <2>1. e.spots = Append(d.spots, spot) /\ Len(d.spots) = n
    BY <1>4 DEF Added, WithRows
  <2>2. spot.at = at /\ spot \in SpotOf(c.height)
    BY <1>1, <1>2 DEF SpotOf
  <2> HIDE DEF spot
  <2>3. Len(e.spots) = n + 1 /\ e.spots[n + 1] = spot /\ \A k \in 1 .. n : e.spots[k] = d.spots[k]
    BY <1>1, <2>1, <2>2
  <2> QED
    BY <2>2, <2>3
<1>7. e.current = 1 /\ e.cursor = RowRect(0) /\ e.spots[1].at = RowRect(0)
  <2>1. CASE n = 0
    <3>1. d.current = 0 /\ at = RowRect(0)
      BY <2>1 DEF WithRows, at
    <3> QED
      BY <1>3, <1>4, <1>6, <2>1, <3>1 DEF Added
  <2>2. CASE n # 0
    BY <1>4, <1>6, <2>2 DEF Added, WithRows
  <2> QED
    BY <2>1, <2>2
<1>8. n + 1 # 0
  OBVIOUS
<1> QED
  BY <1>4, <1>5, <1>6, <1>7, <1>8 DEF WithRows, e, at

\* A spot for every row.
LEMMA RowsAdd ==
    ASSUME NEW c, Sound(c), UpToDate(c), Describes(c), c.spots = <<>>, c.current = 0, ~c.focus
    PROVE  WithRows(c, c.height, Rows(c))
<1> DEFINE n == c.height
           R(f) == f = [k \in 0 .. n |-> IF k = 0 THEN c ELSE AddSpot(f[k - 1], RowRect(k - 1))]
           f == CHOOSE f : R(f)
<1>1. n \in Nat
  BY Fields
<1>2. Rows(c) = f[n]
  BY DEF Rows
<1>3. R(f)
  <2>1. PICK g : IsRun("Rows", c, 0, n, g)
    BY <1>1, Loops
  <2>2. R(g)
    BY <2>1 DEF IsRun, Step
  <2> QED
    BY <2>2
<1> HIDE DEF f
<1>4. f[0] = c /\ \A k \in Nat : k + 1 \in 0 .. n => f[k + 1] = AddSpot(f[k], RowRect(k))
  <2>1. f[0] = c
    BY <1>1, <1>3
  <2>2. ASSUME NEW k \in Nat, k + 1 \in 0 .. n PROVE f[k + 1] = AddSpot(f[k], RowRect(k))
    <3>1. k + 1 # 0 /\ (k + 1) - 1 = k
      OBVIOUS
    <3> QED
      BY <1>3, <2>2, <3>1
  <2> QED
    BY <2>1, <2>2
<1> DEFINE T == {k \in Nat : k \in 0 .. n => WithRows(c, k, f[k])}
<1>5. 0 \in T
  <2>1. WithRows(c, 0, c)
    <3>1. Len(c.spots) = 0
      OBVIOUS
    <3> QED
      BY <3>1, SameIsEnough DEF WithRows
  <2> QED
    BY <1>4, <2>1
<1>6. ASSUME NEW k \in Nat, k \in T PROVE k + 1 \in T
  <2> SUFFICES ASSUME k + 1 \in 0 .. n PROVE WithRows(c, k + 1, f[k + 1])
    OBVIOUS
  <2>1. WithRows(c, k, f[k]) /\ k < n /\ f[k + 1] = AddSpot(f[k], RowRect(k))
    BY <1>1, <1>4, <1>6
  <2> HIDE DEF R
  <2> QED
    BY <2>1, RowIsAdded
<1>7. Nat \subseteq T
  <2> HIDE DEF T
  <2> QED
    BY <1>5, <1>6, Induction
<1> QED
  BY <1>1, <1>2, <1>7

\* A pane or a list, before or after it is shown.
LEMMA RowsConsistent ==
    ASSUME NEW c, Sound(c), UpToDate(c), Describes(c), c.height = PaneHeight, c.spots = <<>>,
           c.current = 0, ~c.focus, c.bright = FALSE, c.ignore = FALSE,
           c.kind = "pane" => c.info = 0,
           c.kind = "list" => c.info = 1
    PROVE  Consistent(Rows(c)) /\ Held(Rows(c), 0)
<1> DEFINE d == Rows(c)
<1>1. WithRows(c, PaneHeight, d)
  BY RowsAdd
<1> HIDE DEF d
<1>2. PaneHeight \in Nat /\ PaneHeight # 0 /\ PaneHeight <= PaneHeight
  BY ActiveConsoleAssumption, ConsoleAssumption
<1>3. /\ Sound(d) /\ UpToDate(d) /\ d.kind = c.kind /\ d.current = 1 /\ d.cursor = Spot(d).at
      /\ d.cursor = RowRect(0) /\ d.info = c.info /\ d.focus = c.focus
      /\ d.bright = FALSE /\ d.ignore = FALSE /\ Len(d.spots) = PaneHeight
  BY <1>1, <1>2 DEF WithRows, SameFrame, Spot
<1>4. d.cursor # Hidden
  BY <1>3, ConsoleAssumption DEF RowRect, Hidden, Rect
<1>5. Consistent(d)
  BY <1>2, <1>3, <1>4 DEF Consistent, CursorAt, Describes
<1> QED
  BY <1>3, <1>5 DEF Held, d
\* A new console, and one that is on the screen already.
Fresh(c, kind, height) ==
    /\ Sound(c) /\ UpToDate(c) /\ c.kind = kind /\ c.height = height /\ c.spots = <<>>
    /\ c.current = 0 /\ c.info = 0 /\ c.cursor = Hidden
    /\ c.bright = FALSE /\ c.ignore = FALSE /\ c.focus = FALSE

LEMMA Realizing ==
    ASSUME NEW kind \in Kinds, NEW height \in Nat, height >= ViewHeight
    PROVE  LET c == NewConsole(kind, height)
           IN  Fresh(c, kind, height) /\ Fresh(Configured(c), kind, height)
<1> DEFINE c == NewConsole(kind, height)
<1>1. Fresh(c, kind, height)
  BY NewConsoles DEF Fresh
<1> HIDE DEF c
<1>2. Fresh(Configured(c), kind, height)
  BY <1>1, ConfiguredDraws DEF Fresh, SameSpots, SamePointer
<1> QED
  BY <1>1, <1>2 DEF c

\* The main menu, and the buttons that close a window.
LEMMA MenuOpens ==
    ASSUME NEW c, Sound(c), UpToDate(c), c.kind = "menu", c.height = ViewHeight, c.spots = <<>>,
           c.current = 0, c.info = 0, c.bright = FALSE, c.ignore = FALSE, NEW glyph \in Glyphs
    PROVE  LET d == AddSpot(WriteLine(c, 0, 1, Line(glyph)), RowRect(1))
           IN  Consistent(d) /\ Held(d, 0)
<1> DEFINE b == WriteLine(c, 0, 1, Line(glyph))
           d == AddSpot(b, RowRect(1))
<1>1. /\ Sound(b) /\ SameFrame(c, b) /\ SameSpots(c, b) /\ SamePointer(c, b) /\ UpToDate(b)
  <2> DEFINE y == 1
  <2>1. y \in Int
    OBVIOUS
  <2> HIDE DEF y
  <2>2. LET e == WriteLine(c, 0, y, Line(glyph))
        IN  Sound(e) /\ SameFrame(c, e) /\ SameSpots(c, e) /\ SamePointer(c, e) /\ UpToDate(e)
    BY <2>1, WriteLineDraws DEF UpToDate
  <2> QED
    BY <2>2 DEF y
<1> HIDE DEF b
<1>2. Sound(d) /\ UpToDate(d) /\ Added(b, RowRect(1), FALSE, d)
  <2>1. RowRect(1) \in Area(b.height) /\ b.kind # "toggle"
    BY <1>1, Corners DEF SameFrame
  <2> QED
    BY <1>1, <2>1, Appending DEF AddSpot
<1> HIDE DEF d
<1>3. /\ d.kind = "menu" /\ d.height = ViewHeight /\ d.info = 0 /\ d.current = 1
      /\ d.cursor = RowRect(1) /\ d.bright = FALSE /\ d.ignore = FALSE
  BY <1>1, <1>2 DEF Added, SameFrame, SameSpots, SamePointer, Keyboard, Describes
<1>4. RowRect(1) # Hidden
  BY DEF RowRect, Hidden, Rect
<1>5. Spot(d).at = RowRect(1)
  <2> DEFINE spot == [at |-> RowRect(1), gadget |-> FALSE, state |-> FALSE]
  <2>1. d.spots = Append(<<>>, spot)
    BY <1>1, <1>2 DEF Added, SameSpots
  <2>2. spot.at = RowRect(1)
    OBVIOUS
  <2> HIDE DEF spot
  <2>3. d.spots[1] = spot
    BY <2>1
  <2> QED
    BY <1>3, <2>2, <2>3 DEF Spot
<1>6. Consistent(d)
  BY <1>2, <1>3, <1>4, <1>5 DEF Consistent, CursorAt, Describes
<1> QED
  BY <1>3, <1>6 DEF Held, d, b

\* The gadget of the auto defense window, with its title.
LEMMA ToggleOpens ==
    ASSUME NEW c, Sound(c), UpToDate(c), c.kind = "toggle", c.height = ViewHeight, c.spots = <<>>,
           c.current = 0, c.info = 0, c.bright = FALSE, c.ignore = FALSE, c.focus = FALSE,
           ~c.realized, NEW glyph \in Glyphs, NEW on \in BOOLEAN
    PROVE  LET t == AddGadgetSpot(HighlightAttach(WriteLine(c, 0, 0, Line(glyph)), "title", RowRect(0)),
                                  Rect(0, 1, 1, 1))
               d == SetSensitive(t, on)
           IN  Consistent(d) /\ Held(d, 0)
<1> DEFINE a == WriteLine(c, 0, 0, Line(glyph))
           b == HighlightAttach(a, "title", RowRect(0))
           at == Rect(0, 1, 1, 1)
           t == AddGadgetSpot(b, at)
           d == SetSensitive(t, on)
<1>1. /\ Sound(a) /\ SameFrame(c, a) /\ SameSpots(c, a) /\ SamePointer(c, a) /\ UpToDate(a)
  BY WriteLineDraws DEF UpToDate
<1> HIDE DEF a
<1>2. /\ Sound(b) /\ SameFrame(a, b) /\ SameSpots(a, b) /\ SamePointer(a, b) /\ UpToDate(b)
  <2>1. RowRect(0) \in Area(a.height)
    BY <1>1, Corners DEF SameFrame
  <2> QED
    BY <1>1, <2>1, HighlightAttachDraws DEF UpToDate
<1> HIDE DEF b
<1>3. Sound(t) /\ UpToDate(t) /\ Added(b, at, TRUE, t)
  <2>1. /\ at \in Area(b.height) /\ b.kind = "toggle" /\ b.spots = <<>> /\ ~b.realized
        /\ ~Within(0, 0, at)
    BY <1>1, <1>2, Corners DEF SameFrame, SameSpots, Within, Rect
  <2> HIDE DEF at
  <2> QED
    BY <1>2, <2>1, Appending DEF AddGadgetSpot
<1> HIDE DEF t
<1>4. /\ t.kind = "toggle" /\ t.height = ViewHeight /\ t.info = 0 /\ t.current = 1
      /\ t.cursor = at /\ t.bright = FALSE /\ t.ignore = FALSE /\ t.focus = FALSE
  <2>1. /\ b.kind = "toggle" /\ b.height = ViewHeight /\ b.info = 0 /\ b.current = 0
        /\ b.bright = FALSE /\ b.ignore = FALSE /\ b.focus = FALSE
    BY <1>1, <1>2 DEF SameFrame, SameSpots, SamePointer
  <2> HIDE DEF at
  <2> QED
    BY <1>3, <2>1 DEF Added, SameFrame, Keyboard, Describes
<1>5. at # Hidden
  BY DEF Hidden, Rect
<1> HIDE DEF at
<1>6. t.spots[1].at = at
  <2> DEFINE spot == [at |-> at, gadget |-> TRUE, state |-> FALSE]
  <2>1. t.spots = Append(<<>>, spot)
    BY <1>1, <1>2, <1>3 DEF Added, SameSpots
  <2>2. spot.at = at
    OBVIOUS
  <2> HIDE DEF spot
  <2>3. t.spots[1] = spot
    BY <2>1
  <2> QED
    BY <2>2, <2>3
<1>7. /\ Sound(d) /\ UpToDate(d) /\ d.kind = "toggle" /\ d.height = ViewHeight /\ d.info = 0
      /\ d.current = 1 /\ d.cursor = at /\ d.spots = t.spots
      /\ d.bright = FALSE /\ d.ignore = FALSE
  <2>1. CursorOnGadget(t)
    BY <1>4, <1>6 DEF CursorOnGadget
  <2>2. /\ Sound(d) /\ UpToDate(d) /\ d.kind = t.kind /\ d.height = t.height
        /\ d.spots = t.spots /\ d.current = t.current /\ d.cursor = t.cursor
        /\ d.bright = t.bright /\ d.ignore = t.ignore
        /\ d.info = IF t.focus /\ ~on /\ t.current # 0 /\ t.kind = "pane" THEN 0 ELSE t.info
    BY <1>3, <2>1, SettingSensitive
  <2> HIDE DEF d
  <2> QED
    BY <1>3, <1>4, <2>2
<1> HIDE DEF d
<1>8. Consistent(d)
  BY <1>5, <1>6, <1>7 DEF Consistent, CursorAt, Describes, Spot
<1> QED
  BY <1>7, <1>8 DEF Held, d, t, b, a, at

\* The status bar, which nobody can use yet.
LEMMA StatusOpens ==
    ASSUME NEW c, Sound(c), UpToDate(c), c.kind = "status", c.height = ViewHeight, c.spots = <<>>,
           c.cursor = Hidden, c.current = 0, c.info = 0
    PROVE  Consistent(SetSensitive(c, FALSE)) /\ Held(SetSensitive(c, FALSE), 0)
<1> DEFINE d == SetSensitive(c, FALSE)
<1>1. Bar(c) /\ CursorOnGadget(c)
  BY DEF Bar, CursorAt, CursorOnGadget
<1>2. /\ Sound(d) /\ UpToDate(d) /\ d.kind = "status" /\ d.height = ViewHeight
      /\ d.cursor = Hidden /\ d.info = 0
  BY <1>1, SettingSensitive
<1> HIDE DEF d
<1>3. Bar(d)
  BY <1>2 DEF Bar, CursorAt
<1> QED
  BY <1>2, <1>3, BarConsistent DEF Held, Playable, d
LEMMA Sizes ==
    /\ PaneHeight \in Nat /\ PaneHeight >= ViewHeight
    /\ ViewHeight \in Nat /\ ViewHeight >= ViewHeight /\ AGlyph \in Glyphs
<1>1. AGlyph \in Glyphs
  BY ActiveConsoleAssumption DEF AGlyph
<1> QED
  BY <1>1, ConsoleAssumption, ActiveConsoleAssumption

LEMMA PanesOpen ==
    ASSUME NEW d \in PanesOpened
    PROVE  Consistent(d) /\ Held(d, 0)
<1> DEFINE b == NewConsole("pane", PaneHeight)
<1>1. PICK c : (c = b \/ c = Configured(b)) /\ d \in Repainted(Rows(c))
  BY DEF PanesOpened
<1>2. /\ Sound(c) /\ UpToDate(c) /\ c.kind = "pane" /\ c.height = PaneHeight /\ c.spots = <<>>
      /\ c.current = 0 /\ c.info = 0 /\ c.bright = FALSE /\ c.ignore = FALSE
      /\ c.focus = FALSE
  <2>1. "pane" \in Kinds
    BY DEF Kinds
  <2>2. Fresh(b, "pane", PaneHeight) /\ Fresh(Configured(b), "pane", PaneHeight)
    BY <2>1, Sizes, Realizing
  <2> HIDE DEF b
  <2> QED
    BY <1>1, <2>2 DEF Fresh
<1> HIDE DEF b
<1>3. Consistent(Rows(c)) /\ Held(Rows(c), 0)
  BY <1>2, RowsConsistent DEF Describes
<1>4. Steady(Rows(c), d)
  BY <1>1, <1>3, Repainting DEF Steady
<1> QED
  BY <1>3, <1>4, HeldSteady DEF Steady

LEMMA ListOpens ==
    Consistent(ListOpened) /\ Held(ListOpened, 0)
<1> DEFINE b == NewConsole("list", PaneHeight)
           c == [b EXCEPT !.info = 1]
<1>1. /\ Sound(b) /\ UpToDate(b) /\ b.kind = "list" /\ b.height = PaneHeight /\ b.spots = <<>>
      /\ b.current = 0 /\ b.bright = FALSE /\ b.ignore = FALSE /\ b.focus = FALSE
  <2>1. "list" \in Kinds \cup {"gone"}
    BY DEF Kinds
  <2> QED
    BY <2>1, Sizes, NewConsoles
<1> HIDE DEF b
<1>2. Sound(c) /\ Told(b, c) /\ c.info = 1 /\ UpToDate(c)
  BY <1>1, Telling
<1> HIDE DEF c
<1>3. Consistent(Rows(c)) /\ Held(Rows(c), 0)
  BY <1>1, <1>2, RowsConsistent DEF Told, SameFrame, SamePointer, Describes
<1> QED
  BY <1>3 DEF ListOpened, c, b

\* Every window that opens.
LEMMA Opening ==
    ASSUME NEW d \in Opened
    PROVE  Consistent(d) /\ Held(d, 0)
<1>1. \/ d \in PanesOpened
      \/ d = ListOpened
      \/ d = MenuOpened
      \/ d \in StatusOpened
      \/ \E on \in BOOLEAN : d = SetSensitive(ToggleOpened, on)
  BY DEF Opened
<1>2. Consistent(MenuOpened) /\ Held(MenuOpened, 0)
  <2> DEFINE c == NewConsole("menu", ViewHeight)
             m == AddSpot(WriteLine(c, 0, 1, Line(AGlyph)), RowRect(1))
  <2>1. /\ Sound(c) /\ UpToDate(c) /\ c.kind = "menu" /\ c.height = ViewHeight /\ c.spots = <<>>
        /\ c.current = 0 /\ c.info = 0 /\ c.bright = FALSE /\ c.ignore = FALSE
    <3>1. "menu" \in Kinds \cup {"gone"}
      BY DEF Kinds
    <3> QED
      BY <3>1, Sizes, NewConsoles
  <2> HIDE DEF c
  <2>2. Consistent(m) /\ Held(m, 0)
    BY <2>1, Sizes, MenuOpens
  <2> QED
    BY <2>2 DEF MenuOpened, c
<1>3. \A on \in BOOLEAN : LET t == SetSensitive(ToggleOpened, on) IN Consistent(t) /\ Held(t, 0)
  <2> DEFINE c == NewConsole("toggle", ViewHeight)
             t == AddGadgetSpot(HighlightAttach(WriteLine(c, 0, 0, Line(AGlyph)), "title", RowRect(0)),
                                Rect(0, 1, 1, 1))
  <2>1. /\ Sound(c) /\ UpToDate(c) /\ c.kind = "toggle" /\ c.height = ViewHeight /\ c.spots = <<>>
        /\ c.current = 0 /\ c.info = 0 /\ ~c.realized
        /\ c.bright = FALSE /\ c.ignore = FALSE /\ c.focus = FALSE
    <3>1. "toggle" \in Kinds \cup {"gone"}
      BY DEF Kinds
    <3> QED
      BY <3>1, Sizes, NewConsoles
  <2>2. t = ToggleOpened
    BY DEF ToggleOpened
  <2> HIDE DEF c
  <2>3. \A on \in BOOLEAN : Consistent(SetSensitive(t, on)) /\ Held(SetSensitive(t, on), 0)
    BY <2>1, Sizes, ToggleOpens
  <2> HIDE DEF t
  <2> QED
    BY <2>2, <2>3
<1>4. ASSUME NEW s \in StatusOpened PROVE Consistent(s) /\ Held(s, 0)
  <2> DEFINE b == NewConsole("status", ViewHeight)
  <2>1. PICK c : (c = b \/ c = Configured(b)) /\ s = SetSensitive(c, FALSE)
    BY DEF StatusOpened
  <2>2. /\ Sound(c) /\ UpToDate(c) /\ c.kind = "status" /\ c.height = ViewHeight /\ c.spots = <<>>
        /\ c.cursor = Hidden /\ c.current = 0 /\ c.info = 0
    <3>1. "status" \in Kinds
      BY DEF Kinds
    <3>2. Fresh(b, "status", ViewHeight) /\ Fresh(Configured(b), "status", ViewHeight)
      BY <3>1, Sizes, Realizing
    <3> HIDE DEF b
    <3> QED
      BY <2>1, <3>2 DEF Fresh
  <2> HIDE DEF b
  <2> QED
    BY <2>1, <2>2, StatusOpens
<1> QED
  BY <1>1, <1>2, <1>3, <1>4, PanesOpen, ListOpens

-----------------------------------------------------------------------------
(* Events.                                                                 *)

\* The console is realized, or its surface is replaced.
LEMMA Configuring ==
    ASSUME NEW c, Consistent(c)
    PROVE  Steady(c, Configured(c))
<1> DEFINE d == Configured(c)
<1>1. /\ Sound(d) /\ UpToDate(d) /\ SameSpots(c, d) /\ SamePointer(c, d)
      /\ d.kind = c.kind /\ d.height = c.height /\ d.ignore = c.ignore
      /\ d.sensitive = c.sensitive
  BY ConfiguredDraws DEF Consistent
<1> HIDE DEF d
<1>2. /\ d.spots = c.spots /\ d.current = c.current /\ d.info = c.info
      /\ d.cursor = c.cursor /\ d.focus = c.focus /\ d.bright = c.bright
  BY <1>1 DEF SameSpots, SamePointer
<1>3. /\ d.kind = "pane" => d.info = IF d.focus THEN d.current ELSE 0
      /\ d.kind = "gone" => ~d.sensitive
  BY <1>1, <1>2 DEF Consistent
<1>4. Consistent(d)
  BY <1>1, <1>2, <1>3, StaysConsistent
<1> QED
  BY <1>1, <1>2, <1>4 DEF Steady, SameButtons, d

\* The view is scrolled.
LEMMA ScrollsConsistent ==
    ASSUME NEW c, Consistent(c), NEW d \in {LineUp(c), LineDown(c), PageUp(c), PageDown(c), c}
    PROVE  Consistent(d) /\ SameButtons(c, d)
<1>1. Sound(d) /\ SameButView(c, d) /\ UpToDate(d)
  BY Scrolling, SameIsEnough DEF Consistent
<1>2. /\ d.kind = c.kind /\ d.height = c.height /\ d.spots = c.spots /\ d.current = c.current
      /\ d.info = c.info /\ d.cursor = c.cursor /\ d.focus = c.focus
      /\ d.sensitive = c.sensitive /\ d.bright = c.bright /\ d.ignore = c.ignore
  BY <1>1 DEF SameButView, SameFrame, SameSpots, SamePointer
<1>3. /\ d.kind = "pane" => d.info = IF d.focus THEN d.current ELSE 0
      /\ d.kind = "gone" => ~d.sensitive
  BY <1>2 DEF Consistent
<1>4. Consistent(d)
  BY <1>1, <1>2, <1>3, StaysConsistent
<1> QED
  BY <1>2, <1>4 DEF SameButtons

\* The current spot is moved while the console has the focus.
LEMMA MovesConsistent ==
    ASSUME NEW c, Consistent(c), c.focus, c.current # 0, NEW s \in 1 .. Len(c.spots)
    PROVE  Consistent(MoveTo(c, s)) /\ SameButtons(c, MoveTo(c, s))
<1> DEFINE d == MoveTo(c, s)
<1>1. /\ Sound(d) /\ UpToDate(d) /\ SameFrame(c, d)
      /\ d.spots = c.spots /\ d.current = s /\ d.cursor = c.spots[s].at
      /\ d.bright = c.bright /\ d.focus = c.focus
      /\ d.info = IF ~c.focus THEN c.info ELSE IF Describes(c) THEN s ELSE c.info
  <2>1. Sound(c) /\ UpToDate(c)
    BY DEF Consistent
  <2> QED
    BY <2>1, Moving
<1> HIDE DEF d
<1>2. s # 0 /\ d.cursor # Hidden
  <2>1. c.spots[s].at \in Area(c.height)
    BY SpotsAt DEF Consistent
  <2>2. Hidden \notin Area(c.height)
    BY DEF Hidden, Rect, Area
  <2>3. Len(c.spots) \in Nat
    BY Fields DEF Consistent
  <2> QED
    BY <1>1, <2>1, <2>2, <2>3
<1>3. Consistent(d)
  BY <1>1, <1>2 DEF Consistent, CursorAt, Spot, Describes, SameFrame
<1> QED
  BY <1>1, <1>3 DEF SameButtons, SameFrame, d

\* The spot under the pointer.
LEMMA SpotUnder ==
    ASSUME NEW c, Sound(c), NEW x, NEW y
    PROVE  SpotAt(c, x, y) \in 0 .. Len(c.spots)
<1> DEFINE I == {i \in 1 .. Len(c.spots) : Within(x, y, c.spots[i].at)}
<1>1. SpotAt(c, x, y) = IF I # {} THEN Min(I) ELSE 0
  BY DEF SpotAt, SelectInSeq
<1>2. Len(c.spots) \in Nat
  BY Fields
<1>3. I \in SUBSET (1 .. Len(c.spots))
  OBVIOUS
<1> HIDE DEF I
<1>4. CASE I # {}
  <2>1. Min(I) \in I /\ SpotAt(c, x, y) = Min(I)
    BY <1>1, <1>2, <1>3, <1>4, Extremes
  <2>2. SpotAt(c, x, y) \in 1 .. Len(c.spots)
    BY <1>3, <2>1
  <2> QED
    BY <1>2, <2>2
<1>5. CASE I = {}
  BY <1>1, <1>2, <1>5
<1> QED
  BY <1>4, <1>5

\* A button goes down over a cell of a console that has the focus.
LEMMA Pressing ==
    ASSUME NEW c, Consistent(c), c.focus, c.sensitive, NEW x, NEW y, NEW d \in Pressed(c, x, y),
           NEW n \in Nat, Held(c, n)
    PROVE  Consistent(d) /\ Held(d, n + 1)
<1> DEFINE s == SpotAt(c, x, y)
           m == MoveTo(c, s)
           l == SetHighlighted(m, TRUE)
<1>1. s \in 0 .. Len(c.spots) /\ Len(c.spots) \in Nat
  BY SpotUnder, Fields DEF Consistent
<1>2. \/ d = c
      \/ c.current # 0 /\ s # 0 /\ d \in ButtonSpot(l)
  BY DEF Pressed
<1> HIDE DEF s
<1>3. CASE d = c
  BY <1>3 DEF Held
<1>4. CASE c.current # 0 /\ s # 0 /\ d \in ButtonSpot(l)
  <2>1. Consistent(m) /\ SameButtons(c, m)
    BY <1>1, <1>4, MovesConsistent
  <2> HIDE DEF m
  <2>2. /\ Sound(l) /\ UpToDate(l) /\ SameFrame(m, l) /\ SameSpots(m, l)
        /\ l.cursor = m.cursor /\ l.bright = TRUE /\ l.focus = m.focus
    BY <2>1, SetHighlightedDraws DEF Consistent
  <2> HIDE DEF l
  <2>3. Consistent(l)
    <3>1. /\ l.kind = m.kind /\ l.height = m.height /\ l.spots = m.spots
          /\ l.current = m.current /\ l.info = m.info /\ l.sensitive = m.sensitive
      BY <2>2 DEF SameFrame, SameSpots
    <3>2. /\ l.kind = "pane" => l.info = IF l.focus THEN l.current ELSE 0
          /\ l.kind = "gone" => ~l.sensitive
      BY <2>1, <2>2, <3>1 DEF Consistent
    <3> QED
      BY <2>1, <2>2, <3>1, <3>2, StaysConsistent
  <2>4. Consistent(d) /\ SameButtons(l, d)
    BY <1>4, <2>3, SpotsPlay
  <2>5. d.kind = c.kind /\ d.ignore = c.ignore /\ d.sensitive = c.sensitive
    BY <2>1, <2>2, <2>4 DEF SameButtons, SameFrame
  <2>6. Held(d, n + 1)
    BY <2>5 DEF Held
  <2> QED
    BY <2>4, <2>6
<1> QED
  BY <1>2, <1>3, <1>4

\* A button comes up: the cursor is dark, and on the current spot.
LEMMA Lifting ==
    ASSUME NEW c, Consistent(c), c.current # 0
    PROVE  Consistent(Lifted(c)) /\ Lifted(c).kind = c.kind /\ Lifted(c).bright = FALSE
           /\ Lifted(c).ignore = c.ignore
<1> DEFINE r == IF Keyboard(c) THEN Spot(c).at ELSE Hidden
           e == SetCursor(c, r)
           d == SetHighlighted(e, FALSE)
<1>1. r \in Area(c.height) \cup {Hidden} /\ (Keyboard(c) => r = Spot(c).at /\ r # Hidden)
      /\ (~Keyboard(c) => r = Hidden)
  <2>1. c.current \in 0 .. Len(c.spots) /\ Len(c.spots) \in Nat
    BY Fields DEF Consistent
  <2>2. c.current \in 1 .. Len(c.spots)
    BY <2>1
  <2>3. Spot(c).at \in Area(c.height)
    BY <2>2, SpotsAt DEF Consistent, Spot
  <2>4. Hidden \notin Area(c.height)
    BY DEF Hidden, Rect, Area
  <2> QED
    BY <2>3, <2>4
<1>2. Lifted(c) = d
  BY DEF Lifted
<1> HIDE DEF r
<1>3. /\ Sound(e) /\ UpToDate(e) /\ SameFrame(c, e) /\ SameSpots(c, e)
      /\ e.cursor = r /\ e.bright = c.bright /\ e.focus = c.focus
  BY <1>1, SetCursorDraws DEF Consistent
<1> HIDE DEF e
<1>4. /\ Sound(d) /\ UpToDate(d) /\ SameFrame(e, d) /\ SameSpots(e, d)
      /\ d.cursor = e.cursor /\ d.bright = FALSE /\ d.focus = e.focus
  BY <1>3, SetHighlightedDraws
<1> HIDE DEF d
<1>5. /\ d.kind = c.kind /\ d.height = c.height /\ d.spots = c.spots /\ d.current = c.current
      /\ d.info = c.info /\ d.cursor = r /\ d.focus = c.focus
      /\ d.sensitive = c.sensitive /\ d.ignore = c.ignore
  BY <1>3, <1>4 DEF SameFrame, SameSpots
<1>6. CursorAt(d)
  BY <1>1, <1>5 DEF CursorAt, Spot
<1>7. d.kind \in Playable => d.current # 0 /\ d.cursor # Hidden
  BY <1>1, <1>5 DEF Playable, Keyboard, Consistent
<1>8. Consistent(d)
  BY <1>4, <1>5, <1>6, <1>7 DEF Consistent, Describes
<1> QED
  BY <1>2, <1>4, <1>5, <1>8

-----------------------------------------------------------------------------
(* The invariant is kept.                                                  *)

\* An event that no button has a part in.
LEMMA Kept ==
    ASSUME ConsoleInv, Steady(cons, cons'), UNCHANGED down
    PROVE  ConsoleInv'
BY HeldSteady DEF ConsoleInv, Steady

LEMMA OpenKeeps ==
    ASSUME ConsoleInv, Open
    PROVE  ConsoleInv'
<1>1. Consistent(cons)' /\ Held(cons', 0) /\ down' = 0
  BY Opening DEF Open, ConsoleInv
<1> QED
  BY <1>1 DEF ConsoleInv, Open

LEMMA FocusKeeps ==
    ASSUME ConsoleInv, Focus
    PROVE  ConsoleInv'
<1>1. Consistent(cons)
  BY DEF ConsoleInv
<1>2. Steady(cons, cons')
  <2>1. CASE cons.focus
    BY <1>1, <2>1, Unfocusing DEF Focus, Steady
  <2>2. CASE ~cons.focus
    <3>1. cons' = GrabFocus(cons)
      BY <2>2 DEF Focus, GrabFocus
    <3> QED
      BY <1>1, <3>1, Grabbing DEF Steady
  <2> QED
    BY <2>1, <2>2
<1> QED
  BY <1>2, Kept DEF Focus

LEMMA ScrollKeeps ==
    ASSUME ConsoleInv, Scroll
    PROVE  ConsoleInv'
<1>1. Steady(cons, cons')
  BY ScrollsConsistent DEF Scroll, ConsoleInv, Steady
<1> QED
  BY <1>1, Kept DEF Scroll

LEMMA KeyMoveKeeps ==
    ASSUME ConsoleInv, KeyMove
    PROVE  ConsoleInv'
<1>1. Consistent(cons) /\ cons.focus /\ cons.current # 0
  BY DEF ConsoleInv, KeyMove, KeyTarget
<1>2. cons.current \in 0 .. Len(cons.spots) /\ Len(cons.spots) \in Nat
  BY <1>1, Fields DEF Consistent
<1>3. \E s \in 1 .. Len(cons.spots) : cons' = MoveTo(cons, s)
  <2> DEFINE n == Len(cons.spots)
             up == IF cons.current = 1 THEN n ELSE cons.current - 1
             next == IF cons.current = n THEN 1 ELSE cons.current + 1
  <2>1. cons' = MoveTo(cons, up) \/ cons' = MoveTo(cons, next)
    BY DEF KeyMove
  <2>2. up \in 1 .. n /\ next \in 1 .. n
    BY <1>1, <1>2
  <2> HIDE DEF up, next
  <2> QED
    BY <2>1, <2>2
<1>4. Steady(cons, cons')
  BY <1>1, <1>3, MovesConsistent DEF Steady
<1> QED
  BY <1>4, Kept DEF KeyMove

LEMMA KeySelectKeeps ==
    ASSUME ConsoleInv, KeySelect
    PROVE  ConsoleInv'
<1>1. Consistent(cons)
  BY DEF ConsoleInv
<1>2. PICK r \in Select(cons) :
         IF r.done THEN cons' = r.cons ELSE cons' \in KeySpot(r.cons)
  BY DEF KeySelect
<1>3. Steady(cons, r.cons) /\ (~r.done => r.cons = cons)
  BY <1>1, Selecting
<1>4. CASE r.done
  BY <1>2, <1>3, <1>4, Kept DEF KeySelect
<1>5. CASE ~r.done
  <2>1. cons' \in KeySpot(cons)
    BY <1>1, <1>2, <1>3, <1>5
  <2>2. Steady(cons, cons')
    BY <1>1, <2>1, SpotsPlay
  <2> QED
    BY <1>1, <2>1, <2>2, Kept DEF KeySelect
<1> QED
  BY <1>4, <1>5

LEMMA KeyOtherKeeps ==
    ASSUME ConsoleInv, KeyOther
    PROVE  ConsoleInv'
<1>1. Steady(cons, cons')
  BY SpotsPlay DEF KeyOther, ConsoleInv
<1> QED
  BY <1>1, Kept DEF KeyOther

LEMMA ActivateKeeps ==
    ASSUME ConsoleInv, Activate
    PROVE  ConsoleInv'
<1>1. PICK r \in Select(cons) : cons' = r.cons
  BY DEF Activate
<1>2. Steady(cons, cons')
  BY <1>1, Selecting DEF ConsoleInv
<1> QED
  BY <1>2, Kept DEF Activate

LEMMA PressBarKeeps ==
    ASSUME ConsoleInv, PressBar
    PROVE  ConsoleInv'
<1>1. PICK c \in {LineUp(cons), LineDown(cons), PageUp(cons), PageDown(cons), cons} :
         cons' = [c EXCEPT !.ignore = TRUE]
  BY DEF PressBar
<1>2. Consistent(c) /\ SameButtons(cons, c)
  BY <1>1, ScrollsConsistent DEF ConsoleInv
<1> DEFINE d == [c EXCEPT !.ignore = TRUE]
<1>3. /\ Sound(d) /\ SameSpots(c, d) /\ SamePage(c, d) /\ SamePointer(c, d) /\ d.ignore = TRUE
      /\ d.kind = c.kind /\ d.height = c.height /\ d.realized = c.realized
      /\ d.sensitive = c.sensitive /\ d.top = c.top /\ d.bar = c.bar /\ d.screen = c.screen
  BY <1>2, PutIgnore DEF Consistent
<1>4. cons' = d
  BY <1>1
<1> HIDE DEF d
<1>5. UpToDate(d)
  BY <1>2, <1>3, StillTrue DEF SameSpots, SamePage, Consistent
<1>6. Consistent(d)
  <2>1. /\ d.spots = c.spots /\ d.current = c.current /\ d.info = c.info
        /\ d.cursor = c.cursor /\ d.focus = c.focus
    BY <1>3 DEF SameSpots, SamePointer
  <2>2. /\ d.kind = "pane" => d.info = IF d.focus THEN d.current ELSE 0
        /\ d.kind = "gone" => ~d.sensitive
    BY <1>2, <1>3, <2>1 DEF Consistent
  <2> QED
    BY <1>2, <1>3, <1>5, <2>1, <2>2, StaysConsistent
<1>7. down \in Nat /\ down' = down + 1 /\ down' \in 0 .. MaxButtons
  BY ActiveConsoleAssumption DEF PressBar, ConsoleInv
<1>8. d.kind = cons.kind /\ d.bright = cons.bright /\ d.sensitive = cons.sensitive /\ cons.sensitive
  BY <1>2, <1>3 DEF SameButtons, SamePointer, PressBar
<1>9. Held(d, down + 1)
  <2>1. Held(cons, down)
    BY DEF ConsoleInv
  <2> QED
    BY <1>7, <1>8, <2>1 DEF Held
<1> QED
  BY <1>4, <1>6, <1>7, <1>9 DEF ConsoleInv
LEMMA PressKeeps ==
    ASSUME ConsoleInv, Press
    PROVE  ConsoleInv'
<1> DEFINE c == GrabFocus(cons)
<1>1. /\ down \in Nat /\ down' = down + 1 /\ down' \in 0 .. MaxButtons
      /\ Consistent(cons) /\ Held(cons, down) /\ cons.sensitive
  BY ActiveConsoleAssumption DEF Press, ConsoleInv
<1>2. Consistent(c) /\ Refocused(cons, TRUE, c) /\ SameButtons(cons, c)
  BY <1>1, Grabbing
<1>3. PICK cell \in Cell : cons' \in Pressed(c, Column(cell), Row(cons, cell))
  BY DEF Press
<1> HIDE DEF c
<1>4. c.focus /\ c.sensitive /\ Held(c, down)
  BY <1>1, <1>2, HeldSteady DEF Refocused, SameButtons, Steady
<1>5. Consistent(cons') /\ Held(cons', down + 1)
  BY <1>1, <1>2, <1>3, <1>4, Pressing
<1> QED
  BY <1>1, <1>5 DEF ConsoleInv

LEMMA PressOutsideKeeps ==
    ASSUME ConsoleInv, PressOutside
    PROVE  ConsoleInv'
<1>1. /\ down \in Nat /\ down' = down + 1 /\ down' \in 0 .. MaxButtons
      /\ Consistent(cons) /\ Held(cons, down)
  BY ActiveConsoleAssumption DEF PressOutside, ConsoleInv
<1>2. Consistent(cons') /\ SameButtons(cons, cons')
  BY <1>1, Grabbing DEF PressOutside
<1>3. Held(cons', down)
  BY <1>1, <1>2, HeldSteady DEF Steady
<1>4. Held(cons', down + 1)
  BY <1>1, <1>3 DEF Held
<1> QED
  BY <1>1, <1>2, <1>4 DEF ConsoleInv

LEMMA ReleaseKeeps ==
    ASSUME ConsoleInv, Release
    PROVE  ConsoleInv'
<1> DEFINE n == down - 1
<1>1. /\ n \in Nat /\ down' = n /\ down' \in 0 .. MaxButtons /\ down = n + 1
      /\ Consistent(cons) /\ Held(cons, down) /\ cons.sensitive
  BY ActiveConsoleAssumption DEF Release, ConsoleInv
<1> HIDE DEF n
<1>2. CASE cons.ignore
  <2> DEFINE d == [cons EXCEPT !.ignore = FALSE]
  <2>1. cons' = d
    BY <1>1, <1>2 DEF Release
  <2>2. /\ Sound(d) /\ SameSpots(cons, d) /\ SamePage(cons, d) /\ SamePointer(cons, d)
        /\ d.ignore = FALSE /\ d.kind = cons.kind /\ d.height = cons.height
        /\ d.realized = cons.realized /\ d.sensitive = cons.sensitive /\ d.top = cons.top
        /\ d.bar = cons.bar /\ d.screen = cons.screen
    BY <1>1, PutIgnore DEF Consistent
  <2> HIDE DEF d
  <2>3. UpToDate(d)
    BY <1>1, <2>2, StillTrue DEF SameSpots, SamePage, Consistent
  <2>4. Consistent(d)
    <3>1. /\ d.spots = cons.spots /\ d.current = cons.current /\ d.info = cons.info
          /\ d.cursor = cons.cursor /\ d.focus = cons.focus /\ d.bright = cons.bright
      BY <2>2 DEF SameSpots, SamePointer
    <3>2. /\ d.kind = "pane" => d.info = IF d.focus THEN d.current ELSE 0
          /\ d.kind = "gone" => ~d.sensitive
      BY <1>1, <2>2, <3>1 DEF Consistent
    <3> QED
      BY <1>1, <2>2, <2>3, <3>1, <3>2, StaysConsistent
  <2>5. Held(d, n)
    BY <1>1, <1>2, <2>2 DEF Held, SamePointer
  <2> QED
    BY <1>1, <2>1, <2>4, <2>5 DEF ConsoleInv
<1>3. CASE ~cons.ignore
  <2> DEFINE c == GrabFocus(cons)
             l == Lifted(c)
  <2>1. Consistent(c) /\ SameButtons(cons, c) /\ Held(c, down)
    BY <1>1, Grabbing, HeldSteady DEF Steady
  <2>2. IF c.current = 0 THEN cons' = c
        ELSE \E s \in 0 .. Len(c.spots) : ReleaseOver(l, s)
    BY <1>3 DEF Release
  <2> HIDE DEF c
  <2>3. CASE c.current = 0
    <3>1. cons' = c
      BY <1>1, <2>2, <2>3
    <3>2. Held(c, n)
      BY <2>1, <2>3 DEF Held, Consistent
    <3> QED
      BY <1>1, <2>1, <3>1, <3>2 DEF ConsoleInv
  <2>4. CASE c.current # 0
    <3>1. Consistent(l) /\ l.kind = c.kind /\ l.bright = FALSE /\ l.ignore = c.ignore
      BY <2>1, <2>4, Lifting
    <3>2. PICK s : ReleaseOver(l, s)
      BY <2>2, <2>4
    <3> HIDE DEF l
    <3>3. Held(l, n)
      BY <1>3, <2>1, <3>1 DEF Held, SameButtons
    <3>4. Steady(l, cons')
      <4>1. CASE cons' = l
        BY <1>1, <3>1, <4>1 DEF Steady, SameButtons
      <4>2. CASE \E r \in Select(l) : cons' = r.cons
        <5>1. PICK r \in Select(l) : cons' = r.cons
          BY <4>2
        <5>2. Steady(l, r.cons)
          BY <3>1, Selecting
        <5> QED
          BY <1>1, <5>1, <5>2
      <4> QED
        BY <3>2, <4>1, <4>2 DEF ReleaseOver
    <3>5. Consistent(cons') /\ Held(cons', n)
      BY <3>3, <3>4, HeldSteady DEF Steady
    <3> QED
      BY <1>1, <3>4, <3>5 DEF ConsoleInv
  <2> QED
    BY <2>3, <2>4
<1> QED
  BY <1>2, <1>3

LEMMA ReleaseLostKeeps ==
    ASSUME ConsoleInv, ReleaseLost
    PROVE  ConsoleInv'
<1>1. /\ down \in 0 .. MaxButtons /\ down > 0 /\ down' = down - 1 /\ cons' = cons
      /\ Consistent(cons) /\ Held(cons, down) /\ ~cons.sensitive
  BY DEF ReleaseLost, ConsoleInv
<1>2. Held(cons, down - 1)
  BY <1>1 DEF Held
<1>3. down' \in 0 .. MaxButtons
  BY <1>1, ActiveConsoleAssumption
<1> QED
  BY <1>1, <1>2, <1>3 DEF ConsoleInv

LEMMA StatusKeeps ==
    ASSUME ConsoleInv, StatusUpdate \/ StatusSetup \/ StatusSuspend
    PROVE  ConsoleInv'
<1>1. Consistent(cons) /\ cons.kind = "status" /\ UNCHANGED down
  BY DEF ConsoleInv, StatusUpdate, StatusSetup, StatusSuspend
<1>2. Steady(cons, cons')
  <2>1. CASE StatusUpdate
    BY <1>1, <2>1, StatusRewrites DEF StatusUpdate, Steady
  <2>2. CASE StatusSetup
    <3>1. Bar(cons')
      BY <1>1, <2>2, StatusSetups DEF StatusSetup
    <3> QED
      BY <3>1, BarConsistent DEF Steady, Bar
  <2>3. CASE StatusSuspend
    <3>1. PICK on \in {FALSE, cons.enabled} : cons' = SetSensitive(cons, on)
      BY <2>3 DEF StatusSuspend
    <3>2. on \in BOOLEAN
      <4>1. cons.enabled \in BOOLEAN
        BY <1>1, Fields DEF Consistent
      <4> QED
        BY <4>1
    <3> DEFINE d == SetSensitive(cons, on)
    <3>3. Bar(cons) /\ CursorOnGadget(cons)
      BY <1>1, BarConsistent
    <3>4. /\ Sound(d) /\ UpToDate(d) /\ d.kind = "status" /\ d.height = ViewHeight /\ d.info = 0
          /\ d.spots = cons.spots /\ d.current = cons.current /\ d.cursor = cons.cursor
      <4>1. /\ Sound(cons) /\ UpToDate(cons) /\ CursorOnGadget(cons) /\ cons.info = 0
            /\ cons.kind = "status" /\ cons.height = ViewHeight
        BY <3>3 DEF Bar
      <4>2. /\ Sound(d) /\ UpToDate(d) /\ d.kind = cons.kind /\ d.height = cons.height
            /\ d.spots = cons.spots /\ d.current = cons.current /\ d.cursor = cons.cursor
            /\ d.info = IF cons.focus /\ ~on /\ cons.current # 0 /\ cons.kind = "pane"
                          THEN 0 ELSE cons.info
        BY <3>2, <4>1, SettingSensitive
      <4> HIDE DEF d
      <4> QED
        BY <4>1, <4>2
    <3>5. cons' = d
      BY <3>1
    <3> HIDE DEF d
    <3>6. Bar(d)
      BY <3>3, <3>4 DEF Bar, CursorAt, Spot
    <3> QED
      BY <3>5, <3>6, BarConsistent DEF Steady, Bar
  <2> QED
    BY <2>1, <2>2, <2>3
<1> QED
  BY <1>1, <1>2, Kept

\* ConsoleInv holds between any two events: consoles are consistent as they
\* are opened, and every handler of ActiveConsole leaves one that is, whatever
\* its listeners did (the event handlers of sactiveconsole.c and sconsole.c).
THEOREM ConsolesKept == Spec => []ConsoleInv
<1>1. Init => ConsoleInv
  <2> SUFFICES ASSUME Init PROVE ConsoleInv
    OBVIOUS
  <2>1. Consistent(cons) /\ Held(cons, 0) /\ down = 0
    BY Opening DEF Init
  <2>2. 0 \in 0 .. MaxButtons
    BY ActiveConsoleAssumption
  <2> QED
    BY <2>1, <2>2 DEF ConsoleInv
<1>2. ConsoleInv /\ [Next]_vars => ConsoleInv'
  <2> SUFFICES ASSUME ConsoleInv, [Next]_vars PROVE ConsoleInv'
    OBVIOUS
  <2>1. CASE UNCHANGED vars
    BY <2>1 DEF vars, ConsoleInv
  <2>2. CASE Open
    BY <2>2, OpenKeeps
  <2>3. CASE Configure
    BY <2>3, Configuring, Kept DEF Configure, ConsoleInv
  <2>4. CASE Focus
    BY <2>4, FocusKeeps
  <2>5. CASE Scroll
    BY <2>5, ScrollKeeps
  <2>6. CASE KeyMove
    BY <2>6, KeyMoveKeeps
  <2>7. CASE KeySelect
    BY <2>7, KeySelectKeeps
  <2>8. CASE KeyOther
    BY <2>8, KeyOtherKeeps
  <2>9. CASE Activate
    BY <2>9, ActivateKeeps
  <2>10. CASE PressBar
    BY <2>10, PressBarKeeps
  <2>11. CASE Press
    BY <2>11, PressKeeps
  <2>12. CASE PressOutside
    BY <2>12, PressOutsideKeeps
  <2>13. CASE Release
    BY <2>13, ReleaseKeeps
  <2>14. CASE ReleaseLost
    BY <2>14, ReleaseLostKeeps
  <2>15. CASE StatusUpdate \/ StatusSetup \/ StatusSuspend
    BY <2>15, StatusKeeps
  <2> QED
    BY <2>1, <2>2, <2>3, <2>4, <2>5, <2>6, <2>7, <2>8, <2>9, <2>10, <2>11, <2>12, <2>13,
       <2>14, <2>15 DEF Next
<1> QED
  BY <1>1, <1>2, PTL DEF Spec

-----------------------------------------------------------------------------
(* What follows from it.                                                   *)

\* What a repaint of everything would draw is there already.
LEMMA PictureShown ==
    ASSUME NEW c, Sound(c), UpToDate(c), c.realized
    PROVE  c.screen = DrawAll(c).screen /\ c.bar = c.top
<1> DEFINE d == DrawAll(c)
<1>1. Sound(d) /\ Drawn(c, d) /\ Stale(d, {}) /\ d.realized
  BY DrawAllDraws DEF Drawn, SameFrame
<1> HIDE DEF d
<1>2. \A cell \in Cell : d.screen[cell] = c.screen[cell]
  <2>1. \A cell \in Cell : Picture(d, cell) = Picture(c, cell)
    BY <1>1, SamePicture
  <2> QED
    BY <1>1, <2>1 DEF UpToDate, Stale
<1>3. c.screen = [cell \in Cell |-> c.screen[cell]] /\ d.screen = [cell \in Cell |-> d.screen[cell]]
  BY <1>1, Fields
<1>4. c.screen = d.screen
  BY <1>2, <1>3
<1> QED
  BY <1>4 DEF UpToDate, BarTrue, d

\* The types, and what is shown of the current spot.
LEMMA ConsoleFacts ==
    ASSUME ConsoleInv
    PROVE  ScreenTrue /\ CursorOnSpot
<1>1. Consistent(cons) /\ Held(cons, down) /\ down \in 0 .. MaxButtons
  BY DEF ConsoleInv
<1>2. Sound(cons)
  BY <1>1 DEF Consistent
<1>3. ScreenTrue
  BY <1>1, PictureShown DEF ScreenTrue, Consistent
<1>5. /\ cons.kind \in Kinds \cup {"gone"}
      /\ cons.top \in 0 .. LastTop(cons) /\ cons.bar \in 0 .. LastTop(cons)
      /\ cons.current \in 0 .. Len(cons.spots) /\ DOMAIN cons.text = 0 .. cons.height - 1
  <2>1. cons.text \in [0 .. cons.height - 1 -> [0 .. Width - 1 -> Char]]
    BY <1>2, Fields
  <2>2. DOMAIN cons.text = 0 .. cons.height - 1
    BY <2>1
  <2> QED
    BY <1>2, <2>2, Fields DEF LastTop
<1>6. cons.info \in 0 .. PaneHeight
  <2>1. cons.current \in 0 .. Len(cons.spots) /\ Len(cons.spots) \in Nat
    BY <1>2, Fields
  <2>2. PaneHeight \in Nat
    BY ActiveConsoleAssumption
  <2> QED
    BY <1>1, <2>1, <2>2 DEF Consistent, Describes
<1>7. ASSUME NEW at \in {light.at : light \in Range(cons.lights)}
                           \cup {spot.at : spot \in Range(cons.spots)}
      PROVE  at.x >= 0 /\ at.y >= 0 /\ at.x + at.w <= Width /\ at.y + at.h <= cons.height
  <2>1. at \in Area(cons.height)
    <3>1. CASE \E light \in Range(cons.lights) : at = light.at
      <4>1. PICK k \in DOMAIN cons.lights : at = cons.lights[k].at
        BY <3>1 DEF Range
      <4>2. cons.lights \in Seq(Light(cons.height))
        BY <1>2, Fields
      <4>3. cons.lights[k] \in Light(cons.height)
        BY <4>2
      <4> QED
        BY <4>1, <4>3 DEF Light
    <3>2. CASE \E spot \in Range(cons.spots) : at = spot.at
      <4>1. PICK k \in DOMAIN cons.spots : at = cons.spots[k].at
        BY <3>2 DEF Range
      <4>2. cons.spots \in Seq(SpotOf(cons.height))
        BY <1>2, Fields
      <4>3. cons.spots[k] \in SpotOf(cons.height)
        BY <4>2
      <4> QED
        BY <4>1, <4>3 DEF SpotOf
    <3> QED
      BY <1>7, <3>1, <3>2
  <2> QED
    BY <2>1 DEF Area
<1>8. ConsoleTypeOK
  BY <1>1, <1>5, <1>6, <1>7 DEF ConsoleTypeOK
<1>9. Keyboard(cons) /\ Live <=> cons.kind \in Playable
  BY <1>5 DEF Keyboard, Live, Playable, Kinds
<1>10. Live => /\ cons.cursor # Hidden => cons.current # 0 /\ cons.cursor = Spot(cons).at
               /\ Keyboard(cons) /\ cons.spots # <<>> => cons.cursor # Hidden
               /\ Keyboard(cons) /\ cons.bright => down > 0
  BY <1>1, <1>9 DEF Consistent, CursorAt, Held
<1>11. /\ cons.kind = "pane" => cons.info = IF cons.focus THEN cons.current ELSE 0
       /\ cons.kind = "list" => cons.info = cons.current
  BY <1>1 DEF Consistent
<1>12. CursorOnSpot
  BY <1>8, <1>10, <1>11 DEF CursorOnSpot
<1> QED
  BY <1>3, <1>12

\* What is on the screen is what a repaint of everything would draw: no
\* operation of the console misses a cell that it has changed, and none
\* wipes out a gadget (_sc_console_draw_region and its callers).
THEOREM ScreensTrue == Spec => []ScreenTrue
<1>1. ConsoleInv => ScreenTrue
  BY ConsoleFacts
<1> QED
  BY <1>1, ConsolesKept, PTL

\* The cursor is on the current spot or nowhere; with a keyboard nowhere only
\* for want of spots, and lit only while a button is held; what is told of a
\* spot is told in pairs (sc_active_console_detach_spot,
\* _sc_active_console_focus_in and the button and key handlers).
THEOREM CursorsOnSpots == Spec => []CursorOnSpot
<1>1. ConsoleInv => CursorOnSpot
  BY ConsoleFacts
<1> QED
  BY <1>1, ConsolesKept, PTL
=============================================================================
