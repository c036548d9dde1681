SPECIFICATION Spec
CONSTANTS
    Width = 2
    ViewHeight = 2
    PaneHeight = 4
    Glyphs = {"1", "2"}
    MaxButtons = 2
INVARIANTS ScreenTrue CursorOnSpot
