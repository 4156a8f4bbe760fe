\* The task bar is one line; the cursor can hang over every edge.
CONSTANTS
  pixels_per_scan_line = 3
  horizontal_resolution = 3
  vertical_resolution = 3
  kRows = 2
  kColumns = 3
  GlyphWidth = 1
  GlyphHeight = 1
  Font <- AFont
  CursorBlack <- Black
  CursorWhite <- White
  kTaskBarHeight = 1
  PanelWidth = 1
  Button <- AButton
  Start <- Middle
  Texts <- SomeTexts
  Displacements <- Steps
  Reach <- Around
SPECIFICATION Spec
INVARIANTS
  ScreenIsTrue
PROPERTIES
  ConsoleIsTerminal
  OnlyCursorLeaves
