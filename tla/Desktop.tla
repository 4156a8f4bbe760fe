------------------------------- MODULE Desktop -------------------------------
(***************************************************************************)
(* What the screen shows: the desktop KernelMain draws (kernel/main.cpp),  *)
(* the console that every log line goes to (console.cpp, font.cpp,         *)
(* logger.cpp) and the mouse cursor (mouse.cpp), all of them through       *)
(* PixelWriter on one linear frame buffer (graphics.hpp).                  *)
(*                                                                         *)
(* The three know nothing of one another: text is written over the cursor  *)
(* and scrolled under it, and the cursor is erased with the desktop's      *)
(* colour, whatever was there.  Nothing keeps the cursor on the screen.    *)
(* Every call runs to its end before the next one (the kernel is one       *)
(* thread that polls), so a call is one step.                              *)
(***************************************************************************)
EXTENDS Integers, SequencesExt

CONSTANTS
  pixels_per_scan_line, horizontal_resolution, vertical_resolution,
  kRows, kColumns,          \* of the console, the column for NUL included
  GlyphWidth, GlyphHeight,  \* 8 and 16
  Font,                     \* for each character that has one, its pixels
  CursorBlack, CursorWhite, \* pixels '@' and '.' of mouse_cursor_shape
  kTaskBarHeight,           \* 50
  PanelWidth,               \* of the panel on the task bar, kFrameWidth / 5
  Button,                   \* [pos, size] of the rectangle on the task bar
  Start,                    \* position of the cursor, {300, 200}
  Texts,                    \* strings that are logged
  Displacements,            \* what MouseObserver is called with
  Reach                     \* bound: positions the cursor is taken to

kFrameWidth  == horizontal_resolution
kFrameHeight == vertical_resolution
Shape == CursorBlack \cup CursorWhite

(* The frame buffer is at most 4 GiB.  The console ends above the task    *)
(* bar (in the code: 450 lines and 640 columns or more), the bar's button  *)
(* is on it, and the cursor is narrower than a line.                       *)
ASSUME FrameAssumption ==
  /\ {horizontal_resolution, vertical_resolution, pixels_per_scan_line} \subseteq Nat
  /\ {kRows, kColumns, GlyphWidth, GlyphHeight, kTaskBarHeight} \subseteq Nat \ {0}
  /\ kFrameWidth <= pixels_per_scan_line
  /\ pixels_per_scan_line * vertical_resolution <= 2^30
  /\ GlyphWidth * kColumns <= kFrameWidth
  /\ PanelWidth \in 0..kFrameWidth
  /\ GlyphHeight * kRows <= kFrameHeight - kTaskBarHeight
  /\ Button.pos \in Nat \X Nat /\ Button.size \in (Nat \ {0}) \X (Nat \ {0})
  /\ Button.pos[1] + Button.size[1] <= kFrameWidth
  /\ Button.pos[2] >= kFrameHeight - kTaskBarHeight
  /\ Button.pos[2] + Button.size[2] <= kFrameHeight
  /\ CursorBlack \cap CursorWhite = {}
  /\ Shape \subseteq (0 .. kFrameWidth - 1) \X Nat
  /\ Displacements \cup {Start} \subseteq Int \X Int

VARIABLES
  frame_buffer,   \* colour of each pixel of the frame, by its offset
  beyond,         \* offsets outside the frame that the last step wrote to
  buffer, cursor_row, cursor_column,   \* Console
  position,       \* MouseCursor
  smeared         \* history: pixels where the cursor was erased, in the
                  \* console's area since it was last painted

consoleVars == <<buffer, cursor_row, cursor_column>>
vars == <<frame_buffer, beyond, consoleVars, position, smeared>>

-----------------------------------------------------------------------------
(* Drawing.                                                                *)

kDesktopBGColor == "blue"
kDesktopFGColor == "white"
NUL == "NUL"
Frame == 0 .. pixels_per_scan_line * vertical_resolution - 1

(* PixelWriter::PixelAt: the pixel's offset, computed in 32 unsigned bits  *)
(* of bytes, four to a pixel.  Off the right edge is the next line, and    *)
(* above the first line is almost 4 GiB behind the frame.                  *)
PixelAt(p) == (pixels_per_scan_line * p[2] + p[1]) % 2^30

Plus(p, d) == <<p[1] + d[1], p[2] + d[2]>>
At(p, shape) == {PixelAt(Plus(p, d)) : d \in shape}
Paint(screen, pixels, colour) ==
  [frame_buffer |-> [o \in Frame |-> IF o \in pixels THEN colour
                                     ELSE screen.frame_buffer[o]],
   beyond       |-> screen.beyond \cup (pixels \ Frame)]

(* FillRectangle and DrawRectangle: the pixels of a rectangle, of its rim. *)
Filled(size) == (0 .. size[1] - 1) \X (0 .. size[2] - 1)
Rim(size) == ((0 .. size[1] - 1) \X {0, size[2] - 1})
             \cup ({0, size[1] - 1} \X (1 .. size[2] - 2))

(* A glyph is a pattern of GlyphWidth by GlyphHeight pixels; strings end   *)
(* before their NUL.                                                       *)
ASSUME TextAssumption ==
  /\ \A c \in DOMAIN Font : Font[c] \subseteq Filled(<<GlyphWidth, GlyphHeight>>)
  /\ \A s \in Texts : s \in Seq({s[i] : i \in DOMAIN s} \ {NUL})

(* GetFont: no glyph, nothing drawn.                                       *)
GetFont(c) == IF c \in DOMAIN Font THEN Font[c] ELSE {}
Glyph(column, row, c) ==
  At(<<GlyphWidth * column, GlyphHeight * row>>, GetFont(c))
WriteAscii(screen, column, row, c) ==
  Paint(screen, Glyph(column, row, c), kDesktopFGColor)

(* The pixels of WriteString: of a row, up to its NUL.                     *)
Before(line, column) == \A i \in 0..column : line[i] # NUL
WriteString(line, row) ==
  UNION {Glyph(i, row, line[i]) : i \in {j \in 0..kColumns : Before(line, j)}}

-----------------------------------------------------------------------------
(* Console.  A state of it: buffer, row, column, screen and smeared.       *)

BlankRow == [column \in 0..kColumns |-> NUL]

(* Mutant of ConsoleArea: y <= 16 * kRows, x <= 8 * kColumns.              *)
ConsoleAreaInclusive ==
  At(<<0, 0>>, Filled(<<GlyphWidth * kColumns + 1, GlyphHeight * kRows + 1>>))

ConsoleArea == At(<<0, 0>>, Filled(<<GlyphWidth * kColumns, GlyphHeight * kRows>>))

(* After the last row all is painted over, every row but the last gets the *)
(* text of the next one and is written again, up to its NUL, and the last  *)
(* one is cleared.                                                         *)
Scroll(con) ==
  LET moved == [row \in 0 .. kRows - 1 |->
                  IF row < kRows - 1 THEN con.buffer[row + 1] ELSE BlankRow]
      text  == UNION {WriteString(moved[row], row) : row \in 0 .. kRows - 2}
  IN  [con EXCEPT !.buffer  = moved,
                  !.screen  = Paint(Paint(@, ConsoleArea, kDesktopBGColor),
                                    text, kDesktopFGColor),
                  !.smeared = @ \ ConsoleArea]

(* Mutant of Newline: the last row keeps the text of the one that moved.   *)
NewlineKeepingRow(con) ==
  LET home == [con EXCEPT !.column = 0]
  IN  IF con.row < kRows - 1 THEN [home EXCEPT !.row = @ + 1]
      ELSE [Scroll(home) EXCEPT !.buffer[kRows - 1] = con.buffer[kRows - 1]]

(* Console::Newline.                                                       *)
Newline(con) ==
  LET home == [con EXCEPT !.column = 0]
  IN  IF con.row < kRows - 1 THEN [home EXCEPT !.row = @ + 1] ELSE Scroll(home)

(* One round of PutString's loop; what does not fit in the row is dropped. *)
PutChar(con, c) ==
  CASE c = "\n" -> Newline(con)
    [] c # "\n" /\ con.column < kColumns - 1 ->
         [con EXCEPT !.screen = WriteAscii(@, con.column, con.row, c),
                     !.buffer[con.row][con.column] = c,
                     !.column = @ + 1]
    [] OTHER -> con
PutString(con, s) == FoldLeft(PutChar, con, s)

-----------------------------------------------------------------------------
(* MouseCursor.                                                            *)

DrawMouseCursor(screen, p) ==
  Paint(Paint(screen, At(p, CursorBlack), "black"), At(p, CursorWhite), "white")
EraseMouseCursor(screen, p) == Paint(screen, At(p, Shape), kDesktopBGColor)

Screen == [frame_buffer |-> frame_buffer, beyond |-> {}]
Show(screen) == /\ frame_buffer' = screen.frame_buffer
                /\ beyond' = screen.beyond

(* Mutant of MoveRelative: erased where it goes, not where it was.         *)
MoveRelativeFirst(d) ==
  /\ position' = Plus(position, d)
  /\ position' \in Reach
  /\ Show(DrawMouseCursor(EraseMouseCursor(Screen, position'), position'))
  /\ smeared' = smeared \cup (At(position, Shape) \cap Frame)
  /\ UNCHANGED consoleVars

(* MouseObserver, called by the mouse driver with a report's displacement. *)
(* The code keeps the cursor nowhere; Reach is the bound of a run, and may *)
(* be all of Int \X Int.  That the coordinates of the code wrap at 2^32    *)
(* makes no difference: PixelAt is the same for those that differ by that. *)
MoveRelative(d) ==
  /\ position' = Plus(position, d)
  /\ position' \in Reach
  /\ Show(DrawMouseCursor(EraseMouseCursor(Screen, position), position'))
  /\ smeared' = smeared \cup (At(position, Shape) \cap Frame)
  /\ UNCHANGED consoleVars

(* Log at a level that is not dropped (log_level is kInfo), and printk.    *)
Log(s) ==
  LET con == PutString([buffer |-> buffer, row |-> cursor_row,
                        column |-> cursor_column, screen |-> Screen,
                        smeared |-> smeared], s)
  IN  /\ buffer' = con.buffer
      /\ cursor_row' = con.row /\ cursor_column' = con.column
      /\ smeared' = con.smeared
      /\ Show(con.screen)
      /\ UNCHANGED position

(* KernelMain up to the mouse cursor: desktop, task bar with panel and     *)
(* button, the console (the welcome is a text like the others), the cursor. *)
Desk ==
  LET blank == [frame_buffer |-> [o \in Frame |-> "off"], beyond |-> {}]
      bar   == kFrameHeight - kTaskBarHeight
      desk  == Paint(blank, At(<<0, 0>>, Filled(<<kFrameWidth, bar>>)),
                     kDesktopBGColor)
      both  == Paint(desk, At(<<0, bar>>, Filled(<<kFrameWidth, kTaskBarHeight>>)),
                     "bar")
      panel == Paint(both, At(<<0, bar>>, Filled(<<PanelWidth, kTaskBarHeight>>)),
                     "panel")
  IN  Paint(panel, At(Button.pos, Rim(Button.size)), "button")

Init ==
  /\ buffer = [row \in 0 .. kRows - 1 |-> BlankRow]
  /\ cursor_row = 0 /\ cursor_column = 0
  /\ position = Start
  /\ frame_buffer = DrawMouseCursor(Desk, Start).frame_buffer
  /\ beyond = DrawMouseCursor(Desk, Start).beyond
  /\ smeared = {}

Next == (\E s \in Texts : Log(s)) \/ (\E d \in Displacements : MoveRelative(d))

Spec == Init /\ [][Next]_vars

-----------------------------------------------------------------------------
(* Properties.                                                             *)

(* The console is a terminal: what its buffer holds is the last lines that *)
(* were logged, each cut at its width, and nothing of a line that scrolled *)
(* out is left behind the text of another.                                 *)
TextOf(line) == [i \in {j \in 1..kColumns : Before(line, j - 1)} |-> line[i - 1]]
Lines == INSTANCE Terminal WITH
           Rows <- kRows, Columns <- kColumns - 1,
           lines <- SubSeq([row \in 1..kRows |-> TextOf(buffer[row - 1])],
                           1, cursor_row + 1)
ConsoleIsTerminal == Lines!Spec

(* The screen shows the desktop with the console's text on it, at every    *)
(* pixel except those the cursor covers or has left since the console was  *)
(* last painted: there may be a hole in the desktop's colour, in a letter  *)
(* or in the task bar, but never a piece of the cursor it left behind,     *)
(* whatever was logged and scrolled meanwhile.                             *)
TextPixels == UNION {WriteString(buffer[row], row) : row \in 0 .. kRows - 1}
Ideal(o) == IF o \in TextPixels THEN kDesktopFGColor ELSE Desk.frame_buffer[o]
ScreenIsTrue ==
  \A o \in Frame \ At(position, Shape) :
     \/ frame_buffer[o] = Ideal(o)
     \/ o \in smeared /\ frame_buffer[o] = kDesktopBGColor

(* Nothing but the cursor ever writes outside the frame buffer, and that   *)
(* only while a part of it is off the screen: no text that is logged does  *)
(* it, wherever the cursor is and however often the console scrolls, and   *)
(* no step that starts and ends with the whole cursor on the screen.       *)
OnScreen(p) == \A d \in Shape : /\ Plus(p, d)[1] \in 0 .. kFrameWidth - 1
                                /\ Plus(p, d)[2] \in 0 .. kFrameHeight - 1
OnlyCursorLeaves ==
  [][\/ \E s \in Texts : Log(s)
     \/ OnScreen(position) /\ OnScreen(position')
     => beyond' = {}]_vars
=============================================================================
