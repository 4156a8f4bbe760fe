---------------------------- MODULE DesktopProofs ----------------------------
(***************************************************************************)
(* Proofs about Desktop, for every resolution, console, font and cursor:   *)
(* what is on the screen is the console's text on the desktop, but for the *)
(* cursor and the holes it leaves.                                         *)
(***************************************************************************)
EXTENDS Desktop, SequenceTheorems, WellFoundedInduction, TLAPS

-----------------------------------------------------------------------------
(* A text, character by character.                                         *)

(* The first of some numbers.                                              *)
LEMMA LeastIs ==
  ASSUME NEW S \in SUBSET Nat, S # {}
  PROVE  \E i \in S : \A j \in S : i <= j
<1>1. PICK i \in S : \A j \in S : <<j, i>> \notin OpToRel(<, Nat)
  BY NatLessThanWellFounded, WFMin
<1>2. \A j \in S : ~(j < i)
  BY <1>1 DEF OpToRel
<1> QED
  BY <1>2

(* The last of some rounds of a loop.                                      *)
LEMMA MaxIs ==
  ASSUME NEW m \in Nat, NEW S \in SUBSET (1..m), S # {}
  PROVE  /\ Max(S) \in S /\ Lines!Max(S) = Max(S)
         /\ m \in S => Max(S) = m
<1>1. \E x \in S : \A y \in S : x >= y
  <2> DEFINE T == {m - x : x \in S}
  <2>1. T \in SUBSET Nat /\ T # {}
    <3>1. \A x \in S : m - x \in Nat
      OBVIOUS
    <3> QED
      BY <3>1
  <2>2. PICK t \in T : \A u \in T : t <= u
    <3> HIDE DEF T
    <3> QED
      BY <2>1, LeastIs
  <2>3. PICK x \in S : t = m - x
    OBVIOUS
  <2>4. \A y \in S : m - x <= m - y
    BY <2>2, <2>3
  <2> QED
    BY <2>4
<1>2. Max(S) \in S /\ \A y \in S : Max(S) >= y
  BY <1>1 DEF Max
<1>3. Lines!Max(S) = Max(S)
  BY DEF Max, Lines!Max
<1> DEFINE x == Max(S)
<1> HIDE DEF x
<1>4. x \in S /\ \A y \in S : x >= y
  BY <1>2 DEF x
<1>5. x \in S /\ (m \in S => x = m)
  BY <1>4
<1> QED
  BY <1>3, <1>5 DEF x

(* The rounds up to i.                                                     *)
LEMMA UpTo ==
  ASSUME NEW n \in Nat, NEW i \in 1..n
  PROVE  /\ 1..i \in SUBSET (1..n) /\ 1..i # {}
         /\ Max(1..i) = i /\ Lines!Max(1..i) = i /\ (1..i) \ {i} = 1 .. (i - 1)
<1> DEFINE S == 1..i
<1>1. /\ S \in SUBSET (1..n) /\ S # {} /\ i \in S /\ i \in Nat /\ S \in SUBSET (1..i)
      /\ S \ {i} = 1 .. (i - 1)
  OBVIOUS
<1> HIDE DEF S
<1>2. Max(S) = i /\ Lines!Max(S) = i
  BY <1>1, MaxIs
<1> QED
  BY <1>1, <1>2 DEF S

-----------------------------------------------------------------------------
(* Pixels.                                                                 *)

(* FrameAssumption, as the proofs cite it.                                 *)
LEMMA FrameIs ==
  /\ horizontal_resolution \in Nat /\ vertical_resolution \in Nat
  /\ pixels_per_scan_line \in Nat /\ horizontal_resolution <= pixels_per_scan_line
  /\ kRows \in Nat \ {0} /\ kColumns \in Nat \ {0}
  /\ GlyphWidth \in Nat \ {0} /\ GlyphHeight \in Nat \ {0} /\ kTaskBarHeight \in Nat \ {0}
  /\ GlyphWidth * kColumns <= horizontal_resolution
  /\ GlyphHeight * kRows <= vertical_resolution - kTaskBarHeight
  /\ pixels_per_scan_line * vertical_resolution <= 2^30
BY FrameAssumption DEF kFrameWidth, kFrameHeight

(* A product and the next one.                                             *)
LEMMA Times ==
  ASSUME NEW a \in Nat, NEW m \in Nat, NEW n \in Nat, m < n
  PROVE  a * m \in Nat /\ a * n \in Nat /\ a * m + a <= a * n
<1> DEFINE k == n - m - 1
<1>1. k \in Nat /\ n = m + 1 + k
  OBVIOUS
<1> HIDE DEF k
<1>2. a * (m + 1 + k) = a * m + a + a * k
  BY <1>1
<1>3. a * k \in Nat /\ a * m \in Nat /\ a * n \in Nat
  BY <1>1
<1> QED
  BY <1>1, <1>2, <1>3

(* The offset of a pixel on the screen, with no wrapping around.           *)
LEMMA PixelIs ==
  ASSUME NEW x \in 0 .. horizontal_resolution - 1, NEW y \in 0 .. vertical_resolution - 1
  PROVE  /\ PixelAt(<<x, y>>) = pixels_per_scan_line * y + x
         /\ PixelAt(<<x, y>>) \in Frame
<1> DEFINE a == pixels_per_scan_line
           o == a * y + x
           n == a * vertical_resolution
           limit == 2^30
<1>1. a * y \in Nat /\ n \in Nat /\ a * y + a <= n
  BY FrameIs, Times
<1>2. n <= limit /\ x \in Nat /\ x < a /\ a \in Nat /\ limit \in Nat
  BY FrameIs
<1> DEFINE b == a * y
<1>3. PixelAt(<<x, y>>) = o % limit
  BY DEF PixelAt
<1>4. Frame = 0 .. n - 1
  BY DEF Frame
<1> HIDE DEF n, b, a, limit
<1>5. b + x \in Nat /\ b + x < n /\ b + x < limit
  BY <1>1, <1>2 DEF b
<1>6. (b + x) % limit = b + x /\ b + x \in 0 .. n - 1
  BY <1>1, <1>2, <1>5
<1> QED
  BY <1>3, <1>4, <1>6 DEF b, a

(* Pixels of different lines have different offsets.                       *)
LEMMA LinesApart ==
  ASSUME NEW x \in 0 .. horizontal_resolution - 1, NEW y \in 0 .. vertical_resolution - 1,
         NEW u \in 0 .. horizontal_resolution - 1, NEW v \in 0 .. vertical_resolution - 1,
         y < v
  PROVE  PixelAt(<<x, y>>) # PixelAt(<<u, v>>)
<1> DEFINE a == pixels_per_scan_line
           b == a * y
           d == a * v
<1>1. b \in Nat /\ d \in Nat /\ b + a <= d
  BY FrameIs, Times
<1>2. PixelAt(<<x, y>>) = b + x /\ PixelAt(<<u, v>>) = d + u
  BY PixelIs
<1>3. x < a /\ x \in Nat /\ u \in Nat /\ a \in Nat
  BY FrameIs
<1> HIDE DEF a, b, d
<1> QED
  BY <1>1, <1>2, <1>3

(* A rectangle at the origin, pixel by pixel.                              *)
LEMMA FilledIs ==
  ASSUME NEW w \in Int, NEW h \in Int
  PROVE  At(<<0, 0>>, Filled(<<w, h>>))
           = {PixelAt(<<x, y>>) : x \in 0 .. w - 1, y \in 0 .. h - 1}
<1> DEFINE R == (0 .. w - 1) \X (0 .. h - 1)
           A == {PixelAt(Plus(<<0, 0>>, d)) : d \in R}
           B == {PixelAt(<<x, y>>) : x \in 0 .. w - 1, y \in 0 .. h - 1}
<1>1. At(<<0, 0>>, Filled(<<w, h>>)) = A
  BY DEF At, Filled
<1>2. \A x \in 0 .. w - 1, y \in 0 .. h - 1 : Plus(<<0, 0>>, <<x, y>>) = <<x, y>>
  BY DEF Plus
<1>3. ASSUME NEW o \in A PROVE o \in B
  <2>1. PICK d \in R : o = PixelAt(Plus(<<0, 0>>, d))
    OBVIOUS
  <2>2. PICK x \in 0 .. w - 1, y \in 0 .. h - 1 : d = <<x, y>>
    OBVIOUS
  <2>3. o = PixelAt(<<x, y>>)
    BY <1>2, <2>1, <2>2
  <2> HIDE DEF A
  <2>4. \E a \in 0 .. w - 1, b \in 0 .. h - 1 : o = PixelAt(<<a, b>>)
    BY <2>3
  <2> QED
    BY <2>4
<1>4. ASSUME NEW o \in B PROVE o \in A
  <2>1. PICK x \in 0 .. w - 1, y \in 0 .. h - 1 : o = PixelAt(<<x, y>>)
    OBVIOUS
  <2>2. <<x, y>> \in R /\ o = PixelAt(Plus(<<0, 0>>, <<x, y>>))
    BY <1>2, <2>1
  <2> HIDE DEF R
  <2> QED
    BY <2>2
<1> HIDE DEF A, B
<1>5. A = B
  BY <1>3, <1>4
<1> QED
  BY <1>1, <1>5 DEF B

(* The pixels of the console.                                              *)
Rows    == 0 .. kRows - 1
Columns == 0 .. kColumns - 1
AreaWidth  == GlyphWidth * kColumns
AreaHeight == GlyphHeight * kRows

(* It is on the screen, above the task bar.                                *)
LEMMA AreaIs ==
  /\ AreaWidth \in Nat /\ AreaWidth <= horizontal_resolution
  /\ AreaHeight \in Nat /\ AreaHeight <= vertical_resolution - kTaskBarHeight
  /\ ConsoleArea = {PixelAt(<<x, y>>) : x \in 0 .. AreaWidth - 1, y \in 0 .. AreaHeight - 1}
  /\ ConsoleArea \subseteq Frame
<1>1. /\ AreaWidth \in Nat /\ AreaWidth <= horizontal_resolution
      /\ AreaHeight \in Nat /\ AreaHeight <= vertical_resolution - kTaskBarHeight
  <2>1. \A a, b \in Nat : a * b \in Nat
    OBVIOUS
  <2> QED
    BY <2>1, FrameIs DEF AreaWidth, AreaHeight
<1>5. ConsoleArea = {PixelAt(<<x, y>>) : x \in 0 .. AreaWidth - 1, y \in 0 .. AreaHeight - 1}
  <2>1. ConsoleArea = At(<<0, 0>>, Filled(<<AreaWidth, AreaHeight>>))
    BY DEF ConsoleArea, AreaWidth, AreaHeight
  <2>2. AreaWidth \in Int /\ AreaHeight \in Int
    BY <1>1
  <2> QED
    BY <2>1, <2>2, FilledIs
<1>6. ASSUME NEW x \in 0 .. AreaWidth - 1, NEW y \in 0 .. AreaHeight - 1
      PROVE  PixelAt(<<x, y>>) \in Frame
  <2>1. x \in 0 .. horizontal_resolution - 1 /\ y \in 0 .. vertical_resolution - 1
    BY <1>1, FrameIs
  <2> QED
    BY <2>1, PixelIs
<1>7. ConsoleArea \subseteq Frame
  <2>1. SUFFICES ASSUME NEW o \in ConsoleArea PROVE o \in Frame
    OBVIOUS
  <2>2. PICK x \in 0 .. AreaWidth - 1, y \in 0 .. AreaHeight - 1 : o = PixelAt(<<x, y>>)
    BY <1>5
  <2> QED
    BY <1>6, <2>2
<1> QED
  BY <1>1, <1>5, <1>7

(* A glyph stays in its cell.                                              *)
LEMMA GlyphInArea ==
  ASSUME NEW column \in Columns, NEW row \in Rows, NEW c
  PROVE  Glyph(column, row, c) \subseteq ConsoleArea
<1>1. SUFFICES ASSUME NEW d \in GetFont(c)
               PROVE  PixelAt(Plus(<<GlyphWidth * column, GlyphHeight * row>>, d)) \in ConsoleArea
  BY DEF Glyph, At
<1>2. d \in (0 .. GlyphWidth - 1) \X (0 .. GlyphHeight - 1)
  BY <1>1, TextAssumption DEF GetFont, Filled
<1>3. PICK i \in 0 .. GlyphWidth - 1, j \in 0 .. GlyphHeight - 1 : d = <<i, j>>
  BY <1>2
<1> DEFINE a == GlyphWidth * column
           b == GlyphHeight * row
<1>4. a \in Nat /\ b \in Nat /\ a + GlyphWidth <= AreaWidth /\ b + GlyphHeight <= AreaHeight
  <2>1. column \in Nat /\ column < kColumns /\ row \in Nat /\ row < kRows
    BY FrameIs DEF Columns, Rows
  <2> QED
    BY <2>1, FrameIs, Times DEF AreaWidth, AreaHeight
<1> HIDE DEF a, b
<1>5. Plus(<<a, b>>, d) = <<a + i, b + j>>
  BY <1>3 DEF Plus
<1>6. a + i \in 0 .. AreaWidth - 1 /\ b + j \in 0 .. AreaHeight - 1
  BY <1>4, AreaIs, FrameIs
<1>7. PixelAt(<<a + i, b + j>>) \in ConsoleArea
  BY <1>6, AreaIs
<1> QED
  BY <1>5, <1>7 DEF a, b

(* The desktop below the console: the task bar is drawn elsewhere.         *)
LEMMA BelowArea ==
  ASSUME NEW u \in 0 .. horizontal_resolution - 1,
         NEW v \in (vertical_resolution - kTaskBarHeight) .. (vertical_resolution - 1)
  PROVE  PixelAt(<<u, v>>) \in Frame \ ConsoleArea
<1>1. v \in 0 .. vertical_resolution - 1 /\ v \in Nat /\ AreaHeight <= v
  BY AreaIs, FrameIs
<1>2. ASSUME NEW x \in 0 .. AreaWidth - 1, NEW y \in 0 .. AreaHeight - 1
      PROVE  PixelAt(<<u, v>>) # PixelAt(<<x, y>>)
  <2>1. /\ x \in 0 .. horizontal_resolution - 1 /\ y \in 0 .. vertical_resolution - 1
        /\ y < v
    BY <1>1, AreaIs, FrameIs
  <2> QED
    BY <1>1, <2>1, LinesApart
<1>3. PixelAt(<<u, v>>) \notin ConsoleArea
  <2>1. SUFFICES ASSUME PixelAt(<<u, v>>) \in ConsoleArea PROVE FALSE
    OBVIOUS
  <2>2. PICK x \in 0 .. AreaWidth - 1, y \in 0 .. AreaHeight - 1 :
          PixelAt(<<u, v>>) = PixelAt(<<x, y>>)
    BY <2>1, AreaIs
  <2> QED
    BY <1>2, <2>2
<1> QED
  BY <1>1, <1>3, PixelIs

(* The first time and after every scroll: nothing but background there.    *)
LEMMA DeskIs ==
  /\ Desk.beyond = {}
  /\ \A o \in ConsoleArea : Desk.frame_buffer[o] = kDesktopBGColor
<1> DEFINE bar == kFrameHeight - kTaskBarHeight
           P0 == At(<<0, 0>>, Filled(<<kFrameWidth, bar>>))
           P1 == At(<<0, bar>>, Filled(<<kFrameWidth, kTaskBarHeight>>))
           P2 == At(<<0, bar>>, Filled(<<PanelWidth, kTaskBarHeight>>))
           P3 == At(Button.pos, Rim(Button.size))
<1>1. bar \in Nat /\ AreaHeight <= bar
      /\ PanelWidth \in 0 .. horizontal_resolution
  BY AreaIs, FrameIs, FrameAssumption DEF kFrameHeight, kFrameWidth
<1>2. P0 \subseteq Frame /\ ConsoleArea \subseteq P0
  <2>3. P0 = {PixelAt(<<x, y>>) : x \in 0 .. kFrameWidth - 1, y \in 0 .. bar - 1}
    <3>1. kFrameWidth \in Int /\ bar \in Int
      BY <1>1, FrameIs DEF kFrameWidth
    <3> HIDE DEF bar
    <3> QED
      BY <3>1, FilledIs
  <2>4. \A x \in 0 .. AreaWidth - 1 : x \in 0 .. kFrameWidth - 1
    BY AreaIs, FrameIs DEF kFrameWidth
  <2>5. \A y \in 0 .. AreaHeight - 1 : y \in 0 .. bar - 1
    BY <1>1, AreaIs
  <2>6. \A y \in 0 .. bar - 1 : y \in 0 .. vertical_resolution - 1
    BY <1>1, FrameIs DEF kFrameHeight
  <2> HIDE DEF P0
  <2>7. ASSUME NEW o \in ConsoleArea PROVE o \in P0
    <3>1. PICK x \in 0 .. AreaWidth - 1, y \in 0 .. AreaHeight - 1 : o = PixelAt(<<x, y>>)
      BY AreaIs
    <3> QED
      BY <2>3, <2>4, <2>5, <3>1
  <2>8. ASSUME NEW o \in P0 PROVE o \in Frame
    <3>1. PICK x \in 0 .. kFrameWidth - 1, y \in 0 .. bar - 1 : o = PixelAt(<<x, y>>)
      BY <2>3
    <3> QED
      BY <2>6, <3>1, PixelIs DEF kFrameWidth
  <2> QED
    BY <2>7, <2>8
<1>3. ASSUME NEW w \in 0 .. horizontal_resolution
      PROVE  At(<<0, bar>>, Filled(<<w, kTaskBarHeight>>)) \subseteq Frame \ ConsoleArea
  <2>1. SUFFICES ASSUME NEW d \in (0 .. w - 1) \X (0 .. kTaskBarHeight - 1)
                 PROVE  PixelAt(Plus(<<0, bar>>, d)) \in Frame \ ConsoleArea
    BY DEF At, Filled
  <2>2. PICK i \in 0 .. w - 1, j \in 0 .. kTaskBarHeight - 1 : d = <<i, j>>
    OBVIOUS
  <2>3. Plus(<<0, bar>>, d) = <<i, bar + j>>
    BY <1>1, <2>2, FrameIs DEF Plus
  <2>4. /\ i \in 0 .. horizontal_resolution - 1
        /\ bar + j \in (vertical_resolution - kTaskBarHeight) .. (vertical_resolution - 1)
    BY <1>1, <2>2, FrameIs DEF kFrameHeight
  <2> HIDE DEF bar
  <2> QED
    BY <2>3, <2>4, BelowArea
<1>4. P1 \subseteq Frame \ ConsoleArea /\ P2 \subseteq Frame \ ConsoleArea
  <2>1. horizontal_resolution \in 0 .. horizontal_resolution
    BY FrameIs
  <2> HIDE DEF bar
  <2> QED
    BY <1>1, <1>3, <2>1 DEF kFrameWidth
<1>5. P3 \subseteq Frame \ ConsoleArea
  <2> DEFINE a == Button.pos[1]
             b == Button.pos[2]
             w == Button.size[1]
             h == Button.size[2]
  <2>1. /\ a \in Nat /\ b \in Nat /\ w \in Nat \ {0} /\ h \in Nat \ {0}
        /\ a + w <= horizontal_resolution /\ b >= vertical_resolution - kTaskBarHeight
        /\ b + h <= vertical_resolution
    BY FrameAssumption DEF kFrameWidth, kFrameHeight
  <2>2. SUFFICES ASSUME NEW d \in Rim(Button.size)
                 PROVE  PixelAt(Plus(Button.pos, d)) \in Frame \ ConsoleArea
    BY DEF At
  <2>3. Plus(Button.pos, d) = <<a + d[1], b + d[2]>>
    BY DEF Plus
  <2>4. \/ d \in (0 .. w - 1) \X {0, h - 1}
        \/ d \in {0, w - 1} \X (1 .. h - 2)
    BY DEF Rim
  <2> HIDE DEF a, b, w, h
  <2>5. d[1] \in 0 .. w - 1 /\ d[2] \in 0 .. h - 1
    BY <2>1, <2>4
  <2>6. /\ a + d[1] \in 0 .. horizontal_resolution - 1
        /\ b + d[2] \in (vertical_resolution - kTaskBarHeight) .. (vertical_resolution - 1)
    BY <2>1, <2>5, FrameIs
  <2> QED
    BY <2>3, <2>6, BelowArea
<1> HIDE DEF P0, P1, P2, P3
<1> DEFINE D0 == [frame_buffer |-> [o \in Frame |-> "off"], beyond |-> {}]
           D1 == Paint(D0, P0, kDesktopBGColor)
           D2 == Paint(D1, P1, "bar")
           D3 == Paint(D2, P2, "panel")
           D4 == Paint(D3, P3, "button")
<1>6. Desk = D4
  BY DEF Desk, P0, P1, P2, P3
<1>7. D1.beyond = {} /\ D2.beyond = {} /\ D3.beyond = {} /\ D4.beyond = {}
  BY <1>2, <1>4, <1>5 DEF Paint
<1>8. ASSUME NEW o \in ConsoleArea PROVE D4.frame_buffer[o] = kDesktopBGColor
  <2>1. o \in Frame /\ o \in P0 /\ o \notin P1 /\ o \notin P2 /\ o \notin P3
    BY <1>2, <1>4, <1>5
  <2> QED
    BY <2>1 DEF Paint
<1> QED
  BY <1>6, <1>7, <1>8

-----------------------------------------------------------------------------
(* The console.                                                            *)

Characters == {NUL} \cup UNION {{s[i] : i \in DOMAIN s} : s \in Texts}
Buffer  == [Rows -> [0..kColumns -> Characters]]
Colours == {"off", "blue", "white", "black", "bar", "panel", "button"}
Canvas  == [frame_buffer : [Frame -> Colours], beyond : SUBSET Int]
Console == [buffer : Buffer, row : Rows, column : Columns, screen : Canvas,
            smeared : SUBSET Frame]

(* The text on the screen, and what else is to be seen.                    *)
Text(b) == UNION {WriteString(b[row], row) : row \in Rows}
Shown(b, o) == IF o \in Text(b) THEN kDesktopFGColor ELSE Desk.frame_buffer[o]

(* A line's bytes before the column are text, those behind it NUL; the     *)
(* lines below are empty, and no line has text in its last two bytes.      *)
ConsoleOK(con) ==
  /\ con \in Console /\ con.screen.beyond = {}
  /\ \A r \in Rows, i \in 0..kColumns :
       con.buffer[r][i] # NUL => r <= con.row /\ i < kColumns - 1
  /\ \A i \in 0..kColumns : con.buffer[con.row][i] # NUL <=> i < con.column

(* The screen is right at every pixel not covered.                         *)
RightOutside(con, covered) ==
  \A o \in Frame \ covered :
     \/ con.screen.frame_buffer[o] = Shown(con.buffer, o)
     \/ o \in con.smeared /\ con.screen.frame_buffer[o] = kDesktopBGColor

(* Painting pixels of the frame.                                           *)
LEMMA PaintIs ==
  ASSUME NEW screen \in Canvas, NEW pixels \in SUBSET Int, NEW colour \in Colours
  PROVE  LET new == Paint(screen, pixels, colour)
         IN  /\ new \in Canvas
             /\ pixels \subseteq Frame => new.beyond = screen.beyond
             /\ \A o \in Frame : new.frame_buffer[o] =
                  IF o \in pixels THEN colour ELSE screen.frame_buffer[o]
BY DEF Paint, Canvas

(* The desktop is a picture of the frame.                                  *)
LEMMA DeskIsCanvas == Desk \in Canvas
<1> DEFINE blank == [frame_buffer |-> [o \in Frame |-> "off"], beyond |-> {}]
<1>1. blank \in [frame_buffer : [Frame -> Colours], beyond : {{}}]
  BY DEF Colours
<1>2. {kDesktopBGColor, "bar", "panel", "button"} \subseteq Colours
  BY DEF Colours, kDesktopBGColor
<1>3. \A screen, pixels, colour :
        /\ screen.frame_buffer \in [Frame -> Colours] /\ colour \in Colours
        => Paint(screen, pixels, colour).frame_buffer \in [Frame -> Colours]
  BY DEF Paint
<1>4. Desk.frame_buffer \in [Frame -> Colours]
  <2> HIDE DEF blank
  <2>1. blank.frame_buffer \in [Frame -> Colours]
    BY <1>1
  <2> QED
    BY <1>2, <1>3, <2>1 DEF Desk, blank
<1>5. Desk = [frame_buffer |-> Desk.frame_buffer, beyond |-> Desk.beyond]
  BY DEF Desk, Paint
<1> QED
  BY <1>4, <1>5, DeskIs DEF Canvas

(* What is in the buffer is in the console's area, whatever it is.         *)
LEMMA TextInArea ==
  ASSUME NEW con, ConsoleOK(con)
  PROVE  Text(con.buffer) \subseteq ConsoleArea
<1>1. SUFFICES ASSUME NEW o \in Text(con.buffer) PROVE o \in ConsoleArea
  OBVIOUS
<1>2. PICK r \in Rows : o \in WriteString(con.buffer[r], r)
  BY <1>1 DEF Text
<1>3. PICK i \in 0..kColumns : /\ Before(con.buffer[r], i)
                               /\ o \in Glyph(i, r, con.buffer[r][i])
  BY <1>2 DEF WriteString
<1>4. i \in Columns
  <2>1. i \in 0..i
    OBVIOUS
  <2>2. con.buffer[r][i] # NUL
    BY <1>3, <2>1 DEF Before
  <2> QED
    BY <2>2, FrameIs DEF ConsoleOK, Columns
<1> QED
  BY <1>3, <1>4, GlyphInArea

(* Console::Newline, with room for another line or by scrolling.           *)
LEMMA NewlineKeeps ==
  ASSUME NEW con, ConsoleOK(con), NEW covered, RightOutside(con, covered)
  PROVE  ConsoleOK(Newline(con)) /\ RightOutside(Newline(con), covered)
<1> DEFINE home == [con EXCEPT !.column = 0]
           new == Newline(con)
<1>1. /\ con \in Console /\ 0 \in Columns /\ con.row \in Rows /\ con.row \in Nat
      /\ con.buffer \in Buffer /\ con.screen \in Canvas /\ con.smeared \in SUBSET Frame
      /\ con.screen.beyond = {}
  BY FrameIs DEF ConsoleOK, Console, Rows, Columns
<1>2. /\ home \in Console /\ home.buffer = con.buffer /\ home.row = con.row
      /\ home.column = 0 /\ home.screen = con.screen /\ home.smeared = con.smeared
  BY <1>1 DEF Console
<1>3. CASE con.row < kRows - 1
  <2>1. new = [home EXCEPT !.row = con.row + 1] /\ con.row + 1 \in Rows
    BY <1>1, <1>2, <1>3, FrameIs DEF Newline, Rows
  <2> HIDE DEF home, new
  <2>2. /\ new \in Console /\ new.buffer = con.buffer /\ new.row = con.row + 1
        /\ new.column = 0 /\ new.screen = con.screen /\ new.smeared = con.smeared
    BY <1>2, <2>1 DEF Console
  <2>3. \A r \in Rows, i \in 0..kColumns :
          con.buffer[r][i] # NUL => r <= con.row + 1 /\ i < kColumns - 1
    BY <1>1 DEF ConsoleOK, Rows
  <2>4. \A i \in 0..kColumns : con.buffer[con.row + 1][i] = NUL
    BY <1>1, <2>1 DEF ConsoleOK
  <2>5. ConsoleOK(new)
    BY <1>1, <2>2, <2>3, <2>4 DEF ConsoleOK
  <2>6. RightOutside(new, covered)
    BY <2>2 DEF RightOutside
  <2> QED
    BY <2>5, <2>6 DEF new
<1>4. CASE ~(con.row < kRows - 1)
  <2> DEFINE moved == [row \in 0 .. kRows - 1 |->
                         IF row < kRows - 1 THEN home.buffer[row + 1] ELSE BlankRow]
             text  == UNION {WriteString(moved[row], row) : row \in 0 .. kRows - 2}
             s1 == Paint(home.screen, ConsoleArea, kDesktopBGColor)
             s2 == Paint(s1, text, kDesktopFGColor)
  <2>1. new = [home EXCEPT !.buffer = moved, !.screen = s2, !.smeared = home.smeared \ ConsoleArea]
    BY <1>1, <1>2, <1>4 DEF Newline, Scroll, Console
  <2>2. con.row = kRows - 1
    BY <1>1, <1>4, FrameIs DEF Rows
  <2>3. moved \in Buffer
    <3>1. \A row \in 0 .. kRows - 1 : row < kRows - 1 => row + 1 \in Rows
      BY FrameIs DEF Rows
    <3>2. BlankRow \in [0..kColumns -> Characters]
      BY DEF BlankRow, Characters
    <3>3. \A r \in Rows : home.buffer[r] \in [0..kColumns -> Characters]
      BY <1>1, <1>2 DEF Buffer
    <3> QED
      BY <3>1, <3>2, <3>3 DEF Buffer, Rows
  <2>4. /\ \A r \in Rows : r < kRows - 1 => moved[r] = con.buffer[r + 1] /\ r + 1 \in Rows
        /\ moved[kRows - 1] = BlankRow /\ kRows - 1 \in Rows
    BY <1>2, FrameIs DEF Rows
  <2> HIDE DEF moved
  <2>5. \A r \in Rows, i \in 0..kColumns :
          moved[r][i] # NUL => r < kRows - 1 /\ i < kColumns - 1
    <3>1. SUFFICES ASSUME NEW r \in Rows, NEW i \in 0..kColumns, moved[r][i] # NUL
                   PROVE  r < kRows - 1 /\ i < kColumns - 1
      OBVIOUS
    <3>2. r < kRows - 1
      <4>1. SUFFICES ASSUME r = kRows - 1 PROVE FALSE
        BY FrameIs DEF Rows
      <4> QED
        BY <2>4, <3>1, <4>1 DEF BlankRow
    <3> QED
      BY <2>4, <3>1, <3>2 DEF ConsoleOK
  <2>6. text = Text(moved)
    <3>1. WriteString(moved[kRows - 1], kRows - 1) = {}
      <4>1. \A i \in 0..kColumns : 0 \in 0..i /\ 0 \in 0..kColumns
        BY FrameIs
      <4>2. \A i \in 0..kColumns : ~Before(BlankRow, i)
        BY <4>1 DEF Before, BlankRow
      <4> QED
        BY <2>4, <4>2 DEF WriteString
    <3>2. Rows = (0 .. kRows - 2) \cup {kRows - 1}
      BY FrameIs DEF Rows
    <3> QED
      BY <3>1, <3>2 DEF Text
  <2> HIDE DEF home, text, s1, s2, new
  <2>7. new \in [buffer : Buffer, row : Rows, column : Columns, screen : {s2}, smeared : SUBSET Frame]
        /\ new.buffer = moved /\ new.row = con.row /\ new.column = 0 /\ new.screen = s2
        /\ new.smeared = con.smeared \ ConsoleArea
    BY <1>1, <1>2, <2>1, <2>3 DEF Console
  <2>8. /\ \A o \in text : o \in ConsoleArea
        /\ ConsoleArea \subseteq Frame /\ Frame \subseteq Int
        /\ kDesktopBGColor \in Colours /\ kDesktopFGColor \in Colours
    <3>1. ASSUME NEW o \in text PROVE o \in ConsoleArea
      <4>1. PICK r \in Rows : o \in WriteString(moved[r], r)
        BY <2>6 DEF Text
      <4>2. PICK i \in 0..kColumns : Before(moved[r], i) /\ o \in Glyph(i, r, moved[r][i])
        BY <4>1 DEF WriteString
      <4>3. i \in 0..i
        OBVIOUS
      <4>4. i \in Columns
        BY <2>5, <4>2, <4>3, FrameIs DEF Before, Columns
      <4> QED
        BY <4>2, <4>4, GlyphInArea
    <3> QED
      BY <3>1, AreaIs DEF Frame, Colours, kDesktopBGColor, kDesktopFGColor
  <2>9. /\ s1 \in Canvas /\ s1.beyond = {}
        /\ \A o \in Frame : s1.frame_buffer[o] =
             IF o \in ConsoleArea THEN kDesktopBGColor ELSE con.screen.frame_buffer[o]
    <3>1. ConsoleArea \in SUBSET Int
      BY <2>8
    <3> QED
      BY <1>1, <1>2, <2>8, <3>1, PaintIs DEF s1
  <2>10. /\ s2 \in Canvas /\ s2.beyond = {}
         /\ \A o \in Frame : s2.frame_buffer[o] =
              IF o \in text THEN kDesktopFGColor ELSE s1.frame_buffer[o]
    <3>1. text \in SUBSET Int /\ text \subseteq Frame
      BY <2>8
    <3>2. /\ s2 \in Canvas
          /\ text \subseteq Frame => s2.beyond = s1.beyond
          /\ \A o \in Frame : s2.frame_buffer[o] =
               IF o \in text THEN kDesktopFGColor ELSE s1.frame_buffer[o]
      <4>1. kDesktopFGColor \in Colours /\ s1 \in Canvas
        BY <2>8, <2>9
      <4> QED
        BY <3>1, <4>1, PaintIs DEF s2
    <3> QED
      BY <2>9, <3>1, <3>2
  <2>11. ConsoleOK(new)
    <3>1. new \in Console
      BY <2>7, <2>10 DEF Console
    <3>2. \A r \in Rows, i \in 0..kColumns :
            moved[r][i] # NUL => r <= kRows - 1 /\ i < kColumns - 1
      BY <2>5, FrameIs DEF Rows
    <3>3. \A i \in 0..kColumns : moved[kRows - 1][i] = NUL /\ ~(i < 0)
      BY <2>4 DEF BlankRow
    <3> QED
      BY <2>2, <2>7, <2>10, <3>1, <3>2, <3>3 DEF ConsoleOK
  <2>12. RightOutside(new, covered)
    <3>1. SUFFICES ASSUME NEW o \in Frame \ covered
                   PROVE  \/ s2.frame_buffer[o] = Shown(moved, o)
                          \/ /\ o \in con.smeared \ ConsoleArea
                             /\ s2.frame_buffer[o] = kDesktopBGColor
      BY <2>7 DEF RightOutside
    <3>2. CASE o \in text
      BY <2>6, <2>10, <3>2 DEF Shown
    <3>3. CASE o \notin text /\ o \in ConsoleArea
      BY <2>6, <2>9, <2>10, <3>3, DeskIs DEF Shown
    <3>4. CASE o \notin text /\ o \notin ConsoleArea
      <4>1. s2.frame_buffer[o] = con.screen.frame_buffer[o]
        BY <2>9, <2>10, <3>4
      <4>2. o \notin Text(con.buffer)
        BY <3>4, TextInArea
      <4>3. \/ con.screen.frame_buffer[o] = Desk.frame_buffer[o]
            \/ o \in con.smeared /\ con.screen.frame_buffer[o] = kDesktopBGColor
        BY <4>2 DEF RightOutside, Shown
      <4> QED
        BY <2>6, <3>4, <4>1, <4>3 DEF Shown
    <3> QED
      BY <3>2, <3>3, <3>4
  <2> QED
    BY <2>11, <2>12 DEF new
<1> QED
  BY <1>3, <1>4

(* Where a line's text ends.                                               *)
LEMMA BeforeIs ==
  ASSUME NEW line, NEW column \in Int, \A i \in 0..kColumns : line[i] # NUL <=> i < column
  PROVE  \A i \in 0..kColumns : Before(line, i) <=> i < column
<1> TAKE i \in 0..kColumns
<1>1. ASSUME Before(line, i) PROVE i < column
  <2>1. i \in 0..i
    OBVIOUS
  <2> QED
    BY <1>1, <2>1 DEF Before
<1>2. ASSUME i < column PROVE Before(line, i)
  <2>1. \A j \in 0..i : j \in 0..kColumns /\ j < column
    BY <1>2, FrameIs
  <2> QED
    BY <2>1 DEF Before
<1> QED
  BY <1>1, <1>2

(* A line with one more character: the glyphs before it and its own.       *)
LEMMA LineIs ==
  ASSUME NEW row \in Rows, NEW line \in [0..kColumns -> Characters], NEW column \in Columns,
         \A i \in 0..kColumns : line[i] # NUL <=> i < column,
         NEW c \in Characters, c # NUL
  PROVE  LET new == [line EXCEPT ![column] = c]
         IN  /\ new \in [0..kColumns -> Characters] /\ new[column] = c
             /\ \A i \in 0..kColumns : /\ i # column => new[i] = line[i]
                                       /\ new[i] # NUL <=> i < column + 1
             /\ WriteString(new, row) = WriteString(line, row) \cup Glyph(column, row, c)
<1> DEFINE new == [line EXCEPT ![column] = c]
           A == {i \in 0..kColumns : Before(line, i)}
           B == {i \in 0..kColumns : Before(new, i)}
<1>1. column \in 0..kColumns /\ column \in Int /\ column + 1 \in Int
  BY FrameIs DEF Columns
<1>2. /\ new \in [0..kColumns -> Characters] /\ new[column] = c
      /\ \A i \in 0..kColumns : /\ i # column => new[i] = line[i]
                                /\ new[i] # NUL <=> i < column + 1
  BY <1>1
<1> HIDE DEF new
<1>3. A = {i \in 0..kColumns : i < column} /\ B = {i \in 0..kColumns : i < column + 1}
  <2>1. /\ \A i \in 0..kColumns : Before(line, i) <=> i < column
        /\ \A i \in 0..kColumns : Before(new, i) <=> i < column + 1
    BY <1>1, <1>2, BeforeIs
  <2> QED
    BY <2>1
<1>4. B = A \cup {column} /\ \A i \in A : i # column /\ i \in 0..kColumns
  BY <1>1, <1>3
<1>5. /\ WriteString(line, row) = UNION {Glyph(i, row, line[i]) : i \in A}
      /\ WriteString(new, row) = UNION {Glyph(i, row, new[i]) : i \in B}
  BY DEF WriteString
<1> HIDE DEF A, B
<1>6. UNION {Glyph(i, row, new[i]) : i \in B}
        = (UNION {Glyph(i, row, new[i]) : i \in A}) \cup Glyph(column, row, new[column])
  BY <1>4
<1>7. \A i \in A : new[i] = line[i]
  BY <1>2, <1>4
<1>8. UNION {Glyph(i, row, new[i]) : i \in A} = UNION {Glyph(i, row, line[i]) : i \in A}
  BY <1>7
<1> QED
  BY <1>2, <1>5, <1>6, <1>8 DEF new

(* One round of PutString's loop.                                          *)
LEMMA PutCharKeeps ==
  ASSUME NEW con, ConsoleOK(con), NEW covered, RightOutside(con, covered),
         NEW c \in Characters, c # NUL
  PROVE  ConsoleOK(PutChar(con, c)) /\ RightOutside(PutChar(con, c), covered)
<1>1. CASE c = "\n"
  <2>1. PutChar(con, c) = Newline(con)
    BY <1>1 DEF PutChar
  <2> QED
    BY <2>1, NewlineKeeps
<1>2. CASE c # "\n" /\ ~(con.column < kColumns - 1)
  <2>1. PutChar(con, c) = con
    BY <1>2 DEF PutChar
  <2> QED
    BY <2>1
<1>3. CASE c # "\n" /\ con.column < kColumns - 1
  <2> DEFINE new  == PutChar(con, c)
             b    == con.buffer
             row  == con.row
             col  == con.column
             line == [b[row] EXCEPT ![col] = c]
             s1   == WriteAscii(con.screen, col, row, c)
             G    == Glyph(col, row, c)
  <2>1. /\ con \in Console /\ row \in Rows /\ col \in Columns /\ b \in Buffer
        /\ con.screen \in Canvas /\ con.smeared \in SUBSET Frame
        /\ con.screen.beyond = {} /\ row \in Nat /\ col \in Nat
        /\ col < kColumns - 1 /\ col \in 0..kColumns
    BY <1>3, FrameIs DEF ConsoleOK, Console, Rows, Columns
  <2>2. /\ new \in [buffer : {[b EXCEPT ![row] = line]}, row : Rows, column : {col + 1},
                    screen : {s1}, smeared : SUBSET Frame]
        /\ new.buffer = [b EXCEPT ![row] = line]
        /\ new.row = row /\ new.column = col + 1 /\ new.screen = s1
        /\ new.smeared = con.smeared
    <3>1. new = [con EXCEPT !.screen = s1, !.buffer = [b EXCEPT ![row] = line],
                            !.column = col + 1]
      BY <1>3, <2>1 DEF PutChar, Console
    <3> HIDE DEF new, s1, line
    <3> QED
      BY <2>1, <3>1 DEF Console
  <2>3. /\ b[row] \in [0..kColumns -> Characters]
        /\ \A i \in 0..kColumns : b[row][i] # NUL <=> i < col
    BY <2>1 DEF ConsoleOK, Buffer
  <2>4. /\ line \in [0..kColumns -> Characters]
        /\ \A i \in 0..kColumns : line[i] # NUL <=> i < col + 1
        /\ WriteString(line, row) = WriteString(b[row], row) \cup G
    BY <2>1, <2>3, LineIs
  <2> HIDE DEF line
  <2> DEFINE B == [b EXCEPT ![row] = line]
  <2>5. /\ B \in Buffer /\ B[row] = line
        /\ \A r \in Rows : r # row => B[r] = b[r]
    BY <2>1, <2>4 DEF Buffer
  <2> HIDE DEF B
  <2>6. Text(B) = Text(b) \cup G
    <3>1. \A r \in Rows : /\ WriteString(b[r], r) \subseteq WriteString(B[r], r)
                          /\ WriteString(B[r], r) \subseteq WriteString(b[r], r) \cup G
      BY <2>4, <2>5
    <3>2. G \subseteq WriteString(B[row], row) /\ row \in Rows
      BY <2>1, <2>4, <2>5
    <3> HIDE DEF G
    <3> QED
      BY <3>1, <3>2 DEF Text
  <2>7. G \subseteq Frame /\ G \in SUBSET Int /\ kDesktopFGColor \in Colours
    <3>1. G \subseteq ConsoleArea
      BY <2>1, GlyphInArea
    <3> HIDE DEF G
    <3> QED
      BY <3>1, AreaIs DEF Frame, Colours, kDesktopFGColor
  <2>8. /\ s1 \in Canvas /\ s1.beyond = {}
        /\ \A o \in Frame : s1.frame_buffer[o] =
             IF o \in G THEN kDesktopFGColor ELSE con.screen.frame_buffer[o]
    <3>1. s1 = Paint(con.screen, G, kDesktopFGColor)
      BY DEF WriteAscii
    <3> HIDE DEF s1, G
    <3>2. /\ s1 \in Canvas
          /\ G \subseteq Frame => s1.beyond = con.screen.beyond
          /\ \A o \in Frame : s1.frame_buffer[o] =
               IF o \in G THEN kDesktopFGColor ELSE con.screen.frame_buffer[o]
      BY <2>1, <2>7, <3>1, PaintIs
    <3> QED
      BY <2>1, <2>7, <3>2
  <2> HIDE DEF s1, G, new
  <2>9. new.buffer = B
    BY <2>2 DEF B
  <2>10. ConsoleOK(new)
    <3>1. new \in Console
      <4>1. col + 1 \in Columns
        BY <2>1, FrameIs DEF Columns
      <4> QED
        BY <2>2, <2>5, <2>8, <4>1 DEF Console, B
    <3>2. ASSUME NEW r \in Rows, NEW i \in 0..kColumns, B[r][i] # NUL
          PROVE  r <= row /\ i < kColumns - 1
      <4>1. CASE r = row
        <5>1. i < col + 1
          BY <2>4, <2>5, <3>2, <4>1
        <5> QED
          BY <2>1, <4>1, <5>1, FrameIs
      <4>2. CASE r # row
        BY <2>5, <3>2, <4>2 DEF ConsoleOK
      <4> QED
        BY <4>1, <4>2
    <3>3. \A i \in 0..kColumns : B[row][i] # NUL <=> i < col + 1
      BY <2>4, <2>5
    <3>4. new.screen.beyond = {}
      BY <2>2, <2>8
    <3>5. new.row = row /\ new.column = col + 1
      BY <2>2
    <3> HIDE DEF row, col
    <3> QED
      BY <2>9, <3>1, <3>2, <3>3, <3>4, <3>5 DEF ConsoleOK
  <2>11. RightOutside(new, covered)
    <3>1. SUFFICES ASSUME NEW o \in Frame \ covered
                   PROVE  \/ s1.frame_buffer[o] = Shown(B, o)
                          \/ o \in con.smeared /\ s1.frame_buffer[o] = kDesktopBGColor
      BY <2>2, <2>9 DEF RightOutside
    <3>2. CASE o \in G
      BY <2>6, <2>8, <3>2 DEF Shown
    <3>3. CASE o \notin G
      <4>1. s1.frame_buffer[o] = con.screen.frame_buffer[o] /\ Shown(B, o) = Shown(b, o)
        BY <2>6, <2>8, <3>3 DEF Shown
      <4> QED
        BY <4>1 DEF RightOutside
    <3> QED
      BY <3>2, <3>3
  <2> QED
    BY <2>10, <2>11 DEF new
<1> QED
  BY <1>1, <1>2, <1>3

-----------------------------------------------------------------------------
(* The terminal the console is.                                            *)

Written(con) == [r \in 1 .. con.row + 1 |-> TextOf(con.buffer[r - 1])]

(* The text of the line that is being written.                             *)
LEMMA TextOfIs ==
  ASSUME NEW line, NEW column \in Columns,
         \A i \in 0..kColumns : line[i] # NUL <=> i < column
  PROVE  TextOf(line) = [i \in 1..column |-> line[i - 1]]
<1>1. column \in Int /\ column <= kColumns /\ kColumns \in Nat
  BY FrameIs DEF Columns
<1>2. \A i \in 0..kColumns : Before(line, i) <=> i < column
  BY <1>1, BeforeIs
<1>3. {j \in 1..kColumns : Before(line, j - 1)} = 1..column
  <2>1. \A j \in 1..kColumns : Before(line, j - 1) <=> j <= column
    BY <1>1, <1>2
  <2> QED
    BY <1>1, <2>1
<1> QED
  BY <1>3 DEF TextOf

(* What is written is as many lines as there are, as they are.             *)
LEMMA WrittenIs ==
  ASSUME NEW con, ConsoleOK(con)
  PROVE  LET k  == con.row + 1
             ls == Written(con)
         IN  /\ ls \in Seq({ls[r] : r \in 1..k}) /\ Len(ls) = k
             /\ \A r \in 1..k : ls[r] = TextOf(con.buffer[r - 1])
<1> DEFINE k == con.row + 1
           f == [r \in 1..k |-> TextOf(con.buffer[r - 1])]
           S == {f[r] : r \in 1..k}
<1>1. Written(con) = f
      /\ \A r \in 1..k : f[r] = TextOf(con.buffer[r - 1])
  BY DEF Written
<1>2. k \in Nat
  BY FrameIs DEF ConsoleOK, Console, Rows
<1>3. f \in Seq(S) /\ Len(f) = k
  <2>1. f \in [1..k -> S]
    OBVIOUS
  <2> HIDE DEF f, S, k
  <2> QED
    BY <1>2, <2>1
<1> HIDE DEF f
<1> QED
  BY <1>1, <1>3

(* A sequence with one more element.                                       *)
LEMMA OneMore ==
  ASSUME NEW k \in Nat, NEW S, NEW s \in Seq(S), Len(s) = k, NEW e,
         NEW V, NEW t \in [1 .. k + 1 -> V],
         \A i \in 1..k : t[i] = s[i], t[k + 1] = e
  PROVE  t = s \o <<e>>
<1> DEFINE T == S \cup {e}
           one == <<e>>
           u == s \o one
<1>1. s \in Seq(T) /\ one \in Seq(T) /\ Len(one) = 1 /\ one[1] = e
  <2>1. s \in Seq(T)
    BY SeqMonotonic
  <2> QED
    BY <2>1
<1> HIDE DEF T, one
<1>2. /\ u \in Seq(T) /\ Len(u) = k + 1
      /\ \A i \in 1 .. k + 1 : u[i] = IF i <= k THEN s[i] ELSE one[i - k]
  <2>1. /\ u \in Seq(T) /\ Len(u) = Len(s) + Len(one)
        /\ \A i \in 1 .. Len(s) + Len(one) : u[i] = IF i <= Len(s) THEN s[i] ELSE one[i - Len(s)]
    BY <1>1, ConcatProperties, Zenon
  <2> HIDE DEF u
  <2> QED
    BY <1>1, <2>1
<1> HIDE DEF u
<1>3. u \in [1 .. k + 1 -> T]
  BY <1>2, LenProperties
<1>4. \A i \in 1 .. k + 1 : t[i] = u[i]
  <2> TAKE i \in 1 .. k + 1
  <2>1. CASE i \in 1..k
    <3>1. i <= k /\ t[i] = s[i]
      BY <2>1
    <3>2. u[i] = s[i]
      BY <1>2, <3>1
    <3> QED
      BY <3>1, <3>2
  <2>2. CASE i = k + 1
    <3>1. (k + 1) - k = 1 /\ ~(k + 1 <= k)
      OBVIOUS
    <3>2. u[k + 1] = one[1]
      BY <1>2, <3>1
    <3> QED
      BY <1>1, <2>2, <3>2
  <2> QED
    BY <2>1, <2>2
<1> QED
  BY <1>3, <1>4 DEF u, one

(* One line more, or the first one gone.                                   *)
LEMMA NewlineIsLine ==
  ASSUME NEW con, ConsoleOK(con)
  PROVE  Written(Newline(con)) = Lines!PutLine(Written(con), "\n")
<1> DEFINE k  == con.row + 1
           ls == Written(con)
           home == [con EXCEPT !.column = 0]
           new == Newline(con)
<1>1. /\ con \in Console /\ k \in 1..kRows /\ k \in Nat /\ con.row = k - 1
      /\ home \in Console /\ home.buffer = con.buffer /\ home.row = con.row
  BY FrameIs DEF ConsoleOK, Console, Rows, Columns
<1>2. /\ ls \in Seq({ls[r] : r \in 1..k}) /\ Len(ls) = k
      /\ \A r \in 1..k : ls[r] = TextOf(con.buffer[r - 1])
  BY WrittenIs
<1>3. Lines!PutLine(ls, "\n") = (IF k = kRows THEN Tail(ls) ELSE ls) \o << <<>> >>
  BY <1>2 DEF Lines!PutLine
<1>4. CASE con.row < kRows - 1
  <2>1. new.buffer = con.buffer /\ new.row = k
    BY <1>1, <1>4 DEF Newline, Console
  <2>2. TextOf(con.buffer[k]) = <<>>
    <3>1. k \in Rows /\ 0 \in Columns
      BY <1>1, <1>4, FrameIs DEF Rows, Columns
    <3>2. \A i \in 0..kColumns : con.buffer[k][i] # NUL <=> i < 0
      BY <1>1, <3>1 DEF ConsoleOK
    <3>3. TextOf(con.buffer[k]) = [i \in 1..0 |-> con.buffer[k][i - 1]]
      BY <3>1, <3>2, TextOfIs
    <3> QED
      BY <3>3
  <2>3. Written(new) = [r \in 1 .. k + 1 |-> TextOf(con.buffer[r - 1])]
    BY <2>1 DEF Written
  <2> HIDE DEF ls, k, new, home
  <2>4. Written(new) = ls \o << <<>> >>
    <3> DEFINE S == {ls[r] : r \in 1..k}
               t == Written(new)
    <3>1. k \in Nat /\ ls \in Seq(S) /\ Len(ls) = k
      BY <1>1, <1>2
    <3>2. (k + 1) - 1 = k /\ k + 1 \in 1 .. k + 1
      BY <1>1
    <3> DEFINE V == {t[r] : r \in 1 .. k + 1}
    <3>3. t \in [1 .. k + 1 -> V] /\ t[k + 1] = <<>>
          /\ \A r \in 1..k : t[r] = ls[r]
      BY <1>1, <1>2, <2>2, <2>3, <3>2
    <3> DEFINE none == <<>>
    <3>4. t[k + 1] = none
      BY <3>3
    <3> HIDE DEF S, t, none, V
    <3>5. t = ls \o <<none>>
      BY <3>1, <3>3, <3>4, OneMore
    <3> QED
      BY <3>5 DEF t, none
  <2> QED
    BY <1>1, <1>3, <1>4, <2>4, FrameIs DEF new, ls
<1>5. CASE ~(con.row < kRows - 1)
  <2> DEFINE moved == [row \in 0 .. kRows - 1 |->
                         IF row < kRows - 1 THEN con.buffer[row + 1] ELSE BlankRow]
  <2>1. k = kRows
    BY <1>1, <1>5, FrameIs
  <2>2. new.buffer = moved /\ new.row = k - 1
    BY <1>1, <1>5 DEF Newline, Scroll, Console
  <2>3. /\ moved[k - 1] = BlankRow
        /\ \A r \in 1 .. k - 1 : moved[r - 1] = con.buffer[r]
    <3>1. k - 1 = kRows - 1 /\ kRows - 1 \in 0 .. kRows - 1 /\ ~(kRows - 1 < kRows - 1)
      BY <2>1, FrameIs
    <3>2. ASSUME NEW r \in 1 .. k - 1
          PROVE  r - 1 \in 0 .. kRows - 1 /\ r - 1 < kRows - 1 /\ (r - 1) + 1 = r
      BY <2>1, FrameIs
    <3> HIDE DEF k
    <3> QED
      BY <3>1, <3>2
  <2>4. TextOf(BlankRow) = <<>>
    <3>1. 0 \in Columns /\ \A i \in 0..kColumns : BlankRow[i] # NUL <=> i < 0
      BY FrameIs DEF Columns, BlankRow
    <3>2. TextOf(BlankRow) = [i \in 1..0 |-> BlankRow[i - 1]]
      BY <3>1, TextOfIs
    <3> QED
      BY <3>2
  <2> HIDE DEF moved
  <2>5. Written(new) = [r \in 1..k |-> TextOf(moved[r - 1])]
    BY <1>1, <2>2 DEF Written
  <2> HIDE DEF ls, k, new, home
  <2>6. \A r \in 1 .. k - 1 : TextOf(moved[r - 1]) = ls[r + 1]
    <3> TAKE r \in 1 .. k - 1
    <3>1. r + 1 \in 1..k /\ (r + 1) - 1 = r
      BY <1>1
    <3>2. ls[r + 1] = TextOf(con.buffer[r])
      BY <1>2, <3>1
    <3> QED
      BY <2>3, <3>2
  <2>7. Written(new) = Tail(ls) \o << <<>> >>
    <3> DEFINE S == {ls[r] : r \in 1..k}
               t == Written(new)
               m == k - 1
               V == {t[r] : r \in 1..k}
    <3>1. ls \in Seq(S) /\ m \in Nat /\ m + 1 = k /\ k \in 1..k
      BY <1>1, <1>2
    <3> HIDE DEF S
    <3>2. ls # <<>>
      BY <1>1, <1>2
    <3>3. /\ Tail(ls) \in Seq(S) /\ Len(Tail(ls)) = m
          /\ \A i \in 1..m : Tail(ls)[i] = ls[i + 1]
      BY <1>2, <3>1, <3>2, HeadTailProperties
    <3>4. t \in [1..k -> V] /\ t[k] = <<>>
          /\ \A r \in 1..m : t[r] = ls[r + 1]
      <4>1. t \in [1..k -> V] /\ \A r \in 1..k : t[r] = TextOf(moved[r - 1])
        BY <2>5
      <4>2. \A r \in 1..m : r \in 1..k
        BY <3>1
      <4> HIDE DEF t, V
      <4> QED
        BY <2>3, <2>4, <2>6, <3>1, <4>1, <4>2
    <3> DEFINE l == Tail(ls)
               none == <<>>
    <3>5. t[k] = none
      BY <3>4
    <3> HIDE DEF t, m, l, none, V
    <3>6. /\ m \in Nat /\ l \in Seq(S) /\ Len(l) = m
          /\ t \in [1 .. m + 1 -> V] /\ t[m + 1] = none
          /\ \A r \in 1..m : t[r] = l[r]
      BY <3>1, <3>3, <3>4, <3>5 DEF l
    <3>7. t = l \o <<none>>
      BY <3>6, OneMore
    <3> QED
      BY <3>7 DEF t, l, none
  <2> QED
    BY <1>3, <2>1, <2>7 DEF new, ls
<1> QED
  BY <1>4, <1>5

(* One character more in the last line, if it has room.                    *)
LEMMA PutCharIsLine ==
  ASSUME NEW con, ConsoleOK(con), NEW c \in Characters, c # NUL
  PROVE  Written(PutChar(con, c)) = Lines!PutLine(Written(con), c)
<1> DEFINE k   == con.row + 1
           ls  == Written(con)
           b   == con.buffer
           row == con.row
           col == con.column
           old == b[row]
<1>1. /\ con \in Console /\ k \in Nat /\ k >= 1 /\ row = k - 1 /\ row \in Rows
      /\ col \in Columns /\ col \in Nat /\ col <= kColumns - 1 /\ b \in Buffer
      /\ old \in [0..kColumns -> Characters]
      /\ \A i \in 0..kColumns : old[i] # NUL <=> i < col
  BY FrameIs DEF ConsoleOK, Console, Rows, Columns, Buffer
<1>2. /\ ls \in Seq({ls[r] : r \in 1..k}) /\ Len(ls) = k
      /\ \A r \in 1..k : ls[r] = TextOf(b[r - 1])
  BY WrittenIs
<1>3. /\ ls[k] = [i \in 1..col |-> old[i - 1]]
      /\ ls[k] \in Seq(Characters) /\ Len(ls[k]) = col
  <2>1. ls[k] = TextOf(old)
    <3>1. k \in 1..k /\ k - 1 = row
      BY <1>1
    <3> HIDE DEF ls, k
    <3> QED
      BY <1>2, <3>1
  <2>2. TextOf(old) = [i \in 1..col |-> old[i - 1]]
    <3> HIDE DEF old, col
    <3> QED
      BY <1>1, TextOfIs
  <2>3. \A i \in 1..col : i - 1 \in 0..kColumns
    BY <1>1, FrameIs
  <2>4. [i \in 1..col |-> old[i - 1]] \in [1..col -> Characters]
    BY <1>1, <2>3
  <2> HIDE DEF ls, k, col, old
  <2> QED
    BY <1>1, <2>1, <2>2, <2>4
<1>4. CASE c = "\n"
  BY <1>4, NewlineIsLine DEF PutChar
<1>5. CASE c # "\n" /\ ~(col < kColumns - 1)
  <2>1. PutChar(con, c) = con
    BY <1>5 DEF PutChar
  <2>2. Lines!PutLine(ls, c) = ls
    <3> HIDE DEF ls
    <3> QED
      BY <1>2, <1>3, <1>5 DEF Lines!PutLine
  <2> QED
    BY <2>1, <2>2
<1>6. CASE c # "\n" /\ col < kColumns - 1
  <2> DEFINE new  == PutChar(con, c)
             line == [old EXCEPT ![col] = c]
             B    == [b EXCEPT ![row] = line]
  <2>1. Lines!PutLine(ls, c) = [ls EXCEPT ![k] = Append(ls[k], c)]
    <3> HIDE DEF ls
    <3> QED
      BY <1>2, <1>3, <1>6 DEF Lines!PutLine
  <2>2. new.buffer = B /\ new.row = row
    BY <1>1, <1>6 DEF PutChar, Console
  <2>3. /\ line \in [0..kColumns -> Characters] /\ line[col] = c
        /\ \A i \in 0..kColumns : /\ i # col => line[i] = old[i]
                                  /\ line[i] # NUL <=> i < col + 1
    <3>1. /\ row \in Rows /\ col \in Columns /\ old \in [0..kColumns -> Characters]
          /\ \A i \in 0..kColumns : old[i] # NUL <=> i < col
      BY <1>1
    <3>2. col \in 0..kColumns /\ col \in Int
      BY <1>1, FrameIs
    <3> HIDE DEF old, row, col
    <3> QED
      BY <3>1, <3>2
  <2>4. TextOf(line) = Append(ls[k], c)
    <3> HIDE DEF line, ls, old
    <3>1. col + 1 \in Columns
      BY <1>1, <1>6, FrameIs DEF Columns
    <3>2. TextOf(line) = [i \in 1 .. col + 1 |-> line[i - 1]]
      BY <2>3, <3>1, TextOfIs
    <3>3. \A i \in 1..col : line[i - 1] = old[i - 1]
      <4> TAKE i \in 1..col
      <4>1. i - 1 \in 0..kColumns /\ i - 1 # col
        BY <1>1, FrameIs
      <4> QED
        BY <2>3, <4>1
    <3>4. line[(col + 1) - 1] = c
      BY <1>1, <2>3
    <3> HIDE DEF col, k
    <3>5. Append(ls[k], c) = [i \in 1 .. col + 1 |-> IF i <= col THEN old[i - 1] ELSE c]
      BY <1>1, <1>3
    <3>6. \A i \in 1 .. col + 1 : line[i - 1] = IF i <= col THEN old[i - 1] ELSE c
      BY <1>1, <3>3, <3>4
    <3> QED
      BY <3>2, <3>5, <3>6
  <2>5. /\ B[k - 1] = line
        /\ \A r \in 1..k : r # k => B[r - 1] = b[r - 1]
    BY <1>1 DEF Buffer
  <2> HIDE DEF line, B
  <2>6. Written(new) = [r \in 1..k |-> TextOf(B[r - 1])]
    BY <2>2 DEF Written
  <2> HIDE DEF new, ls, k, b, row, col
  <2>7. \A r \in 1..k : TextOf(B[r - 1]) = IF r = k THEN Append(ls[k], c) ELSE ls[r]
    BY <1>2, <2>4, <2>5
  <2>8. [ls EXCEPT ![k] = Append(ls[k], c)]
          = [r \in 1..k |-> IF r = k THEN Append(ls[k], c) ELSE ls[r]]
    <3> DEFINE S == {ls[r] : r \in 1..k}
    <3>1. ls \in Seq(S)
      BY <1>2
    <3> HIDE DEF S
    <3>2. ls \in [1..k -> S]
      BY <1>2, <3>1, LenProperties
    <3> QED
      BY <3>2
  <2> QED
    BY <2>1, <2>6, <2>7, <2>8 DEF new, ls
<1> QED
  BY <1>4, <1>5, <1>6

(* The console and the terminal's lines when i characters of s are put.    *)
Rounds(after, lines, con, n, s) ==
  /\ after[0] = con /\ after[n] = PutString(con, s)
  /\ lines[0] = Written(con)
  /\ lines[n] = Lines!FoldLeft(Lines!PutLine, Written(con), s)
  /\ \A i \in 1..n : /\ after[i] = PutChar(after[i - 1], s[i])
                     /\ lines[i] = Lines!PutLine(lines[i - 1], s[i])

(* Both loops run, one character after the other.                          *)
LEMMA RoundsAre ==
  ASSUME NEW con, ConsoleOK(con), NEW n \in Nat, NEW s, DOMAIN s = 1..n,
         \A i \in 1..n : s[i] \in Characters /\ s[i] # NUL
  PROVE  \E after, lines : Rounds(after, lines, con, n, s)
<1> DEFINE Con(f, m) == f = [S \in SUBSET (1..m) |->
                               IF S = {} THEN con
                               ELSE PutChar(f[S \ {Max(S)}], s[Max(S)])]
           Ter(f, m) == f = [S \in SUBSET (1..m) |->
                               IF S = {} THEN Written(con)
                               ELSE Lines!PutLine(f[S \ {Lines!Max(S)}], s[Lines!Max(S)])]
           OK(f, m) == \A S \in SUBSET (1..m) : ConsoleOK(f[S])
           iter  == CHOOSE f : Con(f, n)
           liter == CHOOSE f : Ter(f, n)
<1>1. PutString(con, s) = iter[1..n]
  BY DEF PutString, FoldLeft, MapThenFoldSet
<1>2. Lines!FoldLeft(Lines!PutLine, Written(con), s) = liter[1..n]
  BY DEF Lines!FoldLeft, Lines!MapThenFoldSet
<1>3. \A m \in 0..n : \E f : Con(f, m) /\ OK(f, m)
  <2> DEFINE Bad == {m \in 0..n : ~\E f : Con(f, m) /\ OK(f, m)}
  <2>1. SUFFICES ASSUME Bad # {} PROVE FALSE
    OBVIOUS
  <2>2. PICK m \in Bad : \A l \in Bad : m <= l
    <3>1. Bad \in SUBSET Nat
      OBVIOUS
    <3> HIDE DEF Bad
    <3> QED
      BY <2>1, <3>1, LeastIs
  <2>3. m # 0
    <3> DEFINE f == [S \in SUBSET (1..0) |-> con]
    <3>1. \A S \in SUBSET (1..0) : S = {}
      OBVIOUS
    <3>2. Con(f, 0) /\ OK(f, 0)
      BY <3>1
    <3> QED
      BY <3>2
  <2>4. m \in 1..n /\ m \in Nat /\ m - 1 \in 0..n /\ m - 1 \notin Bad
    <3>1. m \in 0..n
      OBVIOUS
    <3> HIDE DEF Bad
    <3> QED
      BY <2>2, <2>3, <3>1
  <2>5. PICK f : Con(f, m - 1) /\ OK(f, m - 1)
    BY <2>4
  <2> DEFINE g == [S \in SUBSET (1..m) |-> IF m \in S THEN PutChar(f[S \ {m}], s[m]) ELSE f[S]]
  <2>6. \A S \in SUBSET (1..(m - 1)) :
          /\ ConsoleOK(f[S])
          /\ f[S] = IF S = {} THEN con ELSE PutChar(f[S \ {Max(S)}], s[Max(S)])
    BY <2>5
  <2>7. \A S \in SUBSET (1..m) :
          /\ ConsoleOK(g[S])
          /\ g[S] = IF S = {} THEN con ELSE PutChar(g[S \ {Max(S)}], s[Max(S)])
    <3> SUFFICES ASSUME NEW S \in SUBSET (1..m)
                 PROVE  /\ ConsoleOK(g[S])
                        /\ g[S] = IF S = {} THEN con ELSE PutChar(g[S \ {Max(S)}], s[Max(S)])
      OBVIOUS
    <3>1. \A x \in 1..m : x # m => x \in 1..(m - 1)
      BY <2>4
    <3>2. CASE m \in S
      <4>1. Max(S) = m
        BY <2>4, <3>2, MaxIs
      <4>2. g[S] = PutChar(f[S \ {m}], s[m]) /\ g[S \ {m}] = f[S \ {m}]
        BY <3>2
      <4>3. S \ {m} \in SUBSET (1..(m - 1))
        BY <3>1
      <4> HIDE DEF g
      <4>4. ConsoleOK(f[S \ {m}])
        BY <2>6, <4>3
      <4>5. ConsoleOK(PutChar(f[S \ {m}], s[m]))
        <5>1. RightOutside(f[S \ {m}], Frame)
          BY DEF RightOutside
        <5> QED
          BY <2>4, <4>4, <5>1, PutCharKeeps
      <4> QED
        BY <3>2, <4>1, <4>2, <4>5
    <3>3. CASE m \notin S
      <4>1. S \in SUBSET (1..(m - 1)) /\ S \ {Max(S)} \in SUBSET (1..m) /\ m \notin S \ {Max(S)}
        BY <3>1, <3>3
      <4>2. g[S] = f[S] /\ g[S \ {Max(S)}] = f[S \ {Max(S)}]
        BY <3>3, <4>1
      <4> HIDE DEF g
      <4> QED
        BY <2>6, <4>1, <4>2
    <3> QED
      BY <3>2, <3>3
  <2>8. Con(g, m) /\ OK(g, m)
    <3>1. g = [S \in SUBSET (1..m) |-> g[S]]
      OBVIOUS
    <3> HIDE DEF g
    <3> QED
      BY <2>7, <3>1
  <2> QED
    BY <2>2, <2>8
<1>4. PICK f : Con(f, n) /\ OK(f, n)
  <2>1. n \in 0..n
    OBVIOUS
  <2> HIDE DEF Con, OK
  <2> QED
    BY <1>3, <2>1
<1>5. Con(iter, n)
  BY <1>4
<1>6. PICK h : Ter(h, n)
  <2> DEFINE g == [S \in SUBSET (1..n) |-> Written(f[S])]
  <2>1. ASSUME NEW S \in SUBSET (1..n), S # {}
        PROVE  g[S] = Lines!PutLine(g[S \ {Lines!Max(S)}], s[Lines!Max(S)])
    <3> DEFINE x == Max(S)
               T == S \ {x}
    <3>1. x \in S /\ Lines!Max(S) = x
      BY <2>1, MaxIs
    <3>2. T \in SUBSET (1..n)
      OBVIOUS
    <3>3. f[S] = PutChar(f[T], s[x]) /\ ConsoleOK(f[T])
      BY <1>4, <2>1, <3>2
    <3>4. g[S] = Written(f[S]) /\ g[T] = Written(f[T])
      BY <3>2
    <3>5. Written(PutChar(f[T], s[x])) = Lines!PutLine(Written(f[T]), s[x])
      <4>1. s[x] \in Characters /\ s[x] # NUL
        BY <3>1
      <4> HIDE DEF x, T
      <4> QED
        BY <3>3, <4>1, PutCharIsLine
    <3> HIDE DEF g, x
    <3> QED
      BY <3>1, <3>3, <3>4, <3>5
  <2>2. {} \in SUBSET (1..n) /\ f[{}] = con /\ g[{}] = Written(f[{}])
    BY <1>4
  <2>3. Ter(g, n)
    <3>1. g = [S \in SUBSET (1..n) |-> g[S]]
      OBVIOUS
    <3> HIDE DEF g
    <3> QED
      BY <2>1, <2>2, <3>1
  <2> HIDE DEF g
  <2> QED
    BY <2>3
<1>7. Ter(liter, n)
  BY <1>6
<1> HIDE DEF iter, liter
<1>8. \A S \in SUBSET (1..n) :
        /\ iter[S] = IF S = {} THEN con ELSE PutChar(iter[S \ {Max(S)}], s[Max(S)])
        /\ liter[S] = IF S = {} THEN Written(con)
                      ELSE Lines!PutLine(liter[S \ {Lines!Max(S)}], s[Lines!Max(S)])
  BY <1>5, <1>7
<1> DEFINE after == [i \in 0..n |-> iter[1..i]]
           lines == [i \in 0..n |-> liter[1..i]]
<1>9. after[0] = con /\ lines[0] = Written(con)
  <2>1. 1..0 = {} /\ {} \in SUBSET (1..n) /\ 0 \in 0..n
    OBVIOUS
  <2> QED
    BY <1>8, <2>1
<1>10. ASSUME NEW i \in 1..n
      PROVE  /\ after[i] = PutChar(after[i - 1], s[i])
             /\ lines[i] = Lines!PutLine(lines[i - 1], s[i])
  <2>1. /\ 1..i \in SUBSET (1..n) /\ 1..i # {}
        /\ Max(1..i) = i /\ Lines!Max(1..i) = i /\ (1..i) \ {i} = 1 .. (i - 1)
    BY UpTo
  <2>2. i \in 0..n /\ i - 1 \in 0..n
    OBVIOUS
  <2> QED
    BY <1>8, <2>1, <2>2
<1>11. after[n] = PutString(con, s) /\ lines[n] = Lines!FoldLeft(Lines!PutLine, Written(con), s)
  BY <1>1, <1>2
<1>12. Rounds(after, lines, con, n, s)
  <2> HIDE DEF after, lines
  <2> QED
    BY <1>9, <1>10, <1>11 DEF Rounds
<1> QED
  BY <1>12

(* PutString keeps the console right, and is what the terminal promises.   *)
LEMMA PutStringKeeps ==
  ASSUME NEW con, ConsoleOK(con), NEW covered, RightOutside(con, covered), NEW s \in Texts
  PROVE  /\ ConsoleOK(PutString(con, s)) /\ RightOutside(PutString(con, s), covered)
         /\ Written(PutString(con, s)) = Lines!FoldLeft(Lines!PutLine, Written(con), s)
<1>1. \E n \in Nat : DOMAIN s = 1..n /\ \A i \in 1..n : s[i] \in Characters /\ s[i] # NUL
  <2> DEFINE T == {s[i] : i \in DOMAIN s} \ {NUL}
  <2>1. s \in Seq(T)
    BY TextAssumption
  <2>2. T \subseteq Characters \ {NUL}
    BY DEF Characters
  <2> HIDE DEF T
  <2>3. DOMAIN s = 1..Len(s) /\ Len(s) \in Nat /\ \A i \in 1..Len(s) : s[i] \in T
    BY <2>1
  <2> QED
    BY <2>2, <2>3
<1>2. PICK n \in Nat : DOMAIN s = 1..n /\ \A i \in 1..n : s[i] \in Characters /\ s[i] # NUL
  BY <1>1
<1>3. PICK after, lines : Rounds(after, lines, con, n, s)
  BY <1>2, RoundsAre
<1> DEFINE Good(i) == /\ ConsoleOK(after[i]) /\ RightOutside(after[i], covered)
                      /\ lines[i] = Written(after[i])
           Bad == {i \in 0..n : ~Good(i)}
<1>4. ASSUME NEW i \in 1..n, Good(i - 1) PROVE Good(i)
  BY <1>2, <1>3, <1>4, PutCharKeeps, PutCharIsLine DEF Rounds
<1>5. Good(0)
  BY <1>3 DEF Rounds
<1>6. ASSUME Bad # {} PROVE FALSE
  <2> HIDE DEF Good
  <2>1. PICK i \in Bad : \A l \in Bad : i <= l
    <3>1. Bad \in SUBSET Nat
      OBVIOUS
    <3> HIDE DEF Bad
    <3> QED
      BY <1>6, <3>1, LeastIs
  <2>2. i \in 1..n
    BY <1>5
  <2>3. i - 1 \in 0..n /\ i - 1 \notin Bad
    BY <2>1, <2>2
  <2> QED
    BY <1>4, <2>2, <2>3
<1>7. Good(n)
  BY <1>6
<1> QED
  BY <1>3, <1>7 DEF Rounds

-----------------------------------------------------------------------------
(* The cursor.                                                             *)

(* A cursor's pixels: those of its two colours.                            *)
LEMMA CursorIs ==
  ASSUME NEW p \in Int \X Int
  PROVE  /\ At(p, Shape) \in SUBSET Int
         /\ At(p, Shape) = At(p, CursorBlack) \cup At(p, CursorWhite)
<1>1. ASSUME NEW d \in Shape PROVE PixelAt(Plus(p, d)) \in Int
  <2>1. d[1] \in Int /\ d[2] \in Int /\ p[1] \in Int /\ p[2] \in Int
    BY FrameAssumption
  <2>2. Plus(p, d)[1] \in Int /\ Plus(p, d)[2] \in Int
    BY <2>1 DEF Plus
  <2> DEFINE x == Plus(p, d)[1]
             y == Plus(p, d)[2]
             o == pixels_per_scan_line * y + x
  <2>3. pixels_per_scan_line * y \in Int
    BY <2>2, FrameIs
  <2>4. o \in Int
    BY <2>2, <2>3
  <2>5. 2^30 \in Nat \ {0}
    OBVIOUS
  <2> HIDE DEF o
  <2>6. o % 2^30 \in Int
    BY <2>4, <2>5
  <2> QED
    BY <2>6 DEF PixelAt, o
<1> QED
  BY <1>1 DEF At, Shape

(* Drawing it leaves the other pixels alone.                               *)
LEMMA DrawIs ==
  ASSUME NEW screen \in Canvas, NEW p \in Int \X Int
  PROVE  LET new == DrawMouseCursor(screen, p)
         IN  /\ new \in Canvas
             /\ At(p, Shape) \subseteq Frame => new.beyond = screen.beyond
             /\ \A o \in Frame \ At(p, Shape) :
                  new.frame_buffer[o] = screen.frame_buffer[o]
<1> DEFINE black == At(p, CursorBlack)
           white == At(p, CursorWhite)
           s1    == Paint(screen, black, "black")
           s2    == Paint(s1, white, "white")
<1>1. /\ black \in SUBSET Int /\ white \in SUBSET Int /\ At(p, Shape) = black \cup white
      /\ "black" \in Colours /\ "white" \in Colours
  BY CursorIs DEF Colours
<1>2. DrawMouseCursor(screen, p) = s2
  BY DEF DrawMouseCursor
<1> HIDE DEF black, white
<1>3. /\ s1 \in Canvas /\ (black \subseteq Frame => s1.beyond = screen.beyond)
      /\ \A o \in Frame \ black : s1.frame_buffer[o] = screen.frame_buffer[o]
  <2> HIDE DEF s1
  <2> QED
    BY <1>1, PaintIs DEF s1
<1> HIDE DEF s1
<1>4. /\ s2 \in Canvas /\ (white \subseteq Frame => s2.beyond = s1.beyond)
      /\ \A o \in Frame \ white : s2.frame_buffer[o] = s1.frame_buffer[o]
  <2> HIDE DEF s2
  <2> QED
    BY <1>1, <1>3, PaintIs DEF s2
<1> HIDE DEF s2
<1> QED
  BY <1>1, <1>2, <1>3, <1>4

(* Erasing it leaves the desktop's colour.                                 *)
LEMMA EraseIs ==
  ASSUME NEW screen \in Canvas, NEW p \in Int \X Int
  PROVE  LET new == EraseMouseCursor(screen, p)
         IN  /\ new \in Canvas
             /\ At(p, Shape) \subseteq Frame => new.beyond = screen.beyond
             /\ \A o \in Frame : new.frame_buffer[o] =
                  IF o \in At(p, Shape) THEN kDesktopBGColor ELSE screen.frame_buffer[o]
<1>1. At(p, Shape) \in SUBSET Int /\ kDesktopBGColor \in Colours
  BY CursorIs DEF Colours, kDesktopBGColor
<1> QED
  BY <1>1, PaintIs DEF EraseMouseCursor

(* A cursor that is on the screen writes to the frame only.                *)
LEMMA OnScreenIs ==
  ASSUME NEW p, OnScreen(p)
  PROVE  At(p, Shape) \subseteq Frame
<1>1. ASSUME NEW d \in Shape PROVE PixelAt(Plus(p, d)) \in Frame
  <2>1. /\ Plus(p, d)[1] \in 0 .. horizontal_resolution - 1
        /\ Plus(p, d)[2] \in 0 .. vertical_resolution - 1
    BY DEF OnScreen, kFrameWidth, kFrameHeight
  <2>2. Plus(p, d) = <<Plus(p, d)[1], Plus(p, d)[2]>>
    BY DEF Plus
  <2> QED
    BY <2>1, <2>2, PixelIs
<1> QED
  BY <1>1 DEF At

-----------------------------------------------------------------------------
(* The whole screen.                                                       *)

Con == [buffer |-> buffer, row |-> cursor_row, column |-> cursor_column,
        screen |-> Screen, smeared |-> smeared]

(* The inductive invariant.                                                *)
DesktopInv ==
  /\ position \in Int \X Int
  /\ ConsoleOK(Con)
  /\ RightOutside(Con, At(position, Shape))

(* What KernelMain leaves.                                                 *)
LEMMA InitRight == Init => DesktopInv
<1> SUFFICES ASSUME Init PROVE DesktopInv
  OBVIOUS
<1> DEFINE drawn == DrawMouseCursor(Desk, Start)
<1>1. Start \in Int \X Int /\ position = Start
  BY FrameAssumption DEF Init
<1>2. Desk \in Canvas
  BY DeskIsCanvas
<1>3. /\ drawn \in Canvas
      /\ \A o \in Frame \ At(Start, Shape) : drawn.frame_buffer[o] = Desk.frame_buffer[o]
  BY <1>1, <1>2, DrawIs
<1>4. /\ buffer = [row \in Rows |-> BlankRow] /\ cursor_row = 0 /\ cursor_column = 0
      /\ frame_buffer = drawn.frame_buffer /\ smeared = {}
  BY DEF Init, Rows
<1> HIDE DEF drawn
<1>5. BlankRow \in [0..kColumns -> Characters] /\ \A i \in 0..kColumns : BlankRow[i] = NUL
  BY DEF BlankRow, Characters
<1>6. buffer \in Buffer /\ 0 \in Rows /\ 0 \in Columns /\ \A r \in Rows : buffer[r] = BlankRow
  BY <1>4, <1>5, FrameIs DEF Buffer, Rows, Columns
<1>7. Con \in Console /\ Con.screen.beyond = {}
  <2>1. Screen \in Canvas
    BY <1>3, <1>4 DEF Screen, Canvas
  <2> QED
    BY <1>4, <1>6, <2>1 DEF Con, Console, Screen
<1>8. ConsoleOK(Con)
  <2>1. Con.buffer = buffer /\ Con.row = 0 /\ Con.column = 0
    BY <1>4 DEF Con
  <2>2. \A r \in Rows, i \in 0..kColumns : buffer[r][i] = NUL
    BY <1>5, <1>6
  <2>3. \A i \in 0..kColumns : ~(i < 0)
    OBVIOUS
  <2> QED
    BY <1>6, <1>7, <2>1, <2>2, <2>3 DEF ConsoleOK
<1>9. Text(buffer) = {}
  <2>1. \A i \in 0..kColumns : 0 \in 0..i /\ 0 \in 0..kColumns
    BY FrameIs
  <2>2. \A i \in 0..kColumns : ~Before(BlankRow, i)
    BY <1>5, <2>1 DEF Before
  <2>3. \A r \in Rows : WriteString(buffer[r], r) = {}
    BY <1>6, <2>2 DEF WriteString
  <2> QED
    BY <2>3 DEF Text
<1>10. RightOutside(Con, At(position, Shape))
  BY <1>1, <1>3, <1>4, <1>9 DEF RightOutside, Con, Screen, Shown
<1> QED
  BY <1>1, <1>8, <1>10 DEF DesktopInv

(* Logging: the cursor stays where it is, but may be written over.         *)
LEMMA LogKeeps ==
  ASSUME DesktopInv, NEW s \in Texts, Log(s)
  PROVE  /\ DesktopInv' /\ beyond' = {}
         /\ Written(Con') = Lines!FoldLeft(Lines!PutLine, Written(Con), s)
<1> DEFINE con == PutString(Con, s)
<1>1. /\ ConsoleOK(con) /\ RightOutside(con, At(position, Shape))
      /\ Written(con) = Lines!FoldLeft(Lines!PutLine, Written(Con), s)
  BY PutStringKeeps DEF DesktopInv
<1>2. /\ buffer' = con.buffer /\ cursor_row' = con.row /\ cursor_column' = con.column
      /\ smeared' = con.smeared /\ frame_buffer' = con.screen.frame_buffer
      /\ beyond' = con.screen.beyond /\ position' = position
  BY DEF Log, Con, Show
<1> HIDE DEF con
<1>3. con \in Console /\ con.screen \in Canvas /\ con.screen.beyond = {}
  BY <1>1 DEF ConsoleOK, Console
<1>4. Con' = con
  <2>1. con.screen = [frame_buffer |-> con.screen.frame_buffer, beyond |-> {}]
    BY <1>3 DEF Canvas
  <2>2. con = [buffer |-> con.buffer, row |-> con.row, column |-> con.column,
               screen |-> con.screen, smeared |-> con.smeared]
    BY <1>3 DEF Console
  <2>3. Screen' = con.screen
    BY <1>2, <2>1 DEF Screen
  <2> QED
    BY <1>2, <2>2, <2>3 DEF Con
<1>5. At(position, Shape)' = At(position, Shape)
  BY <1>2 DEF At, Shape
<1>6. ConsoleOK(Con)'
  BY <1>1, <1>4 DEF ConsoleOK
<1>7. RightOutside(Con, At(position, Shape))'
  BY <1>1, <1>4, <1>5 DEF RightOutside
<1>8. Written(Con') = Lines!FoldLeft(Lines!PutLine, Written(Con), s)
  BY <1>1, <1>4
<1> QED
  BY <1>2, <1>3, <1>6, <1>7, <1>8 DEF DesktopInv

(* Moving the cursor: the pixels it leaves are smeared.                    *)
LEMMA MoveKeeps ==
  ASSUME DesktopInv, NEW d \in Displacements, MoveRelative(d)
  PROVE  DesktopInv' /\ (OnScreen(position) /\ OnScreen(position)' => beyond' = {})
<1> DEFINE erased == EraseMouseCursor(Screen, position)
           drawn  == DrawMouseCursor(erased, position')
<1>1. /\ position \in Int \X Int /\ position' \in Int \X Int
      /\ Con \in Console /\ Screen \in Canvas
  <2>1. d \in Int \X Int /\ position \in Int \X Int
    BY FrameAssumption DEF DesktopInv
  <2>2. position' \in Int \X Int
    BY <2>1 DEF MoveRelative, Plus
  <2> QED
    BY <2>1, <2>2 DEF DesktopInv, ConsoleOK, Console, Con
<1>2. /\ erased \in Canvas
      /\ At(position, Shape) \subseteq Frame => erased.beyond = {}
      /\ \A o \in Frame : erased.frame_buffer[o] =
           IF o \in At(position, Shape) THEN kDesktopBGColor ELSE frame_buffer[o]
  <2>1. Screen.beyond = {} /\ Screen.frame_buffer = frame_buffer
    BY DEF Screen
  <2> QED
    BY <1>1, <2>1, EraseIs
<1>3. /\ drawn \in Canvas
      /\ At(position', Shape) \subseteq Frame => drawn.beyond = erased.beyond
      /\ \A o \in Frame \ At(position', Shape) :
           drawn.frame_buffer[o] = erased.frame_buffer[o]
  <2> HIDE DEF erased
  <2> QED
    BY <1>1, <1>2, DrawIs
<1>4. /\ frame_buffer' = drawn.frame_buffer /\ beyond' = drawn.beyond
      /\ smeared' = smeared \cup (At(position, Shape) \cap Frame)
      /\ buffer' = buffer /\ cursor_row' = cursor_row /\ cursor_column' = cursor_column
  BY DEF MoveRelative, Show, consoleVars
<1> HIDE DEF erased, drawn
<1>5. /\ Con' \in Console /\ Con.buffer' = buffer /\ Con.row' = Con.row
      /\ Con.column' = Con.column /\ Con.screen.beyond' = {}
      /\ Con.buffer = buffer /\ Con.smeared = smeared /\ Con.smeared' = smeared'
      /\ Con.screen.frame_buffer = frame_buffer
      /\ Con.screen.frame_buffer' = frame_buffer'
  <2>1. Screen' \in Canvas
    BY <1>3, <1>4 DEF Screen, Canvas
  <2>2. smeared' \in SUBSET Frame /\ buffer \in Buffer /\ cursor_row \in Rows
        /\ cursor_column \in Columns
    BY <1>1, <1>4 DEF Con, Console
  <2> QED
    BY <1>4, <2>1, <2>2 DEF Con, Console, Screen
<1>6. ConsoleOK(Con)'
  BY <1>5 DEF ConsoleOK, DesktopInv
<1>7. At(position, Shape)' = At(position', Shape)
  BY DEF At, Shape
<1>8. ASSUME NEW o \in Frame \ At(position', Shape)
      PROVE  \/ frame_buffer'[o] = Shown(buffer, o)
             \/ o \in smeared' /\ frame_buffer'[o] = kDesktopBGColor
  <2>1. frame_buffer'[o] = erased.frame_buffer[o]
    BY <1>3, <1>4
  <2>2. CASE o \in At(position, Shape)
    BY <1>2, <1>4, <2>1, <2>2
  <2>3. CASE o \notin At(position, Shape)
    <3>1. frame_buffer'[o] = frame_buffer[o]
      BY <1>2, <2>1, <2>3
    <3>2. \/ frame_buffer[o] = Shown(buffer, o)
          \/ o \in smeared /\ frame_buffer[o] = kDesktopBGColor
      BY <1>5, <2>3 DEF DesktopInv, RightOutside
    <3> QED
      BY <1>4, <3>1, <3>2
  <2> QED
    BY <2>2, <2>3
<1>9. RightOutside(Con, At(position, Shape))'
  BY <1>5, <1>7, <1>8 DEF RightOutside
<1>10. ASSUME OnScreen(position), OnScreen(position)' PROVE beyond' = {}
  <2>1. OnScreen(position')
    BY <1>10 DEF OnScreen
  <2> QED
    BY <1>2, <1>3, <1>4, <1>10, <2>1, OnScreenIs
<1> QED
  BY <1>1, <1>6, <1>9, <1>10 DEF DesktopInv

(* Every step keeps the invariant.                                         *)
LEMMA StepKeeps == DesktopInv /\ [Next]_vars => DesktopInv'
<1> SUFFICES ASSUME DesktopInv, [Next]_vars PROVE DesktopInv'
  OBVIOUS
<1>1. CASE UNCHANGED vars
  BY <1>1 DEF DesktopInv, vars, consoleVars, ConsoleOK, RightOutside, Con, Screen, At, Shape
<1>2. ASSUME NEW s \in Texts, Log(s) PROVE DesktopInv'
  BY <1>2, LogKeeps
<1>3. ASSUME NEW d \in Displacements, MoveRelative(d) PROVE DesktopInv'
  BY <1>3, MoveKeeps
<1> QED
  BY <1>1, <1>2, <1>3 DEF Next

(* The screen shows the desktop with the console's text on it, but for the *)
(* cursor and where it was since the console was last painted (Console,    *)
(* Newline's memcpy and WriteString, MouseCursor::MoveRelative).           *)
THEOREM ScreenStaysTrue == Spec => []ScreenIsTrue
<1>1. DesktopInv => ScreenIsTrue
  <2> SUFFICES ASSUME DesktopInv, NEW o \in Frame \ At(position, Shape)
               PROVE  \/ frame_buffer[o] = Ideal(o)
                      \/ o \in smeared /\ frame_buffer[o] = kDesktopBGColor
    BY DEF ScreenIsTrue
  <2>1. Ideal(o) = Shown(buffer, o)
    BY DEF Ideal, TextPixels, Shown, Text, Rows
  <2>2. /\ Con.buffer = buffer /\ Con.smeared = smeared
        /\ Con.screen.frame_buffer = frame_buffer
    BY DEF Con, Screen
  <2> QED
    BY <2>1, <2>2 DEF DesktopInv, RightOutside
<1> QED
  BY <1>1, InitRight, StepKeeps, PTL DEF Spec

(* Nothing but a cursor off the screen writes outside the frame buffer:    *)
(* text never does, wherever the cursor is, nor a cursor that is all on    *)
(* the screen before and after it moves (PixelAt).                         *)
THEOREM OnlyCursorWritesOutside == Spec => OnlyCursorLeaves
<1>1. DesktopInv /\ [Next]_vars
        => [\/ \E s \in Texts : Log(s)
            \/ OnScreen(position) /\ OnScreen(position')
            => beyond' = {}]_vars
  <2> SUFFICES ASSUME DesktopInv, Next,
                      \/ \E s \in Texts : Log(s)
                      \/ OnScreen(position) /\ OnScreen(position')
               PROVE  beyond' = {}
    OBVIOUS
  <2>1. ASSUME NEW s \in Texts, Log(s) PROVE beyond' = {}
    BY <2>1, LogKeeps
  <2>2. ASSUME NEW d \in Displacements, MoveRelative(d),
               OnScreen(position), OnScreen(position')
        PROVE  beyond' = {}
    <3>1. OnScreen(position)'
      BY <2>2 DEF OnScreen
    <3> QED
      BY <2>2, <3>1, MoveKeeps
  <2> QED
    BY <2>1, <2>2 DEF Next
<1> QED
  BY <1>1, InitRight, StepKeeps, PTL DEF Spec, OnlyCursorLeaves

(* The lines that the refinement maps the console to: those written.       *)
OnConsole == SubSeq([row \in 1..kRows |-> TextOf(buffer[row - 1])], 1, cursor_row + 1)

(* They are all the lines, as they are.                                    *)
LEMMA OnConsoleIs == DesktopInv => OnConsole = Written(Con)
<1> SUFFICES ASSUME DesktopInv PROVE OnConsole = Written(Con)
  OBVIOUS
<1> DEFINE k == cursor_row + 1
           f == [row \in 1..kRows |-> TextOf(buffer[row - 1])]
           S == {f[row] : row \in 1..kRows}
           u == SubSeq(f, 1, k)
           w == Written(Con)
<1>1. /\ k \in 1..kRows /\ k \in Int
      /\ Con.row = cursor_row /\ Con.buffer = buffer /\ ConsoleOK(Con)
  BY FrameIs DEF DesktopInv, ConsoleOK, Console, Rows, Con
<1>2. \A i \in 1..k : i \in 1..kRows /\ 1 + i - 1 = i
  BY <1>1, FrameIs
<1>3. \A i \in 1..k : f[i] \in S /\ f[i] = TextOf(buffer[i - 1])
  BY <1>2
<1>4. OnConsole = u
  BY DEF OnConsole
<1>5. w \in [1..k -> {w[r] : r \in 1..k}] /\ \A r \in 1..k : w[r] = TextOf(buffer[r - 1])
  BY <1>1 DEF Written
<1> HIDE DEF f, S, w, k
<1>6. u \in Seq(S) /\ Len(u) = k /\ \A i \in 1..k : u[i] = f[i]
  <2>1. /\ u \in Seq(S) /\ Len(u) = IF 1 <= k THEN k - 1 + 1 ELSE 0
        /\ \A i \in 1 .. k - 1 + 1 : u[i] = f[1 + i - 1]
    BY <1>1, <1>3, SubSeqProperties
  <2> HIDE DEF u
  <2> QED
    BY <1>1, <1>2, <2>1, FrameIs
<1> HIDE DEF u
<1>7. u \in [1..k -> S]
  BY <1>6, LenProperties
<1>8. u = w
  BY <1>3, <1>5, <1>6, <1>7
<1> QED
  BY <1>4, <1>8 DEF w

(* The console is the terminal it promises to be: after any texts it holds *)
(* their last lines, each cut at its width (Console::PutString, Newline).  *)
THEOREM ConsoleImplementsTerminal == Spec => ConsoleIsTerminal
<1>1. Init => Lines!Init
  <2> SUFFICES ASSUME Init PROVE Lines!Init
    OBVIOUS
  <2>1. OnConsole = Written(Con)
    BY InitRight, OnConsoleIs
  <2>2. /\ Con.row = 0 /\ Con.buffer[0] = BlankRow
    BY FrameIs DEF Init, Con
  <2>3. TextOf(BlankRow) = <<>>
    <3>1. 0 \in Columns /\ \A i \in 0..kColumns : BlankRow[i] # NUL <=> i < 0
      BY FrameIs DEF Columns, BlankRow
    <3>2. TextOf(BlankRow) = [i \in 1..0 |-> BlankRow[i - 1]]
      BY <3>1, TextOfIs
    <3> QED
      BY <3>2
  <2>4. Written(Con) = [r \in 1..1 |-> <<>>]
    <3>1. 0 + 1 = 1 /\ \A r \in 1..1 : r - 1 = 0
      OBVIOUS
    <3> QED
      BY <2>2, <2>3, <3>1 DEF Written
  <2>5. [r \in 1..1 |-> <<>>] = << <<>> >>
    OBVIOUS
  <2> QED
    BY <2>1, <2>4, <2>5 DEF Lines!Init, OnConsole
<1>2. DesktopInv /\ DesktopInv' /\ [Next]_vars
        => [Lines!Next]_(SubSeq([row \in 1..kRows |-> TextOf(buffer[row - 1])],
                                1, cursor_row + 1))
  <2> SUFFICES ASSUME DesktopInv, DesktopInv', [Next]_vars
               PROVE  Lines!Next \/ OnConsole' = OnConsole
    BY DEF OnConsole
  <2>1. OnConsole = Written(Con) /\ OnConsole' = Written(Con')
    <3>1. (DesktopInv => OnConsole = Written(Con))'
      BY OnConsoleIs, PTL
    <3>2. Written(Con)' = Written(Con')
      BY DEF Written
    <3> QED
      BY <3>1, <3>2, OnConsoleIs
  <2>2. ASSUME NEW s \in Texts, Log(s) PROVE Lines!Put(s)
    <3>1. OnConsole' = Lines!FoldLeft(Lines!PutLine, OnConsole, s)
      BY <2>1, <2>2, LogKeeps
    <3> QED
      BY <3>1 DEF Lines!Put, OnConsole
  <2>3. ASSUME NEW d \in Displacements, MoveRelative(d) PROVE OnConsole' = OnConsole
    BY <2>3 DEF MoveRelative, consoleVars, OnConsole, TextOf
  <2>4. CASE UNCHANGED vars
    BY <2>4 DEF vars, consoleVars, OnConsole, TextOf
  <2> QED
    BY <2>2, <2>3, <2>4 DEF Next, Lines!Next
<1> QED
  BY <1>1, <1>2, InitRight, StepKeeps, PTL DEF Spec, ConsoleIsTerminal, Lines!Spec
=============================================================================
