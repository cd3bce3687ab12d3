----------------------------- MODULE TerminalProofs ----------------------------
(***************************************************************************)
(* Proofs about Terminal: whatever bytes an application writes, the screen *)
(* they leave is a whole one, and so is the one a client draws.            *)
(***************************************************************************)
EXTENDS Terminal, ParserProofs, FiniteSetTheorems

Dimension == Nat \ {0}

(***************************************************************************)
(* What cells, rows, draw states and screens are.  The sets of the fields  *)
(* have names, which the provers see through only where it matters.        *)
(***************************************************************************)
Link == [params : Text, url : Text] \cup {NoLink}
Painted == SUBSET Attributes
Rendition == [foreground : Int, background : Int, attributes : Painted]

Cell ==
  [contents : Text, renditions : Rendition, hyperlink : Link,
   wide : BOOLEAN, fallback : BOOLEAN, wrap : BOOLEAN]

CellRow(w) == [0..w - 1 -> Cell]
Row(w) == [cells : CellRow(w), gen : Int]

SavedModes == SUBSET {"auto_wrap", "origin"}
Saved ==
  [cursor_col : Int, cursor_row : Int, renditions : Rendition, modes : SavedModes]

The(n) == {n}
Below(n) == 0..n - 1
BelowOrNone(n) == -1..n - 1
Stops(w) == SUBSET (0..w - 1)
ModeSets == SUBSET Modes

(* A draw state of a screen of w columns and h rows, its cursor anywhere.  *)
Adrift(w, h) ==
  [width : The(w), height : The(h), cursor_col : Int, cursor_row : Int,
   combining_char_col : BelowOrNone(w), combining_char_row : BelowOrNone(h),
   default_tabs : BOOLEAN, tabs : Stops(w), top : Below(h), bottom : Below(h),
   renditions : Rendition, hyperlink : Link, save : Saved,
   next_print_will_wrap : BOOLEAN, modes : ModeSets,
   mouse_reporting_mode : Int, mouse_encoding_mode : Int]

Ordered(ds) ==
  /\ ds.top <= ds.bottom
  /\ ds.combining_char_col = -1 <=> ds.combining_char_row = -1

(* The cursor on the screen.                                               *)
Draws(w, h) ==
  {ds \in Adrift(w, h) :
     Ordered(ds) /\ ds.cursor_col \in Below(w) /\ ds.cursor_row \in Below(h)}

(* A cursor the new size or the origin mode left outside is brought back   *)
(* to the border.                                                          *)
LEMMA Snapped ==
  ASSUME NEW w \in Dimension, NEW h \in Dimension, NEW ds \in Adrift(w, h), Ordered(ds)
  PROVE  SnapCursorToBorder(ds) \in Draws(w, h)
<1>1. /\ ds.top \in Below(h) /\ ds.bottom \in Below(h) /\ ds.height = h /\ ds.width = w
      /\ ds.cursor_row \in Int /\ ds.cursor_col \in Int
  BY DEF Adrift, The
<1> DEFINE y == Clamp(ds.cursor_row, LimitTop(ds), LimitBottom(ds))
           x == Clamp(ds.cursor_col, 0, ds.width - 1)
<1>2. /\ LimitTop(ds) \in Below(h) /\ LimitBottom(ds) \in Below(h)
      /\ LimitTop(ds) <= LimitBottom(ds)
  BY <1>1 DEF Ordered, LimitTop, LimitBottom, Dimension, Below
<1>3. y \in Below(h) /\ x \in Below(w)
  BY <1>1, <1>2 DEF Clamp, Below, Dimension
<1>4. y \in Int /\ x \in Int
  BY <1>3 DEF Below
<1>5. SnapCursorToBorder(ds) = [ds EXCEPT !.cursor_row = y, !.cursor_col = x]
  BY DEF SnapCursorToBorder
<1> HIDE DEF y, x
<1> QED  BY <1>3, <1>4, <1>5 DEF Draws, Adrift, Ordered

(* The cell that combining characters join is the cursor's, on the screen. *)
LEMMA Graphemes ==
  ASSUME NEW w \in Dimension, NEW h \in Dimension, NEW ds \in Draws(w, h)
  PROVE  NewGrapheme(ds) \in Draws(w, h)
<1>1. /\ ds.cursor_col \in BelowOrNone(w) /\ ds.cursor_row \in BelowOrNone(h)
      /\ ds.cursor_col # -1 /\ ds.cursor_row # -1
  BY DEF Draws, Below, BelowOrNone, Dimension
<1> QED  BY <1>1 DEF NewGrapheme, Draws, Adrift, Ordered

(* Whatever moved the cursor, settling leaves it and the grapheme on the   *)
(* screen.                                                                 *)
LEMMA Settles ==
  ASSUME NEW w \in Dimension, NEW h \in Dimension, NEW ds \in Adrift(w, h), Ordered(ds)
  PROVE  Settled(ds) \in Draws(w, h)
<1>1. NewGrapheme(SnapCursorToBorder(ds)) \in Draws(w, h)
  BY Snapped, Graphemes
<1> QED  BY <1>1 DEF Settled, Draws, Adrift, Ordered

(* The numbers in a draw state.                                            *)
LEMMA Numbers ==
  ASSUME NEW w \in Dimension, NEW h \in Dimension, NEW ds \in Draws(w, h)
  PROVE  /\ ds.width = w /\ ds.height = h
         /\ ds.cursor_col \in 0..w - 1 /\ ds.cursor_row \in 0..h - 1
         /\ ds.top \in 0..h - 1 /\ ds.bottom \in 0..h - 1 /\ ds.top <= ds.bottom
         /\ ds \in Adrift(w, h) /\ Ordered(ds)
BY DEF Draws, Adrift, Ordered, The, Below

(* The cursor stays on the screen when it moves by rows, however far.      *)
LEMMA MovesRow ==
  ASSUME NEW w \in Dimension, NEW h \in Dimension, NEW ds \in Draws(w, h),
         NEW n \in Int, NEW relative \in BOOLEAN
  PROVE  MoveRow(ds, n, relative) \in Draws(w, h)
<1> DEFINE y == n + IF relative THEN ds.cursor_row ELSE LimitTop(ds)
<1>1. y \in Int
  BY Numbers DEF LimitTop
<1>2. MoveRow(ds, n, relative) = Settled([ds EXCEPT !.cursor_row = y])
  BY DEF MoveRow
<1> HIDE DEF y
<1>3. [ds EXCEPT !.cursor_row = y] \in Adrift(w, h) /\ Ordered([ds EXCEPT !.cursor_row = y])
  BY <1>1 DEF Draws, Adrift, Ordered
<1> QED  BY <1>2, <1>3, Settles

(* And by columns.                                                         *)
LEMMA MovesCol ==
  ASSUME NEW w \in Dimension, NEW h \in Dimension, NEW ds \in Draws(w, h),
         NEW n \in Int, NEW relative \in BOOLEAN
  PROVE  MoveCol(ds, n, relative) \in Draws(w, h)
<1> DEFINE x == n + IF relative THEN ds.cursor_col ELSE 0
<1>1. x \in Int
  BY Numbers
<1>2. MoveCol(ds, n, relative) = Settled([ds EXCEPT !.cursor_col = x])
  BY DEF MoveCol
<1> HIDE DEF x
<1>3. [ds EXCEPT !.cursor_col = x] \in Adrift(w, h) /\ Ordered([ds EXCEPT !.cursor_col = x])
  BY <1>1 DEF Draws, Adrift, Ordered
<1> QED  BY <1>2, <1>3, Settles

(* And to a place.                                                         *)
LEMMA MovesTo ==
  ASSUME NEW w \in Dimension, NEW h \in Dimension, NEW ds \in Draws(w, h),
         NEW y \in Int, NEW x \in Int
  PROVE  MoveTo(ds, y, x) \in Draws(w, h)
BY MovesRow, MovesCol DEF MoveTo

(* And past the character printed, which may leave a wrap pending.         *)
LEMMA MovesOn ==
  ASSUME NEW w \in Dimension, NEW h \in Dimension, NEW ds \in Draws(w, h), NEW n \in Int
  PROVE  MoveColImplicit(ds, n) \in Draws(w, h)
<1> DEFINE x == ds.cursor_col + n
           wraps == ds.cursor_col + n >= ds.width
           g == NewGrapheme(ds)
           r == [g EXCEPT !.cursor_col = x, !.next_print_will_wrap = wraps]
<1>1. x \in Int /\ wraps \in BOOLEAN
  BY Numbers
<1>2. g \in Draws(w, h)
  BY Graphemes
<1>3. MoveColImplicit(ds, n) = SnapCursorToBorder(r)
  BY DEF MoveColImplicit
<1> HIDE DEF x, wraps, g
<1>4. r \in Adrift(w, h) /\ Ordered(r)
  BY <1>1, <1>2 DEF Draws, Adrift, Ordered
<1> QED  BY <1>3, <1>4, Snapped

(* A mode set or reset.                                                    *)
LEMMA SetsMode ==
  ASSUME NEW w \in Dimension, NEW h \in Dimension, NEW ds \in Draws(w, h),
         NEW mode \in Modes, NEW value \in BOOLEAN
  PROVE  SetMode(ds, mode, value) \in Draws(w, h)
<1>1. ds.modes \in ModeSets
  BY DEF Draws, Adrift
<1>2. ds.modes \cup {mode} \in ModeSets /\ ds.modes \ {mode} \in ModeSets
  BY <1>1 DEF ModeSets
<1> QED  BY <1>2 DEF SetMode, Draws, Adrift, Ordered

(* Tab stops are set and cleared on the screen only.                       *)
LEMMA SetsTabs ==
  ASSUME NEW w \in Dimension, NEW h \in Dimension, NEW ds \in Draws(w, h), NEW columns
  PROVE  /\ SetTab(ds) \in Draws(w, h)
         /\ ClearTabs(ds, columns) \in Draws(w, h)
<1>1. ds.tabs \in Stops(w) /\ ds.cursor_col \in 0..w - 1
  BY Numbers DEF Adrift
<1>2. ds.tabs \cup {ds.cursor_col} \in Stops(w) /\ ds.tabs \ columns \in Stops(w)
  BY <1>1 DEF Stops
<1> QED  BY <1>2 DEF SetTab, ClearTabs, Draws, Adrift, Ordered

(* The next tab stop is a column, whichever way and however many are       *)
(* skipped.                                                                *)
LEMMA FindsTab ==
  ASSUME NEW w \in Dimension, NEW h \in Dimension, NEW ds \in Draws(w, h), NEW count \in Int
  PROVE  NextTab(ds, count) \in Int
<1> DEFINE ahead   == {x \in ds.tabs : x > ds.cursor_col /\ x < ds.width}
           behind  == {x \in ds.tabs : x > 0 /\ x < ds.cursor_col}
           forward == {x \in ahead : Cardinality({y \in ahead : y < x}) = count - 1}
           back    == {x \in behind : Cardinality({y \in behind : y > x}) = -count - 1}
<1>1. forward \subseteq Int /\ back \subseteq Int
  BY Numbers DEF Adrift, Stops
<1>2. NextTab(ds, count) =
        IF count >= 0 THEN IF forward = {} THEN -1 ELSE CHOOSE x \in forward : TRUE
        ELSE IF back = {} THEN 0 ELSE CHOOSE x \in back : TRUE
  BY Zenon DEF NextTab
<1> HIDE DEF forward, back
<1>3. forward # {} => (CHOOSE x \in forward : TRUE) \in Int
  BY <1>1
<1>4. back # {} => (CHOOSE x \in back : TRUE) \in Int
  BY <1>1
<1> QED  BY <1>2, <1>3, <1>4

(* A scrolling region is cut to the screen, its top above its bottom.      *)
LEMMA SetsRegion ==
  ASSUME NEW w \in Dimension, NEW h \in Dimension, NEW ds \in Draws(w, h),
         NEW top \in Int, NEW bottom \in Int, top < h
  PROVE  SetScrollingRegion(ds, top, bottom) \in Draws(w, h)
<1> DEFINE t == IF top < 0 THEN 0 ELSE top
           b == IF bottom >= ds.height THEN ds.height - 1 ELSE bottom
           c == IF b < t THEN t ELSE b
           r == [ds EXCEPT !.top = t, !.bottom = c]
<1>1. t \in Below(h) /\ c \in Below(h) /\ t <= c
  BY Numbers DEF Below, Dimension
<1>2. SetScrollingRegion(ds, top, bottom) =
        IF Origin(ds) THEN NewGrapheme(SnapCursorToBorder(r)) ELSE r
  BY DEF SetScrollingRegion
<1> HIDE DEF t, c
<1>3. r \in Draws(w, h)
  BY <1>1 DEF Draws, Adrift, Ordered
<1>4. NewGrapheme(SnapCursorToBorder(r)) \in Draws(w, h)
  BY <1>3, Snapped, Graphemes DEF Draws
<1> QED  BY <1>2, <1>3, <1>4

(* What is saved of the cursor is what the screen had then.                *)
LEMMA SavesCursor ==
  ASSUME NEW w \in Dimension, NEW h \in Dimension, NEW ds \in Draws(w, h)
  PROVE  SaveCursor(ds) \in Draws(w, h)
<1> DEFINE s == [cursor_col |-> ds.cursor_col, cursor_row |-> ds.cursor_row,
                 renditions |-> ds.renditions, modes |-> ds.modes \cap {"auto_wrap", "origin"}]
<1>1. ds.cursor_col \in Int /\ ds.cursor_row \in Int /\ ds.renditions \in Rendition
  BY DEF Draws, Adrift
<1>2. ds.modes \cap {"auto_wrap", "origin"} \in SavedModes
  BY DEF SavedModes
<1>3. s \in Saved
  BY <1>1, <1>2 DEF Saved
<1>4. SaveCursor(ds) = [ds EXCEPT !.save = s]
  BY DEF SaveCursor
<1> HIDE DEF s
<1> QED  BY <1>3, <1>4 DEF Draws, Adrift, Ordered

(* What is restored may be of a larger screen: it is snapped to this one.  *)
LEMMA RestoresCursor ==
  ASSUME NEW w \in Dimension, NEW h \in Dimension, NEW ds \in Draws(w, h)
  PROVE  RestoreCursor(ds) \in Draws(w, h)
<1> DEFINE m == (ds.modes \ {"auto_wrap", "origin"}) \cup ds.save.modes
           r == [ds EXCEPT !.cursor_col = ds.save.cursor_col, !.cursor_row = ds.save.cursor_row,
                           !.renditions = ds.save.renditions, !.modes = m]
<1>1. ds.save \in Saved /\ ds.modes \in ModeSets
  BY DEF Draws, Adrift
<1>2. /\ ds.save.cursor_col \in Int /\ ds.save.cursor_row \in Int
      /\ ds.save.renditions \in Rendition /\ ds.save.modes \in SavedModes
  BY <1>1 DEF Saved
<1>3. m \in ModeSets
  BY <1>1, <1>2 DEF ModeSets, SavedModes, Modes
<1>4. RestoreCursor(ds) = NewGrapheme(SnapCursorToBorder(r))
  BY DEF RestoreCursor
<1> HIDE DEF m
<1>5. r \in Adrift(w, h) /\ Ordered(r)
  BY <1>2, <1>3 DEF Draws, Adrift, Ordered
<1> QED  BY <1>4, <1>5, Snapped, Graphemes

(* A resize leaves cursor, region, tab stops and grapheme on the new       *)
(* screen.                                                                 *)
LEMMA ResizesDraw ==
  ASSUME NEW w \in Dimension, NEW h \in Dimension, NEW ds \in Draws(w, h),
         NEW width \in Dimension, NEW height \in Dimension
  PROVE  ResizeDrawState(ds, width, height) \in Draws(width, height)
<1> DEFINE same == width = ds.width /\ height = ds.height
           kept == ds.tabs \cap 0..width - 1
           tabs == IF ds.default_tabs THEN kept \cup DefaultTabs(ds.width..width - 1) ELSE kept
           top  == IF same THEN ds.top ELSE 0
           bottom == IF same THEN ds.bottom ELSE height - 1
           gone == ds.combining_char_col >= width \/ ds.combining_char_row >= height
           sized == [ds EXCEPT !.width = width, !.height = height,
                               !.top = top, !.bottom = bottom, !.tabs = tabs]
           snapped == SnapCursorToBorder(sized)
           r == [ds EXCEPT !.width = width, !.height = height, !.top = top, !.bottom = bottom,
                           !.tabs = tabs, !.combining_char_col = -1, !.combining_char_row = -1]
<1>1. /\ ds.combining_char_col \in -1..w - 1 /\ ds.combining_char_row \in -1..h - 1
      /\ (ds.combining_char_col = -1 <=> ds.combining_char_row = -1)
      /\ ds.tabs \subseteq 0..w - 1
  BY DEF Draws, Adrift, Ordered, BelowOrNone, Stops
<1>2. top \in Below(height) /\ bottom \in Below(height) /\ top <= bottom
  BY Numbers DEF Below, Dimension
<1>3. tabs \in Stops(width)
  BY Numbers DEF Stops, DefaultTabs, Dimension
<1>4. ~gone => /\ ds.combining_char_col \in BelowOrNone(width)
               /\ ds.combining_char_row \in BelowOrNone(height)
  BY <1>1 DEF BelowOrNone, Dimension
<1>5. width \in The(width) /\ height \in The(height)
  BY DEF The
<1>6. ds \in Adrift(w, h) /\ Ordered(ds)
  BY Numbers
<1>7. ResizeDrawState(ds, width, height) =
        IF gone THEN [snapped EXCEPT !.combining_char_col = -1, !.combining_char_row = -1]
        ELSE snapped
  BY Zenon DEF ResizeDrawState
<1> HIDE DEF top, bottom, tabs, kept
<1>8. CASE ~gone
  <2>1. sized \in Adrift(width, height) /\ Ordered(sized)
    BY <1>1, <1>2, <1>3, <1>4, <1>5, <1>6, <1>8 DEF Adrift, Ordered
  <2> QED  BY <1>7, <1>8, <2>1, Snapped
<1>9. CASE gone
  <2> DEFINE x == Clamp(ds.cursor_col, 0, width - 1)
             y == Clamp(ds.cursor_row, IF "origin" \in ds.modes THEN top ELSE 0,
                                       IF "origin" \in ds.modes THEN bottom ELSE height - 1)
  <2>1. snapped = [sized EXCEPT !.cursor_row = y, !.cursor_col = x]
    BY <1>6 DEF SnapCursorToBorder, LimitTop, LimitBottom, Origin, Adrift
  <2>2. SnapCursorToBorder(r) = [r EXCEPT !.cursor_row = y, !.cursor_col = x]
    BY <1>6 DEF SnapCursorToBorder, LimitTop, LimitBottom, Origin, Adrift
  <2>3. -1 \in BelowOrNone(width) /\ -1 \in BelowOrNone(height)
    BY DEF BelowOrNone, Dimension
  <2>4. r \in Adrift(width, height) /\ Ordered(r)
    BY <1>2, <1>3, <1>5, <1>6, <2>3 DEF Adrift, Ordered
  <2> HIDE DEF snapped, x, y
  <2>5. ResizeDrawState(ds, width, height) = SnapCursorToBorder(r)
    BY <1>6, <1>7, <1>9, <2>1, <2>2 DEF Adrift
  <2> QED  BY <2>4, <2>5, Snapped
<1> QED  BY <1>8, <1>9

(* The renditions a terminal starts with.                                  *)
LEMMA PlainRendition ==
  /\ Plain \in Rendition
  /\ \A b \in Int : Renditions(b) \in Rendition
BY DEF Plain, Renditions, Rendition, Painted

(* The state a terminal of some size starts in.                            *)
LEMMA NewDraw ==
  ASSUME NEW w \in Dimension, NEW h \in Dimension
  PROVE  NewDrawState(w, h) \in Draws(w, h)
<1>1. SavedDefault \in Saved
  <2>1. {"auto_wrap"} \in SavedModes
    BY DEF SavedModes
  <2> QED  BY <2>1, PlainRendition DEF SavedDefault, Saved
<1>2. /\ w \in The(w) /\ h \in The(h) /\ 0 \in BelowOrNone(w) /\ 0 \in BelowOrNone(h)
      /\ 0 \in Below(w) /\ 0 \in Below(h) /\ h - 1 \in Below(h) /\ 0 <= h - 1
  BY DEF The, Below, BelowOrNone, Dimension
<1>3. DefaultTabs(0..w - 1) \in Stops(w) /\ {"auto_wrap", "cursor_visible"} \in ModeSets
  BY DEF DefaultTabs, Stops, ModeSets, Modes
<1>4. NoLink \in Link
  BY DEF Link
<1> QED  BY <1>1, <1>2, <1>3, <1>4, PlainRendition DEF NewDrawState, Draws, Adrift, Ordered

(***************************************************************************)
(* Cells and rows.                                                         *)
(***************************************************************************)
LEMMA NewCells ==
  ASSUME NEW b \in Int
  PROVE  NewCell(b) \in Cell
<1>1. <<>> \in Text /\ NoLink \in Link
  BY DEF Text, Link
<1> QED  BY <1>1, PlainRendition DEF NewCell, Cell

(* A cell with one more character.                                         *)
LEMMA Appended ==
  ASSUME NEW cell \in Cell, NEW ch \in Int
  PROVE  AppendTo(cell, ch) \in Cell
<1>1. cell.contents \in Text
  BY DEF Cell
<1>2. Append(cell.contents, ch) \in Text
  BY <1>1 DEF Text
<1> QED  BY <1>2 DEF AppendTo, Cell

(* What a cell is drawn as.                                                *)
LEMMA Prints ==
  ASSUME NEW cell \in Cell
  PROVE  PrintGrapheme(cell) \in Text
<1>1. cell.contents \in Seq(Int)
  BY DEF Cell, Text
<1>2. <<SPACE>> \in Seq(Int) /\ <<NBSP>> \in Seq(Int) /\ <<>> \in Seq(Int)
  BY DEF SPACE, NBSP
<1> QED  BY <1>1, <1>2 DEF PrintGrapheme, Text

(* A row of the screen is as wide as the screen, each of its cells a cell. *)
LEMMA RowsWide ==
  ASSUME NEW w \in Dimension, NEW row \in Row(w)
  PROVE  /\ RowWidth(row) = w
         /\ DOMAIN row.cells = 0..w - 1
         /\ \A x \in 0..w - 1 : row.cells[x] \in Cell
         /\ row.gen \in Int
<1>1. Cardinality(0..w - 1) = w
  BY FS_Interval DEF Dimension
<1> QED  BY <1>1 DEF RowWidth, Row, CellRow

(* A new row has the width asked for.                                      *)
LEMMA NewRows ==
  ASSUME NEW w \in Dimension, NEW b \in Int, NEW gen \in Int
  PROVE  NewRow(w, b, gen) \in Row(w) /\ NewRow(w, b, gen).gen = gen
BY NewCells DEF NewRow, Row, CellRow

(* The cells of a row replaced.                                            *)
LEMMA CellsReplaced ==
  ASSUME NEW w \in Dimension, NEW row \in Row(w), NEW cells \in CellRow(w)
  PROVE  /\ [row EXCEPT !.cells = cells] \in Row(w)
         /\ [row EXCEPT !.cells = cells].gen = row.gen
BY DEF Row

(* Cells inserted into a row push others out: it keeps its width and its   *)
(* generation.                                                             *)
LEMMA RowInserts ==
  ASSUME NEW w \in Dimension, NEW row \in Row(w), NEW col \in Nat, NEW count \in Nat,
         NEW b \in Int
  PROVE  /\ RowInsertCells(row, col, count, b) \in Row(w)
         /\ RowInsertCells(row, col, count, b).gen = row.gen
<1> DEFINE cells == [x \in DOMAIN row.cells |-> IF x < col THEN row.cells[x]
                                                ELSE IF x < col + count THEN NewCell(b)
                                                ELSE row.cells[x - count]]
<1>1. cells \in CellRow(w)
  <2> SUFFICES ASSUME NEW x \in 0..w - 1
               PROVE  /\ x < col => row.cells[x] \in Cell
                      /\ ~(x < col + count) => row.cells[x - count] \in Cell
    BY RowsWide, NewCells DEF CellRow
  <2>1. ~(x < col + count) => x - count \in 0..w - 1
    BY DEF Dimension
  <2> QED  BY <2>1, RowsWide
<1>2. RowInsertCells(row, col, count, b) = [row EXCEPT !.cells = cells]
  BY DEF RowInsertCells
<1> HIDE DEF cells
<1> QED  BY <1>1, <1>2, CellsReplaced

(* So does a row that cells are deleted from.                              *)
LEMMA RowDeletes ==
  ASSUME NEW w \in Dimension, NEW row \in Row(w), NEW col \in Nat, NEW count \in Nat,
         NEW b \in Int
  PROVE  /\ RowDeleteCells(row, col, count, b) \in Row(w)
         /\ RowDeleteCells(row, col, count, b).gen = row.gen
<1> DEFINE cells == [x \in DOMAIN row.cells |->
                       IF x < col THEN row.cells[x]
                       ELSE IF x + count \in DOMAIN row.cells THEN row.cells[x + count]
                       ELSE NewCell(b)]
<1>1. cells \in CellRow(w)
  BY RowsWide, NewCells DEF CellRow
<1>2. RowDeleteCells(row, col, count, b) = [row EXCEPT !.cells = cells]
  BY DEF RowDeleteCells
<1> HIDE DEF cells
<1> QED  BY <1>1, <1>2, CellsReplaced

(* One cell replaced.                                                      *)
LEMMA CellReplaced ==
  ASSUME NEW w \in Dimension, NEW row \in Row(w), NEW x \in 0..w - 1, NEW cell \in Cell
  PROVE  /\ [row EXCEPT !.cells[x] = cell] \in Row(w)
         /\ [row EXCEPT !.cells[x] = cell].gen = row.gen
<1> DEFINE cells == [row.cells EXCEPT ![x] = cell]
<1>1. cells \in CellRow(w)
  BY DEF Row, CellRow
<1>2. [row EXCEPT !.cells[x] = cell] = [row EXCEPT !.cells = cells]
  OBVIOUS
<1> HIDE DEF cells
<1> QED  BY <1>1, <1>2, CellsReplaced

(* And one that is marked as wrapping.                                     *)
LEMMA WrapsSet ==
  ASSUME NEW w \in Dimension, NEW row \in Row(w), NEW wraps \in BOOLEAN
  PROVE  /\ RowSetWrap(row, wraps) \in Row(w)
         /\ RowSetWrap(row, wraps).gen = row.gen
<1> DEFINE cell == [row.cells[w - 1] EXCEPT !.wrap = wraps]
<1>1. w - 1 \in 0..w - 1
  BY DEF Dimension
<1>2. row.cells[w - 1] \in Cell
  BY <1>1, RowsWide
<1>3. cell \in Cell
  BY <1>2 DEF Cell
<1>4. RowSetWrap(row, wraps) = [row EXCEPT !.cells[w - 1] = cell]
  BY RowsWide DEF RowSetWrap
<1> HIDE DEF cell
<1> QED  BY <1>1, <1>3, <1>4, CellReplaced

(* A row resized has the new width, whatever is cut off or filled in.      *)
LEMMA RowResizes ==
  ASSUME NEW w \in Dimension, NEW row \in Row(w), NEW width \in Dimension, NEW b \in Int
  PROVE  /\ RowResize(row, width, b) \in Row(width)
         /\ RowResize(row, width, b).gen = row.gen
<1> DEFINE cells == [x \in 0..width - 1 |-> IF x \in DOMAIN row.cells THEN row.cells[x]
                                            ELSE NewCell(b)]
<1>1. cells \in CellRow(width)
  BY RowsWide, NewCells DEF CellRow
<1>2. RowResize(row, width, b) = [row EXCEPT !.cells = cells]
  BY DEF RowResize
<1> HIDE DEF cells
<1> QED  BY <1>1, <1>2 DEF Row

(***************************************************************************)
(* Screens of w columns and h rows.                                        *)
(***************************************************************************)
Rows(w, h) == [0..h - 1 -> Row(w)]
Texts == Seq(Text)

Canvas(w, h) ==
  [rows : Rows(w, h), next : Int, icon_name : Text, window_title : Text,
   title_initialized : BOOLEAN, clipboard : Text, clipboard_seq : Int,
   color_queries : Texts, color_query_seq : Int, bell_count : Int, ds : Draws(w, h)]

(* No row is as new as the next one.                                       *)
Dated(rows, next) == \A y \in DOMAIN rows : rows[y].gen < next

Screens(w, h) == {fb \in Canvas(w, h) : Dated(fb.rows, fb.next)}

(* The parts of a screen.                                                  *)
LEMMA ScreenParts ==
  ASSUME NEW w \in Dimension, NEW h \in Dimension, NEW fb \in Screens(w, h)
  PROVE  /\ fb.ds \in Draws(w, h) /\ fb.ds.width = w /\ fb.ds.height = h
         /\ fb.ds.cursor_col \in 0..w - 1 /\ fb.ds.cursor_row \in 0..h - 1
         /\ fb.rows \in Rows(w, h) /\ DOMAIN fb.rows = 0..h - 1
         /\ \A y \in 0..h - 1 : fb.rows[y] \in Row(w) /\ fb.rows[y].gen < fb.next
         /\ fb.next \in Int /\ Background(fb) \in Int
         /\ fb.ds.renditions \in Rendition /\ fb.ds.hyperlink \in Link
<1>1. fb.ds \in Draws(w, h) /\ fb.rows \in Rows(w, h) /\ Dated(fb.rows, fb.next) /\ fb.next \in Int
  BY DEF Screens, Canvas
<1>2. fb.ds.renditions \in Rendition /\ fb.ds.hyperlink \in Link
  BY <1>1 DEF Draws, Adrift
<1>3. Background(fb) \in Int
  BY <1>2 DEF Background, Rendition
<1>4. DOMAIN fb.rows = 0..h - 1 /\ \A y \in 0..h - 1 : fb.rows[y] \in Row(w) /\ fb.rows[y].gen < fb.next
  BY <1>1 DEF Rows, Dated
<1> QED  BY <1>1, <1>2, <1>3, <1>4, Numbers

(* A screen with another draw state, and with other rows.                  *)
LEMMA Redrawn ==
  ASSUME NEW w \in Dimension, NEW h \in Dimension, NEW fb \in Screens(w, h),
         NEW ds \in Draws(w, h)
  PROVE  [fb EXCEPT !.ds = ds] \in Screens(w, h)
BY DEF Screens, Canvas

(* A screen with other rows of its size, none dated after its next         *)
(* generation.                                                             *)
LEMMA Repainted ==
  ASSUME NEW w \in Dimension, NEW h \in Dimension, NEW fb \in Screens(w, h),
         NEW rows \in Rows(w, h), NEW next \in Int, Dated(rows, next)
  PROVE  [fb EXCEPT !.rows = rows, !.next = next] \in Screens(w, h)
BY DEF Screens, Canvas

(* The same when no generation is given out.                               *)
LEMMA Touched ==
  ASSUME NEW w \in Dimension, NEW h \in Dimension, NEW fb \in Screens(w, h),
         NEW rows \in Rows(w, h), Dated(rows, fb.next)
  PROVE  [fb EXCEPT !.rows = rows] \in Screens(w, h)
BY DEF Screens, Canvas

(* One row replaced, and one cell.                                         *)
LEMMA RowReplaced ==
  ASSUME NEW w \in Dimension, NEW h \in Dimension, NEW fb \in Screens(w, h),
         NEW y \in 0..h - 1, NEW row \in Row(w), row.gen = fb.rows[y].gen
  PROVE  [fb EXCEPT !.rows[y] = row] \in Screens(w, h)
<1> DEFINE rows == [fb.rows EXCEPT ![y] = row]
<1>1. rows \in Rows(w, h)
  BY ScreenParts DEF Rows
<1>2. Dated(rows, fb.next)
  <2>1. ASSUME NEW z \in 0..h - 1
        PROVE  rows[z].gen = fb.rows[z].gen
    BY ScreenParts
  <2>2. DOMAIN rows = 0..h - 1
    BY ScreenParts
  <2> QED  BY <2>1, <2>2, ScreenParts DEF Dated
<1>3. [fb EXCEPT !.rows[y] = row] = [fb EXCEPT !.rows = rows]
  OBVIOUS
<1> HIDE DEF rows
<1> QED  BY <1>1, <1>2, <1>3, Touched

(* A cell put on the screen.                                               *)
LEMMA SetsCell ==
  ASSUME NEW w \in Dimension, NEW h \in Dimension, NEW fb \in Screens(w, h),
         NEW y \in 0..h - 1, NEW x \in 0..w - 1, NEW cell \in Cell
  PROVE  SetCell(fb, y, x, cell) \in Screens(w, h)
<1> DEFINE row == [fb.rows[y] EXCEPT !.cells[x] = cell]
<1>1. row \in Row(w) /\ row.gen = fb.rows[y].gen
  BY ScreenParts, CellReplaced
<1>2. SetCell(fb, y, x, cell) = [fb EXCEPT !.rows[y] = row]
  BY DEF SetCell
<1> HIDE DEF row
<1> QED  BY <1>1, <1>2, RowReplaced

(* Cells erased on one row, those beyond its end left out.                 *)
LEMMA ResetsCells ==
  ASSUME NEW w \in Dimension, NEW h \in Dimension, NEW fb \in Screens(w, h),
         NEW y \in 0..h - 1, NEW columns
  PROVE  ResetCells(fb, y, columns) \in Screens(w, h)
<1> DEFINE old == fb.rows[y]
           cells == [x \in DOMAIN old.cells |->
                       IF x \in columns THEN NewCell(Background(fb)) ELSE old.cells[x]]
           row == [old EXCEPT !.cells = cells]
<1>1. old \in Row(w) /\ Background(fb) \in Int
  BY ScreenParts
<1>2. cells \in CellRow(w)
  BY <1>1, RowsWide, NewCells DEF CellRow
<1>3. ResetCells(fb, y, columns) = [fb EXCEPT !.rows[y] = row]
  BY DEF ResetCells
<1> HIDE DEF cells, old
<1>4. row \in Row(w) /\ row.gen = old.gen
  BY <1>1, <1>2, CellsReplaced
<1> HIDE DEF row
<1> QED  BY <1>3, <1>4, RowReplaced DEF old

(* Rows erased.                                                            *)
LEMMA ResetsRows ==
  ASSUME NEW w \in Dimension, NEW h \in Dimension, NEW fb \in Screens(w, h),
         NEW first \in Int, NEW last_row \in Int
  PROVE  ResetRows(fb, first, last_row) \in Screens(w, h)
<1> DEFINE rows == [y \in DOMAIN fb.rows |->
                      IF y \in first..last_row
                      THEN NewRow(fb.ds.width, Background(fb), fb.next + y - first)
                      ELSE fb.rows[y]]
           next == IF first <= last_row THEN fb.next + last_row - first + 1 ELSE fb.next
<1>1. \A y \in 0..h - 1 : y \in first..last_row =>
        /\ NewRow(fb.ds.width, Background(fb), fb.next + y - first) \in Row(w)
        /\ NewRow(fb.ds.width, Background(fb), fb.next + y - first).gen = fb.next + y - first
  BY ScreenParts, NewRows
<1>2. rows \in Rows(w, h)
  BY <1>1, ScreenParts DEF Rows
<1>3. next \in Int /\ fb.next <= next
  BY ScreenParts
<1>4. Dated(rows, next)
  <2>1. DOMAIN rows = 0..h - 1 /\ fb.next \in Int
    BY ScreenParts
  <2> SUFFICES ASSUME NEW y \in 0..h - 1
               PROVE  rows[y].gen < next
    BY <2>1 DEF Dated
  <2>2. CASE y \in first..last_row
    <3>1. rows[y] = NewRow(fb.ds.width, Background(fb), fb.next + y - first)
      BY <2>1, <2>2
    <3>2. rows[y].gen = fb.next + y - first
      BY <1>1, <2>2, <3>1
    <3> QED  BY <2>1, <2>2, <3>2
  <2>3. CASE y \notin first..last_row
    <3>1. rows[y] = fb.rows[y]
      BY <2>1, <2>3
    <3>2. fb.rows[y].gen < fb.next /\ fb.rows[y] \in Row(w)
      BY ScreenParts
    <3>3. fb.rows[y].gen \in Int
      BY <3>2, RowsWide
    <3> HIDE DEF rows, next
    <3> QED  BY <1>3, <2>1, <3>1, <3>2, <3>3
  <2> QED  BY <2>2, <2>3
<1>5. ResetRows(fb, first, last_row) = [fb EXCEPT !.rows = rows, !.next = next]
  BY DEF ResetRows
<1> HIDE DEF rows, next
<1>6. [fb EXCEPT !.rows = rows, !.next = next] \in Screens(w, h)
  BY <1>2, <1>3, <1>4, Repainted
<1> QED  BY <1>5, <1>6

(* Rows of the screen, and a blank one, put into another order.            *)
LEMMA Shuffled ==
  ASSUME NEW w \in Dimension, NEW h \in Dimension, NEW fb \in Screens(w, h),
         NEW rows, rows = [y \in 0..h - 1 |-> rows[y]],
         \A y \in 0..h - 1 : \/ rows[y] = Blank(fb)
                             \/ \E z \in 0..h - 1 : rows[y] = fb.rows[z]
  PROVE  [fb EXCEPT !.rows = rows, !.next = fb.next + 1] \in Screens(w, h)
<1>1. Blank(fb) \in Row(w) /\ Blank(fb).gen = fb.next
  BY ScreenParts, NewRows DEF Blank
<1>2. rows \in Rows(w, h)
  BY <1>1, ScreenParts DEF Rows
<1>3. Dated(rows, fb.next + 1)
  <2> SUFFICES ASSUME NEW y \in 0..h - 1
               PROVE  rows[y].gen < fb.next + 1
    BY DEF Dated
  <2>1. CASE rows[y] = Blank(fb)
    BY <1>1, <2>1, ScreenParts
  <2>2. ASSUME NEW z \in 0..h - 1, rows[y] = fb.rows[z]
        PROVE  rows[y].gen < fb.next + 1
    <3>1. fb.rows[z].gen < fb.next /\ fb.rows[z].gen \in Int
      BY ScreenParts, RowsWide
    <3> QED  BY <2>2, <3>1, ScreenParts
  <2> QED  BY <2>1, <2>2
<1>4. fb.next + 1 \in Int
  BY ScreenParts
<1> QED  BY <1>2, <1>3, <1>4, Repainted

(* Lines inserted, anywhere and however many, inside the region or not.    *)
LEMMA InsertsLine ==
  ASSUME NEW w \in Dimension, NEW h \in Dimension, NEW fb \in Screens(w, h),
         NEW row \in Int, NEW count \in Int
  PROVE  InsertLine(fb, row, count) \in Screens(w, h)
<1> DEFINE top == fb.ds.top
           bottom == fb.ds.bottom
           room == bottom + 1 - row
           scroll == IF count < room THEN count ELSE room
           rows == [y \in DOMAIN fb.rows |->
                      IF y < row \/ y > bottom THEN fb.rows[y]
                      ELSE IF y < row + scroll THEN Blank(fb)
                      ELSE fb.rows[y - scroll]]
           stays == row < top \/ row > bottom + 1 \/ scroll <= 0
<1>1. InsertLine(fb, row, count) =
        IF stays THEN fb ELSE [fb EXCEPT !.rows = rows, !.next = fb.next + 1]
  BY DEF InsertLine
<1>2. /\ top \in 0..h - 1 /\ bottom \in 0..h - 1 /\ scroll \in Int
      /\ DOMAIN fb.rows = 0..h - 1
  BY ScreenParts, Numbers
<1>3. CASE stays
  BY <1>1, <1>3
<1>4. CASE ~stays
  <2> HIDE DEF scroll, top, bottom
  <2>1. rows = [y \in 0..h - 1 |-> rows[y]]
    BY <1>2
  <2>2. ASSUME NEW y \in 0..h - 1
        PROVE  \/ rows[y] = Blank(fb) \/ \E z \in 0..h - 1 : rows[y] = fb.rows[z]
    <3>1. CASE y < row \/ y > bottom
      BY <1>2, <3>1
    <3>2. CASE ~(y < row \/ y > bottom) /\ y < row + scroll
      BY <1>2, <3>2
    <3>3. CASE ~(y < row \/ y > bottom) /\ ~(y < row + scroll)
      <4>1. y - scroll \in 0..h - 1
        <5>1. /\ y \in Int /\ scroll \in Int /\ row \in Int /\ top \in Int /\ bottom \in Int
              /\ 0 <= top /\ bottom <= h - 1 /\ h \in Int
          BY <1>2 DEF Dimension
        <5>2. top <= row /\ 0 < scroll
          BY <1>4, <5>1
        <5> QED  BY <3>3, <5>1, <5>2
      <4>2. rows[y] = fb.rows[y - scroll]
        BY <1>2, <3>3
      <4> QED  BY <4>1, <4>2
    <3> QED  BY <3>1, <3>2, <3>3
  <2> HIDE DEF rows
  <2>3. [fb EXCEPT !.rows = rows, !.next = fb.next + 1] \in Screens(w, h)
    BY <2>1, <2>2, Shuffled
  <2> QED  BY <1>1, <1>4, <2>3
<1> QED  BY <1>3, <1>4

(* Lines deleted.                                                          *)
LEMMA DeletesLine ==
  ASSUME NEW w \in Dimension, NEW h \in Dimension, NEW fb \in Screens(w, h),
         NEW row \in Int, NEW count \in Int
  PROVE  DeleteLine(fb, row, count) \in Screens(w, h)
<1> DEFINE top == fb.ds.top
           bottom == fb.ds.bottom
           room == bottom + 1 - row
           scroll == IF count < room THEN count ELSE room
           rows == [y \in DOMAIN fb.rows |->
                      IF y < row \/ y > bottom THEN fb.rows[y]
                      ELSE IF y + scroll <= bottom THEN fb.rows[y + scroll]
                      ELSE Blank(fb)]
           stays == row < top \/ row > bottom \/ scroll <= 0
<1>1. DeleteLine(fb, row, count) =
        IF stays THEN fb ELSE [fb EXCEPT !.rows = rows, !.next = fb.next + 1]
  BY DEF DeleteLine
<1>2. /\ top \in 0..h - 1 /\ bottom \in 0..h - 1 /\ scroll \in Int
      /\ DOMAIN fb.rows = 0..h - 1
  BY ScreenParts, Numbers
<1>3. CASE stays
  BY <1>1, <1>3
<1>4. CASE ~stays
  <2> HIDE DEF scroll, top, bottom
  <2>1. rows = [y \in 0..h - 1 |-> rows[y]]
    BY <1>2
  <2>2. ASSUME NEW y \in 0..h - 1
        PROVE  \/ rows[y] = Blank(fb) \/ \E z \in 0..h - 1 : rows[y] = fb.rows[z]
    <3>1. CASE y < row \/ y > bottom
      BY <1>2, <3>1
    <3>2. CASE ~(y < row \/ y > bottom) /\ ~(y + scroll <= bottom)
      BY <1>2, <3>2
    <3>3. CASE ~(y < row \/ y > bottom) /\ y + scroll <= bottom
      <4>1. y + scroll \in 0..h - 1
        <5>1. /\ y \in Int /\ scroll \in Int /\ row \in Int /\ top \in Int /\ bottom \in Int
              /\ 0 <= top /\ bottom <= h - 1 /\ h \in Int
          BY <1>2 DEF Dimension
        <5>2. top <= row /\ 0 < scroll
          BY <1>4, <5>1
        <5> QED  BY <3>3, <5>1, <5>2
      <4>2. rows[y] = fb.rows[y + scroll]
        BY <1>2, <3>3
      <4> QED  BY <4>1, <4>2
    <3> QED  BY <3>1, <3>2, <3>3
  <2> HIDE DEF rows
  <2>3. [fb EXCEPT !.rows = rows, !.next = fb.next + 1] \in Screens(w, h)
    BY <2>1, <2>2, Shuffled
  <2> QED  BY <1>1, <1>4, <2>3
<1> QED  BY <1>3, <1>4

(* The region scrolled, either way.                                        *)
LEMMA Scrolls ==
  ASSUME NEW w \in Dimension, NEW h \in Dimension, NEW fb \in Screens(w, h), NEW n \in Int
  PROVE  Scroll(fb, n) \in Screens(w, h)
<1>1. fb.ds.top \in Int
  BY ScreenParts, Numbers
<1> QED  BY <1>1, InsertsLine, DeletesLine DEF Scroll

(* The cursor moved down or up a row, the region scrolled when it is at    *)
(* its edge.                                                               *)
LEMMA Autoscrolls ==
  ASSUME NEW w \in Dimension, NEW h \in Dimension, NEW fb \in Screens(w, h), NEW n \in Int
  PROVE  MoveRowsAutoscroll(fb, n) \in Screens(w, h)
<1> DEFINE to    == fb.ds.cursor_row + n
           over  == IF fb.ds.cursor_row \notin fb.ds.top..fb.ds.bottom THEN 0
                    ELSE to - Clamp(to, fb.ds.top, fb.ds.bottom)
           moved == Scroll(fb, over)
           ready == IF over = 0 THEN fb
                    ELSE [moved EXCEPT !.ds = MoveRow(moved.ds, -over, TRUE)]
<1>1. MoveRowsAutoscroll(fb, n) = [ready EXCEPT !.ds = MoveRow(ready.ds, n, TRUE)]
  BY DEF MoveRowsAutoscroll
<1>2. over \in Int
  BY ScreenParts, Numbers DEF Clamp
<1> HIDE DEF over
<1>3. moved \in Screens(w, h) /\ -over \in Int
  BY <1>2, Scrolls
<1> HIDE DEF moved
<1>4. MoveRow(moved.ds, -over, TRUE) \in Draws(w, h)
  BY <1>3, ScreenParts, MovesRow
<1>5. [moved EXCEPT !.ds = MoveRow(moved.ds, -over, TRUE)] \in Screens(w, h)
  BY <1>3, <1>4, Redrawn
<1>6. ready \in Screens(w, h)
  BY <1>5
<1> HIDE DEF ready
<1> DEFINE ds == MoveRow(ready.ds, n, TRUE)
<1>7. ds \in Draws(w, h)
  BY <1>6, ScreenParts, MovesRow
<1>8. MoveRowsAutoscroll(fb, n) = [ready EXCEPT !.ds = ds]
  BY <1>1
<1> HIDE DEF ds
<1>9. [ready EXCEPT !.ds = ds] \in Screens(w, h)
  BY <1>6, <1>7, Redrawn
<1> QED  BY <1>8, <1>9

(* Cells inserted and deleted at the cursor.                               *)
LEMMA ShiftsCells ==
  ASSUME NEW w \in Dimension, NEW h \in Dimension, NEW fb \in Screens(w, h),
         NEW y \in 0..h - 1, NEW x \in 0..w - 1, NEW count \in Nat
  PROVE  /\ InsertCells(fb, y, x, count) \in Screens(w, h)
         /\ DeleteCells(fb, y, x, count) \in Screens(w, h)
<1> DEFINE old == fb.rows[y]
           b == Background(fb)
           inserted == RowInsertCells(old, x, count, b)
           deleted  == RowDeleteCells(old, x, count, b)
<1>1. old \in Row(w) /\ b \in Int /\ x \in Nat
  BY ScreenParts
<1> HIDE DEF old, b
<1>2. inserted \in Row(w) /\ inserted.gen = old.gen
  <2>1. \A r \in Row(w), c \in Nat, n \in Nat, g \in Int :
          /\ RowInsertCells(r, c, n, g) \in Row(w)
          /\ RowInsertCells(r, c, n, g).gen = r.gen
    BY RowInserts
  <2> QED  BY <1>1, <2>1
<1>3. deleted \in Row(w) /\ deleted.gen = old.gen
  <2>1. \A r \in Row(w), c \in Nat, n \in Nat, g \in Int :
          /\ RowDeleteCells(r, c, n, g) \in Row(w)
          /\ RowDeleteCells(r, c, n, g).gen = r.gen
    BY RowDeletes
  <2> QED  BY <1>1, <2>1
<1>4. /\ InsertCells(fb, y, x, count) = [fb EXCEPT !.rows[y] = inserted]
      /\ DeleteCells(fb, y, x, count) = [fb EXCEPT !.rows[y] = deleted]
  BY DEF InsertCells, DeleteCells, old, b
<1> HIDE DEF inserted, deleted
<1>5. [fb EXCEPT !.rows[y] = inserted] \in Screens(w, h)
  BY <1>2, RowReplaced DEF old
<1>6. [fb EXCEPT !.rows[y] = deleted] \in Screens(w, h)
  BY <1>3, RowReplaced DEF old
<1> QED  BY <1>4, <1>5, <1>6

(* A full reset keeps the size.                                            *)
LEMMA Resets ==
  ASSUME NEW w \in Dimension, NEW h \in Dimension, NEW fb \in Screens(w, h)
  PROVE  Reset(fb) \in Screens(w, h)
<1> DEFINE rows == [y \in DOMAIN fb.rows |-> NewRow(fb.ds.width, 0, fb.next)]
           ds   == NewDrawState(fb.ds.width, fb.ds.height)
           next == fb.next + 1
<1>1. NewRow(fb.ds.width, 0, fb.next) \in Row(w) /\ NewRow(fb.ds.width, 0, fb.next).gen = fb.next
  BY ScreenParts, NewRows
<1>2. rows \in Rows(w, h)
  BY <1>1, ScreenParts DEF Rows
<1>3. next \in Int /\ Dated(rows, next)
  BY <1>1, ScreenParts DEF Dated
<1>4. ds \in Draws(w, h)
  BY ScreenParts, NewDraw
<1>5. <<>> \in Text /\ <<>> \in Texts
  BY DEF Text, Texts
<1>6. Reset(fb) = [fb EXCEPT !.ds = ds, !.rows = rows, !.next = next,
                             !.window_title = <<>>, !.clipboard = <<>>, !.color_queries = <<>>]
  BY DEF Reset
<1> HIDE DEF rows, ds, next
<1> QED  BY <1>2, <1>3, <1>4, <1>5, <1>6 DEF Screens, Canvas

(* A soft reset does, and leaves the cursor on the screen.                 *)
LEMMA SoftResets ==
  ASSUME NEW w \in Dimension, NEW h \in Dimension, NEW fb \in Screens(w, h)
  PROVE  SoftReset(fb) \in Screens(w, h)
<1> DEFINE modes == (fb.ds.modes \ {"insert", "origin", "application_mode_cursor_keys"})
                      \cup {"cursor_visible"}
           begun == [fb.ds EXCEPT !.modes = modes]
           region == SetScrollingRegion(begun, 0, fb.ds.height - 1)
           ds == [region EXCEPT !.renditions = Plain, !.hyperlink = NoLink,
                                !.save = SavedDefault]
<1>1. fb.ds \in Draws(w, h) /\ fb.ds.height - 1 \in Int /\ 0 \in Int /\ 0 < h
  BY ScreenParts DEF Dimension
<1>2. fb.ds.modes \in ModeSets
  BY <1>1 DEF Draws, Adrift
<1>3. modes \in ModeSets
  BY <1>2 DEF ModeSets, Modes
<1>4. SoftReset(fb) = [fb EXCEPT !.ds = ds]
  BY DEF SoftReset
<1> HIDE DEF modes
<1>5. begun \in Draws(w, h)
  BY <1>1, <1>3 DEF Draws, Adrift, Ordered
<1> HIDE DEF begun
<1>6. region \in Draws(w, h)
  BY <1>1, <1>5, SetsRegion
<1> HIDE DEF region
<1>7. NoLink \in Link /\ SavedDefault \in Saved
  <2>1. {"auto_wrap"} \in SavedModes
    BY DEF SavedModes
  <2> QED  BY <2>1, PlainRendition DEF SavedDefault, Saved, Link
<1>8. ds \in Draws(w, h)
  BY <1>6, <1>7, PlainRendition DEF Draws, Adrift, Ordered
<1> QED  BY <1>4, <1>8, Redrawn

(* A clipboard and a color query written by the application.               *)
LEMMA TakesClipboard ==
  ASSUME NEW w \in Dimension, NEW h \in Dimension, NEW fb \in Screens(w, h),
         NEW text \in Text
  PROVE  /\ SetClipboard(fb, text) \in Screens(w, h)
         /\ AddColorQuery(fb, text) \in Screens(w, h)
<1> DEFINE queries == IF Len(fb.color_queries) + 1 <= MAXIMUM_COLOR_QUERIES
                      THEN Append(fb.color_queries, text) ELSE fb.color_queries
           asked == fb.color_query_seq + 1
           copied == fb.clipboard_seq + 1
<1>1. fb.color_queries \in Texts /\ fb.color_query_seq \in Int /\ fb.clipboard_seq \in Int
  BY DEF Screens, Canvas
<1>2. queries \in Texts /\ asked \in Int /\ copied \in Int
  BY <1>1 DEF Texts
<1>3. /\ AddColorQuery(fb, text) = [fb EXCEPT !.color_queries = queries, !.color_query_seq = asked]
      /\ SetClipboard(fb, text) = [fb EXCEPT !.clipboard = text, !.clipboard_seq = copied]
  BY DEF AddColorQuery, SetClipboard
<1> HIDE DEF queries, asked, copied
<1>4. AddColorQuery(fb, text) \in Screens(w, h)
  BY <1>2, <1>3 DEF Screens, Canvas
<1>5. SetClipboard(fb, text) \in Screens(w, h)
  BY <1>2, <1>3 DEF Screens, Canvas
<1> QED  BY <1>4, <1>5

(* A resize from any size to any other gives a whole screen of the new     *)
(* size.                                                                   *)
LEMMA Resizes ==
  ASSUME NEW w \in Dimension, NEW h \in Dimension, NEW fb \in Screens(w, h),
         NEW width \in 1..MAX_DIMENSION, NEW height \in 1..MAX_DIMENSION
  PROVE  Resize(fb, width, height) \in Screens(width, height)
<1> DEFINE ds == ResizeDrawState(fb.ds, width, height)
           blank == NewRow(width, Background(fb), fb.next)
           Made(row) == IF width = fb.ds.width THEN row
                        ELSE RowResize(RowSetWrap(row, FALSE), width, Background(fb))
           rows == [y \in 0..height - 1 |-> IF y < fb.ds.height THEN Made(fb.rows[y]) ELSE blank]
           next == fb.next + 1
<1>1. ClampSize(width) = width /\ ClampSize(height) = height
  BY ScreenConstants DEF ClampSize, Clamp
<1>2. width \in Dimension /\ height \in Dimension
  BY ScreenConstants DEF Dimension
<1>3. Resize(fb, width, height) = [fb EXCEPT !.ds = ds, !.next = next, !.rows = rows]
  BY <1>1 DEF Resize
<1>4. ds \in Draws(width, height)
  BY <1>2, ScreenParts, ResizesDraw
<1>5. blank \in Row(width) /\ blank.gen = fb.next
  <2>1. Background(fb) \in Int /\ fb.next \in Int
    BY ScreenParts
  <2> QED  BY <1>2, <2>1, NewRows
<1>6. ASSUME NEW y \in 0..h - 1
      PROVE  Made(fb.rows[y]) \in Row(width) /\ Made(fb.rows[y]).gen = fb.rows[y].gen
  <2>1. fb.rows[y] \in Row(w) /\ Background(fb) \in Int /\ fb.ds.width = w
    BY ScreenParts
  <2>2. RowSetWrap(fb.rows[y], FALSE) \in Row(w)
        /\ RowSetWrap(fb.rows[y], FALSE).gen = fb.rows[y].gen
    BY <2>1, WrapsSet
  <2> DEFINE r == RowResize(RowSetWrap(fb.rows[y], FALSE), width, Background(fb))
  <2>3. r \in Row(width) /\ r.gen = fb.rows[y].gen
    BY <1>2, <2>1, <2>2, RowResizes
  <2> HIDE DEF r
  <2>4. Made(fb.rows[y]) = IF width = w THEN fb.rows[y] ELSE r
    BY <2>1 DEF r
  <2> HIDE DEF Made
  <2> QED  BY <2>1, <2>3, <2>4
<1> HIDE DEF Made, blank
<1>7. \A y \in 0..height - 1 : /\ rows[y] \in Row(width)
                              /\ \/ rows[y].gen = fb.next
                                 \/ y \in 0..h - 1 /\ rows[y].gen = fb.rows[y].gen
  <2> SUFFICES ASSUME NEW y \in 0..height - 1
               PROVE  /\ rows[y] \in Row(width)
                      /\ \/ rows[y].gen = fb.next
                         \/ y \in 0..h - 1 /\ rows[y].gen = fb.rows[y].gen
    OBVIOUS
  <2>1. rows[y] = IF y < h THEN Made(fb.rows[y]) ELSE blank
    BY ScreenParts
  <2>2. y < h => y \in 0..h - 1
    BY DEF Dimension
  <2> HIDE DEF rows
  <2> QED  BY <1>5, <1>6, <2>1, <2>2
<1>8. DOMAIN rows = 0..height - 1 /\ rows = [y \in 0..height - 1 |-> rows[y]]
  OBVIOUS
<1> HIDE DEF rows
<1>9. rows \in Rows(width, height)
  BY <1>7, <1>8 DEF Rows
<1>10. next \in Int /\ Dated(rows, next)
  <2>1. fb.next \in Int /\ \A y \in 0..h - 1 : fb.rows[y].gen < fb.next /\ fb.rows[y] \in Row(w)
    BY ScreenParts
  <2>2. \A y \in 0..h - 1 : fb.rows[y].gen \in Int
    BY <2>1, RowsWide
  <2>3. \A y \in 0..height - 1 : rows[y].gen < next
    BY <1>7, <2>1, <2>2
  <2> QED  BY <1>8, <2>1, <2>3 DEF Dated
<1> HIDE DEF ds, next
<1> QED  BY <1>3, <1>4, <1>9, <1>10 DEF Screens, Canvas

(* A new screen is whole.                                                  *)
LEMMA NewScreens ==
  ASSUME NEW width \in 1..MAX_DIMENSION, NEW height \in 1..MAX_DIMENSION
  PROVE  NewFramebuffer(width, height) \in Screens(width, height)
<1> DEFINE rows == [y \in 0..height - 1 |-> NewRow(width, 0, 0)]
           ds == NewDrawState(width, height)
<1>1. ClampSize(width) = width /\ ClampSize(height) = height
  BY ScreenConstants DEF ClampSize, Clamp
<1>2. width \in Dimension /\ height \in Dimension
  BY ScreenConstants DEF Dimension
<1>3. NewRow(width, 0, 0) \in Row(width) /\ NewRow(width, 0, 0).gen = 0
  BY <1>2, NewRows
<1>4. rows \in Rows(width, height) /\ Dated(rows, 1)
  BY <1>3 DEF Rows, Dated
<1>5. ds \in Draws(width, height)
  BY <1>2, NewDraw
<1>6. <<>> \in Text /\ <<>> \in Texts
  BY DEF Text, Texts
<1>7. NewFramebuffer(width, height) =
        [rows |-> rows, next |-> 1, icon_name |-> <<>>, window_title |-> <<>>,
         title_initialized |-> FALSE, clipboard |-> <<>>, clipboard_seq |-> 0,
         color_queries |-> <<>>, color_query_seq |-> 0, bell_count |-> 0, ds |-> ds]
  BY <1>1 DEF NewFramebuffer
<1> HIDE DEF rows, ds
<1> QED  BY <1>4, <1>5, <1>6, <1>7 DEF Screens, Canvas

(***************************************************************************)
(* The functions of the dispatcher.                                        *)
(***************************************************************************)
LEMMA ParamsAre ==
  ASSUME NEW p \in Text, NEW n \in Nat, NEW default \in Int
  PROVE  /\ GetParam(p, n, default) \in Int
         /\ default \in Nat => GetParam(p, n, default) \in Nat
BY DEF GetParam, Text

(* The functions that erase, whatever their parameters.                    *)
LEMMA Erases ==
  ASSUME NEW w \in Dimension, NEW h \in Dimension, NEW fb \in Screens(w, h), NEW p \in Text
  PROVE  /\ EraseInLine(fb, p) \in Screens(w, h)
         /\ EraseInDisplay(fb, p) \in Screens(w, h)
         /\ EraseCharacters(fb, p) \in Screens(w, h)
<1> DEFINE y == fb.ds.cursor_row
           x == fb.ds.cursor_col
<1>1. y \in 0..h - 1 /\ y \in Int /\ y + 1 \in Int /\ y - 1 \in Int /\ fb.ds.height - 1 \in Int
  BY ScreenParts DEF Dimension
<1>2. \A columns : \A g \in Screens(w, h) : ResetCells(g, y, columns) \in Screens(w, h)
  BY <1>1, ResetsCells
<1>3. \A g \in Screens(w, h), a \in Int, b \in Int : ResetRows(g, a, b) \in Screens(w, h)
  BY ResetsRows
<1>4. EraseCharacters(fb, p) \in Screens(w, h)
  BY <1>2, Zenon DEF EraseCharacters
<1>5. EraseInLine(fb, p) \in Screens(w, h)
  <2> HIDE DEF y, x
  <2> QED  BY <1>1, <1>2, <1>3 DEF EraseInLine, y, x
<1>6. EraseInDisplay(fb, p) \in Screens(w, h)
  <2>1. ResetRows(ResetCells(fb, y, x..fb.ds.width - 1), y + 1, fb.ds.height - 1) \in Screens(w, h)
    BY <1>1, <1>2, <1>3
  <2>2. ResetCells(ResetRows(fb, 0, y - 1), y, 0..x) \in Screens(w, h)
    BY <1>1, <1>2, <1>3
  <2>3. ResetRows(fb, 0, fb.ds.height - 1) \in Screens(w, h)
    BY <1>1, <1>3
  <2> QED  BY <2>1, <2>2, <2>3 DEF EraseInDisplay
<1> QED  BY <1>4, <1>5, <1>6

(* The functions that move the cursor, whatever their parameters.          *)
LEMMA MovesCursor ==
  ASSUME NEW w \in Dimension, NEW h \in Dimension, NEW fb \in Screens(w, h), NEW p \in Text,
         NEW name
  PROVE  CursorMove(fb, name, p) \in Screens(w, h)
<1> DEFINE n == GetParam(p, 0, 1)
           ds == CASE name = "CUU" -> MoveRow(fb.ds, -n, TRUE)
                   [] name = "CUD" -> MoveRow(fb.ds, n, TRUE)
                   [] name = "CUF" -> MoveCol(fb.ds, n, TRUE)
                   [] name = "CUB" -> MoveCol(fb.ds, -n, TRUE)
                   [] OTHER        -> MoveTo(fb.ds, n - 1, GetParam(p, 1, 1) - 1)
<1>1. n \in Int /\ -n \in Int /\ n - 1 \in Int /\ GetParam(p, 1, 1) - 1 \in Int
  <2>1. \A k \in Nat : GetParam(p, k, 1) \in Int
    BY ParamsAre
  <2>2. GetParam(p, 0, 1) \in Int /\ GetParam(p, 1, 1) \in Int
    BY <2>1
  <2> QED  BY <2>2
<1>2. fb.ds \in Draws(w, h)
  BY ScreenParts
<1>3. CursorMove(fb, name, p) = [fb EXCEPT !.ds = ds]
  BY DEF CursorMove
<1> HIDE DEF n
<1>4. ds \in Draws(w, h)
  BY <1>1, <1>2, MovesRow, MovesCol, MovesTo
<1> HIDE DEF ds
<1> QED  BY <1>3, <1>4, Redrawn

(* The alignment pattern fills the screen it is on.                        *)
LEMMA Aligns ==
  ASSUME NEW w \in Dimension, NEW h \in Dimension, NEW fb \in Screens(w, h)
  PROVE  ScreenAlignment(fb) \in Screens(w, h)
<1> DEFINE e == AppendTo(NewCell(Background(fb)), 69)
           cells(y) == [x \in DOMAIN fb.rows[y].cells |-> e]
           row(y) == [cells |-> cells(y), gen |-> fb.rows[y].gen]
           rows == [y \in DOMAIN fb.rows |-> row(y)]
<1>1. e \in Cell
  BY ScreenParts, NewCells, Appended
<1>2. ScreenAlignment(fb) = [fb EXCEPT !.rows = rows]
  BY DEF ScreenAlignment
<1> HIDE DEF e
<1>3. ASSUME NEW y \in 0..h - 1
      PROVE  row(y) \in Row(w) /\ row(y).gen = fb.rows[y].gen
  <2>1. fb.rows[y] \in Row(w)
    BY ScreenParts
  <2>2. cells(y) \in CellRow(w) /\ fb.rows[y].gen \in Int
    BY <1>1, <2>1, RowsWide DEF CellRow
  <2> HIDE DEF cells
  <2> QED  BY <2>2 DEF Row
<1> HIDE DEF row
<1>4. DOMAIN fb.rows = 0..h - 1 /\ \A y \in 0..h - 1 : fb.rows[y].gen < fb.next
  BY ScreenParts
<1>5. \A y \in 0..h - 1 : rows[y] = row(y)
  BY <1>4
<1>6. rows \in Rows(w, h) /\ Dated(rows, fb.next)
  BY <1>3, <1>4, <1>5 DEF Rows, Dated
<1> HIDE DEF rows
<1> QED  BY <1>2, <1>6, Touched

(* A carriage return.                                                      *)
LEMMA Returns ==
  ASSUME NEW w \in Dimension, NEW h \in Dimension, NEW fb \in Screens(w, h)
  PROVE  CarriageReturn(fb) \in Screens(w, h)
<1>1. fb.ds \in Draws(w, h)
  BY ScreenParts
<1>2. MoveCol(fb.ds, 0, FALSE) \in Draws(w, h)
  <2>1. 0 \in Int /\ FALSE \in BOOLEAN
    OBVIOUS
  <2>2. \A n \in Int, relative \in BOOLEAN : MoveCol(fb.ds, n, relative) \in Draws(w, h)
    BY <1>1, MovesCol
  <2> QED  BY <2>1, <2>2, Zenon
<1> QED  BY <1>2, Redrawn DEF CarriageReturn

(* Tabs, forward and back.                                                 *)
LEMMA Tabs ==
  ASSUME NEW w \in Dimension, NEW h \in Dimension, NEW fb \in Screens(w, h), NEW n \in Int
  PROVE  Tab(fb, n) \in Screens(w, h)
<1> DEFINE stop == NextTab(fb.ds, n)
           col == IF stop = -1 THEN fb.ds.width - 1 ELSE stop
           moved == MoveCol(fb.ds, col, FALSE)
           ds == [moved EXCEPT !.next_print_will_wrap = fb.ds.next_print_will_wrap]
<1>1. fb.ds \in Draws(w, h) /\ fb.ds.width - 1 \in Int
  BY ScreenParts DEF Dimension
<1>2. col \in Int
  BY <1>1, FindsTab
<1> HIDE DEF col
<1>3. moved \in Draws(w, h) /\ fb.ds.next_print_will_wrap \in BOOLEAN
  <2>1. moved \in Draws(w, h)
    BY <1>1, <1>2, MovesCol
  <2> QED  BY <1>1, <2>1 DEF Draws, Adrift
<1>4. Tab(fb, n) = [fb EXCEPT !.ds = ds]
  BY DEF Tab, col
<1> HIDE DEF moved
<1>5. ds \in Draws(w, h)
  BY <1>3 DEF Draws, Adrift, Ordered
<1> HIDE DEF ds
<1> QED  BY <1>4, <1>5, Redrawn

(* The functions that clear and set tab stops.                             *)
LEMMA ClearsTabs ==
  ASSUME NEW w \in Dimension, NEW h \in Dimension, NEW fb \in Screens(w, h), NEW p \in Text
  PROVE  /\ TabClear(fb, p) \in Screens(w, h)
         /\ [fb EXCEPT !.ds = SetTab(fb.ds)] \in Screens(w, h)
<1> DEFINE one == ClearTabs(fb.ds, {fb.ds.cursor_col})
           cleared == ClearTabs(fb.ds, 0..fb.ds.width - 1)
           none == [cleared EXCEPT !.default_tabs = FALSE]
<1>1. fb.ds \in Draws(w, h)
  BY ScreenParts
<1>2. one \in Draws(w, h) /\ cleared \in Draws(w, h) /\ SetTab(fb.ds) \in Draws(w, h)
  BY <1>1, SetsTabs
<1>3. TabClear(fb, p) = CASE GetParam(p, 0, 0) = 0 -> [fb EXCEPT !.ds = one]
                          [] GetParam(p, 0, 0) = 3 -> [fb EXCEPT !.ds = none]
                          [] OTHER -> fb
  BY DEF TabClear
<1> HIDE DEF one, cleared
<1>4. none \in Draws(w, h)
  BY <1>2 DEF Draws, Adrift, Ordered
<1> HIDE DEF none
<1> QED  BY <1>2, <1>3, <1>4, Redrawn

(* One field of the draw state set, and the bells counted.                 *)
LEMMA Sets ==
  ASSUME NEW w \in Dimension, NEW h \in Dimension, NEW fb \in Screens(w, h)
  PROVE  /\ \A r \in Rendition : [fb EXCEPT !.ds.renditions = r] \in Screens(w, h)
         /\ \A l \in Link : [fb EXCEPT !.ds.hyperlink = l] \in Screens(w, h)
         /\ \A n \in Int : /\ [fb EXCEPT !.ds.mouse_reporting_mode = n] \in Screens(w, h)
                          /\ [fb EXCEPT !.ds.mouse_encoding_mode = n] \in Screens(w, h)
         /\ \A b \in BOOLEAN : [fb EXCEPT !.ds.next_print_will_wrap = b] \in Screens(w, h)
         /\ [fb EXCEPT !.bell_count = fb.bell_count + 1] \in Screens(w, h)
<1>1. fb.ds \in Draws(w, h)
  BY ScreenParts
<1>2. /\ \A r \in Rendition : [fb.ds EXCEPT !.renditions = r] \in Draws(w, h)
      /\ \A l \in Link : [fb.ds EXCEPT !.hyperlink = l] \in Draws(w, h)
      /\ \A n \in Int : /\ [fb.ds EXCEPT !.mouse_reporting_mode = n] \in Draws(w, h)
                       /\ [fb.ds EXCEPT !.mouse_encoding_mode = n] \in Draws(w, h)
      /\ \A b \in BOOLEAN : [fb.ds EXCEPT !.next_print_will_wrap = b] \in Draws(w, h)
  BY <1>1 DEF Draws, Adrift, Ordered
<1>3. /\ \A r \in Rendition : [fb EXCEPT !.ds.renditions = r] \in Screens(w, h)
      /\ \A l \in Link : [fb EXCEPT !.ds.hyperlink = l] \in Screens(w, h)
      /\ \A b \in BOOLEAN : [fb EXCEPT !.ds.next_print_will_wrap = b] \in Screens(w, h)
  BY <1>2, Redrawn
<1>4. \A n \in Int : /\ [fb EXCEPT !.ds.mouse_reporting_mode = n] \in Screens(w, h)
                    /\ [fb EXCEPT !.ds.mouse_encoding_mode = n] \in Screens(w, h)
  BY <1>2, Redrawn
<1>5. [fb EXCEPT !.bell_count = fb.bell_count + 1] \in Screens(w, h)
  <2>1. fb.bell_count + 1 \in Int
    BY DEF Screens, Canvas
  <2> QED  BY <2>1 DEF Screens, Canvas
<1> QED  BY <1>3, <1>4, <1>5

(* The cursor moved.                                                       *)
LEMMA Moves ==
  ASSUME NEW w \in Dimension, NEW h \in Dimension, NEW fb \in Screens(w, h)
  PROVE  /\ \A n \in Int, relative \in BOOLEAN :
              /\ [fb EXCEPT !.ds = MoveRow(fb.ds, n, relative)] \in Screens(w, h)
              /\ [fb EXCEPT !.ds = MoveCol(fb.ds, n, relative)] \in Screens(w, h)
         /\ \A y \in Int, x \in Int : [fb EXCEPT !.ds = MoveTo(fb.ds, y, x)] \in Screens(w, h)
<1>1. fb.ds \in Draws(w, h)
  BY ScreenParts
<1>2. \A ds \in Draws(w, h) : [fb EXCEPT !.ds = ds] \in Screens(w, h)
  BY Redrawn
<1>3. \A n \in Int, relative \in BOOLEAN :
        MoveRow(fb.ds, n, relative) \in Draws(w, h) /\ MoveCol(fb.ds, n, relative) \in Draws(w, h)
  BY <1>1, MovesRow, MovesCol
<1>4. \A y \in Int, x \in Int : MoveTo(fb.ds, y, x) \in Draws(w, h)
  BY <1>1, MovesTo
<1> QED  BY <1>2, <1>3, <1>4, Zenon

(* A private mode, the ones that reset the screen or home the cursor       *)
(* included.                                                               *)
LEMMA SetsDecMode ==
  ASSUME NEW w \in Dimension, NEW h \in Dimension, NEW fb \in Screens(w, h),
         NEW param \in Int, NEW value \in BOOLEAN
  PROVE  SetDecMode(fb, param, value) \in Screens(w, h)
<1> DEFINE home == [fb EXCEPT !.ds = MoveTo(fb.ds, 0, 0)]
<1>1. home \in Screens(w, h)
  <2>1. 0 \in Int
    OBVIOUS
  <2> QED  BY <2>1, Moves, Zenon
<1>2. \A g \in Screens(w, h), mode \in Modes :
        [g EXCEPT !.ds = SetMode(g.ds, mode, value)] \in Screens(w, h)
  BY ScreenParts, SetsMode, Redrawn
<1>3. SetDecMode(fb, param, value) =
        CASE param = 3 -> ResetRows(home, 0, fb.ds.height - 1)
          [] param = 6 -> [home EXCEPT !.ds = SetMode(home.ds, "origin", value)]
          [] param \in DOMAIN ModeNames ->
               [fb EXCEPT !.ds = SetMode(fb.ds, ModeNames[param], value)]
          [] OTHER -> fb
  BY DEF SetDecMode
<1> HIDE DEF home
<1>4. ResetRows(home, 0, fb.ds.height - 1) \in Screens(w, h)
  <2>1. 0 \in Int /\ fb.ds.height - 1 \in Int
    BY ScreenParts DEF Dimension
  <2>2. \A a \in Int, b \in Int : ResetRows(home, a, b) \in Screens(w, h)
    BY <1>1, ResetsRows
  <2> QED  BY <2>1, <2>2, Zenon
<1>5. "origin" \in Modes /\ (param \in DOMAIN ModeNames => ModeNames[param] \in Modes)
  BY DEF Modes, ModeNames
<1> QED  BY <1>1, <1>2, <1>3, <1>4, <1>5

Change == [param : Int, value : BOOLEAN]

(* One parameter of a function that sets private modes.                    *)
LEMMA SetsPrivate ==
  ASSUME NEW w \in Dimension, NEW h \in Dimension, NEW fb \in Screens(w, h), NEW change \in Change
  PROVE  PrivateMode(fb, change) \in Screens(w, h)
<1> DEFINE code == IF change.value THEN change.param ELSE 0
<1>1. change.param \in Int /\ change.value \in BOOLEAN /\ code \in Int
  BY DEF Change
<1>2. SetDecMode(fb, change.param, change.value) \in Screens(w, h)
  BY <1>1, SetsDecMode
<1>3. /\ [fb EXCEPT !.ds.mouse_reporting_mode = code] \in Screens(w, h)
      /\ [fb EXCEPT !.ds.mouse_encoding_mode = code] \in Screens(w, h)
  BY <1>1, Sets
<1> QED  BY <1>2, <1>3 DEF PrivateMode

Private == INSTANCE FoldLemmas WITH Op <- PrivateMode

(* The fold over those parameters is the one the lemmas are about.         *)
LEMMA PrivateFolds == \A base, seq : Private!Folded(base, seq) = InTurn(PrivateMode, base, seq)
BY Zenon DEF InTurn, Private!InTurn, Private!Folded

(* The functions that set modes.                                           *)
LEMMA SetsModes ==
  ASSUME NEW w \in Dimension, NEW h \in Dimension, NEW fb \in Screens(w, h),
         NEW p \in Text, NEW value \in BOOLEAN
  PROVE  /\ PrivateModes(fb, p, value) \in Screens(w, h)
         /\ AnsiModes(fb, p, value) \in Screens(w, h)
<1> DEFINE changes == [i \in 1..Len(p) |-> [param |-> GetParam(p, i - 1, 0), value |-> value]]
<1>1. PrivateModes(fb, p, value) \in Screens(w, h)
  <2>1. changes \in Seq(Change)
    <3>1. Len(p) \in Nat
      BY DEF Text
    <3>2. \A k \in Nat : GetParam(p, k, 0) \in Int
      BY ParamsAre
    <3>3. \A i \in 1..Len(p) : GetParam(p, i - 1, 0) \in Int
      BY <3>1, <3>2
    <3>4. \A i \in 1..Len(p) : [param |-> GetParam(p, i - 1, 0), value |-> value] \in Change
      BY <3>3 DEF Change
    <3> QED  BY <3>1, <3>4
  <2>2. Private!Closed(Screens(w, h), Change)
    BY SetsPrivate, Zenon DEF Private!Closed
  <2>3. Private!Folded(fb, changes) \in Screens(w, h)
    BY <2>1, <2>2, Private!FoldedType, Zenon
  <2> QED  BY <2>3, PrivateFolds, Zenon DEF PrivateModes
<1>2. AnsiModes(fb, p, value) \in Screens(w, h)
  <2>1. "insert" \in Modes
    BY DEF Modes
  <2>2. SetMode(fb.ds, "insert", value) \in Draws(w, h)
    BY <2>1, ScreenParts, SetsMode
  <2> QED  BY <2>2, Redrawn DEF AnsiModes
<1> QED  BY <1>1, <1>2

(* The function that sets the scrolling region, whatever its parameters.   *)
LEMMA SetsMargins ==
  ASSUME NEW w \in Dimension, NEW h \in Dimension, NEW fb \in Screens(w, h), NEW p \in Text
  PROVE  SetMargins(fb, p) \in Screens(w, h)
<1> DEFINE top == GetParam(p, 0, 1)
           bottom == GetParam(p, 1, fb.ds.height)
           region == SetScrollingRegion(fb.ds, top - 1, bottom - 1)
<1>1. fb.ds \in Draws(w, h) /\ fb.ds.height = h /\ h \in Int
  BY ScreenParts DEF Dimension
<1>2. top \in Int /\ bottom \in Int
  <2>1. \A n \in Nat, d \in Int : GetParam(p, n, d) \in Int
    BY ParamsAre
  <2> QED  BY <1>1, <2>1
<1>3. SetMargins(fb, p) =
        IF bottom <= top \/ top > h THEN fb
        ELSE [fb EXCEPT !.ds = MoveTo(region, 0, 0)]
  BY <1>1 DEF SetMargins
<1>4. ASSUME ~ top > h
      PROVE  [fb EXCEPT !.ds = MoveTo(region, 0, 0)] \in Screens(w, h)
  <2> HIDE DEF top, bottom
  <2>1. \A a \in Int, b \in Int : a < h => SetScrollingRegion(fb.ds, a, b) \in Draws(w, h)
    BY <1>1, SetsRegion
  <2>2. top - 1 \in Int /\ bottom - 1 \in Int /\ top - 1 < h /\ 0 \in Int
    BY <1>1, <1>2, <1>4
  <2>3. region \in Draws(w, h)
    BY <2>1, <2>2, Zenon
  <2> HIDE DEF region
  <2>4. \A y \in Int, x \in Int : MoveTo(region, y, x) \in Draws(w, h)
    BY <2>3, MovesTo
  <2>5. MoveTo(region, 0, 0) \in Draws(w, h)
    BY <2>2, <2>4, Zenon
  <2> QED  BY <2>5, Redrawn
<1> QED  BY <1>3, <1>4, Zenon

(* Renditions.                                                             *)
LEMMA SetsColor ==
  ASSUME NEW r \in Rendition, NEW n \in Int
  PROVE  /\ SetForegroundColor(r, n) \in Rendition
         /\ SetBackgroundColor(r, n) \in Rendition
         /\ SetRendition(r, n) \in Rendition
<1>1. SetForegroundColor(r, n) \in Rendition /\ SetBackgroundColor(r, n) \in Rendition
  BY DEF SetForegroundColor, SetBackgroundColor, Rendition
<1>2. \A c \in Int : /\ [r EXCEPT !.foreground = c] \in Rendition
                    /\ [r EXCEPT !.background = c] \in Rendition
  BY DEF Rendition
<1>3. \A s \in Painted : [r EXCEPT !.attributes = s] \in Rendition
  BY DEF Rendition
<1>4. r.attributes \in Painted
  BY DEF Rendition
<1>5. n \in Attributes => r.attributes \cup {n} \in Painted
  BY <1>4 DEF Painted
<1>6. \A s : r.attributes \ s \in Painted
  BY <1>4 DEF Painted
<1>7. n - 90 + 38 \in Int /\ n - 100 + 48 \in Int /\ 0 \in Int
  OBVIOUS
<1>8. SetRendition(r, n) \in Rendition
  <2> DEFINE f0 == [r EXCEPT !.foreground = 0]
             b0 == [r EXCEPT !.background = 0]
             f1 == [r EXCEPT !.foreground = n]
             b1 == [r EXCEPT !.background = n]
             f2 == [r EXCEPT !.foreground = n - 90 + 38]
             b2 == [r EXCEPT !.background = n - 100 + 48]
             on == [r EXCEPT !.attributes = r.attributes \cup {n}]
             dim == [r EXCEPT !.attributes = r.attributes \ {1, 2}]
             off == [r EXCEPT !.attributes = r.attributes \ {n - 20}]
  <2>1. SetRendition(r, n) =
          CASE n = 0            -> Plain
            [] n = 39           -> f0
            [] n = 49           -> b0
            [] n \in 30..37     -> f1
            [] n \in 40..47     -> b1
            [] n \in 90..97     -> f2
            [] n \in 100..107   -> b2
            [] n \in Attributes -> on
            [] n = 22           -> dim
            [] n \in 23..29     -> off
            [] OTHER            -> r
    BY DEF SetRendition
  <2>2. /\ f0 \in Rendition /\ b0 \in Rendition /\ f1 \in Rendition /\ b1 \in Rendition
        /\ f2 \in Rendition /\ b2 \in Rendition
    BY <1>2, <1>7
  <2>3. (n \in Attributes => on \in Rendition) /\ dim \in Rendition /\ off \in Rendition
    BY <1>3, <1>5, <1>6
  <2> HIDE DEF f0, b0, f1, b1, f2, b2, on, dim, off
  <2> QED  BY <2>1, <2>2, <2>3, PlainRendition
<1> QED  BY <1>1, <1>8

Taking == [at : Nat, r : Rendition]

(* One parameter of a rendition, or one of several that make a color.      *)
LEMMA TakesSgr ==
  ASSUME NEW acc \in Taking, NEW p \in Text
  PROVE  SgrStep(acc, p) \in Taking
<1> DEFINE i == acc.at
           code == GetParam(p, i, 0)
           Set(r, c) == IF code = 38 THEN SetForegroundColor(r, c) ELSE SetBackgroundColor(r, c)
           n == GetParam(p, i + 2, 0)
           c == MakeTrueColor(GetParam(p, i + 2, 0), GetParam(p, i + 3, 0), GetParam(p, i + 4, 0))
           three == [at |-> i + 3, r |-> Set(acc.r, n)]
           five == [at |-> i + 5, r |-> Set(acc.r, c)]
           one == [at |-> i + 1, r |-> SetRendition(acc.r, code)]
<1>1. i \in Nat /\ acc.r \in Rendition
  BY DEF Taking
<1>2. \A k \in Nat : GetParam(p, k, 0) \in Int
  BY ParamsAre
<1>3. code \in Int /\ n \in Int /\ c \in Int
  <2>1. i \in Nat /\ i + 2 \in Nat /\ i + 3 \in Nat /\ i + 4 \in Nat
    BY <1>1
  <2>2. code \in Int /\ n \in Int /\ GetParam(p, i + 3, 0) \in Int /\ GetParam(p, i + 4, 0) \in Int
    BY <1>2, <2>1
  <2> QED  BY <2>2 DEF MakeTrueColor, TRUE_COLOR_MASK
<1> HIDE DEF n, c
<1>4. Set(acc.r, n) \in Rendition /\ Set(acc.r, c) \in Rendition /\ SetRendition(acc.r, code) \in Rendition
  BY <1>1, <1>3, SetsColor
<1>5. SgrStep(acc, p) \in {acc, three, five, one}
  BY Zenon DEF SgrStep, n, c
<1> HIDE DEF Set, code, i
<1>6. three \in Taking /\ five \in Taking /\ one \in Taking
  BY <1>1, <1>4 DEF Taking
<1> QED  BY <1>5, <1>6

SgrTaken == INSTANCE FoldLemmas WITH Op <- SgrStep

(* The fold over those parameters is the one the lemmas are about.         *)
LEMMA SgrFolds == \A base, seq : SgrTaken!Folded(base, seq) = InTurn(SgrStep, base, seq)
BY Zenon DEF InTurn, SgrTaken!InTurn, SgrTaken!Folded

(* The function that sets renditions.                                      *)
LEMMA SelectsGraphics ==
  ASSUME NEW w \in Dimension, NEW h \in Dimension, NEW fb \in Screens(w, h), NEW p \in Text
  PROVE  SelectGraphics(fb, p) \in Screens(w, h)
<1> DEFINE base == [at |-> 0, r |-> fb.ds.renditions]
           steps == [i \in 1..Len(p) |-> p]
           taken == InTurn(SgrStep, base, steps)
<1>1. base \in Taking /\ steps \in Seq(Text)
  <2>1. Len(p) \in Nat
    BY DEF Text
  <2>2. fb.ds.renditions \in Rendition
    BY ScreenParts
  <2> QED  BY <2>1, <2>2 DEF Taking
<1>2. SgrTaken!Closed(Taking, Text)
  BY TakesSgr, Zenon DEF SgrTaken!Closed
<1>3. SgrTaken!Folded(base, steps) \in Taking
  BY <1>1, <1>2, SgrTaken!FoldedType, Zenon
<1>4. taken \in Taking
  BY <1>3, SgrFolds, Zenon
<1>5. taken.r \in Rendition
  <2> HIDE DEF taken
  <2> QED  BY <1>4 DEF Taking
<1>6. SelectGraphics(fb, p) = [fb EXCEPT !.ds.renditions = taken.r]
  BY DEF SelectGraphics
<1> HIDE DEF taken
<1>7. \A r \in Rendition : [fb EXCEPT !.ds.renditions = r] \in Screens(w, h)
  BY Sets
<1> QED  BY <1>5, <1>6, <1>7, Zenon

(* The functions that insert and delete lines at the cursor.               *)
LEMMA ShiftsLines ==
  ASSUME NEW w \in Dimension, NEW h \in Dimension, NEW fb \in Screens(w, h), NEW p \in Text
  PROVE  /\ InsertLines(fb, p) \in Screens(w, h)
         /\ DeleteLines(fb, p) \in Screens(w, h)
<1>1. fb.ds.cursor_row \in 0..h - 1 /\ GetParam(p, 0, 1) \in Int
  <2>1. \A n \in Nat, d \in Int : GetParam(p, n, d) \in Int
    BY ParamsAre
  <2> QED  BY <2>1, ScreenParts
<1>2. \A y \in 0..h - 1, n \in Int :
        InsertLine(fb, y, n) \in Screens(w, h) /\ DeleteLine(fb, y, n) \in Screens(w, h)
  BY InsertsLine, DeletesLine
<1>3. /\ InsertLine(fb, fb.ds.cursor_row, GetParam(p, 0, 1)) \in Screens(w, h)
      /\ DeleteLine(fb, fb.ds.cursor_row, GetParam(p, 0, 1)) \in Screens(w, h)
  BY <1>1, <1>2, Zenon
<1> QED  BY <1>3, Returns DEF InsertLines, DeleteLines

(***************************************************************************)
(* Parameters and operating system commands.                               *)
(***************************************************************************)
(* What Fields makes: some strings, one at least.                          *)
SomeTexts == {f \in Texts : f # <<>>}

FieldsMade == INSTANCE FoldLemmas WITH Op <- AddToField
NumberMade == INSTANCE FoldLemmas WITH Op <- AddDigit

(* The folds over a parameter string's characters and a field's digits are *)
(* those the lemmas are about.                                             *)
LEMMA FieldsFolds == \A base, seq : FieldsMade!Folded(base, seq) = InTurn(AddToField, base, seq)
BY Zenon DEF InTurn, FieldsMade!InTurn, FieldsMade!Folded

(* The second of the two.                                                  *)
LEMMA NumberFolds == \A base, seq : NumberMade!Folded(base, seq) = InTurn(AddDigit, base, seq)
BY Zenon DEF InTurn, NumberMade!InTurn, NumberMade!Folded

(* A string split at its semicolons is a sequence of strings.              *)
LEMMA Splits ==
  ASSUME NEW s \in Text
  PROVE  Fields(s) \in SomeTexts
<1>1. ASSUME NEW f \in SomeTexts, NEW ch \in Int
      PROVE  AddToField(f, ch) \in SomeTexts
  <2>1. <<>> \in Text /\ f \in Seq(Text) /\ Len(f) \in 1..Len(f) /\ f[Len(f)] \in Text
    BY DEF SomeTexts, Texts, Text
  <2>2. Append(f, <<>>) \in SomeTexts
    <3>1. Append(f, <<>>) \in Seq(Text) /\ Len(Append(f, <<>>)) > 0
      BY <2>1
    <3> QED  BY <3>1 DEF SomeTexts, Texts
  <2>3. Append(f[Len(f)], ch) \in Text
    BY <2>1 DEF Text
  <2> DEFINE last_one == Append(f[Len(f)], ch)
             g == [f EXCEPT ![Len(f)] = last_one]
  <2>4. AddToField(f, ch) = IF ch = 59 THEN Append(f, <<>>) ELSE g
    BY DEF AddToField
  <2> HIDE DEF last_one
  <2>5. g \in Seq(Text) /\ Len(g) = Len(f)
    BY <2>1, <2>3, ExceptSeq DEF last_one
  <2>6. g \in SomeTexts
    <3> HIDE DEF g
    <3> QED  BY <2>1, <2>5 DEF SomeTexts, Texts
  <2> QED  BY <2>2, <2>4, <2>6
<1>2. <<<<>>>> \in SomeTexts
  <2>1. <<>> \in Text
    BY DEF Text
  <2> QED  BY <2>1 DEF SomeTexts, Texts
<1>3. FieldsMade!Closed(SomeTexts, Int)
  BY <1>1, Zenon DEF FieldsMade!Closed
<1>4. s \in Seq(Int)
  BY DEF Text
<1>5. FieldsMade!Folded(<<<<>>>>, s) \in SomeTexts
  BY <1>2, <1>3, <1>4, FieldsMade!FoldedType, Zenon
<1> QED  BY <1>5, FieldsFolds, Zenon DEF Fields

(* A field is read as a number.                                            *)
LEMMA Parses ==
  ASSUME NEW s \in Text
  PROVE  Number(s) \in Int
<1>1. ASSUME NEW v \in Int, NEW digit \in Int
      PROVE  AddDigit(v, digit) \in Int
  BY DEF AddDigit
<1>2. NumberMade!Closed(Int, Int) /\ 0 \in Int /\ -1 \in Int
  <2>1. NumberMade!Closed(Int, Int)
    BY <1>1, Zenon DEF NumberMade!Closed
  <2> QED  BY <2>1
<1>3. s \in Seq(Int)
  BY DEF Text
<1>4. NumberMade!Folded(0, s) \in Int
  BY <1>2, <1>3, NumberMade!FoldedType, Zenon
<1> DEFINE value == InTurn(AddDigit, 0, s)
<1>5. value \in Int
  BY <1>4, NumberFolds, Zenon
<1> HIDE DEF value
<1> QED  BY <1>2, <1>5, Zenon DEF Number, value

(* Parameters are numbers, whatever was collected.                         *)
LEMMA ParsesParams ==
  ASSUME NEW d, d.params \in Text
  PROVE  ParsedParams(d) \in Text
<1> DEFINE f == Fields(d.params)
<1>1. f \in Seq(Text)
  BY Splits DEF SomeTexts, Texts
<1>2. ParsedParams(d) = [i \in DOMAIN f |-> Number(f[i])]
  BY DEF ParsedParams
<1> HIDE DEF f
<1>3. DOMAIN f = 1..Len(f) /\ Len(f) \in Nat /\ \A i \in 1..Len(f) : f[i] \in Text
  BY <1>1
<1>4. \A i \in 1..Len(f) : Number(f[i]) \in Int
  BY <1>3, Parses
<1> QED  BY <1>2, <1>3, <1>4 DEF Text

(* A piece of a text.                                                      *)
LEMMA Pieced ==
  ASSUME NEW s \in Text, NEW m \in Nat \ {0}, NEW n \in Int, n <= Len(s)
  PROVE  SubSeq(s, m, n) \in Text
<1>1. \A i \in m..n : s[i] \in Int
  BY DEF Text
<1> QED  BY <1>1, SubSeqProperties DEF Text

(* A link opened or closed.                                                *)
LEMMA OpensLink ==
  ASSUME NEW w \in Dimension, NEW h \in Dimension, NEW fb \in Screens(w, h), NEW osc \in Text
  PROVE  Osc8(fb, osc) \in Screens(w, h)
<1> DEFINE f == Fields(osc)
           params == f[2]
           url == SubSeq(osc, Len(params) + 4, Len(osc))
           link == IF url = <<>> THEN NoLink ELSE [params |-> params, url |-> url]
<1>1. f \in Seq(Text)
  BY Splits DEF SomeTexts, Texts
<1>2. Osc8(fb, osc) =
        IF Len(f) < 3 \/ \E i \in DOMAIN osc : osc[i] \notin 32..126 THEN fb
        ELSE [fb EXCEPT !.ds.hyperlink = link]
  BY DEF Osc8
<1>3. ASSUME ~ Len(f) < 3
      PROVE  link \in Link
  <2> HIDE DEF f
  <2>1. params \in Text
    BY <1>1, <1>3
  <2>2. Len(params) + 4 \in Nat \ {0} /\ Len(osc) \in Int /\ Len(osc) <= Len(osc)
    BY <2>1 DEF Text
  <2>3. url \in Text
    BY <2>2, Pieced
  <2> QED  BY <2>1, <2>3 DEF Link
<1> HIDE DEF f, link
<1>4. \A l \in Link : [fb EXCEPT !.ds.hyperlink = l] \in Screens(w, h)
  BY Sets
<1> QED  BY <1>2, <1>3, <1>4, Zenon

(* Titles set.                                                             *)
LEMMA SetsTitles ==
  ASSUME NEW w \in Dimension, NEW h \in Dimension, NEW fb \in Screens(w, h), NEW osc \in Text
  PROVE  SetTitles(fb, osc) \in Screens(w, h)
<1> DEFINE cmd == OscCommand(osc)
           end == IF Len(osc) > MAX_TITLE THEN MAX_TITLE ELSE Len(osc)
           title == SubSeq(osc, cmd.offset + 1, end)
           icon == IF cmd.number \in {0, 1} THEN title ELSE fb.icon_name
           window == IF cmd.number \in {0, 2} THEN title ELSE fb.window_title
<1>1. cmd.offset + 1 \in Nat \ {0}
  BY DEF OscCommand
<1>2. end \in Int /\ end <= Len(osc)
  BY DispatcherConstants DEF Text
<1>3. SetTitles(fb, osc) =
        IF cmd.number \notin {0, 1, 2} THEN fb
        ELSE [fb EXCEPT !.title_initialized = TRUE, !.icon_name = icon, !.window_title = window]
  BY DEF SetTitles
<1> HIDE DEF cmd, end
<1>4. title \in Text
  BY <1>1, <1>2, Pieced
<1> HIDE DEF title
<1>5. icon \in Text /\ window \in Text
  BY <1>4 DEF Screens, Canvas
<1> HIDE DEF icon, window
<1> QED  BY <1>3, <1>5 DEF Screens, Canvas

(* A command to the operating system, whatever its text.                   *)
LEMMA RunsOsc ==
  ASSUME NEW w \in Dimension, NEW h \in Dimension, NEW fb \in Screens(w, h), NEW osc \in Text
  PROVE  OscDispatch(fb, osc) \in Screens(w, h)
<1>1. SubSeq(osc, 6, Len(osc)) \in Text
  <2>1. 6 \in Nat \ {0} /\ Len(osc) \in Int /\ Len(osc) <= Len(osc)
    BY DEF Text
  <2> QED  BY <2>1, Pieced
<1>2. SetClipboard(fb, SubSeq(osc, 6, Len(osc))) \in Screens(w, h)
  BY <1>1, TakesClipboard
<1> QED  BY <1>2, TakesClipboard, OpensLink, SetsTitles, Zenon DEF OscDispatch

(***************************************************************************)
(* Any function, with any parameters.                                      *)
(***************************************************************************)
LEMMA Performs ==
  ASSUME NEW w \in Dimension, NEW h \in Dimension, NEW fb \in Screens(w, h),
         NEW name, NEW p \in Text
  PROVE  Perform(fb, name, p) \in Screens(w, h)
<1>1. /\ GetParam(p, 0, 1) \in Nat /\ GetParam(p, 0, 1) \in Int
      /\ -GetParam(p, 0, 1) \in Int /\ GetParam(p, 0, 1) - 1 \in Int
  <2>1. 0 \in Nat /\ 1 \in Int /\ 1 \in Nat
    OBVIOUS
  <2>2. GetParam(p, 0, 1) \in Nat
    BY <2>1, ParamsAre
  <2> QED  BY <2>2
<1>2. /\ -1 \in Int /\ 1 \in Int /\ TRUE \in BOOLEAN /\ FALSE \in BOOLEAN
      /\ fb.ds.cursor_row \in 0..h - 1 /\ fb.ds.cursor_col \in 0..w - 1
  BY ScreenParts
<1>3. /\ EraseInLine(fb, p) \in Screens(w, h) /\ EraseInDisplay(fb, p) \in Screens(w, h)
      /\ EraseCharacters(fb, p) \in Screens(w, h) /\ ScreenAlignment(fb) \in Screens(w, h)
      /\ CursorMove(fb, name, p) \in Screens(w, h)
  BY Erases, Aligns, MovesCursor
<1>4. /\ CarriageReturn(fb) \in Screens(w, h)
      /\ \A g \in Screens(w, h), n \in Int : /\ MoveRowsAutoscroll(g, n) \in Screens(w, h)
                                          /\ Scroll(g, n) \in Screens(w, h)
                                          /\ Tab(g, n) \in Screens(w, h)
  BY Returns, Autoscrolls, Scrolls, Tabs
<1>5. /\ [fb EXCEPT !.ds = MoveCol(fb.ds, -1, TRUE)] \in Screens(w, h)
      /\ [fb EXCEPT !.ds = MoveRow(fb.ds, GetParam(p, 0, 1) - 1, FALSE)] \in Screens(w, h)
      /\ [fb EXCEPT !.ds = MoveCol(fb.ds, GetParam(p, 0, 1) - 1, FALSE)] \in Screens(w, h)
  BY <1>1, <1>2, Moves, Zenon
<1>6. /\ [fb EXCEPT !.ds = SetTab(fb.ds)] \in Screens(w, h) /\ TabClear(fb, p) \in Screens(w, h)
      /\ [fb EXCEPT !.ds = SaveCursor(fb.ds)] \in Screens(w, h)
      /\ [fb EXCEPT !.ds = RestoreCursor(fb.ds)] \in Screens(w, h)
  <2>1. SaveCursor(fb.ds) \in Draws(w, h) /\ RestoreCursor(fb.ds) \in Draws(w, h)
    BY ScreenParts, SavesCursor, RestoresCursor
  <2> QED  BY <2>1, ClearsTabs, Redrawn
<1>7. \A value \in BOOLEAN :
        PrivateModes(fb, p, value) \in Screens(w, h) /\ AnsiModes(fb, p, value) \in Screens(w, h)
  BY SetsModes
<1>8. /\ SetMargins(fb, p) \in Screens(w, h) /\ SelectGraphics(fb, p) \in Screens(w, h)
      /\ InsertLines(fb, p) \in Screens(w, h) /\ DeleteLines(fb, p) \in Screens(w, h)
      /\ Reset(fb) \in Screens(w, h) /\ SoftReset(fb) \in Screens(w, h)
      /\ [fb EXCEPT !.bell_count = fb.bell_count + 1] \in Screens(w, h)
  BY SetsMargins, SelectsGraphics, ShiftsLines, Resets, SoftResets, Sets
<1>9. /\ InsertCells(fb, fb.ds.cursor_row, fb.ds.cursor_col, GetParam(p, 0, 1)) \in Screens(w, h)
      /\ DeleteCells(fb, fb.ds.cursor_row, fb.ds.cursor_col, GetParam(p, 0, 1)) \in Screens(w, h)
  BY <1>1, <1>2, ShiftsCells
<1>10. /\ MoveRowsAutoscroll(fb, 1) \in Screens(w, h) /\ MoveRowsAutoscroll(fb, -1) \in Screens(w, h)
       /\ MoveRowsAutoscroll(CarriageReturn(fb), 1) \in Screens(w, h)
       /\ Tab(fb, 1) \in Screens(w, h) /\ Tab(fb, GetParam(p, 0, 1)) \in Screens(w, h)
       /\ Tab(fb, -GetParam(p, 0, 1)) \in Screens(w, h)
       /\ Scroll(fb, GetParam(p, 0, 1)) \in Screens(w, h)
       /\ Scroll(fb, -GetParam(p, 0, 1)) \in Screens(w, h)
  BY <1>1, <1>2, <1>4, Zenon
<1>11. /\ PrivateModes(fb, p, TRUE) \in Screens(w, h) /\ PrivateModes(fb, p, FALSE) \in Screens(w, h)
       /\ AnsiModes(fb, p, TRUE) \in Screens(w, h) /\ AnsiModes(fb, p, FALSE) \in Screens(w, h)
  BY <1>2, <1>7, Zenon
<1> QED  BY <1>3, <1>4, <1>5, <1>6, <1>8, <1>9, <1>10, <1>11 DEF Perform

(* Every function of the dispatch table, and one it does not know, leaves  *)
(* the screen whole.                                                       *)
LEMMA Dispatches ==
  ASSUME NEW w \in Dimension, NEW h \in Dimension, NEW fb \in Screens(w, h),
         NEW name, NEW p \in Text
  PROVE  Dispatch(fb, name, p) \in Screens(w, h)
<1>1. \A b \in BOOLEAN : [fb EXCEPT !.ds.next_print_will_wrap = b] \in Screens(w, h)
  BY Sets
<1>2. [fb EXCEPT !.ds.next_print_will_wrap = FALSE] \in Screens(w, h)
  BY <1>1
<1>3. \A g \in Screens(w, h) : Perform(g, name, p) \in Screens(w, h)
  BY Performs
<1> QED  BY <1>2, <1>3, Zenon DEF Dispatch

(***************************************************************************)
(* Printing.                                                               *)
(***************************************************************************)
LEMMA Wraps ==
  ASSUME NEW w \in Dimension, NEW h \in Dimension, NEW fb \in Screens(w, h), NEW chwidth
  PROVE  Wrapped(fb, chwidth) \in Screens(w, h)
<1> DEFINE y == fb.ds.cursor_row
           x == fb.ds.cursor_col
           row == RowSetWrap(fb.rows[y], TRUE)
           kept == [fb EXCEPT !.rows[y] = row]
<1>1. \A g \in Screens(w, h) : NextLine(g) \in Screens(w, h)
  <2>1. 0 \in Int /\ 1 \in Int /\ FALSE \in BOOLEAN
    OBVIOUS
  <2>2. \A g \in Screens(w, h) : [g EXCEPT !.ds = MoveCol(g.ds, 0, FALSE)] \in Screens(w, h)
    BY <2>1, Moves, Zenon
  <2>3. \A g \in Screens(w, h) : MoveRowsAutoscroll(g, 1) \in Screens(w, h)
    BY <2>1, Autoscrolls
  <2> QED  BY <2>2, <2>3, Zenon DEF NextLine
<1>2. y \in 0..h - 1 /\ fb.rows[y] \in Row(w) /\ TRUE \in BOOLEAN
  BY ScreenParts
<1>3. kept \in Screens(w, h)
  <2>1. row \in Row(w) /\ row.gen = fb.rows[y].gen
    BY <1>2, WrapsSet
  <2> HIDE DEF row
  <2> QED  BY <1>2, <2>1, RowReplaced
<1>4. ResetCells(fb, y, {x}) \in Screens(w, h)
  BY <1>2, ResetsCells
<1> QED  BY <1>1, <1>3, <1>4, Zenon DEF Wrapped

(* A cell put at the cursor, the next one too when it is wide.             *)
LEMMA PutsAtCursor ==
  ASSUME NEW w \in Dimension, NEW h \in Dimension, NEW fb \in Screens(w, h),
         NEW cell \in Cell, NEW chwidth \in 1..2
  PROVE  PutAtCursor(fb, cell, chwidth) \in Screens(w, h)
<1> DEFINE y == fb.ds.cursor_row
           x == fb.ds.cursor_col
           opened == IF "insert" \in fb.ds.modes THEN InsertCells(fb, y, x, chwidth) ELSE fb
           placed == SetCell(opened, y, x, cell)
           put == IF chwidth = 2 THEN ResetCells(placed, y, {x + 1}) ELSE placed
<1>1. y \in 0..h - 1 /\ x \in 0..w - 1 /\ chwidth \in Nat /\ chwidth \in Int
  BY ScreenParts
<1>2. opened \in Screens(w, h)
  BY <1>1, ShiftsCells
<1> HIDE DEF opened
<1>3. placed \in Screens(w, h)
  BY <1>1, <1>2, SetsCell
<1> HIDE DEF placed
<1>4. put \in Screens(w, h)
  BY <1>1, <1>3, ResetsCells
<1>5. PutAtCursor(fb, cell, chwidth) = [put EXCEPT !.ds = MoveColImplicit(put.ds, chwidth)]
  BY DEF PutAtCursor, placed, opened
<1> HIDE DEF put
<1>6. MoveColImplicit(put.ds, chwidth) \in Draws(w, h)
  BY <1>1, <1>4, ScreenParts, MovesOn
<1> QED  BY <1>4, <1>5, <1>6, Redrawn

(* A character that takes cells, with the wrap and the scroll it may need  *)
(* first.                                                                  *)
LEMMA PrintsBase ==
  ASSUME NEW w \in Dimension, NEW h \in Dimension, NEW fb \in Screens(w, h),
         NEW ch \in Int, NEW chwidth \in 1..2
  PROVE  PrintBase(fb, ch, chwidth) \in Screens(w, h)
<1> DEFINE blank == AppendTo(NewCell(Background(fb)), ch)
           cell == [blank EXCEPT !.wide = chwidth = 2,
                                 !.renditions = fb.ds.renditions, !.hyperlink = fb.ds.hyperlink]
<1>1. Background(fb) \in Int /\ fb.ds.renditions \in Rendition /\ fb.ds.hyperlink \in Link
  BY ScreenParts
<1>2. blank \in Cell
  BY <1>1, NewCells, Appended
<1>3. PrintBase(fb, ch, chwidth) = PutAtCursor(Wrapped(fb, chwidth), cell, chwidth)
  BY DEF PrintBase
<1> HIDE DEF blank
<1>4. cell \in Cell
  BY <1>1, <1>2 DEF Cell
<1> HIDE DEF cell
<1>5. \A g \in Screens(w, h) : PutAtCursor(g, cell, chwidth) \in Screens(w, h)
  BY <1>4, PutsAtCursor
<1> QED  BY <1>3, <1>5, Wraps

(* A combining character, with no cell to join as well.                    *)
LEMMA PrintsCombining ==
  ASSUME NEW w \in Dimension, NEW h \in Dimension, NEW fb \in Screens(w, h), NEW ch \in Int
  PROVE  PrintCombining(fb, ch) \in Screens(w, h)
<1> DEFINE y == fb.ds.combining_char_row
           x == fb.ds.combining_char_col
           cell == CellAt(fb, y, x)
           joined == IF IsFull(cell) THEN cell ELSE AppendTo(cell, ch)
           fallen == [joined EXCEPT !.fallback = TRUE]
           set == SetCell(fb, y, x, fallen)
<1>1. PrintCombining(fb, ch) =
        IF ~ HasCombiningCell(fb) THEN fb
        ELSE IF IsEmpty(cell) THEN [set EXCEPT !.ds = MoveColImplicit(set.ds, 1)]
        ELSE SetCell(fb, y, x, joined)
  BY DEF PrintCombining
<1>2. ASSUME HasCombiningCell(fb)
      PROVE  /\ [set EXCEPT !.ds = MoveColImplicit(set.ds, 1)] \in Screens(w, h)
             /\ SetCell(fb, y, x, joined) \in Screens(w, h)
  <2>1. y \in 0..h - 1 /\ x \in 0..w - 1
    BY <1>2, ScreenParts DEF HasCombiningCell
  <2>2. cell \in Cell
    <3>1. fb.rows[y] \in Row(w)
      BY <2>1, ScreenParts
    <3> QED  BY <2>1, <3>1, RowsWide DEF CellAt
  <2> HIDE DEF cell
  <2>3. joined \in Cell
    BY <2>2, Appended
  <2> HIDE DEF joined
  <2>4. fallen \in Cell
    BY <2>3 DEF Cell
  <2> HIDE DEF fallen, y, x
  <2>5. set \in Screens(w, h) /\ SetCell(fb, y, x, joined) \in Screens(w, h)
    BY <2>1, <2>3, <2>4, SetsCell
  <2> HIDE DEF set
  <2>6. MoveColImplicit(set.ds, 1) \in Draws(w, h)
    <3>1. \A n \in Int : MoveColImplicit(set.ds, n) \in Draws(w, h)
      BY <2>5, ScreenParts, MovesOn
    <3> QED  BY <3>1
  <2> QED  BY <2>5, <2>6, Redrawn
<1> QED  BY <1>1, <1>2, Zenon

(* Any character.                                                          *)
LEMMA PrintsChar ==
  ASSUME NEW w \in Dimension, NEW h \in Dimension, NEW fb \in Screens(w, h), NEW ch \in Int
  PROVE  PrintChar(fb, ch) \in Screens(w, h)
<1>1. \A n \in 1..2 : PrintBase(fb, ch, n) \in Screens(w, h)
  BY PrintsBase
<1>2. {1, 2} = 1..2
  OBVIOUS
<1>3. CharWidth(ch) \in {1, 2} => PrintBase(fb, ch, CharWidth(ch)) \in Screens(w, h)
  BY <1>1, <1>2
<1> QED  BY <1>3, PrintsCombining, Zenon DEF PrintChar

Names == {"print", "OSC", "ST", "CR", "LF", "BS", "DECSM", "DECRM", "CUP", "SGR", "DECSTBM",
          "ED", "EL", "ECH", "BEL"}
Function == [name : Names, p : Text]

Printed == INSTANCE FoldLemmas WITH Op <- PrintChar
Called == INSTANCE FoldLemmas WITH Op <- Call

(* The folds over printed characters and over functions are those the      *)
(* lemmas are about.                                                       *)
LEMMA PrintFolds == \A base, seq : Printed!Folded(base, seq) = InTurn(PrintChar, base, seq)
BY Zenon DEF InTurn, Printed!InTurn, Printed!Folded

(* The second of the two.                                                  *)
LEMMA CallFolds == \A base, seq : Called!Folded(base, seq) = InTurn(Call, base, seq)
BY Zenon DEF InTurn, Called!InTurn, Called!Folded

(* One function called on a terminal.                                      *)
LEMMA Calls ==
  ASSUME NEW w \in Dimension, NEW h \in Dimension, NEW fb \in Screens(w, h), NEW f \in Function
  PROVE  Call(fb, f) \in Screens(w, h)
<1>1. f.p \in Text /\ f.p \in Seq(Int)
  BY DEF Function, Text
<1>2. Printed!Closed(Screens(w, h), Int)
  BY PrintsChar, Zenon DEF Printed!Closed
<1>3. Printed!Folded(fb, f.p) \in Screens(w, h)
  BY <1>1, <1>2, Printed!FoldedType, Zenon
<1>4. InTurn(PrintChar, fb, f.p) \in Screens(w, h)
  BY <1>3, PrintFolds, Zenon
<1> QED  BY <1>1, <1>4, RunsOsc, Dispatches, Zenon DEF Call

(* Functions called one after another.                                     *)
LEMMA Runs ==
  ASSUME NEW w \in Dimension, NEW h \in Dimension, NEW fb \in Screens(w, h),
         NEW functions \in Seq(Function)
  PROVE  Run(fb, functions) \in Screens(w, h)
<1>1. Called!Closed(Screens(w, h), Function)
  BY Calls, Zenon DEF Called!Closed
<1>2. Called!Folded(fb, functions) \in Screens(w, h)
  BY <1>1, Called!FoldedType, Zenon
<1> QED  BY <1>2, CallFolds, Zenon DEF Run

(***************************************************************************)
(* The emulator.                                                           *)
(***************************************************************************)
Answers ==
  Seq([answer : {"vt220", "version", "ok"}] \cup [answer : {"cursor"}, row : Int, col : Int])

ShortTexts(n) == {t \in Text : Len(t) <= n}

Dispatchers ==
  [params : ShortTexts(MAX_PARAM_BYTES), chars : ShortTexts(MAX_DISPATCH_CHARS),
   osc_string : Text, terminal_to_host : Answers]

Emulators(w, h) == [fb : Screens(w, h), dispatch : Dispatchers, parser : Parsers]

(* What the dispatcher collects is cut at its limits.                      *)
LEMMA Collects ==
  ASSUME NEW d \in Dispatchers
  PROVE  /\ \A ch \in Int : /\ NewParamChar(d, ch) \in Dispatchers
                           /\ Collect(d, ch) \in Dispatchers
                           /\ OscPut(d, ch) \in Dispatchers
         /\ Clear(d) \in Dispatchers /\ OscStart(d) \in Dispatchers
<1>1. /\ d.params \in ShortTexts(MAX_PARAM_BYTES) /\ d.chars \in ShortTexts(MAX_DISPATCH_CHARS)
      /\ d.osc_string \in Text
  BY DEF Dispatchers
<1>2. ASSUME NEW n \in Nat
      PROVE  /\ \A t \in ShortTexts(n), ch \in Int : Len(t) < n => Append(t, ch) \in ShortTexts(n)
             /\ <<>> \in ShortTexts(n)
  BY DEF ShortTexts, Text
<1>3. MAX_PARAM_BYTES \in Nat /\ MAX_DISPATCH_CHARS \in Nat
  BY DispatcherConstants
<1>4. \A ch \in Int : Len(d.params) < MAX_PARAM_BYTES =>
                       Append(d.params, ch) \in ShortTexts(MAX_PARAM_BYTES)
  BY <1>1, <1>2, <1>3, Zenon
<1>5. \A ch \in Int : Len(d.chars) < MAX_DISPATCH_CHARS =>
                       Append(d.chars, ch) \in ShortTexts(MAX_DISPATCH_CHARS)
  BY <1>1, <1>2, <1>3, Zenon
<1>6. /\ \A ch \in Int : Append(d.osc_string, ch) \in Text
      /\ <<>> \in Text
      /\ <<>> \in ShortTexts(MAX_PARAM_BYTES) /\ <<>> \in ShortTexts(MAX_DISPATCH_CHARS)
  BY <1>1, <1>2, <1>3 DEF Text
<1>7. \A ch \in Int : NewParamChar(d, ch) \in Dispatchers
  BY <1>4 DEF NewParamChar, Dispatchers
<1>8. \A ch \in Int : Collect(d, ch) \in Dispatchers
  BY <1>5 DEF Collect, Dispatchers
<1>9. \A ch \in Int : OscPut(d, ch) \in Dispatchers
  BY <1>6 DEF OscPut, Dispatchers
<1>10. Clear(d) \in Dispatchers /\ OscStart(d) \in Dispatchers
  BY <1>6 DEF Clear, OscStart, Dispatchers
<1> QED  BY <1>7, <1>8, <1>9, <1>10

(* What a function answers.                                                *)
LEMMA Replies ==
  ASSUME NEW w \in Dimension, NEW h \in Dimension, NEW fb \in Screens(w, h), NEW name, NEW p
  PROVE  Reply(fb, name, p) \in Answers
<1> DEFINE row == fb.ds.cursor_row + 1
           col == fb.ds.cursor_col + 1
           Answer == [answer : {"vt220", "version", "ok"}] \cup [answer : {"cursor"}, row : Int, col : Int]
<1>1. row \in Int /\ col \in Int
  BY ScreenParts
<1>2. /\ [answer |-> "vt220"] \in Answer /\ [answer |-> "version"] \in Answer
      /\ [answer |-> "ok"] \in Answer
      /\ [answer |-> "cursor", row |-> row, col |-> col] \in Answer
  BY <1>1
<1>3. Answers = Seq(Answer)
  BY DEF Answers
<1> HIDE DEF Answer
<1>4. /\ <<[answer |-> "vt220"]>> \in Answers /\ <<[answer |-> "version"]>> \in Answers
      /\ <<[answer |-> "ok"]>> \in Answers /\ <<>> \in Answers
      /\ <<[answer |-> "cursor", row |-> row, col |-> col]>> \in Answers
  BY <1>2, <1>3
<1> QED  BY <1>4, Zenon DEF Reply

(* A function run by the emulator.                                         *)
LEMMA Executes ==
  ASSUME NEW w \in Dimension, NEW h \in Dimension, NEW e \in Emulators(w, h),
         NEW name, NEW p \in Text
  PROVE  Execute(e, name, p) \in Emulators(w, h)
<1> DEFINE fb == Dispatch(e.fb, name, p)
           answers == e.dispatch.terminal_to_host \o Reply(e.fb, name, p)
           d == [e.dispatch EXCEPT !.terminal_to_host = answers]
<1>1. e.fb \in Screens(w, h) /\ e.dispatch \in Dispatchers
  BY DEF Emulators
<1>2. fb \in Screens(w, h)
  BY <1>1, Dispatches
<1>3. answers \in Answers
  <2>1. Reply(e.fb, name, p) \in Answers /\ e.dispatch.terminal_to_host \in Answers
    BY <1>1, Replies DEF Dispatchers
  <2>2. \A a \in Answers, b \in Answers : a \o b \in Answers
    BY DEF Answers
  <2> QED  BY <2>1, <2>2
<1>4. Execute(e, name, p) = [e EXCEPT !.fb = fb, !.dispatch = d]
  BY DEF Execute
<1> HIDE DEF fb, answers
<1>5. d \in Dispatchers
  BY <1>1, <1>3 DEF Dispatchers
<1> HIDE DEF d
<1> QED  BY <1>2, <1>4, <1>5 DEF Emulators

(* An emulator with another dispatcher, and with another screen.           *)
LEMMA Rewired ==
  ASSUME NEW w \in Dimension, NEW h \in Dimension, NEW e \in Emulators(w, h)
  PROVE  /\ \A d \in Dispatchers : [e EXCEPT !.dispatch = d] \in Emulators(w, h)
         /\ \A fb \in Screens(w, h) : [e EXCEPT !.fb = fb] \in Emulators(w, h)
         /\ \A parser \in Parsers : [e EXCEPT !.parser = parser] \in Emulators(w, h)
         /\ \A width, height : \A fb \in Screens(width, height) :
               [e EXCEPT !.fb = fb] \in Emulators(width, height)
         /\ e.fb \in Screens(w, h) /\ e.dispatch \in Dispatchers /\ e.parser \in Parsers
<1>1. e.fb \in Screens(w, h) /\ e.dispatch \in Dispatchers /\ e.parser \in Parsers
  BY DEF Emulators
<1>2. \A d \in Dispatchers : [e EXCEPT !.dispatch = d] \in Emulators(w, h)
  BY DEF Emulators
<1>3. \A parser \in Parsers : [e EXCEPT !.parser = parser] \in Emulators(w, h)
  BY DEF Emulators
<1>4. \A width, height : \A fb \in Screens(width, height) :
               [e EXCEPT !.fb = fb] \in Emulators(width, height)
  BY DEF Emulators
<1> QED  BY <1>1, <1>2, <1>3, <1>4

(* The end of an escape sequence and of a control sequence.                *)
LEMMA EndsSequences ==
  ASSUME NEW w \in Dimension, NEW h \in Dimension, NEW e \in Emulators(w, h), NEW ch \in Int
  PROVE  /\ EscDispatch(e, ch) \in Emulators(w, h)
         /\ CsiDispatch(e, ch) \in Emulators(w, h)
<1>1. <<>> \in Text /\ e.dispatch \in Dispatchers
  BY Rewired DEF Text
<1>2. Collect(e.dispatch, ch) \in Dispatchers
  BY <1>1, Collects
<1>3. \A g \in Emulators(w, h), p \in Text : \A name : Execute(g, name, p) \in Emulators(w, h)
  BY Executes
<1>4. EscDispatch(e, ch) \in Emulators(w, h)
  <2> DEFINE upper == e.dispatch.chars = <<>> /\ ch \in 64..95
             d == IF upper THEN e.dispatch ELSE Collect(e.dispatch, ch)
             name == IF upper THEN ControlFunction(ch + 64) ELSE EscapeFunction(d.chars)
  <2>1. EscDispatch(e, ch) = Execute([e EXCEPT !.dispatch = d], name, <<>>)
    BY DEF EscDispatch
  <2>2. d \in Dispatchers
    BY <1>1, <1>2
  <2> HIDE DEF d, name
  <2>3. [e EXCEPT !.dispatch = d] \in Emulators(w, h)
    BY <2>2, Rewired
  <2> QED  BY <1>1, <1>3, <2>1, <2>3, Zenon
<1>5. CsiDispatch(e, ch) \in Emulators(w, h)
  <2> DEFINE d == Collect(e.dispatch, ch)
  <2>1. CsiDispatch(e, ch) = Execute([e EXCEPT !.dispatch = d], CsiFunction(d.chars), ParsedParams(d))
    BY DEF CsiDispatch
  <2> HIDE DEF d
  <2>2. d \in Dispatchers
    BY <1>2 DEF d
  <2>3. [e EXCEPT !.dispatch = d] \in Emulators(w, h)
    BY <2>2, Rewired
  <2>4. ParsedParams(d) \in Text
    <3>1. d.params \in Text
      BY <2>2 DEF Dispatchers, ShortTexts
    <3> QED  BY <3>1, ParsesParams
  <2> QED  BY <1>3, <2>1, <2>3, <2>4, Zenon
<1> QED  BY <1>4, <1>5

(* Any action of the parser.                                               *)
LEMMA Acts ==
  ASSUME NEW w \in Dimension, NEW h \in Dimension, NEW e \in Emulators(w, h),
         NEW a \in Aloud \cup Quiet
  PROVE  ActOn(e, a) \in Emulators(w, h)
<1>1. CASE a \in Quiet
  <2>1. a.kind \in Silent
    BY <1>1 DEF Quiet
  <2>2. Clear(e.dispatch) \in Dispatchers /\ OscStart(e.dispatch) \in Dispatchers
    BY Rewired, Collects
  <2>3. OscDispatch(e.fb, e.dispatch.osc_string) \in Screens(w, h)
    <3>1. e.fb \in Screens(w, h) /\ e.dispatch.osc_string \in Text
      BY Rewired DEF Dispatchers
    <3> QED  BY <3>1, RunsOsc
  <2>4. /\ [e EXCEPT !.dispatch = Clear(e.dispatch)] \in Emulators(w, h)
        /\ [e EXCEPT !.dispatch = OscStart(e.dispatch)] \in Emulators(w, h)
        /\ [e EXCEPT !.fb = OscDispatch(e.fb, e.dispatch.osc_string)] \in Emulators(w, h)
    BY <2>2, <2>3, Rewired
  <2> QED  BY <2>1, <2>4 DEF ActOn, Silent
<1>2. CASE a \in Aloud
  <2>1. a.kind \in Spoken /\ a.ch \in Int /\ <<>> \in Text
    BY <1>2 DEF Aloud, Text
  <2>2. /\ NewParamChar(e.dispatch, a.ch) \in Dispatchers /\ Collect(e.dispatch, a.ch) \in Dispatchers
        /\ OscPut(e.dispatch, a.ch) \in Dispatchers
    BY <2>1, Rewired, Collects
  <2>3. PrintChar(e.fb, a.ch) \in Screens(w, h)
    BY <2>1, Rewired, PrintsChar
  <2>4. Execute(e, ControlFunction(a.ch), <<>>) \in Emulators(w, h)
    BY <2>1, Executes
  <2>5. /\ [e EXCEPT !.dispatch = NewParamChar(e.dispatch, a.ch)] \in Emulators(w, h)
        /\ [e EXCEPT !.dispatch = Collect(e.dispatch, a.ch)] \in Emulators(w, h)
        /\ [e EXCEPT !.dispatch = OscPut(e.dispatch, a.ch)] \in Emulators(w, h)
        /\ [e EXCEPT !.fb = PrintChar(e.fb, a.ch)] \in Emulators(w, h)
    BY <2>2, <2>3, Rewired
  <2>6. EscDispatch(e, a.ch) \in Emulators(w, h) /\ CsiDispatch(e, a.ch) \in Emulators(w, h)
    BY <2>1, EndsSequences
  <2> QED  BY <2>1, <2>4, <2>5, <2>6 DEF ActOn, Spoken
<1> QED  BY <1>1, <1>2

Acted == INSTANCE FoldLemmas WITH Op <- ActOn
Input == INSTANCE FoldLemmas WITH Op <- InputByte

(* The folds over actions and over bytes are those the lemmas are about.   *)
LEMMA ActFolds == \A base, seq : Acted!Folded(base, seq) = InTurn(ActOn, base, seq)
BY Zenon DEF InTurn, Acted!InTurn, Acted!Folded

(* The second of the two.                                                  *)
LEMMA InputFolds == \A base, seq : Input!Folded(base, seq) = InTurn(InputByte, base, seq)
BY Zenon DEF InTurn, Input!InTurn, Input!Folded

(* One byte through the emulator.                                          *)
LEMMA Inputs ==
  ASSUME NEW w \in Dimension, NEW h \in Dimension, NEW e \in Emulators(w, h), NEW byte \in Int
  PROVE  InputByte(e, byte) \in Emulators(w, h)
<1> DEFINE parsed == ParseByte(e.parser, byte)
           base == [e EXCEPT !.parser = parsed.parser]
<1>1. parsed \in Parsings
  BY Rewired, ParsesByte
<1>2. InputByte(e, byte) = InTurn(ActOn, base, parsed.actions)
  BY Zenon DEF InputByte
<1> HIDE DEF parsed
<1>3. parsed.parser \in Parsers /\ parsed.actions \in Seq(Aloud \cup Quiet)
  BY <1>1 DEF Parsings, Actions
<1>4. base \in Emulators(w, h)
  BY <1>3, Rewired
<1> HIDE DEF base
<1>5. Acted!Closed(Emulators(w, h), Aloud \cup Quiet)
  BY Acts, Zenon DEF Acted!Closed
<1>6. Acted!Folded(base, parsed.actions) \in Emulators(w, h)
  BY <1>3, <1>4, <1>5, Acted!FoldedType, Zenon
<1> QED  BY <1>2, <1>6, ActFolds, Zenon

(* The reply taken.                                                        *)
LEMMA TakesReply ==
  ASSUME NEW w \in Dimension, NEW h \in Dimension, NEW e \in Emulators(w, h)
  PROVE  TakeReply(e) \in Emulators(w, h)
<1> DEFINE d == [e.dispatch EXCEPT !.terminal_to_host = <<>>]
<1>1. <<>> \in Answers /\ e.dispatch \in Dispatchers
  BY Rewired DEF Answers
<1>2. d \in Dispatchers
  BY <1>1 DEF Dispatchers
<1>3. TakeReply(e) = [e EXCEPT !.dispatch = d]
  BY DEF TakeReply
<1> HIDE DEF d
<1> QED  BY <1>2, <1>3, Rewired

(* Bytes written by the application.                                       *)
LEMMA ActsBytes ==
  ASSUME NEW w \in Dimension, NEW h \in Dimension, NEW e \in Emulators(w, h),
         NEW bytes \in Seq(0..255)
  PROVE  ActBytes(e, bytes) \in Emulators(w, h)
<1>1. bytes \in Seq(Int)
  <2>1. 0..255 \subseteq Int
    OBVIOUS
  <2> QED  BY <2>1, Wider, Zenon
<1>2. Input!Closed(Emulators(w, h), Int)
  BY Inputs, Zenon DEF Input!Closed
<1>3. Input!Folded(e, bytes) \in Emulators(w, h)
  BY <1>1, <1>2, Input!FoldedType, Zenon
<1>4. InTurn(InputByte, e, bytes) \in Emulators(w, h)
  BY <1>3, InputFolds, Zenon
<1> QED  BY <1>4, TakesReply, Zenon DEF ActBytes

(* A window resized.                                                       *)
LEMMA ActsResize ==
  ASSUME NEW w \in Dimension, NEW h \in Dimension, NEW e \in Emulators(w, h), NEW size \in Sizes
  PROVE  ActResize(e, size) \in Emulators(size[1], size[2])
<1>1. size[1] \in 1..MAX_DIMENSION /\ size[2] \in 1..MAX_DIMENSION
  BY TerminalConstants
<1>2. size[1] \in Dimension /\ size[2] \in Dimension
  BY <1>1, ScreenConstants DEF Dimension
<1>3. Resize(e.fb, size[1], size[2]) \in Screens(size[1], size[2])
  BY <1>1, Rewired, Resizes
<1>4. ResizeEmulator(e, size[1], size[2]) \in Emulators(size[1], size[2])
  BY <1>3, Rewired DEF ResizeEmulator
<1> QED  BY <1>2, <1>4, TakesReply DEF ActResize

(* A new emulator.                                                         *)
LEMMA NewEmulators ==
  ASSUME NEW width \in 1..MAX_DIMENSION, NEW height \in 1..MAX_DIMENSION
  PROVE  NewEmulator(width, height) \in Emulators(width, height)
<1>1. NewFramebuffer(width, height) \in Screens(width, height)
  BY NewScreens
<1>2. NewDispatcher \in Dispatchers
  <2>1. /\ <<>> \in Text /\ <<>> \in Answers
        /\ <<>> \in ShortTexts(MAX_PARAM_BYTES) /\ <<>> \in ShortTexts(MAX_DISPATCH_CHARS)
    BY DispatcherConstants DEF Text, Answers, ShortTexts
  <2> QED  BY <2>1 DEF NewDispatcher, Dispatchers
<1>3. NewParser \in Parsers
  <2>1. <<>> \in Held /\ "Ground" \in States
    BY DEF Held, Text, States
  <2> QED  BY <2>1 DEF NewParser, Parsers
<1> QED  BY <1>1, <1>2, <1>3 DEF NewEmulator, Emulators

(***************************************************************************)
(* The display: whatever the two screens, a frame is a sequence of         *)
(* functions with their parameters.                                        *)
(***************************************************************************)
Functions == Seq(Function)

Frames ==
  [out : Functions, x : Int, y : Int, rendition : Rendition, hyperlink : Link,
   visible : BOOLEAN]

(* Sequences of functions, one after another and repeated.                 *)
LEMMA FunctionsAre ==
  /\ \A name \in Names, p \in Text : Fn(name, p) \in Function /\ <<Fn(name, p)>> \in Functions
  /\ <<>> \in Functions
  /\ \A a \in Functions, b \in Functions : a \o b \in Functions
  /\ \A n \in Nat, f \in Function : Times(n, f) \in Functions
<1>1. ASSUME NEW name \in Names, NEW p \in Text
      PROVE  Fn(name, p) \in Function /\ <<Fn(name, p)>> \in Functions
  <2>1. Fn(name, p) \in Function
    BY DEF Fn, Function
  <2> QED  BY <2>1 DEF Functions
<1>2. <<>> \in Functions /\ \A a \in Functions, b \in Functions : a \o b \in Functions
  BY DEF Functions
<1>3. \A n \in Nat, f \in Function : Times(n, f) \in Functions
  BY DEF Times, Functions
<1> QED  BY <1>1, <1>2, <1>3

(* Short parameter lists and their concatenation.                          *)
LEMMA TextsAre ==
  /\ <<>> \in Text
  /\ \A a \in Int : <<a>> \in Text
  /\ \A a \in Int, b \in Int : <<a, b>> \in Text
  /\ \A a \in Text, b \in Text : a \o b \in Text
BY DEF Text

(* The functions that are written without parameters, or with fixed ones.  *)
LEMMA FixedFunctions ==
  /\ CR \in Function /\ LF \in Function /\ Fn("BS", <<>>) \in Function
  /\ <<CR>> \in Functions /\ <<Fn("BEL", <<>>)>> \in Functions
  /\ <<CR, LF>> \in Functions /\ <<Fn("ST", <<>>)>> \in Functions
  /\ <<Fn("EL", <<-1>>)>> \in Functions /\ <<Fn("DECSTBM", <<-1>>)>> \in Functions
  /\ \A on \in BOOLEAN, n \in Int : SwitchMode(on, n) \in Function /\ <<SwitchMode(on, n)>> \in Functions
  /\ ClearScreen \in Functions
<1>1. /\ {"CR", "LF", "BS", "BEL", "ST", "EL", "DECSTBM", "SGR", "CUP", "ED", "DECSM", "DECRM"} \subseteq Names
      /\ -1 \in Int /\ 0 \in Int /\ 2 \in Int
  BY DEF Names
<1>2. <<>> \in Text /\ <<-1>> \in Text /\ <<0>> \in Text /\ <<2>> \in Text
  BY <1>1, TextsAre
<1>3. CR \in Function /\ LF \in Function /\ Fn("BS", <<>>) \in Function
  BY <1>1, <1>2, FunctionsAre DEF CR, LF
<1>4. /\ <<CR>> \in Functions /\ <<LF>> \in Functions /\ <<Fn("BEL", <<>>)>> \in Functions
      /\ <<Fn("ST", <<>>)>> \in Functions /\ <<Fn("EL", <<-1>>)>> \in Functions
      /\ <<Fn("DECSTBM", <<-1>>)>> \in Functions
  BY <1>1, <1>2, FunctionsAre DEF CR, LF
<1>5. <<CR, LF>> \in Functions
  BY <1>3 DEF Functions
<1>6. \A on \in BOOLEAN, n \in Int : SwitchMode(on, n) \in Function /\ <<SwitchMode(on, n)>> \in Functions
  BY <1>1, TextsAre, FunctionsAre DEF SwitchMode
<1>7. ClearScreen \in Functions
  <2>1. /\ Fn("DECSTBM", <<-1>>) \in Function /\ Fn("SGR", <<0>>) \in Function
        /\ Fn("CUP", <<-1>>) \in Function /\ Fn("ED", <<2>>) \in Function
    BY <1>1, <1>2, FunctionsAre
  <2> QED  BY <2>1 DEF ClearScreen, Functions
<1> QED  BY <1>3, <1>4, <1>5, <1>6, <1>7

(* What is written to a frame, and where the cursor is then.               *)
LEMMA Emits ==
  ASSUME NEW frame \in Frames
  PROVE  /\ \A functions \in Functions : Emit(frame, functions) \in Frames
         /\ \A x \in Int : [frame EXCEPT !.x = x] \in Frames
         /\ \A x \in Int, y \in Int : [frame EXCEPT !.x = x, !.y = y] \in Frames
         /\ \A r \in Rendition : [frame EXCEPT !.rendition = r] \in Frames
         /\ \A l \in Link : [frame EXCEPT !.hyperlink = l] \in Frames
         /\ \A b \in BOOLEAN : [frame EXCEPT !.visible = b] \in Frames
         /\ frame.x \in Int /\ frame.y \in Int /\ frame.out \in Functions
         /\ frame.rendition \in Rendition /\ frame.hyperlink \in Link /\ frame.visible \in BOOLEAN
<1>1. /\ frame.x \in Int /\ frame.y \in Int /\ frame.out \in Functions
      /\ frame.rendition \in Rendition /\ frame.hyperlink \in Link /\ frame.visible \in BOOLEAN
  BY DEF Frames
<1>2. ASSUME NEW functions \in Functions
      PROVE  Emit(frame, functions) \in Frames
  <2> DEFINE out == frame.out \o functions
  <2>1. out \in Functions
    BY <1>1, FunctionsAre
  <2>2. Emit(frame, functions) = [frame EXCEPT !.out = out]
    BY DEF Emit
  <2> HIDE DEF out
  <2> QED  BY <2>1, <2>2 DEF Frames
<1>3. \A x \in Int : [frame EXCEPT !.x = x] \in Frames
  BY DEF Frames
<1>4. \A x \in Int, y \in Int : [frame EXCEPT !.x = x, !.y = y] \in Frames
  BY DEF Frames
<1>5. /\ \A r \in Rendition : [frame EXCEPT !.rendition = r] \in Frames
      /\ \A l \in Link : [frame EXCEPT !.hyperlink = l] \in Frames
      /\ \A b \in BOOLEAN : [frame EXCEPT !.visible = b] \in Frames
  BY DEF Frames
<1> QED  BY <1>1, <1>2, <1>3, <1>4, <1>5

(* A cell's characters written to a frame.                                 *)
LEMMA AppendsCell ==
  ASSUME NEW frame \in Frames, NEW cell \in Cell
  PROVE  AppendCell(frame, cell) \in Frames
<1>1. PrintGrapheme(cell) \in Text /\ "print" \in Names
  BY Prints DEF Names
<1>2. <<Fn("print", PrintGrapheme(cell))>> \in Functions
  BY <1>1, FunctionsAre
<1> QED  BY <1>2, Emits DEF AppendCell

(* A cursor movement written to a frame.                                   *)
LEMMA AppendsMove ==
  ASSUME NEW frame \in Frames, NEW y \in Int, NEW x \in Int
  PROVE  AppendMove(frame, y, x) \in Frames
<1> DEFINE known == frame.x # -1 /\ frame.y # -1
           down  == y - frame.y
           back  == frame.x - x
           return == IF frame.x = 0 THEN <<>> ELSE <<CR>>
           feeds == Times(down, LF)
           backs == Times(back, Fn("BS", <<>>))
           there == <<Fn("CUP", <<y + 1, x + 1>>)>>
           move  == IF known /\ x = 0 /\ down \in 0..4 THEN return \o feeds
                    ELSE IF known /\ down = 0 /\ back \in 1..4 THEN backs
                    ELSE there
<1>1. return \in Functions
  BY FixedFunctions, FunctionsAre
<1>2. down \in 0..4 => feeds \in Functions
  BY FixedFunctions, FunctionsAre
<1>3. back \in 1..4 => backs \in Functions
  BY FixedFunctions, FunctionsAre
<1>4. there \in Functions
  <2>1. y + 1 \in Int /\ x + 1 \in Int /\ "CUP" \in Names
    BY DEF Names
  <2>2. <<y + 1, x + 1>> \in Text
    BY <2>1, TextsAre
  <2> QED  BY <2>1, <2>2, FunctionsAre
<1>5. AppendMove(frame, y, x) = [Emit(frame, move) EXCEPT !.x = x, !.y = y]
  BY DEF AppendMove
<1> HIDE DEF return, feeds, backs, there, known, down, back
<1>6. move \in Functions
  BY <1>1, <1>2, <1>3, <1>4, FunctionsAre
<1> HIDE DEF move
<1> DEFINE g == Emit(frame, move)
<1>7. g \in Frames
  BY <1>6, Emits
<1> HIDE DEF g
<1>8. [g EXCEPT !.x = x, !.y = y] \in Frames
  BY <1>7, Emits
<1> QED  BY <1>5, <1>8, Zenon DEF g

(* The same with the cursor hidden first.                                  *)
LEMMA AppendsSilentMove ==
  ASSUME NEW frame \in Frames, NEW y \in Int, NEW x \in Int
  PROVE  AppendSilentMove(frame, y, x) \in Frames
<1> DEFINE hidden == [Emit(frame, <<SwitchMode(FALSE, 25)>>) EXCEPT !.visible = FALSE]
<1>1. hidden \in Frames
  <2>1. <<SwitchMode(FALSE, 25)>> \in Functions
    <3>1. FALSE \in BOOLEAN /\ 25 \in Int
      OBVIOUS
    <3> QED  BY <3>1, FixedFunctions, Zenon
  <2>2. Emit(frame, <<SwitchMode(FALSE, 25)>>) \in Frames
    BY <2>1, Emits
  <2> QED  BY <2>2, Emits
<1>2. AppendSilentMove(frame, y, x) =
        IF frame.x = x /\ frame.y = y THEN frame
        ELSE AppendMove(IF frame.visible THEN hidden ELSE frame, y, x)
  BY DEF AppendSilentMove
<1> HIDE DEF hidden
<1> QED  BY <1>1, <1>2, AppendsMove

(* The parameters that set a rendition.                                    *)
LEMMA SgrText ==
  ASSUME NEW r \in Rendition
  PROVE  Sgr(r) \in Text
<1> DEFINE On(a) == IF a \in r.attributes THEN <<a>> ELSE <<>>
<1>1. \A a \in Int : On(a) \in Text
  BY TextsAre
<1>2. \A c \in Int, base \in Int : ColorParams(c, base) \in Text
  BY DEF ColorParams, Text
<1>3. r.foreground \in Int /\ r.background \in Int
  BY DEF Rendition
<1>4. ColorParams(r.foreground, 30) \in Text /\ ColorParams(r.background, 40) \in Text
  BY <1>2, <1>3
<1>5. /\ <<0>> \in Text /\ On(1) \in Text /\ On(2) \in Text /\ On(3) \in Text /\ On(4) \in Text
      /\ On(5) \in Text /\ On(7) \in Text /\ On(8) \in Text /\ On(9) \in Text
  BY <1>1, TextsAre
<1> DEFINE some == <<0>> \o On(1) \o On(2) \o On(3)
           more == some \o On(4) \o On(5) \o On(7)
           all == more \o On(8) \o On(9)
<1>6. Sgr(r) = all \o ColorParams(r.foreground, 30) \o ColorParams(r.background, 40)
  BY Zenon DEF Sgr
<1> HIDE DEF On
<1>7. some \in Text
  BY <1>5, TextsAre
<1> HIDE DEF some
<1>8. more \in Text
  BY <1>5, <1>7, TextsAre
<1> HIDE DEF more
<1>9. all \in Text
  BY <1>5, <1>8, TextsAre
<1> HIDE DEF all
<1> QED  BY <1>4, <1>6, <1>9, TextsAre

(* Renditions and links written when they differ or are forced.            *)
LEMMA Dresses ==
  ASSUME NEW frame \in Frames, NEW r \in Rendition, NEW l \in Link
  PROVE  /\ \A force \in BOOLEAN : /\ UpdateRendition(frame, r, force) \in Frames
                                   /\ UpdateHyperlink(frame, l, force) \in Frames
         /\ Dress(frame, r, l) \in Frames
<1>1. \A g \in Frames, force \in BOOLEAN : UpdateRendition(g, r, force) \in Frames
  <2> SUFFICES ASSUME NEW g \in Frames, NEW force \in BOOLEAN
               PROVE  UpdateRendition(g, r, force) \in Frames
    OBVIOUS
  <2>1. <<Fn("SGR", Sgr(r))>> \in Functions
    BY SgrText, FunctionsAre DEF Names
  <2>2. Emit(g, <<Fn("SGR", Sgr(r))>>) \in Frames
    BY <2>1, Emits
  <2>3. [Emit(g, <<Fn("SGR", Sgr(r))>>) EXCEPT !.rendition = r] \in Frames
    BY <2>2, Emits
  <2> QED  BY <2>3 DEF UpdateRendition
<1>2. \A g \in Frames, force \in BOOLEAN : UpdateHyperlink(g, l, force) \in Frames
  <2> SUFFICES ASSUME NEW g \in Frames, NEW force \in BOOLEAN
               PROVE  UpdateHyperlink(g, l, force) \in Frames
    OBVIOUS
  <2> DEFINE payload == <<56, 59>> \o Osc8Payload(l)
             closed == Terminated(payload)
  <2>1. <<56, 59>> \in Text /\ <<59>> \in Text
    BY TextsAre
  <2>2. Osc8Payload(l) \in Text
    <3>1. CASE l = NoLink
      BY <2>1, <3>1 DEF Osc8Payload
    <3>2. CASE l # NoLink
      <4>1. l.params \in Text /\ l.url \in Text
        BY <3>2 DEF Link
      <4>2. l.params \o <<59>> \o l.url \in Text
        BY <2>1, <4>1, TextsAre
      <4> QED  BY <3>2, <4>2 DEF Osc8Payload
    <3> QED  BY <3>1, <3>2
  <2>3. payload \in Text
    BY <2>1, <2>2, TextsAre
  <2> HIDE DEF payload
  <2>4. closed \in Functions
    <3>1. Fn("OSC", payload) \in Function /\ Fn("ST", <<>>) \in Function
      BY <2>3, FunctionsAre, TextsAre DEF Names
    <3> QED  BY <3>1 DEF Terminated, Functions
  <2>5. UpdateHyperlink(g, l, force) =
          IF force \/ g.hyperlink # l THEN [Emit(g, closed) EXCEPT !.hyperlink = l] ELSE g
    BY DEF UpdateHyperlink, payload
  <2> HIDE DEF closed
  <2>6. Emit(g, closed) \in Frames
    BY <2>4, Emits
  <2>7. [Emit(g, closed) EXCEPT !.hyperlink = l] \in Frames
    BY <2>6, Emits
  <2> QED  BY <2>5, <2>7
<1>3. FALSE \in BOOLEAN
  OBVIOUS
<1>4. Dress(frame, r, l) \in Frames
  BY <1>1, <1>2, <1>3, Zenon DEF Dress
<1> QED  BY <1>1, <1>2, <1>4


(* What comes before the rows.                                             *)
LEMMA Bells ==
  ASSUME NEW prior, NEW f
  PROVE  Bell(prior, f) \in Functions
BY FunctionsAre, FixedFunctions DEF Bell

(* A command to the operating system written to a frame.                   *)
LEMMA OscText ==
  ASSUME NEW code \in Int, NEW text \in Text
  PROVE  Osc(code, text) \in Functions
<1>1. <<code, 59>> \in Text /\ "OSC" \in Names
  BY TextsAre DEF Names
<1>2. <<code, 59>> \o text \in Text
  BY <1>1, TextsAre
<1> QED  BY <1>1, <1>2, FunctionsAre DEF Osc

(* The titles written to a frame.                                          *)
LEMMA WritesTitles ==
  ASSUME NEW w \in Dimension, NEW h \in Dimension, NEW f \in Screens(w, h), NEW prior,
         NEW initialized \in BOOLEAN
  PROVE  Titles(initialized, prior, f) \in Functions
<1>1. f.icon_name \in Text /\ f.window_title \in Text
  BY DEF Screens, Canvas
<1>2. Osc(48, f.window_title) \in Functions /\ Osc(49, f.icon_name) \in Functions
      /\ Osc(50, f.window_title) \in Functions
  BY <1>1, OscText
<1>3. Osc(49, f.icon_name) \o Osc(50, f.window_title) \in Functions
  BY <1>2, FunctionsAre
<1> QED  BY <1>2, <1>3, FunctionsAre DEF Titles

(* The clipboard written to a frame.                                       *)
LEMMA WritesClipboard ==
  ASSUME NEW w \in Dimension, NEW h \in Dimension, NEW f \in Screens(w, h), NEW prior,
         NEW initialized \in BOOLEAN
  PROVE  Clipboard(initialized, prior, f) \in Functions
<1>1. f.clipboard \in Text /\ "OSC" \in Names
  BY DEF Screens, Canvas, Names
<1>2. <<53, 50, 59, 99, 59>> \in Text
  BY DEF Text
<1>3. <<53, 50, 59, 99, 59>> \o f.clipboard \in Text
  BY <1>1, <1>2, TextsAre
<1>4. <<Fn("OSC", <<53, 50, 59, 99, 59>> \o f.clipboard)>> \in Functions
  BY <1>1, <1>3, FunctionsAre
<1> QED  BY <1>4, FunctionsAre DEF Clipboard

(* The color queries written to a frame.                                   *)
LEMMA WritesQueries ==
  ASSUME NEW w \in Dimension, NEW h \in Dimension, NEW f \in Screens(w, h), NEW prior,
         NEW initialized \in BOOLEAN
  PROVE  ColorQueries(initialized, prior, f) \in Functions
<1> DEFINE q == f.color_queries
           n == Len(q)
           asked == [i \in 1..2 * n |->
                       Terminated(q[(i + 1) \div 2])[IF i % 2 = 1 THEN 1 ELSE 2]]
<1>1. q \in Texts
  BY DEF Screens, Canvas
<1>2. n \in Nat /\ \A k \in 1..n : q[k] \in Text
  BY <1>1 DEF Texts
<1>3. \A t \in Text, k \in {1, 2} : Terminated(t)[k] \in Function
  <2> SUFFICES ASSUME NEW t \in Text, NEW k \in {1, 2}
               PROVE  Terminated(t)[k] \in Function
    OBVIOUS
  <2>1. Fn("OSC", t) \in Function /\ Fn("ST", <<>>) \in Function
    BY FunctionsAre, TextsAre DEF Names
  <2> QED  BY <2>1 DEF Terminated
<1> HIDE DEF n
<1>4. \A i \in 1..2 * n : (i + 1) \div 2 \in 1..n
  BY <1>2
<1>5. \A i \in 1..2 * n : (IF i % 2 = 1 THEN 1 ELSE 2) \in {1, 2}
  OBVIOUS
<1>6. \A i \in 1..2 * n : asked[i] \in Function
  BY <1>2, <1>3, <1>4, <1>5, Zenon
<1>7. asked = [i \in 1..2 * n |-> asked[i]] /\ 2 * n \in Nat
  BY <1>2
<1>8. ColorQueries(initialized, prior, f) =
        IF initialized /\ f.color_query_seq # prior.color_query_seq THEN asked ELSE <<>>
  BY Zenon DEF ColorQueries, n
<1> HIDE DEF asked
<1>9. asked \in Functions
  BY <1>6, <1>7 DEF Functions
<1> QED  BY <1>8, <1>9, FunctionsAre

(* A mode written to a frame when it differs.                              *)
LEMMA SwitchesMode ==
  ASSUME NEW initialized \in BOOLEAN, NEW prior, NEW f, NEW mode, NEW n \in Int
  PROVE  ModeDiff(initialized, prior, f, mode, n) \in Functions
<1>1. (mode \in f.ds.modes) \in BOOLEAN
  OBVIOUS
<1>2. <<SwitchMode(mode \in f.ds.modes, n)>> \in Functions
  BY <1>1, FixedFunctions
<1> QED  BY <1>2, FunctionsAre DEF ModeDiff

(* A frame with nothing in it.                                             *)
LEMMA NewFrameStates ==
  ASSUME NEW prior
  PROVE  NewFrameState(prior) \in Frames
<1>1. <<>> \in Functions /\ NoLink \in Link /\ ("cursor_visible" \in prior.ds.modes) \in BOOLEAN
  BY FunctionsAre DEF Link
<1> QED  BY <1>1, PlainRendition DEF NewFrameState, Frames


(* The renditions and the cursor the frame begins with.                    *)
LEMMA Prologues ==
  ASSUME NEW w \in Dimension, NEW h \in Dimension, NEW f \in Screens(w, h),
         NEW w0 \in Dimension, NEW h0 \in Dimension, NEW prior \in Screens(w0, h0),
         NEW initialized \in BOOLEAN
  PROVE  Prologue(initialized, prior, f) \in Frames
<1> DEFINE kept   == initialized /\ SizeKept(prior, f)
           start  == NewFrameState(prior)
           bell   == Bell(prior, f)
           titles == Titles(initialized, prior, f)
           clip   == Clipboard(initialized, prior, f)
           asked  == ColorQueries(initialized, prior, f)
           video  == ModeDiff(initialized, prior, f, "reverse_video", 5)
           some   == bell \o titles \o clip
           all    == some \o asked \o video
           before == Emit(start, all)
           cleared == ClearScreen \o <<SwitchMode(FALSE, 25)>>
           col == prior.ds.cursor_col
           row == prior.ds.cursor_row
           dress == prior.ds.renditions
           link == prior.ds.hyperlink
<1>1. start \in Frames
  BY NewFrameStates
<1>2. bell \in Functions /\ titles \in Functions /\ clip \in Functions /\ asked \in Functions
  BY Bells, WritesTitles, WritesClipboard, WritesQueries
<1>3. video \in Functions
  BY SwitchesMode
<1>4. cleared \in Functions
  <2>1. FALSE \in BOOLEAN /\ 25 \in Int
    OBVIOUS
  <2>2. <<SwitchMode(FALSE, 25)>> \in Functions
    BY <2>1, FixedFunctions, Zenon
  <2> QED  BY <2>2, FixedFunctions, FunctionsAre
<1>5. col \in Int /\ row \in Int /\ dress \in Rendition /\ link \in Link
  BY ScreenParts
<1>6. Prologue(initialized, prior, f) =
        IF kept THEN [before EXCEPT !.x = col, !.y = row, !.rendition = dress, !.hyperlink = link]
        ELSE [Emit(before, cleared) EXCEPT !.visible = FALSE]
  BY Zenon DEF Prologue
<1> HIDE DEF start, bell, titles, clip, asked, video, cleared, col, row, dress, link, kept
<1>7. some \in Functions
  BY <1>2, FunctionsAre
<1> HIDE DEF some
<1>8. all \in Functions
  BY <1>2, <1>3, <1>7, FunctionsAre
<1> HIDE DEF all
<1>9. before \in Frames
  BY <1>1, <1>8, Emits
<1> HIDE DEF before
<1>10. [before EXCEPT !.x = col, !.y = row, !.rendition = dress, !.hyperlink = link] \in Frames
  BY <1>5, <1>9 DEF Frames
<1> DEFINE g == Emit(before, cleared)
<1>11. g \in Frames
  BY <1>4, <1>9, Emits
<1> HIDE DEF g
<1>12. [g EXCEPT !.visible = FALSE] \in Frames
  BY <1>11, Emits
<1> QED  BY <1>6, <1>10, <1>12, Zenon DEF g

(* A bounded set of numbers has a greatest one.                            *)
LEMMA GreatestBelow ==
  ASSUME NEW n \in Nat, NEW S \in SUBSET (0..n), S # {}
  PROVE  (CHOOSE i \in S : \A j \in S : j <= i) \in S
<1> DEFINE T == {k \in 0..n : n - k \in S}
           least == CHOOSE i \in T : \A j \in T : i <= j
<1>1. T \in SUBSET Nat /\ T # {}
  <2>1. PICK i \in S : TRUE
    OBVIOUS
  <2>2. n - i \in 0..n /\ n - (n - i) = i
    BY <2>1
  <2>3. n - i \in T
    BY <2>1, <2>2
  <2>4. T \in SUBSET Nat
    OBVIOUS
  <2> HIDE DEF T
  <2> QED  BY <2>3, <2>4
<1>2. least \in T /\ \A j \in T : least <= j
  <2> HIDE DEF T
  <2> QED  BY <1>1, LeastNumber
<1>3. n - least \in S
  BY <1>2
<1>4. \A j \in S : j <= n - least
  <2> SUFFICES ASSUME NEW j \in S PROVE j <= n - least
    OBVIOUS
  <2>1. n - j \in T
    <3>1. n - j \in 0..n /\ n - (n - j) = j
      OBVIOUS
    <3> QED  BY <3>1
  <2>2. least <= n - j
    BY <1>2, <2>1
  <2>3. least \in Nat /\ j \in Nat
    BY <1>1, <1>2
  <2> HIDE DEF least, T
  <2> QED  BY <2>2, <2>3
<1> HIDE DEF least
<1> QED  BY <1>3, <1>4, Zenon

(* The lines a frame scrolls by, and how many rows it moves: none, or no   *)
(* more than there are.                                                    *)
LEMMA ScrollIs ==
  ASSUME NEW w \in Dimension, NEW h \in Dimension, NEW f \in Screens(w, h), NEW rows
  PROVE  ScrollOf(rows, f) \in [lines : Nat, height : Nat] /\ ScrollOf(rows, f).height <= h
<1> DEFINE Same(y, old) == f.rows[y] = rows[old]
           found == {y \in 0..f.ds.height - 1 : Same(0, y)}
           lines == CHOOSE y \in found : \A z \in found : y <= z
           run   == {n \in 1..f.ds.height - lines : \A y \in 0..n - 1 : Same(y, lines + y)}
           height == CHOOSE n \in run : \A m \in run : m <= n
<1>1. f.ds.height = h /\ h \in Nat
  BY ScreenParts DEF Dimension
<1>2. ScrollOf(rows, f) = IF found = {} \/ 0 \in found THEN [lines |-> 0, height |-> 0]
                          ELSE [lines |-> lines, height |-> height]
  BY Zenon DEF ScrollOf
<1>3. ASSUME found # {}
      PROVE  lines \in 0..h - 1 /\ height \in 1..h - lines
  <2>1. lines \in found
    <3>1. found \in SUBSET Nat
      BY <1>1
    <3> HIDE DEF found
    <3> QED  BY <1>3, <3>1, LeastNumber
  <2> HIDE DEF lines
  <2>2. lines \in 0..h - 1 /\ Same(0, lines)
    BY <1>1, <2>1
  <2>3. 1 \in run
    <3>1. 1 \in 1..h - lines
      BY <1>1, <2>2
    <3>2. \A y \in 0..1 - 1 : Same(y, lines + y)
      <4> SUFFICES ASSUME NEW y \in 0..1 - 1 PROVE Same(y, lines + y)
        OBVIOUS
      <4>1. y = 0 /\ lines + y = lines
        BY <2>2
      <4> HIDE DEF Same
      <4> QED  BY <2>2, <4>1
    <3> QED  BY <1>1, <3>1, <3>2
  <2>4. run \in SUBSET (0..h) /\ run \subseteq 1..h - lines
    BY <1>1, <2>2
  <2> HIDE DEF run
  <2>5. height \in run
    BY <1>1, <2>3, <2>4, GreatestBelow
  <2> HIDE DEF height
  <2> QED  BY <2>2, <2>4, <2>5
<1> HIDE DEF found, lines, height
<1>4. CASE found = {} \/ 0 \in found
  BY <1>1, <1>2, <1>4
<1>5. CASE ~(found = {} \/ 0 \in found)
  <2>1. ScrollOf(rows, f) = [lines |-> lines, height |-> height]
    BY <1>2, <1>5
  <2>2. lines \in Nat /\ height \in Nat /\ height <= h
    BY <1>1, <1>3, <1>5
  <2> QED  BY <2>1, <2>2
<1> QED  BY <1>4, <1>5

(* A scroll is written in functions, whatever its size.                    *)
LEMMA ScrollsFrame ==
  ASSUME NEW frame \in Frames, NEW f, NEW s \in [lines : Nat, height : Nat]
  PROVE  ScrollFrame(frame, f, s) \in Frames
<1> DEFINE plain   == UpdateRendition(frame, Plain, TRUE)
           dressed == UpdateHyperlink(plain, NoLink, TRUE)
           bottom  == s.lines + s.height - 1
           region  == Emit(dressed, <<Fn("DECSTBM", <<1, bottom + 1>>)>>)
           lost    == [region EXCEPT !.x = -1, !.y = -1]
           there   == AppendSilentMove(lost, bottom, 0)
           feeds   == Times(s.lines, LF)
           whole   == Emit(dressed, <<CR>> \o feeds)
           part    == Emit(there, feeds \o <<Fn("DECSTBM", <<-1>>)>>)
<1>1. plain \in Frames
  <2>1. TRUE \in BOOLEAN
    OBVIOUS
  <2>2. \A force \in BOOLEAN : UpdateRendition(frame, Plain, force) \in Frames
    BY Dresses, PlainRendition DEF Link
  <2> QED  BY <2>1, <2>2, Zenon
<1> HIDE DEF plain
<1>2. dressed \in Frames
  <2>1. TRUE \in BOOLEAN /\ NoLink \in Link
    BY DEF Link
  <2>2. \A force \in BOOLEAN : UpdateHyperlink(plain, NoLink, force) \in Frames
    BY <1>1, <2>1, Dresses, PlainRendition
  <2> QED  BY <2>1, <2>2, Zenon
<1>3. bottom \in Int
  OBVIOUS
<1>4. feeds \in Functions
  BY FixedFunctions, FunctionsAre
<1>5. ScrollFrame(frame, f, s) =
        IF bottom + 1 = f.ds.height /\ dressed.y + 1 = f.ds.height
        THEN [whole EXCEPT !.x = 0] ELSE [part EXCEPT !.x = -1, !.y = -1]
  BY Zenon DEF ScrollFrame, plain
<1> HIDE DEF dressed, bottom, feeds
<1>6. region \in Frames
  <2>1. <<1, bottom + 1>> \in Text /\ "DECSTBM" \in Names
    BY <1>3, TextsAre DEF Names
  <2>2. <<Fn("DECSTBM", <<1, bottom + 1>>)>> \in Functions
    BY <2>1, FunctionsAre
  <2> QED  BY <1>2, <2>2, Emits
<1> HIDE DEF region
<1>7. -1 \in Int /\ 0 \in Int
  OBVIOUS
<1>8. lost \in Frames
  BY <1>6, <1>7, Emits, Zenon
<1> HIDE DEF lost
<1>9. there \in Frames
  BY <1>3, <1>8, AppendsSilentMove
<1> HIDE DEF there
<1>10. whole \in Frames
  BY <1>2, <1>4, FixedFunctions, FunctionsAre, Emits
<1>11. part \in Frames
  BY <1>4, <1>9, FixedFunctions, FunctionsAre, Emits
<1> HIDE DEF whole, part
<1>12. [whole EXCEPT !.x = 0] \in Frames /\ [part EXCEPT !.x = -1, !.y = -1] \in Frames
  BY <1>10, <1>11, <1>7, Emits, Zenon
<1> QED  BY <1>5, <1>12


(* One row: a put's frame is one, and it counts columns and blank cells.   *)
Puts ==
  [frame : Frames, x : Nat, clear : Nat, wrote : BOOLEAN, blank : Cell]

(* A job draws a row that is there.                                        *)
IsJob(job, w, h) ==
  job.f \in Screens(w, h) /\ job.y \in 0..h - 1 /\ job.initialized \in BOOLEAN

(* The parts of a row being drawn.                                         *)
LEMMA PutParts ==
  ASSUME NEW put \in Puts
  PROVE  /\ put.frame \in Frames /\ put.x \in Nat /\ put.clear \in Nat
         /\ put.wrote \in BOOLEAN /\ put.blank \in Cell
         /\ \A frame \in Frames : /\ [put EXCEPT !.frame = frame] \in Puts
                                  /\ [put EXCEPT !.frame = frame, !.wrote = TRUE] \in Puts
         /\ \A x \in Nat : [put EXCEPT !.x = x] \in Puts
BY DEF Puts

(* The columns it is at, as numbers.                                       *)
LEMMA PutNumbers ==
  ASSUME NEW put \in Puts
  PROVE  /\ put.x \in Nat /\ put.clear \in Nat /\ put.x \in Int /\ put.clear \in Int
         /\ put.x - put.clear \in Int /\ put.x + 1 \in Nat
BY DEF Puts

(* The parts of a cell that drawing it needs.                              *)
LEMMA CellParts ==
  ASSUME NEW cell \in Cell
  PROVE  cell.renditions \in Rendition /\ cell.hyperlink \in Link /\ CellWidth(cell) \in Nat
BY DEF Cell, CellWidth

(* A run of blanks, as spaces or as an erasure.                            *)
LEMMA Blanks ==
  ASSUME NEW n \in Nat
  PROVE  Spaces(n) \in Functions /\ <<Fn("ECH", <<n>>)>> \in Functions
<1>1. Fn("print", <<SPACE>>) \in Function
  <2>1. <<SPACE>> \in Text /\ "print" \in Names
    BY TextsAre DEF SPACE, Names
  <2> QED  BY <2>1, FunctionsAre
<1>2. Spaces(n) \in Functions
  BY <1>1 DEF Spaces, Functions
<1>3. <<n>> \in Text
  BY TextsAre
<1> QED  BY <1>2, <1>3, FunctionsAre DEF Names

(* The frame, taken to where the run of blank cells began.                 *)
LEMMA ReachesRun ==
  ASSUME NEW put \in Puts, NEW y \in Int
  PROVE  Dress(AppendSilentMove(put.frame, y, put.x - put.clear),
               put.blank.renditions, put.blank.hyperlink) \in Frames
<1>1. put.x - put.clear \in Int /\ put.frame \in Frames
  BY PutParts, PutNumbers
<1>2. AppendSilentMove(put.frame, y, put.x - put.clear) \in Frames
  BY <1>1, AppendsSilentMove
<1>3. put.blank.renditions \in Rendition /\ put.blank.hyperlink \in Link
  BY PutParts, CellParts
<1> QED  BY <1>2, <1>3, Dresses

(* A run of blanks kept back is written before what comes after it.        *)
LEMMA Flushes ==
  ASSUME NEW put \in Puts, NEW y \in Int
  PROVE  FlushRun(put, y) \in Frames
<1> DEFINE moved == Dress(AppendSilentMove(put.frame, y, put.x - put.clear),
                          put.blank.renditions, put.blank.hyperlink)
           erased == Emit(moved, <<Fn("ECH", <<put.clear>>)>>)
           spaced == Emit(moved, Spaces(put.clear))
<1>1. moved \in Frames
  BY ReachesRun
<1>2. FlushRun(put, y) = IF CanUseErase(moved) /\ HasEch /\ put.clear > 4 THEN erased
                         ELSE [spaced EXCEPT !.x = put.x]
  BY Zenon DEF FlushRun
<1> HIDE DEF moved
<1>3. put.x \in Int /\ put.clear \in Nat
  BY PutNumbers
<1>4. erased \in Frames /\ spaced \in Frames
  BY <1>1, <1>3, Blanks, Emits
<1> HIDE DEF erased, spaced
<1>5. [spaced EXCEPT !.x = put.x] \in Frames
  BY <1>3, <1>4, Emits
<1> QED  BY <1>2, <1>4, <1>5

(* And at the end of a row.                                                *)
LEMMA FlushesEnd ==
  ASSUME NEW put \in Puts, NEW y \in Int, NEW wrap_this
  PROVE  FlushEnd(put, y, wrap_this) \in Puts
<1> DEFINE moved == Dress(AppendSilentMove(put.frame, y, put.x - put.clear),
                          put.blank.renditions, put.blank.hyperlink)
           erased == Emit(moved, <<Fn("EL", <<-1>>)>>)
           spaced == Emit(moved, Spaces(put.clear))
           further == [spaced EXCEPT !.x = put.x]
<1>1. moved \in Frames
  BY ReachesRun
<1>2. FlushEnd(put, y, wrap_this) =
        IF put.clear = 0 THEN put
        ELSE IF CanUseErase(moved) /\ ~ wrap_this THEN [put EXCEPT !.frame = erased]
        ELSE [put EXCEPT !.frame = further, !.wrote = TRUE]
  BY Zenon DEF FlushEnd
<1> HIDE DEF moved
<1>3. put.x \in Int /\ put.clear \in Nat
  BY PutNumbers
<1>4. erased \in Frames /\ spaced \in Frames
  BY <1>1, <1>3, Blanks, FixedFunctions, Emits
<1> HIDE DEF erased, spaced
<1>5. further \in Frames
  BY <1>3, <1>4, Emits
<1> HIDE DEF further
<1>6. /\ [put EXCEPT !.frame = erased] \in Puts
      /\ [put EXCEPT !.frame = further, !.wrote = TRUE] \in Puts
  BY <1>4, <1>5, PutParts
<1> QED  BY <1>2, <1>6

(* A cell written to a row.                                                *)
LEMMA WritesCell ==
  ASSUME NEW put \in Puts, NEW y \in Int, NEW cell \in Cell, NEW wrap_this, NEW width
  PROVE  WriteCell(put, y, cell, wrap_this, width) \in Puts
<1> DEFINE n      == CellWidth(cell)
           over   == put.x + n >= width
           lost   == IF wrap_this /\ over THEN [put.frame EXCEPT !.x = -1, !.y = -1]
                     ELSE put.frame
           there  == AppendSilentMove(lost, y, put.x)
           drawn  == AppendCell(DressAs(there, cell), cell)
           on     == drawn.x + n
           done   == [drawn EXCEPT !.x = on]
           reached == put.x + n
           wrote  == put.wrote \/ over
<1>1. n \in Nat /\ put.x \in Nat /\ put.frame \in Frames
  BY PutParts, CellParts
<1>2. WriteCell(put, y, cell, wrap_this, width) =
        [put EXCEPT !.frame = done, !.x = reached, !.wrote = wrote]
  BY DEF WriteCell
<1> HIDE DEF n
<1>3. lost \in Frames
  <2>1. -1 \in Int
    OBVIOUS
  <2>2. [put.frame EXCEPT !.x = -1, !.y = -1] \in Frames
    BY <1>1, <2>1, Emits, Zenon
  <2> QED  BY <1>1, <2>2
<1> HIDE DEF lost
<1>4. there \in Frames
  BY <1>1, <1>3, AppendsSilentMove
<1> HIDE DEF there
<1>5. drawn \in Frames
  <2>1. DressAs(there, cell) \in Frames
    BY <1>4, Dresses, CellParts DEF DressAs
  <2> QED  BY <2>1, AppendsCell
<1> HIDE DEF drawn
<1>6. done \in Frames
  <2>1. drawn.x \in Int
    BY <1>5, Emits
  <2>2. on \in Int
    BY <1>1, <2>1
  <2> HIDE DEF on
  <2> QED  BY <1>5, <2>2, Emits
<1> HIDE DEF done
<1>7. reached \in Nat /\ wrote \in BOOLEAN
  <2>1. put.wrote \in BOOLEAN
    BY PutParts
  <2> QED  BY <1>1, <2>1
<1> HIDE DEF reached, wrote
<1> QED  BY <1>2, <1>6, <1>7 DEF Puts

(* The next cell of a row: passed over, kept back as blank, or written.    *)
LEMMA PutsNext ==
  ASSUME NEW w \in Dimension, NEW h \in Dimension, NEW put \in Puts, NEW job, IsJob(job, w, h)
  PROVE  PutNext(put, job) \in Puts
<1>1. /\ job.f \in Screens(w, h) /\ job.y \in 0..h - 1 /\ job.y \in Int
      /\ job.f.ds.width = w /\ job.f.rows[job.y] \in Row(w)
  BY ScreenParts DEF IsJob
<1>2. put.x \in Nat /\ put.clear \in Nat /\ put.frame \in Frames /\ put.blank \in Cell
  BY PutParts
<1>3. ASSUME put.x < w
      PROVE  PutCell(put, job) \in Puts
  <2> DEFINE row  == job.f.rows[job.y]
             cell == row.cells[put.x]
             on   == put.x + 1
             more == put.clear + 1
             blank == IF put.clear = 0 THEN cell ELSE put.blank
             frame == FlushRun(put, job.y)
             held == [put EXCEPT !.x = on, !.clear = more, !.blank = blank]
             flushed == IF put.clear = 0 THEN put
                        ELSE [put EXCEPT !.frame = frame, !.clear = 0]
             unchanged == /\ job.initialized /\ put.clear = 0
                          /\ put.x \in DOMAIN job.old.cells /\ cell = job.old.cells[put.x]
             past == put.x + CellWidth(cell)
             next == flushed.x + 1
             wraps == RowWrap(row)
             wide == job.f.ds.width
  <2>1. cell \in Cell
    <3>1. put.x \in 0..w - 1
      BY <1>2, <1>3 DEF Dimension
    <3> QED  BY <1>1, <3>1, RowsWide
  <2>2. on \in Nat /\ more \in Nat /\ blank \in Cell /\ past \in Nat
    BY <1>2, <2>1, CellParts
  <2>3. frame \in Frames
    BY <1>1, Flushes
  <2>4. PutCell(put, job) =
          IF unchanged THEN [put EXCEPT !.x = past]
          ELSE IF ~ IsEmpty(cell) THEN WriteCell(flushed, job.y, cell, wraps, wide)
          ELSE IF put.clear = 0 \/ BlankLike(put, cell) THEN held
          ELSE [flushed EXCEPT !.x = next, !.clear = 1, !.blank = cell]
    BY DEF PutCell
  <2> HIDE DEF cell, on, more, blank, frame, past, unchanged, row, wraps, wide
  <2>5. held \in Puts /\ [put EXCEPT !.x = past] \in Puts
    BY <2>2 DEF Puts
  <2>6. flushed \in Puts
    BY <2>3 DEF Puts
  <2> HIDE DEF flushed, held
  <2>7. next \in Nat
    BY <2>6, PutNumbers
  <2> HIDE DEF next
  <2>8. [flushed EXCEPT !.x = next, !.clear = 1, !.blank = cell] \in Puts
    BY <2>1, <2>6, <2>7 DEF Puts
  <2>9. WriteCell(flushed, job.y, cell, wraps, wide) \in Puts
    BY <1>1, <2>1, <2>6, WritesCell
  <2> QED  BY <2>4, <2>5, <2>8, <2>9
<1> QED  BY <1>1, <1>3 DEF PutNext


Drawing == [frame : Frames, wrap : BOOLEAN]

(* A frame and whether its last row wraps.                                 *)
LEMMA DrawingsAre ==
  \A frame \in Frames, wrap \in BOOLEAN : [frame |-> frame, wrap |-> wrap] \in Drawing
BY DEF Drawing

(* The end of a row.                                                       *)
LEMMA LeavesRow ==
  ASSUME NEW put \in Puts, NEW y, NEW f
  PROVE  LeaveRow(put, y, f) \in Drawing
<1> DEFINE line  == put.frame.y + 1
           below == [put.frame EXCEPT !.x = 0, !.y = line]
           fed   == Emit(below, <<CR, LF>>)
           stays == ~ put.wrote \/ y = f.ds.height - 1
           wraps == RowWrap(f.rows[y])
<1>1. put.frame \in Frames
  BY PutParts
<1>2. LeaveRow(put, y, f) = IF stays THEN [frame |-> put.frame, wrap |-> FALSE]
                            ELSE IF wraps THEN [frame |-> below, wrap |-> TRUE]
                            ELSE [frame |-> fed, wrap |-> FALSE]
  BY Zenon DEF LeaveRow
<1> HIDE DEF stays, wraps
<1>3. line \in Int /\ 0 \in Int
  <2>1. put.frame.y \in Int
    BY <1>1, Emits
  <2> QED  BY <2>1
<1> HIDE DEF line
<1>4. below \in Frames
  BY <1>1, <1>3, Emits, Zenon
<1> HIDE DEF below
<1>5. fed \in Frames
  BY <1>4, FixedFunctions, Emits
<1> HIDE DEF fed
<1>6. TRUE \in BOOLEAN /\ FALSE \in BOOLEAN
  OBVIOUS
<1>7. /\ [frame |-> put.frame, wrap |-> FALSE] \in Drawing
      /\ [frame |-> below, wrap |-> TRUE] \in Drawing
      /\ [frame |-> fed, wrap |-> FALSE] \in Drawing
  BY <1>1, <1>4, <1>5, <1>6, DrawingsAre, Zenon
<1> QED  BY <1>2, <1>7

PutsMade == INSTANCE FoldLemmas WITH Op <- PutNext
RowsMade == INSTANCE FoldLemmas WITH Op <- PutRow

(* The folds over the columns of a row and over the rows are those the     *)
(* lemmas are about.                                                       *)
LEMMA PutFolds == \A base, seq : PutsMade!Folded(base, seq) = InTurn(PutNext, base, seq)
BY Zenon DEF InTurn, PutsMade!InTurn, PutsMade!Folded

(* The second of the two.                                                  *)
LEMMA RowFolds == \A base, seq : RowsMade!Folded(base, seq) = InTurn(PutRow, base, seq)
BY Zenon DEF InTurn, RowsMade!InTurn, RowsMade!Folded

(* Every cell of a row in turn.                                            *)
LEMMA PutsAll ==
  ASSUME NEW w \in Dimension, NEW h \in Dimension, NEW put \in Puts, NEW job,
         IsJob(job, w, h), NEW n \in Nat
  PROVE  InTurn(PutNext, put, Times(n, job)) \in Puts
<1>1. PutsMade!Closed(Puts, {job})
  <2>1. \A p \in Puts, j \in {job} : PutNext(p, j) \in Puts
    BY PutsNext
  <2> QED  BY <2>1, Zenon DEF PutsMade!Closed
<1>2. Times(n, job) \in Seq({job})
  BY DEF Times
<1>3. PutsMade!Folded(put, Times(n, job)) \in Puts
  BY <1>1, <1>2, PutsMade!FoldedType, Zenon
<1> QED  BY <1>3, PutFolds, Zenon

(* A row drawn.                                                            *)
LEMMA PutsRow ==
  ASSUME NEW w \in Dimension, NEW h \in Dimension, NEW acc \in Drawing, NEW job,
         IsJob(job, w, h)
  PROVE  PutRow(acc, job) \in Drawing
<1> DEFINE row   == job.f.rows[job.y]
           first == row.cells[0]
           drawn == AppendCell(DressAs(acc.frame, first), first)
           on    == drawn.x + CellWidth(first)
           moved == [drawn EXCEPT !.x = on]
           begun == IF ~ acc.wrap THEN acc.frame ELSE moved
           x     == IF acc.wrap THEN CellWidth(first) ELSE 0
           start == [frame |-> begun, x |-> x,
                     clear |-> 0, wrote |-> FALSE, blank |-> NewCell(0)]
           put   == InTurn(PutNext, start, Times(job.f.ds.width, job))
           flushed == FlushEnd(put, job.y, RowWrap(row))
<1>1. /\ job.f \in Screens(w, h) /\ job.y \in 0..h - 1 /\ job.y \in Int
      /\ job.f.ds.width = w /\ job.f.rows[job.y] \in Row(w)
  BY ScreenParts DEF IsJob
<1>2. acc.frame \in Frames /\ acc.wrap \in BOOLEAN
  BY DEF Drawing
<1>3. first \in Cell
  <2>1. 0 \in 0..w - 1
    BY DEF Dimension
  <2> QED  BY <1>1, <2>1, RowsWide
<1>4. CellWidth(first) \in Nat
  BY <1>3, CellParts
<1>5. PutRow(acc, job) = IF job.initialized /\ row = job.old THEN [frame |-> begun, wrap |-> FALSE]
                         ELSE LeaveRow(flushed, job.y, job.f)
  BY Zenon DEF PutRow
<1> HIDE DEF first
<1>6. drawn \in Frames
  <2>1. DressAs(acc.frame, first) \in Frames
    BY <1>2, <1>3, Dresses, CellParts DEF DressAs
  <2> QED  BY <1>3, <2>1, AppendsCell
<1> HIDE DEF drawn
<1>7. moved \in Frames
  <2>1. drawn.x \in Int
    BY <1>6, Emits
  <2>2. on \in Int
    BY <1>4, <2>1
  <2> HIDE DEF on
  <2> QED  BY <1>6, <2>2, Emits
<1> HIDE DEF moved
<1>8. begun \in Frames /\ x \in Nat
  BY <1>2, <1>4, <1>7
<1> HIDE DEF begun, x
<1>9. start \in Puts
  <2>1. NewCell(0) \in Cell
    BY NewCells
  <2> QED  BY <1>8, <2>1 DEF Puts
<1> HIDE DEF start
<1>10. put \in Puts
  <2>1. job.f.ds.width \in Nat
    BY <1>1 DEF Dimension
  <2> QED  BY <1>9, <2>1, PutsAll
<1> HIDE DEF put
<1>11. flushed \in Puts
  BY <1>1, <1>10, FlushesEnd
<1> HIDE DEF flushed
<1>12. LeaveRow(flushed, job.y, job.f) \in Drawing
  BY <1>11, LeavesRow
<1>13. [frame |-> begun, wrap |-> FALSE] \in Drawing
  <2>1. FALSE \in BOOLEAN
    OBVIOUS
  <2> QED  BY <1>8, <2>1, DrawingsAre, Zenon
<1> QED  BY <1>5, <1>12, <1>13

(* What comes after the rows.                                              *)
LEMMA SwitchesMouse ==
  ASSUME NEW initialized \in BOOLEAN, NEW old \in Int, NEW new \in Int, NEW all \in Seq(Int)
  PROVE  MouseDiff(initialized, old, new, all) \in Functions
<1> DEFINE off == [i \in DOMAIN all |-> SwitchMode(FALSE, all[i])]
           was == IF old = 0 THEN <<>> ELSE <<SwitchMode(FALSE, old)>>
           is  == <<SwitchMode(TRUE, new)>>
<1>1. TRUE \in BOOLEAN /\ FALSE \in BOOLEAN
  OBVIOUS
<1>2. off \in Functions
  <2>1. \A i \in DOMAIN all : all[i] \in Int
    OBVIOUS
  <2>2. \A i \in DOMAIN all : SwitchMode(FALSE, all[i]) \in Function
    BY <1>1, <2>1, FixedFunctions, Zenon
  <2> DEFINE n == Len(all)
  <2>3. n \in Nat /\ DOMAIN all = 1..n
    OBVIOUS
  <2>4. \A i \in 1..n : off[i] \in Function
    BY <2>2, <2>3
  <2>5. off = [i \in 1..n |-> off[i]]
    BY <2>3
  <2> HIDE DEF off, n
  <2>6. [i \in 1..n |-> off[i]] \in Seq(Function)
    BY <2>3, <2>4
  <2> QED  BY <2>5, <2>6, Zenon DEF Functions
<1>3. was \in Functions /\ is \in Functions
  <2>1. <<SwitchMode(FALSE, old)>> \in Functions /\ <<SwitchMode(TRUE, new)>> \in Functions
    BY <1>1, FixedFunctions, Zenon
  <2> QED  BY <2>1, FunctionsAre
<1>4. MouseDiff(initialized, old, new, all) =
        IF initialized /\ old = new THEN <<>> ELSE IF new = 0 THEN off ELSE was \o is
  BY DEF MouseDiff
<1> HIDE DEF off, was, is
<1>5. was \o is \in Functions
  BY <1>3, FunctionsAre
<1> QED  BY <1>2, <1>4, <1>5, FunctionsAre


(* The end of a frame: cursor, renditions and modes.                       *)
LEMMA Epilogues ==
  ASSUME NEW w \in Dimension, NEW h \in Dimension, NEW f \in Screens(w, h),
         NEW w0 \in Dimension, NEW h0 \in Dimension, NEW prior \in Screens(w0, h0),
         NEW initialized \in BOOLEAN, NEW frame \in Frames
  PROVE  Epilogue(frame, initialized, prior, f) \in Frames
<1> DEFINE visible == "cursor_visible" \in f.ds.modes
           row   == f.ds.cursor_row
           col   == f.ds.cursor_col
           moved == IF initialized /\ row = frame.y /\ col = frame.x
                    THEN frame ELSE AppendMove(frame, row, col)
           switch == <<SwitchMode(visible, 25)>>
           seen == IF initialized /\ visible = moved.visible THEN moved
                    ELSE Emit(moved, switch)
           fresh == ~ initialized
           dressed == UpdateRendition(seen, f.ds.renditions, fresh)
           linked == UpdateHyperlink(dressed, f.ds.hyperlink, fresh)
           paste == ModeDiff(initialized, prior, f, "bracketed_paste", 2004)
           focus == ModeDiff(initialized, prior, f, "mouse_focus_event", 1004)
           modes == <<1003, 1002, 1001, 1000>>
           codes == <<1015, 1006, 1005>>
           mouse == MouseDiff(initialized, prior.ds.mouse_reporting_mode,
                              f.ds.mouse_reporting_mode, modes)
           coding == MouseDiff(initialized, prior.ds.mouse_encoding_mode,
                               f.ds.mouse_encoding_mode, codes)
           some == paste \o mouse
           all  == some \o focus \o coding
<1>1. row \in Int /\ col \in Int /\ f.ds.renditions \in Rendition /\ f.ds.hyperlink \in Link
  BY ScreenParts
<1>2. /\ prior.ds.mouse_reporting_mode \in Int /\ f.ds.mouse_reporting_mode \in Int
      /\ prior.ds.mouse_encoding_mode \in Int /\ f.ds.mouse_encoding_mode \in Int
  <2>1. prior.ds \in Draws(w0, h0) /\ f.ds \in Draws(w, h)
    BY ScreenParts
  <2> QED  BY <2>1 DEF Draws, Adrift
<1>3. paste \in Functions /\ focus \in Functions
  BY SwitchesMode
<1>4. mouse \in Functions /\ coding \in Functions
  <2>1. modes \in Seq(Int) /\ codes \in Seq(Int)
    OBVIOUS
  <2> HIDE DEF modes, codes
  <2>2. \A old \in Int, new \in Int, set \in Seq(Int) :
          MouseDiff(initialized, old, new, set) \in Functions
    BY SwitchesMouse
  <2> QED  BY <1>2, <2>1, <2>2, Zenon
<1>5. visible \in BOOLEAN /\ fresh \in BOOLEAN /\ 25 \in Int
  OBVIOUS
<1>6. switch \in Functions
  BY <1>5, FixedFunctions, Zenon
<1>7. Epilogue(frame, initialized, prior, f) = Emit(linked, all)
  BY Zenon DEF Epilogue
<1> HIDE DEF paste, focus, mouse, coding, visible, switch, row, col, fresh
<1>8. moved \in Frames
  BY <1>1, AppendsMove
<1> HIDE DEF moved
<1>9. seen \in Frames
  BY <1>6, <1>8, Emits
<1> HIDE DEF seen
<1>10. dressed \in Frames
  <2>1. \A force \in BOOLEAN : UpdateRendition(seen, f.ds.renditions, force) \in Frames
    BY <1>1, <1>9, Dresses
  <2> QED  BY <1>5, <2>1, Zenon
<1> HIDE DEF dressed
<1>11. linked \in Frames
  <2>1. \A force \in BOOLEAN : UpdateHyperlink(dressed, f.ds.hyperlink, force) \in Frames
    BY <1>1, <1>10, Dresses
  <2> QED  BY <1>5, <2>1, Zenon
<1> HIDE DEF linked
<1>12. some \in Functions
  BY <1>3, <1>4, FunctionsAre
<1> HIDE DEF some
<1>13. all \in Functions
  BY <1>3, <1>4, <1>12, FunctionsAre
<1> HIDE DEF all
<1>14. Emit(linked, all) \in Frames
  BY <1>11, <1>13, Emits
<1> QED  BY <1>7, <1>14

(* A frame is a sequence of functions, whatever the screens.               *)
LEMMA NewFrames ==
  ASSUME NEW w \in Dimension, NEW h \in Dimension, NEW f \in Screens(w, h),
         NEW w0 \in Dimension, NEW h0 \in Dimension, NEW prior \in Screens(w0, h0),
         NEW initialized \in BOOLEAN
  PROVE  NewFrame(initialized, prior, f) \in Functions
<1> DEFINE kept  == initialized /\ SizeKept(prior, f)
           start == Prologue(initialized, prior, f)
           rows  == OldRows(prior, f)
           s     == IF kept THEN ScrollOf(rows, f) ELSE [lines |-> 0, height |-> 0]
           ready == IF s.height = 0 THEN start ELSE ScrollFrame(start, f, s)
           olds  == IF s.height = 0 THEN rows ELSE ScrolledRows(rows, f, s)
           Job(y) == [y |-> y, initialized |-> kept, f |-> f, old |-> olds[y]]
           n     == f.ds.height - s.height
           jobs  == [i \in 1..n |-> Job(s.height + i - 1)]
           blank == [frame |-> ready, wrap |-> FALSE]
           drawn == InTurn(PutRow, blank, jobs)
           all   == {Job(y) : y \in 0..h - 1}
<1>1. f.ds.height = h /\ h \in Nat
  BY ScreenParts DEF Dimension
<1>2. kept \in BOOLEAN
  OBVIOUS
<1>3. start \in Frames
  BY Prologues
<1>4. s \in [lines : Nat, height : Nat] /\ s.height <= h
  <2>1. [lines |-> 0, height |-> 0] \in [lines : Nat, height : Nat] /\ 0 <= h
    BY <1>1
  <2> HIDE DEF rows, kept
  <2> QED  BY <2>1, ScrollIs
<1>5. NewFrame(initialized, prior, f) = Epilogue(drawn.frame, kept, prior, f).out
  BY Zenon DEF NewFrame
<1> HIDE DEF kept, start, rows, s
<1>6. ready \in Frames
  BY <1>3, <1>4, ScrollsFrame
<1> HIDE DEF ready, olds
<1>7. blank \in Drawing
  <2>1. FALSE \in BOOLEAN
    OBVIOUS
  <2> QED  BY <1>6, <2>1, DrawingsAre, Zenon
<1>8. RowsMade!Closed(Drawing, all)
  <2>1. ASSUME NEW acc \in Drawing, NEW job \in all
        PROVE  PutRow(acc, job) \in Drawing
    <3>1. IsJob(job, w, h)
      BY <1>2 DEF IsJob
    <3> QED  BY <3>1, PutsRow
  <2> HIDE DEF all
  <2> QED  BY <2>1, Zenon DEF RowsMade!Closed
<1>9. jobs \in Seq(all)
  <2>1. n \in Nat /\ \A i \in 1..n : s.height + i - 1 \in 0..h - 1
    BY <1>1, <1>4
  <2>2. \A y \in 0..h - 1 : Job(y) \in all
    OBVIOUS
  <2> HIDE DEF Job, n, all
  <2>3. \A i \in 1..n : Job(s.height + i - 1) \in all
    BY <2>1, <2>2
  <2> QED  BY <2>1, <2>3
<1> HIDE DEF all, jobs, blank
<1>10. RowsMade!Folded(blank, jobs) \in Drawing
  BY <1>7, <1>8, <1>9, RowsMade!FoldedType, Zenon
<1>11. drawn \in Drawing
  BY <1>10, RowFolds, Zenon
<1> HIDE DEF drawn
<1>12. drawn.frame \in Frames
  BY <1>11 DEF Drawing
<1>13. Epilogue(drawn.frame, kept, prior, f) \in Frames
  BY <1>2, <1>12, Epilogues
<1> QED  BY <1>5, <1>13, Emits


(***************************************************************************)
(* Lines move only in the scrolling region.                                *)
(***************************************************************************)
SameOutside(fb, g) ==
  \A y \in DOMAIN fb.rows \ (fb.ds.top..fb.ds.bottom) : g.rows[y] = fb.rows[y]

(* Lines inserted and deleted leave the rows outside the region alone.     *)
LEMMA LinesInside ==
  ASSUME NEW w \in Dimension, NEW h \in Dimension, NEW fb \in Screens(w, h),
         NEW row \in Int, NEW count \in Int
  PROVE  /\ SameOutside(fb, InsertLine(fb, row, count))
         /\ SameOutside(fb, DeleteLine(fb, row, count))
<1> DEFINE top    == fb.ds.top
           bottom == fb.ds.bottom
           room   == bottom + 1 - row
           scroll == IF count < room THEN count ELSE room
           inserted == [y \in DOMAIN fb.rows |-> IF y < row \/ y > bottom THEN fb.rows[y]
                                                 ELSE IF y < row + scroll THEN Blank(fb)
                                                 ELSE fb.rows[y - scroll]]
           deleted == [y \in DOMAIN fb.rows |-> IF y < row \/ y > bottom THEN fb.rows[y]
                                                ELSE IF y + scroll <= bottom THEN fb.rows[y + scroll]
                                                ELSE Blank(fb)]
           next == fb.next + 1
<1>1. DOMAIN fb.rows = 0..h - 1 /\ top \in 0..h - 1 /\ bottom \in 0..h - 1
  BY ScreenParts, Numbers
<1>2. InsertLine(fb, row, count) =
        IF row < top \/ row > bottom + 1 \/ scroll <= 0 THEN fb
        ELSE [fb EXCEPT !.rows = inserted, !.next = next]
  BY DEF InsertLine
<1>3. DeleteLine(fb, row, count) =
        IF row < top \/ row > bottom \/ scroll <= 0 THEN fb
        ELSE [fb EXCEPT !.rows = deleted, !.next = next]
  BY DEF DeleteLine
<1>4. ASSUME NEW y \in DOMAIN fb.rows \ (top..bottom), ~ (row < top)
      PROVE  inserted[y] = fb.rows[y] /\ deleted[y] = fb.rows[y]
  <2>1. y < row \/ y > bottom
    BY <1>1, <1>4
  <2> HIDE DEF top, bottom, scroll
  <2> QED  BY <1>4, <2>1
<1>5. fb = [fb EXCEPT !.rows = fb.rows] /\ "rows" \in DOMAIN fb
  BY DEF Screens, Canvas
<1> HIDE DEF inserted, deleted, next, scroll
<1>6. CASE row < top
  BY <1>2, <1>3, <1>6 DEF SameOutside
<1>7. CASE ~ (row < top)
  <2>1. /\ [fb EXCEPT !.rows = inserted, !.next = next].rows = inserted
        /\ [fb EXCEPT !.rows = deleted, !.next = next].rows = deleted
    BY <1>5
  <2>2. InsertLine(fb, row, count).rows \in {fb.rows, inserted}
    BY <1>2, <2>1
  <2>3. DeleteLine(fb, row, count).rows \in {fb.rows, deleted}
    BY <1>3, <2>1
  <2> QED  BY <1>4, <1>7, <2>2, <2>3 DEF SameOutside
<1> QED  BY <1>6, <1>7

(* Scrolls do.                                                             *)
LEMMA ScrollsInside ==
  ASSUME NEW w \in Dimension, NEW h \in Dimension, NEW fb \in Screens(w, h), NEW n \in Int
  PROVE  SameOutside(fb, Scroll(fb, n)) /\ SameOutside(fb, MoveRowsAutoscroll(fb, n))
<1>1. \A k \in Int : SameOutside(fb, Scroll(fb, k))
  <2>1. fb.ds.top \in Int
    BY ScreenParts, Numbers
  <2> QED  BY <2>1, LinesInside DEF Scroll
<1> DEFINE to    == fb.ds.cursor_row + n
           over  == IF fb.ds.cursor_row \notin fb.ds.top..fb.ds.bottom THEN 0
                    ELSE to - Clamp(to, fb.ds.top, fb.ds.bottom)
           moved == Scroll(fb, over)
           ready == IF over = 0 THEN fb
                    ELSE [moved EXCEPT !.ds = MoveRow(moved.ds, -over, TRUE)]
<1>2. MoveRowsAutoscroll(fb, n) = [ready EXCEPT !.ds = MoveRow(ready.ds, n, TRUE)]
  BY DEF MoveRowsAutoscroll
<1>3. over \in Int
  BY ScreenParts, Numbers DEF Clamp
<1> HIDE DEF over
<1>4. moved.rows = moved.rows /\ SameOutside(fb, moved)
  BY <1>1, <1>3
<1> HIDE DEF moved
<1>5. ready.rows = fb.rows \/ ready.rows = moved.rows
  OBVIOUS
<1> HIDE DEF ready
<1>6. MoveRowsAutoscroll(fb, n).rows = ready.rows
  BY <1>2
<1> QED  BY <1>1, <1>4, <1>5, <1>6 DEF SameOutside

(* A carriage return moves no row and leaves the region.                   *)
LEMMA ReturnsInside ==
  ASSUME NEW w \in Dimension, NEW h \in Dimension, NEW fb \in Screens(w, h)
  PROVE  /\ CarriageReturn(fb).rows = fb.rows
         /\ CarriageReturn(fb).ds.top = fb.ds.top /\ CarriageReturn(fb).ds.bottom = fb.ds.bottom
<1>1. DOMAIN fb = {"rows", "next", "icon_name", "window_title", "title_initialized", "clipboard",
                   "clipboard_seq", "color_queries", "color_query_seq", "bell_count", "ds"}
      /\ fb.ds \in Adrift(w, h)
  BY ScreenParts, Numbers DEF Screens, Canvas
<1>2. MoveCol(fb.ds, 0, FALSE).top = fb.ds.top /\ MoveCol(fb.ds, 0, FALSE).bottom = fb.ds.bottom
  BY DEF MoveCol, Settled, NewGrapheme, SnapCursorToBorder
<1> QED  BY <1>1, <1>2 DEF CarriageReturn

(* The functions that move lines, on a screen that has lost a pending      *)
(* wrap.                                                                   *)
LEMMA PerformsInside ==
  ASSUME NEW w \in Dimension, NEW h \in Dimension, NEW fb \in Screens(w, h), NEW p \in Text,
         NEW name \in {"LF", "RI", "NEL", "IL", "DL", "SU", "SD"}
  PROVE  SameOutside(fb, Perform(fb, name, p))
<1>1. GetParam(p, 0, 1) \in Int /\ -GetParam(p, 0, 1) \in Int /\ fb.ds.cursor_row \in Int
  <2>1. \A n \in Nat, d \in Int : GetParam(p, n, d) \in Int
    BY ParamsAre
  <2>2. GetParam(p, 0, 1) \in Int
    BY <2>1
  <2> QED  BY <2>2, ScreenParts
<1>2. CASE name \in {"LF", "RI", "SU", "SD"}
  <2>1. \A k \in Int : SameOutside(fb, Scroll(fb, k)) /\ SameOutside(fb, MoveRowsAutoscroll(fb, k))
    BY ScrollsInside
  <2>2. CASE name = "LF"
    BY <2>1, <2>2 DEF Perform
  <2>3. CASE name = "RI"
    BY <2>1, <2>3 DEF Perform
  <2>4. CASE name = "SU"
    BY <1>1, <2>1, <2>4 DEF Perform
  <2>5. CASE name = "SD"
    BY <1>1, <2>1, <2>5 DEF Perform
  <2> QED  BY <1>2, <2>2, <2>3, <2>4, <2>5
<1>3. CASE name = "NEL"
  <2> DEFINE g == CarriageReturn(fb)
  <2>1. g \in Screens(w, h) /\ g.rows = fb.rows /\ g.ds.top = fb.ds.top /\ g.ds.bottom = fb.ds.bottom
    BY Returns, ReturnsInside
  <2>2. Perform(fb, name, p) = MoveRowsAutoscroll(g, 1)
    BY <1>3 DEF Perform
  <2> HIDE DEF g
  <2>3. SameOutside(g, MoveRowsAutoscroll(g, 1))
    BY <2>1, ScrollsInside
  <2> QED  BY <2>1, <2>2, <2>3 DEF SameOutside
<1>4. CASE name \in {"IL", "DL"}
  <2> DEFINE g == IF name = "IL" THEN InsertLine(fb, fb.ds.cursor_row, GetParam(p, 0, 1))
                  ELSE DeleteLine(fb, fb.ds.cursor_row, GetParam(p, 0, 1))
  <2>1. SameOutside(fb, g) /\ g \in Screens(w, h)
    BY <1>1, LinesInside, InsertsLine, DeletesLine, ScreenParts
  <2>2. Perform(fb, name, p) = CarriageReturn(g)
    <3>1. CASE name = "IL"
      BY <3>1 DEF Perform, InsertLines
    <3>2. CASE name = "DL"
      BY <3>2 DEF Perform, DeleteLines
    <3> QED  BY <1>4, <3>1, <3>2
  <2> HIDE DEF g
  <2>3. CarriageReturn(g).rows = g.rows
    BY <2>1, ReturnsInside
  <2> QED  BY <2>1, <2>2, <2>3 DEF SameOutside
<1> QED  BY <1>2, <1>3, <1>4

(* So do the functions that move rows, by way of these.                    *)
LEMMA DispatchesInside ==
  ASSUME NEW w \in Dimension, NEW h \in Dimension, NEW fb \in Screens(w, h), NEW p \in Text,
         NEW name \in {"LF", "RI", "NEL", "IL", "DL", "SU", "SD"}
  PROVE  SameOutside(fb, Dispatch(fb, name, p))
<1> DEFINE g == [fb EXCEPT !.ds.next_print_will_wrap = FALSE]
<1>1. g \in Screens(w, h)
  <2>1. \A b \in BOOLEAN : [fb EXCEPT !.ds.next_print_will_wrap = b] \in Screens(w, h)
    BY Sets
  <2> QED  BY <2>1
<1>2. g.rows = fb.rows /\ g.ds.top = fb.ds.top /\ g.ds.bottom = fb.ds.bottom
  <2>1. DOMAIN fb = {"rows", "next", "icon_name", "window_title", "title_initialized",
                     "clipboard", "clipboard_seq", "color_queries", "color_query_seq",
                     "bell_count", "ds"}
    BY DEF Screens, Canvas
  <2>2. fb.ds \in Adrift(w, h)
    BY ScreenParts, Numbers
  <2> DEFINE ds == [fb.ds EXCEPT !.next_print_will_wrap = FALSE]
  <2>3. g = [fb EXCEPT !.ds = ds]
    OBVIOUS
  <2>4. ds.top = fb.ds.top /\ ds.bottom = fb.ds.bottom
    BY <2>2 DEF Adrift
  <2> HIDE DEF ds
  <2> QED  BY <2>1, <2>3, <2>4
<1>3. SameOutside(g, Perform(g, name, p))
  <2> HIDE DEF g
  <2> QED  BY <1>1, PerformsInside
<1>4. Dispatch(fb, name, p) \in {Perform(g, name, p), Perform(fb, name, p)}
  BY DEF Dispatch
<1>5. SameOutside(fb, Perform(fb, name, p))
  BY PerformsInside
<1> HIDE DEF g
<1> QED  BY <1>2, <1>3, <1>4, <1>5 DEF SameOutside

(***************************************************************************)
(* The specification.  The application's writes keep an emulator of the    *)
(* window's size; the client's screen has the size of the last one shown.  *)
(***************************************************************************)
LEMMA SizesAre ==
  ASSUME NEW size \in Sizes
  PROVE  /\ size[1] \in 1..MAX_DIMENSION /\ size[2] \in 1..MAX_DIMENSION
         /\ size[1] \in Dimension /\ size[2] \in Dimension
<1>1. size[1] \in 1..MAX_DIMENSION /\ size[2] \in 1..MAX_DIMENSION
  BY TerminalConstants
<1> QED  BY <1>1, ScreenConstants DEF Dimension

(* A screen without its generations is whole.                              *)
LEMMA OnlyCells ==
  ASSUME NEW w \in Dimension, NEW h \in Dimension, NEW screen \in Screens(w, h)
  PROVE  CellsOnly(screen) \in Screens(w, h)
<1> DEFINE rows == [y \in 0..h - 1 |-> [screen.rows[y] EXCEPT !.gen = 0]]
<1>1. \A y \in 0..h - 1 : screen.rows[y] \in Row(w)
  BY ScreenParts
<1>2. \A y \in 0..h - 1 : [screen.rows[y] EXCEPT !.gen = 0] \in Row(w)
                          /\ [screen.rows[y] EXCEPT !.gen = 0].gen = 0
  BY <1>1 DEF Row
<1>3. rows \in Rows(w, h) /\ Dated(rows, 1) /\ 1 \in Int
  <2>1. rows \in Rows(w, h)
    BY <1>2 DEF Rows
  <2>2. \A y \in DOMAIN rows : rows[y].gen = 0
    BY <1>2, Zenon
  <2>3. Dated(rows, 1)
    <3> HIDE DEF rows
    <3> QED  BY <2>2 DEF Dated
  <2> QED  BY <2>1, <2>3
<1>4. CellsOnly(screen) = [screen EXCEPT !.rows = rows, !.next = 1]
  BY ScreenParts DEF CellsOnly
<1> HIDE DEF rows
<1> QED  BY <1>3, <1>4 DEF Screens, Canvas

(* A client that applies a diff has a screen of the size of the new one.   *)
LEMMA DiffApplies ==
  ASSUME NEW s \in Sizes, NEW t \in Sizes,
         NEW existing \in Screens(s[1], s[2]), NEW screen \in Screens(s[1], s[2]),
         NEW fb \in Screens(t[1], t[2])
  PROVE  ApplyDiff(screen, DiffFrom(existing, fb)) \in Screens(t[1], t[2])
<1> DEFINE frame == NewFrame(TRUE, existing, fb)
           to == <<fb.ds.width, fb.ds.height>>
           resize == IF SizeKept(existing, fb) THEN <<>> ELSE to
<1>1. /\ s[1] \in Dimension /\ s[2] \in Dimension /\ t[1] \in Dimension /\ t[2] \in Dimension
      /\ t[1] \in 1..MAX_DIMENSION /\ t[2] \in 1..MAX_DIMENSION
  BY SizesAre
<1>2. /\ existing.ds.width = s[1] /\ existing.ds.height = s[2]
      /\ fb.ds.width = t[1] /\ fb.ds.height = t[2]
  BY <1>1, ScreenParts
<1>3. frame \in Seq(Function)
  <2>1. TRUE \in BOOLEAN
    OBVIOUS
  <2>2. \A b \in BOOLEAN : NewFrame(b, existing, fb) \in Functions
    BY <1>1, NewFrames
  <2> QED  BY <2>1, <2>2, Zenon DEF Functions
<1>4. CASE SameScreen(existing, fb)
  <2>1. s[1] = t[1] /\ s[2] = t[2]
    BY <1>2, <1>4 DEF SameScreen, Displayed
  <2>2. ApplyDiff(screen, DiffFrom(existing, fb)) = Run(screen, <<>>)
    BY <1>4 DEF ApplyDiff, DiffFrom
  <2>3. <<>> \in Seq(Function)
    OBVIOUS
  <2>4. Run(screen, <<>>) \in Screens(s[1], s[2])
    BY <1>1, <2>3, Runs
  <2> QED  BY <2>1, <2>2, <2>4
<1>5. CASE ~ SameScreen(existing, fb) /\ SizeKept(existing, fb)
  <2>1. s[1] = t[1] /\ s[2] = t[2]
    BY <1>2, <1>5 DEF SizeKept
  <2>2. DiffFrom(existing, fb) = [resize |-> <<>>, frame |-> frame]
    BY <1>5 DEF DiffFrom
  <2> HIDE DEF frame
  <2>3. ApplyDiff(screen, DiffFrom(existing, fb)) = Run(screen, frame)
    BY <2>2 DEF ApplyDiff
  <2>4. Run(screen, frame) \in Screens(s[1], s[2])
    BY <1>1, <1>3, Runs
  <2> QED  BY <2>1, <2>3, <2>4
<1>6. CASE ~ SameScreen(existing, fb) /\ ~ SizeKept(existing, fb)
  <2>1. DiffFrom(existing, fb) = [resize |-> to, frame |-> frame]
    BY <1>6 DEF DiffFrom
  <2>2. to # <<>> /\ to[1] = t[1] /\ to[2] = t[2]
    BY <1>2
  <2> HIDE DEF frame, to
  <2>3. ApplyDiff(screen, DiffFrom(existing, fb)) = Run(Resize(screen, t[1], t[2]), frame)
    BY <2>1, <2>2 DEF ApplyDiff
  <2>4. Resize(screen, t[1], t[2]) \in Screens(t[1], t[2])
    BY <1>1, Resizes
  <2>5. Run(Resize(screen, t[1], t[2]), frame) \in Screens(t[1], t[2])
    BY <1>1, <1>3, <2>4, Runs
  <2> QED  BY <2>3, <2>5
<1> QED  BY <1>4, <1>5, <1>6

IInv ==
  /\ \E size \in Sizes : emu \in Emulators(size[1], size[2])
  /\ \E size \in Sizes :
       last \in Screens(size[1], size[2]) /\ shown \in Screens(size[1], size[2])
  /\ acts \in 0..MaxActs

(* An emulator that a session wrote to first is whole.                     *)
LEMMA Started ==
  ASSUME NEW size \in Sizes, NEW bytes \in Seeds
  PROVE  ActBytes(NewEmulator(size[1], size[2]), bytes) \in Emulators(size[1], size[2])
<1>1. bytes \in Seq(0..255)
  BY TerminalConstants
<1> QED  BY <1>1, SizesAre, NewEmulators, ActsBytes

(* The invariant holds at first: the server's emulator is whole, and so is *)
(* the client's screen, drawn over one of the same size.                   *)
LEMMA Begins == Init => IInv
<1> DEFINE After(size, bytes) == ActBytes(NewEmulator(size[1], size[2]), bytes)
           Frame(e) == NewFrame(FALSE, e.fb, e.fb)
<1> SUFFICES ASSUME Init PROVE IInv
  OBVIOUS
<1>1. PICK size \in Sizes, seed \in Seeds, before \in Seeds :
        /\ emu = After(size, seed) /\ last = emu.fb /\ acts = 0
        /\ shown = CellsOnly(Run(After(size, before).fb, Frame(emu)))
  BY Zenon DEF Init
<1>2. emu \in Emulators(size[1], size[2]) /\ After(size, before) \in Emulators(size[1], size[2])
  BY <1>1, Started
<1> HIDE DEF After
<1> DEFINE junk == After(size, before)
<1>3. last \in Screens(size[1], size[2]) /\ junk.fb \in Screens(size[1], size[2])
  BY <1>1, <1>2 DEF Emulators
<1> HIDE DEF junk
<1>4. size[1] \in Dimension /\ size[2] \in Dimension
  BY SizesAre
<1>5. Frame(emu) \in Seq(Function)
  <2>1. FALSE \in BOOLEAN
    OBVIOUS
  <2>2. \A b \in BOOLEAN : NewFrame(b, emu.fb, emu.fb) \in Functions
    BY <1>1, <1>3, <1>4, NewFrames
  <2> QED  BY <2>1, <2>2, Zenon DEF Functions
<1> HIDE DEF Frame
<1>6. Run(junk.fb, Frame(emu)) \in Screens(size[1], size[2])
  BY <1>3, <1>4, <1>5, Runs
<1>7. shown \in Screens(size[1], size[2])
  BY <1>1, <1>4, <1>6, OnlyCells DEF junk
<1>8. acts \in 0..MaxActs
  BY <1>1, TerminalConstants
<1> QED  BY <1>2, <1>3, <1>7, <1>8 DEF IInv

(* Writes and resizes keep the server's emulator whole; a diff leaves the  *)
(* client with the size of the screen drawn.                               *)
LEMMA Keeps == IInv /\ [Next]_vars => IInv'
<1> SUFFICES ASSUME IInv, [Next]_vars PROVE IInv'
  OBVIOUS
<1>1. PICK size \in Sizes : emu \in Emulators(size[1], size[2])
  BY DEF IInv
<1>2. PICK drawn \in Sizes :
        last \in Screens(drawn[1], drawn[2]) /\ shown \in Screens(drawn[1], drawn[2])
  BY DEF IInv
<1>3. size[1] \in Dimension /\ size[2] \in Dimension /\ drawn[1] \in Dimension /\ drawn[2] \in Dimension
  BY SizesAre
<1>4. acts \in 0..MaxActs /\ MaxActs \in Nat
  BY TerminalConstants DEF IInv
<1>5. CASE Write
  <2>1. PICK bytes \in IF emu.parser = NewParser THEN Writes ELSE Pieces :
          emu' = ActBytes(emu, bytes)
    BY <1>5 DEF Write
  <2>2. bytes \in Seq(0..255)
    BY TerminalConstants
  <2>3. emu' \in Emulators(size[1], size[2])
    BY <1>1, <1>3, <2>1, <2>2, ActsBytes
  <2>4. acts' \in 0..MaxActs /\ last' = last /\ shown' = shown
    BY <1>4, <1>5 DEF Write
  <2> QED  BY <1>2, <2>3, <2>4 DEF IInv
<1>6. CASE ResizeTo
  <2>1. PICK to \in Sizes : emu' = ActResize(emu, to)
    BY <1>6 DEF ResizeTo
  <2>2. emu' \in Emulators(to[1], to[2])
    BY <1>1, <1>3, <2>1, ActsResize
  <2>3. acts' \in 0..MaxActs /\ last' = last /\ shown' = shown
    BY <1>4, <1>6 DEF ResizeTo
  <2> QED  BY <1>2, <2>2, <2>3 DEF IInv
<1>7. CASE Draw
  <2>1. /\ shown' = CellsOnly(ApplyDiff(shown, DiffFrom(last, emu.fb)))
        /\ last' = emu.fb /\ emu' = emu /\ acts' = acts
    BY <1>7 DEF Draw
  <2>2. emu.fb \in Screens(size[1], size[2])
    BY <1>1 DEF Emulators
  <2>3. ApplyDiff(shown, DiffFrom(last, emu.fb)) \in Screens(size[1], size[2])
    BY <1>2, <2>2, DiffApplies
  <2>4. shown' \in Screens(size[1], size[2])
    BY <1>3, <2>1, <2>3, OnlyCells
  <2> QED  BY <1>1, <1>4, <2>1, <2>2, <2>4 DEF IInv
<1>8. CASE UNCHANGED vars
  BY <1>1, <1>2, <1>4, <1>8 DEF IInv, vars
<1> QED  BY <1>5, <1>6, <1>7, <1>8 DEF Next

(* A screen of the invariant is well formed.                               *)
LEMMA WholeScreen ==
  ASSUME NEW w \in Dimension, NEW h \in Dimension, NEW fb \in Screens(w, h)
  PROVE  WellFormed(fb)
<1>1. /\ fb.ds \in Draws(w, h) /\ fb.ds.width = w /\ fb.ds.height = h
      /\ fb.ds.cursor_col \in 0..w - 1 /\ fb.ds.cursor_row \in 0..h - 1
      /\ DOMAIN fb.rows = 0..h - 1
      /\ \A y \in 0..h - 1 : fb.rows[y] \in Row(w) /\ fb.rows[y].gen < fb.next
  BY ScreenParts
<1>2. \A y \in 0..h - 1 : DOMAIN fb.rows[y].cells = 0..w - 1
  BY <1>1, RowsWide
<1>3. /\ fb.ds.top \in 0..h - 1 /\ fb.ds.bottom \in 0..h - 1 /\ fb.ds.top <= fb.ds.bottom
      /\ fb.ds \in Adrift(w, h) /\ Ordered(fb.ds)
  BY <1>1, Numbers
<1>4. fb.ds.tabs \subseteq 0..w - 1 /\ fb.ds.modes \subseteq Modes
  BY <1>3 DEF Adrift, Stops, ModeSets
<1>5. /\ fb.ds.combining_char_col \in -1..w - 1 /\ fb.ds.combining_char_row \in -1..h - 1
      /\ fb.ds.combining_char_col = -1 <=> fb.ds.combining_char_row = -1
  BY <1>3 DEF Adrift, BelowOrNone, Ordered
<1>6. \/ OnScreen(fb, fb.ds.combining_char_row, fb.ds.combining_char_col)
      \/ fb.ds.combining_char_row = -1 /\ fb.ds.combining_char_col = -1
  BY <1>1, <1>5 DEF OnScreen, Dimension
<1>7. OnScreen(fb, fb.ds.cursor_row, fb.ds.cursor_col)
  BY <1>1 DEF OnScreen
<1>8. 0 <= fb.ds.top /\ fb.ds.top <= fb.ds.bottom /\ fb.ds.bottom < fb.ds.height
  BY <1>1, <1>3 DEF Dimension
<1> QED  BY <1>1, <1>2, <1>4, <1>6, <1>7, <1>8, Zenon DEF WellFormed

(* The invariant gives the types the runs check.                           *)
LEMMA IsTyped == IInv => TypeOK
<1> SUFFICES ASSUME IInv PROVE TypeOK
  OBVIOUS
<1>1. PICK size \in Sizes : emu \in Emulators(size[1], size[2])
  BY DEF IInv
<1>2. PICK drawn \in Sizes :
        last \in Screens(drawn[1], drawn[2]) /\ shown \in Screens(drawn[1], drawn[2])
  BY DEF IInv
<1>3. size[1] \in Dimension /\ size[2] \in Dimension /\ drawn[1] \in Dimension /\ drawn[2] \in Dimension
  BY SizesAre
<1>4. emu.fb \in Screens(size[1], size[2]) /\ emu.dispatch \in Dispatchers /\ emu.parser \in Parsers
  BY <1>1 DEF Emulators
<1>5. WellFormed(emu.fb) /\ WellFormed(last) /\ WellFormed(shown)
  BY <1>2, <1>3, <1>4, WholeScreen
<1>6. Len(emu.dispatch.params) <= MAX_PARAM_BYTES /\ Len(emu.dispatch.chars) <= MAX_DISPATCH_CHARS
  BY <1>4 DEF Dispatchers, ShortTexts
<1>7. Len(emu.parser.buf) < BUF_SIZE
  <2>1. emu.parser.buf \in Held
    BY <1>4 DEF Parsers
  <2> DEFINE n == Len(emu.parser.buf)
  <2>2. n \in 0..3
    BY <2>1, HeldShort
  <2> HIDE DEF n
  <2>3. n < 4
    BY <2>2
  <2> QED  BY <2>3 DEF n, BUF_SIZE
<1>8. acts \in 0..MaxActs
  BY DEF IInv
<1> QED  BY <1>5, <1>6, <1>7, <1>8, Zenon DEF TypeOK

(* Whatever an application writes, from whatever the screen was, and       *)
(* however the window is resized between: the rows and the cells are those *)
(* of the window's size, the cursor, the scrolling region, the tab stops   *)
(* and the cell combining characters join are inside it, on the server's   *)
(* screen as on the client's; and the buffers of the parser and of the     *)
(* dispatcher keep their limits.                                           *)
THEOREM Invariance == Spec => []IInv
<1>1. Init => IInv
  BY Begins
<1>2. IInv /\ [Next]_vars => IInv'
  BY Keeps
<1> QED  BY <1>1, <1>2, PTL DEF Spec

(* The types, for every size, every text the application writes and every  *)
(* order of writes, resizes and diffs: rows and cells of the window's      *)
(* size, everything that points into them inside it, the parser's and the  *)
(* dispatcher's buffers within their limits.                               *)
THEOREM TypeCorrect == Spec => []TypeOK
<1>1. IInv => TypeOK
  BY IsTyped
<1> QED  BY <1>1, Invariance, PTL

(* Line feeds, reverse and next line, and the functions that insert,       *)
(* delete and scroll lines, leave every row outside the scrolling region   *)
(* as it was, whatever the region, the cursor and what was written.        *)
THEOREM AlwaysInRegion == Spec => []ScrollsInRegion
<1>1. IInv => ScrollsInRegion
  <2> SUFFICES ASSUME IInv, NEW name \in {"LF", "RI", "NEL", "IL", "DL", "SU", "SD"},
                      NEW n \in {1, 2, 9}
               PROVE  SameOutside(emu.fb, Dispatch(emu.fb, name, <<n>>))
    BY Zenon DEF ScrollsInRegion, SameOutside
  <2>1. PICK size \in Sizes : emu \in Emulators(size[1], size[2])
    BY DEF IInv
  <2>2. size[1] \in Dimension /\ size[2] \in Dimension /\ emu.fb \in Screens(size[1], size[2])
    BY <2>1, SizesAre DEF Emulators
  <2>3. <<n>> \in Text
    BY DEF Text
  <2> QED  BY <2>2, <2>3, DispatchesInside
<1> QED  BY <1>1, Invariance, PTL

(***************************************************************************)
(* The parser finds the next character again.                              *)
(***************************************************************************)
(* One of the two records of a byte, with its bytes held replaced.         *)
LEMMA Leaves ==
  \A chars, buf, b : [[chars |-> chars, buf |-> b] EXCEPT !.buf = buf] = [chars |-> chars, buf |-> buf]
OBVIOUS

(* What the bytes come to, before the last of them is tried again.         *)
Whole(b) ==
  CASE Decode(b) = "char" -> [chars |-> <<CodePoint(b)>>, buf |-> <<>>]
    [] Decode(b) = "invalid" -> [chars |-> <<REPLACEMENT>>, buf |-> <<>>]
    [] OTHER -> [chars |-> <<>>, buf |-> b]

(* The two of its cases in which nothing is wrong.                         *)
LEMMA WholeIs ==
  \A b : /\ Decode(b) = "char" => Whole(b) = [chars |-> <<CodePoint(b)>>, buf |-> <<>>]
         /\ Decode(b) = "incomplete" => Whole(b) = [chars |-> <<>>, buf |-> b]
<1> SUFFICES ASSUME NEW b
             PROVE  /\ Decode(b) = "char" => Whole(b) = [chars |-> <<CodePoint(b)>>, buf |-> <<>>]
                    /\ Decode(b) = "incomplete" => Whole(b) = [chars |-> <<>>, buf |-> b]
  OBVIOUS
<1> DEFINE code == CodePoint(b)
           kind == Decode(b)
<1>1. Whole(b) = CASE kind = "char" -> [chars |-> <<code>>, buf |-> <<>>]
                   [] kind = "invalid" -> [chars |-> <<REPLACEMENT>>, buf |-> <<>>]
                   [] OTHER -> [chars |-> <<>>, buf |-> b]
  BY Zenon DEF Whole
<1> HIDE DEF code, kind
<1>2. /\ kind = "char" => Whole(b) = [chars |-> <<code>>, buf |-> <<>>]
      /\ kind = "incomplete" => Whole(b) = [chars |-> <<>>, buf |-> b]
  BY <1>1
<1> QED  BY <1>2, Zenon DEF code, kind

(* What a byte completes is what all the bytes come to or, when those are  *)
(* wrong, a replacement character and what the byte alone comes to.        *)
LEMMA CompletedIs ==
  \A held \in Held, byte \in Int :
    LET buf == Append(held, byte)
    IN  /\ (Len(buf) > 1 /\ Decode(buf) = "invalid")
             => \A chars, b :
                  (Whole(<<byte>>) = [chars |-> chars, buf |-> b] /\ ~ (Len(b) >= BUF_SIZE))
                     => Completed(held, byte) = [chars |-> <<REPLACEMENT>> \o chars, buf |-> b]
        /\ Decode(buf) # "invalid"
             => \A chars, b :
                  (Whole(buf) = [chars |-> chars, buf |-> b] /\ ~ (Len(b) >= BUF_SIZE))
                     => Completed(held, byte) = [chars |-> chars, buf |-> b]
<1> SUFFICES ASSUME NEW held \in Held, NEW byte \in Int
             PROVE  /\ (Len(Append(held, byte)) > 1 /\ Decode(Append(held, byte)) = "invalid")
                         => \A chars, b :
                              (Whole(<<byte>>) = [chars |-> chars, buf |-> b] /\ ~ (Len(b) >= BUF_SIZE))
                                => Completed(held, byte) = [chars |-> <<REPLACEMENT>> \o chars, buf |-> b]
                    /\ Decode(Append(held, byte)) # "invalid"
                         => \A chars, b :
                              (Whole(Append(held, byte)) = [chars |-> chars, buf |-> b] /\ ~ (Len(b) >= BUF_SIZE))
                                => Completed(held, byte) = [chars |-> chars, buf |-> b]
  OBVIOUS
<1> DEFINE buf == Append(held, byte)
           retried == Whole(<<byte>>)
           again == [retried EXCEPT !.chars = <<REPLACEMENT>> \o retried.chars]
           all == IF Len(buf) > 1 /\ Decode(buf) = "invalid" THEN again ELSE Whole(buf)
           left == IF Len(all.buf) >= BUF_SIZE THEN <<>> ELSE all.buf
<1>1. Completed(held, byte) = [all EXCEPT !.buf = left]
  BY DEF Completed, Whole
<1>2. ASSUME NEW chars, NEW b, all = [chars |-> chars, buf |-> b], ~ (Len(b) >= BUF_SIZE)
      PROVE  Completed(held, byte) = [chars |-> chars, buf |-> b]
  <2> HIDE DEF all
  <2>1. all.buf = b
    BY <1>2
  <2>2. left = b
    BY <1>2, <2>1, Zenon
  <2> QED  BY <1>1, <1>2, <2>2, Leaves, Zenon
<1>3. ASSUME NEW chars, NEW b, Len(buf) > 1 /\ Decode(buf) = "invalid",
             Whole(<<byte>>) = [chars |-> chars, buf |-> b]
      PROVE  all = [chars |-> <<REPLACEMENT>> \o chars, buf |-> b]
  <2>1. all = again
    BY <1>3, Zenon
  <2> DEFINE more == <<REPLACEMENT>> \o retried.chars
  <2>2. again = [retried EXCEPT !.chars = more]
    BY Zenon
  <2>3. retried = [chars |-> chars, buf |-> b]
    BY <1>3
  <2>4. more = <<REPLACEMENT>> \o chars
    <3> HIDE DEF retried
    <3>1. retried.chars = chars
      BY <2>3
    <3> QED  BY <3>1, Zenon
  <2> HIDE DEF retried, again, more, all
  <2>5. again = [chars |-> more, buf |-> b]
    BY <2>2, <2>3
  <2> QED  BY <2>1, <2>4, <2>5, Zenon
<1>4. ASSUME Decode(buf) # "invalid"
      PROVE  all = Whole(buf)
  BY <1>4, Zenon
<1> HIDE DEF all
<1>5. (Len(buf) > 1 /\ Decode(buf) = "invalid")
        => \A chars, b :
             (Whole(<<byte>>) = [chars |-> chars, buf |-> b] /\ ~ (Len(b) >= BUF_SIZE))
                => Completed(held, byte) = [chars |-> <<REPLACEMENT>> \o chars, buf |-> b]
  BY <1>2, <1>3, Zenon
<1>6. Decode(buf) # "invalid"
        => \A chars, b :
             (Whole(buf) = [chars |-> chars, buf |-> b] /\ ~ (Len(b) >= BUF_SIZE))
                => Completed(held, byte) = [chars |-> chars, buf |-> b]
  BY <1>2, <1>4, Zenon
<1> QED  BY <1>5, <1>6, Zenon

(* One byte on what is held: it completes a character, or is held too, or  *)
(* breaks the sequence, and then is tried on nothing.                      *)
LEMMA Completing ==
  \A held \in Held, byte \in Int :
    LET buf == Append(held, byte)
    IN  /\ Decode(buf) = "char"
             => Completed(held, byte) = [chars |-> <<CodePoint(buf)>>, buf |-> <<>>]
        /\ Decode(buf) = "incomplete"
             => Completed(held, byte) = [chars |-> <<>>, buf |-> buf]
<1> SUFFICES ASSUME NEW held \in Held, NEW byte \in Int
             PROVE  /\ Decode(Append(held, byte)) = "char"
                         => Completed(held, byte) =
                              [chars |-> <<CodePoint(Append(held, byte))>>, buf |-> <<>>]
                    /\ Decode(Append(held, byte)) = "incomplete"
                         => Completed(held, byte) = [chars |-> <<>>, buf |-> Append(held, byte)]
  OBVIOUS
<1> DEFINE buf == Append(held, byte)
<1>1. ~ (Len(buf) >= BUF_SIZE)
  <2> DEFINE n == Len(held)
  <2>1. n \in 0..3
    BY HeldShort
  <2>2. Len(buf) = n + 1
    BY DEF Held, Text
  <2> HIDE DEF n, buf
  <2> QED  BY <2>1, <2>2 DEF BUF_SIZE
<1>2. ~ (Len(<<>>) >= BUF_SIZE)
  BY DEF BUF_SIZE
<1>3. Decode(buf) # "invalid"
        => \A chars, b : (Whole(buf) = [chars |-> chars, buf |-> b] /\ ~ (Len(b) >= BUF_SIZE))
                           => Completed(held, byte) = [chars |-> chars, buf |-> b]
  BY CompletedIs, Zenon
<1> DEFINE code == CodePoint(buf)
           kind == Decode(buf)
<1>4. /\ kind = "char" => Whole(buf) = [chars |-> <<code>>, buf |-> <<>>]
      /\ kind = "incomplete" => Whole(buf) = [chars |-> <<>>, buf |-> buf]
  BY WholeIs, Zenon
<1> HIDE DEF buf, code, kind
<1>5. kind = "char" => Completed(held, byte) = [chars |-> <<code>>, buf |-> <<>>]
  BY <1>2, <1>3, <1>4, SMT DEF kind
<1>6. kind = "incomplete" => Completed(held, byte) = [chars |-> <<>>, buf |-> buf]
  BY <1>1, <1>3, <1>4, SMT DEF kind
<1> QED  BY <1>5, <1>6, Zenon DEF buf, code, kind

(* A byte that goes on with no character breaks any that has begun.        *)
LEMMA Broken ==
  ASSUME NEW held \in Held, held # <<>>, NEW byte \in Int, byte \notin Continues
  PROVE  Decode(Append(held, byte)) = "invalid"
<1> DEFINE buf == Append(held, byte)
           n == Len(held)
<1>1. /\ n \in 1..3 /\ buf \in Seq(Int) /\ Len(buf) = n + 1 /\ buf[n + 1] = byte
  <2>1. n \in 0..3 /\ held \in Seq(Int)
    BY HeldShort DEF Held, Text
  <2> QED  BY <2>1
<1>2. byte \notin SecondBytes(buf[1])
  BY DEF SecondBytes, Continues
<1> HIDE DEF buf, n
<1>3. ~ WellBegun(buf)
  <2>1. CASE n = 1
    BY <1>1, <1>2, <2>1 DEF WellBegun
  <2>2. CASE n > 1
    BY <1>1, <2>2 DEF WellBegun
  <2> QED  BY <1>1, <2>1, <2>2
<1> QED  BY <1>3, Zenon DEF Decode, buf

(* A byte that goes on with no character begins one, whatever was held:    *)
(* only a replacement character may come before it.                        *)
LEMMA Restarts ==
  ASSUME NEW held \in Held, NEW byte \in Int, byte \notin Continues
  PROVE  \E pre \in {<<>>, <<REPLACEMENT>>} :
           /\ Decode(<<byte>>) = "char"
                => Completed(held, byte) = [chars |-> pre \o <<CodePoint(<<byte>>)>>, buf |-> <<>>]
           /\ Decode(<<byte>>) = "incomplete"
                => Completed(held, byte) = [chars |-> pre, buf |-> <<byte>>]
<1> DEFINE code == CodePoint(<<byte>>)
<1>1. CASE held = <<>>
  <2>1. Append(held, byte) = <<byte>> /\ <<>> \o <<code>> = <<code>>
    BY <1>1
  <2> QED  BY <2>1, Completing, Zenon
<1>2. CASE held # <<>>
  <2> DEFINE buf == Append(held, byte)
  <2>1. Decode(buf) = "invalid"
    BY <1>2, Broken
  <2>2. Len(buf) > 1
    <3>1. held \in Seq(Int)
      BY DEF Held, Text
    <3> QED  BY <1>2, <3>1
  <2> HIDE DEF buf
  <2>3. ~ (Len(<<>>) >= BUF_SIZE) /\ ~ (Len(<<byte>>) >= BUF_SIZE)
    BY DEF BUF_SIZE
  <2>4. <<REPLACEMENT>> \o <<>> = <<REPLACEMENT>>
    BY DEF REPLACEMENT
  <2>5. \A chars, b : (Whole(<<byte>>) = [chars |-> chars, buf |-> b] /\ ~ (Len(b) >= BUF_SIZE))
                        => Completed(held, byte) = [chars |-> <<REPLACEMENT>> \o chars, buf |-> b]
    BY <2>1, <2>2, CompletedIs, Zenon DEF buf
  <2>6. Decode(<<byte>>) = "char"
          => Completed(held, byte) = [chars |-> <<REPLACEMENT>> \o <<code>>, buf |-> <<>>]
    BY <2>3, <2>5, WholeIs, Zenon
  <2>7. Decode(<<byte>>) = "incomplete"
          => Completed(held, byte) = [chars |-> <<REPLACEMENT>>, buf |-> <<byte>>]
    BY <2>3, <2>4, <2>5, WholeIs, Zenon
  <2> QED  BY <2>6, <2>7, Zenon
<1> QED  BY <1>1, <1>2

(* The bytes of the characters fed in, up to each.                         *)
LEMMA Decodings ==
  /\ Decode(<<65>>) = "char"
  /\ Decode(<<195>>) = "incomplete" /\ Decode(<<195, 169>>) = "char"
  /\ Decode(<<226>>) = "incomplete" /\ Decode(<<226, 130>>) = "incomplete"
  /\ Decode(<<226, 130, 172>>) = "char"
  /\ Decode(<<240>>) = "incomplete" /\ Decode(<<240, 159>>) = "incomplete"
  /\ Decode(<<240, 159, 152>>) = "incomplete" /\ Decode(<<240, 159, 152, 128>>) = "char"
<1>1. Decode(<<65>>) = "char"
  BY DEF Decode, WellBegun, SequenceLength, SecondBytes, Continues
<1>2. Decode(<<195>>) = "incomplete" /\ Decode(<<195, 169>>) = "char"
  BY DEF Decode, WellBegun, SequenceLength, SecondBytes, Continues
<1>3. Decode(<<226>>) = "incomplete" /\ Decode(<<226, 130>>) = "incomplete"
  BY DEF Decode, WellBegun, SequenceLength, SecondBytes, Continues
<1>4. Decode(<<226, 130, 172>>) = "char"
  BY DEF Decode, WellBegun, SequenceLength, SecondBytes, Continues
<1>5. Decode(<<240>>) = "incomplete" /\ Decode(<<240, 159>>) = "incomplete"
  BY DEF Decode, WellBegun, SequenceLength, SecondBytes, Continues
<1>6. Decode(<<240, 159, 152>>) = "incomplete" /\ Decode(<<240, 159, 152, 128>>) = "char"
  BY DEF Decode, WellBegun, SequenceLength, SecondBytes, Continues
<1> QED  BY <1>1, <1>2, <1>3, <1>4, <1>5, <1>6

Fed == INSTANCE FoldLemmas WITH Op <- TakeByte

(* The fold over bytes is the one the lemmas are about.                    *)
LEMMA FedFolds == \A base, seq : Fed!Folded(base, seq) = InTurn(TakeByte, base, seq)
BY Zenon DEF InTurn, Fed!InTurn, Fed!Folded

(* What is left after a whole character, and what came out last.           *)
Ends(after, char) ==
  after.chars # <<>> /\ after.buf = <<>> /\ CodePoint(char) = after.chars[Len(after.chars)]

(* The parser fed one byte more.                                           *)
LEMMA TakesByte ==
  ASSUME NEW acc \in Kept, NEW byte \in Int
  PROVE  /\ TakeByte(acc, byte) \in Kept
         /\ Completed(acc.buf, byte) \in Kept
         /\ TakeByte(acc, byte).chars = acc.chars \o Completed(acc.buf, byte).chars
         /\ TakeByte(acc, byte).buf = Completed(acc.buf, byte).buf
<1> DEFINE one == Completed(acc.buf, byte)
<1>1. acc.buf \in Held /\ acc.chars \in Text
  BY DEF Kept
<1>2. one \in Kept
  BY <1>1, Completes
<1>3. TakeByte(acc, byte) = [chars |-> acc.chars \o one.chars, buf |-> one.buf]
  BY Zenon DEF TakeByte
<1> HIDE DEF one
<1>4. one.buf \in Held /\ one.chars \in Text
  BY <1>2 DEF Kept
<1>5. acc.chars \o one.chars \in Text
  BY <1>1, <1>4 DEF Text
<1>6. /\ TakeByte(acc, byte) \in Kept
      /\ TakeByte(acc, byte).chars = acc.chars \o one.chars
      /\ TakeByte(acc, byte).buf = one.buf
  BY <1>3, <1>4, <1>5 DEF Kept
<1> QED  BY <1>2, <1>6, Zenon DEF one

(* It holds the beginning of a character and is given more of it.          *)
LEMMA GoesOn ==
  ASSUME NEW acc \in Kept, NEW byte \in Int
  PROVE  /\ Decode(Append(acc.buf, byte)) = "incomplete"
              => TakeByte(acc, byte).buf = Append(acc.buf, byte)
         /\ Decode(Append(acc.buf, byte)) = "char"
              => Ends(TakeByte(acc, byte), Append(acc.buf, byte))
<1> DEFINE buf == Append(acc.buf, byte)
           code == CodePoint(buf)
           one == Completed(acc.buf, byte)
           after == TakeByte(acc, byte)
<1>1. acc.buf \in Held /\ acc.chars \in Seq(Int) /\ buf \in Text /\ buf # <<>>
  <2>1. acc.buf \in Held /\ acc.chars \in Seq(Int)
    BY DEF Kept, Text
  <2>2. acc.buf \in Seq(Int)
    BY <2>1 DEF Held, Text
  <2> QED  BY <2>1, <2>2 DEF Text
<1>2. code \in Int
  BY <1>1, CodesAre
<1>3. /\ Decode(buf) = "char" => one = [chars |-> <<code>>, buf |-> <<>>]
      /\ Decode(buf) = "incomplete" => one = [chars |-> <<>>, buf |-> buf]
  BY <1>1, Completing, Zenon
<1>4. after.chars = acc.chars \o one.chars /\ after.buf = one.buf
  BY TakesByte
<1> HIDE DEF buf, code, one, after
<1>5. ASSUME Decode(buf) = "char"
      PROVE  Ends(after, buf)
  <2>1. after.chars = acc.chars \o <<code>> /\ after.buf = <<>>
    <3>1. one.chars = <<code>> /\ one.buf = <<>>
      BY <1>3, <1>5
    <3> QED  BY <1>4, <3>1, Zenon
  <2>2. after.chars # <<>> /\ code = after.chars[Len(after.chars)]
    BY <1>1, <1>2, <2>1
  <2> QED  BY <2>1, <2>2, Zenon DEF Ends, code
<1>6. ASSUME Decode(buf) = "incomplete"
      PROVE  after.buf = buf
  BY <1>3, <1>4, <1>6
<1> QED  BY <1>5, <1>6, Zenon DEF buf, after

(* It holds anything and is given the first byte of a character.           *)
LEMMA BeginsAgain ==
  ASSUME NEW acc \in Kept, acc.chars = <<>>, NEW byte \in Int, byte \notin Continues
  PROVE  /\ Decode(<<byte>>) = "incomplete" => TakeByte(acc, byte).buf = <<byte>>
         /\ Decode(<<byte>>) = "char" => Ends(TakeByte(acc, byte), <<byte>>)
<1> DEFINE code == CodePoint(<<byte>>)
           one == Completed(acc.buf, byte)
           after == TakeByte(acc, byte)
<1>1. acc.buf \in Held
  BY DEF Kept
<1>2. code \in Int
  <2>1. <<byte>> \in Text /\ <<byte>> # <<>>
    BY DEF Text
  <2> QED  BY <2>1, CodesAre
<1>3. PICK pre \in {<<>>, <<REPLACEMENT>>} :
        /\ Decode(<<byte>>) = "char" => one = [chars |-> pre \o <<code>>, buf |-> <<>>]
        /\ Decode(<<byte>>) = "incomplete" => one = [chars |-> pre, buf |-> <<byte>>]
  BY <1>1, Restarts
<1>4. after.chars = <<>> \o one.chars /\ after.buf = one.buf
  BY TakesByte
<1> HIDE DEF code, one, after
<1>5. pre \in Seq(Int)
  <2>1. <<>> \in Seq(Int) /\ <<REPLACEMENT>> \in Seq(Int)
    BY DEF REPLACEMENT
  <2> QED  BY <2>1
<1>6. ASSUME Decode(<<byte>>) = "char"
      PROVE  Ends(after, <<byte>>)
  <2>1. after.chars = <<>> \o (pre \o <<code>>) /\ after.buf = <<>>
    BY <1>3, <1>4, <1>6
  <2>2. after.chars # <<>> /\ code = after.chars[Len(after.chars)]
    BY <1>2, <1>5, <2>1
  <2> QED  BY <2>1, <2>2, Zenon DEF Ends, code
<1>7. ASSUME Decode(<<byte>>) = "incomplete"
      PROVE  after.buf = <<byte>>
  BY <1>3, <1>4, <1>7
<1> QED  BY <1>6, <1>7, Zenon DEF after

(* One byte of a character more, after those of the beginning seq.         *)
LEMMA FedMore ==
  ASSUME NEW acc \in Kept, NEW seq \in Text, NEW byte \in Int,
         \/ seq = <<>> /\ acc.chars = <<>> /\ byte \notin Continues
         \/ Fed!Folded(acc, seq).buf = seq
  PROVE  /\ Decode(Append(seq, byte)) = "incomplete"
              => Fed!Folded(acc, Append(seq, byte)).buf = Append(seq, byte)
         /\ Decode(Append(seq, byte)) = "char"
              => Ends(Fed!Folded(acc, Append(seq, byte)), Append(seq, byte))
<1> DEFINE before == Fed!Folded(acc, seq)
           after == Fed!Folded(acc, Append(seq, byte))
<1>1. Fed!Closed(Kept, Int)
  <2>1. \A v \in Kept, x \in Int : TakeByte(v, x) \in Kept
    BY TakesByte
  <2> QED  BY <2>1, Zenon DEF Fed!Closed
<1>2. before \in Kept
  BY <1>1, Fed!FoldedType, Zenon DEF Text
<1>3. after = TakeByte(before, byte)
  <2>1. \A base \in Kept, s \in Seq(Int), x \in Int :
          Fed!Folded(base, Append(s, x)) = TakeByte(Fed!Folded(base, s), x)
    BY <1>1, Fed!FoldedLast
  <2> QED  BY <2>1, Zenon DEF Text
<1>4. seq = <<>> => before = acc
  BY Fed!FoldedEmpty, Zenon
<1> HIDE DEF before, after
<1>5. ASSUME seq = <<>> /\ acc.chars = <<>> /\ byte \notin Continues
      PROVE  /\ Decode(Append(seq, byte)) = "incomplete" => after.buf = Append(seq, byte)
             /\ Decode(Append(seq, byte)) = "char" => Ends(after, Append(seq, byte))
  <2>1. Append(seq, byte) = <<byte>> /\ after = TakeByte(acc, byte)
    BY <1>3, <1>4, <1>5
  <2>2. /\ Decode(<<byte>>) = "incomplete" => TakeByte(acc, byte).buf = <<byte>>
        /\ Decode(<<byte>>) = "char" => Ends(TakeByte(acc, byte), <<byte>>)
    BY <1>5, BeginsAgain
  <2> QED  BY <2>1, <2>2, Zenon
<1>6. ASSUME before.buf = seq
      PROVE  /\ Decode(Append(seq, byte)) = "incomplete" => after.buf = Append(seq, byte)
             /\ Decode(Append(seq, byte)) = "char" => Ends(after, Append(seq, byte))
  BY <1>2, <1>3, <1>6, GoesOn, Zenon
<1> QED  BY <1>5, <1>6, Zenon DEF before, after

Chars == {<<65>>, <<195, 169>>, <<226, 130, 172>>, <<240, 159, 152, 128>>}

(* From anything held, the four characters come out last and leave         *)
(* nothing.                                                                *)
LEMMA FindsAgain ==
  \A held \in Held : \A char \in Chars :
    Ends(InTurn(TakeByte, [chars |-> <<>>, buf |-> held], char), char)
<1> SUFFICES ASSUME NEW held \in Held
             PROVE  \A char \in Chars : Ends(InTurn(TakeByte, [chars |-> <<>>, buf |-> held], char), char)
  BY Zenon
<1> DEFINE acc == [chars |-> <<>>, buf |-> held]
           After(seq) == Fed!Folded(acc, seq)
           More(all) ==
             /\ Decode(all) = "incomplete" => After(all).buf = all
             /\ Decode(all) = "char" => Ends(After(all), all)
<1>1. acc \in Kept /\ acc.chars = <<>>
  BY DEF Kept, Text
<1> HIDE DEF acc
<1>2. \A byte \in Int : byte \notin Continues => More(<<byte>>)
  <2> SUFFICES ASSUME NEW byte \in Int, byte \notin Continues
               PROVE  More(<<byte>>)
    OBVIOUS
  <2>1. <<>> \in Text /\ Append(<<>>, byte) = <<byte>>
    BY DEF Text
  <2>2. More(Append(<<>>, byte))
    BY <1>1, <2>1, FedMore
  <2> HIDE DEF After
  <2> QED  BY <2>1, <2>2
<1>3. \A seq \in Text, byte \in Int : After(seq).buf = seq => More(Append(seq, byte))
  BY <1>1, FedMore
<1> HIDE DEF After
<1>4. /\ 65 \in Int \ Continues /\ 195 \in Int \ Continues /\ 226 \in Int \ Continues
      /\ 240 \in Int \ Continues
  BY DEF Continues
<1>5. /\ 169 \in Int /\ 130 \in Int /\ 172 \in Int /\ 159 \in Int /\ 152 \in Int /\ 128 \in Int
      /\ <<195>> \in Text /\ <<226>> \in Text /\ <<226, 130>> \in Text
      /\ <<240>> \in Text /\ <<240, 159>> \in Text /\ <<240, 159, 152>> \in Text
  BY DEF Text
<1>6. /\ <<195, 169>> = Append(<<195>>, 169)
      /\ <<226, 130>> = Append(<<226>>, 130) /\ <<226, 130, 172>> = Append(<<226, 130>>, 172)
      /\ <<240, 159>> = Append(<<240>>, 159) /\ <<240, 159, 152>> = Append(<<240, 159>>, 152)
      /\ <<240, 159, 152, 128>> = Append(<<240, 159, 152>>, 128)
  OBVIOUS
<1> HIDE DEF More
<1>7. Ends(After(<<65>>), <<65>>)
  BY <1>2, <1>4, Decodings DEF More
<1>8. Ends(After(<<195, 169>>), <<195, 169>>)
  <2>1. After(<<195>>).buf = <<195>>
    BY <1>2, <1>4, Decodings DEF More
  <2>2. More(<<195, 169>>)
    <3> DEFINE seq == <<195>>
               byte == 169
    <3>1. seq \in Text /\ byte \in Int /\ After(seq).buf = seq
      BY <1>5, <2>1
    <3>2. Append(seq, byte) = <<195, 169>>
      BY <1>6
    <3> HIDE DEF seq, byte
    <3>3. More(Append(seq, byte))
      BY <1>3, <3>1
    <3> QED  BY <3>2, <3>3
  <2> QED  BY <2>2, Decodings DEF More
<1>9. Ends(After(<<226, 130, 172>>), <<226, 130, 172>>)
  <2>1. After(<<226>>).buf = <<226>>
    BY <1>2, <1>4, Decodings DEF More
  <2>2. More(<<226, 130>>)
    <3> DEFINE seq == <<226>>
               byte == 130
    <3>1. seq \in Text /\ byte \in Int /\ After(seq).buf = seq
      BY <1>5, <2>1
    <3>2. Append(seq, byte) = <<226, 130>>
      BY <1>6
    <3> HIDE DEF seq, byte
    <3>3. More(Append(seq, byte))
      BY <1>3, <3>1
    <3> QED  BY <3>2, <3>3
  <2>3. After(<<226, 130>>).buf = <<226, 130>>
    BY <2>2, Decodings DEF More
  <2>4. More(<<226, 130, 172>>)
    <3> DEFINE seq == <<226, 130>>
               byte == 172
    <3>1. seq \in Text /\ byte \in Int /\ After(seq).buf = seq
      BY <1>5, <2>3
    <3>2. Append(seq, byte) = <<226, 130, 172>>
      BY <1>6
    <3> HIDE DEF seq, byte
    <3>3. More(Append(seq, byte))
      BY <1>3, <3>1
    <3> QED  BY <3>2, <3>3
  <2> QED  BY <2>4, Decodings DEF More
<1>10. Ends(After(<<240, 159, 152, 128>>), <<240, 159, 152, 128>>)
  <2>1. After(<<240>>).buf = <<240>>
    BY <1>2, <1>4, Decodings DEF More
  <2>2. More(<<240, 159>>)
    <3> DEFINE seq == <<240>>
               byte == 159
    <3>1. seq \in Text /\ byte \in Int /\ After(seq).buf = seq
      BY <1>5, <2>1
    <3>2. Append(seq, byte) = <<240, 159>>
      BY <1>6
    <3> HIDE DEF seq, byte
    <3>3. More(Append(seq, byte))
      BY <1>3, <3>1
    <3> QED  BY <3>2, <3>3
  <2>3. After(<<240, 159>>).buf = <<240, 159>>
    BY <2>2, Decodings DEF More
  <2>4. More(<<240, 159, 152>>)
    <3> DEFINE seq == <<240, 159>>
               byte == 152
    <3>1. seq \in Text /\ byte \in Int /\ After(seq).buf = seq
      BY <1>5, <2>3
    <3>2. Append(seq, byte) = <<240, 159, 152>>
      BY <1>6
    <3> HIDE DEF seq, byte
    <3>3. More(Append(seq, byte))
      BY <1>3, <3>1
    <3> QED  BY <3>2, <3>3
  <2>5. After(<<240, 159, 152>>).buf = <<240, 159, 152>>
    BY <2>4, Decodings DEF More
  <2>6. More(<<240, 159, 152, 128>>)
    <3> DEFINE seq == <<240, 159, 152>>
               byte == 128
    <3>1. seq \in Text /\ byte \in Int /\ After(seq).buf = seq
      BY <1>5, <2>5
    <3>2. Append(seq, byte) = <<240, 159, 152, 128>>
      BY <1>6
    <3> HIDE DEF seq, byte
    <3>3. More(Append(seq, byte))
      BY <1>3, <3>1
    <3> QED  BY <3>2, <3>3
  <2> QED  BY <2>6, Decodings DEF More
<1>11. \A char \in Chars : Ends(After(char), char)
  BY <1>7, <1>8, <1>9, <1>10 DEF Chars
<1> QED  BY <1>11, FedFolds, Zenon DEF acc, After

(* However the bytes of a character were cut off or mixed up, the next     *)
(* whole character is decoded as it would be alone: the parser never holds *)
(* more than the beginning of one character.                               *)
THEOREM AlwaysResynchronises == Spec => []Resynchronises
<1>1. IInv => Resynchronises
  <2> SUFFICES ASSUME IInv
               PROVE  Resynchronises
    OBVIOUS
  <2>1. PICK size \in Sizes : emu \in Emulators(size[1], size[2])
    BY DEF IInv
  <2>2. emu.parser.buf \in Held
    BY <2>1 DEF Emulators, Parsers
  <2>3. \A char \in Chars :
          Ends(InTurn(TakeByte, [chars |-> <<>>, buf |-> emu.parser.buf], char), char)
    BY <2>2, FindsAgain, Zenon
  <2> QED  BY <2>3, Zenon DEF Resynchronises, Ends, Chars
<1> QED  BY <1>1, Invariance, PTL

(***************************************************************************)
(* Control characters inside control sequences.                            *)
(***************************************************************************)
Inside == {"CsiEntry", "CsiParam", "CsiIntermediate", "CsiIgnore"}
Controls == {7, 10, 13}

(* Such a character is a character by itself.                              *)
LEMMA ControlAlone ==
  ASSUME NEW ch \in Controls
  PROVE  Completed(<<>>, ch) = [chars |-> <<ch>>, buf |-> <<>>]
<1>1. ch \in 0..127 /\ ch \in Int
  BY DEF Controls
<1>2. CodePoint(<<ch>>) = ch
  <2>1. LeadBits(ch) = ch
    BY <1>1 DEF LeadBits, SequenceLength
  <2>2. Tail(<<ch>>) = <<>> /\ <<ch>>[1] = ch
    OBVIOUS
  <2>3. CodeMade!Folded(LeadBits(ch), <<>>) = LeadBits(ch)
    BY CodeMade!FoldedEmpty, Zenon
  <2> QED  BY <2>1, <2>2, <2>3, CodeFolds, Zenon DEF CodePoint
<1>3. Decode(<<ch>>) = "char"
  BY <1>1 DEF Decode, WellBegun, SequenceLength
<1>4. Append(<<>>, ch) = <<ch>> /\ <<>> \in Held
  BY DEF Held, Text
<1>5. Completed(<<>>, ch) = [chars |-> <<CodePoint(<<ch>>)>>, buf |-> <<>>]
  BY <1>1, <1>3, <1>4, Completing, Zenon
<1> QED  BY <1>2, <1>5, Zenon

(* It is run, and the machine stays where it is.                           *)
LEMMA ControlTransition ==
  ASSUME NEW state \in Inside, NEW ch \in Controls
  PROVE  TransitionOn(state, ch) = Act("Execute")
<1>1. ch \in {7, 10, 13}
  BY DEF Controls
<1>2. AnywhereRule(ch) = Nothing
  <2>1. ch \notin Cancels /\ ch # ST
    BY <1>1 DEF Cancels, ST
  <2>2. Introduces(ch) = None
    BY <1>1 DEF Introduces, ESC, OSC, CSI
  <2> QED  BY <2>1, <2>2, Zenon DEF AnywhereRule
<1>3. ch \in C0Prime /\ ~ (ch >= 160)
  BY <1>1 DEF C0Prime
<1>4. InputStateRule(state, ch) = Act("Execute")
  <2>1. /\ CsiEntryRule(ch) = Act("Execute") /\ CsiParamRule(ch) = Act("Execute")
        /\ CsiIntermediateRule(ch) = Act("Execute") /\ CsiIgnoreRule(ch) = Act("Execute")
    BY <1>1, <1>3 DEF CsiEntryRule, CsiParamRule, CsiIntermediateRule, CsiIgnoreRule,
       Finals, Params, Digits, SEMICOLON, COLON, Privates, Intermediates
  <2> QED  BY <2>1 DEF InputStateRule, Inside
<1> QED  BY <1>2, <1>3, <1>4, Zenon DEF TransitionOn

(* It raises its one action and leaves the parser as it was.               *)
LEMMA ControlParsed ==
  ASSUME NEW parser \in Parsers, parser.state \in Inside, parser.buf = <<>>, NEW ch \in Controls
  PROVE  ParseByte(parser, ch) =
           [parser |-> parser, actions |-> <<[kind |-> "Execute", ch |-> ch]>>]
<1> DEFINE done == Completed(parser.buf, ch)
           held == [parser EXCEPT !.buf = done.buf]
           base == [parser |-> held, actions |-> <<>>]
           run == [kind |-> "Execute", ch |-> ch]
<1>1. ParseByte(parser, ch) = InTurn(ParseChar, base, done.chars)
  BY Zenon DEF ParseByte
<1>2. done.chars = <<ch>> /\ done.buf = <<>>
  BY ControlAlone
<1> HIDE DEF done
<1>3. held = parser
  BY <1>2 DEF Parsers
<1>4. base = [parser |-> parser, actions |-> <<>>]
  BY <1>3, Zenon
<1> HIDE DEF held, base
<1>5. base \in Parsings /\ ch \in Int
  BY <1>4 DEF Parsings, Actions, Controls
<1>6. CharsParsed!Folded(base, <<ch>>) = ParseChar(base, ch)
  <2>1. CharsParsed!Closed(Parsings, Int)
    BY ParsesChar, Zenon DEF CharsParsed!Closed
  <2>2. \A b \in Parsings, seq \in Seq(Int), x \in Int :
          CharsParsed!Folded(b, Append(seq, x)) = ParseChar(CharsParsed!Folded(b, seq), x)
    BY <2>1, CharsParsed!FoldedLast
  <2>3. CharsParsed!Folded(base, <<>>) = base
    BY CharsParsed!FoldedEmpty, Zenon
  <2>4. <<>> \in Seq(Int) /\ Append(<<>>, ch) = <<ch>>
    OBVIOUS
  <2>5. CharsParsed!Folded(base, Append(<<>>, ch)) = ParseChar(base, ch)
    BY <1>5, <2>2, <2>3, <2>4, Zenon
  <2> QED  BY <2>4, <2>5, Zenon
<1>7. ParseChar(base, ch) = [parser |-> parser, actions |-> <<run>>]
  <2> DEFINE tx == TransitionOn(base.parser.state, ch)
  <2>1. base.parser = parser /\ base.actions = <<>>
    BY <1>4
  <2>2. tx = [kind |-> "Execute", next |-> None]
    BY <2>1, ControlTransition, Zenon DEF Act
  <2>3. ParseChar(base, ch) = TakeTransition(base, tx, ch)
    BY Zenon DEF ParseChar
  <2> HIDE DEF tx
  <2>4. tx.kind = "Execute" /\ tx.next = None
    BY <2>2
  <2>5. Raised(base.parser.state, tx, ch) = <<run>>
    BY <2>4 DEF Raised
  <2>6. [parser EXCEPT !.state = parser.state] = parser
    BY DEF Parsers
  <2> HIDE DEF run
  <2>7. <<>> \o <<run>> = <<run>>
    OBVIOUS
  <2>8. TakeTransition(base, tx, ch) =
          [base EXCEPT !.parser = [parser EXCEPT !.state = parser.state],
                       !.actions = <<>> \o <<run>>]
    BY <2>1, <2>4, <2>5 DEF TakeTransition
  <2> QED  BY <1>4, <2>3, <2>6, <2>7, <2>8
<1> QED  BY <1>1, <1>2, <1>6, <1>7, ParseFolds, Zenon

(* The emulator runs its function: nothing but the screen changes.         *)
LEMMA ControlRuns ==
  ASSUME NEW w \in Dimension, NEW h \in Dimension, NEW e \in Emulators(w, h),
         e.parser.state \in Inside, e.parser.buf = <<>>, NEW ch \in Controls
  PROVE  InputByte(e, ch) = [e EXCEPT !.fb = Dispatch(e.fb, ControlFunction(ch), <<>>)]
<1> DEFINE parsed == ParseByte(e.parser, ch)
           base == [e EXCEPT !.parser = parsed.parser]
           run == [kind |-> "Execute", ch |-> ch]
           name == ControlFunction(ch)
           ran == Dispatch(e.fb, name, <<>>)
<1>1. InputByte(e, ch) = InTurn(ActOn, base, parsed.actions)
  BY Zenon DEF InputByte
<1>2. parsed = [parser |-> e.parser, actions |-> <<run>>]
  BY Rewired, ControlParsed
<1> HIDE DEF parsed, run
<1>3. parsed.parser = e.parser /\ parsed.actions = <<run>>
  BY <1>2
<1>4. base = e
  BY <1>3 DEF Emulators
<1> HIDE DEF base
<1>5. Acted!Folded(e, <<run>>) = ActOn(e, run)
  <2>1. Acted!Closed(Emulators(w, h), Aloud \cup Quiet)
    BY Acts, Zenon DEF Acted!Closed
  <2>2. \A b \in Emulators(w, h), seq \in Seq(Aloud \cup Quiet), x \in Aloud \cup Quiet :
          Acted!Folded(b, Append(seq, x)) = ActOn(Acted!Folded(b, seq), x)
    BY <2>1, Acted!FoldedLast
  <2>3. Acted!Folded(e, <<>>) = e
    BY Acted!FoldedEmpty, Zenon
  <2>4. <<>> \in Seq(Aloud \cup Quiet) /\ Append(<<>>, run) = <<run>>
    OBVIOUS
  <2>5. run \in Aloud \cup Quiet
    BY DEF run, Aloud, Spoken, Controls
  <2>6. Acted!Folded(e, Append(<<>>, run)) = ActOn(e, run)
    BY <2>2, <2>3, <2>4, <2>5, Zenon
  <2> QED  BY <2>4, <2>6, Zenon
<1>6. ActOn(e, run) = Execute(e, name, <<>>)
  BY DEF ActOn, run
<1>7. Reply(e.fb, name, <<>>) = <<>>
  <2>1. name \in {"BEL", "LF", "CR"}
    BY DEF ControlFunction, Controls
  <2> HIDE DEF name
  <2> QED  BY <2>1 DEF Reply
<1>8. Execute(e, name, <<>>) = [e EXCEPT !.fb = ran]
  <2> HIDE DEF name
  <2> DEFINE answers == e.dispatch.terminal_to_host \o Reply(e.fb, name, <<>>)
             d == [e.dispatch EXCEPT !.terminal_to_host = answers]
  <2>1. Execute(e, name, <<>>) = [e EXCEPT !.fb = ran, !.dispatch = d]
    BY DEF Execute
  <2>2. e.dispatch \in Dispatchers
    BY Rewired
  <2>3. answers = e.dispatch.terminal_to_host
    <3>1. e.dispatch.terminal_to_host \in Answers
      BY <2>2 DEF Dispatchers
    <3>2. e.dispatch.terminal_to_host \o <<>> = e.dispatch.terminal_to_host
      BY <3>1 DEF Answers
    <3> QED  BY <1>7, <3>2, Zenon
  <2> HIDE DEF answers
  <2>4. d = e.dispatch
    BY <2>2, <2>3 DEF Dispatchers
  <2> HIDE DEF d, ran
  <2> QED  BY <2>1, <2>4 DEF Emulators
<1> QED  BY <1>1, <1>3, <1>4, <1>5, <1>6, <1>8, ActFolds, Zenon

(* Two bytes, and the second alone after the first.                        *)
LEMMA FeedsSecond ==
  ASSUME NEW w \in Dimension, NEW h \in Dimension, NEW e \in Emulators(w, h),
         NEW a \in Int, NEW b \in Int
  PROVE  Input!Folded(e, <<a, b>>) = Input!Folded(InputByte(e, a), <<b>>)
<1> DEFINE ran == InputByte(e, a)
<1>1. ran \in Emulators(w, h)
  BY Inputs
<1>2. Input!Closed(Emulators(w, h), Int)
  BY Inputs, Zenon DEF Input!Closed
<1>3. \A g \in Emulators(w, h), seq \in Seq(Int), x \in Int :
        Input!Folded(g, Append(seq, x)) = InputByte(Input!Folded(g, seq), x)
  BY <1>2, Input!FoldedLast
<1>4. Input!Folded(e, <<>>) = e /\ Input!Folded(ran, <<>>) = ran
  BY Input!FoldedEmpty, Zenon
<1>5. /\ <<>> \in Seq(Int) /\ <<a>> \in Seq(Int)
      /\ Append(<<>>, a) = <<a>> /\ Append(<<>>, b) = <<b>> /\ Append(<<a>>, b) = <<a, b>>
  <2>1. \A x \in Int : <<x>> \in Seq(Int) /\ Append(<<>>, x) = <<x>>
    OBVIOUS
  <2>2. \A x \in Int, y \in Int : <<x, y>> = Append(<<x>>, y)
    OBVIOUS
  <2>3. <<>> \in Seq(Int)
    OBVIOUS
  <2> QED  BY <2>1, <2>2, <2>3
<1> HIDE DEF ran
<1>6. Input!Folded(e, <<a>>) = ran
  BY <1>3, <1>4, <1>5, Zenon DEF ran
<1>7. Input!Folded(e, <<a, b>>) = InputByte(ran, b)
  BY <1>3, <1>5, <1>6, Zenon
<1>8. Input!Folded(ran, <<b>>) = InputByte(ran, b)
  BY <1>1, <1>3, <1>4, <1>5, Zenon
<1> QED  BY <1>7, <1>8, Zenon DEF ran

(* A control character that comes in the middle of a control sequence runs *)
(* at once, and the sequence then runs as if the character had come before *)
(* it: nothing that was collected is lost or read as a parameter.          *)
THEOREM AlwaysInsideSequences == Spec => []ControlsInsideSequences
<1>1. IInv => ControlsInsideSequences
  <2> SUFFICES ASSUME IInv, NEW ch \in {7, 10, 13}, NEW final \in {65, 74, 109},
                      emu.parser.state \in Inside, emu.parser.buf = <<>>
               PROVE  ActBytes(emu, <<ch, final>>).fb =
                        ActBytes([emu EXCEPT !.fb = Dispatch(emu.fb, ControlFunction(ch), <<>>)],
                                 <<final>>).fb
    BY Zenon DEF ControlsInsideSequences, Inside
  <2>1. PICK size \in Sizes : emu \in Emulators(size[1], size[2])
    BY DEF IInv
  <2> DEFINE w == size[1]
             h == size[2]
             ran == [emu EXCEPT !.fb = Dispatch(emu.fb, ControlFunction(ch), <<>>)]
  <2>2. w \in Dimension /\ h \in Dimension /\ emu \in Emulators(w, h)
    BY <2>1, SizesAre
  <2> HIDE DEF w, h
  <2>3. InputByte(emu, ch) = ran
    BY <2>2, ControlRuns DEF Controls
  <2>4. ch \in Int /\ final \in Int
    OBVIOUS
  <2>5. Input!Folded(emu, <<ch, final>>) = Input!Folded(InputByte(emu, ch), <<final>>)
    BY <2>2, <2>4, FeedsSecond
  <2> HIDE DEF ran
  <2>6. InTurn(InputByte, emu, <<ch, final>>) = InTurn(InputByte, ran, <<final>>)
    BY <2>3, <2>5, InputFolds, Zenon
  <2> QED  BY <2>6, Zenon DEF ActBytes, ran
<1> QED  BY <1>1, Invariance, PTL

================================================================================
