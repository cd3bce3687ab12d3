-------------------------------- MODULE Screen ---------------------------------
(***************************************************************************)
(* The draw state and the framebuffer: the second half of                  *)
(* crates/mosh-terminal/src/framebuffer.rs, as operators from a screen to  *)
(* a screen.  Rows and columns are counted from 0, as in the source.       *)
(***************************************************************************)
EXTENDS Cells

CONSTANTS
  MAX_DIMENSION,           \* 2048
  MAXIMUM_COLOR_QUERIES    \* queries that are kept (4096 bytes of them)

ASSUME ScreenConstants ==
  /\ MAX_DIMENSION \in Nat \ {0}
  /\ MAXIMUM_COLOR_QUERIES \in Nat

Clamp(x, low, high) == IF x < low THEN low ELSE IF x > high THEN high ELSE x

(***************************************************************************)
(* The draw state.  modes holds the Boolean modes that are on, and tabs    *)
(* the columns with a tab stop.                                            *)
(***************************************************************************)
Modes == {"origin", "auto_wrap", "insert", "cursor_visible", "reverse_video",
          "bracketed_paste", "mouse_focus_event", "mouse_alternate_scroll",
          "application_mode_cursor_keys"}

DefaultTabs(columns) == {x \in columns : x % 8 = 0}

SavedDefault ==
  [cursor_col |-> 0, cursor_row |-> 0, renditions |-> Plain, modes |-> {"auto_wrap"}]

NewDrawState(width, height) ==
  [width |-> width, height |-> height, cursor_col |-> 0, cursor_row |-> 0,
   combining_char_col |-> 0, combining_char_row |-> 0,
   default_tabs |-> TRUE, tabs |-> DefaultTabs(0..width - 1),
   top |-> 0, bottom |-> height - 1,
   renditions |-> Plain, hyperlink |-> NoLink, save |-> SavedDefault,
   next_print_will_wrap |-> FALSE, modes |-> {"auto_wrap", "cursor_visible"},
   mouse_reporting_mode |-> 0, mouse_encoding_mode |-> 0]

Origin(ds) == "origin" \in ds.modes
LimitTop(ds) == IF Origin(ds) THEN ds.top ELSE 0
LimitBottom(ds) == IF Origin(ds) THEN ds.bottom ELSE ds.height - 1

SetMode(ds, mode, value) ==
  [ds EXCEPT !.modes = IF value THEN @ \cup {mode} ELSE @ \ {mode}]

NewGrapheme(ds) ==
  [ds EXCEPT !.combining_char_col = ds.cursor_col, !.combining_char_row = ds.cursor_row]

SnapCursorToBorder(ds) ==
  [ds EXCEPT !.cursor_row = Clamp(@, LimitTop(ds), LimitBottom(ds)),
             !.cursor_col = Clamp(@, 0, ds.width - 1)]

(* An explicit move ends a pending wrap and starts a grapheme.             *)
Settled(ds) ==
  [NewGrapheme(SnapCursorToBorder(ds)) EXCEPT !.next_print_will_wrap = FALSE]

MoveRow(ds, n, relative) ==
  Settled([ds EXCEPT !.cursor_row = n + IF relative THEN @ ELSE LimitTop(ds)])

MoveCol(ds, n, relative) ==
  Settled([ds EXCEPT !.cursor_col = n + IF relative THEN @ ELSE 0])

MoveTo(ds, row, col) == MoveCol(MoveRow(ds, row, FALSE), col, FALSE)

(* The move past the character just printed leaves the grapheme where it   *)
(* is, and arms the wrap when it runs off the row.                         *)
MoveColImplicit(ds, n) ==
  SnapCursorToBorder(
    [NewGrapheme(ds) EXCEPT !.cursor_col = ds.cursor_col + n,
                            !.next_print_will_wrap = ds.cursor_col + n >= ds.width])

SetTab(ds) == [ds EXCEPT !.tabs = @ \cup {ds.cursor_col}]

ClearTabs(ds, columns) == [ds EXCEPT !.tabs = @ \ columns]

(* The count-th tab stop ahead, or -1; the one -count back, or column 0.   *)
NextTab(ds, count) ==
  LET ahead  == {x \in ds.tabs : x > ds.cursor_col /\ x < ds.width}
      behind == {x \in ds.tabs : x > 0 /\ x < ds.cursor_col}
      Nth(S, n, before(_, _)) ==
        {x \in S : Cardinality({y \in S : before(y, x)}) = n - 1}
      forward == Nth(ahead, count, <)
      back    == Nth(behind, -count, >)
  IN  IF count >= 0
      THEN IF forward = {} THEN -1 ELSE CHOOSE x \in forward : TRUE
      ELSE IF back = {} THEN 0 ELSE CHOOSE x \in back : TRUE

SetScrollingRegion(ds, top, bottom) ==
  LET t      == IF top < 0 THEN 0 ELSE top
      b      == IF bottom >= ds.height THEN ds.height - 1 ELSE bottom
      region == [ds EXCEPT !.top = t, !.bottom = IF b < t THEN t ELSE b]
  IN  IF Origin(ds) THEN NewGrapheme(SnapCursorToBorder(region)) ELSE region

SaveCursor(ds) ==
  [ds EXCEPT !.save = [cursor_col |-> ds.cursor_col, cursor_row |-> ds.cursor_row,
                       renditions |-> ds.renditions,
                       modes |-> ds.modes \cap {"auto_wrap", "origin"}]]

(* Mutant: the saved position is trusted.                                  *)
RestoreCursorAsSaved(ds) ==
  NewGrapheme([ds EXCEPT !.cursor_col = ds.save.cursor_col, !.cursor_row = ds.save.cursor_row,
                         !.renditions = ds.save.renditions])

(* The saved position is brought onto the screen only now: the screen may  *)
(* have been resized since.                                                *)
RestoreCursor(ds) ==
  NewGrapheme(SnapCursorToBorder(
    [ds EXCEPT !.cursor_col = ds.save.cursor_col, !.cursor_row = ds.save.cursor_row,
               !.renditions = ds.save.renditions,
               !.modes = (@ \ {"auto_wrap", "origin"}) \cup ds.save.modes]))

ResizeDrawState(ds, width, height) ==
  LET same == width = ds.width /\ height = ds.height
      kept == ds.tabs \cap 0..width - 1
      sized == SnapCursorToBorder(
        [ds EXCEPT !.width = width, !.height = height,
                   !.top = IF same THEN @ ELSE 0,
                   !.bottom = IF same THEN @ ELSE height - 1,
                   !.tabs = IF ds.default_tabs
                            THEN kept \cup DefaultTabs(ds.width..width - 1)
                            ELSE kept])
      gone == ds.combining_char_col >= width \/ ds.combining_char_row >= height
  IN  IF gone THEN [sized EXCEPT !.combining_char_col = -1, !.combining_char_row = -1]
      ELSE sized

(* DrawState::eq: only what affects the display.                           *)
Displayed(ds) ==
  <<ds.width, ds.height, ds.cursor_col, ds.cursor_row, ds.renditions, ds.hyperlink,
    ds.mouse_reporting_mode, ds.mouse_encoding_mode,
    ds.modes \ {"origin", "auto_wrap", "insert", "application_mode_cursor_keys"}>>

(***************************************************************************)
(* The framebuffer.  next is the generation the next row gets.             *)
(***************************************************************************)
ClampSize(n) == Clamp(n, 1, MAX_DIMENSION)

NewFramebuffer(width, height) ==
  LET w == ClampSize(width)
      h == ClampSize(height)
  IN  [rows |-> [y \in 0..h - 1 |-> NewRow(w, 0, 0)], next |-> 1,
       icon_name |-> <<>>, window_title |-> <<>>, title_initialized |-> FALSE,
       clipboard |-> <<>>, clipboard_seq |-> 0,
       color_queries |-> <<>>, color_query_seq |-> 0, bell_count |-> 0,
       ds |-> NewDrawState(w, h)]

Background(fb) == fb.ds.renditions.background

Blank(fb) == NewRow(fb.ds.width, Background(fb), fb.next)

CellAt(fb, row, col) == fb.rows[row].cells[col]
CursorRow(fb) == fb.rows[fb.ds.cursor_row]

SetCell(fb, row, col, cell) == [fb EXCEPT !.rows[row].cells[col] = cell]

ResetCells(fb, row, columns) ==
  [fb EXCEPT !.rows[row].cells =
     [x \in DOMAIN @ |-> IF x \in columns THEN NewCell(Background(fb)) ELSE @[x]]]

(* Each row that is reset gets a generation of its own.                    *)
ResetRows(fb, first, last) ==
  [fb EXCEPT !.rows = [y \in DOMAIN @ |->
                         IF y \in first..last
                         THEN NewRow(fb.ds.width, Background(fb), fb.next + y - first)
                         ELSE @[y]],
             !.next = IF first <= last THEN @ + last - first + 1 ELSE @]

(* The rows from before_row to the bottom of the region move down, and     *)
(* blank ones, all of them one new row, come in above.                     *)
InsertLine(fb, before_row, count) ==
  LET top    == fb.ds.top
      bottom == fb.ds.bottom
      room   == bottom + 1 - before_row
      scroll == IF count < room THEN count ELSE room
  IN  IF before_row < top \/ before_row > bottom + 1 \/ scroll <= 0 THEN fb
      ELSE [fb EXCEPT !.rows = [y \in DOMAIN @ |->
                                  IF y < before_row \/ y > bottom THEN @[y]
                                  ELSE IF y < before_row + scroll THEN Blank(fb)
                                  ELSE @[y - scroll]],
                      !.next = @ + 1]

(* Mutant: rows leave at the bottom of the screen, not of the region.      *)
DeleteLineToTheEnd(fb, row, count) ==
  [fb EXCEPT !.rows = [y \in DOMAIN @ |-> IF y < row THEN @[y]
                                          ELSE IF y + count \in DOMAIN @ THEN @[y + count]
                                          ELSE Blank(fb)],
             !.next = @ + 1]

(* The rows below move up, and blank ones come in at the bottom.           *)
DeleteLine(fb, row, count) ==
  LET top    == fb.ds.top
      bottom == fb.ds.bottom
      room   == bottom + 1 - row
      scroll == IF count < room THEN count ELSE room
  IN  IF row < top \/ row > bottom \/ scroll <= 0 THEN fb
      ELSE [fb EXCEPT !.rows = [y \in DOMAIN @ |->
                                  IF y < row \/ y > bottom THEN @[y]
                                  ELSE IF y + scroll <= bottom THEN @[y + scroll]
                                  ELSE Blank(fb)],
                      !.next = @ + 1]

Scroll(fb, n) ==
  IF n >= 0 THEN DeleteLine(fb, fb.ds.top, n) ELSE InsertLine(fb, fb.ds.top, -n)

(* The cursor moves over rows; inside the scrolling region the region      *)
(* scrolls by as much as the move would leave it.                          *)
MoveRowsAutoscroll(fb, rows) ==
  LET to     == fb.ds.cursor_row + rows
      over   == IF fb.ds.cursor_row \notin fb.ds.top..fb.ds.bottom THEN 0
                ELSE to - Clamp(to, fb.ds.top, fb.ds.bottom)
      ready  == IF over = 0 THEN fb
                ELSE LET moved == Scroll(fb, over)
                     IN  [moved EXCEPT !.ds = MoveRow(@, -over, TRUE)]
  IN  [ready EXCEPT !.ds = MoveRow(@, rows, TRUE)]

(* The cell a combining character attaches to, if it is still on screen.   *)
HasCombiningCell(fb) ==
  /\ fb.ds.combining_char_col \in 0..fb.ds.width - 1
  /\ fb.ds.combining_char_row \in 0..fb.ds.height - 1

InsertCells(fb, row, col, count) ==
  [fb EXCEPT !.rows[row] = RowInsertCells(@, col, count, Background(fb))]

DeleteCells(fb, row, col, count) ==
  [fb EXCEPT !.rows[row] = RowDeleteCells(@, col, count, Background(fb))]

(* The bell count, the icon name and the counters survive.                 *)
Reset(fb) ==
  [fb EXCEPT !.ds = NewDrawState(fb.ds.width, fb.ds.height),
             !.rows = [y \in DOMAIN @ |-> NewRow(fb.ds.width, 0, fb.next)],
             !.next = @ + 1,
             !.window_title = <<>>, !.clipboard = <<>>, !.color_queries = <<>>]

SoftReset(fb) ==
  LET modes  == (fb.ds.modes \ {"insert", "origin", "application_mode_cursor_keys"})
                  \cup {"cursor_visible"}
      region == SetScrollingRegion([fb.ds EXCEPT !.modes = modes], 0, fb.ds.height - 1)
  IN  [fb EXCEPT !.ds = [region EXCEPT !.renditions = Plain, !.hyperlink = NoLink,
                                       !.save = SavedDefault]]

SetClipboard(fb, text) ==
  [fb EXCEPT !.clipboard = text, !.clipboard_seq = @ + 1]

AddColorQuery(fb, query) ==
  [fb EXCEPT !.color_queries =
       IF Len(@) + 1 <= MAXIMUM_COLOR_QUERIES THEN Append(@, query) ELSE @,
     !.color_query_seq = @ + 1]

(* Rows past the old height are one blank row; a change of width makes     *)
(* every row that was there over.                                          *)
Resize(fb, width, height) ==
  LET w     == ClampSize(width)
      h     == ClampSize(height)
      ds    == ResizeDrawState(fb.ds, w, h)
      blank == NewRow(w, Background(fb), fb.next)
      Made(row) == IF w = fb.ds.width THEN row
                   ELSE RowResize(RowSetWrap(row, FALSE), w, Background(fb))
  IN  [fb EXCEPT !.ds = ds, !.next = @ + 1,
                 !.rows = [y \in 0..h - 1 |->
                             IF y < fb.ds.height THEN Made(@[y]) ELSE blank]]

(* Framebuffer::eq.  The source compares rows by identity, which is finer  *)
(* than comparing their cells.                                             *)
SameScreen(a, b) ==
  /\ a.rows = b.rows
  /\ a.window_title = b.window_title
  /\ <<a.clipboard, a.clipboard_seq>> = <<b.clipboard, b.clipboard_seq>>
  /\ <<a.color_queries, a.color_query_seq>> = <<b.color_queries, b.color_query_seq>>
  /\ a.bell_count = b.bell_count
  /\ Displayed(a.ds) = Displayed(b.ds)
================================================================================
