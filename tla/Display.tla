-------------------------------- MODULE Display --------------------------------
(***************************************************************************)
(* The functions that turn one screen into another on a terminal:          *)
(* crates/mosh-terminal/src/display.rs.                                    *)
(*                                                                         *)
(* A frame under construction is a record of the functions so far and of   *)
(* what the terminal is known to be at after them: the cursor (-1 when     *)
(* unknown), the renditions, the hyperlink, whether the cursor shows.      *)
(***************************************************************************)
EXTENDS Emulator

CONSTANTS
  HasEch, HasBce, HasTitle   \* what the terminal can do

NewFrameState(last) ==
  [out |-> <<>>, x |-> 0, y |-> 0, rendition |-> Plain, hyperlink |-> NoLink,
   visible |-> "cursor_visible" \in last.ds.modes]

Emit(frame, functions) == [frame EXCEPT !.out = @ \o functions]

Times(n, f) == [i \in 1..n |-> f]

CR == Fn("CR", <<>>)
LF == Fn("LF", <<>>)
SwitchMode(on, n) == Fn(IF on THEN "DECSM" ELSE "DECRM", <<n>>)

(* A command that ends in BEL, and one that ends in ESC \: this terminator *)
(* is a function of its own, which the terminal does not know.             *)
Osc(code, text) == <<Fn("OSC", <<code, 59>> \o text)>>
Terminated(payload) == <<Fn("OSC", payload), Fn("ST", <<>>)>>

(* Spaces are printed one by one.                                          *)
Spaces(n) == [i \in 1..n |-> Fn("print", <<SPACE>>)]

AppendCell(frame, cell) == Emit(frame, <<Fn("print", PrintGrapheme(cell))>>)

(* A return and line feeds, or backspaces, when the way is known and       *)
(* short; else by address.                                                 *)
AppendMove(frame, y, x) ==
  LET known == frame.x # -1 /\ frame.y # -1
      down  == y - frame.y
      move  == IF known /\ x = 0 /\ down \in 0..4
               THEN (IF frame.x = 0 THEN <<>> ELSE <<CR>>) \o Times(down, LF)
               ELSE IF known /\ down = 0 /\ frame.x - x \in 1..4
               THEN Times(frame.x - x, Fn("BS", <<>>))
               ELSE <<Fn("CUP", <<y + 1, x + 1>>)>>
  IN  [Emit(frame, move) EXCEPT !.x = x, !.y = y]

(* The cursor is hidden first, so that the move is not seen.               *)
AppendSilentMove(frame, y, x) ==
  IF frame.x = x /\ frame.y = y THEN frame
  ELSE AppendMove(IF frame.visible
                  THEN [Emit(frame, <<SwitchMode(FALSE, 25)>>) EXCEPT !.visible = FALSE]
                  ELSE frame, y, x)

UpdateRendition(frame, r, force) ==
  IF force \/ frame.rendition # r
  THEN [Emit(frame, <<Fn("SGR", Sgr(r))>>) EXCEPT !.rendition = r] ELSE frame

Osc8Payload(h) ==
  IF h = NoLink THEN <<59>> ELSE h.params \o <<59>> \o h.url

UpdateHyperlink(frame, h, force) ==
  IF force \/ frame.hyperlink # h
  THEN [Emit(frame, Terminated(<<56, 59>> \o Osc8Payload(h))) EXCEPT !.hyperlink = h] ELSE frame

Dress(frame, r, h) == UpdateHyperlink(UpdateRendition(frame, r, FALSE), h, FALSE)

DressAs(frame, cell) == Dress(frame, cell.renditions, cell.hyperlink)

(* Erasing gives the cells the background, and never the hyperlink.        *)
CanUseErase(frame) == HasBce \/ (frame.rendition = Plain /\ frame.hyperlink = NoLink)

(***************************************************************************)
(* What comes before the rows.                                             *)
(***************************************************************************)
Bell(last, f) == IF f.bell_count = last.bell_count THEN <<>> ELSE <<Fn("BEL", <<>>)>>

Titles(initialized, last, f) ==
  LET same == f.icon_name = last.icon_name /\ f.window_title = last.window_title
  IN  IF ~ HasTitle \/ ~ f.title_initialized \/ (initialized /\ same) THEN <<>>
      ELSE IF f.icon_name = f.window_title THEN Osc(48, f.window_title)
      ELSE Osc(49, f.icon_name) \o Osc(50, f.window_title)

(* Gated, so that a client that attaches or repaints replays neither.      *)
Clipboard(initialized, last, f) ==
  IF initialized /\ f.clipboard_seq # last.clipboard_seq
  THEN <<Fn("OSC", <<53, 50, 59, 99, 59>> \o f.clipboard)>> ELSE <<>>

ColorQueries(initialized, last, f) ==
  IF initialized /\ f.color_query_seq # last.color_query_seq
  THEN [i \in 1..2 * Len(f.color_queries) |->
          Terminated(f.color_queries[(i + 1) \div 2])[IF i % 2 = 1 THEN 1 ELSE 2]]
  ELSE <<>>

ModeDiff(initialized, last, f, mode, n) ==
  IF initialized /\ (mode \in f.ds.modes) = (mode \in last.ds.modes) THEN <<>>
  ELSE <<SwitchMode(mode \in f.ds.modes, n)>>

SizeKept(last, f) ==
  f.ds.width = last.ds.width /\ f.ds.height = last.ds.height

(* The region reset, the screen cleared.                                   *)
ClearScreen == <<Fn("DECSTBM", <<-1>>), Fn("SGR", <<0>>), Fn("CUP", <<-1>>), Fn("ED", <<2>>)>>

(* The frame before any row is drawn; kept says whether the screen was.    *)
Prologue(initialized, last, f) ==
  LET kept   == initialized /\ SizeKept(last, f)
      before == Emit(NewFrameState(last),
                     Bell(last, f) \o Titles(initialized, last, f)
                       \o Clipboard(initialized, last, f)
                       \o ColorQueries(initialized, last, f)
                       \o ModeDiff(initialized, last, f, "reverse_video", 5))
  IN  IF kept
      THEN [before EXCEPT !.x = last.ds.cursor_col, !.y = last.ds.cursor_row,
                          !.rendition = last.ds.renditions,
                          !.hyperlink = last.ds.hyperlink]
      ELSE [Emit(before, ClearScreen \o <<SwitchMode(FALSE, 25)>>)
              EXCEPT !.visible = FALSE]

(***************************************************************************)
(* Scrolling.  Rows are the same when they are one generation of one row   *)
(* with the same cells.                                                    *)
(***************************************************************************)
NoRow(f) == NewRow(f.ds.width, 0, -1)

(* The old rows, brought to the new size.                                  *)
OldRows(last, f) ==
  [y \in 0..(IF f.ds.height > last.ds.height THEN f.ds.height ELSE last.ds.height) - 1 |->
     IF y >= last.ds.height THEN NoRow(f)
     ELSE IF last.ds.width < f.ds.width
          THEN RowResize(last.rows[y], f.ds.width, Background(f))
          ELSE last.rows[y]]

(* How far the screen has moved up, and how many rows of it: the first old *)
(* row that is the new first one, and those that follow it.                *)
ScrollOf(rows, f) ==
  LET Same(y, old) == f.rows[y] = rows[old]
      found == {y \in 0..f.ds.height - 1 : Same(0, y)}
      lines == CHOOSE y \in found : \A z \in found : y <= z
      run   == {n \in 1..f.ds.height - lines : \A y \in 0..n - 1 : Same(y, lines + y)}
  IN  IF found = {} \/ 0 \in found THEN [lines |-> 0, height |-> 0]
      ELSE [lines |-> lines, height |-> CHOOSE n \in run : \A m \in run : m <= n]

(* Line feeds at the bottom of the whole screen, or of a region of it.     *)
ScrollFrame(frame, f, s) ==
  LET dressed == UpdateHyperlink(UpdateRendition(frame, Plain, TRUE), NoLink, TRUE)
      bottom  == s.lines + s.height - 1
      region  == Emit(dressed, <<Fn("DECSTBM", <<1, bottom + 1>>)>>)
      there   == AppendSilentMove([region EXCEPT !.x = -1, !.y = -1], bottom, 0)
  IN  IF bottom + 1 = f.ds.height /\ dressed.y + 1 = f.ds.height
      THEN [Emit(dressed, <<CR>> \o Times(s.lines, LF)) EXCEPT !.x = 0]
      ELSE [Emit(there, Times(s.lines, LF) \o <<Fn("DECSTBM", <<-1>>)>>)
              EXCEPT !.x = -1, !.y = -1]

(* Mutant: the copy of the old rows is not scrolled.                       *)
ScrolledRowsForgotten(rows, f, s) == rows

(* The same done to the old rows.                                          *)
ScrolledRows(rows, f, s) ==
  LET bottom == s.lines + s.height - 1
  IN  [y \in DOMAIN rows |-> IF y > bottom THEN rows[y]
                             ELSE IF y + s.lines <= bottom THEN rows[y + s.lines]
                             ELSE NoRow(f)]

(***************************************************************************)
(* One row.  A put is the frame, the column reached, and the run of blank  *)
(* cells that waits to be erased.                                          *)
(***************************************************************************)
BlankLike(put, cell) ==
  IsEmpty(cell) /\ cell.renditions = put.blank.renditions
                /\ cell.hyperlink = put.blank.hyperlink

(* Erase or write the run that ends before the column reached.             *)
FlushRun(put, y) ==
  LET moved == Dress(AppendSilentMove(put.frame, y, put.x - put.clear),
                     put.blank.renditions, put.blank.hyperlink)
  IN  IF CanUseErase(moved) /\ HasEch /\ put.clear > 4
      THEN Emit(moved, <<Fn("ECH", <<put.clear>>)>>)
      ELSE [Emit(moved, Spaces(put.clear)) EXCEPT !.x = put.x]

(* Before the last character of a row that wraps the cursor counts as      *)
(* unknown: the terminal may have it past the last column.                 *)
WriteCell(put, y, cell, wrap_this, width) ==
  LET w      == CellWidth(cell)
      last   == put.x + w >= width
      lost   == IF wrap_this /\ last THEN [put.frame EXCEPT !.x = -1, !.y = -1]
                ELSE put.frame
      drawn  == AppendCell(DressAs(AppendSilentMove(lost, y, put.x), cell), cell)
  IN  [put EXCEPT !.frame = [drawn EXCEPT !.x = @ + w], !.x = @ + w,
                  !.wrote = @ \/ last]

(* A job is to draw row y of f over what the terminal has of it, old.      *)
PutCell(put, job) ==
  LET row  == job.f.rows[job.y]
      cell == row.cells[put.x]
      held == [put EXCEPT !.x = @ + 1, !.clear = @ + 1,
                          !.blank = IF put.clear = 0 THEN cell ELSE @]
      flushed == IF put.clear = 0 THEN put
                 ELSE [put EXCEPT !.frame = FlushRun(put, job.y), !.clear = 0]
      unchanged == /\ job.initialized /\ put.clear = 0
                   /\ put.x \in DOMAIN job.old.cells /\ cell = job.old.cells[put.x]
  IN  IF unchanged THEN [put EXCEPT !.x = @ + CellWidth(cell)]
      ELSE IF ~ IsEmpty(cell)
      THEN WriteCell(flushed, job.y, cell, RowWrap(row), job.f.ds.width)
      ELSE IF put.clear = 0 \/ BlankLike(put, cell) THEN held
      ELSE [flushed EXCEPT !.x = @ + 1, !.clear = 1, !.blank = cell]

(* A run that reaches the end of the row.                                  *)
FlushEnd(put, y, wrap_this) ==
  LET moved == Dress(AppendSilentMove(put.frame, y, put.x - put.clear),
                     put.blank.renditions, put.blank.hyperlink)
  IN  IF put.clear = 0 THEN put
      ELSE IF CanUseErase(moved) /\ ~ wrap_this
      THEN [put EXCEPT !.frame = Emit(moved, <<Fn("EL", <<-1>>)>>)]
      ELSE [put EXCEPT !.frame = [Emit(moved, Spaces(put.clear)) EXCEPT !.x = put.x],
                       !.wrote = TRUE]

(* After a row the terminal is left to wrap, or taken to the next line.    *)
LeaveRow(put, y, f) ==
  LET below == [put.frame EXCEPT !.x = 0, !.y = @ + 1]
  IN  IF ~ put.wrote \/ y = f.ds.height - 1
      THEN [frame |-> put.frame, wrap |-> FALSE]
      ELSE IF RowWrap(f.rows[y]) THEN [frame |-> below, wrap |-> TRUE]
      ELSE [frame |-> Emit(below, <<CR, LF>>), wrap |-> FALSE]

PutNext(put, job) == IF put.x < job.f.ds.width THEN PutCell(put, job) ELSE put

(* Draw a row; wrap, before and after, says that the terminal is left to   *)
(* wrap from the row above onto this one.                                  *)
PutRow(acc, job) ==
  LET row   == job.f.rows[job.y]
      first == row.cells[0]
      begun == IF ~ acc.wrap THEN acc.frame
               ELSE LET drawn == AppendCell(DressAs(acc.frame, first), first)
                    IN  [drawn EXCEPT !.x = @ + CellWidth(first)]
      start == [frame |-> begun, x |-> IF acc.wrap THEN CellWidth(first) ELSE 0,
                clear |-> 0, wrote |-> FALSE, blank |-> NewCell(0)]
      put   == InTurn(PutNext, start, Times(job.f.ds.width, job))
  IN  IF job.initialized /\ row = job.old THEN [frame |-> begun, wrap |-> FALSE]
      ELSE LeaveRow(FlushEnd(put, job.y, RowWrap(row)), job.y, job.f)

(***************************************************************************)
(* What comes after the rows.                                              *)
(***************************************************************************)
(* The mouse reporting modes and the mouse encodings.                      *)
MouseDiff(initialized, old, new, all) ==
  IF initialized /\ old = new THEN <<>>
  ELSE IF new = 0 THEN [i \in DOMAIN all |-> SwitchMode(FALSE, all[i])]
  ELSE (IF old = 0 THEN <<>> ELSE <<SwitchMode(FALSE, old)>>)
         \o <<SwitchMode(TRUE, new)>>

Epilogue(frame, initialized, last, f) ==
  LET visible == "cursor_visible" \in f.ds.modes
      moved == IF initialized /\ f.ds.cursor_row = frame.y /\ f.ds.cursor_col = frame.x
               THEN frame ELSE AppendMove(frame, f.ds.cursor_row, f.ds.cursor_col)
      shown == IF initialized /\ visible = moved.visible THEN moved
               ELSE Emit(moved, <<SwitchMode(visible, 25)>>)
      dressed == UpdateHyperlink(UpdateRendition(shown, f.ds.renditions, ~ initialized),
                                 f.ds.hyperlink, ~ initialized)
  IN  Emit(dressed,
        ModeDiff(initialized, last, f, "bracketed_paste", 2004)
          \o MouseDiff(initialized, last.ds.mouse_reporting_mode,
                       f.ds.mouse_reporting_mode, <<1003, 1002, 1001, 1000>>)
          \o ModeDiff(initialized, last, f, "mouse_focus_event", 1004)
          \o MouseDiff(initialized, last.ds.mouse_encoding_mode,
                       f.ds.mouse_encoding_mode, <<1015, 1006, 1005>>))

(* The functions that turn a terminal that shows last into one that shows  *)
(* f; unless initialized, a terminal of which nothing is known.            *)
NewFrame(initialized, last, f) ==
  LET kept   == initialized /\ SizeKept(last, f)
      start  == Prologue(initialized, last, f)
      rows   == OldRows(last, f)
      s      == IF kept THEN ScrollOf(rows, f) ELSE [lines |-> 0, height |-> 0]
      ready  == IF s.height = 0 THEN start ELSE ScrollFrame(start, f, s)
      olds   == IF s.height = 0 THEN rows ELSE ScrolledRows(rows, f, s)
      Job(y) == [y |-> y, initialized |-> kept, f |-> f, old |-> olds[y]]
      drawn  == InTurn(PutRow, [frame |-> ready, wrap |-> FALSE],
                       [i \in 1..f.ds.height - s.height |-> Job(s.height + i - 1)])
  IN  Epilogue(drawn.frame, kept, last, f).out
================================================================================
