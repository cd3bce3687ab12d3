--------------------------------- MODULE Cells ---------------------------------
(***************************************************************************)
(* Renditions, cells and rows: the first half of                           *)
(* crates/mosh-terminal/src/framebuffer.rs.                                *)
(*                                                                         *)
(* A character is its code point and a cell holds a sequence of them.  A   *)
(* row is its cells, a function over the columns counted from 0, and its   *)
(* generation.  Rows are values here: the sharing of rows by Rc, copied    *)
(* before they are written to, cannot be seen from outside.                *)
(***************************************************************************)
EXTENDS Stepwise, FiniteSets

CONSTANTS
  NoLink,           \* the absent hyperlink
  MAX_CELL_BYTES    \* characters after which a cell is full (32 bytes)

ASSUME CellConstants == MAX_CELL_BYTES \in Nat \ {0}

SPACE == 32
NBSP == 160

(***************************************************************************)
(* Renditions: a foreground, a background (0 is the default of each) and   *)
(* the attributes that are on, each named by the SGR code that sets it.    *)
(***************************************************************************)
TRUE_COLOR_MASK == 16777216

Attributes == {1, 2, 3, 4, 5, 7, 8, 9}

Renditions(background) == [foreground |-> 0, background |-> background, attributes |-> {}]

Plain == Renditions(0)

(* The components of the colours that are used have 8 bits each.           *)
MakeTrueColor(r, g, b) == TRUE_COLOR_MASK + 65536 * r + 256 * g + b

SetForegroundColor(r, num) ==
  CASE num \in 0..255         -> [r EXCEPT !.foreground = 30 + num]
    [] num >= TRUE_COLOR_MASK -> [r EXCEPT !.foreground = num]
    [] OTHER                  -> r

SetBackgroundColor(r, num) ==
  CASE num \in 0..255         -> [r EXCEPT !.background = 40 + num]
    [] num >= TRUE_COLOR_MASK -> [r EXCEPT !.background = num]
    [] OTHER                  -> r

SetRendition(r, num) ==
  CASE num = 0            -> Plain
    [] num = 39           -> [r EXCEPT !.foreground = 0]
    [] num = 49           -> [r EXCEPT !.background = 0]
    [] num \in 30..37     -> [r EXCEPT !.foreground = num]
    [] num \in 40..47     -> [r EXCEPT !.background = num]
    [] num \in 90..97     -> [r EXCEPT !.foreground = num - 90 + 38]
    [] num \in 100..107   -> [r EXCEPT !.background = num - 100 + 48]
    [] num \in Attributes -> [r EXCEPT !.attributes = @ \cup {num}]
    [] num = 22           -> [r EXCEPT !.attributes = @ \ {1, 2}]
    [] num \in 23..29     -> [r EXCEPT !.attributes = @ \ {num - 20}]
    [] OTHER              -> r

(* The parameters that name a colour; base is 30 for the foreground and 40 *)
(* for the background.                                                     *)
ColorParams(c, base) ==
  CASE c = 0 -> <<>>
    [] c >= TRUE_COLOR_MASK ->
         <<base + 8, 2, (c \div 65536) % 256, (c \div 256) % 256, c % 256>>
    [] c > base + 7 /\ c < TRUE_COLOR_MASK -> <<base + 8, 5, c - base>>
    [] OTHER -> <<c>>

(* The SGR parameters that put a terminal into these renditions.           *)
Sgr(r) ==
  LET On(a) == IF a \in r.attributes THEN <<a>> ELSE <<>>
  IN  <<0>> \o On(1) \o On(2) \o On(3) \o On(4) \o On(5) \o On(7) \o On(8) \o On(9)
        \o ColorParams(r.foreground, 30) \o ColorParams(r.background, 40)

(***************************************************************************)
(* Cells.                                                                  *)
(***************************************************************************)
NewCell(background) ==
  [contents |-> <<>>, renditions |-> Renditions(background), hyperlink |-> NoLink,
   wide |-> FALSE, fallback |-> FALSE, wrap |-> FALSE]

IsEmpty(cell) == cell.contents = <<>>

IsFull(cell) == Len(cell.contents) >= MAX_CELL_BYTES

IsBlank(cell) == cell.contents \in {<<>>, <<SPACE>>, <<NBSP>>}

ContentsMatch(a, b) == (IsBlank(a) /\ IsBlank(b)) \/ a.contents = b.contents

AppendTo(cell, ch) == [cell EXCEPT !.contents = Append(@, ch)]

(* What the cell displays: a space when it is empty; a cell that begins    *)
(* with a combining character needs something to combine with.             *)
PrintGrapheme(cell) ==
  IF IsEmpty(cell) THEN <<SPACE>>
  ELSE (IF cell.fallback THEN <<NBSP>> ELSE <<>>) \o cell.contents

CellWidth(cell) == IF cell.wide THEN 2 ELSE 1

(***************************************************************************)
(* Rows.                                                                   *)
(***************************************************************************)
NewRow(width, background, gen) ==
  [cells |-> [x \in 0..width - 1 |-> NewCell(background)], gen |-> gen]

RowWidth(row) == Cardinality(DOMAIN row.cells)

(* Open count blank cells at col, or remove as many: the rest of the row   *)
(* moves, and the row keeps its width.                                     *)
RowInsertCells(row, col, count, background) ==
  [row EXCEPT !.cells =
     [x \in DOMAIN @ |-> IF x < col THEN @[x]
                         ELSE IF x < col + count THEN NewCell(background)
                         ELSE @[x - count]]]

RowDeleteCells(row, col, count, background) ==
  [row EXCEPT !.cells =
     [x \in DOMAIN @ |-> IF x < col THEN @[x]
                         ELSE IF x + count \in DOMAIN @ THEN @[x + count]
                         ELSE NewCell(background)]]

RowWrap(row) == row.cells[RowWidth(row) - 1].wrap

RowSetWrap(row, w) == [row EXCEPT !.cells[RowWidth(row) - 1].wrap = w]

(* Narrower drops the cells on the right, wider adds blank ones.           *)
RowResize(row, width, background) ==
  [row EXCEPT !.cells =
     [x \in 0..width - 1 |-> IF x \in DOMAIN @ THEN @[x] ELSE NewCell(background)]]
================================================================================
