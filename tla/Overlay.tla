--------------------------------- MODULE Overlay --------------------------------
(***************************************************************************)
(* What a client predicts of a cell and of the cursor, and the verdict     *)
(* once the server has spoken: crates/mosh-client/src/overlay.rs.          *)
(*                                                                         *)
(* A cell is its character here, Blank for every cell that IsBlank; a      *)
(* screen is its cells, by row and column from 0, and the cursor.          *)
(* Renditions, and the underlining that flags a prediction, are left out.  *)
(***************************************************************************)
EXTENDS Integers, Sequences

Blank == 32

Height(screen) == Len(screen.rows)
Width(screen) == Len(screen.rows[1])
InScreen(screen, row, col) == row \in 0..Height(screen) - 1 /\ col \in 0..Width(screen) - 1
CharAt(screen, row, col) == screen.rows[row + 1][col + 1]

(***************************************************************************)
(* Predicted cells.  original holds what was there, and what had been      *)
(* predicted, before.                                                      *)
(***************************************************************************)
NoCell ==
  [active |-> FALSE, expiration |-> 0, epoch |-> 0, replacement |-> Blank,
   unknown |-> FALSE, original |-> {}]

Tentative(guess, confirmed_epoch) == guess.epoch > confirmed_epoch

(* A new guess over the one the cell holds, which is remembered when it    *)
(* said what the cell became.                                              *)
GuessOver(cell, epoch, expiration, current, replacement) ==
  [active |-> TRUE, expiration |-> expiration, epoch |-> epoch,
   replacement |-> replacement, unknown |-> FALSE,
   original |-> {current} \cup (IF cell.active /\ ~ cell.unknown
                                THEN cell.original \cup {cell.replacement} ELSE {})]

UnknownOver(cell, epoch, expiration, current) ==
  [GuessOver(cell, epoch, expiration, current, cell.replacement) EXCEPT !.unknown = TRUE]

(* An erasure is pending until the server makes it, even when its frame    *)
(* has been acknowledged; it earns credit if there was something to erase. *)
(* A guess that repeats what was there before earns none.                  *)
CellValidity(cell, screen, row, col, late_ack) ==
  LET current == CharAt(screen, row, col)
  IN  CASE ~ cell.active                              -> "Inactive"
        [] cell.active /\ ~ InScreen(screen, row, col) -> "Incorrect"
        [] OTHER ->
             IF late_ack < cell.expiration THEN "Pending"
             ELSE IF cell.unknown THEN "CorrectNoCredit"
             ELSE IF cell.replacement = Blank
             THEN IF current # Blank THEN "Pending"
                  ELSE IF cell.original # {Blank} /\ cell.original # {} THEN "Correct"
                  ELSE "CorrectNoCredit"
             ELSE IF current # cell.replacement THEN "Incorrect"
             ELSE IF cell.replacement \in cell.original THEN "CorrectNoCredit"
             ELSE "Correct"

(* What a cell shows under a prediction.                                   *)
ApplyCell(cell, current, confirmed_epoch) ==
  IF cell.active /\ ~ Tentative(cell, confirmed_epoch) /\ ~ cell.unknown
  THEN cell.replacement ELSE current

(***************************************************************************)
(* Predicted cursors.                                                      *)
(***************************************************************************)
NewCursor(expiration, row, col, epoch) ==
  [expiration |-> expiration, row |-> row, col |-> col, epoch |-> epoch]

CursorValidity(cursor, screen, late_ack) ==
  CASE ~ InScreen(screen, cursor.row, cursor.col) -> "Incorrect"
    [] OTHER -> IF late_ack < cursor.expiration THEN "Pending"
                ELSE IF cursor.row = screen.row /\ cursor.col = screen.col THEN "Correct"
                ELSE "Incorrect"

(* One that a resize left off the screen is not shown.                     *)
ApplyCursor(screen, cursor, confirmed_epoch) ==
  IF Tentative(cursor, confirmed_epoch) \/ ~ InScreen(screen, cursor.row, cursor.col)
  THEN screen ELSE [screen EXCEPT !.row = cursor.row, !.col = cursor.col]

(***************************************************************************)
(* Predicted rows.                                                         *)
(***************************************************************************)
NewOverlayRow(row_num, num_cols) ==
  [row_num |-> row_num, cells |-> [col \in 0..num_cols - 1 |-> NoCell]]

ApplyRow(screen, row, confirmed_epoch) ==
  IF row.row_num \notin 0..Height(screen) - 1 THEN screen
  ELSE [screen EXCEPT !.rows[row.row_num + 1] =
          [i \in DOMAIN @ |-> IF i - 1 \notin DOMAIN row.cells THEN @[i]
                              ELSE ApplyCell(row.cells[i - 1], @[i], confirmed_epoch)]]
================================================================================
