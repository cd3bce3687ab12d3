-------------------------------- MODULE Prediction -------------------------------
(***************************************************************************)
(* The prediction engine: crates/mosh-client/src/prediction.rs.            *)
(*                                                                         *)
(* An engine is a record of the fields of PredictionEngine, and its        *)
(* methods are operators from an engine and the server's screen to an      *)
(* engine.  Prediction is always displayed (DisplayPreference::Always):    *)
(* the triggers that turn it on by the round-trip time, and the times of   *)
(* the predictions they look at, are left out.                             *)
(***************************************************************************)
EXTENDS Overlay, Parser

CONSTANTS
  WcWidth(_),        \* wcwidth of the C library
  MAX_IN_FLIGHT,     \* 256
  predict_overwrite  \* the option that makes printing overwrite

ASSUME PredictionConstants == MAX_IN_FLIGHT \in Nat \ {0} /\ predict_overwrite \in BOOLEAN

DEL == 127
Return == 13
RightArrow == 67
LeftArrow == 68
SS3 == 79

NewEngine ==
  [last_byte |-> 0, parser |-> NewParser, overlays |-> <<>>, cursors |-> <<>>,
   in_flight |-> <<>>, received |-> None,
   local_frame_sent |-> 0, local_frame_acked |-> 0, local_frame_late_acked |-> 0,
   prediction_epoch |-> 1, confirmed_epoch |-> 0, last_height |-> 0, last_width |-> 0]

BecomeTentative(e) == [e EXCEPT !.prediction_epoch = @ + 1]

ResetEngine(e) ==
  BecomeTentative([e EXCEPT !.cursors = <<>>, !.overlays = <<>>, !.in_flight = <<>>])

(* The keystrokes guessed from epoch on, and those after them, are judged  *)
(* together in a new epoch.                                                *)
Abandon(e, epoch) ==
  LET next == BecomeTentative(e)
  IN  [next EXCEPT !.in_flight =
         [i \in DOMAIN @ |-> IF @[i].epoch >= epoch
                             THEN [@[i] EXCEPT !.epoch = next.prediction_epoch] ELSE @[i]]]

(* (With an off-by-one it would wait for the frame after the one that      *)
(* carries the keystroke.)                                                 *)
ExpiresLate(e) == e.local_frame_sent + 2

Expires(e) == e.local_frame_sent + 1

Cursor(e) == Last(e.cursors)

(* The cursor is where the server has it, or where it was predicted to be  *)
(* when the epoch has moved on.                                            *)
InitCursor(e, fb) ==
  LET at == IF e.cursors = <<>> THEN fb ELSE Cursor(e)
  IN  IF e.cursors # <<>> /\ Cursor(e).epoch = e.prediction_epoch THEN e
      ELSE [e EXCEPT !.cursors = Append(@, NewCursor(Expires(e), at.row, at.col,
                                                     e.prediction_epoch))]

MoveCursor(e, row, col) ==
  [e EXCEPT !.cursors[Len(e.cursors)] =
     [@ EXCEPT !.row = row, !.col = col, !.expiration = Expires(e)]]

(* The overlay of a row, and the engine with one.                          *)
RowIndex(e, row_num) == {i \in DOMAIN e.overlays : e.overlays[i].row_num = row_num}

WithRow(e, row_num, num_cols) ==
  IF RowIndex(e, row_num) # {} THEN e
  ELSE [e EXCEPT !.overlays = Append(@, NewOverlayRow(row_num, num_cols))]

GuessedCells(e, row_num) ==
  e.overlays[CHOOSE i \in RowIndex(e, row_num) : TRUE].cells

WithCells(e, row_num, cells) ==
  [e EXCEPT !.overlays[CHOOSE i \in RowIndex(e, row_num) : TRUE].cells = cells]

(* The newest character the server is known to have received stands just   *)
(* left of its cursor: the application still echoes.                       *)
EchoEvident(e, fb) ==
  /\ e.received # None
  /\ fb.col > 0
  /\ CharAt(fb, fb.row, fb.col - 1) = e.received

(***************************************************************************)
(* Predicting.                                                             *)
(***************************************************************************)
(* The cursor to the first column of the next row.  Scrolling is not       *)
(* predicted: the last row is blanked instead.                             *)
NewlineCarriageReturn(e0, fb) ==
  LET e     == InitCursor(e0, fb)
      row   == Cursor(e).row
      home  == [e EXCEPT !.cursors[Len(e.cursors)].col = 0]
      made  == WithRow(home, row, Width(fb))
      blank == [col \in DOMAIN GuessedCells(made, row) |->
                  [GuessedCells(made, row)[col] EXCEPT
                     !.active = TRUE, !.epoch = e.prediction_epoch,
                     !.expiration = Expires(e), !.replacement = Blank]]
  IN  IF row = Height(fb) - 1 THEN WithCells(made, row, blank)
      ELSE [home EXCEPT !.cursors[Len(e.cursors)].row = @ + 1]

(* A character goes in at the cursor: the rest of the row moves right, and *)
(* what reaches the last column is not known.                              *)
InsertChar(cells, fb, row, col, ch, epoch, expiration) ==
  LET Before(i) == cells[i - 1]
      Now(i) == CharAt(fb, row, i)
  IN  [i \in DOMAIN cells |->
         IF i = col THEN GuessOver(cells[i], epoch, expiration, Now(i), ch)
         ELSE IF i < col \/ predict_overwrite THEN cells[i]
         ELSE IF i = Width(fb) - 1 \/ (Before(i).active /\ Before(i).unknown)
         THEN UnknownOver(cells[i], epoch, expiration, Now(i))
         ELSE GuessOver(cells[i], epoch, expiration, Now(i),
                        IF Before(i).active THEN Before(i).replacement ELSE Now(i - 1))]

(* In the last column an application may wrap or not: the guess belongs to *)
(* a new epoch, and so does the cursor after it.                           *)
PredictPlain(e0, ch, fb) ==
  LET row  == Cursor(e0).row
      col  == Cursor(e0).col
      last == col = Width(fb) - 1
      made == WithRow(e0, row, Width(fb))
      e    == IF last THEN BecomeTentative(made) ELSE made
      put  == WithCells(e, row, InsertChar(GuessedCells(e, row), fb, row, col, ch,
                                           e.prediction_epoch, Expires(e)))
      moved == MoveCursor(put, row, IF last THEN col ELSE col + 1)
  IN  IF ~ InScreen(fb, row, col) THEN BecomeTentative(e0)
      ELSE IF last THEN NewlineCarriageReturn(BecomeTentative(moved), fb)
      ELSE moved

(* The cell before the cursor goes, and the rest of the row moves left.  A *)
(* guess that stays the same keeps the frame it was made for.              *)
RemoveChar(cells, fb, row, from, epoch, expiration) ==
  LET After(i) == cells[i + 1]
      Hidden(i) == i + 2 >= Width(fb) \/ (After(i).active /\ After(i).unknown)
      Shifted(i) == IF After(i).active THEN After(i).replacement ELSE CharAt(fb, row, i + 1)
      Unchanged(i) ==
        /\ cells[i].active
        /\ IF Hidden(i) THEN cells[i].unknown
           ELSE ~ cells[i].unknown /\ cells[i].replacement = Shifted(i)
  IN  [i \in DOMAIN cells |->
         IF i < from \/ Unchanged(i) THEN cells[i]
         ELSE IF Hidden(i) THEN UnknownOver(cells[i], epoch, expiration, CharAt(fb, row, i))
         ELSE GuessOver(cells[i], epoch, expiration, CharAt(fb, row, i), Shifted(i))]

PredictBackspace(e0, fb) ==
  LET row   == Cursor(e0).row
      col   == Cursor(e0).col - 1
      e     == MoveCursor(WithRow(e0, row, Width(fb)), row, col)
      cells == GuessedCells(e, row)
      Erased == [cells EXCEPT ![col] =
                   GuessOver(@, e.prediction_epoch, Expires(e), CharAt(fb, row, col), Blank)]
  IN  IF col < 0 \/ row \notin 0..Height(fb) - 1 THEN e0
      ELSE WithCells(e, row,
             IF predict_overwrite THEN Erased
             ELSE RemoveChar(cells, fb, row, col, e.prediction_epoch, Expires(e)))

(* What a cell will hold once every prediction has landed; None when no    *)
(* one knows.                                                              *)
PredictedCell(e, fb, row, col) ==
  LET made  == RowIndex(e, row) # {} /\ col \in DOMAIN GuessedCells(e, row)
      guess == GuessedCells(e, row)[col]
  IN  IF made /\ guess.active
      THEN IF guess.unknown THEN None ELSE guess.replacement
      ELSE IF InScreen(fb, row, col) THEN CharAt(fb, row, col) ELSE None

(* Where the run of these columns that ends before column `to` starts.     *)
RunStart(to, columns) ==
  CHOOSE c \in 0..to : c..to - 1 \subseteq columns /\ c - 1 \notin columns

EraseAt(e, at) == PredictBackspace(e, at.context)

(* Back over blanks and over the word before them.                         *)
PredictWordErase(e0, fb) ==
  LET e == InitCursor(e0, fb)
      row == Cursor(e).row
      Known(col) == PredictedCell(e, fb, row, col)
      blanks == {col \in 0..Width(fb) : Known(col) = Blank}
      word == {col \in 0..Width(fb) : Known(col) \notin {Blank, None}}
      start == RunStart(RunStart(Cursor(e).col, blanks), word)
  IN  InTurn(EraseAt, e, With(fb, [i \in 1..Cursor(e).col - start |-> i]))

PredictPrint(e0, ch, fb) ==
  LET e == InitCursor(e0, fb)
  IN  IF ch = DEL THEN PredictBackspace(e, fb)
      ELSE IF ch < 32 \/ WcWidth(ch) # 1 THEN BecomeTentative(e)
      ELSE PredictPlain(e, ch, fb)

(* An arrow moves the cursor along the row, and no further.                *)
PredictArrow(e0, by, fb) ==
  LET e == InitCursor(e0, fb)
      col == Cursor(e).col + by
  IN  IF col \in 0..Width(fb) - 1 THEN MoveCursor(e, Cursor(e).row, col) ELSE e

PredictAction(e, a, fb) ==
  CASE a.kind = "Print"                            -> PredictPrint(e, a.ch, fb)
    [] a.kind = "Execute" /\ a.ch = Return         ->
         NewlineCarriageReturn(BecomeTentative(e), fb)
    [] a.kind = "CsiDispatch" /\ a.ch = RightArrow -> PredictArrow(e, 1, fb)
    [] a.kind = "CsiDispatch" /\ a.ch = LeftArrow  -> PredictArrow(e, -1, fb)
    [] \/ a.kind = "EscDispatch"
       \/ a.kind = "Execute" /\ a.ch # Return
       \/ a.kind = "CsiDispatch" /\ a.ch \notin {RightArrow, LeftArrow} -> BecomeTentative(e)
    [] OTHER                                       -> e

ActionAt(e, at) == PredictAction(e, at.item, at.context)

(* An arrow in application mode is read as one in normal mode; DEL after   *)
(* an escape erases a word.                                                *)
Predict(e, byte, fb) ==
  LET read == IF e.last_byte = ESC /\ byte = SS3 THEN 91 ELSE byte
      Guess(parsed) ==
        InTurn(ActionAt, [e EXCEPT !.last_byte = read, !.parser = parsed.parser],
               With(fb, parsed.actions))
  IN  IF e.last_byte = ESC /\ byte = DEL
      THEN PredictWordErase([e EXCEPT !.parser = NewParser, !.last_byte = DEL], fb)
      ELSE Guess(ParseByte(e.parser, read))

(***************************************************************************)
(* Judging.                                                                *)
(***************************************************************************)
(* The keystrokes in flight for frames from one on.                        *)
InFlightFrom(e, frame) == Only(e.in_flight, {k \in Range(e.in_flight) : k.frame >= frame})

(* A keystroke again, in the epoch and for the frame it had.               *)
Replay(e, at) ==
  Predict([e EXCEPT !.local_frame_sent = at.item.frame - 1, !.prediction_epoch = at.item.epoch],
          at.item.byte, at.context)

(* Guess again, from the server's screen, for the keystrokes it has not    *)
(* received.                                                               *)
Rebuild(e, fb) ==
  LET left == InFlightFrom(e, e.local_frame_acked + 1)
  IN  [InTurn(Replay, [e EXCEPT !.overlays = <<>>, !.cursors = <<>>, !.parser = NewParser],
              With(fb, left))
         EXCEPT !.in_flight = left, !.local_frame_sent = e.local_frame_sent,
                !.prediction_epoch = e.prediction_epoch,
                !.parser = e.parser, !.last_byte = e.last_byte]

(* The cells are judged row by row until one is wrong: stop is the epoch   *)
(* to abandon, Reset when it was a confirmed one.                          *)
NotWrong == -1
WrongConfirmed == -2

JudgeCell(acc, at) ==
  LET i == at.context.row
      cell == acc.e.overlays[i].cells[at.item]
      verdict == CellValidity(cell, at.context.fb, acc.e.overlays[i].row_num, at.item,
                              acc.e.local_frame_late_acked)
      retired == [acc.e EXCEPT !.overlays[i].cells[at.item] = NoCell]
  IN  IF acc.stop # NotWrong THEN acc
      ELSE CASE verdict = "Incorrect" ->
                  [acc EXCEPT !.stop = IF Tentative(cell, acc.e.confirmed_epoch)
                                       THEN cell.epoch ELSE WrongConfirmed]
             [] verdict = "Correct" ->
                  [acc EXCEPT !.e = [retired EXCEPT !.confirmed_epoch =
                                       IF cell.epoch > @ THEN cell.epoch ELSE @]]
             [] verdict = "CorrectNoCredit" -> [acc EXCEPT !.e = retired]
             [] OTHER -> acc

JudgeRow(acc, at) ==
  InTurn(JudgeCell, acc, With([fb |-> at.context, row |-> at.item],
                              [n \in 1..Width(at.context) |-> n - 1]))

Judge(e, fb) ==
  InTurn(JudgeRow, [e |-> e, stop |-> NotWrong], With(fb, [i \in DOMAIN e.overlays |-> i]))

CursorWrong(e, fb) ==
  /\ e.cursors # <<>>
  /\ CursorValidity(Cursor(e), fb, e.local_frame_late_acked) = "Incorrect"

(* (Off by one: the keystrokes of the frame acknowledged would stay.)      *)
NoteReceivedKeeping(e) ==
  LET got == {i \in DOMAIN e.in_flight : e.in_flight[i].frame <= e.local_frame_acked}
      newest == e.in_flight[CHOOSE i \in got : \A j \in got : j <= i]
  IN  [e EXCEPT
         !.received = IF got = {} THEN @ ELSE IF newest.text THEN newest.byte ELSE None,
         !.in_flight = InFlightFrom(e, e.local_frame_late_acked)]

(* The keystrokes: the newest that was received, if it was text, and those *)
(* whose effect has not been acknowledged.                                 *)
NoteReceived(e) ==
  LET got == {i \in DOMAIN e.in_flight : e.in_flight[i].frame <= e.local_frame_acked}
      newest == e.in_flight[CHOOSE i \in got : \A j \in got : j <= i]
  IN  [e EXCEPT
         !.received = IF got = {} THEN @ ELSE IF newest.text THEN newest.byte ELSE None,
         !.in_flight = InFlightFrom(e, e.local_frame_late_acked + 1)]

(* Guessing again, once a confirmed guess or the cursor proved wrong (in   *)
(* the epochs there were if the application still echoes) or a tentative   *)
(* one.                                                                    *)
Correct(judged, e, fb) ==
  LET lost == judged.stop = WrongConfirmed \/ CursorWrong(judged.e, fb)
  IN  IF ~ lost /\ judged.stop = NotWrong THEN e
      ELSE Rebuild(IF ~ lost THEN Abandon(e, judged.stop)
                   ELSE IF EchoEvident(e, fb) THEN e ELSE Abandon(e, 0), fb)

(* A resize makes every coordinate void.                                   *)
Cull(e0, fb) ==
  LET same   == e0.last_height = Height(fb) /\ e0.last_width = Width(fb)
      sized  == IF same THEN e0
                ELSE ResetEngine([e0 EXCEPT !.last_height = Height(fb),
                                            !.last_width = Width(fb)])
      onscreen == [sized EXCEPT !.overlays =
                     Only(@, {r \in Range(@) : r.row_num \in 0..Height(fb) - 1})]
      judged == Judge(onscreen, fb)
  IN  [Correct(judged, NoteReceived(judged.e), fb) EXCEPT !.cursors =
         Only(@, {c \in Range(@) : CursorValidity(c, fb, e0.local_frame_late_acked) = "Pending"})]

(* A link that is down: no more is guessed until something comes back.     *)
LimitInFlight(e) == IF Len(e.in_flight) >= MAX_IN_FLIGHT THEN ResetEngine(e) ELSE e

RecordKey(e, byte) ==
  [e EXCEPT !.in_flight =
     Append(@, [byte |-> byte, text |-> e.parser.state = "Ground" /\ byte \in 33..126,
                frame |-> Expires(e), epoch |-> e.prediction_epoch])]

NewUserByte(e, byte, fb) ==
  Predict(RecordKey(LimitInFlight(Cull(e, fb)), byte), byte, fb)

PutCursor(screen, at) == ApplyCursor(screen, at.item, at.context)
PutRow(screen, at) == ApplyRow(screen, at.item, at.context)

(* The predictions over a screen, those of an epoch not confirmed left     *)
(* out.                                                                    *)
Apply(e, fb) ==
  LET moved == InTurn(PutCursor, fb, With(e.confirmed_epoch, e.cursors))
  IN  InTurn(PutRow, moved, With(e.confirmed_epoch, e.overlays))
================================================================================
