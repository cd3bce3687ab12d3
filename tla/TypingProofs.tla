------------------------------ MODULE TypingProofs -----------------------------
(***************************************************************************)
(* Theorems about Typing, for screens of every size, any inputs and any    *)
(* order in which what was typed, the screens and the acknowledgements     *)
(* come: the prediction engine stays well formed, and once all is settled  *)
(* the client shows the server's screen but for erasures.                  *)
(*                                                                         *)
(* The inductive invariant dates what is guessed.  A guess is for a frame  *)
(* whose echo the client does not know (a cell may be for an older one,    *)
(* when it is of an erasure) and for Top at the latest, which is the next  *)
(* frame only while something typed is in none.  Culling brings this about *)
(* when more of the echo is known, and typing keeps it; when everything    *)
(* has been sent and acknowledged there is no frame left to guess for.     *)
(***************************************************************************)
EXTENDS Typing, ParserProofs, FiniteSetTheorems

(***************************************************************************)
(* What an engine is, on a screen of w columns and h rows, when the echo   *)
(* of the frames up to late is known and top is the newest frame a guess   *)
(* can be for.  The sets of the fields have names, which the provers see   *)
(* through only where it matters.                                          *)
(***************************************************************************)
Below(n) == 0..n - 1
After(late, top) == late + 1..top

(* A guess whose frame's echo is known, and that has not been retired, is  *)
(* of an erasure.                                                          *)
Ripe(cell, late) == cell.active /\ cell.expiration <= late => cell.replacement = Blank

Guess ==
  [active : BOOLEAN, expiration : Int, epoch : Nat, replacement : Int,
   unknown : BOOLEAN, original : SUBSET Int]
Cell(late, top) ==
  {cell \in Guess : Ripe(cell, late) /\ (cell.active => cell.expiration <= top)}
CellRow(w, late, top) == [Below(w) -> Cell(late, top)]
Row(w, h, late, top) == [row_num : Below(h), cells : CellRow(w, late, top)]
Rows(w, h, late, top) == Seq(Row(w, h, late, top))

Place(w, h, late, top) ==
  [expiration : After(late, top), row : Below(h), col : Below(w), epoch : Nat]
Places(w, h, late, top) == Seq(Place(w, h, late, top))

Byte == 0..255
Keystroke(late, top) ==
  [byte : Byte, text : BOOLEAN, frame : After(late, top), epoch : Nat]
Keystrokes(late, top) == Seq(Keystroke(late, top))

CharOrNone == Int \cup {None}

OneToARow(rows) == \A i, j \in 1..Len(rows) : rows[i].row_num = rows[j].row_num => i = j
InOrder(keys) == \A i, j \in 1..Len(keys) : i <= j => keys[i].frame <= keys[j].frame

Engine(w, h, late, top) ==
  {e \in [last_byte : Int, parser : Parsers, overlays : Rows(w, h, late, top),
          cursors : Places(w, h, late, top), in_flight : Keystrokes(late, top),
          received : CharOrNone, local_frame_sent : Int, local_frame_acked : Int,
          local_frame_late_acked : Int, prediction_epoch : Nat, confirmed_epoch : Nat,
          last_height : Int, last_width : Int] :
     OneToARow(e.overlays) /\ InOrder(e.in_flight)}

(***************************************************************************)
(* The inductive invariant.                                                *)
(***************************************************************************)
Keys == Seq(Byte) \ {NoInput}
Sizes ==
  {s \in Seq(Int) :
     Len(s) = 3 /\ s[1] = RESIZE /\ s[2] \in Dimension /\ s[3] \in Dimension}
Inputs == Keys \cup Sizes

(* The newest frame a guess can be for: the next one while something typed *)
(* is in none.                                                             *)
Top == Len(frames) + (IF Pushed > Carried(Len(frames)) THEN 1 ELSE 0)

StreamIs ==
  /\ keyboard \subseteq Inputs /\ typed \in Seq(Inputs)
  /\ frames \in Seq(Nat) /\ Pushed \in Nat
  /\ \A i, j \in 1..Len(frames) : i <= j => frames[i] <= frames[j]
  /\ \A i \in 1..Len(frames) : frames[i] <= Pushed

Press == [input : Keys, frame : Nat]
History == {s \in Seq(Nat) : \A i, j \in 1..Len(s) : i < j => s[i] < s[j]}

(* The frames remembered go from the one acknowledged to the newest.       *)
Remembers(history, ack, frame) ==
  /\ history \in History
  /\ \A i \in 1..Len(history) : history[i] \in ack..frame
  /\ ack > 0 => history # <<>> /\ history[1] = ack

ServerIs ==
  /\ server \in [frame : Nat, fb : {server.fb}, pty : Seq(Press),
                 input_history : History, echo_ack : Nat]
  /\ IsScreen(server.fb)
  /\ Remembers(server.input_history, server.echo_ack, server.frame)
  /\ server.echo_ack <= server.frame /\ server.frame <= Len(frames)

ViewIs ==
  /\ view \in [fb : {view.fb}, echo_ack : Nat]
  /\ IsScreen(view.fb)
  /\ view.echo_ack <= server.echo_ack
  /\ view.echo_ack <= acked /\ acked <= server.frame /\ acked \in Nat

PredictionsAre ==
  /\ predictions \in Engine(Width(view.fb), Height(view.fb), view.echo_ack, Top)
  /\ predictions.local_frame_acked = acked
  /\ predictions.local_frame_late_acked = view.echo_ack
  /\ predictions.last_height = Height(view.fb)
  /\ predictions.last_width = Width(view.fb)

IInv == StreamIs /\ ServerIs /\ ViewIs /\ PredictionsAre

(***************************************************************************)
(* Screens.                                                                *)
(***************************************************************************)
LEMMA ScreenSizes ==
  ASSUME NEW w \in Dimension, NEW h \in Dimension, NEW fb \in Screens(w, h)
  PROVE  /\ Width(fb) = w /\ Height(fb) = h
         /\ fb.row \in Below(h) /\ fb.col \in Below(w)
         /\ \A row \in Below(h), col \in Below(w) : CharAt(fb, row, col) \in Int
         /\ \A row, col : InScreen(fb, row, col) <=> row \in Below(h) /\ col \in Below(w)
<1>1. fb.rows \in [1..h -> [1..w -> Int]] /\ fb.row \in 0..h - 1 /\ fb.col \in 0..w - 1
  BY DEF Screens
<1>2. w \in Nat /\ h \in Nat /\ 1 \in 1..h
  BY DEF Dimension
<1>3. fb.rows \in Seq([1..w -> Int]) /\ Len(fb.rows) = h
  BY <1>1, <1>2
<1>4. fb.rows[1] \in Seq(Int) /\ Len(fb.rows[1]) = w
  BY <1>1, <1>2
<1>5. Width(fb) = w /\ Height(fb) = h
  BY <1>3, <1>4 DEF Width, Height
<1>6. ASSUME NEW row \in Below(h), NEW col \in Below(w)
      PROVE  CharAt(fb, row, col) \in Int
  <2>1. row + 1 \in 1..h /\ col + 1 \in 1..w
    BY <1>2 DEF Below
  <2> QED  BY <1>1, <2>1 DEF CharAt
<1> QED  BY <1>1, <1>5, <1>6 DEF Below, InScreen

(* A screen is one of some size.                                           *)
LEMMA ScreensAre ==
  ASSUME NEW fb
  PROVE  /\ IsScreen(fb) => \E w \in Dimension, h \in Dimension : fb \in Screens(w, h)
         /\ \A w \in Dimension, h \in Dimension : fb \in Screens(w, h) => IsScreen(fb)
<1>1. ASSUME NEW w \in Dimension, NEW h \in Dimension, fb \in Screens(w, h)
      PROVE  IsScreen(fb)
  <2>1. Width(fb) = w /\ Height(fb) = h
    BY <1>1, ScreenSizes
  <2> QED  BY <1>1, <2>1 DEF IsScreen
<1> QED  BY <1>1 DEF IsScreen

(***************************************************************************)
(* Engines.                                                                *)
(***************************************************************************)
(* What guessing leaves alone.                                             *)
Kin(e, o) ==
  /\ e.in_flight = o.in_flight /\ e.local_frame_sent = o.local_frame_sent
  /\ e.local_frame_acked = o.local_frame_acked
  /\ e.local_frame_late_acked = o.local_frame_late_acked
  /\ e.last_height = o.last_height /\ e.last_width = o.last_width

Guessing(w, h, late, top, o) == {e \in Engine(w, h, late, top) : Kin(e, o)}

(* With a cursor to guess from.                                            *)
Placed(w, h, late, top, o) == {e \in Guessing(w, h, late, top, o) : e.cursors # <<>>}

(* The next guess is for a frame the engine may guess for.                 *)
Dated(o, late, top) == o.local_frame_sent + 1 \in After(late, top)

(* Other cursors, on the screen and for frames to come.                    *)
LEMMA NewCursors ==
  ASSUME NEW w, NEW h, NEW late, NEW top, NEW o, NEW e \in Guessing(w, h, late, top, o),
         NEW cursors \in Places(w, h, late, top)
  PROVE  [e EXCEPT !.cursors = cursors] \in Guessing(w, h, late, top, o)
BY DEF Guessing, Engine, Kin

(* Other overlays, one to a row.                                           *)
LEMMA NewOverlays ==
  ASSUME NEW w, NEW h, NEW late, NEW top, NEW o, NEW e \in Guessing(w, h, late, top, o),
         NEW overlays \in Rows(w, h, late, top), OneToARow(overlays)
  PROVE  [e EXCEPT !.overlays = overlays] \in Guessing(w, h, late, top, o)
BY DEF Guessing, Engine, Kin

(* A new epoch.                                                            *)
LEMMA Tentatively ==
  ASSUME NEW w, NEW h, NEW late, NEW top, NEW o, NEW e \in Guessing(w, h, late, top, o)
  PROVE  /\ BecomeTentative(e) \in Guessing(w, h, late, top, o)
         /\ BecomeTentative(e).cursors = e.cursors /\ BecomeTentative(e).overlays = e.overlays
<1>1. e.prediction_epoch + 1 \in Nat
  BY DEF Guessing, Engine
<1> DEFINE next == e.prediction_epoch + 1
<1>2. BecomeTentative(e) = [e EXCEPT !.prediction_epoch = next]
  BY DEF BecomeTentative
<1> HIDE DEF next
<1> QED  BY <1>1, <1>2 DEF Guessing, Engine, Kin, next

(* The last cursor is on the screen.                                       *)
LEMMA CursorIs ==
  ASSUME NEW w, NEW h, NEW late, NEW top, NEW o, NEW e \in Placed(w, h, late, top, o)
  PROVE  /\ Len(e.cursors) \in 1..Len(e.cursors) /\ Len(e.cursors) \in Nat
         /\ Cursor(e) = e.cursors[Len(e.cursors)]
         /\ Cursor(e) \in Place(w, h, late, top)
         /\ e.cursors \in Places(w, h, late, top)
<1>1. e.cursors \in Places(w, h, late, top) /\ e.cursors # <<>>
  BY DEF Placed, Guessing, Engine
<1>2. e.cursors \in Seq(Place(w, h, late, top))
  BY <1>1 DEF Places
<1>3. Len(e.cursors) \in 1..Len(e.cursors) /\ Len(e.cursors) \in Nat
  BY <1>1, <1>2
<1> QED  BY <1>1, <1>2, <1>3 DEF Cursor, Last

(* Replacing it.                                                           *)
LEMMA CursorPut ==
  ASSUME NEW w, NEW h, NEW late, NEW top, NEW o, NEW e \in Placed(w, h, late, top, o),
         NEW place \in Place(w, h, late, top)
  PROVE  [e EXCEPT !.cursors[Len(e.cursors)] = place] \in Placed(w, h, late, top, o)
<1> DEFINE cursors == [e.cursors EXCEPT ![Len(e.cursors)] = place]
<1>1. e.cursors \in Seq(Place(w, h, late, top)) /\ Len(e.cursors) \in 1..Len(e.cursors)
  BY CursorIs DEF Places
<1>2. cursors \in Seq(Place(w, h, late, top)) /\ Len(cursors) = Len(e.cursors)
  BY <1>1
<1>3. cursors \in Places(w, h, late, top) /\ cursors # <<>>
  BY <1>1, <1>2 DEF Places
<1>4. [e EXCEPT !.cursors[Len(e.cursors)] = place] = [e EXCEPT !.cursors = cursors]
  OBVIOUS
<1> HIDE DEF cursors
<1>5. [e EXCEPT !.cursors = cursors] \in Guessing(w, h, late, top, o)
  BY <1>3, NewCursors DEF Placed
<1>6. [e EXCEPT !.cursors = cursors].cursors = cursors
  BY DEF Placed, Guessing, Engine
<1> QED  BY <1>3, <1>4, <1>5, <1>6 DEF Placed

(* A guess made now is for a frame to come.                                *)
LEMMA Expiring ==
  ASSUME NEW w, NEW h, NEW late, NEW top, NEW o, NEW e \in Guessing(w, h, late, top, o),
         Dated(o, late, top)
  PROVE  Expires(e) \in After(late, top)
BY DEF Guessing, Kin, Expires, Dated

(* There is a cursor to guess from, where the last one is or the screen's. *)
LEMMA InitCursorIs ==
  ASSUME NEW w \in Dimension, NEW h \in Dimension, NEW fb \in Screens(w, h),
         NEW late, NEW top, NEW o, NEW e \in Guessing(w, h, late, top, o), Dated(o, late, top)
  PROVE  InitCursor(e, fb) \in Placed(w, h, late, top, o)
<1> DEFINE at == IF e.cursors = <<>> THEN fb ELSE Cursor(e)
           cursor == NewCursor(Expires(e), at.row, at.col, e.prediction_epoch)
           more == Append(e.cursors, cursor)
<1>1. at.row \in Below(h) /\ at.col \in Below(w)
  <2>1. CASE e.cursors = <<>>
    BY <2>1, ScreenSizes
  <2>2. CASE e.cursors # <<>>
    <3>1. e \in Placed(w, h, late, top, o)
      BY <2>2 DEF Placed
    <3>2. Cursor(e) \in Place(w, h, late, top)
      BY <3>1, CursorIs
    <3> QED  BY <2>2, <3>2 DEF Place
  <2> QED  BY <2>1, <2>2
<1> HIDE DEF at
<1>2. e.prediction_epoch \in Nat /\ e.cursors \in Places(w, h, late, top)
  BY DEF Guessing, Engine
<1>3. cursor \in Place(w, h, late, top)
  BY <1>1, <1>2, Expiring DEF NewCursor, Place
<1> HIDE DEF cursor
<1>4. more \in Places(w, h, late, top) /\ more # <<>>
  BY <1>2, <1>3 DEF Places
<1>5. \/ InitCursor(e, fb) = e /\ e.cursors # <<>>
      \/ InitCursor(e, fb) = [e EXCEPT !.cursors = more]
  BY DEF InitCursor, cursor, at
<1> HIDE DEF more
<1>6. [e EXCEPT !.cursors = more] \in Guessing(w, h, late, top, o)
  BY <1>4, NewCursors
<1>7. [e EXCEPT !.cursors = more].cursors = more
  BY DEF Guessing, Engine
<1> QED  BY <1>4, <1>5, <1>6, <1>7 DEF Placed

(* The last cursor moved, over the same cells.                             *)
LEMMA MoveCursorIs ==
  ASSUME NEW w, NEW h, NEW late, NEW top, NEW o, NEW e \in Placed(w, h, late, top, o),
         Dated(o, late, top), NEW row \in Below(h), NEW col \in Below(w)
  PROVE  /\ MoveCursor(e, row, col) \in Placed(w, h, late, top, o)
         /\ MoveCursor(e, row, col).overlays = e.overlays
<1> DEFINE place == [e.cursors[Len(e.cursors)] EXCEPT
                       !.row = row, !.col = col, !.expiration = Expires(e)]
<1>1. Expires(e) \in After(late, top)
  BY Expiring DEF Placed
<1>2. e.cursors[Len(e.cursors)] \in Place(w, h, late, top)
  BY CursorIs
<1>3. place \in Place(w, h, late, top)
  BY <1>1, <1>2 DEF Place
<1>4. MoveCursor(e, row, col) = [e EXCEPT !.cursors[Len(e.cursors)] = place]
  BY DEF MoveCursor
<1> HIDE DEF place
<1>5. [e EXCEPT !.cursors[Len(e.cursors)] = place].overlays = e.overlays
  BY DEF Placed, Guessing, Engine
<1> QED  BY <1>3, <1>4, <1>5, CursorPut

(* The overlay of a row.                                                   *)
LEMMA RowsAre ==
  ASSUME NEW w, NEW h, NEW late, NEW top, NEW o, NEW e \in Guessing(w, h, late, top, o)
  PROVE  /\ e.overlays \in Seq(Row(w, h, late, top)) /\ Len(e.overlays) \in Nat
         /\ DOMAIN e.overlays = 1..Len(e.overlays) /\ OneToARow(e.overlays)
         /\ \A i \in 1..Len(e.overlays) : e.overlays[i] \in Row(w, h, late, top)
<1>1. e.overlays \in Seq(Row(w, h, late, top)) /\ OneToARow(e.overlays)
  BY DEF Guessing, Engine, Rows
<1> QED  BY <1>1

(* A cell without a guess.                                                 *)
LEMMA Uncovered ==
  ASSUME NEW late, NEW top
  PROVE  NoCell \in Cell(late, top)
BY DEF NoCell, Cell, Guess, Ripe, Blank

(* A row to guess in: the one there is, or a new one.                      *)
LEMMA WithRowIs ==
  ASSUME NEW w, NEW h, NEW late, NEW top, NEW o, NEW e \in Guessing(w, h, late, top, o),
         NEW row \in Below(h)
  PROVE  /\ WithRow(e, row, w) \in Guessing(w, h, late, top, o)
         /\ WithRow(e, row, w).cursors = e.cursors
         /\ RowIndex(WithRow(e, row, w), row) # {}
<1>1. CASE RowIndex(e, row) # {}
  BY <1>1 DEF WithRow
<1>2. CASE RowIndex(e, row) = {}
  <2> DEFINE new == NewOverlayRow(row, w)
             more == Append(e.overlays, new)
             made == [e EXCEPT !.overlays = more]
             n == Len(e.overlays)
  <2>1. new \in Row(w, h, late, top) /\ new.row_num = row
    <3>1. [col \in Below(w) |-> NoCell] \in CellRow(w, late, top)
      BY Uncovered DEF CellRow
    <3> QED  BY <3>1 DEF NewOverlayRow, Row, Below
  <2> HIDE DEF new
  <2>2. /\ more \in Seq(Row(w, h, late, top)) /\ n \in Nat /\ Len(more) = n + 1
        /\ more[n + 1] = new /\ \A i \in 1..n : more[i] = e.overlays[i]
    BY <2>1, RowsAre
  <2> HIDE DEF more
  <2>3. \A i \in 1..n : e.overlays[i].row_num # row
    BY <1>2, RowsAre DEF RowIndex
  <2>4. OneToARow(more)
    <3> SUFFICES ASSUME NEW i \in 1..n + 1, NEW j \in 1..n + 1, more[i].row_num = more[j].row_num
                 PROVE  i = j
      BY <2>2 DEF OneToARow
    <3>1. \A k \in 1..n + 1 : k = n + 1 \/ k \in 1..n
      BY <2>2
    <3>2. \A k, l \in 1..n : e.overlays[k].row_num = e.overlays[l].row_num => k = l
      BY RowsAre DEF OneToARow
    <3> QED  BY <2>1, <2>2, <2>3, <3>1, <3>2
  <2>5. made \in Guessing(w, h, late, top, o)
    BY <2>2, <2>4, NewOverlays DEF Rows
  <2>6. made.overlays = more /\ made.cursors = e.cursors
    BY DEF Guessing, Engine
  <2>7. WithRow(e, row, w) = made
    BY <1>2 DEF WithRow, more, new
  <2> HIDE DEF made
  <2>8. n + 1 \in RowIndex(made, row)
    BY <2>1, <2>2, <2>6 DEF RowIndex
  <2> QED  BY <2>5, <2>6, <2>7, <2>8
<1> QED  BY <1>1, <1>2

(* The cells of a row that has an overlay.                                 *)
LEMMA GuessedCellsAre ==
  ASSUME NEW w, NEW h, NEW late, NEW top, NEW o, NEW e \in Guessing(w, h, late, top, o),
         NEW row, RowIndex(e, row) # {}
  PROVE  GuessedCells(e, row) \in CellRow(w, late, top)
<1> DEFINE i == CHOOSE k \in RowIndex(e, row) : TRUE
<1>1. i \in RowIndex(e, row)
  OBVIOUS
<1> HIDE DEF i
<1>2. e.overlays[i] \in Row(w, h, late, top)
  BY <1>1, RowsAre DEF RowIndex
<1> QED  BY <1>2 DEF GuessedCells, Row, i

(* The overlay of a row replaced.                                          *)
LEMMA WithCellsIs ==
  ASSUME NEW w, NEW h, NEW late, NEW top, NEW o, NEW e \in Guessing(w, h, late, top, o),
         NEW row, RowIndex(e, row) # {}, NEW cells \in CellRow(w, late, top)
  PROVE  /\ WithCells(e, row, cells) \in Guessing(w, h, late, top, o)
         /\ WithCells(e, row, cells).cursors = e.cursors
<1> DEFINE i == CHOOSE k \in RowIndex(e, row) : TRUE
           new == [e.overlays[i] EXCEPT !.cells = cells]
           overlays == [e.overlays EXCEPT ![i] = new]
<1>1. i \in RowIndex(e, row)
  OBVIOUS
<1>2. WithCells(e, row, cells) = [e EXCEPT !.overlays = overlays]
  BY DEF WithCells
<1> HIDE DEF i
<1>3. i \in 1..Len(e.overlays) /\ e.overlays[i] \in Row(w, h, late, top)
  BY <1>1, RowsAre DEF RowIndex
<1>4. new \in Row(w, h, late, top) /\ new.row_num = e.overlays[i].row_num
  BY <1>3 DEF Row
<1> HIDE DEF new
<1>5. /\ overlays \in Seq(Row(w, h, late, top)) /\ Len(overlays) = Len(e.overlays)
      /\ \A k \in 1..Len(e.overlays) : overlays[k].row_num = e.overlays[k].row_num
  BY <1>3, <1>4, RowsAre
<1> HIDE DEF overlays
<1>6. OneToARow(overlays)
  BY <1>5, RowsAre DEF OneToARow
<1>7. [e EXCEPT !.overlays = overlays].cursors = e.cursors
  BY DEF Guessing, Engine
<1> QED  BY <1>2, <1>5, <1>6, <1>7, NewOverlays DEF Rows

(***************************************************************************)
(* Guesses of cells.                                                       *)
(***************************************************************************)
LEMMA GuessedOver ==
  ASSUME NEW late \in Nat, NEW top, NEW cell \in Cell(late, top), NEW epoch \in Nat,
         NEW expiration \in After(late, top), top \in Nat, NEW current \in Int, NEW replacement \in Int
  PROVE  /\ GuessOver(cell, epoch, expiration, current, replacement) \in Cell(late, top)
         /\ UnknownOver(cell, epoch, expiration, current) \in Cell(late, top)
<1>1. /\ cell \in Guess /\ cell.original \in SUBSET Int /\ cell.replacement \in Int
      /\ expiration \in Int /\ expiration <= top /\ ~ (expiration <= late)
  BY DEF Cell, Guess, After
<1>2. ASSUME NEW r \in Int
      PROVE  /\ GuessOver(cell, epoch, expiration, current, r) \in Cell(late, top)
             /\ GuessOver(cell, epoch, expiration, current, r) \in Guess
             /\ GuessOver(cell, epoch, expiration, current, r).expiration = expiration
  <2> DEFINE original == {current} \cup (IF cell.active /\ ~ cell.unknown
                                         THEN cell.original \cup {cell.replacement} ELSE {})
  <2>1. original \in SUBSET Int
    BY <1>1
  <2> HIDE DEF original
  <2>2. GuessOver(cell, epoch, expiration, current, r) =
          [active |-> TRUE, expiration |-> expiration, epoch |-> epoch, replacement |-> r,
           unknown |-> FALSE, original |-> original]
    BY DEF GuessOver, original
  <2> QED  BY <1>1, <2>1, <2>2 DEF Cell, Guess, Ripe
<1> DEFINE over == GuessOver(cell, epoch, expiration, current, cell.replacement)
<1>3. over \in Guess /\ over.expiration = expiration
  BY <1>1, <1>2
<1>4. UnknownOver(cell, epoch, expiration, current) = [over EXCEPT !.unknown = TRUE]
  BY DEF UnknownOver
<1> HIDE DEF over
<1>5. [over EXCEPT !.unknown = TRUE] \in Cell(late, top)
  BY <1>1, <1>3 DEF Cell, Guess, Ripe
<1> QED  BY <1>2, <1>4, <1>5

(* An insertion and an erasure leave a row of cells.                       *)
LEMMA InsertCharIs ==
  ASSUME NEW w \in Dimension, NEW h \in Dimension, NEW fb \in Screens(w, h),
         NEW late \in Nat, NEW top \in Nat, NEW cells \in CellRow(w, late, top),
         NEW row \in Below(h), NEW col \in Below(w), NEW ch \in Int,
         NEW epoch \in Nat, NEW expiration \in After(late, top)
  PROVE  InsertChar(cells, fb, row, col, ch, epoch, expiration) \in CellRow(w, late, top)
<1> DEFINE Made(i) ==
             IF i = col THEN GuessOver(cells[i], epoch, expiration, CharAt(fb, row, i), ch)
             ELSE IF i < col \/ predict_overwrite THEN cells[i]
             ELSE IF i = Width(fb) - 1 \/ (cells[i - 1].active /\ cells[i - 1].unknown)
             THEN UnknownOver(cells[i], epoch, expiration, CharAt(fb, row, i))
             ELSE GuessOver(cells[i], epoch, expiration, CharAt(fb, row, i),
                            IF cells[i - 1].active THEN cells[i - 1].replacement
                            ELSE CharAt(fb, row, i - 1))
<1>1. /\ DOMAIN cells = Below(w) /\ \A i \in Below(w) : cells[i] \in Cell(late, top)
      /\ \A i \in Below(w) : cells[i].replacement \in Int
      /\ \A i \in Below(w) : CharAt(fb, row, i) \in Int
  BY ScreenSizes DEF CellRow, Cell, Guess
<1>2. ASSUME NEW i \in Below(w)
      PROVE  Made(i) \in Cell(late, top)
  <2>1. CASE i = col
    BY <1>1, <2>1, GuessedOver
  <2>2. CASE i # col /\ (i < col \/ predict_overwrite)
    BY <1>1, <2>2
  <2>3. CASE i # col /\ ~ (i < col \/ predict_overwrite)
    <3>1. i - 1 \in Below(w)
      BY <2>3 DEF Below, Dimension
    <3> QED  BY <1>1, <2>3, <3>1, GuessedOver
  <2> QED  BY <2>1, <2>2, <2>3
<1>3. InsertChar(cells, fb, row, col, ch, epoch, expiration) = [i \in DOMAIN cells |-> Made(i)]
  BY DEF InsertChar
<1> HIDE DEF Made
<1> QED  BY <1>1, <1>2, <1>3 DEF CellRow

(* A character erased: the rest of the row moves left.                     *)
LEMMA RemoveCharIs ==
  ASSUME NEW w \in Dimension, NEW h \in Dimension, NEW fb \in Screens(w, h),
         NEW late \in Nat, NEW top \in Nat, NEW cells \in CellRow(w, late, top),
         NEW row \in Below(h), NEW from \in Below(w),
         NEW epoch \in Nat, NEW expiration \in After(late, top)
  PROVE  RemoveChar(cells, fb, row, from, epoch, expiration) \in CellRow(w, late, top)
<1> DEFINE Hidden(i) == i + 2 >= Width(fb) \/ (cells[i + 1].active /\ cells[i + 1].unknown)
           Shifted(i) == IF cells[i + 1].active THEN cells[i + 1].replacement
                         ELSE CharAt(fb, row, i + 1)
           Unchanged(i) ==
             /\ cells[i].active
             /\ IF Hidden(i) THEN cells[i].unknown
                ELSE ~ cells[i].unknown /\ cells[i].replacement = Shifted(i)
           Made(i) ==
             IF i < from \/ Unchanged(i) THEN cells[i]
             ELSE IF Hidden(i)
             THEN UnknownOver(cells[i], epoch, expiration, CharAt(fb, row, i))
             ELSE GuessOver(cells[i], epoch, expiration, CharAt(fb, row, i), Shifted(i))
<1>1. /\ DOMAIN cells = Below(w) /\ \A i \in Below(w) : cells[i] \in Cell(late, top)
      /\ \A i \in Below(w) : cells[i].replacement \in Int
      /\ \A i \in Below(w) : CharAt(fb, row, i) \in Int
  BY ScreenSizes DEF CellRow, Cell, Guess
<1>2. ASSUME NEW i \in Below(w)
      PROVE  Made(i) \in Cell(late, top)
  <2>1. CASE ~ Hidden(i)
    <3>1. i + 1 \in Below(w)
      BY <2>1, ScreenSizes DEF Below, Dimension
    <3>2. Shifted(i) \in Int
      BY <1>1, <3>1
    <3> HIDE DEF Shifted, Hidden, Unchanged
    <3>3. GuessOver(cells[i], epoch, expiration, CharAt(fb, row, i), Shifted(i)) \in Cell(late, top)
      BY <1>1, <3>2, GuessedOver
    <3> QED  BY <1>1, <2>1, <3>3
  <2>2. CASE Hidden(i)
    <3> HIDE DEF Hidden, Unchanged
    <3>1. UnknownOver(cells[i], epoch, expiration, CharAt(fb, row, i)) \in Cell(late, top)
      BY <1>1, GuessedOver, 0 \in Int
    <3> QED  BY <1>1, <2>2, <3>1
  <2> QED  BY <2>1, <2>2
<1>3. RemoveChar(cells, fb, row, from, epoch, expiration) = [i \in DOMAIN cells |-> Made(i)]
  BY DEF RemoveChar
<1> HIDE DEF Made
<1> QED  BY <1>1, <1>2, <1>3 DEF CellRow

(***************************************************************************)
(* Predicting.                                                             *)
(***************************************************************************)
LEMMA ReturnIs ==
  ASSUME NEW w \in Dimension, NEW h \in Dimension, NEW fb \in Screens(w, h),
         NEW late \in Nat, NEW top \in Nat, NEW o, NEW e0 \in Guessing(w, h, late, top, o),
         Dated(o, late, top)
  PROVE  NewlineCarriageReturn(e0, fb) \in Placed(w, h, late, top, o)
<1> DEFINE e == InitCursor(e0, fb)
           row == Cursor(e).row
           start == [e.cursors[Len(e.cursors)] EXCEPT !.col = 0]
           home == [e EXCEPT !.cursors[Len(e.cursors)] = start]
           made == WithRow(home, row, w)
           cells == GuessedCells(made, row)
           blank == [col \in DOMAIN cells |->
                       [cells[col] EXCEPT !.active = TRUE, !.epoch = e.prediction_epoch,
                                          !.expiration = Expires(e), !.replacement = Blank]]
           below == [home.cursors[Len(home.cursors)] EXCEPT !.row = @ + 1]
           lower == [home EXCEPT !.cursors[Len(home.cursors)] = below]
<1>1. e \in Placed(w, h, late, top, o)
  BY InitCursorIs
<1>2. NewlineCarriageReturn(e0, fb) =
        IF row = h - 1 THEN WithCells(made, row, blank) ELSE lower
  <2>1. Width(fb) = w /\ Height(fb) = h
    BY ScreenSizes
  <2>2. home = [e EXCEPT !.cursors[Len(e.cursors)].col = 0]
    OBVIOUS
  <2>3. Len(home.cursors) = Len(e.cursors)
    <3>1. e.cursors \in Seq(Place(w, h, late, top))
      BY <1>1, CursorIs DEF Places
    <3>2. home.cursors = [e.cursors EXCEPT ![Len(e.cursors)] = start]
      BY <1>1 DEF Placed, Guessing, Engine
    <3> HIDE DEF start, home, e
    <3> QED  BY <3>1, <3>2
  <2>4. lower = [home EXCEPT !.cursors[Len(e.cursors)].row = @ + 1]
    BY <2>3
  <2> QED  BY <2>1, <2>2, <2>4 DEF NewlineCarriageReturn
<1> HIDE DEF e
<1>3. /\ Expires(e) \in After(late, top) /\ e.prediction_epoch \in Nat
      /\ Cursor(e) \in Place(w, h, late, top)
      /\ Cursor(e) = e.cursors[Len(e.cursors)]
  <2>1. Expires(e) \in After(late, top)
    BY <1>1, Expiring DEF Placed
  <2>2. e.prediction_epoch \in Nat
    BY <1>1 DEF Placed, Guessing, Engine
  <2> QED  BY <1>1, <2>1, <2>2, CursorIs
<1>4. row \in Below(h) /\ start \in Place(w, h, late, top) /\ start.row = row
  <2>1. 0 \in Below(w)
    BY DEF Below, Dimension
  <2>2. start = [Cursor(e) EXCEPT !.col = 0]
    BY <1>3
  <2> HIDE DEF start
  <2> QED  BY <1>3, <2>1, <2>2 DEF Place
<1> HIDE DEF row, start
<1>5. home \in Placed(w, h, late, top, o) /\ home.cursors = [e.cursors EXCEPT ![Len(e.cursors)] = start]
  <2>1. home \in Placed(w, h, late, top, o)
    BY <1>1, <1>4, CursorPut
  <2> QED  BY <1>1, <2>1 DEF Placed, Guessing, Engine
<1>6. Cursor(home) = start /\ Cursor(home) = home.cursors[Len(home.cursors)]
  <2>1. e.cursors \in Seq(Place(w, h, late, top)) /\ Len(e.cursors) \in 1..Len(e.cursors)
    BY <1>1, CursorIs DEF Places
  <2> HIDE DEF home
  <2>2. Cursor(home) = home.cursors[Len(home.cursors)]
    BY <1>5, CursorIs
  <2> QED  BY <1>4, <1>5, <2>1, <2>2
<1> HIDE DEF home
<1>7. ASSUME row = h - 1
      PROVE  WithCells(made, row, blank) \in Placed(w, h, late, top, o)
  <2>1. /\ made \in Guessing(w, h, late, top, o) /\ made.cursors = home.cursors
        /\ RowIndex(made, row) # {} /\ home.cursors # <<>>
    BY <1>4, <1>5, WithRowIs DEF Placed
  <2> HIDE DEF made
  <2>2. cells \in CellRow(w, late, top)
    BY <2>1, GuessedCellsAre
  <2> HIDE DEF cells
  <2>3. blank \in CellRow(w, late, top)
    <3>1. DOMAIN cells = Below(w) /\ \A col \in Below(w) : cells[col] \in Cell(late, top)
      BY <2>2 DEF CellRow
    <3>2. ASSUME NEW col \in Below(w)
          PROVE  [cells[col] EXCEPT !.active = TRUE, !.epoch = e.prediction_epoch,
                                    !.expiration = Expires(e), !.replacement = Blank]
                   \in Cell(late, top)
      <4> DEFINE cell == cells[col]
                 expiration == Expires(e)
                 epoch == e.prediction_epoch
                 b == Blank
      <4>1. cell \in Guess /\ epoch \in Nat /\ b \in Int
        BY <1>3, <3>1 DEF Cell, Blank
      <4>2. expiration \in Int /\ expiration <= top
        BY <1>3 DEF After
      <4>3. b = Blank
        OBVIOUS
      <4> HIDE DEF cell, expiration, epoch, b
      <4>4. [cell EXCEPT !.active = TRUE, !.epoch = epoch, !.expiration = expiration,
                         !.replacement = b] \in Cell(late, top)
        BY <4>1, <4>2, <4>3 DEF Cell, Guess, Ripe
      <4> QED  BY <4>4 DEF cell, expiration, epoch, b
    <3> QED  BY <3>1, <3>2 DEF CellRow
  <2> HIDE DEF blank
  <2> QED  BY <2>1, <2>3, WithCellsIs DEF Placed
<1>8. ASSUME row # h - 1
      PROVE  lower \in Placed(w, h, late, top, o)
  <2>1. below \in Place(w, h, late, top)
    <3> DEFINE next == row + 1
    <3>1. next \in Below(h)
      BY <1>4, <1>8 DEF Below, Dimension
    <3>2. below = [start EXCEPT !.row = next]
      BY <1>4, <1>6
    <3> HIDE DEF below, next
    <3> QED  BY <1>4, <3>1, <3>2 DEF Place
  <2> HIDE DEF below
  <2> QED  BY <1>5, <2>1, CursorPut
<1> QED  BY <1>2, <1>7, <1>8

(* A character, in the last column of a row or before it.                  *)
LEMMA PlainIs ==
  ASSUME NEW w \in Dimension, NEW h \in Dimension, NEW fb \in Screens(w, h),
         NEW late \in Nat, NEW top \in Nat, NEW o, NEW e0 \in Placed(w, h, late, top, o),
         Dated(o, late, top), NEW ch \in Int
  PROVE  PredictPlain(e0, ch, fb) \in Placed(w, h, late, top, o)
<1> DEFINE row == Cursor(e0).row
           col == Cursor(e0).col
           last == col = w - 1
           made == WithRow(e0, row, w)
           e == IF last THEN BecomeTentative(made) ELSE made
           cells == InsertChar(GuessedCells(e, row), fb, row, col, ch,
                               e.prediction_epoch, Expires(e))
           put == WithCells(e, row, cells)
           next == IF last THEN col ELSE col + 1
           moved == MoveCursor(put, row, next)
<1>1. row \in Below(h) /\ col \in Below(w)
  BY CursorIs DEF Place
<1>2. PredictPlain(e0, ch, fb) = IF last THEN NewlineCarriageReturn(BecomeTentative(moved), fb)
                                 ELSE moved
  <2>1. Width(fb) = w /\ InScreen(fb, row, col)
    BY <1>1, ScreenSizes
  <2> QED  BY <2>1 DEF PredictPlain
<1> HIDE DEF row, col
<1>3. next \in Below(w)
  BY <1>1 DEF Below, Dimension
<1> HIDE DEF next, last
<1>4. /\ made \in Guessing(w, h, late, top, o) /\ made.cursors # <<>>
      /\ RowIndex(made, row) # {}
  BY <1>1, WithRowIs DEF Placed
<1> HIDE DEF made
<1>5. e \in Guessing(w, h, late, top, o) /\ e.cursors # <<>> /\ RowIndex(e, row) # {}
  BY <1>4, Tentatively DEF RowIndex
<1> HIDE DEF e
<1>6. e.prediction_epoch \in Nat /\ Expires(e) \in After(late, top)
  <2>1. Expires(e) \in After(late, top)
    BY <1>5, Expiring
  <2> QED  BY <1>5, <2>1 DEF Guessing, Engine
<1>7. cells \in CellRow(w, late, top)
  BY <1>1, <1>5, <1>6, GuessedCellsAre, InsertCharIs
<1> HIDE DEF cells
<1>8. put \in Placed(w, h, late, top, o)
  BY <1>5, <1>7, WithCellsIs DEF Placed
<1> HIDE DEF put
<1>9. moved \in Placed(w, h, late, top, o)
  BY <1>1, <1>3, <1>8, MoveCursorIs
<1> HIDE DEF moved
<1>10. NewlineCarriageReturn(BecomeTentative(moved), fb) \in Placed(w, h, late, top, o)
  BY <1>9, Tentatively, ReturnIs DEF Placed
<1> QED  BY <1>2, <1>9, <1>10

(* The cell before the cursor erased.                                      *)
LEMMA BackspaceIs ==
  ASSUME NEW w \in Dimension, NEW h \in Dimension, NEW fb \in Screens(w, h),
         NEW late \in Nat, NEW top \in Nat, NEW o, NEW e0 \in Placed(w, h, late, top, o),
         Dated(o, late, top)
  PROVE  PredictBackspace(e0, fb) \in Placed(w, h, late, top, o)
<1> DEFINE row == Cursor(e0).row
           col == Cursor(e0).col - 1
           made == WithRow(e0, row, w)
           e == MoveCursor(made, row, col)
           cells == GuessedCells(e, row)
           guess == GuessOver(cells[col], e.prediction_epoch, Expires(e),
                              CharAt(fb, row, col), Blank)
           erased == [cells EXCEPT ![col] = guess]
           removed == RemoveChar(cells, fb, row, col, e.prediction_epoch, Expires(e))
           result == IF predict_overwrite THEN erased ELSE removed
<1>1. row \in Below(h) /\ Cursor(e0).col \in Below(w)
  BY CursorIs DEF Place
<1>2. PredictBackspace(e0, fb) = IF col < 0 THEN e0 ELSE WithCells(e, row, result)
  <2>1. Width(fb) = w /\ row \in 0..Height(fb) - 1
    BY <1>1, ScreenSizes DEF Below
  <2> QED  BY <2>1 DEF PredictBackspace
<1>3. ASSUME ~ col < 0
      PROVE  WithCells(e, row, result) \in Placed(w, h, late, top, o)
  <2>1. col \in Below(w)
    BY <1>1, <1>3 DEF Below, Dimension
  <2> HIDE DEF row, col
  <2>2. made \in Placed(w, h, late, top, o) /\ RowIndex(made, row) # {}
    BY <1>1, WithRowIs DEF Placed
  <2> HIDE DEF made
  <2>3. e \in Placed(w, h, late, top, o) /\ RowIndex(e, row) # {}
    BY <1>1, <2>1, <2>2, MoveCursorIs DEF RowIndex
  <2> HIDE DEF e
  <2>4. Expires(e) \in After(late, top)
    BY <2>3, Expiring DEF Placed
  <2>5. e.prediction_epoch \in Nat
    BY <2>3 DEF Placed, Guessing, Engine
  <2>6. cells \in CellRow(w, late, top)
    BY <2>3, GuessedCellsAre DEF Placed
  <2> HIDE DEF cells
  <2>7. removed \in CellRow(w, late, top)
    BY <1>1, <2>1, <2>4, <2>5, <2>6, RemoveCharIs
  <2>8. erased \in CellRow(w, late, top)
    <3>1. cells[col] \in Cell(late, top) /\ CharAt(fb, row, col) \in Int /\ Blank \in Int
      BY <1>1, <2>1, <2>6, ScreenSizes DEF CellRow, Blank
    <3>2. guess \in Cell(late, top)
      BY <2>4, <2>5, <3>1, GuessedOver
    <3> HIDE DEF guess
    <3> QED  BY <2>1, <2>6, <3>2 DEF CellRow
  <2> HIDE DEF erased, removed
  <2> QED  BY <2>3, <2>7, <2>8, WithCellsIs DEF Placed
<1> QED  BY <1>1, <1>2, <1>3

(* A run of columns that ends before column `to` starts at one up to it.   *)
LEMMA RunStartIs ==
  ASSUME NEW to \in Nat, NEW columns, -1 \notin columns
  PROVE  RunStart(to, columns) \in 0..to
<1> DEFINE S == {c \in 0..to : c..to - 1 \subseteq columns}
<1>1. to \in S /\ S \in SUBSET Nat
  OBVIOUS
<1>2. \E c \in S : \A b \in S : c <= b
  <2> HIDE DEF S
  <2> QED  BY <1>1, LeastNumber
<1>3. PICK c \in S : \A b \in S : c <= b
  BY <1>2
<1>4. c - 1 \notin columns
  <2> SUFFICES ASSUME c - 1 \in columns PROVE FALSE
    OBVIOUS
  <2>1. c - 1 \in 0..to
    <3>1. c # 0
      OBVIOUS
    <3> QED  BY <3>1
  <2>2. \A i \in c - 1..to - 1 : i = c - 1 \/ i \in c..to - 1
    BY <2>1
  <2>3. c - 1 \in S
    BY <1>3, <2>1, <2>2
  <2> QED  BY <1>3, <2>1, <2>3
<1> QED  BY <1>3, <1>4 DEF RunStart

Items(context, S) == [context : {context}, item : S]

(* The steps of a fold with a context.                                     *)
LEMMA WithIs ==
  ASSUME NEW context, NEW S, NEW seq \in Seq(S)
  PROVE  /\ With(context, seq) \in Seq(Items(context, S))
         /\ Len(With(context, seq)) = Len(seq)
         /\ \A i \in 1..Len(seq) : With(context, seq)[i].item = seq[i]
<1> DEFINE n == Len(seq)
           steps == [i \in 1..n |-> [context |-> context, item |-> seq[i]]]
<1>1. n \in Nat /\ DOMAIN seq = 1..n /\ \A i \in 1..n : seq[i] \in S
  OBVIOUS
<1>2. With(context, seq) = steps
  BY <1>1 DEF With
<1>3. \A i \in 1..n : [context |-> context, item |-> seq[i]] \in Items(context, S)
  BY <1>1 DEF Items
<1>4. steps \in Seq(Items(context, S)) /\ Len(steps) = n
  BY <1>1, <1>3
<1> QED  BY <1>2, <1>4

Erasing == INSTANCE FoldLemmas WITH Op <- EraseAt

(* The fold of the erasures is the one the lemmas are about, and so are    *)
(* the folds below.                                                        *)
LEMMA EraseFolds == \A base, seq : Erasing!Folded(base, seq) = InTurn(EraseAt, base, seq)
BY Zenon DEF InTurn, Erasing!InTurn, Erasing!Folded

(* A word erased, a cell at a time.                                        *)
LEMMA WordEraseIs ==
  ASSUME NEW w \in Dimension, NEW h \in Dimension, NEW fb \in Screens(w, h),
         NEW late \in Nat, NEW top \in Nat, NEW o, NEW e0 \in Guessing(w, h, late, top, o),
         Dated(o, late, top)
  PROVE  PredictWordErase(e0, fb) \in Placed(w, h, late, top, o)
<1> DEFINE e == InitCursor(e0, fb)
           row == Cursor(e).row
           col == Cursor(e).col
           Known(c) == PredictedCell(e, fb, row, c)
           blanks == {c \in 0..Width(fb) : Known(c) = Blank}
           word == {c \in 0..Width(fb) : Known(c) \notin {Blank, None}}
           start == RunStart(RunStart(col, blanks), word)
           n == col - start
           count == [i \in 1..n |-> i]
           V == Placed(w, h, late, top, o)
           steps == With(fb, count)
<1>1. PredictWordErase(e0, fb) = InTurn(EraseAt, e, steps)
  BY Zenon DEF PredictWordErase
<1>2. e \in V
  BY InitCursorIs
<1> HIDE DEF e
<1>3. col \in Nat
  BY <1>2, CursorIs DEF Place, Below
<1> HIDE DEF col, Known
<1>4. n \in Nat
  <2>1. Width(fb) \in Nat
    BY ScreenSizes DEF Dimension
  <2>2. -1 \notin blanks /\ -1 \notin word
    BY <2>1
  <2> HIDE DEF blanks, word
  <2>3. RunStart(col, blanks) \in 0..col
    BY <1>3, <2>2, RunStartIs
  <2>4. start \in 0..RunStart(col, blanks)
    BY <2>2, <2>3, RunStartIs
  <2> HIDE DEF start
  <2> QED  BY <1>3, <2>3, <2>4
<1> HIDE DEF n
<1>5. count \in Seq(Nat)
  BY <1>4
<1> HIDE DEF count
<1>6. steps \in Seq(Items(fb, Nat))
  BY <1>5, WithIs
<1> HIDE DEF steps
<1>7. Erasing!Closed(V, Items(fb, Nat))
  <2>1. ASSUME NEW v \in V, NEW at \in Items(fb, Nat)
        PROVE  EraseAt(v, at) \in V
    <3>1. at.context = fb
      BY DEF Items
    <3> QED  BY <3>1, BackspaceIs DEF EraseAt
  <2> HIDE DEF V
  <2> QED  BY <2>1, Zenon DEF Erasing!Closed
<1> HIDE DEF V
<1>8. Erasing!Folded(e, steps) \in V
  BY <1>2, <1>6, <1>7, Erasing!FoldedType, Zenon
<1> QED  BY <1>1, <1>8, EraseFolds, Zenon DEF V

(* A character printed, or DEL.                                            *)
LEMMA PrintIs ==
  ASSUME NEW w \in Dimension, NEW h \in Dimension, NEW fb \in Screens(w, h),
         NEW late \in Nat, NEW top \in Nat, NEW o, NEW e0 \in Guessing(w, h, late, top, o),
         Dated(o, late, top), NEW ch \in Int
  PROVE  PredictPrint(e0, ch, fb) \in Guessing(w, h, late, top, o)
<1> DEFINE e == InitCursor(e0, fb)
<1>1. e \in Placed(w, h, late, top, o)
  BY InitCursorIs
<1>2. PredictPrint(e0, ch, fb) \in
        {PredictBackspace(e, fb), BecomeTentative(e), PredictPlain(e, ch, fb)}
  BY DEF PredictPrint
<1> HIDE DEF e
<1>3. PredictBackspace(e, fb) \in Guessing(w, h, late, top, o)
  BY <1>1, BackspaceIs DEF Placed
<1>4. PredictPlain(e, ch, fb) \in Guessing(w, h, late, top, o)
  BY <1>1, PlainIs DEF Placed
<1>5. BecomeTentative(e) \in Guessing(w, h, late, top, o)
  BY <1>1, Tentatively DEF Placed
<1> QED  BY <1>2, <1>3, <1>4, <1>5

(* An arrow.                                                               *)
LEMMA ArrowIs ==
  ASSUME NEW w \in Dimension, NEW h \in Dimension, NEW fb \in Screens(w, h),
         NEW late \in Nat, NEW top \in Nat, NEW o, NEW e0 \in Guessing(w, h, late, top, o),
         Dated(o, late, top), NEW by
  PROVE  PredictArrow(e0, by, fb) \in Guessing(w, h, late, top, o)
<1> DEFINE e == InitCursor(e0, fb)
           row == Cursor(e).row
           col == Cursor(e).col + by
<1>1. e \in Placed(w, h, late, top, o)
  BY InitCursorIs
<1>2. PredictArrow(e0, by, fb) = IF col \in Below(w) THEN MoveCursor(e, row, col) ELSE e
  BY ScreenSizes DEF PredictArrow, Below
<1> HIDE DEF e
<1>3. row \in Below(h)
  BY <1>1, CursorIs DEF Place
<1> HIDE DEF row, col
<1>4. col \in Below(w) => MoveCursor(e, row, col) \in Guessing(w, h, late, top, o)
  BY <1>1, <1>3, MoveCursorIs DEF Placed
<1> QED  BY <1>1, <1>2, <1>4 DEF Placed

(* Whatever the parser asks for.                                           *)
LEMMA ActionIs ==
  ASSUME NEW w \in Dimension, NEW h \in Dimension, NEW fb \in Screens(w, h),
         NEW late \in Nat, NEW top \in Nat, NEW o, NEW e \in Guessing(w, h, late, top, o),
         Dated(o, late, top), NEW a \in Aloud \cup Quiet
  PROVE  PredictAction(e, a, fb) \in Guessing(w, h, late, top, o)
<1>1. a.kind = "Print" => a.ch \in Int
  BY DEF Aloud, Quiet, Silent
<1>2. a.kind = "Print" => PredictPrint(e, a.ch, fb) \in Guessing(w, h, late, top, o)
  BY <1>1, PrintIs
<1>3. BecomeTentative(e) \in Guessing(w, h, late, top, o)
  BY Tentatively
<1>4. NewlineCarriageReturn(BecomeTentative(e), fb) \in Guessing(w, h, late, top, o)
  BY <1>3, ReturnIs DEF Placed
<1>5. PredictArrow(e, 1, fb) \in Guessing(w, h, late, top, o)
  BY ArrowIs
<1>6. PredictArrow(e, -1, fb) \in Guessing(w, h, late, top, o)
  BY ArrowIs
<1> QED  BY <1>2, <1>3, <1>4, <1>5, <1>6 DEF PredictAction

Acting == INSTANCE FoldLemmas WITH Op <- ActionAt

(* The fold over the actions of a byte.                                    *)
LEMMA ActionFolds == \A base, seq : Acting!Folded(base, seq) = InTurn(ActionAt, base, seq)
BY Zenon DEF InTurn, Acting!InTurn, Acting!Folded

(* A byte.                                                                 *)
LEMMA PredictIs ==
  ASSUME NEW w \in Dimension, NEW h \in Dimension, NEW fb \in Screens(w, h),
         NEW late \in Nat, NEW top \in Nat, NEW e \in Engine(w, h, late, top),
         Dated(e, late, top), NEW byte \in Byte
  PROVE  Predict(e, byte, fb) \in Guessing(w, h, late, top, e)
<1> DEFINE read == IF e.last_byte = ESC /\ byte = SS3 THEN 91 ELSE byte
           parsed == ParseByte(e.parser, read)
           base == [e EXCEPT !.last_byte = read, !.parser = parsed.parser]
           steps == With(fb, parsed.actions)
           fresh == [e EXCEPT !.parser = NewParser, !.last_byte = DEL]
           V == Guessing(w, h, late, top, e)
           S == Items(fb, Aloud \cup Quiet)
<1>1. Predict(e, byte, fb) = IF e.last_byte = ESC /\ byte = DEL THEN PredictWordErase(fresh, fb)
                             ELSE InTurn(ActionAt, base, steps)
  BY Zenon DEF Predict
<1>2. read \in Int /\ e.parser \in Parsers
  BY DEF Byte, Engine
<1> HIDE DEF read
<1>3. parsed \in Parsings
  BY <1>2, ParsesByte
<1> HIDE DEF parsed
<1>4. parsed.parser \in Parsers /\ parsed.actions \in Seq(Aloud \cup Quiet)
  BY <1>3 DEF Parsings, Actions
<1>5. base \in V
  BY <1>2, <1>4 DEF Engine, Guessing, Kin
<1>6. fresh \in V
  <2>1. NewParser \in Parsers
    BY DEF NewParser, Parsers, States, Held, Text
  <2>2. DEL \in Int
    BY DEF DEL
  <2> QED  BY <2>1, <2>2 DEF Engine, Guessing, Kin
<1>7. steps \in Seq(S)
  BY <1>4, WithIs
<1>8. Acting!Closed(V, S)
  <2>1. ASSUME NEW v \in V, NEW at \in S
        PROVE  ActionAt(v, at) \in V
    <3>1. at.context = fb /\ at.item \in Aloud \cup Quiet
      BY DEF Items
    <3> HIDE DEF S
    <3> QED  BY <3>1, ActionIs DEF ActionAt
  <2> HIDE DEF V, S
  <2> QED  BY <2>1, Zenon DEF Acting!Closed
<1>9. PredictWordErase(fresh, fb) \in V
  <2> HIDE DEF fresh
  <2> QED  BY <1>6, WordEraseIs DEF Placed
<1> HIDE DEF V, S, base, steps, fresh
<1>10. Acting!Folded(base, steps) \in V
  BY <1>5, <1>7, <1>8, Acting!FoldedType, Zenon
<1>11. InTurn(ActionAt, base, steps) \in V
  BY <1>10, ActionFolds, Zenon
<1> QED  BY <1>1, <1>9, <1>11, Zenon DEF V

(***************************************************************************)
(* Guessing again.                                                         *)
(***************************************************************************)
(* The keystrokes for frames past `late` are in order, as they all were.   *)
LEMMA KeystrokesFrom ==
  ASSUME NEW late0, NEW top \in Nat, NEW keys \in Keystrokes(late0, top), InOrder(keys),
         NEW late \in Nat, NEW frame \in Nat, late < frame
  PROVE  LET left == Only(keys, {k \in Range(keys) : k.frame >= frame})
         IN  left \in Keystrokes(late, top) /\ InOrder(left)
<1> DEFINE K == {k \in Range(keys) : k.frame >= frame}
           left == Only(keys, K)
           S == Keystroke(late0, top)
<1>1. keys \in Seq(S)
  BY DEF Keystrokes
<1>2. left \in Seq(S \cap K)
  <2> HIDE DEF K, S
  <2> QED  BY <1>1, OnlyType
<1>3. S \cap K \subseteq Keystroke(late, top)
  BY DEF Keystroke, After
<1>4. left \in Keystrokes(late, top)
  <2> HIDE DEF left, K, S
  <2>1. left \in Seq(Keystroke(late, top))
    BY <1>2, <1>3, Wider
  <2> QED  BY <2>1 DEF Keystrokes
<1>5. PICK g \in [1..Len(left) -> 1..Len(keys)] :
        /\ \A i \in 1..Len(left) : left[i] = keys[g[i]]
        /\ \A i, j \in 1..Len(left) : i < j => g[i] < g[j]
  <2> HIDE DEF K, S
  <2> QED  BY <1>1, OnlyEmbeds
<1> HIDE DEF left, K
<1>6. InOrder(left)
  <2> SUFFICES ASSUME NEW i \in 1..Len(left), NEW j \in 1..Len(left), i <= j
               PROVE  left[i].frame <= left[j].frame
    BY DEF InOrder
  <2>1. g[i] \in 1..Len(keys) /\ g[j] \in 1..Len(keys) /\ g[i] <= g[j]
    <3>1. Len(left) \in Nat /\ Len(keys) \in Nat
      BY <1>1, <1>2
    <3>2. i < j \/ i = j
      BY <3>1
    <3> QED  BY <1>5, <3>1, <3>2
  <2> QED  BY <1>5, <2>1 DEF InOrder
<1> QED  BY <1>4, <1>6 DEF left, K

(* What judging leaves alone too.                                          *)
Framed(e, o) ==
  /\ e.local_frame_acked = o.local_frame_acked
  /\ e.local_frame_late_acked = o.local_frame_late_acked
  /\ e.last_height = o.last_height /\ e.last_width = o.last_width

Replaying == INSTANCE FoldLemmas WITH Op <- Replay

(* The fold over the keystrokes in flight.                                 *)
LEMMA ReplayFolds == \A base, seq : Replaying!Folded(base, seq) = InTurn(Replay, base, seq)
BY Zenon DEF InTurn, Replaying!InTurn, Replaying!Folded

(* The keystrokes the server has not received make an engine for frames it *)
(* may guess for, whatever the guesses were.                               *)
LEMMA RebuildIs ==
  ASSUME NEW w \in Dimension, NEW h \in Dimension, NEW fb \in Screens(w, h),
         NEW late \in Nat, NEW top \in Nat, NEW late0,
         NEW e \in Engine(w, h, late0, top), e.in_flight \in Keystrokes(late, top),
         e.local_frame_acked \in Nat, late <= e.local_frame_acked
  PROVE  /\ Rebuild(e, fb) \in Engine(w, h, late, top)
         /\ Framed(Rebuild(e, fb), e)
         /\ Rebuild(e, fb).local_frame_sent = e.local_frame_sent
<1> DEFINE left == InFlightFrom(e, e.local_frame_acked + 1)
           base == [e EXCEPT !.overlays = <<>>, !.cursors = <<>>, !.parser = NewParser]
           steps == With(fb, left)
           again == InTurn(Replay, base, steps)
           V == {v \in Engine(w, h, late, top) : Framed(v, e)}
           S == Items(fb, Keystroke(late, top))
<1>1. InOrder(e.in_flight)
  BY DEF Engine
<1>2. left \in Keystrokes(late, top) /\ InOrder(left)
  <2>1. e.local_frame_acked + 1 \in Nat /\ late < e.local_frame_acked + 1
    OBVIOUS
  <2> QED  BY <1>1, <2>1, KeystrokesFrom DEF InFlightFrom
<1>3. Rebuild(e, fb) = [again EXCEPT !.in_flight = left, !.local_frame_sent = e.local_frame_sent,
                                     !.prediction_epoch = e.prediction_epoch,
                                     !.parser = e.parser, !.last_byte = e.last_byte]
  BY Zenon DEF Rebuild
<1> HIDE DEF left
<1>4. base \in V
  <2>1. NewParser \in Parsers
    BY DEF NewParser, Parsers, States, Held, Text
  <2>2. /\ <<>> \in Rows(w, h, late, top) /\ OneToARow(<<>>)
        /\ <<>> \in Places(w, h, late, top)
    BY DEF Rows, OneToARow, Places
  <2> QED  BY <2>1, <2>2 DEF Engine, Framed
<1>5. steps \in Seq(S)
  BY <1>2, WithIs DEF Keystrokes
<1>6. Replaying!Closed(V, S)
  <2>1. ASSUME NEW v \in V, NEW at \in S
        PROVE  Replay(v, at) \in V
    <3> DEFINE k == at.item
               sent == k.frame - 1
               dated == [v EXCEPT !.local_frame_sent = sent, !.prediction_epoch = k.epoch]
    <3>1. at.context = fb /\ k \in Keystroke(late, top)
      BY DEF Items
    <3>2. Replay(v, at) = Predict(dated, k.byte, fb)
      BY <3>1 DEF Replay
    <3> HIDE DEF k, S
    <3>3. k.frame \in After(late, top) /\ k.epoch \in Nat /\ k.byte \in Byte
      BY <3>1 DEF Keystroke
    <3>4. sent \in Int /\ sent + 1 = k.frame
      BY <3>3 DEF After
    <3> HIDE DEF sent
    <3>5. dated \in Engine(w, h, late, top) /\ Framed(dated, v) /\ dated.local_frame_sent = sent
      BY <3>3, <3>4 DEF Engine, Framed
    <3> HIDE DEF dated
    <3>6. Dated(dated, late, top)
      BY <3>3, <3>4, <3>5 DEF Dated
    <3>7. Predict(dated, k.byte, fb) \in Guessing(w, h, late, top, dated)
      BY <3>3, <3>5, <3>6, PredictIs
    <3> QED  BY <3>2, <3>5, <3>7 DEF Guessing, Kin, Framed
  <2> HIDE DEF V, S
  <2> QED  BY <2>1, Zenon DEF Replaying!Closed
<1> HIDE DEF V, S, base, steps
<1>7. Replaying!Folded(base, steps) \in V
  BY <1>4, <1>5, <1>6, Replaying!FoldedType, Zenon
<1>8. again \in V
  BY <1>7, ReplayFolds, Zenon
<1> HIDE DEF again
<1> QED  BY <1>2, <1>3, <1>8 DEF V, Engine, Framed

(***************************************************************************)
(* Judging.                                                                *)
(***************************************************************************)
(* An engine that is judged, and the verdict so far.                       *)
Trial(w, h, late0, top, o) ==
  {acc \in [e : Engine(w, h, late0, top), stop : Int] :
     /\ Kin(acc.e, o) /\ acc.e.cursors = o.cursors
     /\ Len(acc.e.overlays) = Len(o.overlays)}

RipeAt(e, i, col, late) == Ripe(e.overlays[i].cells[col], late)

(* A guess that is not of an erasure is pending until its frame is echoed. *)
LEMMA Pends ==
  ASSUME NEW w \in Dimension, NEW h \in Dimension, NEW fb \in Screens(w, h),
         NEW row \in Below(h), NEW col \in Below(w), NEW cell \in Guess, NEW late \in Nat,
         CellValidity(cell, fb, row, col, late) \notin {"Incorrect", "Correct", "CorrectNoCredit"}
  PROVE  Ripe(cell, late)
<1>1. InScreen(fb, row, col)
  BY ScreenSizes
<1>2. cell.expiration \in Int
  BY DEF Guess
<1> QED  BY <1>1, <1>2 DEF CellValidity, Ripe

(* One cell: it stays as it was or is retired, and unless it is wrong it   *)
(* is no guess whose echo is known, but for an erasure.                    *)
LEMMA JudgeCellIs ==
  ASSUME NEW w \in Dimension, NEW h \in Dimension, NEW fb \in Screens(w, h),
         NEW late0, NEW top, NEW o, NEW acc \in Trial(w, h, late0, top, o), NEW at,
         at.context.fb = fb, at.context.row \in 1..Len(o.overlays), at.item \in Below(w),
         NEW late \in Nat, late = o.local_frame_late_acked
  PROVE  LET judged == JudgeCell(acc, at)
         IN  /\ judged \in Trial(w, h, late0, top, o)
             /\ judged.stop = NotWrong =>
                  /\ acc.stop = NotWrong
                  /\ RipeAt(judged.e, at.context.row, at.item, late)
             /\ \A i \in 1..Len(o.overlays), col \in Below(w) :
                  RipeAt(acc.e, i, col, late) => RipeAt(judged.e, i, col, late)
<1> DEFINE i == at.context.row
           col == at.item
           judged == JudgeCell(acc, at)
           row == acc.e.overlays[i]
           cell == row.cells[col]
           verdict == CellValidity(cell, fb, row.row_num, col, late)
           cells == [row.cells EXCEPT ![col] = NoCell]
           rest == [row EXCEPT !.cells = cells]
           rows == [acc.e.overlays EXCEPT ![i] = rest]
           retired == [acc.e EXCEPT !.overlays = rows]
           epoch == IF cell.epoch > acc.e.confirmed_epoch THEN cell.epoch ELSE acc.e.confirmed_epoch
           credited == [retired EXCEPT !.confirmed_epoch = epoch]
           astray == IF Tentative(cell, acc.e.confirmed_epoch) THEN cell.epoch ELSE WrongConfirmed
<1>1. /\ acc.e \in Engine(w, h, late0, top) /\ acc.stop \in Int
      /\ acc.e.local_frame_late_acked = late /\ Len(acc.e.overlays) = Len(o.overlays)
  BY DEF Trial, Kin
<1>2. /\ acc.e.overlays \in Seq(Row(w, h, late0, top)) /\ OneToARow(acc.e.overlays)
      /\ acc.e.confirmed_epoch \in Nat
  BY <1>1 DEF Engine, Rows
<1>3. i \in 1..Len(acc.e.overlays) /\ col \in Below(w) /\ row \in Row(w, h, late0, top)
  BY <1>1, <1>2
<1>4. judged = IF acc.stop # NotWrong THEN acc
               ELSE CASE verdict = "Incorrect"       -> [acc EXCEPT !.stop = astray]
                      [] verdict = "Correct"         -> [acc EXCEPT !.e = credited]
                      [] verdict = "CorrectNoCredit" -> [acc EXCEPT !.e = retired]
                      [] OTHER                       -> acc
  <2>1. at.context.fb = fb /\ acc.e.local_frame_late_acked = late
    BY <1>1
  <2>2. [acc.e EXCEPT !.overlays[i].cells[col] = NoCell] = retired
    OBVIOUS
  <2>3. retired.confirmed_epoch = acc.e.confirmed_epoch
    BY <1>1 DEF Engine
  <2> QED  BY <2>1, <2>2, <2>3 DEF JudgeCell
<1> HIDE DEF i, col, judged, row
<1>5. cell \in Guess /\ cell.epoch \in Nat /\ row.row_num \in Below(h)
  BY <1>3 DEF Row, CellRow, Cell, Guess
<1>6. astray \in Int /\ astray # NotWrong /\ epoch \in Nat
  BY <1>2, <1>5 DEF WrongConfirmed, NotWrong
<1>7. verdict \notin {"Incorrect", "Correct", "CorrectNoCredit"} => Ripe(cell, late)
  <2> HIDE DEF cell
  <2> QED  BY <1>3, <1>5, Pends
<1> HIDE DEF cell, verdict, astray, epoch
<1>8. cells \in CellRow(w, late0, top)
  BY <1>3, Uncovered DEF Row, CellRow
<1>9. cells[col] = NoCell /\ \A c \in Below(w) : c # col => cells[c] = row.cells[c]
  BY <1>3 DEF Row, CellRow
<1> HIDE DEF cells
<1>10. rest \in Row(w, h, late0, top) /\ rest.row_num = row.row_num /\ rest.cells = cells
  BY <1>3, <1>8 DEF Row
<1> HIDE DEF rest
<1>11. /\ rows \in Seq(Row(w, h, late0, top)) /\ Len(rows) = Len(acc.e.overlays)
       /\ rows[i] = rest /\ \A k \in 1..Len(acc.e.overlays) : k # i => rows[k] = acc.e.overlays[k]
  BY <1>2, <1>3, <1>10
<1> HIDE DEF rows
<1>12. OneToARow(rows)
  BY <1>2, <1>3, <1>10, <1>11 DEF OneToARow, row
<1>13. /\ retired \in Engine(w, h, late0, top) /\ Kin(retired, acc.e)
       /\ retired.cursors = acc.e.cursors /\ retired.overlays = rows
  BY <1>1, <1>11, <1>12 DEF Engine, Rows, Kin
<1> HIDE DEF retired
<1>14. /\ credited \in Engine(w, h, late0, top) /\ Kin(credited, acc.e)
       /\ credited.cursors = acc.e.cursors /\ credited.overlays = rows
  BY <1>6, <1>13 DEF Engine, Kin
<1> HIDE DEF credited
<1>15. Ripe(NoCell, late)
  BY DEF Ripe, NoCell
<1>16. ASSUME NEW e, e.overlays = rows
       PROVE  /\ RipeAt(e, i, col, late)
              /\ \A k \in 1..Len(o.overlays), c \in Below(w) :
                   RipeAt(acc.e, k, c, late) => RipeAt(e, k, c, late)
  <2>1. RipeAt(e, i, col, late)
    BY <1>9, <1>10, <1>11, <1>15, <1>16 DEF RipeAt
  <2>2. ASSUME NEW k \in 1..Len(o.overlays), NEW c \in Below(w), RipeAt(acc.e, k, c, late)
        PROVE  RipeAt(e, k, c, late)
    <3>1. CASE k = i /\ c = col
      BY <2>1, <3>1
    <3>2. CASE k = i /\ c # col
      BY <1>9, <1>10, <1>11, <1>16, <2>2, <3>2 DEF RipeAt, row
    <3>3. CASE k # i
      BY <1>1, <1>11, <1>16, <2>2, <3>3 DEF RipeAt
    <3> QED  BY <3>1, <3>2, <3>3
  <2> QED  BY <2>1, <2>2
<1>17. \A e \in Engine(w, h, late0, top) :
         /\ Kin(e, acc.e) /\ e.cursors = acc.e.cursors /\ e.overlays = rows =>
             [acc EXCEPT !.e = e] \in Trial(w, h, late0, top, o)
  BY <1>1, <1>11 DEF Trial, Kin
<1>18. [acc EXCEPT !.stop = astray] \in Trial(w, h, late0, top, o)
       /\ [acc EXCEPT !.stop = astray].e = acc.e /\ [acc EXCEPT !.stop = astray].stop = astray
  BY <1>6 DEF Trial
<1>19. /\ [acc EXCEPT !.e = retired].e = retired /\ [acc EXCEPT !.e = retired].stop = acc.stop
       /\ [acc EXCEPT !.e = credited].e = credited /\ [acc EXCEPT !.e = credited].stop = acc.stop
  BY DEF Trial
<1>20. judged \in Trial(w, h, late0, top, o)
  BY <1>4, <1>13, <1>14, <1>17, <1>18
<1>21. judged.stop = NotWrong => acc.stop = NotWrong /\ RipeAt(judged.e, i, col, late)
  <2>1. RipeAt(retired, i, col, late) /\ RipeAt(credited, i, col, late)
    BY <1>13, <1>14, <1>16
  <2>2. Ripe(cell, late) => RipeAt(acc.e, i, col, late)
    BY DEF RipeAt, cell, row
  <2> QED  BY <1>4, <1>6, <1>7, <1>18, <1>19, <2>1, <2>2
<1>22. \A k \in 1..Len(o.overlays), c \in Below(w) :
         RipeAt(acc.e, k, c, late) => RipeAt(judged.e, k, c, late)
  <2>1. /\ \A k \in 1..Len(o.overlays), c \in Below(w) :
             RipeAt(acc.e, k, c, late) => RipeAt(retired, k, c, late)
        /\ \A k \in 1..Len(o.overlays), c \in Below(w) :
             RipeAt(acc.e, k, c, late) => RipeAt(credited, k, c, late)
    BY <1>13, <1>14, <1>16
  <2>2. judged.e \in {acc.e, retired, credited}
    BY <1>4, <1>18, <1>19
  <2> QED  BY <2>1, <2>2
<1> QED  BY <1>20, <1>21, <1>22 DEF judged, i, col

CellsJudged == INSTANCE FoldLemmas WITH Op <- JudgeCell

(* The fold over the cells of a row.                                       *)
LEMMA CellFolds == \A base, seq : CellsJudged!Folded(base, seq) = InTurn(JudgeCell, base, seq)
BY Zenon DEF InTurn, CellsJudged!InTurn, CellsJudged!Folded

(* One row: unless a cell of it was wrong they are all ripe, and those of  *)
(* the other rows that were still are.                                     *)
LEMMA JudgeRowIs ==
  ASSUME NEW w \in Dimension, NEW h \in Dimension, NEW fb \in Screens(w, h),
         NEW late0, NEW top, NEW o, NEW acc \in Trial(w, h, late0, top, o), NEW at,
         at.context = fb, at.item \in 1..Len(o.overlays),
         NEW late \in Nat, late = o.local_frame_late_acked
  PROVE  LET judged == JudgeRow(acc, at)
         IN  /\ judged \in Trial(w, h, late0, top, o)
             /\ judged.stop = NotWrong =>
                  /\ acc.stop = NotWrong
                  /\ \A col \in Below(w) : RipeAt(judged.e, at.item, col, late)
             /\ \A i \in 1..Len(o.overlays), col \in Below(w) :
                  RipeAt(acc.e, i, col, late) => RipeAt(judged.e, i, col, late)
<1> DEFINE row == at.item
           where == [fb |-> fb, row |-> row]
           columns == [n \in 1..w |-> n - 1]
           steps == With(where, columns)
           V == Trial(w, h, late0, top, o)
           S == Items(where, Below(w))
<1>1. JudgeRow(acc, at) = InTurn(JudgeCell, acc, steps)
  <2>1. Width(at.context) = w
    BY ScreenSizes
  <2> QED  BY <2>1, Zenon DEF JudgeRow
<1>2. columns \in Seq(Below(w)) /\ Len(columns) = w /\ w \in Nat
  BY DEF Below, Dimension
<1>3. \A n \in 1..w : columns[n] = n - 1
  OBVIOUS
<1> HIDE DEF columns
<1>5. where.fb = fb /\ where.row = row
  OBVIOUS
<1> HIDE DEF where, row
<1>4. /\ steps \in Seq(S) /\ Len(steps) = w
      /\ \A n \in 1..w : steps[n].item = n - 1
  <2>1. /\ steps \in Seq(S) /\ Len(steps) = w
        /\ \A n \in 1..Len(columns) : steps[n].item = columns[n]
    <3> HIDE DEF where
    <3>1. With(where, columns) \in Seq(Items(where, Below(w)))
      BY <1>2, WithIs, Zenon
    <3>2. Len(With(where, columns)) = Len(columns)
      BY <1>2, WithIs, Zenon
    <3>3. \A n \in 1..Len(columns) : With(where, columns)[n].item = columns[n]
      BY <1>2 DEF With
    <3> QED  BY <1>2, <3>1, <3>2, <3>3
  <2> HIDE DEF steps, S
  <2> QED  BY <1>2, <1>3, <2>1
<1> HIDE DEF steps
<1>6. ASSUME NEW v \in V, NEW step \in S
      PROVE  /\ JudgeCell(v, step) \in V
             /\ JudgeCell(v, step).stop = NotWrong =>
                  v.stop = NotWrong /\ RipeAt(JudgeCell(v, step).e, row, step.item, late)
             /\ \A i \in 1..Len(o.overlays), col \in Below(w) :
                  RipeAt(v.e, i, col, late) => RipeAt(JudgeCell(v, step).e, i, col, late)
  <2>1. /\ step.context = where /\ step.item \in Below(w)
        /\ step.context.fb = fb /\ step.context.row = row /\ row \in 1..Len(o.overlays)
    BY <1>5 DEF Items, row
  <2> QED  BY <2>1, JudgeCellIs
<1>7. CellsJudged!Closed(V, S)
  <2> HIDE DEF V, S
  <2> QED  BY <1>6, Zenon DEF CellsJudged!Closed
<1>8. CellsJudged!Walks(V, acc, steps) # {}
  <2>1. acc \in V
    OBVIOUS
  <2> HIDE DEF V, S
  <2> QED  BY <1>4, <1>7, <2>1, CellsJudged!FoldedSteps, Zenon
<1>9. PICK u \in [0..w -> V] :
        /\ u[0] = acc /\ CellsJudged!Folded(acc, steps) = u[w]
        /\ \A n \in 1..w : u[n] = JudgeCell(u[n - 1], steps[n])
  BY <1>4, <1>8 DEF CellsJudged!Walks
<1> DEFINE Good(v, n) ==
             /\ v.stop = NotWrong =>
                  acc.stop = NotWrong /\ \A col \in 0..n - 1 : RipeAt(v.e, row, col, late)
             /\ \A i \in 1..Len(o.overlays), col \in Below(w) :
                  RipeAt(acc.e, i, col, late) => RipeAt(v.e, i, col, late)
           T == {n \in 0..w : Good(u[n], n)}
<1>10. 0 \in T
  BY <1>2, <1>9
<1>11. ASSUME NEW n \in 1..w, n - 1 \in T
       PROVE  n \in T
  <2> DEFINE v == u[n - 1]
             step == steps[n]
             k == n - 1
             next == JudgeCell(v, step)
  <2>1. v \in V /\ k \in Below(w) /\ n \in 0..w /\ Good(v, k)
    BY <1>2, <1>11 DEF Below
  <2>2. u[n] = next
    BY <1>9
  <2>3. step \in S /\ step.item = k
    <3> HIDE DEF S
    <3> QED  BY <1>4, n \in 1..Len(steps)
  <2>4. row \in 1..Len(o.overlays)
    BY DEF row
  <2>5. \A col \in 0..k : col \in Below(w) /\ (col = k \/ col \in 0..k - 1)
    BY <1>2, <2>1 DEF Below
  <2> HIDE DEF v, step, k, V, S
  <2>6. /\ next.stop = NotWrong => v.stop = NotWrong /\ RipeAt(next.e, row, k, late)
        /\ \A i \in 1..Len(o.overlays), col \in Below(w) :
             RipeAt(v.e, i, col, late) => RipeAt(next.e, i, col, late)
    BY <1>6, <2>1, <2>3
  <2> HIDE DEF next
  <2>7. next.stop = NotWrong =>
          acc.stop = NotWrong /\ \A col \in 0..k : RipeAt(next.e, row, col, late)
    BY <2>1, <2>4, <2>5, <2>6
  <2>8. n - 1 = k
    BY DEF k
  <2>9. Good(next, n)
    BY <2>1, <2>6, <2>7, <2>8
  <2> QED  BY <2>1, <2>2, <2>9
<1>12. T \subseteq 0..w
  OBVIOUS
<1> HIDE DEF T
<1>13. T = 0..w
  BY <1>2, <1>10, <1>11, <1>12, Inductive
<1>14. w \in T /\ u[w] \in V
  BY <1>2, <1>13
<1>15. Good(u[w], w)
  BY <1>14 DEF T
<1>16. JudgeRow(acc, at) = u[w]
  BY <1>1, <1>9, CellFolds, Zenon
<1> QED  BY <1>14, <1>15, <1>16 DEF Below, row

RowsJudged == INSTANCE FoldLemmas WITH Op <- JudgeRow

(* The fold over the rows.                                                 *)
LEMMA RowFolds == \A base, seq : RowsJudged!Folded(base, seq) = InTurn(JudgeRow, base, seq)
BY Zenon DEF InTurn, RowsJudged!InTurn, RowsJudged!Folded

(* All of them: unless a guess is wrong, only those whose echo is not      *)
(* known are left, and erasures.                                           *)
LEMMA JudgeIs ==
  ASSUME NEW w \in Dimension, NEW h \in Dimension, NEW fb \in Screens(w, h),
         NEW late0, NEW top, NEW o \in Engine(w, h, late0, top),
         NEW late \in Nat, late = o.local_frame_late_acked
  PROVE  LET judged == Judge(o, fb)
         IN  /\ judged \in Trial(w, h, late0, top, o)
             /\ judged.stop = NotWrong => judged.e.overlays \in Rows(w, h, late, top)
<1> DEFINE N == Len(o.overlays)
           base == [e |-> o, stop |-> NotWrong]
           rows == [i \in 1..N |-> i]
           steps == With(fb, rows)
           V == Trial(w, h, late0, top, o)
           S == Items(fb, 1..N)
<1>1. N \in Nat /\ DOMAIN o.overlays = 1..N
  BY DEF Engine, Rows
<1>2. Judge(o, fb) = InTurn(JudgeRow, base, steps)
  BY <1>1, Zenon DEF Judge
<1>3. base \in V
  BY DEF Trial, Kin, NotWrong
<1>4. rows \in Seq(1..N) /\ Len(rows) = N /\ \A n \in 1..N : rows[n] = n
  BY <1>1
<1> HIDE DEF rows, base, N
<1>5. /\ steps \in Seq(S) /\ Len(steps) = N
      /\ \A n \in 1..N : steps[n].item = n
  BY <1>4, WithIs
<1> HIDE DEF steps
<1>6. ASSUME NEW v \in V, NEW step \in S
      PROVE  /\ JudgeRow(v, step) \in V
             /\ JudgeRow(v, step).stop = NotWrong =>
                  /\ v.stop = NotWrong
                  /\ \A col \in Below(w) : RipeAt(JudgeRow(v, step).e, step.item, col, late)
             /\ \A i \in 1..N, col \in Below(w) :
                  RipeAt(v.e, i, col, late) => RipeAt(JudgeRow(v, step).e, i, col, late)
  <2>1. step.context = fb /\ step.item \in 1..Len(o.overlays)
    BY DEF Items, N
  <2> QED  BY <2>1, JudgeRowIs DEF N
<1>7. RowsJudged!Closed(V, S)
  <2> HIDE DEF V, S
  <2> QED  BY <1>6, Zenon DEF RowsJudged!Closed
<1>8. RowsJudged!Walks(V, base, steps) # {}
  <2> HIDE DEF V, S
  <2> QED  BY <1>3, <1>5, <1>7, RowsJudged!FoldedSteps, Zenon
<1>9. PICK u \in [0..N -> V] :
        /\ u[0] = base /\ RowsJudged!Folded(base, steps) = u[N]
        /\ \A n \in 1..N : u[n] = JudgeRow(u[n - 1], steps[n])
  BY <1>5, <1>8 DEF RowsJudged!Walks
<1> DEFINE Good(v, n) ==
             v.stop = NotWrong => \A i \in 1..n, col \in Below(w) : RipeAt(v.e, i, col, late)
           T == {n \in 0..N : Good(u[n], n)}
<1>10. 0 \in T
  BY <1>1, <1>9
<1>11. ASSUME NEW n \in 1..N, n - 1 \in T
       PROVE  n \in T
  <2> DEFINE v == u[n - 1]
             step == steps[n]
             next == JudgeRow(v, step)
  <2>1. v \in V /\ n \in 0..N /\ Good(v, n - 1)
    BY <1>1, <1>11
  <2>2. u[n] = next
    BY <1>9
  <2>3. step \in S /\ step.item = n
    <3> HIDE DEF S
    <3> QED  BY <1>5, n \in 1..Len(steps)
  <2>4. \A i \in 1..n : i \in 1..N /\ (i = n \/ i \in 1..n - 1)
    BY <1>1
  <2> HIDE DEF v, step, V, S
  <2>5. /\ next.stop = NotWrong =>
             v.stop = NotWrong /\ \A col \in Below(w) : RipeAt(next.e, n, col, late)
        /\ \A i \in 1..N, col \in Below(w) :
             RipeAt(v.e, i, col, late) => RipeAt(next.e, i, col, late)
    BY <1>6, <2>1, <2>3
  <2> HIDE DEF next
  <2>6. Good(next, n)
    BY <2>1, <2>4, <2>5
  <2> QED  BY <2>1, <2>2, <2>6
<1>12. T \subseteq 0..N
  OBVIOUS
<1> HIDE DEF T
<1>13. T = 0..N
  BY <1>1, <1>10, <1>11, <1>12, Inductive
<1>14. N \in T /\ u[N] \in V
  BY <1>1, <1>13
<1>15. Good(u[N], N)
  BY <1>14 DEF T
<1>16. Judge(o, fb) = u[N]
  BY <1>2, <1>9, RowFolds, Zenon
<1> DEFINE e == u[N].e
<1>17. u[N].stop = NotWrong => e.overlays \in Rows(w, h, late, top)
  <2> SUFFICES ASSUME u[N].stop = NotWrong PROVE e.overlays \in Rows(w, h, late, top)
    OBVIOUS
  <2>1. \A i \in 1..N, col \in Below(w) : RipeAt(e, i, col, late)
    BY <1>15
  <2>2. e \in Engine(w, h, late0, top) /\ Len(e.overlays) = N
    BY <1>14 DEF Trial, N
  <2> HIDE DEF e
  <2>3. e.overlays \in Seq(Row(w, h, late0, top))
    BY <2>2 DEF Engine, Rows
  <2>4. ASSUME NEW i \in 1..N
        PROVE  e.overlays[i] \in Row(w, h, late, top)
    <3> DEFINE row == e.overlays[i]
    <3>1. row \in Row(w, h, late0, top) /\ \A col \in Below(w) : Ripe(row.cells[col], late)
      BY <2>1, <2>2, <2>3 DEF RipeAt
    <3> HIDE DEF row
    <3>2. row.cells \in CellRow(w, late, top)
      BY <3>1 DEF Row, CellRow, Cell
    <3>3. row \in Row(w, h, late, top)
      BY <3>1, <3>2 DEF Row
    <3> QED  BY <3>3 DEF row
  <2>5. e.overlays \in Seq(Row(w, h, late, top))
    BY <2>2, <2>3, <2>4
  <2> QED  BY <2>5 DEF Rows
<1> QED  BY <1>14, <1>16, <1>17

(***************************************************************************)
(* Culling.                                                                *)
(***************************************************************************)
(* What is allowed stays so when less is known of the echo, or there are   *)
(* more frames.                                                            *)
LEMMA EngineGrows ==
  ASSUME NEW w, NEW h, NEW late \in Nat, NEW top \in Nat, NEW late1 \in Nat, NEW top1 \in Nat,
         late1 <= late, top <= top1, NEW e \in Engine(w, h, late, top)
  PROVE  e \in Engine(w, h, late1, top1)
<1>1. After(late, top) \subseteq After(late1, top1)
  BY DEF After
<1>2. Cell(late, top) \subseteq Cell(late1, top1)
  BY DEF Cell, Guess, Ripe
<1>3. Row(w, h, late, top) \subseteq Row(w, h, late1, top1)
  BY <1>2 DEF Row, CellRow
<1>4. Place(w, h, late, top) \subseteq Place(w, h, late1, top1)
  BY <1>1 DEF Place
<1>5. Keystroke(late, top) \subseteq Keystroke(late1, top1)
  BY <1>1 DEF Keystroke
<1>6. /\ e.overlays \in Seq(Row(w, h, late, top)) /\ e.cursors \in Seq(Place(w, h, late, top))
      /\ e.in_flight \in Seq(Keystroke(late, top))
  BY DEF Engine, Rows, Places, Keystrokes
<1>7. e.overlays \in Rows(w, h, late1, top1)
  BY <1>3, <1>6, Wider DEF Rows
<1>8. e.cursors \in Places(w, h, late1, top1)
  BY <1>4, <1>6, Wider DEF Places
<1>9. e.in_flight \in Keystrokes(late1, top1)
  BY <1>5, <1>6, Wider DEF Keystrokes
<1> QED  BY <1>7, <1>8, <1>9 DEF Engine

(* A new engine, with the epoch and the frames of the old one.             *)
LEMMA ResetIs ==
  ASSUME NEW w0, NEW h0, NEW late0, NEW top0, NEW e \in Engine(w0, h0, late0, top0),
         NEW w, NEW h, NEW late, NEW top
  PROVE  /\ ResetEngine(e) \in Engine(w, h, late, top)
         /\ Framed(ResetEngine(e), e)
         /\ ResetEngine(e).local_frame_sent = e.local_frame_sent
<1> DEFINE next == e.prediction_epoch + 1
<1>1. next \in Nat
  BY DEF Engine
<1>2. ResetEngine(e) = [e EXCEPT !.cursors = <<>>, !.overlays = <<>>, !.in_flight = <<>>,
                                 !.prediction_epoch = next]
  BY DEF ResetEngine, BecomeTentative, Engine
<1>3. /\ <<>> \in Rows(w, h, late, top) /\ OneToARow(<<>>) /\ InOrder(<<>>)
      /\ <<>> \in Places(w, h, late, top) /\ <<>> \in Keystrokes(late, top)
  BY DEF Rows, OneToARow, InOrder, Places, Keystrokes
<1> HIDE DEF next
<1> QED  BY <1>1, <1>2, <1>3 DEF Engine, Framed

(* The keystrokes of the epochs abandoned, in a new one.                   *)
LEMMA AbandonIs ==
  ASSUME NEW w, NEW h, NEW late0, NEW late, NEW top, NEW e \in Engine(w, h, late0, top),
         e.in_flight \in Keystrokes(late, top), NEW epoch
  PROVE  LET left == Abandon(e, epoch)
         IN  /\ left \in Engine(w, h, late0, top) /\ left.in_flight \in Keystrokes(late, top)
             /\ Framed(left, e) /\ left.local_frame_sent = e.local_frame_sent
<1> DEFINE next == e.prediction_epoch + 1
           keys == [i \in DOMAIN e.in_flight |->
                      IF e.in_flight[i].epoch >= epoch
                      THEN [e.in_flight[i] EXCEPT !.epoch = next] ELSE e.in_flight[i]]
           n == Len(e.in_flight)
<1>1. next \in Nat
  BY DEF Engine
<1>2. Abandon(e, epoch) = [e EXCEPT !.prediction_epoch = next, !.in_flight = keys]
  BY DEF Abandon, BecomeTentative, Engine
<1> HIDE DEF next
<1>3. ASSUME NEW l, e.in_flight \in Seq(Keystroke(l, top))
      PROVE  keys \in Seq(Keystroke(l, top)) /\ Len(keys) = n
             /\ \A i \in 1..n : keys[i].frame = e.in_flight[i].frame
  <2>1. n \in Nat /\ DOMAIN e.in_flight = 1..n /\ \A i \in 1..n : e.in_flight[i] \in Keystroke(l, top)
    BY <1>3
  <2>2. \A k \in Keystroke(l, top) :
          /\ [k EXCEPT !.epoch = next] \in Keystroke(l, top)
          /\ [k EXCEPT !.epoch = next].frame = k.frame
    BY <1>1 DEF Keystroke
  <2>3. \A i \in 1..n : keys[i] \in Keystroke(l, top) /\ keys[i].frame = e.in_flight[i].frame
    BY <2>1, <2>2
  <2>4. DOMAIN keys = 1..n /\ keys = [i \in 1..n |-> keys[i]]
    BY <2>1
  <2> HIDE DEF keys, n
  <2>5. keys \in Seq(Keystroke(l, top))
    BY <2>1, <2>3, <2>4
  <2>6. Len(keys) = n
    BY <2>1, <2>4, <2>5
  <2> QED  BY <2>3, <2>5, <2>6
<1>4. e.in_flight \in Seq(Keystroke(late0, top)) /\ e.in_flight \in Seq(Keystroke(late, top))
  BY DEF Engine, Keystrokes
<1>5. keys \in Keystrokes(late0, top) /\ keys \in Keystrokes(late, top)
  BY <1>3, <1>4 DEF Keystrokes
<1>6. InOrder(e.in_flight)
  BY DEF Engine
<1>7. InOrder(keys)
  BY <1>3, <1>4, <1>6 DEF InOrder
<1> HIDE DEF keys
<1> QED  BY <1>1, <1>2, <1>5, <1>7 DEF Engine, Framed

(* The keystrokes left are those whose echo is not known.                  *)
LEMMA NoteReceivedIs ==
  ASSUME NEW w, NEW h, NEW late0 \in Nat, NEW late \in Nat, late0 <= late, NEW top \in Nat,
         NEW e \in Engine(w, h, late0, top), e.local_frame_late_acked = late
  PROVE  LET left == NoteReceived(e)
         IN  /\ left \in Engine(w, h, late0, top) /\ left.in_flight \in Keystrokes(late, top)
             /\ Framed(left, e) /\ left.local_frame_sent = e.local_frame_sent
             /\ left.overlays = e.overlays /\ left.cursors = e.cursors
<1> DEFINE got == {i \in DOMAIN e.in_flight : e.in_flight[i].frame <= e.local_frame_acked}
           at == CHOOSE i \in got : \A j \in got : j <= i
           newest == e.in_flight[at]
           received == IF got = {} THEN e.received ELSE IF newest.text THEN newest.byte ELSE None
           keys == InFlightFrom(e, late + 1)
           n == Len(e.in_flight)
<1>1. NoteReceived(e) = [e EXCEPT !.received = received, !.in_flight = keys]
  BY DEF NoteReceived
<1>2. e.in_flight \in Seq(Keystroke(late0, top)) /\ InOrder(e.in_flight)
  BY DEF Engine, Keystrokes
<1>3. n \in Nat /\ DOMAIN e.in_flight = 1..n
  BY <1>2
<1>4. got # {} => at \in got
  <2> SUFFICES ASSUME got # {} PROVE \E i \in got : \A j \in got : j <= i
    OBVIOUS
  <2> DEFINE back == {n - i : i \in got}
  <2>1. got \subseteq 1..n
    BY <1>3
  <2> HIDE DEF got
  <2>2. back \in SUBSET Nat /\ back # {}
    <3>1. \A i \in got : n - i \in Nat
      BY <1>3, <2>1
    <3> QED  BY <3>1
  <2>3. \E least \in back : \A b \in back : least <= b
    <3> HIDE DEF back
    <3> QED  BY <2>2, LeastNumber
  <2>4. PICK least \in back : \A b \in back : least <= b
    BY <2>3
  <2>5. PICK i \in got : least = n - i
    OBVIOUS
  <2>6. \A j \in got : n - i <= n - j
    BY <2>4, <2>5
  <2> QED  BY <1>3, <2>1, <2>6
<1>5. received \in CharOrNone
  <2>1. e.received \in CharOrNone /\ None \in CharOrNone
    BY DEF Engine, CharOrNone
  <2>2. got # {} => newest.byte \in Int
    <3> SUFFICES ASSUME got # {} PROVE newest.byte \in Int
      OBVIOUS
    <3>1. at \in 1..n
      BY <1>3, <1>4
    <3> HIDE DEF at
    <3>2. e.in_flight[at] \in Keystroke(late0, top)
      BY <1>2, <3>1
    <3>3. e.in_flight[at].byte \in Byte
      BY <3>2 DEF Keystroke
    <3> QED  BY <3>3 DEF Byte
  <2> HIDE DEF got, newest
  <2> QED  BY <2>1, <2>2 DEF CharOrNone
<1> HIDE DEF received
<1>6. /\ keys \in Keystrokes(late0, top) /\ keys \in Keystrokes(late, top) /\ InOrder(keys)
  <2>1. e.in_flight \in Keystrokes(late0, top)
    BY DEF Engine
  <2>2. late + 1 \in Nat /\ late < late + 1 /\ late0 < late + 1
    OBVIOUS
  <2> QED  BY <1>2, <2>1, <2>2, KeystrokesFrom DEF InFlightFrom
<1> HIDE DEF keys
<1> QED  BY <1>1, <1>5, <1>6 DEF Engine, Framed

(* After the verdict, every guess is in time: it was, or all are new.      *)
LEMMA CorrectIs ==
  ASSUME NEW w \in Dimension, NEW h \in Dimension, NEW fb \in Screens(w, h),
         NEW late0 \in Nat, NEW late \in Nat, late0 <= late, NEW top \in Nat, NEW o,
         NEW judged \in Trial(w, h, late0, top, o),
         judged.stop = NotWrong => judged.e.overlays \in Rows(w, h, late, top),
         late = o.local_frame_late_acked, o.local_frame_acked \in Nat, late <= o.local_frame_acked
  PROVE  LET left == Correct(judged, NoteReceived(judged.e), fb)
         IN  /\ left \in Engine(w, h, late0, top)
             /\ left.overlays \in Rows(w, h, late, top)
             /\ left.in_flight \in Keystrokes(late, top)
             /\ Framed(left, o) /\ left.local_frame_sent = o.local_frame_sent
<1> DEFINE e == NoteReceived(judged.e)
           left == Correct(judged, e, fb)
           Fine(v) == /\ v \in Engine(w, h, late0, top) /\ v.in_flight \in Keystrokes(late, top)
                      /\ Framed(v, o) /\ v.local_frame_sent = o.local_frame_sent
<1>1. /\ judged.e \in Engine(w, h, late0, top) /\ judged.e.local_frame_late_acked = late
      /\ Framed(judged.e, o) /\ judged.e.local_frame_sent = o.local_frame_sent
  BY DEF Trial, Kin, Framed
<1>2. Fine(e) /\ e.overlays = judged.e.overlays
  <2>1. /\ e \in Engine(w, h, late0, top) /\ e.in_flight \in Keystrokes(late, top)
        /\ Framed(e, judged.e) /\ e.local_frame_sent = judged.e.local_frame_sent
        /\ e.overlays = judged.e.overlays
    BY <1>1, NoteReceivedIs
  <2> HIDE DEF e
  <2> QED  BY <1>1, <2>1 DEF Framed
<1> HIDE DEF e
<1>3. ASSUME NEW epoch
      PROVE  Fine(Abandon(e, epoch))
  <2> DEFINE v == Abandon(e, epoch)
  <2>1. /\ v \in Engine(w, h, late0, top) /\ v.in_flight \in Keystrokes(late, top)
        /\ Framed(v, e) /\ v.local_frame_sent = e.local_frame_sent
    BY <1>2, AbandonIs
  <2> HIDE DEF v
  <2>2. Fine(v)
    BY <1>2, <2>1 DEF Framed
  <2> QED  BY <2>2 DEF v
<1>4. ASSUME NEW v, Fine(v)
      PROVE  Fine(Rebuild(v, fb)) /\ Rebuild(v, fb).overlays \in Rows(w, h, late, top)
  <2>1. v.local_frame_acked \in Nat /\ late <= v.local_frame_acked
    BY <1>4 DEF Framed
  <2>2. /\ Rebuild(v, fb) \in Engine(w, h, late, top) /\ Framed(Rebuild(v, fb), v)
        /\ Rebuild(v, fb).local_frame_sent = v.local_frame_sent
    BY <1>4, <2>1, RebuildIs
  <2>3. Rebuild(v, fb) \in Engine(w, h, late0, top)
    BY <2>2, EngineGrows
  <2> QED  BY <1>4, <2>2, <2>3 DEF Engine, Framed
<1>5. \/ left = e /\ judged.stop = NotWrong
      \/ \E v : Fine(v) /\ left = Rebuild(v, fb)
  <2>1. Fine(Abandon(e, judged.stop)) /\ Fine(Abandon(e, 0))
    BY <1>3
  <2> HIDE DEF Fine
  <2> QED  BY <1>2, <2>1 DEF Correct
<1> HIDE DEF left
<1>6. Fine(left) /\ left.overlays \in Rows(w, h, late, top)
  BY <1>2, <1>4, <1>5
<1> QED  BY <1>6 DEF left, e

(* The engine after the screen has been looked at.                         *)
LEMMA CullIs ==
  ASSUME NEW w \in Dimension, NEW h \in Dimension, NEW fb \in Screens(w, h),
         NEW late0 \in Nat, NEW late \in Nat, late0 <= late, NEW top \in Nat,
         NEW e0, e0 \in Engine(e0.last_width, e0.last_height, late0, top),
         late = e0.local_frame_late_acked, e0.local_frame_acked \in Nat,
         late <= e0.local_frame_acked
  PROVE  LET e == Cull(e0, fb)
         IN  /\ e \in Engine(w, h, late, top)
             /\ e.last_width = w /\ e.last_height = h
             /\ e.local_frame_sent = e0.local_frame_sent
             /\ e.local_frame_acked = e0.local_frame_acked
             /\ e.local_frame_late_acked = late
<1> DEFINE resized == [e0 EXCEPT !.last_height = h, !.last_width = w]
           sized == IF e0.last_height = h /\ e0.last_width = w THEN e0 ELSE ResetEngine(resized)
           rows == Only(sized.overlays, {r \in Range(sized.overlays) : r.row_num \in 0..h - 1})
           onscreen == [sized EXCEPT !.overlays = rows]
           judged == Judge(onscreen, fb)
           left == Correct(judged, NoteReceived(judged.e), fb)
           pending == {c \in Range(left.cursors) : CursorValidity(c, fb, late) = "Pending"}
           cursors == Only(left.cursors, pending)
<1>1. Cull(e0, fb) = [left EXCEPT !.cursors = cursors]
  <2>1. Width(fb) = w /\ Height(fb) = h
    BY ScreenSizes
  <2>2. [[e0 EXCEPT !.last_height = h] EXCEPT !.last_width = w] = resized
    OBVIOUS
  <2> QED  BY <2>1, <2>2 DEF Cull
<1>2. /\ sized \in Engine(w, h, late0, top) /\ sized.last_width = w /\ sized.last_height = h
      /\ sized.local_frame_sent = e0.local_frame_sent
      /\ sized.local_frame_acked = e0.local_frame_acked
      /\ sized.local_frame_late_acked = late
  <2>1. CASE e0.last_height = h /\ e0.last_width = w
    BY <2>1
  <2>2. CASE ~ (e0.last_height = h /\ e0.last_width = w)
    <3>1. h \in Int /\ w \in Int
      BY DEF Dimension
    <3>2. /\ resized \in Engine(e0.last_width, e0.last_height, late0, top)
          /\ resized.last_width = w /\ resized.last_height = h
          /\ resized.local_frame_sent = e0.local_frame_sent
          /\ resized.local_frame_acked = e0.local_frame_acked
          /\ resized.local_frame_late_acked = late
      BY <3>1 DEF Engine
    <3>3. sized = ResetEngine(resized)
      BY <2>2
    <3> HIDE DEF resized, sized
    <3> QED  BY <3>2, <3>3, ResetIs DEF Framed
  <2> QED  BY <2>1, <2>2
<1> HIDE DEF sized
<1>3. rows \in Rows(w, h, late0, top) /\ OneToARow(rows)
  <2> DEFINE S == Row(w, h, late0, top)
             K == {r \in Range(sized.overlays) : r.row_num \in 0..h - 1}
  <2>1. sized.overlays \in Seq(S) /\ OneToARow(sized.overlays)
    BY <1>2 DEF Engine, Rows
  <2> HIDE DEF K, S
  <2>2. rows \in Seq(S \cap K)
    BY <2>1, OnlyType DEF K
  <2>3. PICK g \in [1..Len(rows) -> 1..Len(sized.overlays)] :
          /\ \A i \in 1..Len(rows) : rows[i] = sized.overlays[g[i]]
          /\ \A i, j \in 1..Len(rows) : i < j => g[i] < g[j]
    BY <2>1, OnlyEmbeds DEF K
  <2> HIDE DEF rows
  <2>4. rows \in Seq(S) /\ Len(rows) \in Nat /\ Len(sized.overlays) \in Nat
    BY <2>1, <2>2, Wider, S \cap K \subseteq S
  <2>5. OneToARow(rows)
    <3> SUFFICES ASSUME NEW i \in 1..Len(rows), NEW j \in 1..Len(rows),
                        rows[i].row_num = rows[j].row_num
                 PROVE  i = j
      BY DEF OneToARow
    <3>1. g[i] \in 1..Len(sized.overlays) /\ g[j] \in 1..Len(sized.overlays)
      BY <2>3
    <3>2. g[i] = g[j]
      BY <2>1, <2>3, <3>1 DEF OneToARow
    <3> QED  BY <2>3, <2>4, <3>1, <3>2
  <2> QED  BY <2>4, <2>5 DEF Rows, S
<1> HIDE DEF rows
<1>4. /\ onscreen \in Engine(w, h, late0, top) /\ Framed(onscreen, sized)
      /\ onscreen.local_frame_sent = sized.local_frame_sent
  BY <1>2, <1>3 DEF Engine, Framed
<1> HIDE DEF onscreen
<1>5. /\ onscreen.local_frame_late_acked = late /\ onscreen.local_frame_acked \in Nat
      /\ late <= onscreen.local_frame_acked
  BY <1>2, <1>4 DEF Framed
<1>6. /\ judged \in Trial(w, h, late0, top, onscreen)
      /\ judged.stop = NotWrong => judged.e.overlays \in Rows(w, h, late, top)
  BY <1>4, <1>5, JudgeIs
<1> HIDE DEF judged
<1>7. /\ left \in Engine(w, h, late0, top)
      /\ left.overlays \in Rows(w, h, late, top)
      /\ left.in_flight \in Keystrokes(late, top)
      /\ Framed(left, onscreen) /\ left.local_frame_sent = onscreen.local_frame_sent
  BY <1>5, <1>6, CorrectIs
<1> HIDE DEF left
<1>8. cursors \in Places(w, h, late, top)
  <2> DEFINE S == Place(w, h, late0, top)
  <2>1. left.cursors \in Seq(S)
    BY <1>7 DEF Engine, Places
  <2>2. cursors \in Seq(S \cap pending)
    <3> HIDE DEF S, pending
    <3> QED  BY <2>1, OnlyType
  <2>3. S \cap pending \subseteq Place(w, h, late, top)
    <3> SUFFICES ASSUME NEW c \in S, CursorValidity(c, fb, late) = "Pending"
                 PROVE  c \in Place(w, h, late, top)
      OBVIOUS
    <3>1. c.expiration \in After(late0, top)
      BY DEF Place
    <3>2. late < c.expiration
      BY DEF CursorValidity
    <3>3. c.expiration \in After(late, top)
      BY <3>1, <3>2 DEF After
    <3> QED  BY <3>3 DEF Place
  <2> HIDE DEF S, pending, cursors
  <2>4. cursors \in Seq(Place(w, h, late, top))
    BY <2>2, <2>3, Wider
  <2> QED  BY <2>4 DEF Places
<1> HIDE DEF cursors
<1> QED  BY <1>1, <1>2, <1>4, <1>7, <1>8 DEF Engine, Framed

(***************************************************************************)
(* Typing.                                                                 *)
(***************************************************************************)
(* An engine for some screen, when the echo of frames up to late is known  *)
(* and the server has received those up to acked.                          *)
Ready(e, late0, late, top, acks) ==
  /\ e \in Engine(e.last_width, e.last_height, late0, top)
  /\ e.local_frame_late_acked = late /\ e.local_frame_acked = acks

(* The keystroke joins those in flight, for the newest frame there is.     *)
LEMMA RecordKeyIs ==
  ASSUME NEW w, NEW h, NEW late \in Nat, NEW top \in Nat, NEW e \in Engine(w, h, late, top),
         e.local_frame_sent + 1 = top, late < top, NEW byte \in Byte
  PROVE  /\ RecordKey(e, byte) \in Engine(w, h, late, top) /\ Framed(RecordKey(e, byte), e)
         /\ RecordKey(e, byte).local_frame_sent = e.local_frame_sent
<1> DEFINE text == e.parser.state = "Ground" /\ byte \in 33..126
           key == [byte |-> byte, text |-> text, frame |-> Expires(e),
                   epoch |-> e.prediction_epoch]
           keys == Append(e.in_flight, key)
           n == Len(e.in_flight)
<1>1. text \in BOOLEAN
  BY Zenon
<1>2. RecordKey(e, byte) = [e EXCEPT !.in_flight = keys]
  BY DEF RecordKey
<1> HIDE DEF text
<1>3. Expires(e) = top /\ Expires(e) \in After(late, top)
  BY DEF Expires, After
<1>4. key \in Keystroke(late, top) /\ key.frame = top
  <2>1. e.prediction_epoch \in Nat
    BY DEF Engine
  <2> QED  BY <1>1, <1>3, <2>1 DEF Keystroke
<1> HIDE DEF key
<1>5. e.in_flight \in Seq(Keystroke(late, top)) /\ InOrder(e.in_flight)
  BY DEF Engine, Keystrokes
<1>6. /\ keys \in Seq(Keystroke(late, top)) /\ n \in Nat /\ Len(keys) = n + 1
      /\ keys[n + 1] = key /\ \A i \in 1..n : keys[i] = e.in_flight[i]
  BY <1>4, <1>5
<1>7. \A i \in 1..n : e.in_flight[i].frame <= top /\ e.in_flight[i].frame \in Int
  <2>1. \A k \in Keystroke(late, top) : k.frame <= top /\ k.frame \in Int
    BY DEF Keystroke, After
  <2>2. \A i \in 1..n : e.in_flight[i] \in Keystroke(late, top)
    BY <1>5
  <2> QED  BY <2>1, <2>2
<1> HIDE DEF keys
<1>8. InOrder(keys)
  <2> SUFFICES ASSUME NEW i \in 1..n + 1, NEW j \in 1..n + 1, i <= j
               PROVE  keys[i].frame <= keys[j].frame
    BY <1>6 DEF InOrder
  <2>1. CASE j \in 1..n
    <3>1. i \in 1..n
      BY <1>6, <2>1
    <3> QED  BY <1>5, <1>6, <2>1, <3>1 DEF InOrder
  <2>2. CASE j = n + 1
    <3>1. i \in 1..n \/ i = n + 1
      BY <1>6
    <3> QED  BY <1>4, <1>6, <1>7, <2>2, <3>1
  <2> QED  BY <1>6, <2>1, <2>2
<1> QED  BY <1>2, <1>6, <1>8 DEF Engine, Framed, Keystrokes

(* A byte typed, on the screen the client has.                             *)
LEMMA UserByteIs ==
  ASSUME NEW w \in Dimension, NEW h \in Dimension, NEW fb \in Screens(w, h),
         NEW late0 \in Nat, NEW late \in Nat, late0 <= late, NEW top \in Nat, late < top,
         NEW acks \in Nat, late <= acks, NEW e, Ready(e, late0, late, top, acks),
         e.local_frame_sent + 1 = top, NEW byte \in Byte
  PROVE  LET typing == NewUserByte(e, byte, fb)
         IN  /\ typing \in Engine(w, h, late, top)
             /\ typing.last_width = w /\ typing.last_height = h
             /\ typing.local_frame_late_acked = late /\ typing.local_frame_acked = acks
             /\ typing.local_frame_sent + 1 = top
<1> DEFINE culled == Cull(e, fb)
           limited == LimitInFlight(culled)
           noted == RecordKey(limited, byte)
           typing == Predict(noted, byte, fb)
           Fine(v) == /\ v \in Engine(w, h, late, top)
                      /\ v.last_width = w /\ v.last_height = h
                      /\ v.local_frame_late_acked = late /\ v.local_frame_acked = acks
                      /\ v.local_frame_sent + 1 = top
<1>1. Fine(culled)
  BY CullIs DEF Ready
<1>2. NewUserByte(e, byte, fb) = typing
  BY DEF NewUserByte
<1> HIDE DEF culled
<1>3. Fine(limited)
  <2>1. limited \in {culled, ResetEngine(culled)}
    BY DEF LimitInFlight
  <2>2. Fine(ResetEngine(culled))
    <3> DEFINE reset == ResetEngine(culled)
    <3>1. /\ reset \in Engine(w, h, late, top) /\ Framed(reset, culled)
          /\ reset.local_frame_sent = culled.local_frame_sent
      BY <1>1, ResetIs
    <3> HIDE DEF reset
    <3>2. Fine(reset)
      BY <1>1, <3>1 DEF Framed
    <3> QED  BY <3>2 DEF reset
  <2> HIDE DEF Fine, limited
  <2> QED  BY <1>1, <2>1, <2>2
<1> HIDE DEF limited
<1>4. Fine(noted)
  <2>1. /\ noted \in Engine(w, h, late, top) /\ Framed(noted, limited)
        /\ noted.local_frame_sent = limited.local_frame_sent
    BY <1>3, RecordKeyIs
  <2> HIDE DEF noted
  <2> QED  BY <1>3, <2>1 DEF Framed
<1> HIDE DEF noted
<1>5. Dated(noted, late, top)
  BY <1>4 DEF Dated, After
<1>6. typing \in Guessing(w, h, late, top, noted)
  BY <1>4, <1>5, PredictIs
<1> HIDE DEF typing
<1> QED  BY <1>2, <1>4, <1>6 DEF Guessing, Kin

TypedBytes == INSTANCE FoldLemmas WITH Op <- TypeByte

(* The fold over the bytes of one read.                                    *)
LEMMA TypeFolds == \A base, seq : TypedBytes!Folded(base, seq) = InTurn(TypeByte, base, seq)
BY Zenon DEF InTurn, TypedBytes!InTurn, TypedBytes!Folded

(* Bytes are not a new size.                                               *)
LEMMA KeysAre ==
  ASSUME NEW input \in Keys
  PROVE  input # NoInput /\ ~ IsResize(input) /\ input \in Seq(Byte)
<1>1. input \in Seq(Byte) /\ input # <<>>
  BY DEF Keys, NoInput
<1>2. 1 \in 1..Len(input)
  BY <1>1
<1>3. input[1] \in Byte
  BY <1>1, <1>2
<1>4. input[1] # RESIZE
  BY <1>3 DEF RESIZE, Byte
<1>5. ~ IsResize(input)
  BY <1>4, Zenon DEF IsResize
<1>6. input # NoInput
  BY <1>1, Zenon DEF NoInput
<1> QED  BY <1>1, <1>5, <1>6

(* What one read of the keyboard does to the engine.                       *)
LEMMA HandledIs ==
  ASSUME NEW w \in Dimension, NEW h \in Dimension, NEW fb \in Screens(w, h),
         NEW late0 \in Nat, NEW late \in Nat, late0 <= late, NEW top \in Nat,
         NEW acks \in Nat, late <= acks, NEW e, Ready(e, late0, late, top, acks),
         NEW input \in Inputs \cup {NoInput},
         input \in Keys => Len(frames) \in Nat /\ Len(frames) + 1 = top /\ late < top
  PROVE  Ready(Handled(e, input, fb), late0, late, top, acks)
<1> DEFINE reset == ResetEngine(e)
<1>1. Ready(reset, late0, late, top, acks)
  <2>1. \A v, i : reset \in Engine(v, i, late0, top) /\ Framed(reset, e)
    BY ResetIs DEF Ready
  <2> HIDE DEF reset
  <2> QED  BY <2>1 DEF Ready, Framed
<1>2. CASE input \notin Keys
  <2>1. input = NoInput \/ IsResize(input)
    BY <1>2 DEF Inputs, Sizes, IsResize, NoInput
  <2>2. Handled(e, input, fb) \in {e, reset}
    BY <2>1 DEF Handled
  <2> HIDE DEF reset
  <2> QED  BY <1>1, <2>2
<1>3. CASE input \in Keys
  <2> DEFINE base == IF Paste(input) THEN reset ELSE e
             sent == Len(frames)
             dated == [base EXCEPT !.local_frame_sent = sent]
             steps == With(fb, input)
             V == {v \in Engine(e.last_width, e.last_height, late0, top)
                           \cup Engine(w, h, late0, top) :
                     Ready(v, late0, late, top, acks) /\ v.local_frame_sent + 1 = top}
             S == Items(fb, Byte)
  <2>1. input # NoInput /\ ~ IsResize(input) /\ input \in Seq(Byte)
    BY <1>3, KeysAre
  <2>2. Handled(e, input, fb) = IF Paste(input) THEN dated ELSE InTurn(TypeByte, dated, steps)
    BY <2>1, Zenon DEF Handled, Typed
  <2>3. Ready(base, late0, late, top, acks) /\ (~ Paste(input) => base = e)
    BY <1>1
  <2> HIDE DEF base, reset
  <2>4. sent \in Int /\ sent + 1 = top /\ late < top
    BY <1>3
  <2> HIDE DEF sent
  <2>5. /\ Ready(dated, late0, late, top, acks) /\ dated.local_frame_sent + 1 = top
        /\ dated.last_width = base.last_width /\ dated.last_height = base.last_height
    BY <2>3, <2>4 DEF Ready, Engine
  <2> HIDE DEF dated
  <2>6. ~ Paste(input) => dated \in V
    BY <2>3, <2>5 DEF Ready
  <2>7. steps \in Seq(S)
    BY <2>1, WithIs
  <2>8. TypedBytes!Closed(V, S)
    <3>1. ASSUME NEW v \in V, NEW at \in S
          PROVE  TypeByte(v, at) \in V
      <4> DEFINE typing == NewUserByte(v, at.item, fb)
      <4>1. at.context = fb /\ at.item \in Byte
        BY DEF Items
      <4>2. TypeByte(v, at) = typing
        BY <4>1 DEF TypeByte
      <4>3. Ready(v, late0, late, top, acks) /\ v.local_frame_sent + 1 = top
        OBVIOUS
      <4>4. /\ typing \in Engine(w, h, late, top)
            /\ typing.last_width = w /\ typing.last_height = h
            /\ typing.local_frame_late_acked = late /\ typing.local_frame_acked = acks
            /\ typing.local_frame_sent + 1 = top
        BY <2>4, <4>1, <4>3, UserByteIs
      <4> HIDE DEF typing
      <4>5. typing \in Engine(w, h, late0, top)
        BY <4>4, EngineGrows
      <4> QED  BY <4>2, <4>4, <4>5 DEF Ready
    <3> HIDE DEF V, S
    <3> QED  BY <3>1, Zenon DEF TypedBytes!Closed
  <2>9. ~ Paste(input) => InTurn(TypeByte, dated, steps) \in V
    <3> HIDE DEF V, S, steps
    <3>1. ~ Paste(input) => TypedBytes!Folded(dated, steps) \in V
      BY <2>6, <2>7, <2>8, TypedBytes!FoldedType, Zenon
    <3> QED  BY <3>1, TypeFolds, Zenon
  <2>10. \A v \in V : Ready(v, late0, late, top, acks)
    OBVIOUS
  <2> HIDE DEF V, steps
  <2> QED  BY <2>2, <2>5, <2>9, <2>10
<1> QED  BY <1>2, <1>3

(***************************************************************************)
(* The application leaves a whole screen.                                  *)
(***************************************************************************)
LEMMA RowPut ==
  ASSUME NEW w \in Dimension, NEW h \in Dimension, NEW fb \in Screens(w, h),
         NEW row \in [1..w -> Int]
  PROVE  /\ [fb EXCEPT !.rows[fb.row + 1] = row] \in Screens(w, h)
         /\ fb.rows[fb.row + 1] \in [1..w -> Int]
         /\ fb.row + 1 \in 1..h /\ fb.col \in 0..w - 1
         /\ [fb EXCEPT !.rows[fb.row + 1] = row].col = fb.col
<1> DEFINE rows == [fb.rows EXCEPT ![fb.row + 1] = row]
<1>1. /\ fb.rows \in [1..h -> [1..w -> Int]] /\ fb.row \in 0..h - 1 /\ fb.col \in 0..w - 1
  BY DEF Screens
<1>2. fb.row + 1 \in 1..h
  BY <1>1 DEF Dimension
<1>3. rows \in [1..h -> [1..w -> Int]]
  BY <1>1, <1>2
<1>4. [fb EXCEPT !.rows[fb.row + 1] = row] = [fb EXCEPT !.rows = rows]
  OBVIOUS
<1> HIDE DEF rows
<1> QED  BY <1>1, <1>2, <1>3, <1>4 DEF Screens

(* A new line, perhaps scrolling.                                          *)
LEMMA NextLineIs ==
  ASSUME NEW w \in Dimension, NEW h \in Dimension, NEW fb \in Screens(w, h)
  PROVE  NextLine(fb) \in Screens(w, h)
<1> DEFINE Line == [1..w -> Int]
           blank == BlankRow(fb)
           rows == Append(Tail(fb.rows), blank)
           below == fb.row + 1
<1>1. /\ fb.rows \in [1..h -> Line] /\ fb.row \in 0..h - 1 /\ fb.col \in 0..w - 1
      /\ 0 \in 0..w - 1 /\ h \in Nat \ {0}
  BY DEF Screens, Dimension
<1>2. blank \in Line
  BY ScreenSizes DEF BlankRow, Blank
<1> HIDE DEF Line, blank
<1>3. rows \in [1..h -> Line]
  <2>1. fb.rows \in Seq(Line) /\ Len(fb.rows) = h
    BY <1>1
  <2>2. Tail(fb.rows) \in Seq(Line) /\ Len(Tail(fb.rows)) = h - 1
    BY <1>1, <2>1
  <2>3. rows \in Seq(Line) /\ Len(rows) = h
    BY <1>1, <1>2, <2>2
  <2> HIDE DEF rows
  <2>4. DOMAIN rows = 1..h /\ \A i \in 1..h : rows[i] \in Line
    BY <2>3
  <2>5. rows = [i \in 1..h |-> rows[i]]
    BY <2>3
  <2> QED  BY <2>4, <2>5
<1> HIDE DEF rows
<1>4. NextLine(fb) = IF fb.row < h - 1 THEN [fb EXCEPT !.row = below, !.col = 0]
                     ELSE [fb EXCEPT !.rows = rows, !.col = 0]
  BY ScreenSizes DEF NextLine, rows, blank
<1>5. fb.row < h - 1 => below \in 0..h - 1
  BY <1>1
<1> HIDE DEF below
<1>6. CASE fb.row < h - 1
  BY <1>1, <1>4, <1>5, <1>6 DEF Screens
<1>7. CASE ~ (fb.row < h - 1)
  BY <1>1, <1>3, <1>4, <1>7 DEF Screens, Line
<1> QED  BY <1>6, <1>7

(* A character inserted, perhaps wrapping.                                 *)
LEMMA InsertTextIs ==
  ASSUME NEW w \in Dimension, NEW h \in Dimension, NEW fb \in Screens(w, h), NEW ch \in Int
  PROVE  InsertText(fb, ch) \in Screens(w, h)
<1> DEFINE old == fb.rows[fb.row + 1]
           row == [i \in DOMAIN old |-> IF i <= fb.col THEN old[i]
                                        ELSE IF i = fb.col + 1 THEN ch ELSE old[i - 1]]
           put == [fb EXCEPT !.rows[fb.row + 1] = row]
           next == fb.col + 1
<1>1. fb.row \in 0..h - 1 /\ fb.col \in 0..w - 1 /\ fb.rows \in [1..h -> [1..w -> Int]]
  BY DEF Screens
<1>2. old \in [1..w -> Int]
  <2>1. fb.row + 1 \in 1..h
    BY <1>1 DEF Dimension
  <2> QED  BY <1>1, <2>1
<1> HIDE DEF old
<1>3. row \in [1..w -> Int]
  <2>1. \A i \in 1..w : ~ (i <= fb.col) /\ i # fb.col + 1 => i - 1 \in 1..w
    BY <1>1 DEF Dimension
  <2> QED  BY <1>2, <2>1
<1>4. put \in Screens(w, h) /\ put.col = fb.col
  <2> HIDE DEF row
  <2> QED  BY <1>3, RowPut
<1>5. InsertText(fb, ch) = IF fb.col = w - 1 THEN NextLine(put) ELSE [put EXCEPT !.col = @ + 1]
  BY ScreenSizes DEF InsertText, old
<1> HIDE DEF put
<1>6. fb.col # w - 1 => [put EXCEPT !.col = next] \in Screens(w, h)
  <2>1. fb.col # w - 1 => next \in 0..w - 1
    BY <1>1 DEF Dimension
  <2> HIDE DEF next
  <2> QED  BY <1>4, <2>1 DEF Screens
<1>7. [put EXCEPT !.col = @ + 1] = [put EXCEPT !.col = next]
  BY <1>4
<1> QED  BY <1>4, <1>5, <1>6, <1>7, NextLineIs

(* A character erased to the left of the cursor.                           *)
LEMMA EraseLeftIs ==
  ASSUME NEW w \in Dimension, NEW h \in Dimension, NEW fb \in Screens(w, h)
  PROVE  EraseLeft(fb) \in Screens(w, h)
<1> DEFINE old == fb.rows[fb.row + 1]
           row == [i \in DOMAIN old |-> IF i < fb.col THEN old[i]
                                        ELSE IF i = w THEN Blank ELSE old[i + 1]]
           put == [fb EXCEPT !.rows[fb.row + 1] = row]
           next == fb.col - 1
<1>1. fb.row \in 0..h - 1 /\ fb.col \in 0..w - 1 /\ fb.rows \in [1..h -> [1..w -> Int]]
  BY DEF Screens
<1>2. old \in [1..w -> Int]
  <2>1. fb.row + 1 \in 1..h
    BY <1>1 DEF Dimension
  <2> QED  BY <1>1, <2>1
<1> HIDE DEF old
<1>3. row \in [1..w -> Int]
  <2>1. \A i \in 1..w : i # w => i + 1 \in 1..w
    BY DEF Dimension
  <2> QED  BY <1>2, <2>1 DEF Blank
<1>4. put \in Screens(w, h)
  <2> HIDE DEF row
  <2> QED  BY <1>3, RowPut
<1>5. EraseLeft(fb) = IF fb.col = 0 THEN fb ELSE [put EXCEPT !.col = next]
  <2>1. [fb EXCEPT !.col = next, !.rows[fb.row + 1] = row] = [put EXCEPT !.col = next]
    <3> HIDE DEF row, next
    <3> QED  BY DEF Screens
  <2>2. Width(fb) = w
    BY ScreenSizes
  <2> QED  BY <2>1, <2>2 DEF EraseLeft, old
<1> HIDE DEF put
<1>6. fb.col # 0 => [put EXCEPT !.col = next] \in Screens(w, h)
  <2>1. fb.col # 0 => next \in 0..w - 1
    BY <1>1 DEF Dimension
  <2> HIDE DEF next
  <2> QED  BY <1>4, <2>1 DEF Screens
<1> QED  BY <1>5, <1>6

(* The cursor moved along its row, and no further.                         *)
LEMMA MoveByIs ==
  ASSUME NEW w \in Dimension, NEW h \in Dimension, NEW fb \in Screens(w, h), NEW by
  PROVE  MoveBy(fb, by) \in Screens(w, h)
<1> DEFINE next == fb.col + by
<1>1. MoveBy(fb, by) = IF next \in 0..w - 1 THEN [fb EXCEPT !.col = next] ELSE fb
  BY ScreenSizes DEF MoveBy
<1> HIDE DEF next
<1> QED  BY <1>1 DEF Screens

ErasedWord == INSTANCE FoldLemmas WITH Op <- EraseOnce
Inserting == INSTANCE FoldLemmas WITH Op <- InsertText

(* The folds over the characters of a word, and over those of a text.      *)
LEMMA EditFolds ==
  /\ \A base, seq : ErasedWord!Folded(base, seq) = InTurn(EraseOnce, base, seq)
  /\ \A base, seq : Inserting!Folded(base, seq) = InTurn(InsertText, base, seq)
<1>1. \A base, seq : ErasedWord!Folded(base, seq) = InTurn(EraseOnce, base, seq)
  BY Zenon DEF InTurn, ErasedWord!InTurn, ErasedWord!Folded
<1>2. \A base, seq : Inserting!Folded(base, seq) = InTurn(InsertText, base, seq)
  BY Zenon DEF InTurn, Inserting!InTurn, Inserting!Folded
<1> QED  BY <1>1, <1>2

(* A word erased to the left of the cursor.                                *)
LEMMA EraseWordIs ==
  ASSUME NEW w \in Dimension, NEW h \in Dimension, NEW fb \in Screens(w, h)
  PROVE  EraseWord(fb) \in Screens(w, h)
<1> DEFINE blanks == {col \in 0..Width(fb) - 1 : CharAt(fb, fb.row, col) = Blank}
           word == (0..Width(fb) - 1) \ blanks
           start == RunStart(RunStart(fb.col, blanks), word)
           n == fb.col - start
           count == [i \in 1..n |-> i]
           V == Screens(w, h)
<1>1. EraseWord(fb) = InTurn(EraseOnce, fb, count)
  BY Zenon DEF EraseWord
<1>2. fb.col \in Nat
  BY DEF Screens
<1>3. n \in Nat
  <2>1. Width(fb) \in Nat
    BY ScreenSizes DEF Dimension
  <2>2. -1 \notin blanks /\ -1 \notin word
    BY <2>1
  <2> HIDE DEF blanks, word
  <2>3. RunStart(fb.col, blanks) \in 0..fb.col
    BY <1>2, <2>2, RunStartIs
  <2>4. start \in 0..RunStart(fb.col, blanks)
    BY <2>2, <2>3, RunStartIs
  <2> HIDE DEF start
  <2> QED  BY <1>2, <2>3, <2>4
<1> HIDE DEF n
<1>4. count \in Seq(Nat)
  BY <1>3
<1>5. ErasedWord!Closed(V, Nat)
  <2>1. \A v \in V, i \in Nat : EraseOnce(v, i) \in V
    BY EraseLeftIs DEF EraseOnce
  <2> HIDE DEF V
  <2> QED  BY <2>1, Zenon DEF ErasedWord!Closed
<1>6. fb \in V
  OBVIOUS
<1> HIDE DEF V, count
<1>7. ErasedWord!Folded(fb, count) \in V
  BY <1>4, <1>5, <1>6, ErasedWord!FoldedType, Zenon
<1> QED  BY <1>1, <1>7, EditFolds, Zenon DEF V

(* What comes of a key is the echo, nothing, or a move over what was to be *)
(* erased.                                                                 *)
LEMMA ReactionsAre ==
  ASSUME NEW w \in Dimension, NEW h \in Dimension, NEW fb \in Screens(w, h), NEW input \in Keys
  PROVE  Reactions(fb, input) \subseteq Screens(w, h)
<1> DEFINE V == Screens(w, h)
           text == InTurn(InsertText, fb, input)
<1>1. fb \in V /\ input \in Seq(Int)
  BY KeysAre, Wider, Byte \subseteq Int DEF Byte
<1>2. Inserting!Closed(V, Int)
  <2>1. \A v \in V, ch \in Int : InsertText(v, ch) \in V
    BY InsertTextIs
  <2> HIDE DEF V
  <2> QED  BY <2>1, Zenon DEF Inserting!Closed
<1>3. /\ EraseLeft(fb) \in V /\ NextLine(fb) \in V /\ EraseWord(fb) \in V
      /\ MoveBy(fb, 1) \in V /\ MoveBy(fb, -1) \in V
  BY EraseLeftIs, NextLineIs, EraseWordIs, MoveByIs
<1>4. Inserting!Folded(fb, input) \in V
  <2> HIDE DEF V
  <2> QED  BY <1>1, <1>2, Inserting!FoldedType, Zenon
<1>5. text \in V
  BY <1>4, EditFolds, Zenon
<1>6. Echo(fb, input) \in
        {EraseLeft(fb), NextLine(fb), EraseWord(fb), MoveBy(fb, 1), MoveBy(fb, -1), text}
  BY DEF Echo
<1> HIDE DEF V, text
<1>7. Echo(fb, input) \in V
  BY <1>3, <1>5, <1>6
<1> QED  BY <1>1, <1>3, <1>7 DEF Reactions, V

(* A resize makes a screen of the new size.                                *)
LEMMA ResizeIs ==
  ASSUME NEW w \in Dimension, NEW h \in Dimension, NEW fb \in Screens(w, h), NEW size \in Sizes
  PROVE  ActResize(fb, size) \in Screens(size[2], size[3])
<1> DEFINE W == size[2]
           H == size[3]
           line(y) == [x \in 1..W |-> IF y <= Height(fb) /\ x <= Width(fb) THEN fb.rows[y][x]
                                      ELSE Blank]
           rows == [y \in 1..H |-> line(y)]
           clip(n, limit) == IF n < limit THEN n ELSE limit - 1
           row == clip(fb.row, H)
           col == clip(fb.col, W)
<1>1. ActResize(fb, size) = [rows |-> rows, row |-> row, col |-> col]
  BY DEF ActResize
<1>2. W \in Nat \ {0} /\ H \in Nat \ {0}
  BY DEF Sizes, Dimension
<1> HIDE DEF W, H
<1>3. /\ fb.rows \in [1..h -> [1..w -> Int]] /\ fb.row \in 0..h - 1 /\ fb.col \in 0..w - 1
      /\ Height(fb) = h /\ Width(fb) = w /\ h \in Nat /\ w \in Nat
  BY ScreenSizes DEF Screens, Dimension
<1>4. row \in 0..H - 1 /\ col \in 0..W - 1
  <2>1. \A n \in Nat, limit \in Nat \ {0} : clip(n, limit) \in 0..limit - 1
    OBVIOUS
  <2>2. fb.row \in Nat /\ fb.col \in Nat
    BY <1>3
  <2> HIDE DEF clip
  <2> QED  BY <1>2, <2>1, <2>2
<1>5. ASSUME NEW y \in 1..H
      PROVE  line(y) \in [1..W -> Int]
  <2>1. ASSUME NEW x \in 1..W, y <= h, x <= w
        PROVE  fb.rows[y][x] \in Int
    <3>1. y \in 1..h /\ x \in 1..w
      BY <1>2, <1>3, <2>1
    <3> QED  BY <1>3, <3>1
  <2> QED  BY <1>3, <2>1 DEF Blank
<1> HIDE DEF line
<1>6. rows \in [1..H -> [1..W -> Int]]
  BY <1>5
<1> HIDE DEF rows, row, col
<1>7. ActResize(fb, size) \in Screens(W, H)
  BY <1>1, <1>4, <1>6 DEF Screens
<1> QED  BY <1>7 DEF W, H

(***************************************************************************)
(* The server.                                                             *)
(***************************************************************************)
(* The newest frame whose echo is out is the oldest one remembered, and is *)
(* no older than the one before.                                           *)
LEMMA OldDropped ==
  ASSUME NEW history, NEW ack \in Nat, NEW frame \in Nat, ack <= frame,
         Remembers(history, ack, frame), NEW old \in 0..Len(history),
         \A i \in old + 1..Len(history) : history[i] > ack
  PROVE  LET newest == IF old = 0 THEN 0 ELSE history[old]
         IN  /\ newest \in ack..frame
             /\ Remembers(Only(history, {f \in Range(history) : f >= newest}), newest, frame)
<1> DEFINE newest == IF old = 0 THEN 0 ELSE history[old]
           K == {f \in Range(history) : f >= newest}
           left == Only(history, K)
           n == Len(history)
<1>1. /\ history \in Seq(Nat) /\ n \in Nat
      /\ \A i, j \in 1..n : i < j => history[i] < history[j]
      /\ \A i \in 1..n : history[i] \in ack..frame /\ history[i] \in Nat
      /\ ack > 0 => history # <<>> /\ history[1] = ack
  BY DEF Remembers, History
<1>2. CASE old = 0 /\ ack > 0
  <2>1. 1 \in old + 1..n
    BY <1>1, <1>2
  <2> QED  BY <1>1, <1>2, <2>1
<1>3. CASE old # 0 \/ ack = 0
  <2>1. newest \in ack..frame /\ newest \in Nat
    <3>1. CASE old = 0
      BY <1>3, <3>1
    <3>2. CASE old # 0
      <4>1. old \in 1..n
        BY <1>1, <3>2
      <4> QED  BY <1>1, <3>2, <4>1
    <3> QED  BY <3>1, <3>2
  <2>2. old # 0 => old \in 1..n /\ history[old] \in K
    <3> SUFFICES ASSUME old # 0 PROVE old \in 1..n /\ history[old] \in K
      OBVIOUS
    <3>1. old \in 1..n /\ newest = history[old]
      BY <1>1
    <3>2. history[old] \in Range(history) /\ history[old] >= newest
      BY <1>1, <3>1 DEF Range
    <3> QED  BY <3>1, <3>2
  <2> HIDE DEF K
  <2>3. left \in Seq(Nat \cap K)
    BY <1>1, OnlyType
  <2>4. PICK g \in [1..Len(left) -> 1..n] :
          /\ \A i \in 1..Len(left) : left[i] = history[g[i]]
          /\ \A i, j \in 1..Len(left) : i < j => g[i] < g[j]
    BY <1>1, OnlyEmbeds
  <2>5. \A i \in 1..n : history[i] \in K => \E j \in 1..Len(left) : left[j] = history[i]
    BY <1>1, OnlyKeeps
  <2> HIDE DEF left
  <2>6. Len(left) \in Nat /\ left \in Seq(Nat)
    BY <2>3, Wider, Nat \cap K \subseteq Nat
  <2>7. \A i, j \in 1..Len(left) : i < j => left[i] < left[j]
    BY <1>1, <2>4
  <2>8. \A i \in 1..Len(left) : left[i] \in newest..frame
    <3> SUFFICES ASSUME NEW i \in 1..Len(left) PROVE left[i] \in newest..frame
      OBVIOUS
    <3>1. left[i] \in K /\ left[i] \in Nat
      BY <2>3
    <3>2. g[i] \in 1..n /\ left[i] \in ack..frame
      BY <1>1, <2>4
    <3> QED  BY <2>1, <3>1, <3>2 DEF K
  <2>9. newest > 0 => left # <<>> /\ left[1] = newest
    <3> SUFFICES ASSUME newest > 0 PROVE left # <<>> /\ left[1] = newest
      OBVIOUS
    <3>1. old # 0 /\ newest = history[old]
      OBVIOUS
    <3>2. PICK j \in 1..Len(left) : left[j] = newest
      BY <2>2, <2>5, <3>1
    <3>3. 1 \in 1..Len(left) /\ left # <<>>
      BY <2>6, <3>2
    <3>4. left[1] \in newest..frame /\ left[1] \in Nat
      BY <2>6, <2>8, <3>3
    <3>5. CASE j = 1
      BY <3>2, <3>3, <3>5
    <3>6. CASE j # 1
      <4>1. left[1] < left[j]
        BY <2>6, <2>7, <3>2, <3>3, <3>6
      <4> QED  BY <2>1, <3>2, <3>4, <4>1
    <3> QED  BY <3>5, <3>6
  <2> HIDE DEF newest
  <2>10. Remembers(left, newest, frame)
    BY <2>6, <2>7, <2>8, <2>9 DEF Remembers, History
  <2> QED  BY <2>1, <2>10 DEF newest, left, K
<1> QED  BY <1>1, <1>2, <1>3

AllScreens == UNION {Screens(w, h) : w \in Dimension, h \in Dimension}

(* Screens of any size.                                                    *)
LEMMA AllScreensAre == \A fb : fb \in AllScreens <=> IsScreen(fb)
BY ScreensAre DEF AllScreens

(* An input is a key or a size, and is read as one.                        *)
LEMMA InputsAre ==
  ASSUME NEW input \in Inputs
  PROVE  /\ IsResize(input) => input \in Sizes
         /\ ~ IsResize(input) => input \in Keys
<1>1. input \in Sizes => input # <<>> /\ input[1] = RESIZE
  <2>1. input \in Sizes => Len(input) = 3 /\ input[1] = RESIZE
    BY DEF Sizes
  <2> QED  BY <2>1
<1>2. input \in Sizes => IsResize(input)
  BY <1>1, Zenon DEF IsResize, NoInput
<1> QED  BY <1>2, KeysAre DEF Inputs

(* The server while it takes what a frame brings.                          *)
Taking(n, history, ack) ==
  [frame : {n}, fb : AllScreens, pty : Seq(Press), input_history : {history}, echo_ack : {ack}]

(* It takes an input: it resizes, or hands the application the key.        *)
LEMMA TakesOne ==
  ASSUME NEW n \in Nat, NEW history, NEW ack, NEW s \in Taking(n, history, ack),
         NEW input \in Inputs
  PROVE  Apply1(s, input) \in Taking(n, history, ack)
<1>1. CASE IsResize(input)
  <2> DEFINE fb == ActResize(s.fb, input)
  <2>1. PICK w \in Dimension, h \in Dimension : s.fb \in Screens(w, h)
    BY DEF Taking, AllScreens
  <2>2. input \in Sizes
    BY <1>1, InputsAre
  <2>3. fb \in Screens(input[2], input[3]) /\ input[2] \in Dimension /\ input[3] \in Dimension
    BY <2>1, <2>2, ResizeIs DEF Sizes
  <2>4. fb \in AllScreens
    BY <2>3 DEF AllScreens
  <2>5. Apply1(s, input) = [s EXCEPT !.fb = fb]
    BY <1>1 DEF Apply1
  <2> HIDE DEF fb
  <2> QED  BY <2>4, <2>5 DEF Taking
<1>2. CASE ~ IsResize(input)
  <2> DEFINE press == [input |-> input, frame |-> s.frame]
             pty == Append(s.pty, press)
  <2>1. input \in Keys /\ s.frame \in Nat
    BY <1>2, InputsAre DEF Taking
  <2>2. press \in Press
    BY <2>1 DEF Press
  <2>3. Apply1(s, input) = [s EXCEPT !.pty = pty]
    BY <1>2 DEF Apply1
  <2> HIDE DEF press
  <2>4. pty \in Seq(Press)
    BY <2>2 DEF Taking
  <2> HIDE DEF pty
  <2> QED  BY <2>3, <2>4 DEF Taking
<1> QED  BY <1>1, <1>2

AppliedInputs == INSTANCE FoldLemmas WITH Op <- Apply1

(* The fold over the inputs a frame brings.                                *)
LEMMA ApplyFolds == \A base, seq : AppliedInputs!Folded(base, seq) = InTurn(Apply1, base, seq)
BY Zenon DEF InTurn, AppliedInputs!InTurn, AppliedInputs!Folded

(* A newer frame: the inputs are taken, and the frame is remembered.       *)
LEMMA ReceiveIs ==
  ASSUME NEW s \in [frame : Nat, fb : AllScreens, pty : Seq(Press),
                    input_history : History, echo_ack : Nat],
         NEW n \in Nat, typed \in Seq(Inputs), Carried(n) - Carried(s.frame) \in 0..Len(typed)
  PROVE  /\ Receive(s, n) \in [frame : {n}, fb : AllScreens, pty : Seq(Press),
                               input_history : {Append(s.input_history, n)},
                               echo_ack : {s.echo_ack}]
<1> DEFINE k == Carried(n) - Carried(s.frame)
           inputs == SubSeq(typed, 1, k)
           base == [s EXCEPT !.frame = n]
           V == Taking(n, s.input_history, s.echo_ack)
           took == InTurn(Apply1, base, inputs)
           history == Append(took.input_history, n)
<1>1. Receive(s, n) = [took EXCEPT !.input_history = history]
  BY Zenon DEF Receive, RegisterInputFrame
<1> HIDE DEF k
<1>2. inputs \in Seq(Inputs)
  <2>1. k \in 0..Len(typed)
    BY DEF k
  <2>2. \A i \in 1..k : typed[i] \in Inputs
    BY <2>1
  <2> QED  BY <2>1, <2>2
<1>3. base \in V
  BY DEF Taking
<1>4. AppliedInputs!Closed(V, Inputs)
  <2> HIDE DEF V
  <2> QED  BY TakesOne, Zenon DEF AppliedInputs!Closed, V
<1> HIDE DEF base, inputs, V
<1>5. AppliedInputs!Folded(base, inputs) \in V
  BY <1>2, <1>3, <1>4, AppliedInputs!FoldedType, Zenon
<1>6. took \in V
  BY <1>5, ApplyFolds, Zenon
<1> HIDE DEF took
<1>7. history = Append(s.input_history, n)
  BY <1>6 DEF V, Taking
<1> HIDE DEF history
<1> QED  BY <1>1, <1>6, <1>7 DEF V, Taking

(***************************************************************************)
(* The invariant.                                                          *)
(***************************************************************************)
(* The screens a session begins on, and its inputs.                        *)
LEMMA SessionsAre ==
  ASSUME NEW session \in Sessions
  PROVE  IsScreen(session.screen) /\ session.keys \subseteq Inputs
<1>1. IsScreen(session.screen) /\ \A s \in session.keys : IsInput(s)
  BY TypingConstants
<1>2. \A s : IsInput(s) => s \in Inputs
  BY DEF IsInput, Inputs, Keys, Sizes, Byte
<1> QED  BY <1>1, <1>2

(* It holds when a session begins.                                         *)
LEMMA InitIs == Init => IInv
<1> SUFFICES ASSUME Init PROVE IInv
  OBVIOUS
<1>1. PICK session \in Sessions :
        /\ keyboard = session.keys
        /\ predictions = Cull(NewEngine, session.screen)
        /\ view = [fb |-> session.screen, echo_ack |-> 0]
        /\ server = [frame |-> 0, fb |-> session.screen, pty |-> <<>>,
                     input_history |-> <<>>, echo_ack |-> 0]
  BY DEF Init
<1>2. acked = 0 /\ typed = <<>> /\ frames = <<>>
  BY DEF Init
<1>3. IsScreen(session.screen) /\ session.keys \subseteq Inputs
  BY SessionsAre
<1> DEFINE screen == session.screen
           fresh == NewEngine
<1>4. Pushed = 0 /\ Top = 0 /\ Carried(Len(frames)) = 0
  BY <1>1, <1>2 DEF Pushed, Carried, Top
<1>5. StreamIs
  BY <1>1, <1>2, <1>3, <1>4 DEF StreamIs
<1>6. ServerIs
  BY <1>1, <1>2, <1>3 DEF ServerIs, Remembers, History
<1>7. ViewIs
  BY <1>1, <1>2, <1>3 DEF ViewIs
<1>8. PICK w \in Dimension, h \in Dimension : screen \in Screens(w, h)
  BY <1>3, ScreensAre
<1>9. Width(screen) = w /\ Height(screen) = h
  BY <1>8, ScreenSizes
<1>10. /\ fresh \in Engine(0, 0, 0, 0)
       /\ fresh.last_width = 0 /\ fresh.last_height = 0
       /\ fresh.local_frame_late_acked = 0 /\ fresh.local_frame_acked = 0
  <2>1. NewParser \in Parsers
    BY DEF NewParser, Parsers, States, Held, Text
  <2>2. /\ <<>> \in Rows(0, 0, 0, 0) /\ OneToARow(<<>>) /\ InOrder(<<>>)
        /\ <<>> \in Places(0, 0, 0, 0) /\ <<>> \in Keystrokes(0, 0)
    BY DEF Rows, OneToARow, InOrder, Places, Keystrokes
  <2>3. None \in CharOrNone
    BY DEF CharOrNone
  <2> QED  BY <2>1, <2>2, <2>3 DEF NewEngine, Engine
<1> HIDE DEF fresh, screen
<1>11. /\ Cull(fresh, screen) \in Engine(w, h, 0, 0)
       /\ Cull(fresh, screen).last_width = w /\ Cull(fresh, screen).last_height = h
       /\ Cull(fresh, screen).local_frame_acked = 0
       /\ Cull(fresh, screen).local_frame_late_acked = 0
  BY <1>8, <1>10, CullIs
<1>12. predictions = Cull(fresh, screen) /\ view.fb = screen /\ view.echo_ack = 0
  BY <1>1 DEF fresh, screen
<1>13. PredictionsAre
  BY <1>2, <1>4, <1>9, <1>11, <1>12 DEF PredictionsAre
<1> QED  BY <1>5, <1>6, <1>7, <1>13 DEF IInv

(* Later frames carry no less, and none more than was pushed.              *)
LEMMA CarriedGrows ==
  ASSUME StreamIs, NEW m \in 0..Len(frames), NEW n \in m..Len(frames)
  PROVE  /\ Carried(m) \in Nat /\ Carried(n) \in Nat
         /\ Carried(m) <= Carried(n) /\ Carried(n) <= Pushed
<1>1. /\ frames \in Seq(Nat) /\ Pushed \in Nat /\ Len(frames) \in Nat
      /\ \A i, j \in 1..Len(frames) : i <= j => frames[i] <= frames[j]
      /\ \A i \in 1..Len(frames) : frames[i] <= Pushed
  BY DEF StreamIs
<1>2. \A k \in 0..Len(frames) : Carried(k) \in Nat /\ Carried(k) <= Pushed
  <2> SUFFICES ASSUME NEW k \in 0..Len(frames) PROVE Carried(k) \in Nat /\ Carried(k) <= Pushed
    OBVIOUS
  <2>1. CASE k = 0
    BY <1>1, <2>1 DEF Carried
  <2>2. CASE k # 0
    <3>1. k \in 1..Len(frames)
      BY <1>1, <2>2
    <3> QED  BY <1>1, <2>2, <3>1 DEF Carried
  <2> QED  BY <2>1, <2>2
<1>3. n \in 0..Len(frames)
  BY <1>1
<1>4. CASE m = 0
  BY <1>2, <1>3, <1>4 DEF Carried
<1>5. CASE m # 0
  <2>1. m \in 1..Len(frames) /\ n \in 1..Len(frames) /\ n # 0 /\ m <= n
    BY <1>1, <1>5
  <2>2. frames[m] <= frames[n]
    BY <1>1, <2>1
  <2> QED  BY <1>2, <1>3, <1>5, <2>1, <2>2 DEF Carried
<1> QED  BY <1>4, <1>5

Servers ==
  [frame : Nat, fb : AllScreens, pty : Seq(Press), input_history : History, echo_ack : Nat]

(* What the invariant says of the server.                                  *)
LEMMA ServerFields ==
  ServerIs <=>
    /\ server \in Servers
    /\ Remembers(server.input_history, server.echo_ack, server.frame)
    /\ server.echo_ack <= server.frame /\ server.frame <= Len(frames)
<1>1. IsScreen(server.fb) <=> server.fb \in AllScreens
  BY AllScreensAre
<1> HIDE DEF AllScreens
<1> QED  BY <1>1 DEF ServerIs, Servers

(* A step of the server's that takes nothing back leaves the client's      *)
(* state as it was.                                                        *)
LEMMA ServerSteps ==
  ASSUME IInv, UNCHANGED <<predictions, view, acked, frames, keyboard>>,
         typed' \in Seq(Inputs), Pushed' = Pushed,
         server' \in Servers, server'.frame <= Len(frames), server'.frame >= server.frame,
         server'.echo_ack >= server.echo_ack, server'.echo_ack <= server'.frame,
         Remembers(server'.input_history, server'.echo_ack, server'.frame)
  PROVE  IInv'
<1>1. StreamIs /\ ServerIs /\ ViewIs /\ PredictionsAre
  BY DEF IInv
<1>2. StreamIs'
  BY <1>1 DEF StreamIs
<1>3. server'.fb \in AllScreens
  BY DEF Servers
<1>4. IsScreen(server'.fb)
  BY <1>3, AllScreensAre
<1>5. ServerIs'
  BY <1>4 DEF ServerIs, Servers
<1>6. ViewIs'
  <2>1. server \in Servers
    BY <1>1, ServerFields
  <2> QED  BY <1>1, <2>1 DEF ViewIs, Servers
<1>7. Top' = Top
  BY DEF Top, Carried
<1>8. PredictionsAre'
  BY <1>1, <1>7 DEF PredictionsAre
<1> QED  BY <1>2, <1>5, <1>6, <1>8 DEF IInv

(* A frame received is remembered after the older ones.                    *)
LEMMA Remembered ==
  ASSUME NEW history, NEW ack \in Nat, NEW frame \in Nat, NEW n \in Nat, frame < n,
         Remembers(history, ack, frame), ack <= frame
  PROVE  Remembers(Append(history, n), ack, n)
<1> DEFINE more == Append(history, n)
           k == Len(history)
<1>1. /\ history \in Seq(Nat) /\ \A i, j \in 1..k : i < j => history[i] < history[j]
      /\ \A i \in 1..k : history[i] \in ack..frame
      /\ ack > 0 => history # <<>> /\ history[1] = ack
  BY DEF Remembers, History
<1>2. /\ more \in Seq(Nat) /\ k \in Nat /\ Len(more) = k + 1 /\ more[k + 1] = n
      /\ \A i \in 1..k : more[i] = history[i]
  BY <1>1
<1> HIDE DEF more
<1>3. \A i \in 1..k + 1 : more[i] \in ack..n
  <2> SUFFICES ASSUME NEW i \in 1..k + 1 PROVE more[i] \in ack..n
    OBVIOUS
  <2>1. CASE i \in 1..k
    <3>1. more[i] \in ack..frame
      BY <1>1, <1>2, <2>1
    <3> QED  BY <3>1
  <2>2. CASE i = k + 1
    BY <1>2, <2>2
  <2> QED  BY <1>2, <2>1, <2>2
<1>4. \A i, j \in 1..k + 1 : i < j => more[i] < more[j]
  <2> SUFFICES ASSUME NEW i \in 1..k + 1, NEW j \in 1..k + 1, i < j
               PROVE  more[i] < more[j]
    OBVIOUS
  <2>1. i \in 1..k /\ more[i] = history[i] /\ history[i] \in ack..frame
    BY <1>1, <1>2
  <2>2. CASE j \in 1..k
    BY <1>1, <1>2, <2>1, <2>2
  <2>3. CASE j = k + 1
    BY <1>2, <2>1, <2>3
  <2> QED  BY <1>2, <2>2, <2>3
<1>5. ack > 0 => more # <<>> /\ more[1] = ack
  <2> SUFFICES ASSUME ack > 0 PROVE more # <<>> /\ more[1] = ack
    OBVIOUS
  <2>1. 1 \in 1..k
    BY <1>1
  <2> QED  BY <1>1, <1>2, <2>1
<1>6. Remembers(more, ack, n)
  BY <1>2, <1>3, <1>4, <1>5 DEF Remembers, History
<1> QED  BY <1>6 DEF more

(* A newer frame: what it carries leaves the stream.                       *)
LEMMA ServerReceivesIs ==
  ASSUME IInv, ServerReceives
  PROVE  IInv' /\ server'.echo_ack = server.echo_ack
<1>1. PICK n \in server.frame + 1..Len(frames) :
        /\ server' = Receive(server, n)
        /\ typed' = SubSeq(typed, Carried(n) - Carried(server.frame) + 1, Len(typed))
  BY DEF ServerReceives
<1>2. StreamIs /\ ServerIs
  BY DEF IInv
<1>3. /\ server \in Servers
      /\ Remembers(server.input_history, server.echo_ack, server.frame)
      /\ server.echo_ack <= server.frame /\ server.frame <= Len(frames)
      /\ server.frame \in Nat /\ server.echo_ack \in Nat
  BY <1>2, ServerFields DEF Servers
<1>4. typed \in Seq(Inputs) /\ Len(typed) \in Nat /\ Len(frames) \in Nat
  BY <1>2 DEF StreamIs
<1>5. server.frame \in 0..Len(frames) /\ n \in server.frame..Len(frames) /\ n \in Nat
  BY <1>3, <1>4
<1> DEFINE had == Carried(server.frame)
           has == Carried(n)
<1>6. had \in Nat /\ has \in Nat /\ had <= has /\ has <= Pushed
  BY <1>2, <1>5, CarriedGrows
<1>7. Pushed = had + Len(typed)
  BY DEF Pushed
<1> HIDE DEF had, has
<1>8. has - had \in 0..Len(typed)
  BY <1>4, <1>6, <1>7
<1>9. server' \in [frame : {n}, fb : AllScreens, pty : Seq(Press),
                   input_history : {Append(server.input_history, n)},
                   echo_ack : {server.echo_ack}]
  <2>1. Carried(n) - Carried(server.frame) \in 0..Len(typed)
    BY <1>8 DEF had, has
  <2>2. server \in [frame : Nat, fb : AllScreens, pty : Seq(Press),
                    input_history : History, echo_ack : Nat]
    BY <1>3 DEF Servers
  <2> QED  BY <1>1, <1>4, <1>5, <2>1, <2>2, ReceiveIs
<1>10. server'.frame = n /\ server'.echo_ack = server.echo_ack
       /\ server'.input_history = Append(server.input_history, n)
  BY <1>9
<1>11. Remembers(server'.input_history, server'.echo_ack, server'.frame)
  BY <1>3, <1>5, <1>10, Remembered
<1>12. server' \in Servers
  <2>1. server'.input_history \in History
    BY <1>11 DEF Remembers
  <2> HIDE DEF AllScreens
  <2> QED  BY <1>3, <1>5, <1>9, <1>10, <2>1 DEF Servers
<1>13. typed' = SubSeq(typed, has - had + 1, Len(typed))
  BY <1>1 DEF had, has
<1>14. typed' \in Seq(Inputs) /\ Len(typed') = Len(typed) - (has - had)
  <2> DEFINE cut == has - had
  <2>1. cut \in 0..Len(typed) /\ typed' = SubSeq(typed, cut + 1, Len(typed))
    BY <1>8, <1>13
  <2> HIDE DEF cut
  <2>2. \A i \in cut + 1..Len(typed) : i \in 1..Len(typed) /\ typed[i] \in Inputs
    BY <1>4, <2>1
  <2>3. typed' \in Seq(Inputs) /\ Len(typed') = Len(typed) - cut
    BY <1>4, <2>1, <2>2
  <2> QED  BY <2>3 DEF cut
<1>15. UNCHANGED <<predictions, view, acked, frames, keyboard>>
  BY DEF ServerReceives
<1>16. Pushed' = Pushed
  <2>1. Pushed' = has + Len(typed')
    BY <1>10, <1>15 DEF Pushed, Carried, has
  <2> QED  BY <1>4, <1>6, <1>7, <1>14, <2>1
<1>17. /\ server'.frame <= Len(frames) /\ server'.frame >= server.frame
       /\ server'.echo_ack >= server.echo_ack /\ server'.echo_ack <= server'.frame
  BY <1>3, <1>4, <1>5, <1>10
<1> QED  BY <1>10, <1>11, <1>12, <1>14, <1>15, <1>16, <1>17, ServerSteps

(* The application answers a key.                                          *)
LEMMA ApplicationReactsIs ==
  ASSUME IInv, ApplicationReacts
  PROVE  IInv' /\ server'.echo_ack = server.echo_ack
<1>1. server.pty # <<>>
  BY DEF ApplicationReacts
<1>2. PICK fb \in Reactions(server.fb, Head(server.pty).input) :
        server' = [server EXCEPT !.fb = fb, !.pty = Tail(@)]
  BY DEF ApplicationReacts
<1>3. StreamIs /\ ServerIs
  BY DEF IInv
<1>4. /\ server \in Servers
      /\ Remembers(server.input_history, server.echo_ack, server.frame)
      /\ server.echo_ack <= server.frame /\ server.frame <= Len(frames)
      /\ server.frame \in Nat /\ server.echo_ack \in Nat
  BY <1>3, ServerFields DEF Servers
<1>5. server.pty \in Seq(Press) /\ Head(server.pty) \in Press /\ Tail(server.pty) \in Seq(Press)
  <2>1. server.pty \in Seq(Press)
    BY <1>4 DEF Servers
  <2> QED  BY <1>1, <2>1
<1>6. Head(server.pty).input \in Keys
  BY <1>5 DEF Press
<1>7. fb \in AllScreens
  <2>1. PICK w \in Dimension, h \in Dimension : server.fb \in Screens(w, h)
    BY <1>4 DEF Servers, AllScreens
  <2>2. fb \in Screens(w, h)
    BY <1>2, <1>6, <2>1, ReactionsAre
  <2> QED  BY <2>2 DEF AllScreens
<1> DEFINE pty == Tail(server.pty)
<1>8. server' = [server EXCEPT !.fb = fb, !.pty = pty]
  BY <1>2, <1>4 DEF Servers
<1> HIDE DEF pty
<1>9. /\ server' \in Servers /\ server'.frame = server.frame
      /\ server'.echo_ack = server.echo_ack /\ server'.input_history = server.input_history
  <2> HIDE DEF AllScreens
  <2> QED  BY <1>4, <1>5, <1>7, <1>8 DEF Servers, pty
<1>10. UNCHANGED <<predictions, view, acked, typed, frames, keyboard>>
  BY DEF ApplicationReacts
<1>11. Pushed' = Pushed
  BY <1>9, <1>10 DEF Pushed, Carried
<1>12. typed' \in Seq(Inputs)
  BY <1>3, <1>10 DEF StreamIs
<1> QED  BY <1>4, <1>9, <1>10, <1>11, <1>12, ServerSteps

(* The echo of the old frames is acknowledged.                             *)
LEMMA EchoTimesOutIs ==
  ASSUME IInv, EchoTimesOut
  PROVE  IInv' /\ server'.echo_ack \in server.echo_ack..server'.frame
<1>1. PICK old \in 0..Len(server.input_history) :
        /\ \A i \in old + 1..Len(server.input_history) :
             server.input_history[i] > server.echo_ack
        /\ server' = SetEchoAck(server, old)
  BY DEF EchoTimesOut
<1>2. StreamIs /\ ServerIs
  BY DEF IInv
<1>3. /\ server \in Servers
      /\ Remembers(server.input_history, server.echo_ack, server.frame)
      /\ server.echo_ack <= server.frame /\ server.frame <= Len(frames)
      /\ server.frame \in Nat /\ server.echo_ack \in Nat
  BY <1>2, ServerFields DEF Servers
<1> DEFINE newest == IF old = 0 THEN 0 ELSE server.input_history[old]
           left == Only(server.input_history, {f \in Range(server.input_history) : f >= newest})
<1>4. newest \in server.echo_ack..server.frame /\ Remembers(left, newest, server.frame)
  BY <1>1, <1>3, OldDropped
<1>5. server' = [server EXCEPT !.input_history = left, !.echo_ack = newest]
  BY <1>1 DEF SetEchoAck
<1> HIDE DEF newest, left
<1>6. left \in History /\ newest \in Nat
  BY <1>3, <1>4 DEF Remembers
<1>7. /\ server' \in Servers /\ server'.frame = server.frame
      /\ server'.echo_ack = newest /\ server'.input_history = left
  <2> HIDE DEF AllScreens
  <2> QED  BY <1>3, <1>5, <1>6 DEF Servers
<1>8. UNCHANGED <<predictions, view, acked, typed, frames, keyboard>>
  BY DEF EchoTimesOut
<1>9. Pushed' = Pushed
  BY <1>7, <1>8 DEF Pushed, Carried
<1>10. typed' \in Seq(Inputs)
  BY <1>2, <1>8 DEF StreamIs
<1>11. /\ server'.frame <= Len(frames) /\ server'.frame >= server.frame
       /\ server'.echo_ack >= server.echo_ack /\ server'.echo_ack <= server'.frame
       /\ Remembers(server'.input_history, server'.echo_ack, server'.frame)
  BY <1>3, <1>4, <1>6, <1>7
<1>12. UNCHANGED <<predictions, view, acked, frames, keyboard>>
  BY <1>8
<1>13. IInv'
  BY <1>7, <1>9, <1>10, <1>11, <1>12, ServerSteps
<1> QED  BY <1>3, <1>4, <1>7, <1>13

(* What came from the network leaves the engine ready for it.              *)
LEMMA HeardIs ==
  ASSUME IInv, NEW from \in News
  PROVE  LET heard == Heard(from)
             late == heard.view.echo_ack
         IN  /\ Ready(heard.e, view.echo_ack, late, Top, heard.acked)
             /\ IsScreen(heard.view.fb) /\ heard.view \in [fb : {heard.view.fb}, echo_ack : Nat]
             /\ view.echo_ack \in Nat /\ late \in Nat /\ heard.acked \in Nat
             /\ view.echo_ack <= late /\ late <= server.echo_ack
             /\ late <= heard.acked /\ heard.acked <= server.frame
<1>1. StreamIs /\ ServerIs /\ ViewIs /\ PredictionsAre
  BY DEF IInv
<1>2. /\ IsScreen(server.fb) /\ server.frame \in Nat /\ server.echo_ack \in Nat
      /\ server.echo_ack <= server.frame
  BY <1>1 DEF ServerIs
<1>3. /\ IsScreen(view.fb) /\ view \in [fb : {view.fb}, echo_ack : Nat] /\ view.echo_ack \in Nat
      /\ view.echo_ack <= server.echo_ack /\ view.echo_ack <= acked
      /\ acked <= server.frame /\ acked \in Nat
  BY <1>1 DEF ViewIs
<1>4. Ready(predictions, view.echo_ack, view.echo_ack, Top, acked)
  BY <1>1 DEF PredictionsAre, Ready
<1>5. /\ Ready([predictions EXCEPT !.local_frame_acked = server.frame],
               view.echo_ack, view.echo_ack, Top, server.frame)
      /\ Ready([predictions EXCEPT !.local_frame_acked = server.frame,
                                   !.local_frame_late_acked = server.echo_ack],
               view.echo_ack, server.echo_ack, Top, server.frame)
  <2> DEFINE n == server.frame
             late == server.echo_ack
  <2>1. n \in Int /\ late \in Int
    BY <1>2
  <2> HIDE DEF n, late
  <2>2. /\ Ready([predictions EXCEPT !.local_frame_acked = n],
                 view.echo_ack, view.echo_ack, Top, n)
        /\ Ready([predictions EXCEPT !.local_frame_acked = n, !.local_frame_late_acked = late],
                 view.echo_ack, late, Top, n)
    BY <1>4, <2>1 DEF Ready, Engine
  <2> QED  BY <2>2 DEF n, late
<1>6. CASE from = "nothing"
  BY <1>3, <1>4, <1>6 DEF Heard
<1>7. CASE from = "ack"
  <2>1. Heard(from) = [e |-> [predictions EXCEPT !.local_frame_acked = server.frame],
                       view |-> view, acked |-> server.frame]
    BY <1>7 DEF Heard
  <2> QED  BY <1>2, <1>3, <1>5, <2>1
<1>8. CASE from = "state"
  <2>1. Heard(from) =
          [e |-> [predictions EXCEPT !.local_frame_acked = server.frame,
                                     !.local_frame_late_acked = server.echo_ack],
           view |-> ServerScreen, acked |-> server.frame]
    BY <1>8 DEF Heard
  <2>2. ServerScreen = [fb |-> server.fb, echo_ack |-> server.echo_ack]
    BY DEF ServerScreen
  <2> QED  BY <1>2, <1>3, <1>5, <2>1, <2>2
<1>9. from \in {"nothing", "ack", "state"}
  BY DEF News
<1> QED  BY <1>6, <1>7, <1>8, <1>9

(* What a turn does to the stream, and to the newest frame a guess can be  *)
(* for.                                                                    *)
LEMMA StreamTurns ==
  ASSUME IInv, NEW input \in {NoInput} \cup keyboard, NEW sends \in BOOLEAN,
         sends => input # NoInput \/ Pushed > Carried(Len(frames)),
         typed' = IF input = NoInput THEN typed ELSE Append(typed, input),
         frames' = IF sends THEN Append(frames, Pushed + (IF input = NoInput THEN 0 ELSE 1))
                   ELSE frames,
         UNCHANGED <<server, keyboard>>
  PROVE  /\ StreamIs' /\ ServerIs' /\ Len(frames) \in Nat /\ Top \in Nat
         /\ Top' = (IF input = NoInput THEN Top ELSE Len(frames) + 1) /\ Top <= Top'
<1> DEFINE k == IF input = NoInput THEN 0 ELSE 1
           N == Len(frames)
           P == Pushed
           next == P + k
<1>1. StreamIs /\ ServerIs
  BY DEF IInv
<1>2. /\ keyboard \subseteq Inputs /\ typed \in Seq(Inputs) /\ frames \in Seq(Nat) /\ P \in Nat
      /\ \A i, j \in 1..N : i <= j => frames[i] <= frames[j]
      /\ \A i \in 1..N : frames[i] <= P /\ frames[i] \in Nat
      /\ N \in Nat /\ Len(typed) \in Nat
  BY <1>1 DEF StreamIs
<1>3. server.frame \in Nat /\ server.frame <= N
  BY <1>1 DEF ServerIs
<1>4. typed' \in Seq(Inputs) /\ Len(typed') = Len(typed) + k /\ k \in {0, 1}
  BY <1>2
<1>5. /\ frames' = IF sends THEN Append(frames, next) ELSE frames
      /\ next \in Nat
  BY <1>2
<1>6. input # NoInput => k = 1
  OBVIOUS
<1>7. input = NoInput => k = 0
  OBVIOUS
<1> HIDE DEF k
<1>8. /\ \A i \in 1..N : frames'[i] = frames[i]
      /\ sends => Len(frames') = N + 1 /\ frames'[N + 1] = next
      /\ ~ sends => Len(frames') = N
      /\ frames' \in Seq(Nat)
  BY <1>2, <1>5
<1>9. \A m \in 0..N : Carried(m)' = Carried(m)
  <2> SUFFICES ASSUME NEW m \in 0..N PROVE Carried(m)' = Carried(m)
    OBVIOUS
  <2>1. m # 0 => m \in 1..N
    BY <1>2
  <2> QED  BY <1>8, <2>1 DEF Carried
<1>10. Pushed' = next
  <2>1. P = Carried(server.frame) + Len(typed)
    BY DEF Pushed
  <2>2. Pushed' = Carried(server.frame)' + Len(typed')
    BY DEF Pushed
  <2>3. server.frame \in 0..N
    BY <1>2, <1>3
  <2>4. Carried(server.frame)' = Carried(server.frame)
    BY <1>9, <2>3 DEF Carried
  <2>5. Carried(server.frame) \in Nat
    BY <1>1, <1>2, <2>3, CarriedGrows
  <2> QED  BY <1>2, <1>4, <2>1, <2>2, <2>4, <2>5
<1>11. Carried(N) \in Nat /\ Carried(N) <= P
  BY <1>1, <1>2, CarriedGrows
<1>12. Top = N + (IF P > Carried(N) THEN 1 ELSE 0)
  BY DEF Top
<1>13. sends => k = 1 \/ P > Carried(N)
  BY <1>6
<1> HIDE DEF P, next
<1>14. next = P + k
  BY DEF next
<1>15. StreamIs'
  <2>1. \A i \in 1..Len(frames') : frames'[i] <= next
    <3>1. \A i \in 1..N + 1 : i \in 1..N \/ i = N + 1
      BY <1>2
    <3> QED  BY <1>2, <1>4, <1>8, <1>14, <3>1
  <2>2. \A i, j \in 1..Len(frames') : i <= j => frames'[i] <= frames'[j]
    <3> SUFFICES ASSUME NEW i \in 1..Len(frames'), NEW j \in 1..Len(frames'), i <= j
                 PROVE  frames'[i] <= frames'[j]
      OBVIOUS
    <3>1. CASE j \in 1..N
      <4>1. i \in 1..N
        BY <1>2, <3>1
      <4> QED  BY <1>2, <1>8, <3>1, <4>1
    <3>2. CASE j \notin 1..N
      <4>1. j = N + 1 /\ sends
        BY <1>2, <1>8, <3>2
      <4> QED  BY <1>8, <2>1, <4>1
    <3> QED  BY <3>1, <3>2
  <2>3. keyboard' \subseteq Inputs
    BY <1>2
  <2> QED  BY <1>4, <1>5, <1>8, <1>10, <2>1, <2>2, <2>3 DEF StreamIs
<1>16. ServerIs'
  <2>1. server.frame <= Len(frames')
    BY <1>2, <1>3, <1>8
  <2> QED  BY <1>1, <2>1 DEF ServerIs
<1>17. Top' = (IF k = 0 THEN Top ELSE N + 1)
  <2>1. CASE sends
    <3>1. Carried(Len(frames))' = next
      BY <1>2, <1>8, <2>1 DEF Carried
    <3>2. Top' = N + 1
      BY <1>2, <1>5, <1>8, <1>10, <2>1, <3>1 DEF Top
    <3> QED  BY <1>2, <1>4, <1>12, <1>13, <2>1, <3>2
  <2>2. CASE ~ sends
    <3>1. Carried(Len(frames))' = Carried(N)
      BY <1>8, <1>5, <2>2 DEF Carried
    <3>2. Top' = N + (IF next > Carried(N) THEN 1 ELSE 0)
      BY <1>8, <1>10, <2>2, <3>1 DEF Top
    <3> QED  BY <1>2, <1>4, <1>11, <1>12, <1>14, <3>2
  <2> QED  BY <2>1, <2>2
<1> QED  BY <1>2, <1>4, <1>6, <1>7, <1>12, <1>15, <1>16, <1>17

(* A turn of the client's loop.                                            *)
LEMMA IterationIs ==
  ASSUME IInv, Iteration
  PROVE  IInv' /\ server' = server
<1>1. PICK from \in News,
           input \in {NoInput} \cup (IF Pushed < MaxEvents THEN keyboard ELSE {}),
           sends \in BOOLEAN :
        /\ sends => input # NoInput \/ Pushed > Carried(Len(frames))
        /\ Turn(from, input, sends)
  BY Zenon DEF Iteration
<1>2. UNCHANGED <<server, keyboard>>
  BY DEF Iteration
<1>3. input \in {NoInput} \cup keyboard
  BY <1>1
<1> DEFINE heard == Heard(from)
           fb == heard.view.fb
           late0 == view.echo_ack
           late == heard.view.echo_ack
           acks == heard.acked
           ready == heard.e
           handled == Handled(ready, input, fb)
           N == Len(frames)
           top == IF input = NoInput THEN Top ELSE N + 1
<1>4. /\ view' = heard.view /\ acked' = acks
      /\ predictions' = Cull(handled, fb)
  BY <1>1 DEF Turn
<1>5. /\ Ready(ready, late0, late, Top, acks) /\ IsScreen(fb)
      /\ heard.view \in [fb : {fb}, echo_ack : Nat]
      /\ late0 \in Nat /\ late \in Nat /\ acks \in Nat
      /\ late0 <= late /\ late <= server.echo_ack /\ late <= acks /\ acks <= server.frame
  BY HeardIs
<1>6. /\ StreamIs' /\ ServerIs' /\ N \in Nat /\ Top \in Nat
      /\ Top' = top /\ Top <= top
  <2>1. /\ typed' = IF input = NoInput THEN typed ELSE Append(typed, input)
        /\ frames' = IF sends THEN Append(frames, Pushed + (IF input = NoInput THEN 0 ELSE 1))
                     ELSE frames
    BY <1>1 DEF Turn
  <2> QED  BY <1>1, <1>2, <1>3, <2>1, StreamTurns
<1>7. /\ keyboard \subseteq Inputs
      /\ server.frame <= N /\ server.frame \in Nat
  BY DEF IInv, StreamIs, ServerIs
<1>8. /\ view'.fb = fb /\ view'.echo_ack = late
  BY <1>4
<1>9. ViewIs'
  BY <1>2, <1>4, <1>5 DEF ViewIs
<1>10. PICK w \in Dimension, h \in Dimension : fb \in Screens(w, h)
  BY <1>5, ScreensAre
<1>11. Width(fb) = w /\ Height(fb) = h
  BY <1>10, ScreenSizes
<1>12. input \in Keys => N + 1 = top
  <2>1. input \in Keys => input # NoInput
    BY KeysAre
  <2> QED  BY <2>1
<1>13. top \in Nat
  BY <1>6
<1> HIDE DEF heard, fb, late0, late, acks, ready, top
<1>14. Ready(ready, late0, late, top, acks)
  <2>1. ready \in Engine(ready.last_width, ready.last_height, late0, Top)
    BY <1>5 DEF Ready
  <2>2. ready \in Engine(ready.last_width, ready.last_height, late0, top)
    BY <1>5, <1>6, <1>13, <2>1, EngineGrows
  <2> QED  BY <1>5, <2>2 DEF Ready
<1>15. input \in Inputs \cup {NoInput}
  BY <1>3, <1>7
<1>16. input \in Keys => N \in Nat /\ N + 1 = top /\ late < top
  BY <1>5, <1>6, <1>7, <1>12
<1>17. Ready(handled, late0, late, top, acks)
  BY <1>5, <1>10, <1>13, <1>14, <1>15, <1>16, HandledIs
<1> HIDE DEF handled, N
<1>18. /\ Cull(handled, fb) \in Engine(w, h, late, top)
       /\ Cull(handled, fb).last_width = w /\ Cull(handled, fb).last_height = h
       /\ Cull(handled, fb).local_frame_acked = acks
       /\ Cull(handled, fb).local_frame_late_acked = late
  BY <1>5, <1>10, <1>13, <1>17, CullIs DEF Ready
<1>19. PredictionsAre'
  BY <1>4, <1>6, <1>8, <1>11, <1>18 DEF PredictionsAre
<1> QED  BY <1>2, <1>6, <1>9, <1>19 DEF IInv

(* Nothing changes, and the invariant with it.                             *)
LEMMA StuttersKeep ==
  ASSUME IInv, UNCHANGED vars
  PROVE  IInv'
<1>1. UNCHANGED <<predictions, view, acked, typed, frames, server, keyboard>>
  BY DEF vars
<1> QED  BY <1>1 DEF IInv, StreamIs, ServerIs, ViewIs, PredictionsAre, Pushed, Carried, Top

(* Every step keeps the invariant, and the echo acknowledgement never goes *)
(* back.                                                                   *)
LEMMA StepsKeep ==
  ASSUME IInv, [Next]_vars
  PROVE  IInv' /\ (vars' # vars => server'.echo_ack \in server.echo_ack..server'.frame)
<1>1. server.echo_ack <= server.frame /\ server.echo_ack \in Nat /\ server.frame \in Nat
  BY DEF IInv, ServerIs
<1>2. CASE ServerReceives
  <2>1. IInv' /\ server'.echo_ack = server.echo_ack
    BY <1>2, ServerReceivesIs
  <2>2. server'.echo_ack <= server'.frame /\ server'.frame \in Nat
    BY <2>1 DEF IInv, ServerIs
  <2> QED  BY <1>1, <2>1, <2>2
<1>3. CASE ApplicationReacts
  <2>1. IInv' /\ server'.echo_ack = server.echo_ack
    BY <1>3, ApplicationReactsIs
  <2>2. server'.echo_ack <= server'.frame /\ server'.frame \in Nat
    BY <2>1 DEF IInv, ServerIs
  <2> QED  BY <1>1, <2>1, <2>2
<1>4. CASE EchoTimesOut
  BY <1>4, EchoTimesOutIs
<1>5. CASE Iteration
  <2>1. IInv' /\ server' = server
    BY <1>5, IterationIs
  <2> QED  BY <1>1, <2>1
<1>6. CASE UNCHANGED vars
  BY <1>6, StuttersKeep
<1> QED  BY <1>2, <1>3, <1>4, <1>5, <1>6 DEF Next

(* The invariant says what the type does.                                  *)
LEMMA EngineTyped ==
  ASSUME IInv
  PROVE  TypeOK
<1> DEFINE e == predictions
           w == Width(view.fb)
           h == Height(view.fb)
           late == view.echo_ack
           N == Len(frames)
<1>1. StreamIs /\ ServerIs /\ ViewIs /\ PredictionsAre
  BY DEF IInv
<1>2. N \in Nat /\ late \in Nat /\ Top \in Nat /\ Top <= N + 1
  BY <1>1 DEF StreamIs, ViewIs, Top
<1>3. e \in Engine(w, h, late, Top) /\ e.last_height = h /\ e.last_width = w
  BY <1>1 DEF PredictionsAre
<1>4. view.echo_ack <= acked /\ acked <= server.frame /\ server.frame <= N
  BY <1>1 DEF ViewIs, ServerIs
<1>5. \A row, col : row \in Below(h) /\ col \in Below(w) => InScreen(view.fb, row, col)
  BY DEF InScreen, Below
<1> HIDE DEF e, w, h, late, N
<1>6. /\ e.overlays \in Seq(Row(w, h, late, Top)) /\ OneToARow(e.overlays)
      /\ e.cursors \in Seq(Place(w, h, late, Top))
      /\ e.in_flight \in Seq(Keystroke(late, Top)) /\ InOrder(e.in_flight)
  BY <1>3 DEF Engine, Rows, Places, Keystrokes
<1>7. \A i, j \in DOMAIN e.overlays : e.overlays[i].row_num = e.overlays[j].row_num => i = j
  BY <1>6 DEF OneToARow
<1>8. ASSUME NEW r \in Range(e.overlays)
      PROVE  /\ r.row_num \in 0..h - 1 /\ DOMAIN r.cells = 0..w - 1
             /\ \A c \in Range(r.cells) : c.active =>
                  /\ c.expiration <= N + 1
                  /\ c.expiration <= late => c.replacement = Blank
  <2>1. r \in Row(w, h, late, Top)
    BY <1>6 DEF Range
  <2>2. r.row_num \in Below(h) /\ r.cells \in [Below(w) -> Cell(late, Top)]
    BY <2>1 DEF Row, CellRow
  <2>3. \A c \in Range(r.cells) : c \in Cell(late, Top)
    BY <2>2 DEF Range
  <2>4. \A c \in Cell(late, Top) : c.active =>
          c.expiration <= N + 1 /\ (c.expiration <= late => c.replacement = Blank)
    <3>1. \A c \in Cell(late, Top) : c.active =>
            /\ c.expiration \in Int /\ c.expiration <= Top
            /\ c.expiration <= late => c.replacement = Blank
      BY DEF Cell, Guess, Ripe
    <3> QED  BY <1>2, <3>1
  <2> QED  BY <2>2, <2>3, <2>4 DEF Below
<1>9. \A c \in Range(e.cursors) :
        c.row \in Below(h) /\ c.col \in Below(w) /\ c.expiration \in late + 1..N + 1
  <2>1. \A c \in Range(e.cursors) : c \in Place(w, h, late, Top)
    BY <1>6 DEF Range
  <2> QED  BY <1>2, <2>1 DEF Place, After
<1>10. \A i \in 1..Len(e.in_flight) - 1 : e.in_flight[i].frame <= e.in_flight[i + 1].frame
  <2>1. Len(e.in_flight) \in Nat
    BY <1>6
  <2>2. \A i \in 1..Len(e.in_flight) - 1 :
          i \in 1..Len(e.in_flight) /\ i + 1 \in 1..Len(e.in_flight) /\ i <= i + 1
    BY <2>1
  <2> QED  BY <1>6, <2>2 DEF InOrder
<1>11. \A k \in Range(e.in_flight) : k.frame \in late + 1..N + 1
  <2>1. \A k \in Range(e.in_flight) : k \in Keystroke(late, Top)
    BY <1>6 DEF Range
  <2> QED  BY <1>2, <2>1 DEF Keystroke, After
<1> QED  BY <1>3, <1>4, <1>5, <1>7, <1>8, <1>9, <1>10, <1>11 DEF TypeOK, e, w, h, late, N

(* A screen but for erasures.                                              *)
Erased(fb, w, h) ==
  {s \in Screens(w, h) :
     /\ s.row = fb.row /\ s.col = fb.col
     /\ \A row \in Below(h), col \in Below(w) :
          CharAt(s, row, col) = CharAt(fb, row, col) \/ CharAt(s, row, col) = Blank}

(* A row of erasures drawn over such a screen leaves one.                  *)
LEMMA RowErases ==
  ASSUME NEW w \in Dimension, NEW h \in Dimension, NEW fb \in Screens(w, h),
         NEW n \in Nat, NEW row \in Row(w, h, n, n), NEW s \in Erased(fb, w, h), NEW epoch
  PROVE  ApplyRow(s, row, epoch) \in Erased(fb, w, h)
<1> DEFINE y == row.row_num + 1
           old == s.rows[y]
           line == [i \in DOMAIN old |-> IF i - 1 \notin DOMAIN row.cells THEN old[i]
                                         ELSE ApplyCell(row.cells[i - 1], old[i], epoch)]
           put == [s EXCEPT !.rows[y] = line]
<1>1. /\ s \in Screens(w, h) /\ s.row = fb.row /\ s.col = fb.col
      /\ \A r \in Below(h), col \in Below(w) :
           CharAt(s, r, col) = CharAt(fb, r, col) \/ CharAt(s, r, col) = Blank
  BY DEF Erased
<1>2. s.rows \in [1..h -> [1..w -> Int]] /\ w \in Nat /\ h \in Nat
  BY <1>1 DEF Screens, Dimension
<1>3. row.row_num \in Below(h) /\ row.cells \in [Below(w) -> Cell(n, n)]
  BY DEF Row, CellRow
<1>4. Height(s) = h
  BY <1>1, ScreenSizes
<1>5. ApplyRow(s, row, epoch) = put
  BY <1>3, <1>4 DEF ApplyRow, Below
<1>6. y \in 1..h /\ old \in [1..w -> Int]
  <2>1. y \in 1..h
    BY <1>2, <1>3 DEF Below
  <2> HIDE DEF y
  <2> QED  BY <1>2, <2>1
<1> HIDE DEF old
<1>7. \A cell \in Cell(n, n) : \A current : ApplyCell(cell, current, epoch) \in {current, Blank}
  BY DEF Cell, Guess, Ripe, ApplyCell
<1>8. \A i \in 1..w : line[i] \in {old[i], Blank}
  <2> SUFFICES ASSUME NEW i \in 1..w PROVE line[i] \in {old[i], Blank}
    OBVIOUS
  <2>1. i - 1 \in Below(w)
    BY <1>2 DEF Below
  <2>2. line[i] = ApplyCell(row.cells[i - 1], old[i], epoch) /\ row.cells[i - 1] \in Cell(n, n)
    BY <1>3, <1>6, <2>1
  <2> QED  BY <1>7, <2>2
<1>9. line \in [1..w -> Int]
  <2>1. DOMAIN line = 1..w /\ line = [i \in 1..w |-> line[i]]
    BY <1>6
  <2> HIDE DEF line
  <2> QED  BY <1>6, <1>8, <2>1 DEF Blank
<1> HIDE DEF y, line
<1>10. put \in Screens(w, h) /\ put.row = fb.row /\ put.col = fb.col
       /\ put.rows = [s.rows EXCEPT ![y] = line]
  BY <1>1, <1>9 DEF Screens
<1> HIDE DEF put
<1>11. ASSUME NEW r \in Below(h), NEW col \in Below(w)
       PROVE  CharAt(put, r, col) = CharAt(fb, r, col) \/ CharAt(put, r, col) = Blank
  <2>1. r + 1 \in 1..h /\ col + 1 \in 1..w
    BY <1>2 DEF Below
  <2>2. CharAt(put, r, col) \in {CharAt(s, r, col), Blank}
    <3>1. CASE r + 1 = y
      <4>1. CharAt(put, r, col) = line[col + 1]
        BY <1>2, <1>6, <1>10, <3>1 DEF CharAt
      <4>2. CharAt(s, r, col) = old[col + 1]
        BY <3>1 DEF CharAt, old
      <4> QED  BY <1>8, <2>1, <4>1, <4>2
    <3>2. CASE r + 1 # y
      BY <1>2, <1>10, <2>1, <3>2 DEF CharAt
    <3> QED  BY <3>1, <3>2
  <2> QED  BY <1>1, <2>2
<1> QED  BY <1>5, <1>10, <1>11 DEF Erased

RowsDrawn == INSTANCE FoldLemmas WITH Op <- PutRow
CursorsDrawn == INSTANCE FoldLemmas WITH Op <- PutCursor

(* The folds over the rows and over the cursors drawn.                     *)
LEMMA DrawnFolds ==
  /\ \A base, seq : RowsDrawn!Folded(base, seq) = InTurn(PutRow, base, seq)
  /\ \A base, seq : CursorsDrawn!Folded(base, seq) = InTurn(PutCursor, base, seq)
<1>1. \A base, seq : RowsDrawn!Folded(base, seq) = InTurn(PutRow, base, seq)
  BY Zenon DEF InTurn, RowsDrawn!InTurn, RowsDrawn!Folded
<1>2. \A base, seq : CursorsDrawn!Folded(base, seq) = InTurn(PutCursor, base, seq)
  BY Zenon DEF InTurn, CursorsDrawn!InTurn, CursorsDrawn!Folded
<1> QED  BY <1>1, <1>2

(* An engine that has no frame to wait for shows the server's screen, but  *)
(* for erasures.                                                           *)
LEMMA AwaitsNothing ==
  ASSUME NEW w \in Dimension, NEW h \in Dimension, NEW fb \in Screens(w, h),
         NEW n \in Nat, NEW e \in Engine(w, h, n, n)
  PROVE  Apply(e, fb) \in Erased(fb, w, h)
<1> DEFINE epoch == e.confirmed_epoch
           V == Erased(fb, w, h)
           R == Row(w, h, n, n)
           rows == With(epoch, e.overlays)
           S == Items(epoch, R)
           moved == InTurn(PutCursor, fb, With(epoch, e.cursors))
<1>1. e.overlays \in Seq(R) /\ e.cursors \in Seq(Place(w, h, n, n))
  BY DEF Engine, Rows, Places
<1>2. With(epoch, e.cursors) = <<>>
  <2>1. Place(w, h, n, n) = {}
    BY DEF Place, After
  <2>2. e.cursors = <<>>
    BY <1>1, <2>1
  <2> QED  BY <2>2 DEF With
<1>3. moved = fb
  <2>1. CursorsDrawn!Folded(fb, <<>>) = fb
    BY CursorsDrawn!FoldedEmpty
  <2> QED  BY <1>2, <2>1, DrawnFolds, Zenon
<1>4. Apply(e, fb) = InTurn(PutRow, moved, rows)
  BY Zenon DEF Apply
<1> HIDE DEF moved
<1>5. rows \in Seq(S)
  <2> HIDE DEF R
  <2> QED  BY <1>1, WithIs
<1>6. RowsDrawn!Closed(V, S)
  <2>1. ASSUME NEW s \in V, NEW at \in S
        PROVE  PutRow(s, at) \in V
    <3>1. at.item \in Row(w, h, n, n)
      BY DEF Items
    <3> QED  BY <3>1, RowErases DEF PutRow
  <2> HIDE DEF V, S
  <2> QED  BY <2>1, Zenon DEF RowsDrawn!Closed
<1>7. fb \in V
  BY DEF Erased
<1> HIDE DEF V, S, rows
<1>8. RowsDrawn!Folded(fb, rows) \in V
  BY <1>5, <1>6, <1>7, RowsDrawn!FoldedType, Zenon
<1> QED  BY <1>3, <1>4, <1>8, DrawnFolds, Zenon DEF V

(* Once all is settled there is no frame to wait for.                      *)
LEMMA SettledIs ==
  ASSUME IInv
  PROVE  SettledShowsScreen
<1> SUFFICES ASSUME Settled
             PROVE  /\ Shown.row = server.fb.row /\ Shown.col = server.fb.col
                    /\ \A row \in 0..Height(Shown) - 1, col \in 0..Width(Shown) - 1 :
                         \/ CharAt(Shown, row, col) = CharAt(server.fb, row, col)
                         \/ CharAt(Shown, row, col) = Blank
  BY DEF SettledShowsScreen
<1> DEFINE N == Len(frames)
           fb == server.fb
<1>1. typed = <<>> /\ view.fb = fb /\ view.echo_ack = N
  BY DEF Settled
<1>2. StreamIs /\ ServerIs /\ ViewIs /\ PredictionsAre
  BY DEF IInv
<1>3. N \in Nat /\ server.frame = N
  <2>1. N \in Nat /\ server.frame \in Nat /\ server.frame <= N
    BY <1>2 DEF StreamIs, ServerIs
  <2>2. N <= acked /\ acked <= server.frame /\ acked \in Nat
    BY <1>1, <1>2 DEF ViewIs
  <2> HIDE DEF N
  <2> QED  BY <2>1, <2>2
<1>4. Top = N
  <2>1. Carried(N) \in Nat
    BY <1>2, <1>3, CarriedGrows
  <2>2. Pushed = Carried(N)
    BY <1>1, <1>3, <2>1 DEF Pushed
  <2> QED  BY <1>3, <2>1, <2>2 DEF Top
<1>5. PICK w \in Dimension, h \in Dimension : fb \in Screens(w, h)
  BY <1>2, ScreensAre DEF ServerIs
<1>6. Width(fb) = w /\ Height(fb) = h
  BY <1>5, ScreenSizes
<1>7. predictions \in Engine(w, h, N, N)
  BY <1>1, <1>2, <1>4, <1>6 DEF PredictionsAre
<1>8. Shown \in Erased(fb, w, h)
  <2> HIDE DEF N, fb
  <2> QED  BY <1>1, <1>3, <1>5, <1>7, AwaitsNothing DEF Shown
<1> HIDE DEF fb
<1>9. /\ Shown \in Screens(w, h) /\ Shown.row = fb.row /\ Shown.col = fb.col
      /\ \A row \in Below(h), col \in Below(w) :
           CharAt(Shown, row, col) = CharAt(fb, row, col) \/ CharAt(Shown, row, col) = Blank
  BY <1>8 DEF Erased
<1>10. Width(Shown) = w /\ Height(Shown) = h
  BY <1>9, ScreenSizes
<1> QED  BY <1>9, <1>10 DEF Below, fb

(***************************************************************************)
(* Theorems.                                                               *)
(***************************************************************************)
(* Each step keeps the engine within what IInv allows, for the screen the  *)
(* client has and the frames there are.                                    *)
THEOREM Invariance == Spec => []IInv
<1>1. Init => IInv
  BY InitIs
<1>2. IInv /\ [Next]_vars => IInv'
  BY StepsKeep
<1> QED  BY <1>1, <1>2, PTL DEF Spec

(* The engine is well formed, whatever is typed and whatever comes.        *)
THEOREM TypeCorrect == Spec => []TypeOK
<1>1. IInv => TypeOK
  BY EngineTyped
<1> QED  BY <1>1, Invariance, PTL

(* Once everything typed was received, answered and acknowledged and the   *)
(* client has seen it, it shows the server's screen but for erasures.      *)
THEOREM AlwaysSettles == Spec => []SettledShowsScreen
<1>1. IInv => SettledShowsScreen
  BY SettledIs
<1> QED  BY <1>1, Invariance, PTL

(* The echo acknowledgement never goes back, nor ahead of the frames the   *)
(* server has.                                                             *)
THEOREM EchoAckForward == Spec => EchoAckAdvances
<1>1. IInv /\ [Next]_vars => [server'.echo_ack \in server.echo_ack..server'.frame]_vars
  BY StepsKeep
<1> QED  BY <1>1, Invariance, PTL DEF Spec, EchoAckAdvances
================================================================================
