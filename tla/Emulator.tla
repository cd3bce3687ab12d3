-------------------------------- MODULE Emulator -------------------------------
(***************************************************************************)
(* Parser, dispatcher and framebuffer wired together:                      *)
(* crates/mosh-terminal/src/emulator.rs.  An emulator is a record of the   *)
(* three; its framebuffer is what the rest of the program looks at.        *)
(***************************************************************************)
EXTENDS Dispatcher, Parser

CONSTANT WcWidth(_)   \* wcwidth of the C library, -1 for what does not print

NewEmulator(width, height) ==
  [fb |-> NewFramebuffer(width, height), dispatch |-> NewDispatcher, parser |-> NewParser]

(***************************************************************************)
(* Printing.                                                               *)
(***************************************************************************)
CharWidth(ch) ==
  CASE ch = 0                                    -> -1
    [] ch \in (32..126) \cup (160..255)          -> 1
    [] OTHER                                     -> WcWidth(ch)

NextLine(fb) == MoveRowsAutoscroll([fb EXCEPT !.ds = MoveCol(@, 0, FALSE)], 1)

(* Before a character is printed the cursor may have to wrap: because the  *)
(* one before filled the row, or because a wide one has no room.           *)
Wrapped(fb, chwidth) ==
  LET row == fb.ds.cursor_row
      col == fb.ds.cursor_col
  IN  IF "auto_wrap" \notin fb.ds.modes THEN fb
      ELSE IF fb.ds.next_print_will_wrap
      THEN NextLine([fb EXCEPT !.rows[row] = RowSetWrap(@, TRUE)])
      ELSE IF chwidth = 2 /\ col = fb.ds.width - 1
      THEN NextLine(ResetCells(fb, row, {col}))
      ELSE fb

(* The cell goes in at the cursor; a wide one covers the next.             *)
PutAtCursor(fb, cell, chwidth) ==
  LET row    == fb.ds.cursor_row
      col    == fb.ds.cursor_col
      opened == IF "insert" \in fb.ds.modes
                THEN InsertCells(fb, row, col, chwidth) ELSE fb
      placed == SetCell(opened, row, col, cell)
  IN  [IF chwidth = 2 THEN ResetCells(placed, row, {col + 1}) ELSE placed
         EXCEPT !.ds = MoveColImplicit(@, chwidth)]

PrintBase(fb, ch, chwidth) ==
  PutAtCursor(Wrapped(fb, chwidth),
              [AppendTo(NewCell(Background(fb)), ch) EXCEPT
                 !.wide = chwidth = 2,
                 !.renditions = fb.ds.renditions, !.hyperlink = fb.ds.hyperlink],
              chwidth)

(* A combining character joins the cell of the last base character.  When  *)
(* that cell is empty it is shown on a no-break space and takes a column.  *)
PrintCombining(fb, ch) ==
  LET row    == fb.ds.combining_char_row
      col    == fb.ds.combining_char_col
      cell   == CellAt(fb, row, col)
      joined == IF IsFull(cell) THEN cell ELSE AppendTo(cell, ch)
  IN  IF ~ HasCombiningCell(fb) THEN fb
      ELSE IF IsEmpty(cell)
      THEN [SetCell(fb, row, col, [joined EXCEPT !.fallback = TRUE])
              EXCEPT !.ds = MoveColImplicit(@, 1)]
      ELSE SetCell(fb, row, col, joined)

PrintChar(fb, ch) ==
  CASE CharWidth(ch) \in {1, 2} -> PrintBase(fb, ch, CharWidth(ch))
    [] CharWidth(ch) = 0        -> PrintCombining(fb, ch)
    [] OTHER                    -> fb

(***************************************************************************)
(* A terminal told what to do by whole functions: printing, commands to    *)
(* the operating system, and those of the dispatch table.                  *)
(***************************************************************************)
Call(fb, f) ==
  CASE f.name = "print" -> InTurn(PrintChar, fb, f.p)
    [] f.name = "OSC"   -> OscDispatch(fb, f.p)
    [] OTHER            -> Dispatch(fb, f.name, f.p)

Run(fb, functions) == InTurn(Call, fb, functions)

(***************************************************************************)
(* One action of the parser.                                               *)
(***************************************************************************)
Execute(emu, name, p) ==
  [emu EXCEPT !.fb = Dispatch(@, name, p),
              !.dispatch.terminal_to_host = @ \o Reply(emu.fb, name, p)]

(* An escape sequence of one character from @ to _ is a control character  *)
(* of the upper range.                                                     *)
EscDispatch(emu, ch) ==
  LET upper == emu.dispatch.chars = <<>> /\ ch \in 64..95
      d     == IF upper THEN emu.dispatch ELSE Collect(emu.dispatch, ch)
  IN  Execute([emu EXCEPT !.dispatch = d],
              IF upper THEN ControlFunction(ch + 64) ELSE EscapeFunction(d.chars),
              <<>>)

CsiDispatch(emu, ch) ==
  LET d == Collect(emu.dispatch, ch)
  IN  Execute([emu EXCEPT !.dispatch = d], CsiFunction(d.chars), ParsedParams(d))

ActOn(emu, a) ==
  CASE a.kind = "Print"       -> [emu EXCEPT !.fb = PrintChar(@, a.ch)]
    [] a.kind = "Execute"     -> Execute(emu, ControlFunction(a.ch), <<>>)
    [] a.kind = "Clear"       -> [emu EXCEPT !.dispatch = Clear(@)]
    [] a.kind = "Param"       -> [emu EXCEPT !.dispatch = NewParamChar(@, a.ch)]
    [] a.kind = "Collect"     -> [emu EXCEPT !.dispatch = Collect(@, a.ch)]
    [] a.kind = "EscDispatch" -> EscDispatch(emu, a.ch)
    [] a.kind = "CsiDispatch" -> CsiDispatch(emu, a.ch)
    [] a.kind = "OscStart"    -> [emu EXCEPT !.dispatch = OscStart(@)]
    [] a.kind = "OscPut"      -> [emu EXCEPT !.dispatch = OscPut(@, a.ch)]
    [] a.kind = "OscEnd"      -> [emu EXCEPT !.fb = OscDispatch(@, emu.dispatch.osc_string)]
    [] OTHER                  -> emu

(* Emulator::input, for one byte.                                          *)
InputByte(emu, byte) ==
  LET Through(parsed) == InTurn(ActOn, [emu EXCEPT !.parser = parsed.parser], parsed.actions)
  IN  Through(ParseByte(emu.parser, byte))

(* Taking the reply the terminal owes, and a resize.                       *)
TakeReply(emu) == [emu EXCEPT !.dispatch.terminal_to_host = <<>>]

ResizeEmulator(emu, width, height) == [emu EXCEPT !.fb = Resize(@, width, height)]
================================================================================
