------------------------------- MODULE Dispatcher ------------------------------
(***************************************************************************)
(* The functions an escape sequence or a control character runs:           *)
(* crates/mosh-terminal/src/dispatcher.rs.                                 *)
(*                                                                         *)
(* A function is a record of its name and its parameters, -1 where a       *)
(* parameter is missing or too large.  Call(fb, f) is the screen after it, *)
(* and Reply(fb, f) what the terminal owes the application.                *)
(***************************************************************************)
EXTENDS Screen

CONSTANTS
  PARAM_MAX,              \* 65535
  MAX_PARAM_BYTES,        \* 100
  MAX_DISPATCH_CHARS,     \* 8
  MAXIMUM_CLIPBOARD_SIZE, \* 16384
  MAX_TITLE               \* 256

ASSUME DispatcherConstants ==
  {PARAM_MAX, MAX_PARAM_BYTES, MAX_DISPATCH_CHARS, MAXIMUM_CLIPBOARD_SIZE, MAX_TITLE} \subseteq Nat

Fn(name, p) == [name |-> name, p |-> p]

(***************************************************************************)
(* Collecting a sequence.                                                  *)
(***************************************************************************)
NewDispatcher ==
  [params |-> <<>>, chars |-> <<>>, osc_string |-> <<>>, terminal_to_host |-> <<>>]

NewParamChar(d, ch) ==
  IF Len(d.params) < MAX_PARAM_BYTES THEN [d EXCEPT !.params = Append(@, ch)] ELSE d

Collect(d, ch) ==
  IF Len(d.chars) < MAX_DISPATCH_CHARS /\ ch <= 255
  THEN [d EXCEPT !.chars = Append(@, ch)] ELSE d

Clear(d) == [d EXCEPT !.params = <<>>, !.chars = <<>>]

OscPut(d, ch) ==
  IF Len(d.osc_string) < MAXIMUM_CLIPBOARD_SIZE
  THEN [d EXCEPT !.osc_string = Append(@, ch)] ELSE d

OscStart(d) == [d EXCEPT !.osc_string = <<>>]

(* The pieces of a string between its semicolons, at least one.            *)
AddToField(fields, ch) ==
  IF ch = 59 THEN Append(fields, <<>>)
  ELSE [fields EXCEPT ![Len(fields)] = Append(@, ch)]

Fields(s) == InTurn(AddToField, <<<<>>>>, s)

(* A number of digits, once it is too large no longer counted.             *)
AddDigit(value, digit) ==
  IF value > PARAM_MAX THEN value ELSE 10 * value + digit - 48

Number(digits) ==
  LET value == InTurn(AddDigit, 0, digits)
  IN  IF digits = <<>> \/ value > PARAM_MAX THEN -1 ELSE value

ParsedParams(d) == LET f == Fields(d.params) IN [i \in DOMAIN f |-> Number(f[i])]

(* Parameter n, counted from 0, or the default when it is absent, empty or *)
(* zero.                                                                   *)
GetParam(p, n, default) ==
  IF n + 1 \in DOMAIN p /\ p[n + 1] >= 1 THEN p[n + 1] ELSE default

(***************************************************************************)
(* The dispatch table, by the code points of the key.                      *)
(***************************************************************************)
CsiFunction(key) ==
  CASE key = <<75>>             -> "EL"
    [] key = <<74>>             -> "ED"
    [] key = <<65>>             -> "CUU"
    [] key = <<66>>             -> "CUD"
    [] key = <<67>>             -> "CUF"
    [] key = <<68>>             -> "CUB"
    [] key \in {<<72>>, <<102>>} -> "CUP"
    [] key = <<99>>             -> "DA"
    [] key = <<62, 99>>         -> "SDA"
    [] key = <<73>>             -> "CHT"
    [] key = <<90>>             -> "CBT"
    [] key = <<103>>            -> "TBC"
    [] key = <<63, 104>>        -> "DECSM"
    [] key = <<63, 108>>        -> "DECRM"
    [] key = <<104>>            -> "SM"
    [] key = <<108>>            -> "RM"
    [] key = <<114>>            -> "DECSTBM"
    [] key = <<109>>            -> "SGR"
    [] key = <<110>>            -> "DSR"
    [] key = <<76>>             -> "IL"
    [] key = <<77>>             -> "DL"
    [] key = <<64>>             -> "ICH"
    [] key = <<80>>             -> "DCH"
    [] key = <<100>>            -> "VPA"
    [] key \in {<<71>>, <<96>>}  -> "HPA"
    [] key = <<88>>             -> "ECH"
    [] key = <<33, 112>>        -> "DECSTR"
    [] key = <<83>>             -> "SD"
    [] key = <<84>>             -> "SU"
    [] OTHER                    -> "unknown"

EscapeFunction(key) ==
  CASE key = <<35, 56>> -> "DECALN"
    [] key = <<55>>     -> "DECSC"
    [] key = <<56>>     -> "DECRC"
    [] key = <<99>>     -> "RIS"
    [] OTHER            -> "unknown"

ControlFunction(ch) ==
  CASE ch \in {10, 11, 12, 132} -> "LF"
    [] ch = 13                  -> "CR"
    [] ch = 8                   -> "BS"
    [] ch = 141                 -> "RI"
    [] ch = 133                 -> "NEL"
    [] ch = 9                   -> "HT"
    [] ch = 136                 -> "HTS"
    [] ch = 7                   -> "BEL"
    [] OTHER                    -> "unknown"

(* Every function, an unknown one too, ends a pending wrap but for these.  *)
KeepsWrap == {"CHT", "CBT", "TBC", "DECSM", "DECRM", "SGR", "HT"}

(***************************************************************************)
(* The functions.                                                          *)
(***************************************************************************)
EraseInLine(fb, p) ==
  LET row == fb.ds.cursor_row
      col == fb.ds.cursor_col
  IN  CASE GetParam(p, 0, 0) = 0 -> ResetCells(fb, row, col..fb.ds.width - 1)
        [] GetParam(p, 0, 0) = 1 -> ResetCells(fb, row, 0..col)
        [] GetParam(p, 0, 0) = 2 -> ResetRows(fb, row, row)
        [] OTHER                 -> fb

EraseInDisplay(fb, p) ==
  LET row == fb.ds.cursor_row
      col == fb.ds.cursor_col
  IN  CASE GetParam(p, 0, 0) = 0 ->
             ResetRows(ResetCells(fb, row, col..fb.ds.width - 1), row + 1, fb.ds.height - 1)
        [] GetParam(p, 0, 0) = 1 -> ResetCells(ResetRows(fb, 0, row - 1), row, 0..col)
        [] GetParam(p, 0, 0) = 2 -> ResetRows(fb, 0, fb.ds.height - 1)
        [] OTHER                 -> fb

CursorMove(fb, name, p) ==
  LET n == GetParam(p, 0, 1)
  IN  [fb EXCEPT !.ds =
         CASE name = "CUU" -> MoveRow(@, -n, TRUE)
           [] name = "CUD" -> MoveRow(@, n, TRUE)
           [] name = "CUF" -> MoveCol(@, n, TRUE)
           [] name = "CUB" -> MoveCol(@, -n, TRUE)
           [] OTHER        -> MoveTo(@, n - 1, GetParam(p, 1, 1) - 1)]

(* Screen alignment: every cell an E, in the background of the moment.     *)
ScreenAlignment(fb) ==
  LET Filled(row) == [x \in DOMAIN row.cells |-> AppendTo(NewCell(Background(fb)), 69)]
  IN  [fb EXCEPT !.rows = [y \in DOMAIN @ |-> [cells |-> Filled(@[y]), gen |-> @[y].gen]]]

CarriageReturn(fb) == [fb EXCEPT !.ds = MoveCol(@, 0, FALSE)]

(* To the count-th tab stop, else to the end of the row: the only move     *)
(* that preserves a pending wrap.                                          *)
Tab(fb, count) ==
  LET stop == NextTab(fb.ds, count)
      col  == IF stop = -1 THEN fb.ds.width - 1 ELSE stop
  IN  [fb EXCEPT !.ds = [MoveCol(@, col, FALSE) EXCEPT
                           !.next_print_will_wrap = fb.ds.next_print_will_wrap]]

TabClear(fb, p) ==
  CASE GetParam(p, 0, 0) = 0 -> [fb EXCEPT !.ds = ClearTabs(@, {fb.ds.cursor_col})]
    [] GetParam(p, 0, 0) = 3 ->
         [fb EXCEPT !.ds = [ClearTabs(@, 0..fb.ds.width - 1) EXCEPT !.default_tabs = FALSE]]
    [] OTHER -> fb

(* The private modes that only switch something; 3 also clears the screen, *)
(* and 6 sends the cursor home before the origin moves.                    *)
ModeNames ==
  [param \in {1, 5, 7, 25, 1004, 1007, 2004} |->
     CASE param = 1    -> "application_mode_cursor_keys"
       [] param = 5    -> "reverse_video"
       [] param = 7    -> "auto_wrap"
       [] param = 25   -> "cursor_visible"
       [] param = 1004 -> "mouse_focus_event"
       [] param = 1007 -> "mouse_alternate_scroll"
       [] OTHER        -> "bracketed_paste"]

SetDecMode(fb, param, value) ==
  LET home == [fb EXCEPT !.ds = MoveTo(@, 0, 0)]
  IN  CASE param = 3 -> ResetRows(home, 0, fb.ds.height - 1)
        [] param = 6 -> [home EXCEPT !.ds = SetMode(@, "origin", value)]
        [] param \in DOMAIN ModeNames ->
             [fb EXCEPT !.ds = SetMode(@, ModeNames[param], value)]
        [] OTHER -> fb

PrivateMode(fb, change) ==
  LET param == change.param
      code  == IF change.value THEN param ELSE 0
  IN  CASE param \in {9} \cup (1000..1003) -> [fb EXCEPT !.ds.mouse_reporting_mode = code]
        [] param \in {1005, 1006, 1015}    -> [fb EXCEPT !.ds.mouse_encoding_mode = code]
        [] OTHER -> SetDecMode(fb, param, change.value)

(* Each parameter in turn.                                                 *)
PrivateModes(fb, p, value) ==
  InTurn(PrivateMode, fb,
         [i \in 1..Len(p) |-> [param |-> GetParam(p, i - 1, 0), value |-> value]])

(* Only insert mode is implemented.                                        *)
AnsiModes(fb, p, value) ==
  IF \E i \in 1..Len(p) : GetParam(p, i - 1, 0) = 4
  THEN [fb EXCEPT !.ds = SetMode(@, "insert", value)] ELSE fb

SetMargins(fb, p) ==
  LET top    == GetParam(p, 0, 1)
      bottom == GetParam(p, 1, fb.ds.height)
  IN  IF bottom <= top \/ top > fb.ds.height THEN fb
      ELSE [fb EXCEPT !.ds = MoveTo(SetScrollingRegion(@, top - 1, bottom - 1), 0, 0)]

(* The SGR parameters from position i on: an indexed colour takes three of *)
(* them, a true colour five, anything else one.                            *)
SgrStep(acc, p) ==
  LET i     == acc.at
      code  == GetParam(p, i, 0)
      left  == Len(p) - i
      Set(r, c) == IF code = 38 THEN SetForegroundColor(r, c) ELSE SetBackgroundColor(r, c)
  IN  CASE left <= 0 -> acc
        [] code \in {38, 48} /\ left >= 3 /\ GetParam(p, i + 1, -1) = 5 ->
             [at |-> i + 3, r |-> Set(acc.r, GetParam(p, i + 2, 0))]
        [] code \in {38, 48} /\ left >= 5 /\ GetParam(p, i + 1, -1) = 2 ->
             [at |-> i + 5,
              r |-> Set(acc.r, MakeTrueColor(GetParam(p, i + 2, 0), GetParam(p, i + 3, 0),
                                             GetParam(p, i + 4, 0)))]
        [] OTHER -> [at |-> i + 1, r |-> SetRendition(acc.r, code)]

SelectGraphics(fb, p) ==
  [fb EXCEPT !.ds.renditions =
     InTurn(SgrStep, [at |-> 0, r |-> @], [i \in 1..Len(p) |-> p]).r]

(* Lines come in or go at the cursor, which then goes to the first column. *)
InsertLines(fb, p) == CarriageReturn(InsertLine(fb, fb.ds.cursor_row, GetParam(p, 0, 1)))
DeleteLines(fb, p) == CarriageReturn(DeleteLine(fb, fb.ds.cursor_row, GetParam(p, 0, 1)))

EraseCharacters(fb, p) ==
  ResetCells(fb, fb.ds.cursor_row,
             fb.ds.cursor_col..fb.ds.cursor_col + GetParam(p, 0, 1) - 1)

(***************************************************************************)
(* Operating system commands.                                              *)
(***************************************************************************)
(* A query of palette entries or of a dynamic colour: every field is       *)
(* checked, since anything but a question would set the colour.            *)
IsColorQuery(osc) ==
  LET f == Fields(osc)
  IN  /\ \A i \in DOMAIN osc : osc[i] \in 32..126
      /\ \/ /\ f[1] = <<52>>
            /\ Len(f) > 1 /\ Len(f) % 2 = 1
            /\ \A i \in 2..Len(f) :
                 IF i % 2 = 0 THEN f[i] # <<>> /\ \A j \in DOMAIN f[i] : f[i][j] \in 48..57
                 ELSE f[i] = <<63>>
         \/ /\ \E d \in 48..57 : f[1] = <<49, d>>
            /\ Len(f) = 2 /\ f[2] = <<63>>

(* 8;params;url opens a link, and an empty url closes it.                  *)
Osc8(fb, osc) ==
  LET f      == Fields(osc)
      params == f[2]
      url    == SubSeq(osc, Len(params) + 4, Len(osc))
  IN  IF Len(f) < 3 \/ \E i \in DOMAIN osc : osc[i] \notin 32..126 THEN fb
      ELSE [fb EXCEPT !.ds.hyperlink =
              IF url = <<>> THEN NoLink ELSE [params |-> params, url |-> url]]

(* The number a title command begins with, -1 for none; a missing one is   *)
(* zero.                                                                   *)
OscCommand(osc) ==
  IF osc # <<>> /\ osc[1] = 59 THEN [number |-> 0, offset |-> 1]
  ELSE IF Len(osc) >= 2 /\ osc[2] = 59 THEN [number |-> osc[1] - 48, offset |-> 2]
  ELSE [number |-> -1, offset |-> 0]

SetTitles(fb, osc) ==
  LET cmd   == OscCommand(osc)
      title == SubSeq(osc, cmd.offset + 1, IF Len(osc) > MAX_TITLE THEN MAX_TITLE ELSE Len(osc))
  IN  IF cmd.number \notin {0, 1, 2} THEN fb
      ELSE [fb EXCEPT !.title_initialized = TRUE,
                      !.icon_name    = IF cmd.number \in {0, 1} THEN title ELSE @,
                      !.window_title = IF cmd.number \in {0, 2} THEN title ELSE @]

OscDispatch(fb, osc) ==
  CASE Len(osc) >= 5 /\ SubSeq(osc, 1, 5) = <<53, 50, 59, 99, 59>> ->
         SetClipboard(fb, SubSeq(osc, 6, Len(osc)))
    [] IsColorQuery(osc)          -> AddColorQuery(fb, osc)
    [] OscCommand(osc).number = 8 -> Osc8(fb, osc)
    [] OTHER                      -> SetTitles(fb, osc)

(***************************************************************************)
(* One function.                                                           *)
(***************************************************************************)
Perform(fb, name, p) ==
  CASE name = "EL"      -> EraseInLine(fb, p)
    [] name = "ED"      -> EraseInDisplay(fb, p)
    [] name \in {"CUU", "CUD", "CUF", "CUB", "CUP"} -> CursorMove(fb, name, p)
    [] name = "DECALN"  -> ScreenAlignment(fb)
    [] name = "LF"      -> MoveRowsAutoscroll(fb, 1)
    [] name = "CR"      -> CarriageReturn(fb)
    [] name = "BS"      -> [fb EXCEPT !.ds = MoveCol(@, -1, TRUE)]
    [] name = "RI"      -> MoveRowsAutoscroll(fb, -1)
    [] name = "NEL"     -> MoveRowsAutoscroll(CarriageReturn(fb), 1)
    [] name = "HT"      -> Tab(fb, 1)
    [] name = "CHT"     -> Tab(fb, GetParam(p, 0, 1))
    [] name = "CBT"     -> Tab(fb, -GetParam(p, 0, 1))
    [] name = "HTS"     -> [fb EXCEPT !.ds = SetTab(@)]
    [] name = "TBC"     -> TabClear(fb, p)
    [] name = "DECSM"   -> PrivateModes(fb, p, TRUE)
    [] name = "DECRM"   -> PrivateModes(fb, p, FALSE)
    [] name = "SM"      -> AnsiModes(fb, p, TRUE)
    [] name = "RM"      -> AnsiModes(fb, p, FALSE)
    [] name = "DECSTBM" -> SetMargins(fb, p)
    [] name = "BEL"     -> [fb EXCEPT !.bell_count = @ + 1]
    [] name = "SGR"     -> SelectGraphics(fb, p)
    [] name = "DECSC"   -> [fb EXCEPT !.ds = SaveCursor(@)]
    [] name = "DECRC"   -> [fb EXCEPT !.ds = RestoreCursor(@)]
    [] name = "IL"      -> InsertLines(fb, p)
    [] name = "DL"      -> DeleteLines(fb, p)
    [] name = "ICH"     -> InsertCells(fb, fb.ds.cursor_row, fb.ds.cursor_col, GetParam(p, 0, 1))
    [] name = "DCH"     -> DeleteCells(fb, fb.ds.cursor_row, fb.ds.cursor_col, GetParam(p, 0, 1))
    [] name = "VPA"     -> [fb EXCEPT !.ds = MoveRow(@, GetParam(p, 0, 1) - 1, FALSE)]
    [] name = "HPA"     -> [fb EXCEPT !.ds = MoveCol(@, GetParam(p, 0, 1) - 1, FALSE)]
    [] name = "ECH"     -> EraseCharacters(fb, p)
    [] name = "RIS"     -> Reset(fb)
    [] name = "DECSTR"  -> SoftReset(fb)
    [] name = "SD"      -> Scroll(fb, GetParam(p, 0, 1))
    [] name = "SU"      -> Scroll(fb, -GetParam(p, 0, 1))
    [] OTHER            -> fb

Dispatch(fb, name, p) ==
  Perform(IF name \in KeepsWrap THEN fb ELSE [fb EXCEPT !.ds.next_print_will_wrap = FALSE],
          name, p)

(* What the terminal answers: who it is, that it is well, where the cursor *)
(* is.                                                                     *)
Reply(fb, name, p) ==
  CASE name = "DA"  -> <<[answer |-> "vt220"]>>
    [] name = "SDA" -> <<[answer |-> "version"]>>
    [] name = "DSR" /\ GetParam(p, 0, 0) = 5 -> <<[answer |-> "ok"]>>
    [] name = "DSR" /\ GetParam(p, 0, 0) = 6 ->
         <<[answer |-> "cursor", row |-> fb.ds.cursor_row + 1, col |-> fb.ds.cursor_col + 1]>>
    [] OTHER -> <<>>
================================================================================
