-------------------------------- MODULE Terminal --------------------------------
(***************************************************************************)
(* A server's terminal and the copy of its screen that a client draws:     *)
(* Complete of crates/mosh-state/src/complete.rs over the emulator and the *)
(* display.  The copy is reached only through the diffs, each a resize and *)
(* the bytes of new_frame, run by an emulator.  ScreenSync is about which  *)
(* diffs arrive; here every one does.                                      *)
(***************************************************************************)
EXTENDS Display

CONSTANTS
  Sizes,    \* the sizes a window may take, pairs of a width and a height
  Seeds,    \* what the application wrote first
  Writes,   \* what it may write between two sequences
  Pieces,   \* what it may write inside one
  MaxActs   \* bound: writes and resizes after the first

ASSUME TerminalConstants ==
  /\ \A s \in Sizes : s \in (1..MAX_DIMENSION) \X (1..MAX_DIMENSION)
  /\ Seeds \cup Writes \cup Pieces \subseteq Seq(0..255)
  /\ MaxActs \in Nat

VARIABLES
  emu,     \* the server's emulator
  last,    \* its screen when the last diff was made
  shown,   \* the client's screen, made of diffs
  astray,  \* a frame may have left the client with something else
  acts     \* writes and resizes so far

vars == <<emu, last, shown, astray, acts>>

-----------------------------------------------------------------------------
(* Complete::act and act_resize: bytes in; the reply goes to the           *)
(* application.                                                            *)
ActBytes(e, bytes) == TakeReply(InTurn(InputByte, e, bytes))

ActResize(e, size) == TakeReply(ResizeEmulator(e, size[1], size[2]))

(* Complete::diff_from and apply_string: nothing when the screens compare  *)
(* equal, else a resize if the size differs, and a frame.                  *)
DiffFrom(existing, fb) ==
  IF SameScreen(existing, fb) THEN [resize |-> <<>>, frame |-> <<>>]
  ELSE [resize |-> IF SizeKept(existing, fb) THEN <<>> ELSE <<fb.ds.width, fb.ds.height>>,
        frame  |-> NewFrame(TRUE, existing, fb)]

ApplyDiff(screen, diff) ==
  Run(IF diff.resize = <<>> THEN screen ELSE Resize(screen, diff.resize[1], diff.resize[2]),
      diff.frame)

(* What a user sees of a cell.                                             *)
Visible(cell) == <<PrintGrapheme(cell), cell.wide, cell.renditions, cell.hyperlink>>

(***************************************************************************)
(* What new_frame has wrong about a terminal.  A client that gets one of   *)
(* these frames is off from then on, as far as the later frames build on   *)
(* what it shows.                                                          *)
(***************************************************************************)
(* When the last cell of the last row has been written the cursor is taken *)
(* to be past the last column, and goes back to one of the four before it  *)
(* by a backspace too many.                                                *)
Overshoots(f) ==
  LET w == f.ds.width
      Cell(x) == CellAt(f, f.ds.height - 1, x)
  IN  /\ f.ds.cursor_row = f.ds.height - 1
      /\ f.ds.cursor_col > 0 /\ f.ds.cursor_col \in w - 4..w - 1
      /\ Cell(w - 1) # NewCell(0) \/ (w > 1 /\ Cell(w - 2).wide)

(* A wide character in the last column, as a narrower window leaves it,    *)
(* wraps onto the next row.                                                *)
WideAtEdge(f) == \E y \in DOMAIN f.rows : CellAt(f, y, f.ds.width - 1).wide

(* What was written over the right half of a wide character is not drawn.  *)
HalfWide(f) ==
  \E y \in DOMAIN f.rows, x \in 0..f.ds.width - 2 :
    LET cell == CellAt(f, y, x)
    IN  /\ cell.wide
        /\ Visible(CellAt(f, y, x + 1)) # Visible(NewCell(cell.renditions.background))

(* The terminator of a link that changes where a row wraps is a function   *)
(* the emulator does not know: the pending wrap ends, and the first cell   *)
(* of the next row is written over the last of this one.                   *)
LinkAtWrap(f) ==
  \E y \in 0..f.ds.height - 2 :
    /\ RowWrap(f.rows[y])
    /\ CellAt(f, y, f.ds.width - 1).hyperlink # CellAt(f, y + 1, 0).hyperlink

(* A link open on a terminal that is cleared stays open.                   *)
LinkOpen(screen, cleared) == cleared /\ screen.ds.hyperlink # NoLink

LeadsAstray(screen, cleared, f) ==
  \/ Overshoots(f) \/ WideAtEdge(f) \/ HalfWide(f) \/ LinkAtWrap(f)
  \/ LinkOpen(screen, cleared)

(* A client's rows are compared by their cells alone: their generations    *)
(* are not kept.                                                           *)
CellsOnly(screen) ==
  [screen EXCEPT !.rows = [y \in DOMAIN @ |-> [@[y] EXCEPT !.gen = 0]], !.next = 1]

-----------------------------------------------------------------------------
(* A session that has written something, on a client that repainted its    *)
(* terminal from whatever it showed.                                       *)
Init ==
  LET After(size, bytes) == ActBytes(NewEmulator(size[1], size[2]), bytes)
      Starts(e, junk) ==
        /\ emu = e
        /\ last = e.fb
        /\ shown = CellsOnly(Run(junk.fb, NewFrame(FALSE, e.fb, e.fb)))
        /\ astray = LeadsAstray(junk.fb, TRUE, e.fb)
        /\ acts = 0
  IN  \E size \in Sizes, seed \in Seeds, before \in Seeds :
        Starts(After(size, seed), After(size, before))

Write ==
  /\ acts < MaxActs
  /\ \E bytes \in IF emu.parser = NewParser THEN Writes ELSE Pieces :
       emu' = ActBytes(emu, bytes)
  /\ acts' = acts + 1
  /\ UNCHANGED <<last, shown, astray>>

ResizeTo ==
  /\ acts < MaxActs
  /\ \E size \in Sizes : emu' = ActResize(emu, size)
  /\ acts' = acts + 1
  /\ UNCHANGED <<last, shown, astray>>

Draw ==
  /\ shown' = CellsOnly(ApplyDiff(shown, DiffFrom(last, emu.fb)))
  /\ last' = emu.fb
  /\ astray' = (astray \/ LeadsAstray(shown, ~ SizeKept(last, emu.fb), emu.fb))
  /\ UNCHANGED <<emu, acts>>

Next == Write \/ ResizeTo \/ Draw

Spec == Init /\ [][Next]_vars

-----------------------------------------------------------------------------
OnScreen(fb, row, col) == row \in 0..fb.ds.height - 1 /\ col \in 0..fb.ds.width - 1

(* Rows and columns are those of the size; the cursor, the region, the tab *)
(* stops and the cell that combining characters join lie on them, whatever *)
(* was saved, restored and resized (the indexing of framebuffer.rs).       *)
WellFormed(fb) ==
  /\ DOMAIN fb.rows = 0..fb.ds.height - 1
  /\ \A y \in DOMAIN fb.rows : DOMAIN fb.rows[y].cells = 0..fb.ds.width - 1
  /\ \A y \in DOMAIN fb.rows : fb.rows[y].gen < fb.next
  /\ OnScreen(fb, fb.ds.cursor_row, fb.ds.cursor_col)
  /\ 0 <= fb.ds.top /\ fb.ds.top <= fb.ds.bottom /\ fb.ds.bottom < fb.ds.height
  /\ fb.ds.tabs \subseteq 0..fb.ds.width - 1
  /\ fb.ds.modes \subseteq Modes
  /\ \/ OnScreen(fb, fb.ds.combining_char_row, fb.ds.combining_char_col)
     \/ fb.ds.combining_char_row = -1 /\ fb.ds.combining_char_col = -1

TypeOK ==
  /\ WellFormed(emu.fb) /\ WellFormed(last) /\ WellFormed(shown)
  /\ Len(emu.dispatch.params) <= MAX_PARAM_BYTES
  /\ Len(emu.dispatch.chars) <= MAX_DISPATCH_CHARS
  /\ Len(emu.parser.buf) < BUF_SIZE
  /\ acts \in 0..MaxActs

(* The modes a frame sets, and the state of the terminal the next frame    *)
(* relies on.                                                              *)
Drawn(fb) ==
  <<fb.ds.cursor_row, fb.ds.cursor_col, fb.ds.renditions, fb.ds.hyperlink, fb.window_title,
    fb.ds.mouse_reporting_mode, fb.ds.mouse_encoding_mode,
    fb.ds.modes \cap {"cursor_visible", "reverse_video", "bracketed_paste", "mouse_focus_event"}>>

(* Complete::compare, and "the byte sequence that turns last into f on a   *)
(* real terminal" of new_frame: the client shows the screen the diffs were *)
(* made from, cell by cell, with the cursor and the modes.                 *)
ClientInStep ==
  /\ SizeKept(last, shown)
  /\ \A y \in DOMAIN last.rows, x \in 0..last.ds.width - 1 :
       Visible(CellAt(last, y, x)) = Visible(CellAt(shown, y, x))
  /\ Drawn(last) = Drawn(shown)

(* It does so but for the frames above, through scrolls, erasures, wraps,  *)
(* links, wide characters and resizes, and whatever the terminal showed    *)
(* before (new_frame, put_row).                                            *)
ClientShowsScreen == ~ astray => ClientInStep

(* What scrolls, inserts or deletes lines moves rows of the scrolling      *)
(* region only (Framebuffer::scroll, insert_line, delete_line).            *)
ScrollsInRegion ==
  \A name \in {"LF", "RI", "NEL", "IL", "DL", "SU", "SD"}, n \in {1, 2, 9} :
    LET after == Dispatch(emu.fb, name, <<n>>)
    IN  \A y \in DOMAIN emu.fb.rows \ (emu.fb.ds.top..emu.fb.ds.bottom) :
          after.rows[y] = emu.fb.rows[y]

(* A control character in the middle of a control sequence, between whole  *)
(* characters, runs at once and the sequence then runs as if it had come   *)
(* after (the Execute actions of parser.rs leave what the dispatcher       *)
(* collected alone).                                                       *)
ControlsInsideSequences ==
  \A ch \in {7, 10, 13}, final \in {65, 74, 109} :
    (/\ emu.parser.state \in {"CsiEntry", "CsiParam", "CsiIntermediate", "CsiIgnore"}
     /\ emu.parser.buf = <<>>) =>
      LET ran == Dispatch(emu.fb, ControlFunction(ch), <<>>)
      IN  ActBytes(emu, <<ch, final>>).fb = ActBytes([emu EXCEPT !.fb = ran], <<final>>).fb

(* The parser fed one byte more, and the characters out of it so far.      *)
TakeByte(acc, byte) ==
  LET one == Completed(acc.buf, byte)
  IN  [chars |-> acc.chars \o one.chars, buf |-> one.buf]

(* Whatever incomplete or wrong bytes came before, the next character is   *)
(* decoded as it would be alone (Utf8Parser::input keeps no more than the  *)
(* bytes of one character).                                                *)
Resynchronises ==
  \A char \in {<<65>>, <<195, 169>>, <<226, 130, 172>>, <<240, 159, 152, 128>>} :
    LET after == InTurn(TakeByte, [chars |-> <<>>, buf |-> emu.parser.buf], char)
    IN  after.chars # <<>> /\ after.buf = <<>> /\ CodePoint(char) = after.chars[Len(after.chars)]
================================================================================
