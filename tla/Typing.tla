--------------------------------- MODULE Typing --------------------------------
(***************************************************************************)
(* Typing ahead of the server: the client's session loop                   *)
(* (crates/mosh-client/src/session.rs), the prediction engine, the frames  *)
(* the keystrokes ride in, the server's echo acknowledgement               *)
(* (crates/mosh-state/src/complete.rs) and an application at the far end.  *)
(*                                                                         *)
(* An input is what one read of the keyboard returns.  The transport is    *)
(* reduced to what the transport modules show of it: the server comes to   *)
(* any newer frame of the stream, perhaps skipping some, and the client to *)
(* a newer screen with its echo acknowledgement, or only to the            *)
(* acknowledgement of its frames.                                          *)
(***************************************************************************)
EXTENDS Prediction, FiniteSets

CONSTANTS
  Sessions,         \* records [screen, keys]: a screen to start on and a set
                    \* of inputs: what a read of the keyboard may return, and
                    \* new sizes of the window, <<RESIZE, width, height>>
  PASTE_THRESHOLD,  \* bytes past which a read is a paste, not typing
  MaxEvents         \* bound: reads and resizes of a session

NoInput == <<>>
RESIZE == -1

(* A session begins on a screen with the cursor in it, and an input is     *)
(* bytes or a size.                                                        *)
Dimension == Nat \ {0}
Screens(w, h) == [rows : [1..h -> [1..w -> Int]], row : 0..h - 1, col : 0..w - 1]

IsScreen(s) ==
  /\ Width(s) \in Dimension /\ Height(s) \in Dimension
  /\ s \in Screens(Width(s), Height(s))

IsInput(s) ==
  \/ s \in Seq(0..255) \ {NoInput}
  \/ s \in Seq(Int) /\ Len(s) = 3 /\ s[1] = RESIZE /\ s[2] \in Dimension /\ s[3] \in Dimension

ASSUME TypingConstants ==
  /\ \A session \in Sessions : IsScreen(session.screen) /\ \A s \in session.keys : IsInput(s)
  /\ PASTE_THRESHOLD \in Nat /\ MaxEvents \in Nat

VARIABLES
  predictions,  \* the prediction engine
  view,         \* the latest state of the server's screen the client has
  acked,        \* the newest frame the server is known to have received
  typed,        \* what was pushed on the stream that the server has not got
  frames,       \* frames[n]: how much of the stream, from its start, is in frame n
  server,       \* the server
  keyboard,     \* ghost: the inputs of this session
  odd,          \* ghost: not every key had the effect and the time expected
  wrong         \* ghost: a guess was contradicted

vars == <<predictions, view, acked, typed, frames, server, keyboard, odd, wrong>>

(***************************************************************************)
(* The application: a line editor that echoes, and its whims.              *)
(***************************************************************************)
BlankRow(fb) == [i \in 1..Width(fb) |-> Blank]

NextLine(fb) ==
  IF fb.row < Height(fb) - 1 THEN [fb EXCEPT !.row = @ + 1, !.col = 0]
  ELSE [fb EXCEPT !.rows = Append(Tail(@), BlankRow(fb)), !.col = 0]

InsertText(fb, ch) ==
  LET put == [fb EXCEPT !.rows[fb.row + 1] =
                [i \in DOMAIN @ |-> IF i <= fb.col THEN @[i]
                                    ELSE IF i = fb.col + 1 THEN ch ELSE @[i - 1]]]
  IN  IF fb.col = Width(fb) - 1 THEN NextLine(put) ELSE [put EXCEPT !.col = @ + 1]

EraseLeft(fb) ==
  IF fb.col = 0 THEN fb
  ELSE [fb EXCEPT !.col = @ - 1,
                  !.rows[fb.row + 1] =
                    [i \in DOMAIN @ |-> IF i < fb.col THEN @[i]
                                        ELSE IF i = Width(fb) THEN Blank ELSE @[i + 1]]]

MoveBy(fb, by) ==
  IF fb.col + by \in 0..Width(fb) - 1 THEN [fb EXCEPT !.col = @ + by] ELSE fb

EraseOnce(fb, i) == EraseLeft(fb)

EraseWord(fb) ==
  LET blanks == {col \in 0..Width(fb) - 1 : CharAt(fb, fb.row, col) = Blank}
      word == (0..Width(fb) - 1) \ blanks
      start == RunStart(RunStart(fb.col, blanks), word)
  IN  InTurn(EraseOnce, fb, [i \in 1..fb.col - start |-> i])

Echo(fb, input) ==
  CASE input = <<DEL>>      -> EraseLeft(fb)
    [] input = <<Return>>   -> NextLine(fb)
    [] input = <<ESC, DEL>> -> EraseWord(fb)
    [] input \in {<<ESC, SS3, RightArrow>>, <<ESC, 91, RightArrow>>} -> MoveBy(fb, 1)
    [] input \in {<<ESC, SS3, LeftArrow>>, <<ESC, 91, LeftArrow>>}   -> MoveBy(fb, -1)
    [] OTHER -> InTurn(InsertText, fb, input)

(* Scrolling is not predicted: the echo of a line feed, or of a character  *)
(* in the last column, on the last row.                                    *)
Scrolls(fb, input) ==
  /\ fb.row = Height(fb) - 1
  /\ \/ input = <<Return>>
     \/ input[1] \notin {DEL, ESC} /\ Echo(fb, input).col < fb.col

(* It need not echo; it may move over what was to be erased.               *)
Reactions(fb, input) ==
  {Echo(fb, input), fb} \cup (IF input = <<DEL>> THEN {MoveBy(fb, -1)} ELSE {})

(***************************************************************************)
(* The server.                                                             *)
(***************************************************************************)
IsResize(input) == input # NoInput /\ input[1] = RESIZE

Carried(frame) == IF frame = 0 THEN 0 ELSE frames[frame]

(* A resize is applied as it comes, keystrokes go to the application: in   *)
(* the terminal, rows are dropped and added at the bottom.                 *)
ActResize(fb, size) ==
  LET clip(n, limit) == IF n < limit THEN n ELSE limit - 1
  IN  [rows |-> [y \in 1..size[3] |-> [x \in 1..size[2] |->
                   IF y <= Height(fb) /\ x <= Width(fb) THEN fb.rows[y][x] ELSE Blank]],
       row |-> clip(fb.row, size[3]), col |-> clip(fb.col, size[2])]

Apply1(s, input) ==
  IF IsResize(input) THEN [s EXCEPT !.fb = ActResize(@, input)]
  ELSE [s EXCEPT !.pty = Append(@, [input |-> input, frame |-> s.frame])]

RegisterInputFrame(s, n) == [s EXCEPT !.input_history = Append(@, n)]

Receive(s, n) ==
  RegisterInputFrame(
    InTurn(Apply1, [s EXCEPT !.frame = n], SubSeq(typed, 1, Carried(n) - Carried(s.frame))), n)

(* (Were the newest old frame dropped too, the acknowledgement would fall  *)
(* back to nothing.)                                                       *)
SetEchoAckForgetting(s, old) ==
  LET newest == IF old = 0 THEN 0 ELSE s.input_history[old]
  IN  [s EXCEPT !.input_history = Only(@, {f \in Range(@) : f > newest}), !.echo_ack = newest]

(* The frames at the front of the history, old of them, came at least      *)
(* ECHO_TIMEOUT ago.  The newest one of these is kept.                     *)
SetEchoAck(s, old) ==
  LET newest == IF old = 0 THEN 0 ELSE s.input_history[old]
  IN  [s EXCEPT !.input_history = Only(@, {f \in Range(@) : f >= newest}), !.echo_ack = newest]

(* Had the application answered everything the frame carried?              *)
Answered(s, frame) == \A key \in Range(s.pty) : key.frame > frame

ServerReceives ==
  /\ \E n \in server.frame + 1..Len(frames) :
       /\ server' = Receive(server, n)
       /\ typed' = SubSeq(typed, Carried(n) - Carried(server.frame) + 1, Len(typed))
  /\ UNCHANGED <<predictions, view, acked, frames, keyboard, odd, wrong>>

ApplicationReacts ==
  /\ server.pty # <<>>
  /\ \E fb \in Reactions(server.fb, Head(server.pty).input) :
       /\ server' = [server EXCEPT !.fb = fb, !.pty = Tail(@)]
       /\ odd' = (odd \/ fb # Echo(server.fb, Head(server.pty).input)
                     \/ Scrolls(server.fb, Head(server.pty).input))
  /\ UNCHANGED <<predictions, view, acked, typed, frames, keyboard, wrong>>

(* What was old at the last look is old now.                               *)
EchoTimesOut ==
  /\ \E old \in 0..Len(server.input_history) :
       /\ \A i \in old + 1..Len(server.input_history) : server.input_history[i] > server.echo_ack
       /\ server' = SetEchoAck(server, old)
       /\ odd' = (odd \/ ~ Answered(server, server'.echo_ack))
  /\ server' # server
  /\ UNCHANGED <<predictions, view, acked, typed, frames, keyboard, wrong>>

(***************************************************************************)
(* The client.                                                             *)
(***************************************************************************)
(* A guess, of a cell or of the cursor, that the screen contradicts.       *)
Contradicted(e, fb) ==
  /\ e.last_height = Height(fb) /\ e.last_width = Width(fb)
  /\ Judge(e, fb).stop # NotWrong \/ CursorWrong(e, fb)

ServerScreen == [fb |-> server.fb, echo_ack |-> server.echo_ack]

Heard(from) ==
  CASE from = "nothing" -> [e |-> predictions, view |-> view, acked |-> acked]
    [] from = "ack" ->
         [e |-> [predictions EXCEPT !.local_frame_acked = server.frame],
          view |-> view, acked |-> server.frame]
    [] from = "state" ->
         [e |-> [predictions EXCEPT !.local_frame_acked = server.frame,
                                    !.local_frame_late_acked = server.echo_ack],
          view |-> ServerScreen,
          acked |-> server.frame]

(* How much was pushed on the stream since its start.                      *)
Pushed == Carried(server.frame) + Len(typed)

Paste(input) == Len(input) > PASTE_THRESHOLD

TypeByte(e, at) == NewUserByte(e, at.item, at.context)

(* (Dated when the keystrokes before it were, a guess would be judged      *)
(* against a screen that cannot show it yet.)                              *)
TypedDatedEarly(e, input, fb) ==
  IF Paste(input) THEN ResetEngine(e)
  ELSE [InTurn(TypeByte, e, With(fb, input)) EXCEPT !.local_frame_sent = Len(frames)]

Typed(e, input, fb) ==
  LET dated == [IF Paste(input) THEN ResetEngine(e) ELSE e
                  EXCEPT !.local_frame_sent = Len(frames)]
  IN  IF Paste(input) THEN dated
      ELSE InTurn(TypeByte, dated, With(fb, input))

Handled(e, input, fb) ==
  CASE input = NoInput  -> e
    [] IsResize(input)  -> ResetEngine(e)
    [] OTHER            -> Typed(e, input, fb)

(* A turn of the loop: what came from the network, what came from the      *)
(* keyboard, the guesses judged and the screen drawn, and perhaps a new    *)
(* frame.                                                                  *)
Turn(from, input, sends) ==
  LET heard == Heard(from)
  IN  /\ view' = heard.view
      /\ acked' = heard.acked
      /\ typed' = IF input = NoInput THEN typed ELSE Append(typed, input)
      /\ predictions' = Cull(Handled(heard.e, input, view'.fb), view'.fb)
      /\ frames' = IF sends THEN Append(frames, Pushed + (IF input = NoInput THEN 0 ELSE 1))
                   ELSE frames
      /\ wrong' = (wrong \/ Contradicted(heard.e, view'.fb))
      /\ odd' = (odd \/ IsResize(input) \/ Paste(input)
                     \/ Len(heard.e.in_flight) + Len(input) > MAX_IN_FLIGHT)

(* What may have come: nothing, an acknowledgement alone or a new screen.  *)
News ==
  {"nothing"} \cup (IF server.frame > acked THEN {"ack"} ELSE {})
              \cup (IF ServerScreen # view \/ server.frame > acked THEN {"state"} ELSE {})

Iteration ==
  /\ \E from \in News,
        input \in {NoInput} \cup (IF Pushed < MaxEvents THEN keyboard ELSE {}),
        sends \in BOOLEAN :
       /\ sends => input # NoInput \/ Pushed > Carried(Len(frames))
       /\ Turn(from, input, sends)
  /\ UNCHANGED <<server, keyboard>>

Init ==
  /\ \E session \in Sessions :
       /\ keyboard = session.keys
       /\ predictions = Cull(NewEngine, session.screen)
       /\ view = [fb |-> session.screen, echo_ack |-> 0]
       /\ server = [frame |-> 0, fb |-> session.screen, pty |-> <<>>,
                    input_history |-> <<>>, echo_ack |-> 0]
  /\ acked = 0
  /\ typed = <<>>
  /\ frames = <<>>
  /\ odd = FALSE
  /\ wrong = FALSE

Next == ServerReceives \/ ApplicationReacts \/ EchoTimesOut \/ Iteration

Spec == Init /\ [][Next]_vars

(***************************************************************************)
(* Properties.                                                             *)
(***************************************************************************)
(* The engine is well formed: one overlay to a row, as wide as the screen, *)
(* every guess on the screen and no later than the next frame, and the     *)
(* keystrokes in flight in the order of their frames.                      *)
TypeOK ==
  LET e == predictions
  IN  /\ e.last_height = Height(view.fb) /\ e.last_width = Width(view.fb)
      /\ \A i, j \in DOMAIN e.overlays : e.overlays[i].row_num = e.overlays[j].row_num => i = j
      /\ \A r \in Range(e.overlays) :
           /\ r.row_num \in 0..Height(view.fb) - 1
           /\ DOMAIN r.cells = 0..Width(view.fb) - 1
           /\ \A c \in Range(r.cells) : c.active =>
                /\ c.expiration <= Len(frames) + 1
                /\ c.expiration <= view.echo_ack => c.replacement = Blank
      /\ \A c \in Range(e.cursors) :
           InScreen(view.fb, c.row, c.col) /\ c.expiration \in view.echo_ack + 1..Len(frames) + 1
      /\ \A i \in 1..Len(e.in_flight) - 1 : e.in_flight[i].frame <= e.in_flight[i + 1].frame
      /\ \A k \in Range(e.in_flight) : k.frame \in view.echo_ack + 1..Len(frames) + 1
      /\ view.echo_ack <= acked /\ acked <= server.frame /\ server.frame <= Len(frames)

(* What the client shows.                                                  *)
Shown == Apply(predictions, view.fb)

(* Everything typed was received, answered and acknowledged, and the       *)
(* client has seen it.                                                     *)
Settled ==
  /\ typed = <<>>
  /\ server.pty = <<>>
  /\ view = [fb |-> server.fb, echo_ack |-> Len(frames)]

(* Once all is settled the client shows the server's screen, the cursor    *)
(* where it has it, but for erasures it waits for.                         *)
SettledShowsScreen ==
  Settled =>
    /\ Shown.row = server.fb.row /\ Shown.col = server.fb.col
    /\ \A row \in 0..Height(Shown) - 1, col \in 0..Width(Shown) - 1 :
         \/ CharAt(Shown, row, col) = CharAt(server.fb, row, col)
         \/ CharAt(Shown, row, col) = Blank

(* An application that echoes as a line editor does, in time, never        *)
(* contradicts a guess, and no erasure is left.                            *)
EchoFulfilsGuesses == ~ odd => ~ wrong /\ (Settled => Shown = server.fb)

(* The echo acknowledgement never goes back, nor ahead of the frames the   *)
(* server has.                                                             *)
EchoAckAdvances == [][server'.echo_ack \in server.echo_ack..server'.frame]_vars

(* An epoch that begins has nothing confirmed: its guesses are held back.  *)
NewEpochHeldBack ==
  BecomeTentative(predictions).prediction_epoch > predictions.confirmed_epoch
================================================================================
