# A verification development of rmosh

rmosh is a port of mosh to Rust: a `mosh-server` runs a shell in a pty on one
machine, a `mosh-client` shows it on another, and the two keep each other's
state synchronised over UDP through loss, reordering, silence, sleep and
changes of address. This directory holds TLA+ modules translated from that
code, the TLC configurations that check them on small instances, and proofs
checked by TLAPS that hold for every instance.

Paths below are relative to `crates/`. `PROJECT.json` maps every definition
that models code to the lines it stands for.

## The system

| part | code | state it keeps | what it does |
|---|---|---|---|
| sender | `mosh-network/src/sender.rs` | current state, queue of sent states, which one the peer is assumed to hold, acknowledgement and send timers, shutdown | decides what to send and when, thins its queue, takes acknowledgements |
| transport | `mosh-network/src/transport.rs` | queue of received states, quench timer, last state read | applies instructions, throws states away, hands the reader what is new |
| fragments | `mosh-network/src/fragment.rs` | next id, last instruction and MTU; the pieces held, their total and bytes | cuts an instruction up and puts it together |
| connection | `mosh-network/src/connection.rs`, `packet.rs` | sockets, the peer's address, sequence numbers, saved timestamp, round-trip estimate | sends and receives datagrams, hops ports, follows a client that roams |
| states | `mosh-state/src/user.rs`, `complete.rs`, `mosh-pipe/src/stream.rs` | a stream of user events; a screen with its echo acknowledgement; two byte streams | difference, application and subtraction: the trait `SyncState` |
| server loop | `mosh-server/src/main.rs` | keystrokes the pty has not taken, whether the child is gone, colour queries in flight | between pty, child and transport |
| client loop | `mosh-client/src/session.rs` | the frame last drawn, events from the keyboard | types, draws, quits |
| prediction | `mosh-client/src/prediction.rs`, `overlay.rs` | keystrokes in flight, epochs, guessed cells and cursors | shows keystrokes before the server does, withdraws the wrong ones |
| pipe loops | `mosh-pipe/src/lib.rs` | what the command has not taken, backlog, end of input, exit status | runs a command over two streams |
| emulator | `mosh-terminal/src/parser.rs`, `dispatcher.rs`, `emulator.rs`, `framebuffer.rs` | half a character, half a sequence; rows, cursor, scrolling region, modes, saved cursor; colour queries | turns an application's output into a screen |
| display | `mosh-terminal/src/display.rs` | nothing | turns two screens into the bytes that make one the other |
| the rest | `mosh-crypto`, `mosh-protobufs`, `mosh-sys`, `mosh`, `compressor.rs`, `args.rs` | a nonce counter; nothing else that lasts | protection, encoding, calls into the system, starting a session |

The owner of a transport (a loop) changes the sender's current state, calls
`recv` when a socket is readable and `tick` on every pass, and sleeps for
`wait_time`. `tick` hands an instruction to the fragmenter and its pieces to
the connection; `recv` takes a datagram from the connection, a whole
instruction from the assembly, the acknowledgement to the sender, the new
state to the queue. All of it is one thread per process: what interleaves is
the two processes, the network between them, the clock, the child on the pty
and the processes it leaves behind.

What is hard here, and what would make each part correct:

- *Sender and transport.* Every instruction is a difference between two
  numbered states, and either side drops states on the word of messages that
  may be lost, repeated or overtaken. The peer must always hold the state the
  sender falls back on; a state acknowledged must not be discarded while that
  acknowledgement can still be used; an instruction's difference must be
  between the states it names; a view must not go back.
- *What is carried.* A screen agrees with its owner's under the number it was
  given; a stream is handed over in order and exactly once though both sides
  trim its prefix; the last state is delivered before a peer leaves.
- *Fragments.* Two instructions' pieces are never joined, though ids are
  reused for resends and the MTU may change between them.
- *Connection.* The server answers to the newest address, forgets a client
  that is silent, and four timeouts in two processes are far enough apart that
  no answer goes to a socket the client has closed.
- *Server loop.* The child's last output is shown, keystrokes are written once
  and in order though the pty takes them piecemeal, no colour query is lost,
  the session ends when the child has and not before.
- *Emulator.* The cursor, the margins and the cell that combining characters
  join stay on the screen through any sequence of moves, restores and resizes;
  scrolling moves the region's rows only; what is cut in the middle (a
  character, a control sequence) goes on as if it had not been.
- *Display.* The bytes of a frame turn what a client shows into what the server
  has, cell by cell, though they are relative to a cursor, renditions and
  scrolled rows the differ must keep track of.
- *Prediction.* A guess is judged by a screen that can show it; an application
  that echoes never has one withdrawn, and any wrong one is gone when the
  server has answered. The echo acknowledgement this rests on never goes back.
- *Planned parts*: a command's status reaches the other end of a pipe;
  round-trip samples are plausible.

## Modules

| module | models | built on |
|---|---|---|
| `SyncState` | the trait: constants for states, differences and what can be done to them | |
| `TransportSender` | the methods of the sender, as operators from a sender to a sender | `SyncState` |
| `Transport` | two endpoints, their owners, the clock and the network; the specification proved about | `TransportSender` |
| `ScreenSync` | a transport that carries a screen: `ScreenLaws`, the frames that lead astray, agreement, the last screen | `Transport` |
| `StreamSync` | a transport that carries an event stream, with its reader | `Transport` |
| `ReliableStream` | what an event stream promises: each event once, in order | |
| `Fragment` | one fragmenter, one assembly, the fragments between them | |
| `Connection` | a client's sockets and network, a server's target, datagrams with delay | |
| `Serve` | the server's loop with pty, child and the transport as the loop sees it | `Stepwise` |
| `Stepwise` | the fold to the left and the filter that loops over events, bytes, actions and cells are written with | |
| `Cells` | characters, renditions, cells and rows | `Stepwise` |
| `Screen` | the draw state and the framebuffer, as operators from a screen to a screen | `Cells` |
| `Parser` | UTF-8 and the machine of escape sequences | `Stepwise` |
| `Dispatcher` | what each control function does to a screen, and what it answers | `Screen` |
| `Emulator` | the three wired together; printing | `Dispatcher`, `Parser` |
| `Display` | `new_frame`: the functions that turn one screen into another | `Emulator` |
| `Terminal` | a server's terminal and the client's copy, made of frames only | `Display` |
| `Overlay` | a guess about a cell or the cursor, and the verdict on it | |
| `Prediction` | the methods of the prediction engine | `Overlay`, `Parser` |
| `Typing` | the client's loop, its frames, the server's echo acknowledgement, an application | `Prediction` |
| `MC...` | instances for TLC, their symmetry and views | the above |
| `FoldLemmas` | facts about recursion on a number and about that fold, for any step | `Stepwise` |
| `ParserProofs` | what the parser's bytes and actions are, for the two modules of proofs that need it | `Parser`, `FoldLemmas` |
| `TransportProofs`, `FragmentProofs`, `ConnectionProofs`, `ServeProofs`, `TerminalProofs`, `TypingProofs` | proofs | the above |

How they meet: `ScreenSync` and `StreamSync` are two instances of `Transport`;
what `ScreenSync` assumes of a screen's differences (`ScreenLaws`) it assumes
only of those that do not lead astray, and `Terminal` says of the real ones which
do (its `LeadsAstray`) and checks the others, on small windows
(`ClientShowsScreen`); `Serve` and `Typing` take a transport as
what the transport modules show of it (views that only advance, a stream in
order); `Fragment` rests on `DiffNamesItsStates`; `Prediction` parses what is
typed with the emulator's own `Parser`, as the code does.

### The transport

`sender[p]` is a record with the fields of `TransportSender` under their own
names (`sent` is `sent_states`, `assumed` is `assumed_receiver_state`, counted
from 1); `received[p]` is `received_states`. `net[p]` is the set of all
instructions `p` has ever sent, so delivering one is choosing from it: any
number of times, in any order, or never. `attached` is whether the connection
has a remote address. `raw` and `made` are history: what the owner's state was,
unsubtracted, when a number was given to it.

One action stands for each call an owner makes: `ChangeState`
(`current_state_mut`), `Shutdown` (`start_shutdown`), `WaitTime`; `tick` is
`TickIdle`, `TickNothingToSend`, `TickEmptyAck` and `TickSend`, one for each way
through it; `recv` of a whole instruction is `ApplyOnlyAck`, `ApplyQuenched` and
`ApplyNewState`. All recompute the timers first, as the code does
(`CalculateTimers`). `Clock` moves time. An owner that left its loop does
nothing any more (`Running`).

Lengths of differences are not modelled: where the sender prefers a difference
from the acknowledged state because it is shorter, both outcomes are allowed
(`ResendChoices`). The round-trip estimate is any value of `SendIntervals` and
`Timeouts` at any time. Protocol version, chaff and the verbose self-check are
left out.

### Screens and streams

In `ScreenSync` a screen is opaque: the module states what the
transport relies on: an empty difference means nothing to see has changed, and
a difference brings any screen that *shows* its base to one that shows its
target. The real frames do not always keep that (the `redraw` finding, and four
more kinds below), so the laws are about the pairs of screens that the constant
`LeadsAstray` does not hold of, and say nothing of the rest. `Agreement` and
`FinalScreenDelivered` ask in return that no frame sent for a number up to the
one in question leads astray (`Straight`): a frame that never arrives counts too,
since whether its screen became the base of another is the network's choice.
That a peer holds the number it should is asked without condition.

A screen has parts that are not shown: `Framebuffer ==` compares rows
by identity, so rewriting a row with the same text gives a different state with
an empty difference. `MCScreen` has that: its first content can be drawn in two
ways. Every frame drawn over the second of them leads astray, and leaves
`garbled`; so does applying a difference to the wrong screen. The run therefore
has peers that hold what their owner never showed, sessions that end so, and
others that stay straight or go astray only after the number looked at.

A stream is the sequence of its events. `StreamSync` adds the reader
(`get_remote_diff`), which takes what is new and then removes the oldest
state's events from every state of the queue, while the sender's
`rationalize_states` removes what has been acknowledged at the other end.

### Fragments

A fragment's contents are the range of bytes of the instruction it was cut
from. `MakeFragments` decides whether a new id is due and cuts; `AddFragment`,
`AddFragmentOverflows` and `GetAssembly` are the ways through `add_fragment` and
the `get_assembly` that follows a complete one. `HeaderNamesInstruction`, that
instructions with equal headers are equal, is what the code's comparison of
headers rests on; it follows from `DiffNamesItsStates` of the transport.

### The connection

Addresses are a network and a port; ports are numbered as opened, so a socket
list is a run of numbers. `ClientSend` and `ServerSend` are `send` with its
`housekeeping` (hopping and pruning, or forgetting the client), `ServerRecv` and
`ClientRecv` are `recv` with `process`. Time is urgent: the clock does not pass
the moment an endpoint must have sent by (an empty acknowledgement goes out
every `ACK_INTERVAL`, 3 s), nor does a datagram live longer than `MaxDelay`.

`ConnectionConstants` assumes the timeouts to be far enough apart:

    SERVER_ASSOCIATION_TIMEOUT + SendInterval + 2 MaxDelay <= MAX_OLD_SOCKET_AGE
    ... and < (MAX_PORTS_OPEN - 1) (PORT_HOP_INTERVAL + 1)

In the code that is 40 s + 3 s + 2 MaxDelay against 60 s and 90 s: it holds for
delays up to 8.5 s each way. The instance takes both inequalities at equality
or next to it; with either constant one smaller TLC finds an answer under way
to a closed socket.

### The server's loop

A pass over the loop is six steps (`pc`): poll, receive, read the pty, write
the pty, tick with the colour queries, reap. The child writes and exits between
any two. The `ready` set is what `poll_readable` said at the start of the pass
and may be stale by the time it is used. `background` says that a process the
child started holds the pty open. It may write at any time, even when the child
has exited: `BackgroundWrites` is never forced to stop. What is written after the
exit is text of which only its presence is kept (`more`), so that no bound ends
it. Read takes any part of what is there; write
takes any part of what is pending, or nothing; a ^S between poll and read
makes the read find nothing. Of the transport there is only what the loop
reads: the client's newest state, and the numbers sent and acknowledged. A
resize is its position among the events, and its reply is empty in this code.
The 4096-byte cap on queries is not modelled.

### The terminal

An emulator is a record of parser, dispatcher and framebuffer with the fields of
the structs. Bytes are numbers: `InputByte` decodes UTF-8 (`Completed`), runs
the machine's rules (`ParseChar`) and performs the actions they raise. A control
function is a record of a name and its parameters; `Dispatch` and `Call` are what
each does.
`NewFrame` builds functions where `new_frame` appends bytes: writing them out
and parsing them again would cost a run most of its time and show only that
`format!` and the parser agree on digits. `Run` performs a frame's functions on
a screen. A function the emulator does not know (`ST`) still ends a pending
wrap, as it does in the code.

Rows are values with a generation: `Framebuffer ==` compares rows by identity
first and the differ looks for scrolled rows by it, so the generation is kept
on the server's side and dropped on the client's. Characters count 1 against
the cap on a cell's bytes. A frame's capabilities (`HasEch`, `HasBce`,
`HasTitle`) are constants; the run has them all.

`Write` is `Complete::act` with a chunk of output, `ResizeTo` a resize, `Draw`
`diff_from` on the server and `apply_string` on the client. The first frame is
drawn over a terminal that shows something else.

The client's screen is not always the server's. `LeadsAstray` names the five
kinds of frames after which it may not be, each found by a run that then needed
it: the cursor past the last column (`Overshoots`; the `redraw` finding), a wide
character a narrower window left in the last column (`WideAtEdge`), a write over
the right half of a wide character (`HalfWide`), a link's terminator where a row
wraps (`LinkAtWrap`), a link open when the terminal is cleared (`LinkOpen`).
`ClientShowsScreen` is that nothing else goes wrong. It judges a frame by the
repository's own emulator, the only terminal the source defines.

### Typing

The engine is a record of the fields of `PredictionEngine`. A turn of the
client's loop is one action, `Iteration`: what came from the network
(`Heard`: nothing, an acknowledgement alone, or a newer screen), one read of the
keyboard or a new size (`Handled`), the judgement (`Cull`) and perhaps a frame.
`ServerReceives` registers a frame, the newest of those under way, perhaps
skipping some; `ApplicationReacts` answers one input, as a line editor does or
not; `EchoTimesOut` is `set_echo_ack`. `frames[n]` is how much of the stream
frame n carries.

Prediction is always displayed: what turns it on and off by the round-trip time,
the underlining, and the renditions guessed are left out; so is origin mode, in
which no guessed cursor is shown (`overlay.rs:89`): these screens are never in it. A cell is its
character and has one column. `odd` is history: a reaction was not the echo,
or came late, or the window scrolled or changed, or more was typed than
`MAX_IN_FLIGHT`; while it is false no guess may be contradicted.

## Runs

| run | shows | bounds |
|---|---|---|
| `screen` | all invariants of the transport, that screens agree, that nothing goes back, that the last screen arrives | two contents, one drawn in two ways, of which the second makes later frames go astray; the server loses and regains its client's address at any moment; numbers up to 2 and the shutdown's 3; clock to 3; queues thinned past 3, growth refused past 1 |
| `stream` | `ReliableStream` is implemented, received states lack one common prefix, a client that quits and is acknowledged has left nothing behind | two keys, streams of two; the client may quit; clock to 2 |
| `fragment` | the four properties of reassembly | instructions of one to four pieces at two MTUs, limits that both ends hit |
| `connection` | the three properties of targeting and sockets | see above; two networks |
| `serve` | output polled is shown, keys once and in order, queries kept, the session ends when the child has, once what it left behind is quiet | a process left behind or not, writing without end or not; two writes of the child, both asking for a colour, one also answered by the terminal; a key and a resize |
| `terminal` | the client shows the server's screen but for `LeadsAstray`; scrolls stay in the region; controls inside sequences; recovery of the decoder | windows of 6 by 3 and 4 by 2; six first screens on either side; two of some 50 writes, or resizes, with a frame after each or not |
| `typing` | settled screens, guesses an echo fulfils, the echo acknowledgement | four sessions of three reads: letters, Enter, erasures of a character and a word, an arrow, a paste, a resize, on 4 by 2 |
| `serve_last_output`, `serve_frozen`, `serve_quit`, `redraw`, `epochs` | what the code's comments say and the code does not do (below) | |

The bounds are small but every mechanism happens inside them: with
`MAX_SENT_STATES` 3 the queue is thinned, with `MAX_RECEIVED_STATES` 1 growth is
refused and allowed again when the clock passes `QUENCH_INTERVAL`, assumed states expire at
`Timeouts` + `ACK_DELAY`, acknowledgements are delayed and resent, and shutdown is retried
and times out. That the properties of `Transport` do not depend on the bounds is proved, not argued.
A terminal's behaviour depends on its sizes only through comparisons (first and
last row and column, region, tab stop, half of a wide character), and a window of
6 by 3 has a cell on every side of each but tab stops past the first. A guess
needs three reads to be made, contradicted and made again in a later epoch.
For each property a plausible bug (`PROJECT.json`, "mutants") makes the run fail.

`VIEW LiveState` merges states that differ only in `assumed` and
`next_send_time`: `calculate_timers` overwrites both before anything reads them,
in every action that uses them. `MCSymmetry` exchanges keys, or networks,
nothing distinguishes. `VIEW Ages` of `MCConnection` keeps of a time its age, up to the
largest interval it is compared with, and of a sequence number or port its
distance from the newest; nothing in `Connection` or its invariants reads more
than that. The state space is then finite and exhausted before the clock's bound.
`CHECK_DEADLOCK FALSE` where both owners may leave their loops or the clock's
bound is reached; `Serve` stutters once ended and is checked for deadlock.

*Fairness.* Only `Serve` states liveness. `WF(Pass)`: the loop always takes its
next step, since `poll` waits at most a second and neither reading nor writing
the pty blocks. `WF(ShutdownAckTimesOut)`: a shutdown is given up after
`SHUTDOWN_RETRIES` tries or `ACTIVE_RETRY_TIMEOUT`. Nothing is assumed of the
child, the client, the network or signals. `ChildExitEndsSession` has two
premises instead: that the child exits, and that no process it left behind
writes for ever (`OutputStops`). The second is needed: every read of the pty sets
`drained_this_pass` (`main.rs:349`), which puts the end off by a pass (418), so
after `yes & exit` the session stays open as long as `yes` writes. TLC finds that
behaviour when the premise is dropped. A process that only holds the pty open,
or writes now and then and stops, does not keep the session.

## Where code and comments disagree

- `serve_last_output`: a child that writes and exits after the poll and before
  `try_wait` loses its last output; so does one whose pty refuses a write while
  output is unread (`main.rs:418`, `376`, against the comment at 414-417).
- `serve_frozen`: colour queries acknowledged during the shutdown are cleared
  from a state that is said to be frozen, against a debug assertion in
  `current_state_mut` (`main.rs:402`, against 380-381).
- `serve_quit`: nothing in the server acts on the client's shutdown, so "Ask the
  server to end the session" (`session.rs:35`) leaves it until it counts the client as vanished.
- `redraw`: after the last cell of a row has been written the differ takes the
  cursor to be past the last column, a terminal leaves it in the last one; going
  back to the left on the last row, a frame sends a backspace too many
  (`display.rs:90`, against 78 and 192).
- `epochs`: a replay after a disagreement restores `prediction_epoch`, while the
  cells and cursors replayed keep the numbers of epochs begun within it.
  Confirming one raises `confirmed_epoch` above `prediction_epoch`, and the next
  epoch counts as confirmed before anything in it is (`prediction.rs:279`,
  against 201 and 208).

## Proofs

`TransportProofs` is about `Transport` for any kind of state, any constants
that satisfy `SenderConstants`, `TransportConstants` and `SyncStateType` (the
operators stay within their types), any number of states and messages, and an
unbounded clock in the sense that `MaxNow` is any number.

`QueuesOrdered`, `ReferenceHeld`, `AckedNotDiscarded` are not inductive alone.
Whether a discarded state could still be needed depends on what is in
messages, so `Bookkeeping` is added: an endpoint acknowledges the newest it
holds, a throwaway number is never past what its sender has seen acknowledged,
and no state is dated in the future. Then: a receiver discards only below a
throwaway number; that is at most the sender's acknowledged front; the front
moves only to a number some acknowledgement names; and an acknowledgement names
a state that is held or is already behind the front. Each of `ReferenceHeld` and
`AckedNotDiscarded` is needed to preserve the other. `InsertByNum` keeps the
received queue in strict order because a number already held is refused first;
the sent queue is only weakly ordered because a shutdown queues its number again.

The first half of the module proves what each method of the sender does to its
queue (thinning keeps the front and the two newest because of `THIN_FROM_BACK >= 3`
and `MAX_SENT_STATES >= THIN_FROM_BACK`). The theorems are `TypeCorrect`,
`AlwaysOrdered`, `AlwaysBookkept`, `AlwaysHeld`, `NeverDiscarded` and
`AlwaysForward`, all from `Invariance`.

`FragmentProofs` proves for any instructions, sizes and MTUs that only one
instruction's pieces are ever held, that a complete set is handed on at
once, that the bytes counted against the limit are those of the pieces held
(`BytesCounted`), and the types, which hold the two limits (`TypeCorrect`).
The invariant says that an id names one instruction cut in one way, that
everything sent under an id is a piece of that cut, and that what is held is a
set of such pieces under the current id; holding as many as there are is
then holding all of them, by counting. `BytesOf` is a fold over the set of
numbers held (`MapThenSumSet`), in whatever order `CHOOSE` takes them: that the
sum does not depend on the order (`SumRemove`), splits over disjoint parts
(`SumApart`) and reads nothing else (`SumSame`) is proved by a smallest set for
which it failed.

`ConnectionProofs` proves the properties of `Connection` for all intervals that
satisfy `ConnectionConstants`, any networks and any delays up to `MaxDelay`.
That no closed port is still answered is not inductive. The invariant calls a
port *known* with a time `t` at which something was sent from it: hops are more
than `PORT_HOP_INTERVAL` apart, so if n ports are newer than the one that came
next, the newest was chosen at least `Gap(n)` after `t`; and the port is open
unless more than `Answered` has passed since `t`. Pruning by rank and pruning by
age both keep that, each by one of the two inequalities. The newest datagram and
all that is under way concern known ports, and `HeardInTime` bounds how long the
server goes on answering to one.

The second part of `TransportProofs` is about `ScreenSync`, for any states whose
differences obey `ScreenLaws`, and any `LeadsAstray`: nothing is assumed of what
the frames it names do to a terminal. To the transport's invariant it adds `ScreenRecalls`: a state
in the queue is the one made under its number, and once the shutdown's number is
out, the current state is the one it stands for. That is what thinning, the
prospective resend and `shutdown` must leave true, and the first part shows it of
each method (`NothingSubtracted`: subtraction takes nothing from a screen). From
it every instruction's difference is between the states it names
(`DiffsNameTheirStates`), so that applying it to the state held under that
number gives one that shows what was sent (`AlwaysAgree`): by the laws, which give
one reason if something is to be seen and another if nothing is, and by
`FramesForward`: an instruction leads from a number to that one or a later one, so
a condition on all frames up to the later number covers what the earlier screen
came from (`StraightBefore`). `FinalAlwaysDelivered`
follows since an acknowledgement names a state that was held (`Bookkeeping`).

The third part is about `StreamSync`, for any events and any `MaxEvents`, from
`StreamLaws`: the state is the sequence of its events, and the operators of the
transport are the four of `StreamSync` (the definitions `MCStream.cfg` gives
TLC, there with `MCState`, the streams up to its bound, for the set of all).
Neither end keeps whole streams: the sender cuts what was acknowledged off its
queue and its current state (`rationalize_states`), the reader what it has read off
its own, each at its own pace, and an instruction carries only a difference.
The invariant compares all of them with the whole streams in the histories
`raw` and `made`. `History`: what a number stands for is a prefix of what a later
one stands for, and the shutdown's number stands for everything. `Trimmed` and
`Holds`: the states of one queue all lack the same first events, so cutting
their common prefix, or applying a difference, moves them together. `CarriesNews`:
an instruction carries the events between its two numbers. `Reads`: what was
handed on is a prefix of the latest stream held, and the state remembered as
read is cut like the queue. `AlwaysCommonPart` is the reader's half of it;
`NeverLeftBehind` adds that the acknowledged front is a state the other side
holds (`ReferenceHeld`); and `ExactlyOnce` is the refinement: a step of the
transport appends to what was typed or changes nothing, and a reader's turn
prolongs what was written to a longer prefix of it. That a number handed over
never goes back (`NeverBackwards`) is what keeps the reader from reading twice.

`ServeProofs` is about `Serve`, for any number of writes, queries, events and
states. Its invariant has four parts. `Kinds` are types, and bounds of what is
polled, shown and written; `TypeCorrect` follows. `Keys` says that what the child
was given, what waits for it and what the events not read yet would give are,
but for our own replies, the keys typed, in order (`AlwaysInOrder`); the pty may
take any front of what waits. `Only`, what a filter leaves, is a function by
recursion on the position; `FoldLemmas` proves that any two functions of that
recursion agree, from which it follows that the filter distributes over concatenation. `Output` follows a
poll through the pass: what it saw is on the screen, or its read is still due,
or something was drained in the pass, which then may not end the session.
`Carried` says of the queries in flight that those counted when they were noted
are told already or in every state from the number noted on, so that an
acknowledgement of any such state tells them. Clearing is then safe, because it
asks that the count is still the one noted, and a count only grows with the set.

`TerminalProofs` is about `Terminal`, for any sizes up to `MAX_DIMENSION`, any
bytes an application writes, cut anywhere, and any order of writes, resizes and
frames. Its invariant is that the server's emulator is in
`Emulators(w, h)` and that the client's screen and the screen of the last frame
are in `Screens(w, h)`, each for some size. `Screens(w, h)` holds the screens
whose rows and cells are those of a window of w by h and whose cursor,
scrolling region, tab stops and combining cell are inside it; it is stronger
than `TypeOK` where a step needs it (the types of cells, of the saved cursor, of
modes and of the title). `Emulators(w, h)` adds that the parser holds nothing or
the incomplete beginning of one character (`Held`) and that the dispatcher's
buffers keep their limits. There is a lemma for each function of the draw state,
framebuffer and dispatcher, one for a character printed, one for each action of
the parser, and one for each part of `new_frame`: the frame is a
sequence of functions a terminal knows, so the screen that runs it is whole
again. Loops are folds (`InTurn`). `FoldLemmas` proves, of any fold, that a set
closed under the step is closed under the fold (`FoldedType`), and that a fold
of one element more is one step more (`FoldedLast`). Each loop takes an instance of
these lemmas with its own step. The induction is over positions, a least position
at which the claim would fail; it needs no theorem of the library that takes an
operator.

From the invariant follow `TypeCorrect`; `AlwaysInRegion`, since each of the
seven scrolling functions moves rows through `InsertLine` and `DeleteLine` only, and
these change rows from one inside the region to the lower margin only;
`AlwaysResynchronises`, because a first byte cannot continue what is `Held`, so the parser gives that up as one replacement
character, and what follows is decoded as if from nothing; and
`AlwaysInsideSequences`, because a control character inside a sequence changes
the screen and nothing of parser and dispatcher, and the states of the machine
inside a sequence agree on what to do with a final byte.

`TypingProofs` is about `Typing`, for screens and windows of every size, any
inputs, any widths of characters, either value of `predict_overwrite`, and any
order in which frames, screens, acknowledgements and the application's answers
come. Neither part of `TypeOK` that says something of time is inductive: whether
a guess may be kept depends on which echoes the client knows of, and what it may
be dated on what is typed and not yet in a frame. `Engine(w, h, late, top)` is
the set of well-formed engines for a screen of w by h when the echo of the
frames up to `late` is known and `top` is the newest frame a guess can be for:
cursors and keystrokes in flight are dated in `late + 1..top`, cells at `top` at
the latest, and one that is active and no newer than `late` is of an erasure
(`Ripe`), which alone may wait longer. `PredictionsAre` says that the engine is in that
set for the client's screen, its echo acknowledgement and `Top`, which is the
frame after the newest only while something pushed is in none (`StreamIs`: later
frames carry no less of the stream, and none more than was pushed). `ServerIs`
says that the frames the server remembers are in strict order, from the one
whose echo it acknowledged (`Remembers`); dropping those below the newest old
frame then cannot move the acknowledgement back (`OldDropped`), from which
`EchoAckForward` follows.

A lemma for each method shows what it does to that set. Guessing
(`ActionIs`, `PredictIs`) adds guesses for `local_frame_sent + 1` only. When a
screen brings news of an echo, the engine is still in the set for the old
`late`; judging takes the cells one by one (`JudgeCellIs`, `JudgeRowIs`) and
makes those it passed ripe, so unless one was wrong, when everything is guessed
again from keystrokes whose echo is not known (`RebuildIs`), all are; `CullIs`
puts this together with the keystrokes and cursors dropped. A keystroke replayed is
dated as it was, which is after that echo. `AlwaysSettles` is the case in which `late` and `top`
meet: everything is in a frame, every frame is acknowledged, so there is no
frame left to date a cursor with, and every cell left is of an erasure
(`AwaitsNothing`).

`ParserProofs` holds what `TerminalProofs` and `TypingProofs` need of the parser:
it stays in the states of its machine and raises actions about characters.

Only model-checked:

- `ClientShowsScreen`, and with it that the real frames obey `ScreenLaws`: the
  theorems on screens are conditional on it. That a frame makes one screen the other relates every
  cell of two screens through the cursor, renditions and scrolled rows the differ
  keeps, with five ways to go astray; what is proved of frames is that they leave
  a whole screen.
- `EchoFulfilsGuesses` of `Typing`: it is about the keys the sessions of the run
  type, whose echo the model's line editor and the engine both know. That a
  faithful echo contradicts no guess needs each guess to be what that echo of
  the keystrokes in flight will show, row by row, for every order in which they
  are answered.
- Everything live. `ENABLED` and fairness are out of the prover's reach.

`MC...` modules hold what only TLC evaluates: instances, views and symmetry. The
theorems are about the specifications themselves, with no bound but those
they name as constants.

## Plan

In order of what each would add:

1. `Pipe`: both loops of `mosh-pipe`, with the two hazards at their shutdown.
2. `RoundTrip`: timestamps of 16 bits, samples across the wrap and after a hold.
3. `UserInput`: the keys a user's bytes are translated to; `ColorQuery`: the
   queries of `Serve` on the client's side.
4. A proof of `EchoFulfilsGuesses`: the invariant must relate each guess to the
   keystroke it was made for, besides the frame that will judge it.
5. `ClientShowsScreen` for a frame over a screen of the same size, row by row:
   the lemma is that `put_row` leaves the row it was given, for cells that are
   not astray.

Not modelled, and not planned: encryption and encodings, zlib, the launcher,
locale, terminfo and utmp, argument parsing: they keep no state that interleaves
and call what is not in this repository. The opening and closing of the
client's terminal are text around the frames.
