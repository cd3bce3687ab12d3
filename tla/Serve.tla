--------------------------------- MODULE Serve ---------------------------------
(***************************************************************************)
(* The server's loop, `serve` of crates/mosh-server/src/main.rs: between   *)
(* the pty, the life of the child started on it, and the transport.  One   *)
(* action per stretch of a pass over the loop, so that the child, and what *)
(* it leaves in the background, may write, and the child exit, between any *)
(* two of them.  What lives for one pass is emptied where it is last used. *)
(*                                                                         *)
(* Output is the sequence of writes 1, 2, ... made until the child exits   *)
(* and then text of which only its presence matters; input is the sequence *)
(* of events 1, 2, ... of the client.  ColorQueries, DeviceQueries and     *)
(* Resizes say which are special.  Of the transport only what is read:     *)
(* the client's newest state (newer with every change, each event in it    *)
(* once: NeverBackwards and ServerReadsStream), and the numbers last sent  *)
(* and acknowledged.                                                       *)
(***************************************************************************)
EXTENDS Stepwise, FiniteSets

CONSTANTS
  ColorQueries,   \* writes that ask the client's terminal for a colour
  DeviceQueries,  \* writes our own terminal answers
  FlowControl,    \* whether a ^S may come between a poll and the read
  Resizes,        \* input events that are resizes, the others are bytes
  None,
  SHUTDOWN_NUM,   \* u64::MAX; also the bound on numbers given out
  MaxOutput, MaxInput  \* bounds on what the child writes and the client sends

ASSUME ServeConstants ==
  FlowControl \in BOOLEAN /\ {SHUTDOWN_NUM, MaxOutput, MaxInput} \subseteq Nat \ {0}

VARIABLES
  pc,            \* where in a pass over the loop
  ready,         \* what poll_readable found readable
  child,         \* "running" or "exited"
  background,    \* a process the child started holds the slave open
  written,       \* writes made while the child ran
  more,          \* output made since it exited waits in the pty
  host_input,    \* what the pty took for the child
  child_exit, child_reaped, drained_this_pass,
  terminal_to_host, pending_to_host,
  current,       \* the screen: transport.sender.current_state()
  last_remote,   \* last_remote_num, with the events it was reached by
  remote,        \* the client's newest state
  shutdown_in_progress, timed_out,
  sent,          \* sent[n]: the screen given number n, while it is held
  acked,         \* sent_state_acked()
  queries_in_flight,
  reason,        \* why the loop was left
  polled,        \* history: writes the last poll found, while the pty gives them
  told           \* history: colour queries of screens acknowledged

processes == <<child, background, written, more>>
io == <<terminal_to_host, pending_to_host, host_input>>
exits == <<child_exit, child_reaped>>
numbers == <<sent, acked, queries_in_flight, told>>
client == <<last_remote, remote>>
ending == <<shutdown_in_progress, timed_out, reason>>
vars == <<pc, ready, processes, exits, drained_this_pass, io, current, client,
          ending, numbers, polled>>

Phase == {"poll", "recv", "read", "write", "tick", "reap", "ended"}
Screen == [shown : 0..MaxOutput, queries : SUBSET ColorQueries,
           echo : 0..SHUTDOWN_NUM, frame : 0..SHUTDOWN_NUM, size : {0} \cup Resizes]
RemoteState == [num : 0..SHUTDOWN_NUM, events : 0..MaxInput]
Reply == 0
Byte == {Reply} \cup (1..MaxInput)

TypeOK ==
  /\ pc \in Phase /\ ready \subseteq {"network", "master"}
  /\ child \in {"running", "exited"} /\ background \in BOOLEAN
  /\ written \in 0..MaxOutput /\ polled \in 0..MaxOutput
  /\ {more, child_exit, child_reaped, drained_this_pass, shutdown_in_progress, timed_out}
       \subseteq BOOLEAN
  /\ {terminal_to_host, pending_to_host, host_input} \subseteq Seq(Byte)
  /\ current \in Screen /\ {last_remote, remote} \subseteq RemoteState
  /\ DOMAIN sent \subseteq 0..SHUTDOWN_NUM /\ acked \in DOMAIN sent
  /\ \A n \in DOMAIN sent : sent[n] \in Screen
  /\ queries_in_flight \in [num : 0..SHUTDOWN_NUM, seq : 0..MaxOutput] \cup {None}
  /\ told \subseteq ColorQueries
  /\ reason \in {"finished", "terminated", "vanished", None}

InitialScreen == [shown |-> 0, queries |-> {}, echo |-> 0, frame |-> 0, size |-> 0]

Init ==
  /\ pc = "poll" /\ ready = {}
  /\ child = "running" /\ background \in BOOLEAN /\ written = 0 /\ more = FALSE
  /\ polled = 0
  /\ child_exit = FALSE /\ child_reaped = FALSE /\ drained_this_pass = FALSE
  /\ terminal_to_host = <<>> /\ pending_to_host = <<>> /\ host_input = <<>>
  /\ current = InitialScreen
  /\ last_remote = [num |-> 0, events |-> 0] /\ remote = last_remote
  /\ shutdown_in_progress = FALSE /\ timed_out = FALSE /\ reason = None
  /\ sent = [n \in {0} |-> InitialScreen] /\ acked = 0
  /\ queries_in_flight = None /\ told = {}

SentLast == CHOOSE n \in DOMAIN sent : \A m \in DOMAIN sent : m <= n

(* Every process with the slave open is gone: a read past the last output  *)
(* and any write on the master fail.                                       *)
HungUp == child = "exited" /\ ~background

--------------------------------------------------------------------------------
(* The processes on the pty, and time.                                     *)

(* The child, with the processes it has started, writes.                   *)
ChildWrites ==
  /\ child = "running" /\ written < MaxOutput
  /\ written' = written + 1
  /\ UNCHANGED <<pc, ready, child, background, more, exits, drained_this_pass, io,
                 current, client, ending, numbers, polled>>

(* So does what it has left behind; nothing says it will ever stop.        *)
BackgroundWrites ==
  /\ child = "exited" /\ background
  /\ more' = TRUE
  /\ UNCHANGED <<pc, ready, child, background, written, exits, drained_this_pass, io,
                 current, client, ending, numbers, polled>>

ChildExits ==
  /\ child = "running"
  /\ child' = "exited"
  /\ UNCHANGED <<pc, ready, background, written, more, exits, drained_this_pass, io,
                 current, client, ending, numbers, polled>>

(* SHUTDOWN_RETRIES or ACTIVE_RETRY_TIMEOUT is used up.                    *)
ShutdownAckTimesOut ==
  /\ shutdown_in_progress /\ ~timed_out
  /\ timed_out' = TRUE
  /\ UNCHANGED <<pc, ready, processes, exits, drained_this_pass, io, current, client,
                 shutdown_in_progress, reason, numbers, polled>>

--------------------------------------------------------------------------------
(* A pass over the loop.                                                   *)

(* A signal at the top of the loop, or, at its end, nothing newer from the *)
(* client for too long.                                                    *)
GiveUp ==
  /\ pc = "poll"
  /\ pc' = "ended" /\ reason' \in {"terminated", "vanished"}
  /\ UNCHANGED <<ready, processes, exits, drained_this_pass, io, current, client,
                 shutdown_in_progress, timed_out, numbers, polled>>

Unread == current.shown < written \/ more

(* The wait is bounded, so poll_readable returns whatever it finds.        *)
Poll ==
  /\ pc = "poll" /\ pc' = "recv"
  /\ \E network \in SUBSET {"network"} :
       ready' = network \cup
         (IF ~child_exit /\ (Unread \/ HungUp) THEN {"master"} ELSE {})
  /\ polled' = IF child_exit THEN polled ELSE written
  /\ UNCHANGED <<processes, exits, drained_this_pass, io, current, client, ending,
                 numbers>>

(* The events of the client that are new in a state.                       *)
New(state) == (last_remote.events + 1)..state.events

(* The bytes among the events from first to last, in order.                *)
Typed(first, last) == Only([i \in 1..(last - first + 1) |-> first + i - 1], Nat \ Resizes)

(* What the new events do to the screen: the last resize counts, and the   *)
(* frame they came in is remembered for the echo acknowledgement.          *)
AfterEvents(screen, state) ==
  LET resized == New(state) \cap Resizes
  IN  [screen EXCEPT
        !.size = IF resized = {} THEN @
                 ELSE CHOOSE r \in resized : \A q \in resized : q <= r,
        !.frame = IF New(state) = {} THEN @ ELSE state.num]

(* recv until nothing is left, then act on the client's newest state.      *)
Recv ==
  /\ pc = "recv" /\ "network" \in ready
  /\ pc' = "read"
  /\ acked' \in {n \in DOMAIN sent : n >= acked}
  /\ sent' = [n \in {m \in DOMAIN sent : m >= acked'} |-> sent[n]]
  /\ told' = told \cup sent[acked'].queries
  /\ \E state \in RemoteState :
       /\ \/ state = remote
          \/ state.num > remote.num /\ state.events >= remote.events
       /\ remote' = state
       /\ IF state.num # last_remote.num /\ ~shutdown_in_progress
          THEN /\ last_remote' = state
               /\ terminal_to_host' = terminal_to_host
                                        \o Typed(last_remote.events + 1, state.events)
               /\ current' = AfterEvents(current, state)
          ELSE UNCHANGED <<last_remote, terminal_to_host, current>>
  /\ UNCHANGED <<ready, processes, exits, drained_this_pass, pending_to_host, host_input,
                 ending, queries_in_flight, polled>>

NothingReceived ==
  /\ pc = "recv" /\ "network" \notin ready
  /\ pc' = "read"
  /\ UNCHANGED <<ready, processes, exits, drained_this_pass, io, current, client,
                 ending, numbers, polled>>

Reads == ~child_exit /\ ~shutdown_in_progress /\ "master" \in ready

ReadDone ==
  /\ pc = "read" /\ pc' = "write"
  /\ ready' = {}
  /\ UNCHANGED <<child, background, written, child_reaped, pending_to_host, host_input,
                 client, ending, numbers>>

(* Some of the output, as much as a read returns, acts on the screen.      *)
Read ==
  /\ Reads
  /\ \E n \in current.shown..written :
       /\ more' \in {more, more /\ n < written}
       /\ n > current.shown \/ more' # more
       /\ LET acted == (current.shown + 1)..n
              replies == [i \in 1..Cardinality(acted \cap DeviceQueries) |-> Reply]
          IN  /\ current' = [current EXCEPT !.shown = n,
                                            !.queries = @ \cup (acted \cap ColorQueries)]
              /\ terminal_to_host' = terminal_to_host \o replies
  /\ drained_this_pass' = TRUE
  /\ UNCHANGED <<child_exit, polled>>
  /\ ReadDone

(* End of file, as EIO, once every writer has closed the slave.            *)
ReadEnds ==
  /\ Reads /\ ~Unread
  /\ child_exit' = TRUE
  /\ UNCHANGED <<more, drained_this_pass, terminal_to_host, current, polled>>
  /\ ReadDone

(* A ^S since the poll: the pty has nothing to give after all.             *)
ReadBlocks ==
  /\ FlowControl /\ Reads /\ ~HungUp
  /\ polled' = current.shown
  /\ UNCHANGED <<more, child_exit, drained_this_pass, terminal_to_host, current>>
  /\ ReadDone

ReadNothing ==
  /\ ~Reads
  /\ UNCHANGED <<more, child_exit, drained_this_pass, terminal_to_host, current, polled>>
  /\ ReadDone

Pending == pending_to_host \o terminal_to_host
Writes == Pending # <<>> /\ ~child_exit

(* Mutant of TakenByPty: what the pty did not take is dropped.             *)
RestForgotten(n) ==
  /\ host_input' = host_input \o SubSeq(Pending, 1, n)
  /\ pending_to_host' = <<>>

(* What the pty takes of it; none when it would block.                     *)
TakenByPty(n) ==
  /\ host_input' = host_input \o SubSeq(Pending, 1, n)
  /\ pending_to_host' = SubSeq(Pending, n + 1, Len(Pending))

Written ==
  /\ pc = "write" /\ pc' = "tick"
  /\ terminal_to_host' = <<>>
  /\ UNCHANGED <<ready, processes, child_reaped, drained_this_pass, current, client,
                 ending, numbers>>

Write ==
  /\ Writes /\ ~HungUp
  /\ \E n \in 0..Len(Pending) : TakenByPty(n)
  /\ UNCHANGED <<child_exit, polled>>
  /\ Written

(* No process has the slave open: nothing is read after this, either.      *)
WriteFails ==
  /\ Writes /\ HungUp
  /\ child_exit' = TRUE /\ polled' = current.shown
  /\ pending_to_host' = Pending /\ UNCHANGED host_input
  /\ Written

WriteNothing ==
  /\ ~Writes
  /\ pending_to_host' = Pending
  /\ UNCHANGED <<child_exit, host_input, polled>>
  /\ Written

(* set_echo_ack: the frame is old enough to be echoed by now, or is not.   *)
Echoed(screen) ==
  IF shutdown_in_progress THEN {screen}
  ELSE {screen, [screen EXCEPT !.echo = screen.frame]}

(* Mutant of Sent: the last screen is numbered like any other.             *)
SentInSequence(screen) ==
  {sent, [n \in DOMAIN sent \cup {SentLast + 1} |->
            IF n = SentLast + 1 THEN screen ELSE sent[n]]}

(* transport.tick: a new number, the old one again, or nothing.            *)
Sent(screen) ==
  LET num == IF shutdown_in_progress THEN SHUTDOWN_NUM ELSE SentLast + 1
  IN  {sent} \cup
      (IF num \in DOMAIN sent \/ (num = SHUTDOWN_NUM /\ ~shutdown_in_progress) THEN {}
       ELSE {[n \in DOMAIN sent \cup {num} |-> IF n = num THEN screen ELSE sent[n]]})

QuerySeq(screen) == Cardinality(1..screen.shown \cap ColorQueries)

(* The newest state sent carries colour queries: note which.               *)
InFlight(screen, newest, isNew) ==
  IF queries_in_flight = None /\ isNew /\ screen.queries # {}
  THEN [num |-> newest, seq |-> QuerySeq(screen)] ELSE queries_in_flight

(* Mutant of Cleared: whatever has been asked since is forgotten too.      *)
ClearedRegardless(screen, flight) ==
  IF flight # None /\ acked >= flight.num THEN [screen EXCEPT !.queries = {}] ELSE screen

(* They are dropped once that state is acknowledged, unless the child has  *)
(* asked again since.                                                      *)
Cleared(screen, flight) ==
  IF flight # None /\ acked >= flight.num /\ QuerySeq(screen) = flight.seq
  THEN [screen EXCEPT !.queries = {}] ELSE screen

Tick ==
  /\ pc = "tick"
  /\ \E screen \in Echoed(current) :
       /\ sent' \in Sent(screen)
       /\ LET flight == InFlight(screen, SentLast', sent' # sent)
          IN  /\ current' = Cleared(screen, flight)
              /\ queries_in_flight' =
                   IF flight # None /\ acked >= flight.num THEN None ELSE flight
  /\ pc' = "reap"
  /\ UNCHANGED <<ready, processes, exits, drained_this_pass, io, client, ending, acked,
                 told, polled>>

(* Mutant of Finished: the child's exit alone ends the session.            *)
FinishedOnExit(reaped) == child_exit \/ reaped

(* Mutant of Finished: only the end of the pty's output ends the session.  *)
FinishedOnEof(reaped) == child_exit

(* The child is gone and the pty had nothing left for us.                  *)
Finished(reaped) == child_exit \/ (reaped /\ ~drained_this_pass)

(* Reap the child; once finished, begin and then await the shutdown.       *)
Reap ==
  /\ pc = "reap"
  /\ LET reaped == child_reaped \/ child = "exited"
         done == /\ Finished(reaped)
                 /\ acked = SHUTDOWN_NUM \/ timed_out
     IN  /\ child_reaped' = reaped
         /\ child_exit' = Finished(reaped)
         /\ shutdown_in_progress' = (shutdown_in_progress \/ Finished(reaped))
         /\ pc' = IF done THEN "ended" ELSE "poll"
         /\ reason' = IF done THEN "finished" ELSE reason
  /\ drained_this_pass' = FALSE
  /\ UNCHANGED <<ready, processes, io, current, client, timed_out,
                 numbers, polled>>

Pass ==
  \/ Poll \/ Recv \/ NothingReceived \/ Read \/ ReadEnds \/ ReadBlocks
  \/ ReadNothing \/ Write \/ WriteFails \/ WriteNothing \/ Tick \/ Reap

Ended == pc = "ended" /\ UNCHANGED vars

Next ==
  \/ ChildWrites \/ BackgroundWrites \/ ChildExits \/ ShutdownAckTimesOut
  \/ GiveUp \/ Pass \/ Ended

(* Every wait in the loop is bounded, and so are the tries and the time    *)
(* before a shutdown is given up.                                          *)
Fairness == WF_vars(Pass) /\ WF_vars(ShutdownAckTimesOut)

Spec == Init /\ [][Next]_vars
FairSpec == Spec /\ Fairness

--------------------------------------------------------------------------------
(* Output that was in the pty when a pass began is on the screen before    *)
(* the pass may decide that the child's end is the session's, unless the   *)
(* pty has since refused to be read or written.                            *)
PolledOutputShown ==
  pc = "poll" /\ shutdown_in_progress => current.shown >= polled

(* What the client types reaches the child in order, once, whatever part   *)
(* of it the pty takes at a time.                                          *)
KeysInOrder ==
  LET rest == IF pc \in {"recv", "read", "write"} THEN Pending ELSE pending_to_host
  IN  Only(host_input \o rest, Nat \ {Reply}) = Typed(1, last_remote.events)

(* "A colour query stays in the state until the client acknowledges the    *)
(* state that carries it": neither later output nor a lost packet strands  *)
(* the application that asked.                                             *)
QueriesKept ==
  \A q \in 1..current.shown \cap ColorQueries : q \in current.queries \/ q \in told

(* No process left behind writes for ever.                                 *)
OutputStops == <>[][more' => more]_vars

(* The session ends once the child has, though a process it left behind    *)
(* holds the pty open and the client may never acknowledge the shutdown:   *)
(* as soon as that process is quiet for a pass.  It must be, some time,    *)
(* since every read puts the end off by a pass (drained_this_pass).        *)
ChildExitEndsSession == OutputStops => (child = "exited" ~> pc = "ended")

(* "acting on the exit alone is not enough either, because it would        *)
(* discard the child's last output": what the child wrote before it exited *)
(* is on the screen when the shutdown begins.                              *)
LastOutputShown == shutdown_in_progress => current.shown = written

(* "Frozen once shutdown starts, like every other change to the current    *)
(* state."                                                                 *)
FrozenOnceShutdown == [][shutdown_in_progress => current' = current]_vars

(* "Ask the server to end the session": after the client's shutdown the    *)
(* server begins its own, and does not wait until the client has vanished. *)
QuitEndsSession ==
  remote.num = SHUTDOWN_NUM ~> shutdown_in_progress \/ reason = "terminated"
================================================================================
