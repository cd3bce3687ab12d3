------------------------------- MODULE StreamSync -------------------------------
(***************************************************************************)
(* The transport carrying an ordered stream of events: UserStream of       *)
(* crates/mosh-state/src/user.rs (keystrokes and resizes to mosh-server)   *)
(* and ByteStream of mosh-pipe.  A stream is the sequence of its events.   *)
(* The reader takes what is new with get_remote_diff and hands it on.      *)
(***************************************************************************)
EXTENDS Transport

CONSTANTS
  Event,
  MaxEvents \* bound of the model: the length of a stream

VARIABLES
  lastRemote, \* lastRemote[p]: last_receiver_state
  written     \* history: written[p] is what p's reader has handed on

streamVars == <<vars, lastRemote, written>>

--------------------------------------------------------------------------------
(* The operators of the state, the CONSTANTs of SyncState.                 *)

(* Consecutive keystrokes share one encoded instruction: the same events.  *)
StreamDo(s, e) == Append(s, e)
StreamDiffFrom(s, b) == SubSeq(s, Len(b) + 1, Len(s))
StreamApply(s, d) == s \o d

(* Pop the events of b one by one, up to the first that does not match.    *)
StreamSubtract(s, b) ==
  SubSeq(s, Len(LongestCommonPrefix({s, b})) + 1, Len(s))

--------------------------------------------------------------------------------
StreamInit ==
  /\ Init
  /\ lastRemote = [p \in Peer |-> InitialState]
  /\ written = [p \in Peer |-> <<>>]

Latest(p) == received[p][Len(received[p])].state

(* Mutant of GetRemoteDiff: what was read is remembered untrimmed.         *)
GetRemoteDiffUntrimmed(p) ==
  LET oldest == received[p][1].state
      rest == [i \in DOMAIN received[p] |->
                 [received[p][i] EXCEPT !.state = Subtract(@, oldest)]]
  IN  /\ written' = [written EXCEPT ![p] = @ \o DiffFrom(Latest(p), lastRemote[p])]
      /\ received' = [received EXCEPT ![p] = rest]
      /\ lastRemote' = [lastRemote EXCEPT ![p] = Latest(p)]
      /\ UNCHANGED <<now, sender, quench, attached, net, raw, made>>

(* The reader's turn: what the latest state adds to the last one read, and *)
(* then the oldest state, read by now, leaves every state of the queue.    *)
GetRemoteDiff(p) ==
  LET oldest == received[p][1].state
      rest == [i \in DOMAIN received[p] |->
                 [received[p][i] EXCEPT !.state = Subtract(@, oldest)]]
  IN  /\ written' = [written EXCEPT ![p] = @ \o DiffFrom(Latest(p), lastRemote[p])]
      /\ received' = [received EXCEPT ![p] = rest]
      /\ lastRemote' = [lastRemote EXCEPT ![p] = rest[Len(rest)].state]
      /\ UNCHANGED <<now, sender, quench, attached, net, raw, made>>

(* The bound on a stream's length is put on the owner's actions.           *)
StreamStep ==
  /\ Next
  /\ \A p \in Peer : Len(raw'[p]) <= MaxEvents
  /\ UNCHANGED <<lastRemote, written>>

StreamNext == StreamStep \/ \E p \in Peer : GetRemoteDiff(p)

StreamSpec == StreamInit /\ [][StreamNext]_streamVars

--------------------------------------------------------------------------------
(* The keystrokes the client types are what the server hands to the pty,   *)
(* in order and exactly once: repeats, overtaking, resends from an older   *)
(* state and the trimming of acknowledged and of consumed prefixes never   *)
(* lose, double or swap an event.                                          *)
Keystrokes == INSTANCE ReliableStream
  WITH typed <- raw["client"], written <- written["server"]

ServerReadsStream == Keystrokes!Spec

(* Every received state is what its number meant to the sender, less a     *)
(* part its reader has already taken; the queue's states all lack the same *)
(* part, so a diff applies to any of them.                                 *)
CommonPart ==
  \A p \in Peer : \E gone \in 0..Len(written[p]) :
    /\ \A i \in DOMAIN received[p] :
         LET full == made[Other(p)][received[p][i].num]
         IN  received[p][i].state = SubSeq(full, gone + 1, Len(full))
    /\ lastRemote[p] = SubSeq(written[p], gone + 1, Len(written[p]))

(* A peer whose shutdown was acknowledged has everything it typed in the   *)
(* other's hands: written once the reader has taken its next turn.         *)
NothingLeftBehind ==
  \A p \in Peer : ShutdownAcknowledged(sender[p]) =>
    written[Other(p)] \o DiffFrom(Latest(Other(p)), lastRemote[Other(p)]) = raw[p]
================================================================================
