---------------------------- MODULE TransportSender ----------------------------
(***************************************************************************)
(* Deciding what to send and when: crates/mosh-network/src/sender.rs.      *)
(*                                                                         *)
(* A sender is a record, and its methods are operators from a sender to a  *)
(* sender; Transport turns them into the actions of an endpoint.  The      *)
(* index of the state the peer is assumed to hold is 1-based here, and the *)
(* Option `mindelay_clock` is a number with NoClock for None.              *)
(*                                                                         *)
(* The round-trip estimate is the Connection's: send_interval and timeout  *)
(* are parameters wherever the code reads them from it.                    *)
(***************************************************************************)
EXTENDS Integers, SequencesExt, SyncState

CONSTANTS
  ACK_INTERVAL, ACK_DELAY, SHUTDOWN_RETRIES, ACTIVE_RETRY_TIMEOUT,
  SHUTDOWN_NUM,    \* the state number meaning "shutting down", u64::MAX
  MAX_SENT_STATES, \* queue length past which the middle is thinned
  THIN_FROM_BACK,  \* the literal 16: the victim is `len() - 16`
  SendMindelay,    \* 8, or the 1 a client sets
  Never            \* u64::MAX as a time

NoClock == -1

(***************************************************************************)
(* The victim of thinning is neither the acknowledged state at the front   *)
(* (17 <= len - 16) nor one of the two newest (16 >= 3).                   *)
(***************************************************************************)
ASSUME SenderConstants ==
  /\ {ACK_INTERVAL, ACK_DELAY, SHUTDOWN_RETRIES, ACTIVE_RETRY_TIMEOUT,
      SHUTDOWN_NUM, MAX_SENT_STATES, THIN_FROM_BACK, SendMindelay, Never}
       \subseteq Nat
  /\ SHUTDOWN_NUM > 0
  /\ THIN_FROM_BACK >= 3
  /\ MAX_SENT_STATES >= THIN_FROM_BACK

TimestampedState == [timestamp : Nat, num : 0..SHUTDOWN_NUM, state : State]

TransportSenderType ==
  [current : State, sent : Seq(TimestampedState), assumed : Nat \ {0},
   next_ack_time : Nat, next_send_time : Nat,
   shutdown_in_progress : BOOLEAN, shutdown_tries : Nat, shutdown_start : Nat,
   ack_num : 0..SHUTDOWN_NUM, pending_data_ack : BOOLEAN,
   last_heard : Nat, mindelay_clock : Nat \cup {NoClock}]

(* The fields of an Instruction the protocol reads.  Version and chaff are *)
(* left out: both endpoints of a session run the same protocol version.    *)
Instruction ==
  [old_num : 0..SHUTDOWN_NUM, new_num : 0..SHUTDOWN_NUM,
   ack_num : 0..SHUTDOWN_NUM, throwaway_num : 0..SHUTDOWN_NUM, diff : Diff]

NewSender(now) ==
  [current |-> InitialState,
   sent |-> <<[timestamp |-> now, num |-> 0, state |-> InitialState]>>,
   assumed |-> 1, next_ack_time |-> now, next_send_time |-> now,
   shutdown_in_progress |-> FALSE, shutdown_tries |-> 0, shutdown_start |-> 0,
   ack_num |-> 0, pending_data_ack |-> FALSE,
   last_heard |-> 0, mindelay_clock |-> NoClock]

Back(s) == s.sent[Len(s.sent)]
Acked(s) == s.sent[1]

StartShutdown(s, now) ==
  IF s.shutdown_in_progress THEN s
  ELSE [s EXCEPT !.shutdown_in_progress = TRUE, !.shutdown_start = now]

ShutdownAcknowledged(s) == Acked(s).num = SHUTDOWN_NUM

ShutdownAckTimedOut(s, now) ==
  /\ s.shutdown_in_progress
  /\ \/ s.shutdown_tries >= SHUTDOWN_RETRIES
     \/ now - s.shutdown_start >= ACTIVE_RETRY_TIMEOUT

(***************************************************************************)
(* The newest state such that it and every one after the acknowledged      *)
(* state before it are young enough for an acknowledgement to be in flight.*)
(***************************************************************************)
AssumedReceiverState(sent, now, timeout) ==
  LET stale == {i \in 2..Len(sent) :
                  now - sent[i].timestamp >= timeout + ACK_DELAY}
  IN  IF stale = {} THEN Len(sent)
      ELSE (CHOOSE i \in stale : \A j \in stale : i <= j) - 1

Rationalize(s) ==
  LET known == Acked(s).state
  IN  [s EXCEPT
        !.current = Subtract(@, known),
        !.sent = [i \in DOMAIN s.sent |->
                    [s.sent[i] EXCEPT !.state = Subtract(@, known)]]]

RetryActive(s, now) == s.last_heard + ACTIVE_RETRY_TIMEOUT > now

Later(a, b) == IF a >= b THEN a ELSE b

(* The send timer, once assumed, states and ack timer are up to date.      *)
ScheduleSend(s, now, interval, timeout) ==
  IF s.current # Back(s).state THEN
    LET clock == IF s.mindelay_clock = NoClock THEN now ELSE s.mindelay_clock
    IN  [s EXCEPT !.mindelay_clock = clock,
                  !.next_send_time = Later(clock + SendMindelay,
                                           Back(s).timestamp + interval)]
  ELSE IF s.current # s.sent[s.assumed].state /\ RetryActive(s, now) THEN
    [s EXCEPT !.next_send_time =
       IF s.mindelay_clock = NoClock THEN Back(s).timestamp + interval
       ELSE Later(Back(s).timestamp + interval, s.mindelay_clock + SendMindelay)]
  ELSE IF s.current # Acked(s).state /\ RetryActive(s, now) THEN
    [s EXCEPT !.next_send_time = Back(s).timestamp + timeout + ACK_DELAY]
  ELSE [s EXCEPT !.next_send_time = Never]

CalculateTimers(s, now, interval, timeout) ==
  LET assumed == [s EXCEPT !.assumed = AssumedReceiverState(s.sent, now, timeout)]
      tidy == Rationalize(assumed)
      acking == IF s.pending_data_ack /\ s.next_ack_time > now + ACK_DELAY
                THEN [tidy EXCEPT !.next_ack_time = now + ACK_DELAY] ELSE tidy
      timed == ScheduleSend(acking, now, interval, timeout)
  IN  IF s.shutdown_in_progress \/ s.ack_num = SHUTDOWN_NUM
      THEN [timed EXCEPT !.next_ack_time = Back(s).timestamp + interval]
      ELSE timed

(***************************************************************************)
(* Queue a state, thinning from the middle past the limit and keeping the  *)
(* assumed index on the state it named.                                    *)
(***************************************************************************)
AddSentState(s, now, num) ==
  LET longer == Append(s.sent, [timestamp |-> now, num |-> num, state |-> s.current])
      victim == Len(longer) - THIN_FROM_BACK + 1
  IN  IF Len(longer) <= MAX_SENT_STATES THEN [s EXCEPT !.sent = longer]
      ELSE [s EXCEPT !.sent = RemoveAt(longer, victim),
                     !.assumed = IF @ >= victim THEN @ - 1 ELSE @]

(* Mutant of Outgoing: what is assumed is taken for acknowledged.          *)
OutgoingThrowsAssumed(s, num, diff) ==
  [old_num |-> s.sent[s.assumed].num, new_num |-> num, ack_num |-> s.ack_num,
   throwaway_num |-> s.sent[s.assumed].num, diff |-> diff]

(* The instruction send_in_fragments builds ...                            *)
Outgoing(s, num, diff) ==
  [old_num |-> s.sent[s.assumed].num, new_num |-> num, ack_num |-> s.ack_num,
   throwaway_num |-> Acked(s).num, diff |-> diff]

(* ... and what it does to the sender, with the timers its callers set.    *)
AfterSend(s, num, now) ==
  [s EXCEPT !.shutdown_tries = IF num = SHUTDOWN_NUM THEN @ + 1 ELSE @,
            !.pending_data_ack = FALSE,
            !.next_ack_time = now + ACK_INTERVAL,
            !.next_send_time = Never,
            !.mindelay_clock = NoClock]

EmptyAckNum(s) ==
  IF s.shutdown_in_progress THEN SHUTDOWN_NUM ELSE Back(s).num + 1

(* Mutant of SendToReceiverNum: counts from the acknowledged state.        *)
NumAfterAcked(s) == IF s.shutdown_in_progress THEN SHUTDOWN_NUM ELSE Acked(s).num + 1

SendToReceiverNum(s) ==
  IF s.shutdown_in_progress THEN SHUTDOWN_NUM
  ELSE IF s.current = Back(s).state THEN Back(s).num ELSE Back(s).num + 1

(* A number already at the back is refreshed, any other is queued.         *)
QueueForReceiver(s, now) ==
  IF SendToReceiverNum(s) = Back(s).num
  THEN [s EXCEPT !.sent[Len(s.sent)].timestamp = now]
  ELSE AddSentState(s, now, SendToReceiverNum(s))

AssumeDelivered(s) == [s EXCEPT !.assumed = Len(s.sent)]

(* Mutant of ProcessAcknowledgmentThrough: the acknowledged state goes too.*)
AcknowledgedDropped(s, ack_num) ==
  [s EXCEPT !.sent = SelectSeq(@, LAMBDA t : t.num > ack_num)]

(***************************************************************************)
(* An acknowledgement of a state we hold drops every older one (`retain`   *)
(* on a queue ordered by number, which QueuesOrdered of Transport checks);   *)
(* an acknowledgement of any other state is ignored.                       *)
(***************************************************************************)
ProcessAcknowledgmentThrough(s, ack_num) ==
  LET held == {i \in DOMAIN s.sent : s.sent[i].num = ack_num}
      first == CHOOSE i \in held : \A j \in held : i <= j
      kept == IF held = {} THEN s.sent ELSE SubSeq(s.sent, first, Len(s.sent))
  IN  [s EXCEPT !.sent = kept,
                !.assumed = IF @ > Len(kept) THEN Len(kept) ELSE @]

(***************************************************************************)
(* The index the diff is taken from.  A diff from the acknowledged state   *)
(* replaces one from the assumed state when it is no longer, or longer by  *)
(* little.  Lengths are not modelled: either may win, except that an empty *)
(* diff and an equal one are never longer.                                 *)
(***************************************************************************)
ResendChoices(s) ==
  LET proposed == DiffFrom(s.current, s.sent[s.assumed].state)
      resend == DiffFrom(s.current, Acked(s).state)
  IN  IF s.assumed = 1 \/ resend \in {NoDiff, proposed} THEN {1} ELSE {1, s.assumed}
================================================================================
