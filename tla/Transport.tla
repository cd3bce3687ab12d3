------------------------------- MODULE Transport -------------------------------
(***************************************************************************)
(* Two endpoints of a session and the network between them: the struct     *)
(* Transport of crates/mosh-network/src/transport.rs, one per peer, each   *)
(* with the TransportSender of its own state and the queue of states it    *)
(* has received from the other.                                            *)
(*                                                                         *)
(* UDP may lose, duplicate, delay and reorder datagrams: what was sent     *)
(* stays in `net` and may be delivered at any time, any number of times,   *)
(* or never.  An instruction arrives whole here: Fragment shows that the   *)
(* reassembly never delivers anything else.  Both peers read one clock;    *)
(* only differences of one peer's readings are ever used.                  *)
(***************************************************************************)
EXTENDS TransportSender, Functions

CONSTANTS
  MAX_RECEIVED_STATES, \* received states held before growth is refused
  QUENCH_INTERVAL,     \* how long growth is refused once that is passed
  SendIntervals,       \* the values send_interval(srtt) may take
  Timeouts,            \* the values the connection's timeout() may take
  Writers, Quitters,   \* bounds: the peers whose owner changes their state,
                       \* and those whose owner may start a shutdown
  Leavers,             \* bound: the peers that may lose their remote address
  MaxNow               \* bound: the clock stops there

ASSUME TransportConstants ==
  /\ {MAX_RECEIVED_STATES, QUENCH_INTERVAL, MaxNow} \subseteq Nat
  /\ SendIntervals \subseteq Nat /\ Timeouts \subseteq Nat

Peer == {"client", "server"}
Other(p) == IF p = "client" THEN "server" ELSE "client"

VARIABLES
  now,       \* milliseconds
  sender,    \* sender[p]: p's TransportSender
  received,  \* received[p]: states p holds of its peer, ordered by number
  quench,    \* quench[p]: receiver_quench_timer
  attached,  \* attached[p]: p's connection has a remote address
  net,       \* net[p]: the instructions p has ever sent
  raw,       \* history: raw[p] is p's state, nothing subtracted
  made       \* history: made[p][n] is raw[p] when p first sent number n

vars == <<now, sender, received, quench, attached, net, raw, made>>

ReceivedState == [num : 0..SHUTDOWN_NUM, state : State]
Nums(q) == {q[i].num : i \in DOMAIN q}

TypeOK ==
  /\ now \in Nat
  /\ sender \in [Peer -> TransportSenderType]
  /\ received \in [Peer -> Seq(ReceivedState)]
  /\ quench \in [Peer -> Nat]
  /\ attached \in [Peer -> BOOLEAN]
  /\ net \in [Peer -> SUBSET Instruction]
  /\ raw \in [Peer -> State]
  /\ made \in [Peer -> UNION {[nums -> State] : nums \in SUBSET (0..SHUTDOWN_NUM)}]
  /\ \A p \in Peer : /\ sender[p].sent # <<>> /\ received[p] # <<>>
                     /\ Nums(sender[p].sent) \subseteq DOMAIN made[p]

(* The client knows the server's address; the server waits for a client.   *)
Init ==
  /\ now = 0
  /\ sender = [p \in Peer |-> NewSender(0)]
  /\ received = [p \in Peer |-> <<[num |-> 0, state |-> InitialState]>>]
  /\ quench = [p \in Peer |-> 0]
  /\ attached = [p \in Peer |-> p = "client"]
  /\ net = [p \in Peer |-> {}]
  /\ raw = [p \in Peer |-> InitialState]
  /\ made = [p \in Peer |-> [n \in {0} |-> InitialState]]

--------------------------------------------------------------------------------
(* What the owner of the transport and the clock do.                       *)

(* Every owner leaves its loop when its shutdown has been acknowledged or   *)
(* has timed out (mosh-server main.rs:426, session.rs:237, lib.rs:154).    *)
Running(p) ==
  /\ ~ShutdownAcknowledged(sender[p])
  /\ ~ShutdownAckTimedOut(sender[p], now)

Clock == now < MaxNow /\ now' = now + 1
         /\ UNCHANGED <<sender, received, quench, attached, net, raw, made>>

(* Mutant of ChangeState: an owner that goes on once shutdown has begun.   *)
ChangeStateUnfrozen(p) ==
  /\ p \in Writers
  /\ \E i \in Input :
       /\ sender' = [sender EXCEPT ![p].current = Do(@, i)]
       /\ raw' = [raw EXCEPT ![p] = Do(@, i)]
  /\ UNCHANGED <<now, received, quench, attached, net, made>>

(* current_state_mut(): its debug_assert is the guard.                     *)
ChangeState(p) ==
  /\ p \in Writers /\ ~sender[p].shutdown_in_progress
  /\ \E i \in Input :
       /\ sender' = [sender EXCEPT ![p].current = Do(@, i)]
       /\ raw' = [raw EXCEPT ![p] = Do(@, i)]
  /\ UNCHANGED <<now, received, quench, attached, net, made>>

Shutdown(p) ==
  /\ p \in Quitters /\ ~sender[p].shutdown_in_progress
  /\ sender' = [sender EXCEPT ![p] = StartShutdown(@, now)]
  /\ UNCHANGED <<now, received, quench, attached, net, raw, made>>

--------------------------------------------------------------------------------
(* The transport's own schedule.                                           *)

Timers(p) == {CalculateTimers(sender[p], now, interval, timeout) :
                interval \in SendIntervals, timeout \in Timeouts}

(* wait_time() recomputes the timers, whatever the caller does with them.  *)
WaitTime(p) ==
  /\ Running(p)
  /\ \E s \in Timers(p) : sender' = [sender EXCEPT ![p] = s]
  /\ UNCHANGED <<now, received, quench, attached, net, raw, made>>

(* The queue s goes out with one instruction; s has assumed as of sending. *)
(* Once it is out, a server's connection forgets a client it has not heard *)
(* from for SERVER_ASSOCIATION_TIMEOUT.                                    *)
Send(p, s, num, diff) ==
  /\ net' = [net EXCEPT ![p] = @ \cup {Outgoing(s, num, diff)}]
  /\ attached' \in {attached} \cup (IF p \in Leavers
                                   THEN {[attached EXCEPT ![p] = FALSE]} ELSE {})
  /\ made' = [made EXCEPT ![p] =
                [n \in DOMAIN @ \cup {num} |->
                   IF n \in DOMAIN @ THEN @[n] ELSE raw[p]]]
  /\ UNCHANGED <<now, received, quench, raw>>

Due(p, s) == attached[p] /\ (now >= s.next_ack_time \/ now >= s.next_send_time)

(* Nothing due, or nobody to send to: only the timers are recomputed.      *)
TickIdle(p) ==
  /\ Running(p)
  /\ \E s \in Timers(p) :
       /\ ~Due(p, s)
       /\ sender' = [sender EXCEPT ![p] = s]
  /\ UNCHANGED <<now, received, quench, attached, net, raw, made>>

(* The send timer fires with no difference to send.                        *)
TickNothingToSend(p) ==
  /\ Running(p) /\ attached[p]
  /\ \E s \in Timers(p) : \E base \in ResendChoices(s) :
       /\ now >= s.next_send_time /\ now < s.next_ack_time
       /\ DiffFrom(s.current, s.sent[base].state) = NoDiff
       /\ sender' = [sender EXCEPT ![p] = [s EXCEPT
            !.assumed = base, !.next_send_time = Never, !.mindelay_clock = NoClock]]
  /\ UNCHANGED <<now, received, quench, attached, net, raw, made>>

(* The acknowledgement timer fires with no difference to send.  A number   *)
(* is spent on it, within the bound SHUTDOWN_NUM puts on numbers.          *)
TickEmptyAck(p) ==
  /\ Running(p) /\ attached[p]
  /\ \E s \in Timers(p) : \E base \in ResendChoices(s) :
       LET num == EmptyAckNum(s)
           queued == AddSentState([s EXCEPT !.assumed = base], now, num)
       IN  /\ now >= s.next_ack_time
           /\ DiffFrom(s.current, s.sent[base].state) = NoDiff
           /\ num < SHUTDOWN_NUM \/ s.shutdown_in_progress
           /\ sender' = [sender EXCEPT ![p] = AfterSend(queued, num, now)]
           /\ Send(p, queued, num, NoDiff)

(* Either timer fires with a difference to send.                           *)
TickSend(p) ==
  /\ Running(p)
  /\ \E s \in Timers(p) : \E base \in ResendChoices(s) :
       LET diff == DiffFrom(s.current, s.sent[base].state)
           num == SendToReceiverNum(s)
           queued == QueueForReceiver([s EXCEPT !.assumed = base], now)
       IN  /\ Due(p, s)
           /\ diff # NoDiff
           /\ num < SHUTDOWN_NUM \/ s.shutdown_in_progress
           /\ sender' = [sender EXCEPT ![p] =
                           AssumeDelivered(AfterSend(queued, num, now))]
           /\ Send(p, queued, num, diff)

--------------------------------------------------------------------------------
(* Receiving.                                                              *)

LatestNum(p) == received[p][Len(received[p])].num

(* Mutant of ProcessThrowawayUntil: the throwaway number goes as well.     *)
ThrowawayIncluded(q, throwaway_num) ==
  LET kept == {i \in DOMAIN q : q[i].num > throwaway_num} \cup {Len(q)}
  IN  SubSeq(q, CHOOSE i \in kept : \A j \in kept : i <= j, Len(q))

(* Drop what is older than the first number kept; the newest survives.     *)
ProcessThrowawayUntil(q, throwaway_num) ==
  LET kept == {i \in DOMAIN q : q[i].num >= throwaway_num}
      keep_from == IF kept = {} THEN Len(q)
                   ELSE CHOOSE i \in kept : \A j \in kept : i <= j
  IN  SubSeq(q, keep_from, Len(q))

(* Mutant of InsertByNum: the last to arrive is taken for the newest.      *)
InsertLast(q, r) == Append(q, r)

(* Keep the queue ordered by state number.                                 *)
InsertByNum(q, r) ==
  LET above == {i \in DOMAIN q : q[i].num > r.num}
      pos == IF above = {} THEN Len(q) + 1
             ELSE CHOOSE i \in above : \A j \in above : i <= j
  IN  InsertAt(q, pos, r)

(* A datagram newer than every earlier one gives a server its sender's     *)
(* address (Connection models which are); a client never loses the server's.*)
Heard(p) ==
  /\ attached' \in (IF p \in Leavers THEN {attached} ELSE {})
                     \cup {[attached EXCEPT ![p] = TRUE]}
  /\ UNCHANGED <<now, net, raw, made>>

Acking(p, m) == ProcessAcknowledgmentThrough(sender[p], m.ack_num)

(* Mutant of References: a diff is applied to whatever is newest.          *)
Newest(q, old_num) == {Len(q)}

(* The state an instruction moves from, if the queue still holds it.       *)
References(q, old_num) == {i \in DOMAIN q : q[i].num = old_num}

(* A repeat, or a move from a state p does not hold: only acknowledges.    *)
ApplyOnlyAck(p) ==
  /\ \E m \in net[Other(p)] :
       /\ \/ m.new_num \in Nums(received[p])
          \/ References(received[p], m.old_num) = {}
       /\ sender' = [sender EXCEPT ![p] = Acking(p, m)]
  /\ UNCHANGED <<received, quench>>
  /\ Heard(p)

(* A new state, refused because the queue is full and still quenched.      *)
ApplyQuenched(p) ==
  /\ \E m \in net[Other(p)] :
       LET kept == ProcessThrowawayUntil(received[p], m.throwaway_num)
       IN  /\ m.new_num \notin Nums(received[p])
           /\ References(received[p], m.old_num) # {}
           /\ Len(kept) > MAX_RECEIVED_STATES /\ now < quench[p]
           /\ sender' = [sender EXCEPT ![p] = Acking(p, m)]
           /\ received' = [received EXCEPT ![p] = kept]
  /\ UNCHANGED quench
  /\ Heard(p)

(* A new state, built from the one it moves from and acknowledged.         *)
ApplyNewState(p) ==
  /\ \E m \in net[Other(p)] :
       \E r \in References(received[p], m.old_num) :
       LET kept == ProcessThrowawayUntil(received[p], m.throwaway_num)
           full == Len(kept) > MAX_RECEIVED_STATES
           from == received[p][r].state
           new == [num |-> m.new_num,
                   state |-> IF m.diff = NoDiff THEN from ELSE ApplyString(from, m.diff)]
           queue == InsertByNum(kept, new)
       IN  /\ m.new_num \notin Nums(received[p])
           /\ full => now >= quench[p]
           /\ quench' = [quench EXCEPT ![p] = IF full THEN now + QUENCH_INTERVAL ELSE @]
           /\ received' = [received EXCEPT ![p] = queue]
           /\ sender' = [sender EXCEPT ![p] = [Acking(p, m) EXCEPT
                !.pending_data_ack = @ \/ m.diff # NoDiff,
                !.ack_num = queue[Len(queue)].num,
                !.last_heard = now]]
  /\ Heard(p)

--------------------------------------------------------------------------------
Owner(p) == ChangeState(p) \/ Shutdown(p) \/ WaitTime(p)
Tick(p) == TickIdle(p) \/ TickNothingToSend(p) \/ TickEmptyAck(p) \/ TickSend(p)
Recv(p) == ApplyOnlyAck(p) \/ ApplyQuenched(p) \/ ApplyNewState(p)

Next == Clock \/ \E p \in Peer : Owner(p) \/ Tick(p) \/ Recv(p)

Spec == Init /\ [][Next]_vars

--------------------------------------------------------------------------------
(* Properties of every kind of state.                                      *)

(* Both queues stay in order: what the front and the back stand for, and   *)
(* taking the assumed state as either the front or the back, rest on it.   *)
QueuesOrdered ==
  \A p \in Peer :
    /\ \A i, j \in DOMAIN sender[p].sent : i < j =>
         /\ sender[p].sent[i].num <= sender[p].sent[j].num
         /\ sender[p].sent[i].timestamp <= sender[p].sent[j].timestamp
    /\ \A i, j \in DOMAIN received[p] : i < j => received[p][i].num < received[p][j].num

(* The state a sender falls back on is one its peer still holds, whatever  *)
(* was lost, repeated or overtaken: a diff from it can always be applied.  *)
ReferenceHeld ==
  \A p \in Peer : Acked(sender[p]).num \in Nums(received[Other(p)])

(* "We must not acknowledge a state and then discard it": an acknowledged  *)
(* state leaves the receiver's queue only once its sender has moved past   *)
(* it, so no acknowledgement under way can name a state that is gone.      *)
AckedNotDiscarded ==
  \A p \in Peer :
    /\ sender[p].ack_num \in Nums(received[p])
    /\ \A m \in net[p] : \/ m.ack_num \in Nums(received[p])
                          \/ m.ack_num < Acked(sender[Other(p)]).num

(* What else the two properties above rest on, part of their inductive     *)
(* invariant: an endpoint acknowledges the newest state it holds, asks to  *)
(* throw away nothing its peer has not acknowledged, and never dates a     *)
(* state ahead of its clock.                                               *)
Bookkeeping ==
  \A p \in Peer :
    /\ sender[p].ack_num = LatestNum(p)
    /\ \A m \in net[p] : m.throwaway_num <= Acked(sender[p]).num
    /\ \A i \in DOMAIN sender[p].sent : sender[p].sent[i].timestamp <= now

(* An instruction's diff is the difference between the two states it names *)
(* as they were when those numbers were given out: thinning the queue, an  *)
(* acknowledgement or a resend in between never moves the base.            *)
DiffNamesItsStates ==
  \A p \in Peer : \A m \in net[p] :
    /\ {m.old_num, m.new_num} \subseteq DOMAIN made[p]
    /\ m.diff = DiffFrom(made[p][m.new_num], made[p][m.old_num])

(* A peer's view of the other never returns to an older state, and the     *)
(* acknowledged baseline never retreats.                                   *)
NeverBackwards ==
  [][\A p \in Peer : /\ LatestNum(p)' >= LatestNum(p)
                     /\ Acked(sender[p])'.num >= Acked(sender[p]).num]_vars
================================================================================
