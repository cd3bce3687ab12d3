----------------------------- MODULE TransportProofs -----------------------------
(***************************************************************************)
(* Theorems about Transport, for every kind of state, every value of its   *)
(* timing constants, any number of states queued, sent, lost, repeated and *)
(* overtaken.  The inductive invariant is                                  *)
(*                                                                         *)
(*   TypeOK, QueuesOrdered    each endpoint's own queues are in order;     *)
(*   Bookkeeping              what an instruction says was true of its     *)
(*                            sender, and can only become more true;       *)
(*   ReferenceHeld and        what the two endpoints hold fits together.   *)
(*   AckedNotDiscarded                                                     *)
(*                                                                         *)
(* The last two need each other: a receiver discards only below a          *)
(* throwaway number, which its peer took from a state acknowledged by      *)
(* then, and the peer moves on only to a state named by an acknowledgement.*)
(*                                                                         *)
(* The second and the third part prove what the transport does for the two *)
(* kinds of state it carries, on the same lemmas and on that invariant:    *)
(* ScreenSync's screens, and StreamSync's streams of events.               *)
(***************************************************************************)
EXTENDS ScreenSync, StreamSync, FoldLemmas, SequenceTheorems, FiniteSetTheorems

(***************************************************************************)
(* What the queues are built with.                                         *)
(***************************************************************************)

(* What `VecDeque::remove` leaves: everything else, in the same order.     *)
LEMMA RemoveAtProperties ==
  ASSUME NEW S, NEW q \in Seq(S), NEW k \in 1..Len(q)
  PROVE  /\ RemoveAt(q, k) \in Seq(S)
         /\ Len(RemoveAt(q, k)) = Len(q) - 1
         /\ \A i \in 1..(k - 1) : RemoveAt(q, k)[i] = q[i]
         /\ \A i \in k..(Len(q) - 1) : RemoveAt(q, k)[i] = q[i + 1]
<1> DEFINE a == SubSeq(q, 1, k - 1)
           b == SubSeq(q, k + 1, Len(q))
<1>1. /\ a \in Seq(S) /\ Len(a) = k - 1
      /\ \A i \in 1..(k - 1) : a[i] = q[i]
  <2>1. \A i \in 1..(k - 1) : q[i] \in S
    OBVIOUS
  <2> QED  BY <2>1, SubSeqProperties
<1>2. /\ b \in Seq(S) /\ Len(b) = Len(q) - k
      /\ \A i \in 1..(Len(q) - k) : b[i] = q[k + i]
  <2>1. \A i \in (k + 1)..Len(q) : q[i] \in S
    OBVIOUS
  <2> QED  BY <2>1, SubSeqProperties
<1>3. RemoveAt(q, k) = a \o b  BY DEF RemoveAt
<1> HIDE DEF a, b
<1>4. /\ a \o b \in Seq(S) /\ Len(a \o b) = Len(q) - 1
      /\ \A i \in 1..(Len(q) - 1) :
           (a \o b)[i] = IF i <= k - 1 THEN a[i] ELSE b[i - (k - 1)]
  <2>1. /\ a \o b \in Seq(S) /\ Len(a \o b) = Len(a) + Len(b)
        /\ \A i \in 1..(Len(a) + Len(b)) :
             (a \o b)[i] = IF i <= Len(a) THEN a[i] ELSE b[i - Len(a)]
    BY <1>1, <1>2, ConcatProperties
  <2> QED  BY <1>1, <1>2, <2>1
<1>5. \A i \in 1..(k - 1) : (a \o b)[i] = q[i]
  BY <1>1, <1>4
<1>6. \A i \in k..(Len(q) - 1) : (a \o b)[i] = q[i + 1]
  <2> TAKE i \in k..(Len(q) - 1)
  <2>1. i - (k - 1) \in 1..(Len(q) - k)  OBVIOUS
  <2>2. (a \o b)[i] = b[i - (k - 1)]  BY <1>4
  <2>3. k + (i - (k - 1)) = i + 1  OBVIOUS
  <2>4. b[i - (k - 1)] = q[k + (i - (k - 1))]  BY <1>2, <2>1
  <2> QED  BY <2>2, <2>3, <2>4
<1> DEFINE rest == a \o b
<1>7. /\ rest \in Seq(S) /\ Len(rest) = Len(q) - 1
      /\ \A i \in 1..(k - 1) : rest[i] = q[i]
      /\ \A i \in k..(Len(q) - 1) : rest[i] = q[i + 1]
      /\ RemoveAt(q, k) = rest
  BY <1>3, <1>4, <1>5, <1>6
<1> HIDE DEF rest
<1> QED  BY <1>7

(* What `Vec::insert` leaves: the rest makes room.                         *)
LEMMA InsertAtProperties ==
  ASSUME NEW S, NEW q \in Seq(S), NEW k \in 1..(Len(q) + 1), NEW e \in S
  PROVE  /\ InsertAt(q, k, e) \in Seq(S)
         /\ Len(InsertAt(q, k, e)) = Len(q) + 1
         /\ \A i \in 1..(k - 1) : InsertAt(q, k, e)[i] = q[i]
         /\ InsertAt(q, k, e)[k] = e
         /\ \A i \in (k + 1)..(Len(q) + 1) : InsertAt(q, k, e)[i] = q[i - 1]
<1> DEFINE a == SubSeq(q, 1, k - 1)
           b == SubSeq(q, k, Len(q))
           ae == a \o <<e>>
<1>1. /\ a \in Seq(S) /\ Len(a) = k - 1
      /\ \A i \in 1..(k - 1) : a[i] = q[i]
  <2>1. \A i \in 1..(k - 1) : q[i] \in S
    OBVIOUS
  <2> QED  BY <2>1, SubSeqProperties
<1>2. /\ b \in Seq(S) /\ Len(b) = Len(q) - k + 1
      /\ \A i \in 1..(Len(q) - k + 1) : b[i] = q[k + i - 1]
  <2>1. \A i \in k..Len(q) : q[i] \in S
    OBVIOUS
  <2> QED  BY <2>1, SubSeqProperties
<1> HIDE DEF a, b
<1>3. <<e>> \in Seq(S) /\ Len(<<e>>) = 1 /\ <<e>>[1] = e
  OBVIOUS
<1>4. /\ ae \in Seq(S) /\ Len(ae) = k
      /\ \A i \in 1..k : ae[i] = IF i <= k - 1 THEN a[i] ELSE <<e>>[i - (k - 1)]
  BY <1>1, <1>3, ConcatProperties
<1>5. InsertAt(q, k, e) = ae \o b
  BY DEF InsertAt, a, b
<1>6. ae[k] = e
  BY <1>3, <1>4
<1>7. \A i \in 1..(k - 1) : ae[i] = q[i]
  BY <1>1, <1>4
<1> HIDE DEF ae
<1>8. /\ ae \o b \in Seq(S) /\ Len(ae \o b) = Len(q) + 1
      /\ \A i \in 1..(Len(q) + 1) :
           (ae \o b)[i] = IF i <= k THEN ae[i] ELSE b[i - k]
  <2>1. /\ ae \o b \in Seq(S) /\ Len(ae \o b) = Len(ae) + Len(b)
        /\ \A i \in 1..(Len(ae) + Len(b)) :
             (ae \o b)[i] = IF i <= Len(ae) THEN ae[i] ELSE b[i - Len(ae)]
    BY <1>2, <1>4, ConcatProperties
  <2> QED  BY <1>2, <1>4, <2>1
<1>9. \A i \in 1..(k - 1) : (ae \o b)[i] = q[i]
  BY <1>7, <1>8
<1>10. (ae \o b)[k] = e
  BY <1>6, <1>8
<1>11. \A i \in (k + 1)..(Len(q) + 1) : (ae \o b)[i] = q[i - 1]
  <2> TAKE i \in (k + 1)..(Len(q) + 1)
  <2>1. i - k \in 1..(Len(q) - k + 1)  OBVIOUS
  <2>2. (ae \o b)[i] = b[i - k]  BY <1>8
  <2> QED  BY <1>2, <2>1, <2>2
<1> QED  BY <1>5, <1>8, <1>9, <1>10, <1>11

(* What `drain(..k)` and `retain` on an ordered queue leave: a suffix.     *)
LEMMA SuffixProperties ==
  ASSUME NEW S, NEW q \in Seq(S), NEW k \in 1..Len(q)
  PROVE  /\ SubSeq(q, k, Len(q)) \in Seq(S)
         /\ Len(SubSeq(q, k, Len(q))) = Len(q) - k + 1
         /\ \A i \in 1..(Len(q) - k + 1) :
              SubSeq(q, k, Len(q))[i] = q[k + i - 1]
<1>1. \A i \in k..Len(q) : q[i] \in S
  OBVIOUS
<1> QED  BY <1>1, SubSeqProperties

(***************************************************************************)
(* What the methods of a TransportSender do to its queue of sent states.   *)
(***************************************************************************)

(* The same queue, states aside: the numbers and the times, and the        *)
(* acknowledgement that goes out with it.                                  *)
SameQueue(s, t) ==
  /\ Len(t.sent) = Len(s.sent)
  /\ \A i \in 1..Len(s.sent) : /\ t.sent[i].num = s.sent[i].num
                               /\ t.sent[i].timestamp = s.sent[i].timestamp
  /\ t.ack_num = s.ack_num

(* The same states too.                                                    *)
SameStates(s, t) ==
  /\ t.current = s.current
  /\ \A i \in 1..Len(s.sent) : t.sent[i].state = s.sent[i].state

Numbered(sent) ==
  \A i, j \in 1..Len(sent) : i < j => sent[i].num <= sent[j].num
Dated(sent) ==
  \A i, j \in 1..Len(sent) : i < j => sent[i].timestamp <= sent[j].timestamp
NotAfter(sent, time) == \A i \in 1..Len(sent) : sent[i].timestamp <= time

(* The constants are numbers.                                              *)
LEMMA ConstantTypes ==
  /\ ACK_INTERVAL \in Nat /\ ACK_DELAY \in Nat /\ SHUTDOWN_RETRIES \in Nat
  /\ ACTIVE_RETRY_TIMEOUT \in Nat /\ SHUTDOWN_NUM \in Nat /\ MAX_SENT_STATES \in Nat
  /\ THIN_FROM_BACK \in Nat /\ SendMindelay \in Nat /\ Never \in Nat
  BY SenderConstants

(* The entries of a sender's queue.                                        *)
LEMMA EntryTypes ==
  ASSUME NEW q \in Seq(TimestampedState)
  PROVE  /\ Len(q) \in Nat /\ DOMAIN q = 1..Len(q)
         /\ q # <<>> => Len(q) \in 1..Len(q)
         /\ \A i \in 1..Len(q) :
              /\ q[i] \in TimestampedState
              /\ q[i].timestamp \in Nat /\ q[i].num \in 0..SHUTDOWN_NUM
              /\ q[i].num \in Nat /\ q[i].state \in State
<1>1. \A i \in 1..Len(q) : q[i] \in TimestampedState
  OBVIOUS
<1>2. Len(q) \in Nat /\ (q # <<>> => Len(q) \in 1..Len(q))
  BY EmptySeq
<1> QED  BY <1>1, <1>2, ConstantTypes DEF TimestampedState

(* The oldest state a queue holds, which is the acknowledged one.          *)
LEMMA FirstNumber ==
  ASSUME NEW q \in Seq(TimestampedState), q # <<>>
  PROVE  q[1].num \in Nat
<1>1. 1 \in 1..Len(q)
  <2>1. Len(q) \in 1..Len(q)
    BY EntryTypes
  <2> QED  BY <2>1
<1>2. \A i \in 1..Len(q) : q[i].num \in Nat
  BY EntryTypes
<1> QED  BY <1>1, <1>2

(* With times in order, benefit of the doubt goes to all of the queue or   *)
(* to none of it but the acknowledged state.                               *)
LEMMA AssumedIsFrontOrBack ==
  ASSUME NEW sent \in Seq(TimestampedState), sent # <<>>,
         NEW time \in Nat, NEW timeout \in Nat
  PROVE  /\ AssumedReceiverState(sent, time, timeout) \in 1..Len(sent)
         /\ Dated(sent) => AssumedReceiverState(sent, time, timeout) \in {1, Len(sent)}
<1> DEFINE stale == {i \in 2..Len(sent) :
                       time - sent[i].timestamp >= timeout + ACK_DELAY}
           least == CHOOSE i \in stale : \A j \in stale : i <= j
<1>0. /\ \A i \in 1..Len(sent) : sent[i].timestamp \in Nat
      /\ Len(sent) \in Nat
      /\ timeout + ACK_DELAY \in Nat
  BY ConstantTypes, EntryTypes
<1>1. CASE stale = {}
  BY <1>1 DEF AssumedReceiverState
<1>2. CASE stale # {}
  <2>1. stale \in SUBSET Nat  OBVIOUS
  <2>2. least \in stale /\ \A j \in stale : least <= j
    BY <1>2, <2>1, LeastNumber
  <2>3. AssumedReceiverState(sent, time, timeout) = least - 1
    BY <1>2 DEF AssumedReceiverState
  <2>4. ASSUME Dated(sent) PROVE least = 2
    <3>1. PICK k \in stale : k = least /\ \A j \in stale : k <= j
      BY <2>2
    <3>2. k \in 2..Len(sent) /\ time - sent[k].timestamp >= timeout + ACK_DELAY
      OBVIOUS
    <3>3. sent[2].timestamp <= sent[k].timestamp
      BY <1>0, <2>4, <3>2 DEF Dated
    <3>4. time - sent[2].timestamp >= timeout + ACK_DELAY
      BY <1>0, <3>2, <3>3
    <3>5. 2 \in stale
      BY <1>0, <3>2, <3>4
    <3> QED  BY <3>1, <3>2, <3>5
  <2> QED  BY <2>2, <2>3, <2>4
<1> QED  BY <1>1, <1>2

(* Every state less what it shares with the acknowledged one.              *)
Tidied(s, t) ==
  /\ t.current = Subtract(s.current, Acked(s).state)
  /\ \A i \in 1..Len(s.sent) :
       t.sent[i].state = Subtract(s.sent[i].state, Acked(s).state)

(* A kind of state with no prefix to drop.                                 *)
NothingSubtracted == \A s, b \in State : Subtract(s, b) = s

(* Cutting off the common part leaves numbers and times of the queue       *)
(* alone.                                                                  *)
LEMMA RationalizeKeepsQueue ==
  ASSUME SyncStateType, NEW s \in TransportSenderType, s.sent # <<>>
  PROVE  /\ Rationalize(s) \in TransportSenderType
         /\ SameQueue(s, Rationalize(s))
         /\ Rationalize(s).assumed = s.assumed
         /\ Rationalize(s).shutdown_in_progress = s.shutdown_in_progress
         /\ Tidied(s, Rationalize(s))
         /\ NothingSubtracted => SameStates(s, Rationalize(s))
<1> DEFINE known == Acked(s).state
           sent == [i \in DOMAIN s.sent |->
                      [s.sent[i] EXCEPT !.state = Subtract(@, known)]]
<1>1. s.sent \in Seq(TimestampedState) /\ s.current \in State
  BY DEF TransportSenderType
<1>2. \A i \in 1..Len(s.sent) : s.sent[i] \in TimestampedState
  BY <1>1
<1>3. known \in State
  BY <1>1, <1>2 DEF Acked, TimestampedState
<1>4. \A i \in 1..Len(s.sent) :
        /\ [s.sent[i] EXCEPT !.state = Subtract(@, known)] \in TimestampedState
        /\ [s.sent[i] EXCEPT !.state = Subtract(@, known)].num = s.sent[i].num
        /\ [s.sent[i] EXCEPT !.state = Subtract(@, known)].timestamp = s.sent[i].timestamp
        /\ [s.sent[i] EXCEPT !.state = Subtract(@, known)].state
             = Subtract(s.sent[i].state, known)
        /\ NothingSubtracted =>
             [s.sent[i] EXCEPT !.state = Subtract(@, known)].state = s.sent[i].state
  <2> HIDE DEF known
  <2> QED  BY <1>2, <1>3 DEF TimestampedState, SyncStateType, NothingSubtracted
<1>5. /\ sent \in Seq(TimestampedState) /\ Len(sent) = Len(s.sent)
      /\ \A i \in 1..Len(s.sent) :
           /\ sent[i].num = s.sent[i].num
           /\ sent[i].timestamp = s.sent[i].timestamp
           /\ sent[i].state = Subtract(s.sent[i].state, known)
           /\ NothingSubtracted => sent[i].state = s.sent[i].state
  <2>1. DOMAIN s.sent = 1..Len(s.sent) /\ Len(s.sent) \in Nat  BY <1>1
  <2>2. sent \in [1..Len(s.sent) -> TimestampedState]  BY <1>4, <2>1
  <2> QED  BY <1>4, <2>1, <2>2
<1>6. Subtract(s.current, known) \in State
  BY <1>1, <1>3 DEF SyncStateType
<1>7. Rationalize(s) = [s EXCEPT !.current = Subtract(s.current, known), !.sent = sent]
  BY DEF Rationalize
<1>8. NothingSubtracted => Subtract(s.current, known) = s.current
  BY <1>1, <1>3 DEF NothingSubtracted
<1> HIDE DEF sent
<1>9. known = Acked(s).state
  OBVIOUS
<1> HIDE DEF known
<1> DEFINE t == Rationalize(s)
<1>10. /\ t \in TransportSenderType /\ t.sent = sent /\ t.assumed = s.assumed
       /\ t.current = Subtract(s.current, known) /\ t.ack_num = s.ack_num
       /\ t.shutdown_in_progress = s.shutdown_in_progress
  BY <1>5, <1>6, <1>7 DEF TransportSenderType
<1> HIDE DEF t
<1>11. SameQueue(s, t) /\ (NothingSubtracted => SameStates(s, t))
  BY <1>5, <1>8, <1>10 DEF SameQueue, SameStates
<1>12. Tidied(s, t)
  BY <1>5, <1>9, <1>10 DEF Tidied
<1> QED  BY <1>10, <1>11, <1>12 DEF t

(* So does setting the timers.                                             *)
LEMMA ScheduleSendKeepsQueue ==
  ASSUME NEW s \in TransportSenderType, s.sent # <<>>, NEW time \in Nat,
         NEW interval \in Nat, NEW timeout \in Nat
  PROVE  LET t == ScheduleSend(s, time, interval, timeout)
         IN  /\ t \in TransportSenderType
             /\ t.sent = s.sent /\ t.current = s.current /\ t.assumed = s.assumed
             /\ t.ack_num = s.ack_num
             /\ t.shutdown_in_progress = s.shutdown_in_progress
<1>1. s.sent \in Seq(TimestampedState)  BY DEF TransportSenderType
<1>2. Back(s).timestamp \in Nat
  BY <1>1, EntryTypes DEF Back
<1>4. s.mindelay_clock # NoClock => s.mindelay_clock \in Nat
  BY DEF TransportSenderType
<1>5. \E clock \in Nat \cup {NoClock}, t \in Nat :
        ScheduleSend(s, time, interval, timeout)
          = [s EXCEPT !.mindelay_clock = clock, !.next_send_time = t]
  <2> DEFINE b == Back(s).timestamp
             c == IF s.mindelay_clock = NoClock THEN time ELSE s.mindelay_clock
  <2>0. c \in Nat /\ s.mindelay_clock \in Nat \cup {NoClock}
    BY <1>4 DEF TransportSenderType
  <2>s. s = [s EXCEPT !.mindelay_clock = s.mindelay_clock]
    BY DEF TransportSenderType
  <2>1. CASE s.current # Back(s).state
    <3>1. ScheduleSend(s, time, interval, timeout)
            = [s EXCEPT !.mindelay_clock = c,
                        !.next_send_time = Later(c + SendMindelay, b + interval)]
      BY <2>1 DEF ScheduleSend
    <3>2. Later(c + SendMindelay, b + interval) \in Nat
      <4>1. c + SendMindelay \in Nat /\ b + interval \in Nat
        BY <1>2, <2>0, ConstantTypes
      <4> QED  BY <4>1 DEF Later
    <3> QED  BY <2>0, <3>1, <3>2
  <2>2. CASE s.current = Back(s).state
    <3>1. \E t \in Nat : ScheduleSend(s, time, interval, timeout)
                           = [s EXCEPT !.next_send_time = t]
      <4>1. /\ b + interval \in Nat
            /\ s.mindelay_clock # NoClock =>
                 Later(b + interval, s.mindelay_clock + SendMindelay) \in Nat
            /\ b + timeout + ACK_DELAY \in Nat
            /\ Never \in Nat
        <5>1. b + interval \in Nat /\ b + timeout + ACK_DELAY \in Nat /\ Never \in Nat
          BY <1>2, ConstantTypes
        <5>2. s.mindelay_clock # NoClock => s.mindelay_clock + SendMindelay \in Nat
          BY <1>4, ConstantTypes
        <5> QED  BY <5>1, <5>2 DEF Later
      <4> HIDE DEF b
      <4>2. \E t \in Nat : t = IF s.mindelay_clock = NoClock THEN b + interval
                               ELSE Later(b + interval, s.mindelay_clock + SendMindelay)
        BY <4>1
      <4> QED  BY <2>2, <4>1, <4>2 DEF ScheduleSend, b
    <3>2. PICK t \in Nat : ScheduleSend(s, time, interval, timeout)
                             = [s EXCEPT !.next_send_time = t]
      BY <3>1
    <3>3. [s EXCEPT !.next_send_time = t]
            = [s EXCEPT !.mindelay_clock = s.mindelay_clock, !.next_send_time = t]
      BY DEF TransportSenderType
    <3> QED  BY <2>0, <3>2, <3>3
  <2> QED  BY <2>1, <2>2
<1> QED  BY <1>5 DEF TransportSenderType

(* Replacing the queue and the assumption leaves the other fields alone.   *)
LEMMA RequeueProperties ==
  ASSUME NEW s \in TransportSenderType, NEW q \in Seq(TimestampedState),
         NEW x \in Nat \ {0}
  PROVE  LET t == [s EXCEPT !.sent = q, !.assumed = x]
         IN  /\ t \in TransportSenderType /\ t.sent = q /\ t.assumed = x
             /\ t = [s EXCEPT !.sent = t.sent, !.assumed = t.assumed]
             /\ t.ack_num = s.ack_num /\ t.current = s.current
             /\ t.shutdown_in_progress = s.shutdown_in_progress
  BY DEF TransportSenderType

(* calculate_timers leaves the queue's numbers and times alone, and points *)
(* the assumption at the front or at the back.                             *)
LEMMA TimersKeepQueue ==
  ASSUME SyncStateType, NEW s \in TransportSenderType, s.sent # <<>>,
         NEW time \in Nat, NEW interval \in Nat, NEW timeout \in Nat
  PROVE  LET t == CalculateTimers(s, time, interval, timeout)
         IN  /\ t \in TransportSenderType
             /\ SameQueue(s, t)
             /\ t.assumed \in 1..Len(t.sent)
             /\ Dated(s.sent) => t.assumed \in {1, Len(t.sent)}
             /\ t.shutdown_in_progress = s.shutdown_in_progress
             /\ Tidied(s, t)
             /\ NothingSubtracted => SameStates(s, t)
<1> DEFINE a == [s EXCEPT !.assumed = AssumedReceiverState(s.sent, time, timeout)]
           r == Rationalize(a)
           k == IF s.pending_data_ack /\ s.next_ack_time > time + ACK_DELAY
                THEN [r EXCEPT !.next_ack_time = time + ACK_DELAY] ELSE r
           g == ScheduleSend(k, time, interval, timeout)
           t == CalculateTimers(s, time, interval, timeout)
<1>1. s.sent \in Seq(TimestampedState)  BY DEF TransportSenderType
<1>2. /\ a.assumed \in 1..Len(s.sent)
      /\ Dated(s.sent) => a.assumed \in {1, Len(s.sent)}
  BY <1>1, AssumedIsFrontOrBack DEF TransportSenderType
<1>3. /\ a \in TransportSenderType /\ SameQueue(s, a) /\ a.sent = s.sent
      /\ a.current = s.current /\ a.shutdown_in_progress = s.shutdown_in_progress
  <2> DEFINE x == AssumedReceiverState(s.sent, time, timeout)
  <2>0. x \in 1..Len(s.sent)
    BY <1>1, AssumedIsFrontOrBack
  <2> HIDE DEF x
  <2>1. x \in Nat \ {0}
    BY <1>1, <2>0
  <2>2. a = [s EXCEPT !.assumed = x]  BY DEF x
  <2> HIDE DEF a
  <2> QED  BY <2>1, <2>2 DEF TransportSenderType, SameQueue
<1> HIDE DEF a
<1>4. /\ r \in TransportSenderType /\ SameQueue(a, r) /\ r.assumed = a.assumed
      /\ r.shutdown_in_progress = a.shutdown_in_progress
      /\ Tidied(a, r)
      /\ NothingSubtracted => SameStates(a, r)
  BY <1>3, RationalizeKeepsQueue
<1> HIDE DEF r
<1>5. /\ k \in TransportSenderType /\ k.sent = r.sent /\ k.assumed = r.assumed
      /\ k.ack_num = r.ack_num /\ k.shutdown_in_progress = r.shutdown_in_progress
      /\ k.current = r.current
  <2>1. time + ACK_DELAY \in Nat  BY ConstantTypes
  <2> QED  BY <1>4, <2>1 DEF TransportSenderType
<1> HIDE DEF k
<1>6. k.sent # <<>>
  BY <1>1, <1>3, <1>4, <1>5, EmptySeq DEF SameQueue, TransportSenderType
<1>7. /\ g \in TransportSenderType /\ g.sent = k.sent /\ g.assumed = k.assumed
      /\ g.ack_num = k.ack_num /\ g.shutdown_in_progress = k.shutdown_in_progress
      /\ g.current = k.current
  <2>1. k \in TransportSenderType  BY <1>5
  <2> QED  BY <1>6, <2>1, ScheduleSendKeepsQueue, ZenonT(60)
<1> HIDE DEF g
<1>8. Back(s).timestamp + interval \in Nat
  BY <1>1, EntryTypes DEF Back
<1>9. \/ t = g
      \/ t = [g EXCEPT !.next_ack_time = Back(s).timestamp + interval]
  BY DEF CalculateTimers, a, r, k, g
<1>10. /\ t \in TransportSenderType /\ t.sent = g.sent /\ t.assumed = g.assumed
       /\ t.ack_num = g.ack_num /\ t.shutdown_in_progress = g.shutdown_in_progress
       /\ t.current = g.current
  BY <1>7, <1>8, <1>9 DEF TransportSenderType
<1> HIDE DEF t
<1>11. SameQueue(s, t)
  BY <1>3, <1>4, <1>5, <1>7, <1>10 DEF SameQueue
<1>12. t.assumed = a.assumed /\ Len(t.sent) = Len(s.sent)
  BY <1>4, <1>5, <1>7, <1>10, <1>11 DEF SameQueue
<1>13. /\ t.shutdown_in_progress = s.shutdown_in_progress
       /\ NothingSubtracted => SameStates(s, t)
  BY <1>3, <1>4, <1>5, <1>7, <1>10 DEF SameStates
<1>14. Tidied(s, t)
  BY <1>3, <1>4, <1>5, <1>7, <1>10 DEF Tidied, Acked
<1> QED  BY <1>2, <1>10, <1>11, <1>12, <1>13, <1>14 DEF t

(* r is q with a new entry, perhaps thinned between the second entry and   *)
(* the last but one; b names the entry of r that a named in q.             *)
AppendedOrThinned(q, new, a, r, b) ==
  \/ r = Append(q, new) /\ b = a
  \/ \E v \in 2..(Len(q) - 1) : /\ r = RemoveAt(Append(q, new), v)
                                /\ b = IF a >= v THEN a - 1 ELSE a

(* What that keeps: the front, the order and the named entry.              *)
GrownQueue(q, new, a, r, b) ==
  /\ r \in Seq(TimestampedState) /\ Len(r) >= 2
  /\ r[1] = q[1] /\ r[Len(r)] = new
  /\ b \in 1..(Len(r) - 1) /\ r[b] = q[a]
  /\ \A i \in 1..(Len(r) - 1) : \E j \in 1..Len(q) : r[i] = q[j]
  /\ \A i, j \in 1..Len(r) : i < j =>
       \E k, l \in 1..Len(q) : /\ k < l \/ r[j] = new
                               /\ r[i] = q[k]
                               /\ r[j] = q[l] \/ r[j] = new

(* A state put at the end of the queue, or in place of a thinned one.      *)
LEMMA AppendAndThin ==
  ASSUME NEW q \in Seq(TimestampedState), q # <<>>, NEW new \in TimestampedState,
         NEW a \in {1, Len(q)}, NEW r, NEW b, AppendedOrThinned(q, new, a, r, b)
  PROVE  GrownQueue(q, new, a, r, b)
<1> DEFINE n == Len(q)
           longer == Append(q, new)
<1>1. n \in Nat /\ n >= 1 /\ a \in {1, n}  BY EmptySeq
<1>2. /\ longer \in Seq(TimestampedState) /\ Len(longer) = n + 1
      /\ \A i \in 1..n : longer[i] = q[i]
      /\ longer[n + 1] = new
  BY <1>1
<1>3. CASE r = longer /\ b = a
  <2>1. /\ r \in Seq(TimestampedState) /\ Len(r) = n + 1
        /\ \A i \in 1..n : r[i] = q[i]
        /\ r[n + 1] = new
    BY <1>2, <1>3
  <2>2. b \in 1..n  BY <1>1, <1>3
  <2> QED  BY <1>1, <1>3, <2>1, <2>2 DEF GrownQueue
<1>4. CASE \E v \in 2..(n - 1) : /\ r = RemoveAt(longer, v)
                                 /\ b = IF a >= v THEN a - 1 ELSE a
  <2>1. PICK v \in 2..(n - 1) : /\ r = RemoveAt(longer, v)
                                /\ b = IF a >= v THEN a - 1 ELSE a
    BY <1>4
  <2>2. v \in 1..Len(longer)  BY <1>1, <1>2
  <2> HIDE DEF longer
  <2>a. /\ RemoveAt(longer, v) \in Seq(TimestampedState)
        /\ Len(RemoveAt(longer, v)) = Len(longer) - 1
        /\ \A i \in 1..(v - 1) : RemoveAt(longer, v)[i] = longer[i]
        /\ \A i \in v..(Len(longer) - 1) : RemoveAt(longer, v)[i] = longer[i + 1]
    BY <1>2, <2>2, RemoveAtProperties
  <2> HIDE DEF n
  <2>3. /\ r \in Seq(TimestampedState) /\ Len(r) = n
        /\ \A i \in 1..(v - 1) : r[i] = longer[i]
        /\ \A i \in v..n : r[i] = longer[i + 1]
    <3>1. Len(longer) - 1 = n  BY <1>1, <1>2
    <3> QED  BY <2>1, <2>a, <3>1
  <2>4. \A i \in 1..(v - 1) : r[i] = q[i]
    BY <1>1, <1>2, <2>3
  <2>5. \A i \in v..(n - 1) : r[i] = q[i + 1]
    <3> TAKE i \in v..(n - 1)
    <3>1. i \in v..n /\ i + 1 \in 1..n  BY <1>1
    <3> QED  BY <1>2, <2>3, <3>1
  <2>6. r[n] = new
    <3>1. n \in v..n  BY <1>1
    <3> QED  BY <1>2, <2>3, <3>1
  <2>7. b \in 1..(n - 1) /\ r[b] = q[a]
    <3>1. CASE a = 1  BY <1>1, <2>1, <2>4, <3>1
    <3>2. CASE a = n
      <4>1. b = n - 1 /\ n - 1 \in v..(n - 1) /\ (n - 1) + 1 = n
        BY <1>1, <2>1, <3>2
      <4>2. r[n - 1] = q[n]
        BY <2>5, <4>1
      <4> QED  BY <1>1, <3>2, <4>1, <4>2
    <3> QED  BY <1>1, <3>1, <3>2
  <2>8. \A i \in 1..(n - 1) : \E j \in 1..n : r[i] = q[j]
    BY <1>1, <2>4, <2>5
  <2>9. \A i, j \in 1..n : i < j =>
          \E k, l \in 1..n : /\ k < l \/ r[j] = new
                             /\ r[i] = q[k]
                             /\ r[j] = q[l] \/ r[j] = new
    <3> TAKE i, j \in 1..n
    <3> HAVE i < j
    <3>1. CASE j = n
      <4>1. PICK k \in 1..n : r[i] = q[k]  BY <2>8, <3>1
      <4> QED  BY <2>6, <3>1, <4>1
    <3>2. CASE j < v
      BY <1>1, <2>4, <3>2
    <3>3. CASE j \in v..(n - 1) /\ i < v
      <4>1. r[i] = q[i] /\ r[j] = q[j + 1] /\ i < j + 1 /\ j + 1 \in 1..n
        BY <1>1, <2>4, <2>5, <3>3
      <4> QED  BY <4>1
    <3>4. CASE j \in v..(n - 1) /\ i >= v
      <4>1. /\ r[i] = q[i + 1] /\ r[j] = q[j + 1] /\ i + 1 < j + 1
            /\ i + 1 \in 1..n /\ j + 1 \in 1..n
        BY <1>1, <2>5, <3>4
      <4> QED  BY <4>1
    <3> QED  BY <1>1, <3>1, <3>2, <3>3, <3>4
  <2>10. Len(r) >= 2 /\ r[1] = q[1] /\ r[Len(r)] = new
    <3>1. 1 \in 1..(v - 1) /\ n >= 2  BY <1>1
    <3> QED  BY <2>3, <2>4, <2>6, <3>1
  <2> QED  BY <2>3, <2>7, <2>8, <2>9, <2>10 DEF n, GrownQueue
<1> QED  BY <1>3, <1>4 DEF AppendedOrThinned

(* A queue in order, with nothing sent in the future.                      *)
QueueInOrder(sent, time) == Numbered(sent) /\ Dated(sent) /\ NotAfter(sent, time)

(* What sending number num at a time does to a sender: the front keeps its *)
(* number, only num is new and it is at the back, carrying the current     *)
(* state, and the assumption names an entry.                               *)
Sends(s, t, time, num) ==
  /\ t \in TransportSenderType /\ t.sent # <<>>
  /\ t.sent[1].num = s.sent[1].num
  /\ \A i \in 1..Len(t.sent) :
       \/ t.sent[i].num = num /\ t.sent[i].state = s.current
       \/ \E j \in 1..Len(s.sent) : /\ t.sent[i].num = s.sent[j].num
                                     /\ t.sent[i].state = s.sent[j].state
  /\ t.sent[Len(t.sent)].num = num
  /\ t.assumed \in 1..Len(t.sent)
  /\ t.ack_num = s.ack_num /\ t.current = s.current
  /\ t.shutdown_in_progress = s.shutdown_in_progress
  /\ QueueInOrder(s.sent, time) /\ s.sent[Len(s.sent)].num <= num
       => QueueInOrder(t.sent, time)

(* The queue after a state was sent.                                       *)
LEMMA AddSentStateSends ==
  ASSUME NEW s \in TransportSenderType, s.sent # <<>>,
         s.assumed \in {1, Len(s.sent)},
         NEW time \in Nat, NEW num \in 0..SHUTDOWN_NUM
  PROVE  /\ Sends(s, AddSentState(s, time, num), time, num)
         /\ LET t == AddSentState(s, time, num)
            IN  t.sent[t.assumed] = s.sent[s.assumed]
<1> DEFINE q == s.sent
           new == [timestamp |-> time, num |-> num, state |-> s.current]
           a == s.assumed
           longer == Append(q, new)
           victim == Len(longer) - THIN_FROM_BACK + 1
           thin == ~(Len(longer) <= MAX_SENT_STATES)
           r == IF thin THEN RemoveAt(longer, victim) ELSE longer
           b == IF thin /\ a >= victim THEN a - 1 ELSE a
           t == AddSentState(s, time, num)
<1>1. /\ q \in Seq(TimestampedState) /\ Len(q) \in Nat /\ q # <<>>
      /\ new \in TimestampedState /\ a \in Nat /\ a \in {1, Len(q)}
  BY DEF TransportSenderType, TimestampedState
<1>2. Len(Append(q, new)) = Len(q) + 1
  BY <1>1
<1>3. t = [s EXCEPT !.sent = r, !.assumed = b]
  <2>1. CASE thin
    BY <2>1 DEF AddSentState
  <2>2. CASE ~thin
    <3>1. t = [s EXCEPT !.sent = longer]
      BY <2>2 DEF AddSentState
    <3> QED  BY <2>2, <3>1 DEF TransportSenderType
  <2> QED  BY <2>1, <2>2
<1>4. AppendedOrThinned(q, new, a, r, b)
  <2>1. CASE thin
    <3>1. victim \in 2..(Len(q) - 1)
      BY <1>1, <1>2, <2>1, SenderConstants, ConstantTypes
    <3> QED  BY <2>1, <3>1 DEF AppendedOrThinned
  <2> QED  BY <2>1 DEF AppendedOrThinned
<1> HIDE DEF r, b, new, t, q, a
<1>4a. GrownQueue(q, new, a, r, b)
  BY <1>1, <1>4, AppendAndThin
<1>5. /\ r \in Seq(TimestampedState) /\ Len(r) >= 2
      /\ r[1] = q[1] /\ r[Len(r)] = new
      /\ b \in 1..(Len(r) - 1) /\ r[b] = q[a]
      /\ \A i \in 1..(Len(r) - 1) : \E j \in 1..Len(q) : r[i] = q[j]
      /\ \A i, j \in 1..Len(r) : i < j =>
           \E k, l \in 1..Len(q) : /\ k < l \/ r[j] = new
                                   /\ r[i] = q[k]
                                   /\ r[j] = q[l] \/ r[j] = new
  BY <1>4a DEF GrownQueue
<1>6. Len(r) \in Nat /\ b \in Nat \ {0} /\ b \in 1..Len(r) /\ r # <<>>
  BY <1>5
<1>7. /\ t \in TransportSenderType /\ t.sent = r /\ t.assumed = b
      /\ t.ack_num = s.ack_num /\ t.current = s.current
      /\ t.shutdown_in_progress = s.shutdown_in_progress
  BY <1>3, <1>5, <1>6 DEF TransportSenderType
<1>8. new.num = num /\ new.timestamp = time /\ new.state = s.current
  BY DEF new
<1>9. \A i \in 1..Len(r) : \/ r[i] = new
                           \/ \E j \in 1..Len(q) : r[i] = q[j]
  <2> TAKE i \in 1..Len(r)
  <2>1. i = Len(r) \/ i \in 1..(Len(r) - 1)  BY <1>6
  <2> QED  BY <1>5, <2>1
<1>10. ASSUME QueueInOrder(q, time), q[Len(q)].num <= num
       PROVE  QueueInOrder(r, time)
  <2>1. \A i \in 1..Len(q) : /\ q[i].num \in Nat /\ q[i].timestamp \in Nat
                             /\ q[i].num <= num /\ q[i].timestamp <= time
    <3> TAKE i \in 1..Len(q)
    <3>1. q[i].num \in Nat /\ q[i].timestamp \in Nat /\ q[Len(q)].num \in Nat
      BY <1>1, EntryTypes
    <3>2. q[i].num <= q[Len(q)].num
      <4>1. i = Len(q) \/ i < Len(q)  BY <1>1
      <4> QED  BY <1>1, <1>10, <3>1, <4>1 DEF QueueInOrder, Numbered
    <3>3. num \in Nat  BY ConstantTypes
    <3> QED  BY <1>10, <3>1, <3>2, <3>3 DEF QueueInOrder, NotAfter
  <2>2. NotAfter(r, time)
    BY <1>8, <1>9, <2>1 DEF NotAfter
  <2>3. ASSUME NEW i \in 1..Len(r), NEW j \in 1..Len(r), i < j
        PROVE  r[i].num <= r[j].num /\ r[i].timestamp <= r[j].timestamp
    <3>1. PICK k, l \in 1..Len(q) : /\ k < l \/ r[j] = new
                                    /\ r[i] = q[k]
                                    /\ r[j] = q[l] \/ r[j] = new
      BY <1>5, <2>3
    <3>2. CASE r[j] = new
      <4>1. q[k].num <= num /\ q[k].timestamp <= time  BY <2>1
      <4>2. r[i] = q[k]  BY <3>1
      <4>3. r[j].num = num /\ r[j].timestamp = time  BY <1>8, <3>2
      <4> QED  BY <4>1, <4>2, <4>3
    <3>3. CASE r[j] # new
      BY <1>10, <3>1, <3>3 DEF QueueInOrder, Numbered, Dated
    <3> QED  BY <3>2, <3>3
  <2> QED  BY <2>2, <2>3 DEF QueueInOrder, Numbered, Dated
<1>11. /\ t.sent[Len(t.sent)].num = num
       /\ \A i \in 1..Len(t.sent) :
            \/ t.sent[i].num = num /\ t.sent[i].state = s.current
            \/ \E j \in 1..Len(s.sent) : /\ t.sent[i].num = s.sent[j].num
                                          /\ t.sent[i].state = s.sent[j].state
  BY <1>5, <1>7, <1>8, <1>9 DEF q
<1>12. t.sent[t.assumed] = s.sent[s.assumed]
  BY <1>5, <1>7 DEF q, a
<1>13. Sends(s, t, time, num)
  BY <1>5, <1>6, <1>7, <1>10, <1>11 DEF Sends, q
<1> QED  BY <1>12, <1>13 DEF t

(* Sending to the receiver: the number at the back is sent again, or a     *)
(* higher one is queued.                                                   *)
LEMMA QueueForReceiverSends ==
  ASSUME NEW s \in TransportSenderType, s.sent # <<>>,
         s.assumed \in {1, Len(s.sent)}, NEW time \in Nat,
         SendToReceiverNum(s) \in 0..SHUTDOWN_NUM
  PROVE  /\ Sends(s, QueueForReceiver(s, time), time, SendToReceiverNum(s))
         /\ LET t == QueueForReceiver(s, time)
            IN  t.sent[t.assumed].num = s.sent[s.assumed].num
<1> DEFINE n == Len(s.sent)
           num == SendToReceiverNum(s)
           t == QueueForReceiver(s, time)
           r == [s.sent EXCEPT ![n].timestamp = time]
<1>1. CASE num # Back(s).num
  <2>1. t = AddSentState(s, time, num)  BY <1>1 DEF QueueForReceiver
  <2> QED  BY <2>1, AddSentStateSends
<1>2. CASE num = Back(s).num
  <2>1. t = [s EXCEPT !.sent = r]
    BY <1>2 DEF QueueForReceiver
  <2>2. /\ s.sent \in Seq(TimestampedState) /\ n \in Nat /\ n \in 1..n
        /\ \A i \in 1..n : s.sent[i] \in TimestampedState
    <3>1. s.sent \in Seq(TimestampedState)  BY DEF TransportSenderType
    <3> QED  BY <3>1, EntryTypes
  <2>3. /\ r \in Seq(TimestampedState) /\ Len(r) = n
        /\ \A i \in 1..n : /\ r[i].num = s.sent[i].num
                            /\ r[i].state = s.sent[i].state
                            /\ r[i].timestamp = IF i = n THEN time ELSE s.sent[i].timestamp
    <3>1. [s.sent[n] EXCEPT !.timestamp = time] \in TimestampedState
      BY <2>2 DEF TimestampedState
    <3>2. \A i \in 1..n : r[i] = IF i = n THEN [s.sent[n] EXCEPT !.timestamp = time]
                                 ELSE s.sent[i]
      BY <2>2
    <3>3. r \in Seq(TimestampedState) /\ Len(r) = n
      BY <2>2, <3>1
    <3>4. /\ [s.sent[n] EXCEPT !.timestamp = time].num = s.sent[n].num
          /\ [s.sent[n] EXCEPT !.timestamp = time].state = s.sent[n].state
          /\ [s.sent[n] EXCEPT !.timestamp = time].timestamp = time
      BY <2>2 DEF TimestampedState
    <3> HIDE DEF r
    <3> QED  BY <3>2, <3>3, <3>4
  <2> HIDE DEF r
  <2>4. /\ t \in TransportSenderType /\ t.sent = r /\ t.assumed = s.assumed
        /\ t.ack_num = s.ack_num /\ t.current = s.current
        /\ t.shutdown_in_progress = s.shutdown_in_progress
    BY <2>1, <2>3 DEF TransportSenderType
  <2>5. ASSUME QueueInOrder(s.sent, time) PROVE QueueInOrder(r, time)
    BY <2>2, <2>3, <2>5 DEF QueueInOrder, Numbered, Dated, NotAfter
  <2>6. s.assumed \in 1..n /\ 1 \in 1..n /\ r # <<>>
    BY <2>2, <2>3, EmptySeq
  <2>7. s.sent[n].num = num
    BY <1>2 DEF Back
  <2> HIDE DEF t, num
  <2>8. Sends(s, t, time, num)
    BY <2>2, <2>3, <2>4, <2>5, <2>6, <2>7 DEF Sends
  <2>9. t.sent[t.assumed].num = s.sent[s.assumed].num
    BY <2>3, <2>4, <2>6
  <2> QED  BY <2>8, <2>9 DEF t, num
<1> QED  BY <1>1, <1>2

(* What is left to do once an instruction is out does not touch the queue. *)
LEMMA AfterSendSends ==
  ASSUME NEW s, NEW t, NEW time \in Nat, NEW num \in 0..SHUTDOWN_NUM,
         Sends(s, t, time, num)
  PROVE  /\ Sends(s, AfterSend(t, num, time), time, num)
         /\ Sends(s, AssumeDelivered(AfterSend(t, num, time)), time, num)
<1> DEFINE u == AfterSend(t, num, time)
           w == AssumeDelivered(u)
<1>1. t \in TransportSenderType /\ t.sent # <<>>
  BY DEF Sends
<1>2. /\ u \in TransportSenderType /\ u.sent = t.sent /\ u.assumed = t.assumed
      /\ u.ack_num = t.ack_num /\ u.current = t.current
      /\ u.shutdown_in_progress = t.shutdown_in_progress
  <2> DEFINE tries == IF num = SHUTDOWN_NUM THEN t.shutdown_tries + 1
                      ELSE t.shutdown_tries
  <2>1. u = [t EXCEPT !.shutdown_tries = tries, !.pending_data_ack = FALSE,
                      !.next_ack_time = time + ACK_INTERVAL,
                      !.next_send_time = Never, !.mindelay_clock = NoClock]
    BY DEF AfterSend
  <2>3. tries \in Nat  BY <1>1 DEF TransportSenderType
  <2> HIDE DEF tries
  <2>2. time + ACK_INTERVAL \in Nat /\ Never \in Nat  BY ConstantTypes
  <2> HIDE DEF u
  <2> QED  BY <1>1, <2>1, <2>2, <2>3 DEF TransportSenderType
<1> HIDE DEF u
<1>3. Sends(s, u, time, num)
  BY <1>2 DEF Sends
<1>4. /\ w \in TransportSenderType /\ w.sent = u.sent /\ w.assumed = Len(u.sent)
      /\ w.ack_num = u.ack_num /\ Len(u.sent) \in 1..Len(u.sent)
      /\ w.current = u.current /\ w.shutdown_in_progress = u.shutdown_in_progress
  <2>1. u.sent \in Seq(TimestampedState) /\ u.sent # <<>>
    BY <1>1, <1>2 DEF TransportSenderType
  <2>2. Len(u.sent) \in 1..Len(u.sent) /\ Len(u.sent) \in Nat \ {0}
    BY <2>1, EntryTypes
  <2> QED  BY <1>2, <2>2 DEF AssumeDelivered, TransportSenderType
<1> HIDE DEF w
<1>5. Sends(s, w, time, num)
  BY <1>3, <1>4 DEF Sends
<1> QED  BY <1>3, <1>5 DEF u, w

(* An acknowledgement leaves a suffix of an ordered queue: the whole of it,*)
(* or the part from the acknowledged number on.                            *)
LEMMA AcknowledgmentProperties ==
  ASSUME NEW s \in TransportSenderType, s.sent # <<>>, Numbered(s.sent),
         NEW ack_num \in 0..SHUTDOWN_NUM
  PROVE  LET t == ProcessAcknowledgmentThrough(s, ack_num)
         IN  /\ t \in TransportSenderType /\ t.sent # <<>>
             /\ t.ack_num = s.ack_num
             /\ t.sent[1].num >= s.sent[1].num
             /\ t.sent[1].num \in {s.sent[1].num, ack_num}
             /\ \A i \in 1..Len(t.sent) :
                  \E j \in 1..Len(s.sent) : t.sent[i] = s.sent[j]
             /\ t.sent[Len(t.sent)] = s.sent[Len(s.sent)]
             /\ t.current = s.current
             /\ t.shutdown_in_progress = s.shutdown_in_progress
             /\ \A time : QueueInOrder(s.sent, time) => QueueInOrder(t.sent, time)
<1> DEFINE q == s.sent
           n == Len(q)
           held == {i \in DOMAIN q : q[i].num = ack_num}
           first == CHOOSE i \in held : \A j \in held : i <= j
           k == IF held = {} THEN 1 ELSE first
           kept == IF held = {} THEN q ELSE SubSeq(q, first, n)
           r == SubSeq(q, k, n)
           x == IF s.assumed > Len(r) THEN Len(r) ELSE s.assumed
           t == ProcessAcknowledgmentThrough(s, ack_num)
<1>1. /\ q \in Seq(TimestampedState) /\ n \in Nat /\ n >= 1 /\ DOMAIN q = 1..n
      /\ s.assumed \in Nat \ {0}
      /\ \A i \in 1..n : q[i].num \in Nat /\ q[i].timestamp \in Nat
  <2>1. q \in Seq(TimestampedState) /\ s.assumed \in Nat \ {0}
    BY DEF TransportSenderType
  <2> QED  BY <2>1, EntryTypes
<1>2. k \in 1..n /\ (held # {} => q[k].num = ack_num)
  <2>1. CASE held # {}
    <3>1. held \in SUBSET Nat  BY <1>1
    <3>2. first \in held  BY <2>1, <3>1, LeastNumber
    <3> QED  BY <1>1, <2>1, <3>2
  <2>2. CASE held = {}
    BY <1>1, <2>2
  <2> QED  BY <2>1, <2>2
<1>3. t = [s EXCEPT !.sent = r, !.assumed = x]
  <2>1. t = [s EXCEPT !.sent = kept,
                      !.assumed = IF @ > Len(kept) THEN Len(kept) ELSE @]
    BY DEF ProcessAcknowledgmentThrough
  <2>2. kept = r
    <3>1. SubSeq(q, 1, n) = q  BY <1>1, SubSeqFull
    <3> HIDE DEF first
    <3> QED  BY <3>1
  <2> HIDE DEF kept, r
  <2> QED  BY <2>1, <2>2
<1>4. held = {} => k = 1  OBVIOUS
<1> HIDE DEF k, held, first, n
<1>5. /\ r \in Seq(TimestampedState) /\ Len(r) = n - k + 1
      /\ \A i \in 1..(n - k + 1) : r[i] = q[k + i - 1]
  BY <1>1, <1>2, SuffixProperties DEF n
<1> HIDE DEF r
<1>6. /\ Len(r) >= 1 /\ r # <<>> /\ r[1] = q[k] /\ x \in Nat \ {0}
  BY <1>1, <1>2, <1>5
<1> HIDE DEF x, t
<1>7. /\ t \in TransportSenderType /\ t.sent = r /\ t.ack_num = s.ack_num
      /\ t.current = s.current /\ t.shutdown_in_progress = s.shutdown_in_progress
  BY <1>3, <1>5, <1>6 DEF TransportSenderType
<1>8. q[k].num >= q[1].num /\ q[k].num \in {q[1].num, ack_num}
  <2>1. k = 1 \/ 1 < k  BY <1>1, <1>2
  <2>2. q[k].num >= q[1].num
    BY <1>1, <1>2, <2>1 DEF Numbered, n
  <2> QED  BY <1>2, <1>4, <2>2
<1>9. \A i \in 1..Len(r) : k + i - 1 \in 1..n /\ r[i] = q[k + i - 1]
  BY <1>1, <1>2, <1>5
<1>10. ASSUME NEW time, QueueInOrder(q, time) PROVE QueueInOrder(r, time)
  <2>1. ASSUME NEW i \in 1..Len(r), NEW j \in 1..Len(r), i < j
        PROVE  r[i].num <= r[j].num /\ r[i].timestamp <= r[j].timestamp
    <3>1. k + i - 1 < k + j - 1  BY <1>1, <1>2, <2>1
    <3> QED  BY <1>9, <1>10, <3>1 DEF QueueInOrder, Numbered, Dated, n
  <2>2. NotAfter(r, time)
    BY <1>9, <1>10 DEF QueueInOrder, NotAfter, n
  <2> QED  BY <2>1, <2>2 DEF QueueInOrder, Numbered, Dated
<1>11. /\ \A i \in 1..Len(t.sent) :
            \E j \in 1..Len(s.sent) : t.sent[i] = s.sent[j]
       /\ t.sent[Len(t.sent)] = s.sent[Len(s.sent)]
  <2>1. Len(r) \in 1..Len(r) /\ k + Len(r) - 1 = n
    <3>1. n \in Nat /\ k \in 1..n /\ Len(r) = n - k + 1  BY <1>1, <1>2, <1>5
    <3> QED  BY ONLY <3>1
  <2> QED  BY <1>7, <1>9, <2>1 DEF n
<1>12. \A time : QueueInOrder(s.sent, time) => QueueInOrder(t.sent, time)
  BY <1>7, <1>10
<1>13. /\ t.sent # <<>> /\ t.sent[1].num >= s.sent[1].num
       /\ t.sent[1].num \in {s.sent[1].num, ack_num}
  BY <1>6, <1>7, <1>8
<1> QED  BY <1>7, <1>11, <1>12, <1>13 DEF t

(***************************************************************************)
(* The two endpoints.                                                      *)
(***************************************************************************)

IInv == /\ TypeOK /\ QueuesOrdered /\ Bookkeeping
        /\ ReferenceHeld /\ AckedNotDiscarded

(* There are two, each the other of the other.                             *)
LEMMA Peers ==
  ASSUME NEW p \in Peer
  PROVE  /\ Other(p) \in Peer /\ Other(p) # p /\ Other(Other(p)) = p
         /\ \A x \in Peer : x = p \/ x = Other(p)
  BY DEF Peer, Other

(* The entries of a receiver's queue.                                      *)
LEMMA ReceivedTypes ==
  ASSUME NEW q \in Seq(ReceivedState)
  PROVE  /\ Len(q) \in Nat /\ DOMAIN q = 1..Len(q)
         /\ q # <<>> => Len(q) \in 1..Len(q)
         /\ \A i \in 1..Len(q) :
              /\ q[i] \in ReceivedState
              /\ q[i].num \in 0..SHUTDOWN_NUM
              /\ q[i].num \in Nat /\ q[i].state \in State
<1>1. \A i \in 1..Len(q) : q[i] \in ReceivedState
  OBVIOUS
<1>2. Len(q) \in Nat /\ (q # <<>> => Len(q) \in 1..Len(q))
  BY EmptySeq
<1> QED  BY <1>1, <1>2, ConstantTypes DEF ReceivedState

(* A queue of received states in strict order of number.                   *)
Increasing(q) == \A i, j \in 1..Len(q) : i < j => q[i].num < q[j].num

(* The shutdown number is the last of any ordered queue that holds it.     *)
LEMMA ShutdownIsLast ==
  ASSUME NEW q \in Seq(ReceivedState), Increasing(q), SHUTDOWN_NUM \in Nums(q)
  PROVE  q[Len(q)].num = SHUTDOWN_NUM
<1>1. /\ Len(q) \in Nat /\ DOMAIN q = 1..Len(q)
      /\ \A i \in 1..Len(q) : q[i].num \in 0..SHUTDOWN_NUM
  BY ReceivedTypes
<1>2. PICK i \in 1..Len(q) : q[i].num = SHUTDOWN_NUM
  BY <1>1 DEF Nums
<1>3. CASE i # Len(q)
  <2> DEFINE n == Len(q)
  <2>1. n \in Nat /\ i \in 1..n /\ i # n  BY <1>1, <1>3
  <2> HIDE DEF n
  <2>2. i < n /\ n \in 1..n  BY <2>1
  <2>3. q[i].num < q[n].num  BY <2>2 DEF n, Increasing
  <2> QED  BY <1>1, <1>2, <2>2, <2>3, ConstantTypes DEF n
<1> QED  BY <1>2, <1>3

(* process_throwaway_until keeps the newest state and every state from the *)
(* throwaway number on, and the rest in order.                             *)
LEMMA ThrowawayProperties ==
  ASSUME NEW q \in Seq(ReceivedState), q # <<>>, Increasing(q), NEW n \in Nat
  PROVE  LET r == ProcessThrowawayUntil(q, n)
         IN  /\ r \in Seq(ReceivedState) /\ r # <<>> /\ Increasing(r)
             /\ r[Len(r)] = q[Len(q)]
             /\ \A i \in 1..Len(r) : \E j \in 1..Len(q) : r[i] = q[j]
             /\ Nums(r) \subseteq Nums(q)
             /\ \A k \in Nums(q) : k >= n => k \in Nums(r)
<1> DEFINE kept == {i \in DOMAIN q : q[i].num >= n}
           first == CHOOSE i \in kept : \A j \in kept : i <= j
           k == IF kept = {} THEN Len(q) ELSE first
           r == SubSeq(q, k, Len(q))
<1>1. /\ Len(q) \in Nat /\ DOMAIN q = 1..Len(q) /\ Len(q) \in 1..Len(q)
      /\ \A i \in 1..Len(q) : q[i].num \in Nat
  BY ReceivedTypes
<1>2. k \in 1..Len(q) /\ \A i \in kept : k <= i
  <2>1. CASE kept = {}
    BY <1>1, <2>1
  <2>2. CASE kept # {}
    <3>1. kept \in SUBSET Nat  BY <1>1
    <3>2. first \in kept /\ \A j \in kept : first <= j
      BY <2>2, <3>1, LeastNumber
    <3> HIDE DEF first
    <3> QED  BY <1>1, <2>2, <3>2
  <2> QED  BY <2>1, <2>2
<1>3. ProcessThrowawayUntil(q, n) = r
  BY DEF ProcessThrowawayUntil
<1>4. \A i \in 1..Len(q) : q[i].num >= n => k <= i
  BY <1>1, <1>2
<1> HIDE DEF k, first, kept
<1>5. /\ r \in Seq(ReceivedState) /\ Len(r) = Len(q) - k + 1
      /\ \A i \in 1..(Len(q) - k + 1) : r[i] = q[k + i - 1]
  BY <1>2, SuffixProperties
<1> HIDE DEF r
<1>6. /\ Len(r) \in Nat /\ Len(r) >= 1 /\ DOMAIN r = 1..Len(r) /\ r # <<>>
      /\ \A i \in 1..Len(r) : k + i - 1 \in 1..Len(q) /\ r[i] = q[k + i - 1]
  BY <1>1, <1>2, <1>5, EmptySeq
<1>7. r[Len(r)] = q[Len(q)]
  <2>1. Len(r) \in 1..Len(r) /\ k + Len(r) - 1 = Len(q)  BY <1>1, <1>2, <1>5
  <2> QED  BY <1>6, <2>1
<1>8. Increasing(r)
  <2> SUFFICES ASSUME NEW i \in 1..Len(r), NEW j \in 1..Len(r), i < j
               PROVE  r[i].num < r[j].num
    BY DEF Increasing
  <2>1. k + i - 1 < k + j - 1  BY <1>2
  <2> QED  BY <1>6, <2>1 DEF Increasing
<1>9. Nums(r) \subseteq Nums(q)
  BY <1>1, <1>6 DEF Nums
<1>10. \A x \in Nums(q) : x >= n => x \in Nums(r)
  <2> SUFFICES ASSUME NEW i \in 1..Len(q), q[i].num >= n
               PROVE  q[i].num \in Nums(r)
    BY <1>1 DEF Nums
  <2>1. i - k + 1 \in 1..Len(r) /\ k + (i - k + 1) - 1 = i
    BY <1>1, <1>2, <1>4, <1>5
  <2>2. r[i - k + 1] = q[i]  BY <1>6, <2>1
  <2> QED  BY <1>6, <2>1, <2>2 DEF Nums
<1> QED  BY <1>3, <1>5, <1>6, <1>7, <1>8, <1>9, <1>10

(* Inserting a new number where it belongs keeps the order and all there   *)
(* was; the last number is the old last or the new one, whichever is more. *)
LEMMA InsertByNumProperties ==
  ASSUME NEW q \in Seq(ReceivedState), q # <<>>, Increasing(q),
         NEW e \in ReceivedState, e.num \notin Nums(q)
  PROVE  LET r == InsertByNum(q, e)
         IN  /\ r \in Seq(ReceivedState) /\ r # <<>> /\ Increasing(r)
             /\ Nums(q) \subseteq Nums(r)
             /\ r[Len(r)].num >= q[Len(q)].num
             /\ \A i \in 1..Len(r) : r[i] = e \/ \E j \in 1..Len(q) : r[i] = q[j]
<1> DEFINE n == Len(q)
           above == {i \in DOMAIN q : q[i].num > e.num}
           first == CHOOSE i \in above : \A j \in above : i <= j
           k == IF above = {} THEN n + 1 ELSE first
           r == InsertAt(q, k, e)
<1>3. InsertByNum(q, e) = r
  BY DEF InsertByNum
<1>1. /\ n \in Nat /\ DOMAIN q = 1..n /\ n \in 1..n /\ e.num \in Nat
      /\ \A i \in 1..n : q[i].num \in Nat /\ q[i].num # e.num
  <2>1. \A i \in 1..n : q[i].num # e.num  BY ReceivedTypes DEF Nums
  <2>2. e.num \in 0..SHUTDOWN_NUM  BY DEF ReceivedState
  <2> QED  BY <2>1, <2>2, ReceivedTypes, ConstantTypes
<1>2. /\ k \in 1..(n + 1)
      /\ \A i \in above : k <= i
      /\ k # n + 1 => k \in above
  <2>1. CASE above = {}
    BY <1>1, <2>1
  <2>2. CASE above # {}
    <3>1. above \in SUBSET Nat  BY <1>1
    <3>2. first \in above /\ \A j \in above : first <= j
      BY <2>2, <3>1, LeastNumber
    <3> HIDE DEF first
    <3> QED  BY <1>1, <2>2, <3>2
  <2> QED  BY <2>1, <2>2
<1> HIDE DEF k, first, r
<1>4. /\ \A i \in 1..n : i < k => q[i].num < e.num
      /\ k # n + 1 => q[k].num > e.num
  <2>1. \A i \in 1..n : i < k => ~(q[i].num > e.num)
    BY <1>1, <1>2
  <2> QED  BY <1>1, <1>2, <2>1
<1> HIDE DEF above
<1>5. \A i \in 1..n : i >= k => q[i].num > e.num
  <2> SUFFICES ASSUME NEW i \in 1..n, i >= k PROVE q[i].num > e.num
    OBVIOUS
  <2>1. k \in 1..n /\ k # n + 1  BY <1>1, <1>2
  <2>2. i = k \/ k < i  BY <1>1, <1>2
  <2> QED  BY <1>1, <1>4, <2>1, <2>2 DEF Increasing
<1>6. /\ r \in Seq(ReceivedState) /\ Len(r) = n + 1
      /\ \A i \in 1..(k - 1) : r[i] = q[i]
      /\ r[k] = e
      /\ \A i \in (k + 1)..(n + 1) : r[i] = q[i - 1]
  BY <1>2, InsertAtProperties DEF r
<1>7. DOMAIN r = 1..(n + 1) /\ r # <<>>
  BY <1>1, <1>6, EmptySeq
<1>8. Increasing(r)
  <2> SUFFICES ASSUME NEW i \in 1..(n + 1), NEW j \in 1..(n + 1), i < j
               PROVE  r[i].num < r[j].num
    BY <1>6 DEF Increasing
  <2>1. CASE j < k
    BY <1>1, <1>2, <1>6, <2>1 DEF Increasing
  <2>2. CASE j = k
    BY <1>1, <1>2, <1>4, <1>6, <2>2
  <2>3. CASE j > k
    <3>1. CASE i < k
      <4>1. r[i] = q[i] /\ r[j] = q[j - 1] /\ i \in 1..n /\ j - 1 \in 1..n /\ i < j - 1
        BY <1>1, <1>2, <1>6, <2>3, <3>1
      <4> QED  BY <4>1 DEF Increasing
    <3>2. CASE i = k
      <4>1. r[j] = q[j - 1] /\ j - 1 \in 1..n /\ j - 1 >= k
        BY <1>1, <1>2, <1>6, <2>3, <3>2
      <4> QED  BY <1>1, <1>5, <1>6, <3>2, <4>1
    <3>3. CASE i > k
      <4>1. /\ r[i] = q[i - 1] /\ r[j] = q[j - 1] /\ i - 1 \in 1..n /\ j - 1 \in 1..n
            /\ i - 1 < j - 1
        BY <1>1, <1>2, <1>6, <2>3, <3>3
      <4> QED  BY <4>1 DEF Increasing
    <3> QED  BY <1>1, <1>2, <3>1, <3>2, <3>3
  <2> QED  BY <1>1, <1>2, <2>1, <2>2, <2>3
<1>9. \A i \in 1..n : \E j \in 1..(n + 1) : r[j] = q[i]
  <2> TAKE i \in 1..n
  <2>1. CASE i < k
    BY <1>1, <1>2, <1>6, <2>1
  <2>2. CASE i >= k
    <3>1. i + 1 \in (k + 1)..(n + 1) /\ i + 1 \in 1..(n + 1) /\ (i + 1) - 1 = i
      BY <1>1, <1>2, <2>2
    <3>2. r[i + 1] = q[i]  BY <1>6, <3>1
    <3> QED  BY <3>1, <3>2
  <2> QED  BY <1>1, <1>2, <2>1, <2>2
<1>10. Nums(q) \subseteq Nums(r)
  BY <1>1, <1>7, <1>9 DEF Nums
<1>11. r[n + 1].num >= q[n].num
  <2>1. CASE k = n + 1
    BY <1>1, <1>4, <1>6, <2>1
  <2>2. CASE k # n + 1
    <3>1. n + 1 \in (k + 1)..(n + 1) /\ (n + 1) - 1 = n  BY <1>1, <1>2, <2>2
    <3>2. r[n + 1] = q[n]  BY <1>6, <3>1
    <3> QED  BY <1>1, <3>2
  <2> QED  BY <2>1, <2>2
<1>12. \A i \in 1..Len(r) : r[i] = e \/ \E j \in 1..n : r[i] = q[j]
  <2> TAKE i \in 1..Len(r)
  <2>1. CASE i < k
    BY <1>1, <1>2, <1>6, <2>1
  <2>2. CASE i = k
    BY <1>6, <2>2
  <2>3. CASE i > k
    <3>1. i \in (k + 1)..(n + 1) /\ i - 1 \in 1..n  BY <1>1, <1>2, <1>6, <2>3
    <3> QED  BY <1>6, <3>1
  <2> QED  BY <1>1, <1>2, <1>6, <2>1, <2>2, <2>3
<1> QED  BY <1>3, <1>6, <1>7, <1>8, <1>10, <1>11, <1>12

(***************************************************************************)
(* The invariant, one peer at a time.                                      *)
(***************************************************************************)

(* The parts of the invariant about one side.                              *)
LEMMA PeerFacts ==
  ASSUME IInv, NEW p \in Peer
  PROVE  /\ now \in Nat
         /\ sender[p] \in TransportSenderType /\ sender[p].sent # <<>>
         /\ sender[p].sent \in Seq(TimestampedState)
         /\ QueueInOrder(sender[p].sent, now)
         /\ received[p] \in Seq(ReceivedState) /\ received[p] # <<>>
         /\ Increasing(received[p])
         /\ sender[p].ack_num = LatestNum(p)
         /\ net[p] \subseteq Instruction
<1>1. /\ sender[p] \in TransportSenderType /\ sender[p].sent # <<>> /\ now \in Nat
      /\ received[p] \in Seq(ReceivedState) /\ received[p] # <<>>
      /\ net[p] \subseteq Instruction
  BY DEF IInv, TypeOK
<1>2. sender[p].sent \in Seq(TimestampedState)
  BY <1>1 DEF TransportSenderType
<1>3. DOMAIN sender[p].sent = 1..Len(sender[p].sent)
  BY <1>2, EntryTypes
<1>4. DOMAIN received[p] = 1..Len(received[p])
  BY <1>1, ReceivedTypes
<1>5. QueueInOrder(sender[p].sent, now)
  BY <1>3 DEF IInv, QueuesOrdered, Bookkeeping, QueueInOrder, Numbered, Dated, NotAfter
<1>6. Increasing(received[p])
  BY <1>4 DEF IInv, QueuesOrdered, Increasing
<1> QED  BY <1>1, <1>2, <1>5, <1>6 DEF IInv, Bookkeeping

(* The invariant after a step in which p's sender becomes t, p's received  *)
(* queue r, and p sends the instructions of ms: what each must fulfil.     *)
SoundSender(p, t, clock) ==
  /\ t \in TransportSenderType /\ t.sent # <<>>
  /\ QueueInOrder(t.sent, clock)
  /\ t.sent[1].num >= sender[p].sent[1].num
  /\ t.sent[1].num \in Nums(received[Other(p)])

SoundQueue(p, t, r) ==
  /\ r \in Seq(ReceivedState) /\ r # <<>> /\ Increasing(r)
  /\ t.ack_num = r[Len(r)].num /\ r[Len(r)].num >= LatestNum(p)
  /\ \A k \in Nums(received[p]) : k >= sender[Other(p)].sent[1].num => k \in Nums(r)

SoundSend(p, ms) ==
  /\ ms \subseteq Instruction
  /\ \A m \in ms : /\ m.ack_num = sender[p].ack_num
                   /\ m.throwaway_num = sender[p].sent[1].num

(* A step of one side that leaves its queues sound and sends what it may   *)
(* keeps the invariant.                                                    *)
LEMMA StepKeepsInvariant ==
  ASSUME IInv, NEW p \in Peer, NEW t, NEW r, NEW ms,
         SoundSender(p, t, now), SoundQueue(p, t, r), SoundSend(p, ms),
         now' = now,
         sender' = [sender EXCEPT ![p] = t],
         received' = [received EXCEPT ![p] = r],
         net' = [net EXCEPT ![p] = @ \cup ms],
         TypeOK'
  PROVE  /\ IInv'
         /\ \A x \in Peer : /\ LatestNum(x)' >= LatestNum(x)
                             /\ Acked(sender[x])'.num >= Acked(sender[x]).num
<1> DEFINE q == Other(p)
<1>1. q \in Peer /\ q # p /\ Other(q) = p /\ \A x \in Peer : x = p \/ x = q
  BY Peers
<1>2. /\ sender'[p] = t /\ sender'[q] = sender[q]
      /\ received'[p] = r /\ received'[q] = received[q]
      /\ net'[p] = net[p] \cup ms /\ net'[q] = net[q]
  BY <1>1 DEF IInv, TypeOK
<1>3. /\ QueueInOrder(sender[q].sent, now) /\ Increasing(received[q])
      /\ sender[q].sent \in Seq(TimestampedState) /\ received[q] \in Seq(ReceivedState)
      /\ sender[q].sent # <<>>
      /\ received[p] # <<>> /\ received[q] # <<>>
      /\ received[p] \in Seq(ReceivedState)
      /\ net[p] \subseteq Instruction /\ net[q] \subseteq Instruction
  BY <1>1, PeerFacts
<1>4. /\ t.sent \in Seq(TimestampedState)
      /\ DOMAIN t.sent = 1..Len(t.sent) /\ DOMAIN r = 1..Len(r)
      /\ DOMAIN sender[q].sent = 1..Len(sender[q].sent)
      /\ DOMAIN received[q] = 1..Len(received[q])
      /\ DOMAIN received[p] = 1..Len(received[p])
      /\ Len(received[p]) \in 1..Len(received[p]) /\ Len(r) \in 1..Len(r)
  <2>1. t.sent \in Seq(TimestampedState) /\ r \in Seq(ReceivedState) /\ r # <<>>
    BY DEF SoundSender, SoundQueue, TransportSenderType
  <2> QED  BY <1>3, <2>1, EntryTypes, ReceivedTypes
<1>5. QueuesOrdered'
  <2>1. /\ \A i, j \in DOMAIN t.sent : i < j =>
             /\ t.sent[i].num <= t.sent[j].num
             /\ t.sent[i].timestamp <= t.sent[j].timestamp
        /\ \A i, j \in DOMAIN r : i < j => r[i].num < r[j].num
    BY <1>4 DEF SoundSender, SoundQueue, QueueInOrder, Numbered, Dated, Increasing
  <2>2. /\ \A i, j \in DOMAIN sender[q].sent : i < j =>
             /\ sender[q].sent[i].num <= sender[q].sent[j].num
             /\ sender[q].sent[i].timestamp <= sender[q].sent[j].timestamp
        /\ \A i, j \in DOMAIN received[q] : i < j => received[q][i].num < received[q][j].num
    BY <1>1 DEF IInv, QueuesOrdered
  <2> DEFINE Ordered(sent, queue) ==
               /\ \A i, j \in DOMAIN sent : i < j =>
                    /\ sent[i].num <= sent[j].num
                    /\ sent[i].timestamp <= sent[j].timestamp
               /\ \A i, j \in DOMAIN queue : i < j => queue[i].num < queue[j].num
  <2>3. Ordered(sender'[p].sent, received'[p]) /\ Ordered(sender'[q].sent, received'[q])
    BY <1>2, <2>1, <2>2, Zenon
  <2>4. \A x \in Peer : Ordered(sender'[x].sent, received'[x])
    <3> HIDE DEF Ordered
    <3> QED  BY <1>1, <2>3, Zenon
  <2> QED  BY <2>4, Zenon DEF QueuesOrdered
<1>6. /\ t.sent[1].num \in Nat /\ sender[p].sent[1].num \in Nat
      /\ sender[q].sent[1].num \in Nat
      /\ \A m \in net[p] \cup net[q] \cup ms : m.ack_num \in Nat /\ m.throwaway_num \in Nat
  <2>1. t.sent[1].num \in Nat
    <3>1. t.sent # <<>>
      BY DEF SoundSender
    <3> QED  BY <1>4, <3>1, FirstNumber
  <2>2. \A x \in Peer : sender[x].sent[1].num \in Nat
    <3> TAKE x \in Peer
    <3>1. sender[x].sent \in Seq(TimestampedState) /\ sender[x].sent # <<>>
      BY PeerFacts
    <3> QED  BY <3>1, FirstNumber
  <2>3. \A m \in Instruction : m.ack_num \in Nat /\ m.throwaway_num \in Nat
    BY ConstantTypes DEF Instruction
  <2> QED  BY <1>1, <1>3, <2>1, <2>2, <2>3 DEF SoundSend
<1>7. /\ t.sent[1].num >= sender[p].sent[1].num
      /\ \A m \in ms : m.ack_num = sender[p].ack_num /\ m.throwaway_num = sender[p].sent[1].num
  BY DEF SoundSender, SoundSend
<1>8. Bookkeeping'
  <2>1. /\ t.ack_num = r[Len(r)].num
        /\ \A i \in DOMAIN t.sent : t.sent[i].timestamp <= now
    BY <1>4 DEF SoundSender, SoundQueue, QueueInOrder, NotAfter
  <2>2. \A m \in net[p] : m.throwaway_num <= sender[p].sent[1].num
    BY DEF IInv, Bookkeeping, Acked
  <2>3. \A m \in net[p] \cup ms : m.throwaway_num <= t.sent[1].num
    BY <1>6, <1>7, <2>2
  <2>4. /\ sender[q].ack_num = received[q][Len(received[q])].num
        /\ \A m \in net[q] : m.throwaway_num <= sender[q].sent[1].num
        /\ \A i \in DOMAIN sender[q].sent : sender[q].sent[i].timestamp <= now
    BY <1>1 DEF IInv, Bookkeeping, Acked, LatestNum
  <2> QED  BY <1>1, <1>2, <2>1, <2>3, <2>4 DEF Bookkeeping, Acked, LatestNum
<1>9. ReferenceHeld'
  <2>1. t.sent[1].num \in Nums(received[q])
    BY DEF SoundSender
  <2>2. sender[q].sent[1].num \in Nums(received[p])
    BY <1>1 DEF IInv, ReferenceHeld, Acked
  <2>3. sender[q].sent[1].num \in Nums(r)
    BY <1>6, <2>2 DEF SoundQueue
  <2> QED  BY <1>1, <1>2, <2>1, <2>3 DEF ReferenceHeld, Acked, Nums
<1>10. AckedNotDiscarded'
  <2>1. t.ack_num \in Nums(r)
    BY <1>4 DEF SoundQueue, Nums
  <2>2. sender[p].ack_num \in Nums(received[p])
    BY DEF IInv, AckedNotDiscarded
  <2>3. \A m \in net[p] \cup ms : m.ack_num \in Nums(r) \/ m.ack_num < sender[q].sent[1].num
    <3>1. \A m \in net[p] \cup ms :
            m.ack_num \in Nums(received[p]) \/ m.ack_num < sender[q].sent[1].num
      BY <1>1, <1>7, <2>2 DEF IInv, AckedNotDiscarded, Acked
    <3>2. \A m \in net[p] \cup ms :
            \/ m.ack_num >= sender[q].sent[1].num
            \/ m.ack_num < sender[q].sent[1].num
      BY <1>6
    <3> QED  BY <3>1, <3>2 DEF SoundQueue
  <2>4. /\ sender[q].ack_num \in Nums(received[q])
        /\ \A m \in net[q] : m.ack_num \in Nums(received[q]) \/ m.ack_num < sender[p].sent[1].num
    BY <1>1 DEF IInv, AckedNotDiscarded, Acked
  <2>5. \A m \in net[q] : m.ack_num \in Nums(received[q]) \/ m.ack_num < t.sent[1].num
    BY <1>6, <1>7, <2>4
  <2> QED  BY <1>1, <1>2, <2>1, <2>3, <2>4, <2>5 DEF AckedNotDiscarded, Acked, Nums
<1>11. \A x \in Peer : /\ LatestNum(x)' >= LatestNum(x)
                       /\ Acked(sender[x])'.num >= Acked(sender[x]).num
  <2>1. Len(received[q]) \in 1..Len(received[q]) /\ received[q][Len(received[q])].num \in Nat
    BY <1>3, ReceivedTypes
  <2>2. r[Len(r)].num >= received[p][Len(received[p])].num
    BY DEF SoundQueue, LatestNum
  <2> QED  BY <1>1, <1>2, <1>6, <1>7, <2>1, <2>2 DEF LatestNum, Acked
<1> QED  BY <1>5, <1>8, <1>9, <1>10, <1>11 DEF IInv

(* A peer's numbered history grows: every number queued has a state.       *)
Recorded == [Peer -> UNION {[nums -> State] : nums \in SUBSET (0..SHUTDOWN_NUM)}]

(* And the types.                                                          *)
LEMMA StepKeepsTypes ==
  ASSUME TypeOK, NEW p \in Peer,
         NEW t \in TransportSenderType, t.sent # <<>>,
         NEW r \in Seq(ReceivedState), r # <<>>,
         NEW ms \in SUBSET Instruction,
         now' = now,
         sender' = [sender EXCEPT ![p] = t],
         received' = [received EXCEPT ![p] = r],
         net' = [net EXCEPT ![p] = @ \cup ms],
         quench' \in [Peer -> Nat], attached' \in [Peer -> BOOLEAN],
         raw' \in [Peer -> State], made' \in Recorded,
         \A x \in Peer : DOMAIN made[x] \subseteq DOMAIN made'[x],
         Nums(t.sent) \subseteq DOMAIN made'[p]
  PROVE  TypeOK'
<1>1. /\ now' \in Nat
      /\ sender' \in [Peer -> TransportSenderType]
      /\ received' \in [Peer -> Seq(ReceivedState)]
  BY DEF TypeOK
<1>2. net' \in [Peer -> SUBSET Instruction]
  BY DEF TypeOK
<1>3. ASSUME NEW x \in Peer
      PROVE  /\ sender'[x].sent # <<>> /\ received'[x] # <<>>
             /\ Nums(sender'[x].sent) \subseteq DOMAIN made'[x]
  <2>1. CASE x = p
    <3>1. sender'[x] = t /\ received'[x] = r  BY <2>1 DEF TypeOK
    <3> QED  BY <2>1, <3>1
  <2>2. CASE x # p
    <3>1. sender'[x] = sender[x] /\ received'[x] = received[x]  BY <2>2 DEF TypeOK
    <3>2. /\ sender[x].sent # <<>> /\ received[x] # <<>>
          /\ Nums(sender[x].sent) \subseteq DOMAIN made[x]
      BY DEF TypeOK
    <3> QED  BY <3>1, <3>2
  <2> QED  BY <2>1, <2>2
<1> QED  BY <1>1, <1>2, <1>3 DEF TypeOK, Recorded, Nums

(* What a step promises: the invariant, and no peer moves backwards.       *)
Forward == \A x \in Peer : /\ LatestNum(x)' >= LatestNum(x)
                          /\ Acked(sender[x])'.num >= Acked(sender[x]).num

(* A step that touches neither a number nor a time: an owner's change, or  *)
(* a schedule recomputed.                                                  *)
LEMMA QuietStep ==
  ASSUME IInv, NEW p \in Peer, NEW t \in TransportSenderType,
         SameQueue(sender[p], t),
         sender' = [sender EXCEPT ![p] = t], raw' \in [Peer -> State],
         UNCHANGED <<now, received, quench, attached, net, made>>
  PROVE  IInv' /\ Forward
<1>1. /\ sender[p].sent \in Seq(TimestampedState) /\ sender[p].sent # <<>>
      /\ QueueInOrder(sender[p].sent, now)
      /\ received[p] \in Seq(ReceivedState) /\ received[p] # <<>>
      /\ Increasing(received[p]) /\ sender[p].ack_num = LatestNum(p)
  BY PeerFacts
<1>2. /\ t.sent \in Seq(TimestampedState)
      /\ Len(t.sent) = Len(sender[p].sent)
      /\ DOMAIN t.sent = 1..Len(t.sent)
      /\ DOMAIN sender[p].sent = 1..Len(sender[p].sent)
      /\ \A i \in 1..Len(t.sent) : /\ t.sent[i].num = sender[p].sent[i].num
                                   /\ t.sent[i].timestamp = sender[p].sent[i].timestamp
      /\ t.ack_num = sender[p].ack_num
  <2>1. t.sent \in Seq(TimestampedState)  BY DEF TransportSenderType
  <2> QED  BY <1>1, <2>1, EntryTypes DEF SameQueue
<1>3. 1 \in 1..Len(t.sent) /\ t.sent # <<>> /\ sender[p].sent[1].num \in Nat
  BY <1>1, <1>2, EntryTypes, EmptySeq
<1>4. QueueInOrder(t.sent, now)
  BY <1>1, <1>2 DEF QueueInOrder, Numbered, Dated, NotAfter
<1>5. SoundSender(p, t, now)
  BY <1>2, <1>3, <1>4 DEF SoundSender, IInv, ReferenceHeld, Acked
<1>6. SoundQueue(p, t, received[p])
  <2>1. received[p][Len(received[p])].num \in Nat  BY <1>1, ReceivedTypes
  <2> QED  BY <1>1, <1>2, <2>1 DEF SoundQueue, LatestNum
<1>7. SoundSend(p, {})
  BY DEF SoundSend
<1>8. /\ received' = [received EXCEPT ![p] = received[p]]
      /\ net' = [net EXCEPT ![p] = @ \cup {}]
      /\ quench' \in [Peer -> Nat] /\ attached' \in [Peer -> BOOLEAN]
      /\ made' \in Recorded /\ now' = now /\ {} \in SUBSET Instruction
      /\ \A x \in Peer : DOMAIN made[x] \subseteq DOMAIN made'[x]
  BY DEF IInv, TypeOK, Recorded
<1>9. Nums(t.sent) \subseteq DOMAIN made'[p]
  <2>1. Nums(t.sent) = Nums(sender[p].sent)  BY <1>2 DEF Nums
  <2> QED  BY <2>1 DEF IInv, TypeOK
<1>10. TypeOK'
  BY <1>1, <1>3, <1>8, <1>9, StepKeepsTypes DEF IInv
<1> QED  BY <1>5, <1>6, <1>7, <1>8, <1>10, StepKeepsInvariant DEF Forward

(* A step that sends one instruction with a number no lower than the last. *)
LEMMA SendStep ==
  ASSUME IInv, NEW p \in Peer, NEW s \in TransportSenderType, NEW t,
         NEW num \in 0..SHUTDOWN_NUM, NEW diff \in Diff,
         NEW queued, Sends(s, queued, now, num),
         SameQueue(sender[p], s), Sends(s, t, now, num),
         s.sent[Len(s.sent)].num <= num,
         sender' = [sender EXCEPT ![p] = t],
         Send(p, queued, num, diff)
  PROVE  IInv' /\ Forward
<1> DEFINE m == Outgoing(queued, num, diff)
<1>1. /\ sender[p].sent \in Seq(TimestampedState) /\ sender[p].sent # <<>>
      /\ QueueInOrder(sender[p].sent, now)
      /\ received[p] \in Seq(ReceivedState) /\ received[p] # <<>>
      /\ Increasing(received[p]) /\ sender[p].ack_num = LatestNum(p)
  BY PeerFacts
<1>2. /\ s.sent \in Seq(TimestampedState)
      /\ Len(s.sent) = Len(sender[p].sent)
      /\ DOMAIN sender[p].sent = 1..Len(sender[p].sent)
      /\ \A i \in 1..Len(s.sent) : /\ s.sent[i].num = sender[p].sent[i].num
                                   /\ s.sent[i].timestamp = sender[p].sent[i].timestamp
      /\ s.ack_num = sender[p].ack_num
  <2>1. s.sent \in Seq(TimestampedState)  BY DEF TransportSenderType
  <2> QED  BY <1>1, <2>1, EntryTypes DEF SameQueue
<1>3. 1 \in 1..Len(s.sent) /\ sender[p].sent[1].num \in Nat
  BY <1>1, <1>2, EntryTypes
<1>4. QueueInOrder(s.sent, now)
  BY <1>1, <1>2 DEF QueueInOrder, Numbered, Dated, NotAfter
<1>5. /\ t \in TransportSenderType /\ t.sent # <<>>
      /\ t.sent[1].num = sender[p].sent[1].num
      /\ t.ack_num = sender[p].ack_num /\ QueueInOrder(t.sent, now)
  BY <1>2, <1>3, <1>4 DEF Sends
<1>6. SoundSender(p, t, now)
  BY <1>3, <1>5 DEF SoundSender, IInv, ReferenceHeld, Acked
<1>7. SoundQueue(p, t, received[p])
  <2>1. received[p][Len(received[p])].num \in Nat  BY <1>1, ReceivedTypes
  <2> QED  BY <1>1, <1>5, <2>1 DEF SoundQueue, LatestNum
<1>8. /\ m \in Instruction /\ m.ack_num = sender[p].ack_num
      /\ m.throwaway_num = sender[p].sent[1].num
  <2>1. /\ queued \in TransportSenderType /\ queued.sent # <<>>
        /\ queued.sent[1].num = sender[p].sent[1].num
        /\ queued.ack_num = sender[p].ack_num
        /\ queued.assumed \in 1..Len(queued.sent)
    BY <1>2, <1>3 DEF Sends
  <2>2. queued.sent \in Seq(TimestampedState) /\ queued.ack_num \in 0..SHUTDOWN_NUM
    BY <2>1 DEF TransportSenderType
  <2>3. /\ queued.sent[queued.assumed].num \in 0..SHUTDOWN_NUM
        /\ queued.sent[1].num \in 0..SHUTDOWN_NUM
    BY <2>1, <2>2, EntryTypes
  <2> QED  BY <2>1, <2>2, <2>3 DEF Outgoing, Instruction, Acked
<1> HIDE DEF m
<1>9. SoundSend(p, {m})
  BY <1>8 DEF SoundSend
<1>10. /\ received' = [received EXCEPT ![p] = received[p]]
       /\ net' = [net EXCEPT ![p] = @ \cup {m}]
       /\ quench' \in [Peer -> Nat] /\ attached' \in [Peer -> BOOLEAN]
       /\ raw' \in [Peer -> State] /\ now' = now
  <2>1. attached \in [Peer -> BOOLEAN]  BY DEF IInv, TypeOK
  <2>2. attached' \in [Peer -> BOOLEAN]  BY <2>1 DEF Send
  <2> QED  BY <2>2 DEF IInv, TypeOK, Send, m
<1>11. /\ made' \in Recorded
       /\ \A x \in Peer : DOMAIN made[x] \subseteq DOMAIN made'[x]
       /\ num \in DOMAIN made'[p]
  <2> DEFINE f == [n \in DOMAIN made[p] \cup {num} |->
                     IF n \in DOMAIN made[p] THEN made[p][n] ELSE raw[p]]
  <2>1. made \in Recorded /\ raw[p] \in State
    BY DEF IInv, TypeOK, Recorded
  <2>2. PICK nums \in SUBSET (0..SHUTDOWN_NUM) : made[p] \in [nums -> State]
    BY <2>1 DEF Recorded
  <2>3. /\ f \in UNION {[k -> State] : k \in SUBSET (0..SHUTDOWN_NUM)}
        /\ DOMAIN made[p] \subseteq DOMAIN f /\ num \in DOMAIN f
    <3>1. f \in [nums \cup {num} -> State]
      BY <2>1, <2>2
    <3>2. nums \cup {num} \in SUBSET (0..SHUTDOWN_NUM)
      OBVIOUS
    <3>3. DOMAIN made[p] = nums
      BY <2>2
    <3> HIDE DEF f
    <3> QED  BY <3>1, <3>2, <3>3
  <2>4. made' = [made EXCEPT ![p] = f]
    BY DEF Send
  <2> HIDE DEF f
  <2> QED  BY <2>1, <2>3, <2>4 DEF Recorded
<1>12. Nums(t.sent) \subseteq DOMAIN made'[p]
  <2>1. t.sent \in Seq(TimestampedState)  BY <1>5 DEF TransportSenderType
  <2>2. \A i \in 1..Len(t.sent) :
          \/ t.sent[i].num = num
          \/ \E j \in 1..Len(sender[p].sent) : t.sent[i].num = sender[p].sent[j].num
    BY <1>2 DEF Sends
  <2>3. \A i \in 1..Len(sender[p].sent) : sender[p].sent[i].num \in DOMAIN made[p]
    BY <1>2 DEF IInv, TypeOK, Nums
  <2>4. DOMAIN t.sent = 1..Len(t.sent)  BY <2>1, EntryTypes
  <2>5. \A i \in 1..Len(t.sent) : t.sent[i].num \in DOMAIN made'[p]
    BY <1>11, <2>2, <2>3
  <2> QED  BY <2>4, <2>5 DEF Nums
<1>13. TypeOK'
  BY <1>1, <1>5, <1>8, <1>10, <1>11, <1>12, StepKeepsTypes, ZenonT(60) DEF IInv
<1> QED  BY <1>6, <1>7, <1>9, <1>10, <1>13, StepKeepsInvariant DEF Forward

(* A step that applies the acknowledgement of an instruction and makes the *)
(* received queue r, keeping what the instruction does not throw away.     *)
LEMMA ReceiveStep ==
  ASSUME IInv, NEW p \in Peer, NEW m \in net[Other(p)],
         NEW t \in TransportSenderType, t.sent = Acking(p, m).sent,
         NEW r \in Seq(ReceivedState), r # <<>>, Increasing(r),
         t.ack_num = r[Len(r)].num, r[Len(r)].num >= LatestNum(p),
         \A k \in Nums(received[p]) : k >= m.throwaway_num => k \in Nums(r),
         sender' = [sender EXCEPT ![p] = t],
         received' = [received EXCEPT ![p] = r],
         quench' \in [Peer -> Nat], attached' \in [Peer -> BOOLEAN],
         UNCHANGED <<now, net, raw, made>>
  PROVE  IInv' /\ Forward
<1> DEFINE q == Other(p)
           u == Acking(p, m)
<1>1. /\ sender[p] \in TransportSenderType /\ sender[p].sent # <<>>
      /\ sender[p].sent \in Seq(TimestampedState)
      /\ QueueInOrder(sender[p].sent, now)
      /\ received[p] \in Seq(ReceivedState)
  BY PeerFacts
<1>2. q \in Peer /\ Other(q) = p
  BY Peers
<1>3. m \in Instruction /\ m.ack_num \in 0..SHUTDOWN_NUM /\ m.throwaway_num \in Nat
  <2>1. m \in Instruction  BY <1>2, PeerFacts
  <2> QED  BY <2>1, ConstantTypes DEF Instruction
<1>4. /\ u.sent # <<>>
      /\ u.sent[1].num >= sender[p].sent[1].num
      /\ u.sent[1].num \in {sender[p].sent[1].num, m.ack_num}
      /\ \A i \in 1..Len(u.sent) :
           \E j \in 1..Len(sender[p].sent) : u.sent[i] = sender[p].sent[j]
      /\ QueueInOrder(u.sent, now)
  <2>1. Numbered(sender[p].sent)  BY <1>1 DEF QueueInOrder
  <2> QED  BY <1>1, <1>3, <2>1, AcknowledgmentProperties DEF Acking
<1> HIDE DEF u
<1>5. t.sent = u.sent /\ t.sent \in Seq(TimestampedState)
  BY DEF u, TransportSenderType
<1>6. t.sent[1].num \in Nums(received[q])
  <2>1. sender[p].sent[1].num \in Nums(received[q])
    BY DEF IInv, ReferenceHeld, Acked
  <2>2. m.ack_num \in Nums(received[q]) \/ m.ack_num < sender[p].sent[1].num
    BY <1>2 DEF IInv, AckedNotDiscarded, Acked
  <2>3. sender[p].sent[1].num \in Nat /\ m.ack_num \in Nat
    BY <1>1, <1>3, EntryTypes, ConstantTypes
  <2> QED  BY <1>4, <1>5, <2>1, <2>2, <2>3
<1>7. SoundSender(p, t, now)
  BY <1>4, <1>5, <1>6 DEF SoundSender
<1>8. SoundQueue(p, t, r)
  <2>1. m.throwaway_num <= sender[q].sent[1].num
    BY <1>2 DEF IInv, Bookkeeping, Acked
  <2>2. sender[q].sent[1].num \in Nat
    <3>1. sender[q].sent \in Seq(TimestampedState) /\ sender[q].sent # <<>>
      BY <1>2, PeerFacts
    <3> QED  BY <3>1, EntryTypes
  <2>3. \A k \in Nums(received[p]) : k \in Nat
    BY <1>1, ReceivedTypes DEF Nums
  <2>4. \A k \in Nums(received[p]) : k >= sender[q].sent[1].num => k \in Nums(r)
    BY <1>3, <2>1, <2>2, <2>3
  <2> QED  BY <2>4 DEF SoundQueue
<1>9. SoundSend(p, {})
  BY DEF SoundSend
<1>10. /\ net' = [net EXCEPT ![p] = @ \cup {}] /\ now' = now
       /\ raw' \in [Peer -> State] /\ made' \in Recorded
       /\ {} \in SUBSET Instruction
       /\ \A x \in Peer : DOMAIN made[x] \subseteq DOMAIN made'[x]
  BY DEF IInv, TypeOK, Recorded
<1>11. Nums(t.sent) \subseteq DOMAIN made'[p]
  <2>1. /\ DOMAIN t.sent = 1..Len(t.sent)
        /\ DOMAIN sender[p].sent = 1..Len(sender[p].sent)
    BY <1>1, <1>5, EntryTypes
  <2>2. Nums(t.sent) \subseteq Nums(sender[p].sent)
    <3>1. \A i \in DOMAIN t.sent : t.sent[i].num \in Nums(sender[p].sent)
      <4> TAKE i \in DOMAIN t.sent
      <4>1. PICK j \in 1..Len(sender[p].sent) : u.sent[i] = sender[p].sent[j]
        BY <1>4, <1>5, <2>1
      <4> QED  BY <1>5, <2>1, <4>1 DEF Nums
    <3> QED  BY <3>1 DEF Nums
  <2>3. Nums(sender[p].sent) \subseteq DOMAIN made[p]
    BY DEF IInv, TypeOK
  <2> QED  BY <2>2, <2>3
<1>12. TypeOK'
  <2>1. t.sent # <<>>  BY <1>4, <1>5
  <2> QED  BY <1>10, <1>11, <2>1, StepKeepsTypes DEF IInv
<1> QED  BY <1>7, <1>8, <1>9, <1>10, <1>12, StepKeepsInvariant DEF Forward

(***************************************************************************)
(* The actions, one by one.                                                *)
(***************************************************************************)

(* A sender after its timers were set.                                     *)
LEMMA TimersStep ==
  ASSUME SyncStateType, IInv, NEW p \in Peer, NEW s \in Timers(p)
  PROVE  /\ s \in TransportSenderType /\ SameQueue(sender[p], s)
         /\ s.sent # <<>> /\ s.sent \in Seq(TimestampedState)
         /\ s.assumed \in {1, Len(s.sent)} /\ Len(s.sent) \in 1..Len(s.sent)
         /\ s.current \in State
<1>1. PICK interval \in SendIntervals, timeout \in Timeouts :
        s = CalculateTimers(sender[p], now, interval, timeout)
  BY DEF Timers
<1>2. interval \in Nat /\ timeout \in Nat
  BY TransportConstants
<1>3. /\ sender[p] \in TransportSenderType /\ sender[p].sent # <<>>
      /\ sender[p].sent \in Seq(TimestampedState) /\ Dated(sender[p].sent)
      /\ now \in Nat
  BY PeerFacts DEF QueueInOrder
<1>4. /\ s \in TransportSenderType /\ SameQueue(sender[p], s)
      /\ s.assumed \in {1, Len(s.sent)}
  BY <1>1, <1>2, <1>3, TimersKeepQueue
<1>5. s.sent \in Seq(TimestampedState) /\ s.current \in State
  BY <1>4 DEF TransportSenderType
<1>6. s.sent # <<>>
  BY <1>3, <1>4, <1>5, EmptySeq DEF SameQueue
<1> QED  BY <1>4, <1>5, <1>6, EntryTypes

(* What a tick may do to its fresh timers besides: choose the base of the  *)
(* difference among the entries of the queue, and clear the send timer.    *)
LEMMA BaseStep ==
  ASSUME SyncStateType, IInv, NEW p \in Peer, NEW s \in Timers(p),
         NEW base \in ResendChoices(s)
  PROVE  LET b == [s EXCEPT !.assumed = base]
         IN  /\ b \in TransportSenderType /\ SameQueue(sender[p], b)
             /\ b.sent = s.sent /\ b.sent # <<>>
             /\ b.assumed \in {1, Len(b.sent)}
             /\ b.current = s.current
             /\ b.shutdown_in_progress = s.shutdown_in_progress
             /\ DiffFrom(s.current, s.sent[base].state) \in Diff
<1>1. /\ s \in TransportSenderType /\ SameQueue(sender[p], s)
      /\ s.sent # <<>> /\ s.sent \in Seq(TimestampedState)
      /\ s.assumed \in {1, Len(s.sent)} /\ Len(s.sent) \in 1..Len(s.sent)
      /\ s.current \in State
  BY TimersStep
<1>2. base \in {1, s.assumed}
  BY DEF ResendChoices
<1>3. base \in 1..Len(s.sent) /\ base \in {1, Len(s.sent)} /\ base \in Nat \ {0}
  BY <1>1, <1>2, EntryTypes
<1>4. s.sent[base].state \in State
  BY <1>1, <1>3, EntryTypes
<1> QED  BY <1>1, <1>3, <1>4 DEF TransportSenderType, SameQueue, SyncStateType

(* The steps that send nothing and receive nothing.                        *)
LEMMA OwnerSteps ==
  ASSUME SyncStateType, IInv, NEW p \in Peer,
         ChangeState(p) \/ Shutdown(p) \/ WaitTime(p) \/ TickIdle(p)
           \/ TickNothingToSend(p)
  PROVE  IInv' /\ Forward
<1>1. sender \in [Peer -> TransportSenderType] /\ raw \in [Peer -> State] /\ now \in Nat
  BY DEF IInv, TypeOK
<1>2. sender[p] \in TransportSenderType
  BY <1>1
<1>3. CASE ChangeState(p)
  <2>1. PICK i \in Input : /\ sender' = [sender EXCEPT ![p].current = Do(@, i)]
                          /\ raw' = [raw EXCEPT ![p] = Do(@, i)]
    BY <1>3 DEF ChangeState
  <2> DEFINE t == [sender[p] EXCEPT !.current = Do(sender[p].current, i)]
  <2>2. Do(sender[p].current, i) \in State /\ Do(raw[p], i) \in State
    BY <1>1, <1>2 DEF TransportSenderType, SyncStateType
  <2>3. t \in TransportSenderType /\ SameQueue(sender[p], t)
    BY <1>2, <2>2 DEF TransportSenderType, SameQueue
  <2>4. sender' = [sender EXCEPT ![p] = t]
    BY <2>1
  <2>5. raw' \in [Peer -> State]
    BY <1>1, <2>1, <2>2
  <2> HIDE DEF t
  <2>6. UNCHANGED <<now, received, quench, attached, net, made>>
    BY <1>3 DEF ChangeState
  <2> QED  BY <2>3, <2>4, <2>5, <2>6, QuietStep
<1>4. CASE Shutdown(p)
  <2> DEFINE t == StartShutdown(sender[p], now)
  <2>1. t \in TransportSenderType /\ SameQueue(sender[p], t)
    BY <1>1, <1>2 DEF StartShutdown, TransportSenderType, SameQueue
  <2> QED  BY <1>1, <1>4, <2>1, QuietStep DEF Shutdown
<1>5. CASE WaitTime(p) \/ TickIdle(p)
  <2>1. PICK s \in Timers(p) : sender' = [sender EXCEPT ![p] = s]
    BY <1>5 DEF WaitTime, TickIdle
  <2>2. s \in TransportSenderType /\ SameQueue(sender[p], s)
    BY TimersStep
  <2>3. UNCHANGED <<now, received, quench, attached, net, raw, made>>
    BY <1>5 DEF WaitTime, TickIdle
  <2> QED  BY <1>1, <2>1, <2>2, <2>3, QuietStep
<1>6. CASE TickNothingToSend(p)
  <2>0. PICK s \in Timers(p) : \E base \in ResendChoices(s) :
          sender' = [sender EXCEPT ![p] = [s EXCEPT
            !.assumed = base, !.next_send_time = Never, !.mindelay_clock = NoClock]]
    BY <1>6 DEF TickNothingToSend
  <2>1. PICK base \in ResendChoices(s) :
          sender' = [sender EXCEPT ![p] = [s EXCEPT
            !.assumed = base, !.next_send_time = Never, !.mindelay_clock = NoClock]]
    BY <2>0
  <2> DEFINE b == [s EXCEPT !.assumed = base]
             t == [b EXCEPT !.next_send_time = Never, !.mindelay_clock = NoClock]
  <2>2. b \in TransportSenderType /\ SameQueue(sender[p], b)
    BY BaseStep
  <2>3. [s EXCEPT !.assumed = base, !.next_send_time = Never, !.mindelay_clock = NoClock]
          = t
    BY TimersStep DEF TransportSenderType
  <2> HIDE DEF b
  <2>4. t \in TransportSenderType /\ SameQueue(sender[p], t)
    BY <2>2, ConstantTypes DEF TransportSenderType, SameQueue
  <2>5. UNCHANGED <<now, received, quench, attached, net, raw, made>>
    BY <1>6 DEF TickNothingToSend
  <2> HIDE DEF t
  <2> QED  BY <1>1, <2>1, <2>3, <2>4, <2>5, QuietStep
<1> QED  BY <1>3, <1>4, <1>5, <1>6

(* A state is sent.                                                        *)
LEMMA SendingSteps ==
  ASSUME SyncStateType, IInv, NEW p \in Peer, TickEmptyAck(p) \/ TickSend(p)
  PROVE  IInv' /\ Forward
<1>0. now \in Nat  BY PeerFacts
<1>1. CASE TickEmptyAck(p)
  <2>1. PICK s \in Timers(p) : \E base \in ResendChoices(s) :
          LET num == EmptyAckNum(s)
              queued == AddSentState([s EXCEPT !.assumed = base], now, num)
          IN  /\ num < SHUTDOWN_NUM \/ s.shutdown_in_progress
              /\ sender' = [sender EXCEPT ![p] = AfterSend(queued, num, now)]
              /\ Send(p, queued, num, NoDiff)
    BY <1>1 DEF TickEmptyAck
  <2>2. PICK base \in ResendChoices(s) :
          LET num == EmptyAckNum(s)
              queued == AddSentState([s EXCEPT !.assumed = base], now, num)
          IN  /\ num < SHUTDOWN_NUM \/ s.shutdown_in_progress
              /\ sender' = [sender EXCEPT ![p] = AfterSend(queued, num, now)]
              /\ Send(p, queued, num, NoDiff)
    BY <2>1
  <2> DEFINE b == [s EXCEPT !.assumed = base]
             num == EmptyAckNum(s)
             queued == AddSentState(b, now, num)
             t == AfterSend(queued, num, now)
  <2>3. /\ b \in TransportSenderType /\ SameQueue(sender[p], b)
        /\ b.sent = s.sent /\ b.sent # <<>> /\ b.assumed \in {1, Len(b.sent)}
    BY BaseStep
  <2>4. /\ s.sent \in Seq(TimestampedState) /\ s.sent # <<>>
        /\ Back(s).num \in 0..SHUTDOWN_NUM /\ Back(s).num \in Nat
    <3>1. s.sent \in Seq(TimestampedState) /\ s.sent # <<>>  BY TimersStep
    <3> QED  BY <3>1, EntryTypes DEF Back
  <2>5. num \in 0..SHUTDOWN_NUM /\ b.sent[Len(b.sent)].num <= num
    <3>1. num < SHUTDOWN_NUM \/ s.shutdown_in_progress  BY <2>2
    <3>2. b.sent[Len(b.sent)] = Back(s)  BY <2>3 DEF Back
    <3> HIDE DEF b
    <3> QED  BY <2>4, <3>1, <3>2, ConstantTypes DEF EmptyAckNum
  <2> HIDE DEF b, num
  <2>6. Sends(b, queued, now, num)
    BY <1>0, <2>3, <2>5, AddSentStateSends
  <2> HIDE DEF queued
  <2>7. Sends(b, t, now, num)
    BY <1>0, <2>5, <2>6, AfterSendSends
  <2>8. sender' = [sender EXCEPT ![p] = t] /\ Send(p, queued, num, NoDiff)
    BY <2>2 DEF queued, num, b
  <2>9. NoDiff \in Diff  BY DEF SyncStateType
  <2> QED  BY <2>3, <2>5, <2>6, <2>7, <2>8, <2>9, SendStep
<1>2. CASE TickSend(p)
  <2>1. PICK s \in Timers(p) : \E base \in ResendChoices(s) :
          LET diff == DiffFrom(s.current, s.sent[base].state)
              num == SendToReceiverNum(s)
              queued == QueueForReceiver([s EXCEPT !.assumed = base], now)
          IN  /\ num < SHUTDOWN_NUM \/ s.shutdown_in_progress
              /\ sender' = [sender EXCEPT ![p] =
                              AssumeDelivered(AfterSend(queued, num, now))]
              /\ Send(p, queued, num, diff)
    BY <1>2 DEF TickSend
  <2>2. PICK base \in ResendChoices(s) :
          LET diff == DiffFrom(s.current, s.sent[base].state)
              num == SendToReceiverNum(s)
              queued == QueueForReceiver([s EXCEPT !.assumed = base], now)
          IN  /\ num < SHUTDOWN_NUM \/ s.shutdown_in_progress
              /\ sender' = [sender EXCEPT ![p] =
                              AssumeDelivered(AfterSend(queued, num, now))]
              /\ Send(p, queued, num, diff)
    BY <2>1
  <2> DEFINE b == [s EXCEPT !.assumed = base]
             diff == DiffFrom(s.current, s.sent[base].state)
             num == SendToReceiverNum(s)
             queued == QueueForReceiver(b, now)
             t == AssumeDelivered(AfterSend(queued, num, now))
  <2>3. /\ b \in TransportSenderType /\ SameQueue(sender[p], b)
        /\ b.sent = s.sent /\ b.sent # <<>> /\ b.assumed \in {1, Len(b.sent)}
        /\ b.current = s.current /\ b.shutdown_in_progress = s.shutdown_in_progress
        /\ diff \in Diff
    BY BaseStep
  <2>4. /\ s.sent \in Seq(TimestampedState) /\ s.sent # <<>>
        /\ Back(s).num \in 0..SHUTDOWN_NUM /\ Back(s).num \in Nat
    <3>1. s.sent \in Seq(TimestampedState) /\ s.sent # <<>>  BY TimersStep
    <3> QED  BY <3>1, EntryTypes DEF Back
  <2>5. num \in 0..SHUTDOWN_NUM /\ b.sent[Len(b.sent)].num <= num
    <3>1. num < SHUTDOWN_NUM \/ s.shutdown_in_progress  BY <2>2
    <3>2. b.sent[Len(b.sent)] = Back(s)  BY <2>3 DEF Back
    <3> HIDE DEF b
    <3> QED  BY <2>4, <3>1, <3>2, ConstantTypes DEF SendToReceiverNum
  <2>6. num = SendToReceiverNum(b)
    BY <2>3 DEF SendToReceiverNum, Back
  <2> HIDE DEF b, num, diff
  <2>7. Sends(b, queued, now, num)
    BY <1>0, <2>3, <2>5, <2>6, QueueForReceiverSends
  <2> HIDE DEF queued
  <2>8. Sends(b, t, now, num)
    BY <1>0, <2>5, <2>7, AfterSendSends
  <2>9. sender' = [sender EXCEPT ![p] = t] /\ Send(p, queued, num, diff)
    BY <2>2 DEF queued, num, b, diff
  <2> HIDE DEF t
  <2> QED  BY <2>3, <2>5, <2>7, <2>8, <2>9, SendStep
<1> QED  BY <1>1, <1>2

(* A datagram arrives, whatever it holds.                                  *)
LEMMA ReceivingSteps ==
  ASSUME SyncStateType, IInv, NEW p \in Peer,
         ApplyOnlyAck(p) \/ ApplyQuenched(p) \/ ApplyNewState(p)
  PROVE  IInv' /\ Forward
<1> DEFINE q == received[p]
<1>1. /\ sender[p] \in TransportSenderType /\ sender[p].sent # <<>>
      /\ Numbered(sender[p].sent)
      /\ q \in Seq(ReceivedState) /\ q # <<>> /\ Increasing(q)
      /\ sender[p].ack_num = LatestNum(p) /\ LatestNum(p) = q[Len(q)].num
      /\ LatestNum(p) \in Nat /\ now \in Nat
  <2>1. LatestNum(p) \in Nat
    BY PeerFacts, ReceivedTypes DEF LatestNum
  <2> QED  BY <2>1, PeerFacts DEF QueueInOrder, LatestNum
<1>2. \A m \in net[Other(p)] :
        /\ m \in Instruction
        /\ m.ack_num \in 0..SHUTDOWN_NUM /\ m.new_num \in 0..SHUTDOWN_NUM
        /\ m.throwaway_num \in Nat /\ m.diff \in Diff
        /\ Acking(p, m) \in TransportSenderType
        /\ Acking(p, m).ack_num = sender[p].ack_num
  <2> TAKE m \in net[Other(p)]
  <2>1. m \in Instruction  BY Peers, PeerFacts
  <2>2. /\ m.ack_num \in 0..SHUTDOWN_NUM /\ m.new_num \in 0..SHUTDOWN_NUM
        /\ m.throwaway_num \in Nat /\ m.diff \in Diff
    BY <2>1, ConstantTypes DEF Instruction
  <2> QED  BY <1>1, <2>1, <2>2, AcknowledgmentProperties DEF Acking
<1>3. /\ sender \in [Peer -> TransportSenderType] /\ received \in [Peer -> Seq(ReceivedState)]
      /\ quench \in [Peer -> Nat]
  BY DEF IInv, TypeOK
<1>4. ASSUME Heard(p)
      PROVE  attached' \in [Peer -> BOOLEAN] /\ UNCHANGED <<now, net, raw, made>>
  <2>1. attached \in [Peer -> BOOLEAN]  BY DEF IInv, TypeOK
  <2> QED  BY <1>4, <2>1 DEF Heard
<1>5. CASE ApplyOnlyAck(p)
  <2>1. PICK m \in net[Other(p)] : sender' = [sender EXCEPT ![p] = Acking(p, m)]
    BY <1>5 DEF ApplyOnlyAck
  <2>2. /\ received' = [received EXCEPT ![p] = q] /\ quench' \in [Peer -> Nat]
        /\ attached' \in [Peer -> BOOLEAN] /\ UNCHANGED <<now, net, raw, made>>
        /\ Acking(p, m) \in TransportSenderType
    <3>1. /\ received' = [received EXCEPT ![p] = q] /\ quench' \in [Peer -> Nat]
          /\ Heard(p)
      BY <1>3, <1>5 DEF ApplyOnlyAck
    <3>2. /\ attached' \in [Peer -> BOOLEAN] /\ UNCHANGED <<now, net, raw, made>>
          /\ Acking(p, m) \in TransportSenderType
      BY <1>2, <1>4, <3>1
    <3> QED  BY <3>1, <3>2
  <2>3. Acking(p, m).ack_num = q[Len(q)].num /\ q[Len(q)].num >= LatestNum(p)
    BY <1>1, <1>2
  <2> HIDE DEF q
  <2>4. \A k \in Nums(received[p]) : k >= m.throwaway_num => k \in Nums(q)
    BY DEF q
  <2> QED  BY <1>1, <2>1, <2>2, <2>3, <2>4, ReceiveStep
<1>6. CASE ApplyQuenched(p)
  <2>1. PICK m \in net[Other(p)] :
          /\ sender' = [sender EXCEPT ![p] = Acking(p, m)]
          /\ received' = [received EXCEPT ![p] =
                            ProcessThrowawayUntil(received[p], m.throwaway_num)]
    BY <1>6 DEF ApplyQuenched
  <2> DEFINE r == ProcessThrowawayUntil(q, m.throwaway_num)
  <2>2. /\ r \in Seq(ReceivedState) /\ r # <<>> /\ Increasing(r)
        /\ r[Len(r)] = q[Len(q)]
        /\ \A k \in Nums(q) : k >= m.throwaway_num => k \in Nums(r)
    BY <1>1, <1>2, ThrowawayProperties
  <2>3. /\ received' = [received EXCEPT ![p] = r] /\ quench' \in [Peer -> Nat]
        /\ attached' \in [Peer -> BOOLEAN] /\ UNCHANGED <<now, net, raw, made>>
        /\ Acking(p, m) \in TransportSenderType
    <3>1. quench' \in [Peer -> Nat] /\ Heard(p)
      BY <1>3, <1>6 DEF ApplyQuenched
    <3>2. /\ attached' \in [Peer -> BOOLEAN] /\ UNCHANGED <<now, net, raw, made>>
          /\ Acking(p, m) \in TransportSenderType
      BY <1>2, <1>4, <3>1
    <3>3. received' = [received EXCEPT ![p] = r]
      BY <2>1
    <3> QED  BY <3>1, <3>2, <3>3
  <2> HIDE DEF r
  <2>4. Acking(p, m).ack_num = r[Len(r)].num /\ r[Len(r)].num >= LatestNum(p)
    BY <1>1, <1>2, <2>2
  <2> QED  BY <2>1, <2>2, <2>3, <2>4, ReceiveStep
<1>7. CASE ApplyNewState(p)
  <2>1. PICK m \in net[Other(p)] :
          \E i \in References(q, m.old_num) :
          LET kept == ProcessThrowawayUntil(q, m.throwaway_num)
              full == Len(kept) > MAX_RECEIVED_STATES
              from == q[i].state
              new == [num |-> m.new_num,
                      state |-> IF m.diff = NoDiff THEN from
                                ELSE ApplyString(from, m.diff)]
              queue == InsertByNum(kept, new)
          IN  /\ m.new_num \notin Nums(q)
              /\ quench' = [quench EXCEPT ![p] = IF full THEN now + QUENCH_INTERVAL ELSE @]
              /\ received' = [received EXCEPT ![p] = queue]
              /\ sender' = [sender EXCEPT ![p] = [Acking(p, m) EXCEPT
                   !.pending_data_ack = @ \/ m.diff # NoDiff,
                   !.ack_num = queue[Len(queue)].num,
                   !.last_heard = now]]
    BY <1>7 DEF ApplyNewState
  <2> DEFINE kept == ProcessThrowawayUntil(q, m.throwaway_num)
             full == Len(kept) > MAX_RECEIVED_STATES
             New(i) == [num |-> m.new_num,
                        state |-> IF m.diff = NoDiff THEN q[i].state
                                  ELSE ApplyString(q[i].state, m.diff)]
  <2>r. References(q, m.old_num) \subseteq DOMAIN q
    BY DEF References
  <2>2. PICK i \in DOMAIN q :
          /\ m.new_num \notin Nums(q)
          /\ quench' = [quench EXCEPT ![p] = IF full THEN now + QUENCH_INTERVAL ELSE @]
          /\ received' = [received EXCEPT ![p] = InsertByNum(kept, New(i))]
          /\ sender' = [sender EXCEPT ![p] = [Acking(p, m) EXCEPT
               !.pending_data_ack = @ \/ m.diff # NoDiff,
               !.ack_num = InsertByNum(kept, New(i))[Len(InsertByNum(kept, New(i)))].num,
               !.last_heard = now]]
    BY <2>1, <2>r
  <2> DEFINE r == InsertByNum(kept, New(i))
             t == [Acking(p, m) EXCEPT
                    !.pending_data_ack = @ \/ m.diff # NoDiff,
                    !.ack_num = r[Len(r)].num,
                    !.last_heard = now]
  <2>3. /\ kept \in Seq(ReceivedState) /\ kept # <<>> /\ Increasing(kept)
        /\ kept[Len(kept)] = q[Len(q)] /\ Nums(kept) \subseteq Nums(q)
        /\ \A k \in Nums(q) : k >= m.throwaway_num => k \in Nums(kept)
    BY <1>1, <1>2, ThrowawayProperties
  <2>4. New(i) \in ReceivedState /\ New(i).num = m.new_num
    <3>1. q[i].state \in State  BY <1>1, <2>2, ReceivedTypes
    <3> QED  BY <1>2, <3>1 DEF ReceivedState, SyncStateType
  <2>5. quench' \in [Peer -> Nat]
    <3>1. now + QUENCH_INTERVAL \in Nat  BY <1>1, TransportConstants
    <3> QED  BY <1>3, <2>2, <3>1
  <2> HIDE DEF kept, New
  <2>6. /\ r \in Seq(ReceivedState) /\ r # <<>> /\ Increasing(r)
        /\ Nums(kept) \subseteq Nums(r)
        /\ r[Len(r)].num >= kept[Len(kept)].num
    BY <2>2, <2>3, <2>4, InsertByNumProperties
  <2>7. received' = [received EXCEPT ![p] = r] /\ sender' = [sender EXCEPT ![p] = t]
    BY <2>2
  <2> HIDE DEF r
  <2>8. r[Len(r)].num \in 0..SHUTDOWN_NUM
    BY <2>6, ReceivedTypes
  <2>9. /\ t \in TransportSenderType /\ t.sent = Acking(p, m).sent
        /\ t.ack_num = r[Len(r)].num
    <3> DEFINE u == Acking(p, m)
               pending == u.pending_data_ack \/ m.diff # NoDiff
    <3>1. u \in TransportSenderType  BY <1>2
    <3>2. pending \in BOOLEAN  BY <3>1 DEF TransportSenderType
    <3>3. t = [u EXCEPT !.pending_data_ack = pending, !.ack_num = r[Len(r)].num,
                        !.last_heard = now]
      OBVIOUS
    <3> HIDE DEF u, pending, t
    <3> QED  BY <1>1, <2>8, <3>1, <3>2, <3>3 DEF TransportSenderType, u
  <2> HIDE DEF t
  <2>10. /\ attached' \in [Peer -> BOOLEAN] /\ UNCHANGED <<now, net, raw, made>>
    BY <1>4, <1>7 DEF ApplyNewState
  <2>11. /\ r[Len(r)].num >= LatestNum(p)
         /\ \A k \in Nums(received[p]) : k >= m.throwaway_num => k \in Nums(r)
    BY <1>1, <2>3, <2>6
  <2> QED  BY <2>5, <2>6, <2>7, <2>9, <2>10, <2>11, ReceiveStep
<1> QED  BY <1>5, <1>6, <1>7

(* Time passes.                                                            *)
LEMMA OtherSteps ==
  ASSUME IInv, Clock \/ UNCHANGED vars
  PROVE  IInv' /\ Forward
<1>1. \A p \in Peer :
        /\ sender[p].sent \in Seq(TimestampedState) /\ sender[p].sent # <<>>
        /\ received[p] \in Seq(ReceivedState) /\ received[p] # <<>> /\ now \in Nat
  BY PeerFacts
<1>2. /\ now' \in Nat /\ now' >= now /\ attached' \in [Peer -> BOOLEAN]
      /\ UNCHANGED <<sender, received, quench, net, raw, made>>
  <2>1. now \in Nat /\ attached \in [Peer -> BOOLEAN]  BY DEF IInv, TypeOK
  <2>2. CASE Clock
    BY <2>1, <2>2 DEF Clock
  <2>4. CASE UNCHANGED vars
    BY <2>1, <2>4 DEF vars
  <2> QED  BY <2>2, <2>4
<1>3. TypeOK' /\ QueuesOrdered' /\ ReferenceHeld' /\ AckedNotDiscarded'
  BY <1>2 DEF IInv, TypeOK, QueuesOrdered, ReferenceHeld, AckedNotDiscarded, Nums, Acked
<1>4. Bookkeeping'
  <2>1. \A p \in Peer : \A i \in DOMAIN sender[p].sent :
          sender[p].sent[i].timestamp \in Nat /\ sender[p].sent[i].timestamp <= now
    BY <1>1, EntryTypes DEF IInv, Bookkeeping
  <2>2. \A p \in Peer : \A i \in DOMAIN sender[p].sent : sender[p].sent[i].timestamp <= now'
    BY <1>1, <1>2, <2>1
  <2> QED  BY <1>2, <2>2 DEF IInv, Bookkeeping, LatestNum, Acked
<1>5. Forward
  <2>1. \A p \in Peer : LatestNum(p) \in Nat /\ Acked(sender[p]).num \in Nat
    BY <1>1, EntryTypes, ReceivedTypes DEF LatestNum, Acked
  <2> QED  BY <1>2, <2>1 DEF Forward, LatestNum, Acked
<1> QED  BY <1>3, <1>4, <1>5 DEF IInv

(* The invariant holds at first.                                           *)
LEMMA InitiallySound ==
  ASSUME SyncStateType, Init
  PROVE  IInv
<1> DEFINE first == [timestamp |-> 0, num |-> 0, state |-> InitialState]
           base == [num |-> 0, state |-> InitialState]
<1>1. /\ first \in TimestampedState /\ base \in ReceivedState
      /\ InitialState \in State /\ 0 \in 0..SHUTDOWN_NUM
  BY ConstantTypes DEF SyncStateType, TimestampedState, ReceivedState
<1>2. /\ NewSender(0) \in TransportSenderType
      /\ NewSender(0).sent = <<first>> /\ NewSender(0).ack_num = 0
  <2>1. <<first>> \in Seq(TimestampedState)  BY <1>1
  <2> QED  BY <1>1, <2>1 DEF NewSender, TransportSenderType
<1>3. \A p \in Peer : /\ sender[p] = NewSender(0) /\ received[p] = <<base>>
                      /\ net[p] = {} /\ made[p] = [n \in {0} |-> InitialState]
                      /\ sender[p].sent = <<first>> /\ sender[p].ack_num = 0
  BY <1>2 DEF Init
<1> HIDE DEF Init
<1>4. /\ Len(<<first>>) = 1 /\ DOMAIN <<first>> = {1} /\ <<first>>[1] = first
      /\ Len(<<base>>) = 1 /\ DOMAIN <<base>> = {1} /\ <<base>>[1] = base
      /\ first.num = 0 /\ first.timestamp = 0 /\ base.num = 0
      /\ <<first>> # <<>> /\ <<base>> # <<>> /\ <<base>> \in Seq(ReceivedState)
  BY <1>1
<1> HIDE DEF first, base
<1>5. Nums(<<first>>) = {0} /\ Nums(<<base>>) = {0}
  BY <1>4 DEF Nums
<1>6. TypeOK
  <2>1. /\ now \in Nat /\ sender \in [Peer -> TransportSenderType]
        /\ quench \in [Peer -> Nat] /\ attached \in [Peer -> BOOLEAN]
        /\ raw \in [Peer -> State] /\ net \in [Peer -> SUBSET Instruction]
    BY <1>1, <1>2 DEF Init
  <2>2. received \in [Peer -> Seq(ReceivedState)]
    BY <1>4 DEF Init, base
  <2>3. made \in Recorded
    <3>1. [n \in {0} |-> InitialState] \in [{0} -> State]  BY <1>1
    <3>2. {0} \in SUBSET (0..SHUTDOWN_NUM)  BY <1>1
    <3>3. [n \in {0} |-> InitialState]
            \in UNION {[nums -> State] : nums \in SUBSET (0..SHUTDOWN_NUM)}
      BY <3>1, <3>2
    <3> QED  BY <3>3 DEF Init, Recorded
  <2>4. \A p \in Peer : /\ sender[p].sent # <<>> /\ received[p] # <<>>
                        /\ Nums(sender[p].sent) \subseteq DOMAIN made[p]
    BY <1>3, <1>4, <1>5
  <2> QED  BY <2>1, <2>2, <2>3, <2>4 DEF TypeOK, Recorded
<1>7. QueuesOrdered
  BY <1>3, <1>4 DEF QueuesOrdered
<1>8. Bookkeeping
  <2>1. now = 0  BY DEF Init
  <2> QED  BY <1>3, <1>4, <2>1 DEF Bookkeeping, LatestNum
<1>9. ReferenceHeld /\ AckedNotDiscarded
  BY <1>3, <1>4, <1>5, Peers DEF ReferenceHeld, AckedNotDiscarded, Acked
<1> QED  BY <1>6, <1>7, <1>8, <1>9 DEF IInv

(* After every step too, and no step goes back to an older number.         *)
LEMMA NextStep ==
  ASSUME SyncStateType, IInv, [Next]_vars
  PROVE  IInv' /\ Forward
<1>1. CASE Clock \/ UNCHANGED vars
  BY <1>1, OtherSteps
<1>2. ASSUME NEW p \in Peer, Owner(p) \/ Tick(p) \/ Recv(p)
      PROVE  IInv' /\ Forward
  BY <1>2, OwnerSteps, SendingSteps, ReceivingSteps DEF Owner, Tick, Recv
<1> QED  BY <1>1, <1>2 DEF Next

(***************************************************************************)
(* The theorems.                                                           *)
(***************************************************************************)

(* Of every reachable state, whatever the state carried: the invariant.    *)
THEOREM Invariance ==
  ASSUME SyncStateType
  PROVE  Spec => []IInv
<1>1. Init => IInv
  BY InitiallySound
<1>2. IInv /\ [Next]_vars => IInv'
  BY NextStep
<1> QED  BY <1>1, <1>2, PTL DEF Spec

(* No method of an endpoint ever leaves a field outside its type, and      *)
(* neither queue is ever empty: `front()` and `back()` always succeed.     *)
THEOREM TypeCorrect ==
  ASSUME SyncStateType
  PROVE  Spec => []TypeOK
<1>1. IInv => TypeOK
  BY DEF IInv
<1> QED  BY <1>1, Invariance, PTL

(* The queues the code indexes, scans and thins stay ordered.              *)
THEOREM AlwaysOrdered ==
  ASSUME SyncStateType
  PROVE  Spec => []QueuesOrdered
<1>1. IInv => QueuesOrdered
  BY DEF IInv
<1> QED  BY <1>1, Invariance, PTL

(* An endpoint acknowledges the newest state it holds, asks its peer to    *)
(* throw away nothing that peer has not acknowledged, and never dates a    *)
(* state ahead of its clock.                                               *)
THEOREM AlwaysBookkept ==
  ASSUME SyncStateType
  PROVE  Spec => []Bookkeeping
<1>1. IInv => Bookkeeping
  BY DEF IInv
<1> QED  BY <1>1, Invariance, PTL

(* The acknowledged state at the front of a sender's queue is one its peer *)
(* holds, so the resend the code falls back on always has a base to apply  *)
(* to: no pattern of loss, repetition and reordering can strand a session. *)
THEOREM AlwaysHeld ==
  ASSUME SyncStateType
  PROVE  Spec => []ReferenceHeld
<1>1. IInv => ReferenceHeld
  BY DEF IInv
<1> QED  BY <1>1, Invariance, PTL

(* The comment of apply_instruction, for every interleaving: what was      *)
(* acknowledged is not discarded while its acknowledgement can matter.     *)
THEOREM NeverDiscarded ==
  ASSUME SyncStateType
  PROVE  Spec => []AckedNotDiscarded
<1>1. IInv => AckedNotDiscarded
  BY DEF IInv
<1> QED  BY <1>1, Invariance, PTL

(* Neither a peer's view of the other nor its acknowledged baseline ever   *)
(* returns to an older number.                                             *)
THEOREM AlwaysForward ==
  ASSUME SyncStateType
  PROVE  Spec => NeverBackwards
<1>1. IInv /\ [Next]_vars =>
        [\A p \in Peer : /\ LatestNum(p)' >= LatestNum(p)
                         /\ Acked(sender[p])'.num >= Acked(sender[p]).num]_vars
  BY NextStep DEF Forward
<1> QED  BY <1>1, Invariance, PTL DEF Spec, NeverBackwards

(***************************************************************************)
(* Theorems about ScreenSync, for every value of the constants.  Of the    *)
(* display they assume only what ScreenLaws says of the frames that do not *)
(* lead astray: what a peer shows is what its owner showed, unless such a  *)
(* frame was sent by then, and a session that ends leaves the final screen.*)
(*                                                                         *)
(* The transport's invariant says which numbers each endpoint holds.       *)
(* ScreenRecalls adds what the sender's numbers stand for: a queued state  *)
(* is the one made under its number, and the shutdown number stands for    *)
(* the current state, which is frozen.  From it an instruction's diff is   *)
(* between the states it names, and from that a receiver's states are the  *)
(* sender's.  FramesForward carries the condition along: what leads to a   *)
(* number are frames of numbers up to it, so that a screen is as right as  *)
(* those are.                                                              *)
(***************************************************************************)

(* A sender s whose owner is at the state r and whose history is m.        *)
ScreenRecalls(s, r, m) ==
  /\ s.current = r
  /\ \A i \in 1..Len(s.sent) : /\ s.sent[i].num \in DOMAIN m
                               /\ s.sent[i].state = m[s.sent[i].num]
  /\ \A n \in DOMAIN m : n \in 0..SHUTDOWN_NUM /\ n <= s.sent[Len(s.sent)].num
  /\ SHUTDOWN_NUM \in DOMAIN m => s.shutdown_in_progress /\ m[SHUTDOWN_NUM] = r

(* Every instruction leads from a number to that one or a later one.       *)
FramesForward == \A p \in Peer : \A m \in net[p] : m.old_num <= m.new_num

ScreenInv ==
  /\ IInv /\ DiffNamesItsStates /\ FramesForward /\ Agreement
  /\ \A p \in Peer : ScreenRecalls(sender[p], raw[p], made[p])

(* Recomputing the timers and choosing the base of a difference change     *)
(* neither the states nor what they are called.                            *)
LEMMA ScreenTimersRecall ==
  ASSUME SyncStateType, ScreenLaws, IInv, NEW p \in Peer, NEW s \in Timers(p),
         NEW r, NEW m, ScreenRecalls(sender[p], r, m)
  PROVE  ScreenRecalls(s, r, m)
<1>1. PICK interval \in SendIntervals, timeout \in Timeouts :
        s = CalculateTimers(sender[p], now, interval, timeout)
  BY DEF Timers
<1>2. interval \in Nat /\ timeout \in Nat
  BY TransportConstants
<1>3. /\ sender[p] \in TransportSenderType /\ sender[p].sent # <<>>
      /\ sender[p].sent \in Seq(TimestampedState) /\ now \in Nat
  BY PeerFacts
<1>4. NothingSubtracted
  BY DEF ScreenLaws, NothingSubtracted
<1>5. /\ SameQueue(sender[p], s) /\ SameStates(sender[p], s)
      /\ s.shutdown_in_progress = sender[p].shutdown_in_progress
  <2> DEFINE u == sender[p]
  <2>1. u \in TransportSenderType /\ u.sent # <<>>
    BY <1>3
  <2> HIDE DEF u
  <2>2. LET t == CalculateTimers(u, now, interval, timeout)
        IN  /\ SameQueue(u, t) /\ t.shutdown_in_progress = u.shutdown_in_progress
            /\ NothingSubtracted => SameStates(u, t)
    BY <1>2, <1>3, <2>1, TimersKeepQueue
  <2>3. s = CalculateTimers(u, now, interval, timeout)
    BY <1>1 DEF u
  <2>4. SameQueue(u, s) /\ SameStates(u, s) /\ s.shutdown_in_progress = u.shutdown_in_progress
    BY <1>4, <2>2, <2>3, Zenon
  <2> QED  BY <2>4 DEF u
<1>6. Len(sender[p].sent) \in 1..Len(sender[p].sent)
  BY <1>3, EntryTypes
<1> QED  BY <1>5, <1>6 DEF ScreenRecalls, SameQueue, SameStates

(* Another base for the next diff changes nothing that is remembered.      *)
LEMMA ScreenBaseRecalls ==
  ASSUME SyncStateType, ScreenLaws, IInv, NEW p \in Peer, NEW s \in Timers(p),
         NEW base \in ResendChoices(s),
         NEW r, NEW m, ScreenRecalls(sender[p], r, m)
  PROVE  LET b == [s EXCEPT !.assumed = base]
         IN  /\ ScreenRecalls(b, r, m)
             /\ b.assumed = base /\ base \in 1..Len(s.sent)
<1>1. /\ s \in TransportSenderType /\ s.assumed \in {1, Len(s.sent)}
      /\ Len(s.sent) \in 1..Len(s.sent) /\ s.sent \in Seq(TimestampedState)
  BY TimersStep
<1>2. base \in 1..Len(s.sent)
  <2>1. base \in {1, s.assumed}  BY DEF ResendChoices
  <2> QED  BY <1>1, <2>1, EntryTypes
<1>3. ScreenRecalls(s, r, m)
  BY ScreenTimersRecall
<1> QED  BY <1>1, <1>2, <1>3 DEF ScreenRecalls, TransportSenderType

(* The history after num has been sent.                                    *)
ScreenExtended(m, num, r) ==
  [n \in DOMAIN m \cup {num} |-> IF n \in DOMAIN m THEN m[n] ELSE r]

(* A number may be sent if it is new or already stands for the current     *)
(* state, and the shutdown number only once the state is frozen.           *)
ScreenMaySend(s, num, r, m) ==
  /\ num \in 0..SHUTDOWN_NUM /\ s.sent[Len(s.sent)].num <= num
  /\ num \in DOMAIN m => m[num] = r
  /\ num = SHUTDOWN_NUM => s.shutdown_in_progress

(* The numbers a sender may give to what it sends.                         *)
LEMMA ScreenNumberChoices ==
  ASSUME NEW s \in TransportSenderType, s.sent # <<>>, NEW r, NEW m,
         ScreenRecalls(s, r, m), NEW num \in {EmptyAckNum(s), SendToReceiverNum(s)},
         num < SHUTDOWN_NUM \/ s.shutdown_in_progress
  PROVE  ScreenMaySend(s, num, r, m)
<1> DEFINE back == s.sent[Len(s.sent)]
<1>1. /\ s.sent \in Seq(TimestampedState) /\ Len(s.sent) \in 1..Len(s.sent)
      /\ back.num \in 0..SHUTDOWN_NUM /\ back.num \in Nat /\ SHUTDOWN_NUM \in Nat
  <2>1. s.sent \in Seq(TimestampedState)  BY DEF TransportSenderType
  <2> QED  BY <2>1, EntryTypes, ConstantTypes
<1>2. Back(s) = back
  BY DEF Back
<1>3. /\ s.current = r /\ back.state = m[back.num]
      /\ \A n \in DOMAIN m : n <= back.num
      /\ SHUTDOWN_NUM \in DOMAIN m => m[SHUTDOWN_NUM] = r
  BY <1>1 DEF ScreenRecalls
<1> HIDE DEF back
<1>4. CASE s.shutdown_in_progress
  <2>1. num = SHUTDOWN_NUM
    BY <1>4 DEF EmptyAckNum, SendToReceiverNum
  <2> QED  BY <1>1, <1>3, <1>4, <2>1 DEF ScreenMaySend, back
<1>5. CASE ~s.shutdown_in_progress
  <2>1. num < SHUTDOWN_NUM
    BY <1>5
  <2>2. num = back.num + 1 \/ (num = back.num /\ s.current = back.state)
    BY <1>2, <1>5 DEF EmptyAckNum, SendToReceiverNum
  <2>3. num \in 0..SHUTDOWN_NUM /\ back.num <= num /\ num # SHUTDOWN_NUM
    BY <1>1, <2>1, <2>2
  <2>4. num \in DOMAIN m => m[num] = r
    <3>1. CASE num = back.num + 1
      <4>1. ~(num <= back.num)  BY <1>1, <3>1
      <4> QED  BY <1>3, <4>1
    <3>2. CASE num = back.num /\ s.current = back.state
      BY <1>3, <3>2
    <3> QED  BY <2>2, <3>1, <3>2
  <2> QED  BY <2>3, <2>4 DEF ScreenMaySend, back
<1> QED  BY <1>4, <1>5

(* What is sent is added to the history.                                   *)
LEMMA ScreenSendRecalls ==
  ASSUME NEW s \in TransportSenderType, s.sent # <<>>, NEW r, NEW m,
         ScreenRecalls(s, r, m), NEW num, ScreenMaySend(s, num, r, m),
         NEW t, NEW clock, Sends(s, t, clock, num)
  PROVE  /\ ScreenRecalls(t, r, ScreenExtended(m, num, r))
         /\ ScreenExtended(m, num, r)[num] = r
<1> DEFINE x == ScreenExtended(m, num, r)
           back == s.sent[Len(s.sent)]
<1>1. /\ DOMAIN x = DOMAIN m \cup {num}
      /\ x[num] = r
      /\ \A n \in DOMAIN m : x[n] = m[n]
  BY DEF ScreenExtended, ScreenMaySend
<1> HIDE DEF x
<1>2. /\ back.num \in Nat /\ num \in Nat /\ back.num <= num
      /\ SHUTDOWN_NUM \in Nat /\ num \in 0..SHUTDOWN_NUM
  <2>1. s.sent \in Seq(TimestampedState)  BY DEF TransportSenderType
  <2> QED  BY <2>1, EntryTypes, ConstantTypes DEF ScreenMaySend
<1>3. t.current = r /\ t.shutdown_in_progress = s.shutdown_in_progress
  BY DEF Sends, ScreenRecalls
<1>4. \A i \in 1..Len(t.sent) : /\ t.sent[i].num \in DOMAIN x
                               /\ t.sent[i].state = x[t.sent[i].num]
  <2> TAKE i \in 1..Len(t.sent)
  <2>1. CASE t.sent[i].num = num /\ t.sent[i].state = s.current
    BY <1>1, <2>1 DEF ScreenRecalls
  <2>2. CASE \E j \in 1..Len(s.sent) : /\ t.sent[i].num = s.sent[j].num
                                       /\ t.sent[i].state = s.sent[j].state
    BY <1>1, <2>2 DEF ScreenRecalls
  <2> QED  BY <2>1, <2>2 DEF Sends
<1>5. \A n \in DOMAIN x : n \in 0..SHUTDOWN_NUM /\ n <= t.sent[Len(t.sent)].num
  <2>1. t.sent[Len(t.sent)].num = num  BY DEF Sends
  <2> SUFFICES ASSUME NEW n \in DOMAIN x PROVE n \in 0..SHUTDOWN_NUM /\ n <= num
    BY <2>1
  <2>2. CASE n = num
    BY <1>2, <2>2
  <2>3. CASE n \in DOMAIN m
    <3>1. n \in 0..SHUTDOWN_NUM /\ n <= back.num  BY <2>3 DEF ScreenRecalls
    <3> QED  BY <1>2, <3>1
  <2> QED  BY <1>1, <2>2, <2>3
<1>6. SHUTDOWN_NUM \in DOMAIN x => t.shutdown_in_progress /\ x[SHUTDOWN_NUM] = r
  <2>1. CASE SHUTDOWN_NUM = num
    BY <1>1, <1>3, <2>1 DEF ScreenMaySend
  <2>2. CASE SHUTDOWN_NUM # num
    BY <1>1, <1>3, <2>2 DEF ScreenRecalls
  <2> QED  BY <2>1, <2>2
<1> QED  BY <1>1, <1>3, <1>4, <1>5, <1>6 DEF ScreenRecalls, x

(***************************************************************************)
(* The steps.                                                              *)
(***************************************************************************)

(* No frame of instrs up to num leads astray, where screens are as in h.   *)
NoneAstray(instrs, h, num) ==
  \A i \in instrs : i.new_num <= num => ~LeadsAstray(h[i.new_num], h[i.old_num])

(* If no frame sent by a number leads astray, none by an earlier one does. *)
LEMMA StraightBefore ==
  ASSUME ScreenInv, NEW p \in Peer, NEW m \in net[p], Straight(p, m.new_num)
  PROVE  /\ Straight(p, m.old_num)
         /\ ~LeadsAstray(made[p][m.new_num], made[p][m.old_num])
<1>1. /\ \A i \in net[p] : i \in Instruction
      /\ m.old_num <= m.new_num
  BY PeerFacts DEF ScreenInv, FramesForward
<1>2. \A i \in net[p] : i.old_num \in Nat /\ i.new_num \in Nat
  BY <1>1, ConstantTypes DEF Instruction
<1>3. m.new_num <= m.new_num
  BY <1>2
<1> QED  BY <1>1, <1>2, <1>3 DEF Straight

(* A step that gives out no number and sends nothing.                      *)
LEMMA ScreenQuietKeeps ==
  ASSUME ScreenInv, NEW p \in Peer, NEW t,
         sender' = [sender EXCEPT ![p] = t],
         ScreenRecalls(t, raw'[p], made[p]),
         raw'[Other(p)] = raw[Other(p)],
         UNCHANGED <<net, made>>, Agreement', IInv'
  PROVE  ScreenInv'
<1>1. Other(p) \in Peer /\ Other(p) # p /\ \A x \in Peer : x = p \/ x = Other(p)
  BY Peers
<1>2. sender'[p] = t /\ sender'[Other(p)] = sender[Other(p)]
  BY <1>1 DEF ScreenInv, IInv, TypeOK
<1>3. \A x \in Peer : ScreenRecalls(sender'[x], raw'[x], made'[x])
  BY <1>1, <1>2 DEF ScreenInv
<1>4. DiffNamesItsStates' /\ FramesForward'
  BY DEF ScreenInv, DiffNamesItsStates, FramesForward
<1> QED  BY <1>3, <1>4 DEF ScreenInv

(* The steps that send nothing and receive nothing.                        *)
LEMMA ScreenQuietSteps ==
  ASSUME SyncStateType, ScreenLaws, ScreenInv, IInv', NEW p \in Peer,
         ChangeState(p) \/ Shutdown(p) \/ WaitTime(p) \/ TickIdle(p)
           \/ TickNothingToSend(p)
  PROVE  ScreenInv'
<1>1. /\ ScreenRecalls(sender[p], raw[p], made[p]) /\ IInv
      /\ sender \in [Peer -> TransportSenderType] /\ sender[p] \in TransportSenderType
      /\ raw \in [Peer -> State]
      /\ Other(p) \in Peer /\ Other(p) # p
  BY Peers DEF ScreenInv, IInv, TypeOK
<1>2. UNCHANGED <<received, net, made>>
  BY DEF ChangeState, Shutdown, WaitTime, TickIdle, TickNothingToSend
<1>3. Agreement'
  BY <1>2 DEF ScreenInv, Agreement, Straight
<1>4. CASE ChangeState(p)
  <2>1. PICK i \in Input : /\ sender' = [sender EXCEPT ![p].current = Do(@, i)]
                          /\ raw' = [raw EXCEPT ![p] = Do(@, i)]
    BY <1>4 DEF ChangeState
  <2> DEFINE t == [sender[p] EXCEPT !.current = Do(sender[p].current, i)]
  <2>2. sender' = [sender EXCEPT ![p] = t]
    BY <2>1
  <2>3. /\ raw'[p] = Do(raw[p], i) /\ raw'[Other(p)] = raw[Other(p)]
        /\ sender[p].current = raw[p]
    BY <1>1, <2>1 DEF ScreenRecalls
  <2>4. /\ t.current = Do(sender[p].current, i) /\ t.sent = sender[p].sent
        /\ t.shutdown_in_progress = sender[p].shutdown_in_progress
    BY <1>1 DEF TransportSenderType
  <2>5. ~sender[p].shutdown_in_progress
    BY <1>4 DEF ChangeState
  <2> HIDE DEF t
  <2>6. ScreenRecalls(t, raw'[p], made[p])
    BY <1>1, <2>3, <2>4, <2>5 DEF ScreenRecalls
  <2> QED  BY <1>2, <1>3, <2>2, <2>3, <2>6, ScreenQuietKeeps
<1>5. CASE Shutdown(p)
  <2> DEFINE t == StartShutdown(sender[p], now)
  <2>1. sender' = [sender EXCEPT ![p] = t] /\ raw' = raw
    BY <1>5 DEF Shutdown
  <2>2. /\ t.current = sender[p].current /\ t.sent = sender[p].sent
        /\ t.shutdown_in_progress
    BY <1>1, <1>5 DEF StartShutdown, Shutdown, TransportSenderType
  <2> HIDE DEF t
  <2>3. ScreenRecalls(t, raw'[p], made[p])
    BY <1>1, <2>1, <2>2 DEF ScreenRecalls
  <2> QED  BY <1>2, <1>3, <2>1, <2>3, ScreenQuietKeeps
<1>6. CASE WaitTime(p) \/ TickIdle(p)
  <2>1. PICK s \in Timers(p) : sender' = [sender EXCEPT ![p] = s]
    BY <1>6 DEF WaitTime, TickIdle
  <2>2. raw' = raw
    BY <1>6 DEF WaitTime, TickIdle
  <2>3. ScreenRecalls(s, raw'[p], made[p])
    BY <1>1, <2>2, ScreenTimersRecall
  <2> QED  BY <1>2, <1>3, <2>1, <2>2, <2>3, ScreenQuietKeeps
<1>7. CASE TickNothingToSend(p)
  <2>0. PICK s \in Timers(p) : \E base \in ResendChoices(s) :
          sender' = [sender EXCEPT ![p] = [s EXCEPT
            !.assumed = base, !.next_send_time = Never, !.mindelay_clock = NoClock]]
    BY <1>7 DEF TickNothingToSend
  <2>1. PICK base \in ResendChoices(s) :
          sender' = [sender EXCEPT ![p] = [s EXCEPT
            !.assumed = base, !.next_send_time = Never, !.mindelay_clock = NoClock]]
    BY <2>0
  <2> DEFINE t == [s EXCEPT !.assumed = base, !.next_send_time = Never,
                            !.mindelay_clock = NoClock]
  <2>2. raw' = raw
    BY <1>7 DEF TickNothingToSend
  <2>3. ScreenRecalls(s, raw'[p], made[p]) /\ s \in TransportSenderType
    BY <1>1, <2>2, ScreenTimersRecall, TimersStep
  <2>4. /\ t.current = s.current /\ t.sent = s.sent
        /\ t.shutdown_in_progress = s.shutdown_in_progress
    BY <2>3 DEF TransportSenderType
  <2>5. sender' = [sender EXCEPT ![p] = t]
    BY <2>1
  <2> HIDE DEF t
  <2>6. ScreenRecalls(t, raw'[p], made[p])
    BY <2>3, <2>4 DEF ScreenRecalls
  <2> QED  BY <1>2, <1>3, <2>2, <2>5, <2>6, ScreenQuietKeeps
<1> QED  BY <1>4, <1>5, <1>6, <1>7

(* A step that sends the difference between the current state and one the  *)
(* queue names.                                                            *)
LEMMA ScreenSendKeeps ==
  ASSUME ScreenInv, IInv', NEW p \in Peer, NEW s \in TransportSenderType, s.sent # <<>>,
         ScreenRecalls(s, raw[p], made[p]), s.assumed \in 1..Len(s.sent),
         NEW num, ScreenMaySend(s, num, raw[p], made[p]),
         NEW queued, Sends(s, queued, now, num),
         queued.sent[queued.assumed].num = s.sent[s.assumed].num,
         NEW t, Sends(s, t, now, num),
         sender' = [sender EXCEPT ![p] = t],
         Send(p, queued, num, DiffFrom(s.current, s.sent[s.assumed].state))
  PROVE  ScreenInv'
<1> DEFINE q == Other(p)
           x == ScreenExtended(made[p], num, raw[p])
           base == s.sent[s.assumed]
           diff == DiffFrom(s.current, base.state)
           m == Outgoing(queued, num, diff)
<1>1. q \in Peer /\ q # p /\ Other(q) = p /\ \A y \in Peer : y = p \/ y = q
  BY Peers
<1>2. /\ sender'[p] = t /\ sender'[q] = sender[q]
      /\ made'[p] = x /\ made'[q] = made[q]
      /\ net'[p] = net[p] \cup {m} /\ net'[q] = net[q]
      /\ raw' = raw /\ received' = received
  BY <1>1 DEF ScreenInv, IInv, TypeOK, Send, ScreenExtended
<1>3. ScreenRecalls(t, raw[p], x) /\ x[num] = raw[p]
  BY ScreenSendRecalls
<1>4. /\ num \in DOMAIN x /\ DOMAIN made[p] \subseteq DOMAIN x
      /\ \A n \in DOMAIN made[p] : x[n] = made[p][n]
  BY DEF ScreenExtended
<1> HIDE DEF x
<1>5. /\ m.old_num = base.num /\ m.new_num = num /\ m.diff = diff
  BY DEF Outgoing
<1>6. /\ base.num \in DOMAIN made[p] /\ base.state = made[p][base.num]
      /\ s.current = raw[p]
  BY DEF ScreenRecalls
<1> HIDE DEF m, base
<1>7. {m.old_num, m.new_num} \subseteq DOMAIN x /\ m.diff = DiffFrom(x[m.new_num], x[m.old_num])
  BY <1>3, <1>4, <1>5, <1>6
<1>8. DiffNamesItsStates'
  <2>1. \A i \in net[p] : /\ {i.old_num, i.new_num} \subseteq DOMAIN x
                          /\ i.diff = DiffFrom(x[i.new_num], x[i.old_num])
    BY <1>4 DEF ScreenInv, DiffNamesItsStates
  <2> QED  BY <1>1, <1>2, <1>7, <2>1 DEF ScreenInv, DiffNamesItsStates
<1>9. Agreement'
  <2>1. ASSUME NEW k, NoneAstray(net'[p], x, k)
        PROVE  Straight(p, k)
    <3>1. \A i \in net[p] : {i.old_num, i.new_num} \subseteq DOMAIN made[p]
      BY DEF ScreenInv, DiffNamesItsStates
    <3> QED  BY <1>2, <1>4, <2>1, <3>1 DEF Straight, NoneAstray
  <2>2. ASSUME NEW k, NoneAstray(net[q], made[q], k)
        PROVE  Straight(q, k)
    BY <2>2 DEF Straight, NoneAstray
  <2>3. ASSUME NEW i \in DOMAIN received[q]
        PROVE  /\ received[q][i].num \in DOMAIN x
               /\ NoneAstray(net'[p], x, received[q][i].num) =>
                    View(received[q][i].state) = View(x[received[q][i].num])
    <3>1. /\ received[q][i].num \in DOMAIN made[p]
          /\ Straight(p, received[q][i].num) =>
               View(received[q][i].state) = View(made[p][received[q][i].num])
      BY <1>1, <2>3 DEF ScreenInv, Agreement
    <3> QED  BY <1>4, <2>1, <3>1
  <2>4. ASSUME NEW i \in DOMAIN received[p]
        PROVE  /\ received[p][i].num \in DOMAIN made[q]
               /\ NoneAstray(net[q], made[q], received[p][i].num) =>
                    View(received[p][i].state) = View(made[q][received[p][i].num])
    <3>1. /\ received[p][i].num \in DOMAIN made[q]
          /\ Straight(q, received[p][i].num) =>
               View(received[p][i].state) = View(made[q][received[p][i].num])
      BY <1>1, <2>4 DEF ScreenInv, Agreement
    <3> QED  BY <2>2, <3>1
  <2>5. \A y \in Peer : \A i \in DOMAIN received'[y] :
          /\ received'[y][i].num \in DOMAIN made'[Other(y)]
          /\ NoneAstray(net'[Other(y)], made'[Other(y)], received'[y][i].num) =>
               View(received'[y][i].state) = View(made'[Other(y)][received'[y][i].num])
    BY <1>1, <1>2, <2>3, <2>4
  <2> QED  BY <2>5 DEF Agreement, Straight, NoneAstray
<1>10. \A y \in Peer : ScreenRecalls(sender'[y], raw'[y], made'[y])
  BY <1>1, <1>2, <1>3 DEF ScreenInv
<1>11. FramesForward'
  <2>1. base.num <= num
    <3>1. /\ base.num \in Nat /\ s.sent[Len(s.sent)].num \in Nat /\ num \in Nat
      <4>1. s.sent \in Seq(TimestampedState)  BY DEF TransportSenderType
      <4>2. base.num \in Nat  BY <4>1, EntryTypes DEF base
      <4>3. s.sent[Len(s.sent)].num \in Nat  BY <4>1, EntryTypes
      <4>4. num \in Nat  BY ConstantTypes DEF ScreenMaySend
      <4> QED  BY <4>2, <4>3, <4>4
    <3>2. base.num <= s.sent[Len(s.sent)].num /\ s.sent[Len(s.sent)].num <= num
      BY <1>6 DEF ScreenRecalls, ScreenMaySend
    <3> QED  BY <3>1, <3>2
  <2> QED  BY <1>1, <1>2, <1>5, <2>1 DEF ScreenInv, FramesForward
<1> QED  BY <1>8, <1>9, <1>10, <1>11 DEF ScreenInv

(* A state is sent.                                                        *)
LEMMA ScreenSendingKeeps ==
  ASSUME SyncStateType, ScreenLaws, ScreenInv, IInv', NEW p \in Peer,
         TickEmptyAck(p) \/ TickSend(p)
  PROVE  ScreenInv'
<1>0. now \in Nat /\ IInv /\ ScreenRecalls(sender[p], raw[p], made[p])
  BY PeerFacts DEF ScreenInv
<1>1. CASE TickEmptyAck(p)
  <2>1. PICK s \in Timers(p) : \E base \in ResendChoices(s) :
          LET num == EmptyAckNum(s)
              queued == AddSentState([s EXCEPT !.assumed = base], now, num)
          IN  /\ DiffFrom(s.current, s.sent[base].state) = NoDiff
              /\ num < SHUTDOWN_NUM \/ s.shutdown_in_progress
              /\ sender' = [sender EXCEPT ![p] = AfterSend(queued, num, now)]
              /\ Send(p, queued, num, NoDiff)
    BY <1>1 DEF TickEmptyAck
  <2>2. PICK base \in ResendChoices(s) :
          LET num == EmptyAckNum(s)
              queued == AddSentState([s EXCEPT !.assumed = base], now, num)
          IN  /\ DiffFrom(s.current, s.sent[base].state) = NoDiff
              /\ num < SHUTDOWN_NUM \/ s.shutdown_in_progress
              /\ sender' = [sender EXCEPT ![p] = AfterSend(queued, num, now)]
              /\ Send(p, queued, num, NoDiff)
    BY <2>1
  <2> DEFINE b == [s EXCEPT !.assumed = base]
             num == EmptyAckNum(s)
             queued == AddSentState(b, now, num)
             t == AfterSend(queued, num, now)
  <2>3. /\ b \in TransportSenderType
        /\ b.sent = s.sent /\ b.sent # <<>> /\ b.assumed \in {1, Len(b.sent)}
        /\ b.current = s.current /\ b.shutdown_in_progress = s.shutdown_in_progress
        /\ ScreenRecalls(b, raw[p], made[p]) /\ b.assumed = base /\ base \in 1..Len(s.sent)
    BY <1>0, BaseStep, ScreenBaseRecalls, ZenonT(30)
  <2>4. /\ num < SHUTDOWN_NUM \/ b.shutdown_in_progress
        /\ num = EmptyAckNum(b)
        /\ NoDiff = DiffFrom(b.current, b.sent[b.assumed].state)
        /\ sender' = [sender EXCEPT ![p] = t] /\ Send(p, queued, num, NoDiff)
    <3>1. num = EmptyAckNum(b)  BY <2>3 DEF EmptyAckNum, Back
    <3> QED  BY <2>2, <2>3, <3>1
  <2> HIDE DEF b, num
  <2>5. ScreenMaySend(b, num, raw[p], made[p])
    BY <2>3, <2>4, ScreenNumberChoices
  <2>6. num \in 0..SHUTDOWN_NUM
    BY <2>5 DEF ScreenMaySend
  <2>7. /\ Sends(b, queued, now, num)
        /\ queued.sent[queued.assumed] = b.sent[b.assumed]
    BY <1>0, <2>3, <2>6, AddSentStateSends
  <2> HIDE DEF queued
  <2>8. Sends(b, t, now, num)
    BY <1>0, <2>6, <2>7, AfterSendSends
  <2> HIDE DEF t
  <2> QED  BY <2>3, <2>4, <2>5, <2>7, <2>8, ScreenSendKeeps
<1>2. CASE TickSend(p)
  <2>1. PICK s \in Timers(p) : \E base \in ResendChoices(s) :
          LET diff == DiffFrom(s.current, s.sent[base].state)
              num == SendToReceiverNum(s)
              queued == QueueForReceiver([s EXCEPT !.assumed = base], now)
          IN  /\ num < SHUTDOWN_NUM \/ s.shutdown_in_progress
              /\ sender' = [sender EXCEPT ![p] =
                              AssumeDelivered(AfterSend(queued, num, now))]
              /\ Send(p, queued, num, diff)
    BY <1>2 DEF TickSend
  <2>2. PICK base \in ResendChoices(s) :
          LET diff == DiffFrom(s.current, s.sent[base].state)
              num == SendToReceiverNum(s)
              queued == QueueForReceiver([s EXCEPT !.assumed = base], now)
          IN  /\ num < SHUTDOWN_NUM \/ s.shutdown_in_progress
              /\ sender' = [sender EXCEPT ![p] =
                              AssumeDelivered(AfterSend(queued, num, now))]
              /\ Send(p, queued, num, diff)
    BY <2>1
  <2> DEFINE b == [s EXCEPT !.assumed = base]
             num == SendToReceiverNum(s)
             queued == QueueForReceiver(b, now)
             t == AssumeDelivered(AfterSend(queued, num, now))
  <2>3. /\ b \in TransportSenderType
        /\ b.sent = s.sent /\ b.sent # <<>> /\ b.assumed \in {1, Len(b.sent)}
        /\ b.current = s.current /\ b.shutdown_in_progress = s.shutdown_in_progress
        /\ ScreenRecalls(b, raw[p], made[p]) /\ b.assumed = base /\ base \in 1..Len(s.sent)
    BY <1>0, BaseStep, ScreenBaseRecalls, ZenonT(30)
  <2>4. /\ num < SHUTDOWN_NUM \/ b.shutdown_in_progress
        /\ num = SendToReceiverNum(b)
        /\ sender' = [sender EXCEPT ![p] = t]
        /\ Send(p, queued, num, DiffFrom(b.current, b.sent[b.assumed].state))
    <3>1. num = SendToReceiverNum(b)  BY <2>3 DEF SendToReceiverNum, Back
    <3> QED  BY <2>2, <2>3, <3>1
  <2> HIDE DEF b, num
  <2>5. ScreenMaySend(b, num, raw[p], made[p])
    BY <2>3, <2>4, ScreenNumberChoices
  <2>6. num \in 0..SHUTDOWN_NUM
    BY <2>5 DEF ScreenMaySend
  <2>7. /\ Sends(b, queued, now, num)
        /\ queued.sent[queued.assumed].num = b.sent[b.assumed].num
    BY <1>0, <2>3, <2>4, <2>6, QueueForReceiverSends
  <2> HIDE DEF queued
  <2>8. Sends(b, t, now, num)
    BY <1>0, <2>6, <2>7, AfterSendSends
  <2> HIDE DEF t
  <2> QED  BY <2>3, <2>4, <2>5, <2>7, <2>8, ScreenSendKeeps
<1> QED  BY <1>1, <1>2

(* What a queue q of states received from o shows.                         *)
Shows(q, o) ==
  \A i \in 1..Len(q) :
    /\ q[i].num \in DOMAIN made[o]
    /\ Straight(o, q[i].num) => View(q[i].state) = View(made[o][q[i].num])

(* An acknowledgement is processed, and a queue of received states         *)
(* replaced.                                                               *)
LEMMA ScreenReceiveKeeps ==
  ASSUME ScreenInv, IInv', NEW p \in Peer, NEW m \in net[Other(p)],
         NEW t, t.sent = Acking(p, m).sent, t.current = Acking(p, m).current,
         t.shutdown_in_progress = Acking(p, m).shutdown_in_progress,
         NEW r \in Seq(ReceivedState), Shows(r, Other(p)),
         sender' = [sender EXCEPT ![p] = t],
         received' = [received EXCEPT ![p] = r],
         UNCHANGED <<net, raw, made>>
  PROVE  ScreenInv'
<1> DEFINE q == Other(p)
           u == Acking(p, m)
<1>1. q \in Peer /\ q # p /\ Other(q) = p /\ \A y \in Peer : y = p \/ y = q
  BY Peers
<1>2. /\ sender[p] \in TransportSenderType /\ sender[p].sent # <<>>
      /\ Numbered(sender[p].sent) /\ m \in Instruction
  BY <1>1, PeerFacts DEF ScreenInv, QueueInOrder
<1>3. /\ \A i \in 1..Len(u.sent) :
           \E j \in 1..Len(sender[p].sent) : u.sent[i] = sender[p].sent[j]
      /\ u.sent[Len(u.sent)] = sender[p].sent[Len(sender[p].sent)]
      /\ u.current = sender[p].current
      /\ u.shutdown_in_progress = sender[p].shutdown_in_progress
  <2>1. m.ack_num \in 0..SHUTDOWN_NUM  BY <1>2 DEF Instruction
  <2> QED  BY <1>2, <2>1, AcknowledgmentProperties DEF Acking
<1> HIDE DEF u
<1>4. t.sent = u.sent /\ t.current = u.current /\ t.shutdown_in_progress = u.shutdown_in_progress
  BY DEF u
<1>5. ScreenRecalls(sender[p], raw[p], made[p])
  BY DEF ScreenInv
<1>6. ScreenRecalls(t, raw[p], made[p])
  <2>1. \A i \in 1..Len(t.sent) : /\ t.sent[i].num \in DOMAIN made[p]
                                  /\ t.sent[i].state = made[p][t.sent[i].num]
    <3> TAKE i \in 1..Len(t.sent)
    <3>1. PICK j \in 1..Len(sender[p].sent) : t.sent[i] = sender[p].sent[j]
      BY <1>3, <1>4
    <3> QED  BY <1>5, <3>1 DEF ScreenRecalls
  <2> QED  BY <1>3, <1>4, <1>5, <2>1 DEF ScreenRecalls
<1>7. /\ sender'[p] = t /\ sender'[q] = sender[q]
      /\ received'[p] = r /\ received'[q] = received[q]
  BY <1>1 DEF ScreenInv, IInv, TypeOK
<1>8. \A y \in Peer : ScreenRecalls(sender'[y], raw'[y], made'[y])
  BY <1>1, <1>6, <1>7 DEF ScreenInv
<1>9. Agreement'
  <2>1. DOMAIN r = 1..Len(r)  BY ReceivedTypes
  <2>2. \A i \in DOMAIN received[q] :
          /\ received[q][i].num \in DOMAIN made[p]
          /\ Straight(p, received[q][i].num) =>
               View(received[q][i].state) = View(made[p][received[q][i].num])
    BY <1>1 DEF ScreenInv, Agreement
  <2>3. \A i \in DOMAIN r :
          /\ r[i].num \in DOMAIN made[q]
          /\ Straight(q, r[i].num) => View(r[i].state) = View(made[q][r[i].num])
    BY <2>1 DEF Shows
  <2>4. \A y \in Peer : \A i \in DOMAIN received'[y] :
          /\ received'[y][i].num \in DOMAIN made[Other(y)]
          /\ NoneAstray(net[Other(y)], made[Other(y)], received'[y][i].num) =>
               View(received'[y][i].state) = View(made[Other(y)][received'[y][i].num])
    BY <1>1, <1>7, <2>2, <2>3 DEF Straight, NoneAstray
  <2> QED  BY <2>4 DEF Agreement, Straight, NoneAstray
<1>10. DiffNamesItsStates' /\ FramesForward'
  BY DEF ScreenInv, DiffNamesItsStates, FramesForward
<1> QED  BY <1>8, <1>9, <1>10 DEF ScreenInv

(* A datagram arrives, whatever it holds.                                  *)
LEMMA ScreenReceivingKeeps ==
  ASSUME SyncStateType, ScreenLaws, ScreenInv, IInv', NEW p \in Peer,
         ApplyOnlyAck(p) \/ ApplyQuenched(p) \/ ApplyNewState(p)
  PROVE  ScreenInv'
<1> DEFINE q == received[p]
           h == made[Other(p)]
<1>1. /\ sender[p] \in TransportSenderType /\ sender[p].sent # <<>>
      /\ Numbered(sender[p].sent)
      /\ q \in Seq(ReceivedState) /\ q # <<>> /\ Increasing(q)
      /\ DOMAIN q = 1..Len(q)
      /\ Other(p) \in Peer /\ Other(Other(p)) = p
  BY Peers, PeerFacts, ReceivedTypes DEF QueueInOrder, ScreenInv
<1>2. Shows(q, Other(p))
  BY <1>1 DEF ScreenInv, Agreement, Shows
<1>3. \A m \in net[Other(p)] :
        /\ m \in Instruction /\ m.throwaway_num \in Nat
        /\ m.new_num \in 0..SHUTDOWN_NUM /\ m.diff \in Diff
        /\ m.ack_num \in 0..SHUTDOWN_NUM
        /\ {m.old_num, m.new_num} \subseteq DOMAIN h
        /\ m.diff = DiffFrom(h[m.new_num], h[m.old_num])
  <2> TAKE m \in net[Other(p)]
  <2>1. m \in Instruction  BY <1>1, PeerFacts DEF ScreenInv
  <2>2. /\ {m.old_num, m.new_num} \subseteq DOMAIN h
        /\ m.diff = DiffFrom(h[m.new_num], h[m.old_num])
    BY <1>1 DEF ScreenInv, DiffNamesItsStates
  <2> QED  BY <2>1, <2>2, ConstantTypes DEF Instruction
<1>4. \A n \in DOMAIN h : h[n] \in State
  <2>1. h \in UNION {[nums -> State] : nums \in SUBSET (0..SHUTDOWN_NUM)}
    BY <1>1 DEF ScreenInv, IInv, TypeOK
  <2> QED  BY <2>1
<1>5. ASSUME NEW n \in Nat
      PROVE  /\ ProcessThrowawayUntil(q, n) \in Seq(ReceivedState)
             /\ ProcessThrowawayUntil(q, n) # <<>>
             /\ Increasing(ProcessThrowawayUntil(q, n))
             /\ Nums(ProcessThrowawayUntil(q, n)) \subseteq Nums(q)
             /\ Shows(ProcessThrowawayUntil(q, n), Other(p))
  <2> DEFINE r == ProcessThrowawayUntil(q, n)
  <2>1. /\ r \in Seq(ReceivedState) /\ r # <<>> /\ Increasing(r)
        /\ Nums(r) \subseteq Nums(q)
        /\ \A i \in 1..Len(r) : \E j \in 1..Len(q) : r[i] = q[j]
    BY <1>1, ThrowawayProperties
  <2> HIDE DEF r, q, h
  <2>2. Shows(r, Other(p))
    BY <1>2, <2>1 DEF Shows
  <2> QED  BY <2>1, <2>2 DEF r
<1>6. CASE ApplyOnlyAck(p)
  <2>1. PICK m \in net[Other(p)] : sender' = [sender EXCEPT ![p] = Acking(p, m)]
    BY <1>6 DEF ApplyOnlyAck
  <2>2. received' = [received EXCEPT ![p] = q] /\ UNCHANGED <<net, raw, made>>
    BY <1>6 DEF ApplyOnlyAck, Heard, ScreenInv, IInv, TypeOK
  <2> HIDE DEF q
  <2> QED  BY <1>1, <1>2, <2>1, <2>2, ScreenReceiveKeeps
<1>7. CASE ApplyQuenched(p)
  <2>1. PICK m \in net[Other(p)] :
          /\ sender' = [sender EXCEPT ![p] = Acking(p, m)]
          /\ received' = [received EXCEPT ![p] = ProcessThrowawayUntil(q, m.throwaway_num)]
    BY <1>7 DEF ApplyQuenched
  <2>2. UNCHANGED <<net, raw, made>>
    BY <1>7 DEF ApplyQuenched, Heard
  <2>3. /\ ProcessThrowawayUntil(q, m.throwaway_num) \in Seq(ReceivedState)
        /\ Shows(ProcessThrowawayUntil(q, m.throwaway_num), Other(p))
    BY <1>3, <1>5
  <2> QED  BY <2>1, <2>2, <2>3, ScreenReceiveKeeps
<1>8. CASE ApplyNewState(p)
  <2>1. PICK m \in net[Other(p)] :
          \E i \in References(q, m.old_num) :
          LET kept == ProcessThrowawayUntil(q, m.throwaway_num)
              from == q[i].state
              new == [num |-> m.new_num,
                      state |-> IF m.diff = NoDiff THEN from
                                ELSE ApplyString(from, m.diff)]
              queue == InsertByNum(kept, new)
          IN  /\ m.new_num \notin Nums(q)
              /\ received' = [received EXCEPT ![p] = queue]
              /\ sender' = [sender EXCEPT ![p] = [Acking(p, m) EXCEPT
                   !.pending_data_ack = @ \/ m.diff # NoDiff,
                   !.ack_num = queue[Len(queue)].num,
                   !.last_heard = now]]
    BY <1>8 DEF ApplyNewState
  <2> DEFINE kept == ProcessThrowawayUntil(q, m.throwaway_num)
             New(i) == [num |-> m.new_num,
                        state |-> IF m.diff = NoDiff THEN q[i].state
                                  ELSE ApplyString(q[i].state, m.diff)]
  <2>2. PICK i \in References(q, m.old_num) :
          /\ m.new_num \notin Nums(q)
          /\ received' = [received EXCEPT ![p] = InsertByNum(kept, New(i))]
          /\ sender' = [sender EXCEPT ![p] = [Acking(p, m) EXCEPT
               !.pending_data_ack = @ \/ m.diff # NoDiff,
               !.ack_num = InsertByNum(kept, New(i))[Len(InsertByNum(kept, New(i)))].num,
               !.last_heard = now]]
    BY <2>1
  <2>3. i \in 1..Len(q) /\ q[i].num = m.old_num
    BY <1>1 DEF References
  <2> DEFINE e == New(i)
             r == InsertByNum(kept, e)
             u == Acking(p, m)
             t == [u EXCEPT !.pending_data_ack = @ \/ m.diff # NoDiff,
                            !.ack_num = r[Len(r)].num, !.last_heard = now]
  <2>4. /\ kept \in Seq(ReceivedState) /\ kept # <<>> /\ Increasing(kept)
        /\ Nums(kept) \subseteq Nums(q) /\ Shows(kept, Other(p))
    BY <1>3, <1>5
  <2> HIDE DEF kept
  <2>5. /\ m.new_num \in DOMAIN h /\ m.old_num \in DOMAIN h
        /\ h[m.new_num] \in State /\ h[m.old_num] \in State
        /\ q[i].state \in State
        /\ Straight(Other(p), m.old_num) => View(q[i].state) = View(h[m.old_num])
        /\ m.diff = DiffFrom(h[m.new_num], h[m.old_num])
    <3>1. q[i].state \in State  BY <1>1, <2>3, ReceivedTypes
    <3> QED  BY <1>2, <1>3, <1>4, <2>3, <3>1 DEF Shows
  <2> HIDE DEF h
  <2>6. /\ e \in ReceivedState /\ e.num = m.new_num
        /\ e.state = IF m.diff = NoDiff THEN q[i].state ELSE ApplyString(q[i].state, m.diff)
    <3>1. ApplyString(q[i].state, m.diff) \in State
      BY <1>3, <2>5 DEF SyncStateType
    <3> QED  BY <1>3, <2>5, <3>1 DEF ReceivedState
  <2> HIDE DEF e, New
  <2>7. ASSUME Straight(Other(p), m.new_num) PROVE View(e.state) = View(h[m.new_num])
    <3>0. /\ ~LeadsAstray(h[m.new_num], h[m.old_num])
          /\ View(q[i].state) = View(h[m.old_num])
      BY <1>1, <2>5, <2>7, StraightBefore DEF h
    <3>1. CASE m.diff = NoDiff
      <4>1. View(h[m.new_num]) = View(h[m.old_num])
        BY <2>5, <3>0, <3>1 DEF ScreenLaws
      <4> QED  BY <2>6, <3>0, <3>1, <4>1
    <3>2. CASE m.diff # NoDiff
      <4>1. View(ApplyString(q[i].state, m.diff)) = View(h[m.new_num])
        BY <2>5, <3>0, <3>2 DEF ScreenLaws
      <4> QED  BY <2>6, <3>2, <4>1
    <3> QED  BY <3>1, <3>2
  <2>8. /\ r \in Seq(ReceivedState)
        /\ \A k \in 1..Len(r) : r[k] = e \/ \E j \in 1..Len(kept) : r[k] = kept[j]
    <3>1. e.num \notin Nums(kept)  BY <2>2, <2>4, <2>6
    <3> QED  BY <2>4, <2>6, <3>1, InsertByNumProperties
  <2>9. received' = [received EXCEPT ![p] = r] /\ sender' = [sender EXCEPT ![p] = t]
    BY <2>2 DEF e
  <2> HIDE DEF r
  <2>10. Shows(r, Other(p))
    <3> SUFFICES ASSUME NEW k \in 1..Len(r)
                 PROVE  /\ r[k].num \in DOMAIN h
                        /\ Straight(Other(p), r[k].num) =>
                             View(r[k].state) = View(h[r[k].num])
      BY DEF Shows, h
    <3>1. CASE r[k] = e
      BY <2>5, <2>6, <2>7, <3>1
    <3>2. CASE \E j \in 1..Len(kept) : r[k] = kept[j]
      BY <2>4, <3>2 DEF Shows, h
    <3> QED  BY <2>8, <3>1, <3>2
  <2>11. /\ t.sent = u.sent /\ t.current = u.current
         /\ t.shutdown_in_progress = u.shutdown_in_progress
    <3>1. u \in TransportSenderType
      BY <1>1, <1>3, AcknowledgmentProperties DEF Acking
    <3> HIDE DEF u
    <3> QED  BY <3>1 DEF TransportSenderType
  <2>12. UNCHANGED <<net, raw, made>>
    BY <1>8 DEF ApplyNewState, Heard
  <2> HIDE DEF t
  <2> QED  BY <2>8, <2>9, <2>10, <2>11, <2>12, ScreenReceiveKeeps DEF u
<1> QED  BY <1>6, <1>7, <1>8

(* The two sides agree at first.                                           *)
LEMMA InitiallyAgreed ==
  ASSUME SyncStateType, Init
  PROVE  ScreenInv
<1> DEFINE first == [timestamp |-> 0, num |-> 0, state |-> InitialState]
           base == [num |-> 0, state |-> InitialState]
<1>1. ASSUME NEW p \in Peer
      PROVE  /\ sender[p].sent = <<first>> /\ sender[p].current = InitialState
             /\ received[p] = <<base>> /\ net[p] = {} /\ raw[p] = InitialState
             /\ DOMAIN made[p] = {0} /\ made[p][0] = InitialState
  BY <1>1 DEF Init, NewSender
<1>2. /\ Len(<<first>>) = 1 /\ <<first>>[1] = first
      /\ DOMAIN <<base>> = {1} /\ <<base>>[1] = base
      /\ first.num = 0 /\ first.state = InitialState
      /\ base.num = 0 /\ base.state = InitialState
  OBVIOUS
<1> HIDE DEF first, base
<1>3. SHUTDOWN_NUM # 0 /\ 0 \in 0..SHUTDOWN_NUM
  BY SenderConstants
<1>4. ASSUME NEW p \in Peer PROVE ScreenRecalls(sender[p], raw[p], made[p])
  <2>1. /\ Len(sender[p].sent) = 1 /\ sender[p].sent[1].num = 0
        /\ sender[p].sent[1].state = InitialState
    BY <1>1, <1>2
  <2>2. SHUTDOWN_NUM \notin DOMAIN made[p]
    BY <1>1, <1>3
  <2>3. \A n \in DOMAIN made[p] : n = 0
    BY <1>1
  <2>4. \A i \in 1..1 : i = 1
    OBVIOUS
  <2> QED  BY <1>1, <1>3, <2>1, <2>2, <2>3, <2>4 DEF ScreenRecalls
<1>5. DiffNamesItsStates /\ FramesForward
  BY <1>1 DEF DiffNamesItsStates, FramesForward
<1>6. Agreement
  BY <1>1, <1>2, Peers DEF Agreement
<1> QED  BY <1>4, <1>5, <1>6, InitiallySound DEF ScreenInv

(* And after every step.                                                   *)
LEMMA AgreementStep ==
  ASSUME SyncStateType, ScreenLaws, ScreenInv, [Next]_vars
  PROVE  ScreenInv'
<1>1. IInv'
  BY NextStep DEF ScreenInv
<1>2. CASE Clock \/ UNCHANGED vars
  <2>1. UNCHANGED <<sender, received, net, raw, made>>
    BY <1>2 DEF Clock, vars
  <2> QED  BY <1>1, <2>1 DEF ScreenInv, DiffNamesItsStates, FramesForward, Agreement,
                Straight, ScreenRecalls
<1>3. ASSUME NEW p \in Peer, Owner(p) \/ Tick(p) \/ Recv(p)
      PROVE  ScreenInv'
  BY <1>1, <1>3, ScreenQuietSteps, ScreenSendingKeeps, ScreenReceivingKeeps DEF Owner, Tick, Recv
<1> QED  BY <1>2, <1>3 DEF Next

(* That agreement makes the final screen the one shown.                    *)
LEMMA FinalFollows == ScreenInv => FinalScreenDelivered
<1> SUFFICES ASSUME ScreenInv, NEW p \in Peer, ShutdownAcknowledged(sender[p])
             PROVE  LET q == received[Other(p)]
                    IN  /\ q[Len(q)].num = SHUTDOWN_NUM
                        /\ Straight(p, SHUTDOWN_NUM) =>
                             View(q[Len(q)].state) = View(raw[p])
  BY DEF FinalScreenDelivered
<1> DEFINE q == received[Other(p)]
<1>1. /\ Other(p) \in Peer /\ Other(Other(p)) = p
      /\ q \in Seq(ReceivedState) /\ q # <<>> /\ Increasing(q)
  BY Peers, PeerFacts DEF ScreenInv
<1>2. SHUTDOWN_NUM \in Nums(q)
  BY DEF ScreenInv, IInv, ReferenceHeld, ShutdownAcknowledged
<1>3. q[Len(q)].num = SHUTDOWN_NUM /\ Len(q) \in DOMAIN q
  BY <1>1, <1>2, ShutdownIsLast, ReceivedTypes
<1>4. /\ SHUTDOWN_NUM \in DOMAIN made[p]
      /\ Straight(p, SHUTDOWN_NUM) =>
           View(q[Len(q)].state) = View(made[p][SHUTDOWN_NUM])
  BY <1>1, <1>3 DEF ScreenInv, Agreement
<1>5. made[p][SHUTDOWN_NUM] = raw[p]
  BY <1>4 DEF ScreenInv, ScreenRecalls
<1> QED  BY <1>3, <1>4, <1>5

(***************************************************************************)
(* The theorems, of any screens and diffs that obey ScreenLaws, whatever   *)
(* the frames that lead astray do to a terminal.                           *)
(***************************************************************************)

(* A number names one screen, on both sides and under way: the invariant   *)
(* of the synchronised screens.                                            *)
THEOREM ScreenInvariance ==
  ASSUME SyncStateType, ScreenLaws
  PROVE  Spec => []ScreenInv
<1>1. Init => ScreenInv
  BY InitiallyAgreed
<1>2. ScreenInv /\ [Next]_vars => ScreenInv'
  BY AgreementStep
<1> QED  BY <1>1, <1>2, PTL DEF Spec

(* However the queue of sent states is thinned, acknowledged and resent    *)
(* from, an instruction carries the difference between the two screens it  *)
(* names: no diff is ever taken from one base and labelled with another.   *)
THEOREM DiffsNameTheirStates ==
  ASSUME SyncStateType, ScreenLaws
  PROVE  Spec => []DiffNamesItsStates
<1>1. ScreenInv => DiffNamesItsStates
  BY DEF ScreenInv
<1> QED  BY <1>1, ScreenInvariance, PTL

(* Every screen a peer holds, in whatever order datagrams arrive, is of a  *)
(* number its owner gave out, and shows what the owner's screen showed     *)
(* under it, unless a frame sent for a number up to it leads astray.       *)
THEOREM AlwaysAgree ==
  ASSUME SyncStateType, ScreenLaws
  PROVE  Spec => []Agreement
<1>1. ScreenInv => Agreement
  BY DEF ScreenInv
<1> QED  BY <1>1, ScreenInvariance, PTL

(* A session left because its shutdown was acknowledged has put the final  *)
(* screen in front of the peer, never the one before it.                   *)
THEOREM FinalAlwaysDelivered ==
  ASSUME SyncStateType, ScreenLaws
  PROVE  Spec => []FinalScreenDelivered
<1>1. ScreenInv => FinalScreenDelivered
  BY FinalFollows
<1> QED  BY <1>1, ScreenInvariance, PTL

(***************************************************************************)
(* Theorems about StreamSync, of a state that is the sequence of its       *)
(* events and for every value of the constants: the server reads what the  *)
(* client typed, in order and exactly once.                                *)
(*                                                                         *)
(* A stream only grows, so what a number stood for is a prefix of what any *)
(* later number stands for; History says so of the numbers a sender gave   *)
(* out.  Both ends trim consumed prefixes, each at its own pace: Trimmed   *)
(* and Holds say that all the states of one queue lack the same first      *)
(* events.  With that an instruction carries the events between the two    *)
(* numbers it names (CarriesNews), applying it to a state of the queue     *)
(* gives the new number's stream, cut like the rest, and what a reader     *)
(* takes is the part of the latest stream it had not handed on (Reads).    *)
(***************************************************************************)

(* Streams and their prefixes first.                                       *)

(* What is left of s once its first n events are gone.                     *)
Drop(s, n) == SubSeq(s, n + 1, Len(s))

(* b is a prefix of s, event by event.                                     *)
Before(b, s) == Len(b) <= Len(s) /\ \A i \in 1..Len(b) : b[i] = s[i]

(* A sequence without its first elements.                                  *)
LEMMA DropProperties ==
  ASSUME NEW S, NEW s \in Seq(S), NEW n \in 0..Len(s)
  PROVE  /\ Drop(s, n) \in Seq(S) /\ Len(Drop(s, n)) = Len(s) - n
         /\ \A i \in 1..(Len(s) - n) : Drop(s, n)[i] = s[n + i]
<1>1. /\ Len(s) \in Nat /\ n \in Nat /\ n + 1 \in Int
      /\ \A i \in (n + 1)..Len(s) : s[i] \in S
  OBVIOUS
<1>2. /\ SubSeq(s, n + 1, Len(s)) \in Seq(S)
      /\ Len(SubSeq(s, n + 1, Len(s)))
           = IF n + 1 <= Len(s) THEN Len(s) - (n + 1) + 1 ELSE 0
      /\ \A i \in 1..(Len(s) - (n + 1) + 1) :
           SubSeq(s, n + 1, Len(s))[i] = s[n + 1 + i - 1]
  BY <1>1, SubSeqProperties
<1> DEFINE d == SubSeq(s, n + 1, Len(s))
<1> HIDE DEF d
<1>3. /\ d \in Seq(S)
      /\ Len(d) = IF n + 1 <= Len(s) THEN Len(s) - (n + 1) + 1 ELSE 0
      /\ \A i \in 1..(Len(s) - (n + 1) + 1) : d[i] = s[n + 1 + i - 1]
  BY <1>2 DEF d
<1>4. Len(d) = Len(s) - n /\ \A i \in 1..(Len(s) - n) : d[i] = s[n + i]
  BY <1>1, <1>3
<1> QED  BY <1>3, <1>4 DEF Drop, d

(* Being a beginning of is an order.                                       *)
LEMMA BeforeOrder ==
  ASSUME NEW S, NEW a \in Seq(S), NEW b \in Seq(S), NEW c \in Seq(S)
  PROVE  /\ Before(a, a)
         /\ Before(a, b) /\ Before(b, c) => Before(a, c)
         /\ Before(a, b) /\ Len(a) = Len(b) => a = b
         /\ \A e \in S : Before(a, b) => Before(a, Append(b, e))
<1>1. Len(a) \in Nat /\ Len(b) \in Nat /\ Len(c) \in Nat
  OBVIOUS
<1>2. Before(a, a)
  BY <1>1 DEF Before
<1>3. Before(a, b) /\ Before(b, c) => Before(a, c)
  BY <1>1 DEF Before
<1>4. Before(a, b) /\ Len(a) = Len(b) => a = b
  BY SeqEqual DEF Before
<1>5. ASSUME NEW e \in S, Before(a, b) PROVE Before(a, Append(b, e))
  <2>1. /\ Len(Append(b, e)) = Len(b) + 1
        /\ \A i \in 1..Len(b) : Append(b, e)[i] = b[i]
    OBVIOUS
  <2> QED  BY <1>1, <1>5, <2>1 DEF Before
<1> QED  BY <1>2, <1>3, <1>4, <1>5

(* Two streams that share a prefix, less a part of that prefix.            *)
LEMMA DropOfDrop ==
  ASSUME NEW S, NEW b \in Seq(S), NEW s \in Seq(S), Before(b, s),
         NEW n \in 0..Len(b)
  PROVE  /\ Before(Drop(b, n), Drop(s, n))
         /\ Drop(Drop(s, n), Len(Drop(b, n))) = Drop(s, Len(b))
         /\ Drop(b, n) \o Drop(s, Len(b)) = Drop(s, n)
         /\ Drop(s, Len(b)) = <<>> => s = b
         /\ Drop(s, n) = Drop(b, n) => s = b
<1> DEFINE k == Len(b)
           l == Len(s)
           x == Drop(b, n)
           y == Drop(s, n)
           z == Drop(s, k)
           w == Drop(y, Len(x))
<1>1. /\ k \in Nat /\ l \in Nat /\ n \in Nat /\ n <= k /\ k <= l
      /\ \A i \in 1..k : b[i] = s[i]
  BY DEF Before
<1>2. n \in 0..l /\ k \in 0..l
  BY <1>1
<1>3. /\ x \in Seq(S) /\ Len(x) = k - n
      /\ \A i \in 1..(k - n) : x[i] = b[n + i]
  BY DropProperties
<1>4. /\ y \in Seq(S) /\ Len(y) = l - n
      /\ \A i \in 1..(l - n) : y[i] = s[n + i]
  BY <1>2, DropProperties
<1>5. /\ z \in Seq(S) /\ Len(z) = l - k
      /\ \A i \in 1..(l - k) : z[i] = s[k + i]
  BY <1>2, DropProperties
<1> HIDE DEF x, y, z
<1>6. Before(x, y)
  <2>1. \A i \in 1..(k - n) : n + i \in 1..k /\ i \in 1..(l - n)
    BY <1>1
  <2> QED  BY <1>1, <1>3, <1>4, <2>1 DEF Before
<1>7. w = z
  <2>1. Len(x) \in 0..Len(y)
    BY <1>1, <1>3, <1>4
  <2>2. /\ w \in Seq(S) /\ Len(w) = Len(y) - Len(x)
        /\ \A i \in 1..(Len(y) - Len(x)) : w[i] = y[Len(x) + i]
    BY <1>4, <2>1, DropProperties, ZenonT(30)
  <2> HIDE DEF w
  <2>3. Len(w) = l - k
    BY <1>1, <1>3, <1>4, <2>2
  <2>4. \A i \in 1..(l - k) : w[i] = z[i]
    <3> TAKE i \in 1..(l - k)
    <3>1. /\ i \in 1..(Len(y) - Len(x)) /\ Len(x) + i \in 1..(l - n)
          /\ n + (Len(x) + i) = k + i
      BY <1>1, <1>3, <1>4
    <3> QED  BY <1>4, <1>5, <2>2, <3>1
  <2> QED  BY <1>5, <2>2, <2>3, <2>4, SeqEqual
<1>8. x \o z = y
  <2> DEFINE c == x \o z
  <2>1. /\ c \in Seq(S) /\ Len(c) = Len(x) + Len(z)
        /\ \A i \in 1..(Len(x) + Len(z)) :
             c[i] = IF i <= Len(x) THEN x[i] ELSE z[i - Len(x)]
    BY <1>3, <1>5, ConcatProperties
  <2> HIDE DEF c
  <2>2. Len(c) = l - n
    BY <1>1, <1>3, <1>5, <2>1
  <2>3. \A i \in 1..(l - n) : c[i] = y[i]
    <3> TAKE i \in 1..(l - n)
    <3>1. i \in 1..(Len(x) + Len(z))
      BY <1>1, <1>3, <1>5
    <3>2. CASE i <= k - n
      <4>1. i \in 1..(k - n) /\ n + i \in 1..k /\ i <= Len(x)
        BY <1>1, <1>3, <3>2
      <4> QED  BY <1>1, <1>3, <1>4, <2>1, <3>1, <4>1
    <3>3. CASE ~(i <= k - n)
      <4>1. /\ i - Len(x) \in 1..(l - k) /\ ~(i <= Len(x))
            /\ k + (i - Len(x)) = n + i
        BY <1>1, <1>3, <3>3
      <4> QED  BY <1>4, <1>5, <2>1, <3>1, <4>1
    <3> QED  BY <3>2, <3>3
  <2> QED  BY <1>4, <2>1, <2>2, <2>3, SeqEqual DEF c
<1>9. z = <<>> => s = b
  <2>1. z = <<>> => l = k
    BY <1>1, <1>5
  <2> QED  BY <2>1, BeforeOrder
<1>10. y = x => s = b
  <2>1. y = x => l = k
    BY <1>1, <1>3, <1>4
  <2> QED  BY <2>1, BeforeOrder
<1> QED  BY <1>6, <1>7, <1>8, <1>9, <1>10 DEF x, y, z

(* A beginning and the rest are the whole.                                 *)
LEMMA RestCompletes ==
  ASSUME NEW S, NEW w \in Seq(S), NEW s \in Seq(S), Before(w, s)
  PROVE  w \o Drop(s, Len(w)) = s
<1>1. 0 \in 0..Len(w) /\ 0 + 1 = 1
  OBVIOUS
<1>2. Drop(w, 0) \o Drop(s, Len(w)) = Drop(s, 0)
  BY <1>1, DropOfDrop
<1>3. Drop(w, 0) = w /\ Drop(s, 0) = s
  BY <1>1, SubSeqFull DEF Drop
<1> QED  BY <1>2, <1>3

(* The rest grows as the whole does.                                       *)
LEMMA DropOfAppend ==
  ASSUME NEW S, NEW s \in Seq(S), NEW e \in S, NEW n \in 0..Len(s)
  PROVE  Append(Drop(s, n), e) = Drop(Append(s, e), n)
<1> DEFINE d == Drop(s, n)
           l == Append(s, e)
           x == Append(d, e)
           y == Drop(l, n)
<1>1. /\ d \in Seq(S) /\ Len(d) = Len(s) - n
      /\ \A i \in 1..(Len(s) - n) : d[i] = s[n + i]
  BY DropProperties
<1>2. /\ l \in Seq(S) /\ Len(l) = Len(s) + 1 /\ l[Len(s) + 1] = e
      /\ \A i \in 1..Len(s) : l[i] = s[i]
  OBVIOUS
<1> HIDE DEF d
<1>3. /\ x \in Seq(S) /\ Len(x) = Len(d) + 1 /\ x[Len(d) + 1] = e
      /\ \A i \in 1..Len(d) : x[i] = d[i]
  BY <1>1
<1> HIDE DEF l
<1>4. /\ y \in Seq(S) /\ Len(y) = Len(l) - n
      /\ \A i \in 1..(Len(l) - n) : y[i] = l[n + i]
  <2>1. n \in 0..Len(l)  BY <1>2
  <2> QED  BY <1>2, <2>1, DropProperties
<1> HIDE DEF x, y
<1>5. Len(s) \in Nat /\ n \in Nat /\ n <= Len(s)
  OBVIOUS
<1>6. \A i \in 1..Len(x) : x[i] = y[i]
  <2> TAKE i \in 1..Len(x)
  <2>1. i \in 1..(Len(l) - n)
    BY <1>1, <1>2, <1>3, <1>5
  <2>2. CASE i = Len(d) + 1
    <3>1. n + i = Len(s) + 1  BY <1>1, <1>5, <2>2
    <3> QED  BY <1>2, <1>3, <1>4, <2>1, <2>2, <3>1
  <2>3. CASE i # Len(d) + 1
    <3>1. i \in 1..Len(d) /\ n + i \in 1..Len(s)
      BY <1>1, <1>3, <1>5, <2>3
    <3> QED  BY <1>1, <1>2, <1>3, <1>4, <2>1, <3>1
  <2> QED  BY <2>2, <2>3
<1>7. Len(x) = Len(y)
  BY <1>1, <1>2, <1>3, <1>4, <1>5
<1> QED  BY <1>3, <1>4, <1>6, <1>7, SeqEqual DEF x, y, d, l

(* Two streams have a longest common prefix.                               *)
LEMMA LongestIsCommon ==
  ASSUME NEW S, NEW s \in Seq(S), NEW b \in Seq(S)
  PROVE  LET common == CommonPrefixes({s, b})
             longest == LongestCommonPrefix({s, b})
         IN  /\ longest \in common /\ longest \in Seq(S) /\ Len(longest) <= Len(s)
             /\ \A other \in common : Len(other) <= Len(longest)
<1> DEFINE common == CommonPrefixes({s, b})
           longest == LongestCommonPrefix({s, b})
           gaps == {Len(s) - Len(x) : x \in common}
           gap == CHOOSE d \in gaps : \A e \in gaps : d <= e
<1>1. Len(s) \in Nat /\ Len(b) \in Nat
  OBVIOUS
<1>2. ASSUME NEW x \in common
      PROVE  x \in Seq(S) /\ Len(x) \in Nat /\ Len(x) <= Len(s)
  <2>1. PICK y \in {s, b} : x \in Prefixes(y)
    BY DEF CommonPrefixes
  <2>2. PICK l \in 0..Len(y) : x = SubSeq(y, 1, l)
    BY <2>1 DEF Prefixes
  <2>3. l \in Int /\ 1 \in Int /\ \A i \in 1..l : y[i] \in S
    BY <2>1, <2>2
  <2>4. x \in Seq(S)
    BY <2>2, <2>3, SubSeqProperties
  <2>5. Len(x) <= Len(s)
    BY DEF CommonPrefixes, IsPrefix
  <2> QED  BY <2>4, <2>5
<1>3. <<>> \in common
  <2>1. \A y \in Seq(S) : SubSeq(y, 1, 0) = <<>> /\ 0 \in 0..Len(y)
    BY SubSeqEmpty
  <2>2. <<>> \in Prefixes(s) /\ IsPrefix(<<>>, s) /\ IsPrefix(<<>>, b)
    <3>1. Len(<<>>) = 0 /\ SubSeq(<<>>, 1, 0) = <<>>
      BY SubSeqEmpty
    <3> QED  BY <1>1, <2>1, <3>1 DEF Prefixes, IsPrefix
  <2> QED  BY <2>2 DEF CommonPrefixes
<1> HIDE DEF common
<1>4. gaps \in SUBSET Nat /\ gaps # {}
  BY <1>1, <1>2, <1>3
<1>5. gap \in gaps /\ \A e \in gaps : gap <= e
  BY <1>4, LeastNumber
<1>6. PICK x \in common : gap = Len(s) - Len(x)
  BY <1>5
<1>7. \A other \in common : Len(other) <= Len(x)
  <2> TAKE other \in common
  <2>1. Len(s) - Len(x) <= Len(s) - Len(other)
    BY <1>5, <1>6
  <2>2. Len(x) \in Nat /\ Len(other) \in Nat
    BY <1>2
  <2> HIDE DEF gap, gaps
  <2> QED  BY <1>1, <2>1, <2>2
<1>8. longest \in common /\ \A other \in common : Len(other) <= Len(longest)
  BY <1>7, Zenon DEF LongestCommonPrefix, common
<1> QED  BY <1>2, <1>8 DEF common

(* The two ways of saying prefix.                                          *)
LEMMA BeforeIsPrefix ==
  ASSUME NEW S, NEW b \in Seq(S), NEW s \in Seq(S), Before(b, s)
  PROVE  IsPrefix(b, s)
<1>0. Len(b) \in Nat /\ Len(s) \in Nat /\ Len(b) <= Len(s)
  BY DEF Before
<1>1. /\ \A i \in 1..Len(b) : b[i] \in S /\ s[i] \in S /\ b[i] = s[i]
      /\ Len(b) \in Int /\ 1 \in Int
  BY <1>0 DEF Before
<1>2. /\ SubSeq(b, 1, Len(b)) \in Seq(S) /\ SubSeq(s, 1, Len(b)) \in Seq(S)
      /\ Len(SubSeq(b, 1, Len(b))) = Len(SubSeq(s, 1, Len(b)))
      /\ \A i \in 1..(Len(b) - 1 + 1) : /\ SubSeq(b, 1, Len(b))[i] = b[1 + i - 1]
                                        /\ SubSeq(s, 1, Len(b))[i] = s[1 + i - 1]
      /\ Len(SubSeq(b, 1, Len(b))) = IF 1 <= Len(b) THEN Len(b) - 1 + 1 ELSE 0
  BY <1>1, SubSeqProperties
<1> DEFINE u == SubSeq(b, 1, Len(b))
           v == SubSeq(s, 1, Len(b))
<1> HIDE DEF u, v
<1>3. u \in Seq(S) /\ v \in Seq(S) /\ Len(u) = Len(v)
  BY <1>2 DEF u, v
<1>4. \A i \in 1..Len(u) : u[i] = v[i]
  <2>1. /\ Len(u) = IF 1 <= Len(b) THEN Len(b) - 1 + 1 ELSE 0
        /\ \A i \in 1..(Len(b) - 1 + 1) : u[i] = b[1 + i - 1] /\ v[i] = s[1 + i - 1]
    BY <1>2 DEF u, v
  <2>2. \A i \in 1..Len(u) : i \in 1..(Len(b) - 1 + 1) /\ 1 + i - 1 = i /\ i \in 1..Len(b)
    BY <1>0, <2>1
  <2> QED  BY <1>1, <2>1, <2>2
<1>5. u = v
  BY <1>3, <1>4, SeqEqual
<1> QED  BY <1>0, <1>5 DEF IsPrefix, u, v

(* subtract(): a common prefix is dropped whole.                           *)
LEMMA SubtractDropsPrefix ==
  ASSUME NEW S, NEW b \in Seq(S), NEW s \in Seq(S), Before(b, s)
  PROVE  StreamSubtract(s, b) = Drop(s, Len(b))
<1> DEFINE common == CommonPrefixes({s, b})
           longest == LongestCommonPrefix({s, b})
<1>1. Len(b) \in Nat /\ Len(s) \in Nat /\ Len(b) <= Len(s)
  BY DEF Before
<1>2. b \in common
  <2>1. b \in Prefixes(b)
    <3>1. Len(b) \in 0..Len(b) /\ SubSeq(b, 1, Len(b)) = b
      BY <1>1, SubSeqFull
    <3> QED  BY <3>1 DEF Prefixes
  <2>3. IsPrefix(b, s) /\ IsPrefix(b, b)
    BY BeforeIsPrefix, BeforeOrder
  <2> QED  BY <2>1, <2>3 DEF CommonPrefixes
<1>3. \A other \in common : Len(other) <= Len(b)
  BY DEF CommonPrefixes, IsPrefix
<1>4. longest \in common /\ \A other \in common : Len(other) <= Len(longest)
  BY LongestIsCommon
<1>5. Len(longest) = Len(b)
  <2>1. Len(longest) <= Len(b) /\ Len(b) <= Len(longest)
    BY <1>2, <1>3, <1>4
  <2> QED  BY <1>1, <2>1
<1> QED  BY <1>5 DEF StreamSubtract, Drop

(***************************************************************************)
(* The state is a stream: what user.rs and mosh-pipe give the transport.   *)
(***************************************************************************)
StreamLaws ==
  /\ State = Seq(Event) /\ Diff = Seq(Event) /\ Input = Event
  /\ NoDiff = <<>> /\ InitialState = <<>>
  /\ \A s \in State, e \in Input : Do(s, e) = StreamDo(s, e)
  /\ \A s, b \in State : /\ DiffFrom(s, b) = StreamDiffFrom(s, b)
                         /\ Subtract(s, b) = StreamSubtract(s, b)
  /\ \A s \in State, d \in Diff : ApplyString(s, d) = StreamApply(s, d)

(* A stream of events is a state the transport can carry.                  *)
LEMMA StreamTypes == StreamLaws => SyncStateType
<1> SUFFICES ASSUME StreamLaws PROVE SyncStateType
  OBVIOUS
<1>1. <<>> \in Seq(Event)
  OBVIOUS
<1>2. \A s \in Seq(Event), e \in Event : StreamDo(s, e) \in Seq(Event)
  BY DEF StreamDo
<1>3. ASSUME NEW s \in Seq(Event), NEW k \in Nat
      PROVE  SubSeq(s, k + 1, Len(s)) \in Seq(Event)
  <2>1. /\ k + 1 \in Int /\ Len(s) \in Int
        /\ \A i \in (k + 1)..Len(s) : s[i] \in Event
    OBVIOUS
  <2> QED  BY <2>1, SubSeqProperties
<1>4. \A s, b \in Seq(Event) : /\ StreamDiffFrom(s, b) \in Seq(Event)
                               /\ StreamSubtract(s, b) \in Seq(Event)
  <2> TAKE s, b \in Seq(Event)
  <2>1. Len(b) \in Nat /\ Len(LongestCommonPrefix({s, b})) \in Nat
    BY LongestIsCommon
  <2> QED  BY <1>3, <2>1 DEF StreamDiffFrom, StreamSubtract
<1>5. \A s, d \in Seq(Event) : StreamApply(s, d) \in Seq(Event)
  BY DEF StreamApply
<1> QED  BY <1>1, <1>2, <1>4, <1>5 DEF StreamLaws, SyncStateType

(* The two operators that look at a pair of states, of streams that share  *)
(* a prefix of which n events are gone from both.                          *)
LEMMA PrefixLaws ==
  ASSUME StreamLaws, NEW b \in Seq(Event), NEW s \in Seq(Event), Before(b, s),
         NEW n \in 0..Len(b)
  PROVE  /\ Drop(b, n) \in State /\ Drop(s, n) \in State
         /\ DiffFrom(Drop(s, n), Drop(b, n)) = Drop(s, Len(b))
         /\ Subtract(Drop(s, n), Drop(b, n)) = Drop(s, Len(b))
<1>1. n \in 0..Len(s)
  BY DEF Before
<1>2. Drop(b, n) \in Seq(Event) /\ Drop(s, n) \in Seq(Event)
  BY <1>1, DropProperties
<1>3. /\ Before(Drop(b, n), Drop(s, n))
      /\ Drop(Drop(s, n), Len(Drop(b, n))) = Drop(s, Len(b))
  BY DropOfDrop
<1>4. StreamSubtract(Drop(s, n), Drop(b, n)) = Drop(s, Len(b))
  BY <1>2, <1>3, SubtractDropsPrefix
<1>5. StreamDiffFrom(Drop(s, n), Drop(b, n)) = Drop(s, Len(b))
  BY <1>3 DEF StreamDiffFrom, Drop
<1> QED  BY <1>2, <1>4, <1>5 DEF StreamLaws

(***************************************************************************)
(* What a sender's numbers stand for.                                      *)
(***************************************************************************)

(* m maps every number s has given out to its owner's stream at the time,  *)
(* which only ever grew to r.                                              *)
History(s, r, m) ==
  /\ r \in Seq(Event)
  /\ \A n \in DOMAIN m : /\ m[n] \in Seq(Event) /\ Before(m[n], r)
                         /\ n \in 0..SHUTDOWN_NUM /\ n <= s.sent[Len(s.sent)].num
  /\ \A n, k \in DOMAIN m : n <= k => Before(m[n], m[k])
  /\ SHUTDOWN_NUM \in DOMAIN m => s.shutdown_in_progress /\ m[SHUTDOWN_NUM] = r

(* The states of s are those streams, the first c events gone from each.   *)
Trimmed(s, r, m, c) ==
  /\ s.current = Drop(r, c) /\ c \in 0..Len(r)
  /\ \A i \in 1..Len(s.sent) :
       /\ s.sent[i].num \in DOMAIN m /\ c \in 0..Len(m[s.sent[i].num])
       /\ s.sent[i].state = Drop(m[s.sent[i].num], c)

StreamRecalls(s, r, m) == History(s, r, m) /\ \E c \in Nat : Trimmed(s, r, m, c)

(* rationalize_states moves the cut to the end of the acknowledged state.  *)
LEMMA StreamTimersRecall ==
  ASSUME StreamLaws, IInv, NEW p \in Peer, NEW s \in Timers(p),
         NEW r, NEW m, StreamRecalls(sender[p], r, m)
  PROVE  StreamRecalls(s, r, m)
<1> DEFINE f == sender[p]
           known == m[f.sent[1].num]
<1>1. PICK interval \in SendIntervals, timeout \in Timeouts :
        s = CalculateTimers(f, now, interval, timeout)
  BY DEF Timers
<1>2. interval \in Nat /\ timeout \in Nat
  BY TransportConstants
<1>3. /\ f \in TransportSenderType /\ f.sent # <<>>
      /\ f.sent \in Seq(TimestampedState) /\ now \in Nat /\ Numbered(f.sent)
  BY PeerFacts DEF QueueInOrder
<1>4. /\ SameQueue(f, s) /\ Tidied(f, s)
      /\ s.shutdown_in_progress = f.shutdown_in_progress
  BY <1>1, <1>2, <1>3, StreamTypes, TimersKeepQueue
<1> HIDE DEF f
<1>5. /\ Len(f.sent) \in 1..Len(f.sent) /\ 1 \in 1..Len(f.sent)
      /\ Len(f.sent) \in Nat /\ \A i \in 1..Len(f.sent) : f.sent[i].num \in Nat
  BY <1>3, EntryTypes
<1>6. PICK c \in Nat : Trimmed(f, r, m, c)
  BY DEF StreamRecalls, f
<1>7. History(f, r, m)
  BY DEF StreamRecalls, f
<1>8. History(s, r, m)
  BY <1>4, <1>5, <1>7 DEF History, SameQueue
<1>9. /\ known \in Seq(Event) /\ Before(known, r) /\ r \in Seq(Event)
      /\ c \in 0..Len(known) /\ Acked(f).state = Drop(known, c)
  BY <1>5, <1>6, <1>7 DEF Trimmed, History, Acked
<1>10. s.current = Drop(r, Len(known)) /\ Len(known) \in 0..Len(r)
  <2>1. Subtract(Drop(r, c), Drop(known, c)) = Drop(r, Len(known))
    BY <1>9, PrefixLaws
  <2> QED  BY <1>4, <1>6, <1>9, <2>1 DEF Tidied, Trimmed, Before
<1>11. ASSUME NEW i \in 1..Len(f.sent)
       PROVE  /\ s.sent[i].num \in DOMAIN m /\ Len(known) \in 0..Len(m[s.sent[i].num])
              /\ s.sent[i].state = Drop(m[s.sent[i].num], Len(known))
  <2> DEFINE n == f.sent[i].num
  <2>1. n \in DOMAIN m /\ f.sent[i].state = Drop(m[n], c) /\ f.sent[1].num \in DOMAIN m
    BY <1>5, <1>6 DEF Trimmed
  <2>2. f.sent[1].num <= n
    <3>1. i = 1 \/ 1 < i  BY <1>5
    <3> QED  BY <1>3, <1>5, <3>1 DEF Numbered
  <2>3. s.sent[i].num = n
    BY <1>4 DEF SameQueue
  <2> HIDE DEF n
  <2>4. m[n] \in Seq(Event) /\ Before(known, m[n])
    BY <1>7, <2>1, <2>2 DEF History
  <2> HIDE DEF known
  <2>5. Subtract(Drop(m[n], c), Drop(known, c)) = Drop(m[n], Len(known))
    BY <1>9, <2>4, PrefixLaws
  <2>6. Len(known) \in 0..Len(m[n])
    BY <1>9, <2>4 DEF Before
  <2>7. s.sent[i].state = Subtract(f.sent[i].state, Acked(f).state)
    BY <1>4 DEF Tidied
  <2> QED  BY <1>9, <2>1, <2>3, <2>5, <2>6, <2>7
<1> HIDE DEF known
<1>12. Trimmed(s, r, m, Len(known))
  BY <1>4, <1>10, <1>11 DEF Trimmed, SameQueue
<1>13. Len(known) \in Nat
  BY <1>9
<1> QED  BY <1>8, <1>12, <1>13 DEF StreamRecalls

(* Another base for the next diff changes nothing that is remembered.      *)
LEMMA StreamBaseRecalls ==
  ASSUME StreamLaws, IInv, NEW p \in Peer, NEW s \in Timers(p),
         NEW base \in ResendChoices(s),
         NEW r, NEW m, StreamRecalls(sender[p], r, m)
  PROVE  LET b == [s EXCEPT !.assumed = base]
         IN  /\ StreamRecalls(b, r, m)
             /\ b.assumed = base /\ base \in 1..Len(s.sent)
<1>1. /\ s \in TransportSenderType /\ s.assumed \in {1, Len(s.sent)}
      /\ Len(s.sent) \in 1..Len(s.sent) /\ s.sent \in Seq(TimestampedState)
  BY StreamTypes, TimersStep
<1>2. base \in 1..Len(s.sent)
  <2>1. base \in {1, s.assumed}  BY DEF ResendChoices
  <2> QED  BY <1>1, <2>1, EntryTypes
<1>3. StreamRecalls(s, r, m)
  BY StreamTimersRecall
<1> DEFINE b == [s EXCEPT !.assumed = base]
<1>4. /\ b.sent = s.sent /\ b.current = s.current /\ b.assumed = base
      /\ b.shutdown_in_progress = s.shutdown_in_progress
  BY <1>1 DEF TransportSenderType
<1> HIDE DEF b
<1>5. StreamRecalls(b, r, m)
  BY <1>3, <1>4 DEF StreamRecalls, History, Trimmed
<1> QED  BY <1>2, <1>4, <1>5 DEF b

(* The history, once num stands for r unless it stood for something.       *)
StreamExtended(m, num, r) ==
  [n \in DOMAIN m \cup {num} |-> IF n \in DOMAIN m THEN m[n] ELSE r]

(* A number may go out as long as it is not behind the queue, an old one   *)
(* only for the current state, and the shutdown number only once the state *)
(* is frozen.                                                              *)
StreamMaySend(s, num, r, m) ==
  /\ num \in 0..SHUTDOWN_NUM /\ s.sent[Len(s.sent)].num <= num
  /\ num \in DOMAIN m => m[num] = r
  /\ num = SHUTDOWN_NUM => s.shutdown_in_progress

(* The numbers a sender may give to what it sends.                         *)
LEMMA StreamNumberChoices ==
  ASSUME NEW s \in TransportSenderType, s.sent # <<>>, NEW r, NEW m,
         StreamRecalls(s, r, m), NEW num \in {EmptyAckNum(s), SendToReceiverNum(s)},
         num < SHUTDOWN_NUM \/ s.shutdown_in_progress
  PROVE  StreamMaySend(s, num, r, m)
<1> DEFINE back == s.sent[Len(s.sent)]
<1>1. /\ s.sent \in Seq(TimestampedState) /\ Len(s.sent) \in 1..Len(s.sent)
      /\ back.num \in 0..SHUTDOWN_NUM /\ back.num \in Nat /\ SHUTDOWN_NUM \in Nat
  <2>1. s.sent \in Seq(TimestampedState)  BY DEF TransportSenderType
  <2> QED  BY <2>1, EntryTypes, ConstantTypes
<1>2. Back(s) = back
  BY DEF Back
<1>3. PICK c \in Nat : Trimmed(s, r, m, c)
  BY DEF StreamRecalls
<1>4. /\ s.current = Drop(r, c) /\ back.num \in DOMAIN m
      /\ back.state = Drop(m[back.num], c) /\ c \in 0..Len(m[back.num])
  BY <1>1, <1>3 DEF Trimmed
<1>5. /\ r \in Seq(Event) /\ m[back.num] \in Seq(Event) /\ Before(m[back.num], r)
      /\ \A n \in DOMAIN m : n <= back.num
      /\ SHUTDOWN_NUM \in DOMAIN m => m[SHUTDOWN_NUM] = r
  BY <1>4 DEF StreamRecalls, History
<1>6. s.current = back.state => m[back.num] = r
  <2> DEFINE b == m[back.num]
  <2>1. b \in Seq(Event) /\ r \in Seq(Event) /\ Before(b, r) /\ c \in 0..Len(b)
    BY <1>4, <1>5
  <2> HIDE DEF b, back
  <2>2. Drop(r, c) = Drop(b, c) => r = b
    BY <2>1, DropOfDrop
  <2> QED  BY <1>4, <2>2 DEF b
<1> HIDE DEF back
<1>7. CASE s.shutdown_in_progress
  <2>1. num = SHUTDOWN_NUM
    BY <1>7 DEF EmptyAckNum, SendToReceiverNum
  <2> QED  BY <1>1, <1>5, <1>7, <2>1 DEF StreamMaySend, back
<1>8. CASE ~s.shutdown_in_progress
  <2>1. num < SHUTDOWN_NUM
    BY <1>8
  <2>2. num = back.num + 1 \/ (num = back.num /\ s.current = back.state)
    BY <1>2, <1>8 DEF EmptyAckNum, SendToReceiverNum
  <2>3. num \in 0..SHUTDOWN_NUM /\ back.num <= num /\ num # SHUTDOWN_NUM
    BY <1>1, <2>1, <2>2
  <2>4. num \in DOMAIN m => m[num] = r
    <3>1. CASE num = back.num + 1
      <4>1. ~(num <= back.num)  BY <1>1, <3>1
      <4> QED  BY <1>5, <4>1
    <3>2. CASE num = back.num /\ s.current = back.state
      BY <1>6, <3>2
    <3> QED  BY <2>2, <3>1, <3>2
  <2> QED  BY <2>3, <2>4 DEF StreamMaySend, back
<1> QED  BY <1>7, <1>8

(* What is sent is added to the history.                                   *)
LEMMA StreamSendRecalls ==
  ASSUME NEW s \in TransportSenderType, s.sent # <<>>, NEW r, NEW m,
         StreamRecalls(s, r, m), NEW num, StreamMaySend(s, num, r, m),
         NEW t, NEW clock, Sends(s, t, clock, num)
  PROVE  StreamRecalls(t, r, StreamExtended(m, num, r))
<1> DEFINE x == StreamExtended(m, num, r)
           back == s.sent[Len(s.sent)]
<1>1. /\ DOMAIN x = DOMAIN m \cup {num}
      /\ x[num] = r
      /\ \A n \in DOMAIN m : x[n] = m[n]
  BY DEF StreamExtended, StreamMaySend
<1> HIDE DEF x
<1>2. /\ back.num \in Nat /\ num \in Nat /\ back.num <= num
      /\ SHUTDOWN_NUM \in Nat /\ num \in 0..SHUTDOWN_NUM
  <2>1. s.sent \in Seq(TimestampedState)  BY DEF TransportSenderType
  <2> QED  BY <2>1, EntryTypes, ConstantTypes DEF StreamMaySend
<1>3. t.current = s.current /\ t.shutdown_in_progress = s.shutdown_in_progress
  BY DEF Sends
<1>4. /\ r \in Seq(Event) /\ Before(r, r)
      /\ \A n \in DOMAIN m : /\ m[n] \in Seq(Event) /\ Before(m[n], r)
                             /\ n \in 0..SHUTDOWN_NUM /\ n \in Nat
                             /\ n <= back.num /\ n <= num
      /\ \A n, k \in DOMAIN m : n <= k => Before(m[n], m[k])
  <2>1. /\ r \in Seq(Event)
        /\ \A n \in DOMAIN m : /\ m[n] \in Seq(Event) /\ Before(m[n], r)
                               /\ n \in 0..SHUTDOWN_NUM /\ n <= back.num
        /\ \A n, k \in DOMAIN m : n <= k => Before(m[n], m[k])
    BY DEF StreamRecalls, History
  <2>2. Before(r, r)
    BY <2>1, BeforeOrder
  <2> HIDE DEF back
  <2> QED  BY <1>2, <2>1, <2>2
<1> HIDE DEF back
<1>5. PICK c \in Nat : Trimmed(s, r, m, c)
  BY DEF StreamRecalls
<1>6. Trimmed(t, r, x, c)
  <2>1. ASSUME NEW i \in 1..Len(t.sent)
        PROVE  /\ t.sent[i].num \in DOMAIN x /\ c \in 0..Len(x[t.sent[i].num])
               /\ t.sent[i].state = Drop(x[t.sent[i].num], c)
    <3>1. CASE t.sent[i].num = num /\ t.sent[i].state = s.current
      BY <1>1, <1>5, <3>1 DEF Trimmed
    <3>2. CASE \E j \in 1..Len(s.sent) : /\ t.sent[i].num = s.sent[j].num
                                         /\ t.sent[i].state = s.sent[j].state
      BY <1>1, <1>5, <3>2 DEF Trimmed
    <3> QED  BY <3>1, <3>2 DEF Sends
  <2> QED  BY <1>3, <1>5, <2>1 DEF Trimmed
<1>7. \A n \in DOMAIN x : /\ x[n] \in Seq(Event) /\ Before(x[n], r)
                          /\ n \in 0..SHUTDOWN_NUM /\ n <= t.sent[Len(t.sent)].num
  <2>1. t.sent[Len(t.sent)].num = num  BY DEF Sends
  <2> QED  BY <1>1, <1>2, <1>4, <2>1
<1>8. ASSUME NEW n \in DOMAIN x, NEW k \in DOMAIN x, n <= k
      PROVE  Before(x[n], x[k])
  <2>1. CASE k = num
    BY <1>1, <1>7, <2>1
  <2>2. CASE k # num /\ n # num
    BY <1>1, <1>4, <1>8, <2>2
  <2>3. CASE k # num /\ n = num
    <3>1. k \in DOMAIN m /\ k <= num /\ k \in Nat
      BY <1>1, <1>4, <2>3
    <3>2. k = num
      BY <1>2, <1>8, <2>3, <3>1
    <3> QED  BY <2>3, <3>2
  <2> QED  BY <2>1, <2>2, <2>3
<1>9. SHUTDOWN_NUM \in DOMAIN x => t.shutdown_in_progress /\ x[SHUTDOWN_NUM] = r
  <2>1. CASE SHUTDOWN_NUM = num
    BY <1>1, <1>3, <2>1 DEF StreamMaySend
  <2>2. CASE SHUTDOWN_NUM # num
    BY <1>1, <1>3, <2>2 DEF StreamRecalls, History
  <2> QED  BY <2>1, <2>2
<1>10. History(t, r, x)
  BY <1>4, <1>7, <1>8, <1>9 DEF History
<1> QED  BY <1>6, <1>10 DEF StreamRecalls, x

(* A diff from an entry of the queue is the part of the stream its number  *)
(* did not stand for yet, however much of both is gone.                    *)
LEMMA DiffIsNews ==
  ASSUME StreamLaws, NEW s, NEW r, NEW m, StreamRecalls(s, r, m), NEW i \in 1..Len(s.sent)
  PROVE  /\ s.sent[i].num \in DOMAIN m
         /\ DiffFrom(s.current, s.sent[i].state) = Drop(r, Len(m[s.sent[i].num]))
<1>1. PICK c \in Nat : Trimmed(s, r, m, c)
  BY DEF StreamRecalls
<1> DEFINE n == s.sent[i].num
<1>2. /\ n \in DOMAIN m /\ c \in 0..Len(m[n]) /\ s.sent[i].state = Drop(m[n], c)
      /\ s.current = Drop(r, c)
  BY <1>1 DEF Trimmed
<1> HIDE DEF n
<1>3. r \in Seq(Event) /\ m[n] \in Seq(Event) /\ Before(m[n], r)
  BY <1>2 DEF StreamRecalls, History
<1>4. DiffFrom(Drop(r, c), Drop(m[n], c)) = Drop(r, Len(m[n]))
  BY <1>2, <1>3, PrefixLaws
<1> QED  BY <1>2, <1>4 DEF n

(***************************************************************************)
(* What a receiver holds, of a peer whose history is h.                    *)
(***************************************************************************)

(* The states of q are the peer's streams, the first `gone` events gone.   *)
Holds(q, h, gone) ==
  \A i \in 1..Len(q) : /\ q[i].num \in DOMAIN h /\ gone \in 0..Len(h[q[i].num])
                       /\ q[i].state = Drop(h[q[i].num], gone)

(* w, what the reader handed on, begins the latest of them; the state it   *)
(* remembers reading lacks the same events.                                *)
Reads(q, h, w, last) ==
  /\ w \in Seq(Event) /\ Before(w, h[q[Len(q)].num])
  /\ \E gone \in 0..Len(w) : Holds(q, h, gone) /\ last = Drop(w, gone)

(* An instruction carries the part of the stream its base lacks.           *)
CarriesNews ==
  \A p \in Peer : \A m \in net[p] :
    /\ {m.old_num, m.new_num} \subseteq DOMAIN made[p] /\ m.old_num <= m.new_num
    /\ m.diff = Drop(made[p][m.new_num], Len(made[p][m.old_num]))

StreamInv ==
  /\ IInv /\ CarriesNews
  /\ lastRemote \in [Peer -> Seq(Event)] /\ written \in [Peer -> Seq(Event)]
  /\ \A p \in Peer : StreamRecalls(sender[p], raw[p], made[p])
  /\ \A p \in Peer : Reads(received[p], made[Other(p)], written[p], lastRemote[p])

(***************************************************************************)
(* The steps.                                                              *)
(***************************************************************************)

(* A step that gives out no number and sends nothing.                      *)
LEMMA StreamQuietKeeps ==
  ASSUME StreamInv, NEW p \in Peer, NEW t,
         sender' = [sender EXCEPT ![p] = t],
         StreamRecalls(t, raw'[p], made[p]),
         raw'[Other(p)] = raw[Other(p)],
         UNCHANGED <<net, made, received, lastRemote, written>>, IInv'
  PROVE  StreamInv'
<1>1. Other(p) \in Peer /\ Other(p) # p /\ \A x \in Peer : x = p \/ x = Other(p)
  BY Peers
<1>2. sender'[p] = t /\ sender'[Other(p)] = sender[Other(p)]
  BY <1>1 DEF StreamInv, IInv, TypeOK
<1>3. \A x \in Peer : StreamRecalls(sender'[x], raw'[x], made'[x])
  BY <1>1, <1>2 DEF StreamInv
<1>4. CarriesNews'
  BY DEF StreamInv, CarriesNews
<1> QED  BY <1>3, <1>4 DEF StreamInv

(* The steps that send nothing, receive nothing and read nothing.          *)
LEMMA StreamQuietSteps ==
  ASSUME StreamLaws, StreamInv, IInv', NEW p \in Peer, UNCHANGED <<lastRemote, written>>,
         ChangeState(p) \/ Shutdown(p) \/ WaitTime(p) \/ TickIdle(p)
           \/ TickNothingToSend(p)
  PROVE  StreamInv'
<1>1. /\ StreamRecalls(sender[p], raw[p], made[p]) /\ IInv
      /\ sender \in [Peer -> TransportSenderType] /\ sender[p] \in TransportSenderType
      /\ raw \in [Peer -> State] /\ raw[p] \in Seq(Event)
      /\ Other(p) \in Peer /\ Other(p) # p
  BY Peers DEF StreamInv, IInv, TypeOK, StreamLaws
<1>2. UNCHANGED <<received, net, made, lastRemote, written>>
  BY DEF ChangeState, Shutdown, WaitTime, TickIdle, TickNothingToSend
<1>4. CASE ChangeState(p)
  <2>1. PICK e \in Input : /\ sender' = [sender EXCEPT ![p].current = Do(@, e)]
                           /\ raw' = [raw EXCEPT ![p] = Do(@, e)]
    BY <1>4 DEF ChangeState
  <2> DEFINE t == [sender[p] EXCEPT !.current = Do(sender[p].current, e)]
             r == Append(raw[p], e)
  <2>2. sender' = [sender EXCEPT ![p] = t]
    BY <2>1
  <2>0. e \in Event /\ sender[p].current \in Seq(Event)
    BY <1>1 DEF StreamLaws, TransportSenderType
  <2>3. /\ raw'[p] = r /\ raw'[Other(p)] = raw[Other(p)]
    <3>1. raw'[p] = Do(raw[p], e) /\ raw'[Other(p)] = raw[Other(p)]
      BY <1>1, <2>1
    <3> QED  BY <1>1, <2>0, <3>1 DEF StreamLaws, StreamDo
  <2>4. /\ t.current = Append(sender[p].current, e) /\ t.sent = sender[p].sent
        /\ t.shutdown_in_progress = sender[p].shutdown_in_progress
    <3>1. Do(sender[p].current, e) = Append(sender[p].current, e)
      BY <2>0 DEF StreamLaws, StreamDo
    <3> QED  BY <1>1, <3>1 DEF TransportSenderType
  <2>5. ~sender[p].shutdown_in_progress
    BY <1>4 DEF ChangeState
  <2> HIDE DEF t
  <2>6. PICK c \in Nat : Trimmed(sender[p], raw[p], made[p], c)
    BY <1>1 DEF StreamRecalls
  <2>7. t.current = Drop(r, c) /\ c \in 0..Len(r)
    <3>1. sender[p].current = Drop(raw[p], c) /\ c \in 0..Len(raw[p])
      BY <2>6 DEF Trimmed
    <3>2. Append(Drop(raw[p], c), e) = Drop(r, c)
      BY <1>1, <2>0, <3>1, DropOfAppend
    <3>3. Len(r) = Len(raw[p]) + 1  BY <1>1
    <3> QED  BY <1>1, <2>4, <3>1, <3>2, <3>3
  <2>8. Trimmed(t, r, made[p], c)
    BY <2>4, <2>6, <2>7 DEF Trimmed
  <2>9. /\ r \in Seq(Event)
        /\ \A n \in DOMAIN made[p] : Before(made[p][n], r)
    <3>1. r \in Seq(Event)  BY <1>1, <2>0
    <3>2. \A n \in DOMAIN made[p] : /\ made[p][n] \in Seq(Event)
                                    /\ Before(made[p][n], raw[p])
      BY <1>1 DEF StreamRecalls, History
    <3> QED  BY <1>1, <2>0, <3>1, <3>2, BeforeOrder
  <2> HIDE DEF r
  <2>10. StreamRecalls(t, r, made[p])
    BY <1>1, <2>4, <2>5, <2>8, <2>9 DEF StreamRecalls, History
  <2> QED  BY <1>2, <2>2, <2>3, <2>10, StreamQuietKeeps
<1>5. CASE Shutdown(p)
  <2> DEFINE t == StartShutdown(sender[p], now)
  <2>1. sender' = [sender EXCEPT ![p] = t] /\ raw' = raw
    BY <1>5 DEF Shutdown
  <2>2. /\ t.current = sender[p].current /\ t.sent = sender[p].sent
        /\ t.shutdown_in_progress
    BY <1>1, <1>5 DEF StartShutdown, Shutdown, TransportSenderType
  <2> HIDE DEF t
  <2>3. StreamRecalls(t, raw'[p], made[p])
    BY <1>1, <2>1, <2>2 DEF StreamRecalls, History, Trimmed
  <2> QED  BY <1>2, <2>1, <2>3, StreamQuietKeeps
<1>6. CASE WaitTime(p) \/ TickIdle(p)
  <2>1. PICK s \in Timers(p) : sender' = [sender EXCEPT ![p] = s]
    BY <1>6 DEF WaitTime, TickIdle
  <2>2. raw' = raw
    BY <1>6 DEF WaitTime, TickIdle
  <2>3. StreamRecalls(s, raw'[p], made[p])
    BY <1>1, <2>2, StreamTimersRecall
  <2> QED  BY <1>2, <2>1, <2>2, <2>3, StreamQuietKeeps
<1>7. CASE TickNothingToSend(p)
  <2>0. PICK s \in Timers(p) : \E base \in ResendChoices(s) :
          sender' = [sender EXCEPT ![p] = [s EXCEPT
            !.assumed = base, !.next_send_time = Never, !.mindelay_clock = NoClock]]
    BY <1>7 DEF TickNothingToSend
  <2>1. PICK base \in ResendChoices(s) :
          sender' = [sender EXCEPT ![p] = [s EXCEPT
            !.assumed = base, !.next_send_time = Never, !.mindelay_clock = NoClock]]
    BY <2>0
  <2> DEFINE t == [s EXCEPT !.assumed = base, !.next_send_time = Never,
                            !.mindelay_clock = NoClock]
  <2>2. raw' = raw
    BY <1>7 DEF TickNothingToSend
  <2>3. StreamRecalls(s, raw'[p], made[p]) /\ s \in TransportSenderType
    BY <1>1, <2>2, StreamTypes, StreamTimersRecall, TimersStep
  <2>4. /\ t.current = s.current /\ t.sent = s.sent
        /\ t.shutdown_in_progress = s.shutdown_in_progress
    BY <2>3 DEF TransportSenderType
  <2>5. sender' = [sender EXCEPT ![p] = t]
    BY <2>1
  <2> HIDE DEF t
  <2>6. StreamRecalls(t, raw'[p], made[p])
    BY <2>3, <2>4 DEF StreamRecalls, History, Trimmed
  <2> QED  BY <1>2, <2>2, <2>5, <2>6, StreamQuietKeeps
<1> QED  BY <1>4, <1>5, <1>6, <1>7

(* What is held of a peer is held of any history that extends its.         *)
LEMMA ReadsExtended ==
  ASSUME NEW q \in Seq(ReceivedState), q # <<>>, NEW h, NEW w, NEW last,
         Reads(q, h, w, last), NEW x, DOMAIN h \subseteq DOMAIN x,
         \A n \in DOMAIN h : x[n] = h[n]
  PROVE  Reads(q, x, w, last)
<1>1. Len(q) \in 1..Len(q)
  BY ReceivedTypes
<1>2. PICK gone \in 0..Len(w) : Holds(q, h, gone) /\ last = Drop(w, gone)
  BY DEF Reads
<1>3. Holds(q, x, gone)
  BY <1>2 DEF Holds
<1>4. x[q[Len(q)].num] = h[q[Len(q)].num]
  BY <1>1, <1>2 DEF Holds
<1> QED  BY <1>2, <1>3, <1>4 DEF Reads

(* A step that sends the difference between the current state and one the  *)
(* queue names.                                                            *)
LEMMA StreamSendKeeps ==
  ASSUME StreamLaws, StreamInv, IInv', NEW p \in Peer,
         UNCHANGED <<lastRemote, written>>,
         NEW s \in TransportSenderType, s.sent # <<>>,
         StreamRecalls(s, raw[p], made[p]), Numbered(s.sent), s.assumed \in 1..Len(s.sent),
         NEW num, StreamMaySend(s, num, raw[p], made[p]),
         NEW queued, Sends(s, queued, now, num),
         queued.sent[queued.assumed].num = s.sent[s.assumed].num,
         NEW t, Sends(s, t, now, num),
         sender' = [sender EXCEPT ![p] = t],
         Send(p, queued, num, DiffFrom(s.current, s.sent[s.assumed].state))
  PROVE  StreamInv'
<1> DEFINE q == Other(p)
           x == StreamExtended(made[p], num, raw[p])
           base == s.sent[s.assumed]
           diff == DiffFrom(s.current, base.state)
           m == Outgoing(queued, num, diff)
<1>1. q \in Peer /\ q # p /\ Other(q) = p /\ \A y \in Peer : y = p \/ y = q
  BY Peers
<1>2. /\ sender'[p] = t /\ sender'[q] = sender[q]
      /\ made'[p] = x /\ made'[q] = made[q]
      /\ net'[p] = net[p] \cup {m} /\ net'[q] = net[q]
      /\ raw' = raw /\ received' = received
  BY <1>1 DEF StreamInv, IInv, TypeOK, Send, StreamExtended
<1>3. StreamRecalls(t, raw[p], x)
  BY StreamSendRecalls
<1>4. /\ num \in DOMAIN x /\ DOMAIN made[p] \subseteq DOMAIN x /\ x[num] = raw[p]
      /\ \A n \in DOMAIN made[p] : x[n] = made[p][n]
  BY DEF StreamExtended, StreamMaySend
<1> HIDE DEF x
<1>5. /\ m.old_num = base.num /\ m.new_num = num /\ m.diff = diff
  BY DEF Outgoing
<1>6. /\ base.num \in DOMAIN made[p]
      /\ diff = Drop(raw[p], Len(made[p][base.num]))
  BY DiffIsNews
<1>7. base.num <= num
  <2>1. s.sent \in Seq(TimestampedState)  BY DEF TransportSenderType
  <2>2. /\ Len(s.sent) \in Nat /\ base.num \in Nat /\ s.sent[Len(s.sent)].num \in Nat
        /\ Len(s.sent) \in 1..Len(s.sent)
    BY <2>1, EntryTypes
  <2>3. base.num <= s.sent[Len(s.sent)].num
    <3>1. s.assumed = Len(s.sent) \/ s.assumed < Len(s.sent)  BY <2>2
    <3> QED  BY <2>2, <3>1 DEF Numbered
  <2>4. num \in Nat /\ s.sent[Len(s.sent)].num <= num
    BY ConstantTypes DEF StreamMaySend
  <2> HIDE DEF base
  <2> QED  BY <2>2, <2>3, <2>4
<1> HIDE DEF m, base, diff
<1>8. /\ {m.old_num, m.new_num} \subseteq DOMAIN x /\ m.old_num <= m.new_num
      /\ m.diff = Drop(x[m.new_num], Len(x[m.old_num]))
  BY <1>4, <1>5, <1>6, <1>7
<1>9. CarriesNews'
  <2>1. \A i \in net[p] : /\ {i.old_num, i.new_num} \subseteq DOMAIN x
                          /\ i.old_num <= i.new_num
                          /\ i.diff = Drop(x[i.new_num], Len(x[i.old_num]))
    BY <1>4 DEF StreamInv, CarriesNews
  <2>2. \A i \in net[q] :
          /\ {i.old_num, i.new_num} \subseteq DOMAIN made[q] /\ i.old_num <= i.new_num
          /\ i.diff = Drop(made[q][i.new_num], Len(made[q][i.old_num]))
    BY <1>1 DEF StreamInv, CarriesNews
  <2> HIDE DEF q
  <2>3. \A i \in net'[p] : /\ {i.old_num, i.new_num} \subseteq DOMAIN made'[p]
                           /\ i.old_num <= i.new_num
                           /\ i.diff = Drop(made'[p][i.new_num], Len(made'[p][i.old_num]))
    <3>1. \A i \in net'[p] : i = m \/ i \in net[p]  BY <1>2
    <3> QED  BY <1>2, <1>8, <2>1, <3>1
  <2> QED  BY <1>1, <1>2, <2>2, <2>3 DEF CarriesNews
<1>10. \A y \in Peer : StreamRecalls(sender'[y], raw'[y], made'[y])
  BY <1>1, <1>2, <1>3 DEF StreamInv
<1>11. \A y \in Peer : Reads(received'[y], made'[Other(y)], written'[y], lastRemote'[y])
  <2>1. received[q] \in Seq(ReceivedState) /\ received[q] # <<>>
    BY <1>1, PeerFacts DEF StreamInv
  <2>2. Reads(received[q], made[p], written[q], lastRemote[q])
    BY <1>1 DEF StreamInv
  <2>3. Reads(received[q], x, written[q], lastRemote[q])
    BY <1>4, <2>1, <2>2, ReadsExtended
  <2>4. Reads(received[p], made[q], written[p], lastRemote[p])
    BY <1>1 DEF StreamInv
  <2> QED  BY <1>1, <1>2, <2>3, <2>4
<1> QED  BY <1>9, <1>10, <1>11 DEF StreamInv

(* The timers leave the numbers of the queue alone.                        *)
LEMMA TimersNumbered ==
  ASSUME SyncStateType, IInv, NEW p \in Peer, NEW s \in Timers(p)
  PROVE  Numbered(s.sent)
<1>1. Numbered(sender[p].sent) /\ SameQueue(sender[p], s)
  BY PeerFacts, TimersStep DEF QueueInOrder
<1> QED  BY <1>1 DEF SameQueue, Numbered

(* Events are sent.                                                        *)
LEMMA StreamSendingKeeps ==
  ASSUME StreamLaws, StreamInv, IInv', NEW p \in Peer, UNCHANGED <<lastRemote, written>>,
         TickEmptyAck(p) \/ TickSend(p)
  PROVE  StreamInv'
<1>0. /\ now \in Nat /\ IInv /\ StreamRecalls(sender[p], raw[p], made[p])
      /\ SyncStateType
  BY PeerFacts, StreamTypes DEF StreamInv
<1>1. CASE TickEmptyAck(p)
  <2>1. PICK s \in Timers(p) : \E base \in ResendChoices(s) :
          LET num == EmptyAckNum(s)
              queued == AddSentState([s EXCEPT !.assumed = base], now, num)
          IN  /\ DiffFrom(s.current, s.sent[base].state) = NoDiff
              /\ num < SHUTDOWN_NUM \/ s.shutdown_in_progress
              /\ sender' = [sender EXCEPT ![p] = AfterSend(queued, num, now)]
              /\ Send(p, queued, num, NoDiff)
    BY <1>1 DEF TickEmptyAck
  <2>2. PICK base \in ResendChoices(s) :
          LET num == EmptyAckNum(s)
              queued == AddSentState([s EXCEPT !.assumed = base], now, num)
          IN  /\ DiffFrom(s.current, s.sent[base].state) = NoDiff
              /\ num < SHUTDOWN_NUM \/ s.shutdown_in_progress
              /\ sender' = [sender EXCEPT ![p] = AfterSend(queued, num, now)]
              /\ Send(p, queued, num, NoDiff)
    BY <2>1
  <2> DEFINE b == [s EXCEPT !.assumed = base]
             num == EmptyAckNum(s)
             queued == AddSentState(b, now, num)
             t == AfterSend(queued, num, now)
  <2>3. /\ b \in TransportSenderType
        /\ b.sent = s.sent /\ b.sent # <<>> /\ b.assumed \in {1, Len(b.sent)}
        /\ b.current = s.current /\ b.shutdown_in_progress = s.shutdown_in_progress
        /\ StreamRecalls(b, raw[p], made[p]) /\ b.assumed = base /\ base \in 1..Len(s.sent)
    BY <1>0, BaseStep, StreamBaseRecalls, ZenonT(30)
  <2>3a. Numbered(b.sent)
    BY <1>0, TimersNumbered, <2>3
  <2>4. /\ num < SHUTDOWN_NUM \/ b.shutdown_in_progress
        /\ num = EmptyAckNum(b)
        /\ NoDiff = DiffFrom(b.current, b.sent[b.assumed].state)
        /\ sender' = [sender EXCEPT ![p] = t] /\ Send(p, queued, num, NoDiff)
    <3>1. num = EmptyAckNum(b)  BY <2>3 DEF EmptyAckNum, Back
    <3> QED  BY <2>2, <2>3, <3>1
  <2> HIDE DEF b, num
  <2>5. StreamMaySend(b, num, raw[p], made[p])
    BY <2>3, <2>4, StreamNumberChoices
  <2>6. num \in 0..SHUTDOWN_NUM
    BY <2>5 DEF StreamMaySend
  <2>7. /\ Sends(b, queued, now, num)
        /\ queued.sent[queued.assumed] = b.sent[b.assumed]
    BY <1>0, <2>3, <2>6, AddSentStateSends
  <2> HIDE DEF queued
  <2>8. Sends(b, t, now, num)
    BY <1>0, <2>6, <2>7, AfterSendSends
  <2> HIDE DEF t
  <2> QED  BY <2>3, <2>3a, <2>4, <2>5, <2>7, <2>8, StreamSendKeeps
<1>2. CASE TickSend(p)
  <2>1. PICK s \in Timers(p) : \E base \in ResendChoices(s) :
          LET diff == DiffFrom(s.current, s.sent[base].state)
              num == SendToReceiverNum(s)
              queued == QueueForReceiver([s EXCEPT !.assumed = base], now)
          IN  /\ num < SHUTDOWN_NUM \/ s.shutdown_in_progress
              /\ sender' = [sender EXCEPT ![p] =
                              AssumeDelivered(AfterSend(queued, num, now))]
              /\ Send(p, queued, num, diff)
    BY <1>2 DEF TickSend
  <2>2. PICK base \in ResendChoices(s) :
          LET diff == DiffFrom(s.current, s.sent[base].state)
              num == SendToReceiverNum(s)
              queued == QueueForReceiver([s EXCEPT !.assumed = base], now)
          IN  /\ num < SHUTDOWN_NUM \/ s.shutdown_in_progress
              /\ sender' = [sender EXCEPT ![p] =
                              AssumeDelivered(AfterSend(queued, num, now))]
              /\ Send(p, queued, num, diff)
    BY <2>1
  <2> DEFINE b == [s EXCEPT !.assumed = base]
             num == SendToReceiverNum(s)
             queued == QueueForReceiver(b, now)
             t == AssumeDelivered(AfterSend(queued, num, now))
  <2>3. /\ b \in TransportSenderType
        /\ b.sent = s.sent /\ b.sent # <<>> /\ b.assumed \in {1, Len(b.sent)}
        /\ b.current = s.current /\ b.shutdown_in_progress = s.shutdown_in_progress
        /\ StreamRecalls(b, raw[p], made[p]) /\ b.assumed = base /\ base \in 1..Len(s.sent)
    BY <1>0, BaseStep, StreamBaseRecalls, ZenonT(30)
  <2>3a. Numbered(b.sent)
    BY <1>0, TimersNumbered, <2>3
  <2>4. /\ num < SHUTDOWN_NUM \/ b.shutdown_in_progress
        /\ num = SendToReceiverNum(b)
        /\ sender' = [sender EXCEPT ![p] = t]
        /\ Send(p, queued, num, DiffFrom(b.current, b.sent[b.assumed].state))
    <3>1. num = SendToReceiverNum(b)  BY <2>3 DEF SendToReceiverNum, Back
    <3> QED  BY <2>2, <2>3, <3>1
  <2> HIDE DEF b, num
  <2>5. StreamMaySend(b, num, raw[p], made[p])
    BY <2>3, <2>4, StreamNumberChoices
  <2>6. num \in 0..SHUTDOWN_NUM
    BY <2>5 DEF StreamMaySend
  <2>7. /\ Sends(b, queued, now, num)
        /\ queued.sent[queued.assumed].num = b.sent[b.assumed].num
    BY <1>0, <2>3, <2>4, <2>6, QueueForReceiverSends
  <2> HIDE DEF queued
  <2>8. Sends(b, t, now, num)
    BY <1>0, <2>6, <2>7, AfterSendSends
  <2> HIDE DEF t
  <2> QED  BY <2>3, <2>3a, <2>4, <2>5, <2>7, <2>8, StreamSendKeeps
<1> QED  BY <1>1, <1>2

(* Later states of a peer continue what was read of an earlier one.        *)
LEMMA ReadsOnward ==
  ASSUME NEW s, NEW r, NEW h, History(s, r, h), NEW w, NEW last,
         NEW q \in Seq(ReceivedState), q # <<>>, Reads(q, h, w, last),
         NEW k \in Seq(ReceivedState), k # <<>>,
         NEW gone \in 0..Len(w), Holds(q, h, gone), Holds(k, h, gone),
         last = Drop(w, gone), q[Len(q)].num <= k[Len(k)].num
  PROVE  Reads(k, h, w, last)
<1>1. Len(q) \in 1..Len(q) /\ Len(k) \in 1..Len(k)
  BY ReceivedTypes
<1> DEFINE a == h[q[Len(q)].num]
           b == h[k[Len(k)].num]
<1>2. a \in Seq(Event) /\ b \in Seq(Event) /\ Before(a, b)
  BY <1>1 DEF Holds, History
<1>3. w \in Seq(Event) /\ Before(w, a)
  BY DEF Reads
<1> HIDE DEF a, b
<1>4. Before(w, b)
  BY <1>2, <1>3, BeforeOrder
<1> QED  BY <1>3, <1>4 DEF Reads, b

(* An acknowledgement is processed, and a queue of received states         *)
(* replaced.                                                               *)
LEMMA StreamReceiveKeeps ==
  ASSUME StreamInv, IInv', NEW p \in Peer, NEW m \in net[Other(p)],
         UNCHANGED <<lastRemote, written>>,
         NEW t, t.sent = Acking(p, m).sent, t.current = Acking(p, m).current,
         t.shutdown_in_progress = Acking(p, m).shutdown_in_progress,
         NEW r \in Seq(ReceivedState),
         Reads(r, made[Other(p)], written[p], lastRemote[p]),
         sender' = [sender EXCEPT ![p] = t],
         received' = [received EXCEPT ![p] = r],
         UNCHANGED <<net, raw, made>>
  PROVE  StreamInv'
<1> DEFINE q == Other(p)
           u == Acking(p, m)
<1>1. q \in Peer /\ q # p /\ Other(q) = p /\ \A y \in Peer : y = p \/ y = q
  BY Peers
<1>2. /\ sender[p] \in TransportSenderType /\ sender[p].sent # <<>>
      /\ Numbered(sender[p].sent) /\ m \in Instruction
  BY <1>1, PeerFacts DEF StreamInv, QueueInOrder
<1>3. /\ \A i \in 1..Len(u.sent) :
           \E j \in 1..Len(sender[p].sent) : u.sent[i] = sender[p].sent[j]
      /\ u.sent[Len(u.sent)] = sender[p].sent[Len(sender[p].sent)]
      /\ u.current = sender[p].current
      /\ u.shutdown_in_progress = sender[p].shutdown_in_progress
  <2>1. m.ack_num \in 0..SHUTDOWN_NUM  BY <1>2 DEF Instruction
  <2> QED  BY <1>2, <2>1, AcknowledgmentProperties DEF Acking
<1> HIDE DEF u
<1>4. t.sent = u.sent /\ t.current = u.current /\ t.shutdown_in_progress = u.shutdown_in_progress
  BY DEF u
<1>5. PICK c \in Nat : Trimmed(sender[p], raw[p], made[p], c)
  BY DEF StreamInv, StreamRecalls
<1>6. History(sender[p], raw[p], made[p])
  BY DEF StreamInv, StreamRecalls
<1>7. Trimmed(t, raw[p], made[p], c)
  <2>1. ASSUME NEW i \in 1..Len(t.sent)
        PROVE  /\ t.sent[i].num \in DOMAIN made[p]
               /\ c \in 0..Len(made[p][t.sent[i].num])
               /\ t.sent[i].state = Drop(made[p][t.sent[i].num], c)
    <3>1. PICK j \in 1..Len(sender[p].sent) : t.sent[i] = sender[p].sent[j]
      BY <1>3, <1>4
    <3> QED  BY <1>5, <3>1 DEF Trimmed
  <2> QED  BY <1>3, <1>4, <1>5, <2>1 DEF Trimmed
<1>8. History(t, raw[p], made[p])
  BY <1>3, <1>4, <1>6 DEF History
<1>9. /\ sender'[p] = t /\ sender'[q] = sender[q]
      /\ received'[p] = r /\ received'[q] = received[q]
  BY <1>1 DEF StreamInv, IInv, TypeOK
<1>10. \A y \in Peer : StreamRecalls(sender'[y], raw'[y], made'[y])
  BY <1>1, <1>7, <1>8, <1>9 DEF StreamInv, StreamRecalls
<1>11. \A y \in Peer : Reads(received'[y], made'[Other(y)], written'[y], lastRemote'[y])
  <2>1. Reads(received[q], made[p], written[q], lastRemote[q])
    BY <1>1 DEF StreamInv
  <2> QED  BY <1>1, <1>9, <2>1
<1>12. CarriesNews'
  BY DEF StreamInv, CarriesNews
<1> QED  BY <1>10, <1>11, <1>12 DEF StreamInv

(* A datagram arrives, whatever it holds.                                  *)
LEMMA StreamReceivingKeeps ==
  ASSUME StreamLaws, StreamInv, IInv', NEW p \in Peer, UNCHANGED <<lastRemote, written>>,
         Forward, ApplyOnlyAck(p) \/ ApplyQuenched(p) \/ ApplyNewState(p)
  PROVE  StreamInv'
<1> DEFINE q == received[p]
           h == made[Other(p)]
           w == written[p]
           last == lastRemote[p]
<1>1. /\ sender[p] \in TransportSenderType /\ sender[p].sent # <<>>
      /\ Numbered(sender[p].sent) /\ received \in [Peer -> Seq(ReceivedState)]
      /\ q \in Seq(ReceivedState) /\ q # <<>> /\ Increasing(q)
      /\ DOMAIN q = 1..Len(q)
      /\ Other(p) \in Peer /\ Other(Other(p)) = p
  BY Peers, PeerFacts, ReceivedTypes DEF QueueInOrder, StreamInv, IInv, TypeOK
<1>2. Reads(q, h, w, last)
  BY DEF StreamInv
<1>2a. PICK gone \in 0..Len(w) : Holds(q, h, gone) /\ last = Drop(w, gone)
  BY <1>2 DEF Reads
<1>2b. History(sender[Other(p)], raw[Other(p)], h)
  BY <1>1 DEF StreamInv, StreamRecalls
<1>3. \A m \in net[Other(p)] :
        /\ m \in Instruction /\ m.throwaway_num \in Nat
        /\ m.new_num \in 0..SHUTDOWN_NUM /\ m.diff \in Diff
        /\ m.ack_num \in 0..SHUTDOWN_NUM
        /\ {m.old_num, m.new_num} \subseteq DOMAIN h /\ m.old_num <= m.new_num
        /\ m.diff = Drop(h[m.new_num], Len(h[m.old_num]))
  <2> TAKE m \in net[Other(p)]
  <2>1. m \in Instruction  BY <1>1, PeerFacts DEF StreamInv
  <2>2. /\ {m.old_num, m.new_num} \subseteq DOMAIN h /\ m.old_num <= m.new_num
        /\ m.diff = Drop(h[m.new_num], Len(h[m.old_num]))
    BY <1>1 DEF StreamInv, CarriesNews
  <2> QED  BY <2>1, <2>2, ConstantTypes DEF Instruction
<1>5. ASSUME NEW n \in Nat
      PROVE  /\ ProcessThrowawayUntil(q, n) \in Seq(ReceivedState)
             /\ ProcessThrowawayUntil(q, n) # <<>>
             /\ Increasing(ProcessThrowawayUntil(q, n))
             /\ Nums(ProcessThrowawayUntil(q, n)) \subseteq Nums(q)
             /\ Holds(ProcessThrowawayUntil(q, n), h, gone)
  <2> DEFINE r == ProcessThrowawayUntil(q, n)
  <2>1. /\ r \in Seq(ReceivedState) /\ r # <<>> /\ Increasing(r)
        /\ Nums(r) \subseteq Nums(q)
        /\ \A i \in 1..Len(r) : \E j \in 1..Len(q) : r[i] = q[j]
    BY <1>1, ThrowawayProperties
  <2> HIDE DEF r, q, h
  <2>2. Holds(r, h, gone)
    BY <1>2a, <2>1 DEF Holds
  <2> QED  BY <2>1, <2>2 DEF r
<1>5a. ASSUME NEW r \in Seq(ReceivedState), r # <<>>, Holds(r, h, gone),
              received' = [received EXCEPT ![p] = r]
       PROVE  Reads(r, h, w, last)
  <2>1. q[Len(q)].num <= r[Len(r)].num
    <3>1. LatestNum(p)' >= LatestNum(p) /\ received'[p] = r
      BY <1>1, <1>5a DEF Forward
    <3>2. Len(q) \in 1..Len(q) /\ Len(r) \in 1..Len(r)
      BY <1>1, <1>5a, ReceivedTypes
    <3> QED  BY <3>1, <3>2, <1>1, <1>5a, ReceivedTypes DEF LatestNum
  <2> HIDE DEF q, h, w, last
  <2> QED  BY <1>1, <1>2, <1>2a, <1>2b, <1>5a, <2>1, ReadsOnward
<1>6. CASE ApplyOnlyAck(p)
  <2>1. PICK m \in net[Other(p)] : sender' = [sender EXCEPT ![p] = Acking(p, m)]
    BY <1>6 DEF ApplyOnlyAck
  <2>2. received' = [received EXCEPT ![p] = q] /\ UNCHANGED <<net, raw, made>>
    BY <1>1, <1>6 DEF ApplyOnlyAck, Heard
  <2> HIDE DEF q
  <2> QED  BY <1>1, <1>2, <2>1, <2>2, StreamReceiveKeeps
<1>7. CASE ApplyQuenched(p)
  <2>1. PICK m \in net[Other(p)] :
          /\ sender' = [sender EXCEPT ![p] = Acking(p, m)]
          /\ received' = [received EXCEPT ![p] = ProcessThrowawayUntil(q, m.throwaway_num)]
    BY <1>7 DEF ApplyQuenched
  <2> DEFINE r == ProcessThrowawayUntil(q, m.throwaway_num)
  <2>2. received' = [received EXCEPT ![p] = r] /\ UNCHANGED <<net, raw, made>>
    <3>1. UNCHANGED <<net, raw, made>>
      BY <1>7 DEF ApplyQuenched, Heard
    <3> QED  BY <2>1, <3>1
  <2>3. r \in Seq(ReceivedState) /\ r # <<>> /\ Holds(r, h, gone)
    BY <1>3, <1>5
  <2> HIDE DEF r, q
  <2>4. Reads(r, h, w, last)
    BY <1>5a, <2>2, <2>3
  <2> QED  BY <2>1, <2>2, <2>3, <2>4, StreamReceiveKeeps
<1>8. CASE ApplyNewState(p)
  <2>1. PICK m \in net[Other(p)] :
          \E i \in References(q, m.old_num) :
          LET kept == ProcessThrowawayUntil(q, m.throwaway_num)
              from == q[i].state
              new == [num |-> m.new_num,
                      state |-> IF m.diff = NoDiff THEN from
                                ELSE ApplyString(from, m.diff)]
              queue == InsertByNum(kept, new)
          IN  /\ m.new_num \notin Nums(q)
              /\ received' = [received EXCEPT ![p] = queue]
              /\ sender' = [sender EXCEPT ![p] = [Acking(p, m) EXCEPT
                   !.pending_data_ack = @ \/ m.diff # NoDiff,
                   !.ack_num = queue[Len(queue)].num,
                   !.last_heard = now]]
    BY <1>8 DEF ApplyNewState
  <2> DEFINE kept == ProcessThrowawayUntil(q, m.throwaway_num)
             New(i) == [num |-> m.new_num,
                        state |-> IF m.diff = NoDiff THEN q[i].state
                                  ELSE ApplyString(q[i].state, m.diff)]
  <2>2. PICK i \in References(q, m.old_num) :
          /\ m.new_num \notin Nums(q)
          /\ received' = [received EXCEPT ![p] = InsertByNum(kept, New(i))]
          /\ sender' = [sender EXCEPT ![p] = [Acking(p, m) EXCEPT
               !.pending_data_ack = @ \/ m.diff # NoDiff,
               !.ack_num = InsertByNum(kept, New(i))[Len(InsertByNum(kept, New(i)))].num,
               !.last_heard = now]]
    BY <2>1
  <2>3. i \in 1..Len(q) /\ q[i].num = m.old_num
    BY <1>1 DEF References
  <2> DEFINE e == New(i)
             r == InsertByNum(kept, e)
             u == Acking(p, m)
             t == [u EXCEPT !.pending_data_ack = @ \/ m.diff # NoDiff,
                            !.ack_num = r[Len(r)].num, !.last_heard = now]
  <2>4. /\ kept \in Seq(ReceivedState) /\ kept # <<>> /\ Increasing(kept)
        /\ Nums(kept) \subseteq Nums(q) /\ Holds(kept, h, gone)
    BY <1>3, <1>5
  <2> HIDE DEF kept
  <2>5. /\ m.new_num \in DOMAIN h /\ m.old_num \in DOMAIN h /\ m.old_num <= m.new_num
        /\ q[i].state \in State
        /\ gone \in 0..Len(h[m.old_num]) /\ q[i].state = Drop(h[m.old_num], gone)
        /\ m.diff = Drop(h[m.new_num], Len(h[m.old_num]))
    <3>1. q[i].state \in State  BY <1>1, <2>3, ReceivedTypes
    <3> QED  BY <1>2a, <1>3, <2>3, <3>1 DEF Holds
  <2>5a. /\ h[m.new_num] \in Seq(Event) /\ h[m.old_num] \in Seq(Event)
         /\ Before(h[m.old_num], h[m.new_num])
    BY <1>2b, <2>5 DEF History
  <2> HIDE DEF h
  <2>6. /\ e \in ReceivedState /\ e.num = m.new_num
        /\ e.state = IF m.diff = NoDiff THEN q[i].state ELSE ApplyString(q[i].state, m.diff)
    <3>1. ApplyString(q[i].state, m.diff) \in State
      BY <1>3, <2>5, StreamTypes DEF SyncStateType
    <3> QED  BY <1>3, <2>5, <3>1 DEF ReceivedState
  <2> HIDE DEF e, New
  <2>7. e.state = Drop(h[m.new_num], gone) /\ gone \in 0..Len(h[m.new_num])
    <3> DEFINE b == h[m.old_num]
               n == h[m.new_num]
    <3>1. /\ b \in Seq(Event) /\ n \in Seq(Event) /\ Before(b, n) /\ gone \in 0..Len(b)
          /\ q[i].state = Drop(b, gone) /\ m.diff = Drop(n, Len(b))
      BY <2>5, <2>5a
    <3> HIDE DEF b, n
    <3>2. /\ Drop(b, gone) \o Drop(n, Len(b)) = Drop(n, gone)
          /\ Drop(n, Len(b)) = <<>> => n = b
      BY <3>1, DropOfDrop
    <3>3. gone \in 0..Len(n)
      BY <3>1 DEF Before
    <3>4. CASE m.diff = NoDiff
      <4>1. m.diff = <<>>  BY <3>4 DEF StreamLaws
      <4>2. n = b  BY <3>1, <3>2, <4>1
      <4> QED  BY <2>6, <3>1, <3>3, <3>4, <4>2 DEF n
    <3>5. CASE m.diff # NoDiff
      <4>1. ApplyString(q[i].state, m.diff) = q[i].state \o m.diff
        BY <1>3, <2>5 DEF StreamLaws, StreamApply
      <4> QED  BY <2>6, <3>1, <3>2, <3>3, <3>5, <4>1 DEF n
    <3> QED  BY <3>4, <3>5
  <2>8. /\ r \in Seq(ReceivedState) /\ r # <<>>
        /\ \A k \in 1..Len(r) : r[k] = e \/ \E j \in 1..Len(kept) : r[k] = kept[j]
    <3>1. e.num \notin Nums(kept)  BY <2>2, <2>4, <2>6
    <3> QED  BY <2>4, <2>6, <3>1, InsertByNumProperties
  <2>9. received' = [received EXCEPT ![p] = r] /\ sender' = [sender EXCEPT ![p] = t]
    BY <2>2 DEF e
  <2> HIDE DEF r, q
  <2>10. Holds(r, h, gone)
    <3> SUFFICES ASSUME NEW k \in 1..Len(r)
                 PROVE  /\ r[k].num \in DOMAIN h /\ gone \in 0..Len(h[r[k].num])
                        /\ r[k].state = Drop(h[r[k].num], gone)
      BY DEF Holds
    <3>1. CASE r[k] = e
      BY <2>5, <2>6, <2>7, <3>1
    <3>2. CASE \E j \in 1..Len(kept) : r[k] = kept[j]
      BY <2>4, <3>2 DEF Holds
    <3> QED  BY <2>8, <3>1, <3>2
  <2>10a. Reads(r, h, w, last)
    BY <1>5a, <2>8, <2>9, <2>10
  <2>11. /\ t.sent = u.sent /\ t.current = u.current
         /\ t.shutdown_in_progress = u.shutdown_in_progress
    <3>1. u \in TransportSenderType
      BY <1>1, <1>3, AcknowledgmentProperties DEF Acking
    <3> HIDE DEF u
    <3> QED  BY <3>1 DEF TransportSenderType
  <2>12. UNCHANGED <<net, raw, made>>
    BY <1>8 DEF ApplyNewState, Heard
  <2> HIDE DEF t
  <2> QED  BY <2>8, <2>9, <2>10a, <2>11, <2>12, StreamReceiveKeeps DEF h, u
<1> QED  BY <1>6, <1>7, <1>8

(***************************************************************************)
(* The reader.                                                             *)
(***************************************************************************)

(* k is q, the oldest state gone from each.                                *)
OldestGone(q, k) ==
  /\ k \in Seq(ReceivedState) /\ Len(k) = Len(q)
  /\ \A i \in 1..Len(k) : /\ k[i].num = q[i].num
                          /\ k[i].state = Subtract(q[i].state, q[1].state)

(* GetRemoteDiff leaves the numbers of its queue alone.                    *)
LEMMA ReadKeepsNumbers ==
  ASSUME StreamLaws, IInv, NEW p \in Peer, GetRemoteDiff(p)
  PROVE  LET k == received'[p]
         IN  /\ IInv' /\ received' = [received EXCEPT ![p] = k]
             /\ k # <<>> /\ OldestGone(received[p], k)
<1> DEFINE q == received[p]
           oldest == q[1].state
           k == [i \in DOMAIN q |-> [q[i] EXCEPT !.state = Subtract(@, oldest)]]
<1>1. /\ q \in Seq(ReceivedState) /\ q # <<>> /\ Increasing(q)
      /\ Len(q) \in 1..Len(q) /\ Len(q) \in Nat /\ DOMAIN q = 1..Len(q)
      /\ \A i \in 1..Len(q) : q[i] \in ReceivedState /\ q[i].state \in State
      /\ received \in [Peer -> Seq(ReceivedState)] /\ now \in Nat
  BY PeerFacts, ReceivedTypes DEF IInv, TypeOK
<1>2. \A i \in 1..Len(q) : Subtract(q[i].state, oldest) \in State
  BY <1>1, StreamTypes DEF SyncStateType
<1>3. received' = [received EXCEPT ![p] = k]
  BY DEF GetRemoteDiff
<1> HIDE DEF oldest
<1>4. \A i \in 1..Len(q) :
        /\ [q[i] EXCEPT !.state = Subtract(@, oldest)] \in ReceivedState
        /\ [q[i] EXCEPT !.state = Subtract(@, oldest)].num = q[i].num
        /\ [q[i] EXCEPT !.state = Subtract(@, oldest)].state = Subtract(q[i].state, oldest)
  BY <1>1, <1>2 DEF ReceivedState
<1> HIDE DEF q
<1>5. /\ k \in Seq(ReceivedState) /\ Len(k) = Len(q)
      /\ \A i \in 1..Len(k) : k[i].num = q[i].num
                              /\ k[i].state = Subtract(q[i].state, oldest)
  <2>1. k \in [1..Len(q) -> ReceivedState]
    BY <1>1, <1>4
  <2>2. \A i \in 1..Len(q) : k[i].num = q[i].num
                             /\ k[i].state = Subtract(q[i].state, oldest)
    <3>1. \A i \in 1..Len(q) : k[i] = [q[i] EXCEPT !.state = Subtract(@, oldest)]
      BY <1>1
    <3> HIDE DEF k
    <3> QED  BY <1>4, <3>1
  <2> HIDE DEF k
  <2>3. k \in Seq(ReceivedState) /\ Len(k) = Len(q)
    BY <1>1, <2>1, SMTT(30)
  <2> QED  BY <2>2, <2>3
<1> HIDE DEF k
<1>6. k # <<>>
  BY <1>1, <1>5, EmptySeq
<1>7. received'[p] = k
  BY <1>1, <1>3
<1>8. UNCHANGED <<now, sender, quench, attached, net, raw, made>>
  BY DEF GetRemoteDiff
<1>9. /\ \A x \in Peer : /\ received'[x] \in Seq(ReceivedState) /\ received'[x] # <<>>
                        /\ DOMAIN received'[x] = DOMAIN received[x]
                        /\ Len(received'[x]) = Len(received[x])
                        /\ \A i \in DOMAIN received[x] :
                             received'[x][i].num = received[x][i].num
      /\ received' \in [Peer -> Seq(ReceivedState)]
  <2>1. DOMAIN k = DOMAIN q
    BY <1>1, <1>5, ReceivedTypes
  <2>2. \A x \in Peer : /\ received[x] \in Seq(ReceivedState) /\ received[x] # <<>>
                        /\ x # p => received'[x] = received[x]
    <3>1. \A x \in Peer : received[x] \in Seq(ReceivedState) /\ received[x] # <<>>
      BY PeerFacts
    <3>2. \A x \in Peer : x # p => received'[x] = received[x]
      BY <1>1, <1>3
    <3> QED  BY <3>1, <3>2
  <2>3. received' \in [Peer -> Seq(ReceivedState)]
    BY <1>1, <1>3, <1>5
  <2>4. \A i \in DOMAIN q : k[i].num = q[i].num
    BY <1>1, <1>5
  <2> QED  BY <1>5, <1>6, <1>7, <2>1, <2>2, <2>3, <2>4 DEF q
<1>10. \A x \in Peer : /\ Nums(received'[x]) = Nums(received[x])
                       /\ LatestNum(x)' = LatestNum(x)
  <2> SUFFICES ASSUME NEW x \in Peer
               PROVE  /\ Nums(received'[x]) = Nums(received[x])
                      /\ LatestNum(x)' = LatestNum(x)
    OBVIOUS
  <2> DEFINE a == received[x]
             b == received'[x]
  <2>1. Len(a) \in DOMAIN a
    BY PeerFacts, ReceivedTypes
  <2>2. /\ DOMAIN b = DOMAIN a /\ Len(b) = Len(a)
        /\ \A i \in DOMAIN a : b[i].num = a[i].num
    BY <1>9
  <2> HIDE DEF a, b
  <2>3. Nums(b) = Nums(a)
    BY <2>2 DEF Nums
  <2>4. b[Len(b)].num = a[Len(a)].num
    BY <2>1, <2>2
  <2> QED  BY <2>3, <2>4 DEF LatestNum, a, b
<1>11. TypeOK'
  BY <1>8, <1>9 DEF IInv, TypeOK
<1>12. QueuesOrdered'
  BY <1>8, <1>9 DEF IInv, QueuesOrdered
<1>13. Bookkeeping' /\ ReferenceHeld' /\ AckedNotDiscarded'
  <2>1. \A x \in Peer : Other(x) \in Peer  BY Peers
  <2> QED  BY <1>8, <1>10, <2>1 DEF IInv, Bookkeeping, ReferenceHeld, AckedNotDiscarded
<1>14. IInv'
  BY <1>11, <1>12, <1>13 DEF IInv
<1> QED  BY <1>3, <1>5, <1>6, <1>7, <1>14 DEF q, oldest, OldestGone

(* The reader's turn, on a queue of a peer whose history is h: it hands on *)
(* what is new, up to the latest state, and the queue loses the oldest.    *)
LEMMA ReadsNext ==
  ASSUME StreamLaws, NEW s, NEW r, NEW h, History(s, r, h), NEW w, NEW last,
         NEW q \in Seq(ReceivedState), q # <<>>, Increasing(q), Reads(q, h, w, last),
         NEW k, OldestGone(q, k)
  PROVE  /\ Reads(k, h, h[q[Len(q)].num], k[Len(k)].state)
         /\ w \o DiffFrom(q[Len(q)].state, last) = h[q[Len(q)].num]
         /\ Before(w, h[q[Len(q)].num])
<1> DEFINE n == Len(q)
           l == h[q[n].num]
           f == h[q[1].num]
           v == w \o DiffFrom(q[n].state, last)
<1>0. /\ k \in Seq(ReceivedState) /\ Len(k) = Len(q)
      /\ \A i \in 1..Len(k) : /\ k[i].num = q[i].num
                              /\ k[i].state = Subtract(q[i].state, q[1].state)
  BY DEF OldestGone
<1>1. /\ n \in 1..n /\ 1 \in 1..n /\ n \in Nat
      /\ \A i \in 1..n : q[i].num \in Nat
  BY ReceivedTypes
<1>2. PICK gone \in 0..Len(w) : Holds(q, h, gone) /\ last = Drop(w, gone)
  BY DEF Reads
<1>3. \A i \in 1..n : /\ q[i].num \in DOMAIN h /\ gone \in 0..Len(h[q[i].num])
                      /\ q[i].state = Drop(h[q[i].num], gone)
                      /\ h[q[i].num] \in Seq(Event)
  BY <1>2 DEF Holds, History
<1>4. w \in Seq(Event) /\ Before(w, l)
  BY DEF Reads
<1>5. l \in Seq(Event) /\ q[n].state = Drop(l, gone) /\ f \in Seq(Event)
      /\ gone \in 0..Len(f) /\ q[1].state = Drop(f, gone)
  BY <1>1, <1>3
<1>6. \A i \in 1..n : Before(f, h[q[i].num])
  <2> TAKE i \in 1..n
  <2>1. q[1].num <= q[i].num
    <3>1. CASE i = 1
      <4>1. q[1].num \in Nat  BY <1>1
      <4> QED  BY <3>1, <4>1
    <3>2. CASE i # 1
      <4>1. 1 < i  BY <1>1, <3>2
      <4>2. q[1].num < q[i].num  BY <1>1, <4>1 DEF Increasing
      <4> QED  BY <1>1, <4>2
    <3> QED  BY <3>1, <3>2
  <2> QED  BY <1>1, <1>3, <2>1 DEF History
<1>7. v = l
  <2> HIDE DEF l
  <2>1. DiffFrom(Drop(l, gone), Drop(w, gone)) = Drop(l, Len(w))
    BY <1>2, <1>4, <1>5, PrefixLaws
  <2>2. w \o Drop(l, Len(w)) = l
    BY <1>4, <1>5, RestCompletes
  <2> QED  BY <1>2, <1>5, <2>1, <2>2
<1> HIDE DEF v, f
<1>8. Holds(k, h, Len(f))
  <2> SUFFICES ASSUME NEW i \in 1..Len(k)
               PROVE  /\ k[i].num \in DOMAIN h /\ Len(f) \in 0..Len(h[k[i].num])
                      /\ k[i].state = Drop(h[k[i].num], Len(f))
    BY DEF Holds
  <2> DEFINE x == h[q[i].num]
  <2>1. x \in Seq(Event) /\ Before(f, x) /\ q[i].state = Drop(x, gone)
    BY <1>0, <1>3, <1>6
  <2> HIDE DEF x
  <2>2. Subtract(Drop(x, gone), Drop(f, gone)) = Drop(x, Len(f))
    BY <1>5, <2>1, PrefixLaws
  <2>3. Len(f) \in 0..Len(x)
    BY <1>5, <2>1 DEF Before
  <2> QED  BY <1>0, <1>3, <1>5, <2>1, <2>2, <2>3 DEF x
<1>9. k[Len(k)].num = q[n].num /\ k[Len(k)].state = Drop(l, Len(f)) /\ Len(f) \in 0..Len(l)
  BY <1>0, <1>1, <1>8 DEF Holds
<1>10. Before(l, l)
  BY <1>5, BeforeOrder
<1>11. Reads(k, h, l, k[Len(k)].state)
  BY <1>5, <1>7, <1>8, <1>9, <1>10 DEF Reads
<1> QED  BY <1>4, <1>7, <1>11 DEF v

(* The owner reads what is new: what it has read grows, up to the newest   *)
(* state received.                                                         *)
LEMMA ReadingKeeps ==
  ASSUME StreamLaws, StreamInv, NEW p \in Peer, GetRemoteDiff(p)
  PROVE  /\ StreamInv'
         /\ written'[p] = made[Other(p)][LatestNum(p)] /\ Before(written[p], written'[p])
         /\ \A x \in Peer : x # p => written'[x] = written[x]
<1> DEFINE q == received[p]
           h == made[Other(p)]
           k == received'[p]
           w == written[p]
           v == w \o DiffFrom(q[Len(q)].state, lastRemote[p])
<1>1. /\ IInv' /\ received' = [received EXCEPT ![p] = k]
      /\ k # <<>> /\ OldestGone(q, k)
  BY ReadKeepsNumbers DEF StreamInv
<1>2. /\ q \in Seq(ReceivedState) /\ q # <<>> /\ Increasing(q) /\ Other(p) \in Peer
      /\ received \in [Peer -> Seq(ReceivedState)]
      /\ written \in [Peer -> Seq(Event)] /\ lastRemote \in [Peer -> Seq(Event)]
  BY PeerFacts, Peers DEF StreamInv, IInv, TypeOK
<1>3. /\ UNCHANGED <<now, sender, quench, attached, net, raw, made>>
      /\ written' = [written EXCEPT ![p] = v]
      /\ lastRemote' = [lastRemote EXCEPT ![p] = k[Len(k)].state]
  BY <1>2 DEF GetRemoteDiff, Latest
<1>4. History(sender[Other(p)], raw[Other(p)], h) /\ Reads(q, h, w, lastRemote[p])
  BY <1>2 DEF StreamInv, StreamRecalls
<1>4a. v = w \o DiffFrom(q[Len(q)].state, lastRemote[p])
  OBVIOUS
<1> HIDE DEF q, h, k, w, v
<1>5. Reads(k, h, v, k[Len(k)].state) /\ v = h[q[Len(q)].num] /\ Before(w, v)
  <2>1. /\ Reads(k, h, h[q[Len(q)].num], k[Len(k)].state)
        /\ w \o DiffFrom(q[Len(q)].state, lastRemote[p]) = h[q[Len(q)].num]
        /\ Before(w, h[q[Len(q)].num])
    BY <1>1, <1>2, <1>4, ReadsNext
  <2> QED  BY <1>4a, <2>1
<1>6. /\ written'[p] = v /\ lastRemote'[p] = k[Len(k)].state /\ received'[p] = k
      /\ \A x \in Peer : x # p => /\ written'[x] = written[x]
                                  /\ lastRemote'[x] = lastRemote[x]
                                  /\ received'[x] = received[x]
  BY <1>1, <1>2, <1>3
<1>7. /\ written' \in [Peer -> Seq(Event)] /\ lastRemote' \in [Peer -> Seq(Event)]
  <2>1. v \in Seq(Event)  BY <1>5 DEF Reads
  <2>2. k[Len(k)].state \in Seq(Event)
    BY <1>1, ReceivedTypes DEF StreamLaws, OldestGone
  <2> QED  BY <1>2, <1>3, <2>1, <2>2
<1>8. \A x \in Peer : Reads(received'[x], made'[Other(x)], written'[x], lastRemote'[x])
  <2> TAKE x \in Peer
  <2>1. CASE x = p
    BY <1>3, <1>5, <1>6, <2>1 DEF h
  <2>2. CASE x # p
    BY <1>3, <1>6, <2>2 DEF StreamInv
  <2> QED  BY <2>1, <2>2
<1>9. CarriesNews' /\ \A x \in Peer : StreamRecalls(sender'[x], raw'[x], made'[x])
  BY <1>3 DEF StreamInv, CarriesNews
<1>10. StreamInv'
  BY <1>1, <1>7, <1>8, <1>9 DEF StreamInv
<1> QED  BY <1>5, <1>6, <1>10 DEF h, q, w, LatestNum

(***************************************************************************)
(* The start, and every step.                                              *)
(***************************************************************************)

(* The streams are in step at first.                                       *)
LEMMA InitiallyInStep ==
  ASSUME StreamLaws, StreamInit
  PROVE  StreamInv
<1> DEFINE first == [timestamp |-> 0, num |-> 0, state |-> InitialState]
           base == [num |-> 0, state |-> InitialState]
<1>1. ASSUME NEW p \in Peer
      PROVE  /\ sender[p].sent = <<first>> /\ sender[p].current = InitialState
             /\ received[p] = <<base>> /\ net[p] = {} /\ raw[p] = InitialState
             /\ DOMAIN made[p] = {0} /\ made[p][0] = InitialState
             /\ written[p] = <<>> /\ lastRemote[p] = InitialState
  BY <1>1 DEF StreamInit, Init, NewSender
<1>2. /\ Len(<<first>>) = 1 /\ <<first>>[1] = first
      /\ Len(<<base>>) = 1 /\ <<base>>[1] = base
      /\ first.num = 0 /\ first.state = InitialState
      /\ base.num = 0 /\ base.state = InitialState
  OBVIOUS
<1> HIDE DEF first, base
<1>3. SHUTDOWN_NUM # 0 /\ 0 \in 0..SHUTDOWN_NUM /\ InitialState = <<>>
  BY SenderConstants, ConstantTypes DEF StreamLaws
<1>4. /\ <<>> \in Seq(Event) /\ Len(<<>>) = 0 /\ Before(<<>>, <<>>)
      /\ Drop(<<>>, 0) = <<>> /\ 0 \in Nat /\ 0 \in 0..0 /\ \A i \in 1..1 : i = 1
  <2>1. <<>> \in Seq(Event) /\ Len(<<>>) = 0
    OBVIOUS
  <2>2. Drop(<<>>, 0) = <<>>
    BY <2>1, SubSeqEmpty DEF Drop
  <2> QED  BY <2>1, <2>2 DEF Before
<1>5. ASSUME NEW p \in Peer PROVE StreamRecalls(sender[p], raw[p], made[p])
  <2>1. /\ Len(sender[p].sent) = 1 /\ sender[p].sent[1].num = 0
        /\ sender[p].sent[1].state = <<>> /\ sender[p].current = <<>>
        /\ raw[p] = <<>> /\ DOMAIN made[p] = {0} /\ made[p][0] = <<>>
    BY <1>1, <1>2, <1>3
  <2>2. Trimmed(sender[p], raw[p], made[p], 0)
    BY <1>4, <2>1 DEF Trimmed
  <2>3. History(sender[p], raw[p], made[p])
    <3>1. \A n \in DOMAIN made[p] : n = 0 /\ made[p][n] = <<>>
      BY <2>1
    <3>2. SHUTDOWN_NUM \notin DOMAIN made[p]
      BY <1>3, <2>1
    <3>3. raw[p] = <<>> /\ sender[p].sent[Len(sender[p].sent)].num = 0 /\ 0 <= 0
      BY <2>1
    <3> QED  BY <1>3, <1>4, <3>1, <3>2, <3>3 DEF History
  <2> QED  BY <1>4, <2>2, <2>3 DEF StreamRecalls
<1>6. ASSUME NEW p \in Peer
      PROVE  Reads(received[p], made[Other(p)], written[p], lastRemote[p])
  <2>1. Other(p) \in Peer
    BY Peers
  <2>2. /\ Len(received[p]) = 1 /\ received[p][1].num = 0 /\ received[p][1].state = <<>>
        /\ DOMAIN made[Other(p)] = {0} /\ made[Other(p)][0] = <<>>
        /\ written[p] = <<>> /\ lastRemote[p] = <<>>
    BY <1>1, <1>2, <1>3, <2>1
  <2>3. Holds(received[p], made[Other(p)], 0)
    BY <1>4, <2>2 DEF Holds
  <2> QED  BY <1>4, <2>2, <2>3 DEF Reads
<1>7. CarriesNews
  BY <1>1 DEF CarriesNews
<1>8. lastRemote \in [Peer -> Seq(Event)] /\ written \in [Peer -> Seq(Event)]
  BY <1>3, <1>4 DEF StreamInit
<1>9. IInv
  BY StreamTypes, InitiallySound DEF StreamInit
<1> QED  BY <1>5, <1>6, <1>7, <1>8, <1>9 DEF StreamInv

(* And after every step.                                                   *)
LEMMA StepKeeps ==
  ASSUME StreamLaws, StreamInv, [StreamNext]_streamVars
  PROVE  StreamInv'
<1>1. CASE GetRemoteDiff("client") \/ GetRemoteDiff("server")
  BY <1>1, ReadingKeeps DEF Peer
<1>2. CASE StreamStep \/ UNCHANGED streamVars
  <2>1. [Next]_vars /\ UNCHANGED <<lastRemote, written>>
    BY <1>2 DEF StreamStep, streamVars
  <2>2. IInv' /\ Forward
    BY <2>1, NextStep, StreamTypes DEF StreamInv
  <2>3. CASE Clock \/ UNCHANGED vars
    <3>1. UNCHANGED <<sender, received, net, raw, made>>
      BY <2>3 DEF Clock, vars
    <3> QED  BY <2>1, <2>2, <3>1 DEF StreamInv, CarriesNews
  <2>4. ASSUME NEW p \in Peer, Owner(p) \/ Tick(p) \/ Recv(p)
        PROVE  StreamInv'
    BY <2>1, <2>2, <2>4, StreamQuietSteps, StreamSendingKeeps, StreamReceivingKeeps
       DEF Owner, Tick, Recv
  <2> QED  BY <2>1, <2>3, <2>4 DEF Next
<1> QED  BY <1>1, <1>2 DEF StreamNext, Peer

(* What a step does to the stream a peer types.                            *)
LEMMA OnlyOwnersType ==
  ASSUME StreamLaws, StreamInv, [Next]_vars
  PROVE  \A p \in Peer : raw'[p] = raw[p] \/ \E e \in Event : raw'[p] = Append(raw[p], e)
<1>1. /\ raw \in [Peer -> State]
      /\ \A s \in State, e \in Input : Do(s, e) = Append(s, e)
      /\ Input = Event
  BY DEF StreamInv, IInv, TypeOK, StreamLaws, StreamDo
<1>2. ASSUME NEW p \in Peer, ChangeState(p), NEW x \in Peer
      PROVE  raw'[x] = raw[x] \/ \E e \in Event : raw'[x] = Append(raw[x], e)
  <2>1. PICK e \in Input : raw' = [raw EXCEPT ![p] = Do(@, e)]
    BY <1>2 DEF ChangeState
  <2> QED  BY <1>1, <2>1
<1>3. ASSUME NEW p \in Peer, Owner(p) \/ Tick(p) \/ Recv(p), ~ChangeState(p)
      PROVE  raw' = raw
  BY <1>3 DEF Owner, Tick, Recv, Shutdown, WaitTime, TickIdle, TickNothingToSend,
     TickEmptyAck, TickSend, Send, ApplyOnlyAck, ApplyQuenched, ApplyNewState, Heard
<1>4. Clock \/ UNCHANGED vars => raw' = raw
  BY DEF Clock, vars
<1> QED  BY <1>2, <1>3, <1>4 DEF Next

(* The step as the abstract stream sees it.                                *)
LEMMA StepIsKeystrokes ==
  ASSUME StreamLaws, StreamInv, [StreamNext]_streamVars
  PROVE  [Keystrokes!Type \/ Keystrokes!Deliver]_<<raw["client"], written["server"]>>
<1> DEFINE typed == raw["client"]
           read == written["server"]
<1>0. "client" \in Peer /\ "server" \in Peer /\ Other("server") = "client"
  BY DEF Peer, Other
<1>1. CASE StreamStep \/ UNCHANGED streamVars
  <2>1. [Next]_vars /\ UNCHANGED written
    BY <1>1 DEF StreamStep, streamVars
  <2>2. typed' = typed \/ \E e \in Event : typed' = Append(typed, e)
    BY <1>0, <2>1, OnlyOwnersType
  <2> QED  BY <2>1, <2>2 DEF Keystrokes!Type
<1>2. CASE GetRemoteDiff("client")
  BY <1>0, <1>2, ReadingKeeps DEF GetRemoteDiff
<1>3. CASE GetRemoteDiff("server")
  <2> DEFINE n == LatestNum("server")
             h == made["client"]
             w == read'
  <2>1. /\ typed' = typed /\ w = h[n] /\ Before(read, w)
        /\ read \in Seq(Event)
    BY <1>0, <1>3, ReadingKeeps DEF GetRemoteDiff, StreamInv
  <2>2. typed \in Seq(Event) /\ \A k \in DOMAIN h : h[k] \in Seq(Event) /\ Before(h[k], typed)
    BY <1>0 DEF StreamInv, StreamRecalls, History
  <2>3. n \in DOMAIN h
    <3>1. Len(received["server"]) \in 1..Len(received["server"])
      BY <1>0, PeerFacts, ReceivedTypes DEF StreamInv
    <3> QED  BY <1>0, <3>1 DEF StreamInv, Reads, Holds, LatestNum
  <2>4. w \in Seq(Event) /\ Before(w, typed)
    BY <2>1, <2>2, <2>3
  <2> HIDE DEF w
  <2>5. IsPrefix(read, w) /\ IsPrefix(w, typed)
    BY <2>1, <2>2, <2>4, BeforeIsPrefix
  <2>6. Keystrokes!IsPrefix(read, w) /\ Keystrokes!IsPrefix(w, typed)
    BY <2>5 DEF IsPrefix, Keystrokes!IsPrefix
  <2>7. CASE w = read
    BY <2>1, <2>7 DEF w
  <2>8. CASE w # read
    BY <2>1, <2>6, <2>8 DEF Keystrokes!Deliver, Keystrokes!IsStrictPrefix, w
  <2> QED  BY <2>7, <2>8
<1> QED  BY <1>1, <1>2, <1>3 DEF StreamNext, Peer

(***************************************************************************)
(* The properties, of the invariant.                                       *)
(***************************************************************************)

(* The states a receiver holds lack one and the same part already read.    *)
LEMMA CommonPartFollows == StreamInv => CommonPart
<1> SUFFICES ASSUME StreamInv, NEW p \in Peer
             PROVE  \E gone \in 0..Len(written[p]) :
                      /\ \A i \in DOMAIN received[p] :
                           LET full == made[Other(p)][received[p][i].num]
                           IN  received[p][i].state = SubSeq(full, gone + 1, Len(full))
                      /\ lastRemote[p] = SubSeq(written[p], gone + 1, Len(written[p]))
  BY DEF CommonPart
<1>1. PICK gone \in 0..Len(written[p]) :
        /\ Holds(received[p], made[Other(p)], gone)
        /\ lastRemote[p] = Drop(written[p], gone)
  BY DEF StreamInv, Reads
<1>2. DOMAIN received[p] = 1..Len(received[p])
  BY PeerFacts, ReceivedTypes DEF StreamInv
<1> QED  BY <1>1, <1>2 DEF Holds, Drop

(* A peer whose shutdown was acknowledged left everything in the other's   *)
(* hands.                                                                  *)
LEMMA NothingLeftFollows == StreamLaws /\ StreamInv => NothingLeftBehind
<1> SUFFICES ASSUME StreamLaws, StreamInv, NEW p \in Peer, ShutdownAcknowledged(sender[p])
             PROVE  written[Other(p)] \o DiffFrom(Latest(Other(p)), lastRemote[Other(p)])
                      = raw[p]
  BY DEF NothingLeftBehind
<1> DEFINE x == Other(p)
           q == received[x]
           w == written[x]
           r == raw[p]
<1>1. /\ x \in Peer /\ Other(x) = p
      /\ q \in Seq(ReceivedState) /\ q # <<>> /\ Increasing(q)
  BY Peers, PeerFacts DEF StreamInv
<1>2. SHUTDOWN_NUM \in Nums(q)
  BY DEF StreamInv, IInv, ReferenceHeld, ShutdownAcknowledged
<1>3. q[Len(q)].num = SHUTDOWN_NUM /\ Len(q) \in 1..Len(q)
  BY <1>1, <1>2, ShutdownIsLast, ReceivedTypes
<1>4. Reads(q, made[p], w, lastRemote[x])
  BY <1>1 DEF StreamInv
<1>5. PICK gone \in 0..Len(w) : Holds(q, made[p], gone) /\ lastRemote[x] = Drop(w, gone)
  BY <1>4 DEF Reads
<1>6. /\ SHUTDOWN_NUM \in DOMAIN made[p]
      /\ q[Len(q)].state = Drop(made[p][SHUTDOWN_NUM], gone)
  BY <1>3, <1>5 DEF Holds
<1>7. made[p][SHUTDOWN_NUM] = r /\ r \in Seq(Event)
  BY <1>6 DEF StreamInv, StreamRecalls, History
<1>8. w \in Seq(Event) /\ Before(w, r)
  BY <1>3, <1>4, <1>7 DEF Reads
<1> HIDE DEF w, r, q, x
<1>9. DiffFrom(Drop(r, gone), Drop(w, gone)) = Drop(r, Len(w))
  BY <1>7, <1>8, PrefixLaws
<1>10. w \o Drop(r, Len(w)) = r
  BY <1>7, <1>8, RestCompletes
<1> QED  BY <1>5, <1>6, <1>7, <1>9, <1>10 DEF w, r, q, x, Latest

(***************************************************************************)
(* The theorems, of any stream of events.                                  *)
(***************************************************************************)

(* Whatever is lost, repeated, trimmed or read: the invariant.             *)
THEOREM StreamInvariance ==
  ASSUME StreamLaws
  PROVE  StreamSpec => []StreamInv
<1>1. StreamInit => StreamInv
  BY InitiallyInStep
<1>2. StreamInv /\ [StreamNext]_streamVars => StreamInv'
  BY StepKeeps
<1> QED  BY <1>1, <1>2, PTL DEF StreamSpec

(* However prefixes are trimmed at both ends while datagrams are lost,     *)
(* repeated and overtaken, all a receiver holds lacks one and the same     *)
(* consumed part: a diff it applies never lands on a differently cut base. *)
THEOREM AlwaysCommonPart ==
  ASSUME StreamLaws
  PROVE  StreamSpec => []CommonPart
<1>1. StreamInv => CommonPart
  BY CommonPartFollows
<1> QED  BY <1>1, StreamInvariance, PTL

(* A side that leaves because its shutdown was acknowledged has put every  *)
(* event it took into the other's hands.                                   *)
THEOREM NeverLeftBehind ==
  ASSUME StreamLaws
  PROVE  StreamSpec => []NothingLeftBehind
<1>1. StreamInv => NothingLeftBehind
  BY NothingLeftFollows
<1> QED  BY <1>1, StreamInvariance, PTL

(* The keystrokes a server hands to the program are those typed at the     *)
(* client, in order and each exactly once: StreamSync implements           *)
(* ReliableStream.                                                         *)
THEOREM ExactlyOnce ==
  ASSUME StreamLaws
  PROVE  StreamSpec => ServerReadsStream
<1>1. StreamInit => Keystrokes!Init
  BY DEF StreamInit, Init, Keystrokes!Init, StreamLaws, Peer
<1>2. StreamInv /\ [StreamNext]_streamVars =>
        [Keystrokes!Type \/ Keystrokes!Deliver]_<<raw["client"], written["server"]>>
  BY StepIsKeystrokes
<1> QED  BY <1>1, <1>2, StreamInvariance, PTL
     DEF StreamSpec, ServerReadsStream, Keystrokes!Spec
================================================================================
