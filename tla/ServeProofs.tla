------------------------------- MODULE ServeProofs -------------------------------
(***************************************************************************)
(* Theorems about the server's loop, for any number of writes, queries,    *)
(* events and states sent.                                                 *)
(*                                                                         *)
(* Output: between a poll and the end of its pass, what the poll saw is on *)
(* the screen, or a read of it is still due, or the pass has drained some  *)
(* and may not end the session.                                            *)
(*                                                                         *)
(* Queries: those counted when the ones in flight were noted are told to   *)
(* the client already, or carried by every state from that number on, so   *)
(* that an acknowledgement of any of these tells them.  Clearing is safe   *)
(* because an unchanged count of queries is an unchanged set.              *)
(*                                                                         *)
(* Keystrokes: what the child has, followed by what is under way to it, is *)
(* the keys of the events acted on and replies.  A filter over two         *)
(* sequences joined is the two filtered and joined, whatever they hold.    *)
(***************************************************************************)
EXTENDS Serve, FoldLemmas, SequenceTheorems, FiniteSetTheorems

(* Concatenation associates.                                               *)
LEMMA Associative ==
  ASSUME NEW S
  PROVE  \A s, t, u \in Seq(S) : s \o (t \o u) = (s \o t) \o u
BY ConcatAssociative

(* So does an element appended to a concatenation.                         *)
LEMMA AppendLast ==
  ASSUME NEW S, NEW e \in S
  PROVE  \A p, q \in Seq(S) : p \o Append(q, e) = Append(p \o q, e)
<1> TAKE p, q \in Seq(S)
<1>1. p \o q \in Seq(S) /\ <<e>> \in Seq(S)
  OBVIOUS
<1>2. Append(q, e) = q \o <<e>> /\ Append(p \o q, e) = (p \o q) \o <<e>>
  BY <1>1, AppendIsConcat
<1>3. p \o (q \o <<e>>) = (p \o q) \o <<e>>
  BY <1>1, Associative
<1> QED  BY <1>2, <1>3, Zenon

(* The types of all but the bytes under way, and what bounds them.         *)
Kinds ==
  /\ pc \in Phase /\ ready \subseteq {"network", "master"}
  /\ child \in {"running", "exited"} /\ background \in BOOLEAN
  /\ written \in 0..MaxOutput /\ polled \in 0..written /\ more \in BOOLEAN
  /\ child_exit \in BOOLEAN /\ child_reaped \in BOOLEAN
  /\ drained_this_pass \in BOOLEAN /\ shutdown_in_progress \in BOOLEAN
  /\ current \in Screen /\ current.shown <= written
  /\ last_remote \in RemoteState /\ remote \in RemoteState
  /\ DOMAIN sent \subseteq 0..SHUTDOWN_NUM /\ acked \in DOMAIN sent
  /\ \A n \in DOMAIN sent : sent[n] \in Screen
  /\ SHUTDOWN_NUM \in DOMAIN sent => shutdown_in_progress
  /\ queries_in_flight \in [num : 0..SHUTDOWN_NUM, seq : 0..MaxOutput] \cup {None}
  /\ told \subseteq ColorQueries
  /\ timed_out \in BOOLEAN /\ reason \in {"finished", "terminated", "vanished", None}

(* The bytes on their way to the child, and how far the client's events    *)
(* have been acted on.                                                     *)
Keys ==
  /\ terminal_to_host \in Seq(Byte) /\ pending_to_host \in Seq(Byte)
  /\ host_input \in Seq(Byte)
  /\ pc \notin {"recv", "read", "write"} => terminal_to_host = <<>>
  /\ last_remote.events <= remote.events
  /\ KeysInOrder

Output ==
  /\ shutdown_in_progress => child_exit /\ current.shown >= polled
  /\ pc = "poll" /\ child_exit => shutdown_in_progress
  /\ pc \in {"recv", "read"} /\ current.shown < polled =>
       "master" \in ready /\ ~child_exit
  /\ pc \in {"write", "tick", "reap"} =>
       current.shown >= polled \/ (drained_this_pass /\ ~child_exit)

Asked(k) == 1..k \cap ColorQueries

Carried ==
  queries_in_flight # None =>
    \E k \in 0..current.shown :
      /\ queries_in_flight.seq = Cardinality(Asked(k))
      /\ \A q \in Asked(k) :
           \/ q \in told
           \/ /\ acked < queries_in_flight.num
              /\ \A n \in DOMAIN sent :
                   n >= queries_in_flight.num => q \in sent[n].queries

(* The constants are numbers.                                              *)
LEMMA Bounds == SHUTDOWN_NUM \in Nat /\ MaxOutput \in Nat /\ MaxInput \in Nat
  BY ServeConstants

(* A bounded set of numbers has a greatest one: what `back()` returns.     *)
LEMMA GreatestNumber ==
  ASSUME NEW S \in SUBSET Nat, S # {}, NEW b \in Nat, \A i \in S : i <= b
  PROVE  LET greatest == CHOOSE i \in S : \A j \in S : j <= i
         IN  greatest \in S /\ \A j \in S : j <= greatest
<1> DEFINE gaps == {b - i : i \in S}
           least == CHOOSE i \in gaps : \A j \in gaps : i <= j
<1>1. gaps \in SUBSET Nat /\ gaps # {}
  <2>1. \A i \in S : b - i \in Nat  OBVIOUS
  <2>2. \E i \in S : b - i \in gaps  OBVIOUS
  <2> QED  BY <2>1, <2>2
<1>2. least \in gaps /\ \A j \in gaps : least <= j
  BY <1>1, LeastNumber
<1> HIDE DEF least
<1>3. PICK i \in S : least = b - i
  BY <1>2
<1>4. \A j \in S : j <= i
  <2> TAKE j \in S
  <2>1. b - j \in gaps  OBVIOUS
  <2>2. b - i <= b - j  BY <1>2, <1>3, <2>1
  <2> QED  BY <2>2
<1> QED  BY <1>4

(* The number of the newest state sent.                                    *)
LEMMA LastNumber ==
  ASSUME Kinds
  PROVE  /\ SentLast \in DOMAIN sent /\ SentLast \in Nat
         /\ \A n \in DOMAIN sent : n \in Nat /\ n <= SentLast
<1>1. DOMAIN sent \in SUBSET Nat /\ DOMAIN sent # {} /\ \A n \in DOMAIN sent : n <= SHUTDOWN_NUM
  BY Bounds DEF Kinds
<1> QED  BY <1>1, Bounds, GreatestNumber DEF SentLast

(* What a tick may do to the states sent: nothing, or add one past them.   *)
LEMMA SentChoices ==
  ASSUME Kinds, NEW screen \in Screen, NEW s \in Sent(screen)
  PROVE  \/ s = sent
         \/ \E num \in 0..SHUTDOWN_NUM :
              /\ DOMAIN s = DOMAIN sent \cup {num} /\ num \notin DOMAIN sent
              /\ s[num] = screen /\ \A n \in DOMAIN sent : s[n] = sent[n] /\ n < num
              /\ num = SHUTDOWN_NUM => shutdown_in_progress
<1> DEFINE num == IF shutdown_in_progress THEN SHUTDOWN_NUM ELSE SentLast + 1
<1> SUFFICES ASSUME s # sent
             PROVE  \E x \in 0..SHUTDOWN_NUM :
                      /\ DOMAIN s = DOMAIN sent \cup {x} /\ x \notin DOMAIN sent
                      /\ s[x] = screen /\ \A n \in DOMAIN sent : s[n] = sent[n] /\ n < x
                      /\ x = SHUTDOWN_NUM => shutdown_in_progress
  OBVIOUS
<1>1. /\ num \notin DOMAIN sent /\ (num = SHUTDOWN_NUM => shutdown_in_progress)
      /\ s = [n \in DOMAIN sent \cup {num} |-> IF n = num THEN screen ELSE sent[n]]
  BY DEF Sent
<1>2. /\ SentLast \in DOMAIN sent /\ SentLast \in Nat
      /\ \A n \in DOMAIN sent : n \in Nat /\ n <= SentLast /\ n \in 0..SHUTDOWN_NUM
  BY LastNumber DEF Kinds
<1>3. num \in 0..SHUTDOWN_NUM /\ \A n \in DOMAIN sent : n < num
  <2>1. CASE shutdown_in_progress
    BY <1>1, <1>2, <2>1, Bounds
  <2>2. CASE ~shutdown_in_progress
    <3>1. SentLast # SHUTDOWN_NUM  BY <1>2, <2>2 DEF Kinds
    <3>2. num = SentLast + 1  BY <2>2
    <3> QED  BY <1>2, <3>1, <3>2, Bounds
  <2> QED  BY <2>1, <2>2
<1> HIDE DEF num
<1> QED  BY <1>1, <1>3

(* The echo acknowledgement changes nothing else of the screen.            *)
LEMMA EchoedSame ==
  ASSUME current \in Screen, NEW screen \in Echoed(current)
  PROVE  /\ screen \in Screen /\ screen.shown = current.shown
         /\ screen.queries = current.queries
BY DEF Echoed, Screen

(* Neither does dropping the queries, but for those.                       *)
LEMMA ClearedSame ==
  ASSUME NEW screen \in Screen, NEW flight
  PROVE  /\ Cleared(screen, flight) \in Screen
         /\ Cleared(screen, flight).shown = screen.shown
         /\ Cleared(screen, flight).queries \in {screen.queries, {}}
BY DEF Cleared, Screen

(* Nor the keys and sizes a client sent.                                   *)
LEMMA EventsSame ==
  ASSUME Kinds, NEW state \in RemoteState
  PROVE  /\ AfterEvents(current, state) \in Screen
         /\ AfterEvents(current, state).shown = current.shown
         /\ AfterEvents(current, state).queries = current.queries
<1> DEFINE resized == New(state) \cap Resizes
           size == IF resized = {} THEN current.size
                   ELSE CHOOSE r \in resized : \A q \in resized : q <= r
           frame == IF New(state) = {} THEN current.frame ELSE state.num
<1>1. current \in Screen /\ state.events \in Nat /\ last_remote.events \in Nat
  BY Bounds DEF Kinds, RemoteState
<1>2. size \in {0} \cup Resizes
  <2>1. CASE resized = {}
    BY <1>1, <2>1 DEF Screen
  <2>2. CASE resized # {}
    <3>1. resized \in SUBSET Nat /\ \A i \in resized : i <= state.events
      BY <1>1 DEF New
    <3>2. (CHOOSE r \in resized : \A q \in resized : q <= r) \in resized
      BY <1>1, <2>2, <3>1, GreatestNumber
    <3> QED  BY <2>2, <3>2
  <2> QED  BY <2>1, <2>2
<1>3. frame \in 0..SHUTDOWN_NUM
  BY <1>1 DEF Screen, RemoteState
<1>4. AfterEvents(current, state) = [current EXCEPT !.size = size, !.frame = frame]
  BY DEF AfterEvents
<1> HIDE DEF size, frame
<1> QED  BY <1>1, <1>2, <1>3, <1>4 DEF Screen

--------------------------------------------------------------------------------
(* More about what `Only` leaves of a sequence.                            *)

(* Filtering piece by piece is filtering the whole.                        *)
LEMMA OnlyConcat ==
  ASSUME NEW S, NEW s \in Seq(S), NEW t \in Seq(S), NEW K
  PROVE  Only(s \o t, K) = Only(s, K) \o Only(t, K)
<1>1. PICK f \in [0..Len(s) -> Seq(S \cap K)] : Filters(f, s, K) /\ Only(s, K) = f[Len(s)]
  BY OnlySolves
<1>2. PICK e \in [0..Len(t) -> Seq(S \cap K)] : Filters(e, t, K) /\ Only(t, K) = e[Len(t)]
  BY OnlySolves
<1> DEFINE u == s \o t
           h == [n \in 0..Len(u) |-> IF n <= Len(s) THEN f[n] ELSE f[Len(s)] \o e[n - Len(s)]]
<1>3. /\ u \in Seq(S) /\ Len(u) = Len(s) + Len(t) /\ Len(s) \in Nat /\ Len(t) \in Nat
      /\ \A n \in 1..Len(s) : u[n] = s[n]
      /\ \A n \in 1..Len(t) : u[Len(s) + n] = t[n]
  BY ConcatProperties
<1>4. /\ f = [n \in 0..Len(s) |->
                IF n = 0 THEN <<>>
                ELSE IF s[n] \in K THEN Append(f[n - 1], s[n]) ELSE f[n - 1]]
      /\ e = [n \in 0..Len(t) |->
                IF n = 0 THEN <<>>
                ELSE IF t[n] \in K THEN Append(e[n - 1], t[n]) ELSE e[n - 1]]
  BY <1>1, <1>2, Zenon DEF Filters
<1> HIDE DEF u
<1>9. f[Len(s)] \in Seq(S \cap K)
  BY Len(s) \in 0..Len(s)
<1>5. ASSUME NEW n \in 0..Len(u)
      PROVE  h[n] = IF n = 0 THEN <<>>
                    ELSE IF u[n] \in K THEN Append(h[n - 1], u[n]) ELSE h[n - 1]
  <2>1. CASE n <= Len(s)
    <3>1. n \in 0..Len(s) /\ h[n] = f[n]
      BY <1>3, <2>1
    <3>2. CASE n = 0
      BY <1>4, <3>1, <3>2
    <3>3. CASE n # 0
      <4>1. n - 1 \in 0..Len(u) /\ n - 1 <= Len(s) /\ n \in 1..Len(s)
        BY <1>3, <2>1, <3>3
      <4>2. h[n - 1] = f[n - 1] /\ u[n] = s[n]
        BY <1>3, <4>1
      <4> QED  BY <1>4, <3>1, <3>3, <4>2
    <3> QED  BY <3>2, <3>3
  <2>2. CASE ~(n <= Len(s))
    <3> DEFINE m == n - Len(s)
    <3>1. m \in 1..Len(t) /\ n # 0 /\ n = Len(s) + m
      BY <1>3, <2>2
    <3>2. m \in 0..Len(t) /\ m - 1 \in 0..Len(t) /\ m # 0
      BY <1>3, <3>1
    <3>3. u[n] = t[m]
      BY <1>3, <3>1
    <3>4. h[n] = f[Len(s)] \o e[m]
      BY <2>2
    <3>5. e[m] = IF t[m] \in K THEN Append(e[m - 1], t[m]) ELSE e[m - 1]
      BY <1>4, <3>2
    <3>6. h[n - 1] = f[Len(s)] \o e[m - 1]
      <4>1. CASE m = 1
        <5>1. n - 1 = Len(s) /\ n - 1 \in 0..Len(u) /\ m - 1 = 0 /\ n - 1 <= Len(s)
          BY <1>3, <3>1, <4>1
        <5>2. h[n - 1] = f[Len(s)] /\ e[m - 1] = <<>>
          <6>1. e[0] = <<>> /\ h[n - 1] = f[n - 1]
            BY <1>3, <1>4, <5>1
          <6> QED  BY <5>1, <6>1
        <5> QED  BY <1>9, <5>2, ConcatEmptySeq
      <4>2. CASE m # 1
        <5>1. n - 1 \in 0..Len(u) /\ ~(n - 1 <= Len(s)) /\ n - 1 - Len(s) = m - 1
          BY <1>3, <3>1, <4>2
        <5> QED  BY <5>1
      <4> QED  BY <4>1, <4>2
    <3> HIDE DEF h, m
    <3>7. e[m - 1] \in Seq(S \cap K) /\ t[m] \in S
      <4>1. \A i \in 0..Len(t) : e[i] \in Seq(S \cap K)
        OBVIOUS
      <4>2. \A i \in 1..Len(t) : t[i] \in S
        OBVIOUS
      <4> QED  BY <3>1, <3>2, <4>1, <4>2
    <3>8. CASE t[m] \in K
      <4>1. t[m] \in S \cap K
        BY <3>7, <3>8
      <4>2. f[Len(s)] \o Append(e[m - 1], t[m]) = Append(f[Len(s)] \o e[m - 1], t[m])
        <5>1. \A p, q \in Seq(S \cap K) : p \o Append(q, t[m]) = Append(p \o q, t[m])
          <6> DEFINE R == S \cap K
          <6>1. t[m] \in R
            BY <4>1
          <6> HIDE DEF R
          <6>2. \A p, q \in Seq(R) : p \o Append(q, t[m]) = Append(p \o q, t[m])
            BY <6>1, AppendLast, Zenon
          <6> QED  BY <6>2, Zenon DEF R
        <5> QED  BY <1>9, <3>7, <5>1
      <4> QED  BY <3>1, <3>3, <3>4, <3>5, <3>6, <3>8, <4>2
    <3>9. CASE t[m] \notin K
      BY <3>1, <3>3, <3>4, <3>5, <3>6, <3>9
    <3> QED  BY <3>8, <3>9
  <2> QED  BY <2>1, <2>2
<1>6. Filters(h, u, K)
  <2>1. h = [n \in 0..Len(u) |-> h[n]]
    OBVIOUS
  <2>2. h = [n \in 0..Len(u) |->
               IF n = 0 THEN <<>>
               ELSE IF u[n] \in K THEN Append(h[n - 1], u[n]) ELSE h[n - 1]]
    <3> HIDE DEF h
    <3> QED  BY <1>5, <2>1
  <2> HIDE DEF h
  <2> QED  BY <2>2, Zenon DEF Filters
<1>7. Only(u, K) = h[Len(u)]
  <2> HIDE DEF h
  <2> QED  BY <1>3, <1>6, OnlyIs
<1>8. h[Len(u)] = f[Len(s)] \o e[Len(t)]
  <2>1. CASE Len(t) = 0
    <3>1. Len(u) \in 0..Len(u) /\ Len(u) <= Len(s) /\ Len(u) = Len(s)
      BY <1>3, <2>1
    <3>2. h[Len(u)] = f[Len(s)] /\ e[Len(t)] = <<>>
      BY <1>3, <1>4, <2>1, <3>1
    <3> QED  BY <1>9, <3>2, ConcatEmptySeq
  <2>2. CASE Len(t) # 0
    <3>1. Len(u) \in 0..Len(u) /\ ~(Len(u) <= Len(s)) /\ Len(u) - Len(s) = Len(t)
      BY <1>3, <2>2
    <3> QED  BY <3>1
  <2> QED  BY <2>1, <2>2
<1> QED  BY <1>1, <1>2, <1>7, <1>8 DEF u

(* A sequence that is all in K is left whole, one that is not at all, empty. *)
LEMMA OnlyAll ==
  ASSUME NEW S, NEW s \in Seq(S), NEW K, \A n \in 1..Len(s) : s[n] \in K
  PROVE  Only(s, K) = s
<1> DEFINE f == [n \in 0..Len(s) |-> SubSeq(s, 1, n)]
<1>1. Len(s) \in Nat
  OBVIOUS
<1>2. ASSUME NEW n \in 0..Len(s), n # 0
      PROVE  SubSeq(s, 1, n) = Append(SubSeq(s, 1, n - 1), s[n])
  BY <1>1, <1>2
<1>3. ASSUME NEW n \in 0..Len(s)
      PROVE  f[n] = IF n = 0 THEN <<>>
                    ELSE IF s[n] \in K THEN Append(f[n - 1], s[n]) ELSE f[n - 1]
  <2>1. CASE n = 0
    BY <2>1
  <2>2. CASE n # 0
    <3>1. n \in 1..Len(s) /\ n - 1 \in 0..Len(s)
      BY <1>1, <2>2
    <3>2. f[n] = SubSeq(s, 1, n) /\ f[n - 1] = SubSeq(s, 1, n - 1)
      BY <3>1
    <3> HIDE DEF f
    <3> QED  BY <1>2, <2>2, <3>1, <3>2
  <2> QED  BY <2>1, <2>2
<1>4. f = [n \in 0..Len(s) |-> f[n]] /\ f[Len(s)] = SubSeq(s, 1, Len(s))
  BY <1>1
<1> HIDE DEF f
<1>5. f = [n \in 0..Len(s) |->
             IF n = 0 THEN <<>>
             ELSE IF s[n] \in K THEN Append(f[n - 1], s[n]) ELSE f[n - 1]]
  BY <1>3, <1>4
<1>6. Filters(f, s, K)
  BY <1>5, Zenon DEF Filters
<1>7. SubSeq(s, 1, Len(s)) = s
  OBVIOUS
<1> QED  BY <1>4, <1>6, <1>7, OnlyIs

(* A sequence with nothing to keep.                                        *)
LEMMA OnlyNone ==
  ASSUME NEW S, NEW s \in Seq(S), NEW K, \A n \in 1..Len(s) : s[n] \notin K
  PROVE  Only(s, K) = <<>>
<1> DEFINE f == [n \in 0..Len(s) |-> <<>>]
<1>1. Len(s) \in 0..Len(s) /\ Len(s) \in Nat
  OBVIOUS
<1>2. ASSUME NEW n \in 0..Len(s), n # 0 PROVE s[n] \notin K /\ f[n - 1] = <<>>
  BY <1>1, <1>2
<1>3. f = [n \in 0..Len(s) |->
             IF n = 0 THEN <<>>
             ELSE IF s[n] \in K THEN Append(f[n - 1], s[n]) ELSE f[n - 1]]
  BY <1>2
<1>4. f[Len(s)] = <<>>
  BY <1>1
<1> HIDE DEF f
<1>5. Filters(f, s, K)
  BY <1>3, Zenon DEF Filters
<1> QED  BY <1>4, <1>5, OnlyIs

--------------------------------------------------------------------------------
(* The types.                                                              *)

(* The types are kept by every step.                                       *)
LEMMA KindsStep ==
  ASSUME Kinds, Next
  PROVE  Kinds'
<1>0. /\ current.shown \in Nat /\ current.shown <= written /\ written \in Nat
      /\ polled \in Nat /\ polled <= written /\ written <= MaxOutput /\ MaxOutput \in Nat
  BY Bounds DEF Kinds, Screen
<1>r. timed_out' \in BOOLEAN /\ reason' \in {"finished", "terminated", "vanished", None}
  <2>1. CASE Pass \/ ChildWrites \/ BackgroundWrites \/ ChildExits \/ Ended
    BY <2>1 DEF Pass, Poll, Recv, NothingReceived, Read, ReadEnds, ReadBlocks, ReadNothing,
                ReadDone, Write, WriteFails, WriteNothing, Written, Tick, Reap,
                ChildWrites, BackgroundWrites, ChildExits, Ended, Kinds, vars, ending
  <2>2. CASE ShutdownAckTimesOut \/ GiveUp
    BY <2>2 DEF ShutdownAckTimesOut, GiveUp, Kinds
  <2> QED  BY <2>1, <2>2 DEF Next
<1>1. CASE ChildWrites
  <2>1. written' \in 0..MaxOutput /\ polled' \in 0..written' /\ current'.shown <= written'
    BY <1>0, <1>1 DEF ChildWrites
  <2> QED  BY <1>r, <1>1, <2>1 DEF ChildWrites, Kinds, exits, client, ending, numbers, io
<1>2. CASE BackgroundWrites \/ ChildExits \/ ShutdownAckTimesOut \/ GiveUp \/ Ended
  <2>1. /\ UNCHANGED <<ready, background, written, polled, exits, drained_this_pass,
                       shutdown_in_progress, current, client, numbers>>
        /\ child' \in {child, "exited"} /\ pc' \in {pc, "ended"}
    BY <1>2 DEF BackgroundWrites, ChildExits, ShutdownAckTimesOut, GiveUp, Ended, vars,
                processes, ending
  <2>2. more' = more \/ more' = TRUE
    BY <1>2, Zenon DEF BackgroundWrites, ChildExits, ShutdownAckTimesOut, GiveUp, Ended,
                       vars, processes
  <2>3. more' \in BOOLEAN
    BY <2>2, Zenon DEF Kinds
  <2> QED  BY <1>r, <2>1, <2>3 DEF Kinds, Phase, exits, client, numbers
<1>3. CASE Poll
  <2>1. polled' \in 0..written /\ ready' \subseteq {"network", "master"}
    BY <1>0, <1>3 DEF Poll, Kinds
  <2> QED  BY <1>r, <1>3, <2>1 DEF Poll, Kinds, Phase, processes, exits, client, ending, numbers
<1>4. CASE Recv
  <2>1. PICK state \in RemoteState :
          /\ remote' = state
          /\ \/ /\ last_remote' = state
                /\ current' = AfterEvents(current, state)
             \/ UNCHANGED <<last_remote, current>>
    BY <1>4 DEF Recv
  <2>2. current' \in Screen /\ current'.shown = current.shown
    BY <2>1, EventsSame DEF Kinds
  <2>3. /\ acked' \in DOMAIN sent' /\ DOMAIN sent' \subseteq DOMAIN sent
        /\ \A n \in DOMAIN sent' : sent'[n] = sent[n]
    <3>1. /\ acked' \in {n \in DOMAIN sent : n >= acked}
          /\ sent' = [n \in {m \in DOMAIN sent : m >= acked'} |-> sent[n]]
      BY <1>4 DEF Recv
    <3>2. acked' >= acked' /\ acked' \in DOMAIN sent
      BY <3>1, LastNumber
    <3> QED  BY <3>1, <3>2
  <2>4. told' \subseteq ColorQueries
    <3>1. acked' \in DOMAIN sent  BY <1>4 DEF Recv
    <3>2. sent[acked'].queries \subseteq ColorQueries  BY <3>1 DEF Kinds, Screen
    <3> QED  BY <1>4, <3>2 DEF Recv, Kinds
  <2>5. /\ DOMAIN sent' \subseteq 0..SHUTDOWN_NUM
        /\ \A n \in DOMAIN sent' : sent'[n] \in Screen
        /\ SHUTDOWN_NUM \in DOMAIN sent' => shutdown_in_progress
    BY <2>3 DEF Kinds
  <2>6. last_remote' \in RemoteState /\ remote' \in RemoteState
    BY <2>1 DEF Kinds
  <2>7. /\ UNCHANGED <<ready, child, background, written, more, child_exit, child_reaped,
                       drained_this_pass, shutdown_in_progress, queries_in_flight, polled>>
        /\ pc' = "read"
    BY <1>4 DEF Recv, processes, exits, ending
  <2> QED  BY <1>r, <2>2, <2>3, <2>4, <2>5, <2>6, <2>7 DEF Kinds, Phase
<1>5. CASE NothingReceived
  BY <1>5, <1>r DEF NothingReceived, Kinds, Phase, processes, exits, client, ending, numbers
<1>6. CASE Read
  <2>1. PICK n \in current.shown..written :
          \E acted : current' = [current EXCEPT !.shown = n,
                                   !.queries = @ \cup (acted \cap ColorQueries)]
    BY <1>6 DEF Read
  <2>2. n \in 0..MaxOutput /\ n <= written /\ more' \in BOOLEAN
    <3>1. more' \in BOOLEAN
      BY <1>6, Zenon DEF Read, Kinds
    <3> QED  BY <1>0, <3>1
  <2>3. current' \in Screen /\ current'.shown = n
    BY <2>1, <2>2 DEF Kinds, Screen
  <2> QED  BY <1>r, <1>6, <2>2, <2>3 DEF Read, ReadDone, Kinds, Phase, client, ending,
              numbers
<1>7. CASE ReadEnds \/ ReadBlocks \/ ReadNothing
  <2>1. polled' \in 0..written
    BY <1>0, <1>7 DEF ReadEnds, ReadBlocks, ReadNothing, Kinds
  <2> QED  BY <1>r, <1>7, <2>1 DEF ReadEnds, ReadBlocks, ReadNothing, ReadDone, Kinds, Phase,
              processes, client, ending, numbers
<1>8. CASE Write \/ WriteFails \/ WriteNothing
  <2>1. polled' \in 0..written
    BY <1>0, <1>8 DEF Write, WriteFails, WriteNothing, Kinds
  <2> QED  BY <1>8, <1>r, <2>1 DEF Write, WriteFails, WriteNothing, Written, Kinds,
              Phase, processes, client, ending, numbers
<1>9. CASE Tick
  <2>1. PICK screen \in Echoed(current) :
          /\ sent' \in Sent(screen)
          /\ LET flight == InFlight(screen, SentLast', sent' # sent)
             IN  /\ current' = Cleared(screen, flight)
                 /\ queries_in_flight' =
                      IF flight # None /\ acked >= flight.num THEN None ELSE flight
    BY <1>9 DEF Tick
  <2>2. screen \in Screen /\ screen.shown = current.shown
    BY EchoedSame DEF Kinds
  <2>3. current' \in Screen /\ current'.shown = current.shown
    BY <2>1, <2>2, ClearedSame
  <2>4. /\ DOMAIN sent' \subseteq 0..SHUTDOWN_NUM
        /\ DOMAIN sent \subseteq DOMAIN sent'
        /\ \A n \in DOMAIN sent' : sent'[n] \in Screen
        /\ SHUTDOWN_NUM \in DOMAIN sent' => shutdown_in_progress
    <3>1. sent' \in Sent(screen)  BY <2>1
    <3>2. CASE sent' = sent
      BY <3>2 DEF Kinds
    <3>3. CASE sent' # sent
      <4>1. PICK num \in 0..SHUTDOWN_NUM :
              /\ DOMAIN sent' = DOMAIN sent \cup {num}
              /\ sent'[num] = screen /\ \A n \in DOMAIN sent : sent'[n] = sent[n]
              /\ num = SHUTDOWN_NUM => shutdown_in_progress
        BY <2>2, <3>1, <3>3, SentChoices
      <4> QED  BY <2>2, <4>1 DEF Kinds
    <3> QED  BY <3>2, <3>3
  <2>5. SentLast' \in 0..SHUTDOWN_NUM
    <3>1. /\ DOMAIN sent' \in SUBSET Nat /\ DOMAIN sent' # {}
          /\ \A n \in DOMAIN sent' : n <= SHUTDOWN_NUM
      BY <2>4, Bounds DEF Kinds
    <3>2. (CHOOSE n \in DOMAIN sent' : \A m \in DOMAIN sent' : m <= n) \in DOMAIN sent'
      BY <3>1, Bounds, GreatestNumber
    <3> QED  BY <2>4, <3>2 DEF SentLast
  <2>6. QuerySeq(screen) \in 0..MaxOutput
    <3>1. /\ IsFiniteSet(1..screen.shown)
          /\ Cardinality(1..screen.shown) = screen.shown
      BY <1>0, <2>2, FS_Interval
    <3>2. /\ IsFiniteSet(1..screen.shown \cap ColorQueries)
          /\ Cardinality(1..screen.shown \cap ColorQueries) <= screen.shown
      BY <3>1, FS_Subset
    <3>3. Cardinality(1..screen.shown \cap ColorQueries) \in Nat
      BY <3>2, FS_CardinalityType
    <3> QED  BY <1>0, <2>2, <3>2, <3>3 DEF QuerySeq
  <2>7. queries_in_flight' \in [num : 0..SHUTDOWN_NUM, seq : 0..MaxOutput] \cup {None}
    BY <2>1, <2>5, <2>6 DEF InFlight, Kinds
  <2>8. /\ UNCHANGED <<ready, child, background, written, more, child_exit, child_reaped,
                       drained_this_pass, shutdown_in_progress, last_remote, remote,
                       acked, told, polled>>
        /\ pc' = "reap"
    BY <1>9 DEF Tick, processes, exits, ending, client
  <2> QED  BY <1>r, <2>3, <2>4, <2>7, <2>8 DEF Kinds, Phase
<1>10. CASE Reap
  <2>1. /\ child_reaped' \in BOOLEAN /\ child_exit' \in BOOLEAN
        /\ shutdown_in_progress' \in BOOLEAN
        /\ shutdown_in_progress => shutdown_in_progress'
        /\ drained_this_pass' \in BOOLEAN /\ pc' \in Phase
    BY <1>10 DEF Reap, Finished, Phase, Kinds
  <2> QED  BY <1>r, <1>10, <2>1 DEF Reap, Kinds, processes, client, numbers
<1> QED  BY <1>1, <1>2, <1>3, <1>4, <1>5, <1>6, <1>7, <1>8, <1>9, <1>10 DEF Next, Pass

--------------------------------------------------------------------------------
(* Output.                                                                 *)

(* So is what a pass knows of the output it polled.                        *)
LEMMA OutputStep ==
  ASSUME Kinds, Kinds', Output, Next
  PROVE  Output'
<1>0. /\ current.shown \in Nat /\ current.shown <= written /\ written \in Nat
      /\ polled \in Nat /\ polled <= written
      /\ current'.shown \in Nat /\ polled' \in Nat
  BY Bounds DEF Kinds, Screen
<1>o. /\ shutdown_in_progress => child_exit /\ current.shown >= polled
      /\ pc = "poll" /\ child_exit => shutdown_in_progress
      /\ pc \in {"recv", "read"} /\ current.shown < polled => "master" \in ready /\ ~child_exit
      /\ pc \in {"write", "tick", "reap"} =>
           current.shown >= polled \/ (drained_this_pass /\ ~child_exit)
  BY DEF Output
<1>1. CASE \/ ChildWrites \/ BackgroundWrites \/ ChildExits
           \/ ShutdownAckTimesOut \/ GiveUp \/ Ended
  <2>1. /\ UNCHANGED <<ready, current, polled, child_exit, drained_this_pass,
                       shutdown_in_progress>>
        /\ pc' = pc \/ pc' = "ended"
    BY <1>1 DEF ChildWrites, BackgroundWrites, ChildExits, ShutdownAckTimesOut, GiveUp,
                Ended, vars, exits, ending
  <2> QED  BY <1>o, <2>1 DEF Output
<1>3. CASE Poll
  BY <1>0, <1>o, <1>3 DEF Poll, Output, Unread, exits, ending
<1>4. CASE Recv
  <2>1. current'.shown = current.shown
    BY <1>4, EventsSame DEF Recv
  <2> QED  BY <1>o, <1>4, <2>1 DEF Recv, Output, exits, ending
<1>5. CASE NothingReceived
  BY <1>o, <1>5 DEF NothingReceived, Output, exits, ending
<1>6. CASE Read
  <2>1. ~child_exit /\ ~shutdown_in_progress
    BY <1>6 DEF Read, Reads
  <2> QED  BY <1>6, <2>1 DEF Read, ReadDone, Output, ending
<1>7. CASE ReadEnds \/ ReadBlocks \/ ReadNothing
  <2>1. CASE ReadEnds
    BY <1>0, <2>1 DEF ReadEnds, ReadDone, Reads, Unread, Output, ending
  <2>2. CASE ReadBlocks
    BY <1>0, <2>2 DEF ReadBlocks, ReadDone, Reads, Output, ending
  <2>3. CASE ReadNothing
    <3>1. current.shown >= polled
      BY <1>0, <1>o, <2>3 DEF ReadNothing, Reads, ReadDone
    <3>2. /\ UNCHANGED <<child_exit, current, polled, shutdown_in_progress>>
          /\ pc' = "write"
      BY <2>3 DEF ReadNothing, ReadDone, ending
    <3> QED  BY <1>o, <3>1, <3>2 DEF Output
  <2> QED  BY <1>7, <2>1, <2>2, <2>3
<1>8. CASE Write \/ WriteFails \/ WriteNothing
  BY <1>0, <1>o, <1>8 DEF Write, WriteFails, WriteNothing, Written, Output, ending
<1>9. CASE Tick
  <2>1. current'.shown = current.shown
    <3>1. PICK screen \in Echoed(current) : \E flight : current' = Cleared(screen, flight)
      BY <1>9 DEF Tick
    <3> QED  BY <3>1, EchoedSame, ClearedSame DEF Kinds
  <2> QED  BY <1>o, <1>9, <2>1 DEF Tick, Output, exits, ending
<1>10. CASE Reap
  <2>1. PICK reaped : /\ child_exit' = Finished(reaped)
                      /\ shutdown_in_progress' = (shutdown_in_progress \/ Finished(reaped))
                      /\ UNCHANGED <<current, polled>>
                      /\ pc = "reap" /\ pc' \in {"poll", "ended"}
    BY <1>10 DEF Reap
  <2>2. Finished(reaped) => current.shown >= polled
    BY <1>o, <2>1 DEF Finished
  <2>3. shutdown_in_progress => Finished(reaped)
    BY <1>o DEF Finished
  <2> QED  BY <2>1, <2>2, <2>3 DEF Output
<1> QED  BY <1>1, <1>3, <1>4, <1>5, <1>6, <1>7, <1>8, <1>9, <1>10 DEF Next, Pass

--------------------------------------------------------------------------------
(* Keystrokes.                                                             *)

Underway == IF pc \in {"recv", "read", "write"} THEN Pending ELSE pending_to_host
Heard(s) == Only(s, Nat \ {Reply})

(* Sequences of bytes are joined in any grouping.                          *)
LEMMA BytesJoin ==
  \A x, y, z \in Seq(Byte) : x \o (y \o z) = (x \o y) \o z
BY Associative

(* The keys from one to another are bytes, all of them heard.              *)
LEMMA TypedType ==
  ASSUME NEW first \in Nat \ {0}, NEW last \in Nat, first <= last + 1, last <= MaxInput
  PROVE  /\ Typed(first, last) \in Seq(Byte)
         /\ Heard(Typed(first, last)) = Typed(first, last)
<1> DEFINE n == last - first + 1
           events == [i \in 1..n |-> first + i - 1]
           V == (1..MaxInput) \cap (Nat \ Resizes)
<1>1. n \in Nat /\ MaxInput \in Nat
  BY Bounds
<1>2. events \in Seq(1..MaxInput)
  <2>1. events \in [1..n -> 1..MaxInput]
    BY <1>1
  <2> HIDE DEF events, n
  <2> QED  BY <1>1, <2>1
<1>3. Typed(first, last) = Only(events, Nat \ Resizes)
  BY DEF Typed
<1> HIDE DEF events
<1>4. Typed(first, last) \in Seq(V)
  BY <1>2, <1>3, OnlyType
<1> DEFINE keys == Typed(first, last)
<1> HIDE DEF keys
<1>5. keys \in Seq(V) /\ \A i \in 1..Len(keys) : keys[i] \in V
  BY <1>4 DEF keys
<1>6. \A i \in 1..Len(keys) : keys[i] \in Nat \ {Reply}
  BY <1>5 DEF Reply
<1>7. Heard(keys) = keys
  BY <1>5, <1>6, OnlyAll DEF Heard
<1>8. keys \in Seq(Byte)
  <2>1. V \subseteq Byte
    BY DEF Byte
  <2> HIDE DEF V
  <2> QED  BY <1>5, <2>1, SeqMonotonic
<1> QED  BY <1>7, <1>8 DEF keys

(* Events heard in two instalments are the events.                         *)
LEMMA TypedJoins ==
  ASSUME NEW k \in Nat, NEW n \in Nat, k <= n
  PROVE  Typed(1, n) = Typed(1, k) \o Typed(k + 1, n)
<1> DEFINE a == [i \in 1..k |-> i]
           b == [i \in 1..(n - k) |-> k + i]
           c == [i \in 1..n |-> i]
<1>1. /\ 1..(k - 1 + 1) = 1..k /\ 1..(n - 1 + 1) = 1..n
      /\ 1..(n - (k + 1) + 1) = 1..(n - k) /\ n - k \in Nat
  OBVIOUS
<1>2. /\ [i \in 1..(k - 1 + 1) |-> 1 + i - 1] = a
      /\ [i \in 1..(n - 1 + 1) |-> 1 + i - 1] = c
      /\ [i \in 1..(n - (k + 1) + 1) |-> (k + 1) + i - 1] = b
  BY <1>1
<1>3. a \in Seq(Nat) /\ b \in Seq(Nat) /\ c \in Seq(Nat)
  <2>1. a \in [1..k -> Nat] /\ b \in [1..(n - k) -> Nat] /\ c \in [1..n -> Nat]
    OBVIOUS
  <2> HIDE DEF a, b, c
  <2>2. \A m \in Nat : \A f \in [1..m -> Nat] : f \in Seq(Nat)
    OBVIOUS
  <2> QED  BY <1>1, <2>1, <2>2, Zenon
<1>4. c = a \o b
  <2>1. Len(a) = k /\ Len(b) = n - k /\ Len(c) = n
    BY <1>1
  <2>2. /\ Len(a \o b) = n /\ a \o b \in Seq(Nat)
        /\ \A i \in 1..n : (a \o b)[i] = IF i <= k THEN a[i] ELSE b[i - k]
    <3> HIDE DEF a, b
    <3>1. /\ a \o b \in Seq(Nat) /\ Len(a \o b) = Len(a) + Len(b)
          /\ \A i \in 1..Len(a) + Len(b) :
               (a \o b)[i] = IF i <= Len(a) THEN a[i] ELSE b[i - Len(a)]
      BY <1>3, ConcatProperties, Zenon
    <3>2. Len(a) + Len(b) = n
      BY <1>1, <2>1
    <3> QED  BY <2>1, <3>1, <3>2
  <2>3. \A i \in 1..n : c[i] = (a \o b)[i]
    <3> TAKE i \in 1..n
    <3>1. (a \o b)[i] = IF i <= k THEN a[i] ELSE b[i - k]
      BY <2>2
    <3>2. (IF i <= k THEN a[i] ELSE b[i - k]) = i
      BY i <= k => i \in 1..k, ~(i <= k) => i - k \in 1..(n - k)
    <3> QED  BY <3>1, <3>2
  <2> HIDE DEF a, b, c
  <2> QED  BY <1>3, <2>1, <2>2, <2>3, SeqEqual
<1>5. /\ Typed(1, k) = Only(a, Nat \ Resizes)
      /\ Typed(k + 1, n) = Only(b, Nat \ Resizes)
      /\ Typed(1, n) = Only(c, Nat \ Resizes)
  <2> HIDE DEF a, b, c
  <2> QED  BY <1>2 DEF Typed
<1> HIDE DEF a, b, c
<1> QED  BY <1>3, <1>4, <1>5, OnlyConcat

(* What is heard of two sequences is heard of one and then the other.      *)
LEMMA HeardConcat ==
  ASSUME NEW s \in Seq(Byte), NEW t \in Seq(Byte)
  PROVE  Heard(s \o t) = Heard(s) \o Heard(t)
BY OnlyConcat DEF Heard

(* As much of a sequence as is moved from its front to the end of another  *)
(* leaves the two together as they were.                                   *)
LEMMA Moved ==
  ASSUME NEW s \in Seq(Byte), NEW t \in Seq(Byte), NEW n \in 0..Len(t)
  PROVE  LET front == SubSeq(t, 1, n)
             back == SubSeq(t, n + 1, Len(t))
         IN  /\ front \in Seq(Byte) /\ back \in Seq(Byte)
             /\ (s \o front) \o back = s \o t
<1> DEFINE front == SubSeq(t, 1, n)
           back == SubSeq(t, n + 1, Len(t))
<1>1. front \in Seq(Byte) /\ back \in Seq(Byte)
  <2>1. Len(t) \in Nat
    OBVIOUS
  <2>2. \A i \in 1..n : i \in 1..Len(t)
    BY <2>1
  <2>3. \A i \in (n + 1)..Len(t) : i \in 1..Len(t)
    BY <2>1
  <2> QED  BY <2>1, <2>2, <2>3, SubSeqProperties
<1>2. front \o back = t
  <2>1. SubSeq(t, 1, n) \o SubSeq(t, n + 1, Len(t)) = SubSeq(t, 1, Len(t))
    <3>1. 1 \in 1..(Len(t) + 1) /\ n \in (1 - 1)..Len(t) /\ Len(t) \in n..Len(t)
      OBVIOUS
    <3> QED  BY <3>1, ConcatAdjacentSubSeq
  <2>2. SubSeq(t, 1, Len(t)) = t
    BY SubSeqFull
  <2> QED  BY <2>1, <2>2
<1> HIDE DEF front, back
<1>3. (s \o front) \o back = s \o t
  <2>1. (s \o front) \o back = s \o (front \o back)
    BY <1>1, BytesJoin, Zenon
  <2> QED  BY <1>2, <2>1
<1> QED  BY <1>1, <1>2, <1>3 DEF front, back

(* Bytes that join the end of those under way are heard last.              *)
LEMMA Joined ==
  ASSUME Keys, NEW T \in Seq(Byte), terminal_to_host' = terminal_to_host \o T,
         UNCHANGED <<pending_to_host, host_input>>
  PROVE  /\ terminal_to_host' \in Seq(Byte)
         /\ Heard(host_input' \o Pending') = Heard(host_input \o Pending) \o Heard(T)
<1>1. /\ terminal_to_host \in Seq(Byte) /\ pending_to_host \in Seq(Byte)
      /\ host_input \in Seq(Byte)
  BY DEF Keys
<1>2. /\ Pending \in Seq(Byte) /\ host_input \o Pending \in Seq(Byte)
      /\ terminal_to_host' \in Seq(Byte)
  BY <1>1, ConcatProperties DEF Pending
<1>3. Pending' = Pending \o T
  <2>1. Pending' = pending_to_host \o (terminal_to_host \o T)
    BY DEF Pending
  <2>2. pending_to_host \o (terminal_to_host \o T) = (pending_to_host \o terminal_to_host) \o T
    BY <1>1, BytesJoin, Zenon
  <2> QED  BY <2>1, <2>2 DEF Pending
<1>4. host_input' \o Pending' = (host_input \o Pending) \o T
  <2>1. (host_input \o Pending) \o T = host_input \o (Pending \o T)
    <3>1. host_input \in Seq(Byte) /\ Pending \in Seq(Byte) /\ T \in Seq(Byte)
      BY <1>1, <1>2
    <3> QED  BY <3>1, BytesJoin, Zenon
  <2> QED  BY <1>3, <2>1
<1>5. Heard((host_input \o Pending) \o T) = Heard(host_input \o Pending) \o Heard(T)
  BY <1>2, HeardConcat
<1> QED  BY <1>2, <1>4, <1>5

(* The keys typed are those on their way and those read, after every step. *)
LEMMA KeysStep ==
  ASSUME Kinds, Keys, Next
  PROVE  Keys'
<1>1. /\ terminal_to_host \in Seq(Byte) /\ pending_to_host \in Seq(Byte)
      /\ host_input \in Seq(Byte) /\ Pending \in Seq(Byte)
  BY ConcatProperties DEF Keys, Pending
<1>2. /\ last_remote.events \in Nat /\ last_remote.events <= MaxInput
      /\ remote.events \in Nat /\ last_remote.events <= remote.events
  BY Bounds DEF Kinds, Keys, RemoteState
<1>3. Heard(host_input \o Pending) = Typed(1, last_remote.events)
  <2>1. Underway = Pending
    <3>1. pc \notin {"recv", "read", "write"} => Pending = pending_to_host
      BY <1>1, ConcatEmptySeq DEF Keys, Pending
    <3> QED  BY <3>1 DEF Underway
  <2>2. Heard(host_input \o Underway) = Typed(1, last_remote.events)
    BY Zenon DEF Keys, KeysInOrder, Heard, Underway
  <2> QED  BY <2>1, <2>2
<1> DEFINE Kept == /\ terminal_to_host' \in Seq(Byte) /\ pending_to_host' \in Seq(Byte)
                   /\ host_input' \in Seq(Byte)
                   /\ pc' \notin {"recv", "read", "write"} => terminal_to_host' = <<>>
                   /\ last_remote'.events <= remote'.events
                   /\ Heard(host_input' \o Pending') = Typed(1, last_remote'.events)
<1>4. ASSUME \/ ChildWrites \/ BackgroundWrites \/ ChildExits
             \/ ShutdownAckTimesOut \/ GiveUp \/ Ended \/ Poll
             \/ NothingReceived \/ Tick \/ Reap
      PROVE  Kept
  <2>1. /\ UNCHANGED <<terminal_to_host, pending_to_host, host_input, last_remote, remote>>
        /\ pc' = pc \/ pc \notin {"read", "write"}
        /\ pc' \in {"recv", "read", "write"} \/ pc \notin {"recv", "read", "write"}
    BY <1>4 DEF ChildWrites, BackgroundWrites, ChildExits, ShutdownAckTimesOut, GiveUp,
                Ended, Poll, NothingReceived, Tick, Reap, vars, io, client
  <2>2. Pending' = Pending
    BY <2>1 DEF Pending
  <2> QED  BY <1>1, <1>2, <1>3, <2>1, <2>2 DEF Keys
<1>5. ASSUME Recv PROVE Kept
  <2>1. PICK state \in RemoteState :
          /\ state = remote \/ state.events >= remote.events
          /\ remote' = state
          /\ \/ /\ last_remote' = state
                /\ terminal_to_host' =
                     terminal_to_host \o Typed(last_remote.events + 1, state.events)
             \/ UNCHANGED <<last_remote, terminal_to_host>>
    BY <1>5 DEF Recv
  <2>2. pc' = "read" /\ UNCHANGED <<pending_to_host, host_input>>
    BY <1>5 DEF Recv
  <2>3. /\ state.events \in Nat /\ state.events <= MaxInput
        /\ last_remote.events <= state.events
    BY <1>2, <2>1, Bounds DEF RemoteState
  <2>4. CASE UNCHANGED <<last_remote, terminal_to_host>>
    <3>1. Pending' = Pending
      BY <2>2, <2>4 DEF Pending
    <3> QED  BY <1>1, <1>3, <2>1, <2>2, <2>3, <2>4, <3>1
  <2>5. CASE /\ last_remote' = state
             /\ terminal_to_host' =
                  terminal_to_host \o Typed(last_remote.events + 1, state.events)
    <3> DEFINE T == Typed(last_remote.events + 1, state.events)
    <3>1. T \in Seq(Byte) /\ Heard(T) = T
      BY <1>2, <2>3, TypedType
    <3>2. Typed(1, state.events) = Typed(1, last_remote.events) \o T
      BY <1>2, <2>3, TypedJoins
    <3> HIDE DEF T
    <3>3. terminal_to_host' = terminal_to_host \o T
      BY <2>5 DEF T
    <3>4. /\ terminal_to_host' \in Seq(Byte)
          /\ Heard(host_input' \o Pending') = Heard(host_input \o Pending) \o Heard(T)
      BY <2>2, <3>1, <3>3, Joined
    <3>5. Heard(host_input' \o Pending') = Typed(1, last_remote'.events)
      BY <1>3, <2>5, <3>1, <3>2, <3>4
    <3> QED  BY <1>1, <2>1, <2>2, <2>3, <2>5, <3>4, <3>5
  <2> QED  BY <2>1, <2>4, <2>5
<1>6. ASSUME Read PROVE Kept
  <2>1. PICK acted : /\ IsFiniteSet(acted)
                     /\ terminal_to_host' =
                          terminal_to_host \o
                            [i \in 1..Cardinality(acted \cap DeviceQueries) |-> Reply]
    <3>1. PICK n \in current.shown..written :
            terminal_to_host' =
              terminal_to_host \o
                [i \in 1..Cardinality(((current.shown + 1)..n) \cap DeviceQueries) |-> Reply]
      BY <1>6 DEF Read
    <3>2. current.shown \in Nat /\ n \in Int
      BY Bounds DEF Kinds, Screen
    <3>3. IsFiniteSet((current.shown + 1)..n)
      BY <3>2, FS_Interval
    <3> QED  BY <3>1, <3>3
  <2>2. /\ pc' = "write" /\ UNCHANGED <<pending_to_host, host_input>>
        /\ UNCHANGED <<last_remote, remote>>
    BY <1>6 DEF Read, ReadDone, client
  <2> DEFINE k == Cardinality(acted \cap DeviceQueries)
             T == [i \in 1..k |-> Reply]
  <2>3. k \in Nat
    BY <2>1, FS_Subset, FS_CardinalityType
  <2>4. T \in Seq(Byte) /\ \A i \in 1..Len(T) : T[i] \notin Nat \ {Reply}
    <3> HIDE DEF k
    <3>1. T \in [1..k -> Byte] /\ Len(T) = k
      BY <2>3 DEF Byte
    <3> QED  BY <2>3, <3>1
  <2>5. terminal_to_host' = terminal_to_host \o T
    BY <2>1
  <2> HIDE DEF T
  <2>6. Heard(T) = <<>>
    BY <2>4, OnlyNone DEF Heard
  <2>7. /\ terminal_to_host' \in Seq(Byte)
        /\ Heard(host_input' \o Pending') = Heard(host_input \o Pending) \o Heard(T)
    BY <2>2, <2>4, <2>5, Joined
  <2>8. Heard(host_input \o Pending) \o <<>> = Heard(host_input \o Pending)
    <3>1. host_input \o Pending \in Seq(Byte)
      BY <1>1, ConcatProperties
    <3>2. Heard(host_input \o Pending) \in Seq(Byte \cap (Nat \ {Reply}))
      BY <3>1, OnlyType DEF Heard
    <3> QED  BY <3>2, ConcatEmptySeq
  <2> QED  BY <1>1, <1>2, <1>3, <2>2, <2>6, <2>7, <2>8
<1>7. ASSUME ReadEnds \/ ReadBlocks \/ ReadNothing PROVE Kept
  <2>1. /\ UNCHANGED <<terminal_to_host, pending_to_host, host_input, last_remote, remote>>
        /\ pc' = "write"
    BY <1>7 DEF ReadEnds, ReadBlocks, ReadNothing, ReadDone, client
  <2>2. Pending' = Pending
    BY <2>1 DEF Pending
  <2> QED  BY <1>1, <1>2, <1>3, <2>1, <2>2
<1>8. ASSUME Write \/ WriteFails \/ WriteNothing PROVE Kept
  <2>1. /\ terminal_to_host' = <<>> /\ UNCHANGED <<last_remote, remote>>
        /\ \/ \E n \in 0..Len(Pending) : TakenByPty(n)
           \/ pending_to_host' = Pending /\ host_input' = host_input
    BY <1>8 DEF Write, WriteFails, WriteNothing, Written, client
  <2>2. /\ pending_to_host' \in Seq(Byte) /\ host_input' \in Seq(Byte)
        /\ host_input' \o pending_to_host' = host_input \o Pending
    <3>1. CASE \E n \in 0..Len(Pending) : TakenByPty(n)
      <4>1. PICK n \in 0..Len(Pending) : TakenByPty(n)
        BY <3>1
      <4>2. /\ host_input' = host_input \o SubSeq(Pending, 1, n)
            /\ pending_to_host' = SubSeq(Pending, n + 1, Len(Pending))
        BY <4>1 DEF TakenByPty
      <4>3. /\ SubSeq(Pending, 1, n) \in Seq(Byte)
            /\ SubSeq(Pending, n + 1, Len(Pending)) \in Seq(Byte)
            /\ (host_input \o SubSeq(Pending, 1, n)) \o SubSeq(Pending, n + 1, Len(Pending))
                 = host_input \o Pending
        BY <1>1, Moved
      <4> QED  BY <1>1, <4>2, <4>3, ConcatProperties
    <3>2. CASE pending_to_host' = Pending /\ host_input' = host_input
      BY <1>1, <3>2
    <3> QED  BY <2>1, <3>1, <3>2
  <2>3. Pending' = pending_to_host'
    BY <2>1, <2>2, ConcatEmptySeq DEF Pending
  <2>4. terminal_to_host' \in Seq(Byte)
    BY <2>1
  <2> QED  BY <1>2, <1>3, <2>1, <2>2, <2>3, <2>4
<1>9. Kept
  BY <1>4, <1>5, <1>6, <1>7, <1>8 DEF Next, Pass
<1>10. KeysInOrder'
  <2>1. Underway' = Pending'
    <3>1. pc' \notin {"recv", "read", "write"} => Pending' = pending_to_host'
      BY <1>9, ConcatEmptySeq DEF Pending
    <3> QED  BY <3>1 DEF Underway
  <2>2. Heard(host_input' \o Underway') = Typed(1, last_remote'.events)
    BY <1>9, <2>1
  <2> QED  BY <2>2, Zenon DEF KeysInOrder, Heard, Underway
<1> QED  BY <1>9, <1>10 DEF Keys

--------------------------------------------------------------------------------
(* Colour queries.                                                         *)

(* Of two prefixes of the output, the shorter asks no more, and as much    *)
(* only if it asks the same.                                               *)
LEMMA CountedSame ==
  ASSUME NEW k \in Nat, NEW n \in Nat, k <= n,
         Cardinality(Asked(k)) = Cardinality(Asked(n))
  PROVE  Asked(k) = Asked(n)
<1>1. IsFiniteSet(1..n)
  BY FS_Interval
<1>2. IsFiniteSet(Asked(n))
  BY <1>1, FS_Subset DEF Asked
<1>3. Asked(k) \in SUBSET Asked(n)
  BY DEF Asked
<1> QED  BY <1>2, <1>3, FS_Subset

(* A step that leaves the states sent and the queries in flight alone, and *)
(* takes nothing from the screen.                                          *)
LEMMA QueriesQuiet ==
  ASSUME Kinds, Kinds', QueriesKept, Carried,
         current'.shown = current.shown, current'.queries = current.queries,
         UNCHANGED <<sent, acked, queries_in_flight, told>>
  PROVE  QueriesKept' /\ Carried'
<1>1. QueriesKept'
  BY DEF QueriesKept
<1> QED  BY <1>1 DEF Carried, Asked

(* A state sent carries the queries in flight.                             *)
LEMMA QueriesTick ==
  ASSUME Kinds, Kinds', QueriesKept, Carried, Tick
  PROVE  QueriesKept' /\ Carried'
<1> DEFINE Holds(f, states) ==
             \E k \in 0..current.shown :
               /\ f.seq = Cardinality(Asked(k))
               /\ \A q \in Asked(k) :
                    \/ q \in told
                    \/ /\ acked < f.num
                       /\ \A n \in DOMAIN states : n >= f.num => q \in states[n].queries
<1>1. PICK screen \in Echoed(current) :
        /\ sent' \in Sent(screen)
        /\ LET flight == InFlight(screen, SentLast', sent' # sent)
           IN  /\ current' = Cleared(screen, flight)
               /\ queries_in_flight' =
                    IF flight # None /\ acked >= flight.num THEN None ELSE flight
  BY DEF Tick
<1> DEFINE flight == InFlight(screen, SentLast', sent' # sent)
<1>2. /\ screen \in Screen /\ screen.shown = current.shown
      /\ screen.queries = current.queries /\ current.shown \in Nat
  BY Bounds, EchoedSame DEF Kinds, Screen
<1>3. UNCHANGED <<acked, told>> /\ acked \in Nat /\ acked \in DOMAIN sent
  BY LastNumber DEF Tick, Kinds
<1>4. \A q \in Asked(current.shown) : q \in screen.queries \/ q \in told
  BY <1>2 DEF QueriesKept, Asked
<1>5. \A n \in DOMAIN sent' :
        \/ n \in DOMAIN sent /\ sent'[n] = sent[n]
        \/ sent'[n] = screen
  <2>1. sent' \in Sent(screen)  BY <1>1
  <2>2. CASE sent' = sent
    BY <2>2
  <2>3. CASE sent' # sent
    <3>1. PICK num \in 0..SHUTDOWN_NUM :
            /\ DOMAIN sent' = DOMAIN sent \cup {num} /\ sent'[num] = screen
            /\ \A n \in DOMAIN sent : sent'[n] = sent[n]
      BY <1>2, <2>1, <2>3, SentChoices
    <3> QED  BY <3>1
  <2> QED  BY <2>2, <2>3
<1>6. flight # None => flight.num \in Nat /\ Holds(flight, sent')
  <2>1. CASE flight = queries_in_flight
    <3> SUFFICES ASSUME queries_in_flight # None
                 PROVE  /\ queries_in_flight.num \in Nat
                        /\ Holds(queries_in_flight, sent')
      BY <2>1
    <3>1. queries_in_flight.num \in Nat
      BY Bounds DEF Kinds
    <3>2. PICK k \in 0..current.shown :
            /\ queries_in_flight.seq = Cardinality(Asked(k))
            /\ \A q \in Asked(k) :
                 \/ q \in told
                 \/ /\ acked < queries_in_flight.num
                    /\ \A n \in DOMAIN sent :
                         n >= queries_in_flight.num => q \in sent[n].queries
      BY DEF Carried
    <3>3. Asked(k) \subseteq Asked(current.shown)
      BY <1>2 DEF Asked
    <3>4. ASSUME NEW q \in Asked(k), q \notin told
          PROVE  /\ acked < queries_in_flight.num
                 /\ \A n \in DOMAIN sent' :
                      n >= queries_in_flight.num => q \in sent'[n].queries
      <4>1. q \in screen.queries  BY <1>4, <3>3, <3>4
      <4> QED  BY <1>5, <3>2, <3>4, <4>1
    <3> QED  BY <3>1, <3>2, <3>4
  <2>2. CASE flight # queries_in_flight
    <3>1. /\ flight = [num |-> SentLast', seq |-> QuerySeq(screen)]
          /\ sent' # sent
      BY <2>2 DEF InFlight
    <3>2. flight.num = SentLast' /\ flight.seq = QuerySeq(screen)
      BY <3>1
    <3> HIDE DEF flight
    <3>3. sent' \in Sent(screen)  BY <1>1
    <3>4. PICK num \in 0..SHUTDOWN_NUM :
            /\ DOMAIN sent' = DOMAIN sent \cup {num} /\ sent'[num] = screen
            /\ \A n \in DOMAIN sent : n < num
      BY <1>2, <3>1, <3>3, SentChoices
    <3>5. num \in Nat /\ \A n \in DOMAIN sent' : n \in Nat /\ n <= num
      BY <3>4, Bounds, LastNumber
    <3>6. SentLast' = num
      <4>1. DOMAIN sent' \in SUBSET Nat /\ DOMAIN sent' # {}  BY <3>4, <3>5
      <4>2. /\ SentLast' \in DOMAIN sent'
            /\ \A n \in DOMAIN sent' : n <= SentLast'
        BY <3>5, <4>1, GreatestNumber DEF SentLast
      <4> QED  BY <3>4, <3>5, <4>2
    <3>7. flight.seq = Cardinality(Asked(current.shown))
      BY <1>2, <3>2 DEF QuerySeq, Asked
    <3>8. \A n \in DOMAIN sent' : n >= num => n = num
      BY <3>5
    <3>9. acked < num /\ current.shown \in 0..current.shown
      BY <1>2, <1>3, <3>4
    <3> QED  BY <1>4, <3>2, <3>4, <3>5, <3>6, <3>7, <3>8, <3>9
  <2> QED  BY <2>1, <2>2
<1> HIDE DEF flight
<1>7. /\ current' = Cleared(screen, flight)
      /\ queries_in_flight' \in {None, flight}
  BY <1>1 DEF flight
<1>8. current'.shown = current.shown
  BY <1>2, <1>7, ClearedSame
<1>9. Carried'
  BY <1>3, <1>6, <1>7, <1>8 DEF Carried, Asked
<1>10. QueriesKept'
  <2>1. CASE flight # None /\ acked >= flight.num /\ QuerySeq(screen) = flight.seq
    <3>1. PICK k \in 0..current.shown :
            /\ flight.seq = Cardinality(Asked(k))
            /\ \A q \in Asked(k) : q \in told \/ acked < flight.num
      BY <1>6, <2>1
    <3>2. Asked(k) = Asked(current.shown)
      <4>1. Cardinality(Asked(k)) = Cardinality(Asked(current.shown))
        BY <1>2, <2>1, <3>1 DEF QuerySeq, Asked
      <4>2. k \in Nat /\ k <= current.shown  BY <1>2
      <4> QED  BY <1>2, <4>1, <4>2, CountedSame
    <3>3. ~(acked < flight.num)
      BY <1>3, <1>6, <2>1
    <3>4. \A q \in Asked(current.shown) : q \in told
      BY <3>1, <3>2, <3>3
    <3> QED  BY <1>3, <1>8, <3>4 DEF QueriesKept, Asked
  <2>2. CASE ~(flight # None /\ acked >= flight.num /\ QuerySeq(screen) = flight.seq)
    <3>1. current' = screen
      BY <1>7, <2>2 DEF Cleared
    <3> QED  BY <1>2, <1>3, <3>1 DEF QueriesKept
  <2> QED  BY <2>1, <2>2
<1> QED  BY <1>9, <1>10

(* So they stay in every state until the client was told.                  *)
LEMMA QueriesStep ==
  ASSUME Kinds, Kinds', QueriesKept, Carried, Next
  PROVE  QueriesKept' /\ Carried'
<1>0. /\ current \in Screen /\ current.shown \in Nat
      /\ \A q \in Asked(current.shown) : q \in current.queries \/ q \in told
  BY Bounds DEF Kinds, Screen, QueriesKept, Asked
<1>1. CASE \/ ChildWrites \/ BackgroundWrites \/ ChildExits
           \/ ShutdownAckTimesOut \/ GiveUp \/ Ended \/ Poll
           \/ NothingReceived \/ ReadEnds \/ ReadBlocks \/ ReadNothing
           \/ Write \/ WriteFails \/ WriteNothing \/ Reap
  <2>1. UNCHANGED <<current, sent, acked, queries_in_flight, told>>
    BY <1>1 DEF ChildWrites, BackgroundWrites, ChildExits, ShutdownAckTimesOut, GiveUp,
                Ended, Poll, NothingReceived, ReadEnds, ReadBlocks, ReadNothing, ReadDone,
                Write, WriteFails, WriteNothing, Written, Reap, vars, numbers
  <2> QED  BY <2>1, QueriesQuiet
<1>2. CASE Read
  <2>1. PICK n \in current.shown..written :
          current' = [current EXCEPT !.shown = n,
                        !.queries = @ \cup (((current.shown + 1)..n) \cap ColorQueries)]
    BY <1>2 DEF Read
  <2>2. /\ current'.shown = n
        /\ current'.queries = current.queries \cup (((current.shown + 1)..n) \cap ColorQueries)
    BY <1>0, <2>1 DEF Screen
  <2>3. UNCHANGED <<sent, acked, queries_in_flight, told>>
    BY <1>2 DEF Read, ReadDone, numbers
  <2>4. n \in Nat /\ current.shown <= n
    BY <1>0 DEF Kinds
  <2>5. QueriesKept'
    <3> SUFFICES ASSUME NEW q \in 1..n \cap ColorQueries
                 PROVE  q \in current'.queries \/ q \in told
      BY <2>2, <2>3 DEF QueriesKept
    <3>1. q \in Asked(current.shown) \/ q \in (current.shown + 1)..n
      BY <1>0, <2>4 DEF Asked
    <3> QED  BY <1>0, <2>2, <3>1
  <2>6. 0..current.shown \subseteq 0..n
    BY <1>0, <2>4
  <2>7. Carried'
    BY <2>2, <2>3, <2>6 DEF Carried, Asked
  <2> QED  BY <2>5, <2>7
<1>3. CASE Recv
  <2>1. current'.shown = current.shown /\ current'.queries = current.queries
    BY <1>3, EventsSame DEF Recv
  <2>2. /\ queries_in_flight' = queries_in_flight
        /\ told' = told \cup sent[acked'].queries
        /\ acked' \in DOMAIN sent /\ acked \in Nat /\ acked' \in Nat
    BY <1>3, LastNumber DEF Recv, Kinds
  <2>3. /\ DOMAIN sent' \subseteq DOMAIN sent
        /\ \A n \in DOMAIN sent' : sent'[n] = sent[n]
    BY <1>3 DEF Recv
  <2>4. QueriesKept'
    BY <2>1, <2>2 DEF QueriesKept
  <2>5. Carried'
    <3> SUFFICES ASSUME queries_in_flight # None
                 PROVE  \E k \in 0..current.shown :
                          /\ queries_in_flight.seq = Cardinality(Asked(k))
                          /\ \A q \in Asked(k) :
                               \/ q \in told'
                               \/ /\ acked' < queries_in_flight.num
                                  /\ \A n \in DOMAIN sent' :
                                       n >= queries_in_flight.num => q \in sent'[n].queries
      BY <2>1, <2>2 DEF Carried, Asked
    <3>1. PICK k \in 0..current.shown :
            /\ queries_in_flight.seq = Cardinality(Asked(k))
            /\ \A q \in Asked(k) :
                 \/ q \in told
                 \/ /\ acked < queries_in_flight.num
                    /\ \A n \in DOMAIN sent :
                         n >= queries_in_flight.num => q \in sent[n].queries
      BY DEF Carried
    <3>2. queries_in_flight.num \in Nat
      BY Bounds DEF Kinds
    <3>3. ASSUME NEW q \in Asked(k), q \notin told'
          PROVE  /\ acked' < queries_in_flight.num
                 /\ \A n \in DOMAIN sent' :
                      n >= queries_in_flight.num => q \in sent'[n].queries
      <4>1. q \notin told /\ q \notin sent[acked'].queries
        BY <2>2, <3>3
      <4>2. \A n \in DOMAIN sent : n >= queries_in_flight.num => q \in sent[n].queries
        BY <3>1, <4>1
      <4>3. ~(acked' >= queries_in_flight.num)
        BY <2>2, <4>1, <4>2
      <4> QED  BY <2>2, <2>3, <3>2, <4>2, <4>3
    <3> QED  BY <3>1, <3>3
  <2> QED  BY <2>4, <2>5
<1>4. CASE Tick
  BY <1>4, QueriesTick
<1> QED  BY <1>1, <1>2, <1>3, <1>4 DEF Next, Pass

--------------------------------------------------------------------------------
(* The theorems.                                                           *)

IInv == Kinds /\ Keys /\ Output /\ QueriesKept /\ Carried

(* Of every reachable state of the server's loop: the invariant.           *)
THEOREM Invariance == Spec => []IInv
<1>1. Init => IInv
  <2> SUFFICES ASSUME Init PROVE IInv
    OBVIOUS
  <2>1. /\ InitialScreen \in Screen /\ InitialScreen.shown = 0
        /\ InitialScreen.queries = {}
    BY Bounds DEF InitialScreen, Screen
  <2>2. DOMAIN sent = {0} /\ sent[0] = InitialScreen /\ SHUTDOWN_NUM # 0
    BY ServeConstants DEF Init
  <2>3. Kinds
    <3>1. last_remote \in RemoteState /\ remote \in RemoteState
      BY Bounds DEF Init, RemoteState
    <3>2. /\ DOMAIN sent \subseteq 0..SHUTDOWN_NUM /\ acked \in DOMAIN sent
          /\ \A n \in DOMAIN sent : sent[n] \in Screen
          /\ SHUTDOWN_NUM \notin DOMAIN sent
      BY <2>1, <2>2, Bounds DEF Init
    <3>3. written \in 0..MaxOutput /\ polled \in 0..written /\ current.shown <= written
      BY <2>1, Bounds DEF Init
    <3> QED  BY <2>1, <3>1, <3>2, <3>3 DEF Init, Kinds, Phase
  <2>4. Output
    BY DEF Init, Output
  <2>7. Keys
    <3>1. <<>> \in Seq(Byte) /\ last_remote.events = 0 /\ remote.events = 0
      BY DEF Init
    <3>0. \A K : Only(<<>>, K) = <<>>
      <4> TAKE K
      <4>1. \A n \in 1..Len(<<>>) : <<>>[n] \notin K
        OBVIOUS
      <4> QED  BY <3>1, <4>1, OnlyNone
    <3>2. Typed(1, 0) = <<>>
      <4>1. [i \in 1..(0 - 1 + 1) |-> 1 + i - 1] = <<>>
        OBVIOUS
      <4>2. Only(<<>>, Nat \ Resizes) = <<>>
        BY <3>0
      <4> QED  BY <4>1, <4>2 DEF Typed
    <3>3. Only(<<>> \o <<>>, Nat \ {Reply}) = <<>>
      <4>1. <<>> \o <<>> = <<>>
        BY <3>1, ConcatEmptySeq
      <4> QED  BY <3>0, <4>1
    <3>4. KeysInOrder
      BY <3>1, <3>2, <3>3 DEF Init, KeysInOrder
    <3> QED  BY <3>1, <3>4 DEF Init, Keys
  <2>5. QueriesKept
    BY <2>1 DEF Init, QueriesKept
  <2>6. Carried
    BY DEF Init, Carried
  <2> QED  BY <2>3, <2>4, <2>5, <2>6, <2>7 DEF IInv
<1>2. IInv /\ [Next]_vars => IInv'
  <2> SUFFICES ASSUME IInv, [Next]_vars PROVE IInv'
    OBVIOUS
  <2>1. CASE Next
    <3>1. Kinds'  BY <2>1, KindsStep DEF IInv
    <3> QED  BY <2>1, <3>1, KeysStep, OutputStep, QueriesStep DEF IInv
  <2>2. CASE UNCHANGED vars
    <3>1. UNCHANGED <<Pending, Underway>>
      BY <2>2 DEF vars, io, Pending, Underway
    <3>2. UNCHANGED <<pc, terminal_to_host, pending_to_host, host_input, last_remote, remote>>
      BY <2>2 DEF vars, io, client
    <3>3. Keys'
      BY <3>1, <3>2 DEF IInv, Keys, KeysInOrder
    <3> QED  BY <2>2, <3>3 DEF IInv, Kinds, Output, QueriesKept, Carried, vars, processes,
                exits, client, ending, numbers
  <2> QED  BY <2>1, <2>2
<1> QED  BY <1>1, <1>2, PTL DEF Spec

(* Whatever the child writes and whenever it exits, what a poll found to   *)
(* read is on the screen before the pass may begin the shutdown.           *)
THEOREM AlwaysShown == Spec => []PolledOutputShown
<1>1. IInv => PolledOutputShown
  BY DEF IInv, Output, PolledOutputShown
<1> QED  BY <1>1, Invariance, PTL

(* No colour query is cleared before the client was told of it, however    *)
(* queries, screens, losses and acknowledgements interleave.               *)
THEOREM AlwaysKept == Spec => []QueriesKept
<1>1. IInv => QueriesKept
  BY DEF IInv
<1> QED  BY <1>1, Invariance, PTL

(* What the client types reaches the child in order and once, whatever     *)
(* part of it the pty takes at a time, and with nothing but the replies of *)
(* our own terminal in between.                                            *)
THEOREM AlwaysInOrder == Spec => []KeysInOrder
<1>1. IInv => KeysInOrder
  BY DEF IInv, Keys
<1> QED  BY <1>1, Invariance, PTL

(* Every variable of the loop keeps its type.                              *)
THEOREM TypeCorrect == Spec => []TypeOK
<1>1. IInv => TypeOK
  <2> SUFFICES ASSUME IInv PROVE TypeOK
    OBVIOUS
  <2>1. written \in 0..MaxOutput /\ polled \in 0..MaxOutput
    BY Bounds DEF IInv, Kinds
  <2> QED  BY <2>1 DEF IInv, Kinds, Keys, TypeOK
<1> QED  BY <1>1, Invariance, PTL
================================================================================
