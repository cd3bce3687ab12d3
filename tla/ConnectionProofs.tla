---------------------------- MODULE ConnectionProofs ----------------------------
(***************************************************************************)
(* No answer is ever under way to a socket the client has closed, for any  *)
(* intervals as far apart as ConnectionConstants says, any delays and any  *)
(* roaming.  The argument: hops are more than PORT_HOP_INTERVAL apart, so  *)
(* the newest port was chosen the later after a port's last datagram the   *)
(* more ports are newer than it; a port closed for its rank or its age is  *)
(* therefore one nobody has answered for longer than Answered.             *)
(***************************************************************************)
EXTENDS Connection, SequenceTheorems, TLAPS

(* What `drain(..k)` and `retain` on an ordered queue leave: a suffix.     *)
LEMMA SuffixProperties ==
  ASSUME NEW S, NEW q \in Seq(S), NEW k \in 1..Len(q)
  PROVE  /\ SubSeq(q, k, Len(q)) \in Seq(S)
         /\ Len(SubSeq(q, k, Len(q))) = Len(q) - k + 1
         /\ \A i \in 1..(Len(q) - k + 1) :
              SubSeq(q, k, Len(q))[i] = q[k + i - 1]
<1>1. \A i \in k..Len(q) : q[i] \in S
  OBVIOUS
<1> QED  BY <1>1, SubSeqProperties

(* The least time it takes to hop n more times.                            *)
Gap(n) == n * (PORT_HOP_INTERVAL + 1)

(* A client's ports: consecutive, the newest last.                         *)
Ports(s) ==
  /\ s \in Seq(Nat) /\ Len(s) >= 1
  /\ \A i \in DOMAIN s : s[i] = Last(s) - Len(s) + i

(* A port something was sent from at t: it was the newest then, and it is  *)
(* open for as long as the server may answer.                              *)
Known(ports, choice, time, port, t) ==
  /\ port <= Last(ports) /\ t <= time
  /\ port < Last(ports) => Gap(Last(ports) - port - 1) + t <= choice
  /\ port \in Range(ports) \/ time > t + Answered

KnownNow(port, t) == Known(socks, last_port_choice, now, port, t)

(* The server's bookkeeping is that of the newest datagram it ever got.    *)
FollowsNewest ==
  IF newest = None THEN expected_receiver_seq["server"] = 0 /\ remote_addr = None
  ELSE /\ expected_receiver_seq["server"] = newest.seq + 1
       /\ TargetsNewest
       /\ KnownNow(newest.from.port, newest.sent)
       /\ newest.came <= newest.sent + MaxDelay
       /\ last_heard = newest.came

(* The client was heard not long ago, or the server is about to send again *)
(* and will then see that it was not.                                      *)
HeardInTime ==
  remote_addr # None =>
    \/ now <= last_heard + SERVER_ASSOCIATION_TIMEOUT
    \/ /\ sent_at["server"] <= last_heard + SERVER_ASSOCIATION_TIMEOUT
       /\ now <= sent_at["server"] + SendInterval

(* What is under way was sent from, or soon after from, a known port.      *)
Recent(d) ==
  /\ d.at <= now /\ now <= d.at + MaxDelay
  /\ d.by = "client" => KnownNow(d.client.port, d.at)
  /\ d.by = "server" =>
       /\ KnownNow(d.client.port, d.answers)
       /\ d.at <= d.answers + MaxDelay + SERVER_ASSOCIATION_TIMEOUT + SendInterval

Underway == \A d \in net : Recent(d)

IInv == TypeOK /\ FollowsNewest /\ HeardInTime /\ Underway

--------------------------------------------------------------------------------
(* The intervals and bounds are numbers, none of them zero.                *)
LEMMA Positive ==
  /\ SERVER_ASSOCIATION_TIMEOUT \in Nat \ {0} /\ PORT_HOP_INTERVAL \in Nat \ {0}
  /\ MAX_PORTS_OPEN \in Nat \ {0} /\ MAX_OLD_SOCKET_AGE \in Nat \ {0}
  /\ SendInterval \in Nat \ {0} /\ MaxDelay \in Nat \ {0} /\ MaxNow \in Nat \ {0}
BY ConnectionConstants

(* A socket is kept until nothing sent to it can still come.               *)
LEMMA Apart ==
  /\ Answered \in Nat
  /\ Answered <= MAX_OLD_SOCKET_AGE
  /\ Answered < Gap(MAX_PORTS_OPEN - 1)
BY ConnectionConstants, Positive DEF Gap, Answered

(* The time n hops take at the least, hop by hop.                          *)
LEMMA GapIsNatural ==
  ASSUME NEW n \in Nat
  PROVE  Gap(n) \in Nat /\ Gap(0) = 0 /\ Gap(n + 1) = Gap(n) + PORT_HOP_INTERVAL + 1
BY Positive DEF Gap

(* More hops take longer.                                                  *)
LEMMA GapGrows ==
  ASSUME NEW m \in Nat, NEW n \in Nat, m <= n
  PROVE  Gap(m) <= Gap(n)
<1> DEFINE h == PORT_HOP_INTERVAL + 1
<1>1. h \in Nat  BY Positive
<1> HIDE DEF h
<1>2. (n - m) * h >= 0  BY <1>1
<1>3. n * h = m * h + (n - m) * h  BY <1>1
<1> QED  BY <1>1, <1>2, <1>3 DEF Gap, h

(* The open ports are the last few in a row.                               *)
LEMMA PortsRange ==
  ASSUME NEW s, Ports(s), NEW p \in Nat
  PROVE  /\ Last(s) \in Nat
         /\ p \in Range(s) <=> Last(s) - Len(s) < p /\ p <= Last(s)
<1>1. Last(s) \in Nat  BY DEF Ports, Last
<1>2. ASSUME p \in Range(s) PROVE Last(s) - Len(s) < p /\ p <= Last(s)
  <2>1. PICK i \in DOMAIN s : p = s[i]  BY <1>2 DEF Range
  <2>2. i \in 1..Len(s)  BY <2>1 DEF Ports
  <2>3. p = Last(s) - Len(s) + i  BY <2>1 DEF Ports
  <2> QED  BY <1>1, <2>2, <2>3 DEF Ports
<1>3. ASSUME Last(s) - Len(s) < p, p <= Last(s) PROVE p \in Range(s)
  <2> DEFINE i == p - Last(s) + Len(s)
  <2>1. i \in DOMAIN s  BY <1>1, <1>3 DEF Ports
  <2>2. s[i] = Last(s) - Len(s) + i  BY <2>1 DEF Ports
  <2>3. s[i] = p  BY <1>1, <2>2 DEF Ports
  <2> QED  BY <2>1, <2>3 DEF Range
<1> QED  BY <1>1, <1>2, <1>3

(* Pruning keeps the newest ports.                                         *)
LEMMA PrunedPorts ==
  ASSUME NEW s, Ports(s), NEW choice \in Nat, now \in Nat,
         NEW q, q = Pruned(s, choice),
         NEW kept, kept = IF now - choice > MAX_OLD_SOCKET_AGE THEN 1 ELSE MAX_PORTS_OPEN
  PROVE  /\ Ports(q) /\ Last(q) = Last(s)
         /\ Len(q) = IF Len(s) <= kept THEN Len(s) ELSE kept
<1>1. kept \in Nat \ {0}  BY Positive
<1>2. CASE Len(s) <= kept
  <2>1. q = s  BY <1>2 DEF Pruned
  <2> QED  BY <1>2, <2>1
<1>3. CASE ~ (Len(s) <= kept)
  <2>1. s \in Seq(Nat) /\ Len(s) \in Nat /\ kept < Len(s)
    BY <1>1, <1>3 DEF Ports
  <2> DEFINE k == Len(s) - kept + 1
  <2>2. k \in 1..Len(s)  BY <1>1, <2>1
  <2>3. q = SubSeq(s, k, Len(s))  BY <1>3 DEF Pruned
  <2>4. k = Len(s) - kept + 1  OBVIOUS
  <2> HIDE DEF k
  <2>5. /\ q \in Seq(Nat) /\ Len(q) = Len(s) - k + 1
        /\ \A i \in 1..(Len(s) - k + 1) : q[i] = s[k + i - 1]
    <3>1. /\ SubSeq(s, k, Len(s)) \in Seq(Nat)
          /\ Len(SubSeq(s, k, Len(s))) = Len(s) - k + 1
          /\ \A i \in 1..(Len(s) - k + 1) : SubSeq(s, k, Len(s))[i] = s[k + i - 1]
      BY <2>1, <2>2, SuffixProperties
    <3> QED  BY ONLY <2>3, <3>1
  <2>6. Len(q) = kept /\ DOMAIN q = 1..kept
    <3>1. Len(q) = kept  BY <1>1, <2>1, <2>4, <2>5
    <3> QED  BY <2>5, <3>1
  <2>7. \A i \in 1..kept : q[i] = s[Len(s) - kept + i]
    <3> TAKE i \in 1..kept
    <3>1. i \in 1..(Len(s) - k + 1) /\ k + i - 1 = Len(s) - kept + i
      BY <1>1, <2>1, <2>4
    <3> QED  BY <2>5, <3>1
  <2>8. Last(q) = Last(s)
    <3>1. kept \in 1..kept /\ Len(s) - kept + kept = Len(s)  BY <1>1, <2>1
    <3>2. q[kept] = s[Len(s) - kept + kept]  BY <2>7, <3>1
    <3> QED  BY <2>6, <3>1, <3>2 DEF Last
  <2>9. \A i \in DOMAIN q : q[i] = Last(q) - Len(q) + i
    <3> TAKE i \in DOMAIN q
    <3>1. i \in 1..kept /\ Last(s) \in Nat  BY <2>6 DEF Ports, Last
    <3> DEFINE j == Len(s) - kept + i
    <3>2. j \in DOMAIN s  BY <1>1, <2>1, <3>1
    <3>3. s[j] = Last(s) - Len(s) + j  BY <3>2 DEF Ports
    <3>4. q[i] = s[j]  BY <2>7, <3>1
    <3>5. Last(s) - Len(s) + j = Last(s) - kept + i  BY <1>1, <2>1, <3>1
    <3> QED  BY <2>6, <2>8, <3>3, <3>4, <3>5
  <2> QED  BY <1>1, <1>3, <2>1, <2>5, <2>6, <2>8, <2>9 DEF Ports
<1> QED  BY <1>2, <1>3

(* A hop adds one port.                                                    *)
LEMMA HoppedPorts ==
  ASSUME NEW s, Ports(s), NEW q, q = Append(s, Last(s) + 1)
  PROVE  Ports(q) /\ Last(q) = Last(s) + 1 /\ Len(q) = Len(s) + 1
<1>1. Last(s) \in Nat /\ s \in Seq(Nat)  BY DEF Ports, Last
<1>2. /\ q \in Seq(Nat) /\ Len(q) = Len(s) + 1
      /\ \A i \in 1..Len(s) : q[i] = s[i]
      /\ q[Len(s) + 1] = Last(s) + 1
  BY <1>1, AppendProperties
<1>3. Last(q) = Last(s) + 1  BY <1>2 DEF Last
<1>4. \A i \in DOMAIN q : q[i] = Last(q) - Len(q) + i
  <2> TAKE i \in DOMAIN q
  <2>1. i \in 1..(Len(s) + 1)  BY <1>2
  <2>2. CASE i = Len(s) + 1  BY <1>1, <1>2, <1>3, <2>2
  <2>3. CASE i \in 1..Len(s)
    <3>1. s[i] = Last(s) - Len(s) + i  BY <1>1, <2>3 DEF Ports
    <3> QED  BY <1>1, <1>2, <1>3, <2>3, <3>1
  <2> QED  BY <1>1, <2>1, <2>2, <2>3
<1> QED  BY <1>1, <1>2, <1>3, <1>4 DEF Ports

--------------------------------------------------------------------------------
(* A port that pruning closes is one nobody answers any more.              *)
LEMMA PrunedKnown ==
  ASSUME NEW s, Ports(s), NEW choice \in Nat, now \in Nat, choice <= now,
         NEW p \in Nat, NEW t \in Nat, Known(s, choice, now, p, t)
  PROVE  Known(Pruned(s, choice), choice, now, p, t)
<1> DEFINE q == Pruned(s, choice)
           kept == IF now - choice > MAX_OLD_SOCKET_AGE THEN 1 ELSE MAX_PORTS_OPEN
<1>1. /\ Ports(q) /\ Last(q) = Last(s)
      /\ Len(q) = IF Len(s) <= kept THEN Len(s) ELSE kept
  BY PrunedPorts
<1>2. (kept = 1 /\ now - choice > MAX_OLD_SOCKET_AGE) \/ kept = MAX_PORTS_OPEN
  OBVIOUS
<1> HIDE DEF q, kept
<1>3. Last(s) \in Nat /\ Len(s) \in Nat  BY PortsRange DEF Ports
<1>4. SUFFICES ASSUME p \in Range(s), p \notin Range(q) PROVE now > t + Answered
  BY <1>1 DEF Known, q
<1>5. /\ Last(s) - Len(s) < p /\ p <= Last(s)
      /\ ~ (Last(q) - Len(q) < p /\ p <= Last(q))
  BY <1>1, <1>4, PortsRange
<1>6. Len(q) = kept /\ p <= Last(s) - kept
  BY <1>1, <1>2, <1>3, <1>5, Positive
<1>7. p < Last(s)  BY <1>2, <1>3, <1>6, Positive
<1> DEFINE n == Last(s) - p - 1
<1>8. n \in Nat /\ kept - 1 <= n  BY <1>2, <1>3, <1>6, <1>7, Positive
<1>9. Gap(n) + t <= choice  BY <1>7 DEF Known
<1> HIDE DEF n
<1>10. Gap(n) \in Nat  BY <1>8, GapIsNatural
<1>11. CASE kept = 1 /\ now - choice > MAX_OLD_SOCKET_AGE
  BY <1>9, <1>10, <1>11, Apart, Positive
<1>12. CASE kept = MAX_PORTS_OPEN
  <2>1. MAX_PORTS_OPEN - 1 \in Nat  BY Positive
  <2>2. Gap(MAX_PORTS_OPEN - 1) <= Gap(n)  BY <1>8, <1>12, <2>1, GapGrows
  <2>3. Gap(MAX_PORTS_OPEN - 1) \in Nat  BY <2>1, GapIsNatural
  <2> QED  BY <1>9, <1>10, <2>2, <2>3, Apart
<1> QED  BY <1>2, <1>11, <1>12

(* A hop makes every known port one port older, and closes none.           *)
LEMMA HoppedKnown ==
  ASSUME NEW s, Ports(s), NEW choice \in Nat, now \in Nat,
         now - choice > PORT_HOP_INTERVAL,
         NEW p \in Nat, NEW t \in Nat, Known(s, choice, now, p, t)
  PROVE  Known(Append(s, Last(s) + 1), now, now, p, t)
<1> DEFINE q == Append(s, Last(s) + 1)
<1>1. Ports(q) /\ Last(q) = Last(s) + 1 /\ Len(q) = Len(s) + 1
  BY HoppedPorts
<1> HIDE DEF q
<1>2. Last(s) \in Nat /\ Len(s) \in Nat /\ p <= Last(s) /\ t <= now
  BY PortsRange DEF Ports, Known
<1>3. Gap(Last(q) - p - 1) + t <= now
  <2> DEFINE n == Last(s) - p - 1
  <2>1. CASE p = Last(s)
    <3>1. Last(q) - p - 1 = 0  BY <1>1, <1>2, <2>1
    <3> QED  BY <1>2, <3>1, GapIsNatural
  <2>2. CASE p < Last(s)
    <3>1. n \in Nat /\ Last(q) - p - 1 = n + 1  BY <1>1, <1>2, <2>2
    <3>2. Gap(n) + t <= choice  BY <2>2 DEF Known
    <3> HIDE DEF n
    <3>3. Gap(n) \in Nat /\ Gap(n + 1) = Gap(n) + PORT_HOP_INTERVAL + 1
      BY <3>1, GapIsNatural
    <3> QED  BY <3>1, <3>2, <3>3, Positive
  <2> QED  BY <1>2, <2>1, <2>2
<1>4. p \in Range(s) => p \in Range(q)
  BY <1>1, <1>2, PortsRange
<1>5. p <= Last(q)  BY <1>1, <1>2
<1> QED  BY <1>2, <1>3, <1>4, <1>5 DEF Known, q

--------------------------------------------------------------------------------
(* The parts of the type invariant that the other lemmas use.              *)
LEMMA Typed ==
  ASSUME TypeOK
  PROVE  /\ now \in Nat /\ Ports(socks) /\ Len(socks) <= MAX_PORTS_OPEN
         /\ last_port_choice \in Nat /\ last_port_choice <= now
         /\ last_roundtrip_success \in Nat /\ last_roundtrip_success <= now
         /\ last_heard \in Nat /\ last_heard <= now
<1>1. now \in Nat  BY Positive DEF TypeOK
<1>2. last_port_choice \in 0..now /\ last_roundtrip_success \in 0..now /\ last_heard \in 0..now
  BY DEF TypeOK
<1>3. Len(socks) \in 1..MAX_PORTS_OPEN  BY DEF TypeOK
<1>4. Ports(socks)  BY <1>3, Positive DEF TypeOK, Ports
<1> QED  BY <1>1, <1>2, <1>3, <1>4, Positive

(* What a step may do to the client's sockets.                             *)
SocketsStep ==
  \/ socks' = socks /\ last_port_choice' = last_port_choice /\ now' \in {now, now + 1}
  \/ /\ socks' = Pruned(socks, last_port_choice)
     /\ last_port_choice' = last_port_choice /\ now' = now
  \/ /\ now - last_port_choice > PORT_HOP_INTERVAL
     /\ socks' = Pruned(Append(socks, Last(socks) + 1), now)
     /\ last_port_choice' = now /\ now' = now

(* What a step may do to the clock and the sockets.                        *)
LEMMA StepsOfSockets ==
  ASSUME [Next]_vars
  PROVE  SocketsStep
<1>1. CASE ClientSend
  BY <1>1 DEF ClientSend, SendDatagram, HopPort, SocketsStep
<1>2. CASE ServerSend
  BY <1>2 DEF ServerSend, SendDatagram, SocketsStep
<1>3. CASE ServerRecv
  BY <1>3 DEF ServerRecv, client, SocketsStep
<1>4. CASE ClientRecv
  BY <1>4 DEF ClientRecv, SocketsStep
<1>5. CASE Roam
  BY <1>5 DEF Roam, SocketsStep
<1>6. CASE Clock
  BY <1>6 DEF Clock, client, SocketsStep
<1>7. CASE UNCHANGED vars
  BY <1>7 DEF vars, client, SocketsStep
<1> QED  BY <1>1, <1>2, <1>3, <1>4, <1>5, <1>6, <1>7 DEF Next

(* The sockets stay in order, and what is known stays known.               *)
LEMMA SocketsKept ==
  ASSUME TypeOK, SocketsStep
  PROVE  /\ Ports(socks') /\ Len(socks') <= MAX_PORTS_OPEN
         /\ now' \in Nat /\ now <= now'
         /\ last_port_choice' \in Nat /\ last_port_choice' <= now'
         /\ \A p \in Nat, t \in Nat : KnownNow(p, t) => KnownNow(p, t)'
<1> USE Typed
<1>1. CASE /\ socks' = socks /\ last_port_choice' = last_port_choice
           /\ now' \in {now, now + 1}
  <2>1. ASSUME NEW p \in Nat, NEW t \in Nat, KnownNow(p, t)
        PROVE  Known(socks, last_port_choice, now', p, t)
    BY <1>1, <2>1, Apart DEF KnownNow, Known
  <2> QED  BY <1>1, <2>1 DEF KnownNow
<1>2. CASE /\ socks' = Pruned(socks, last_port_choice)
           /\ last_port_choice' = last_port_choice /\ now' = now
  <2>1. Ports(socks') /\ Len(socks') <= MAX_PORTS_OPEN
    BY <1>2, PrunedPorts, Positive
  <2>2. ASSUME NEW p \in Nat, NEW t \in Nat, KnownNow(p, t)
        PROVE  Known(socks', last_port_choice', now', p, t)
    BY <1>2, <2>2, PrunedKnown DEF KnownNow
  <2> QED  BY <1>2, <2>1, <2>2 DEF KnownNow
<1>3. CASE /\ now - last_port_choice > PORT_HOP_INTERVAL
           /\ socks' = Pruned(Append(socks, Last(socks) + 1), now)
           /\ last_port_choice' = now /\ now' = now
  <2> DEFINE hopped == Append(socks, Last(socks) + 1)
  <2>1. Ports(hopped)  BY HoppedPorts
  <2>2. ASSUME NEW p \in Nat, NEW t \in Nat, KnownNow(p, t)
        PROVE  Known(hopped, now, now, p, t)
    BY <1>3, <2>2, HoppedKnown DEF KnownNow
  <2> HIDE DEF hopped
  <2>3. socks' = Pruned(hopped, now)  BY <1>3 DEF hopped
  <2>4. Ports(socks') /\ Len(socks') <= MAX_PORTS_OPEN
    <3>1. /\ Ports(Pruned(hopped, now))
          /\ Len(Pruned(hopped, now)) =
               IF Len(hopped) <= IF now - now > MAX_OLD_SOCKET_AGE THEN 1 ELSE MAX_PORTS_OPEN
               THEN Len(hopped)
               ELSE IF now - now > MAX_OLD_SOCKET_AGE THEN 1 ELSE MAX_PORTS_OPEN
      BY <2>1, PrunedPorts
    <3>2. now - now = 0 /\ Len(hopped) \in Nat  BY <2>1 DEF Ports
    <3> QED  BY <2>3, <3>1, <3>2, Positive
  <2>5. ASSUME NEW p \in Nat, NEW t \in Nat, KnownNow(p, t)
        PROVE  Known(socks', last_port_choice', now', p, t)
    <3>1. Known(hopped, now, now, p, t)  BY <2>2, <2>5
    <3>2. Known(Pruned(hopped, now), now, now, p, t)  BY <2>1, <3>1, PrunedKnown
    <3> QED  BY <1>3, <2>3, <3>2
  <2> QED  BY <1>3, <2>4, <2>5 DEF KnownNow
<1> QED  BY <1>1, <1>2, <1>3 DEF SocketsStep

(* A datagram that was recent enough for its socket stays so.              *)
LEMMA RecentKept ==
  ASSUME TypeOK, SocketsStep, NEW d \in Datagram, Recent(d), now' <= d.at + MaxDelay
  PROVE  Recent(d)'
<1>1. d.at \in Nat /\ d.answers \in Nat /\ d.client.port \in Nat
  BY DEF Datagram, Address
<1>2. d.at <= now'  BY <1>1, SocketsKept, Typed DEF Recent
<1>3. d.by = "client" => KnownNow(d.client.port, d.at)'
  BY <1>1, SocketsKept DEF Recent
<1>4. d.by = "server" => KnownNow(d.client.port, d.answers)'
  BY <1>1, SocketsKept DEF Recent
<1> QED  BY <1>2, <1>3, <1>4 DEF Recent

(* So does what the server knows of the newest datagram, when nothing      *)
(* newer came.                                                             *)
LEMMA FollowsKept ==
  ASSUME TypeOK, SocketsStep, FollowsNewest,
         newest' = newest, last_heard' = last_heard, remote_addr' \in {remote_addr, None},
         expected_receiver_seq'["server"] = expected_receiver_seq["server"]
  PROVE  FollowsNewest'
<1>1. CASE newest = None
  BY <1>1 DEF FollowsNewest
<1>2. CASE newest # None
  <2>1. newest.from.port \in Nat /\ newest.sent \in Nat
    BY <1>2, Typed DEF TypeOK, Address
  <2>2. KnownNow(newest.from.port, newest.sent)'
    BY <1>2, <2>1, SocketsKept DEF FollowsNewest
  <2> QED  BY <1>2, <2>2 DEF FollowsNewest, TargetsNewest
<1> QED  BY <1>1, <1>2

(* The port in use is known.                                               *)
LEMMA InUse ==
  ASSUME TypeOK
  PROVE  Last(socks) \in Nat /\ KnownNow(Last(socks), now)
<1>1. Last(socks) \in Nat /\ Last(socks) \in Range(socks)
  <2>1. Ports(socks) /\ Last(socks) \in Nat  BY Typed DEF Ports, Last
  <2>2. Last(socks) - Len(socks) < Last(socks)  BY <2>1 DEF Ports
  <2> QED  BY <2>1, <2>2, PortsRange
<1> QED  BY <1>1, Typed DEF KnownNow, Known

(* The client sends, perhaps from a new port.                              *)
LEMMA ClientSendSafe ==
  ASSUME IInv, ClientSend
  PROVE  IInv'
<1> USE Positive, Typed DEF IInv
<1>1. SocketsStep  BY StepsOfSockets DEF Next
<1>2. now' = now /\ place' = place /\ remote_addr' = remote_addr /\ newest' = newest
  BY DEF ClientSend, SendDatagram
<1>3. /\ last_heard' = last_heard /\ last_roundtrip_success' = last_roundtrip_success
      /\ expected_receiver_seq' = expected_receiver_seq
  BY DEF ClientSend, SendDatagram
<1> DEFINE to == [place |-> place, port |-> Last(socks)]
           d == [by |-> "client", seq |-> seq["client"], client |-> to, at |-> now,
                 answers |-> 0]
<1>4. /\ net' = net \cup {d}
      /\ seq' = [seq EXCEPT !["client"] = @ + 1]
      /\ sent_at' = [sent_at EXCEPT !["client"] = now]
  BY DEF ClientSend, SendDatagram
<1>5. d \in Datagram
  BY InUse DEF TypeOK, Datagram, Address, Peer
<1>6. Recent(d)
  BY InUse DEF Recent
<1>7. d.at = now  OBVIOUS
<1> HIDE DEF d
<1>8. TypeOK'
  <2>1. net' \subseteq Datagram  BY <1>4, <1>5 DEF TypeOK
  <2>2. seq' \in [Peer -> Nat] /\ sent_at' \in [Peer -> 0..now]
    <3>1. /\ seq \in [Peer -> Nat] /\ sent_at \in [Peer -> 0..now]
          /\ "client" \in Peer /\ now \in 0..now
      BY DEF TypeOK, Peer
    <3>2. seq["client"] + 1 \in Nat  BY <3>1
    <3> QED  BY ONLY <1>4, <3>1, <3>2
  <2>3. Ports(socks') /\ Len(socks') <= MAX_PORTS_OPEN /\ last_port_choice' \in 0..now'
    BY <1>1, SocketsKept
  <2>4. newest = None \/ newest \in [seq : Nat, from : Address, sent : 0..now, came : 0..now]
    BY DEF TypeOK
  <2> QED  BY <1>2, <1>3, <2>1, <2>2, <2>3, <2>4, SMTT(30) DEF TypeOK, Ports
<1>9. FollowsNewest'  BY <1>1, <1>2, <1>3, FollowsKept
<1>10. HeardInTime'
  <2>1. sent_at'["server"] = sent_at["server"]  BY <1>4 DEF TypeOK, Peer
  <2> QED  BY <1>2, <1>3, <2>1 DEF HeardInTime
<1>11. Underway'
  <2>1. ASSUME NEW e \in net' PROVE Recent(e)'
    <3>1. e \in Datagram /\ Recent(e)  BY <1>4, <1>5, <1>6 DEF TypeOK, Underway
    <3>2. now' <= e.at + MaxDelay  BY <1>2, <3>1 DEF Recent
    <3> QED  BY <1>1, <3>1, <3>2, RecentKept
  <2> QED  BY <2>1 DEF Underway
<1> QED  BY <1>8, <1>9, <1>10, <1>11

(* The server answers, or forgets a client that is silent.                 *)
LEMMA ServerSendSafe ==
  ASSUME IInv, ServerSend
  PROVE  IInv'
<1> USE Positive, Typed DEF IInv
<1>1. SocketsStep  BY StepsOfSockets DEF Next
<1>2. /\ now' = now /\ place' = place /\ newest' = newest /\ remote_addr # None
      /\ remote_addr' = IF now - last_heard > SERVER_ASSOCIATION_TIMEOUT THEN None
                        ELSE remote_addr
  BY DEF ServerSend, SendDatagram
<1>3. /\ last_heard' = last_heard /\ last_roundtrip_success' = last_roundtrip_success
      /\ expected_receiver_seq' = expected_receiver_seq
      /\ UNCHANGED <<socks, last_port_choice>>
  BY DEF ServerSend, SendDatagram
<1>4. /\ newest # None /\ remote_addr = newest.from /\ newest.came <= newest.sent + MaxDelay
      /\ last_heard = newest.came /\ KnownNow(newest.from.port, newest.sent)
  BY <1>2 DEF FollowsNewest, TargetsNewest
<1>5. /\ newest.from \in Address /\ newest.from.port \in Nat
      /\ newest.sent \in 0..now /\ newest.came \in 0..now
  BY <1>4 DEF TypeOK, Address
<1> DEFINE d == [by |-> "server", seq |-> seq["server"], client |-> remote_addr,
                 at |-> now, answers |-> newest.sent]
<1>6. /\ net' = net \cup {d}
      /\ seq' = [seq EXCEPT !["server"] = @ + 1]
      /\ sent_at' = [sent_at EXCEPT !["server"] = now]
  BY DEF ServerSend, SendDatagram
<1>7. d \in Datagram
  BY <1>4, <1>5 DEF TypeOK, Datagram, Peer
<1>8. Recent(d)
  <2>1. now <= last_heard + SERVER_ASSOCIATION_TIMEOUT + SendInterval
    <3>1. sent_at["server"] \in Nat  BY DEF TypeOK, Peer
    <3> QED  BY <1>2, <3>1 DEF HeardInTime
  <2>2. now <= newest.sent + MaxDelay + SERVER_ASSOCIATION_TIMEOUT + SendInterval
    BY <1>4, <1>5, <2>1
  <2> QED  BY <1>4, <2>2 DEF Recent
<1> HIDE DEF d
<1>9. TypeOK'
  <2>1. net' \subseteq Datagram  BY <1>6, <1>7 DEF TypeOK
  <2>2. seq' \in [Peer -> Nat] /\ sent_at' \in [Peer -> 0..now]
    <3>1. /\ seq \in [Peer -> Nat] /\ sent_at \in [Peer -> 0..now]
          /\ "server" \in Peer /\ now \in 0..now
      BY DEF TypeOK, Peer
    <3>2. seq["server"] + 1 \in Nat  BY <3>1
    <3> QED  BY ONLY <1>6, <3>1, <3>2
  <2>3. remote_addr' \in Address \cup {None}  BY <1>2 DEF TypeOK
  <2> QED  BY <1>2, <1>3, <2>1, <2>2, <2>3 DEF TypeOK
<1>10. FollowsNewest'  BY <1>1, <1>2, <1>3, FollowsKept
<1>11. HeardInTime'
  BY <1>2, <1>3 DEF HeardInTime
<1>12. Underway'
  <2>1. ASSUME NEW e \in net' PROVE Recent(e)'
    <3>1. e \in Datagram /\ Recent(e)  BY <1>6, <1>7, <1>8 DEF TypeOK, Underway
    <3>2. now' <= e.at + MaxDelay  BY <1>2, <3>1 DEF Recent
    <3> QED  BY <1>1, <3>1, <3>2, RecentKept
  <2> QED  BY <2>1 DEF Underway
<1> QED  BY <1>9, <1>10, <1>11, <1>12

(* A datagram reaches the server, late or for the second time perhaps.     *)
LEMMA ServerRecvSafe ==
  ASSUME IInv, ServerRecv
  PROVE  IInv'
<1> USE Positive, Typed DEF IInv
<1>1. SocketsStep  BY StepsOfSockets DEF Next
<1>2. PICK d \in net :
        /\ d.by = "client"
        /\ Expect("server", d)
        /\ remote_addr' = IF InOrder("server", d) THEN d.client ELSE remote_addr
        /\ last_heard' = HeardAt(d)
        /\ newest' = IF newest = None \/ newest.seq < d.seq
                     THEN [seq |-> d.seq, from |-> d.client, sent |-> d.at, came |-> now]
                     ELSE newest
  BY DEF ServerRecv
<1>3. /\ now' = now /\ place' = place /\ seq' = seq /\ sent_at' = sent_at /\ net' = net
      /\ UNCHANGED <<socks, last_port_choice, last_roundtrip_success>>
  BY DEF ServerRecv, client
<1>4. d \in Datagram /\ Recent(d)  BY DEF TypeOK, Underway
<1>5. /\ d.seq \in Nat /\ d.client \in Address /\ d.client.port \in Nat
      /\ d.at \in Nat /\ d.at <= now /\ now <= d.at + MaxDelay
      /\ KnownNow(d.client.port, d.at)
  BY <1>2, <1>4 DEF Datagram, Address, Recent
<1>6. KnownNow(d.client.port, d.at)'  BY <1>1, <1>5, SocketsKept
<1>7. expected_receiver_seq \in [Peer -> Nat] /\ "server" \in Peer
  BY DEF TypeOK, Peer
<1>8. Underway'
  <2>1. ASSUME NEW e \in net' PROVE Recent(e)'
    <3>1. e \in Datagram /\ Recent(e)  BY <1>3 DEF TypeOK, Underway
    <3>2. now' <= e.at + MaxDelay  BY <1>3, <3>1 DEF Recent
    <3> QED  BY <1>1, <3>1, <3>2, RecentKept
  <2> QED  BY <2>1 DEF Underway
<1>9. newest # None => newest.seq \in Nat  BY DEF TypeOK
<1>10. InOrder("server", d) <=> newest = None \/ newest.seq < d.seq
  BY <1>5, <1>9 DEF InOrder, FollowsNewest
<1>11. CASE InOrder("server", d)
  <2>1. /\ remote_addr' = d.client /\ last_heard' = now
        /\ newest' = [seq |-> d.seq, from |-> d.client, sent |-> d.at, came |-> now]
    BY <1>2, <1>10, <1>11 DEF HeardAt
  <2>2. expected_receiver_seq' = [expected_receiver_seq EXCEPT !["server"] = d.seq + 1]
    BY <1>2, <1>11 DEF Expect
  <2>3. /\ newest'.seq = d.seq /\ newest'.from = d.client
        /\ newest'.sent = d.at /\ newest'.came = now
    BY <2>1
  <2>4. newest' \in [seq : Nat, from : Address, sent : 0..now, came : 0..now]
    BY <1>5, <2>1
  <2>5. /\ expected_receiver_seq' \in [Peer -> Nat]
        /\ expected_receiver_seq'["server"] = d.seq + 1
    BY ONLY <1>5, <1>7, <2>2
  <2>6. TypeOK'  BY <1>3, <1>5, <2>1, <2>4, <2>5 DEF TypeOK
  <2>7. FollowsNewest'
    <3>1. CASE newest' # None
      BY <1>5, <1>6, <2>1, <2>3, <2>5, <3>1 DEF FollowsNewest, TargetsNewest
    <3>2. newest' # None
      BY <2>4, NoneIsApart DEF Contact
    <3> QED  BY <3>1, <3>2
  <2>8. HeardInTime'  BY <1>3, <2>1 DEF HeardInTime
  <2> QED  BY <1>8, <2>6, <2>7, <2>8
<1>12. CASE ~ InOrder("server", d)
  <2>1. remote_addr' = remote_addr /\ last_heard' = last_heard /\ newest' = newest
    BY <1>2, <1>10, <1>12 DEF HeardAt
  <2>2. expected_receiver_seq' = expected_receiver_seq
    BY <1>2, <1>7, <1>12 DEF Expect
  <2>3. TypeOK'  BY <1>3, <2>1, <2>2 DEF TypeOK
  <2>4. FollowsNewest'  BY <1>1, <2>1, <2>2, FollowsKept
  <2>5. HeardInTime'  BY <1>3, <2>1 DEF HeardInTime
  <2> QED  BY <1>8, <2>3, <2>4, <2>5
<1> QED  BY <1>11, <1>12

(* A datagram reaches the client, or a socket it has closed.               *)
LEMMA ClientRecvSafe ==
  ASSUME IInv, ClientRecv
  PROVE  IInv'
<1> USE Positive, Typed DEF IInv
<1>1. SocketsStep  BY StepsOfSockets DEF Next
<1>2. PICK d \in net :
        /\ d.by = "server" /\ Expect("client", d)
        /\ last_roundtrip_success' =
             IF d.answers > last_roundtrip_success THEN d.answers ELSE last_roundtrip_success
  BY DEF ClientRecv
<1>3. /\ now' = now /\ place' = place /\ seq' = seq /\ sent_at' = sent_at /\ net' = net
      /\ last_port_choice' = last_port_choice
      /\ remote_addr' = remote_addr /\ last_heard' = last_heard /\ newest' = newest
  BY DEF ClientRecv, server
<1>4. d \in Datagram /\ Recent(d)  BY DEF TypeOK, Underway
<1>5. d.answers \in 0..now /\ d.seq \in Nat
  BY <1>2, <1>4 DEF Datagram, Recent, KnownNow, Known
<1>6. expected_receiver_seq \in [Peer -> Nat] /\ "client" \in Peer /\ "server" \in Peer
  BY DEF TypeOK, Peer
<1>7. expected_receiver_seq' \in {expected_receiver_seq,
                                 [expected_receiver_seq EXCEPT !["client"] = d.seq + 1]}
  BY <1>2, <1>6 DEF Expect
<1>8. /\ expected_receiver_seq' \in [Peer -> Nat]
      /\ expected_receiver_seq'["server"] = expected_receiver_seq["server"]
  BY ONLY <1>5, <1>6, <1>7
<1>9. TypeOK'
  <2>1. Ports(socks') /\ Len(socks') <= MAX_PORTS_OPEN
    BY <1>1, SocketsKept
  <2>2. {last_port_choice', last_roundtrip_success', last_heard'} \subseteq 0..now'
    BY <1>2, <1>3, <1>5 DEF TypeOK
  <2>3. /\ socks' \in Seq(Nat) /\ Len(socks') \in 1..MAX_PORTS_OPEN
        /\ \A i \in DOMAIN socks' : socks'[i] = Last(socks') - Len(socks') + i
    BY <2>1 DEF Ports
  <2>4. newest' = None
          \/ newest' \in [seq : Nat, from : Address, sent : 0..now', came : 0..now']
    BY <1>3 DEF TypeOK
  <2> QED  BY <1>3, <1>8, <2>2, <2>3, <2>4 DEF TypeOK
<1>10. FollowsNewest'  BY <1>1, <1>3, <1>8, FollowsKept
<1>11. HeardInTime'  BY <1>3 DEF HeardInTime
<1>12. Underway'
  <2>1. ASSUME NEW e \in net' PROVE Recent(e)'
    <3>1. e \in Datagram /\ Recent(e)  BY <1>3 DEF TypeOK, Underway
    <3>2. now' <= e.at + MaxDelay  BY <1>3, <3>1 DEF Recent
    <3> QED  BY <1>1, <3>1, <3>2, RecentKept
  <2> QED  BY <2>1 DEF Underway
<1> QED  BY <1>9, <1>10, <1>11, <1>12

(* A client that roams, and time that passes, leave the rest alone.        *)
LEMMA WorldSafe ==
  ASSUME IInv, Roam \/ Clock \/ UNCHANGED vars
  PROVE  IInv'
<1> USE Positive, Typed DEF IInv
<1>1. SocketsStep  BY StepsOfSockets DEF Next
<1>2. /\ now' \in Nat /\ now <= now' /\ now' <= MaxNow /\ place' \in Network
      /\ UNCHANGED <<socks, last_port_choice, last_roundtrip_success, remote_addr,
                     last_heard, newest, seq, expected_receiver_seq, sent_at>>
      /\ net' \subseteq net
      /\ \A d \in net' : now' = now \/ (now < d.at + MaxDelay /\ now' = now + 1)
      /\ remote_addr # None =>
           now' = now \/ (now' = now + 1 /\ now < sent_at["server"] + SendInterval)
  <2>1. now \in 0..MaxNow /\ place \in Network  BY DEF TypeOK
  <2>2. CASE Roam  BY <2>1, <2>2 DEF Roam, server
  <2>3. CASE Clock  BY <2>1, <2>3 DEF Clock, client, server
  <2>4. CASE UNCHANGED vars  BY <2>1, <2>4 DEF vars, client, server
  <2> QED  BY <2>2, <2>3, <2>4
<1>3. TypeOK'
  <2>1. 0..now \subseteq 0..now'  BY <1>2
  <2>2. sent_at' \in [Peer -> 0..now']
    <3>1. sent_at \in [Peer -> 0..now]  BY DEF TypeOK
    <3> QED  BY <1>2, <2>1, <3>1
  <2>3. newest' = None
          \/ newest' \in [seq : Nat, from : Address, sent : 0..now', came : 0..now']
    BY <1>2, <2>1 DEF TypeOK
  <2>4. {last_port_choice', last_roundtrip_success', last_heard'} \subseteq 0..now'
    BY <1>2
  <2>5. now' \in 0..MaxNow /\ net' \subseteq Datagram  BY <1>2 DEF TypeOK
  <2>6. /\ socks' \in Seq(Nat) /\ Len(socks') \in 1..MAX_PORTS_OPEN
        /\ \A i \in DOMAIN socks' : socks'[i] = Last(socks') - Len(socks') + i
        /\ remote_addr' \in Address \cup {None}
        /\ seq' \in [Peer -> Nat] /\ expected_receiver_seq' \in [Peer -> Nat]
    BY <1>2 DEF TypeOK
  <2> QED  BY <1>2, <2>2, <2>3, <2>4, <2>5, <2>6 DEF TypeOK
<1>4. FollowsNewest'  BY <1>1, <1>2, FollowsKept
<1>5. HeardInTime'
  <2>1. sent_at["server"] \in 0..now  BY DEF TypeOK, Peer
  <2> QED  BY <1>2, <2>1 DEF HeardInTime
<1>6. Underway'
  <2>1. ASSUME NEW e \in net' PROVE Recent(e)'
    <3>1. e \in Datagram /\ Recent(e)  BY <1>2 DEF TypeOK, Underway
    <3>2. now' <= e.at + MaxDelay  BY <1>2, <3>1 DEF Recent, Datagram
    <3> QED  BY <1>1, <3>1, <3>2, RecentKept
  <2> QED  BY <2>1 DEF Underway
<1> QED  BY <1>3, <1>4, <1>5, <1>6

(* The invariant holds at first.                                           *)
LEMMA InitSafe ==
  ASSUME Init
  PROVE  IInv
<1> USE Positive DEF Init
<1>1. now = 0 /\ Len(socks) = 1 /\ DOMAIN socks = {1} /\ socks[1] = 0 /\ socks \in Seq(Nat)
  OBVIOUS
<1>2. seq \in [Peer -> Nat] /\ expected_receiver_seq \in [Peer -> Nat]
      /\ sent_at \in [Peer -> 0..now] /\ expected_receiver_seq["server"] = 0
  BY <1>1 DEF Peer
<1>3. \A i \in DOMAIN socks : socks[i] = Last(socks) - Len(socks) + i
  BY <1>1 DEF Last
<1>4. TypeOK  BY <1>1, <1>2, <1>3 DEF TypeOK
<1> QED  BY <1>2, <1>4 DEF IInv, FollowsNewest, HeardInTime, Underway

(* And after every step.                                                   *)
LEMMA NextSafe ==
  ASSUME IInv, [Next]_vars
  PROVE  IInv'
BY ClientSendSafe, ServerSendSafe, ServerRecvSafe, ClientRecvSafe, WorldSafe DEF Next

(* So it always holds.                                                     *)
LEMMA Invariance == Spec => []IInv
<1>1. Init => IInv  BY InitSafe
<1>2. IInv /\ [Next]_vars => IInv'  BY NextSafe
<1> QED  BY <1>1, <1>2, PTL DEF Spec

(* Every variable has its type; above all, no more than MAX_PORTS_OPEN     *)
(* ports are open, consecutive ones (prune_sockets).                       *)
THEOREM TypeCorrect == Spec => []TypeOK
<1>1. IInv => TypeOK  BY DEF IInv
<1> QED  BY <1>1, Invariance, PTL

(* recv retargets to the newest datagram's address and to nothing else.    *)
THEOREM AlwaysNewest == Spec => []TargetsNewest
<1>1. IInv => TargetsNewest  BY DEF IInv, FollowsNewest, TargetsNewest
<1> QED  BY <1>1, Invariance, PTL

(* housekeeping forgets a client that has been silent.                     *)
THEOREM AlwaysDetaches == Spec => []SilenceDetaches
<1>1. ASSUME IInv, remote_addr # None
      PROVE  now <= newest.came + SERVER_ASSOCIATION_TIMEOUT + SendInterval
  <2>1. newest # None /\ last_heard = newest.came  BY <1>1 DEF IInv, FollowsNewest
  <2>2. now \in Nat /\ last_heard \in Nat  BY <1>1, Typed DEF IInv
  <2>3. sent_at["server"] \in 0..now  BY <1>1 DEF IInv, TypeOK, Peer
  <2>4. \/ now <= last_heard + SERVER_ASSOCIATION_TIMEOUT
        \/ /\ sent_at["server"] <= last_heard + SERVER_ASSOCIATION_TIMEOUT
           /\ now <= sent_at["server"] + SendInterval
    BY <1>1 DEF IInv, HeardInTime
  <2>5. now <= last_heard + SERVER_ASSOCIATION_TIMEOUT + SendInterval
    BY <2>2, <2>3, <2>4, Positive
  <2> QED  BY <2>1, <2>5
<1>2. IInv => SilenceDetaches  BY <1>1 DEF SilenceDetaches
<1> QED  BY <1>2, Invariance, PTL

(* prune_sockets closes no socket an answer is still under way to.         *)
THEOREM NeverStranded == Spec => []NoReplyStranded
<1>1. ASSUME IInv, NEW d \in net, d.by = "server"
      PROVE  d.client.port \in Range(socks)
  <2>1. d \in Datagram /\ Recent(d)  BY <1>1 DEF IInv, TypeOK, Underway
  <2>2. d.at \in Nat /\ d.answers \in Nat /\ now \in Nat
    BY <1>1, <2>1, Typed DEF Datagram, IInv
  <2>3. now <= d.answers + Answered
    BY <1>1, <2>1, <2>2, Positive DEF Recent, Answered
  <2>4. d.client.port \in Range(socks) \/ now > d.answers + Answered
    BY <1>1, <2>1 DEF Recent, KnownNow, Known
  <2> QED  BY <2>2, <2>3, <2>4, Apart
<1>2. IInv => NoReplyStranded  BY <1>1 DEF NoReplyStranded
<1> QED  BY <1>2, Invariance, PTL
================================================================================
