------------------------------- MODULE Connection -------------------------------
(***************************************************************************)
(* The UDP connection below the transport: crates/mosh-network/src/        *)
(* connection.rs.  A client moves to a fresh port while it gets no answer, *)
(* keeps its older sockets for a while, and may itself be carried from one *)
(* network to another; the server follows the newest datagram it has heard *)
(* and forgets a client that has been silent.                              *)
(*                                                                         *)
(* An address is the network a client is on and the port it sent from;     *)
(* ports are numbered in the order they are opened.  A datagram arrives    *)
(* any number of times, or never, until it is MaxDelay old; what cannot be *)
(* decrypted or was sent in the wrong direction has no effect.  Either     *)
(* side sends at least every SendInterval (TransportSender's ACK_INTERVAL) *)
(* when it knows where to.  Round-trip times are left out.                 *)
(***************************************************************************)
EXTENDS Integers, SequencesExt

CONSTANTS
  SERVER_ASSOCIATION_TIMEOUT, PORT_HOP_INTERVAL, MAX_PORTS_OPEN, MAX_OLD_SOCKET_AGE,
  SendInterval, MaxDelay,
  Network,  \* the networks the client may be on
  None,
  MaxNow    \* bound: the clock stops there

(* How long after the server heard a port it may go on answering to it:    *)
(* the silence it puts up with, the time to its next datagram, which is    *)
(* still sent there, and the way there and back.                           *)
Answered == SERVER_ASSOCIATION_TIMEOUT + SendInterval + 2 * MaxDelay

(* A port stays open for longer than that.                                 *)
ASSUME ConnectionConstants ==
  /\ {SERVER_ASSOCIATION_TIMEOUT, PORT_HOP_INTERVAL, MAX_PORTS_OPEN,
      MAX_OLD_SOCKET_AGE, SendInterval, MaxDelay, MaxNow} \subseteq Nat \ {0}
  /\ Answered <= MAX_OLD_SOCKET_AGE
  /\ Answered < (MAX_PORTS_OPEN - 1) * (PORT_HOP_INTERVAL + 1)

VARIABLES
  now,
  place,                  \* the network the client is on
  socks,                  \* the client's ports, newest last
  last_port_choice, last_roundtrip_success,  \* of the client
  remote_addr,            \* of the server
  last_heard,             \* of the server
  seq,                    \* seq[p]: p's next sequence number
  expected_receiver_seq,
  sent_at,                \* sent_at[p]: when p last sent
  net,                    \* datagrams under way
  newest                  \* the newest datagram the server ever got

client == <<place, socks, last_port_choice, last_roundtrip_success>>
server == <<remote_addr, last_heard, newest>>
vars == <<now, client, server, seq, expected_receiver_seq, sent_at, net>>

Peer == {"client", "server"}
Address == [place : Network, port : Nat]

(* from or to is the client's address; answers is when the newest datagram *)
(* its sender has heard was sent.                                          *)
Datagram == [by : Peer, seq : Nat, client : Address, at : Nat, answers : Nat]

(* What the server remembers of the newest datagram: where it came from,   *)
(* when it was sent and when it came.                                      *)
Contact == [seq : Nat, from : Address, sent : Nat, came : Nat]

ASSUME NoneIsApart == None \notin Contact

TypeOK ==
  /\ now \in 0..MaxNow /\ place \in Network
  /\ socks \in Seq(Nat) /\ Len(socks) \in 1..MAX_PORTS_OPEN
  /\ \A i \in DOMAIN socks : socks[i] = Last(socks) - Len(socks) + i
  /\ {last_port_choice, last_roundtrip_success, last_heard} \subseteq 0..now
  /\ remote_addr \in Address \cup {None}
  /\ seq \in [Peer -> Nat] /\ expected_receiver_seq \in [Peer -> Nat]
  /\ sent_at \in [Peer -> 0..now]
  /\ net \subseteq Datagram
  /\ newest = None \/ newest \in [seq : Nat, from : Address, sent : 0..now, came : 0..now]

Init ==
  /\ now = 0 /\ place \in Network
  /\ socks = <<0>> /\ last_port_choice = 0 /\ last_roundtrip_success = 0
  /\ remote_addr = None /\ last_heard = 0
  /\ seq = [p \in Peer |-> 0] /\ expected_receiver_seq = [p \in Peer |-> 0]
  /\ sent_at = [p \in Peer |-> 0]
  /\ net = {} /\ newest = None

--------------------------------------------------------------------------------
(* Sending.  A datagram that send_to refuses is one that is lost.          *)

SendDatagram(p, addr, answers) ==
  /\ now > sent_at[p]
  /\ net' = net \cup {[by |-> p, seq |-> seq[p], client |-> addr, at |-> now,
                       answers |-> answers]}
  /\ seq' = [seq EXCEPT ![p] = @ + 1]
  /\ sent_at' = [sent_at EXCEPT ![p] = now]
  /\ UNCHANGED <<now, place, expected_receiver_seq, last_heard, newest,
                 last_roundtrip_success>>

(* Mutant of Pruned: the newest socket's age is not looked at.             *)
PrunedWhenSuperseded(ports, choice) == SubSeq(ports, Len(ports), Len(ports))

(* Mutant of Pruned: nothing but age closes a socket.                      *)
PrunedByAge(ports, choice) ==
  IF now - choice > MAX_OLD_SOCKET_AGE THEN SubSeq(ports, Len(ports), Len(ports))
  ELSE ports

(* The newest socket has been in use long enough to be kept alone, or no   *)
(* more than so many are.                                                  *)
Pruned(ports, choice) ==
  LET kept == IF now - choice > MAX_OLD_SOCKET_AGE THEN 1 ELSE MAX_PORTS_OPEN
  IN  IF Len(ports) <= kept THEN ports
      ELSE SubSeq(ports, Len(ports) - kept + 1, Len(ports))

(* hop_port; it changes nothing when no socket can be bound.               *)
HopPort ==
  \/ /\ socks' = Pruned(Append(socks, Last(socks) + 1), now)
     /\ last_port_choice' = now
  \/ UNCHANGED <<socks, last_port_choice>>

ClientSend ==
  /\ SendDatagram("client", [place |-> place, port |-> Last(socks)], 0)
  /\ IF /\ now - last_port_choice > PORT_HOP_INTERVAL
        /\ now - last_roundtrip_success > PORT_HOP_INTERVAL
     THEN HopPort ELSE UNCHANGED <<socks, last_port_choice>>
  /\ UNCHANGED remote_addr

ServerSend ==
  /\ remote_addr # None
  /\ SendDatagram("server", remote_addr, newest.sent)
  /\ remote_addr' = IF now - last_heard > SERVER_ASSOCIATION_TIMEOUT THEN None
                    ELSE remote_addr
  /\ UNCHANGED <<socks, last_port_choice>>

--------------------------------------------------------------------------------
(* Receiving.                                                              *)

(* Mutant of InOrder: a datagram overtaken by another counts as well.      *)
InAnyOrder(p, d) == TRUE

InOrder(p, d) == d.seq >= expected_receiver_seq[p]

Expect(p, d) ==
  expected_receiver_seq' =
    [expected_receiver_seq EXCEPT ![p] = IF InOrder(p, d) THEN d.seq + 1 ELSE @]

(* Mutant of HeardAt: a repeated or late datagram counts as contact.       *)
HeardAtAny(d) == now

HeardAt(d) == IF InOrder("server", d) THEN now ELSE last_heard

ServerRecv ==
  /\ \E d \in net :
       /\ d.by = "client"
       /\ Expect("server", d)
       /\ remote_addr' = IF InOrder("server", d) THEN d.client ELSE remote_addr
       /\ last_heard' = HeardAt(d)
       /\ newest' = IF newest = None \/ newest.seq < d.seq
                    THEN [seq |-> d.seq, from |-> d.client, sent |-> d.at, came |-> now]
                    ELSE newest
  /\ UNCHANGED <<now, client, seq, sent_at, net>>

(* The transport reports when the newest acknowledged state was sent.      *)
ClientRecv ==
  /\ \E d \in net :
       /\ d.by = "server" /\ d.client.place = place /\ d.client.port \in Range(socks)
       /\ Expect("client", d)
       /\ socks' = IF InOrder("client", d) THEN Pruned(socks, last_port_choice) ELSE socks
       /\ last_roundtrip_success' =
            IF d.answers > last_roundtrip_success THEN d.answers
            ELSE last_roundtrip_success
  /\ UNCHANGED <<now, place, last_port_choice, server, seq, sent_at, net>>

--------------------------------------------------------------------------------
(* The world.                                                              *)

Roam ==
  /\ place' \in Network \ {place}
  /\ UNCHANGED <<now, socks, last_port_choice, last_roundtrip_success, server, seq,
                 expected_receiver_seq, sent_at, net>>

(* No clock runs past the time someone must have sent by.  What has not    *)
(* arrived by MaxDelay is lost.                                            *)
Clock ==
  /\ now < MaxNow
  /\ now < sent_at["client"] + SendInterval
  /\ remote_addr # None => now < sent_at["server"] + SendInterval
  /\ now' = now + 1
  /\ net' = {d \in net : now < d.at + MaxDelay}
  /\ UNCHANGED <<client, server, seq, expected_receiver_seq, sent_at>>

Next == ClientSend \/ ServerSend \/ ServerRecv \/ ClientRecv \/ Roam \/ Clock

Spec == Init /\ [][Next]_vars

--------------------------------------------------------------------------------
(* The server answers to where the newest datagram came from, whatever     *)
(* late or repeated datagram of an earlier address arrives after it.       *)
TargetsNewest == remote_addr # None => remote_addr = newest.from

(* A client that has gone is forgotten in bounded time, though its late    *)
(* datagrams may go on arriving.                                           *)
SilenceDetaches ==
  remote_addr # None => now <= newest.came + SERVER_ASSOCIATION_TIMEOUT + SendInterval

(* "no reply can still be in flight to the ones it superseded": a client   *)
(* closes a socket only when no answer will come to it any more, though    *)
(* every datagram from its newer sockets may have been lost.               *)
NoReplyStranded == \A d \in net : d.by = "server" => d.client.port \in Range(socks)
================================================================================
