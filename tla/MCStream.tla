-------------------------------- MODULE MCStream --------------------------------
(* StreamSync with a client that types a few keys to a server.             *)
EXTENDS StreamSync

CONSTANTS k1, k2

EmptyStream == <<>>

MCState == UNION {[1..n -> Event] : n \in 0..MaxEvents}

(* Nothing tells one key from another.                                     *)
MCSymmetry == Permutations(Event)

(* calculate_timers overwrites assumed and next_send_time before anything  *)
(* reads them, so states that differ only there behave alike.              *)
LiveState ==
  <<now, [p \in Peer |-> [sender[p] EXCEPT !.assumed = 1, !.next_send_time = 0]],
    received, quench, attached, net, raw, made, lastRemote, written>>
================================================================================
