------------------------------ MODULE MCConnection ------------------------------
(* Connection with timeouts scaled so that the assumption just holds.      *)
EXTENDS Connection, TLC

MCSymmetry == Permutations(Network)

Age(time, limit) == IF now - time > limit THEN limit + 1 ELSE now - time
Relative(addr) == [addr EXCEPT !.port = @ - Last(socks)]

(* Only the order of sequence numbers and of ports and the age of times,   *)
(* up to the interval they are compared with, tell one future from         *)
(* another, so that is what is seen of a state.                            *)
Ages ==
  <<place, Len(socks),
    Age(last_port_choice, MAX_OLD_SOCKET_AGE),
    Age(last_roundtrip_success, PORT_HOP_INTERVAL),
    IF remote_addr = None THEN None ELSE Relative(remote_addr),
    Age(last_heard, SERVER_ASSOCIATION_TIMEOUT),
    [p \in Peer |-> Age(sent_at[p], SendInterval)],
    IF newest = None THEN None
    ELSE <<Relative(newest.from), Age(newest.sent, PORT_HOP_INTERVAL),
           Age(newest.came, SERVER_ASSOCIATION_TIMEOUT + SendInterval)>>,
    {<<d.by, Relative(d.client), seq[d.by] - d.seq, now - d.at,
       Age(d.answers, PORT_HOP_INTERVAL),
       InOrder(IF d.by = "client" THEN "server" ELSE "client", d)>> : d \in net}>>
================================================================================
