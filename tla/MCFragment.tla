------------------------------- MODULE MCFragment -------------------------------
(* Instructions of one, two, three and too many fragments, and two mtus.   *)
EXTENDS Fragment

CONSTANTS short, middling, long

MCInstruction == {short, middling, long}
MCHeader(i) == i
MCSize(i) == CASE i = short -> 2 [] i = middling -> 4 [] i = long -> 7
================================================================================
