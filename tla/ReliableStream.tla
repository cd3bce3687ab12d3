----------------------------- MODULE ReliableStream -----------------------------
(***************************************************************************)
(* What the synchronisation of an event stream promises: the events typed  *)
(* at one end are handed over at the other in order, each exactly once,    *)
(* however many at a time.                                                 *)
(***************************************************************************)
EXTENDS SequencesExt

CONSTANT Event

VARIABLES typed, written

Init == typed = <<>> /\ written = <<>>

Type == \E e \in Event : typed' = Append(typed, e) /\ UNCHANGED written

Deliver == /\ IsStrictPrefix(written, written') /\ IsPrefix(written', typed)
           /\ UNCHANGED typed

Spec == Init /\ [][Type \/ Deliver]_<<typed, written>>
================================================================================
