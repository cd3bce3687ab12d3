-------------------------------- MODULE Stepwise -------------------------------
(***************************************************************************)
(* Loops over a sequence: a fold to the left, whose steps are taken one    *)
(* before the next where FoldLeft nests them, and a filter.  Both are      *)
(* defined by recursion on a number, so that they can be reasoned about.   *)
(***************************************************************************)
EXTENDS Integers, Sequences

InTurn(op(_, _), base, seq) ==
  LET upto[i \in 0..Len(seq)] ==
        IF i = 0 THEN base
        ELSE CHOOSE next \in {op(before, seq[i]) : before \in {upto[i - 1]}} : TRUE
  IN  upto[Len(seq)]

(* The sequence for a fold whose steps need something besides an element.  *)
With(context, seq) == [i \in DOMAIN seq |-> [context |-> context, item |-> seq[i]]]

(* What is in K of a sequence, in order.                                   *)
Only(s, K) ==
  LET kept[n \in 0..Len(s)] ==
        IF n = 0 THEN <<>>
        ELSE IF s[n] \in K THEN Append(kept[n - 1], s[n]) ELSE kept[n - 1]
  IN  kept[Len(s)]
================================================================================
