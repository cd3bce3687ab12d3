-------------------------------- MODULE MCTyping --------------------------------
(* Typing, with a few kinds of keys in each session.                       *)
EXTENDS Typing

MCWcWidth(ch) == 1

(* Two rows, "ab" on the first, the cursor within the text or after it.    *)
At(col) == [rows |-> <<<<97, 98, 32, 32>>, <<32, 32, 32, 32>>>>, row |-> 0, col |-> col]

X == <<120>>
EnterKey == <<Return>>
Erase == <<DEL>>
Left == <<ESC, SS3, LeftArrow>>
Word == <<ESC, DEL>>
Long == <<120, 120, 120, 120, 120>>
Narrow == <<RESIZE, 3, 1>>

MCSessions == {[screen |-> At(2), keys |-> {X, EnterKey, Erase}],
               [screen |-> At(2), keys |-> {X, Left}],
               [screen |-> At(1), keys |-> {X, Word, Long}],
               [screen |-> At(1), keys |-> {X, Narrow}]}
TypingOn == {[screen |-> At(2), keys |-> {X}]}
================================================================================
