------------------------------- MODULE MCTerminal -------------------------------
(* Terminal on small windows, with the byte strings an application writes. *)
EXTENDS Terminal

MCWcWidth(ch) == CASE ch \in 768..879 -> 0 [] ch \in 19968..40959 -> 2 [] ch < 160 -> -1 [] OTHER -> 1

E == <<27>>
C(p, final) == <<27, 91>> \o p \o <<final>>
a == <<97>>
CRLF == <<13, 10>>
Row(ch, n) == [i \in 1..n |-> ch]

MCSizes == {<<6, 3>>, <<4, 2>>}

W == <<228, 184, 173>>               \* a wide character
Link == E \o <<93, 56, 59, 59, 117, 7>>

(* What is on the screen to begin with: a wrapped row and links, colours   *)
(* and erased cells, wide characters, a scrolling region.                  *)
MCSeeds == {<<>>, Row(97, 7) \o CRLF \o <<98, 98>>,
            Row(97, 3) \o Link \o Row(97, 4),
            W \o a \o W \o W,
            C(<<52, 49>>, 109) \o a \o C(<<>>, 75) \o CRLF \o <<98>> \o CRLF \o <<99>>,
            C(<<50, 59, 51>>, 114) \o a \o C(<<51, 59, 54>>, 72) \o E \o <<55, 98>>}

(* Printing, with a wrap, a combining character and half a character.      *)
Printing == {a, W, Row(97, 6), <<204, 129>>, <<226, 130>>, Link}
Moving == {<<10>>, CRLF, <<9>>, E \o <<77>>, C(<<>>, 72), C(<<50, 59, 54>>, 72),
           C(<<50>>, 71), C(<<50, 59, 50>>, 114), C(<<49, 59, 50>>, 114), C(<<>>, 90),
           E \o <<55>>, E \o <<56>>}
Erasing == {C(<<>>, 74), C(<<49>>, 75), C(<<50>>, 75), C(<<50>>, 88), E \o <<35, 56>>}
Shifting == {C(<<>>, 76), C(<<>>, 77), C(<<50>>, 64), C(<<>>, 80), C(<<50>>, 83), C(<<>>, 84)}
Switching == {C(<<55>>, 109), C(<<>>, 109), C(<<52, 56, 59, 53, 59, 57>>, 109),
              C(<<63, 54>>, 104), C(<<63, 55>>, 108), C(<<52>>, 104), C(<<63, 53>>, 104),
              C(<<63, 50, 53>>, 108), C(<<63, 49, 48, 48, 48>>, 104),
              C(<<63, 49, 48, 48, 51>>, 104), C(<<63, 49, 48, 48, 54>>, 104),
              E \o <<99>>, C(<<33>>, 112),
              E \o <<93, 48, 59, 97, 7>>, E \o <<93, 49, 59, 97, 7>>}
Opening == {E \o <<91, 50>>, E \o <<93, 50, 59>>}
MCWrites == Printing \cup Moving \cup Erasing \cup Shifting \cup Switching \cup Opening

MCPieces == {<<65>>, <<172>>, <<10>>, <<51>>, <<24>>, <<7>>, a}

(* A window of one row, and an application that prints.                    *)
OneRow == {<<4, 1>>}
Blank0 == {<<>>}
OnlyPrinting == {a}
================================================================================
