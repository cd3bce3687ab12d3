------------------------------ MODULE ParserProofs -----------------------------
(***************************************************************************)
(* Proofs about Parser, for the modules about what its actions do: any     *)
(* bytes leave it in a state of its machine, and raise actions about       *)
(* characters.                                                             *)
(***************************************************************************)
EXTENDS Parser, FoldLemmas, SequenceTheorems

Text == Seq(Int)

(* The bytes held of a character that is not complete: none, or those      *)
(* Decode finds incomplete.                                                *)
Held == {b \in Text : b = <<>> \/ (b # <<>> /\ Decode(b) = "incomplete")}

Kept == [chars : Text, buf : Held]

CodeMade == INSTANCE FoldLemmas WITH Op <- SixMore

(* The fold over the bytes of a character is the one the lemmas are about. *)
LEMMA CodeFolds == \A base, seq : CodeMade!Folded(base, seq) = InTurn(SixMore, base, seq)
BY Zenon DEF InTurn, CodeMade!InTurn, CodeMade!Folded

(* A character decoded is a number.                                        *)
LEMMA CodesAre ==
  ASSUME NEW b \in Text, b # <<>>
  PROVE  CodePoint(b) \in Int
<1>1. Tail(b) \in Seq(Int) /\ b[1] \in Int
  BY DEF Text
<1>2. LeadBits(b[1]) \in Int
  BY <1>1 DEF LeadBits
<1>3. CodeMade!Closed(Int, Int)
  <2>1. \A v \in Int, x \in Int : SixMore(v, x) \in Int
    BY DEF SixMore
  <2> QED  BY <2>1, Zenon DEF CodeMade!Closed
<1>4. CodeMade!Folded(LeadBits(b[1]), Tail(b)) \in Int
  BY <1>1, <1>2, <1>3, CodeMade!FoldedType, Zenon
<1> QED  BY <1>4, CodeFolds, Zenon DEF CodePoint

(* A held sequence is shorter than a character, so the buffer never fills. *)
LEMMA HeldShort ==
  ASSUME NEW b \in Held
  PROVE  Len(b) \in 0..3
<1>1. CASE b = <<>>
  BY <1>1
<1>2. CASE b # <<>>
  <2>1. Decode(b) = "incomplete" /\ Len(b) \in Nat
    BY <1>2 DEF Held, Text
  <2>2. Len(b) < SequenceLength(b[1])
    BY <2>1 DEF Decode
  <2>3. SequenceLength(b[1]) \in 0..4
    BY DEF SequenceLength
  <2> DEFINE k == Len(b)
             n == SequenceLength(b[1])
  <2>4. k \in Nat /\ k < n /\ n \in 0..4
    BY <2>1, <2>2, <2>3
  <2> HIDE DEF k, n
  <2>5. k \in 0..3
    BY <2>4
  <2> QED  BY <2>5 DEF k
<1> QED  BY <1>1, <1>2

(* A byte completes characters, and what is held then is again the         *)
(* beginning of one or nothing.                                            *)
LEMMA Completes ==
  ASSUME NEW held \in Held, NEW byte \in Int
  PROVE  Completed(held, byte) \in Kept
<1> DEFINE buf == Append(held, byte)
           One(b) == CASE Decode(b) = "char" -> [chars |-> <<CodePoint(b)>>, buf |-> <<>>]
                       [] Decode(b) = "invalid" -> [chars |-> <<REPLACEMENT>>, buf |-> <<>>]
                       [] OTHER -> [chars |-> <<>>, buf |-> b]
           retried == One(<<byte>>)
           again == [retried EXCEPT !.chars = <<REPLACEMENT>> \o retried.chars]
           all == IF Len(buf) > 1 /\ Decode(buf) = "invalid" THEN again ELSE One(buf)
           left == IF Len(all.buf) >= BUF_SIZE THEN <<>> ELSE all.buf
<1>1. <<>> \in Held
  BY DEF Held, Text
<1>2. buf \in Text /\ buf # <<>> /\ <<byte>> \in Text /\ <<byte>> # <<>>
  BY DEF Held, Text
<1>3. ASSUME NEW b \in Text, b # <<>>
      PROVE  One(b) \in Kept
  <2>1. Decode(b) \in {"char", "invalid", "incomplete"}
    BY DEF Decode
  <2>2. CodePoint(b) \in Int /\ REPLACEMENT \in Int
    BY <1>3, CodesAre DEF REPLACEMENT
  <2>3. <<CodePoint(b)>> \in Text /\ <<REPLACEMENT>> \in Text /\ <<>> \in Text
    BY <2>2 DEF Text
  <2>4. Decode(b) = "incomplete" => b \in Held
    BY <1>3 DEF Held
  <2>5. /\ [chars |-> <<CodePoint(b)>>, buf |-> <<>>] \in Kept
        /\ [chars |-> <<REPLACEMENT>>, buf |-> <<>>] \in Kept
        /\ b \in Held => [chars |-> <<>>, buf |-> b] \in Kept
    BY <1>1, <2>3 DEF Kept
  <2> QED  BY <2>1, <2>4, <2>5
<1> HIDE DEF One
<1>4. again \in Kept
  <2>1. retried \in Kept
    BY <1>2, <1>3
  <2> HIDE DEF retried
  <2>2. <<REPLACEMENT>> \o retried.chars \in Text
    BY <2>1 DEF Kept, Text, REPLACEMENT
  <2> QED  BY <2>1, <2>2 DEF Kept
<1>5. all \in Kept
  BY <1>2, <1>3, <1>4
<1>6. Completed(held, byte) = [all EXCEPT !.buf = left]
  BY DEF Completed, One
<1> HIDE DEF all
<1>7. left \in Held
  BY <1>1, <1>5 DEF Kept
<1> HIDE DEF left
<1> QED  BY <1>5, <1>6, <1>7 DEF Kept

(* The actions about a character, those about none, and the states.        *)
Spoken == {"Print", "Execute", "Collect", "Param", "EscDispatch", "CsiDispatch", "OscPut", "Put"}
Silent == {"Clear", "Hook", "Unhook", "OscStart", "OscEnd"}
States == {"Ground", "Escape", "EscapeIntermediate", "CsiEntry", "CsiParam", "CsiIntermediate",
           "CsiIgnore", "DcsEntry", "DcsParam", "DcsIntermediate", "DcsPassthrough", "DcsIgnore",
           "OscString", "SosPmApcString"}
Kinds == Spoken \cup {"Ignore"}
Nexts == States \cup {None}
Transitions == [kind : Kinds, next : Nexts]

(* Whatever the state and the character, the rules give one action and a   *)
(* state of the machine.                                                   *)
LEMMA RulesAre ==
  ASSUME NEW state, NEW ch
  PROVE  TransitionOn(state, ch) \in Transitions
<1>1. Nothing \in Transitions
  BY DEF Nothing, Transitions, Nexts, Kinds
<1>2. ASSUME NEW kind \in Kinds, NEW next \in Nexts
      PROVE  /\ Act(kind) \in Transitions /\ ActTo(kind, next) \in Transitions
             /\ To(next) \in Transitions
  <2>1. "Ignore" \in Kinds /\ None \in Nexts
    BY DEF Kinds, Nexts
  <2> QED  BY <2>1 DEF Act, ActTo, To, Transitions
<1> HIDE DEF Transitions
<1>3. AnywhereRule(ch) \in Transitions
  <2>1. Introduces(ch) \in Nexts
    BY DEF Introduces, Nexts, States
  <2>2. "Execute" \in Kinds /\ "Ground" \in Nexts
    BY DEF Nexts, Kinds, Spoken, States
  <2> QED  BY <1>1, <1>2, <2>1, <2>2, Zenon DEF AnywhereRule
<1>4. ASSUME NEW c
      PROVE  InputStateRule(state, c) \in Transitions
  <2>1. GroundRule(c) \in Transitions
    BY <1>1, <1>2 DEF GroundRule, Nexts, Kinds, Spoken, States
  <2>2. EscapeRule(c) \in Transitions
    BY <1>1, <1>2 DEF EscapeRule, Nexts, Kinds, Spoken, States
  <2>3. EscapeIntermediateRule(c) \in Transitions
    BY <1>1, <1>2 DEF EscapeIntermediateRule, Nexts, Kinds, Spoken, States
  <2>4. CsiEntryRule(c) \in Transitions
    BY <1>1, <1>2 DEF CsiEntryRule, Nexts, Kinds, Spoken, States
  <2>5. CsiParamRule(c) \in Transitions
    BY <1>1, <1>2 DEF CsiParamRule, Nexts, Kinds, Spoken, States
  <2>6. CsiIntermediateRule(c) \in Transitions
    BY <1>1, <1>2 DEF CsiIntermediateRule, Nexts, Kinds, Spoken, States
  <2>7. CsiIgnoreRule(c) \in Transitions
    BY <1>1, <1>2 DEF CsiIgnoreRule, Nexts, Kinds, Spoken, States
  <2>8. DcsEntryRule(c) \in Transitions
    BY <1>1, <1>2 DEF DcsEntryRule, Nexts, Kinds, Spoken, States
  <2>9. DcsParamRule(c) \in Transitions
    BY <1>1, <1>2 DEF DcsParamRule, Nexts, Kinds, Spoken, States
  <2>10. DcsIntermediateRule(c) \in Transitions
    BY <1>1, <1>2 DEF DcsIntermediateRule, Nexts, Kinds, Spoken, States
  <2>11. StringRule(state, c) \in Transitions
    BY <1>1, <1>2 DEF StringRule, Nexts, Kinds, Spoken, States
  <2> QED  BY <2>1, <2>2, <2>3, <2>4, <2>5, <2>6, <2>7, <2>8, <2>9, <2>10, <2>11, Zenon
           DEF InputStateRule
<1> QED  BY <1>3, <1>4, Zenon DEF TransitionOn

Aloud == [kind : Spoken, ch : Int]
Quiet == [kind : Silent, ch : {None}]
Actions == Seq(Aloud \cup Quiet)

Parsers == [state : States, buf : Held]
Parsings == [parser : Parsers, actions : Actions]

(* The actions a transition raises.                                        *)
LEMMA Raises ==
  ASSUME NEW state, NEW tx \in Transitions, NEW ch \in Int
  PROVE  Raised(state, tx, ch) \in Actions
<1> DEFINE One(kind, c) == IF kind = "Ignore" THEN <<>> ELSE <<[kind |-> kind, ch |-> c]>>
<1>0. <<>> \in Actions
  BY DEF Actions
<1>1. tx.kind \in Kinds /\ tx.next \in Nexts
  BY DEF Transitions
<1>2. Exit(state) \in Silent \cup {"Ignore"} /\ Enter(tx.next) \in Silent \cup {"Ignore"}
  BY DEF Exit, Enter, Silent
<1>3. \A kind \in Silent \cup {"Ignore"} : One(kind, None) \in Actions
  <2> SUFFICES ASSUME NEW kind \in Silent \cup {"Ignore"}
               PROVE  One(kind, None) \in Actions
    OBVIOUS
  <2> DEFINE a == [kind |-> kind, ch |-> None]
  <2>1. kind # "Ignore" => a \in Quiet
    BY DEF Quiet
  <2> HIDE DEF a
  <2>2. kind # "Ignore" => <<a>> \in Actions
    BY <2>1 DEF Actions
  <2> QED  BY <1>0, <2>2, Zenon DEF a
<1>4. \A kind \in Kinds : One(kind, ch) \in Actions
  <2> SUFFICES ASSUME NEW kind \in Kinds
               PROVE  One(kind, ch) \in Actions
    OBVIOUS
  <2> DEFINE a == [kind |-> kind, ch |-> ch]
  <2>1. kind # "Ignore" => a \in Aloud
    BY DEF Aloud, Kinds
  <2> HIDE DEF a
  <2>2. kind # "Ignore" => <<a>> \in Actions
    BY <2>1 DEF Actions
  <2> QED  BY <1>0, <2>2, Zenon DEF a
<1>5. Raised(state, tx, ch) =
        IF tx.next = None THEN One(tx.kind, ch)
        ELSE One(Exit(state), None) \o One(tx.kind, ch) \o One(Enter(tx.next), None)
  BY DEF Raised
<1> HIDE DEF One
<1>6. One(Exit(state), None) \in Actions /\ One(tx.kind, ch) \in Actions
      /\ One(Enter(tx.next), None) \in Actions
  BY <1>1, <1>2, <1>3, <1>4
<1>7. \A a \in Actions, b \in Actions : a \o b \in Actions
  BY DEF Actions
<1> QED  BY <1>5, <1>6, <1>7

(* One character through the machine.                                      *)
LEMMA ParsesChar ==
  ASSUME NEW acc \in Parsings, NEW ch \in Int
  PROVE  ParseChar(acc, ch) \in Parsings
<1> DEFINE tx == TransitionOn(acc.parser.state, ch)
           state == IF tx.next = None THEN acc.parser.state ELSE tx.next
           raised == Raised(acc.parser.state, tx, ch)
           parser == [acc.parser EXCEPT !.state = state]
           actions == acc.actions \o raised
<1>1. acc.parser \in Parsers /\ acc.actions \in Actions
  BY DEF Parsings
<1>2. tx \in Transitions
  BY RulesAre
<1>3. ParseChar(acc, ch) = [acc EXCEPT !.parser = parser, !.actions = actions]
  BY DEF ParseChar, TakeTransition
<1> HIDE DEF tx
<1>4. state \in States
  BY <1>1, <1>2 DEF Parsers, Transitions, Nexts
<1> HIDE DEF state
<1>5. parser \in Parsers
  BY <1>1, <1>4 DEF Parsers
<1>6. raised \in Actions
  BY <1>2, Raises
<1> HIDE DEF parser, raised
<1>7. actions \in Actions
  BY <1>1, <1>6 DEF Actions
<1> HIDE DEF actions
<1> QED  BY <1>3, <1>5, <1>7 DEF Parsings

CharsParsed == INSTANCE FoldLemmas WITH Op <- ParseChar

(* The fold over characters is the one the lemmas are about.               *)
LEMMA ParseFolds == \A base, seq : CharsParsed!Folded(base, seq) = InTurn(ParseChar, base, seq)
BY Zenon DEF InTurn, CharsParsed!InTurn, CharsParsed!Folded

(* One byte through the parser.                                            *)
LEMMA ParsesByte ==
  ASSUME NEW parser \in Parsers, NEW byte \in Int
  PROVE  ParseByte(parser, byte) \in Parsings
<1> DEFINE done == Completed(parser.buf, byte)
           held == [parser EXCEPT !.buf = done.buf]
           base == [parser |-> held, actions |-> <<>>]
<1>1. parser.buf \in Held
  BY DEF Parsers
<1>2. done \in Kept
  BY <1>1, Completes
<1>3. ParseByte(parser, byte) = InTurn(ParseChar, base, done.chars)
  BY Zenon DEF ParseByte
<1> HIDE DEF done
<1>4. done.chars \in Seq(Int) /\ done.buf \in Held
  BY <1>2 DEF Kept, Text
<1>5. held \in Parsers /\ <<>> \in Actions
  BY <1>4 DEF Parsers, Actions
<1> HIDE DEF held
<1>6. base \in Parsings
  BY <1>5 DEF Parsings
<1>7. CharsParsed!Closed(Parsings, Int)
  BY ParsesChar, Zenon DEF CharsParsed!Closed
<1>8. CharsParsed!Folded(base, done.chars) \in Parsings
  BY <1>4, <1>6, <1>7, CharsParsed!FoldedType, Zenon
<1> QED  BY <1>3, <1>8, ParseFolds, Zenon
================================================================================
