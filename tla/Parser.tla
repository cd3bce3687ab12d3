-------------------------------- MODULE Parser ---------------------------------
(***************************************************************************)
(* Bytes to characters to actions: crates/mosh-terminal/src/parser.rs.     *)
(*                                                                         *)
(* A parser is the state of its machine and the bytes of a character that  *)
(* is not complete.  An action is its kind and the character it is about,  *)
(* None for the actions a state raises when it is entered or left.         *)
(***************************************************************************)
EXTENDS Stepwise, SequencesExt

CONSTANT None

REPLACEMENT == 65533    \* U+FFFD
BUF_SIZE == 8

C0Prime == (0..23) \cup {25} \cup (28..31)
Intermediates == 32..47
Digits == 48..57
SEMICOLON == 59
Params == Digits \cup {SEMICOLON}
COLON == 58
Privates == 60..63
Finals == 64..126

Act(kind) == [kind |-> kind, next |-> None]
ActTo(kind, next) == [kind |-> kind, next |-> next]
To(next) == [kind |-> "Ignore", next |-> next]
Nothing == [kind |-> "Ignore", next |-> None]

(* Characters that end whatever is going on, checked before all else.      *)
Cancels == {24, 26} \cup (128..143) \cup (145..151) \cup {153, 154}
ST == 156
ESC == 27
CSI == 155
OSC == 157

Introduces(ch) ==
  CASE ch = ESC              -> "Escape"
    [] ch \in {152, 158, 159} -> "SosPmApcString"
    [] ch = 144              -> "DcsEntry"
    [] ch = OSC              -> "OscString"
    [] ch = CSI              -> "CsiEntry"
    [] OTHER                 -> None

(* anywhere_rule: Nothing stands for no such rule.                         *)
AnywhereRule(ch) ==
  CASE ch \in Cancels          -> ActTo("Execute", "Ground")
    [] ch = ST                 -> To("Ground")
    [] Introduces(ch) # None   -> To(Introduces(ch))
    [] OTHER                   -> Nothing

Enter(state) ==
  CASE state \in {"Escape", "CsiEntry", "DcsEntry"} -> "Clear"
    [] state = "DcsPassthrough"                     -> "Hook"
    [] state = "OscString"                          -> "OscStart"
    [] OTHER                                        -> "Ignore"

Exit(state) ==
  CASE state = "DcsPassthrough" -> "Unhook"
    [] state = "OscString"      -> "OscEnd"
    [] OTHER                    -> "Ignore"

GroundRule(ch) ==
  CASE ch \in C0Prime -> Act("Execute")
    [] ch \in 32..127 -> Act("Print")
    [] OTHER          -> Nothing

EscapeRule(ch) ==
  CASE ch \in C0Prime          -> Act("Execute")
    [] ch \in Intermediates    -> ActTo("Collect", "EscapeIntermediate")
    [] ch = 91                 -> To("CsiEntry")
    [] ch = 93                 -> To("OscString")
    [] ch = 80                 -> To("DcsEntry")
    [] ch \in {88, 94, 95}     -> To("SosPmApcString")
    [] ch \in (48..126) \ {80, 88, 91, 93, 94, 95} -> ActTo("EscDispatch", "Ground")
    [] OTHER                   -> Nothing

EscapeIntermediateRule(ch) ==
  CASE ch \in C0Prime       -> Act("Execute")
    [] ch \in Intermediates -> Act("Collect")
    [] ch \in 48..126       -> ActTo("EscDispatch", "Ground")
    [] OTHER                -> Nothing

(* The three states of a control sequence that is well formed so far:      *)
(* private is allowed first, parameters until the first intermediate.      *)
CsiEntryRule(ch) ==
  CASE ch \in C0Prime       -> Act("Execute")
    [] ch \in Finals        -> ActTo("CsiDispatch", "Ground")
    [] ch \in Params        -> ActTo("Param", "CsiParam")
    [] ch \in Privates      -> ActTo("Collect", "CsiParam")
    [] ch = COLON           -> To("CsiIgnore")
    [] ch \in Intermediates -> ActTo("Collect", "CsiIntermediate")
    [] OTHER                -> Nothing

(* Mutant: a control character ends the sequence it is in.                 *)
CsiParamRuleBroken(ch) ==
  CASE ch \in C0Prime      -> ActTo("Execute", "Ground")
    [] ch \in Params       -> Act("Param")
    [] ch \in Finals       -> ActTo("CsiDispatch", "Ground")
    [] OTHER               -> To("CsiIgnore")

CsiParamRule(ch) ==
  CASE ch \in C0Prime                  -> Act("Execute")
    [] ch \in Params                   -> Act("Param")
    [] ch = COLON \/ ch \in Privates   -> To("CsiIgnore")
    [] ch \in Intermediates            -> ActTo("Collect", "CsiIntermediate")
    [] ch \in Finals                   -> ActTo("CsiDispatch", "Ground")
    [] OTHER                           -> Nothing

CsiIntermediateRule(ch) ==
  CASE ch \in C0Prime       -> Act("Execute")
    [] ch \in Intermediates -> Act("Collect")
    [] ch \in Finals        -> ActTo("CsiDispatch", "Ground")
    [] ch \in 48..63        -> To("CsiIgnore")
    [] OTHER                -> Nothing

CsiIgnoreRule(ch) ==
  CASE ch \in C0Prime -> Act("Execute")
    [] ch \in Finals  -> To("Ground")
    [] OTHER          -> Nothing

(* The same of a device control string, which runs nothing on the way.     *)
DcsEntryRule(ch) ==
  CASE ch \in Intermediates -> ActTo("Collect", "DcsIntermediate")
    [] ch = COLON           -> To("DcsIgnore")
    [] ch \in Params        -> ActTo("Param", "DcsParam")
    [] ch \in Privates      -> ActTo("Collect", "DcsParam")
    [] ch \in Finals        -> To("DcsPassthrough")
    [] OTHER                -> Nothing

DcsParamRule(ch) ==
  CASE ch \in Params                 -> Act("Param")
    [] ch = COLON \/ ch \in Privates -> To("DcsIgnore")
    [] ch \in Intermediates          -> ActTo("Collect", "DcsIntermediate")
    [] ch \in Finals                 -> To("DcsPassthrough")
    [] OTHER                         -> Nothing

DcsIntermediateRule(ch) ==
  CASE ch \in Intermediates -> Act("Collect")
    [] ch \in Finals        -> To("DcsPassthrough")
    [] ch \in 48..63        -> To("DcsIgnore")
    [] OTHER                -> Nothing

(* Strings end at ST, which anywhere_rule handles; an operating system     *)
(* command at BEL too.                                                     *)
StringRule(state, ch) ==
  CASE state = "DcsPassthrough" /\ (ch \in C0Prime \/ ch \in 32..126) -> Act("Put")
    [] state = "OscString" /\ ch \in 32..127 -> Act("OscPut")
    [] state = "OscString" /\ ch = 7         -> To("Ground")
    [] OTHER                                 -> Nothing

InputStateRule(state, ch) ==
  CASE state = "Ground"             -> GroundRule(ch)
    [] state = "Escape"             -> EscapeRule(ch)
    [] state = "EscapeIntermediate" -> EscapeIntermediateRule(ch)
    [] state = "CsiEntry"           -> CsiEntryRule(ch)
    [] state = "CsiParam"           -> CsiParamRule(ch)
    [] state = "CsiIntermediate"    -> CsiIntermediateRule(ch)
    [] state = "CsiIgnore"          -> CsiIgnoreRule(ch)
    [] state = "DcsEntry"           -> DcsEntryRule(ch)
    [] state = "DcsParam"           -> DcsParamRule(ch)
    [] state = "DcsIntermediate"    -> DcsIntermediateRule(ch)
    [] OTHER                        -> StringRule(state, ch)

(* From 0xa0 on every character drives the machine as an 'A' does.         *)
TransitionOn(state, ch) ==
  LET anywhere == AnywhereRule(ch)
  IN  IF anywhere # Nothing THEN anywhere
      ELSE InputStateRule(state, IF ch >= 160 THEN 65 ELSE ch)

(* The actions of a transition: of leaving a state, its own, of entering   *)
(* one.                                                                    *)
Raised(state, tx, ch) ==
  LET One(kind, c) == IF kind = "Ignore" THEN <<>> ELSE <<[kind |-> kind, ch |-> c]>>
  IN  IF tx.next = None THEN One(tx.kind, ch)
      ELSE One(Exit(state), None) \o One(tx.kind, ch) \o One(Enter(tx.next), None)

TakeTransition(acc, tx, ch) ==
  [acc EXCEPT !.parser.state = IF tx.next = None THEN @ ELSE tx.next,
              !.actions = @ \o Raised(acc.parser.state, tx, ch)]

(* One character: the parser after it, and the actions raised so far.      *)
ParseChar(acc, ch) == TakeTransition(acc, TransitionOn(acc.parser.state, ch), ch)

(***************************************************************************)
(* UTF-8.  Decode is the C library's decoder on the bytes held.            *)
(***************************************************************************)
Continues == 128..191

(* The bytes a character takes, by its first; 0 for a byte that begins     *)
(* none.                                                                   *)
SequenceLength(lead) ==
  CASE lead \in 0..127   -> 1
    [] lead \in 194..223 -> 2
    [] lead \in 224..239 -> 3
    [] lead \in 240..244 -> 4
    [] OTHER             -> 0

(* What may follow the first byte: no overlong form, no surrogate, nothing *)
(* past 10FFFF.                                                            *)
SecondBytes(lead) ==
  CASE lead = 224 -> 160..191
    [] lead = 237 -> 128..159
    [] lead = 240 -> 144..191
    [] lead = 244 -> 128..143
    [] OTHER      -> Continues

(* The bytes are the beginning, or the whole, of a character.              *)
WellBegun(buf) ==
  /\ Len(buf) <= SequenceLength(buf[1])
  /\ Len(buf) >= 2 => buf[2] \in SecondBytes(buf[1])
  /\ \A i \in 3..Len(buf) : buf[i] \in Continues

LeadBits(lead) ==
  CASE SequenceLength(lead) = 1 -> lead
    [] SequenceLength(lead) = 2 -> lead - 192
    [] SequenceLength(lead) = 3 -> lead - 224
    [] OTHER                    -> lead - 240

(* Every byte after the first brings six bits.                             *)
SixMore(bits, byte) == 64 * bits + byte - 128

CodePoint(buf) == InTurn(SixMore, LeadBits(buf[1]), Tail(buf))

Decode(buf) ==
  IF ~ WellBegun(buf) THEN "invalid"
  ELSE IF Len(buf) < SequenceLength(buf[1]) THEN "incomplete" ELSE "char"

NewParser == [state |-> "Ground", buf |-> <<>>]

(* Mutant: the byte that breaks a sequence is lost with it.                *)
CompletedWithoutRetry(held, byte) ==
  LET buf == Append(held, byte)
  IN  CASE Decode(buf) = "char"    -> [chars |-> <<CodePoint(buf)>>, buf |-> <<>>]
        [] Decode(buf) = "invalid" -> [chars |-> <<REPLACEMENT>>, buf |-> <<>>]
        [] OTHER                   -> [chars |-> <<>>, buf |-> buf]

(* The characters a byte completes, at most two, and what is held then.    *)
(* A sequence gone wrong is one replacement character, and its last byte   *)
(* is tried again: it may begin a character.                               *)
Completed(held, byte) ==
  LET buf == Append(held, byte)
      One(b) == CASE Decode(b) = "char" -> [chars |-> <<CodePoint(b)>>, buf |-> <<>>]
                  [] Decode(b) = "invalid" -> [chars |-> <<REPLACEMENT>>, buf |-> <<>>]
                  [] OTHER -> [chars |-> <<>>, buf |-> b]
      retried == One(<<byte>>)
      all == IF Len(buf) > 1 /\ Decode(buf) = "invalid"
             THEN [retried EXCEPT !.chars = <<REPLACEMENT>> \o @]
             ELSE One(buf)
  IN  [all EXCEPT !.buf = IF Len(@) >= BUF_SIZE THEN <<>> ELSE @]

(* One byte: the parser after it, and the actions it raises in order.      *)
ParseByte(parser, byte) ==
  LET Feed(done) ==
        InTurn(ParseChar, [parser |-> [parser EXCEPT !.buf = done.buf], actions |-> <<>>],
               done.chars)
  IN  Feed(Completed(parser.buf, byte))
================================================================================
