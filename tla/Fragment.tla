-------------------------------- MODULE Fragment --------------------------------
(***************************************************************************)
(* Splitting an instruction across datagrams and putting it back together: *)
(* crates/mosh-network/src/fragment.rs.  One Fragmenter, one               *)
(* FragmentAssembly, and datagrams that may be lost, repeated or reordered *)
(* in between.                                                             *)
(*                                                                         *)
(* A compressed instruction is Size(inst) bytes; what a fragment carries   *)
(* is the range of those bytes it was cut from.                            *)
(***************************************************************************)
EXTENDS Integers, Sequences, FiniteSets, FiniteSetsExt

CONSTANTS
  Instruction,        \* the instructions a sender may hand over
  Header(_),          \* everything of an instruction but its diff
  Size(_),            \* its length once serialised and compressed
  Mtu,                \* the values of mtu, less the fragment's own header
  MAX_FRAGMENTS,      \* 0x8000: a fragment number has 15 bits
  MAX_ASSEMBLY_BYTES,
  None,
  MaxInstructions     \* bound on the instruction ids given out

ASSUME FragmentConstants ==
  /\ Mtu \subseteq Nat \ {0}
  /\ \A i \in Instruction : Size(i) \in Nat \ {0}
  /\ {MAX_FRAGMENTS, MAX_ASSEMBLY_BYTES, MaxInstructions} \subseteq Nat
  /\ None \notin Instruction \cup Nat

(***************************************************************************)
(* Two instructions that differ in nothing but the diff do not exist: the  *)
(* diff is the one between the two states the instruction names, which is  *)
(* DiffNamesItsStates of Transport.                                        *)
(***************************************************************************)
ASSUME HeaderNamesInstruction ==
  \A i, j \in Instruction : Header(i) = Header(j) => i = j

VARIABLES
  next_instruction_id, last_instruction, last_mtu,  \* Fragmenter
  held,             \* FragmentAssembly: fragment number -> contents
  bytes_held, fragments_total, current_id,
  net,              \* the fragments ever sent
  cut               \* history: cut[id] is what was cut up under that id

fragmenter == <<next_instruction_id, last_instruction, last_mtu>>
assembly == <<held, bytes_held, fragments_total, current_id>>
vars == <<fragmenter, assembly, net, cut>>

Contents == [of : Instruction, from : Nat, to : Nat]
Cut == [inst : Instruction, mtu : Mtu]
FragmentType ==
  [id : Nat, fragment_num : Nat, final_fragment : BOOLEAN, contents : Contents]

TypeOK ==
  /\ next_instruction_id \in Nat
  /\ last_instruction \in Instruction \cup {None}
  /\ last_mtu \in Mtu \cup {None}
  /\ DOMAIN held \subseteq 0..MAX_FRAGMENTS - 1
  /\ held = [n \in DOMAIN held |-> held[n]]
  /\ \A n \in DOMAIN held : held[n] \in Contents
  /\ bytes_held \in 0..MAX_ASSEMBLY_BYTES
  /\ fragments_total \in 1..MAX_FRAGMENTS \cup {None}
  /\ current_id \in Nat \cup {None}
  /\ net \subseteq FragmentType
  /\ cut \in Seq(Cut)

Init ==
  /\ next_instruction_id = 0 /\ last_instruction = None /\ last_mtu = None
  /\ held = [n \in {} |-> None] /\ bytes_held = 0
  /\ fragments_total = None /\ current_id = None
  /\ net = {} /\ cut = <<>>

--------------------------------------------------------------------------------
(* Sending.                                                                *)

(* Mutant of Changed: the mtu an id was cut with is not remembered.        *)
ChangedButForMtu(inst, mtu) ==
  last_instruction = None \/ Header(inst) # Header(last_instruction)

(* Anything but the diff differs from the last time, or the mtu does.      *)
Changed(inst, mtu) ==
  \/ last_instruction = None
  \/ Header(inst) # Header(last_instruction)
  \/ last_mtu # mtu

(* The number of the piece that reaches the end of the payload.            *)
Final(inst, mtu) == (Size(inst) - 1) \div mtu

Piece(id, inst, mtu, n) ==
  [id |-> id, fragment_num |-> n, final_fragment |-> n = Final(inst, mtu),
   contents |-> [of |-> inst, from |-> n * mtu,
                 to |-> IF n = Final(inst, mtu) THEN Size(inst) ELSE (n + 1) * mtu]]

(* TooManyFragments is found out after the id and the instruction were     *)
(* recorded, and nothing is sent.                                          *)
MakeFragments ==
  \E inst \in Instruction, mtu \in Mtu :
    LET id == IF Changed(inst, mtu) THEN next_instruction_id + 1
              ELSE next_instruction_id
    IN  /\ id <= MaxInstructions
        /\ next_instruction_id' = id
        /\ last_instruction' = inst /\ last_mtu' = mtu
        /\ cut' = IF id = Len(cut) THEN cut ELSE Append(cut, [inst |-> inst, mtu |-> mtu])
        /\ net' = IF Final(inst, mtu) >= MAX_FRAGMENTS THEN net
                  ELSE net \cup {Piece(id, inst, mtu, n) : n \in 0..Final(inst, mtu)}
        /\ UNCHANGED assembly

--------------------------------------------------------------------------------
(* Receiving.                                                              *)

Length(contents) == contents.to - contents.from

Empty(id) == [held |-> [n \in {} |-> None], bytes |-> 0, total |-> None, id |-> id]

(* Mutant of Superseded: fragments are told apart by number alone.         *)
NeverSuperseded(f) ==
  [held |-> held, bytes |-> bytes_held, total |-> fragments_total, id |-> f.id]

(* A fragment of another instruction supersedes what is being collected.   *)
Superseded(f) ==
  IF current_id = f.id
  THEN [held |-> held, bytes |-> bytes_held, total |-> fragments_total, id |-> f.id]
  ELSE Empty(f.id)

(* Mutant of WithTotal: the number of the last for the number of them.     *)
TotalOffByOne(a, f) ==
  IF ~f.final_fragment THEN a ELSE [a EXCEPT !.total = f.fragment_num]

(* The final fragment says how many there are, and drops what is past it.  *)
WithTotal(a, f) ==
  IF ~f.final_fragment THEN a
  ELSE LET past == {n \in DOMAIN a.held : n > f.fragment_num}
       IN  [a EXCEPT !.total = f.fragment_num + 1,
                     !.held = [n \in DOMAIN @ \ past |-> @[n]],
                     !.bytes = @ - MapThenSumSet(LAMBDA n : Length(a.held[n]), past)]

(* Mutant of Inserted: a repeated fragment is counted again.               *)
InsertedAgain(a, f) ==
  LET n == f.fragment_num
  IN  [a EXCEPT !.bytes = @ + Length(f.contents),
                !.held = [m \in DOMAIN @ \cup {n} |->
                            IF m \in DOMAIN @ THEN @[m] ELSE f.contents]]

(* A repeated fragment is ignored.                                         *)
Inserted(a, f) ==
  LET n == f.fragment_num
  IN  IF n \in DOMAIN a.held THEN a
      ELSE [a EXCEPT !.bytes = @ + Length(f.contents),
                     !.held = [m \in DOMAIN @ \cup {n} |->
                                 IF m = n THEN f.contents ELSE @[m]]]

Complete(a) == a.total # None /\ Cardinality(DOMAIN a.held) = a.total

(* The payload, the contents in the order of their numbers, inflates and   *)
(* parses exactly when it is one instruction's own.                        *)
Decodes(contents, inst) ==
  \A n \in DOMAIN contents :
    /\ contents[n].of = inst
    /\ contents[n].from = IF n = 0 THEN 0 ELSE contents[n - 1].to
    /\ n + 1 \notin DOMAIN contents => contents[n].to = Size(inst)

Assemble(a) ==
  /\ held' = a.held /\ bytes_held' = a.bytes /\ fragments_total' = a.total
  /\ current_id' = a.id
  /\ UNCHANGED <<fragmenter, net, cut>>

Arriving(f) == WithTotal(Superseded(f), f)

(* Mutant of Overflows: no limit.                                          *)
NeverOverflows(a, f) == FALSE

Overflows(a, f) == a.bytes + Length(f.contents) > MAX_ASSEMBLY_BYTES

(* More fragments still to come.                                           *)
AddFragment ==
  \E f \in net :
    /\ ~Overflows(Arriving(f), f) /\ ~Complete(Inserted(Arriving(f), f))
    /\ Assemble(Inserted(Arriving(f), f))

(* Past the most that could ever complete: everything held is dropped.     *)
AddFragmentOverflows ==
  \E f \in net : /\ Overflows(Arriving(f), f)
                 /\ Assemble(Empty(f.id))

(* The instruction is complete: get_assembly hands it on, or leaves        *)
(* everything in place if it does not parse.                               *)
GetAssembly ==
  \E f \in net :
    LET a == Inserted(Arriving(f), f)
    IN  /\ ~Overflows(Arriving(f), f) /\ Complete(a)
        /\ Assemble(IF \E inst \in Instruction : Decodes(a.held, inst)
                    THEN Empty(f.id) ELSE a)

Next == MakeFragments \/ AddFragment \/ AddFragmentOverflows \/ GetAssembly

Spec == Init /\ [][Next]_vars

--------------------------------------------------------------------------------
(* Whatever order fragments of several instructions arrive in, what is     *)
(* collected under one id was cut from one instruction in one way, and     *)
(* each number of it is the piece of that number.                          *)
OneInstructionAtATime ==
  current_id # None =>
    /\ current_id \in DOMAIN cut
    /\ \A n \in DOMAIN held :
         held[n] = Piece(current_id, cut[current_id].inst, cut[current_id].mtu, n).contents

(* An instruction is handed on the moment its last missing fragment        *)
(* arrives: it always parses, so the assembly is never left complete, a    *)
(* state in which every later fragment of the id fails to parse again.     *)
NeverLeftComplete ==
  fragments_total # None => Cardinality(DOMAIN held) < fragments_total

(* The bytes counted against the limit are the bytes held.                 *)
BytesAccounted ==
  bytes_held = MapThenSumSet(LAMBDA n : Length(held[n]), DOMAIN held)
================================================================================
