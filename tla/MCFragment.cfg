CONSTANTS
  short = short
  middling = middling
  long = long
  None = None
  Instruction <- MCInstruction
  Header <- MCHeader
  Size <- MCSize
  Mtu = {2, 3}
  MAX_FRAGMENTS = 3
  MAX_ASSEMBLY_BYTES = 5
  MaxInstructions = 3
SPECIFICATION Spec
INVARIANTS TypeOK OneInstructionAtATime NeverLeftComplete BytesAccounted
