\* EMIT_lineE over instruction streams: the REV triple and its near
\* misses, a SWAP outside a triple, and every memory and bitfield opcode.
CONSTANTS
    DRegs = {0, 1}
    Words <- MC_Words
    MaskChoices <- MC_AllMasks
    CcrInit <- MC_CcrInit
    MaxSteps = 3
    Progs <- MC_DispatchProgs
INIT Init
NEXT Next
\* A block ends with its last word or at the exception: the end of a
\* behaviour is the end of the block, not a deadlock.
CHECK_DEADLOCK FALSE
INVARIANTS TypeOK RegistersAgree PcAgree TableCoversISA LengthAgrees
