\* BFTST, BFEXTU, BFEXTS, BFFFO, BFCHG, BFSET, BFCLR and BFINS on Dn and on (A0), every
\* operand policy, from every register and memory state of the bounds: does the translated code implement
\* BitfieldSpec?
CONSTANTS
    DRegs = {0, 1, 2}
    Words <- MC_Words
    Insns <- MC_Insns
    MaskChoices <- MC_Masks
    CcrInit <- MC_CcrInit
    Addrs <- MC_Addrs
    MemInit <- MC_MemInit
    Base <- MC_Base
    MaxSteps = 1
INIT Init
NEXT Next
INVARIANT TypeOK
PROPERTY Refinement
\* A translated block ends after MaxSteps instructions.
CHECK_DEADLOCK FALSE
