\* BFFFO Dn{0:0},Dm (the whole register) with no flag live: is Dm set to
\* the offset of the first one, as BitfieldSpec requires?
CONSTANTS
    DRegs = {0, 1, 2}
    Words <- MC_Words
    Insns <- MC_BFFFOWhole
    MaskChoices <- MC_NoMask
    CcrInit <- MC_CcrInit
    Addrs <- MC_Addrs
    MemInit <- MC_MemInit
    Base <- MC_Base
    MaxSteps = 1
INIT Init
NEXT Next
PROPERTY Refinement
\* A translated block ends after MaxSteps instructions.
CHECK_DEADLOCK FALSE
