\* ASL with an immediate count, and ASd, LSd, ROd and ROXd by a register
\* holding 0 or 33 (0 modulo the ring of ROXd.L), every update mask: are V,
\* X and C as the 68k leaves them, and does the host stay off the unpatched
\* placeholder word?
CONSTANTS
    DRegs = {0, 1}
    Words <- MC_FlagEdgeWords
    Opcodes <- FlagEdge_Opcodes
    MaskChoices <- MC_AllMasks
    CcrInit <- MC_CcrInit
    MaxSteps = 1
INIT Init
NEXT Next
INVARIANT FlagEdgesAgree
\* A translated block ends after MaxSteps instructions.
CHECK_DEADLOCK FALSE
