\* The REV triple with N and Z of the third rotate live: are they the 68k's?
CONSTANTS
    DRegs = {0, 1}
    Words <- MC_Words
    MaskChoices <- MC_AllMasks
    CcrInit <- MC_CcrInit
    MaxSteps = 1
    Progs <- MC_RevProg
INIT Init
NEXT Next
INVARIANT NZAgree
\* A block ends with its last word.
CHECK_DEADLOCK FALSE
