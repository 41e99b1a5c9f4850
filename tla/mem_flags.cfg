\* ASL.W <ea>, ROXd.W <ea>, and ROd.W <ea> followed by ROXd.W <ea>, every
\* update mask: are V and memory what the 68k leaves?
CONSTANTS
    Addrs <- MC_Addrs
    Words <- MC_Words
    AInit <- MC_AInit
    Opcodes <- MemFlag_Opcodes
    MaskChoices <- MC_AllMasks
    CcrInit <- MC_CcrInit
    MaxSteps = 2
INIT Init
NEXT Next
INVARIANT MemFlagsAgree
\* A translated block ends after MaxSteps instructions.
CHECK_DEADLOCK FALSE
