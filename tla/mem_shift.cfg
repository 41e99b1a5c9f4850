\* ASd, LSL and ROXd .W <ea>: every addressing mode of the table rows,
\* every update mask, two instructions in a row.
CONSTANTS
    Addrs <- MC_Addrs
    Words <- MC_Words
    AInit <- MC_AInit
    Opcodes <- MemOpcodesShift
    MaskChoices <- MC_AllMasks
    CcrInit <- MC_CcrInit
    MaxSteps = 2
INIT Init
NEXT Next
\* A translated block ends after MaxSteps instructions: the end of a
\* behaviour is the end of the block, not a deadlock.
CHECK_DEADLOCK FALSE
INVARIANTS TypeOK MemoryAgrees NZAgree CarryAgree
