\* Register counts: count register values 0, 1, 8, 9, 16, 17, 31, 32, 33,
\* 56, 63, the count register also being the destination; all classes,
\* sizes and directions; N and Z live, the other flags live or dead.
CONSTANTS
    DRegs = {0, 1}
    Words <- MC_CountWords
    Opcodes <- RegOpcodesAll
    MaskChoices <- MC_NZMasks
    CcrInit <- MC_CcrInit
    MaxSteps = 1
INIT Init
NEXT Next
INVARIANTS RegistersAgree NZAgree
\* A translated block ends after MaxSteps instructions: the end of a
\* behaviour is the end of the block, not a deadlock.
CHECK_DEADLOCK FALSE
