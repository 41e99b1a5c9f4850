\* ROd with ASR and LSR .W <ea> (whose V the 68k clears), two in a row:
\* data, N, Z and V under every update mask.
CONSTANTS
    Addrs <- MC_Addrs
    Words <- MC_Words
    AInit <- MC_AInit
    Opcodes <- MemOpcodesVClear
    MaskChoices <- MC_AllMasks
    CcrInit <- MC_CcrInit
    MaxSteps = 2
INIT Init
NEXT Next
\* A translated block ends after MaxSteps instructions: the end of a
\* behaviour is the end of the block, not a deadlock.
CHECK_DEADLOCK FALSE
INVARIANTS MemoryAgrees NZAgree OverflowAgree
