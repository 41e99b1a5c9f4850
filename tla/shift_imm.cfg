\* Immediate counts 1..8 of all four operation classes, three sizes, both
\* directions, every update mask.
CONSTANTS
    DRegs = {0, 1}
    Words <- MC_Operands
    Opcodes <- ImmOpcodesAll
    MaskChoices <- MC_AllMasks
    CcrInit <- MC_CcrInit
    MaxSteps = 1
INIT Init
NEXT Next
CHECK_DEADLOCK FALSE
INVARIANTS TypeOK RegistersAgree NZAgree CarryAgree
\* A translated block ends after MaxSteps instructions: the end of a
\* behaviour is the end of the block, not a deadlock.
