CONSTANTS
    Lens <- MC_Lens
    Builds <- MC_Builds
    Routines <- MC_Routines
    MaxSteps <- MC_MaxSteps
SPECIFICATION Spec
INVARIANT TypeOK
INVARIANT CrcFeedsEachByteOnce
INVARIANT Md5CompressesPadded
PROPERTY Terminates
\* A call that has returned takes no further step.
CHECK_DEADLOCK FALSE
