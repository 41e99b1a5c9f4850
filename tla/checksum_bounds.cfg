CONSTANTS
    Lens <- MC_Lens
    Builds <- MC_Builds
    Routines <- MC_Routines
    MaxSteps <- MC_MaxSteps
SPECIFICATION Spec
INVARIANT ChecksumOfBuffer
CHECK_DEADLOCK FALSE
