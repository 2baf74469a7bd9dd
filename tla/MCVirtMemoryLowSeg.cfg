\* As MCVirtMemory.cfg, with program segments below 4 MB.
CONSTANTS
    MEMORY_FRAMES = 48
    NPROC = 2
    NAP = 1
    SegPages <- MCLowSegs
SPECIFICATION Spec
CHECK_DEADLOCK FALSE
INVARIANT NoKernelFault
