\* 16 frames (a whole number of bitmap bytes), frame 0 for the BIOS,
\* frames 2-6 for the kernel and its bitmap.
CONSTANTS
    PAGE_SIZE = 2
    MEMORY_SIZE = 32
    BIOS_SIZE = 2
    KERNEL_START = 4
    KERNEL_SIZE = 9
    Sizes <- MCSizes

SPECIFICATION Spec

INVARIANT TypeOK
INVARIANT Accounting
INVARIANT ReservedNeverAllocated
PROPERTY AllocIsFirstFit
