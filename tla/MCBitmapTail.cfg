\* memory_size = 37: 19 frames scanned (the last one partial) but only
\* two bitmap bytes (16 frames) cleared by phys_memory_init.
CONSTANTS
    PAGE_SIZE = 2
    MEMORY_SIZE = 37
    BIOS_SIZE = 2
    KERNEL_START = 4
    KERNEL_SIZE = 9
    Sizes <- MCSizes

SPECIFICATION Spec

INVARIANT Accounting
