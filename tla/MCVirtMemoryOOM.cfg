\* A boot image of four programs in 40 frames: proc_create runs out of
\* memory on the last one.
CONSTANTS
    MEMORY_FRAMES = 40
    NPROC = 4
    NAP = 0
    SegPages <- MCOneSeg
SPECIFICATION Spec
CHECK_DEADLOCK FALSE
INVARIANT SpacesWellFormed
