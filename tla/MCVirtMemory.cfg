\* Boot with or without an MP table, load three programs from any boot
\* image of high segments, start the application processor and destroy
\* processes from other processes.
CONSTANTS
    MEMORY_FRAMES = 48
    NPROC = 3
    NAP = 1
    SegPages <- MCHighSegs
SPECIFICATION Spec
\* Processes are only created at boot, and the last process cannot be
\* destroyed by another: the run ends in states where no modelled memory
\* operation is enabled while the scheduler goes on.
CHECK_DEADLOCK FALSE
INVARIANT OwnedFramesExclusive SpacesWellFormed
PROPERTY AddressSpacesIsolated
