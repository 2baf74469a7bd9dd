\* Two CPUs scheduling and destroying concurrently.
CONSTANTS
    PROC_MAX = 4
    NCPU = 2
    BootImage <- MCBootImage2
    ConfigLines <- MCConfig2
    BuildRoot <- MCRoot2

SPECIFICATION Spec

INVARIANT TypeOK
INVARIANT MutualExclusion
INVARIANT NoStaleRunning
INVARIANT ProgramsAsConfigured
INVARIANT ImageLayout
PROPERTY SegmentsOfOwnProgram
