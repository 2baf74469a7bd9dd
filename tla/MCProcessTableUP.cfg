\* One CPU: round robin over three ordinary programs; the refinement
\* includes RoundRobin's fairness, so every READY process runs.
CONSTANTS
    PROC_MAX = 4
    NCPU = 1
    BootImage <- MCBootImage3
    ConfigLines <- MCConfig3
    BuildRoot <- MCRoot3

SPECIFICATION Spec

PROPERTY ImplementsRoundRobin
