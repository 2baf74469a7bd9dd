\* Any process may destroy a CPU's idle process.
CONSTANTS
    PROC_MAX = 4
    NCPU = 2
    BootImage <- MCBootImage2
    ConfigLines <- MCConfig2
    BuildRoot <- MCRoot2

SPECIFICATION Spec

INVARIANT IdleAlwaysExists
