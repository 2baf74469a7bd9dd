\* Two CPUs, two ordinary programs: the shared last_pid cursor, read
\* before proc_lock, can leave a READY process unscheduled forever.
CONSTANTS
    PROC_MAX = 4
    NCPU = 2
    BootImage <- MCBootImage2
    ConfigLines <- MCConfig2
    BuildRoot <- MCRoot2

SPECIFICATION Spec

PROPERTY ReadyEventuallyRuns
