\* proc_destroy tests PROC_RUNNING without proc_lock.
CONSTANTS
    PROC_MAX = 4
    NCPU = 2
    BootImage <- MCBootImage2
    ConfigLines <- MCConfig2
    BuildRoot <- MCRoot2

SPECIFICATION Spec

INVARIANT CurrentProcessExists
