\* Bring-up of four processors with APIC ids 0 to 3, each then printing
\* its two-byte "running" line, with a one-byte serial server line. The
\* model stops once every CPU has printed (scheduling is the ProcessTable
\* module), so a final state is not a deadlock.
SPECIFICATION SmpConsoleSpec
CONSTANTS
    SMP_MAX = 4
    ApicIds <- MCApicIds
    MSG_LEN = 2
    SRV_LEN = 1
CHECK_DEADLOCK FALSE
INVARIANT RunsOnMappedStack StacksDistinct
PROPERTY BootAllTerminates ImplementsAtomicPrintk
