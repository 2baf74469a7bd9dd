\* Two processors with APIC ids 0 and 2: smp_boot_all waits on cpus[1],
\* while the started CPU marks cpus[2] active.
SPECIFICATION Spec
CONSTANTS
    SMP_MAX = 3
    ApicIds <- MCSparseIds
CHECK_DEADLOCK FALSE
PROPERTY BootAllTerminates
