-------------------------------- MODULE Smp --------------------------------
(***************************************************************************)
(* SMP bring-up of src/system/x86/pc/smp.c with main.c and arch.c: the    *)
(* boot CPU (APIC id 0) fills cpus[] from the MP configuration table, one *)
(* descriptor per processor entry in table order, then smp_boot_all wakes *)
(* each other CPU with INIT/STARTUP and spins until the descriptor is     *)
(* marked SMP_ACTIVE.  A woken CPU starts on the stack in the shared      *)
(* stackptr and marks smp_cpu() = cpus[smp_id()] active in arch_init_cpu:  *)
(* the array is indexed by APIC id there, by table position in smp_init.  *)
(***************************************************************************)
EXTENDS Integers, Sequences, FiniteSets

CONSTANTS
    SMP_MAX,    \* size of cpus[]
    ApicIds     \* APIC ids of the processor entries, in MP table order

ASSUME ApicIds \in Seq(0 .. SMP_MAX - 1) /\ Len(ApicIds) <= SMP_MAX
ASSUME ApicIds # <<>> /\ ApicIds[1] = 0    \* the boot CPU is listed, id 0

Slots == 0 .. SMP_MAX - 1
Hw == {ApicIds[e] : e \in DOMAIN ApicIds}   \* the CPUs in the machine
APs == Hw \ {0}
SMP_AVAIL  == "AVAIL"
SMP_ACTIVE == "ACTIVE"
BootStack == 0          \* the boot CPU's own stack (stackptr at boot)

(* smp_cpu(): &cpus[smp_id()], the descriptor at the index of the APIC id *)
(* the local APIC reports.                                                *)
SmpCpu(a) == a

(* What smp_scan finds at each of the steps it reads (sizeof(addr_t)     *)
(* bytes apart): no MP floating pointer, one whose config_addr points at  *)
(* a configuration table, or one with config_addr 0 (a default           *)
(* configuration of the MP specification, which has no table).           *)
NOMP        == "none"
MPF         == "table"
MPF_DEFAULT == "default"

(* The three ranges smp_init scans, in steps: the first KB, the last KB   *)
(* of memory and the BIOS ROM, scaled to two steps each.                  *)
ScanRanges == <<[addr |-> 0, count |-> 2], [addr |-> 2, count |-> 2], [addr |-> 4, count |-> 2]>>
Firmware == [0 .. 5 -> {NOMP, MPF, MPF_DEFAULT}]

(* smp_scan(addr, count): the config_addr of the first floating pointer  *)
(* in the range (0 or not: 1 stands for any table address), 0 if none.   *)
RECURSIVE SmpScan(_, _, _)
SmpScan(mem, addr, count) ==
    IF count = 0 THEN 0
    ELSE IF mem[addr] # NOMP THEN (IF mem[addr] = MPF THEN 1 ELSE 0)
    ELSE SmpScan(mem, addr + 1, count - 1)

(* smp_init's condition: the first of the three scans that returns a     *)
(* non-zero address wins.                                                 *)
MpConfig(mem) == \E r \in DOMAIN ScanRanges : SmpScan(mem, ScanRanges[r].addr, ScanRanges[r].count) # 0
NoStack == -1

VARIABLES
    mp_found,    \* whether smp_init found an MP configuration table
    cpu_id,      \* cpus[i].id
    cpu_flags,   \* cpus[i].flags
    cpu_stack,   \* cpus[i].stack
    cpus_total,
    k,           \* smp_init's entry cursor (1-based)
    i,           \* smp_boot_all's loop index
    bsp,         \* boot CPU: "init", "parse", "boot", "wait", "done"
    stackptr,    \* stack handed to the next CPU started (entry32.S)
    ap,          \* per AP: "off", "started", "entered", "active", "running"
    ap_stack,    \* the stack each AP runs on
    ap_mapped    \* the stack virt_memory_init identity-maps for it

vars == <<mp_found, cpu_id, cpu_flags, cpu_stack, cpus_total, k, i, bsp, stackptr, ap, ap_stack, ap_mapped>>
APPhases == {"off", "started", "entered", "active", "running"}

TypeOK ==
    /\ mp_found \in BOOLEAN
    /\ cpu_id \in [Slots -> Nat]
    /\ cpu_flags \in [Slots -> SUBSET {SMP_AVAIL, SMP_ACTIVE}]
    /\ cpu_stack \in [Slots -> Nat \cup {NoStack}]
    /\ cpus_total \in 0 .. SMP_MAX
    /\ k \in 1 .. Len(ApicIds) + 1
    /\ i \in 0 .. SMP_MAX
    /\ bsp \in {"init", "parse", "boot", "wait", "done"}
    /\ stackptr \in Nat
    /\ ap \in [APs -> APPhases]
    /\ ap_stack \in [APs -> Nat \cup {NoStack}]
    /\ ap_mapped \in [APs -> Nat \cup {NoStack}]

(* main() on the boot CPU: arch_init_cpu has marked cpus[0] active      *)
(* before smp_init runs; whether smp_scan finds a configuration table   *)
(* depends on the firmware's memory.                                     *)
Init ==
    /\ mp_found \in {MpConfig(mem) : mem \in Firmware}
    /\ cpu_id = [s \in Slots |-> 0]
    /\ cpu_flags = [s \in Slots |-> IF s = 0 THEN {SMP_ACTIVE} ELSE {}]
    /\ cpu_stack = [s \in Slots |-> NoStack]
    /\ cpus_total = 0
    /\ k = 1
    /\ i = 0
    /\ bsp = "init"
    /\ stackptr = BootStack
    /\ ap = [a \in APs |-> "off"]
    /\ ap_stack = [a \in APs |-> NoStack]
    /\ ap_mapped = [a \in APs |-> NoStack]

-----------------------------------------------------------------------------
(* smp_init's initialisation loop: it writes cpus[0] SMP_MAX times (the   *)
(* other descriptors keep their zeroed bss), dropping the boot CPU's      *)
(* SMP_ACTIVE; then the table is looked for.                              *)
SmpInitClear ==
    /\ bsp = "init"
    /\ cpu_id' = [cpu_id EXCEPT ![0] = 0]
    /\ cpu_flags' = [cpu_flags EXCEPT ![0] = {}]
    /\ cpu_stack' = [cpu_stack EXCEPT ![0] = NoStack]
    /\ bsp' = "parse"
    /\ UNCHANGED <<mp_found, cpus_total, k, i, stackptr, ap, ap_stack, ap_mapped>>

(* smp_parse_entry for a processor entry: the next free descriptor gets   *)
(* the entry's APIC id and a fresh stack (palloc) unless the entry is the *)
(* running CPU, which keeps its boot stack.  After the last entry the     *)
(* boot CPU goes on to smp_boot_all.                                      *)
ParseEntry ==
    /\ bsp = "parse" /\ mp_found
    /\ cpu_id' = [cpu_id EXCEPT ![cpus_total] = ApicIds[k]]
    /\ cpu_flags' = [cpu_flags EXCEPT ![cpus_total] = {SMP_AVAIL}]
    /\ cpu_stack' = [cpu_stack EXCEPT ![cpus_total] =
                       IF ApicIds[k] # 0 THEN k ELSE BootStack]
    /\ cpus_total' = cpus_total + 1
    /\ k' = k + 1
    /\ bsp' = IF k = Len(ApicIds) THEN "boot" ELSE "parse"
    /\ UNCHANGED <<mp_found, i, stackptr, ap, ap_stack, ap_mapped>>

(* smp_init without a configuration table: one active CPU. *)
NoConfig ==
    /\ bsp = "parse" /\ ~mp_found
    /\ cpus_total' = 1
    /\ cpu_flags' = [cpu_flags EXCEPT ![0] = {SMP_AVAIL, SMP_ACTIVE}]
    /\ bsp' = "boot"
    /\ UNCHANGED <<mp_found, cpu_id, cpu_stack, k, i, stackptr, ap, ap_stack, ap_mapped>>

(* Fault variant of BootNext: the running CPU is not skipped. *)
BootNextNoSkip ==
    /\ bsp = "boot" /\ i < cpus_total
    /\ stackptr' = cpu_stack[i]
    /\ ap' = IF cpu_id[i] \in APs /\ ap[cpu_id[i]] = "off"
             THEN [ap EXCEPT ![cpu_id[i]] = "started"] ELSE ap
    /\ bsp' = "wait"
    /\ UNCHANGED <<mp_found, cpu_id, cpu_flags, cpu_stack, cpus_total, k, i, ap_stack, ap_mapped>>

(* One iteration of smp_boot_all: skip the running CPU, else smp_boot:  *)
(* publish the stack in stackptr, send INIT and STARTUP to the APIC id, *)
(* and start waiting for the descriptor to become active.               *)
BootNext ==
    /\ bsp = "boot" /\ i < cpus_total
    /\ IF cpu_id[i] # 0
       THEN /\ stackptr' = cpu_stack[i]
            /\ ap' = [ap EXCEPT ![cpu_id[i]] = IF @ = "off" THEN "started" ELSE @]
            /\ bsp' = "wait"
            /\ UNCHANGED i
       ELSE /\ i' = i + 1
            /\ UNCHANGED <<stackptr, ap, bsp>>
    /\ UNCHANGED <<mp_found, cpu_id, cpu_flags, cpu_stack, cpus_total, k, ap_stack, ap_mapped>>

(* Fault variant of BootWait: smp_boot returns without waiting. *)
BootWaitNoSpin ==
    /\ bsp = "wait"
    /\ i' = i + 1
    /\ bsp' = "boot"
    /\ UNCHANGED <<mp_found, cpu_id, cpu_flags, cpu_stack, cpus_total, k, stackptr, ap, ap_stack, ap_mapped>>

(* while (!(cpu->flags & SMP_ACTIVE)); then the next descriptor. *)
BootWait ==
    /\ bsp = "wait" /\ SMP_ACTIVE \in cpu_flags[i]
    /\ i' = i + 1
    /\ bsp' = "boot"
    /\ UNCHANGED <<mp_found, cpu_id, cpu_flags, cpu_stack, cpus_total, k, stackptr, ap, ap_stack, ap_mapped>>

BootDone ==
    /\ bsp = "boot" /\ i = cpus_total
    /\ bsp' = "done"
    /\ UNCHANGED <<mp_found, cpu_id, cpu_flags, cpu_stack, cpus_total, k, i, stackptr, ap, ap_stack, ap_mapped>>

(* A started AP's entry code (entry32.S, not in the tree) loads stackptr *)
(* into its stack pointer.                                               *)
ApEnter(a) ==
    /\ ap[a] = "started"
    /\ ap' = [ap EXCEPT ![a] = "entered"]
    /\ ap_stack' = [ap_stack EXCEPT ![a] = stackptr]
    /\ UNCHANGED <<mp_found, cpu_id, cpu_flags, cpu_stack, cpus_total, k, i, bsp, stackptr, ap_mapped>>

(* main() on the AP: arch_init_cpu sets SMP_ACTIVE in cpus[smp_id()].    *)
ApActive(a) ==
    /\ ap[a] = "entered"
    /\ ap' = [ap EXCEPT ![a] = "active"]
    /\ cpu_flags' = [cpu_flags EXCEPT ![SmpCpu(a)] = @ \cup {SMP_ACTIVE}]
    /\ UNCHANGED <<mp_found, cpu_id, cpu_stack, cpus_total, k, i, bsp, stackptr, ap_stack, ap_mapped>>

(* Fault variant of ApPaging: the shared stackptr is mapped instead of   *)
(* smp_cpu()->stack.                                                      *)
ApPagingStackptr(a) ==
    /\ ap[a] = "active"
    /\ ap' = [ap EXCEPT ![a] = "running"]
    /\ ap_mapped' = [ap_mapped EXCEPT ![a] = stackptr]
    /\ UNCHANGED <<mp_found, cpu_id, cpu_flags, cpu_stack, cpus_total, k, i, bsp, stackptr, ap_stack>>

(* main() on the AP, then virt_memory_init: a fresh directory that        *)
(* identity-maps smp_cpu()->stack, and paging is switched on.             *)
ApPaging(a) ==
    /\ ap[a] = "active"
    /\ ap' = [ap EXCEPT ![a] = "running"]
    /\ ap_mapped' = [ap_mapped EXCEPT ![a] = cpu_stack[SmpCpu(a)]]
    /\ UNCHANGED <<mp_found, cpu_id, cpu_flags, cpu_stack, cpus_total, k, i, bsp, stackptr, ap_stack>>

Next ==
    \/ SmpInitClear \/ ParseEntry \/ NoConfig \/ BootNext \/ BootWait \/ BootDone
    \/ \E a \in APs : ApEnter(a) \/ ApActive(a) \/ ApPaging(a)

(* Every step is the next instruction of a running CPU. *)
Fairness ==
    /\ WF_vars(SmpInitClear \/ ParseEntry \/ NoConfig \/ BootNext \/ BootWait \/ BootDone)
    /\ \A a \in APs : WF_vars(ApEnter(a) \/ ApActive(a) \/ ApPaging(a))

Spec == Init /\ [][Next]_vars /\ Fairness

-----------------------------------------------------------------------------
(* spec.md 4.4: smp_boot_all returns, every CPU it started having         *)
(* observably reached SMP_ACTIVE.                                         *)
BootAllTerminates == <>(bsp = "done")

(* Once paging is on, the stack an AP is running on is the stack its      *)
(* descriptor names, the one virt_memory_init mapped: smp_boot handed it  *)
(* cpus[i].stack through stackptr, and smp_cpu() must find that cpus[i].  *)
RunsOnMappedStack ==
    \A a \in APs : ap[a] = "running" => ap_mapped[a] = ap_stack[a]

(* No two CPUs run on the same stack: stackptr is shared, and is only     *)
(* safe to overwrite once the CPU started last is running on it.          *)
StacksDistinct ==
    \A a, b \in APs :
        a # b /\ ap_stack[a] # NoStack => ap_stack[a] # ap_stack[b]

=============================================================================
