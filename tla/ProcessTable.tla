---------------------------- MODULE ProcessTable ----------------------------
(***************************************************************************)
(* The process table and round-robin scheduler of src/system/process.c,   *)
(* run by every CPU at once.                                               *)
(*                                                                         *)
(* A CPU's kernel code is a sequence of steps (pc[c]).  A step is atomic   *)
(* when it runs entirely under proc_lock (spinlock_enter .. _leave):       *)
(* every other access to proc_table[].flags is also made under that lock,  *)
(* except the three reads/writes the code makes without it, which are      *)
(* steps of their own: the read of last_pid and cpus[].proc at the top of  *)
(* proc_schedule, the RUNNING test of proc_destroy, and the clearing of    *)
(* the old process's RUNNING bit by the context switch.                    *)
(*                                                                         *)
(* Timer and system-call entries are interrupt gates (idt.c), so a CPU is  *)
(* never preempted inside proc_schedule or proc_destroy.                   *)
(***************************************************************************)
EXTENDS Naturals, Sequences, FiniteSets, FiniteSetsExt, MkImage

CONSTANTS
    PROC_MAX,   \* number of proc_table slots (process.h)
    NCPU,       \* cpus_total: CPUs found by smp_init, APIC ids 0..NCPU-1
    BootImage,  \* the programs the boot configuration is meant to describe
    ConfigLines,\* the boot configuration file given to mkimage, line by line
    BuildRoot   \* mkimage's build root: program name -> executable file

ASSUME PROC_MAX >= 2 /\ NCPU >= 1
ASSUME BootImage \in Seq(Config(3, 1 .. 3)) /\ \E i \in DOMAIN BootImage : BootImage[i].isidle

Pids == 0 .. PROC_MAX - 1
CPUS == 0 .. NCPU - 1

(* The image mkimage writes from ConfigLines and BuildRoot, which the    *)
(* kernel is booted with.                                                  *)
Mkimage == MkimageMain(ConfigLines, BuildRoot)
ASSUME Mkimage.ok
Image == Mkimage.image
NULL == -1                    \* a null process_t pointer
PROC_AVAIL   == "AVAIL"
PROC_READY   == "READY"
PROC_RUNNING == "RUNNING"

VARIABLES
    flags,      \* proc_table[p].flags
    cpu_proc,   \* cpus[c].proc: process currently on CPU c
    cpu_idle,   \* cpus[c].idle
    last_pid,   \* static last_pid of proc_schedule, shared by all CPUs
    cur_prog,   \* libboot's program cursor: programs read so far
    cur_seg,    \* libboot's segment cursor within the program read last
    mapped,     \* per slot: the segment table entries virt_map'ed into it
    num,        \* proc_table_init's idle-copy counter
    pc,         \* per CPU: "boot", "user", "sched", "switch", "destroy"
    old,        \* proc_schedule's local old, per CPU
    start,      \* proc_schedule's local start, per CPU
    target      \* proc_destroy's argument, per CPU

vars == <<flags, cpu_proc, cpu_idle, last_pid, cur_prog, cur_seg, mapped, num, pc, old, start,
          target>>

TypeOK ==
    /\ flags \in [Pids -> SUBSET {PROC_AVAIL, PROC_READY, PROC_RUNNING}]
    /\ cpu_proc \in [CPUS -> Pids \cup {NULL}]
    /\ cpu_idle \in [CPUS -> Pids \cup {NULL}]
    /\ last_pid \in Pids
    /\ cur_prog \in 0 .. Len(BootImage)
    /\ cur_seg \in 0 .. 3
    /\ mapped \in [Pids -> Seq(0 .. Image.seg_table_count - 1)]
    /\ num \in CPUS
    /\ pc \in [CPUS -> {"boot", "user", "sched", "switch", "destroy"}]
    /\ old \in [CPUS -> Pids \cup {NULL}]
    /\ start \in [CPUS -> Pids]
    /\ target \in [CPUS -> Pids \cup {NULL}]

(* libboot_getprog returns NULL: proc_table_init's loop is over. *)
Loaded == cur_prog >= Image.prog_table_count

Init ==
    /\ flags = [p \in Pids |-> {}]          \* memset(proc_table, 0, ...)
    /\ cpu_proc = [c \in CPUS |-> NULL]
    /\ cpu_idle = [c \in CPUS |-> NULL]
    /\ last_pid = 0
    /\ cur_prog = Parse.cur_prog /\ cur_seg = Parse.cur_seg
    /\ mapped = [p \in Pids |-> <<>>]
    /\ num = 0
    /\ pc = [c \in CPUS |-> "boot"]
    /\ old = [c \in CPUS |-> NULL]
    /\ start = [c \in CPUS |-> 0]
    /\ target = [c \in CPUS |-> NULL]

-----------------------------------------------------------------------------
(* proc_create: the first slot without PROC_AVAIL. *)
FirstFree == Min({p \in Pids : PROC_AVAIL \notin flags[p]})

(* proc_resume: set PROC_READY. *)
Resume(f) == f \cup {PROC_READY}

(* The inner while loop of proc_table_init: libboot_getseg until NULL,    *)
(* virt_map of each segment into the new process through the remote      *)
(* directory; the segments mapped and the final cur_seg.                  *)
RECURSIVE SegLoop(_, _)
SegLoop(cp, cs) ==
    LET g == Getseg(Image, cp, cs)
    IN IF g.seg = NOSEG THEN [mapped |-> <<>>, cur_seg |-> cs]
       ELSE LET r == SegLoop(cp, g.cur_seg)
            IN [mapped |-> <<g.seg>> \o r.mapped, cur_seg |-> r.cur_seg]

(* Fault variant of LoadProg: libboot_repeat_prog without the bound on   *)
(* the number of idle copies.                                             *)
LoadProgUnbounded ==
    /\ ~Loaded
    /\ LET g      == Getprog(Image, cur_prog, cur_seg)
           pid    == FirstFree
           segs   == SegLoop(g.cur_prog, g.cur_seg)
           isIdle == BOOTPROG_ISIDLE \in Image.progs[g.cur_prog].flags
       IN /\ flags' = [flags EXCEPT ![pid] =
                         IF isIdle THEN {PROC_AVAIL} ELSE Resume({PROC_AVAIL})]
          /\ mapped' = [mapped EXCEPT ![pid] = segs.mapped]
          /\ cur_seg' = segs.cur_seg
          /\ cpu_idle' = IF isIdle THEN [cpu_idle EXCEPT ![num] = pid] ELSE cpu_idle
          /\ num' = IF isIdle THEN num + 1 ELSE num
          /\ cur_prog' = IF isIdle THEN RepeatProg(g.cur_prog) ELSE g.cur_prog
    /\ UNCHANGED <<cpu_proc, last_pid, pc, old, start, target>>

(* One iteration of proc_table_init's loop, run by the boot CPU before    *)
(* any CPU schedules: libboot_getprog, proc_create in the first free     *)
(* slot, the segment loop through the remote directory, and then, for an *)
(* idle program, hand the copy to cpus[num] and repeat the program until *)
(* every CPU has one; any other program is resumed (made READY).         *)
LoadProg ==
    /\ ~Loaded
    /\ LET g      == Getprog(Image, cur_prog, cur_seg)
           pid    == FirstFree
           segs   == SegLoop(g.cur_prog, g.cur_seg)
           isIdle == BOOTPROG_ISIDLE \in Image.progs[g.cur_prog].flags
           again  == isIdle /\ num < NCPU - 1     \* libboot_repeat_prog()
       IN /\ flags' = [flags EXCEPT ![pid] =
                         IF isIdle THEN {PROC_AVAIL} ELSE Resume({PROC_AVAIL})]
          /\ mapped' = [mapped EXCEPT ![pid] = segs.mapped]
          /\ cur_seg' = segs.cur_seg
          /\ cpu_idle' = IF isIdle THEN [cpu_idle EXCEPT ![num] = pid] ELSE cpu_idle
          /\ num' = IF again THEN num + 1 ELSE IF isIdle THEN 0 ELSE num
          /\ cur_prog' = IF again THEN RepeatProg(g.cur_prog) ELSE g.cur_prog
    /\ UNCHANGED <<cpu_proc, last_pid, pc, old, start, target>>

(* main(): once the table is loaded (and, on the boot CPU, the other CPUs *)
(* started) the CPU enables interrupts and enters proc_schedule.          *)
CpuStart(c) ==
    /\ pc[c] = "boot" /\ Loaded
    /\ pc' = [pc EXCEPT ![c] = "user"]
    /\ UNCHANGED <<flags, cpu_proc, cpu_idle, last_pid, cur_prog, cur_seg, mapped, num, old, start, target>>

-----------------------------------------------------------------------------
(* proc_schedule, first lines: old and start are read before the lock is  *)
(* taken; the timer interrupt (or main) enters it from user mode.         *)
ScheduleBegin(c) ==
    /\ pc[c] = "user"
    /\ pc' = [pc EXCEPT ![c] = "sched"]
    /\ old' = [old EXCEPT ![c] = cpu_proc[c]]
    /\ start' = [start EXCEPT ![c] = last_pid]
    /\ UNCHANGED <<flags, cpu_proc, cpu_idle, last_pid, cur_prog, cur_seg, mapped, num, target>>

(* Fault variant of Eligible: the PROC_RUNNING test left out. *)
EligibleIgnoringRunning(p) ==
    PROC_AVAIL \in flags[p] /\ PROC_READY \in flags[p]

Eligible(p) ==
    /\ PROC_AVAIL \in flags[p]
    /\ PROC_READY \in flags[p]
    /\ PROC_RUNNING \notin flags[p]

(* The while (1) loop: advance last_pid until it comes back to start or   *)
(* reaches an eligible slot.  The result is the final last_pid and        *)
(* whether the loop found a slot.                                          *)
RECURSIVE Scan(_, _)
Scan(lp, st) ==
    LET nxt == (lp + 1) % PROC_MAX
    IN IF nxt = st THEN [pid |-> nxt, found |-> FALSE]
       ELSE IF Eligible(nxt) THEN [pid |-> nxt, found |-> TRUE]
       ELSE Scan(nxt, st)

(* Fault variant of ScheduleLocked: keep the current process while it is  *)
(* READY, scanning only when it is not.                                   *)
ScheduleLockedStickyOld(c) ==
    /\ pc[c] = "sched"
    /\ LET r   == Scan(last_pid, start[c])
           o   == old[c]
           new == IF o # NULL /\ PROC_READY \in flags[o] THEN o
                  ELSE IF r.found THEN r.pid ELSE cpu_idle[c]
       IN /\ last_pid' = r.pid
          /\ flags' = [flags EXCEPT ![new] = @ \cup {PROC_RUNNING}]
          /\ cpu_proc' = [cpu_proc EXCEPT ![c] = new]
          /\ pc' = [pc EXCEPT ![c] = IF o # new THEN "switch" ELSE "user"]
    /\ UNCHANGED <<cpu_idle, cur_prog, cur_seg, mapped, num, old, start, target>>

(* The rest of proc_schedule, under proc_lock: pick the process, fall back *)
(* to the current one if still READY, else to the CPU's idle process, mark *)
(* it RUNNING and make it the CPU's current process.                      *)
ScheduleLocked(c) ==
    /\ pc[c] = "sched"
    /\ LET r   == Scan(last_pid, start[c])
           o   == old[c]
           new == IF r.found THEN r.pid
                  ELSE IF o # NULL /\ PROC_READY \in flags[o] THEN o
                  ELSE cpu_idle[c]
       IN /\ last_pid' = r.pid
          /\ flags' = [flags EXCEPT ![new] = @ \cup {PROC_RUNNING}]
          /\ cpu_proc' = [cpu_proc EXCEPT ![c] = new]
          /\ pc' = [pc EXCEPT ![c] = IF o # new THEN "switch" ELSE "user"]
    /\ UNCHANGED <<cpu_idle, cur_prog, cur_seg, mapped, num, old, start, target>>

(* Fault variant of ContextSwitch: the old process keeps PROC_RUNNING. *)
ContextSwitchKeepRunning(c) ==
    /\ pc[c] = "switch"
    /\ pc' = [pc EXCEPT ![c] = "user"]
    /\ UNCHANGED <<flags, cpu_proc, cpu_idle, last_pid, cur_prog, cur_seg, mapped, num, old, start, target>>

(* arch_context_switch(old, new): the assembly context_switch is given    *)
(* &old->flags; it saves the old process and clears its PROC_RUNNING bit, *)
(* outside proc_lock, then resumes the new process.                        *)
ContextSwitch(c) ==
    /\ pc[c] = "switch"
    /\ flags' = IF old[c] # NULL
                THEN [flags EXCEPT ![old[c]] = @ \ {PROC_RUNNING}]
                ELSE flags
    /\ pc' = [pc EXCEPT ![c] = "user"]
    /\ UNCHANGED <<cpu_proc, cpu_idle, last_pid, cur_prog, cur_seg, mapped, num, old, start, target>>

-----------------------------------------------------------------------------
(* proc_find: &proc_table[pid], whatever pid is. *)
ProcFind(pid) == pid

(* api_execute(API_PROC_DESTROY, p) from the process on CPU c:             *)
(* proc_find accepts every pid, and proc_destroy refuses only its caller   *)
(* and a process marked RUNNING, tested without proc_lock.  The release of *)
(* the address space follows (it leaves proc_table alone); the refused    *)
(* call returns -EINVAL and changes nothing.                               *)
DestroyCheck(c, p) ==
    /\ pc[c] = "user" /\ cpu_proc[c] # NULL
    /\ ~(cpu_proc[c] = p \/ PROC_RUNNING \in flags[p])
    /\ pc' = [pc EXCEPT ![c] = "destroy"]
    /\ target' = [target EXCEPT ![c] = p]
    /\ UNCHANGED <<flags, cpu_proc, cpu_idle, last_pid, cur_prog, cur_seg, mapped, num, old, start>>

(* The system call API_PROC_DESTROY with argument pid: api_execute takes  *)
(* proc_find's result, which is never NULL, to proc_destroy (-ESRCH is    *)
(* unreachable).                                                          *)
ApiProcDestroy(c, pid) == DestroyCheck(c, ProcFind(pid))

(* proc_destroy's last step: memset the slot to zero under proc_lock. *)
DestroyClear(c) ==
    /\ pc[c] = "destroy"
    /\ flags' = [flags EXCEPT ![target[c]] = {}]
    /\ pc' = [pc EXCEPT ![c] = "user"]
    /\ target' = [target EXCEPT ![c] = NULL]
    /\ UNCHANGED <<cpu_proc, cpu_idle, last_pid, cur_prog, cur_seg, mapped, num, old, start>>

-----------------------------------------------------------------------------
Next ==
    \/ LoadProg
    \/ \E c \in CPUS :
          \/ CpuStart(c)
          \/ ScheduleBegin(c)
          \/ ScheduleLocked(c)
          \/ ContextSwitch(c)
          \/ DestroyClear(c)
          \/ \E pid \in Pids : ApiProcDestroy(c, pid)

(* The APIC timer interrupts every CPU periodically: the interrupt stays  *)
(* pending while a system call runs and is taken as soon as the CPU is   *)
(* back in user mode, so a CPU that returns to user mode again and again  *)
(* eventually enters proc_schedule (strong fairness); the steps of a      *)
(* started kernel path run to completion (the spinlock is assumed to      *)
(* admit every waiter eventually, as spec.md 2 states).  Destroy calls are the processes'    *)
(* choice and carry no fairness.                                           *)
Fairness ==
    /\ WF_vars(LoadProg)
    /\ \A c \in CPUS :
          /\ WF_vars(CpuStart(c))
          /\ SF_vars(ScheduleBegin(c))
          /\ WF_vars(ScheduleLocked(c))
          /\ WF_vars(ContextSwitch(c))
          /\ WF_vars(DestroyClear(c))

Spec == Init /\ [][Next]_vars /\ Fairness

-----------------------------------------------------------------------------
(* No process is the current process of two CPUs at once: the scan skips  *)
(* RUNNING slots, and the fallbacks are the CPU's own current or idle     *)
(* process.                                                               *)
MutualExclusion ==
    \A c, d \in CPUS : c # d /\ cpu_proc[c] # NULL => cpu_proc[c] # cpu_proc[d]

(* A process marked RUNNING is the current process of some CPU, or the    *)
(* old process a CPU is still switching away from: context_switch clears  *)
(* the bit, or the process could never be scheduled again.                *)
NoStaleRunning ==
    \A p \in Pids : PROC_RUNNING \in flags[p] =>
        \E c \in CPUS : cpu_proc[c] = p \/ (pc[c] = "switch" /\ old[c] = p)

(* Round robin with the shared last_pid cursor: every READY process is    *)
(* eventually RUNNING on some CPU, unless it is destroyed first.          *)
ReadyEventuallyRuns ==
    \A p \in Pids :
        (PROC_AVAIL \in flags[p] /\ PROC_READY \in flags[p])
            ~> (PROC_RUNNING \in flags[p] \/ PROC_AVAIL \notin flags[p])

(* spec.md 4.3: an idle process must always exist for every CPU, since    *)
(* proc_schedule falls back to cpus[c].idle without checking it.          *)
IdleAlwaysExists ==
    Loaded => \A c \in CPUS : PROC_AVAIL \in flags[cpu_idle[c]]

(* proc_destroy never tears down a (non-idle) process that some CPU is    *)
(* running: the process a CPU runs is still in the table.                 *)
CurrentProcessExists ==
    \A c \in CPUS :
        (cpu_proc[c] # NULL /\ cpu_proc[c] \notin {cpu_idle[d] : d \in CPUS})
            => PROC_AVAIL \in flags[cpu_proc[c]]

(* mkimage (libconfig_parse, libconfig_find, libexec_read and elf_read,  *)
(* libboot_addprog/addseg/write) puts into the image exactly the programs *)
(* the configuration describes: every program entry libboot_getprog has  *)
(* handed proc_table_init so far is the configured program at that       *)
(* position, with its idle flag and its regions, in order, at             *)
(* segments_index .. + segments_count - 1; and the loader finishes after  *)
(* as many programs as are configured.                                     *)
ProgramsAsConfigured ==
    /\ Loaded => Image.prog_table_count = Len(BootImage)
    /\ \A k \in 1 .. cur_prog :
          LET e == Image.progs[k]
          IN /\ k <= Len(BootImage)
             /\ (BOOTPROG_ISIDLE \in e.flags) = BootImage[k].isidle
             /\ [j \in 1 .. e.segments_count |-> Image.segs[e.segments_index + j].size]
                   = BootImage[k].regions

(* libboot_write lays the image out as libboot_getseg reads it: every     *)
(* segment the loader has mapped into a process has its data at an        *)
(* aligned offset past the tables, ending before the next segment's data  *)
(* begins.                                                                 *)
ImageLayout ==
    LET segs == Image.segs
        dataStart == Image.seg_table_off + Image.seg_table_count * SIZEOF_SEG
    IN \A p \in Pids : \A k \in {i + 1 : i \in Range(mapped[p])} :
             /\ segs[k].offset % BOOTIMAGE_ALIGN = 0
             /\ segs[k].offset >= dataStart
             /\ k < Len(segs) => segs[k].offset + segs[k].size <= segs[k + 1].offset

(* proc_table_init maps into each new process only segments of the       *)
(* program libboot_getprog just returned, from its first region on and in *)
(* order, whatever the cursor was left at by the program before it or by  *)
(* libboot_repeat_prog.  (All of them is not promised: see the bound of   *)
(* libboot_getseg.)                                                       *)
SegmentsOfOwnProgram ==
    [][LoadProg =>
        LET got == mapped'[FirstFree]
        IN IsPrefix([k \in DOMAIN got |-> Image.segs[got[k] + 1].size],
                    BootImage[cur_prog + 1].regions)]_vars

-----------------------------------------------------------------------------
(* The scheduler as RoundRobin describes it, seen through CPU 0: the       *)
(* process table's AVAIL and READY flags, CPU 0's current and idle         *)
(* process, and last_pid as the cursor.                                    *)
RR == INSTANCE RoundRobin WITH
        avail   <- {p \in Pids : PROC_AVAIL \in flags[p]},
        ready   <- {p \in Pids : PROC_READY \in flags[p]},
        current <- cpu_proc[0],
        cursor  <- last_pid,
        idle    <- cpu_idle[0]

(* On one CPU, proc_schedule with its unlocked reads, PROC_RUNNING         *)
(* marking and the separate context-switch step implements plain round   *)
(* robin from spec.md 4.3, fairness included, and proc_destroy removes     *)
(* only a process that is not running.                                    *)
ImplementsRoundRobin == RR!Spec

=============================================================================
