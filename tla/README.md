# TLA+ models of the FreeNOS kernel core

These modules model the multiprocessor core of FreeNOS (`src/system`) for
the TLC model checker. The core covers:

- the physical page allocator;
- the x86 virtual memory mapper and the address-space work of process creation and destruction;
- the process table and the round-robin scheduler;
- the boot image format, as mkimage writes it and the kernel reads it;
- mkimage's inputs: the configuration parser (libconfig) and the ELF reader (libexec);
- SMP bring-up, and the console every CPU then prints to (printk under print_lock, and the serial server).

Every definition is written from the C source. `PROJECT.json` maps each
definition to the lines it translates, and lists the runs, the mutants, the
findings and the hazards.

## The system

| Part | Source | State | Operations |
|---|---|---|---|
| Spinlock | `x86/pc/spinlock.c` | one word | `spinlock_init`, `spinlock_enter` (cmpxchg loop), `spinlock_leave` |
| Console | `printk.c`, `server/serial/main.c` | `print_lock`, the bytes sent to UART0 | `printk`, `serial_write` (kernel and server copies) |
| Physical memory | `phys_memory.c` | `memory_map` (1 bit per frame), `memory_avail` | `phys_memory_init`, `palloc_from`, `palloc`, `pfree` |
| Virtual memory | `x86/pc/virt_memory.c` | page directories and tables | `virt_memory_init`, `virt_map`, `virt_temp_map`, `virt_release`, the remote-directory graft |
| Process table, scheduler | `process.c`, `api.c` | `proc_table[].flags` (AVAIL, READY, RUNNING), `cpus[].proc`, `cpus[].idle`, the static `last_pid` | `proc_table_init`, `proc_create`, `proc_resume`, `proc_destroy`, `proc_schedule` |
| SMP | `x86/pc/smp.c`, `arch.c`, `main.c` | `cpus[]` (id, flags, stack), `cpus_total`, `stackptr` | `smp_init`, `smp_boot_all`, `smp_boot`, `arch_init_cpu` |
| Boot image format | `lib/libboot/libboot.c` | host: the entries added so far; kernel: program and segment cursors | `libboot_addprog`, `libboot_addseg`, `libboot_write`; `libboot_parse`, `libboot_getprog`, `libboot_repeat_prog`, `libboot_getseg` |
| Image builder | `bin/mkimage.c`, `lib/libconfig/libconfig.c`, `lib/libexec/libexec.c`, `lib/libexec/elf.c` | the configuration item tree; the format handler table | `main`, `build_image`; `libconfig_parse`, `libconfig_find`; `libexec_init`, `libexec_add_format`, `libexec_read`, `elf_read` |

How they interact:

- **Boot image.** On the host, `mkimage` parses the configuration file into a tree of items, reads each program listed under the root from the build root with `libexec_read`, skips one it cannot read, looks its `isidle` key up with `libconfig_find`, and adds the program and its loadable regions, and `libboot_write` lays out the tables and the page-aligned segment data. The kernel's `proc_table_init` walks the image with the libboot cursor: one process per program (one copy per CPU for the idle program), and one `virt_map` per segment through the remote directory slot.
- **Boot.** `main` runs on the boot CPU (APIC id 0) in this order: `phys_memory_init`, `smp_init`, `virt_memory_init`, `proc_table_init` and `smp_boot_all`.
- **Application processors (APs).** Each AP, once started, runs `arch_init_cpu` (which marks its descriptor ACTIVE) and `virt_memory_init`.
- **Console.** Every CPU, once up (the boot CPU after `smp_boot_all`, an AP after `virt_memory_init`), prints its "running" line with `printk` under `print_lock`. The serial server, a user process, writes its own line to the same UART with no lock.
- **Scheduling.** Every CPU then enables interrupts and calls `proc_schedule`. The APIC timer calls `proc_schedule` again periodically.
- **Destroy.** Processes call `proc_destroy` through the system call `api_execute(API_PROC_DESTROY, pid)`.
- **Locking.** `proc_lock` guards the process table and `phys_memory_lock` guards the bitmap. Some process-table accesses are made without the lock:
  - `proc_schedule`'s reads of `cpus[].proc` and `last_pid` (`process.c:187-189`);
  - `proc_destroy`'s RUNNING test (`process.c:166`);
  - the context switch's clearing of the old process's RUNNING bit (`arch.c:165-166`).

## Modules

Conventions shared by all modules:

- A spinlocked critical section is one atomic action, except for `print_lock`, whose `spinlock_enter` and `spinlock_leave` are steps of `Console.tla`.
- An unlocked access is a step of its own.
- `pc` variables record where each CPU is between steps.
- Each `MC*.tla` module gives the constants values for TLC.
- Operators named `...NoSpin`, `...Unbounded` and similar are fault variants: each is a plausible bug in the definition that follows it, used to show that a property can fail.

### `PhysMemory.tla`: `phys_memory.c`

**State.** `memory_map` is a function from frame addresses to bits, and `memory_avail` is the byte counter. `allocated` is an auxiliary variable holding the frames palloc has handed out. It is the callers' side of pfree's contract (spec.md 4.1). `last` records the last call.

**Definitions:**

- `Search` is the `palloc_from` loop, as a RECURSIVE operator.
- `PallocFrom` adds the marking (`SetMark` is `paddr_set_mark`) and the return value.
- `Init` is `phys_memory_init`. It chooses the bits past the bytes the memset clears freely, because those are uninitialised memory.
- `Palloc(sz)` and `Pfree(a)` are the two operations.

Addresses are scaled down: `PAGE_SIZE = 2`, memory of 32 or 37 bytes.

### `ProcessTable.tla`: `process.c`, with `api.c`, `main.c`, `libboot.c`

**State:**

- `flags[p]`, `cpu_proc[c]`, `cpu_idle[c]` and `last_pid`;
- the boot cursor: libboot's `cur_prog` and `cur_seg`, and `proc_table_init`'s `num`;
- `mapped[p]`, the segment-table entries `proc_table_init` mapped into slot p;
- per CPU, `pc` and the locals `old`, `start` and `target`.

**Actions:**

| Action | Code |
|---|---|
| `LoadProg` | one iteration of `proc_table_init`: `libboot_getprog`, `proc_create`'s first-free slot, the segment loop `SegLoop` over `libboot_getseg`, the idle copy per CPU via `libboot_repeat_prog`, and `proc_resume` |
| `CpuStart` | `main` entering the scheduler |
| `ScheduleBegin` | `proc_schedule`'s unlocked reads |
| `ScheduleLocked` | the locked part, with the loop as the RECURSIVE `Scan` and the two fallbacks |
| `ContextSwitch` | the clearing of `old`'s RUNNING bit |
| `ApiProcDestroy(c, pid)` | `api_execute`'s `API_PROC_DESTROY` branch: `proc_find` (`ProcFind`) returns `&proc_table[pid]` and is never NULL, so every call reaches `proc_destroy` |
| `DestroyCheck(c, p)` | `proc_destroy`'s unlocked test and the address-space release, which leaves the table alone |
| `DestroyClear` | the locked memset of the slot |

Destroy calls are enumerated over every pid, as `api_execute` allows.

The constants `ConfigLines` and `BuildRoot` are mkimage's inputs: the configuration file and the executables. `Image` is what `MkImage` computes from them, and the boot loop reads that image, so the flags and segment indices the kernel sees come from the parser's, the ELF reader's and the writer's code. The constant `BootImage` is what the configuration is meant to say: each program's idle key and the sizes of its regions, in order; `ProgramsAsConfigured` compares the two. The boot loop runs on the boot CPU before any CPU schedules, so one iteration, inner segment loop included, is one step.

### `LibBoot.tla`: `libboot.c`

This module has operators only, and no variables:

- `AddProg` and `AddSeg` build the host-side entries, as `build_image` calls `libboot_addprog` and `libboot_addseg`.
- `LibbootWrite` computes the header offsets, each program's `segments_index` (`SegmentsIndex`, the running `nsegs`) and `segments_count`, and each segment's data offset.
- `Pad` is `data_off += BOOTIMAGE_ALIGN - data_off % BOOTIMAGE_ALIGN`. When `data_off` is already aligned, this adds a whole alignment unit.
- `Parse`, `Getprog`, `RepeatProg` and `Getseg` are the kernel's cursor, with C's 0-based indices.

Sizes are scaled: `BOOTIMAGE_ALIGN = 4`, and the header and the two kinds of table entry are 3, 2 and 1 units. With these sizes the tables end at unaligned offsets, as they do in a real image. File contents, paths, entry points and the `fopen`/`fwrite` error returns are left out.

### `LibConfig.tla`: `libconfig.c`

Operators only. A line is what `strip` and the `is_*` tests make of it: `Blank`, `Comment`, `Open` (`{` first), `Close` (`}` first), `Pair(name, value)` or `Name(name)`. An item is a record of name, value and children in insertion order.

- `ReadLine` skips blank and comment lines, as `read_line` does.
- `ConfigItemTree` is the recursive `config_item_tree`. A pair or a bare name is inserted into the parent. `{` descends into the item inserted last, and is an error when this call has inserted none. `}` and end of file return success, so a stray `}` ends the whole parse early.
- `LibconfigParse` starts from the item `root` and returns NULL (`ok` FALSE) on an error.
- `LibconfigFind` splits the name on `:` (`Tokens`, empty tokens dropped as `strtok` does), checks the first token against the item, and `FindFrom` walks the loop: the first child of each name is taken, and a miss at the last child gives NULL. An item with no children runs no iteration and stays the item for the next token.

Names and values are atoms without `:`. The 128-byte truncation, the allocation failures and the release functions are left out.

### `LibExec.tla`: `libexec.c`, `elf.c`

Operators only. A file is a record of what `elf_read` tests: whether the header can be read, the magic, class, version and type, `prog_ent_size`, whether the program header table can be read, and the program headers (type, file and memory size). A region is its memory size.

- `ElfRegions` refuses a table whose entry size is not `sizeof(elf_segment_t)` or that has `MAX_SEGS` entries or more, and keeps the `PT_LOAD` segments in order.
- `ElfRead` returns UNKNOWN for anything but a current 32-bit executable, ERROR when `ElfRegions` fails, and OK with the regions.
- `LibexecInit`, `LibexecAddFormat`, `TryFormats` and `LibexecRead` are the handler table and the loop of `libexec_read`: the first handler that recognises the file decides, and an unopenable file is NULL.

`MAX_SEGS` is scaled from 16 to 5. The content read cannot fail (an `fseek` past the end of a regular file succeeds, and `fread`'s `size_t` result is never below 0), and the allocation failures are left out.

### `MkImage.tla`: `mkimage.c`

`BuildStep` is one iteration of `build_image`'s loop and `BuildImage` the loop over the root's children. `MkimageMain` is `main`: parse, build and `libboot_write`, or no image when the parse fails. mkimage is one sequential loop, so it is an operator from its inputs to the image.

### `VirtMemory.tla`: `virt_memory.c`, with the address-space parts of `process.c`, `arch.c`, `smp.c`, `main.c`

**Paging.** Paging is scaled down to 8 directory entries of 8 pages each. A virtual page is `<<d, t>>`. The regions keep the directory indices the code gives them:

| Entry | Region |
|---|---|
| 0 | below 4 MB |
| 1 | `DIR_VADDR`, the self-map |
| 2 | `RDIR_VADDR`, the remote slot |
| 3 | `TMP_VADDR` |
| 4 | `KERN_VADDR` |
| 5 | program segments |
| 6 | the stacks |
| 7 | the APIC page |

Frame `d*8+t` is the frame that identity-maps page `<<d, t>>`.

**Page walks.** Once paging is on, the code reaches directories and tables through the self-map or the remote slot. The model does the same page walk (`Walk`), and a walk that meets an absent entry sets `fault`.

**Physical frames.** Frames come from PhysMemory's `PallocFrom`, instantiated as `PM` over the same bitmap.

**State:**

- `mem`, the directory and table frames;
- the bitmap and counter;
- `fault`;
- each CPU's directory and stack;
- each program's segment (`image`);
- the live processes with their directory and stacks;
- the boot phase.

**Helpers.** Each helper is one C function over a record `[mem, map, avail, fault, ...]`:

- `VirtMap` and `MapFrom` are `virt_map`;
- `VirtUnmap`, `TempMap`/`FreeTemp`, `Graft`/`Ungraft` and `Release`/`ReleaseScan` are the corresponding functions of `virt_memory.c`;
- `IdentMap` and `VirtMemoryInit` are the paging-off setup;
- `VirtMemoryProc`, `ArchInitProc` and `ProcCreate` build a process's space.

`Bind(e, LAMBDA x : ...)` evaluates `e` once. It is how a chain of calls passes state along without TLC recomputing it.

**Actions:**

| Action | Code |
|---|---|
| `BspInit` | the boot CPU's `virt_memory_init` |
| `LoadProg` | `proc_create` plus the graft, segment `virt_map` and ungraft of `proc_table_init` |
| `ApInit(c)` | an AP's `virt_memory_init` on the stack `smp_init` allocated |
| `Destroy(q, p)` | `proc_destroy` from process q on any other slot, in use or not: graft, `virt_release`, ungraft, and the slot cleared |

This module keeps one segment per program and chooses its start page and size freely. LibBoot models how segments are laid out and read.

### `Smp.tla`: `smp.c`, `arch_init_cpu`, `virt_memory_init`'s stack mapping

**State:** `cpus[]` as `cpu_id`, `cpu_flags` and `cpu_stack`, plus `cpus_total`, `stackptr`, the boot CPU's position, each AP's phase, the stack it runs on and the stack its directory maps.

**Actions:**

| Action | Code |
|---|---|
| `SmpInitClear` | `smp_init`'s loop, which writes `cpus[0]` on every iteration |
| `ParseEntry` | `smp_parse_entry` |
| `NoConfig` | the fallback when no table is found |
| `BootNext`, `BootWait`, `BootDone` | `smp_boot_all` and `smp_boot` |
| `ApEnter` | the AP's entry code loading `stackptr`. The assembly is not in the tree, so this action is modelled from the spec. |
| `ApActive` | `arch_init_cpu`, marking `smp_cpu()` |
| `ApPaging` | `virt_memory_init` mapping `smp_cpu()->stack` |

`SmpCpu(a)` is `smp_cpu()`: the descriptor at the index of the APIC id. `smp_init` fills `cpus[]` by table position instead, which is the sparse-ids finding.

Whether an MP table is found is computed in `Init` from every firmware layout of the three scanned ranges (`ScanRanges`, two steps each). Each step holds no floating pointer, a pointer to a table, or a pointer with `config_addr` 0 (an MP default configuration). `SmpScan` is `smp_scan`, and `MpConfig` is `smp_init`'s chain of three scans. A default configuration returns 0, which `smp_init` takes for "no table".

### `Console.tla`: `printk.c`, `spinlock.c`, the serial server's `serial_write`

**State:** `print_lock` (0 or 1, as in `spinlock.h`), each CPU's place in `printk` with its `written` and `serial_write`'s `bytes`, the server's place and `bytes`, and `uart`, the bytes sent to UART0 in order. A message is its length; byte j of writer w's message is `<<w, j>>`. The server's writer id is -1.

**Actions:**

| Action | Code |
|---|---|
| `PrintkCall` | the call at `main.c:53` |
| `SpinlockEnter` | `spinlock_enter`: the cmpxchg succeeds only on an unlocked word; vsnprintf and `written = 0` follow |
| `SerialWriteByte` | one iteration of `serial_write`'s loop after `inb` read TXREADY set |
| `SerialWriteReturn` | `serial_write` returning, and printk's switch: 0 leaves the lock and returns, else `written += e` and either loop or leave the lock |
| `Outb` | `outb(UART0, byte)` (`io.h`), used by both writers |
| `SrvStart`, `SrvWriteByte`, `SrvReturn` | the serial server's `main` and its `serial_write` through `API_IO_READ` and `API_IO_WRITE` |

Whether an `inb` sees TXREADY is the UART's timing, so `SerialWriteReturn` is possible at every iteration.

### `SmpConsole.tla`: `main.c`, composing Smp and Console

`SmpConsole` extends `Smp` and instantiates `Console` with the machine's CPUs. A CPU may call `printk` once it reaches `main.c:53` (`AtPrintk`). The server may start once some CPU is past its printk and in `proc_schedule` (`Scheduling`). Steps of the two components interleave freely.

### `AtomicConsole.tla`: what printk promises

An abstract console in which each CPU calls printk once (`Call`), and the call prints a prefix of its message, possibly empty, in one step (`PrintOut`) and returns. `PrintOut` is weakly fair, so every call returns. The prefix stands for the truncation `printk.c:61` allows.

`SmpConsole` instantiates it as `A` through this refinement mapping:

| AtomicConsole | SmpConsole |
|---|---|
| `state[c]` | "idle" before `PrintkCall`, "done" after the return, "busy" in between (spinning or writing) |
| `klog` | the UART bytes printk sent, less those of the CPU now writing |

The writing CPU's bytes join the abstract log when its printk returns. That is the abstract `PrintOut` step. `ImplementsAtomicPrintk == A!ASpec` holds only if `print_lock` keeps the writer alone, each `serial_write` continues at `buf + written`, and every return path leaves the lock.

### `RoundRobin.tla`: the scheduler's contract (spec.md 4.3, 8)

An abstract scheduler with:

- the sets of existing and ready processes;
- the running process, the cursor and the idle process;
- atomic `Create`, `Schedule` and `Destroy` steps, with weak fairness on `Schedule`.

`Schedule` picks the ready process nearest after the cursor, other than the running one. If there is none, it keeps a still-ready running process, else it runs idle.

ProcessTable instantiates it as `RR` through this refinement mapping:

| RoundRobin | ProcessTable |
|---|---|
| `avail` | slots with AVAIL |
| `ready` | slots with READY |
| `current` | `cpus[0].proc` |
| `cursor` | `last_pid` |
| `idle` | `cpus[0].idle` |

`ImplementsRoundRobin == RR!Spec` is checked on one CPU. On two CPUs the starvation run shows that it cannot hold.

## Runs

| Run | Config | Expect | Checks |
|---|---|---|---|
| proc_table | `MCProcessTable.cfg` | pass | `MutualExclusion`: no process is current on two CPUs. `NoStaleRunning`: RUNNING marks only a current process or one being switched out. `ProgramsAsConfigured`: every program the loader has read from the image is the configured program at that position, with its idle flag and its regions, and the loader stops after as many as are configured. The configuration has a comment, a blank line, a non-executable, an `isidle` key one level too deep and an executable with too many program headers. `ImageLayout`: every mapped segment's data is aligned, past the tables and before the next segment's. `SegmentsOfOwnProgram`: each process gets only segments of its own program, from the first one on, in order, including the repeated idle copy. Checked on 2 CPUs, 4 slots, an image of idle plus 2 programs with 1, 3 and 1 regions, with destroy calls. About 61k states. |
| proc_table_up | `MCProcessTableUP.cfg` | pass | `ImplementsRoundRobin` on one CPU with 3 programs: the detailed scheduler refines `RoundRobin.tla`, whose fairness implies that every READY process runs, except one left at the cursor slot while it is not current: `proc_schedule`'s scan stops at `start` without testing it (`process.c:201`), and `Schedule` in `RoundRobin` skips the cursor as well. In `MCConfig3` the idle process is in slot 0, where the cursor starts, so every program runs. The starvation run checks `ReadyEventuallyRuns` on two CPUs. |
| starvation | `MCStarvation.cfg` | violation | `ReadyEventuallyRuns` on 2 CPUs. |
| idle_destroy | `MCIdleDestroy.cfg` | violation | `IdleAlwaysExists`. |
| destroy_race | `MCDestroyRace.cfg` | violation | `CurrentProcessExists`. |
| phys_memory | `MCPhysMemory.cfg` | pass | `Accounting`: the bitmap's used frames match the counter. `AllocIsFirstFit`: each palloc equals a declarative lowest-fit reference, `FirstFitRef`. `ReservedNeverAllocated`: the BIOS area and the kernel are never handed out. Memory of 16 frames (a whole number of bitmap bytes), requests of 1 and 2 frames, every palloc/pfree sequence. About 20k states. |
| bitmap_tail | `MCBitmapTail.cfg` | violation | `Accounting` with 19 frames. |
| smp_boot | `MCSmp.cfg` on `MCSmpConsole` | pass | `BootAllTerminates`, `StacksDistinct` and `RunsOnMappedStack`, with 4 CPUs whose APIC ids are 0..3 in table order, and with or without a table. Then the console: `ImplementsAtomicPrintk`, printk refines `AtomicConsole`: each call puts a prefix of its own message on the UART in one piece, so no CPU's line lands inside another's, and returns, which needs every path out of printk to leave `print_lock` and each retried `serial_write` to continue where the last one stopped. Two-byte messages and a one-byte server line. About 91k states in under a minute. |
| smp_sparse_ids | `MCSmpSparse.cfg` | violation | `BootAllTerminates` with APIC ids 0 and 2. |
| virt_memory | `MCVirtMemory.cfg` | pass | The boot CPU's and one AP's `virt_memory_init`, three programs loaded from any image of segments above 4 MB, and destroys from other processes, of any slot but the caller's, free slots included. `SpacesWellFormed`: each process translates exactly the kernel, APIC, its two stacks and its segment, and has a working self-map. `OwnedFramesExclusive`: every frame a space owns is marked used and owned by no other space. `AddressSpacesIsolated`: no step (graft, temp map, release) changes a translation of another live space. Run with and without an MP table. About 3.6k states. |
| release_fault | `MCVirtMemoryLowSeg.cfg` | violation | `NoKernelFault` with a program segment below 4 MB. |
| oom_create | `MCVirtMemoryOOM.cfg` | violation | `SpacesWellFormed` with four programs in 40 frames. |

### What the violations show

- **starvation** (`process.c:189`). CPU 0 reads `start = 2` while process 2 runs on CPU 1. CPU 1 then switches to process 3, which moves `last_pid` to 3. CPU 0's locked scan runs 0, 1 and then 2, which equals `start`. It stops there, falls back to idle and leaves `last_pid = 2`. From then on every scan starts and ends at 2 and never examines process 2 again, although it is READY and a CPU is idle.
- **destroy_race** (`process.c:166`, `:177`). CPU 0 passes `proc_destroy`'s unlocked test for process p. CPU 1 then schedules p. CPU 0 then zeroes p's slot while CPU 1 runs it.
- **idle_destroy** (`api.c:39`, `process.c:166`). A process destroys another CPU's idle process; nothing refuses this. The serial server calls `api_proc_destroy(0)`. The scheduler's fallback (`process.c:206`) then runs an empty slot.
- **bitmap_tail** (`phys_memory.c:86`). The memset rounds the byte count down. The bits of the last `frames % 8` frames hold garbage, and a set one is a used frame that `memory_avail` does not count.
- **release_fault** (`virt_memory.c:159`). `virt_release` tests `dir[DIRENTRY(i)]` with the loop index, so it only ever looks at directory entry 0. When that entry is present, the inner loop `for (j = 0; i < 1024; j++)` never ends. It frees every present unpinned entry it reads, the directory and its tables included, and then touches an unmapped page. When entry 0 is absent, nothing is released at all, which leaks every destroyed process's frames.
- **oom_create** (`process.c:115`). `proc_create` uses `palloc`'s result without checking for 0, and `virt_memory_proc` ignores `virt_map`'s `ENOMEM`. When memory runs out at boot, the process is still created, with its user stack on frame 0 and mappings missing.
- **smp_sparse_ids** (`smp.c:171`). `cpus[]` is filled by table position but indexed by APIC id. The AP with id 2 marks `cpus[2]`, while the boot CPU waits on `cpus[1]` forever.

## Bounds

- **ProcessTable.** 4 slots and 2 CPUs are enough for two CPUs to contend for a process while a third process exists. The starvation needs two CPUs and two READY programs. One CPU suffices for the liveness check of the round robin itself. `MCConfig2`'s image fills the 4 slots exactly (two idle copies and two programs). A larger image would make `proc_create` return -1, which `proc_table_init` uses unchecked (`process.c:61`); no configuration here reaches it.
- **PhysMemory.** 16 frames with two request sizes reach exhaustion, fragmentation (runs reset by used frames) and reuse after free. 19 frames give a partial bitmap byte.
- **VirtMemory.** 48 frames hold the reserved area, the kernel, three processes (a directory, two tables and two stacks each) and the CPUs' own spaces, so that destroys free and reuse frames. Segment start pages in two tables exercise `virt_map`'s on-demand table allocation. 40 frames and four programs reach out-of-memory. One AP is enough for two CPU address spaces to coexist with processes.
- **MkImage.** `MCConfig2` and `MCConfig3` reach every branch of the parser and the reader that a well-formed configuration can reach: comment and blank lines, pairs and bare names, nested subtrees and a subtree opened twice, a missing file, a text file, a 64-bit executable, a refused program header table, and non-`PT_LOAD` segments between loadable ones. `isidle` appears as a bare name, with a value, and one level too deep.
- **LibBoot.** Three programs with 1 to 3 regions of sizes 1 to 3 give unaligned table ends, aligned and unaligned segment ends, and a program with more than half of the segments (see the getseg hazard below).
- **Smp and console.** 4 CPUs give 3 APs. A hand-off mistake between consecutive APs needs only 2 of them. With the console composed, 5 CPUs take over a quarter of an hour, so the instance is 4. Messages of 2 bytes can be cut after either byte or before the first, and can be split by another writer's byte. A one-byte server line is enough to land inside one.

## Fairness

- **Timer interrupt.** The APIC timer interrupts every CPU periodically. System-call and timer entries are interrupt gates, so a pending timer interrupt is taken as soon as the CPU is back in user mode. That is strong fairness on `ScheduleBegin`.
- **Kernel paths.** A started kernel path runs to completion (weak fairness). `proc_lock` is assumed to admit every waiter eventually, as spec.md 2 states.
- **Destroy calls.** These are the processes' choice and get no fairness.
- **SMP and console.** Every step is weakly fair: each is the next instruction of a running CPU. That includes each CPU's printk steps. Weak fairness is enough for `spinlock_enter` on `print_lock` only because contention is bounded: each CPU prints once, so the lock is eventually free for good. The server gets weak fairness once it runs, but none for being scheduled, which is ProcessTable's question. AtomicConsole's weak fairness on `PrintOut` is the promise that every printk call returns; the refinement check shows that the per-CPU fairness implies it.

- **VirtMemory.** Only safety is checked, so no fairness is assumed.

`MCVirtMemory*.cfg` disable deadlock checking. Processes are created only at boot and the last process cannot be destroyed by another, so the model stops where only the scheduler, which this module does not model, goes on.

`MCSmp.cfg` and `MCSmpSparse.cfg` disable deadlock checking. The model ends when `smp_boot_all` returns and every CPU has printed, and scheduling continues in ProcessTable. A CPU that is stuck spinning shows up as a violation of `BootAllTerminates`.

## Not modelled, and why

- **Full loading of every segment.** This is a known divergence with no run of its own, because the project is at its run limit. `libboot_getseg` (`libboot.c:123`) bounds a segment by `cur_seg + segments_count < seg_table_count` instead of `segments_index + cur_seg`. A program that holds more than half of the image's segments therefore loses its last ones. In `MCBootImage2`, the second program maps two of its three. spec.md 6 says the loop maps each segment. `SegmentsOfOwnProgram` checks what the code does keep: the segments mapped are the program's own, in order.
- **Destroying a free slot.** `proc_destroy` (`process.c:166`) does not test that the slot holds a process, and `VirtMemory`'s `Destroy` takes any slot but the caller's. A second destroy of the same pid grafts `page_dir` 0. `virt_release` then walks frame 0 as a directory. On a PC that frame is the real-mode interrupt table; in the model it is zero, so the kernel faults. TLC finds `NoKernelFault` violated when it is added to `MCVirtMemory.cfg`. All run slots are taken, so no run records this.
- **Out-of-range pids.** `proc_find` has no bounds check, so an out-of-range pid indexes outside the table. That is memory corruption, not a state of the table.
- **Configuration mistakes mkimage accepts.** Two faults of the parser have no violation run, because the project is at its run limit. `libconfig_find` (`libconfig.c:360`) keeps an item with no children for the next token, so a program given as a bare name, with no subtree, is found to have `isidle` and is marked idle. A `}` with no open subtree (`libconfig.c:270`) ends the parse with success, and the programs after it are silently left out. TLC finds `ProgramsAsConfigured` violated in both cases when `MCConfig2` is changed to contain them. The runs use well-formed configurations.
- **Host tools.** `dumpimage` only prints an image. The release functions of libconfig and libexec, the error-message buffers, and segment contents are left out; so is the heap overflow of `elf_regions` when a segment's `file_size` exceeds its `memory_size` (`elf.c:101`).
- **Console faults without a run.** Both were confirmed with TLC on `SmpConsole` and have no violation run, because the project is at its run limit.
  - The serial server writes the UART without `print_lock` (`server/serial/main.c:32`). Checking over all of `uart` that each byte but the first of a line follows the byte before it, TLC finds CPU 2's byte 1, then the server's byte, then CPU 2's byte 2.
  - `printk` returns as soon as `serial_write` writes nothing (`printk.c:61`), so a message is silently cut short whenever the UART is busy.
- **The boot CPU's earlier printk calls.** They run before any AP is started, so they cannot contend for `print_lock`. They share the truncation above.
- **Exceptions.** `exception()` (`irq.c:69`) prints the registers and returns, so a user process that faults runs the faulting instruction again for ever, and is never destroyed. The interrupt table is platform glue (below), so no module has this path.
- **Where the MP table is searched.** The second range `smp_scan` reads ends at `arch_total_memory()`, which is (`mem_lower` + `mem_upper`) KB (`arch.c:38`). That is neither the end of base memory nor the end of RAM, so a floating pointer in the EBDA is missed and one CPU boots. `Smp` takes the three ranges as given (`ScanRanges`). Where firmware puts the pointer is outside the code.
- **Platform glue.** The GDT, IDT, TSS, PIC and APIC setup, clock calibration and the MIPS port are platform glue. `memcmp` has no caller in the modelled code.
- **proc_lock and phys_memory_lock.** Their critical sections stay atomic actions. Nothing bounds proc_lock's contention, so its waiters are assumed to enter (spec.md 2).

## Plan

Done: PhysMemory, ProcessTable with RoundRobin, Smp, VirtMemory, LibBoot, LibConfig, LibExec and MkImage, and Console composed with Smp, in that order. Left:

1. A multi-CPU version of the round-robin contract, with per-CPU current processes. It would state exactly which part of round robin survives two CPUs: mutual exclusion does and fairness does not.
2. Composing ProcessTable's flags with VirtMemory's address spaces in one module, so that `proc_destroy`'s unlocked test races `virt_release` and a CPU running the process.
3. Giving VirtMemory's `LoadProg` the LibBoot image instead of its one free segment per program, so that the segment-loss hazard shows up as missing translations.
4. Per-page bitmap accounting in VirtMemory, so that PhysMemory's `Accounting` is checked under the composed allocations.
