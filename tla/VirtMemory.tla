----------------------------- MODULE VirtMemory -----------------------------
(***************************************************************************)
(* The x86 virtual memory mapper of src/system/x86/pc/virt_memory.c and    *)
(* the address-space work of proc_table_init, proc_create, arch_init_proc  *)
(* and proc_destroy, on physical frames allocated by PhysMemory.           *)
(*                                                                         *)
(* Scaled-down two-level paging: a directory or table has the entries Idx; *)
(* a virtual page is <<d, t>> (directory entry d, table entry t).  The     *)
(* regions keep their real directory indices where the code fixes them:   *)
(* 0 (below 4 MB), DIR_VADDR = 1, RDIR_VADDR = 2, TMP_VADDR = 3,          *)
(* KERN_VADDR = 4; USER (5) holds program segments, STK (6) the kernel    *)
(* and user stacks (one directory entry, as 0xbfff0000 and 0xbffc0000     *)
(* share entry 767), APIC (7) the local APIC page.  A physical frame is   *)
(* numbered like the page that identity-maps it, d * 8 + t.               *)
(*                                                                         *)
(* After paging is on, the code reaches every directory and table through *)
(* virtual addresses: TABADDR(base, v) is page <<base, DIRENTRY(v)>>,      *)
(* which the self-map (entry DIR_VADDR of a directory pointing to itself) *)
(* or the remote slot (entry RDIR_VADDR pointing to another directory)    *)
(* turns into a table.  The model does the same page walk; a walk that    *)
(* meets an absent entry is a page fault in the kernel.                    *)
(***************************************************************************)
EXTENDS Integers, FiniteSets, Sequences

CONSTANTS
    MEMORY_FRAMES,  \* RAM frames (frames at or above are not memory)
    NPROC,          \* programs in the boot image, loaded by proc_table_init
    NAP,            \* application processors
    SegPages        \* virtual pages a program segment may start at

Idx == 0 .. 7
Frames == 0 .. 63
LOW == 0
SELF == 1
RDIR == 2
TMP == 3
KERN == 4
USER == 5
STK == 6
APIC == 7

ASSUME MEMORY_FRAMES \in 40 .. 48 /\ MEMORY_FRAMES % 8 = 0
ASSUME NPROC \in 1 .. 4 /\ NAP \in 0 .. 2
ASSUME SegPages \subseteq {<<LOW, 2>>, <<USER, 0>>, <<USER, 4>>}

Frame(pg) == pg[1] * 8 + pg[2]                 \* identity mapping
VPN(pg) == pg[1] * 8 + pg[2]                   \* virtual page number
PageAt(l) == <<l \div 8, l % 8>>
MaxVPN == 63
KERNEL_PAGES == 3                              \* kernel, boot image, bitmap
BIOS_PAGES == 2                                \* the reserved first megabyte
ImageFrame == Frame(<<KERN, 1>>)               \* segment bytes in the boot image
ApicPage   == <<APIC, 0>>
KernStack == <<STK, 0>>
UserStack == <<STK, 2>>
STACK_PAGES == 2

PAGE_PR == "PR"
PAGE_WR == "WR"
PAGE_USER == "USER"
PAGE_PIN == "PIN"
Entry == [frame : Frames, flags : SUBSET {PAGE_PR, PAGE_WR, PAGE_USER, PAGE_PIN}]
Zero == [frame |-> 0, flags |-> {}]
NoFrame == -1

VARIABLES
    mem,            \* contents of every frame used as a directory or table
    memory_map,     \* PhysMemory's bitmap
    memory_avail,
    fault,          \* the kernel took a page fault
    cpu_dir,        \* the directory each CPU's virt_memory_init built
    cpu_stack,      \* cpus[c].stack
    image,          \* the boot image: each program's segment
    live,           \* process slots in use
    page_dir,       \* proc_table[p].page_dir
    kstack, ustack, \* the frames proc_create allocated for the stacks
    phase           \* "init", "load", "run"

PM == INSTANCE PhysMemory WITH
        PAGE_SIZE <- 1, MEMORY_SIZE <- MEMORY_FRAMES, BIOS_SIZE <- BIOS_PAGES,
        KERNEL_START <- Frame(<<KERN, 0>>), KERNEL_SIZE <- KERNEL_PAGES, Sizes <- {1, STACK_PAGES},
        allocated <- {}, last <- [base |-> 0, size |-> 0, ret |-> 0]

NoDir == -1                                    \* cpu_dir of a CPU without paging yet
NoStack == -1                                  \* cpu_stack of a CPU not found

vars == <<mem, memory_map, memory_avail, fault, cpu_dir, cpu_stack, image, live,
          page_dir, kstack, ustack, phase>>
Pids == 0 .. NPROC - 1
CPUs == 0 .. NAP
Segments == [virt : SegPages, size : 1 .. 2]

-----------------------------------------------------------------------------
(* The MMU: the frame a virtual page maps to through directory dir. *)
Walk(m, dir, pg) ==
    LET de == m[dir][pg[1]]
    IN IF PAGE_PR \notin de.flags THEN NoFrame
       ELSE LET te == m[de.frame][pg[2]]
            IN IF PAGE_PR \notin te.flags THEN NoFrame ELSE te.frame

(* The kernel's view of memory within one call: frames, bitmap, whether   *)
(* it faulted, the last return value and virt_map's ENOMEM.               *)
St == [mem |-> mem, map |-> memory_map, avail |-> memory_avail, fault |-> fault,
       ret |-> 0, err |-> FALSE]

Ent(f, fl) == [frame |-> f, flags |-> fl]

(* A store of entry e at entry o of virtual page pg (a table reached     *)
(* through TABADDR); a page fault if pg is not mapped.                    *)
VWrite(s, dir, pg, o, e) ==
    LET f == Walk(s.mem, dir, pg)
    IN IF s.fault THEN s
       ELSE IF f = NoFrame THEN [s EXCEPT !.fault = TRUE]
       ELSE [s EXCEPT !.mem[f][o] = e]

(* memset(page, 0, PAGE_SIZE) through a virtual address. *)
VClear(s, dir, pg) ==
    LET f == Walk(s.mem, dir, pg)
    IN IF s.fault THEN s
       ELSE IF f = NoFrame THEN [s EXCEPT !.fault = TRUE]
       ELSE [s EXCEPT !.mem[f] = [o \in Idx |-> Zero]]

(* A load of entry o of virtual page pg: Zero if pg is not mapped, where *)
(* Touch records the fault.                                              *)
VRead(s, dir, pg, o) ==
    LET f == Walk(s.mem, dir, pg)
    IN IF s.fault \/ f = NoFrame THEN Zero ELSE s.mem[f][o]

Touch(s, dir, pg) ==
    IF Walk(s.mem, dir, pg) = NoFrame THEN [s EXCEPT !.fault = TRUE] ELSE s

(* Evaluate e once and hand its value to Op: the calls below pass the     *)
(* kernel's state from one to the next, as the C code's side effects do.  *)
Bind(e, Op(_)) == CHOOSE r \in {Op(x) : x \in {e}} : TRUE

(* palloc(n frames): PhysMemory's first fit; ret is 0 when memory is out. *)
Palloc(s, n) ==
    Bind(PM!PallocFrom(0, n, s.map, s.avail),
         LAMBDA r : [s EXCEPT !.map = r.map, !.avail = r.avail, !.ret = r.ret])

(* pfree of one frame. *)
Pfree(s, f) ==
    Bind(PM!SetMark(s.map, s.avail, {f}, FALSE),
         LAMBDA r : [s EXCEPT !.map = r.map, !.avail = r.avail])

LocalDir == <<SELF, SELF>>                      \* LOCAL_DIR

-----------------------------------------------------------------------------
(* One page of virt_map: a zero directory entry (TABADDR(dir_base,        *)
(* DIR_VADDR)[DIRENTRY(i)]) gets a new table from palloc, with            *)
(* PAGE_PR|PAGE_WR|PAGE_USER, cleared through its virtual address; out of *)
(* memory sets ENOMEM.                                                    *)
TableFor(s, dir, base, i) ==
    Bind(Touch(s, dir, <<base, SELF>>), LAMBDA s0 :
        IF s0.fault \/ VRead(s0, dir, <<base, SELF>>, i[1]) # Zero THEN s0
        ELSE Bind(Palloc(s0, 1), LAMBDA a :
                 IF a.ret = 0 THEN [a EXCEPT !.err = TRUE]
                 ELSE Bind(VWrite(a, dir, <<base, SELF>>, i[1],
                                  Ent(a.ret, {PAGE_PR, PAGE_WR, PAGE_USER})),
                           LAMBDA b : VClear(b, dir, <<base, i[1]>>))))

(* Fault variant of MapFrom: every page of the range gets paddr itself. *)
RECURSIVE MapFromNoOffset(_, _, _, _, _, _, _, _)
MapFromNoOffset(s, dir, base, v, pa, n, fl, k) ==
    IF k >= n \/ s.fault THEN s
    ELSE LET i == PageAt(VPN(v) + k)
         IN Bind(TableFor(s, dir, base, i), LAMBDA s1 :
                IF s1.err THEN s1
                ELSE Bind(VWrite(s1, dir, <<base, i[1]>>, i[2], Ent(pa, fl)), LAMBDA s2 :
                         MapFromNoOffset(s2, dir, base, v, pa, n, fl, k + 1)))

(* virt_map(dir_base, vaddr, paddr, size, flags) from its k-th page on, in *)
(* the address space of directory dir: table entry TABENTRY(i) of          *)
(* TABADDR(dir_base, i) gets paddr + (i - vaddr) | flags; ENOMEM ends the *)
(* loop, the pages before it left mapped.                                 *)
RECURSIVE MapFrom(_, _, _, _, _, _, _, _)
MapFrom(s, dir, base, v, pa, n, fl, k) ==
    IF k >= n \/ s.fault THEN s
    ELSE LET i == PageAt(VPN(v) + k)
         IN Bind(TableFor(s, dir, base, i), LAMBDA s1 :
                IF s1.err THEN s1
                ELSE Bind(VWrite(s1, dir, <<base, i[1]>>, i[2], Ent(pa + k, fl)), LAMBDA s2 :
                         MapFrom(s2, dir, base, v, pa, n, fl, k + 1)))

VirtMap(s, dir, base, v, pa, n, fl) == MapFrom([s EXCEPT !.err = FALSE], dir, base, v, pa, n, fl, 0)

(* virt_unmap: virt_map of paddr 0 with no flags. *)
VirtUnmap(s, dir, v, n) == VirtMap(s, dir, SELF, v, 0, n, {})

(* virt_temp_map's search: from TMP_VADDR, the first page whose directory *)
(* entry or table entry in the local directory is not present (the loop   *)
(* has no upper limit; the model stops at the last page).                 *)
RECURSIVE FreeTemp(_, _, _)
FreeTemp(s, dir, l) ==
    LET pg == PageAt(l)
    IN IF l < MaxVPN /\ PAGE_PR \in VRead(s, dir, LocalDir, pg[1]).flags
                    /\ PAGE_PR \in VRead(s, dir, <<SELF, pg[1]>>, pg[2]).flags
       THEN FreeTemp(s, dir, l + 1) ELSE l

(* virt_temp_map(addr, size): the state and the virtual page returned. *)
TempMap(s, dir, pa, n) ==
    Bind(PageAt(FreeTemp(s, dir, VPN(<<TMP, 0>>))), LAMBDA v :
        [st |-> VirtMap(s, dir, SELF, v, pa, n, {PAGE_PR, PAGE_WR}), v |-> v])

(* Fault variant of Ungraft: the remote slot is left grafted. *)
UngraftKeep(s, dir) == s

(* virt_map_remote_dir and virt_unmap_remote_dir: the local directory's   *)
(* RDIR_VADDR entry (the TLB flush has no counterpart: no TLB is modelled). *)
Graft(s, dir, pd) == VWrite(s, dir, LocalDir, RDIR, Ent(pd, {PAGE_PR, PAGE_WR}))
Ungraft(s, dir) == VWrite(s, dir, LocalDir, RDIR, Ent(0, {}))

(* virt_release's inner loop: for (j = 0; i < 1024; j++) never ends on its *)
(* own, reading tab[j] onwards from TABADDR(dir_base, 0) and freeing every *)
(* present, unpinned entry until a read faults.                           *)
RECURSIVE ReleaseScan(_, _, _, _)
ReleaseScan(s, dir, base, j) ==
    LET l == VPN(<<base, 0>>) + j \div 8
    IN IF l > MaxVPN THEN [s EXCEPT !.fault = TRUE]
       ELSE Bind(Touch(s, dir, PageAt(l)), LAMBDA s1 :
               IF s1.fault THEN s1
               ELSE LET e == VRead(s1, dir, PageAt(l), j % 8)
                    IN Bind(IF PAGE_PR \in e.flags /\ PAGE_PIN \notin e.flags
                            THEN Pfree(s1, e.frame) ELSE s1, LAMBDA s2 :
                           ReleaseScan(s2, dir, base, j + 1)))

(* virt_release(dir_base): every iteration of the outer loop tests        *)
(* dir[DIRENTRY(i)] for i < 1024, which is entry 0 each time.             *)
Release(s, dir, base) ==
    Bind(Touch(s, dir, <<base, SELF>>), LAMBDA s0 :
        LET de == VRead(s0, dir, <<base, SELF>>, 0)
        IN IF ~s0.fault /\ PAGE_PR \in de.flags /\ PAGE_PIN \notin de.flags
           THEN ReleaseScan(s0, dir, base, 0) ELSE s0)

-----------------------------------------------------------------------------
(* virt_ident_map with paging off: tables are reached by physical address; *)
(* a missing table comes from palloc, unchecked, and is cleared.  ret is  *)
(* the table of the current page.                                         *)
RECURSIVE IdentMap(_, _, _)
IdentMap(s, dir, pgs) ==
    IF pgs = <<>> THEN s
    ELSE LET i == Head(pgs)
         IN Bind(IF s.mem[dir][i[1]] # Zero THEN [s EXCEPT !.ret = s.mem[dir][i[1]].frame]
                 ELSE Bind(Palloc(s, 1), LAMBDA a :
                          [a EXCEPT !.mem[a.ret] = [o \in Idx |-> Zero],
                                    !.mem[dir][i[1]] = Ent(a.ret, {PAGE_PR, PAGE_WR, PAGE_USER})]),
                 LAMBDA s1 :
                     Bind([s1 EXCEPT !.mem[s1.ret][i[2]] = Ent(Frame(i), {PAGE_PR, PAGE_WR})],
                          LAMBDA s2 : IdentMap(s2, dir, Tail(pgs))))

PagesFrom(v, n) == [k \in 1 .. n |-> PageAt(VPN(v) + k - 1)]

(* virt_memory_init on a CPU whose stack starts at frame stack: a cleared *)
(* directory from palloc, identity maps of the kernel, the APIC page and  *)
(* the stack, and the self-map.  ret is the directory loaded into CR3.    *)
VirtMemoryInit(s, stack) ==
    Bind(Palloc(s, 1), LAMBDA a :
    Bind(IdentMap([a EXCEPT !.mem[a.ret] = [o \in Idx |-> Zero]], a.ret,
                  PagesFrom(<<KERN, 0>>, KERNEL_PAGES)), LAMBDA s2 :
    Bind(IdentMap(s2, a.ret, PagesFrom(<<APIC, 0>>, 1)), LAMBDA s3 :
    Bind(IdentMap(s3, a.ret, PagesFrom(PageAt(stack), STACK_PAGES)), LAMBDA s4 :
        [s4 EXCEPT !.mem[a.ret][SELF] = Ent(a.ret, {PAGE_PR, PAGE_WR}), !.ret = a.ret]))))

(* proc_create's part in memory, run by the boot CPU (directory dir):     *)
(* palloc the directory and both stacks (none checked), virt_memory_proc  *)
(* and arch_init_proc.                                                     *)
VirtMemoryProc(s, dir, pd, ks, us) ==
    Bind(TempMap(s, dir, pd, 1), LAMBDA t :
    Bind(VWrite(VClear(t.st, dir, t.v), dir, t.v, SELF, Ent(pd, {PAGE_PR, PAGE_WR})), LAMBDA b2 :
    Bind(Graft(VirtUnmap(b2, dir, t.v, 1), dir, pd), LAMBDA b3 :
    Bind(VirtMap(b3, dir, RDIR, <<KERN, 0>>, Frame(<<KERN, 0>>), KERNEL_PAGES,
                 {PAGE_PR, PAGE_WR, PAGE_PIN}), LAMBDA b4 :
    Bind(VirtMap(b4, dir, RDIR, <<APIC, 0>>, Frame(<<APIC, 0>>), 1,
                 {PAGE_PR, PAGE_WR, PAGE_PIN}), LAMBDA b5 :
    Bind(VirtMap(b5, dir, RDIR, KernStack, ks, STACK_PAGES, {PAGE_PR, PAGE_WR}), LAMBDA b6 :
    Bind(VirtMap(b6, dir, RDIR, UserStack, us, STACK_PAGES, {PAGE_PR, PAGE_WR, PAGE_USER}),
         LAMBDA b7 : Ungraft(b7, dir))))))))

(* arch_init_proc: temp-map the kernel stack, store the registers at its  *)
(* top (their values are not modelled, only the access), unmap.          *)
ArchInitProc(s, dir, ks) ==
    Bind(TempMap(s, dir, ks, STACK_PAGES), LAMBDA t :
    Bind(Touch(t.st, dir, PageAt(VPN(t.v) + STACK_PAGES - 1)), LAMBDA c1 :
        VirtUnmap(c1, dir, t.v, STACK_PAGES)))

ProcCreate(s, dir) ==
    Bind(Palloc(s, 1), LAMBDA a1 :
    Bind(Palloc(a1, STACK_PAGES), LAMBDA a2 :
    Bind(Palloc(a2, STACK_PAGES), LAMBDA a3 :
    Bind(VirtMemoryProc(a3, dir, a1.ret, a2.ret, a3.ret), LAMBDA b :
        [st |-> ArchInitProc(b, dir, a2.ret), pd |-> a1.ret, ks |-> a2.ret, us |-> a3.ret]))))

(* Fault variant of ApStacks: palloc(PAGE_SIZE) for each stack. *)
RECURSIVE ApStacksOnePage(_, _)
ApStacksOnePage(s, c) ==
    IF c > NAP THEN [st |-> s, stk |-> <<>>]
    ELSE Bind(Palloc(s, 1), LAMBDA a :
         Bind(ApStacksOnePage(a, c + 1), LAMBDA r :
             [st |-> r.st, stk |-> <<a.ret>> \o r.stk]))

(* smp_parse_entry's palloc(STACK_SIZE) for each application processor,  *)
(* in entry order.                                                        *)
RECURSIVE ApStacks(_, _)
ApStacks(s, c) ==
    IF c > NAP THEN [st |-> s, stk |-> <<>>]
    ELSE Bind(Palloc(s, STACK_PAGES), LAMBDA a :
         Bind(ApStacks(a, c + 1), LAMBDA r :
             [st |-> r.st, stk |-> <<a.ret>> \o r.stk]))

BootStackFrame == Frame(<<KERN, 1>>)           \* stackptr - STACK_SIZE + 1

(* Up to virt_memory_init: phys_memory_init (the bitmap's bytes cover all  *)
(* frames, MEMORY_FRAMES being a multiple of 8), then smp_init: with an MP *)
(* configuration every application processor gets a stack from palloc and *)
(* the boot CPU the loader's stack; without one the boot CPU's stack stays *)
(* 0 and no other CPU is found.  Any boot image of NPROC programs.        *)
Init ==
    \E mp \in BOOLEAN, img \in [Pids -> Segments] :
        LET r1  == PM!PallocFrom(0, BIOS_PAGES, [a \in PM!Addrs |-> FALSE], MEMORY_FRAMES)
            r2  == PM!PallocFrom(Frame(<<KERN, 0>>), KERNEL_PAGES, r1.map, r1.avail)
            s0  == [mem |-> [f \in Frames |-> [o \in Idx |-> Zero]], map |-> r2.map,
                    avail |-> r2.avail, fault |-> FALSE, ret |-> 0, err |-> FALSE]
            aps == IF mp THEN ApStacks(s0, 1)
                   ELSE [st |-> s0, stk |-> [c \in 1 .. NAP |-> NoStack]]
        IN /\ mem = s0.mem
           /\ memory_map = aps.st.map /\ memory_avail = aps.st.avail
           /\ fault = FALSE
           /\ cpu_dir = [c \in CPUs |-> NoDir]
           /\ cpu_stack = [c \in CPUs |-> IF c = 0 THEN (IF mp THEN BootStackFrame ELSE 0)
                                          ELSE aps.stk[c]]
           /\ image = img
           /\ live = {}
           /\ page_dir = [p \in Pids |-> 0]
           /\ kstack = [p \in Pids |-> 0]
           /\ ustack = [p \in Pids |-> 0]
           /\ phase = "init"

(* main on the boot CPU: virt_memory_init. *)
BspInit ==
    /\ phase = "init"
    /\ \E r \in {VirtMemoryInit(St, cpu_stack[0])} :
          /\ mem' = r.mem /\ memory_map' = r.map /\ memory_avail' = r.avail
          /\ cpu_dir' = [cpu_dir EXCEPT ![0] = r.ret]
    /\ phase' = "load"
    /\ UNCHANGED <<fault, cpu_stack, image, live, page_dir, kstack, ustack>>

(* One iteration of proc_table_init's loop: proc_create in the first free *)
(* slot, then the program's segment mapped through the remote slot.      *)
LoadProg ==
    /\ phase = "load" /\ ~fault
    /\ \E pid \in {CHOOSE i \in Pids \ live : \A j \in Pids \ live : i <= j},
          c \in {ProcCreate(St, cpu_dir[0])} :
       \E s3 \in {Bind(Graft(c.st, cpu_dir[0], c.pd), LAMBDA s1 :
                  Bind(VirtMap(s1, cpu_dir[0], RDIR, image[pid].virt, ImageFrame,
                               image[pid].size, {PAGE_PR, PAGE_WR, PAGE_USER}), LAMBDA s2 :
                      Ungraft(s2, cpu_dir[0])))} :
          /\ mem' = s3.mem /\ memory_map' = s3.map /\ memory_avail' = s3.avail
          /\ fault' = s3.fault
          /\ live' = live \cup {pid}
          /\ page_dir' = [page_dir EXCEPT ![pid] = c.pd]
          /\ kstack' = [kstack EXCEPT ![pid] = c.ks]
          /\ ustack' = [ustack EXCEPT ![pid] = c.us]
          /\ phase' = IF live' = Pids THEN "run" ELSE "load"
    /\ UNCHANGED <<cpu_dir, cpu_stack, image>>

(* main on an application processor, once smp_boot_all started it:       *)
(* virt_memory_init with its own stack.                                   *)
ApInit(c) ==
    /\ phase = "run" /\ ~fault
    /\ cpu_stack[c] # NoStack /\ cpu_dir[c] = NoDir
    /\ \E r \in {VirtMemoryInit(St, cpu_stack[c])} :
          /\ mem' = r.mem /\ memory_map' = r.map /\ memory_avail' = r.avail
          /\ cpu_dir' = [cpu_dir EXCEPT ![c] = r.ret]
    /\ UNCHANGED <<fault, cpu_stack, image, live, page_dir, kstack, ustack, phase>>

(* proc_destroy(p) called by process q (so in q's address space) after   *)
(* its checks: graft p's directory, virt_release, ungraft, zero the slot. *)
(* Neither proc_destroy nor api.c's API_PROC_DESTROY tests that slot p    *)
(* holds a process: a free slot's page_dir, 0, is grafted like any other. *)
Destroy(q, p) ==
    /\ phase = "run" /\ ~fault
    /\ q \in live /\ p \in Pids \ {q}
    /\ \E s3 \in {Bind(Graft(St, page_dir[q], page_dir[p]), LAMBDA s1 :
                  Bind(Release(s1, page_dir[q], RDIR), LAMBDA s2 :
                      Ungraft(s2, page_dir[q])))} :
          /\ mem' = s3.mem /\ memory_map' = s3.map /\ memory_avail' = s3.avail
          /\ fault' = s3.fault
    /\ live' = live \ {p}
    /\ page_dir' = [page_dir EXCEPT ![p] = 0]
    /\ UNCHANGED <<cpu_dir, cpu_stack, image, kstack, ustack, phase>>

Next ==
    \/ BspInit
    \/ LoadProg
    \/ \E c \in CPUs \ {0} : ApInit(c)
    \/ \E q, p \in Pids : Destroy(q, p)

Spec == Init /\ [][Next]_vars

-----------------------------------------------------------------------------
Run(f, n) == {f + k : k \in 0 .. n - 1}
Pages == {PageAt(l) : l \in 0 .. MaxVPN}
Used == {f \in PM!Addrs : memory_map[f]}

(* The address spaces in use: each CPU's own directory and each process's. *)
Owners == {<<"cpu", c>> : c \in {c \in CPUs : cpu_dir[c] # NoDir}} \cup {<<"proc", p>> : p \in live}
DirOf(x) == IF x[1] = "cpu" THEN cpu_dir[x[2]] ELSE page_dir[x[2]]

(* Frames an address space owns: its directory, its tables (the self-map *)
(* and the remote slot borrow, they do not own) and the frames it maps    *)
(* outside the kernel and APIC regions (stacks, temp maps), less the boot *)
(* image, whose segments every copy of a program maps.                    *)
ImageFrames == Run(ImageFrame, 2)
Tables(d) == {mem[d][e].frame : e \in {e \in Idx \ {SELF, RDIR} : PAGE_PR \in mem[d][e].flags}}
Leaves(d) == {Walk(mem, d, pg) : pg \in {pg \in Pages : pg[1] \in {LOW, TMP, USER, STK}}} \ {NoFrame}
Private(d) == {d} \cup Tables(d) \cup (Leaves(d) \ ImageFrames)

(* The page a process's directory must translate pg to after proc_create *)
(* and proc_table_init: the kernel and the APIC to themselves (pinned),   *)
(* both stacks to the frames palloc gave them, the segment to the boot    *)
(* image, and nothing else outside the self-map.                          *)
Expected(p, pg) ==
    LET off(v) == VPN(pg) - VPN(v)
    IN CASE pg[1] = KERN /\ pg[2] < KERNEL_PAGES       -> Frame(pg)
         [] pg = ApicPage                              -> Frame(pg)
         [] off(KernStack) \in 0 .. STACK_PAGES - 1    -> kstack[p] + off(KernStack)
         [] off(UserStack) \in 0 .. STACK_PAGES - 1    -> ustack[p] + off(UserStack)
         [] off(image[p].virt) \in 0 .. image[p].size - 1 -> ImageFrame + off(image[p].virt)
         [] OTHER                                      -> NoFrame

(* spec.md 8: a page mapped by virt_map reads back as the frame it was    *)
(* mapped to, and an unmapped one as absent.  Every process built by      *)
(* proc_create, virt_memory_proc and proc_table_init's segment loop,      *)
(* through temp maps and the remote slot of the boot CPU's directory, has *)
(* exactly the translations it was given, and a working self-map.         *)
SpacesWellFormed ==
    \A p \in live :
        /\ Walk(mem, page_dir[p], LocalDir) = page_dir[p]
        /\ \A pg \in Pages : pg[1] # SELF => Walk(mem, page_dir[p], pg) = Expected(p, pg)

(* spec.md 3 and 9: every frame an address space owns is marked used in  *)
(* the bitmap, and no frame is owned by two address spaces (CPU or       *)
(* process): palloc's results, the tables virt_map and virt_ident_map    *)
(* allocate, and what proc_destroy frees never overlap a live space.     *)
OwnedFramesExclusive ==
    /\ \A x \in Owners : Private(DirOf(x)) \subseteq Used
    /\ \A x, y \in Owners : x # y => Private(DirOf(x)) \cap Private(DirOf(y)) = {}

(* spec.md 8: grafting another directory into the remote slot, editing  *)
(* it and ungrafting, and temp-mapping a frame and unmapping it, leave   *)
(* every translation of every running address space unchanged outside   *)
(* its self-map window: no step leaks a mapping into a live space.       *)
AddressSpacesIsolated ==
    [][\A x \in Owners \cap Owners' :
          DirOf(x)' = DirOf(x) =>
              \A pg \in Pages : pg[1] # SELF => Walk(mem', DirOf(x), pg) = Walk(mem, DirOf(x), pg)]_vars

(* No kernel code in these paths touches an unmapped page: a page fault  *)
(* in the kernel only prints the registers and returns to the faulting   *)
(* instruction (irq.c exception), so the CPU is lost.                   *)
NoKernelFault == ~fault

=============================================================================
