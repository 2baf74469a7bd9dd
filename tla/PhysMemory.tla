----------------------------- MODULE PhysMemory -----------------------------
(***************************************************************************)
(* The physical page allocator of src/system/phys_memory.c: one bit per   *)
(* page frame in memory_map, the memory_avail byte counter, first-fit     *)
(* palloc_from and pfree.  Every operation runs entirely under            *)
(* phys_memory_lock, so each is one atomic step whichever CPU calls it.   *)
(*                                                                         *)
(* Addresses and sizes are in bytes, scaled down: PAGE_SIZE is a small    *)
(* power of two and MEMORY_SIZE need not be a multiple of it, as           *)
(* arch_total_memory's (mem_lower + mem_upper) * 1024 need not be.        *)
(*                                                                         *)
(* The callers' side of pfree's contract (only a frame handed out by       *)
(* palloc is freed) is the auxiliary variable "allocated".                 *)
(***************************************************************************)
EXTENDS Integers, FiniteSets

CONSTANTS
    PAGE_SIZE,      \* bytes per frame
    MEMORY_SIZE,    \* arch_total_memory()
    BIOS_SIZE,      \* the low area reserved by palloc_from(0, 1024*1024)
    KERNEL_START,   \* kernel_start
    KERNEL_SIZE,    \* kernel_size: kernel image plus the bitmap after it
    Sizes           \* sizes callers ask palloc for (DIR_SIZE, STACK_SIZE)

ASSUME PAGE_SIZE >= 1 /\ MEMORY_SIZE > KERNEL_START + KERNEL_SIZE
ASSUME BIOS_SIZE <= KERNEL_START /\ Sizes \subseteq 1 .. MEMORY_SIZE

(* The addresses palloc_from's loop visits: i = 0, PAGE_SIZE, ... while    *)
(* i < memory_size, so a last partial frame is included.                  *)
Addrs == {i * PAGE_SIZE : i \in 0 .. (MEMORY_SIZE - 1) \div PAGE_SIZE}

(* memset(memory_map, 0, memory_size / PAGE_SIZE / 8) clears whole bytes  *)
(* only; the bits of the frames after them are never initialised.        *)
Cleared == {a \in Addrs : a \div PAGE_SIZE < 8 * ((MEMORY_SIZE \div PAGE_SIZE) \div 8)}

PageAlign(a) == a - (a % PAGE_SIZE)    \* a & PAGE_MASK

VARIABLES
    memory_map,     \* the bitmap: memory_map[a] is the bit of frame a
    memory_avail,   \* bytes available
    allocated,      \* frames handed out by palloc and not freed yet
    last            \* the last palloc call: base, size and return value

vars == <<memory_map, memory_avail, allocated, last>>

-----------------------------------------------------------------------------
(* paddr_is_marked: the frame's bit. *)
IsMarked(map, paddr) == map[PageAlign(paddr)]

(* paddr_set_mark over a set of frames: set or clear each bit, and take    *)
(* PAGE_SIZE off memory_avail or add it back per frame, whatever the bit   *)
(* was before.                                                             *)
SetMark(map, avail, paddrs, marked) ==
    [map   |-> [a \in Addrs |-> IF a \in paddrs THEN marked ELSE map[a]],
     avail |-> IF marked THEN avail - PAGE_SIZE * Cardinality(paddrs)
                         ELSE avail + PAGE_SIZE * Cardinality(paddrs)]

(* Fault variant of Search: a marked frame does not reset the run. *)
RECURSIVE SearchNoReset(_, _, _, _, _)
SearchNoReset(i, from, count, sz, map) ==
    IF i >= MEMORY_SIZE THEN [found |-> FALSE]
    ELSE LET f == IF count = 0 THEN i ELSE from
         IN IF (count + 1) * PAGE_SIZE >= sz THEN [found |-> TRUE, from |-> f, count |-> count + 1]
            ELSE SearchNoReset(i + PAGE_SIZE, f, count + 1, sz, map)

(* Fault variant of Search: count * PAGE_SIZE > sz, one frame too many    *)
(* when sz is a multiple of PAGE_SIZE.                                    *)
RECURSIVE SearchStrict(_, _, _, _, _)
SearchStrict(i, from, count, sz, map) ==
    IF i >= MEMORY_SIZE THEN [found |-> FALSE]
    ELSE IF ~IsMarked(map, i)
         THEN LET f == IF count = 0 THEN i ELSE from
                  n == IF count = 0 THEN 1 ELSE count + 1
              IN IF n * PAGE_SIZE > sz THEN [found |-> TRUE, from |-> f, count |-> n]
                 ELSE SearchStrict(i + PAGE_SIZE, f, n, sz, map)
         ELSE SearchStrict(i + PAGE_SIZE, 0, 0, sz, map)

(* palloc_from's loop: count the free frames in the current run, reset   *)
(* the run at a marked frame, stop when count * PAGE_SIZE >= sz.          *)
RECURSIVE Search(_, _, _, _, _)
Search(i, from, count, sz, map) ==
    IF i >= MEMORY_SIZE THEN [found |-> FALSE]
    ELSE IF ~IsMarked(map, i)
         THEN LET f == IF count = 0 THEN i ELSE from
                  n == IF count = 0 THEN 1 ELSE count + 1
              IN IF n * PAGE_SIZE >= sz THEN [found |-> TRUE, from |-> f, count |-> n]
                 ELSE Search(i + PAGE_SIZE, f, n, sz, map)
         ELSE Search(i + PAGE_SIZE, 0, 0, sz, map)

Run(from, count) == {from + k * PAGE_SIZE : k \in 0 .. count - 1}

(* Fault variant of PallocFrom: the scan starts at 0 whatever the base. *)
PallocFromIgnoringBase(base, sz, map, avail) ==
    LET r == Search(0, 0, 0, sz, map)
    IN IF r.found
       THEN LET m == SetMark(map, avail, Run(r.from, r.count), TRUE)
            IN [map |-> m.map, avail |-> m.avail, ret |-> r.from, run |-> Run(r.from, r.count)]
       ELSE [map |-> map, avail |-> avail, ret |-> 0, run |-> {}]

(* Fault variant of PallocFrom: failure returns -1 rather than 0. *)
PallocFromSentinel(base, sz, map, avail) ==
    LET r == Search(PageAlign(base), 0, 0, sz, map)
    IN IF r.found
       THEN LET m == SetMark(map, avail, Run(r.from, r.count), TRUE)
            IN [map |-> m.map, avail |-> m.avail, ret |-> r.from, run |-> Run(r.from, r.count)]
       ELSE [map |-> map, avail |-> avail, ret |-> -1, run |-> {}]

(* palloc_from(base, sz) applied to a bitmap and counter: mark the run,   *)
(* paddr_set_mark(j, 1) taking PAGE_SIZE off memory_avail per frame, and  *)
(* return its start, or 0 if there is none.                               *)
PallocFrom(base, sz, map, avail) ==
    LET r == Search(PageAlign(base), 0, 0, sz, map)
    IN IF r.found
       THEN LET m == SetMark(map, avail, Run(r.from, r.count), TRUE)
            IN [map |-> m.map, avail |-> m.avail, ret |-> r.from, run |-> Run(r.from, r.count)]
       ELSE [map |-> map, avail |-> avail, ret |-> 0, run |-> {}]

(* phys_memory_init: memory_avail = memory_size, the bitmap cleared      *)
(* (bits of the frames past the cleared bytes hold whatever the memory   *)
(* held), then the BIOS area and the kernel with its bitmap marked used. *)
Init ==
    \E tail \in [Addrs \ Cleared -> BOOLEAN] :
        LET map0 == [a \in Addrs |-> IF a \in Cleared THEN FALSE ELSE tail[a]]
            r1   == PallocFrom(0, BIOS_SIZE, map0, MEMORY_SIZE)
            r2   == PallocFrom(KERNEL_START, KERNEL_SIZE, r1.map, r1.avail)
        IN /\ memory_map = r2.map
           /\ memory_avail = r2.avail
           /\ allocated = {}
           /\ last = [base |-> KERNEL_START, size |-> KERNEL_SIZE, ret |-> r2.ret]

(* palloc(sz) == palloc_from(0, sz), by any CPU. *)
Palloc(sz) ==
    LET r == PallocFrom(0, sz, memory_map, memory_avail)
    IN /\ memory_map' = r.map
       /\ memory_avail' = r.avail
       /\ allocated' = allocated \cup r.run
       /\ last' = [base |-> 0, size |-> sz, ret |-> r.ret]

(* pfree(paddr): clear the frame's bit and add PAGE_SIZE to memory_avail, *)
(* whatever the bit was.                                                  *)
Pfree(paddr) ==
    /\ paddr \in allocated
    /\ LET m == SetMark(memory_map, memory_avail, {PageAlign(paddr)}, FALSE)
       IN /\ memory_map' = m.map
          /\ memory_avail' = m.avail
    /\ allocated' = allocated \ {paddr}
    /\ UNCHANGED last

Next ==
    \/ \E sz \in Sizes : Palloc(sz)
    \/ \E a \in allocated : Pfree(a)

Spec == Init /\ [][Next]_vars

-----------------------------------------------------------------------------
TypeOK ==
    /\ memory_map \in [Addrs -> BOOLEAN]
    /\ memory_avail \in 0 .. MEMORY_SIZE
    /\ allocated \subseteq Addrs
    /\ last \in [base : Nat, size : Nat, ret : Nat]

Used == {a \in Addrs : memory_map[a]}

(* spec.md 3: the bitmap and the counter agree, total used frames =      *)
(* (total - available) / page size, after any sequence of palloc/pfree. *)
Accounting == MEMORY_SIZE - memory_avail = PAGE_SIZE * Cardinality(Used)

(* spec.md 4.1: palloc returns the lowest page-aligned address at which a *)
(* run of free frames covers the request and marks exactly that run; it   *)
(* returns 0 and changes nothing when there is no such run.               *)
FirstFitRef(sz, map) ==
    LET n    == (sz + PAGE_SIZE - 1) \div PAGE_SIZE
        fits == {a \in Addrs : Run(a, n) \subseteq Addrs /\ \A b \in Run(a, n) : ~map[b]}
    IN IF fits = {} THEN [ret |-> 0, run |-> {}]
       ELSE LET a == CHOOSE x \in fits : \A y \in fits : x <= y
            IN [ret |-> a, run |-> Run(a, n)]

AllocIsFirstFit ==
    [][\A sz \in Sizes :
         Palloc(sz) =>
            LET ref == FirstFitRef(sz, memory_map)
            IN /\ last'.ret = ref.ret
               /\ Used' = Used \cup ref.run]_vars

(* The BIOS area and the kernel image with its bitmap are never handed    *)
(* out by palloc.                                                         *)
Reserved == {a \in Addrs : a < BIOS_SIZE \/ (KERNEL_START <= a /\ a < KERNEL_START + KERNEL_SIZE)}

ReservedNeverAllocated == allocated \cap Reserved = {}

=============================================================================
