------------------------------- MODULE LibBoot -------------------------------
(***************************************************************************)
(* The boot image format of src/lib/libboot/libboot.c, as operators.       *)
(*                                                                         *)
(* Host side: mkimage's build_image adds one entry per configured program  *)
(* (libboot_addprog) and one segment per loadable region (libboot_addseg); *)
(* libboot_write then lays out the header, the program table, the segment  *)
(* table and each segment's data, padded to BOOTIMAGE_ALIGN.               *)
(*                                                                         *)
(* Kernel side: libboot_getprog, libboot_getseg and libboot_repeat_prog    *)
(* are a cursor <<cur_prog, cur_seg>> over the written image, with C's     *)
(* 0-based indices.                                                        *)
(*                                                                         *)
(* Sizes are scaled down: BOOTIMAGE_ALIGN and the sizeof of each table     *)
(* entry are small numbers in a common unit, so that the tables end at an  *)
(* unaligned offset as they do in the real image.  A region's contents and *)
(* virtual base, the program's path and entry point, and the file I/O      *)
(* errors of libboot_write (each returns -1 with the file half written)    *)
(* are left out: the loader never sees such an image.                      *)
(***************************************************************************)
EXTENDS Naturals, Sequences, SequencesExt

BOOTIMAGE_ALIGN == 4     \* libboot.h, scaled from 4096
SIZEOF_IMAGE    == 3     \* sizeof(boot_image_t)
SIZEOF_PROG     == 2     \* sizeof(boot_prog_t)
SIZEOF_SEG      == 1     \* sizeof(boot_seg_t)
BOOTPROG_ISIDLE == "ISIDLE"
NOSEG           == -1    \* a NULL boot_seg_t pointer

(* A program the boot configuration is meant to describe: whether it is   *)
(* the idle program, and the sizes of its loadable regions.               *)
Config(maxRegions, sizes) ==
    [isidle : BOOLEAN, regions : UNION {[1 .. n -> sizes] : n \in 0 .. maxRegions}]

-----------------------------------------------------------------------------
(* libboot_addprog: append an entry with the given flags and no segments. *)
AddProg(entries, flags) ==
    Append(entries, [flags |-> flags, segs |-> <<>>])

(* libboot_addseg: append a segment of the given size to the last entry.  *)
AddSeg(entries, size) ==
    [entries EXCEPT ![Len(entries)].segs = Append(@, size)]

(* Fault variant of Pad: the zero padding left out. *)
PadNone(off) == off

(* data_off += BOOTIMAGE_ALIGN - (data_off % BOOTIMAGE_ALIGN): a whole    *)
(* BOOTIMAGE_ALIGN of zeroes when data_off is already aligned.            *)
Pad(off) == off + (BOOTIMAGE_ALIGN - (off % BOOTIMAGE_ALIGN))

(* Fault variant of SegmentsIndex: nsegs is not advanced. *)
SegmentsIndexNoCount(entries, i) == 0

(* nsegs when libboot_write reaches entry i: the segments of the entries *)
(* before it.                                                             *)
SegmentsIndex(entries, i) ==
    Len(FlattenSeq([k \in 1 .. i - 1 |-> entries[k].segs]))

(* libboot_write: the header (no variables, so the program table follows  *)
(* it), the program table with each entry's segments_index (nsegs so far) *)
(* and segments_count, and the segment table with each segment's data     *)
(* offset: data starts past the tables, padded, and each segment's data   *)
(* is followed by zeroes up to the next alignment.                        *)
LibbootWrite(entries) ==
    LET n     == Len(entries)
        sizes == FlattenSeq([i \in 1 .. n |-> entries[i].segs])
        segOff == SIZEOF_IMAGE + n * SIZEOF_PROG
        lay   == FoldLeft(LAMBDA acc, sz :
                            [segs |-> Append(acc.segs, [size |-> sz, offset |-> acc.off]),
                             off  |-> Pad(acc.off + sz)],
                          [segs |-> <<>>, off |-> Pad(segOff + Len(sizes) * SIZEOF_SEG)],
                          sizes)
    IN [prog_table_off   |-> SIZEOF_IMAGE,
        prog_table_count |-> n,
        seg_table_off    |-> segOff,
        seg_table_count  |-> Len(sizes),
        progs |-> [i \in 1 .. n |-> [flags          |-> entries[i].flags,
                                     segments_index |-> SegmentsIndex(entries, i),
                                     segments_count |-> Len(entries[i].segs)]],
        segs  |-> lay.segs]

-----------------------------------------------------------------------------
(* libboot_parse: libboot_reset frees the host-side entries (none in the *)
(* kernel) and clears both cursors before the image is read.              *)
Parse == [cur_prog |-> 0, cur_seg |-> 0]

(* Fault variant of Getprog: cur_seg is not reset. *)
GetprogNoReset(img, cur_prog, cur_seg) ==
    IF cur_prog < img.prog_table_count
    THEN [prog |-> cur_prog, cur_prog |-> cur_prog + 1, cur_seg |-> cur_seg]
    ELSE [prog |-> NOSEG, cur_prog |-> cur_prog, cur_seg |-> cur_seg]

(* libboot_getprog: the next program table entry (its 0-based index) with *)
(* cur_seg reset, or none past the table.                                 *)
Getprog(img, cur_prog, cur_seg) ==
    IF cur_prog < img.prog_table_count
    THEN [prog |-> cur_prog, cur_prog |-> cur_prog + 1, cur_seg |-> 0]
    ELSE [prog |-> NOSEG, cur_prog |-> cur_prog, cur_seg |-> cur_seg]

(* libboot_repeat_prog: step back one program, never below the first. *)
RepeatProg(cur_prog) == IF cur_prog > 0 THEN cur_prog - 1 ELSE cur_prog

(* libboot_getseg: the next segment (0-based segment table index) of the  *)
(* program read last, program cur_prog - 1.  Its bound compares           *)
(* cur_seg + segments_count, not segments_index + cur_seg, with the       *)
(* table's size.                                                          *)
Getseg(img, cur_prog, cur_seg) ==
    LET p == img.progs[cur_prog]
    IN IF cur_seg < p.segments_count /\ cur_seg + p.segments_count < img.seg_table_count
       THEN [seg |-> p.segments_index + cur_seg, cur_seg |-> cur_seg + 1]
       ELSE [seg |-> NOSEG, cur_seg |-> cur_seg]

=============================================================================
