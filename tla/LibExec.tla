------------------------------- MODULE LibExec -------------------------------
(***************************************************************************)
(* The executable reader of src/lib/libexec (libexec.c, elf.c), as        *)
(* operators: libexec_read tries each registered format handler on a      *)
(* file, and elf_read, the only handler, turns a 32-bit ELF executable    *)
(* into its loadable memory regions.                                       *)
(*                                                                         *)
(* A file is given by what elf_read tests of it: whether the header and   *)
(* the program header table can be read, the header fields it checks,    *)
(* and the program headers.  A region is its memory size; its virtual     *)
(* base, flags and contents, and the entry point, are carried through     *)
(* unchanged by mkimage and left out.  The malloc failures are left out,  *)
(* and so is the error of the content read: fseek to an offset past the   *)
(* end of a regular file succeeds, and fread's size_t result is never < 0.*)
(***************************************************************************)
EXTENDS Naturals, Sequences, SequencesExt

MAX_SEGS            == 5    \* elf.c, scaled from 16
LIBEXEC_MAX_FORMATS == 16   \* libexec.h
SIZEOF_ELF_SEGMENT  == 32   \* sizeof(elf_segment_t): eight unsigned ints

LIBEXEC_FORMAT_OK      == "OK"
LIBEXEC_FORMAT_ERROR   == "ERROR"
LIBEXEC_FORMAT_UNKNOWN == "UNKNOWN"

ELF_CLASS_32        == 1    \* elf_header.h
ELF_CLASS_64        == 2
ELF_TYPE_REL        == 1
ELF_TYPE_EXEC       == 2
ELF_TYPE_DYN        == 3
ELF_VERSION_CURRENT == 1
ELF_SEGMENT_LOAD    == 1
ELF_SEGMENT_NOTE    == 4

(* A pointer result: NULL, or a program_t / memory_region_t array. *)
NULLPTR    == [ok |-> FALSE]
Ptr(regions) == [ok |-> TRUE, regions |-> regions]

(* elf_segment_t: the fields elf_regions reads. *)
ElfSegment(sizes) ==
    [type : {ELF_SEGMENT_LOAD, ELF_SEGMENT_NOTE}, file_size : sizes, memory_size : sizes]

(* A file as elf_read sees it: header_read and magic are the fread of     *)
(* elf_header_t and the four magic bytes; class, version and type the     *)
(* fields tested; prog_ent_size and the program headers (prog_ent_count   *)
(* is their number), and whether fseek/fread of that table succeed.       *)
ElfFile(sizes, maxSegs) ==
    [header_read : BOOLEAN, magic : BOOLEAN,
     class : {ELF_CLASS_32, ELF_CLASS_64}, version : {0, ELF_VERSION_CURRENT},
     type : {ELF_TYPE_REL, ELF_TYPE_EXEC, ELF_TYPE_DYN},
     prog_ent_size : {SIZEOF_ELF_SEGMENT, 0}, phdrs_read : BOOLEAN,
     segments : UNION {[1 .. n -> ElfSegment(sizes)] : n \in 0 .. maxSegs}]

(* elf_regions: the program header table must have entries of the size   *)
(* of elf_segment_t and fewer than MAX_SEGS of them, and be read whole;  *)
(* then every PT_LOAD segment, in order, becomes a region of its memory   *)
(* size (its file_size bytes read, the rest zeroed).                      *)
ElfRegions(f) ==
    IF \/ ~(f.prog_ent_size = SIZEOF_ELF_SEGMENT /\ Len(f.segments) < MAX_SEGS)
       \/ ~f.phdrs_read
    THEN NULLPTR
    ELSE LET load == SelectSeq(f.segments, LAMBDA s : s.type = ELF_SEGMENT_LOAD)
         IN Ptr([k \in DOMAIN load |-> load[k].memory_size])

(* elf_read: not this format unless the header is read, the magic        *)
(* matches and it is a current 32-bit executable; an error when the       *)
(* regions cannot be read; else the program's regions.                    *)
ElfRead(f) ==
    IF \/ ~f.header_read \/ ~f.magic
       \/ ~(f.class = ELF_CLASS_32 /\ f.version = ELF_VERSION_CURRENT /\ f.type = ELF_TYPE_EXEC)
    THEN [rc |-> LIBEXEC_FORMAT_UNKNOWN]
    ELSE IF ~ElfRegions(f).ok THEN [rc |-> LIBEXEC_FORMAT_ERROR]
    ELSE [rc |-> LIBEXEC_FORMAT_OK, regions |-> ElfRegions(f).regions]

(* libexec_add_format: append a handler while there is room. *)
LibexecAddFormat(formats, handler) ==
    IF Len(formats) < LIBEXEC_MAX_FORMATS THEN Append(formats, handler) ELSE formats

(* libexec_init: the table cleared and elf_read registered. *)
LibexecInit == LibexecAddFormat(<<>>, "elf_read")

(* The handler a formats[] entry names. *)
Handler(h, f) == CASE h = "elf_read" -> ElfRead(f)

(* The for loop of libexec_read from handler i on: the first handler that *)
(* recognises the file decides (its program, or NULL on an error);        *)
(* NULL when none does.                                                    *)
RECURSIVE TryFormats(_, _, _)
TryFormats(formats, i, f) ==
    IF i > Len(formats) THEN NULLPTR
    ELSE LET r == Handler(formats[i], f)
         IN CASE r.rc = LIBEXEC_FORMAT_OK      -> Ptr(r.regions)
              [] r.rc = LIBEXEC_FORMAT_ERROR   -> NULLPTR
              [] r.rc = LIBEXEC_FORMAT_UNKNOWN -> TryFormats(formats, i + 1, f)

(* libexec_read(path) for the file name in the directory root (a function *)
(* from names to files): NULL when fopen fails, else the result of the    *)
(* format handlers.                                                        *)
LibexecRead(formats, root, name) ==
    IF name \notin DOMAIN root THEN NULLPTR ELSE TryFormats(formats, 1, root[name])

=============================================================================
