--------------------------- MODULE MCProcessTable ---------------------------
(* Model-checking instances of ProcessTable.  Each instance is a boot     *)
(* configuration file and a build root as mkimage reads them, and the     *)
(* programs the configuration is meant to describe, in its order, with   *)
(* the idle key and the sizes of the loadable regions; an idle program is *)
(* loaded once per CPU.  Region sizes differ within a program so that a   *)
(* segment read from the wrong place is told apart.                        *)
EXTENDS ProcessTable

Idle(regions) == [isidle |-> TRUE, regions |-> regions]
Prog(regions) == [isidle |-> FALSE, regions |-> regions]

(* A current 32-bit ELF executable with the given program headers. *)
Elf(segs) ==
    [header_read |-> TRUE, magic |-> TRUE, class |-> ELF_CLASS_32,
     version |-> ELF_VERSION_CURRENT, type |-> ELF_TYPE_EXEC,
     prog_ent_size |-> SIZEOF_ELF_SEGMENT, phdrs_read |-> TRUE, segments |-> segs]
Load(size) == [type |-> ELF_SEGMENT_LOAD, file_size |-> size, memory_size |-> size]
Note == [type |-> ELF_SEGMENT_NOTE, file_size |-> 1, memory_size |-> 1]
\* a text file: no ELF magic
Text == [Elf(<<>>) EXCEPT !.magic = FALSE]

\* one idle program and two ordinary ones: as many programs as two CPUs;
\* the first ordinary one holds more than half of the segments
MCBootImage2 == <<Idle(<<1>>), Prog(<<2, 3, 1>>), Prog(<<2>>)>>

\* its configuration: a comment and a blank line, a program whose file is
\* not an executable, an isidle key one level too deep, and an executable
\* with MAX_SEGS program headers, which elf_regions refuses
MCConfig2 ==
    <<Comment, Name("idle"), Open, Name("isidle"), Pair("cmd", "idle"), Close,
      Blank, Name("readme"), Open, Pair("cmd", "readme"), Close,
      Name("init"), Open, Pair("cmd", "init"),
        Name("env"), Open, Name("isidle"), Close, Close,
      Name("shell"), Open, Pair("cmd", "shell"), Close,
      Name("big"), Open, Pair("cmd", "big"), Close>>
MCRoot2 ==
    ("idle" :> Elf(<<Load(1)>>)) @@ ("readme" :> Text)
    @@ ("init" :> Elf(<<Load(2), Note, Load(3), Load(1)>>))
    @@ ("shell" :> Elf(<<Note, Load(2)>>))
    @@ ("big" :> Elf([k \in 1 .. MAX_SEGS |-> Load(1)]))

\* one idle program and three ordinary ones
MCBootImage3 == <<Idle(<<1>>), Prog(<<2, 1>>), Prog(<<3>>), Prog(<<1, 2>>)>>

\* its configuration: a program missing from the build root, a 64-bit
\* executable, isidle given a value, and a subtree opened twice
MCConfig3 ==
    <<Name("gone"), Open, Pair("cmd", "gone"), Close,
      Name("idle"), Open, Pair("cmd", "idle"), Pair("isidle", "yes"), Close,
      Name("a"), Open, Pair("cmd", "a"), Close, Open, Pair("args", "x"), Close,
      Name("wide"), Open, Pair("cmd", "wide"), Close,
      Name("b"), Open, Pair("cmd", "b"), Close,
      Name("c"), Open, Pair("cmd", "c"), Close>>
MCRoot3 ==
    ("idle" :> Elf(<<Load(1)>>)) @@ ("a" :> Elf(<<Load(2), Load(1)>>))
    @@ ("wide" :> [Elf(<<Load(2)>>) EXCEPT !.class = ELF_CLASS_64])
    @@ ("b" :> Elf(<<Load(3)>>)) @@ ("c" :> Elf(<<Load(1), Note, Load(2)>>))

=============================================================================
