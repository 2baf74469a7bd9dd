---------------------------- MODULE MCVirtMemory ----------------------------
(* Instances of VirtMemory for TLC: segment start pages as tuples, which a *)
(* configuration file cannot write.                                       *)
EXTENDS VirtMemory

\* segments above 4 MB, in the program region
MCHighSegs == {<<USER, 0>>, <<USER, 4>>}

\* one segment start, for the runs that need no variety of images
MCOneSeg == {<<USER, 0>>}

\* a segment below 4 MB, where FreeNOS's own programs are not linked but a
\* boot image may place one
MCLowSegs == {<<LOW, 2>>}

=============================================================================
