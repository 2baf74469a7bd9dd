---------------------------- MODULE MCPhysMemory ----------------------------
(* Model-checking instances of PhysMemory, with addresses in units where *)
(* a page is 2 bytes.                                                      *)
EXTENDS PhysMemory

\* DIR_SIZE/TAB_SIZE (one page) and STACK_SIZE (here two pages)
MCSizes == {2, 4}

=============================================================================
