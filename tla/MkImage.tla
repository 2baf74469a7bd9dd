------------------------------- MODULE MkImage -------------------------------
(***************************************************************************)
(* src/bin/mkimage.c: the host tool that turns a boot configuration and   *)
(* a build root of executables into the boot image, composed from the     *)
(* configuration parser (LibConfig), the executable reader (LibExec) and  *)
(* the image writer (LibBoot).  mkimage runs one loop with no concurrency,*)
(* so it is an operator from its inputs to the image it writes.           *)
(***************************************************************************)
EXTENDS LibConfig, LibExec, LibBoot

(* One iteration of build_image's loop over the root's children: a       *)
(* program libexec_read cannot read is skipped; else the idle flag is set *)
(* when libconfig_find finds "root:<name>:isidle" (any value), the entry  *)
(* is added and then one segment per region, in order.                    *)
BuildStep(root, conf, formats, entries, child) ==
    LET prog == LibexecRead(formats, root, child.name)
        flags == IF LibconfigFind(conf, <<"root", child.name, "isidle">>) # NOVALUE
                 THEN {BOOTPROG_ISIDLE} ELSE {}
    IN IF ~prog.ok THEN entries
       ELSE FoldLeft(AddSeg, AddProg(entries, flags), prog.regions)

(* build_image: libexec_init, then the loop over the configured programs *)
(* in the order of the configuration; the entries for libboot_write.     *)
BuildImage(conf, root) ==
    LET formats == LibexecInit
    IN FoldLeft(LAMBDA es, child : BuildStep(root, conf, formats, es, child),
                <<>>, conf.childs)

(* main: libconfig_parse the configuration (EXIT_FAILURE, no image, when *)
(* it fails), then build_image over conf->root and libboot_write.          *)
MkimageMain(lines, root) ==
    LET conf == LibconfigParse(lines)
    IN IF ~conf.ok THEN [ok |-> FALSE]
       ELSE [ok |-> TRUE, image |-> LibbootWrite(BuildImage(conf.root, root))]

=============================================================================
