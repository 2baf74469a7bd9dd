---------------------------- MODULE MCSmpConsole ----------------------------
EXTENDS SmpConsole

(* Four processors numbered as most firmware numbers them. *)
MCApicIds == <<0, 1, 2, 3>>
=============================================================================
