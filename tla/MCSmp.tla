------------------------------- MODULE MCSmp -------------------------------
EXTENDS Smp

(* Two processors whose APIC ids are not contiguous, as on machines with  *)
(* hyper-threading disabled or a socket left empty.                        *)
MCSparseIds == <<0, 2>>
=============================================================================
