---------------------------- MODULE AtomicConsole ----------------------------
(***************************************************************************)
(* What printk promises its callers on a multiprocessor: a call prints    *)
(* some prefix of its message (all of it, or less when the UART is busy)  *)
(* in one indivisible step, and every call returns.  Console.tla, with    *)
(* its lock, its byte-by-byte serial_write and its early return, is       *)
(* shown to implement this in SmpConsole.                                  *)
(***************************************************************************)
EXTENDS Naturals, Sequences

CONSTANTS CPUs, MSG_LEN

VARIABLES
    state,  \* per CPU: "idle", "busy" (inside printk), "done"
    klog    \* the bytes printk has sent, message after message

avars == <<state, klog>>

(* The first n bytes of CPU c's message. *)
Prefix(c, n) == [j \in 1 .. n |-> <<c, j>>]

AInit ==
    /\ state = [c \in CPUs |-> "idle"]
    /\ klog = <<>>

Call(c) ==
    /\ state[c] = "idle"
    /\ state' = [state EXCEPT ![c] = "busy"]
    /\ UNCHANGED klog

(* The whole of a printk's output, appended at once. *)
PrintOut(c) ==
    /\ state[c] = "busy"
    /\ \E n \in 0 .. MSG_LEN : klog' = klog \o Prefix(c, n)
    /\ state' = [state EXCEPT ![c] = "done"]

ANext == \E c \in CPUs : Call(c) \/ PrintOut(c)

ASpec == AInit /\ [][ANext]_avars /\ \A c \in CPUs : WF_avars(PrintOut(c))

=============================================================================
