----------------------------- MODULE SmpConsole -----------------------------
(***************************************************************************)
(* SMP bring-up (Smp) with the console (Console): main.c:53 has every CPU  *)
(* print "CPU#%d: running" once it is up, the boot CPU after smp_boot_all *)
(* returns, an AP after its virt_memory_init; then proc_schedule runs, and *)
(* the serial server, once scheduled on a CPU, writes its own line to the *)
(* same UART while other CPUs may still be in printk.                     *)
(***************************************************************************)
EXTENDS Smp

CONSTANTS MSG_LEN, SRV_LEN

VARIABLES print_lock, pk, written, bytes, srv, srv_bytes, uart

C == INSTANCE Console WITH CPUs <- Hw

cvars == <<print_lock, pk, written, bytes, srv, srv_bytes, uart>>
allvars == <<vars, cvars>>

(* main.c: the boot CPU reaches line 53 after smp_boot_all, an AP after  *)
(* virt_memory_init.                                                      *)
AtPrintk(c) == IF c = 0 THEN bsp = "done" ELSE ap[c] = "running"

(* A CPU past its printk runs proc_schedule, which may pick the server. *)
Scheduling == \E c \in Hw : pk[c] = "done"

SmpConsoleInit == Init /\ C!ConsoleInit

(* CPU c's console steps. *)
CpuConsole(c) == (AtPrintk(c) /\ C!PrintkCall(c)) \/ C!Printk(c)

ServerStep == (Scheduling /\ C!SrvStart) \/ C!SrvWriteByte \/ C!SrvReturn

SmpConsoleNext ==
    \/ Next /\ UNCHANGED cvars
    \/ (\E c \in Hw : CpuConsole(c)) /\ UNCHANGED vars
    \/ ServerStep /\ UNCHANGED vars

(* Each CPU runs its own instructions: weak fairness per CPU.  The server *)
(* is only assumed to go on once it runs (whether it is scheduled at all  *)
(* is the ProcessTable module's question).                                *)
SmpConsoleFairness ==
    /\ Fairness
    /\ \A c \in Hw : WF_allvars(CpuConsole(c) /\ UNCHANGED vars)
    /\ WF_allvars((C!SrvWriteByte \/ C!SrvReturn) /\ UNCHANGED vars)

SmpConsoleSpec == SmpConsoleInit /\ [][SmpConsoleNext]_allvars /\ SmpConsoleFairness

(* The refinement mapping to AtomicConsole: a CPU in printk is busy, and  *)
(* the abstract log is what printk has sent so far, less the bytes of the  *)
(* CPU still writing (print_lock makes it the only one), which the        *)
(* abstract printk appends when the call returns.                          *)
Writing == {c \in Hw : pk[c] = "write"}
AbstractState ==
    [c \in Hw |-> IF pk[c] = "idle" THEN "idle" ELSE IF pk[c] = "done" THEN "done" ELSE "busy"]
AbstractLog == SelectSeq(C!KernelOutput, LAMBDA b : b[1] \notin Writing)

A == INSTANCE AtomicConsole WITH CPUs <- Hw, state <- AbstractState, klog <- AbstractLog

(* printk is atomic: each call puts a prefix of its own message on the    *)
(* UART in one piece, as if printed in one step when it returns, and every *)
(* call returns.                                                           *)
ImplementsAtomicPrintk == A!ASpec

ConsoleTypeOK == C!TypeOK

=============================================================================
