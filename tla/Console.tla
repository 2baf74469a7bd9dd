------------------------------- MODULE Console -------------------------------
(***************************************************************************)
(* The first serial UART as the kernel console of src/system/printk.c and *)
(* the serial server of src/server/serial/main.c use it.  Both write one  *)
(* byte per outb while the line status register says TXREADY, and give up *)
(* when it does not.  printk holds print_lock (spinlock.c) from before it *)
(* formats the message until it returns; the server, a user process       *)
(* writing through API_IO_READ/API_IO_WRITE, takes no lock.               *)
(*                                                                         *)
(* A message is its length: byte j of the message of writer w is <<w, j>>.*)
(* Whether TXREADY is set at an inb is up to the UART (it is clear while  *)
(* the transmit holding register is full), so every inb may see either.  *)
(***************************************************************************)
EXTENDS Naturals, Sequences, SequencesExt

CONSTANTS
    CPUs,       \* the CPUs that reach main.c's "CPU#%d: running" printk
    MSG_LEN,    \* the length vsnprintf returns for that message
    SRV_LEN     \* strlen of the serial server's "serial: running" line

ASSUME MSG_LEN \in Nat \ {0} /\ SRV_LEN \in Nat \ {0}

SERVER == -1            \* writer id of the serial server's bytes
SPINLOCK_LOCKED   == 1  \* spinlock.h
SPINLOCK_UNLOCKED == 0

VARIABLES
    print_lock, \* print_lock.state
    pk,         \* per CPU: "idle", "enter" (spinning), "write", "done"
    written,    \* printk's written
    bytes,      \* serial_write's bytes, for the call in progress
    srv,        \* the serial server: "off", "write", "done"
    srv_bytes,  \* its serial_write's bytes
    uart        \* the bytes sent to UART0, in order

cvars == <<print_lock, pk, written, bytes, srv, srv_bytes, uart>>

Byte == (CPUs \X (1 .. MSG_LEN)) \cup ({SERVER} \X (1 .. SRV_LEN))

TypeOK ==
    /\ print_lock \in {SPINLOCK_LOCKED, SPINLOCK_UNLOCKED}
    /\ pk \in [CPUs -> {"idle", "enter", "write", "done"}]
    /\ written \in [CPUs -> 0 .. MSG_LEN]
    /\ bytes \in [CPUs -> 0 .. MSG_LEN]
    /\ srv \in {"off", "write", "done"}
    /\ srv_bytes \in 0 .. SRV_LEN
    /\ uart \in Seq(Byte)

(* print_lock is zero in bss, and spinlock_init at main.c:35 runs before  *)
(* any other CPU is started.                                              *)
ConsoleInit ==
    /\ print_lock = SPINLOCK_UNLOCKED
    /\ pk = [c \in CPUs |-> "idle"]
    /\ written = [c \in CPUs |-> 0]
    /\ bytes = [c \in CPUs |-> 0]
    /\ srv = "off"
    /\ srv_bytes = 0
    /\ uart = <<>>

(* outb(UART0, byte): the byte goes out on the serial line. *)
Outb(b) == uart' = Append(uart, b)

-----------------------------------------------------------------------------
(* main.c:53 calls printk. *)
PrintkCall(c) ==
    /\ pk[c] = "idle"
    /\ pk' = [pk EXCEPT ![c] = "enter"]
    /\ UNCHANGED <<print_lock, written, bytes, srv, srv_bytes, uart>>

(* spinlock_enter: lock cmpxchg succeeds only on an unlocked word; a      *)
(* failed one loops back (jne 1b), which changes nothing.  Then           *)
(* vsnprintf fills buf and the write loop starts with written = 0.        *)
SpinlockEnter(c) ==
    /\ pk[c] = "enter"
    /\ print_lock = SPINLOCK_UNLOCKED
    /\ print_lock' = SPINLOCK_LOCKED
    /\ pk' = [pk EXCEPT ![c] = "write"]
    /\ written' = [written EXCEPT ![c] = 0]
    /\ bytes' = [bytes EXCEPT ![c] = 0]
    /\ UNCHANGED <<srv, srv_bytes, uart>>

(* Fault variant of SerialWriteByte: buf[bytes], the offset written left  *)
(* out, so a second serial_write call sends the message from its start.   *)
SerialWriteByteNoOffset(c) ==
    /\ pk[c] = "write"
    /\ bytes[c] < MSG_LEN - written[c]
    /\ Outb(<<c, bytes[c] + 1>>)
    /\ bytes' = [bytes EXCEPT ![c] = @ + 1]
    /\ UNCHANGED <<print_lock, pk, written, srv, srv_bytes>>

(* serial_write's loop body, TXREADY having been read set and fewer than *)
(* count = size - written bytes written by this call: outb of            *)
(* buf[written + bytes].                                                  *)
SerialWriteByte(c) ==
    /\ pk[c] = "write"
    /\ bytes[c] < MSG_LEN - written[c]
    /\ Outb(<<c, written[c] + bytes[c] + 1>>)
    /\ bytes' = [bytes EXCEPT ![c] = @ + 1]
    /\ UNCHANGED <<print_lock, pk, written, srv, srv_bytes>>

(* serial_write returns bytes, TXREADY having been read clear or count   *)
(* reached, and printk's switch: 0 leaves print_lock and returns with the *)
(* rest of the message dropped; else written += e, and the while loop    *)
(* either calls serial_write again or, the message written, leaves        *)
(* print_lock and returns.                                                *)
SerialWriteReturn(c) ==
    LET e == bytes[c]
        w == written[c] + e
    IN /\ pk[c] = "write"
       /\ written' = [written EXCEPT ![c] = w]
       /\ bytes' = [bytes EXCEPT ![c] = 0]
       /\ pk' = [pk EXCEPT ![c] = IF e # 0 /\ w < MSG_LEN THEN "write" ELSE "done"]
       /\ print_lock' = IF e # 0 /\ w < MSG_LEN THEN print_lock ELSE SPINLOCK_UNLOCKED
       /\ UNCHANGED <<srv, srv_bytes, uart>>

(* The steps of printk on CPU c after the call. *)
Printk(c) == SpinlockEnter(c) \/ SerialWriteByte(c) \/ SerialWriteReturn(c)

-----------------------------------------------------------------------------
(* The serial server's main is scheduled: snprintf, then serial_write. *)
SrvStart ==
    /\ srv = "off"
    /\ srv' = "write"
    /\ UNCHANGED <<print_lock, pk, written, bytes, srv_bytes, uart>>

(* Its serial_write loop body: API_IO_READ saw TXREADY, API_IO_WRITE     *)
(* sends buf[bytes].                                                      *)
SrvWriteByte ==
    /\ srv = "write" /\ srv_bytes < SRV_LEN
    /\ Outb(<<SERVER, srv_bytes + 1>>)
    /\ srv_bytes' = srv_bytes + 1
    /\ UNCHANGED <<print_lock, pk, written, bytes, srv>>

(* Its serial_write returns (TXREADY clear or the line written) and the   *)
(* result is ignored; api_proc_destroy(0) and api_proc_idle follow, which *)
(* the ProcessTable module models.                                        *)
SrvReturn ==
    /\ srv = "write"
    /\ srv' = "done"
    /\ UNCHANGED <<print_lock, pk, written, bytes, srv_bytes, uart>>

-----------------------------------------------------------------------------
(* The UART's bytes that printk sent. *)
KernelOutput == SelectSeq(uart, LAMBDA b : b[1] # SERVER)

=============================================================================
