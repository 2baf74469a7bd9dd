----------------------------- MODULE RoundRobin -----------------------------
(***************************************************************************)
(* What the process table and scheduler promise on one CPU (spec.md 4.3   *)
(* and 8), with no locks, flags or context-switch steps: processes exist  *)
(* (avail) and may be ready; each schedule picks the next ready process   *)
(* after the cursor in cyclic order, other than the one running, and      *)
(* moves the cursor to it; with none it keeps a still-ready current      *)
(* process, else runs the idle process.  Destroying removes a process     *)
(* other than the running one.                                            *)
(***************************************************************************)
EXTENDS Naturals, FiniteSets

CONSTANTS PROC_MAX, NULL

Pids == 0 .. PROC_MAX - 1

VARIABLES avail, ready, current, cursor, idle

vars == <<avail, ready, current, cursor, idle>>

Init ==
    /\ avail = {} /\ ready = {}
    /\ current = NULL /\ cursor = 0 /\ idle = NULL

(* A new process: a ready program, or the idle program. *)
Create(p) ==
    /\ p \notin avail
    /\ avail' = avail \cup {p}
    /\ \/ ready' = ready \cup {p} /\ UNCHANGED idle
       \/ idle' = p /\ UNCHANGED ready
    /\ UNCHANGED <<current, cursor>>

(* Distance from the cursor going forward around the table. *)
Ahead(q) == (q + PROC_MAX - cursor) % PROC_MAX

Schedule ==
    LET cands == {q \in avail \cap ready : q # current /\ q # cursor}
    IN IF cands # {}
       THEN LET q == CHOOSE x \in cands : \A y \in cands : Ahead(x) <= Ahead(y)
            IN current' = q /\ cursor' = q /\ UNCHANGED <<avail, ready, idle>>
       ELSE /\ current' = IF current # NULL /\ current \in ready THEN current ELSE idle
            /\ UNCHANGED <<avail, ready, cursor, idle>>

Destroy(p) ==
    /\ p # current
    /\ avail' = avail \ {p} /\ ready' = ready \ {p}
    /\ UNCHANGED <<current, cursor, idle>>

Next == Schedule \/ \E p \in Pids : Create(p) \/ Destroy(p)

Spec == Init /\ [][Next]_vars /\ WF_vars(Schedule)

=============================================================================
