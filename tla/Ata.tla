-------------------------------- MODULE Ata --------------------------------
(***************************************************************************)
(* The disk driver (kernel/drivers/ata.c): the exclusion gate, the wait    *)
(* for the drive's interrupt, and the sector read and write built on them. *)
(* While the kernel boots there is no process: Boot is its thread, and it  *)
(* polls the drive instead of sleeping.                                    *)
(*                                                                         *)
(* A thread's step ends where another thread or the interrupt can come in; *)
(* a cli/sti section is one step.  Threads run with interrupts on, so a    *)
(* raised interrupt line is served before any further step of a thread.    *)
(***************************************************************************)
EXTENDS Integers, Sequences, Functions

CONSTANTS
    Procs,  \* slots of process_table that use the disk
    Boot,   \* kmain's thread, before the scheduler runs
    NoProc, \* the null pointer
    Lbas,   \* sectors
    PROCESS_MAX \* places of g_gate_waiters

ASSUME AtaConstants ==
    PROCESS_MAX \in Nat /\ Boot \notin Procs /\ NoProc \notin Procs \cup {Boot}

Threads == Procs \cup {Boot}

VARIABLES
    booting,                 \* process_current() is still NULL
    state,                   \* process_table[p].state
    pc, kind, lba,           \* where a thread stands ("ok": its last call
                             \* returned 0), its command and sector
    g_ata_busy, g_gate_waiters,
    g_irq_fired, g_irq_waiter,
    drive, cmd,              \* the drive's status and the command it works on
    irq,                     \* its interrupt line
    disk,                    \* disk[l]: who wrote sector l last
    orphaned,                \* history: the holder of the gate was killed
    left_out                 \* history: who blocked at the gate when the array
                             \* of waiters was full of others

thread == <<pc, kind, lba>>
gate == <<g_ata_busy, g_gate_waiters, orphaned, left_out>>
flag == <<g_irq_fired, g_irq_waiter>>
device == <<drive, cmd, irq, disk>>
vars == <<booting, state, thread, gate, flag, device>>

\* After ata_init: a drive is present and its interrupt is unmasked.
Init ==
    /\ booting = TRUE
    /\ state = [p \in Procs |-> "UNUSED"]
    /\ pc = [t \in Threads |-> "idle"]
    /\ kind = [t \in Threads |-> "none"]
    /\ lba = [t \in Threads |-> NoProc]
    /\ g_ata_busy = FALSE /\ g_gate_waiters = <<>> /\ orphaned = FALSE /\ left_out = {}
    /\ g_irq_fired = FALSE /\ g_irq_waiter = NoProc
    /\ drive = "idle" /\ cmd = [kind |-> "none", lba |-> NoProc, by |-> NoProc]
    /\ irq = FALSE
    /\ disk = [l \in Lbas |-> NoProc]

\* Thread t may take a step at the given place.
At(t, where) ==
    /\ ~irq
    /\ pc[t] = where
    /\ IF t = Boot THEN booting ELSE state[t] = "READY"

\* Thread t is between ata_gate_acquire and ata_gate_release.
Inside(t) == pc[t] \notin {"idle", "ok", "gate"}

Goto(t, where) == pc' = [pc EXCEPT ![t] = where]

-----------------------------------------------------------------------------
(* The gate.                                                               *)

\* Mutant of GateAcquire: the flag is tested before the cli and set after it.
GateAcquireOpen(t) ==
    /\ At(t, "gate")
    /\ g_ata_busy' = TRUE
    /\ Goto(t, "command")
    /\ UNCHANGED <<booting, state, kind, lba, g_gate_waiters, orphaned, left_out, flag, device>>

\* ata_gate_acquire: the gate is free.
GateAcquire(t) ==
    /\ At(t, "gate")
    /\ ~g_ata_busy
    /\ g_ata_busy' = TRUE
    /\ Goto(t, "command")
    /\ UNCHANGED <<booting, state, kind, lba, g_gate_waiters, orphaned, left_out, flag, device>>

\* Mutant of GateBlock: the waiter blocks without being registered.
GateBlockUnregistered(p) ==
    /\ At(p, "gate")
    /\ g_ata_busy
    /\ state' = [state EXCEPT ![p] = "BLOCKED"]
    /\ UNCHANGED <<booting, thread, gate, flag, device>>

\* It is taken: register (the array has one place per slot) and block; the loop
\* tests again after the wakeup.
GateBlock(p) ==
    /\ At(p, "gate")
    /\ g_ata_busy
    /\ g_gate_waiters' = IF Len(g_gate_waiters) < PROCESS_MAX
                         THEN Append(g_gate_waiters, p) ELSE g_gate_waiters
    /\ left_out' = IF p \in Range(g_gate_waiters') THEN left_out \ {p} ELSE left_out \cup {p}
    /\ state' = [state EXCEPT ![p] = "BLOCKED"]
    /\ UNCHANGED <<booting, thread, g_ata_busy, orphaned, flag, device>>

\* ata_gate_release, and the call returns: r is "ok" for 0 and "idle" for -1.
Release(t, r) ==
    /\ g_ata_busy' = FALSE
    /\ state' = [p \in Procs |->
                    IF p \in Range(g_gate_waiters) /\ state[p] = "BLOCKED"
                    THEN "READY" ELSE state[p]]
    /\ g_gate_waiters' = <<>>
    /\ UNCHANGED <<orphaned, left_out>>
    /\ Goto(t, r)
    /\ kind' = [kind EXCEPT ![t] = "none"]
    /\ lba' = [lba EXCEPT ![t] = NoProc]

-----------------------------------------------------------------------------
(* Commands.                                                               *)

\* ata_read_sector or ata_write_sector is called.
Call(t, k, l) ==
    /\ \E rest \in {"idle", "ok"} : At(t, rest)
    /\ kind' = [kind EXCEPT ![t] = k]
    /\ lba' = [lba EXCEPT ![t] = l]
    /\ Goto(t, "gate")
    /\ UNCHANGED <<booting, state, gate, flag, device>>

\* outb(REG_CMD, ...).
Send(t, k) ==
    /\ cmd' = [kind |-> k, lba |-> lba[t], by |-> t]
    /\ drive' = "busy"
    /\ UNCHANGED <<irq, disk>>

\* wait_not_busy and the command register: READ or WRITE.
Command(t) ==
    /\ At(t, "command")
    /\ drive # "busy"
    /\ Send(t, kind[t])
    /\ Goto(t, "reset")
    /\ UNCHANGED <<booting, state, kind, lba, gate, flag>>

\* Mutant of ResetFlag: the flag keeps what an earlier command left in it.
ResetFlagNot(t) ==
    /\ At(t, "reset")
    /\ Goto(t, IF kind[t] = "write" THEN "drq" ELSE "wait")
    /\ UNCHANGED <<booting, state, kind, lba, gate, flag, device>>

\* g_irq_fired = 0, after the command has been issued.
ResetFlag(t) ==
    /\ At(t, "reset")
    /\ g_irq_fired' = FALSE
    /\ Goto(t, IF kind[t] = "write" THEN "drq" ELSE "wait")
    /\ UNCHANGED <<booting, state, kind, lba, gate, g_irq_waiter, device>>

\* WRITE polls for DRQ and sends the data; completion will be interrupt-driven.
SendData(t) ==
    /\ At(t, "drq")
    /\ drive = "drq"
    /\ kind' = [kind EXCEPT ![t] = "data"]
    /\ Send(t, "data")
    /\ Goto(t, "wait")
    /\ UNCHANGED <<booting, state, lba, gate, flag>>

\* Mutant of NoDrq: the error path forgets the gate.
NoDrqKeepsGate(t) ==
    /\ At(t, "drq")
    /\ drive = "err"
    /\ Goto(t, "idle")
    /\ UNCHANGED <<booting, state, kind, lba, gate, flag, device>>

\* The drive refuses the WRITE: ERR instead of DRQ.
NoDrq(t) ==
    /\ At(t, "drq")
    /\ drive = "err"
    /\ Release(t, "idle")
    /\ UNCHANGED <<booting, flag, device>>

\* ata_wait_irq: the interrupt has come already.
WaitFired(p) ==
    /\ At(p, "wait")
    /\ p # Boot
    /\ g_irq_fired
    /\ g_irq_fired' = FALSE
    /\ Goto(p, "check")
    /\ UNCHANGED <<booting, state, kind, lba, gate, g_irq_waiter, device>>

\* It has not: register and block, in the same section.
WaitBlock(p) ==
    /\ At(p, "wait")
    /\ p # Boot
    /\ ~g_irq_fired
    /\ g_irq_waiter' = p
    /\ state' = [state EXCEPT ![p] = "BLOCKED"]
    /\ Goto(p, "woken")
    /\ UNCHANGED <<booting, kind, lba, gate, g_irq_fired, device>>

\* Back from scheduler_block_current: consume the flag.
WaitResume(p) ==
    /\ At(p, "woken")
    /\ g_irq_fired' = FALSE
    /\ Goto(p, "check")
    /\ UNCHANGED <<booting, state, kind, lba, gate, g_irq_waiter, device>>

\* Without a process: poll until the drive is not busy.
Poll ==
    /\ At(Boot, "wait")
    /\ drive # "busy"
    /\ Goto(Boot, "check")
    /\ UNCHANGED <<booting, state, kind, lba, gate, flag, device>>

\* A polling loop gives up on a drive that stays busy; for the flush this counts
\* as done.
Timeout(t) ==
    /\ At(t, "command") \/ At(t, "drq") \/ (t = Boot /\ At(t, "wait"))
    /\ drive = "busy"
    /\ Release(t, IF kind[t] = "flush" THEN "ok" ELSE "idle")
    /\ UNCHANGED <<booting, flag, device>>

\* READ: DRQ without ERR, the sector is copied out.
ReadDone(t) ==
    /\ At(t, "check")
    /\ kind[t] = "read"
    /\ drive = "drq"
    /\ drive' = "idle"
    /\ Release(t, "ok")
    /\ UNCHANGED <<booting, flag, cmd, irq, disk>>

\* READ: no DRQ, or ERR.
ReadError(t) ==
    /\ At(t, "check")
    /\ kind[t] = "read"
    /\ drive # "drq"
    /\ Release(t, "idle")
    /\ UNCHANGED <<booting, flag, device>>

\* WRITE: the data is on the disk; FLUSH follows.
WriteFlush(t) ==
    /\ At(t, "check")
    /\ kind[t] = "data"
    /\ drive # "err"
    /\ kind' = [kind EXCEPT ![t] = "flush"]
    /\ Send(t, "flush")
    /\ Goto(t, "reset")
    /\ UNCHANGED <<booting, state, lba, gate, flag>>

WriteError(t) ==
    /\ At(t, "check")
    /\ kind[t] = "data"
    /\ drive = "err"
    /\ Release(t, "idle")
    /\ UNCHANGED <<booting, flag, device>>

\* The flush is best effort: its outcome is not looked at.
WriteDone(t) ==
    /\ At(t, "check")
    /\ kind[t] = "flush"
    /\ Release(t, "ok")
    /\ UNCHANGED <<booting, flag, device>>

\* What a thread inside a call does next.
InCall(t) ==
    \/ GateAcquire(t) \/ (t # Boot /\ GateBlock(t))
    \/ Command(t) \/ ResetFlag(t) \/ SendData(t) \/ NoDrq(t)
    \/ WaitFired(t) \/ WaitBlock(t) \/ WaitResume(t) \/ (t = Boot /\ Poll) \/ Timeout(t)
    \/ ReadDone(t) \/ ReadError(t) \/ WriteFlush(t) \/ WriteError(t) \/ WriteDone(t)

-----------------------------------------------------------------------------
(* The drive (external) and its interrupt.                                 *)

\* The command ends; a WRITE that is ready for its data raises no interrupt.
DriveDone(ok) ==
    /\ drive = "busy"
    /\ drive' = IF ~ok THEN "err"
                ELSE IF cmd.kind \in {"read", "write"} THEN "drq" ELSE "idle"
    /\ irq' = ~(ok /\ cmd.kind = "write")
    /\ disk' = IF ok /\ cmd.kind = "data" THEN [disk EXCEPT ![cmd.lba] = cmd.by]
               ELSE disk
    /\ UNCHANGED <<booting, state, thread, gate, flag, cmd>>

\* ata_irq_handler.
Irq ==
    /\ irq
    /\ irq' = FALSE
    /\ g_irq_fired' = TRUE
    /\ state' = [p \in Procs |-> IF p = g_irq_waiter /\ state[p] = "BLOCKED"
                                 THEN "READY" ELSE state[p]]
    /\ g_irq_waiter' = NoProc
    /\ UNCHANGED <<booting, thread, gate, drive, cmd, disk>>

-----------------------------------------------------------------------------
(* The processes around the driver.                                        *)

\* kmain enters the scheduler loop.
BootDone ==
    /\ \E rest \in {"idle", "ok"} : At(Boot, rest)
    /\ booting' = FALSE
    /\ UNCHANGED <<state, thread, gate, flag, device>>

\* A slot gets a new process.
Spawn(p) ==
    /\ ~booting /\ ~irq
    /\ state[p] = "UNUSED"
    /\ state' = [state EXCEPT ![p] = "READY"]
    /\ UNCHANGED <<booting, thread, gate, flag, device>>

\* sys_kill by another process, wherever the victim stands: its thread is gone.
Kill(q, p) ==
    /\ \E rest \in {"idle", "ok"} : At(q, rest)
    /\ q # p
    /\ state[p] # "UNUSED"
    /\ state' = [state EXCEPT ![p] = "UNUSED"]
    /\ Goto(p, "idle")
    /\ kind' = [kind EXCEPT ![p] = "none"]
    /\ lba' = [lba EXCEPT ![p] = NoProc]
    /\ orphaned' = (orphaned \/ Inside(p))
    /\ left_out' = left_out \ {p}
    /\ UNCHANGED <<booting, g_ata_busy, g_gate_waiters, flag, device>>

Next ==
    \/ \E t \in Threads :
          InCall(t) \/ \E k \in {"read", "write"}, l \in Lbas : Call(t, k, l)
    \/ \E ok \in BOOLEAN : DriveDone(ok)
    \/ Irq \/ BootDone
    \/ \E p \in Procs : Spawn(p) \/ \E q \in Procs : Kill(q, p)

Spec == Init /\ [][Next]_vars

\* The drive ends its commands, interrupts are served, READY processes run.
FairSpec ==
    /\ Spec
    /\ WF_vars(\E ok \in BOOLEAN : DriveDone(ok)) /\ WF_vars(Irq)
    /\ \A t \in Threads : WF_vars(InCall(t))

-----------------------------------------------------------------------------
\* Type invariant.
TypeOK ==
    /\ booting \in BOOLEAN /\ g_ata_busy \in BOOLEAN /\ g_irq_fired \in BOOLEAN
    /\ irq \in BOOLEAN /\ orphaned \in BOOLEAN
    /\ state \in [Procs -> {"UNUSED", "READY", "BLOCKED"}]
    /\ pc \in [Threads -> {"idle", "gate", "command", "reset", "drq", "wait",
                           "woken", "check", "ok"}]
    /\ kind \in [Threads -> {"none", "read", "write", "data", "flush"}]
    /\ lba \in [Threads -> Lbas \cup {NoProc}]
    /\ g_gate_waiters \in Seq(Procs) /\ Len(g_gate_waiters) <= PROCESS_MAX
    /\ left_out \subseteq Procs
    /\ g_irq_waiter \in Procs \cup {NoProc}
    /\ drive \in {"idle", "busy", "drq", "err"}
    /\ disk \in [Lbas -> Threads \cup {NoProc}]

\* The comment on g_irq_fired: no leftover of an earlier command, polled or not,
\* is mistaken for the completion of the one just issued.
NoStaleCompletion ==
    \A t \in Threads : pc[t] = "check" => drive # "busy" /\ cmd.by = t

\* ata_read_sector returns 0 only with the sector it was asked for, whoever else
\* uses the disk.
ReadReturnsSector ==
    [][\A t \in Threads : kind[t] = "read" /\ pc'[t] = "ok" =>
          cmd.kind = "read" /\ cmd.by = t /\ cmd.lba = lba[t]]_vars

\* ata_write_sector returns 0 only when its data is on the disk.
WriteLands ==
    [][\A t \in Threads : kind[t] = "flush" /\ pc'[t] = "ok" => disk[lba[t]] = t]_vars

\* A process blocked at the gate of ata_gate_acquire is registered with it, and
\* the gate is still taken, so the release will wake it; only one that found the
\* array full of entries that killed waiters had left is not.
GateWakeup ==
    \A p \in Procs : state[p] = "BLOCKED" /\ pc[p] = "gate" =>
        \/ g_ata_busy /\ p \in Range(g_gate_waiters)
        \/ p \in left_out /\ p \notin Range(g_gate_waiters)

\* The gate is stuck: its holder was killed, or sleeps and no interrupt will come.
Stuck ==
    \/ orphaned
    \/ \E p \in Procs : state[p] = "BLOCKED" /\ pc[p] = "woken" /\ drive # "busy" /\ ~irq

\* Every path of ata_read_sector and ata_write_sector gives the gate back, unless
\* it is stuck.
GateComesFree == g_ata_busy ~> ~g_ata_busy \/ Stuck
=============================================================================
