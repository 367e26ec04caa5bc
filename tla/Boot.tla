-------------------------------- MODULE Boot --------------------------------
(***************************************************************************)
(* The boot decision of kmain (kernel/main.c), the configuration sector    *)
(* (kernel/bootcfg.c), the crash path (kernel/idt.c, kernel/crashdump.c)   *)
(* and the ways out of Safe Mode (kernel/safemode.c), over any number of   *)
(* boots.  The disk keeps one sector; everything else is lost at a reset.  *)
(* The machine may lose power, hang or fault at every step, a read or a    *)
(* write of the sector may fail, and a write that reports an error may or  *)
(* may not have landed.  A sector write is atomic, as bootcfg.h relies on. *)
(***************************************************************************)
EXTENDS Naturals

CONSTANTS
    BOOTCFG_FAIL_THRESHOLD,
    Crashes,    \* what a crash record may describe: vector, eip, ...
    NoCrash

ASSUME BootConstants ==
    /\ BOOTCFG_FAIL_THRESHOLD \in Nat \ {0}
    /\ NoCrash \notin Crashes

VARIABLES
    disk,        \* the configuration sector
    g_cfg,       \* its copy in memory
    g_available,
    pc,          \* where the kernel is
    g_reason,    \* why Safe Mode was entered
    tried,       \* counted boots since one was last recorded as complete
    unseen,      \* the crash on record that nobody has acknowledged yet
    seen         \* the acknowledged crash that no complete boot followed yet

vars == <<disk, g_cfg, g_available, pc, g_reason, tried, unseen, seen>>

\* A sector: whether it starts with the magic line, boot_fail_count,
\* crash_pending and the other crash_* keys (an absent number reads as 0).
Sectors == [magic : {"v1", "none"}, fails : 0 .. BOOTCFG_FAIL_THRESHOLD,
            pending : 0 .. 2, record : Crashes \cup {NoCrash}]

\* cfg_reset: the magic line and no key.
Empty == [magic |-> "v1", fails |-> 0, pending |-> 0, record |-> NoCrash]

\* boot_fail_count set and the other keys kept.
WithFails(cfg, n) ==
    [magic |-> cfg.magic, fails |-> n, pending |-> cfg.pending, record |-> cfg.record]

\* The crash_* keys set (or, for NoCrash, removed) and the others kept.
WithRecord(cfg, state, crash) ==
    [magic |-> cfg.magic, fails |-> cfg.fails, pending |-> state, record |-> crash]

\* A disk formatted by tools/ that no kernel has booted from yet.
Blank == [magic |-> "none", fails |-> 0, pending |-> 0, record |-> NoCrash]

Init ==
    /\ disk = Blank
    /\ g_cfg = Empty
    /\ g_available = FALSE
    /\ pc = "early"
    /\ g_reason = "none"
    /\ tried = 0
    /\ unseen = NoCrash
    /\ seen = NoCrash

\* What a valid sector says; one without the magic line is an empty config.
Config(sector) == IF sector.magic = "v1" THEN sector ELSE Empty

-----------------------------------------------------------------------------
(* kmain.                                                                  *)

\* Mutant of BootRead: the sector is not copied into the store.
BootReadNoCopy(ok) ==
    /\ pc = "early"
    /\ g_available' = ok
    /\ g_cfg' = Empty
    /\ pc' = "decide"
    /\ UNCHANGED <<disk, g_reason, tried, unseen, seen>>

\* ata_init and bootcfg_read: no disk, a foreign layout or a read error leave
\* the store unavailable and empty.
BootRead(ok) ==
    /\ pc = "early"
    /\ g_available' = ok
    /\ g_cfg' = IF ok THEN Config(disk) ELSE Empty
    /\ pc' = "decide"
    /\ UNCHANGED <<disk, g_reason, tried, unseen, seen>>

\* The crash record or the counter sends this boot to Safe Mode.
\* Mutants: a threshold that is one too high; the crash is not looked at.
TroubledLate == g_cfg.pending = 1 \/ g_cfg.fails > BOOTCFG_FAIL_THRESHOLD
TroubledByCountOnly == g_cfg.fails >= BOOTCFG_FAIL_THRESHOLD
Troubled == g_cfg.pending = 1 \/ g_cfg.fails >= BOOTCFG_FAIL_THRESHOLD

\* requested: the safemode word on the kernel's command line.
Decide(requested) ==
    /\ pc = "decide"
    /\ IF g_available /\ (Troubled \/ requested)
       THEN /\ pc' = "safe"
            /\ g_reason' = IF g_cfg.pending = 1 THEN "CRASH"
                           ELSE IF requested THEN "REQUESTED" ELSE "FAIL_COUNT"
            /\ UNCHANGED g_cfg
       ELSE /\ pc' = IF g_available THEN "count" ELSE "booting"
            /\ g_cfg' = IF g_available THEN WithFails(g_cfg, g_cfg.fails + 1) ELSE g_cfg
            /\ UNCHANGED g_reason
    /\ UNCHANGED <<disk, g_available, tried, unseen, seen>>

\* bootcfg_write before the rest of the boot; its result is ignored.
CountWrite(landed) ==
    /\ pc = "count"
    /\ disk' = IF landed THEN g_cfg ELSE disk
    /\ tried' = IF landed THEN tried + 1 ELSE tried
    /\ pc' = "booting"
    /\ UNCHANGED <<g_cfg, g_available, g_reason, unseen, seen>>

-----------------------------------------------------------------------------
(* sys_read: the first keyboard read completes the boot.                   *)

\* crash_record_clear_if_acknowledged.
ClearIfAcknowledged(cfg) ==
    IF cfg.pending = 2 THEN WithRecord(cfg, 0, NoCrash) ELSE cfg

FirstRead ==
    /\ pc = "booting"
    /\ g_cfg' = IF g_available
                THEN ClearIfAcknowledged(WithFails(g_cfg, 0)) ELSE g_cfg
    /\ pc' = IF g_available THEN "complete" ELSE "up"
    /\ UNCHANGED <<disk, g_available, g_reason, tried, unseen, seen>>

\* Its bootcfg_write is not tried again when it fails, nor when the process is
\* killed while it waits for the disk.
CompleteWrite(landed) ==
    /\ pc = "complete"
    /\ pc' = "up"
    /\ IF landed THEN disk' = g_cfg /\ tried' = 0 /\ seen' = NoCrash
                 ELSE UNCHANGED <<disk, tried, seen>>
    /\ UNCHANGED <<g_cfg, g_available, g_reason, unseen>>

-----------------------------------------------------------------------------
(* The crash path.                                                         *)

Handling == {"save", "saved", "unsaved"}

\* exception_handler enters: crash_begin finds no crash being handled.
Exception ==
    /\ pc \notin Handling \cup {"halted"}
    /\ pc' = "save"
    /\ UNCHANGED <<disk, g_cfg, g_available, g_reason, tried, unseen, seen>>

\* The sector crash_save starts from: the one on disk if it can be read.
SaveBase(readOk) == IF readOk THEN Config(disk) ELSE Empty

\* crash_save, and whether the caller is told that it worked.  It gives up
\* without a usable store, when the record does not fit or the write fails.
CrashSave(c, readOk, landed, ok) ==
    /\ pc = "save"
    /\ ok => landed
    /\ landed => g_available
    /\ pc' = IF ok THEN "saved" ELSE "unsaved"
    /\ IF landed
       THEN /\ disk' = WithRecord(SaveBase(readOk), 1, c)
            /\ unseen' = c
            /\ seen' = NoCrash
       ELSE UNCHANGED <<disk, unseen, seen>>
    /\ UNCHANGED <<g_cfg, g_available, g_reason, tried>>

\* Nothing was recorded: halt with the screen readable.
Halt ==
    /\ pc = "unsaved"
    /\ pc' = "halted"
    /\ UNCHANGED <<disk, g_cfg, g_available, g_reason, tried, unseen, seen>>

-----------------------------------------------------------------------------
(* Safe Mode.                                                              *)

\* crash_record_acknowledge.  Mutant: "Reboot normally" only resets the counter.
AcknowledgeNot(cfg) == cfg
Acknowledge(cfg) == IF cfg.pending = 1 THEN WithRecord(cfg, 2, cfg.record) ELSE cfg

RebootNormally ==
    /\ pc = "safe"
    /\ g_cfg' = Acknowledge(WithFails(g_cfg, 0))
    /\ pc' = "acknowledge"
    /\ UNCHANGED <<disk, g_available, g_reason, tried, unseen, seen>>

\* Its bootcfg_write; a failure is shown, and the reboot is tried anyway.
AcknowledgeWrite(landed) ==
    /\ pc = "acknowledge"
    /\ pc' = "rebooting"
    /\ IF landed
       THEN /\ disk' = g_cfg
            /\ tried' = 0
            /\ unseen' = NoCrash
            /\ seen' = IF unseen # NoCrash THEN unseen ELSE seen
       ELSE UNCHANGED <<disk, tried, unseen, seen>>
    /\ UNCHANGED <<g_cfg, g_available, g_reason>>

\* reboot_keep_counter.
RebootKeepCounter ==
    /\ pc = "safe"
    /\ pc' = "rebooting"
    /\ UNCHANGED <<disk, g_cfg, g_available, g_reason, tried, unseen, seen>>

\* power_reboot returned: the machine did not react.  Back to the menu.
RebootFailed ==
    /\ pc = "rebooting"
    /\ pc' = "safe"
    /\ UNCHANGED <<disk, g_cfg, g_available, g_reason, tried, unseen, seen>>

\* The machine starts over: power_reboot, crash_reset after a saved record or
\* on a second exception, a power failure, or the user's reset of a machine
\* that hangs or has halted.
Reset ==
    /\ pc' = "early"
    /\ g_cfg' = Empty
    /\ g_available' = FALSE
    /\ g_reason' = "none"
    /\ UNCHANGED <<disk, tried, unseen, seen>>

-----------------------------------------------------------------------------
Next ==
    \/ \E ok \in BOOLEAN : BootRead(ok)
    \/ \E requested \in BOOLEAN : Decide(requested)
    \/ \E landed \in BOOLEAN :
          CountWrite(landed) \/ CompleteWrite(landed) \/ AcknowledgeWrite(landed)
    \/ FirstRead
    \/ Exception
    \/ \E c \in Crashes, readOk, landed, ok \in BOOLEAN : CrashSave(c, readOk, landed, ok)
    \/ Halt
    \/ RebootNormally
    \/ RebootKeepCounter
    \/ RebootFailed
    \/ Reset

Spec == Init /\ [][Next]_vars

-----------------------------------------------------------------------------
\* Type invariant.
TypeOK ==
    /\ disk \in Sectors
    /\ g_cfg \in Sectors
    /\ g_available \in BOOLEAN
    /\ pc \in {"early", "decide", "count", "booting", "complete", "up", "safe",
               "acknowledge", "rebooting", "halted"} \cup Handling
    /\ g_reason \in {"none", "CRASH", "REQUESTED", "FAIL_COUNT"}
    /\ tried \in Nat
    /\ unseen \in Crashes \cup {NoCrash}
    /\ seen \in Crashes \cup {NoCrash}

\* docs/safemode.md, "When the record is cleared": a crash whose record reached
\* the disk stays there, and pending, until "Reboot normally" acknowledges it; it
\* then stays until a complete boot or a new crash.  No other write of the sector
\* (counter, reset of the counter) and no failed write or power loss loses it.
CrashNotLost ==
    /\ unseen # NoCrash =>
          disk.magic = "v1" /\ disk.pending = 1 /\ disk.record = unseen
    /\ seen # NoCrash =>
          disk.magic = "v1" /\ disk.pending = 2 /\ disk.record = seen

\* kmain: while a crash waits to be acknowledged, every boot that can read the
\* sector goes to Safe Mode.
CrashGoesToSafeMode ==
    g_available /\ pc \in {"count", "booting", "complete", "up"} => unseen = NoCrash

\* kmain and sys_read: at most BOOTCFG_FAIL_THRESHOLD counted boots in a row go
\* by without one being recorded as complete; the next one is Safe Mode.
FailuresBounded == tried <= BOOTCFG_FAIL_THRESHOLD

\* Safe Mode is entered for cause: what the banner gives as the reason is true of
\* the past boots, not an artefact of a stale or half-updated sector.
SafeModeForCause ==
    [][pc = "decide" /\ pc' = "safe" =>
          /\ g_reason' = "CRASH" => unseen # NoCrash
          /\ g_reason' = "FAIL_COUNT" => tried >= BOOTCFG_FAIL_THRESHOLD]_vars
=============================================================================
