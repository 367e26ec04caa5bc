----------------------------- MODULE BootProofs -----------------------------
(***************************************************************************)
(* Proofs about Boot, for every threshold and every set of crashes, and    *)
(* about Console, for rings of every size and lines of every length.  The  *)
(* invariants of Boot are not inductive: a write puts g_cfg on the disk,   *)
(* so one has to know how far the copy in memory may differ from the       *)
(* sector at each place where the kernel writes it.  Copy says that.       *)
(*                                                                         *)
(* The console is a refinement of Boot: what is proved of the boot         *)
(* decision holds with the keyboard, the shell, the editor and the screens *)
(* of Safe Mode on top.  KeysInOrder says nothing while keyboard_flush is  *)
(* half way, so it is not inductive either.  What holds there depends on   *)
(* the stores made so far: from the store of the head on, the ring fills   *)
(* again from place 0 without reaching the tail, wherever that is.         *)
(***************************************************************************)
EXTENDS Console, TLAPS

\* What a boot would read from the sector.
D == Config(disk)

\* The sector agrees with the history: no magic line means that nothing was ever
\* written; the crash keys are those of the crash that is still owed; and the
\* counter is exact, except that a crash_save that could not read the sector
\* drops it, which matters to nobody while the crash is pending.
SectorRight ==
    /\ disk.magic = "none" => tried = 0 /\ unseen = NoCrash /\ seen = NoCrash
    /\ D.pending = 0 => unseen = NoCrash /\ seen = NoCrash /\ D.record = NoCrash
    /\ D.pending = 1 => unseen # NoCrash /\ seen = NoCrash /\ D.record = unseen
    /\ D.pending = 2 => seen # NoCrash /\ unseen = NoCrash /\ D.record = seen
    /\ D.pending # 1 => D.fails = tried

\* How g_cfg may differ from the sector, place by place.
Copy ==
    /\ g_cfg.magic = "v1"
    /\ pc \in {"count", "complete", "safe", "acknowledge", "rebooting"} => g_available
    /\ g_available =>
          /\ pc = "decide" => g_cfg = D
          /\ pc \in {"count", "booting", "complete", "up"} => D.pending # 1
          /\ pc \in {"count", "booting"} =>
                g_cfg.pending = D.pending /\ g_cfg.record = D.record
          /\ pc = "count" => g_cfg.fails = tried + 1
          /\ pc = "complete" =>
                g_cfg.fails = 0 /\ g_cfg.pending = 0 /\ g_cfg.record = NoCrash
          /\ pc \in {"safe", "acknowledge", "rebooting"} =>
                /\ g_cfg.record = D.record
                /\ g_cfg.pending = D.pending \/ (g_cfg.pending = 2 /\ D.pending = 1)
          /\ pc = "acknowledge" => g_cfg.fails = 0 /\ g_cfg.pending # 1

\* The inductive invariant.
BootInv == TypeOK /\ FailuresBounded /\ SectorRight /\ Copy

-----------------------------------------------------------------------------
\* Empty, Blank and Config are sectors (cfg_reset, bootcfg_read).
LEMMA SectorFacts ==
    /\ Empty \in Sectors
    /\ Blank \in Sectors
    /\ \A s \in Sectors : Config(s) \in Sectors /\ Config(s).magic = "v1"
<1>1. Empty \in Sectors /\ Empty.magic = "v1"
  BY BootConstants DEF Empty, Sectors
<1>2. Blank \in Sectors
  BY BootConstants DEF Blank, Sectors
<1>3. ASSUME NEW s \in Sectors
      PROVE  Config(s) \in Sectors /\ Config(s).magic = "v1"
  BY <1>1 DEF Config, Sectors
<1>. QED BY <1>1, <1>2, <1>3

\* The first boot from a formatted disk.
LEMMA BootInit == Init => BootInv
<1>. SUFFICES ASSUME Init
              PROVE  BootInv
  OBVIOUS
<1>1. /\ Empty.magic = "v1" /\ Empty.fails = 0 /\ Empty.pending = 0 /\ Empty.record = NoCrash
      /\ Blank.magic = "none"
  BY DEF Empty, Blank
<1>2. D = Empty
  BY <1>1 DEF Init, D, Config
<1>3. TypeOK
  BY SectorFacts, Zenon DEF Init, TypeOK
<1>4. FailuresBounded
  BY BootConstants DEF Init, FailuresBounded
<1>5. SectorRight
  BY <1>1, <1>2 DEF Init, SectorRight
<1>6. Copy
  BY <1>1 DEF Init, Copy
<1>. QED BY <1>3, <1>4, <1>5, <1>6 DEF BootInv

\* kmain reads the sector and decides.
LEMMA DecideStep ==
    ASSUME BootInv,
           \/ \E ok \in BOOLEAN : BootRead(ok)
           \/ \E requested \in BOOLEAN : Decide(requested)
    PROVE  BootInv'
<1>1. CASE \E ok \in BOOLEAN : BootRead(ok)
  <2>1. PICK ok \in BOOLEAN : BootRead(ok)
    BY <1>1
  <2>2. D' = D /\ D \in Sectors /\ D.magic = "v1"
    BY <2>1, SectorFacts DEF BootRead, D, BootInv, TypeOK
  <2>3. g_cfg' \in Sectors /\ g_cfg'.magic = "v1" /\ (ok => g_cfg' = D)
    BY <2>1, <2>2, SectorFacts DEF BootRead, D, Empty
  <2>. QED
    BY <2>1, <2>2, <2>3
       DEF BootRead, BootInv, TypeOK, FailuresBounded, SectorRight, Copy, Handling
<1>2. CASE \E requested \in BOOLEAN : Decide(requested)
  <2>1. PICK requested \in BOOLEAN : Decide(requested)
    BY <1>2
  <2>2. D' = D /\ D \in Sectors /\ D.magic = "v1"
    BY <2>1, SectorFacts DEF Decide, D, BootInv, TypeOK
  <2>3. CASE g_available /\ (Troubled \/ requested)
    BY <2>1, <2>2, <2>3
       DEF Decide, BootInv, TypeOK, FailuresBounded, SectorRight, Copy, Handling
  <2>4. CASE ~g_available
    BY <2>1, <2>2, <2>4
       DEF Decide, BootInv, TypeOK, FailuresBounded, SectorRight, Copy, Handling
  <2>5. CASE g_available /\ ~(Troubled \/ requested)
    <3>1. g_cfg = D /\ D.pending # 1 /\ D.fails = tried /\ tried < BOOTCFG_FAIL_THRESHOLD
      BY <2>1, <2>2, <2>5, BootConstants
         DEF Decide, Troubled, BootInv, TypeOK, SectorRight, Copy, Sectors
    <3>2. g_cfg' = WithFails(g_cfg, g_cfg.fails + 1)
      BY <2>1, <2>5 DEF Decide
    <3>3. /\ g_cfg' \in Sectors /\ g_cfg'.magic = "v1"
          /\ g_cfg'.fails = tried + 1
          /\ g_cfg'.pending = D.pending /\ g_cfg'.record = D.record
      BY <2>2, <3>1, <3>2, BootConstants DEF Sectors, WithFails, BootInv, TypeOK
    <3>. QED
      BY <2>1, <2>2, <2>5, <3>1, <3>3
         DEF Decide, BootInv, TypeOK, FailuresBounded, SectorRight, Copy, Handling
  <2>. QED BY <2>3, <2>4, <2>5
<1>. QED BY <1>1, <1>2

\* The three writes of g_cfg: the counter, its reset, and the acknowledgement.
LEMMA WriteStep ==
    ASSUME BootInv,
           NEW landed \in BOOLEAN,
           CountWrite(landed) \/ CompleteWrite(landed) \/ AcknowledgeWrite(landed)
    PROVE  BootInv'
<1>0. g_available /\ g_cfg \in Sectors /\ g_cfg.magic = "v1" /\ D \in Sectors
  BY SectorFacts
     DEF BootInv, TypeOK, Copy, CountWrite, CompleteWrite, AcknowledgeWrite, D
<1>1. CASE ~landed
  <2>1. UNCHANGED <<disk, g_cfg, g_available, tried, unseen, seen, g_reason>> /\ D' = D
    BY <1>1 DEF CountWrite, CompleteWrite, AcknowledgeWrite, D
  <2>2. \/ pc = "count" /\ pc' = "booting"
        \/ pc = "complete" /\ pc' = "up"
        \/ pc = "acknowledge" /\ pc' = "rebooting"
    BY DEF CountWrite, CompleteWrite, AcknowledgeWrite
  <2>. QED
    BY <1>0, <2>1, <2>2
       DEF BootInv, TypeOK, FailuresBounded, SectorRight, Copy, Handling
<1>2. CASE landed
  <2>0. disk' = g_cfg /\ D' = g_cfg /\ g_cfg' = g_cfg /\ g_available' /\ g_reason' = g_reason
    BY <1>0, <1>2, Zenon DEF CountWrite, CompleteWrite, AcknowledgeWrite, D, Config
  <2>1. CASE CountWrite(landed)
    BY <1>0, <1>2, <2>0, <2>1, BootConstants
       DEF CountWrite, BootInv, TypeOK, FailuresBounded, SectorRight, Copy, Handling, Sectors
  <2>2. CASE CompleteWrite(landed)
    BY <1>0, <1>2, <2>0, <2>2, BootConstants
       DEF CompleteWrite, BootInv, TypeOK, FailuresBounded, SectorRight, Copy, Handling,
           Sectors
  <2>3. CASE AcknowledgeWrite(landed)
    BY <1>0, <1>2, <2>0, <2>3, BootConstants
       DEF AcknowledgeWrite, BootInv, TypeOK, FailuresBounded, SectorRight, Copy, Handling,
           Sectors
  <2>. QED BY <2>1, <2>2, <2>3
<1>. QED BY <1>1, <1>2

\* The changes of g_cfg that the writes above put on the disk later.
LEMMA MemoryStep ==
    ASSUME BootInv, FirstRead \/ RebootNormally
    PROVE  BootInv'
<1>0. g_cfg \in Sectors /\ g_cfg.magic = "v1" /\ D' = D /\ D \in Sectors
  BY SectorFacts DEF BootInv, TypeOK, Copy, FirstRead, RebootNormally, D
<1>1. CASE FirstRead
  <2>1. CASE ~g_available
    BY <1>0, <1>1, <2>1
       DEF FirstRead, BootInv, TypeOK, FailuresBounded, SectorRight, Copy, Handling
  <2>2. CASE g_available
    <3>1. g_cfg' = ClearIfAcknowledged(WithFails(g_cfg, 0)) /\ pc' = "complete"
      BY <1>1, <2>2 DEF FirstRead
    <3>2. D.pending # 1 /\ g_cfg.pending = D.pending /\ g_cfg.record = D.record
      BY <1>1, <2>2 DEF FirstRead, BootInv, Copy
    <3>3. /\ g_cfg' \in Sectors /\ g_cfg'.magic = "v1"
          /\ g_cfg'.fails = 0 /\ g_cfg'.pending = 0 /\ g_cfg'.record = NoCrash
      <4>2. D.pending = 0 => D.record = NoCrash
        BY DEF BootInv, SectorRight
      <4>3. D.pending \in {0, 2}
        BY <1>0, <3>2 DEF Sectors
      <4>. QED
        BY <1>0, <3>1, <3>2, <4>2, <4>3, BootConstants
           DEF ClearIfAcknowledged, WithFails, WithRecord, Sectors
    <3>. QED
      BY <1>0, <1>1, <2>2, <3>1, <3>2, <3>3
         DEF FirstRead, BootInv, TypeOK, FailuresBounded, SectorRight, Copy, Handling
  <2>. QED BY <2>1, <2>2
<1>2. CASE RebootNormally
  <2>1. g_available /\ g_cfg.record = D.record
        /\ (g_cfg.pending = D.pending \/ (g_cfg.pending = 2 /\ D.pending = 1))
    BY <1>2 DEF RebootNormally, BootInv, Copy
  <2>2. g_cfg' = Acknowledge(WithFails(g_cfg, 0))
    BY <1>2 DEF RebootNormally
  <2>3. /\ g_cfg' \in Sectors /\ g_cfg'.magic = "v1"
        /\ g_cfg'.fails = 0 /\ g_cfg'.record = g_cfg.record
        /\ g_cfg'.pending = IF g_cfg.pending = 1 THEN 2 ELSE g_cfg.pending
    BY <1>0, <2>2, BootConstants DEF Acknowledge, WithFails, WithRecord, Sectors
  <2>. QED
    BY <1>0, <1>2, <2>1, <2>3
       DEF RebootNormally, BootInv, TypeOK, FailuresBounded, SectorRight, Copy, Handling
<1>. QED BY <1>1, <1>2

\* crash_save replaces whatever record there is.
LEMMA SaveStep ==
    ASSUME BootInv,
           NEW c \in Crashes, NEW readOk \in BOOLEAN, NEW landed \in BOOLEAN,
           NEW ok \in BOOLEAN, CrashSave(c, readOk, landed, ok)
    PROVE  BootInv'
<1>1. CASE ~landed
  <2>1. D' = D
    BY <1>1 DEF CrashSave, D
  <2>. QED
    BY <1>1, <2>1
       DEF CrashSave, BootInv, TypeOK, FailuresBounded, SectorRight, Copy, Handling
<1>2. CASE landed
  <2>1. SaveBase(readOk) \in Sectors /\ SaveBase(readOk).magic = "v1"
    BY SectorFacts DEF SaveBase, BootInv, TypeOK, Empty
  <2>2. disk' = WithRecord(SaveBase(readOk), 1, c)
    BY <1>2 DEF CrashSave
  <2>3. disk' \in Sectors /\ disk'.magic = "v1" /\ disk'.pending = 1 /\ disk'.record = c
    BY <2>1, <2>2 DEF Sectors, WithRecord
  <2>4. D' = disk'
    BY <2>3, SMTT(30) DEF D, Config
  <2>. QED
    BY <1>2, <2>3, <2>4, BootConstants
       DEF CrashSave, BootInv, TypeOK, FailuresBounded, SectorRight, Copy, Handling
<1>. QED BY <1>1, <1>2

\* Steps that neither write the sector nor change what is to be written.
LEMMA OtherStep ==
    ASSUME BootInv,
           \/ Exception \/ Halt \/ RebootKeepCounter \/ RebootFailed \/ Reset
           \/ UNCHANGED vars
    PROVE  BootInv'
<1>1. D' = D
  BY DEF Exception, Halt, RebootKeepCounter, RebootFailed, Reset, vars, D
<1>. USE <1>1, SectorFacts
     DEF BootInv, TypeOK, FailuresBounded, SectorRight, Copy, Handling
<1>2. CASE Exception  BY <1>2 DEF Exception
<1>3. CASE Halt  BY <1>3 DEF Halt
<1>4. CASE RebootKeepCounter  BY <1>4 DEF RebootKeepCounter
<1>5. CASE RebootFailed  BY <1>5 DEF RebootFailed
<1>6. CASE Reset  BY <1>6, Zenon DEF Reset, Empty
<1>7. CASE UNCHANGED vars  BY <1>7 DEF vars
<1>. QED BY <1>2, <1>3, <1>4, <1>5, <1>6, <1>7, Zenon

\* BootInv holds in every reachable state: the boot decision, the writes of the
\* sector and the crash path never lose track of the boots before.
THEOREM BootInvariant == Spec => []BootInv
<1>1. BootInv /\ [Next]_vars => BootInv'
  <2>. SUFFICES ASSUME BootInv, [Next]_vars
                PROVE  BootInv'
    OBVIOUS
  <2>. QED
    BY DecideStep, WriteStep, MemoryStep, SaveStep, OtherStep DEF Next
<1>. QED BY BootInit, <1>1, PTL DEF Spec

\* The record of a crash survives until it is acknowledged, and then until a
\* complete boot (crash_save, crash_record_acknowledge, sys_read).
THEOREM CrashSurvives == Spec => []CrashNotLost
<1>1. BootInv => CrashNotLost
  BY SectorFacts, BootConstants
     DEF BootInv, TypeOK, SectorRight, CrashNotLost, D, Config, Empty, Sectors
<1>. QED BY BootInvariant, <1>1, PTL

\* kmain never boots past a crash that is still pending.
THEOREM CrashStopsBoot == Spec => []CrashGoesToSafeMode
<1>1. BootInv => CrashGoesToSafeMode
  BY SectorFacts DEF BootInv, TypeOK, SectorRight, Copy, CrashGoesToSafeMode, D, Sectors
<1>. QED BY BootInvariant, <1>1, PTL

\* The counter stops a series of boots that do not complete.
THEOREM BootsBounded == Spec => []FailuresBounded
<1>1. BootInv => FailuresBounded
  BY DEF BootInv
<1>. QED BY BootInvariant, <1>1, PTL

\* The reason that Safe Mode shows is true.
THEOREM ReasonIsTrue == Spec => SafeModeForCause
<1>1. BootInv /\ [Next]_vars =>
        [pc = "decide" /\ pc' = "safe" =>
            /\ g_reason' = "CRASH" => unseen # NoCrash
            /\ g_reason' = "FAIL_COUNT" => tried >= BOOTCFG_FAIL_THRESHOLD]_vars
  <2>. SUFFICES ASSUME BootInv, Next, pc = "decide", pc' = "safe"
                PROVE  /\ g_reason' = "CRASH" => unseen # NoCrash
                       /\ g_reason' = "FAIL_COUNT" => tried >= BOOTCFG_FAIL_THRESHOLD
    OBVIOUS
  <2>1. PICK requested \in BOOLEAN : Decide(requested)
    BY DEF Next, BootRead, CountWrite, CompleteWrite, AcknowledgeWrite, FirstRead,
           Exception, CrashSave, Halt, RebootNormally, RebootKeepCounter, RebootFailed,
           Reset
  <2>2. g_available /\ (Troubled \/ requested) /\ g_cfg = D
    BY <2>1 DEF Decide, BootInv, Copy
  <2>. QED
    BY <2>1, <2>2, BootConstants
       DEF Decide, Troubled, BootInv, TypeOK, FailuresBounded, SectorRight, Sectors
<1>. QED BY BootInvariant, <1>1, PTL DEF Spec, SafeModeForCause

-----------------------------------------------------------------------------
(* The boot decision under the console.                                    *)

\* A step of the console is a step of Boot or leaves Boot's state alone.
LEMMA ConsoleStepIsBootStep == [ConsoleNext]_<<vars, consoleVars>> => [Next]_vars
<1>. SUFFICES ASSUME [ConsoleNext]_<<vars, consoleVars>> PROVE [Next]_vars
  OBVIOUS
<1>1. CASE \/ \E ok \in BOOLEAN : BootRead(ok)
           \/ \E requested \in BOOLEAN : Decide(requested)
           \/ \E landed \in BOOLEAN :
                 CountWrite(landed) \/ CompleteWrite(landed) \/ AcknowledgeWrite(landed)
           \/ FirstRead
           \/ \E c \in Crashes, readOk, landed, ok \in BOOLEAN : CrashSave(c, readOk, landed, ok)
           \/ Halt
  BY <1>1, Zenon DEF Next
<1>2. CASE KeyReboots \/ RebootReturned \/ Lost
  BY <1>2, Zenon DEF Next, KeyReboots, RebootReturned, Lost
<1>3. CASE \/ KeyIrq({"raw"}) \/ KeyIrq(Rings)
           \/ \E s \in FlushStores : FlushStore(s)
           \/ \E c \in {"ctrl_c", "backspace", "other"} : ReadLine(c)
           \/ Command \/ EditKey \/ EditQuit \/ Browse
           \/ OpenShell \/ \E i \in 1 .. 4, ok \in BOOLEAN : Tier2(i, ok)
  BY <1>3, Zenon
     DEF KeyIrq, FlushStore, ReadLine, Command, EditKey, EditQuit, Browse, Screen, OpenShell,
         Tier2
<1>4. CASE UNCHANGED <<vars, consoleVars>>
  BY <1>4
<1>. QED BY <1>1, <1>2, <1>3, <1>4, Zenon DEF ConsoleNext

\* Every behaviour of the console is a behaviour of Boot.
THEOREM ConsoleImplementsBoot == ConsoleSpec => Spec
<1>1. ConsoleInit => Init
  BY DEF ConsoleInit
<1>. QED BY <1>1, ConsoleStepIsBootStep, PTL DEF ConsoleSpec, Spec

\* So the crash record survives, sends the boot to Safe Mode and is the reason
\* given, and failed boots are bounded, whatever keys are pressed when.
THEOREM ConsoleBoots ==
    ConsoleSpec => /\ []CrashNotLost /\ []CrashGoesToSafeMode /\ []FailuresBounded
                   /\ SafeModeForCause
BY ConsoleImplementsBoot, CrashSurvives, CrashStopsBoot, BootsBounded, ReasonIsTrue, PTL

-----------------------------------------------------------------------------
(* Tier 2 of Safe Mode.                                                    *)

\* The inductive invariant: the conditions of tier2_init tell which parts are up.
TierInv ==
    /\ TierOnce
    /\ t2 \in [stage : 0 .. 3, fat : BOOLEAN]
    /\ \A i \in 1 .. 4 : Parts[i] \in ready <=> ~Missing(i)

\* One step of tier2_init: what it brings up was missing, and it comes after all
\* that the earlier steps have brought up or found there.
LEMMA TierStep ==
    ASSUME TierInv, NEW i \in 1 .. 4, NEW ok \in BOOLEAN, Tier2(i, ok)
    PROVE  TierInv'
<1>. USE DEF TierInv, TierOnce
<1>1. /\ Parts[1] = "pmm" /\ Parts[2] = "vmm" /\ Parts[3] = "heap" /\ Parts[4] = "fat"
  BY DEF Parts
<1>2. /\ screen = Parts[i] /\ (~Missing(i) => ok)
      /\ screen' = IF ~ok THEN "any" ELSE IF i < 4 THEN Parts[i + 1] ELSE "shell"
      /\ t2' = IF ~ok \/ ~Missing(i) THEN t2
               ELSE IF i <= 3 THEN [t2 EXCEPT !.stage = i] ELSE [t2 EXCEPT !.fat = TRUE]
      /\ ready' = IF ok /\ Missing(i) THEN ready \cup {Parts[i]} ELSE ready
      /\ redone' = (redone \/ (Missing(i) /\ Parts[i] \in ready))
  BY DEF Tier2
<1>3. ~redone'
  BY <1>2
<1>4. t2' \in [stage : 0 .. 3, fat : BOOLEAN]
  <2>1. i <= 3 => i \in 0 .. 3
    OBVIOUS
  <2>. QED BY <1>2, <2>1, ZenonT(30)
<1>5. \A j \in 1 .. i - 1 : Parts[j] \in ready /\ ~Missing(j)
  BY <1>2
<1>6. ASSUME ok PROVE \A j \in 1 .. i : Parts[j] \in ready'
  BY <1>2, <1>5, <1>6
<1>7. \A j \in 1 .. 4 : screen' = Parts[j] => \A k \in 1 .. j - 1 : Parts[k] \in ready'
  <2>. SUFFICES ASSUME NEW j \in 1 .. 4, screen' = Parts[j], NEW k \in 1 .. j - 1
                PROVE  Parts[k] \in ready'
    OBVIOUS
  <2>1. screen' # "any" /\ screen' # "shell"
    <3>1. j = 1 \/ j = 2 \/ j = 3 \/ j = 4
      OBVIOUS
    <3>. QED BY <1>1, <3>1
  <2>2. ok /\ i < 4 /\ Parts[j] = Parts[i + 1]
    BY <1>2, <2>1
  <2>3. j = i + 1
    <3>1. \/ i = 1 /\ i + 1 = 2
          \/ i = 2 /\ i + 1 = 3
          \/ i = 3 /\ i + 1 = 4
      BY <2>2
    <3>2. j = 1 \/ j = 2 \/ j = 3 \/ j = 4
      OBVIOUS
    <3>. QED BY <1>1, <2>2, <3>1, <3>2
  <2>. QED BY <1>6, <2>2, <2>3
<1>8. screen' = "shell" => \A j \in 1 .. 4 : Parts[j] \in ready'
  BY <1>1, <1>2, <1>6
<1>9. \A j \in 1 .. 4 : Parts[j] \in ready' <=> ~Missing(j)'
  <2>. SUFFICES ASSUME NEW j \in 1 .. 4 PROVE Parts[j] \in ready' <=> ~Missing(j)'
    OBVIOUS
  <2>1. CASE ~ok \/ ~Missing(i)
    BY <1>2, <2>1 DEF Missing
  <2>2. CASE ok /\ Missing(i)
    <3>1. Parts[j] \in ready' <=> Parts[j] \in ready \/ j = i
      BY <1>1, <1>2, <2>2
    <3>2. ~Missing(j)' <=> ~Missing(j) \/ j = i
      BY <1>2, <1>5, <2>2 DEF Missing
    <3>. QED BY <3>1, <3>2
  <2>. QED BY <2>1, <2>2
<1>. QED BY <1>3, <1>4, <1>7, <1>8, <1>9

\* No step of tier2_init runs again after it succeeded, each finds the earlier
\* ones done, and so does the restricted shell.
THEOREM TierRunsOnce == ConsoleSpec => []TierOnce
<1>0. Parts[1] = "pmm" /\ Parts[2] = "vmm" /\ Parts[3] = "heap" /\ Parts[4] = "fat"
  BY DEF Parts
<1>1. ConsoleInit => TierInv
  BY <1>0 DEF ConsoleInit, TierInv, TierOnce, NotStarted, Missing
<1>2. TierInv /\ [ConsoleNext]_<<vars, consoleVars>> => TierInv'
  <2>. SUFFICES ASSUME TierInv, [ConsoleNext]_<<vars, consoleVars>> PROVE TierInv'
    OBVIOUS
  <2>1. ASSUME UNCHANGED <<t2, ready, redone>>,
               screen' = screen \/ screen' \notin {"pmm", "vmm", "heap", "fat", "shell"}
        PROVE  TierInv'
    BY <1>0, <2>1 DEF TierInv, TierOnce, Missing
  <2>2. CASE Lost
    BY <1>0, <2>2 DEF Lost, NotStarted, TierInv, TierOnce, Missing
  <2>3. CASE OpenShell
    <3>1. /\ UNCHANGED <<t2, ready, redone>>
          /\ screen' = IF t2.stage = 3 /\ t2.fat THEN "shell" ELSE "pmm"
      BY <1>0, <2>3 DEF OpenShell
    <3>2. t2.stage = 3 /\ t2.fat => \A i \in 1 .. 4 : ~Missing(i)
      BY DEF Missing
    <3>. QED BY <1>0, <3>1, <3>2 DEF TierInv, TierOnce, Missing
  <2>4. CASE Browse
    BY <2>1, <2>4 DEF Browse, Screen
  <2>5. CASE RebootReturned
    BY <2>1, <2>5 DEF RebootReturned
  <2>6. CASE \/ KeyIrq({"raw"}) \/ KeyIrq(Rings)
             \/ \E s \in FlushStores : FlushStore(s)
             \/ \E c \in {"ctrl_c", "backspace", "other"} : ReadLine(c)
             \/ Command \/ EditKey \/ EditQuit \/ KeyReboots
    <3>1. UNCHANGED safe
      BY <2>6, Zenon DEF KeyIrq, FlushStore, ReadLine, Command, EditKey, EditQuit, KeyReboots
    <3>. QED BY <2>1, <3>1 DEF safe
  <2>7. CASE UNCHANGED consoleVars
    BY <2>1, <2>7 DEF consoleVars, safe
  <2>8. CASE \E i \in 1 .. 4, ok \in BOOLEAN : Tier2(i, ok)
    BY <2>8, TierStep
  <2>. QED BY <2>2, <2>3, <2>4, <2>5, <2>6, <2>7, <2>8, Zenon DEF ConsoleNext
<1>3. TierInv => TierOnce
  BY DEF TierInv
<1>. QED BY <1>1, <1>2, <1>3, PTL DEF ConsoleSpec

-----------------------------------------------------------------------------
(* Places and numbers.                                                     *)

\* The remainder of less than two whole turns.
LEMMA OneTurn ==
    ASSUME NEW m \in Nat \ {0}, NEW x \in Nat, x < 2 * m
    PROVE  x % m = IF x < m THEN x ELSE x - m
<1>1. CASE x < m
  BY <1>1
<1>2. CASE ~(x < m)
  BY <1>2
<1>. QED BY <1>1, <1>2

Places == 0 .. KB_BUFFER_SIZE - 1
KeyNumbers == 0 .. Numbers - 1
RingStates == [buf : [Places -> 0 .. Numbers], head : Places, tail : Places]

\* The place a places after t, and the number a numbers after d.
PlaceAfter(t, a) == (t + a) % KB_BUFFER_SIZE
NumberAfter(d, a) == (d + a) % Numbers

\* A place, advanced by less than a turn.
LEMMA PlacePlus ==
    ASSUME NEW t \in Places, NEW a \in Places
    PROVE  /\ PlaceAfter(t, a)
                = IF t + a < KB_BUFFER_SIZE THEN t + a ELSE t + a - KB_BUFFER_SIZE
           /\ PlaceAfter(t, a) \in Places
<1>. DEFINE x == t + a
<1>1. KB_BUFFER_SIZE \in Nat \ {0} /\ x \in Nat /\ x < 2 * KB_BUFFER_SIZE
  BY ConsoleConstants DEF Places
<1>2. PlaceAfter(t, a) = x % KB_BUFFER_SIZE
  BY Zenon DEF PlaceAfter
<1>3. x % KB_BUFFER_SIZE = IF x < KB_BUFFER_SIZE THEN x ELSE x - KB_BUFFER_SIZE
  <2>. HIDE DEF x
  <2>. QED BY <1>1, OneTurn, Zenon
<1>. QED BY <1>1, <1>2, <1>3 DEF Places

\* A number, advanced by at most a turn of the numbers.
LEMMA NumberPlus ==
    ASSUME NEW d \in KeyNumbers, NEW a \in 0 .. Numbers
    PROVE  /\ NumberAfter(d, a) = IF d + a < Numbers THEN d + a ELSE d + a - Numbers
           /\ NumberAfter(d, a) \in KeyNumbers
<1>. DEFINE x == d + a
<1>1. Numbers \in Nat \ {0}
  BY ConsoleConstants DEF Numbers
<1>2. x \in Nat /\ x < 2 * Numbers
  BY <1>1 DEF KeyNumbers
<1>3. NumberAfter(d, a) = x % Numbers
  BY Zenon DEF NumberAfter
<1>4. x % Numbers = IF x < Numbers THEN x ELSE x - Numbers
  <2>. HIDE DEF x
  <2>. QED BY <1>1, <1>2, OneTurn, Zenon
<1>. QED BY <1>1, <1>2, <1>3, <1>4 DEF KeyNumbers

\* How many keys a ring holds.
LEMMA AheadIs ==
    ASSUME NEW rg \in RingStates
    PROVE  /\ Ahead(rg) = IF rg.head >= rg.tail THEN rg.head - rg.tail
                          ELSE rg.head + KB_BUFFER_SIZE - rg.tail
           /\ Ahead(rg) \in Places
<1>. DEFINE x == rg.head + KB_BUFFER_SIZE - rg.tail
<1>1. /\ KB_BUFFER_SIZE \in Nat \ {0} /\ x \in Nat /\ x < 2 * KB_BUFFER_SIZE
      /\ rg.head \in Places /\ rg.tail \in Places
  BY ConsoleConstants, SMTT(30) DEF RingStates, Places
<1>2. Ahead(rg) = x % KB_BUFFER_SIZE
  BY DEF Ahead
<1>. HIDE DEF x
<1>3. Ahead(rg) = IF x < KB_BUFFER_SIZE THEN x ELSE x - KB_BUFFER_SIZE
  BY <1>1, <1>2, OneTurn, Zenon
<1>. QED BY <1>1, <1>3 DEF x, Places

\* The keys a ring holds are d, d + 1, ... and the next one gets number f.
InOrder(rg, d, f) ==
    /\ \A i \in Places : i < Ahead(rg) => rg.buf[PlaceAfter(rg.tail, i)] = NumberAfter(d, i)
    /\ f = NumberAfter(d, Ahead(rg))

\* The head was stored by a flush: the keys since then lie from place 0 on, the
\* last one just before number f, and they have not reached the tail.
Refilled(rg, f) ==
    /\ rg.tail = 0 \/ rg.head < rg.tail
    /\ \A i \in Places : i < rg.head => rg.buf[i] = NumberAfter(f, Numbers - rg.head + i)

\* The ring after a key that was accepted under number f.
Stored(rg, f) == [Push(rg) EXCEPT !.buf[rg.head] = f]

\* keyboard_callback stores a key at the head and moves the head.
LEMMA StoredIs ==
    ASSUME NEW rg \in RingStates, NEW f \in KeyNumbers, Push(rg) # rg
    PROVE  /\ Stored(rg, f) \in RingStates
           /\ Stored(rg, f).tail = rg.tail
           /\ Stored(rg, f).buf = [rg.buf EXCEPT ![rg.head] = f]
           /\ Stored(rg, f).head = PlaceAfter(rg.head, 1)
           /\ PlaceAfter(rg.head, 1) # rg.tail
<1>1. 1 \in Places /\ f \in 0 .. Numbers /\ rg.head \in Places
  BY ConsoleConstants DEF Places, KeyNumbers, Numbers, RingStates
<1>2. Push(rg) = [rg EXCEPT !.head = IF PlaceAfter(rg.head, 1) = rg.tail
                                     THEN rg.head ELSE PlaceAfter(rg.head, 1)]
  BY Zenon DEF Push, PlaceAfter
<1>3. PlaceAfter(rg.head, 1) \in Places
  BY <1>1, PlacePlus
<1>4. PlaceAfter(rg.head, 1) # rg.tail
  BY <1>2 DEF RingStates
<1>. QED BY <1>1, <1>2, <1>3, <1>4, Zenon DEF Stored, RingStates

\* Numbers and sums of advances.
LEMMA NumberSum ==
    ASSUME NEW d \in KeyNumbers, NEW a \in 0 .. Numbers, NEW b \in 0 .. Numbers,
           a + b <= Numbers
    PROVE  NumberAfter(NumberAfter(d, a), b) = NumberAfter(d, a + b)
<1>1. Numbers \in Nat \ {0} /\ a + b \in 0 .. Numbers
  BY ConsoleConstants DEF Numbers
<1>2. NumberAfter(d, a) \in KeyNumbers
  BY NumberPlus
<1>3. NumberAfter(NumberAfter(d, a), b)
        = IF NumberAfter(d, a) + b < Numbers THEN NumberAfter(d, a) + b
          ELSE NumberAfter(d, a) + b - Numbers
  BY <1>2, NumberPlus
<1>4. NumberAfter(d, a) = IF d + a < Numbers THEN d + a ELSE d + a - Numbers
  BY NumberPlus
<1>5. NumberAfter(d, a + b)
        = IF d + (a + b) < Numbers THEN d + (a + b) ELSE d + (a + b) - Numbers
  BY <1>1, NumberPlus
<1>. QED BY <1>1, <1>3, <1>4, <1>5 DEF KeyNumbers

\* A ring holds fewer keys than there are numbers.
LEMMA Small ==
    /\ KB_BUFFER_SIZE \in Nat \ {0, 1} /\ Numbers = 2 * KB_BUFFER_SIZE
    /\ Places \subseteq 0 .. Numbers /\ 1 \in Places /\ 0 \in Places /\ 0 \in KeyNumbers
BY ConsoleConstants DEF Places, Numbers, KeyNumbers

\* A key that is accepted is the last one the ring holds.
LEMMA PushOrder ==
    ASSUME NEW rg \in RingStates, NEW d \in KeyNumbers, NEW f \in KeyNumbers,
           InOrder(rg, d, f), Push(rg) # rg
    PROVE  InOrder(Stored(rg, f), d, NumberAfter(f, 1))
<1>. DEFINE s == Stored(rg, f)
<1>0. /\ s \in RingStates /\ s.tail = rg.tail /\ s.buf = [rg.buf EXCEPT ![rg.head] = f]
      /\ s.head = PlaceAfter(rg.head, 1) /\ s.head # rg.tail
  BY StoredIs
<1>. HIDE DEF s
<1>1. /\ rg.head \in Places /\ rg.tail \in Places /\ s.head \in Places
      /\ rg.buf \in [Places -> 0 .. Numbers]
  BY <1>0 DEF RingStates
<1>2. s.head = IF rg.head + 1 < KB_BUFFER_SIZE THEN rg.head + 1
               ELSE rg.head + 1 - KB_BUFFER_SIZE
  BY <1>0, <1>1, Small, PlacePlus, ZenonT(60)
<1>3. Ahead(s) = Ahead(rg) + 1 /\ Ahead(rg) \in Places /\ Ahead(s) \in Places
  <2>1. /\ Ahead(rg) = IF rg.head >= rg.tail THEN rg.head - rg.tail
                       ELSE rg.head + KB_BUFFER_SIZE - rg.tail
        /\ Ahead(rg) \in Places
    BY AheadIs
  <2>2. /\ Ahead(s) = IF s.head >= s.tail THEN s.head - s.tail
                      ELSE s.head + KB_BUFFER_SIZE - s.tail
        /\ Ahead(s) \in Places
    BY <1>0, AheadIs
  <2>3. Ahead(s) = Ahead(rg) + 1
    <3>. DEFINE h == rg.head  u == rg.tail  h1 == s.head  a == Ahead(rg)  b == Ahead(s)
    <3>1. /\ h \in 0 .. KB_BUFFER_SIZE - 1 /\ u \in 0 .. KB_BUFFER_SIZE - 1
          /\ h1 \in 0 .. KB_BUFFER_SIZE - 1
      BY <1>1 DEF Places
    <3>2. /\ h1 = IF h + 1 < KB_BUFFER_SIZE THEN h + 1 ELSE h + 1 - KB_BUFFER_SIZE
          /\ h1 # u
          /\ a = IF h >= u THEN h - u ELSE h + KB_BUFFER_SIZE - u
      BY <1>0, <1>2, <2>1
    <3>3. b = IF h1 >= u THEN h1 - u ELSE h1 + KB_BUFFER_SIZE - u
      BY <1>0, <2>2
    <3>. HIDE DEF h, u, h1, a, b
    <3>4. b = a + 1
      BY <3>1, <3>2, <3>3, ConsoleConstants
    <3>. QED BY <3>4 DEF a, b
  <2>. QED BY <2>1, <2>2, <2>3
<1>4. ASSUME NEW i \in Places, i < Ahead(s)
      PROVE  s.buf[PlaceAfter(s.tail, i)] = NumberAfter(d, i)
  <2>1. /\ PlaceAfter(rg.tail, i) \in Places
        /\ PlaceAfter(rg.tail, i) = IF rg.tail + i < KB_BUFFER_SIZE THEN rg.tail + i
                                    ELSE rg.tail + i - KB_BUFFER_SIZE
    BY <1>1, PlacePlus
  <2>2. Ahead(rg) = IF rg.head >= rg.tail THEN rg.head - rg.tail
                    ELSE rg.head + KB_BUFFER_SIZE - rg.tail
    BY AheadIs, SMTT(30)
  <2>3. CASE i < Ahead(rg)
    <3>1. PlaceAfter(rg.tail, i) # rg.head
      BY <1>1, <2>1, <2>2, <2>3, Small, SMTT(30) DEF Places
    <3>2. rg.buf[PlaceAfter(rg.tail, i)] = NumberAfter(d, i)
      BY <2>3 DEF InOrder
    <3>. QED BY <1>0, <1>1, <2>1, <3>1, <3>2, SMTT(30)
  <2>4. CASE i = Ahead(rg)
    <3>1. PlaceAfter(rg.tail, i) = rg.head
      <4>1. rg.head \in 0 .. KB_BUFFER_SIZE - 1 /\ rg.tail \in 0 .. KB_BUFFER_SIZE - 1
        BY <1>1 DEF Places
      <4>. QED BY <2>1, <2>2, <2>4, <4>1, Small, SMTT(30)
    <3>2. f = NumberAfter(d, i)
      BY <2>4 DEF InOrder
    <3>. QED BY <1>0, <1>1, <3>1, <3>2, SMTT(30)
  <2>. QED BY <1>3, <1>4, <2>3, <2>4, SMTT(30) DEF Places
<1>5. NumberAfter(f, 1) = NumberAfter(d, Ahead(s))
  <2>1. f = NumberAfter(d, Ahead(rg))
    BY DEF InOrder
  <2>2. Ahead(rg) \in 0 .. Numbers /\ 1 \in 0 .. Numbers /\ Ahead(rg) + 1 <= Numbers
    BY <1>3, Small DEF Places
  <2>. QED BY <1>3, <2>1, <2>2, NumberSum
<1>. QED BY <1>4, <1>5, SMTT(30) DEF InOrder, s

\* The key that is read is the first one the ring holds.
LEMMA PopOrder ==
    ASSUME NEW rg \in RingStates, NEW d \in KeyNumbers, NEW f \in KeyNumbers,
           InOrder(rg, d, f), Ahead(rg) > 0
    PROVE  LET s == [rg EXCEPT !.tail = PlaceAfter(rg.tail, 1)]
           IN  s \in RingStates /\ InOrder(s, NumberAfter(d, 1), f)
<1>. DEFINE s == [rg EXCEPT !.tail = PlaceAfter(rg.tail, 1)]
<1>1. /\ rg.head \in Places /\ rg.tail \in Places /\ rg.buf \in [Places -> 0 .. Numbers]
      /\ PlaceAfter(rg.tail, 1) \in Places
  BY Small, PlacePlus, Zenon DEF RingStates
<1>2. /\ s \in RingStates /\ s.head = rg.head /\ s.buf = rg.buf
      /\ s.tail = PlaceAfter(rg.tail, 1)
  BY <1>1 DEF RingStates
<1>3. PlaceAfter(rg.tail, 1) = IF rg.tail + 1 < KB_BUFFER_SIZE THEN rg.tail + 1
                               ELSE rg.tail + 1 - KB_BUFFER_SIZE
  BY <1>1, Small, PlacePlus, Zenon
<1>. HIDE DEF s
<1>4. Ahead(rg) = Ahead(s) + 1 /\ Ahead(rg) \in Places /\ Ahead(s) \in Places
  <2>1. /\ Ahead(rg) = IF rg.head >= rg.tail THEN rg.head - rg.tail
                       ELSE rg.head + KB_BUFFER_SIZE - rg.tail
        /\ Ahead(rg) \in Places
    BY AheadIs
  <2>2. /\ Ahead(s) = IF s.head >= s.tail THEN s.head - s.tail
                      ELSE s.head + KB_BUFFER_SIZE - s.tail
        /\ Ahead(s) \in Places
    BY <1>2, AheadIs
  <2>3. rg.head # rg.tail
    BY <1>1, <2>1 DEF Places
  <2>4. Ahead(rg) = Ahead(s) + 1
    <3>. DEFINE h == rg.head  u == rg.tail  u1 == s.tail  a == Ahead(rg)  b == Ahead(s)
    <3>1. /\ h \in 0 .. KB_BUFFER_SIZE - 1 /\ u \in 0 .. KB_BUFFER_SIZE - 1
          /\ u1 \in 0 .. KB_BUFFER_SIZE - 1
      BY <1>1, <1>2 DEF Places
    <3>2. /\ u1 = IF u + 1 < KB_BUFFER_SIZE THEN u + 1 ELSE u + 1 - KB_BUFFER_SIZE
          /\ h # u
          /\ a = IF h >= u THEN h - u ELSE h + KB_BUFFER_SIZE - u
      BY <1>2, <1>3, <2>1, <2>3
    <3>3. b = IF h >= u1 THEN h - u1 ELSE h + KB_BUFFER_SIZE - u1
      BY <1>2, <2>2
    <3>. HIDE DEF h, u, u1, a, b
    <3>4. a = b + 1
      BY <3>1, <3>2, <3>3, ConsoleConstants
    <3>. QED BY <3>4 DEF a, b
  <2>. QED BY <2>1, <2>2, <2>4
<1>5. ASSUME NEW i \in Places, i < Ahead(s)
      PROVE  s.buf[PlaceAfter(s.tail, i)] = NumberAfter(NumberAfter(d, 1), i)
  <2>1. i + 1 \in Places /\ i + 1 < Ahead(rg)
    BY <1>4, <1>5, ConsoleConstants DEF Places
  <2>2. PlaceAfter(s.tail, i) = PlaceAfter(rg.tail, i + 1)
    <3>1. PlaceAfter(s.tail, i) = IF s.tail + i < KB_BUFFER_SIZE THEN s.tail + i
                                  ELSE s.tail + i - KB_BUFFER_SIZE
      BY <1>1, <1>2, PlacePlus
    <3>2. PlaceAfter(rg.tail, i + 1)
            = IF rg.tail + (i + 1) < KB_BUFFER_SIZE THEN rg.tail + (i + 1)
              ELSE rg.tail + (i + 1) - KB_BUFFER_SIZE
      BY <1>1, <2>1, PlacePlus
    <3>3. i + 1 < KB_BUFFER_SIZE
      BY <2>1, ConsoleConstants DEF Places
    <3>. DEFINE u == rg.tail  u1 == s.tail  x == PlaceAfter(s.tail, i)
                y == PlaceAfter(rg.tail, i + 1)
    <3>4. u \in 0 .. KB_BUFFER_SIZE - 1 /\ i \in 0 .. KB_BUFFER_SIZE - 1
      BY <1>1 DEF Places
    <3>5. /\ u1 = IF u + 1 < KB_BUFFER_SIZE THEN u + 1 ELSE u + 1 - KB_BUFFER_SIZE
          /\ x = IF u1 + i < KB_BUFFER_SIZE THEN u1 + i ELSE u1 + i - KB_BUFFER_SIZE
          /\ y = IF u + (i + 1) < KB_BUFFER_SIZE THEN u + (i + 1)
                 ELSE u + (i + 1) - KB_BUFFER_SIZE
      BY <1>2, <1>3, <3>1, <3>2
    <3>. HIDE DEF u, u1, x, y
    <3>6. x = y
      BY <3>3, <3>4, <3>5, ConsoleConstants
    <3>. QED BY <3>6 DEF x, y
  <2>3. rg.buf[PlaceAfter(rg.tail, i + 1)] = NumberAfter(d, i + 1)
    BY <2>1 DEF InOrder
  <2>4. NumberAfter(NumberAfter(d, 1), i) = NumberAfter(d, 1 + i)
    <3>1. 1 \in 0 .. Numbers /\ i \in 0 .. Numbers /\ 1 + i <= Numbers
      BY Small DEF Places
    <3>. QED BY <3>1, NumberSum
  <2>5. 1 + i = i + 1
    BY DEF Places
  <2>. QED BY <1>2, <2>2, <2>3, <2>4, <2>5
<1>6. f = NumberAfter(NumberAfter(d, 1), Ahead(s))
  <2>1. f = NumberAfter(d, Ahead(rg))
    BY DEF InOrder
  <2>2. Ahead(s) \in 0 .. Numbers /\ 1 \in 0 .. Numbers /\ 1 + Ahead(s) <= Numbers
    BY <1>4, Small DEF Places
  <2>3. Ahead(rg) = 1 + Ahead(s)
    BY <1>4 DEF Places
  <2>. QED BY <2>1, <2>2, <2>3, NumberSum
<1>. QED BY <1>2, <1>5, <1>6 DEF InOrder, s

\* A key that is accepted during a flush is the last one since its store.
LEMMA PushRefill ==
    ASSUME NEW rg \in RingStates, NEW f \in KeyNumbers, Refilled(rg, f), Push(rg) # rg
    PROVE  Refilled(Stored(rg, f), NumberAfter(f, 1))
<1>. DEFINE s == Stored(rg, f)  h == rg.head  u == rg.tail  h1 == s.head
            g == NumberAfter(f, 1)
<1>0. /\ s \in RingStates /\ s.tail = u /\ s.buf = [rg.buf EXCEPT ![h] = f]
      /\ h1 = PlaceAfter(h, 1) /\ h1 # u
  BY StoredIs
<1>1. /\ h \in Places /\ u \in Places /\ h1 \in Places
      /\ rg.buf \in [Places -> 0 .. Numbers]
  BY <1>0 DEF RingStates
<1>2. h1 = IF h + 1 < KB_BUFFER_SIZE THEN h + 1 ELSE h + 1 - KB_BUFFER_SIZE
  BY <1>0, <1>1, Small, PlacePlus, ZenonT(40)
<1>3. u = 0 \/ h < u
  BY DEF Refilled
<1>4. g \in KeyNumbers
  <2>1. 1 \in 0 .. Numbers
    BY Small
  <2>. QED BY <2>1, NumberPlus
<1>5. ASSUME NEW i \in Places, i < h
      PROVE  rg.buf[i] = NumberAfter(f, Numbers - h + i)
  BY <1>5 DEF Refilled
<1>. HIDE DEF s, h, u, h1
<1>6. h1 = h + 1 /\ (u = 0 \/ h1 < u)
  BY <1>0, <1>1, <1>2, <1>3, ConsoleConstants DEF Places
<1>7. ASSUME NEW i \in Places, i < h1
      PROVE  s.buf[i] = NumberAfter(g, Numbers - h1 + i)
  <2>. DEFINE b == Numbers - h1 + i
  <2>1. /\ b \in 0 .. Numbers /\ 1 \in 0 .. Numbers /\ 1 + b <= Numbers
        /\ 1 + b = Numbers - h + i
    BY <1>1, <1>6, <1>7, Small DEF Places
  <2>. HIDE DEF b
  <2>2. NumberAfter(g, b) = NumberAfter(f, Numbers - h + i)
    BY <2>1, NumberSum
  <2>3. CASE i < h
    <3>1. i # h
      BY <1>1, <2>3 DEF Places
    <3>2. s.buf[i] = rg.buf[i]
      BY <1>0, <1>1, <3>1
    <3>. QED BY <1>5, <2>2, <2>3, <3>2 DEF b
  <2>4. CASE i = h
    <3>1. Numbers - h + i = Numbers /\ Numbers \in 0 .. Numbers /\ Numbers \in Nat
      BY <1>1, <2>4, Small, SMTT(30) DEF Places
    <3>2. NumberAfter(f, Numbers) = f
      BY <3>1, NumberPlus DEF KeyNumbers
    <3>3. s.buf[i] = f
      BY <1>0, <1>1, <2>4
    <3>. QED BY <2>2, <3>1, <3>2, <3>3 DEF b
  <2>. QED BY <1>1, <1>6, <1>7, <2>3, <2>4 DEF Places
<1>. QED BY <1>0, <1>6, <1>7, Zenon DEF Refilled, s, h1, u, g

\* When both stores are made, the ring holds the keys since the first of them.
LEMMA RefillDone ==
    ASSUME NEW rg \in RingStates, NEW f \in KeyNumbers, Refilled(rg, f), rg.tail = 0
    PROVE  /\ Numbers - Ahead(rg) \in 0 .. Numbers
           /\ InOrder(rg, NumberAfter(f, Numbers - Ahead(rg)), f)
<1>. DEFINE h == rg.head  d == NumberAfter(f, Numbers - h)
<1>1. h \in Places /\ Ahead(rg) = h
  <2>1. h \in Places
    BY DEF RingStates
  <2>. QED BY <2>1, AheadIs DEF Places
<1>2. Numbers - h \in 0 .. Numbers /\ Numbers \in Nat
  BY <1>1, Small DEF Places
<1>3. ASSUME NEW i \in 0 .. Numbers, i <= h
      PROVE  NumberAfter(d, i) = NumberAfter(f, Numbers - h + i)
  <2>. DEFINE b == Numbers - h
  <2>1. b \in 0 .. Numbers /\ b + i <= Numbers
    BY <1>1, <1>2, <1>3 DEF Places
  <2>. HIDE DEF b
  <2>. QED BY <2>1, NumberSum DEF b
<1>4. ASSUME NEW i \in Places, i < h
      PROVE  rg.buf[PlaceAfter(rg.tail, i)] = NumberAfter(d, i)
  <2>1. rg.buf[i] = NumberAfter(f, Numbers - h + i)
    BY <1>4 DEF Refilled
  <2>2. PlaceAfter(0, i) = i
    BY Small, PlacePlus DEF Places
  <2>3. i \in 0 .. Numbers /\ i <= h
    BY <1>1, <1>4, Small DEF Places
  <2>. QED BY <1>3, <2>1, <2>2, <2>3
<1>5. f = NumberAfter(d, h)
  <2>1. h \in 0 .. Numbers /\ h <= h /\ Numbers - h + h = Numbers /\ Numbers \in 0 .. Numbers
    BY <1>1, <1>2, Small DEF Places
  <2>2. NumberAfter(f, Numbers) = f
    BY <1>2, <2>1, NumberPlus DEF KeyNumbers
  <2>. QED BY <1>3, <2>1, <2>2
<1>. QED BY <1>1, <1>2, <1>4, <1>5 DEF InOrder

\* An empty ring is in order.
LEMMA EmptyOrder == EmptyRing \in RingStates /\ InOrder(EmptyRing, 0, 0)
<1>1. EmptyRing \in RingStates
  BY Small DEF EmptyRing, RingStates, old, Places
<1>2. EmptyRing.head = 0 /\ EmptyRing.tail = 0
  BY DEF EmptyRing
<1>3. Ahead(EmptyRing) = 0
  BY <1>1, <1>2, AheadIs
<1>4. NumberAfter(0, 0) = 0
  BY Small, NumberPlus
<1>. QED BY <1>1, <1>3, <1>4 DEF InOrder, Places

-----------------------------------------------------------------------------
(* Keys stay in order.                                                     *)

\* Between two stores of a flush, a ring whose head is stored fills again, and
\* one whose tail is stored starts at place 0.
HalfFlushed(r) ==
    /\ <<r, "head">> \notin stores => Refilled(ring[r], fresh[r])
    /\ <<r, "tail">> \notin stores => ring[r].tail = 0

\* The inductive invariant.
KeyInv ==
    /\ ring \in [Rings -> RingStates]
    /\ due \in [Rings -> KeyNumbers] /\ fresh \in [Rings -> KeyNumbers]
    /\ stores \subseteq FlushStores
    /\ stores # {} => pc = "up" /\ at \in {"edit_start", "edit_exit"}
    /\ stores = {} => \A r \in Rings : InOrder(ring[r], due[r], fresh[r])
    /\ stores # {} => \A r \in Rings : HalfFlushed(r)

\* Outside a flush, rings in order are all there is to show.
LEMMA OutsideFlush ==
    ASSUME ring' \in [Rings -> RingStates], due' \in [Rings -> KeyNumbers],
           fresh' \in [Rings -> KeyNumbers], stores' = {},
           \A r \in Rings : InOrder(ring'[r], due'[r], fresh'[r])
    PROVE  KeyInv'
BY Zenon DEF KeyInv

LEMMA NoKeysOrder ==
    /\ NoKeys \in [Rings -> RingStates] /\ Zero \in [Rings -> KeyNumbers]
    /\ \A r \in Rings : InOrder(NoKeys[r], Zero[r], Zero[r])
BY EmptyOrder, Small DEF NoKeys, Zero

LEMMA KeyInit == ConsoleInit => KeyInv
BY NoKeysOrder DEF ConsoleInit, KeyInv

LEMMA LostKeys == Lost => KeyInv'
BY NoKeysOrder, OutsideFlush, Zenon DEF Lost

\* A reader takes a key.
LEMMA PopKeys ==
    ASSUME KeyInv, NEW r \in Rings, Pop(r), stores = {}, stores' = {}
    PROVE  KeyInv'
<1>. DEFINE s == [ring[r] EXCEPT !.tail = PlaceAfter(ring[r].tail, 1)]
<1>0. /\ ring \in [Rings -> RingStates] /\ due \in [Rings -> KeyNumbers]
      /\ fresh \in [Rings -> KeyNumbers]
      /\ \A q \in Rings : InOrder(ring[q], due[q], fresh[q])
  BY Zenon DEF KeyInv
<1>1. ring[r] \in RingStates /\ due[r] \in KeyNumbers /\ fresh[r] \in KeyNumbers
  BY <1>0
<1>2. /\ Ahead(ring[r]) > 0
      /\ ring' = [ring EXCEPT ![r] = s]
      /\ due' = [due EXCEPT ![r] = NumberAfter(due[r], 1)]
      /\ fresh' = fresh
  BY Zenon DEF Pop, Popped, PlaceAfter, NumberAfter
<1>3. s \in RingStates /\ InOrder(s, NumberAfter(due[r], 1), fresh[r])
  BY <1>0, <1>1, <1>2, PopOrder, Zenon
<1>4. NumberAfter(due[r], 1) \in KeyNumbers
  BY <1>1, Small, NumberPlus, Zenon
<1>. HIDE DEF s
<1>. QED BY <1>0, <1>2, <1>3, <1>4, OutsideFlush

\* A key arrives, outside or inside a flush.
LEMMA IrqKeys ==
    ASSUME KeyInv, NEW rs \in SUBSET Rings, KeyIrq(rs)
    PROVE  KeyInv'
<1>0. /\ ring \in [Rings -> RingStates] /\ due \in [Rings -> KeyNumbers]
      /\ fresh \in [Rings -> KeyNumbers] /\ stores \subseteq FlushStores
      /\ stores # {} => pc = "up" /\ at \in {"edit_start", "edit_exit"}
      /\ stores = {} => \A r \in Rings : InOrder(ring[r], due[r], fresh[r])
      /\ stores # {} => \A r \in Rings : HalfFlushed(r)
  BY Zenon DEF KeyInv
<1>1. pc' = pc /\ due' = due /\ at' = at /\ stores' = stores
  BY DEF KeyIrq, user, vars
<1>. DEFINE acc(r) == r \in rs /\ Push(ring[r]) # ring[r]
<1>2. /\ ring' = [r \in Rings |-> IF acc(r) THEN Stored(ring[r], fresh[r]) ELSE ring[r]]
      /\ fresh' = [r \in Rings |-> IF acc(r) THEN NumberAfter(fresh[r], 1) ELSE fresh[r]]
  BY Zenon DEF KeyIrq, Stored, NumberAfter
<1>3. ASSUME NEW r \in Rings
      PROVE  /\ ring'[r] \in RingStates /\ fresh'[r] \in KeyNumbers
             /\ ring'[r].tail = ring[r].tail
             /\ InOrder(ring[r], due[r], fresh[r]) => InOrder(ring'[r], due[r], fresh'[r])
             /\ Refilled(ring[r], fresh[r]) => Refilled(ring'[r], fresh'[r])
  <2>1. /\ ring[r] \in RingStates /\ fresh[r] \in KeyNumbers /\ due[r] \in KeyNumbers
        /\ NumberAfter(fresh[r], 1) \in KeyNumbers
    BY <1>0, Small, NumberPlus, Zenon
  <2>2. CASE acc(r)
    <3>1. ring'[r] = Stored(ring[r], fresh[r]) /\ fresh'[r] = NumberAfter(fresh[r], 1)
      BY <1>2, <2>2, Zenon
    <3>2. Push(ring[r]) # ring[r]
      BY <2>2, SMTT(30)
    <3>3. ring'[r] \in RingStates /\ ring'[r].tail = ring[r].tail
      BY <2>1, <3>1, <3>2, StoredIs, ZenonT(60)
    <3>4. InOrder(ring[r], due[r], fresh[r]) => InOrder(ring'[r], due[r], fresh'[r])
      BY <2>1, <3>1, <3>2, PushOrder, Zenon
    <3>5. Refilled(ring[r], fresh[r]) => Refilled(ring'[r], fresh'[r])
      BY <2>1, <3>1, <3>2, PushRefill, Zenon
    <3>. QED BY <2>1, <3>1, <3>3, <3>4, <3>5
  <2>3. CASE ~acc(r)
    <3>1. ring'[r] = ring[r] /\ fresh'[r] = fresh[r]
      BY <1>2, <2>3, Zenon
    <3>. QED BY <2>1, <3>1
  <2>. QED BY <2>2, <2>3
<1>4. ring' \in [Rings -> RingStates] /\ fresh' \in [Rings -> KeyNumbers]
  <2>. HIDE DEF acc
  <2>. QED BY <1>2, <1>3, Zenon
<1>5. stores' = {} => \A r \in Rings : InOrder(ring'[r], due'[r], fresh'[r])
  BY <1>0, <1>1, <1>3, Zenon
<1>6. stores' # {} => \A r \in Rings : HalfFlushed(r)'
  BY <1>0, <1>1, <1>3 DEF HalfFlushed
<1>. QED BY <1>0, <1>1, <1>4, <1>5, <1>6 DEF KeyInv

\* The next program's turn starts with a flush.
LEMMA HandOverKeys ==
    ASSUME KeyInv, NEW r \in Rings, NEW next \in {"edit_start", "edit_exit"},
           HandOver(r, next), pc' = "up"
    PROVE  KeyInv'
<1>0. ring \in [Rings -> RingStates] /\ Popped(r) \in [Rings -> RingStates]
  <2>1. ring \in [Rings -> RingStates]
    BY DEF KeyInv
  <2>2. Popped(r) = [ring EXCEPT ![r] = [ring[r] EXCEPT !.tail = PlaceAfter(ring[r].tail, 1)]]
    BY Zenon DEF Popped, PlaceAfter
  <2>3. ring[r].tail \in Places
    BY <2>1 DEF RingStates
  <2>4. PlaceAfter(ring[r].tail, 1) \in Places
    BY <2>3, Small, PlacePlus, Zenon
  <2>. QED BY <2>1, <2>2, <2>4 DEF RingStates
<1>1. old \in 0 .. Numbers
  BY Small DEF old
<1>2. ring' \in [Rings -> RingStates]
  BY <1>0, <1>1, Zenon DEF HandOver, RingStates
<1>3. due' = Zero /\ fresh' = Zero /\ stores' = FlushStores /\ at' = next
  BY DEF HandOver
<1>4. ASSUME NEW q \in Rings PROVE HalfFlushed(q)' /\ FlushStores # {}
  <2>1. <<q, "head">> \in FlushStores /\ <<q, "tail">> \in FlushStores
    BY DEF FlushStores
  <2>. QED BY <1>3, <2>1 DEF HalfFlushed
<1>. QED BY <1>2, <1>3, <1>4, NoKeysOrder DEF KeyInv

\* One store of a flush, and after the last one the rings are in order again.
LEMMA FlushKeys ==
    ASSUME KeyInv, NEW x \in FlushStores, FlushStore(x)
    PROVE  KeyInv'
<1>0. /\ ring \in [Rings -> RingStates] /\ due \in [Rings -> KeyNumbers]
      /\ fresh \in [Rings -> KeyNumbers] /\ stores \subseteq FlushStores /\ stores # {}
      /\ at \in {"edit_start", "edit_exit"}
      /\ \A r \in Rings : HalfFlushed(r)
  BY Zenon DEF KeyInv, FlushStore
<1>1. /\ pc' = "up" /\ pc = "up" /\ fresh' = fresh /\ stores' = stores \ {x}
      /\ stores' # {} => due' = due /\ at' = at
  BY DEF FlushStore, vars
<1>2. PICK r \in Rings, e \in {"head", "tail"} : x = <<r, e>>
  BY DEF FlushStores
<1>3. /\ e = "head" => ring' = [ring EXCEPT ![r] = [ring[r] EXCEPT !.head = 0]]
      /\ e = "tail" => ring' = [ring EXCEPT ![r] = [ring[r] EXCEPT !.tail = 0]]
  BY <1>2, Zenon DEF FlushStore
<1>4. ring' \in [Rings -> RingStates]
  <2>1. 0 \in Places /\ ring[r] \in RingStates
    BY <1>0, Small
  <2>2. /\ [ring[r] EXCEPT !.head = 0] \in RingStates
        /\ [ring[r] EXCEPT !.tail = 0] \in RingStates
    BY <2>1 DEF RingStates
  <2>. QED BY <1>0, <1>3, <2>2
<1>5. ASSUME NEW q \in Rings PROVE HalfFlushed(q)'
  <2>0. /\ ring[q] \in RingStates /\ HalfFlushed(q) /\ ring[q].head \in Places
        /\ ring[q].tail \in Places
    BY <1>0, Zenon DEF RingStates
  <2>1. CASE q # r
    <3>1. /\ ring'[q] = ring[q]
          /\ <<q, "head">> \notin stores' => <<q, "head">> \notin stores
          /\ <<q, "tail">> \notin stores' => <<q, "tail">> \notin stores
      BY <1>0, <1>1, <1>2, <1>3, <2>1, Zenon
    <3>. QED BY <1>1, <2>0, <3>1 DEF HalfFlushed
  <2>2. CASE q = r /\ e = "head"
    <3>1. ring'[q] = [ring[q] EXCEPT !.head = 0]
      BY <1>0, <1>3, <2>2
    <3>2. ring'[q].head = 0 /\ ring'[q].tail = ring[q].tail
      BY <2>0, <3>1, Zenon DEF RingStates
    <3>3. Refilled(ring'[q], fresh'[q])
      BY <2>0, <3>2, ConsoleConstants DEF Refilled, Places
    <3>4. <<q, "tail">> \notin stores' => <<q, "tail">> \notin stores
      BY <1>1, <1>2, <2>2, Zenon
    <3>. QED BY <2>0, <3>2, <3>3, <3>4 DEF HalfFlushed
  <2>3. CASE q = r /\ e = "tail"
    <3>1. ring'[q] = [ring[q] EXCEPT !.tail = 0]
      BY <1>0, <1>3, <2>3
    <3>2. ring'[q].tail = 0 /\ ring'[q].head = ring[q].head /\ ring'[q].buf = ring[q].buf
      BY <2>0, <3>1, Zenon DEF RingStates
    <3>3. Refilled(ring[q], fresh[q]) => Refilled(ring'[q], fresh'[q])
      BY <1>1, <3>2 DEF Refilled
    <3>4. <<q, "head">> \notin stores' => <<q, "head">> \notin stores
      BY <1>1, <1>2, <2>3, Zenon
    <3>. QED BY <2>0, <3>2, <3>3, <3>4 DEF HalfFlushed
  <2>. QED BY <2>1, <2>2, <2>3
<1>6. CASE stores' # {}
  BY <1>0, <1>1, <1>4, <1>5, <1>6 DEF KeyInv
<1>7. CASE stores' = {}
  <2>1. ASSUME NEW q \in Rings
        PROVE  /\ due'[q] \in KeyNumbers /\ InOrder(ring'[q], due'[q], fresh'[q])
    <3>1. ring'[q] \in RingStates /\ fresh[q] \in KeyNumbers
      BY <1>0, <1>4
    <3>2. Refilled(ring'[q], fresh[q]) /\ ring'[q].tail = 0
      BY <1>1, <1>5, <1>7, Zenon DEF HalfFlushed
    <3>3. /\ Numbers - Ahead(ring'[q]) \in 0 .. Numbers
          /\ InOrder(ring'[q], NumberAfter(fresh[q], Numbers - Ahead(ring'[q])), fresh[q])
      BY <3>1, <3>2, RefillDone
    <3>4. due'[q] = (fresh[q] + Numbers - Ahead(ring'[q])) % Numbers
      BY <1>7, Zenon DEF FlushStore
    <3>5. fresh[q] + Numbers - Ahead(ring'[q]) = fresh[q] + (Numbers - Ahead(ring'[q]))
      BY <3>1, AheadIs, Small DEF KeyNumbers, Places
    <3>6. due'[q] = NumberAfter(fresh[q], Numbers - Ahead(ring'[q]))
      BY <3>4, <3>5, Zenon DEF NumberAfter
    <3>7. due'[q] \in KeyNumbers
      BY <3>1, <3>3, <3>6, NumberPlus
    <3>. QED BY <1>1, <3>3, <3>6, <3>7
  <2>2. due' \in [Rings -> KeyNumbers]
    <3>1. due' = [q \in Rings |-> due'[q]]
      BY <1>7 DEF FlushStore
    <3>. QED BY <2>1, <3>1
  <2>. QED BY <1>0, <1>1, <1>4, <1>7, <2>1, <2>2, OutsideFlush, Zenon
<1>. QED BY <1>6, <1>7

\* Every step of the console.
LEMMA KeyStep == KeyInv /\ [ConsoleNext]_<<vars, consoleVars>> => KeyInv'
<1>. SUFFICES ASSUME KeyInv, [ConsoleNext]_<<vars, consoleVars>> PROVE KeyInv'
  OBVIOUS
<1>0. /\ stores # {} => pc = "up" /\ at \in {"edit_start", "edit_exit"}
      /\ "kb" \in Rings /\ "raw" \in Rings
  BY DEF KeyInv, Rings
<1>1. CASE KeyIrq({"raw"}) \/ KeyIrq(Rings)
  <2>1. {"raw"} \in SUBSET Rings /\ Rings \in SUBSET Rings
    BY <1>0
  <2>. QED BY <1>1, <2>1, IrqKeys
<1>2. CASE \E s \in FlushStores : FlushStore(s)
  BY <1>2, FlushKeys
<1>3. CASE \E c \in {"ctrl_c", "backspace", "other"} : ReadLine(c)
  <2>1. Pop("kb") /\ stores = {} /\ stores' = {}
    BY <1>0, <1>3 DEF ReadLine
  <2>. QED BY <1>0, <2>1, PopKeys
<1>4. CASE Command
  <2>1. stores = {} /\ pc' = "up"
    BY <1>0, <1>4 DEF Command, vars
  <2>2. CASE Pop("kb") /\ stores' = stores
    BY <1>0, <2>1, <2>2, PopKeys
  <2>3. CASE HandOver("kb", "edit_start")
    BY <1>0, <2>1, <2>3, HandOverKeys
  <2>. QED BY <1>4, <2>2, <2>3 DEF Command
<1>5. CASE EditKey
  <2>1. Pop("raw") /\ stores = {} /\ stores' = {}
    BY <1>0, <1>5 DEF EditKey, user
  <2>. QED BY <1>0, <2>1, PopKeys
<1>6. CASE EditQuit
  <2>1. HandOver("raw", "edit_exit") /\ pc' = "up"
    BY <1>6 DEF EditQuit, vars
  <2>. QED BY <1>0, <2>1, HandOverKeys
<1>7. CASE Browse \/ KeyReboots \/ OpenShell
  <2>1. pc = "safe" /\ Pop("kb") /\ UNCHANGED user
    BY <1>7, Zenon
       DEF Browse, Screen, KeyReboots, RebootNormally, RebootKeepCounter, OpenShell
  <2>2. stores = {} /\ stores' = {}
    BY <1>0, <2>1 DEF user
  <2>. QED BY <1>0, <2>1, <2>2, PopKeys
<1>8. ASSUME UNCHANGED <<keyboard, user>>, pc = "up" => pc' = "up" PROVE KeyInv'
  BY <1>8 DEF keyboard, user, KeyInv, HalfFlushed
<1>9. CASE RebootReturned
  BY <1>8, <1>9 DEF RebootReturned, RebootFailed
<1>12. CASE \E i \in 1 .. 4, ok \in BOOLEAN : Tier2(i, ok)
  BY <1>8, <1>12, Zenon DEF Tier2, vars
<1>10. CASE Lost
  BY <1>10, LostKeys
<1>11. CASE /\ \/ \E ok \in BOOLEAN : BootRead(ok)
               \/ \E requested \in BOOLEAN : Decide(requested)
               \/ \E landed \in BOOLEAN :
                     CountWrite(landed) \/ CompleteWrite(landed) \/ AcknowledgeWrite(landed)
               \/ FirstRead
               \/ \E c \in Crashes, readOk, landed, ok \in BOOLEAN :
                     CrashSave(c, readOk, landed, ok)
               \/ Halt
            /\ UNCHANGED consoleVars
  <2>1. pc # "up"
    BY <1>11 DEF BootRead, Decide, CountWrite, CompleteWrite, AcknowledgeWrite, FirstRead,
                 CrashSave, Halt
  <2>. QED BY <1>8, <1>11, <2>1, Zenon DEF consoleVars
<1>13. CASE UNCHANGED <<vars, consoleVars>>
  BY <1>8, <1>13 DEF vars, consoleVars
<1>. QED BY <1>1, <1>2, <1>3, <1>4, <1>5, <1>6, <1>7, <1>9, <1>10, <1>11, <1>12, <1>13, Zenon
         DEF ConsoleNext

\* Outside a flush a ring holds exactly the keys accepted and not read yet, in
\* the order they were typed: through full rings, wrapped indices and keys that
\* arrive between any two stores of keyboard_flush in any order of its stores.
THEOREM KeysKeepOrder == ConsoleSpec => []KeysInOrder
<1>1. KeyInv => KeysInOrder
  <2>. SUFFICES ASSUME KeyInv, stores = {}, NEW r \in Rings
                PROVE  /\ Pending(r) = [i \in 1 .. Ahead(ring[r]) |-> (due[r] + i - 1) % Numbers]
                       /\ fresh[r] = (due[r] + Ahead(ring[r])) % Numbers
    BY DEF KeysInOrder
  <2>1. /\ ring[r] \in RingStates /\ due[r] \in KeyNumbers /\ ring[r].tail \in Places
        /\ InOrder(ring[r], due[r], fresh[r])
    BY DEF KeyInv, RingStates
  <2>2. Ahead(ring[r]) \in Places
    BY <2>1, AheadIs
  <2>3. ASSUME NEW i \in 1 .. Ahead(ring[r])
        PROVE  ring[r].buf[(ring[r].tail + i - 1) % KB_BUFFER_SIZE] = (due[r] + i - 1) % Numbers
    <3>1. i - 1 \in Places /\ i - 1 < Ahead(ring[r])
      BY <2>2, ConsoleConstants, SMTT(30) DEF Places
    <3>2. ring[r].buf[PlaceAfter(ring[r].tail, i - 1)] = NumberAfter(due[r], i - 1)
      BY <2>1, <3>1 DEF InOrder
    <3>3. /\ ring[r].tail + i - 1 = ring[r].tail + (i - 1)
          /\ due[r] + i - 1 = due[r] + (i - 1)
      BY <2>1, Small DEF Places, KeyNumbers
    <3>. QED BY <3>2, <3>3, Zenon DEF PlaceAfter, NumberAfter
  <2>4. fresh[r] = (due[r] + Ahead(ring[r])) % Numbers
    BY <2>1, Zenon DEF InOrder, NumberAfter
  <2>. QED BY <2>3, <2>4, Zenon DEF Pending
<1>. QED BY <1>1, KeyInit, KeyStep, PTL DEF ConsoleSpec
=============================================================================
