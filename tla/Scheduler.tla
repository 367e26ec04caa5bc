----------------------------- MODULE Scheduler -----------------------------
(***************************************************************************)
(* The round-robin scheduler (kernel/scheduler.c), the timer interrupt     *)
(* that preempts (kernel/timer.c) and kmain's final loop                   *)
(*     for (;;) { scheduler_run_once(); sti; hlt; }                        *)
(* The loop and the processes share the CPU; loop says who has it and how  *)
(* far scheduler_run_once has come.  Interrupts are on everywhere, so a    *)
(* tick may arrive between any two steps.  The tick counter wraps at       *)
(* TickMod, as the code's uint32_t wraps at 2^32.                          *)
(***************************************************************************)
EXTENDS Integers

CONSTANTS
    PROCESS_MAX,    \* size of process_table
    PREEMPT_TICKS,  \* length of a time slice (10 in timer.c)
    TickMod,        \* 2^32 in the code
    SleepTicks,     \* arguments of scheduler_sleep_current: {1} in syscall.c
    Sleepers        \* the slots whose processes read the keyboard and sleep

None == -1
Slots == 0 .. PROCESS_MAX - 1

ASSUME SchedulerConstants ==
    /\ PROCESS_MAX \in Nat \ {0}
    /\ PREEMPT_TICKS \in Nat \ {0}
    /\ TickMod \in Nat /\ TickMod > PREEMPT_TICKS
    /\ SleepTicks \subseteq Nat \ {0}
    /\ Sleepers \subseteq Slots

VARIABLES
    state, wake_tick, ticks_run,   \* fields of process_table
    ticks,                         \* timer.c
    current, current_index,        \* current_process, scheduler.c's cursor
    loop,      \* "scan", "mark", "refresh", "process", "after", "hlt", "lost"
    esp,       \* esp[s]: whose stack process_table[s].esp points into
    sleep_now, \* sleep_now[s]: the ticks that s read in scheduler_sleep_current and
               \* has not used yet, or None
    held,      \* ticks the process on the CPU has had it
    bypassed,  \* bypassed[s]: dispatches of others since s became READY,
               \* counted up to PROCESS_MAX
    late       \* sleepers whose wake_tick was over when they stored it

sleep_vars == <<sleep_now, late>>

vars == <<state, wake_tick, ticks_run, ticks, current, current_index, loop, esp,
          held, bypassed, sleep_vars>>

States == {"UNUSED", "READY", "RUNNING", "SLEEPING", "BLOCKED"}

\* scheduler_init and the spawn of the shell in slot 0.
Init ==
    /\ state = [s \in Slots |-> IF s = 0 THEN "READY" ELSE "UNUSED"]
    /\ wake_tick = [s \in Slots |-> 0]
    /\ ticks_run = [s \in Slots |-> 0]
    /\ ticks \in 0 .. TickMod - 1
    /\ current = None
    /\ current_index = PROCESS_MAX - 1
    /\ loop = "scan"
    /\ esp = [s \in Slots |-> "own"]
    /\ held = 0
    /\ bypassed = [s \in Slots |-> 0]
    /\ sleep_now = [s \in Slots |-> None]
    /\ late = {}

Elapsed(now, since) == (now - since + TickMod) % TickMod

-----------------------------------------------------------------------------
(* scheduler_run_once, in kmain's loop.                                    *)

\* Distance of slot i from the cursor in scan order.
ScanOrder(i) == (i - current_index - 1 + PROCESS_MAX) % PROCESS_MAX

\* Mutant of NextReady: the scan starts at slot 0 instead of behind the cursor.
NextReadyFromZero(i) ==
    /\ state[i] = "READY"
    /\ \A j \in Slots : state[j] = "READY" => i <= j

\* Slot i is the first READY one from current_index + 1 on.
NextReady(i) ==
    /\ state[i] = "READY"
    /\ \A j \in Slots : state[j] = "READY" => ScanOrder(i) <= ScanOrder(j)

\* The scan picks a slot: current_index, process_set_current.
Select(i) ==
    /\ loop = "scan"
    /\ NextReady(i)
    /\ current_index' = i
    /\ current' = i
    /\ loop' = "mark"
    /\ bypassed' = [s \in Slots |-> IF s # i /\ state[s] = "READY" /\ bypassed[s] < PROCESS_MAX
                                    THEN bypassed[s] + 1 ELSE bypassed[s]]
    /\ UNCHANGED <<state, wake_tick, ticks_run, ticks, esp, held, sleep_vars>>

\* Nothing is READY: run_once returns and the loop halts.
Idle ==
    /\ loop = "scan"
    /\ \A s \in Slots : state[s] # "READY"
    /\ loop' = "hlt"
    /\ UNCHANGED <<state, wake_tick, ticks_run, ticks, current, current_index, esp,
                   held, bypassed, sleep_vars>>

\* process->state = PROCESS_RUNNING.
Mark ==
    /\ loop = "mark"
    /\ state' = [state EXCEPT ![current] = "RUNNING"]
    /\ bypassed' = [bypassed EXCEPT ![current] = 0]
    /\ loop' = "refresh"
    /\ UNCHANGED <<wake_tick, ticks_run, ticks, current, current_index, esp, held, sleep_vars>>

\* Mutant of Switch: the time slice is not restarted.
SwitchStale ==
    /\ loop = "refresh"
    /\ held' = 0
    /\ loop' = "process"
    /\ UNCHANGED <<state, wake_tick, ticks_run, ticks, current, current_index, esp,
                   bypassed, sleep_vars>>

\* process->ticks_run = timer_get_ticks(); context_switch to the process.
Switch ==
    /\ loop = "refresh"
    /\ ticks_run' = [ticks_run EXCEPT ![current] = ticks]
    /\ held' = 0
    /\ loop' = "process"
    /\ UNCHANGED <<state, wake_tick, ticks, current, current_index, esp, bypassed, sleep_vars>>

\* Back in scheduler_run_once: process_set_current(0), then sti; hlt.
After ==
    /\ loop = "after"
    /\ state' = [state EXCEPT ![current] = IF @ = "RUNNING" THEN "READY" ELSE @]
    /\ current' = None
    /\ loop' = "hlt"
    /\ held' = 0
    /\ UNCHANGED <<wake_tick, ticks_run, ticks, current_index, esp, bypassed, sleep_vars>>

LoopStep == (\E i \in Slots : Select(i)) \/ Idle \/ Mark \/ Switch \/ After

-----------------------------------------------------------------------------
(* The process on the CPU.                                                 *)

\* switch_back_to_scheduler with the state the caller has just stored.
Leave(s, st) ==
    /\ loop = "process"
    /\ current = s
    /\ state' = [state EXCEPT ![s] = st]
    /\ loop' = "after"

\* scheduler_yield: a state other than RUNNING is left as it is.
Yield(s) ==
    /\ Leave(s, IF state[s] = "RUNNING" THEN "READY" ELSE state[s])
    /\ UNCHANGED <<wake_tick, ticks_run, ticks, current, current_index, esp, held,
                   bypassed, sleep_vars>>

\* scheduler_sleep_current reads timer_get_ticks() for process_sleep.
SleepRead(s) ==
    /\ s \in Sleepers
    /\ loop = "process"
    /\ current = s
    /\ sleep_now' = [sleep_now EXCEPT ![s] = ticks]
    /\ UNCHANGED <<state, wake_tick, ticks_run, ticks, current, current_index, loop,
                   esp, held, bypassed, late>>

\* process_sleep with the ticks read before, then switch_back_to_scheduler.  An
\* UNUSED slot is left alone.  Ticks may have come since the read, and even the
\* slice may have ended.
SleepStore(s, n) ==
    /\ Leave(s, IF state[s] = "UNUSED" THEN "UNUSED" ELSE "SLEEPING")
    /\ wake_tick' = IF state[s] = "UNUSED" THEN wake_tick
                    ELSE [wake_tick EXCEPT ![s] = (sleep_now[s] + n) % TickMod]
    /\ late' = IF state[s] # "UNUSED" /\ Elapsed(ticks, sleep_now[s]) >= n
               THEN late \cup {s} ELSE late
    /\ sleep_now' = [sleep_now EXCEPT ![s] = None]
    /\ UNCHANGED <<ticks_run, ticks, current, current_index, esp, held, bypassed>>

\* A wait on a pid, a pipe or the disk: BLOCKED, then scheduler_block_current.
Block(s) ==
    /\ Leave(s, "BLOCKED")
    /\ UNCHANGED <<wake_tick, ticks_run, ticks, current, current_index, esp, held,
                   bypassed, sleep_vars>>

\* sys_exit: process_exit, then scheduler_yield.
Exit(s) ==
    /\ Leave(s, "UNUSED")
    /\ UNCHANGED <<wake_tick, ticks_run, ticks, current, current_index, esp, held,
                   bypassed, sleep_vars>>

\* sys_kill on the own pid: process_exit, and the call returns to ring 3.
KillSelf(s) ==
    /\ loop = "process"
    /\ current = s
    /\ state[s] = "RUNNING"
    /\ state' = [state EXCEPT ![s] = "UNUSED"]
    /\ UNCHANGED <<wake_tick, ticks_run, ticks, current, current_index, loop, esp,
                   held, bypassed, sleep_vars>>

\* The running process makes another one READY: a new one or one it wakes.
MakeReady(s, t) ==
    /\ loop = "process"
    /\ current = s
    /\ state[t] \in {"UNUSED", "BLOCKED"}
    /\ state' = [state EXCEPT ![t] = "READY"]
    /\ ticks_run' = IF state[t] = "UNUSED" THEN [ticks_run EXCEPT ![t] = 0]
                    ELSE ticks_run
    /\ UNCHANGED <<wake_tick, ticks, current, current_index, loop, esp, held, bypassed, sleep_vars>>

\* A process in the middle of scheduler_sleep_current goes on with it.
ProcessStep(s) ==
    \/ /\ sleep_now[s] = None
       /\ \/ Yield(s) \/ SleepRead(s) \/ Block(s) \/ Exit(s) \/ KillSelf(s)
          \/ \E t \in Slots : MakeReady(s, t)
    \/ /\ sleep_now[s] # None
       /\ \E n \in SleepTicks : SleepStore(s, n)

-----------------------------------------------------------------------------
(* Interrupts.                                                             *)

\* Any interrupt ends the hlt.
AfterIrq == IF loop = "hlt" THEN "scan" ELSE loop

\* Mutant of Woken: a sleeper needs one tick more.
WokenLate(now) == {s \in Slots : state[s] = "SLEEPING" /\ now > wake_tick[s]}

\* process_wake_sleepers: whom the tick finds due.
Woken(now) == {s \in Slots : state[s] = "SLEEPING" /\ now >= wake_tick[s]}

\* Mutant of SliceOver: a comparison that does not survive the wrap.
SliceOverNoWrap(now) ==
    /\ current # None
    /\ state[current] = "RUNNING"
    /\ now >= ticks_run[current] + PREEMPT_TICKS

\* timer_callback's test.
SliceOver(now) ==
    /\ current # None
    /\ state[current] = "RUNNING"
    /\ Elapsed(now, ticks_run[current]) >= PREEMPT_TICKS

\* timer_callback: scheduler_tick, then scheduler_yield if the slice is over.
\* On the stack of a process that switches it away.  On the stack of the loop
\* (between RUNNING and context_switch) it stores the loop's own stack pointer
\* in the process and jumps to the scheduler_esp of an earlier dispatch.
\* (A wake_tick is not read again once its sleeper is awake: it goes to 0.)
Tick ==
    /\ loop # "lost"
    /\ LET now == (ticks + 1) % TickMod
           yield == SliceOver(now)
       IN /\ ticks' = now
          /\ state' = [s \in Slots |-> IF s \in Woken(now) THEN "READY"
                                       ELSE IF yield /\ s = current THEN "READY"
                                       ELSE state[s]]
          /\ loop' = IF ~yield THEN AfterIrq
                     ELSE IF loop = "process" THEN "after" ELSE "lost"
          /\ esp' = IF yield /\ loop # "process"
                    THEN [esp EXCEPT ![current] = "scheduler"] ELSE esp
          /\ wake_tick' = [s \in Slots |-> IF s \in Woken(now) THEN 0 ELSE wake_tick[s]]
          /\ late' = late \ Woken(now)
          /\ held' = IF loop = "process" /\ held < TickMod THEN held + 1 ELSE held
    /\ UNCHANGED <<ticks_run, current, current_index, bypassed, sleep_now>>

\* Keyboard or disk interrupt; the disk's may make a BLOCKED process READY.
DeviceIrq(w) ==
    /\ loop # "lost"
    /\ w # None => state[w] = "BLOCKED"
    /\ state' = IF w = None THEN state ELSE [state EXCEPT ![w] = "READY"]
    /\ loop' = AfterIrq
    /\ UNCHANGED <<wake_tick, ticks_run, ticks, current, current_index, esp, held,
                   bypassed, sleep_vars>>

Irq == Tick \/ \E w \in Slots \cup {None} : DeviceIrq(w)

-----------------------------------------------------------------------------
Next == LoopStep \/ (\E s \in Slots : ProcessStep(s)) \/ Irq

\* The loop's code runs on, and the PIT keeps ticking.  Programs and devices
\* owe nothing.
Spec == Init /\ [][Next]_vars /\ WF_vars(LoopStep) /\ WF_vars(Tick)

-----------------------------------------------------------------------------
\* Type invariant.
TypeOK ==
    /\ state \in [Slots -> States]
    /\ wake_tick \in [Slots -> 0 .. TickMod - 1]
    /\ ticks_run \in [Slots -> 0 .. TickMod - 1]
    /\ ticks \in 0 .. TickMod - 1
    /\ current \in Slots \cup {None}
    /\ current_index \in Slots
    /\ loop \in {"scan", "mark", "refresh", "process", "after", "hlt", "lost"}
    /\ esp \in [Slots -> {"own", "scheduler"}]
    /\ held \in 0 .. TickMod
    /\ bypassed \in [Slots -> 0 .. PROCESS_MAX]
    /\ sleep_now \in [Slots -> (0 .. TickMod - 1) \cup {None}]
    /\ late \subseteq Slots

\* A process that never gives the CPU up keeps it for fewer than PREEMPT_TICKS
\* ticks before the one that takes it away, also when ticks wraps around.
SliceBounded ==
    loop = "process" /\ state[current] = "RUNNING" => held < PREEMPT_TICKS

\* timer_callback takes the CPU away only at the end of a full slice.
FullSlice ==
    [][loop = "process" /\ loop' = "after" /\ ticks' # ticks => held' = PREEMPT_TICKS]_vars

\* A process that sleeps for one tick is READY after the next one, also when the
\* counter wraps there, if no tick came between scheduler_sleep_current's read of
\* the counter and process_sleep's store of the deadline.  After such a tick the
\* deadline is over when it is stored; if the counter wraps before the next tick,
\* now >= wake_tick stays false until the counter comes round to it.
SleepOneTick ==
    [][ticks' # ticks => \A s \in Slots : state'[s] = "SLEEPING" => s \in late]_vars

\* Round robin: every other slot is dispatched at most once before a READY one.
BoundedBypass == \A s \in Slots : bypassed[s] < PROCESS_MAX

\* The CPU is out of the timer's reach: the process on it has killed itself and
\* is not RUNNING any more, or the loop's own stack was switched away.
Derailed == loop = "lost" \/ (loop = "process" /\ state[current] # "RUNNING")

\* Every READY process gets its turn, unless the CPU is out of the timer's reach.
TurnComes ==
    \A s \in Slots : state[s] = "READY" ~> state[s] = "RUNNING" \/ Derailed

\* The comment in timer_callback: the yield from the timer interrupt always
\* happens on the stack of the process it switches away.
StackIntact == \A s \in Slots : esp[s] = "own"
=============================================================================
