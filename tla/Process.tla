------------------------------ MODULE Process ------------------------------
(***************************************************************************)
(* The process table of NullOS (kernel/process.c) and the system calls     *)
(* that create, wait for and end processes (sys_fork, sys_exec,            *)
(* sys_exec_pipe, sys_wait, sys_exit and sys_kill in kernel/syscall.c).    *)
(*                                                                         *)
(* There is one CPU.  Every slot of the table has a kernel stack, so it    *)
(* carries a thread of control: pc[s] is where that thread stands inside a *)
(* system call ("user" when it is in ring 3), obj[s] and arg[s] are the    *)
(* slot and the pid it holds in local variables.  The syscall gate leaves  *)
(* interrupts on, so the timer may take the CPU away between any two steps *)
(* as long as the running slot is PROCESS_RUNNING; a cli/sti section is one *)
(* step.  Which READY slot runs next is left open here (module Scheduler   *)
(* has the round robin).                                                   *)
(***************************************************************************)
EXTENDS Integers

CONSTANTS
    PROCESS_MAX,  \* size of process_table
    MaxPid,       \* bound: pids handed out in one behaviour
    Ops           \* system calls the programs make, and failures that happen

None == -1
Slots == 0 .. PROCESS_MAX - 1
AllOps == {"fork", "exec", "exec_pipe", "wait", "kill", "no_memory", "row_full"}

ASSUME ConstantsAssumption ==
    /\ PROCESS_MAX \in Nat \ {0}
    /\ MaxPid \in Nat \ {0}
    /\ Ops \subseteq AllOps

VARIABLES
    state,            \* process_table[s].state
    pid,              \* process_table[s].pid
    waiting_for_pid,  \* process_table[s].waiting_for_pid
    next_pid,
    current,          \* current_process, None while the scheduler loop runs
    g_syscall_frame,  \* slot whose trap frame it points to
    pc, obj, arg,     \* the thread whose context process_table[s].esp names
    frame,            \* sys_fork's local copy: the slot whose frame it holds
    built             \* the slot is fully formed: esp, cr3, seeded fd row

table == <<state, pid, waiting_for_pid, next_pid>>
locals == <<pc, obj, arg, frame>>
vars == <<table, current, g_syscall_frame, locals, built>>

States == {"UNUSED", "READY", "RUNNING", "BLOCKED"}
PCs == {"user", "fork_entry", "fork_fields", "fork_copy", "fork_undo", "created",
        "spawn_fill", "seed_fds", "wait_check", "wait_blocked",
        "exit_enter", "exit_pid", "exit_wake"}

\* process_init, then kmain's exec("shell"): slot 0 is the shell, pid 1.
Init ==
    /\ state = [s \in Slots |-> IF s = 0 THEN "READY" ELSE "UNUSED"]
    /\ pid = [s \in Slots |-> IF s = 0 THEN 1 ELSE 0]
    /\ waiting_for_pid = [s \in Slots |-> 0]
    /\ next_pid = 2
    /\ current = None
    /\ g_syscall_frame = None
    /\ pc = [s \in Slots |-> "user"]
    /\ obj = [s \in Slots |-> None]
    /\ arg = [s \in Slots |-> 0]
    /\ frame = [s \in Slots |-> None]
    /\ built = [s \in Slots |-> s = 0]

Live(s) == state[s] # "UNUSED"
LivePid(p) == \E s \in Slots : Live(s) /\ pid[s] = p

\* Mutant of FreeSlot: a reserved slot counts as free.
FreeSlotTakesBlocked(i) ==
    /\ state[i] \in {"UNUSED", "BLOCKED"}
    /\ \A j \in Slots : j < i => state[j] \notin {"UNUSED", "BLOCKED"}

\* The first PROCESS_UNUSED slot: where a scan from index 0 stops.
FreeSlot(i) ==
    /\ state[i] = "UNUSED"
    /\ \A j \in Slots : j < i => state[j] # "UNUSED"

Running(s, where) == current = s /\ pc[s] = where

\* The system call of s returns to ring 3; its locals are gone.
Return(s) ==
    /\ pc' = [pc EXCEPT ![s] = "user"]
    /\ obj' = [obj EXCEPT ![s] = None]
    /\ arg' = [arg EXCEPT ![s] = 0]
    /\ frame' = [frame EXCEPT ![s] = None]

\* isr128: the program in slot s makes a system call.
Enter(s) ==
    /\ Running(s, "user")
    /\ g_syscall_frame' = s

-----------------------------------------------------------------------------
(* The scheduler, seen from the process table.                             *)

\* scheduler_run_once: a READY slot gets the CPU.
Dispatch(s) ==
    /\ current = None
    /\ state[s] = "READY"
    /\ state' = [state EXCEPT ![s] = "RUNNING"]
    /\ current' = s
    /\ UNCHANGED <<pid, waiting_for_pid, next_pid, g_syscall_frame, locals,
                   built>>

\* timer_callback (or sys_yield): only a RUNNING process is switched away.
Preempt(s) ==
    /\ current = s
    /\ state[s] = "RUNNING"
    /\ state' = [state EXCEPT ![s] = "READY"]
    /\ current' = None
    /\ UNCHANGED <<pid, waiting_for_pid, next_pid, g_syscall_frame, locals,
                   built>>

-----------------------------------------------------------------------------
(* Creating a process.                                                     *)

\* Mutant of SpawnClaim: the slot is published READY when it is claimed.
SpawnClaimReady(i) ==
    /\ FreeSlot(i)
    /\ next_pid <= MaxPid
    /\ state' = [state EXCEPT ![i] = "READY"]
    /\ pid' = [pid EXCEPT ![i] = next_pid]
    /\ next_pid' = next_pid + 1
    /\ waiting_for_pid' = [waiting_for_pid EXCEPT ![i] = 0]
    /\ built' = [built EXCEPT ![i] = FALSE]

\* The slot claim of process_spawn_user: scan and claim with interrupts off.
SpawnClaim(i) ==
    /\ FreeSlot(i)
    /\ next_pid <= MaxPid
    /\ state' = [state EXCEPT ![i] = "BLOCKED"]
    /\ pid' = [pid EXCEPT ![i] = next_pid]
    /\ next_pid' = next_pid + 1
    /\ waiting_for_pid' = [waiting_for_pid EXCEPT ![i] = 0]
    /\ built' = [built EXCEPT ![i] = FALSE]

\* Mutant of ForkClaim: next_pid is read but not advanced.
ForkClaimSamePid(i) ==
    /\ FreeSlot(i)
    /\ next_pid <= MaxPid
    /\ pid' = [pid EXCEPT ![i] = next_pid]
    /\ state' = [state EXCEPT ![i] = "BLOCKED"]
    /\ built' = [built EXCEPT ![i] = FALSE]
    /\ UNCHANGED <<waiting_for_pid, next_pid>>

\* The same claim in process_fork: waiting_for_pid keeps its old value.
ForkClaim(i) ==
    /\ FreeSlot(i)
    /\ next_pid <= MaxPid
    /\ pid' = [pid EXCEPT ![i] = next_pid]
    /\ state' = [state EXCEPT ![i] = "BLOCKED"]
    /\ next_pid' = next_pid + 1
    /\ built' = [built EXCEPT ![i] = FALSE]
    /\ UNCHANGED waiting_for_pid

\* isr128 stores g_syscall_frame and calls syscall_handler with interrupts on.
Fork(s) ==
    /\ "fork" \in Ops
    /\ Enter(s)
    /\ pc' = [pc EXCEPT ![s] = "fork_entry"]
    /\ UNCHANGED <<table, current, obj, arg, frame, built>>

\* sys_fork copies the frame g_syscall_frame names by then, and claims a slot.
ForkStart(s) ==
    /\ Running(s, "fork_entry")
    /\ \E i \in Slots :
          /\ ForkClaim(i)
          /\ obj' = [obj EXCEPT ![s] = i]
    /\ frame' = [frame EXCEPT ![s] = g_syscall_frame]
    /\ pc' = [pc EXCEPT ![s] = "fork_fields"]
    /\ UNCHANGED <<current, g_syscall_frame, arg>>

\* The table is full (or MaxPid is reached): fork returns -1.
ForkFull(s) ==
    /\ Running(s, "fork_entry")
    /\ next_pid > MaxPid \/ \A i \in Slots : Live(i)
    /\ Return(s)
    /\ UNCHANGED <<table, current, g_syscall_frame, built>>

\* process_fork fills the scalar fields of the child.
ForkFields(s) ==
    /\ Running(s, "fork_fields")
    /\ waiting_for_pid' = [waiting_for_pid EXCEPT ![obj[s]] = 0]
    /\ pc' = [pc EXCEPT ![s] = "fork_copy"]
    /\ UNCHANGED <<state, pid, next_pid, current, g_syscall_frame, obj, arg,
                   frame, built>>

\* The address space and the kernel stack are complete: child->state = READY.
ForkPublish(s) ==
    /\ Running(s, "fork_copy")
    /\ built' = [built EXCEPT ![obj[s]] = TRUE]
    /\ state' = [state EXCEPT ![obj[s]] = "READY"]
    /\ pc' = [pc EXCEPT ![obj[s]] = "user", ![s] = "created"]
    /\ UNCHANGED <<pid, waiting_for_pid, next_pid, current, g_syscall_frame,
                   obj, arg, frame>>

\* No page directory or no page for the copy: child->state = UNUSED ...
ForkFail(s) ==
    /\ "no_memory" \in Ops
    /\ Running(s, "fork_copy")
    /\ state' = [state EXCEPT ![obj[s]] = "UNUSED"]
    /\ pc' = [pc EXCEPT ![s] = "fork_undo"]
    /\ UNCHANGED <<pid, waiting_for_pid, next_pid, current, g_syscall_frame,
                   obj, arg, frame, built>>

\* ... and then child->pid = 0, a second store; fork returns -1.
ForkUndo(s) ==
    /\ Running(s, "fork_undo")
    /\ pid' = [pid EXCEPT ![obj[s]] = 0]
    /\ Return(s)
    /\ UNCHANGED <<state, waiting_for_pid, next_pid, current, g_syscall_frame,
                   built>>

\* sys_exec and sys_exec_pipe up to the claim: exec() has loaded the program.
\* pc tells the two apart only after the slot is filled.
Exec(s) ==
    /\ Ops \cap {"exec", "exec_pipe"} # {}
    /\ Enter(s)
    /\ \E i \in Slots :
          /\ SpawnClaim(i)
          /\ obj' = [obj EXCEPT ![s] = i]
    /\ pc' = [pc EXCEPT ![s] = "spawn_fill"]
    /\ UNCHANGED <<current, arg, frame>>

\* process_spawn_user fills the slot; READY unless start_blocked.
SpawnPublish(s, start_blocked) ==
    /\ IF start_blocked THEN "exec_pipe" \in Ops ELSE "exec" \in Ops
    /\ Running(s, "spawn_fill")
    /\ built' = [built EXCEPT ![obj[s]] = ~start_blocked]
    /\ state' = IF start_blocked THEN state
                ELSE [state EXCEPT ![obj[s]] = "READY"]
    /\ pc' = [pc EXCEPT ![obj[s]] = "user",
                        ![s] = IF start_blocked THEN "seed_fds" ELSE "created"]
    /\ UNCHANGED <<pid, waiting_for_pid, next_pid, current, g_syscall_frame,
                   obj, arg, frame>>

\* Mutant of MakeReady: the state test is inverted.
MakeReadyNever(s) ==
    /\ Running(s, "seed_fds")
    /\ built' = [built EXCEPT ![obj[s]] = TRUE]
    /\ pc' = [pc EXCEPT ![s] = "created"]
    /\ UNCHANGED <<table, current, g_syscall_frame, obj, arg, frame>>

\* sys_exec_pipe has seeded the fd row: process_make_ready.
MakeReady(s) ==
    /\ Running(s, "seed_fds")
    /\ state' = IF state[obj[s]] = "BLOCKED"
                THEN [state EXCEPT ![obj[s]] = "READY"] ELSE state
    /\ built' = [built EXCEPT ![obj[s]] = TRUE]
    /\ pc' = [pc EXCEPT ![s] = "created"]
    /\ UNCHANGED <<pid, waiting_for_pid, next_pid, current, g_syscall_frame,
                   obj, arg, frame>>

\* No free fd in the new row: sys_exec_pipe calls process_exit on the child.
SeedFail(s) ==
    /\ "row_full" \in Ops
    /\ Running(s, "seed_fds")
    /\ pc' = [pc EXCEPT ![s] = "exit_enter"]
    /\ UNCHANGED <<table, current, g_syscall_frame, obj, arg, frame, built>>

\* sys_fork, sys_exec or sys_exec_pipe returns child->pid, which it reads from the
\* table after the child may have run and ended.
Created(s) ==
    /\ Running(s, "created")
    /\ Return(s)
    /\ UNCHANGED <<table, current, g_syscall_frame, built>>

-----------------------------------------------------------------------------
(* Waiting for a process.                                                  *)

\* sys_wait(p) is entered; p is a pid that was handed out once.
Wait(s, p) ==
    /\ "wait" \in Ops
    /\ Enter(s)
    /\ p < next_pid
    /\ arg' = [arg EXCEPT ![s] = p]
    /\ pc' = [pc EXCEPT ![s] = "wait_check"]
    /\ UNCHANGED <<table, current, obj, frame, built>>

\* One cli/sti section: the pid is gone, sys_wait returns 0.
WaitReturn(s) ==
    /\ Running(s, "wait_check")
    /\ ~LivePid(arg[s])
    /\ Return(s)
    /\ UNCHANGED <<table, current, g_syscall_frame, built>>

\* Mutant of WaitBlock: it relies on a check made before the cli.
WaitBlockUnchecked(s) ==
    /\ Running(s, "wait_check")
    /\ waiting_for_pid' = [waiting_for_pid EXCEPT ![s] = arg[s]]
    /\ state' = [state EXCEPT ![s] = "BLOCKED"]
    /\ current' = None
    /\ pc' = [pc EXCEPT ![s] = "wait_blocked"]
    /\ UNCHANGED <<pid, next_pid, g_syscall_frame, obj, arg, frame, built>>

\* The same section when it is alive; scheduler_block_current follows, and no
\* other process runs before it because the state is no longer RUNNING.
WaitBlock(s) ==
    /\ Running(s, "wait_check")
    /\ LivePid(arg[s])
    /\ waiting_for_pid' = [waiting_for_pid EXCEPT ![s] = arg[s]]
    /\ state' = [state EXCEPT ![s] = "BLOCKED"]
    /\ current' = None
    /\ pc' = [pc EXCEPT ![s] = "wait_blocked"]
    /\ UNCHANGED <<pid, next_pid, g_syscall_frame, obj, arg, frame, built>>

\* Back from scheduler_block_current: clear waiting_for_pid and look again.
WaitResume(s) ==
    /\ Running(s, "wait_blocked")
    /\ waiting_for_pid' = [waiting_for_pid EXCEPT ![s] = 0]
    /\ pc' = [pc EXCEPT ![s] = "wait_check"]
    /\ UNCHANGED <<state, pid, next_pid, current, g_syscall_frame, obj, arg,
                   frame, built>>

-----------------------------------------------------------------------------
(* Ending a process.                                                       *)

\* Mutants of Waiters: "some process exited" wakes every waiter; an off-by-one
\* scan that misses the first slot.
WaitersOfAny(exited) ==
    {t \in Slots : state[t] = "BLOCKED" /\ waiting_for_pid[t] # 0}
WaitersFromOne(exited) ==
    {t \in Slots \ {0} : state[t] = "BLOCKED" /\ waiting_for_pid[t] = exited}

\* The slots process_exit wakes when exited is gone.
Waiters(exited) ==
    {t \in Slots : state[t] = "BLOCKED" /\ waiting_for_pid[t] = exited}

\* sys_exit: process_exit on itself, then scheduler_yield.  From the store of
\* PROCESS_UNUSED on, the timer no longer switches away: one step.  A process
\* that has killed itself finds process_exit's early return and only yields.
Exit(s) ==
    /\ Enter(s)
    /\ LET woken == IF Live(s) THEN Waiters(pid[s]) \ {s} ELSE {}
       IN /\ state' = [t \in Slots |-> IF t = s THEN "UNUSED"
                                       ELSE IF t \in woken THEN "READY"
                                       ELSE state[t]]
          /\ waiting_for_pid' = [t \in Slots |-> IF t \in woken THEN 0
                                                 ELSE waiting_for_pid[t]]
    /\ pid' = IF Live(s) THEN [pid EXCEPT ![s] = 0] ELSE pid
    /\ current' = None
    /\ UNCHANGED <<next_pid, locals, built>>

\* sys_kill(p): the scan finds slot v; process_exit(v) is about to start.
Kill(s, v) ==
    /\ "kill" \in Ops
    /\ Enter(s)
    /\ Live(v)
    /\ obj' = [obj EXCEPT ![s] = v]
    /\ pc' = [pc EXCEPT ![s] = "exit_enter"]
    /\ UNCHANGED <<table, current, arg, frame, built>>

\* process_exit on another slot: the early return, or the first two statements.
ExitEnter(s) ==
    /\ Running(s, "exit_enter")
    /\ IF Live(obj[s])
       THEN /\ arg' = [arg EXCEPT ![s] = pid[obj[s]]]
            /\ state' = [state EXCEPT ![obj[s]] = "UNUSED"]
            /\ pc' = [pc EXCEPT ![s] = "exit_pid"]
            /\ UNCHANGED <<obj, frame>>
       ELSE Return(s) /\ UNCHANGED state
    /\ UNCHANGED <<pid, waiting_for_pid, next_pid, current, g_syscall_frame,
                   built>>

\* process->pid = 0.
ExitPid(s) ==
    /\ Running(s, "exit_pid")
    /\ pid' = [pid EXCEPT ![obj[s]] = 0]
    /\ pc' = [pc EXCEPT ![s] = "exit_wake"]
    /\ UNCHANGED <<state, waiting_for_pid, next_pid, current, g_syscall_frame,
                   obj, arg, frame, built>>

\* The scan that wakes the waiters of the pid saved at the start.
ExitWake(s) ==
    /\ Running(s, "exit_wake")
    /\ state' = [t \in Slots |-> IF t \in Waiters(arg[s]) THEN "READY" ELSE state[t]]
    /\ waiting_for_pid' = [t \in Slots |-> IF t \in Waiters(arg[s]) THEN 0
                                           ELSE waiting_for_pid[t]]
    /\ Return(s)
    /\ UNCHANGED <<pid, next_pid, current, g_syscall_frame, built>>

-----------------------------------------------------------------------------
\* A step inside a system call: what a thread does once it has the CPU.
Continue(s) ==
    \/ ForkStart(s) \/ ForkFull(s) \/ ForkFields(s) \/ ForkPublish(s)
    \/ ForkFail(s) \/ ForkUndo(s)
    \/ \E b \in BOOLEAN : SpawnPublish(s, b)
    \/ MakeReady(s) \/ SeedFail(s) \/ Created(s)
    \/ WaitReturn(s) \/ WaitBlock(s) \/ WaitResume(s)
    \/ ExitEnter(s) \/ ExitPid(s) \/ ExitWake(s)

\* A call that leaves the process table alone: getpid, exec on a full table ...
OtherSyscall(s) ==
    /\ Enter(s)
    /\ UNCHANGED <<table, current, locals, built>>

\* A program in ring 3 makes a system call.
Syscall(s) ==
    \/ OtherSyscall(s)
    \/ Fork(s) \/ Exec(s) \/ Exit(s)
    \/ \E p \in 1 .. MaxPid : Wait(s, p)
    \/ \E v \in Slots : Kill(s, v)

Next == \E s \in Slots : Dispatch(s) \/ Preempt(s) \/ Continue(s) \/ Syscall(s)

Spec == Init /\ [][Next]_vars

\* Round robin gives a READY slot the CPU again and again, a time slice (10
\* ticks) ends, and it is long enough for a step of the system call s is in.
Fairness ==
    \A s \in Slots :
        SF_vars(Dispatch(s)) /\ WF_vars(Preempt(s)) /\ SF_vars(Continue(s))

FairSpec == Spec /\ Fairness

-----------------------------------------------------------------------------
(* What the process table promises.                                        *)

\* Type invariant of the table and of the threads' local state.
TypeOK ==
    /\ state \in [Slots -> States]
    /\ pid \in [Slots -> 0 .. MaxPid]
    /\ waiting_for_pid \in [Slots -> 0 .. MaxPid]
    /\ next_pid \in 2 .. MaxPid + 1
    /\ current \in Slots \cup {None}
    /\ g_syscall_frame \in Slots \cup {None}
    /\ pc \in [Slots -> PCs]
    /\ obj \in [Slots -> Slots \cup {None}]
    /\ arg \in [Slots -> 0 .. MaxPid]
    /\ frame \in [Slots -> Slots \cup {None}]
    /\ built \in [Slots -> BOOLEAN]

\* Two occupied slots never carry the same non-zero pid, whatever is killed or
\* fails: alloc_pid and the claims of process_spawn_user and process_fork.
DistinctPids ==
    \A s, t \in Slots :
        Live(s) /\ Live(t) /\ s # t /\ pid[s] # 0 => pid[s] # pid[t]

\* The scheduler never runs a slot whose esp, cr3 or redirected fds are not in
\* place (the BLOCKED reservation of process_fork and process_spawn_user).
OnlyBuiltRuns ==
    \A s \in Slots : state[s] \in {"READY", "RUNNING"} => built[s]

\* The thread of s holds slot i half made.
Builds(s, i) ==
    /\ Live(s)
    /\ obj[s] = i
    /\ pc[s] \in {"fork_fields", "fork_copy", "spawn_fill", "seed_fds"}

\* A reserved slot always has exactly one live process that will finish it: no
\* two claims take the same slot and none is forgotten.
OneBuilder ==
    \A i \in Slots :
        Live(i) /\ ~built[i] =>
            \E s \in Slots : Builds(s, i) /\ \A t \in Slots : Builds(t, i) => t = s

\* A process blocked in sys_wait waits for a pid that is still alive: an exit
\* between the check and the block is never missed.
NoLostWakeup ==
    \A s \in Slots :
        state[s] = "BLOCKED" /\ built[s] =>
            /\ pc[s] = "wait_blocked"
            /\ LivePid(waiting_for_pid[s])

\* sys_wait wakes for the exit of its own pid only, never for a sibling's.
WokenOnlyByTarget ==
    [][\A s \in Slots :
          pc[s] = "wait_blocked" /\ state[s] = "BLOCKED" /\ state'[s] # "BLOCKED"
              => LivePid(arg[s]) /\ ~LivePid(arg[s])']_vars

\* Once its target is gone sys_wait returns.
WaitReturns ==
    \A s \in Slots :
        pc[s] \in {"wait_check", "wait_blocked"} /\ ~LivePid(arg[s])
            ~> pc[s] = "user"

\* A claimed slot becomes a runnable process.
ClaimedRuns ==
    \A i \in Slots :
        Live(i) /\ ~built[i] ~> state[i] = "RUNNING"

\* docs/scheduler.md: sys_fork copies g_syscall_frame before anything that
\* could be preempted, so the frame a child resumes from is its parent's.
ForkCopiesOwnFrame ==
    \A s \in Slots : Builds(s, obj[s]) /\ frame[s] # None => frame[s] = s
=============================================================================
